------------------------------ MODULE Induction ------------------------------
(***************************************************************************)
(* Induction over the natural numbers, for a set instead of a predicate,   *)
(* and what follows from it for the folds of the community modules, which  *)
(* are recursive functions on the subsets of a domain, and for recursive   *)
(* functions that go over a sequence.  Then what append and concatenation  *)
(* make of sequences, in the forms that proofs about parsers need.         *)
(***************************************************************************)
EXTENDS Integers, Sequences, SequencesExt, WellFoundedInduction, SequenceTheorems, TLAPS

\* A set with 0 and the successors of its members has every number.
LEMMA Induct ==
  ASSUME NEW S, 0 \in S, \A n \in Nat : n \in S => n + 1 \in S
  PROVE  \A n \in Nat : n \in S
<1> DEFINE T == Nat \ S
           R == {ss \in Nat \X Nat : ss[1] < ss[2]}
<1>1. IsWellFoundedOn(R, Nat)
  <2>1. R = OpToRel(<, Nat)
    BY DEF OpToRel
  <2> QED
    BY <2>1, NatLessThanWellFounded
<1>2. \A i, j \in Nat : i < j => <<i, j>> \in R
  OBVIOUS
<1>3. SUFFICES ASSUME T # {} PROVE FALSE
  OBVIOUS
<1>4. T \subseteq Nat
  OBVIOUS
<1> HIDE DEF T, R
<1>5. PICK x \in T : \A y \in T : ~ (<<y, x>> \in R)
  BY <1>1, <1>3, <1>4, WFMin
<1>6. x \in Nat /\ x # 0
  BY <1>4 DEF T
<1>7. PICK y \in Nat : y = x - 1
  BY <1>6
<1>8. <<y, x>> \in R
  BY <1>2, <1>6, <1>7
<1>9. y \in S
  BY <1>5, <1>8 DEF T
<1> QED
  BY <1>6, <1>7, <1>9 DEF T

\* Max finds the greatest member of a set of numbers up to n.
LEMMA MaxFound ==
  ASSUME NEW n \in Nat, NEW s \in SUBSET (1..n), s # {}
  PROVE  Max(s) \in s /\ \A y \in s : y <= Max(s)
<1> DEFINE S == {m \in Nat : \A t \in SUBSET (1..m) : t # {} => \E x \in t : \A y \in t : x >= y}
<1>1. 0 \in S
  <2>1. \A t \in SUBSET (1..0) : t = {}
    OBVIOUS
  <2> QED
    BY <2>1
<1>2. ASSUME NEW m \in Nat, m \in S PROVE m + 1 \in S
  <2> SUFFICES ASSUME NEW t \in SUBSET (1..(m + 1)), t # {}
               PROVE  \E x \in t : \A y \in t : x >= y
    OBVIOUS
  <2>1. CASE m + 1 \in t
    BY <2>1
  <2>2. CASE m + 1 \notin t
    <3>1. t \in SUBSET (1..m)
      BY <2>2
    <3> QED
      BY <1>2, <3>1
  <2> QED
    BY <2>1, <2>2
<1> HIDE DEF S
<1>3. n \in S
  BY <1>1, <1>2, Induct
<1>4. \E x \in s : \A y \in s : x >= y
  BY <1>3 DEF S
<1>5. Max(s) \in s /\ \A y \in s : Max(s) >= y
  BY <1>4 DEF Max
<1> QED
  BY <1>5

LEMMA MaxIs ==
  ASSUME NEW n \in Nat, NEW s \in SUBSET (1..n), n \in s
  PROVE  Max(s) = n
<1>1. s # {}
  OBVIOUS
<1>2. PICK x : x = Max(s)
  OBVIOUS
<1>3. x \in s /\ n <= x
  BY <1>1, <1>2, MaxFound
<1>4. x \in 1..n
  BY <1>3
<1> QED
  BY <1>2, <1>3, <1>4

\* The positions up to k, of which k is the last.
LEMMA Prefix ==
  ASSUME NEW n \in Nat, NEW k \in 1..n
  PROVE  /\ 1..k \in SUBSET (1..n) /\ 1..k # {} /\ Max(1..k) = k
         /\ (1..k) \ {k} = 1..(k - 1) /\ k - 1 \in 0..n /\ k \in 0..n
<1>1. k \in Nat /\ k \in 1..k /\ 1..k \in SUBSET (1..k) /\ 1..k \in SUBSET (1..n)
  OBVIOUS
<1>2. Max(1..k) = k
  BY <1>1, MaxIs
<1>3. (1..k) \ {k} = 1..(k - 1)
  OBVIOUS
<1>4. k - 1 \in 0..n /\ k \in 0..n
  OBVIOUS
<1> QED
  BY <1>1, <1>2, <1>3, <1>4

(***************************************************************************)
(* The function that a fold from the left is defined by: step takes the    *)
(* result so far and a position.                                           *)
(***************************************************************************)
FoldsBy(g, B, base, step, n) ==
  /\ g \in [SUBSET (1..n) -> B]
  /\ \A s \in SUBSET (1..n) : g[s] = IF s = {} THEN base ELSE step[<<g[s \ {Max(s)}], Max(s)>>]

\* There is such a function.
LEMMA FoldExists ==
  ASSUME NEW B, NEW base \in B, NEW step \in [B \X Nat -> B], NEW n \in Nat
  PROVE  \E g : FoldsBy(g, B, base, step, n)
<1> DEFINE Eq(g, m) ==
             \A s \in SUBSET (1..m) :
               g[s] = IF s = {} THEN base ELSE step[<<g[s \ {Max(s)}], Max(s)>>]
           S == {m \in Nat : \E g \in [SUBSET (1..m) -> B] : Eq(g, m)}
<1>1. 0 \in S
  <2> DEFINE g == [s \in SUBSET (1..0) |-> base]
  <2>1. \A s \in SUBSET (1..0) : s = {} /\ g[s] = base
    OBVIOUS
  <2>2. g \in [SUBSET (1..0) -> B] /\ Eq(g, 0)
    BY <2>1
  <2> QED
    BY <2>2
<1>2. ASSUME NEW m \in Nat, m \in S PROVE m + 1 \in S
  <2>1. PICK g \in [SUBSET (1..m) -> B] : Eq(g, m)
    BY <1>2
  <2> DEFINE h == [s \in SUBSET (1..(m + 1)) |->
                     IF m + 1 \in s THEN step[<<g[s \ {m + 1}], m + 1>>] ELSE g[s]]
  <2>2. ASSUME NEW s \in SUBSET (1..(m + 1))
        PROVE  /\ m + 1 \in s => /\ s \ {m + 1} \in SUBSET (1..m) /\ Max(s) = m + 1
                                 /\ h[s] = step[<<h[s \ {m + 1}], m + 1>>]
               /\ m + 1 \notin s => s \in SUBSET (1..m) /\ h[s] = g[s]
    <3>1. CASE m + 1 \in s
      <4>1. s \ {m + 1} \in SUBSET (1..m) /\ s \ {m + 1} \in SUBSET (1..(m + 1))
        OBVIOUS
      <4>2. Max(s) = m + 1
        BY <3>1, MaxIs
      <4>3. h[s \ {m + 1}] = g[s \ {m + 1}]
        BY <4>1
      <4>4. h[s] = step[<<g[s \ {m + 1}], m + 1>>]
        BY <3>1
      <4> QED
        BY <3>1, <4>1, <4>2, <4>3, <4>4
    <3>2. CASE m + 1 \notin s
      BY <3>2
    <3> QED
      BY <3>1, <3>2
  <2>3. h \in [SUBSET (1..(m + 1)) -> B]
    <3>1. ASSUME NEW s \in SUBSET (1..(m + 1))
          PROVE  (IF m + 1 \in s THEN step[<<g[s \ {m + 1}], m + 1>>] ELSE g[s]) \in B
      <4>1. CASE m + 1 \in s
        <5>1. s \ {m + 1} \in SUBSET (1..m)
          OBVIOUS
        <5>2. g[s \ {m + 1}] \in B
          BY <5>1
        <5> QED
          BY <4>1, <5>2
      <4>2. CASE m + 1 \notin s
        <5>1. s \in SUBSET (1..m)
          BY <4>2
        <5> QED
          BY <4>2, <5>1
      <4> QED
        BY <4>1, <4>2
    <3> QED
      BY <3>1
  <2> HIDE DEF h
  <2>4. ASSUME NEW s \in SUBSET (1..(m + 1))
        PROVE  h[s] = IF s = {} THEN base ELSE step[<<h[s \ {Max(s)}], Max(s)>>]
    <3>1. CASE m + 1 \in s
      BY <2>2, <3>1
    <3>2. CASE m + 1 \notin s /\ s # {}
      <4>1. s \in SUBSET (1..m) /\ h[s] = g[s]
        BY <2>2, <3>2
      <4>2. /\ s \ {Max(s)} \in SUBSET (1..m) /\ m + 1 \notin s \ {Max(s)}
            /\ s \ {Max(s)} \in SUBSET (1..(m + 1))
        BY <4>1, <3>2
      <4>3. h[s \ {Max(s)}] = g[s \ {Max(s)}]
        BY <2>2, <4>2
      <4> QED
        BY <2>1, <3>2, <4>1, <4>3
    <3>3. CASE s = {}
      BY <2>1, <2>2, <3>3
    <3> QED
      BY <3>1, <3>2, <3>3
  <2>5. Eq(h, m + 1)
    BY <2>4
  <2> HIDE DEF Eq
  <2> QED
    BY <2>3, <2>5
<1> HIDE DEF S
<1>3. n \in S
  BY <1>1, <1>2, Induct
<1> QED
  BY <1>3 DEF S, FoldsBy
-----------------------------------------------------------------------------
\* A set of numbers that is not empty has a least member.
LEMMA LeastFound ==
  ASSUME NEW s \in SUBSET Nat, s # {}
  PROVE  \E x \in s : \A y \in s : x <= y
<1> DEFINE S == {m \in Nat : \A x \in s : x >= m}
<1> SUFFICES ASSUME \A x \in s : \E y \in s : ~(x <= y) PROVE FALSE
  OBVIOUS
<1>1. 0 \in S
  OBVIOUS
<1>2. ASSUME NEW m \in Nat, m \in S PROVE m + 1 \in S
  <2>1. m \notin s
    BY <1>2
  <2> QED
    BY <1>2, <2>1
<1> HIDE DEF S
<1>3. \A m \in Nat : m \in S
  BY <1>1, <1>2, Induct
<1>4. PICK x \in s : TRUE
  OBVIOUS
<1>5. x + 1 \in S
  BY <1>3, <1>4
<1> QED
  BY <1>5 DEF S

\* A set of sequences with the empty one and all that its members extend to
\* has every sequence.
LEMMA SeqInduct ==
  ASSUME NEW E, NEW S, <<>> \in S,
         \A s \in Seq(E), e \in E : s \in S => Append(s, e) \in S
  PROVE  \A s \in Seq(E) : s \in S
<1> DEFINE T == {m \in Nat : \A s \in Seq(E) : Len(s) = m => s \in S}
<1>1. 0 \in T
  <2>1. \A s \in Seq(E) : Len(s) = 0 => s = <<>>
    OBVIOUS
  <2> QED
    BY <2>1
<1>2. ASSUME NEW m \in Nat, m \in T PROVE m + 1 \in T
  <2> SUFFICES ASSUME NEW s \in Seq(E), Len(s) = m + 1 PROVE s \in S
    OBVIOUS
  <2>1. PICK t \in Seq(E) : t = SubSeq(s, 1, m)
    <3>1. SubSeq(s, 1, m) \in Seq(E)
      OBVIOUS
    <3> QED
      BY <3>1
  <2>2. Len(t) = m /\ s[m + 1] \in E /\ s = Append(t, s[m + 1])
    BY <2>1
  <2>3. t \in S
    BY <1>2, <2>2
  <2> QED
    BY <2>2, <2>3
<1> HIDE DEF T
<1>3. \A m \in Nat : m \in T
  BY <1>1, <1>2, Induct
<1> QED
  BY <1>3 DEF T

\* Two functions that a step takes from equal values to equal values.
InStep(f, g, n) ==
  /\ f[0] = g[0]
  /\ \A k \in 1..n : f[k - 1] = g[k - 1] => f[k] = g[k]

LEMMA RunsAgree ==
  ASSUME NEW n \in Nat, NEW f, NEW g, InStep(f, g, n)
  PROVE  \A k \in 0..n : f[k] = g[k]
<1> DEFINE S == {m \in Nat : m <= n => f[m] = g[m]}
<1>1. 0 \in S
  BY DEF InStep
<1>2. ASSUME NEW m \in Nat, m \in S PROVE m + 1 \in S
  <2> SUFFICES ASSUME m + 1 <= n PROVE f[m + 1] = g[m + 1]
    OBVIOUS
  <2>1. m + 1 \in 1..n /\ (m + 1) - 1 = m /\ f[m] = g[m]
    BY <1>2
  <2> QED
    BY <2>1 DEF InStep
<1> HIDE DEF S
<1>3. \A m \in Nat : m \in S
  BY <1>1, <1>2, Induct
<1> QED
  BY <1>3 DEF S

(***************************************************************************)
(* The values that step, a function of the value so far and of the next    *)
(* item, goes through from base over a sequence of items.                  *)
(***************************************************************************)
RunsBy(r, B, base, step, items) ==
  /\ r \in [0..Len(items) -> B]
  /\ r[0] = base
  /\ \A k \in 1..Len(items) : r[k] = step[<<r[k - 1], items[k]>>]

\* There are such values, and the next item takes them one step further.
LEMMA RunExists ==
  ASSUME NEW B, NEW E, NEW base \in B, NEW step \in [B \X E -> B]
  PROVE  \A items \in Seq(E) : \E r : RunsBy(r, B, base, step, items)
<1> DEFINE S == {items \in Seq(E) : \E r : RunsBy(r, B, base, step, items)}
<1>1. <<>> \in S
  <2>1. RunsBy([k \in 0..0 |-> base], B, base, step, <<>>)
    BY DEF RunsBy
  <2> QED
    BY <2>1
<1>2. ASSUME NEW s \in Seq(E), NEW e \in E, s \in S PROVE Append(s, e) \in S
  <2>1. PICK r : RunsBy(r, B, base, step, s)
    BY <1>2
  <2> DEFINE n == Len(s)
             q == [k \in 0..(n + 1) |-> IF k = n + 1 THEN step[<<r[n], e>>] ELSE r[k]]
  <2>2. n \in Nat /\ Len(Append(s, e)) = n + 1 /\ Append(s, e)[n + 1] = e
    OBVIOUS
  <2>3. \A k \in 1..n : Append(s, e)[k] = s[k]
    OBVIOUS
  <2> HIDE DEF n
  <2>4. r \in [0..n -> B] /\ r[n] \in B
    BY <2>1, <2>2 DEF RunsBy, n
  <2>5. q \in [0..(n + 1) -> B]
    <3>1. step[<<r[n], e>>] \in B
      BY <2>4
    <3> QED
      BY <2>2, <2>4, <3>1
  <2>6. q[n + 1] = step[<<r[n], e>>] /\ \A k \in 0..n : q[k] = r[k]
    BY <2>2
  <2>7. q[0] = base
    BY <2>1, <2>2, <2>6 DEF RunsBy
  <2> HIDE DEF q
  <2>8. ASSUME NEW k \in 1..(n + 1) PROVE q[k] = step[<<q[k - 1], Append(s, e)[k]>>]
    <3>1. CASE k = n + 1
      <4>1. k - 1 = n /\ q[k - 1] = r[n]
        BY <2>2, <2>6, <3>1
      <4> QED
        BY <2>2, <2>6, <3>1, <4>1
    <3>2. CASE k # n + 1
      <4>1. k \in 1..n /\ k \in 0..n /\ k - 1 \in 0..n
        BY <2>2, <3>2
      <4>2. r[k] = step[<<r[k - 1], s[k]>>]
        BY <2>1, <4>1 DEF RunsBy, n
      <4> QED
        BY <2>3, <2>6, <4>1, <4>2
    <3> QED
      BY <3>1, <3>2
  <2>9. RunsBy(q, B, base, step, Append(s, e))
    BY <2>2, <2>5, <2>7, <2>8 DEF RunsBy
  <2> QED
    BY <2>9
<1> HIDE DEF S
<1>3. \A s \in Seq(E) : s \in S
  BY <1>1, <1>2, SeqInduct
<1> QED
  BY <1>3 DEF S

(***************************************************************************)
(* The last of these values.                                               *)
(***************************************************************************)
Run(B, base, step, items) == (CHOOSE r : RunsBy(r, B, base, step, items))[Len(items)]

LEMMA RunGives ==
  ASSUME NEW B, NEW E, NEW base \in B, NEW step \in [B \X E -> B], NEW items \in Seq(E)
  PROVE  /\ Run(B, base, step, items) \in B
         /\ \A r : RunsBy(r, B, base, step, items) => r[Len(items)] = Run(B, base, step, items)
<1> DEFINE q == CHOOSE r : RunsBy(r, B, base, step, items)
<1>1. RunsBy(q, B, base, step, items)
  BY RunExists
<1>2. Run(B, base, step, items) = q[Len(items)]
  BY DEF Run
<1> HIDE DEF q
<1>3. Len(items) \in Nat /\ Len(items) \in 0..Len(items)
  OBVIOUS
<1>4. Run(B, base, step, items) \in B
  BY <1>1, <1>2, <1>3 DEF RunsBy
<1>5. ASSUME NEW r, RunsBy(r, B, base, step, items)
      PROVE  r[Len(items)] = q[Len(items)]
  <2>1. InStep(r, q, Len(items))
    BY <1>1, <1>5 DEF RunsBy, InStep
  <2>2. \A k \in 0..Len(items) : r[k] = q[k]
    BY <1>3, <2>1, RunsAgree
  <2> QED
    BY <1>3, <2>2
<1> QED
  BY <1>2, <1>4, <1>5

LEMMA RunOfNone ==
  ASSUME NEW B, NEW E, NEW base \in B, NEW step \in [B \X E -> B]
  PROVE  Run(B, base, step, <<>>) = base
<1>1. <<>> \in Seq(E) /\ Len(<<>>) = 0
  OBVIOUS
<1>2. PICK r : RunsBy(r, B, base, step, <<>>)
  BY <1>1, RunExists
<1>3. r[Len(<<>>)] = Run(B, base, step, <<>>)
  BY <1>1, <1>2, RunGives
<1> QED
  BY <1>1, <1>2, <1>3 DEF RunsBy

\* One more item takes the run one step further.
OneFurther(B, base, step, s, e, t) ==
  t = Append(s, e) => Run(B, base, step, t) = step[<<Run(B, base, step, s), e>>]

LEMMA RunOfAppend ==
  ASSUME NEW B, NEW E, NEW base \in B, NEW step \in [B \X E -> B],
         NEW s \in Seq(E), NEW e \in E, NEW t \in Seq(E)
  PROVE  OneFurther(B, base, step, s, e, t)
<1> SUFFICES ASSUME t = Append(s, e)
             PROVE  Run(B, base, step, t) = step[<<Run(B, base, step, s), e>>]
  BY DEF OneFurther
<1>1. PICK n \in Nat : n = Len(s)
  OBVIOUS
<1>2. Len(t) = n + 1 /\ t[n + 1] = e /\ \A k \in 1..n : t[k] = s[k]
  BY <1>1
<1>3. PICK r : RunsBy(r, B, base, step, t)
  BY RunExists
<1>4. PICK q : RunsBy(q, B, base, step, s)
  BY RunExists
<1>5. InStep(r, q, n)
  <2>1. r[0] = q[0]
    BY <1>3, <1>4 DEF RunsBy
  <2>2. ASSUME NEW k \in 1..n, r[k - 1] = q[k - 1] PROVE r[k] = q[k]
    <3>1. k \in 1..Len(t) /\ k \in 1..Len(s)
      BY <1>1, <1>2
    <3>2. r[k] = step[<<r[k - 1], t[k]>>] /\ q[k] = step[<<q[k - 1], s[k]>>]
      BY <1>3, <1>4, <3>1 DEF RunsBy
    <3> QED
      BY <1>2, <2>2, <3>2
  <2> QED
    BY <2>1, <2>2 DEF InStep
<1>6. r[n] = q[n]
  <2>1. n \in 0..n
    OBVIOUS
  <2> QED
    BY <1>5, <2>1, RunsAgree
<1>7. q[n] = Run(B, base, step, s)
  BY <1>1, <1>4, RunGives
<1>8. r[n + 1] = Run(B, base, step, t)
  <2>1. r[Len(t)] = Run(B, base, step, t)
    BY <1>3, RunGives
  <2> QED
    BY <1>2, <2>1
<1>9. r[n + 1] = step[<<r[n], t[n + 1]>>]
  <2>1. n + 1 \in 1..Len(t) /\ (n + 1) - 1 = n
    BY <1>2
  <2> QED
    BY <1>3, <2>1 DEF RunsBy
<1> QED
  BY <1>2, <1>6, <1>7, <1>8, <1>9
-----------------------------------------------------------------------------
\* The set that a sequence is over does not matter to what it is made of.
LEMMA SeqTypes ==
  ASSUME NEW E, NEW s \in Seq(E), NEW t \in Seq(E), NEW e \in E, NEW f \in E
  PROVE  /\ <<>> \in Seq(E) /\ <<e>> \in Seq(E) /\ <<e, f>> \in Seq(E)
         /\ Append(s, e) \in Seq(E) /\ s \o t \in Seq(E)
         /\ <<e>> # <<>> /\ Append(s, e) # <<>>
OBVIOUS

\* One element more, one in the place of the last.
Joins(s, e, f) ==
  /\ s \o <<e>> = Append(s, e)
  /\ s \o <<e, f>> = Append(Append(s, e), f)
  /\ [Append(s, e) EXCEPT ![Len(Append(s, e))] = f] = Append(s, f)

LEMMA Joined ==
  ASSUME NEW E, NEW s \in Seq(E), NEW e \in E, NEW f \in E
  PROVE  Joins(s, e, f)
<1>2. s \o <<e>> = Append(s, e)
  OBVIOUS
<1>3. s \o <<e, f>> = Append(Append(s, e), f)
  OBVIOUS
<1>5. [Append(s, e) EXCEPT ![Len(Append(s, e))] = f] = Append(s, f)
  <2>1. PICK u \in Seq(E) : u = Append(s, e)
    BY SeqTypes
  <2>2. PICK w \in Seq(E) : w = Append(s, f)
    BY SeqTypes
  <2>3. PICK n \in Nat : n = Len(s)
    OBVIOUS
  <2>4. Len(u) = n + 1 /\ \A i \in 1..n : u[i] = s[i]
    BY <2>1, <2>3
  <2>5. Len(w) = n + 1 /\ w[n + 1] = f /\ \A i \in 1..n : w[i] = s[i]
    BY <2>2, <2>3
  <2>6. PICK v \in Seq(E) : v = [u EXCEPT ![n + 1] = f]
    <3>1. n + 1 \in 1..Len(u)
      BY <2>4
    <3> QED
      BY <3>1, ExceptSeq
  <2>7. Len(v) = n + 1 /\ v[n + 1] = f /\ \A i \in 1..n : v[i] = u[i]
    BY <2>4, <2>6
  <2>8. \A i \in 1..Len(v) : v[i] = w[i]
    BY <2>4, <2>5, <2>7
  <2>9. v = w
    BY <2>5, <2>7, <2>8, SeqEqual
  <2> QED
    BY <2>1, <2>2, <2>4, <2>6, <2>9
<1> QED
  BY <1>2, <1>3, <1>5 DEF Joins

\* Copies of one element.
Times(e, k) == [i \in 1..k |-> e]
Grows(e, k) == Times(e, k + 1) = Append(Times(e, k), e)

LEMMA Copies ==
  ASSUME NEW E, NEW e \in E, NEW k \in Nat
  PROVE  Times(e, k) \in Seq(E) /\ Grows(e, k)
<1>1. Times(e, k) \in Seq(E)
  BY DEF Times
<1>2. Grows(e, k)
  BY DEF Times, Grows
<1> QED
  BY <1>1, <1>2

\* What follows one more is what follows, and one more.
Chained(s, t, e, u) ==
  /\ s \o Append(t, e) = Append(s \o t, e)
  /\ (s \o t) \o u = s \o (t \o u)
  /\ s \o <<>> = s

LEMMA Chain ==
  ASSUME NEW E, NEW s \in Seq(E), NEW t \in Seq(E), NEW e \in E, NEW u \in Seq(E)
  PROVE  Chained(s, t, e, u)
<1>1. s \o Append(t, e) = Append(s \o t, e)
  OBVIOUS
<1>2. (s \o t) \o u = s \o (t \o u)
  BY ConcatAssociative
<1> QED
  BY <1>1, <1>2 DEF Chained

\* What a longer sequence begins with.
Opens(s, e, t) ==
  /\ s = <<>> => Append(s, e)[1] = e
  /\ s # <<>> => Append(s, e)[1] = s[1] /\ s \o t # <<>> /\ (s \o t)[1] = s[1]

LEMMA Beginning ==
  ASSUME NEW E, NEW s \in Seq(E), NEW e \in E, NEW t \in Seq(E)
  PROVE  Opens(s, e, t)
BY DEF Opens

\* Every sequence is so many times an element, and others behind them.
Leads(s, e, k, t) ==
  /\ s = Times(e, k) \o t /\ Len(s) = k + Len(t)
  /\ t # <<>> => t[1] # e
  /\ s # <<>> /\ s[1] # e => k = 0 /\ t = s

LEMMA Leading ==
  ASSUME NEW E, NEW e \in E, NEW s \in Seq(E)
  PROVE  \E k \in Nat, t \in Seq(E) : Leads(s, e, k, t)
<1>1. PICK n \in Nat : n = Len(s)
  OBVIOUS
<1> DEFINE I == {i \in 1..n : s[i] # e}
<1>2. PICK k \in Nat : /\ k <= n /\ \A i \in 1..k : s[i] = e
                       /\ k < n => s[k + 1] # e
  <2>1. CASE I = {}
    <3>1. \A i \in 1..n : s[i] = e
      BY <2>1
    <3>2. n <= n /\ ~(n < n)
      OBVIOUS
    <3> QED
      BY <3>1, <3>2
  <2>2. CASE I # {}
    <3>1. I \in SUBSET Nat
      OBVIOUS
    <3> HIDE DEF I
    <3>2. PICK m \in I : \A i \in I : m <= i
      BY <2>2, <3>1, LeastFound
    <3>3. m \in 1..n /\ s[m] # e /\ \A i \in 1..(m - 1) : s[i] = e
      <4>1. m \in 1..n /\ s[m] # e
        BY <3>2 DEF I
      <4>2. ASSUME NEW i \in 1..(m - 1), s[i] # e PROVE FALSE
        <5>1. i \in 1..n /\ i \in Int /\ ~(m <= i)
          BY <4>1
        <5>2. i \in I
          BY <4>2, <5>1 DEF I
        <5> QED
          BY <3>2, <5>1, <5>2
      <4> QED
        BY <4>1, <4>2
    <3>4. m - 1 \in Nat /\ m - 1 <= n /\ (m - 1) + 1 = m
      BY <3>3
    <3> QED
      BY <3>3, <3>4
  <2> QED
    BY <2>1, <2>2
<1>3. PICK t \in Seq(E) : t = SubSeq(s, k + 1, n)
  <2>1. SubSeq(s, k + 1, n) \in Seq(E)
    BY <1>1, <1>2
  <2> QED
    BY <2>1
<1>4. Len(t) = n - k /\ \A i \in 1..Len(t) : t[i] = s[k + i]
  BY <1>1, <1>2, <1>3
<1>5. t # <<>> => t[1] # e
  <2> SUFFICES ASSUME t # <<>> PROVE t[1] # e
    OBVIOUS
  <2>1. 1 \in 1..Len(t)
    OBVIOUS
  <2>2. k < n /\ t[1] = s[k + 1]
    BY <1>4, <2>1
  <2> QED
    BY <1>2, <2>2
<1>6. s = Times(e, k) \o t
  <2>1. PICK b \in Seq(E) : b = Times(e, k)
    BY Copies
  <2>2. Len(b) = k /\ \A i \in 1..k : b[i] = e
    BY <2>1 DEF Times
  <2>3. PICK u \in Seq(E) : u = b \o t
    BY SeqTypes
  <2>4. Len(u) = k + Len(t) /\ (\A i \in 1..k : u[i] = b[i]) /\ \A i \in 1..Len(t) : u[k + i] = t[i]
    <3>1. PICK m \in Nat : m = Len(t)
      OBVIOUS
    <3>2. Len(u) = k + m /\ \A i \in 1..(k + m) : u[i] = IF i <= k THEN b[i] ELSE t[i - k]
      BY <2>2, <2>3, <3>1, ConcatProperties
    <3>3. ASSUME NEW i \in 1..m PROVE u[k + i] = t[i]
      <4>1. k + i \in 1..(k + m) /\ ~(k + i <= k) /\ (k + i) - k = i
        OBVIOUS
      <4> QED
        BY <3>2, <4>1
    <3>4. ASSUME NEW i \in 1..k PROVE u[i] = b[i]
      <4>1. i \in 1..(k + m) /\ i <= k
        OBVIOUS
      <4> QED
        BY <3>2, <4>1
    <3> QED
      BY <3>1, <3>2, <3>3, <3>4
  <2>5. Len(s) = Len(u)
    BY <1>1, <1>4, <2>4
  <2>6. ASSUME NEW i \in 1..Len(s) PROVE s[i] = u[i]
    <3>1. CASE i <= k
      <4>1. i \in 1..k
        BY <3>1
      <4> QED
        BY <1>2, <2>2, <2>4, <4>1
    <3>2. CASE i > k
      <4>1. i - k \in 1..Len(t) /\ k + (i - k) = i
        BY <1>1, <1>4, <3>2
      <4> QED
        BY <1>4, <2>4, <4>1
    <3> QED
      BY <3>1, <3>2
  <2>7. s = u
    BY <2>5, <2>6, SeqEqual
  <2> QED
    BY <2>1, <2>3, <2>7
<1>7. s # <<>> /\ s[1] # e => k = 0 /\ t = s
  <2> SUFFICES ASSUME s # <<>>, s[1] # e PROVE k = 0 /\ t = s
    OBVIOUS
  <2>1. k = 0
    <3>1. k # 0 => 1 \in 1..k
      OBVIOUS
    <3> QED
      BY <1>2, <3>1
  <2>2. SubSeq(s, 1, Len(s)) = s
    BY SubSeqFull
  <2>3. k + 1 = 1
    BY <2>1
  <2> QED
    BY <1>1, <1>3, <2>1, <2>2, <2>3
<1>8. Len(s) = k + Len(t)
  BY <1>1, <1>2, <1>4
<1>9. Leads(s, e, k, t)
  BY <1>5, <1>6, <1>7, <1>8 DEF Leads
<1> QED
  BY <1>9

\* Where the elements of two sequences are in both.
IsConcat(u, s, m, t, n) ==
  /\ Len(u) = m + n
  /\ \A i \in 1..m : u[i] = s[i]
  /\ \A i \in 1..n : u[m + i] = t[i]

LEMMA Concat ==
  ASSUME NEW E, NEW s \in Seq(E), NEW t \in Seq(E), NEW m \in Nat, NEW n \in Nat,
         Len(s) = m, Len(t) = n
  PROVE  s \o t \in Seq(E) /\ IsConcat(s \o t, s, m, t, n)
<1>1. PICK u \in Seq(E) : u = s \o t
  BY ConcatProperties
<1>2. Len(u) = m + n /\ \A i \in 1..(m + n) : u[i] = IF i <= m THEN s[i] ELSE t[i - m]
  BY <1>1, ConcatProperties
<1>3. ASSUME NEW i \in 1..m PROVE u[i] = s[i]
  <2>1. i \in 1..(m + n) /\ i <= m
    OBVIOUS
  <2> QED
    BY <1>2, <2>1
<1>4. ASSUME NEW i \in 1..n PROVE u[m + i] = t[i]
  <2>1. m + i \in 1..(m + n) /\ ~(m + i <= m) /\ (m + i) - m = i
    OBVIOUS
  <2> QED
    BY <1>2, <2>1
<1>5. IsConcat(u, s, m, t, n)
  BY <1>2, <1>3, <1>4 DEF IsConcat
<1> QED
  BY <1>1, <1>5

\* The elements of a sequence from some place on.
IsBehind(t, s, m, n) ==
  /\ t = SubSeq(s, m + 1, m + n) /\ Len(t) = n
  /\ \A i \in 1..n : t[i] = s[m + i]

LEMMA Behind ==
  ASSUME NEW E, NEW s \in Seq(E), NEW m \in Nat, NEW n \in Nat, Len(s) = m + n
  PROVE  \E t \in Seq(E) : IsBehind(t, s, m, n)
<1>1. SubSeq(s, m + 1, m + n) \in Seq(E)
  OBVIOUS
<1>2. PICK t \in Seq(E) : t = SubSeq(s, m + 1, m + n)
  BY <1>1
<1>3. Len(t) = n
  BY <1>2
<1>4. ASSUME NEW i \in 1..n PROVE t[i] = s[m + i]
  BY <1>2
<1> QED
  BY <1>2, <1>3, <1>4 DEF IsBehind
=============================================================================
