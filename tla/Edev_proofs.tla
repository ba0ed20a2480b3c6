----------------------------- MODULE Edev_proofs -----------------------------
(***************************************************************************)
(* For all listings, command lines, answers and outcomes: no signal is     *)
(* sent without consent, and the exit code is honest.  The inductive       *)
(* invariant says how far a run may be without signals and records, what   *)
(* gives it leave to go on, and that the options of the calls are those of *)
(* the command line.  A lemma says that a target means what it says.       *)
(***************************************************************************)
EXTENDS Edev, Induction

Early == {"collect", "select", "menu", "plan", "confirm", "answer"}

Stages == pc \in Early \cup {"loop", "call", "exited"} /\ (pc = "exited" <=> exit # Running)

NothingDone == pc \in Early => log = <<>> /\ records = <<>>

Leaved == pc \in {"loop", "call"} => args.yes \/ args.dry_run \/ agreed

CallOptions == opts.dry_run = args.dry_run /\ sent \in Seq({"SIGTERM", "SIGKILL"})

IInv ==
  Stages /\ NothingDone /\ Leaved /\ CallOptions /\ NothingWithoutConsent /\ ExitCodeHonest
-----------------------------------------------------------------------------
(***************************************************************************)
(* What the user types: lists of ports and of numbers are read as a reader *)
(* takes them, part by part from the left, or not at all.                  *)
(***************************************************************************)
\* A part is read as a range exactly when a reader would take it for one.
LEMMA BoundsLemma ==
  ASSUME NEW part \in Part
  PROVE  LET b == Bounds(part) IN
         /\ b[1] = part[1] /\ b[1] \in Int /\ b[2] \in Int
         /\ Len(part) \in {1, 2} => b[2] = part[Len(part)]
         /\ Len(part) \notin {1, 2} => b[2] = Junk
<1>1. Len(part) \in Nat /\ Len(part) > 0 /\ part[1] \in Int /\ part[Len(part)] \in Int
  BY DEF Part
<1>2. CASE Len(part) = 1
  BY <1>1, <1>2 DEF Bounds
<1>3. CASE Len(part) = 2
  BY <1>1, <1>3 DEF Bounds
<1>4. CASE Len(part) # 1 /\ Len(part) # 2
  BY <1>1, <1>4 DEF Bounds, Junk
<1> QED
  BY <1>2, <1>3, <1>4

LEMMA PortPartRead ==
  ASSUME NEW part \in Part
  PROVE  LET b == Bounds(part) IN
         /\ (Parses(b, MaxPort) /\ b[1] <= b[2]) <=> Well(part, 0, MaxPort)
         /\ Well(part, 0, MaxPort) => b[1] = part[1] /\ b[2] = part[Len(part)]
<1> DEFINE b == Bounds(part)
<1>1. /\ b[1] = part[1] /\ b[1] \in Int /\ b[2] \in Int
      /\ Len(part) \in {1, 2} => b[2] = part[Len(part)]
      /\ Len(part) \notin {1, 2} => b[2] = Junk
  BY BoundsLemma
<1> HIDE DEF b
<1>2. (Parses(b, MaxPort) /\ b[1] <= b[2]) <=> Well(part, 0, MaxPort)
  BY <1>1, SpecsAssumption DEF Parses, Well, Junk
<1>3. Well(part, 0, MaxPort) => b[1] = part[1] /\ b[2] = part[Len(part)]
  BY <1>1 DEF Well
<1> QED
  BY <1>2, <1>3 DEF b

LEMMA IndexPartRead ==
  ASSUME NEW part \in Part, NEW len \in Nat
  PROVE  LET b == Bounds(part) IN
         /\ ~(b[1] <= 0 \/ b[2] < b[1] \/ b[2] > len) <=> Well(part, 1, len)
         /\ Well(part, 1, len) => b[1] = part[1] /\ b[2] = part[Len(part)]
<1> DEFINE b == Bounds(part)
<1>1. /\ b[1] = part[1] /\ b[1] \in Int /\ b[2] \in Int
      /\ Len(part) \in {1, 2} => b[2] = part[Len(part)]
      /\ Len(part) \notin {1, 2} => b[2] = Junk
  BY BoundsLemma
<1> HIDE DEF b
<1>2. ~(b[1] <= 0 \/ b[2] < b[1] \/ b[2] > len) <=> Well(part, 1, len)
  BY <1>1 DEF Well, Junk
<1>3. Well(part, 1, len) => b[1] = part[1] /\ b[2] = part[Len(part)]
  BY <1>1 DEF Well
<1> QED
  BY <1>2, <1>3 DEF b

-----------------------------------------------------------------------------
Fresh == [ok |-> TRUE, out |-> {}]

\* The fold of parse_port_spec goes through the parts one by one.
LEMMA PortRun ==
  ASSUME NEW text \in Text
  PROVE  \E r : /\ r[0] = Fresh
                /\ \A k \in 1..Len(text) : r[k] = PortPart(r[k - 1], text[k])
                /\ FoldLeft(PortPart, Fresh, text) = r[Len(text)]
<1> DEFINE n == Len(text)
           B == [ok : BOOLEAN, out : SUBSET (Int \X Int)]
           step == [x \in B \X Nat |-> IF x[2] \in 1..n THEN PortPart(x[1], text[x[2]]) ELSE x[1]]
           F == CHOOSE f : f = [s \in SUBSET DOMAIN text |->
                  IF s = {} THEN Fresh ELSE PortPart(f[s \ {Max(s)}], text[Max(s)])]
<1>1. n \in Nat /\ DOMAIN text = 1..n /\ \A i \in 1..n : text[i] \in Part
  BY DEF Text
<1>2. Fresh \in B
  BY DEF Fresh
<1>3. \A x \in B, part \in Part : PortPart(x, part) \in B
  <2> SUFFICES ASSUME NEW x \in B, NEW part \in Part PROVE PortPart(x, part) \in B
    OBVIOUS
  <2>1. Bounds(part) \in Int \X Int
    <3>1. Len(part) \in Nat /\ Len(part) > 0 /\ \A i \in 1..Len(part) : part[i] \in Int
      BY DEF Part
    <3>2. Len(part) = 2 => 2 \in 1..Len(part)
      BY <3>1
    <3> QED
      BY <3>1, <3>2 DEF Bounds, Junk
  <2> QED
    BY <2>1 DEF PortPart, Failure
<1>4. step \in [B \X Nat -> B]
  <2>1. \A x \in B \X Nat : (IF x[2] \in 1..n THEN PortPart(x[1], text[x[2]]) ELSE x[1]) \in B
    BY <1>1, <1>3
  <2> QED
    BY <2>1
<1> HIDE DEF B, step, F, n
<1>5. PICK g : FoldsBy(g, B, Fresh, step, n)
  BY <1>1, <1>2, <1>4, FoldExists
<1>6. g = [s \in SUBSET DOMAIN text |-> IF s = {} THEN Fresh ELSE PortPart(g[s \ {Max(s)}], text[Max(s)])]
  <2>1. ASSUME NEW s \in SUBSET (1..n), s # {}
        PROVE  g[s] = PortPart(g[s \ {Max(s)}], text[Max(s)])
    <3>1. Max(s) \in 1..n
      BY <1>1, <2>1, MaxFound
    <3>2. g[s \ {Max(s)}] \in B
      BY <1>5 DEF FoldsBy
    <3>3. step[<<g[s \ {Max(s)}], Max(s)>>] = PortPart(g[s \ {Max(s)}], text[Max(s)])
      BY <1>1, <3>1, <3>2 DEF step
    <3> QED
      BY <1>5, <2>1, <3>3 DEF FoldsBy
  <2>2. \A s \in SUBSET (1..n) : s = {} => g[s] = Fresh
    BY <1>5 DEF FoldsBy
  <2> QED
    BY <1>1, <1>5, <2>1, <2>2 DEF FoldsBy
<1>7. F = [s \in SUBSET DOMAIN text |-> IF s = {} THEN Fresh ELSE PortPart(F[s \ {Max(s)}], text[Max(s)])]
  BY <1>6 DEF F
<1>8. FoldLeft(PortPart, Fresh, text) = F[DOMAIN text]
  BY DEF FoldLeft, MapThenFoldSet, F
<1> DEFINE r == [k \in 0..n |-> F[1..k]]
<1>9. r[0] = Fresh
  <2>1. 1..0 = {} /\ {} \in SUBSET DOMAIN text /\ 0 \in 0..n
    BY <1>1
  <2> QED
    BY <1>7, <2>1
<1>10. ASSUME NEW k \in 1..n PROVE r[k] = PortPart(r[k - 1], text[k])
  <2>1. /\ 1..k \in SUBSET DOMAIN text /\ 1..k # {} /\ Max(1..k) = k
        /\ (1..k) \ {k} = 1..(k - 1) /\ k - 1 \in 0..n /\ k \in 0..n
    BY <1>1, Prefix
  <2>2. F[1..k] = PortPart(F[(1..k) \ {Max(1..k)}], text[Max(1..k)])
    BY <1>7, <2>1
  <2> QED
    BY <2>1, <2>2
<1>11. FoldLeft(PortPart, Fresh, text) = r[n]
  BY <1>1, <1>8
<1> HIDE DEF r
<1> QED
  BY <1>9, <1>10, <1>11 DEF n

\* The fold of parse_index_spec goes through the parts one by one.
LEMMA IndexRun ==
  ASSUME NEW text \in Text, NEW len \in Nat
  PROVE  \E r : /\ r[0] = Fresh
                /\ \A k \in 1..Len(text) : r[k] = IndexPart(r[k - 1], text[k], len)
                /\ ParseIndexSpec(text, len) = r[Len(text)]
<1> DEFINE n == Len(text)
           B == [ok : BOOLEAN, out : SUBSET Int]
           step == [x \in B \X Nat |-> IF x[2] \in 1..n THEN IndexPart(x[1], text[x[2]], len) ELSE x[1]]
           F == CHOOSE f : f = [s \in SUBSET DOMAIN text |->
                  IF s = {} THEN Fresh ELSE IndexPart(f[s \ {Max(s)}], text[Max(s)], len)]
<1>1. n \in Nat /\ DOMAIN text = 1..n /\ \A i \in 1..n : text[i] \in Part
  BY DEF Text
<1>2. Fresh \in B
  BY DEF Fresh
<1>3. \A x \in B, part \in Part : IndexPart(x, part, len) \in B
  <2> SUFFICES ASSUME NEW x \in B, NEW part \in Part PROVE IndexPart(x, part, len) \in B
    OBVIOUS
  <2>1. Bounds(part) \in Int \X Int
    <3>1. Len(part) \in Nat /\ Len(part) > 0 /\ \A i \in 1..Len(part) : part[i] \in Int
      BY DEF Part
    <3>2. Len(part) = 2 => 2 \in 1..Len(part)
      BY <3>1
    <3> QED
      BY <3>1, <3>2 DEF Bounds, Junk
  <2> QED
    BY <2>1 DEF IndexPart, Failure
<1>4. step \in [B \X Nat -> B]
  <2>1. \A x \in B \X Nat : (IF x[2] \in 1..n THEN IndexPart(x[1], text[x[2]], len) ELSE x[1]) \in B
    BY <1>1, <1>3
  <2> QED
    BY <2>1
<1> HIDE DEF B, step, F, n
<1>5. PICK g : FoldsBy(g, B, Fresh, step, n)
  BY <1>1, <1>2, <1>4, FoldExists
<1>6. g = [s \in SUBSET DOMAIN text |-> IF s = {} THEN Fresh ELSE IndexPart(g[s \ {Max(s)}], text[Max(s)], len)]
  <2>1. ASSUME NEW s \in SUBSET (1..n), s # {}
        PROVE  g[s] = IndexPart(g[s \ {Max(s)}], text[Max(s)], len)
    <3>1. Max(s) \in 1..n
      BY <1>1, <2>1, MaxFound
    <3>2. g[s \ {Max(s)}] \in B
      BY <1>5 DEF FoldsBy
    <3>3. step[<<g[s \ {Max(s)}], Max(s)>>] = IndexPart(g[s \ {Max(s)}], text[Max(s)], len)
      BY <1>1, <3>1, <3>2 DEF step
    <3> QED
      BY <1>5, <2>1, <3>3 DEF FoldsBy
  <2>2. \A s \in SUBSET (1..n) : s = {} => g[s] = Fresh
    BY <1>5 DEF FoldsBy
  <2> QED
    BY <1>1, <1>5, <2>1, <2>2 DEF FoldsBy
<1>7. F = [s \in SUBSET DOMAIN text |-> IF s = {} THEN Fresh ELSE IndexPart(F[s \ {Max(s)}], text[Max(s)], len)]
  BY <1>6 DEF F
<1>8. ParseIndexSpec(text, len) = F[DOMAIN text]
  BY DEF ParseIndexSpec, FoldLeft, MapThenFoldSet, F, Fresh
<1> DEFINE r == [k \in 0..n |-> F[1..k]]
<1>9. r[0] = Fresh
  <2>1. 1..0 = {} /\ {} \in SUBSET DOMAIN text /\ 0 \in 0..n
    BY <1>1
  <2> QED
    BY <1>7, <2>1
<1>10. ASSUME NEW k \in 1..n PROVE r[k] = IndexPart(r[k - 1], text[k], len)
  <2>1. /\ 1..k \in SUBSET DOMAIN text /\ 1..k # {} /\ Max(1..k) = k
        /\ (1..k) \ {k} = 1..(k - 1) /\ k - 1 \in 0..n /\ k \in 0..n
    BY <1>1, Prefix
  <2>2. F[1..k] = IndexPart(F[(1..k) \ {Max(1..k)}], text[Max(1..k)], len)
    BY <1>7, <2>1
  <2> QED
    BY <2>1, <2>2
<1>11. ParseIndexSpec(text, len) = r[n]
  BY <1>1, <1>8
<1> HIDE DEF r
<1> QED
  BY <1>9, <1>10, <1>11 DEF n

\* What the parts up to k have amounted to.
Ranges(text, k) == {<<text[i][1], text[i][Len(text[i])]>> : i \in {j \in 1..k : text[j] # Empty}}

Fine(text, k, lo, hi) == \A i \in 1..k : text[i] = Empty \/ Well(text[i], lo, hi)

\* parse_port_spec: a list of which every part is a range of ports, or empty,
\* is read as these ranges; nothing is read of any other.
THEOREM PortSpecsReadAsMeant ==
  ASSUME NEW text \in Text
  PROVE  ParsePortSpec(text) =
           IF WellFormed(text, 0, MaxPort) /\ \E i \in DOMAIN text : text[i] # Empty
           THEN [ok |-> TRUE, out |-> Ranges(text, Len(text))] ELSE Failure
<1> DEFINE n == Len(text)
           Sum(k) == IF Fine(text, k, 0, MaxPort) THEN [ok |-> TRUE, out |-> Ranges(text, k)] ELSE Failure
<1>1. n \in Nat /\ DOMAIN text = 1..n /\ \A i \in 1..n : text[i] \in Part
  BY DEF Text
<1>2. PICK r : /\ r[0] = Fresh
               /\ \A k \in 1..n : r[k] = PortPart(r[k - 1], text[k])
               /\ FoldLeft(PortPart, Fresh, text) = r[n]
  BY PortRun
<1> DEFINE S == {k \in Nat : k <= n => r[k] = Sum(k)}
<1>3. 0 \in S
  <2>1. Fine(text, 0, 0, MaxPort) /\ Ranges(text, 0) = {}
    BY DEF Fine, Ranges
  <2> QED
    BY <1>2, <2>1 DEF Fresh
<1>4. ASSUME NEW j \in Nat, j \in S PROVE j + 1 \in S
  <2> SUFFICES ASSUME j + 1 <= n PROVE r[j + 1] = Sum(j + 1)
    OBVIOUS
  <2>1. PICK k : k = j + 1
    OBVIOUS
  <2>2. k \in 1..n /\ k \in Nat /\ j < k /\ 1..k = (1..j) \cup {k} /\ text[k] \in Part
    BY <1>1, <2>1
  <2>3. r[k] = PortPart(Sum(j), text[k])
    BY <1>1, <1>2, <1>4, <2>1, <2>2
  <2>4. Fine(text, k, 0, MaxPort) <=>
          Fine(text, j, 0, MaxPort) /\ (text[k] = Empty \/ Well(text[k], 0, MaxPort))
    BY <2>2 DEF Fine
  <2>5. Ranges(text, k) = IF text[k] = Empty THEN Ranges(text, j)
                          ELSE Ranges(text, j) \cup {<<text[k][1], text[k][Len(text[k])]>>}
    BY <2>2 DEF Ranges
  <2>6. CASE ~Fine(text, j, 0, MaxPort)
    BY <2>1, <2>3, <2>4, <2>6 DEF PortPart, Failure
  <2>7. CASE Fine(text, j, 0, MaxPort) /\ text[k] = Empty
    BY <2>1, <2>3, <2>4, <2>5, <2>7 DEF PortPart
  <2>8. CASE Fine(text, j, 0, MaxPort) /\ text[k] # Empty /\ ~Well(text[k], 0, MaxPort)
    BY <2>1, <2>2, <2>3, <2>4, <2>8, PortPartRead DEF PortPart
  <2>9. CASE Fine(text, j, 0, MaxPort) /\ text[k] # Empty /\ Well(text[k], 0, MaxPort)
    <3> DEFINE b == Bounds(text[k])
    <3>1. Parses(b, MaxPort) /\ b[1] <= b[2] /\ b[1] = text[k][1] /\ b[2] = text[k][Len(text[k])]
      BY <2>2, <2>9, PortPartRead
    <3>2. b = <<text[k][1], text[k][Len(text[k])]>>
      BY <3>1 DEF Bounds
    <3>3. r[k] = [ok |-> TRUE, out |-> Ranges(text, j) \cup {b}]
      BY <2>3, <2>9, <3>1 DEF PortPart
    <3> QED
      BY <2>1, <2>4, <2>5, <2>9, <3>2, <3>3
  <2> QED
    BY <2>6, <2>7, <2>8, <2>9
<1> HIDE DEF S
<1>5. n \in S
  BY <1>1, <1>3, <1>4, Induct
<1>6. FoldLeft(PortPart, Fresh, text) = Sum(n)
  BY <1>1, <1>2, <1>5 DEF S
<1>7. ParsePortSpec(text) = IF Sum(n).out = {} THEN Failure ELSE Sum(n)
  BY <1>6 DEF ParsePortSpec, Fresh
<1>8. Fine(text, n, 0, MaxPort) <=> WellFormed(text, 0, MaxPort)
  BY <1>1 DEF Fine, WellFormed
<1>9. Ranges(text, n) = {} <=> \A i \in DOMAIN text : text[i] = Empty
  BY <1>1 DEF Ranges
<1> QED
  BY <1>7, <1>8, <1>9 DEF Failure

\* The indices from 0 of the numbers that the parts up to k cover.
Indices(text, k) == {i \in Nat : \E j \in 1..k : text[j] # Empty /\ text[j][1] <= i + 1 /\ i + 1 <= text[j][Len(text[j])]}

\* parse_index_spec: likewise, for the numbers of a menu with len entries.
THEOREM IndexSpecsReadAsMeant ==
  ASSUME NEW text \in Text, NEW len \in Nat
  PROVE  ParseIndexSpec(text, len) =
           IF WellFormed(text, 1, len) THEN [ok |-> TRUE, out |-> {i \in Nat : Covers(text, i + 1)}] ELSE Failure
<1> DEFINE n == Len(text)
           Sum(k) == IF Fine(text, k, 1, len) THEN [ok |-> TRUE, out |-> Indices(text, k)] ELSE Failure
<1>1. n \in Nat /\ DOMAIN text = 1..n /\ \A i \in 1..n : text[i] \in Part
  BY DEF Text
<1>2. PICK r : /\ r[0] = Fresh
               /\ \A k \in 1..n : r[k] = IndexPart(r[k - 1], text[k], len)
               /\ ParseIndexSpec(text, len) = r[n]
  BY IndexRun
<1> DEFINE S == {k \in Nat : k <= n => r[k] = Sum(k)}
<1>3. 0 \in S
  <2>1. Fine(text, 0, 1, len) /\ Indices(text, 0) = {}
    BY DEF Fine, Indices
  <2> QED
    BY <1>2, <2>1 DEF Fresh
<1>4. ASSUME NEW j \in Nat, j \in S PROVE j + 1 \in S
  <2> SUFFICES ASSUME j + 1 <= n PROVE r[j + 1] = Sum(j + 1)
    OBVIOUS
  <2>1. PICK k : k = j + 1
    OBVIOUS
  <2>2. k \in 1..n /\ k \in Nat /\ j < k /\ 1..k = (1..j) \cup {k} /\ text[k] \in Part
    BY <1>1, <2>1
  <2>3. r[k] = IndexPart(Sum(j), text[k], len)
    BY <1>1, <1>2, <1>4, <2>1, <2>2
  <2>4. Fine(text, k, 1, len) <=> Fine(text, j, 1, len) /\ (text[k] = Empty \/ Well(text[k], 1, len))
    BY <2>2 DEF Fine
  <2>5. Indices(text, k) = Indices(text, j) \cup
          {i \in Nat : text[k] # Empty /\ text[k][1] <= i + 1 /\ i + 1 <= text[k][Len(text[k])]}
    BY <2>2 DEF Indices
  <2>6. CASE ~Fine(text, j, 1, len)
    BY <2>1, <2>3, <2>4, <2>6 DEF IndexPart, Failure
  <2>7. CASE Fine(text, j, 1, len) /\ text[k] = Empty
    <3>1. Indices(text, k) = Indices(text, j)
      BY <2>5, <2>7
    <3> QED
      BY <2>1, <2>3, <2>4, <2>7, <3>1 DEF IndexPart
  <2>8. CASE Fine(text, j, 1, len) /\ text[k] # Empty /\ ~Well(text[k], 1, len)
    BY <2>1, <2>2, <2>3, <2>4, <2>8, IndexPartRead DEF IndexPart
  <2>9. CASE Fine(text, j, 1, len) /\ text[k] # Empty /\ Well(text[k], 1, len)
    <3> DEFINE b == Bounds(text[k])
    <3>1. ~(b[1] <= 0 \/ b[2] < b[1] \/ b[2] > len) /\ b[1] = text[k][1] /\ b[2] = text[k][Len(text[k])]
      BY <2>2, <2>9, IndexPartRead
    <3>2. b[1] \in Int /\ b[2] \in Int
      BY <2>2, BoundsLemma
    <3>3. r[k] = [ok |-> TRUE, out |-> Indices(text, j) \cup (b[1] - 1)..(b[2] - 1)]
      BY <2>3, <2>9, <3>1 DEF IndexPart
    <3> HIDE DEF b
    <3>4. (b[1] - 1)..(b[2] - 1) =
            {i \in Nat : text[k] # Empty /\ text[k][1] <= i + 1 /\ i + 1 <= text[k][Len(text[k])]}
      BY <2>9, <3>1, <3>2
    <3> QED
      BY <2>1, <2>4, <2>5, <2>9, <3>3, <3>4
  <2> QED
    BY <2>6, <2>7, <2>8, <2>9
<1> HIDE DEF S
<1>5. n \in S
  BY <1>1, <1>3, <1>4, Induct
<1>6. ParseIndexSpec(text, len) = Sum(n)
  BY <1>1, <1>2, <1>5 DEF S
<1>7. Fine(text, n, 1, len) <=> WellFormed(text, 1, len)
  BY <1>1 DEF Fine, WellFormed
<1>8. Indices(text, n) = {i \in Nat : Covers(text, i + 1)}
  BY <1>1 DEF Indices, Covers
<1> QED
  BY <1>6, <1>7, <1>8
-----------------------------------------------------------------------------
\* Target::parse and Target::matches: a target that parses selects what a
\* reader takes it to mean, whatever the fields are.
THEOREM TargetsMeanWhatTheySay ==
  ASSUME NEW t, t.pid \in BOOLEAN, t.part \in Seq(Int), Len(t.part) > 0,
         NEW e, e.pid \in Int, e.port \in Int,
         MaxPort \in Nat, MaxPid \in Nat,
         ParseTarget(t).type # "error"
  PROVE  Matches(ParseTarget(t), e) <=> Means(t, e)
<1>1. CASE t.pid
  <2>1. Len(t.part) = 1 /\ t.part[1] \in 2..MaxPid
    BY <1>1 DEF ParseTarget
  <2>2. ParseTarget(t) = [type |-> "pid", lo |-> t.part[1], hi |-> t.part[1]]
    BY <1>1, <2>1 DEF ParseTarget
  <2>3. t.part = <<e.pid>> <=> t.part[1] = e.pid
    BY <2>1
  <2> QED
    BY <1>1, <2>1, <2>2, <2>3 DEF Matches, Means
<1>2. CASE ~t.pid
  <2> DEFINE b == Bounds(t.part)
  <2>1. Parses(b, MaxPort) /\ b[1] <= b[2]
    BY <1>2 DEF ParseTarget
  <2>2. ParseTarget(t) = [type |-> "ports", lo |-> b[1], hi |-> b[2]]
    BY <1>2, <2>1 DEF ParseTarget
  <2>3. b[1] = t.part[1] /\ b[2] = t.part[Len(t.part)] /\ b[1] \in Nat
    <3>1. CASE Len(t.part) = 1
      BY <3>1, <2>1 DEF Bounds, Parses
    <3>2. CASE Len(t.part) = 2
      BY <3>2, <2>1 DEF Bounds, Parses
    <3>3. CASE Len(t.part) > 2
      BY <3>3, <2>1 DEF Bounds, Parses, Junk
    <3>4. Len(t.part) = 1 \/ Len(t.part) = 2 \/ Len(t.part) > 2
      <4>1. \A n \in Nat : n > 0 => n = 1 \/ n = 2 \/ n > 2
        OBVIOUS
      <4>2. Len(t.part) \in Nat /\ Len(t.part) > 0
        OBVIOUS
      <4> QED
        BY <4>1, <4>2, Zenon
    <3> HIDE DEF b
    <3> QED
      BY <3>1, <3>2, <3>3, <3>4
  <2>4. t.part # Empty
    BY <2>3 DEF Empty, Blank
  <2>5. Means(t, e) <=> b[1] <= e.port /\ e.port <= b[2]
    BY <1>2, <2>3, <2>4 DEF Means, Covers
  <2> QED
    BY <1>2, <2>2, <2>5 DEF Matches
<1> QED
  BY <1>1, <1>2
-----------------------------------------------------------------------------
LEMMA InitLemma == EdevInit => IInv
BY DEF EdevInit, Init, IInv, Stages, Early, NothingDone, Leaved, CallOptions,
       NothingWithoutConsent, ExitCodeHonest, Running

\* Steps before the first signal, and those of the environment.
LEMMA QuietStep ==
  ASSUME IInv, UNCHANGED <<args, log, records, plan, opts, sent>>,
         agreed' = agreed \/ agreed' = TRUE, broken' = broken \/ broken' = TRUE,
         \/ UNCHANGED <<pc, exit>>
         \/ /\ pc \in Early /\ pc' \in Early /\ UNCHANGED exit
         \/ /\ pc \in Early /\ pc' = "loop" /\ UNCHANGED exit
            /\ args.yes \/ args.dry_run \/ agreed'
         \/ /\ pc \in Early /\ pc' = "exited" /\ exit' \in {0, 2}
  PROVE  IInv'
<1> USE DEF IInv, Stages, Early, NothingDone, Leaved, CallOptions,
            NothingWithoutConsent, ExitCodeHonest, Running
<1>1. CASE UNCHANGED <<pc, exit>>
  BY <1>1
<1>2. CASE pc \in Early /\ exit' = exit /\ pc' \in Early \cup {"loop"}
             /\ (pc' = "loop" => args.yes \/ args.dry_run \/ agreed')
  BY <1>2
<1>3. CASE pc \in Early /\ pc' = "exited" /\ exit' \in {0, 2}
  BY <1>3
<1> QED
  BY <1>1, <1>2, <1>3

\* Collect to Confirm: nothing is signalled and nothing recorded.
LEMMA EarlyLemma ==
  ASSUME IInv,
         \/ Collect \/ NothingListed \/ SelectAll \/ RefuseMenu \/ ShowMenu \/ Choose
         \/ SelectNamed \/ NothingSelected
  PROVE  IInv'
<1> USE DEF input, world, choice, work, history, call, Goto, Exit, Fail, Farewell, Write,
            WriteThen, Early
<1>1. CASE Collect
  BY <1>1, QuietStep DEF Collect
<1>2. CASE NothingListed
  BY <1>2, QuietStep DEF NothingListed
<1>3. CASE SelectAll
  BY <1>3, QuietStep DEF SelectAll
<1>4. CASE RefuseMenu
  BY <1>4, QuietStep DEF RefuseMenu
<1>5. CASE ShowMenu
  BY <1>5, QuietStep DEF ShowMenu
<1>6. CASE Choose
  BY <1>6, QuietStep DEF Choose, ChooseNothing, ChooseAll, ChooseNumbers
<1>7. CASE SelectNamed
  BY <1>7, QuietStep DEF SelectNamed
<1>8. CASE NothingSelected
  BY <1>8, QuietStep DEF NothingSelected
<1> QED
  BY <1>1, <1>2, <1>3, <1>4, <1>5, <1>6, <1>7, <1>8

\* The plan and the confirmation: the loop is entered with leave only.
LEMMA ConsentLemma ==
  ASSUME IInv, AllProtected \/ Confirm \/ Answer
  PROVE  IInv'
<1> USE DEF input, world, choice, work, history, call, Goto, Exit, Fail, Farewell, Write,
            WriteThen, Early
<1>1. CASE AllProtected
  BY <1>1, QuietStep DEF AllProtected
<1>2. CASE Confirm
  BY <1>2, QuietStep DEF Confirm, MayProceed
<1>3. CASE Answer
  BY <1>3, QuietStep DEF Answer
<1> QED
  BY <1>1, <1>2, <1>3

\* The environment only takes processes and standard output away.
LEMMA WorldLemma ==
  ASSUME IInv, Leave \/ Recycle \/ Break \/ Done
  PROVE  IInv'
<1> USE DEF input, world, choice, work, history, call
<1>1. CASE Leave
  BY <1>1, QuietStep DEF Leave
<1>2. CASE Recycle
  BY <1>2, QuietStep DEF Recycle
<1>3. CASE Break
  BY <1>3, QuietStep DEF Break
<1>4. CASE Done
  BY <1>4, QuietStep DEF Done, vars
<1> QED
  BY <1>1, <1>2, <1>3, <1>4
-----------------------------------------------------------------------------
(***************************************************************************)
(* The loop.                                                               *)
(***************************************************************************)
LEMMA PlanLemma == ASSUME IInv, MakePlan PROVE IInv'
BY DEF MakePlan, IInv, Stages, Early, NothingDone, Leaved, CallOptions, NothingWithoutConsent,
       ExitCodeHonest, Running, input, world, choice, history, call, Goto, WriteThen, Fail,
       Exit, Write

LEMMA SkipLemma == ASSUME IInv, SkipProtected PROVE IInv'
BY DEF SkipProtected, More, IInv, Stages, Early, NothingDone, Leaved, CallOptions,
       NothingWithoutConsent, ExitCodeHonest, Running, input, world, choice, history, call, Goto

LEMMA BeginLemma == ASSUME IInv, Begin PROVE IInv'
BY DEF Begin, More, IInv, Stages, Early, NothingDone, Leaved, CallOptions,
       NothingWithoutConsent, ExitCodeHonest, Running, input, world, choice, history, Goto

\* In a dry run the contract lets no signal out; otherwise consent was given.
LEMMA SignalLemma == ASSUME IInv, Signal PROVE IInv'
<1> USE DEF IInv
<1>1. PICK sig \in {"SIGTERM", "SIGKILL"} :
        Kernel!Deliver(sig) /\ log' = Append(log, [pid |-> Item.pid, sig |-> sig])
  BY DEF Signal
<1>2. Append(sent, sig) # <<>>
  BY DEF CallOptions
<1>3. ~opts.dry_run
  BY <1>1, <1>2 DEF Kernel!Deliver, Kernel!Ladder
<1>4. /\ UNCHANGED <<args, pc, records, plan, opts, exit, broken, agreed>>
      /\ pc = "call"
  BY <1>1 DEF Signal, input, world, Kernel!Deliver
<1>5. args.yes \/ agreed
  BY <1>3, <1>4 DEF Leaved, CallOptions
<1>6. sent' \in Seq({"SIGTERM", "SIGKILL"})
  BY <1>1 DEF CallOptions, Kernel!Deliver
<1> QED
  BY <1>3, <1>4, <1>5, <1>6 DEF Stages, Early, NothingDone, Leaved, CallOptions,
       NothingWithoutConsent, ExitCodeHonest, Running

LEMMA DecideLemma == ASSUME IInv, Decide PROVE IInv'
BY DEF Decide, Kernel!Decide, IInv, Stages, Early, NothingDone, Leaved, CallOptions,
       NothingWithoutConsent, ExitCodeHonest, Running, input, world, choice, history

LEMMA ReturnLemma == ASSUME IInv, Return PROVE IInv'
BY DEF Return, IInv, Stages, Early, NothingDone, Leaved, CallOptions,
       NothingWithoutConsent, ExitCodeHonest, Running, input, world, choice, history, call,
       Goto, Exit, Crash, Crashes

LEMMA ReportLemma == ASSUME IInv, Report PROVE IInv'
BY DEF Report, Failed, IInv, Stages, Early, NothingDone, Leaved, CallOptions,
       NothingWithoutConsent, ExitCodeHonest, Running, input, world, choice, work, history,
       call, Exit, Fail, Write

LEMMA ScanLemma == ASSUME IInv, RunScan PROVE IInv'
BY QuietStep DEF RunScan, Early, input, world, choice, work, history, call, Exit, Fail, Write

LEMMA StepLemma == ASSUME IInv, [EdevNext]_<<vars, view>> PROVE IInv'
<1>1. CASE ScanCommand
  BY <1>1, ScanLemma, WorldLemma DEF ScanCommand
<1>2. CASE CleanCommand
  BY <1>2, EarlyLemma, ConsentLemma, WorldLemma, PlanLemma, SkipLemma, BeginLemma, SignalLemma,
     DecideLemma, ReturnLemma, ReportLemma
  DEF CleanCommand, Next, User, Program
<1>3. CASE UNCHANGED <<vars, view>>
  BY <1>3, QuietStep DEF vars, input, world, choice, work, history, call
<1> QED
  BY <1>1, <1>2, <1>3 DEF EdevNext

LEMMA Invariance == EdevSpec => []IInv
<1>1. IInv /\ [EdevNext]_<<vars, view>> => IInv'
  BY StepLemma
<1> QED
  BY <1>1, InitLemma, PTL DEF EdevSpec

(***************************************************************************)
(* No signal without --yes or a confirmation, and none in a dry run.       *)
(***************************************************************************)
THEOREM ConsentBeforeSignals == EdevSpec => []NothingWithoutConsent
BY Invariance, PTL DEF IInv

(***************************************************************************)
(* The exit code tells what became of the processes chosen.                *)
(***************************************************************************)
THEOREM ExitCodes == EdevSpec => []ExitCodeHonest
BY Invariance, PTL DEF IInv
=============================================================================
