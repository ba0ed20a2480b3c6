--------------------------- MODULE Classify_proofs ---------------------------
(***************************************************************************)
(* The invariants of Classify, for every process, any number of ports,     *)
(* words and variables, and every size of the buffers.                     *)
(*                                                                         *)
(* First the parser: the recursive functions of ProcArgs are runs (see     *)
(* Induction) over their strings or cells, the chunks of what is laid out  *)
(* are the strings, and padding costs no more than the empty strings       *)
(* before the first other one.  Then the score is the weight of the        *)
(* evidence, a verdict follows from both, and what all ports of a process  *)
(* share leaves them but three points to differ by.                        *)
(***************************************************************************)
EXTENDS Classify, Induction, FiniteSetTheorems, SequenceTheorems, TLAPS

\* Strings, and sequences of them: those of a process, and cells.
Strings == STRING \cup {Nul, "", "path"}
Words   == Strings \ {Nul}
Texts   == Seq(Strings)
Some    == Texts \ {<<>>}

LEMMA StringFacts == "" \in Strings /\ Nul \in Strings /\ "path" \in Strings /\ "" # Nul /\ "path" # Nul
BY DEF Strings, Nul

\* The chunks of nothing, and one step of each recursive function.
Open == <<"">>

Keep == [x \in Texts \X Strings |-> Add(x[1], x[2])]

\* PairsOf, Flat and Chunks go over their sequence once.
LEMMA PairsRun ==
  ASSUME NEW s \in Texts
  PROVE  /\ PairsOf(s) = Run(Texts, <<>>, Keep, s)
         /\ Keep \in [Texts \X Strings -> Texts] /\ <<>> \in Texts
<1> DEFINE F == CHOOSE f : f = [n \in 0..Len(s) |-> IF n = 0 THEN <<>> ELSE Add(f[n - 1], s[n])]
<1>1. <<>> \in Texts /\ s \in Seq(Strings)
  BY DEF Texts
<1>2. Keep \in [Texts \X Strings -> Texts]
  <2>1. ASSUME NEW kept \in Texts, NEW string \in Strings PROVE Add(kept, string) \in Texts
    <3>1. Append(kept, string) \in Texts
      BY DEF Texts
    <3> QED
      BY <3>1 DEF Add
  <2> QED
    BY <2>1 DEF Keep
<1>3. PICK r : RunsBy(r, Texts, <<>>, Keep, s)
  BY <1>1, <1>2, RunExists
<1>4. \A n \in 1..Len(s) : r[n] = Add(r[n - 1], s[n])
  <2> TAKE n \in 1..Len(s)
  <2>1. n - 1 \in 0..Len(s) /\ r[n - 1] \in Texts /\ s[n] \in Strings
    BY <1>3 DEF RunsBy, Texts
  <2> QED
    BY <1>3, <2>1 DEF RunsBy, Keep
<1>5. r = [n \in 0..Len(s) |-> IF n = 0 THEN <<>> ELSE Add(r[n - 1], s[n])]
  BY <1>3, <1>4 DEF RunsBy
<1>6. F = [n \in 0..Len(s) |-> IF n = 0 THEN <<>> ELSE Add(F[n - 1], s[n])]
  BY <1>5
<1>7. PairsOf(s) = F[Len(s)]
  BY DEF PairsOf
<1> HIDE DEF F
<1>8. InStep(F, r, Len(s))
  BY <1>3, <1>4, <1>6 DEF InStep, RunsBy, Texts
<1>9. F[Len(s)] = r[Len(s)]
  <2>1. Len(s) \in Nat /\ Len(s) \in 0..Len(s)
    BY DEF Texts
  <2> QED
    BY <1>8, <2>1, RunsAgree
<1>10. r[Len(s)] = Run(Texts, <<>>, Keep, s)
  BY <1>1, <1>2, <1>3, RunGives
<1> QED
  BY <1>1, <1>2, <1>7, <1>9, <1>10

\* The cells of the strings so far, and of one more.
Laid(flat, string) == flat \o Cells(string)

Lay == [x \in Texts \X Strings |-> Laid(x[1], x[2])]

LEMMA FlatRun ==
  ASSUME NEW s \in Texts
  PROVE  /\ Flat(s) = Run(Texts, <<>>, Lay, s)
         /\ Lay \in [Texts \X Strings -> Texts] /\ <<>> \in Texts
<1> DEFINE F == CHOOSE f : f = [n \in 0..Len(s) |-> IF n = 0 THEN <<>> ELSE Laid(f[n - 1], s[n])]
<1>1. <<>> \in Texts /\ s \in Seq(Strings)
  BY DEF Texts
<1>2. Lay \in [Texts \X Strings -> Texts]
  <2>1. ASSUME NEW flat \in Texts, NEW string \in Strings PROVE Laid(flat, string) \in Texts
    <3>1. Nul \in Strings
      BY DEF Strings
    <3>2. Cells(string) \in Texts
      BY <3>1, SeqTypes DEF Cells, Texts
    <3> QED
      BY <3>2, SeqTypes DEF Texts, Laid
  <2> QED
    BY <2>1 DEF Lay
<1>3. PICK r : RunsBy(r, Texts, <<>>, Lay, s)
  BY <1>1, <1>2, RunExists
<1>4. \A n \in 1..Len(s) : r[n] = Laid(r[n - 1], s[n])
  <2> TAKE n \in 1..Len(s)
  <2>1. n - 1 \in 0..Len(s) /\ r[n - 1] \in Texts /\ s[n] \in Strings
    BY <1>3 DEF RunsBy, Texts
  <2> QED
    BY <1>3, <2>1 DEF RunsBy, Lay
<1>5. r = [n \in 0..Len(s) |-> IF n = 0 THEN <<>> ELSE Laid(r[n - 1], s[n])]
  BY <1>3, <1>4 DEF RunsBy
<1>6. F = [n \in 0..Len(s) |-> IF n = 0 THEN <<>> ELSE Laid(F[n - 1], s[n])]
  BY <1>5
<1>7. Flat(s) = F[Len(s)]
  BY DEF Flat, Laid
<1> HIDE DEF F
<1>8. InStep(F, r, Len(s))
  BY <1>3, <1>4, <1>6 DEF InStep, RunsBy, Texts
<1>9. F[Len(s)] = r[Len(s)]
  <2>1. Len(s) \in Nat /\ Len(s) \in 0..Len(s)
    BY DEF Texts
  <2> QED
    BY <1>8, <2>1, RunsAgree
<1>10. r[Len(s)] = Run(Texts, <<>>, Lay, s)
  BY <1>1, <1>2, <1>3, RunGives
<1> QED
  BY <1>1, <1>2, <1>7, <1>9, <1>10

\* The chunks so far, and one more cell.
Cut == [x \in Some \X Strings |-> Split(x[1], x[2])]

LEMMA ChunksRun ==
  ASSUME NEW s \in Texts
  PROVE  /\ Chunks(s) = Run(Some, Open, Cut, s)
         /\ Cut \in [Some \X Strings -> Some] /\ Open \in Some
<1> DEFINE F == CHOOSE f : f = [n \in 0..Len(s) |-> IF n = 0 THEN Open ELSE Split(f[n - 1], s[n])]
<1>1. Open \in Some /\ s \in Seq(Strings)
  BY StringFacts, SeqTypes DEF Texts, Some, Open
<1>2. Cut \in [Some \X Strings -> Some]
  <2>1. ASSUME NEW chunks \in Some, NEW cell \in Strings PROVE Split(chunks, cell) \in Some
    <3>1. Append(chunks, "") \in Some
      BY StringFacts, SeqTypes DEF Texts, Some
    <3>2. [chunks EXCEPT ![Len(chunks)] = cell] \in Some
      BY DEF Texts, Some
    <3> QED
      BY <3>1, <3>2 DEF Split
  <2> QED
    BY <2>1 DEF Cut
<1>3. PICK r : RunsBy(r, Some, Open, Cut, s)
  BY <1>1, <1>2, RunExists
<1>4. \A n \in 1..Len(s) : r[n] = Split(r[n - 1], s[n])
  <2> TAKE n \in 1..Len(s)
  <2>1. n - 1 \in 0..Len(s) /\ r[n - 1] \in Some /\ s[n] \in Strings
    BY <1>3 DEF RunsBy, Texts
  <2> QED
    BY <1>3, <2>1 DEF RunsBy, Cut
<1>5. r = [n \in 0..Len(s) |-> IF n = 0 THEN Open ELSE Split(r[n - 1], s[n])]
  BY <1>3, <1>4 DEF RunsBy
<1>6. F = [n \in 0..Len(s) |-> IF n = 0 THEN Open ELSE Split(F[n - 1], s[n])]
  BY <1>5
<1>7. Chunks(s) = F[Len(s)]
  BY DEF Chunks, Open
<1> HIDE DEF F
<1>8. InStep(F, r, Len(s))
  BY <1>3, <1>4, <1>6 DEF InStep, RunsBy, Texts
<1>9. F[Len(s)] = r[Len(s)]
  <2>1. Len(s) \in Nat /\ Len(s) \in 0..Len(s)
    BY DEF Texts
  <2> QED
    BY <1>8, <2>1, RunsAgree
<1>10. r[Len(s)] = Run(Some, Open, Cut, s)
  BY <1>1, <1>2, <1>3, RunGives
<1> QED
  BY <1>1, <1>2, <1>7, <1>9, <1>10

\* What the first strings, and one more, make.
LEMMA PairsOfStep ==
  /\ PairsOf(<<>>) = <<>>
  /\ \A s \in Texts, e \in Strings :
       PairsOf(s) \in Texts /\ PairsOf(Append(s, e)) = Add(PairsOf(s), e)
<1>1. <<>> \in Texts
  BY SeqTypes DEF Texts
<1>2. PairsOf(<<>>) = <<>>
  BY <1>1, PairsRun, RunOfNone
<1>3. ASSUME NEW s \in Texts, NEW e \in Strings
      PROVE  PairsOf(s) \in Texts /\ PairsOf(Append(s, e)) = Add(PairsOf(s), e)
  <2>1. PICK t \in Texts : t = Append(s, e)
    BY SeqTypes DEF Texts
  <2>2. s \in Seq(Strings) /\ t \in Seq(Strings)
    BY DEF Texts
  <2>3. Keep \in [Texts \X Strings -> Texts] /\ <<>> \in Texts
    BY PairsRun
  <2>4. Run(Texts, <<>>, Keep, s) \in Texts /\ OneFurther(Texts, <<>>, Keep, s, e, t)
    BY <2>2, <2>3, RunGives, RunOfAppend
  <2>5. Run(Texts, <<>>, Keep, s) = PairsOf(s) /\ Run(Texts, <<>>, Keep, t) = PairsOf(t)
    BY PairsRun
  <2>6. PairsOf(t) = Keep[<<PairsOf(s), e>>] /\ PairsOf(s) \in Texts
    BY <2>1, <2>4, <2>5 DEF OneFurther
  <2> QED
    BY <2>1, <2>6 DEF Keep
<1> QED
  BY <1>2, <1>3

LEMMA FlatStep ==
  /\ Flat(<<>>) = <<>>
  /\ \A s \in Texts, e \in Strings :
       Flat(s) \in Texts /\ Flat(Append(s, e)) = Flat(s) \o Cells(e)
<1>1. <<>> \in Texts
  BY SeqTypes DEF Texts
<1>2. Flat(<<>>) = <<>>
  BY <1>1, FlatRun, RunOfNone
<1>3. ASSUME NEW s \in Texts, NEW e \in Strings
      PROVE  Flat(s) \in Texts /\ Flat(Append(s, e)) = Flat(s) \o Cells(e)
  <2>1. PICK t \in Texts : t = Append(s, e)
    BY SeqTypes DEF Texts
  <2>2. s \in Seq(Strings) /\ t \in Seq(Strings)
    BY DEF Texts
  <2>3. Lay \in [Texts \X Strings -> Texts] /\ <<>> \in Texts
    BY FlatRun
  <2>4. Run(Texts, <<>>, Lay, s) \in Texts /\ OneFurther(Texts, <<>>, Lay, s, e, t)
    BY <2>2, <2>3, RunGives, RunOfAppend
  <2>5. Run(Texts, <<>>, Lay, s) = Flat(s) /\ Run(Texts, <<>>, Lay, t) = Flat(t)
    BY FlatRun
  <2>6. Flat(t) = Lay[<<Flat(s), e>>] /\ Flat(s) \in Texts
    BY <2>1, <2>4, <2>5 DEF OneFurther
  <2> QED
    BY <2>1, <2>6 DEF Lay, Laid
<1> QED
  BY <1>2, <1>3

LEMMA ChunksStep ==
  /\ Chunks(<<>>) = Open
  /\ \A s \in Texts, e \in Strings :
       Chunks(s) \in Some /\ Chunks(Append(s, e)) = Split(Chunks(s), e)
<1>1. <<>> \in Texts
  BY SeqTypes DEF Texts
<1>2. Chunks(<<>>) = Open
  BY <1>1, ChunksRun, RunOfNone
<1>3. ASSUME NEW s \in Texts, NEW e \in Strings
      PROVE  Chunks(s) \in Some /\ Chunks(Append(s, e)) = Split(Chunks(s), e)
  <2>1. PICK t \in Texts : t = Append(s, e)
    BY SeqTypes DEF Texts
  <2>2. s \in Seq(Strings) /\ t \in Seq(Strings)
    BY DEF Texts
  <2>3. Cut \in [Some \X Strings -> Some] /\ Open \in Some
    BY ChunksRun
  <2>4. Run(Some, Open, Cut, s) \in Some /\ OneFurther(Some, Open, Cut, s, e, t)
    BY <2>2, <2>3, RunGives, RunOfAppend
  <2>5. Run(Some, Open, Cut, s) = Chunks(s) /\ Run(Some, Open, Cut, t) = Chunks(t)
    BY ChunksRun
  <2>6. Chunks(t) = Cut[<<Chunks(s), e>>] /\ Chunks(s) \in Some
    BY <2>1, <2>4, <2>5 DEF OneFurther
  <2> QED
    BY <2>1, <2>6 DEF Cut
<1> QED
  BY <1>2, <1>3

\* Only pairs are kept, and what is no pair is left out.
LEMMA PairsBounded ==
  ASSUME NEW s \in Texts
  PROVE  Len(PairsOf(s)) <= Len(s)
<1> DEFINE S == {t \in Texts : Len(PairsOf(t)) <= Len(t)}
<1>1. <<>> \in S
  BY PairsOfStep, SeqTypes DEF Texts
<1>2. ASSUME NEW t \in Texts, NEW e \in Strings, t \in S PROVE Append(t, e) \in S
  <2>1. Append(t, e) \in Texts /\ Len(Append(t, e)) = Len(t) + 1 /\ Len(t) \in Nat
    BY SeqTypes DEF Texts
  <2>2. PairsOf(t) \in Texts /\ PairsOf(Append(t, e)) = Add(PairsOf(t), e)
    BY PairsOfStep
  <2>3. Len(Add(PairsOf(t), e)) <= Len(PairsOf(t)) + 1
    BY <2>2 DEF Add, Texts
  <2>4. Len(PairsOf(t)) <= Len(t) /\ Len(PairsOf(t)) \in Nat
    BY <1>2, <2>2 DEF Texts
  <2> HIDE DEF S
  <2>5. Len(PairsOf(Append(t, e))) <= Len(t) + 1
    BY <2>1, <2>2, <2>3, <2>4
  <2> QED
    BY <2>1, <2>5 DEF S
<1> HIDE DEF S
<1>3. \A t \in Seq(Strings) : t \in S
  BY <1>1, <1>2, SeqInduct DEF Texts
<1> QED
  BY <1>3 DEF S, Texts

LEMMA PairsOfBlank ==
  ASSUME NEW s \in Texts
  PROVE  PairsOf(Append(s, "")) = PairsOf(s)
BY PairsOfStep, StringFacts, ProcArgsAssumption DEF Add

\* The chunks are the strings, and what is after the last NUL.
LEMMA ChunksOfFlat ==
  ASSUME NEW s \in Seq(Words)
  PROVE  Chunks(Flat(s)) = Append(s, "") /\ s \in Texts /\ Flat(s) \in Texts
<1> DEFINE S == {t \in Texts : Chunks(Flat(t)) = Append(t, "")}
<1>1. <<>> \in S
  <2>1. <<>> \in Texts
    BY SeqTypes DEF Texts
  <2>2. Chunks(Flat(<<>>)) = <<"">>
    BY FlatStep, ChunksStep DEF Open
  <2>3. Append(<<>>, "") = <<"">>
    OBVIOUS
  <2> QED
    BY <2>1, <2>2, <2>3
<1>2. ASSUME NEW t \in Seq(Words), NEW e \in Words, t \in S PROVE Append(t, e) \in S
  <2>1. t \in Texts /\ e \in Strings /\ e # Nul /\ Append(t, e) \in Texts
    BY <1>2, SeqTypes DEF Words, Texts
  <2>2. Flat(t) \in Texts /\ Flat(Append(t, e)) = Flat(t) \o Cells(e)
    BY <2>1, FlatStep
  <2>3. Chunks(Flat(t)) = Append(t, "")
    BY <1>2
  <2>4. \A c \in Texts, x \in Strings : Append(c, x) \in Texts /\ Chunks(Append(c, x)) = Split(Chunks(c), x)
    BY ChunksStep, SeqTypes DEF Texts
  <2> HIDE DEF S
  <2>5. Chunks(Flat(t) \o Cells(e)) = Append(Append(t, e), "")
    <3>1. CASE e = ""
      <4>1. Flat(t) \o Cells(e) = Append(Flat(t), Nul)
        <5>1. Cells(e) = <<Nul>>
          BY <3>1 DEF Cells
        <5>2. Flat(t) \in Seq(Strings) /\ Nul \in Strings
          BY <2>2, StringFacts DEF Texts
        <5>3. Flat(t) \o <<Nul>> = Append(Flat(t), Nul)
          <6>1. Joins(Flat(t), Nul, Nul)
            BY <5>2, Joined
          <6> QED
            BY <6>1, Zenon DEF Joins
        <5> QED
          BY <5>1, <5>3
      <4>2. Chunks(Append(Flat(t), Nul)) = Split(Append(t, ""), Nul)
        BY <2>2, <2>3, <2>4, StringFacts
      <4> QED
        BY <3>1, <4>1, <4>2 DEF Split
    <3>2. CASE e # ""
      <4>1. Flat(t) \o Cells(e) = Append(Append(Flat(t), e), Nul)
        <5>1. Cells(e) = <<e, Nul>>
          BY <3>2 DEF Cells
        <5>2. Flat(t) \in Seq(Strings) /\ Nul \in Strings /\ e \in Strings
          BY <2>1, <2>2, StringFacts DEF Texts
        <5>3. Flat(t) \o <<e, Nul>> = Append(Append(Flat(t), e), Nul)
          <6>1. Joins(Flat(t), e, Nul)
            BY <5>2, Joined
          <6> QED
            BY <6>1, Zenon DEF Joins
        <5> QED
          BY <5>1, <5>3
      <4>2. Chunks(Append(Flat(t), e)) = Split(Append(t, ""), e) /\ Append(Flat(t), e) \in Texts
        BY <2>1, <2>2, <2>3, <2>4
      <4>3. Split(Append(t, ""), e) = Append(t, e)
        <5>1. Split(Append(t, ""), e) = [Append(t, "") EXCEPT ![Len(Append(t, ""))] = e]
          BY <2>1 DEF Split
        <5>2. t \in Seq(Strings) /\ "" \in Strings /\ e \in Strings
          BY <2>1, StringFacts DEF Texts
        <5>3. [Append(t, "") EXCEPT ![Len(Append(t, ""))] = e] = Append(t, e)
          <6>1. Joins(t, "", e)
            BY <5>2, Joined
          <6> QED
            BY <6>1, Zenon DEF Joins
        <5> QED
          BY <5>1, <5>3
      <4>4. Chunks(Append(Append(Flat(t), e), Nul)) = Split(Append(t, e), Nul)
        BY <2>4, <4>2, <4>3, StringFacts
      <4> QED
        BY <4>1, <4>4 DEF Split
    <3> QED
      BY <3>1, <3>2
  <2> QED
    BY <2>1, <2>2, <2>5 DEF S
<1> HIDE DEF S
<1>3. \A t \in Seq(Words) : t \in S
  BY <1>1, <1>2, SeqInduct
<1>4. Chunks(Flat(s)) = Append(s, "") /\ s \in Texts
  BY <1>3 DEF S
<1>5. Flat(s) \in Texts
  BY <1>4, FlatStep, StringFacts
<1> QED
  BY <1>4, <1>5

\* Padding, and the empty strings that it is taken for.
Nuls(k)   == Times(Nul, k)
Blanks(k) == Times("", k)

LEMMA CellsType ==
  \A e \in Strings : Cells(e) \in Texts
<1> TAKE e \in Strings
<1>1. Nul \in Strings
  BY StringFacts
<1>2. <<Nul>> \in Texts /\ <<e, Nul>> \in Texts
  BY <1>1, SeqTypes DEF Texts
<1> QED
  BY <1>2 DEF Cells

LEMMA BlanksAreNuls ==
  ASSUME NEW k \in Nat
  PROVE  Blanks(k) \in Texts /\ Nuls(k) \in Texts /\ Flat(Blanks(k)) = Nuls(k)
<1> DEFINE S == {n \in Nat : Flat(Blanks(n)) = Nuls(n)}
<1>1. ASSUME NEW n \in Nat
      PROVE  /\ Blanks(n) \in Texts /\ Nuls(n) \in Texts
             /\ Blanks(n + 1) = Append(Blanks(n), "") /\ Nuls(n + 1) = Append(Nuls(n), Nul)
  <2>1. Blanks(n) \in Texts /\ Nuls(n) \in Texts
    BY StringFacts, Copies DEF Blanks, Nuls, Texts
  <2>2. Grows("", n) /\ Grows(Nul, n)
    BY StringFacts, Copies
  <2> QED
    BY <2>1, <2>2, Zenon DEF Grows, Blanks, Nuls
<1>2. 0 \in S
  <2>1. Blanks(0) = <<>> /\ Nuls(0) = <<>>
    BY DEF Blanks, Nuls, Times
  <2> QED
    BY <2>1, FlatStep
<1>3. ASSUME NEW n \in Nat, n \in S PROVE n + 1 \in S
  <2>1. Flat(Append(Blanks(n), "")) = Flat(Blanks(n)) \o Cells("")
    BY <1>1, FlatStep, StringFacts
  <2>2. Cells("") = <<Nul>>
    BY DEF Cells
  <2>3. Joins(Nuls(n), Nul, Nul)
    <3>1. Nuls(n) \in Seq(Strings) /\ Nul \in Strings
      BY <1>1, StringFacts DEF Texts
    <3> QED
      BY <3>1, Joined
  <2>4. Nuls(n) \o <<Nul>> = Append(Nuls(n), Nul)
    BY <2>3, Zenon DEF Joins
  <2>5. Flat(Blanks(n + 1)) = Nuls(n + 1)
    BY <1>1, <1>3, <2>1, <2>2, <2>4
  <2> QED
    BY <2>5
<1> HIDE DEF S
<1>4. k \in S
  BY <1>2, <1>3, Induct
<1> QED
  BY <1>1, <1>4 DEF S

\* Empty strings are NULs before the cells of the others.
LEMMA FlatAfterBlanks ==
  ASSUME NEW k \in Nat, NEW t \in Texts
  PROVE  Flat(Blanks(k) \o t) = Nuls(k) \o Flat(t)
<1> DEFINE S == {s \in Texts : Flat(Blanks(k) \o s) = Nuls(k) \o Flat(s)}
<1>1. Blanks(k) \in Texts /\ Nuls(k) \in Texts /\ Flat(Blanks(k)) = Nuls(k)
  BY BlanksAreNuls
<1>2. <<>> \in S
  <2>1. <<>> \in Texts /\ "" \in Strings
    BY SeqTypes, StringFacts DEF Texts
  <2>2. Chained(Blanks(k), <<>>, "", <<>>) /\ Chained(Nuls(k), <<>>, "", <<>>)
    BY <1>1, <2>1, Chain DEF Texts
  <2>3. Blanks(k) \o <<>> = Blanks(k) /\ Nuls(k) \o <<>> = Nuls(k)
    BY <2>2, Zenon DEF Chained
  <2> QED
    BY <1>1, <2>1, <2>3, FlatStep
<1>3. ASSUME NEW s \in Texts, NEW e \in Strings, s \in S PROVE Append(s, e) \in S
  <2>1. Append(s, e) \in Texts /\ Blanks(k) \o s \in Texts
    BY <1>1, SeqTypes DEF Texts
  <2>2. Flat(s) \in Texts /\ Flat(Append(s, e)) = Flat(s) \o Cells(e) /\ Cells(e) \in Texts
    BY FlatStep, CellsType
  <2>3. Flat(Append(Blanks(k) \o s, e)) = (Nuls(k) \o Flat(s)) \o Cells(e)
    BY <1>3, <2>1, FlatStep
  <2>4. Chained(Blanks(k), s, e, s) /\ Chained(Nuls(k), Flat(s), e, Cells(e))
    BY <1>1, <2>2, Chain DEF Texts
  <2>5. /\ Blanks(k) \o Append(s, e) = Append(Blanks(k) \o s, e)
        /\ (Nuls(k) \o Flat(s)) \o Cells(e) = Nuls(k) \o (Flat(s) \o Cells(e))
    BY <2>4, Zenon DEF Chained
  <2>6. Flat(Blanks(k) \o Append(s, e)) = Nuls(k) \o Flat(Append(s, e))
    BY <2>2, <2>3, <2>5
  <2> HIDE DEF S
  <2> QED
    BY <2>1, <2>6 DEF S
<1> HIDE DEF S
<1>4. \A s \in Seq(Strings) : s \in S
  BY <1>2, <1>3, SeqInduct DEF Texts
<1> QED
  BY <1>4 DEF S, Texts

\* Unless the first string is empty, the first cell is that string.
LEMMA FirstCell ==
  ASSUME NEW t \in Texts, t # <<>>, t[1] # ""
  PROVE  Flat(t) # <<>> /\ Flat(t)[1] = t[1]
<1> DEFINE S == {s \in Texts : s # <<>> /\ s[1] # "" => Flat(s) # <<>> /\ Flat(s)[1] = s[1]}
<1>1. <<>> \in S
  <2>1. <<>> \in Texts
    BY SeqTypes, StringFacts DEF Texts
  <2> QED
    BY <2>1
<1>2. ASSUME NEW s \in Texts, NEW e \in Strings, s \in S PROVE Append(s, e) \in S
  <2>1. Append(s, e) \in Texts
    BY SeqTypes DEF Texts
  <2>2. Flat(s) \in Texts /\ Flat(Append(s, e)) = Flat(s) \o Cells(e) /\ Cells(e) \in Texts
    BY FlatStep, CellsType
  <2> SUFFICES ASSUME Append(s, e)[1] # ""
               PROVE  Flat(Append(s, e)) # <<>> /\ Flat(Append(s, e))[1] = Append(s, e)[1]
    BY <2>1
  <2>5. Opens(s, e, s) /\ Opens(Flat(s), e, Cells(e))
    BY <2>2, Beginning DEF Texts
  <2>3. CASE s = <<>>
    <3>1. Append(s, e)[1] = e /\ Flat(s) = <<>>
      BY <2>3, <2>5, FlatStep, Zenon DEF Opens
    <3>2. Cells(e) = <<e, Nul>>
      BY <3>1 DEF Cells
    <3>3. <<>> \o <<e, Nul>> = <<e, Nul>>
      BY <2>2, <3>2, ConcatEmptySeq DEF Texts
    <3>4. Flat(Append(s, e)) = <<e, Nul>>
      BY <2>2, <3>1, <3>2, <3>3
    <3>5. <<e, Nul>> # <<>> /\ <<e, Nul>>[1] = e
      OBVIOUS
    <3> QED
      BY <3>1, <3>4, <3>5
  <2>4. CASE s # <<>>
    <3>1. Append(s, e)[1] = s[1]
      BY <2>4, <2>5, Zenon DEF Opens
    <3>2. Flat(s) # <<>> /\ Flat(s)[1] = s[1]
      BY <1>2, <2>4, <3>1
    <3>3. Flat(s) \o Cells(e) # <<>> /\ (Flat(s) \o Cells(e))[1] = Flat(s)[1]
      BY <2>5, <3>2, Zenon DEF Opens
    <3> QED
      BY <2>2, <3>1, <3>2, <3>3
  <2> QED
    BY <2>3, <2>4
<1> HIDE DEF S
<1>3. \A s \in Seq(Strings) : s \in S
  BY <1>1, <1>2, SeqInduct DEF Texts
<1> QED
  BY <1>3 DEF S, Texts

\* The first NUL, and the first cell that is none.
LEMMA FirstNul ==
  ASSUME NEW E, NEW s \in Seq(E), NEW n \in 1..Len(s), s[n] = Nul, \A i \in 1..(n - 1) : s[i] # Nul
  PROVE  SelectInSeq(s, LAMBDA c : c = Nul) = n
<1> DEFINE I == {i \in 1..Len(s) : s[i] = Nul}
<1>1. n \in I /\ \A i \in I : i \in Int /\ n <= i
  OBVIOUS
<1>2. SelectInSeq(s, LAMBDA c : c = Nul) = IF I # {} THEN Min(I) ELSE 0
  BY DEF SelectInSeq
<1> HIDE DEF I
<1>3. Min(I) = n
  <2>1. \A x \in I : (\A y \in I : x <= y) => x = n
    BY <1>1
  <2> QED
    BY <1>1, <2>1 DEF Min
<1> QED
  BY <1>1, <1>2, <1>3

LEMMA FirstOther ==
  ASSUME NEW E, NEW s \in Seq(E), NEW n \in 1..Len(s), s[n] # Nul, \A i \in 1..(n - 1) : s[i] = Nul
  PROVE  SelectInSeq(s, LAMBDA c : c # Nul) = n
<1> DEFINE I == {i \in 1..Len(s) : s[i] # Nul}
<1>1. n \in I /\ \A i \in I : i \in Int /\ n <= i
  OBVIOUS
<1>2. SelectInSeq(s, LAMBDA c : c # Nul) = IF I # {} THEN Min(I) ELSE 0
  BY DEF SelectInSeq
<1> HIDE DEF I
<1>3. Min(I) = n
  <2>1. \A x \in I : (\A y \in I : x <= y) => x = n
    BY <1>1
  <2> QED
    BY <1>1, <2>1 DEF Min
<1> QED
  BY <1>1, <1>2, <1>3

LEMMA NoOther ==
  ASSUME NEW E, NEW s \in Seq(E), \A i \in 1..Len(s) : s[i] = Nul
  PROVE  SelectInSeq(s, LAMBDA c : c # Nul) = 0
<1>1. {i \in 1..Len(s) : s[i] # Nul} = {}
  OBVIOUS
<1> QED
  BY <1>1 DEF SelectInSeq

\* The path, m NULs, and the cells of the strings.
IsBlock(cells, m, f) ==
  /\ Len(cells) = 1 + m + Len(f)
  /\ cells[1] # Nul
  /\ \A i \in 2..(1 + m) : cells[i] = Nul
  /\ \A j \in 1..Len(f) : cells[1 + m + j] = f[j]

\* What is made of the chunks of those cells.
Taken(chunks, count) ==
  LET c == IF count < Len(chunks) THEN count ELSE Len(chunks)
  IN  [argv |-> SubSeq(chunks, 1, c), env |-> PairsOf(SubSeq(chunks, c + 1, Len(chunks)))]

TakenOf(strings, count) == Taken(Append(strings, ""), count)

LEMMA Skipped ==
  ASSUME NEW buf, NEW m \in Nat \ {0}, NEW f \in Texts, buf.cells \in Texts,
         IsBlock(buf.cells, m, f), f # <<>> => f[1] # Nul
  PROVE  ParseProcargs(buf) = Taken(Chunks(f), buf.count)
<1>1. PICK cells \in Seq(Strings) : cells = buf.cells
  BY DEF Texts
<1>2. PICK n \in Nat : n = Len(f)
  BY DEF Texts
<1>3. Len(cells) = 1 + m + n /\ cells[1] # Nul
  BY <1>1, <1>2 DEF IsBlock
<1>4. \A i \in 2..(1 + m) : cells[i] = Nul
  BY <1>1 DEF IsBlock
<1>5. \A j \in 1..n : cells[1 + m + j] = f[j]
  BY <1>1, <1>2 DEF IsBlock
<1>6. SelectInSeq(cells, LAMBDA c : c = Nul) = 2
  <2>1. 2 \in 1..Len(cells) /\ cells[2] = Nul /\ \A i \in 1..(2 - 1) : cells[i] # Nul
    BY <1>3, <1>4
  <2> QED
    BY <2>1, FirstNul
<1>7. PICK rest \in Seq(Strings) : rest = SubSeq(cells, 2, Len(cells))
  <2>1. SubSeq(cells, 2, Len(cells)) \in Seq(Strings)
    BY <1>3
  <2> QED
    BY <2>1
<1>8. Len(rest) = m + n /\ \A i \in 1..(m + n) : rest[i] = cells[i + 1]
  BY <1>3, <1>7
<1>9. \A i \in 1..m : rest[i] = Nul
  BY <1>4, <1>8
<1>10. \A j \in 1..n : rest[m + j] = f[j]
  <2> TAKE j \in 1..n
  <2>1. m + j \in 1..(m + n) /\ (m + j) + 1 = 1 + m + j
    OBVIOUS
  <2> QED
    BY <1>5, <1>8, <2>1
<1> DEFINE skip == SelectInSeq(rest, LAMBDA c : c # Nul)
<1>11. CASE n = 0
  <2>1. skip = 0
    <3>1. \A i \in 1..Len(rest) : rest[i] = Nul
      BY <1>8, <1>9, <1>11
    <3> QED
      BY <3>1, NoOther
  <2>2. f = <<>>
    <3>1. \A s \in Seq(Strings) : Len(s) = 0 => s = <<>>
      OBVIOUS
    <3> QED
      BY <1>2, <1>11, <3>1 DEF Texts
  <2> QED
    BY <1>1, <1>6, <1>7, <2>1, <2>2 DEF ParseProcargs, Taken
<1>12. CASE n # 0
  <2>1. f # <<>> /\ m + 1 \in 1..Len(rest) /\ rest[m + 1] = f[1] /\ (m + 1) - 1 = m
    BY <1>2, <1>8, <1>10, <1>12 DEF Texts
  <2>2. skip = m + 1
    BY <1>9, <2>1, FirstOther
  <2>3. PICK g \in Seq(Strings) : g = SubSeq(rest, m + 1, Len(rest))
    <3>1. SubSeq(rest, m + 1, Len(rest)) \in Seq(Strings)
      BY <1>8
    <3> QED
      BY <3>1
  <2>4. Len(g) = n /\ \A j \in 1..n : g[j] = rest[m + j]
    BY <1>8, <2>3
  <2>5. f \in Seq(Strings) /\ Len(g) = Len(f) /\ \A j \in 1..Len(g) : g[j] = f[j]
    BY <1>2, <1>10, <2>4 DEF Texts
  <2>6. g = f
    BY <2>5, SeqEqual
  <2>7. m + 1 # 0
    OBVIOUS
  <2> QED
    BY <1>1, <1>6, <1>7, <2>2, <2>3, <2>6, <2>7 DEF ParseProcargs, Taken
<1> QED
  BY <1>11, <1>12

\* The path, and NULs.
LEMMA HeadCells ==
  ASSUME NEW q \in Nat
  PROVE  LET h == Cells("path") \o Times(Nul, q)
         IN  /\ h \in Seq(Strings) /\ Len(h) = 2 + q /\ h[1] # Nul
             /\ \A i \in 2..(2 + q) : h[i] = Nul
<1>1. PICK z \in Seq(Strings) : z = Times(Nul, q)
  BY StringFacts, Copies
<1>2. Len(z) = q /\ \A i \in 1..q : z[i] = Nul
  BY <1>1 DEF Times
<1>3. Cells("path") = <<"path", Nul>>
  BY DEF Cells
<1>4. PICK w \in Seq(Strings) : w = <<"path", Nul>>
  BY StringFacts, SeqTypes
<1>5. Len(w) = 2 /\ w[1] # Nul /\ w[2] = Nul
  BY <1>4, StringFacts
<1>6. w \o z \in Seq(Strings) /\ IsConcat(w \o z, w, 2, z, q)
  BY <1>2, <1>5, Concat
<1>7. PICK h \in Seq(Strings) : h = w \o z
  BY <1>6
<1>8. IsConcat(h, w, 2, z, q)
  BY <1>6, <1>7
<1>9. Len(h) = 2 + q /\ h[1] = w[1] /\ h[2] = w[2] /\ \A i \in 1..q : h[2 + i] = z[i]
  BY <1>8 DEF IsConcat
<1>10. ASSUME NEW i \in 2..(2 + q) PROVE h[i] = Nul
  <2>1. CASE i = 2
    BY <1>5, <1>9, <2>1
  <2>2. CASE i # 2
    <3>1. PICK j \in 1..q : i = 2 + j
      <4>1. i - 2 \in 1..q /\ i = 2 + (i - 2)
        BY <2>2
      <4> QED
        BY <4>1
    <3> QED
      BY <1>2, <1>9, <3>1
  <2> QED
    BY <2>1, <2>2
<1>11. h[1] # Nul
  BY <1>5, <1>9
<1>12. h = Cells("path") \o Times(Nul, q)
  BY <1>1, <1>3, <1>4, <1>7
<1> QED
  BY <1>9, <1>10, <1>11, <1>12

\* The path, and all the NULs before the cells of the strings.
LEMMA BlockCells ==
  ASSUME NEW q \in Nat, NEW k \in Nat, NEW f \in Seq(Strings)
  PROVE  LET c == (Cells("path") \o Times(Nul, q)) \o (Times(Nul, k) \o f)
         IN  c \in Seq(Strings) /\ IsBlock(c, 1 + q + k, f)
<1>1. PICK h \in Seq(Strings) : h = Cells("path") \o Times(Nul, q)
  BY HeadCells
<1>2. Len(h) = 2 + q /\ h[1] # Nul /\ \A i \in 2..(2 + q) : h[i] = Nul
  BY <1>1, HeadCells
<1>3. PICK z \in Seq(Strings) : z = Times(Nul, k)
  BY StringFacts, Copies
<1>4. Len(z) = k /\ \A i \in 1..k : z[i] = Nul
  BY <1>3 DEF Times
<1>5. PICK n \in Nat : n = Len(f)
  OBVIOUS
<1>6. z \o f \in Seq(Strings) /\ IsConcat(z \o f, z, k, f, n)
  BY <1>4, <1>5, Concat
<1>7. PICK g \in Seq(Strings) : g = z \o f
  BY <1>6
<1>8. IsConcat(g, z, k, f, n)
  BY <1>6, <1>7
<1>9. Len(g) = k + n
  BY <1>8 DEF IsConcat
<1>10. PICK m \in Nat : m = 2 + q
  OBVIOUS
<1>11. PICK l \in Nat : l = k + n
  OBVIOUS
<1>12. Len(h) = m /\ Len(g) = l
  BY <1>2, <1>9, <1>10, <1>11
<1>13. h \o g \in Seq(Strings) /\ IsConcat(h \o g, h, m, g, l)
  BY <1>12, Concat
<1>14. PICK c \in Seq(Strings) : c = h \o g
  BY <1>13
<1>15. IsConcat(c, h, m, g, l)
  BY <1>13, <1>14
<1>16. Len(c) = m + l /\ (\A i \in 1..m : c[i] = h[i]) /\ \A i \in 1..l : c[m + i] = g[i]
  BY <1>15 DEF IsConcat
<1>17. c[1] # Nul
  <2>1. 1 \in 1..m
    BY <1>10
  <2> QED
    BY <1>2, <1>16, <2>1
<1>18. ASSUME NEW i \in 2..(m + k) PROVE c[i] = Nul
  <2>1. CASE i <= m
    <3>1. i \in 1..m /\ i \in 2..(2 + q)
      BY <1>10, <2>1
    <3> QED
      BY <1>2, <1>16, <3>1
  <2>2. CASE i > m
    <3>1. PICK j \in 1..k : i = m + j
      <4>1. i - m \in 1..k /\ i = m + (i - m)
        BY <2>2
      <4> QED
        BY <4>1
    <3>2. j \in 1..l
      BY <1>11
    <3>3. c[i] = g[j]
      BY <1>16, <3>1, <3>2
    <3>4. g[j] = z[j]
      BY <1>8 DEF IsConcat
    <3> QED
      BY <1>4, <3>3, <3>4
  <2> QED
    BY <2>1, <2>2
<1>19. ASSUME NEW j \in 1..n PROVE c[m + k + j] = f[j]
  <2>1. k + j \in 1..l /\ m + k + j = m + (k + j)
    BY <1>11
  <2>2. c[m + k + j] = g[k + j]
    BY <1>16, <2>1
  <2>3. g[k + j] = f[j]
    BY <1>8 DEF IsConcat
  <2> QED
    BY <2>2, <2>3
<1>20. PICK b \in Nat : b = 1 + q + k
  OBVIOUS
<1>21. 1 + b = m + k /\ Len(c) = 1 + b + n
  BY <1>10, <1>11, <1>16, <1>20
<1>22. IsBlock(c, b, f)
  BY <1>5, <1>17, <1>18, <1>19, <1>21 DEF IsBlock
<1> QED
  BY <1>1, <1>3, <1>7, <1>14, <1>20, <1>22

\* What of the argument area is no padding: behind it there is one chunk more,
\* and every empty string before the first other one is missing.
LEMMA Parsed ==
  ASSUME NEW p, p.argv \in Seq(Words), p.environ \in Seq(Words)
  PROVE  \E k \in Nat, t \in Seq(Words) :
           /\ ParseProcargs(Layout(p)) = TakenOf(t, Len(p.argv))
           /\ Len(p.argv) + Len(p.environ) = k + Len(t)
           /\ p.argv # <<>> /\ p.argv[1] # "" => t = p.argv \o p.environ
<1>0. PICK q \in Nat : q = Padding
  BY ProcArgsAssumption
<1>1. PICK x \in Seq(Words) : x = p.argv
  OBVIOUS
<1>2. PICK y \in Seq(Words) : y = p.environ
  OBVIOUS
<1>3. PICK s \in Seq(Words) : s = x \o y
  <2>1. x \o y \in Seq(Words)
    BY ConcatProperties
  <2> QED
    BY <2>1
<1>4. Len(s) = Len(x) + Len(y)
  BY <1>3
<1>5. x # <<>> => s # <<>> /\ s[1] = x[1]
  <2> SUFFICES ASSUME x # <<>> PROVE s # <<>> /\ s[1] = x[1]
    OBVIOUS
  <2>1. Opens(x, x[1], y)
    <3>1. x[1] \in Words
      OBVIOUS
    <3> QED
      BY <3>1, Beginning
  <2> QED
    BY <1>3, <2>1, Zenon DEF Opens
<1>6. "" \in Words
  BY StringFacts DEF Words
<1>7. PICK k \in Nat, t \in Seq(Words) :
        /\ s = Blanks(k) \o t /\ Len(s) = k + Len(t)
        /\ t # <<>> => t[1] # ""
        /\ s # <<>> /\ s[1] # "" => k = 0 /\ t = s
  <2>1. \E k \in Nat, t \in Seq(Words) : Leads(s, "", k, t)
    BY <1>6, Leading
  <2> QED
    BY <2>1 DEF Leads, Blanks
<1>8. Chunks(Flat(t)) = Append(t, "") /\ t \in Texts /\ Flat(t) \in Texts
  BY ChunksOfFlat
<1>9. Flat(s) = Nuls(k) \o Flat(t)
  BY <1>7, <1>8, FlatAfterBlanks
<1> DEFINE pad == [i \in 1..Padding |-> Nul]
           head == Cells("path") \o pad
           cells == head \o Flat(s)
<1>10. Layout(p) = [count |-> Len(x), cells |-> cells]
  BY <1>1, <1>2, <1>3 DEF Layout
<1>11. cells \in Texts /\ IsBlock(cells, 1 + q + k, Flat(t))
  <2>1. PICK f \in Seq(Strings) : f = Flat(t)
    BY <1>8 DEF Texts
  <2>2. cells = (Cells("path") \o Times(Nul, q)) \o (Times(Nul, k) \o f)
    BY <1>0, <1>9, <2>1 DEF Nuls, Times
  <2> HIDE DEF cells
  <2> QED
    BY <2>1, <2>2, BlockCells DEF Texts
<1> HIDE DEF cells
<1>12. Flat(t) # <<>> => Flat(t)[1] # Nul
  <2>1. CASE t = <<>>
    BY <2>1, FlatStep
  <2>2. CASE t # <<>>
    <3>1. Flat(t)[1] = t[1]
      BY <1>7, <1>8, <2>2, FirstCell
    <3>2. t[1] \in Words
      BY <2>2
    <3> QED
      BY <3>1, <3>2 DEF Words
  <2> QED
    BY <2>1, <2>2
<1>13. ParseProcargs(Layout(p)) = TakenOf(t, Len(x))
  <2>1. 1 + q + k \in Nat \ {0}
    BY <1>0
  <2>2. PICK buf : buf = Layout(p)
    OBVIOUS
  <2>3. buf.cells = cells /\ buf.count = Len(x)
    BY <1>10, <2>2
  <2>4. ParseProcargs(buf) = Taken(Chunks(Flat(t)), buf.count)
    BY <1>8, <1>11, <1>12, <2>1, <2>3, Skipped
  <2> QED
    BY <1>8, <2>2, <2>3, <2>4 DEF TakenOf
<1>14. x # <<>> /\ x[1] # "" => t = x \o y
  BY <1>3, <1>5, <1>7
<1> QED
  BY <1>1, <1>2, <1>4, <1>7, <1>13, <1>14

\* What is taken of so many chunks, the last of which is empty.
LEMMA TakenIs ==
  ASSUME NEW t \in Texts, NEW count \in Nat
  PROVE  LET taken == TakenOf(t, count)
         IN  /\ taken.argv \in Texts /\ Len(taken.argv) <= count
             /\ taken.env \in Texts
             /\ count > Len(t) => taken.env = <<>>
             /\ count <= Len(t) => /\ taken.argv = SubSeq(t, 1, count)
                                   /\ taken.env = PairsOf(SubSeq(t, count + 1, Len(t)))
<1>1. PICK e \in Strings : e = ""
  BY StringFacts
<1>2. PICK s \in Seq(Strings) : s = t
  BY DEF Texts
<1>3. PICK n \in Nat : n = Len(s)
  OBVIOUS
<1>4. PICK u \in Seq(Strings) : u = Append(s, e)
  BY SeqTypes
<1>5. Len(u) = n + 1 /\ u[n + 1] = e /\ \A i \in 1..n : u[i] = s[i]
  BY <1>3, <1>4
<1>6. PICK c \in Nat : c = IF count < n + 1 THEN count ELSE n + 1
  OBVIOUS
<1>7. PICK a \in Seq(Strings) : a = SubSeq(u, 1, c)
  <2>1. SubSeq(u, 1, c) \in Seq(Strings)
    BY <1>5, <1>6
  <2> QED
    BY <2>1
<1>8. PICK b \in Seq(Strings) : b = SubSeq(u, c + 1, n + 1)
  <2>1. SubSeq(u, c + 1, n + 1) \in Seq(Strings)
    BY <1>5, <1>6
  <2> QED
    BY <2>1
<1>9. TakenOf(t, count) = [argv |-> a, env |-> PairsOf(b)]
  BY <1>1, <1>2, <1>4, <1>5, <1>6, <1>7, <1>8 DEF Taken, TakenOf
<1>10. Len(a) = c /\ c <= count /\ c <= n + 1
  BY <1>5, <1>6, <1>7
<1>11. a \in Texts /\ b \in Texts /\ PairsOf(b) \in Texts
  BY PairsOfStep, StringFacts DEF Texts
<1>12. ASSUME count > n PROVE PairsOf(b) = <<>>
  <2>1. c = n + 1
    BY <1>6, <1>12
  <2>2. b = <<>>
    BY <1>8, <2>1
  <2> QED
    BY <2>2, PairsOfStep
<1>13. ASSUME count <= n
       PROVE  a = SubSeq(s, 1, count) /\ PairsOf(b) = PairsOf(SubSeq(s, count + 1, n))
  <2>1. c = count
    BY <1>6, <1>13
  <2>2. PICK v \in Seq(Strings) : v = SubSeq(s, 1, count)
    <3>1. SubSeq(s, 1, count) \in Seq(Strings)
      BY <1>3, <1>13
    <3> QED
      BY <3>1
  <2>3. PICK w \in Seq(Strings) : w = SubSeq(s, count + 1, n)
    <3>1. SubSeq(s, count + 1, n) \in Seq(Strings)
      BY <1>3, <1>13
    <3> QED
      BY <3>1
  <2>4. a = v
    <3>1. Len(v) = count /\ Len(a) = count
      BY <1>3, <1>10, <1>13, <2>1, <2>2
    <3>2. \A i \in 1..Len(a) : a[i] = v[i]
      BY <1>3, <1>5, <1>7, <1>13, <2>1, <2>2, <3>1
    <3> QED
      BY <3>1, <3>2, SeqEqual
  <2>5. b = Append(w, e)
    <3>1. PICK d \in Nat : d = n - count
      BY <1>13
    <3>2. Len(w) = d /\ \A i \in 1..d : w[i] = s[count + i]
      BY <1>3, <1>13, <2>3, <3>1
    <3>3. Len(b) = d + 1 /\ \A i \in 1..(d + 1) : b[i] = u[count + i]
      BY <1>5, <1>8, <1>13, <2>1, <3>1
    <3>4. PICK x \in Seq(Strings) : x = Append(w, e)
      BY SeqTypes
    <3>5. Len(x) = d + 1 /\ x[d + 1] = e /\ \A i \in 1..d : x[i] = w[i]
      BY <3>2, <3>4
    <3>6. ASSUME NEW i \in 1..(d + 1) PROVE b[i] = x[i]
      <4>1. CASE i = d + 1
        <5>1. count + i = n + 1
          BY <3>1, <4>1
        <5> QED
          BY <1>5, <3>3, <3>5, <4>1, <5>1
      <4>2. CASE i # d + 1
        <5>1. i \in 1..d /\ count + i \in 1..n
          BY <3>1, <4>2
        <5> QED
          BY <1>5, <3>2, <3>3, <3>5, <5>1
      <4> QED
        BY <4>1, <4>2
    <3>7. b = x
      BY <3>3, <3>5, <3>6, SeqEqual
    <3> QED
      BY <3>4, <3>7
  <2>6. PairsOf(b) = PairsOf(w)
    BY <1>1, <2>5, PairsOfBlank DEF Texts
  <2> QED
    BY <2>2, <2>3, <2>4, <2>6
<1>14. PICK taken : taken = TakenOf(t, count)
  OBVIOUS
<1>15. taken.argv = a /\ taken.env = PairsOf(b)
  BY <1>9, <1>14
<1>16. Len(a) <= count
  BY <1>6, <1>10
<1>17. count > Len(t) => taken.env = <<>>
  BY <1>2, <1>3, <1>12, <1>15
<1>18. count <= Len(t) => taken.argv = SubSeq(t, 1, count) /\ taken.env = PairsOf(SubSeq(t, count + 1, Len(t)))
  BY <1>2, <1>3, <1>13, <1>15
<1> QED
  BY <1>11, <1>14, <1>15, <1>16, <1>17, <1>18

LEMMA TakenBounded ==
  ASSUME NEW t \in Texts, NEW count \in Nat, NEW m \in Nat, Len(t) <= count + m
  PROVE  Len(TakenOf(t, count).env) <= m
<1>0. PICK taken : taken = TakenOf(t, count)
  OBVIOUS
<1>1. PICK s \in Seq(Strings) : s = t
  BY DEF Texts
<1>2. PICK n \in Nat : n = Len(s)
  OBVIOUS
<1>3. CASE count > n
  <2>1. taken.env = <<>>
    BY <1>0, <1>1, <1>2, <1>3, TakenIs
  <2>2. Len(<<>>) = 0
    OBVIOUS
  <2> QED
    BY <1>0, <2>1, <2>2
<1>4. CASE count <= n
  <2>1. PICK w \in Seq(Strings) : w = SubSeq(s, count + 1, n)
    <3>1. SubSeq(s, count + 1, n) \in Seq(Strings)
      BY <1>2, <1>4
    <3> QED
      BY <3>1
  <2>2. Len(w) <= m
    BY <1>1, <1>2, <1>4, <2>1
  <2>3. taken.env = PairsOf(w)
    BY <1>0, <1>1, <1>2, <1>4, <2>1, TakenIs
  <2>4. Len(PairsOf(w)) <= Len(w) /\ PairsOf(w) \in Texts
    BY PairsBounded, PairsOfStep, StringFacts DEF Texts
  <2>5. Len(PairsOf(w)) \in Nat /\ Len(w) \in Nat
    BY <2>4 DEF Texts
  <2> QED
    BY <1>0, <2>2, <2>3, <2>4, <2>5
<1> QED
  BY <1>2, <1>3, <1>4

LEMMA TakenAll ==
  ASSUME NEW x \in Texts, NEW y \in Texts
  PROVE  TakenOf(x \o y, Len(x)) = [argv |-> x, env |-> PairsOf(y)]
<1>1. PICK a \in Seq(Strings) : a = x
  BY DEF Texts
<1>2. PICK b \in Seq(Strings) : b = y
  BY DEF Texts
<1>3. PICK m \in Nat : m = Len(a)
  OBVIOUS
<1>4. PICK n \in Nat : n = Len(b)
  OBVIOUS
<1>5. a \o b \in Seq(Strings) /\ IsConcat(a \o b, a, m, b, n)
  BY <1>3, <1>4, Concat
<1>6. PICK t \in Seq(Strings) : t = a \o b
  BY <1>5
<1>7. IsConcat(t, a, m, b, n)
  BY <1>5, <1>6
<1>8. Len(t) = m + n /\ (\A i \in 1..m : t[i] = a[i]) /\ \A i \in 1..n : t[m + i] = b[i]
  BY <1>7 DEF IsConcat
<1>9. SubSeq(t, 1, m) = a
  <2>1. PICK v \in Seq(Strings) : v = SubSeq(t, 1, m)
    <3>1. SubSeq(t, 1, m) \in Seq(Strings)
      BY <1>8
    <3> QED
      BY <3>1
  <2>2. Len(v) = m /\ \A i \in 1..m : v[i] = a[i]
    BY <1>8, <2>1
  <2>3. v = a
    BY <1>3, <2>2, SeqEqual
  <2> QED
    BY <2>1, <2>3
<1>10. SubSeq(t, m + 1, m + n) = b
  <2>1. PICK v \in Seq(Strings) : IsBehind(v, t, m, n)
    <3>1. Len(t) = m + n
      BY <1>8
    <3> QED
      BY <3>1, Behind
  <2>2. \A i \in 1..n : v[i] = b[i]
    BY <1>8, <2>1 DEF IsBehind
  <2>3. v = b
    BY <1>4, <2>1, <2>2, SeqEqual DEF IsBehind
  <2> QED
    BY <2>1, <2>3 DEF IsBehind
<1>11. PICK taken : taken = TakenOf(t, m)
  OBVIOUS
<1>12. m <= Len(t) /\ t \in Texts
  BY <1>8 DEF Texts
<1>13. taken.argv = SubSeq(t, 1, m) /\ taken.env = PairsOf(SubSeq(t, m + 1, m + n))
  <2>1. /\ taken.argv = SubSeq(t, 1, m)
        /\ taken.env = PairsOf(SubSeq(t, m + 1, Len(t)))
    BY <1>11, <1>12, TakenIs
  <2> QED
    BY <1>8, <2>1
<1>14. taken = [argv |-> taken.argv, env |-> taken.env]
  BY <1>11 DEF Taken, TakenOf
<1> QED
  BY <1>1, <1>2, <1>3, <1>6, <1>9, <1>10, <1>11, <1>13, <1>14

LEMMA WordsOf ==
  ASSUME NEW p \in Processes
  PROVE  p.argv \in Seq(Words) /\ p.environ \in Seq(Words)
<1>1. STRING \ {Nul} \subseteq Words
  BY DEF Words, Strings
<1>2. Seq(STRING \ {Nul}) \subseteq Seq(Words)
  BY <1>1, SeqMonotonic
<1> QED
  BY <1>2, ClassifyAssumption

\* The cells of a process can be counted.
LEMMA Counted ==
  ASSUME NEW p \in Processes
  PROVE  Len(Layout(p).cells) \in Nat
<1>1. p.argv \o p.environ \in Seq(Words)
  BY WordsOf, ConcatProperties
<1>2. PICK f \in Seq(Strings) : f = Flat(p.argv \o p.environ)
  BY <1>1, ChunksOfFlat DEF Texts
<1>3. PICK h \in Seq(Strings) : h = Cells("path") \o Times(Nul, Padding)
  BY HeadCells, ProcArgsAssumption
<1>4. h \o f \in Seq(Strings)
  BY ConcatProperties
<1>5. Layout(p).cells = h \o f
  BY <1>2, <1>3 DEF Layout, Times
<1> QED
  BY <1>4, <1>5

\* What cmdline makes of a process, if it is allowed to read it and has room.
LEMMA CmdlineIs ==
  ASSUME NEW p
  PROVE  /\ Cmdline(p) \subseteq {ParseProcargs(Layout(p))}
         /\ Cmdline(p) = {} => ~p.mine \/ ~(Len(Layout(p).cells) < ArgMax)
BY DEF Cmdline, Sysctl

\* What is read is in the process, and no more than that.
Given(p, a) ==
  /\ a.argv \in Texts /\ a.env \in Texts
  /\ Len(a.argv) <= Len(p.argv) /\ Len(a.env) <= Len(p.environ)
  /\ p.argv # <<>> /\ p.argv[1] # "" => a.argv = p.argv /\ a.env = PairsOf(p.environ)

LEMMA ReadAsGiven ==
  ASSUME NEW p \in Processes
  PROVE  Given(p, ParseProcargs(Layout(p)))
<1>1. PICK x \in Seq(Words) : x = p.argv
  BY WordsOf
<1>2. PICK y \in Seq(Words) : y = p.environ
  BY WordsOf
<1>3. PICK k \in Nat, t \in Seq(Words) :
        /\ ParseProcargs(Layout(p)) = TakenOf(t, Len(p.argv))
        /\ Len(p.argv) + Len(p.environ) = k + Len(t)
        /\ p.argv # <<>> /\ p.argv[1] # "" => t = p.argv \o p.environ
  BY WordsOf, Parsed
<1>4. Len(x) \in Nat /\ Len(y) \in Nat /\ Len(t) \in Nat /\ Len(t) <= Len(x) + Len(y)
  <2>1. Len(x) \in Nat /\ Len(y) \in Nat /\ Len(t) \in Nat
    OBVIOUS
  <2>2. Len(x) + Len(y) = k + Len(t)
    BY <1>1, <1>2, <1>3
  <2> QED
    BY <2>1, <2>2
<1>5. t \in Texts /\ x \in Texts /\ y \in Texts
  BY ChunksOfFlat
<1>6. PICK a : a = TakenOf(t, Len(x))
  OBVIOUS
<1>7. a.argv \in Texts /\ a.env \in Texts /\ Len(a.argv) <= Len(x)
  BY <1>4, <1>5, <1>6, TakenIs
<1>8. Len(a.env) <= Len(y)
  BY <1>4, <1>5, <1>6, TakenBounded
<1>9. x # <<>> /\ x[1] # "" => a = [argv |-> x, env |-> PairsOf(y)]
  BY <1>1, <1>2, <1>3, <1>5, <1>6, TakenAll
<1>10. x # <<>> /\ x[1] # "" => a.argv = x /\ a.env = PairsOf(y)
  <2>1. ASSUME a = [argv |-> x, env |-> PairsOf(y)] PROVE a.argv = x /\ a.env = PairsOf(y)
    BY <2>1
  <2> QED
    BY <1>9, <2>1, Zenon
<1> QED
  BY <1>1, <1>2, <1>3, <1>6, <1>7, <1>8, <1>10 DEF Given

\* What is known of the command line is what cmdline returns.
ArgsInv ==
  /\ proc \in Processes
  /\ args = IF pc = "args" THEN {} ELSE Cmdline(proc)

LEMMA ArgsStep == ASSUME ArgsInv, [Next]_vars PROVE ArgsInv'
<1>1. CASE ReadArgs
  BY <1>1 DEF ReadArgs, ArgsInv
<1>2. CASE UNCHANGED vars \/ Done
  BY <1>2 DEF Done, vars, given, locals, ArgsInv
<1>3. ASSUME UNCHANGED given, pc # "args", pc' # "args" PROVE ArgsInv'
  BY <1>3 DEF given, ArgsInv
<1>4. CASE Begin \/ EnvMode
  BY <1>3, <1>4 DEF Begin, EnvMode
<1>5. CASE Identify
  BY <1>3, <1>5 DEF Identify, Finish
<1>6. CASE Conclude
  BY <1>3, <1>6 DEF Conclude, Finish
<1>7. CASE Framework \/ Token \/ Cwd \/ Root \/ Parent \/ Orphan \/ EnvTool \/ Bind
           \/ Uptime \/ Connections
  BY <1>3, <1>7
  DEF Framework, Token, Cwd, Root, Parent, Orphan, EnvTool, Bind, Uptime, Connections, Test
<1> QED
  BY <1>1, <1>2, <1>4, <1>5, <1>6, <1>7 DEF Next

LEMMA ArgsRead == Spec => []ArgsInv
<1>1. Init => ArgsInv
  BY DEF Init, ArgsInv
<1>2. ArgsInv /\ [Next]_vars => ArgsInv'
  BY ArgsStep
<1> QED
  BY <1>1, <1>2, PTL DEF Spec

(***************************************************************************)
(* The words and the variables are those of the process, whatever their    *)
(* number, the sizes of the buffers and the padding (see ArgsAsGiven).     *)
(***************************************************************************)
THEOREM ArgsAlwaysAsGiven == Spec => []ArgsAsGiven
<1>1. ArgsInv => ArgsAsGiven
  <2> SUFFICES ASSUME ArgsInv PROVE ArgsAsGiven
    OBVIOUS
  <2>1. PICK p \in Processes : p = proc
    BY DEF ArgsInv
  <2>2. args \subseteq {ParseProcargs(Layout(p))}
    BY <2>1, CmdlineIs DEF ArgsInv
  <2>3. args = {} /\ pc # "args" => ~p.mine \/ ~(Len(Layout(p).cells) < ArgMax)
    BY <2>1, CmdlineIs DEF ArgsInv
  <2>4. p.argv # <<>> /\ p.argv[1] # "" =>
          \A a \in args : a.argv = p.argv /\ a.env = PairsOf(p.environ)
    BY <2>2, ReadAsGiven DEF Given
  <2>5. Len(Layout(p).cells) \in Nat /\ ArgMax \in Nat
    BY Counted, ProcArgsAssumption
  <2>6. args = {} /\ pc # "args" => ~p.mine \/ Len(Layout(p).cells) >= ArgMax
    BY <2>3, <2>5
  <2> QED
    BY <2>1, <2>4, <2>6, Zenon DEF ArgsAsGiven
<1> QED
  BY <1>1, ArgsRead, PTL
-----------------------------------------------------------------------------
\* Pieces of evidence, and adding up what they are worth.
Evidence == DOMAIN Weight

Points   == Int
Naught   == 0

Weigh == [x \in Points \X Evidence |-> x[1] + Weight[x[2]]]

LEMMA Weights ==
  /\ \A e \in Evidence : Weight[e] \in Int
  /\ {"framework", "token", "project", "home", "root", "supervised", "interactive", "orphan",
      "development", "production", "tool", "loopback", "fresh", "old", "local", "external"}
       \subseteq Evidence
  /\ Weight["framework"] = 5 /\ Weight["token"] = 2 /\ Weight["project"] = 3
  /\ Weight["home"] = 1 /\ Weight["root"] = -2 /\ Weight["supervised"] = -3
  /\ Weight["interactive"] = 3 /\ Weight["orphan"] = -2 /\ Weight["development"] = 3
  /\ Weight["production"] = -3 /\ Weight["tool"] = 2 /\ Weight["loopback"] = 1
  /\ Weight["fresh"] = 1 /\ Weight["old"] = -1 /\ Weight["local"] = 1 /\ Weight["external"] = -1
BY DEF Weight, Evidence

\* WeightOf goes over the evidence once.
LEMMA WeightRun ==
  ASSUME NEW s \in Seq(Evidence)
  PROVE  /\ WeightOf(s) = Run(Points, Naught, Weigh, s)
         /\ Weigh \in [Points \X Evidence -> Points]
<1> DEFINE F == CHOOSE f : f = [n \in 0..Len(s) |-> IF n = 0 THEN Naught ELSE f[n - 1] + Weight[s[n]]]
<1>1. Weigh \in [Points \X Evidence -> Points]
  <2>1. \A x \in Points \X Evidence : x[1] + Weight[x[2]] \in Points
    BY Weights DEF Points
  <2> QED
    BY <2>1 DEF Weigh
<1>2. PICK r : RunsBy(r, Points, Naught, Weigh, s)
  <2>1. Naught \in Points
    BY DEF Naught, Points
  <2> QED
    BY <1>1, <2>1, RunExists
<1>3. \A n \in 1..Len(s) : r[n] = r[n - 1] + Weight[s[n]]
  <2> TAKE n \in 1..Len(s)
  <2>1. n - 1 \in 0..Len(s) /\ r[n - 1] \in Points /\ s[n] \in Evidence
    BY <1>2 DEF RunsBy
  <2> QED
    BY <1>2, <2>1 DEF RunsBy, Weigh
<1>4. r = [n \in 0..Len(s) |-> IF n = 0 THEN Naught ELSE r[n - 1] + Weight[s[n]]]
  BY <1>2, <1>3 DEF RunsBy
<1>5. F = [n \in 0..Len(s) |-> IF n = 0 THEN Naught ELSE F[n - 1] + Weight[s[n]]]
  BY <1>4
<1>6. WeightOf(s) = F[Len(s)]
  BY DEF WeightOf, Naught
<1> HIDE DEF F
<1>7. InStep(F, r, Len(s))
  BY <1>2, <1>3, <1>5 DEF InStep, RunsBy
<1>8. F[Len(s)] = r[Len(s)]
  BY <1>7, RunsAgree
<1>9. r[Len(s)] = Run(Points, Naught, Weigh, s)
  <2>1. Naught \in Points
    BY DEF Naught, Points
  <2> QED
    BY <1>1, <1>2, <2>1, RunGives
<1> QED
  BY <1>1, <1>6, <1>8, <1>9

\* One more piece of evidence counts for what it is worth.
LEMMA WeightStep ==
  /\ WeightOf(<<>>) = 0
  /\ \A s \in Seq(Evidence), e \in Evidence :
       /\ Append(s, e) \in Seq(Evidence) /\ WeightOf(s) \in Int
       /\ WeightOf(Append(s, e)) = WeightOf(s) + Weight[e]
<1>1. <<>> \in Seq(Evidence) /\ Naught \in Points
  BY DEF Naught, Points
<1>2. Weigh \in [Points \X Evidence -> Points]
  BY <1>1, WeightRun
<1>3. WeightOf(<<>>) = 0
  BY <1>1, <1>2, WeightRun, RunOfNone DEF Naught
<1>4. ASSUME NEW s \in Seq(Evidence), NEW e \in Evidence
      PROVE  /\ Append(s, e) \in Seq(Evidence) /\ WeightOf(s) \in Int
             /\ WeightOf(Append(s, e)) = WeightOf(s) + Weight[e]
  <2>1. PICK t \in Seq(Evidence) : t = Append(s, e)
    BY SeqTypes
  <2>2. Run(Points, Naught, Weigh, s) \in Points /\ OneFurther(Points, Naught, Weigh, s, e, t)
    BY <1>1, <1>2, RunGives, RunOfAppend
  <2>3. Run(Points, Naught, Weigh, s) = WeightOf(s) /\ Run(Points, Naught, Weigh, t) = WeightOf(t)
    BY WeightRun
  <2>4. WeightOf(t) = Weigh[<<WeightOf(s), e>>] /\ WeightOf(s) \in Points
    BY <2>1, <2>2, <2>3 DEF OneFurther
  <2>5. WeightOf(t) = WeightOf(s) + Weight[e]
    BY <2>4 DEF Weigh
  <2> QED
    BY <2>1, <2>4, <2>5 DEF Points
<1> QED
  BY <1>3, <1>4

\* The score is what the evidence so far is worth.
ScoreInv == ev \in Seq(Evidence) /\ score = WeightOf(ev)

\* A test that counts for what its evidence is worth keeps it so.
LEMMA HitLemma ==
  ASSUME ScoreInv, NEW e \in Evidence, NEW w, w = Weight[e], Hit(w, e)
  PROVE  ScoreInv'
<1>1. PICK why \in Seq(Evidence) : why = ev
  BY DEF ScoreInv
<1>2. Append(why, e) \in Seq(Evidence) /\ WeightOf(Append(why, e)) = WeightOf(why) + Weight[e]
  BY WeightStep
<1>3. ev' = Append(why, e) /\ score' = WeightOf(why) + Weight[e]
  BY <1>1 DEF Hit, ScoreInv
<1> QED
  BY <1>2, <1>3 DEF ScoreInv

LEMMA ScoreStep == ASSUME ScoreInv, [Next]_vars PROVE ScoreInv'
<1>1. ASSUME UNCHANGED <<score, ev>> PROVE ScoreInv'
  BY <1>1 DEF ScoreInv
<1>2. ASSUME Miss PROVE ScoreInv'
  BY <1>1, <1>2 DEF Miss
<1>3. CASE ReadArgs \/ Done \/ UNCHANGED vars
  BY <1>1, <1>3 DEF ReadArgs, Done, vars, locals
<1>4. CASE Begin
  <2>1. ev' = <<>> /\ score' = 0
    BY <1>4 DEF Begin
  <2>2. <<>> \in Seq(Evidence)
    OBVIOUS
  <2> QED
    BY <2>1, <2>2, WeightStep DEF ScoreInv
<1>5. CASE Identify \/ Conclude
  BY <1>1, <1>5 DEF Identify, Conclude, Finish
<1>6. CASE Framework
  BY <1>2, <1>6, HitLemma, Weights DEF Framework
<1>7. CASE Token
  BY <1>2, <1>7, HitLemma, Weights DEF Token
<1>8. CASE Cwd
  <2>1. Hit(3, "project") \/ Hit(1, "home") \/ Miss
    BY <1>8 DEF Cwd
  <2> QED
    BY <1>2, <2>1, HitLemma, Weights
<1>9. CASE Root
  BY <1>2, <1>9, HitLemma, Weights DEF Root
<1>10. CASE Parent
  <2>1. Hit(-3, "supervised") \/ Hit(3, "interactive") \/ Miss
    BY <1>10 DEF Parent
  <2> QED
    BY <1>2, <2>1, HitLemma, Weights
<1>11. CASE Orphan
  BY <1>2, <1>11, HitLemma, Weights DEF Orphan
<1>12. CASE EnvMode
  <2>1. Hit(3, "development") \/ Hit(-3, "production") \/ Miss
    BY <1>12 DEF EnvMode
  <2> QED
    BY <1>2, <2>1, HitLemma, Weights
<1>13. CASE EnvTool
  BY <1>2, <1>13, HitLemma, Weights DEF EnvTool
<1>14. CASE Bind
  BY <1>2, <1>14, HitLemma, Weights DEF Bind
<1>15. CASE Uptime
  <2>1. Hit(1, "fresh") \/ Hit(-1, "old") \/ Miss
    BY <1>15 DEF Uptime
  <2> QED
    BY <1>2, <2>1, HitLemma, Weights
<1>16. CASE Connections
  <2>1. Hit(1, "local") \/ Hit(-1, "external") \/ Miss
    BY <1>16 DEF Connections
  <2> QED
    BY <1>2, <2>1, HitLemma, Weights
<1> QED
  BY <1>3, <1>4, <1>5, <1>6, <1>7, <1>8, <1>9, <1>10, <1>11, <1>12, <1>13, <1>14, <1>15, <1>16
  DEF Next

LEMMA ArgvIs == ASSUME ArgsInv PROVE Argv \in Texts /\ Env \in Texts
<1>1. PICK p \in Processes : p = proc
  BY DEF ArgsInv
<1>2. args \subseteq {ParseProcargs(Layout(p))}
  BY <1>1, CmdlineIs DEF ArgsInv
<1>3. \A a \in args : a.argv \in Texts /\ a.env \in Texts
  BY <1>2, ReadAsGiven DEF Given
<1>4. <<>> \in Texts
  BY EmptySeq DEF Texts
<1>5. CASE args = {}
  BY <1>4, <1>5 DEF Argv, Env
<1>6. CASE args # {}
  <2>1. (CHOOSE a \in args : TRUE) \in args
    BY <1>6
  <2> QED
    BY <1>3, <1>6, <2>1 DEF Argv, Env
<1> QED
  BY <1>5, <1>6

\* What is looked up is a row of the table.
LEMMA LookupIs ==
  ASSUME ArgsInv, NEW table
  PROVE  Lookup(table) \in table \cup {None}
<1>1. PICK argv \in Seq(Strings) : argv = Argv
  BY ArgvIs DEF Texts
<1>2. ASSUME Places(table) # {} PROVE Argv[Least(Places(table))] \in table
  <2>1. PICK S \in SUBSET Nat : S = Places(table)
    <3>1. Places(table) \in SUBSET Nat
      BY <1>1 DEF Places
    <3> QED
      BY <3>1
  <2>2. \E x \in S : \A y \in S : x <= y
    BY <1>2, <2>1, LeastFound
  <2>3. Least(S) \in S
    BY <2>2 DEF Least
  <2> QED
    BY <2>1, <2>3 DEF Places
<1> QED
  BY <1>2 DEF Lookup

\* A verdict that has a name and a reason.
Judgement(v) ==
  /\ v.kind \in Kinds /\ v.confidence \in {"High", "Medium", "Low"}
  /\ v.kind = "DevServer" => v.label # "none"
  /\ v.kind \in Scored => v.score = WeightOf(v.evidence) /\ (v.kind = "DevServer" <=> v.score >= 3)
  /\ v.kind \notin Scored => v.score = 0 /\ v.evidence # <<>>

\* Ports are classified once each, and all verdicts are such.
VerdictInv ==
  /\ todo \subseteq DOMAIN Ports /\ DOMAIN verdicts \subseteq DOMAIN Ports \ todo
  /\ pc \in {"args", "begin"} => at = Nowhere
  /\ pc \notin {"args", "begin"} => at \in DOMAIN Ports \ todo
  /\ label \in {"none", "known"}
  /\ \A p \in DOMAIN verdicts : Judgement(verdicts[p])

Verdict(kind, name, points, why) ==
  [kind |-> kind, label |-> name, score |-> points, evidence |-> why,
   confidence |-> Confidence(kind, points)]

\* What Finish does, for any part of a verdict.
LEMMA FinishIs ==
  ASSUME NEW kind, NEW name, NEW points, NEW why, Finish(kind, name, points, why)
  PROVE  /\ DOMAIN verdicts' = DOMAIN verdicts \cup {at}
         /\ \A p \in DOMAIN verdicts' :
              \/ p \in DOMAIN verdicts /\ verdicts'[p] = verdicts[p]
              \/ p = at /\ verdicts'[p] = Verdict(kind, name, points, why)
         /\ at' = Nowhere /\ pc' = "begin"
         /\ UNCHANGED <<given, todo, score, label, ev, seen>>
<1> DEFINE v == Verdict(kind, name, points, why)
<1>1. verdicts' = [p \in DOMAIN verdicts \cup {at} |-> IF p # at THEN verdicts[p] ELSE v]
  BY DEF Finish, Verdict
<1> HIDE DEF v
<1>2. DOMAIN verdicts' = DOMAIN verdicts \cup {at}
  BY <1>1
<1>3. \A p \in DOMAIN verdicts' :
        (p \in DOMAIN verdicts /\ verdicts'[p] = verdicts[p]) \/ (p = at /\ verdicts'[p] = v)
  BY <1>1
<1> QED
  BY <1>2, <1>3 DEF Finish, v

LEMMA ConfidenceIs ==
  ASSUME NEW kind, NEW points
  PROVE  Confidence(kind, points) \in {"High", "Medium", "Low"}
BY DEF Confidence

\* One more of them keeps the invariant.
LEMMA VerdictFinish ==
  ASSUME VerdictInv, pc \notin {"args", "begin"},
         NEW kind, NEW name, NEW points, NEW why, Finish(kind, name, points, why),
         Judgement(Verdict(kind, name, points, why))
  PROVE  VerdictInv'
<1>1. /\ DOMAIN verdicts' = DOMAIN verdicts \cup {at}
      /\ \A p \in DOMAIN verdicts' :
           \/ p \in DOMAIN verdicts /\ verdicts'[p] = verdicts[p]
           \/ p = at /\ verdicts'[p] = Verdict(kind, name, points, why)
      /\ at' = Nowhere /\ pc' = "begin"
      /\ todo' = todo /\ label' = label
  BY FinishIs
<1>2. \A p \in DOMAIN verdicts' : Judgement(verdicts'[p])
  BY <1>1 DEF VerdictInv
<1>3. at \in DOMAIN Ports \ todo
  BY DEF VerdictInv
<1> QED
  BY <1>1, <1>2, <1>3 DEF VerdictInv

\* An identity has its reason, whatever the connections.
LEMMA ReasonGiven == <<"service">> \o ConnNames # <<>>
<1> DEFINE E == {"service", "local", "external"}
<1>1. \A e \in E : <<e>> \in Seq(E) /\ <<e>> # <<>>
  OBVIOUS
<1>2. <<>> \in Seq(E) /\ "service" \in E /\ "local" \in E /\ "external" \in E
  OBVIOUS
<1> HIDE DEF E
<1>3. ConnNames \in Seq(E)
  BY <1>1, <1>2 DEF ConnNames
<1>4. PICK s \in Seq(E) : s = <<"service">>
  BY <1>1, <1>2
<1>5. Opens(s, "service", ConnNames)
  BY <1>2, <1>3, Beginning
<1>6. s # <<>>
  BY <1>1, <1>2, <1>4
<1> QED
  BY <1>4, <1>5, <1>6, Zenon DEF Opens

LEMMA IdentityJudged ==
  ASSUME NEW kind \in Kinds \ Scored, NEW name, NEW why, why # <<>>
  PROVE  Judgement(Verdict(kind, name, 0, why))
BY ConfidenceIs DEF Judgement, Verdict, Scored

LEMMA ScoreJudged ==
  ASSUME NEW points \in Int, NEW name, NEW why, points = WeightOf(why),
         NEW kind, kind = IF points >= 3 THEN "DevServer" ELSE "Unknown",
         kind = "DevServer" => name # "none"
  PROVE  Judgement(Verdict(kind, name, points, why))
<1>1. PICK v : v = Verdict(kind, name, points, why)
  OBVIOUS
<1>2. /\ v.kind = kind /\ v.label = name /\ v.score = points /\ v.evidence = why
      /\ v.confidence \in {"High", "Medium", "Low"}
  BY <1>1, ConfidenceIs DEF Verdict
<1>3. kind \in Scored /\ kind \in Kinds /\ (kind = "DevServer" <=> points >= 3)
  BY DEF Scored, Kinds
<1> QED
  BY <1>1, <1>2, <1>3 DEF Judgement

LEMMA VerdictStep == ASSUME ArgsInv, ScoreInv, VerdictInv, [Next]_vars PROVE VerdictInv'
<1>1. CASE Done \/ UNCHANGED vars
  BY <1>1 DEF Done, vars, locals, VerdictInv
<1>2. CASE ReadArgs
  BY <1>2 DEF ReadArgs, VerdictInv
<1>3. CASE Begin
  BY <1>3 DEF Begin, VerdictInv
<1>4. ASSUME pc \notin {"args", "begin"}, pc' \notin {"args", "begin"},
             UNCHANGED <<todo, at, verdicts>>, label' \in {"none", "known"}
      PROVE  VerdictInv'
  BY <1>4 DEF VerdictInv
<1>5. label \in {"none", "known"}
  BY DEF VerdictInv
<1>6. CASE Token \/ Cwd \/ Root \/ Parent \/ Orphan \/ EnvTool \/ Bind \/ Uptime \/ Connections
  BY <1>4, <1>5, <1>6 DEF Token, Cwd, Root, Parent, Orphan, EnvTool, Bind, Uptime, Connections, Test, Same
<1>7. CASE Framework
  BY <1>4, <1>5, <1>7 DEF Framework, Test
<1>8. CASE EnvMode
  BY <1>4, <1>5, <1>8 DEF EnvMode
<1>9. CASE Identify
  <2>1. pc = "identity"
    BY <1>9 DEF Identify
  <2>2. CASE proc.system
    <3>1. "System" \in Kinds \ Scored /\ <<"system">> # <<>>
      BY DEF Kinds, Scored
    <3>2. Finish("System", "none", 0, <<"system">>)
      BY <1>9, <2>2 DEF Identify
    <3>3. Judgement(Verdict("System", "none", 0, <<"system">>))
      BY <3>1, IdentityJudged
    <3> QED
      BY <2>1, <3>2, <3>3, VerdictFinish
  <2>3. CASE ~proc.system /\ proc.exe \in Containers
    <3>1. "Container" \in Kinds \ Scored /\ <<"forwarder">> # <<>>
      BY DEF Kinds, Scored
    <3>2. Finish("Container", "known", 0, <<"forwarder">>)
      BY <1>9, <2>3 DEF Identify
    <3>3. Judgement(Verdict("Container", "known", 0, <<"forwarder">>))
      BY <3>1, IdentityJudged
    <3> QED
      BY <2>1, <3>2, <3>3, VerdictFinish
  <2>4. CASE ~proc.system /\ proc.exe \notin Containers /\ Known(Services)
    <3>1. PICK kind : kind = Lookup(Services)
      OBVIOUS
    <3>2. kind \in Kinds \ Scored
      BY <2>4, <3>1, LookupIs DEF Known, Services, Kinds, Scored
    <3>3. PICK why : why = <<"service">> \o ConnNames
      OBVIOUS
    <3>4. why # <<>>
      BY <3>3, ReasonGiven
    <3>5. Finish(kind, "known", 0, why)
      BY <1>9, <2>4, <3>1, <3>3 DEF Identify
    <3>6. Judgement(Verdict(kind, "known", 0, why))
      BY <3>2, <3>4, IdentityJudged
    <3> QED
      BY <2>1, <3>5, <3>6, VerdictFinish
  <2>5. CASE ~proc.system /\ proc.exe \notin Containers /\ ~Known(Services)
    BY <1>4, <1>5, <1>9, <2>5 DEF Identify
  <2> QED
    BY <2>2, <2>3, <2>4, <2>5
<1>10. CASE Conclude
  <2>1. PICK kind : kind = IF score >= 3 THEN "DevServer" ELSE "Unknown"
    OBVIOUS
  <2>2. PICK name : name = IF label = "none" /\ kind = "DevServer" THEN Guess ELSE label
    OBVIOUS
  <2>3. Finish(kind, name, score, ev) /\ pc = "verdict"
    BY <1>10, <2>1, <2>2 DEF Conclude
  <2>4. kind = "DevServer" => name # "none"
    BY <2>2 DEF Guess
  <2>5. score \in Int /\ score = WeightOf(ev)
    BY WeightStep, Weights DEF ScoreInv
  <2>6. Judgement(Verdict(kind, name, score, ev))
    BY <2>1, <2>4, <2>5, ScoreJudged
  <2> QED
    BY <2>3, <2>6, VerdictFinish
<1> QED
  BY <1>1, <1>2, <1>3, <1>6, <1>7, <1>8, <1>9, <1>10 DEF Next

LEMMA AlwaysJudged ==
  Spec => [](ArgsInv /\ ScoreInv /\ VerdictInv)
<1>1. Init => ScoreInv /\ VerdictInv
  <2> SUFFICES ASSUME Init PROVE ScoreInv /\ VerdictInv
    OBVIOUS
  <2>1. <<>> \in Seq(Evidence) /\ DOMAIN <<>> = {}
    OBVIOUS
  <2>2. verdicts = <<>> /\ ev = <<>> /\ score = 0
    BY DEF Init
  <2>3. ScoreInv
    BY <2>1, <2>2, WeightStep DEF ScoreInv
  <2>4. VerdictInv
    BY <2>1, <2>2 DEF Init, VerdictInv
  <2> QED
    BY <2>3, <2>4
<1>2. ArgsInv /\ ScoreInv /\ VerdictInv /\ [Next]_vars => ScoreInv' /\ VerdictInv'
  BY ScoreStep, VerdictStep
<1> QED
  BY <1>1, <1>2, ArgsRead, PTL DEF Spec

(***************************************************************************)
(* Every verdict ships with the evidence that produced it: an identity has *)
(* its reason, and the points of the evidence are the score, for command   *)
(* lines and environments of any length (see Explained).                   *)
(***************************************************************************)
THEOREM AlwaysExplained == Spec => []Explained
<1>1. VerdictInv => Explained
  BY DEF VerdictInv, Judgement, Explained, Judged
<1> QED
  BY <1>1, AlwaysJudged, PTL

\* No variable is looked at that is not there.
SeenInv == seen \in Nat /\ (seen = 0 \/ seen <= Len(Env)) /\ (pc = "args" => seen = 0)

LEMMA SeenStep == ASSUME ArgsInv, SeenInv, [Next]_vars PROVE SeenInv'
<1>1. CASE ReadArgs \/ Begin
  BY <1>1 DEF ReadArgs, Begin, SeenInv
<1>2. ASSUME UNCHANGED <<args, seen>>, pc' = "args" => pc = "args" PROVE SeenInv'
  <2>1. Env' = Env
    BY <1>2 DEF Env
  <2> QED
    BY <1>2, <2>1 DEF SeenInv
<1>3. CASE Done \/ UNCHANGED vars
  BY <1>2, <1>3 DEF Done, vars, locals, given
<1>4. CASE Identify \/ Conclude
  BY <1>2, <1>4 DEF Identify, Conclude, Finish, given
<1>5. CASE Framework
  BY <1>2, <1>5 DEF Framework, Test, given
<1>6. CASE Token \/ Cwd \/ Root \/ Parent \/ Orphan \/ EnvTool \/ Bind \/ Uptime \/ Connections
  BY <1>2, <1>6
  DEF Token, Cwd, Root, Parent, Orphan, EnvTool, Bind, Uptime, Connections, Test, Same, given
<1>7. CASE EnvMode
  <2>1. Env' = Env
    BY <1>7 DEF EnvMode, given, Env
  <2>2. PICK env \in Texts : env = Env
    BY ArgvIs
  <2>3. Len(env) \in Nat
    BY DEF Texts
  <2>4. seen' = seen + 1 /\ seen < Len(env) /\ pc = "env" /\ pc' = pc
    BY <1>7, <2>2 DEF EnvMode
  <2>5. seen' \in Nat /\ seen' <= Len(env)
    BY <2>3, <2>4 DEF SeenInv
  <2> QED
    BY <2>1, <2>2, <2>4, <2>5 DEF SeenInv
<1> QED
  BY <1>1, <1>3, <1>4, <1>5, <1>6, <1>7 DEF Next

(***************************************************************************)
(* Types, no more words than the process has, and that every dev server    *)
(* has a name to be shown by (see TypeOK).                                 *)
(***************************************************************************)
THEOREM TypesAndNames == Spec => []TypeOK
<1>1. Init => SeenInv
  BY DEF Init, SeenInv
<1>2. ArgsInv /\ SeenInv /\ [Next]_vars => SeenInv'
  BY SeenStep
<1>3. ArgsInv /\ ScoreInv /\ VerdictInv /\ SeenInv => TypeOK
  <2> SUFFICES ASSUME ArgsInv, ScoreInv, VerdictInv, SeenInv PROVE TypeOK
    OBVIOUS
  <2>1. PICK p \in Processes : p = proc
    BY DEF ArgsInv
  <2>2. args \subseteq {ParseProcargs(Layout(p))}
    BY <2>1, CmdlineIs DEF ArgsInv
  <2>3. \A a \in args : Len(a.argv) <= Len(proc.argv) /\ Len(a.env) <= Len(proc.environ)
    BY <2>1, <2>2, ReadAsGiven DEF Given
  <2>4. Len(Env) \in Nat
    BY ArgvIs DEF Texts
  <2>5. seen \in 0..Len(Env)
    BY <2>4 DEF SeenInv
  <2>6. score \in Int
    BY WeightStep, Weights DEF ScoreInv
  <2>7. \A q \in DOMAIN verdicts :
          /\ verdicts[q].kind \in Kinds /\ verdicts[q].confidence \in {"High", "Medium", "Low"}
          /\ verdicts[q].kind = "DevServer" => verdicts[q].label # "none"
    BY DEF VerdictInv, Judgement
  <2>8. /\ todo \subseteq DOMAIN Ports /\ DOMAIN verdicts \subseteq DOMAIN Ports \ todo
        /\ at \in DOMAIN Ports \cup {Nowhere} /\ label \in {"none", "known"}
    BY DEF VerdictInv
  <2> QED
    BY <2>3, <2>5, <2>6, <2>7, <2>8, Zenon DEF TypeOK, Judged
<1> QED
  BY <1>1, <1>2, <1>3, AlwaysJudged, PTL DEF Spec
-----------------------------------------------------------------------------
\* Evidence that says launchd, of which there is to be one piece.
OneOf(S) == \E i : S = {i}

Counts(e) == e \in {"supervised", "orphan"}

\* Nothing is held against the process before its parent is looked at, and one
\* thing is after the test for an orphan.
LaunchInv ==
  /\ pc = "identity" => ev = <<>>
  /\ proc.ppid = 1 =>
       /\ pc \in {"framework", "token", "cwd", "root", "parent"} => Held(ev) = {}
       /\ pc = "orphan" => IF proc.parent = Supervisor THEN OneOf(Held(ev)) ELSE Held(ev) = {}
       /\ pc \in {"env", "bind", "uptime", "conns", "verdict"} => OneOf(Held(ev))
       /\ \A p \in DOMAIN verdicts :
            verdicts[p].kind \in Scored => OneOf(Held(verdicts[p].evidence))

\* What a piece of evidence adds to that.
LEMMA HeldHit ==
  ASSUME ScoreInv, NEW e, NEW w, Hit(w, e)
  PROVE  /\ ~Counts(e) => Held(ev') = Held(ev)
         /\ Counts(e) /\ Held(ev) = {} => OneOf(Held(ev'))
<1>1. PICK why \in Seq(Evidence) : why = ev
  BY DEF ScoreInv
<1>2. PICK n \in Nat : n = Len(why)
  OBVIOUS
<1>3. PICK new : new = Append(why, e)
  OBVIOUS
<1>4. /\ DOMAIN new = 1..(n + 1) /\ DOMAIN why = 1..n
      /\ new[n + 1] = e /\ \A i \in 1..n : new[i] = why[i]
  BY <1>2, <1>3
<1>5. ev' = new
  BY <1>1, <1>3 DEF Hit
<1>6. ASSUME ~Counts(e) PROVE Held(new) = Held(why)
  BY <1>4, <1>6 DEF Held, Counts
<1>7. ASSUME Counts(e), Held(why) = {} PROVE Held(new) = {n + 1}
  <2>1. \A i \in 1..n : ~Counts(why[i])
    BY <1>4, <1>7 DEF Held, Counts
  <2>2. \A i \in 1..(n + 1) : Counts(new[i]) <=> i = n + 1
    <3> TAKE i \in 1..(n + 1)
    <3>1. CASE i = n + 1
      BY <1>4, <1>7, <3>1
    <3>2. CASE i # n + 1
      <4>1. i \in 1..n
        BY <3>2
      <4> QED
        BY <1>4, <2>1, <3>2, <4>1
    <3> QED
      BY <3>1, <3>2
  <2>3. Held(new) = {i \in 1..(n + 1) : Counts(new[i])}
    BY <1>4 DEF Held, Counts
  <2> QED
    BY <2>2, <2>3
<1> QED
  BY <1>1, <1>5, <1>6, <1>7 DEF OneOf

\* A test that leaves no such evidence.
LEMMA OtherTest ==
  ASSUME ScoreInv, NEW e, ~Counts(e), (\E w : Hit(w, e)) \/ Miss
  PROVE  Held(ev') = Held(ev)
BY HeldHit DEF Miss

LEMMA LaunchStep == ASSUME ArgsInv, ScoreInv, LaunchInv, [Next]_vars PROVE LaunchInv'
<1>1. CASE Done \/ UNCHANGED vars
  BY <1>1 DEF Done, vars, given, locals, LaunchInv
<1>2. CASE ReadArgs
  BY <1>2 DEF ReadArgs, LaunchInv
<1>3. CASE Begin
  BY <1>3 DEF Begin, given, LaunchInv
<1>4. proc.ppid = 1 => proc.parent \in {Supervisor, None}
  BY ClassifyAssumption DEF ArgsInv, Supervisor, None
<1>5. ASSUME NEW kind, NEW name, NEW points, NEW why, Finish(kind, name, points, why),
             proc.ppid = 1 /\ kind \in Scored => OneOf(Held(why))
      PROVE  LaunchInv'
  <2>1. /\ \A p \in DOMAIN verdicts' :
             \/ p \in DOMAIN verdicts /\ verdicts'[p] = verdicts[p]
             \/ p = at /\ verdicts'[p] = Verdict(kind, name, points, why)
        /\ pc' = "begin" /\ UNCHANGED proc
    BY <1>5, FinishIs DEF given
  <2>2. /\ Verdict(kind, name, points, why).kind = kind
        /\ Verdict(kind, name, points, why).evidence = why
    BY DEF Verdict
  <2> QED
    BY <1>5, <2>1, <2>2 DEF LaunchInv
<1>6. CASE Identify
  <2>1. CASE proc.system
    BY <1>5, <1>6, <2>1 DEF Identify, Scored
  <2>2. CASE ~proc.system /\ proc.exe \in Containers
    BY <1>5, <1>6, <2>2 DEF Identify, Scored
  <2>3. CASE ~proc.system /\ proc.exe \notin Containers /\ Known(Services)
    <3>1. Lookup(Services) \notin Scored
      BY <2>3, LookupIs DEF Known, Services, Scored
    <3> QED
      BY <1>5, <1>6, <2>3, <3>1 DEF Identify
  <2>4. CASE ~proc.system /\ proc.exe \notin Containers /\ ~Known(Services)
    <3>1. Held(<<>>) = {}
      BY DEF Held
    <3> QED
      BY <1>6, <2>4, <3>1 DEF Identify, LaunchInv, given
  <2> QED
    BY <2>1, <2>2, <2>3, <2>4
<1>7. ASSUME pc \in {"framework", "token", "cwd", "root"}, pc' \in {"token", "cwd", "root", "parent"},
             Held(ev') = Held(ev), UNCHANGED <<proc, verdicts>>
      PROVE  LaunchInv'
  BY <1>7 DEF LaunchInv
<1>8. CASE Framework
  BY <1>7, <1>8, OtherTest DEF Framework, Test, given, Counts
<1>9. CASE Token
  BY <1>7, <1>9, OtherTest DEF Token, Test, given, Counts
<1>10. CASE Cwd
  <2>1. Hit(3, "project") \/ Hit(1, "home") \/ Miss
    BY <1>10 DEF Cwd
  <2>2. Held(ev') = Held(ev)
    BY <2>1, OtherTest DEF Counts
  <2> QED
    BY <1>7, <1>10, <2>2 DEF Cwd, Test, given
<1>11. CASE Root
  BY <1>7, <1>11, OtherTest DEF Root, Test, given, Counts
<1>12. CASE Parent
  <2>1. /\ pc = "parent" /\ pc' = "orphan" /\ UNCHANGED <<proc, verdicts>>
    BY <1>12 DEF Parent, Test, given
  <2>2. proc.parent = Supervisor => Hit(-3, "supervised")
    BY <1>12 DEF Parent, Supervisor, Runners
  <2>3. proc.parent = None => Miss
    BY <1>12 DEF Parent, None, Supervisor, Runners
  <2>4. None # Supervisor
    BY DEF None, Supervisor
  <2>5. ASSUME proc.parent = Supervisor, Held(ev) = {} PROVE OneOf(Held(ev'))
    BY <2>2, <2>5, HeldHit DEF Counts
  <2>6. ASSUME proc.parent = None PROVE ev' = ev
    BY <2>3, <2>6 DEF Miss
  <2> QED
    BY <1>4, <2>1, <2>4, <2>5, <2>6 DEF LaunchInv
<1>13. CASE Orphan
  <2>1. /\ pc = "orphan" /\ pc' = "env" /\ UNCHANGED <<proc, verdicts>>
    BY <1>13 DEF Orphan, Test, given
  <2>2. None # Supervisor
    BY DEF None, Supervisor
  <2>3. ASSUME proc.ppid = 1, proc.parent = None, Held(ev) = {} PROVE OneOf(Held(ev'))
    BY <1>13, <2>3, HeldHit DEF Orphan, Counts
  <2>4. ASSUME proc.parent = Supervisor PROVE ev' = ev
    BY <1>13, <2>2, <2>4 DEF Orphan, Miss
  <2> QED
    BY <1>4, <2>1, <2>2, <2>3, <2>4 DEF LaunchInv
<1>14. ASSUME pc \in {"env", "bind", "uptime", "conns"}, pc' \in {"env", "bind", "uptime", "conns", "verdict"},
              Held(ev') = Held(ev), UNCHANGED <<proc, verdicts>>
       PROVE  LaunchInv'
  BY <1>14 DEF LaunchInv
<1>15. CASE EnvMode
  <2>1. Hit(3, "development") \/ Hit(-3, "production") \/ Miss
    BY <1>15 DEF EnvMode
  <2>2. Held(ev') = Held(ev)
    BY <2>1, OtherTest DEF Counts
  <2> QED
    BY <1>14, <1>15, <2>2 DEF EnvMode, given
<1>16. CASE EnvTool
  BY <1>14, <1>16, OtherTest DEF EnvTool, Test, given, Counts
<1>17. CASE Bind
  BY <1>14, <1>17, OtherTest DEF Bind, Test, given, Counts
<1>18. CASE Uptime
  <2>1. Hit(1, "fresh") \/ Hit(-1, "old") \/ Miss
    BY <1>18 DEF Uptime
  <2>2. Held(ev') = Held(ev)
    BY <2>1, OtherTest DEF Counts
  <2> QED
    BY <1>14, <1>18, <2>2 DEF Uptime, Test, given
<1>19. CASE Connections
  <2>1. Hit(1, "local") \/ Hit(-1, "external") \/ Miss
    BY <1>19 DEF Connections
  <2>2. Held(ev') = Held(ev)
    BY <2>1, OtherTest DEF Counts
  <2> QED
    BY <1>14, <1>19, <2>2 DEF Connections, Test, given
<1>20. CASE Conclude
  <2>1. PICK kind, name : Finish(kind, name, score, ev) /\ pc = "verdict"
    BY <1>20 DEF Conclude
  <2>2. proc.ppid = 1 => OneOf(Held(ev))
    BY <2>1 DEF LaunchInv
  <2> QED
    BY <1>5, <2>1, <2>2
<1> QED
  BY <1>1, <1>2, <1>3, <1>6, <1>8, <1>9, <1>10, <1>11, <1>12, <1>13, <1>15, <1>16, <1>17, <1>18,
     <1>19, <1>20 DEF Next

(***************************************************************************)
(* That launchd runs a process is held against it exactly once, whether or *)
(* not launchd can be asked for its name (see LaunchdCountedOnce).         *)
(***************************************************************************)
THEOREM LaunchdAlwaysOnce == Spec => []LaunchdCountedOnce
<1>1. Init => LaunchInv
  BY DEF Init, LaunchInv
<1>2. ArgsInv /\ ScoreInv /\ LaunchInv /\ [Next]_vars => LaunchInv'
  BY LaunchStep
<1>3. LaunchInv => LaunchdCountedOnce
  <2>1. \A S : OneOf(S) => Cardinality(S) = 1
    BY FS_Singleton DEF OneOf
  <2> QED
    BY <2>1 DEF LaunchInv, LaunchdCountedOnce, Judged
<1> QED
  BY <1>1, <1>2, <1>3, AlwaysJudged, PTL DEF Spec
-----------------------------------------------------------------------------
\* What a variable of the environment is worth, and adding that up.
Mode(word) == CASE word = "development" -> 3 [] word = "production" -> -3 [] OTHER -> 0

Tally == [x \in Points \X Strings |-> x[1] + Mode(x[2])]

\* What the tests find that are the same for every port of the process.
Findings(w) ==
  /\ w.kind = IF proc.system THEN "System"
              ELSE IF proc.exe \in Containers THEN "Container" ELSE Lookup(Services)
  /\ w.framework = IF Known(Frameworks) THEN 5 ELSE 0
  /\ w.token = IF Places(DevTokens) # {} THEN 2 ELSE 0
  /\ w.cwd = CASE proc.cwd # NoDir /\ ProjectRoots # {}                 -> 3
               [] proc.cwd # NoDir /\ ProjectRoots = {} /\ proc.cwd.home -> 1
               [] OTHER                                                 -> 0
  /\ w.root = IF proc.cwd.depth = 0 THEN -2 ELSE 0
  /\ w.parent = CASE proc.parent = Supervisor -> -3
                  [] proc.parent \in Runners  -> 3
                  [] OTHER                    -> 0
  /\ w.orphan = IF proc.ppid = 1 /\ proc.parent = None THEN -2 ELSE 0
  /\ w.words = Env
  /\ RunsBy(w.env, Points, Naught, Tally, w.words)
  /\ w.tool = IF "tool" \in ToSet(Env) THEN 2 ELSE 0
  /\ w.uptime = CASE proc.uptime = "fresh" -> 1 [] proc.uptime = "old" -> -1 [] OTHER -> 0

Start(w) == w.framework + w.token + w.cwd + w.root + w.parent + w.orphan
Whole(w) == Start(w) + w.env[Len(w.words)] + w.tool

\* A verdict that agrees with what all ports share.
InLine(w, v) ==
  IF w.kind = None
  THEN v.kind \in Scored /\ v.score \in Int /\ v.score - (Whole(w) + w.uptime) \in -1..2
  ELSE v.kind = w.kind

\* What all ports share decides on the identity, or on the score but for three points.
Agreed(w) ==
  /\ pc \in {"identity", "framework", "token", "cwd", "root", "parent", "orphan"} => seen = 0
  /\ pc \in {"identity", "framework"} => score = 0
  /\ pc \notin {"args", "begin", "identity"} => w.kind = None
  /\ pc = "token" => score = w.framework
  /\ pc = "cwd" => score = w.framework + w.token
  /\ pc = "root" => score = w.framework + w.token + w.cwd
  /\ pc = "parent" => score = w.framework + w.token + w.cwd + w.root
  /\ pc = "orphan" => score = w.framework + w.token + w.cwd + w.root + w.parent
  /\ pc = "env" => seen \in 0..Len(w.words) /\ score = Start(w) + w.env[seen]
  /\ pc = "bind" => score = Whole(w)
  /\ pc = "uptime" => score - Whole(w) \in 0..1
  /\ pc = "conns" => score - (Whole(w) + w.uptime) \in 0..1
  /\ pc = "verdict" => score - (Whole(w) + w.uptime) \in -1..2
  /\ \A p \in DOMAIN verdicts : InLine(w, verdicts[p])

\* Before the arguments are read nothing is judged; then there is one list of findings.
AgreeInv == (pc = "args" => DOMAIN verdicts = {}) /\ \A w : Findings(w) => Agreed(w)

LEMMA TallyIs ==
  /\ Naught \in Points
  /\ Tally \in [Points \X Strings -> Points]
  /\ \A n \in Points, word \in Strings : Tally[<<n, word>>] = n + Mode(word)
<1>1. \A word : Mode(word) \in Int
  BY DEF Mode
<1>2. \A x \in Points \X Strings : x[1] + Mode(x[2]) \in Points
  BY <1>1 DEF Points
<1>3. Tally \in [Points \X Strings -> Points]
  BY <1>2 DEF Tally
<1>4. \A n \in Points, word \in Strings : Tally[<<n, word>>] = n + Mode(word)
  BY DEF Tally
<1> QED
  BY <1>3, <1>4 DEF Naught, Points

LEMMA FindingsExist == ASSUME ArgsInv PROVE \E w : Findings(w)
<1>1. PICK env \in Seq(Strings) : env = Env
  BY ArgvIs DEF Texts
<1>2. PICK r : RunsBy(r, Points, Naught, Tally, env)
  BY TallyIs, RunExists
<1> DEFINE
  w == [kind |-> IF proc.system THEN "System"
                 ELSE IF proc.exe \in Containers THEN "Container" ELSE Lookup(Services),
        framework |-> IF Known(Frameworks) THEN 5 ELSE 0,
        token |-> IF Places(DevTokens) # {} THEN 2 ELSE 0,
        cwd |-> CASE proc.cwd # NoDir /\ ProjectRoots # {}                 -> 3
                  [] proc.cwd # NoDir /\ ProjectRoots = {} /\ proc.cwd.home -> 1
                  [] OTHER                                                 -> 0,
        root |-> IF proc.cwd.depth = 0 THEN -2 ELSE 0,
        parent |-> CASE proc.parent = Supervisor -> -3
                     [] proc.parent \in Runners  -> 3
                     [] OTHER                    -> 0,
        orphan |-> IF proc.ppid = 1 /\ proc.parent = None THEN -2 ELSE 0,
        words |-> Env, env |-> r,
        tool |-> IF "tool" \in ToSet(Env) THEN 2 ELSE 0,
        uptime |-> CASE proc.uptime = "fresh" -> 1 [] proc.uptime = "old" -> -1 [] OTHER -> 0]
<1>3. Findings(w)
  BY <1>1, <1>2 DEF Findings
<1> QED
  BY <1>3

\* Findings are numbers, and those of the environment add up.
LEMMA FindingsAre ==
  ASSUME ArgsInv, NEW w, Findings(w)
  PROVE  /\ {w.framework, w.token, w.cwd, w.root, w.parent, w.orphan, w.tool, w.uptime} \subseteq Int
         /\ Len(w.words) \in Nat /\ w.env \in [0..Len(w.words) -> Int] /\ w.env[0] = 0
         /\ Start(w) \in Int /\ Whole(w) \in Int
         /\ \A k \in 1..Len(w.words) : w.env[k] = w.env[k - 1] + Mode(w.words[k])
<1>1. PICK env \in Seq(Strings) : env = Env /\ env = w.words
  BY ArgvIs DEF Texts, Findings
<1>2. RunsBy(w.env, Points, Naught, Tally, env)
  BY <1>1 DEF Findings
<1>3. Len(env) \in Nat /\ w.env \in [0..Len(env) -> Int] /\ w.env[0] = 0
  BY <1>2 DEF RunsBy, Points, Naught
<1>4. w.framework \in Int /\ w.token \in Int /\ w.root \in Int /\ w.orphan \in Int /\ w.tool \in Int
  BY DEF Findings
<1>5. w.cwd \in Int /\ w.parent \in Int /\ w.uptime \in Int
  BY DEF Findings
<1>6. ASSUME NEW k \in 1..Len(env) PROVE w.env[k] = w.env[k - 1] + Mode(env[k])
  <2>1. k - 1 \in 0..Len(env) /\ w.env[k - 1] \in Points /\ env[k] \in Strings
    BY <1>3 DEF Points
  <2>2. w.env[k] = Tally[<<w.env[k - 1], env[k]>>]
    BY <1>2 DEF RunsBy
  <2> QED
    BY <2>1, <2>2, TallyIs
<1>7. Start(w) \in Int
  <2>1. \A a, b, c, d, e, f \in Int : a + b + c + d + e + f \in Int
    OBVIOUS
  <2> QED
    BY <1>4, <1>5, <2>1 DEF Start
<1>8. Whole(w) \in Int
  BY <1>1, <1>3, <1>4, <1>7 DEF Whole
<1> QED
  BY <1>1, <1>3, <1>4, <1>5, <1>6, <1>7, <1>8

\* They are the same as long as the process and its arguments are.
LEMMA FindingsStay ==
  ASSUME UNCHANGED <<proc, args>>, NEW w
  PROVE  Findings(w)' = Findings(w)
<1>1. Argv' = Argv /\ Env' = Env
  BY DEF Argv, Env
<1>2. ModuleHead' = ModuleHead
  BY <1>1 DEF ModuleHead
<1>3. Places(Services)' = Places(Services) /\ Places(Frameworks)' = Places(Frameworks)
      /\ Places(DevTokens)' = Places(DevTokens)
  BY <1>1 DEF Places
<1>4. Lookup(Services)' = Lookup(Services) /\ Known(Frameworks)' = Known(Frameworks)
  BY <1>1, <1>2, <1>3 DEF Known, Lookup
<1>5. ProjectRoots' = ProjectRoots
  BY DEF ProjectRoots
<1> QED
  BY <1>1, <1>3, <1>4, <1>5 DEF Findings

\* What a test adds to the score.
LEMMA TestAdds ==
  ASSUME ArgsInv, [Next]_vars, NEW w, Findings(w), Agreed(w), score \in Int
  PROVE  /\ Framework => score' = score + w.framework
         /\ Token => score' = score + w.token
         /\ Cwd => score' = score + w.cwd
         /\ Root => score' = score + w.root
         /\ Parent => score' = score + w.parent
         /\ Orphan => score' = score + w.orphan
         /\ EnvTool => score' = score + w.tool
         /\ Uptime => score' = score + w.uptime
         /\ Bind => score' - score \in 0..1
         /\ Connections => score' \in Int /\ score' - score \in -1..1
<1>1. ASSUME Framework PROVE score' = score + w.framework
  BY <1>1 DEF Framework, Findings, Hit, Miss
<1>2. ASSUME Token PROVE score' = score + w.token
  BY <1>2 DEF Token, Findings, Hit, Miss
<1>3. ASSUME Cwd PROVE score' = score + w.cwd
  BY <1>3 DEF Cwd, Findings, Hit, Miss
<1>4. ASSUME Root PROVE score' = score + w.root
  BY <1>4 DEF Root, Findings, Hit, Miss
<1>5. ASSUME Parent PROVE score' = score + w.parent
  BY <1>5 DEF Parent, Findings, Hit, Miss
<1>6. ASSUME Orphan PROVE score' = score + w.orphan
  BY <1>6 DEF Orphan, Findings, Hit, Miss
<1>7. ASSUME EnvTool PROVE score' = score + w.tool
  BY <1>7 DEF EnvTool, Findings, Hit, Miss
<1>8. ASSUME Uptime PROVE score' = score + w.uptime
  BY <1>8 DEF Uptime, Findings, Hit, Miss
<1>9. ASSUME Bind PROVE score' - score \in 0..1
  BY <1>9 DEF Bind, Hit, Miss
<1>10. ASSUME Connections PROVE score' \in Int /\ score' - score \in -1..1
  BY <1>10 DEF Connections, Hit, Miss
<1> QED
  BY <1>1, <1>2, <1>3, <1>4, <1>5, <1>6, <1>7, <1>8, <1>9, <1>10

\* So does a variable of the environment.
LEMMA ModeAdds ==
  ASSUME ArgsInv, NEW w, Findings(w), Agreed(w), score \in Int, EnvMode
  PROVE  /\ seen' \in 0..Len(w.words) /\ score' = Start(w) + w.env[seen']
<1>1. PICK env \in Seq(Strings) : env = Env /\ env = w.words
  BY ArgvIs DEF Texts, Findings
<1>2. PICK k \in Int : k = seen'
  BY <1>1 DEF EnvMode, Agreed
<1>3. pc = "env" /\ seen < Len(env) /\ k = seen + 1
  BY <1>1, <1>2 DEF EnvMode
<1>4. seen \in 0..Len(env) /\ score = Start(w) + w.env[seen]
  BY <1>1, <1>3 DEF Agreed
<1>5. k \in 1..Len(env) /\ k - 1 = seen /\ Len(env) \in Nat
  BY <1>3, <1>4
<1>6. w.env[k] = w.env[seen] + Mode(env[k]) /\ w.env[seen] \in Int /\ Start(w) \in Int
  BY <1>1, <1>4, <1>5, FindingsAre
<1>7. score' = score + Mode(env[k]) /\ Mode(env[k]) \in Int
  BY <1>1, <1>2 DEF EnvMode, Hit, Miss, Mode
<1> QED
  BY <1>1, <1>2, <1>4, <1>5, <1>6, <1>7

LEMMA FinishInLine ==
  ASSUME NEW w, Agreed(w),
         NEW kind, NEW name, NEW points, NEW why, Finish(kind, name, points, why),
         InLine(w, Verdict(kind, name, points, why))
  PROVE  Agreed(w)'
<1>1. \A p \in DOMAIN verdicts : InLine(w, verdicts[p])
  BY DEF Agreed
<1>2. \A p \in DOMAIN verdicts' : InLine(w, verdicts'[p])
  BY <1>1, FinishIs
<1>3. pc' = "begin"
  BY FinishIs
<1> QED
  BY <1>2, <1>3 DEF Agreed

LEMMA IdentityInLine ==
  ASSUME NEW w, NEW kind, NEW name, NEW points, NEW why, kind = w.kind, w.kind # None
  PROVE  InLine(w, Verdict(kind, name, points, why))
BY DEF InLine, Verdict

\* Once the arguments are read, every test finds what is the same for all ports.
LEMMA AgreedStep ==
  ASSUME ArgsInv, ScoreInv, NEW w, Findings(w), Agreed(w), pc # "args", [Next]_vars
  PROVE  Agreed(w)'
<1>1. score \in Int
  BY WeightStep, Weights DEF ScoreInv
<1>2. /\ w.framework \in Int /\ w.token \in Int /\ w.cwd \in Int /\ w.root \in Int
      /\ w.parent \in Int /\ w.orphan \in Int /\ w.tool \in Int /\ w.uptime \in Int
      /\ Len(w.words) \in Nat /\ w.env[0] = 0 /\ Start(w) \in Int /\ Whole(w) \in Int
  BY FindingsAre
<1>3. \A p \in DOMAIN verdicts : InLine(w, verdicts[p])
  BY DEF Agreed
<1>4. ASSUME UNCHANGED verdicts PROVE \A p \in DOMAIN verdicts' : InLine(w, verdicts'[p])
  BY <1>3, <1>4
<1>5. ASSUME UNCHANGED <<pc, score, seen, verdicts>> PROVE Agreed(w)'
  BY <1>5 DEF Agreed
<1>6. CASE Done \/ UNCHANGED vars
  BY <1>5, <1>6 DEF Done, vars, locals
<1>7. CASE ReadArgs
  BY <1>7 DEF ReadArgs
<1>8. CASE Begin
  <2>1. UNCHANGED verdicts /\ pc' = "identity" /\ score' = 0 /\ seen' = 0
    BY <1>8 DEF Begin
  <2> QED
    BY <1>4, <2>1 DEF Agreed
<1>9. CASE Identify
  <2>1. pc = "identity"
    BY <1>9 DEF Identify
  <2>2. CASE proc.system
    <3>1. w.kind = "System" /\ w.kind # None /\ Finish("System", "none", 0, <<"system">>)
      BY <1>9, <2>2 DEF Identify, Findings, None
    <3> QED
      BY <3>1, IdentityInLine, FinishInLine
  <2>3. CASE ~proc.system /\ proc.exe \in Containers
    <3>1. w.kind = "Container" /\ w.kind # None /\ Finish("Container", "known", 0, <<"forwarder">>)
      BY <1>9, <2>3 DEF Identify, Findings, None
    <3> QED
      BY <3>1, IdentityInLine, FinishInLine
  <2>4. CASE ~proc.system /\ proc.exe \notin Containers /\ Known(Services)
    <3>1. PICK kind, why : kind = Lookup(Services) /\ why = <<"service">> \o ConnNames
      OBVIOUS
    <3>2. w.kind = kind /\ w.kind # None /\ Finish(kind, "known", 0, why)
      BY <1>9, <2>4, <3>1 DEF Identify, Findings, Known
    <3> QED
      BY <3>2, IdentityInLine, FinishInLine
  <2>5. CASE ~proc.system /\ proc.exe \notin Containers /\ ~Known(Services)
    <3>1. w.kind = None
      BY <2>5 DEF Findings, Known
    <3>2. pc' = "framework" /\ UNCHANGED <<score, seen, verdicts>>
      BY <1>9, <2>5 DEF Identify
    <3> QED
      BY <2>1, <3>1, <3>2 DEF Agreed
  <2> QED
    BY <2>2, <2>3, <2>4, <2>5
<1>10. ASSUME pc \notin {"args", "begin", "identity"}, UNCHANGED verdicts
       PROVE  w.kind = None /\ \A p \in DOMAIN verdicts' : InLine(w, verdicts'[p])
  BY <1>4, <1>10 DEF Agreed
<1>11. CASE Framework
  <2>1. pc = "framework" /\ pc' = "token" /\ UNCHANGED <<seen, verdicts>> /\ score' = score + w.framework
    BY <1>1, <1>11, TestAdds DEF Framework, Test
  <2> QED
    BY <1>2, <1>10, <2>1 DEF Agreed
<1>12. CASE Token
  <2>1. pc = "token" /\ pc' = "cwd" /\ UNCHANGED <<seen, verdicts>> /\ score' = score + w.token
    BY <1>1, <1>12, TestAdds DEF Token, Test, Same
  <2> QED
    BY <1>2, <1>10, <2>1 DEF Agreed
<1>13. CASE Cwd
  <2>1. pc = "cwd" /\ pc' = "root" /\ UNCHANGED <<seen, verdicts>> /\ score' = score + w.cwd
    BY <1>1, <1>13, TestAdds DEF Cwd, Test, Same
  <2> QED
    BY <1>2, <1>10, <2>1 DEF Agreed
<1>14. CASE Root
  <2>1. pc = "root" /\ pc' = "parent" /\ UNCHANGED <<seen, verdicts>> /\ score' = score + w.root
    BY <1>1, <1>14, TestAdds DEF Root, Test, Same
  <2> QED
    BY <1>2, <1>10, <2>1 DEF Agreed
<1>15. CASE Parent
  <2>1. pc = "parent" /\ pc' = "orphan" /\ UNCHANGED <<seen, verdicts>> /\ score' = score + w.parent
    BY <1>1, <1>15, TestAdds DEF Parent, Test, Same
  <2> QED
    BY <1>2, <1>10, <2>1 DEF Agreed
<1>16. CASE Orphan
  <2>1. pc = "orphan" /\ pc' = "env" /\ UNCHANGED <<seen, verdicts>> /\ score' = score + w.orphan
    BY <1>1, <1>16, TestAdds DEF Orphan, Test, Same
  <2>2. score' = Start(w) /\ seen' = 0
    BY <2>1 DEF Agreed, Start
  <2>3. seen' \in 0..Len(w.words) /\ score' = Start(w) + w.env[seen']
    BY <1>2, <2>2
  <2> QED
    BY <1>10, <2>1, <2>3 DEF Agreed
<1>17. CASE EnvMode
  <2>1. pc = "env" /\ pc' = "env" /\ UNCHANGED verdicts
    BY <1>17 DEF EnvMode
  <2>2. seen' \in 0..Len(w.words) /\ score' = Start(w) + w.env[seen']
    BY <1>1, <1>17, ModeAdds
  <2> QED
    BY <1>10, <2>1, <2>2 DEF Agreed
<1>18. CASE EnvTool
  <2>1. pc = "env" /\ pc' = "bind" /\ UNCHANGED <<seen, verdicts>> /\ score' = score + w.tool
    BY <1>1, <1>18, TestAdds DEF EnvTool, Test, Same
  <2>2. seen = Len(w.words) /\ score = Start(w) + w.env[seen]
    BY <1>18, <2>1 DEF EnvTool, Agreed, Findings
  <2>3. score' = Whole(w)
    BY <2>1, <2>2 DEF Whole
  <2> QED
    BY <1>10, <2>1, <2>3 DEF Agreed
<1>19. CASE Bind
  <2>1. pc = "bind" /\ pc' = "uptime" /\ UNCHANGED verdicts /\ score' - score \in 0..1 /\ score = Whole(w)
    BY <1>1, <1>19, TestAdds DEF Bind, Test, Same, Agreed
  <2> QED
    BY <1>10, <2>1 DEF Agreed
<1>20. CASE Uptime
  <2>1. /\ pc = "uptime" /\ pc' = "conns" /\ UNCHANGED verdicts
        /\ score' = score + w.uptime /\ score - Whole(w) \in 0..1
    BY <1>1, <1>20, TestAdds DEF Uptime, Test, Same, Agreed
  <2>2. score' - (Whole(w) + w.uptime) \in 0..1
    BY <1>1, <1>2, <2>1
  <2> QED
    BY <1>10, <2>1, <2>2 DEF Agreed
<1>21. CASE Connections
  <2>1. /\ pc = "conns" /\ pc' = "verdict" /\ UNCHANGED verdicts
        /\ score' - score \in -1..1 /\ score - (Whole(w) + w.uptime) \in 0..1
    BY <1>1, <1>21, TestAdds DEF Connections, Test, Same, Agreed
  <2>2. score' \in Int
    <3>1. Connections => score' \in Int
      BY <1>1, TestAdds
    <3> QED
      BY <1>21, <3>1, Zenon
  <2>3. PICK n \in Int : n = Whole(w) + w.uptime
    BY <1>2
  <2>4. score - n \in 0..1 /\ score' - score \in -1..1
    BY <2>1, <2>3
  <2>5. \A a, b, c \in Int : a - c \in 0..1 /\ b - a \in -1..1 => b - c \in -1..2
    OBVIOUS
  <2>6. score' - n \in -1..2
    BY <1>1, <2>2, <2>3, <2>4, <2>5
  <2> QED
    BY <1>10, <2>1, <2>3, <2>6 DEF Agreed
<1>22. CASE Conclude
  <2>1. PICK kind : kind = IF score >= 3 THEN "DevServer" ELSE "Unknown"
    OBVIOUS
  <2>2. PICK name : name = IF label = "none" /\ kind = "DevServer" THEN Guess ELSE label
    OBVIOUS
  <2>3. Finish(kind, name, score, ev) /\ pc = "verdict"
    BY <1>22, <2>1, <2>2 DEF Conclude
  <2>4. w.kind = None /\ score - (Whole(w) + w.uptime) \in -1..2 /\ kind \in Scored
    BY <2>1, <2>3 DEF Agreed, Scored
  <2>5. InLine(w, Verdict(kind, name, score, ev))
    BY <1>1, <2>4 DEF InLine, Verdict
  <2> QED
    BY <2>3, <2>5, FinishInLine
<1> QED
  BY <1>6, <1>7, <1>8, <1>9, <1>11, <1>12, <1>13, <1>14, <1>15, <1>16, <1>17, <1>18, <1>19, <1>20,
     <1>21, <1>22 DEF Next

LEMMA AgreeStep == ASSUME ArgsInv, ScoreInv, AgreeInv, [Next]_vars PROVE AgreeInv'
<1>1. CASE pc = "args"
  <2>1. CASE ReadArgs
    BY <1>1, <2>1 DEF ReadArgs, AgreeInv, Agreed
  <2>2. CASE UNCHANGED vars
    <3>1. \A w : Findings(w)' = Findings(w)
      BY <2>2, FindingsStay DEF vars, given
    <3> QED
      BY <1>1, <2>2, <3>1 DEF vars, locals, AgreeInv, Agreed
  <2> QED
    BY <1>1, <2>1, <2>2
    DEF Next, Begin, Identify, Framework, Token, Cwd, Root, Parent, Orphan, EnvMode, EnvTool, Bind,
        Uptime, Connections, Conclude, Done, Test
<1>2. CASE pc # "args"
  <2>1. pc' # "args" /\ UNCHANGED <<proc, args>>
    BY <1>2
    DEF Next, vars, given, locals, ReadArgs, Begin, Identify, Finish, Framework, Token, Cwd, Root,
        Parent, Orphan, EnvMode, EnvTool, Bind, Uptime, Connections, Conclude, Done, Test
  <2>2. ASSUME NEW w, Findings(w)' PROVE Agreed(w)'
    <3>1. Findings(w)
      BY <2>1, <2>2, FindingsStay
    <3> QED
      BY <1>2, <3>1, AgreedStep DEF AgreeInv
  <2> QED
    BY <2>1, <2>2 DEF AgreeInv
<1> QED
  BY <1>1, <1>2

(***************************************************************************)
(* The ports of one process, which one signal closes, get one identity, or *)
(* scores at most three points apart, for any number of ports and any      *)
(* order of classifying them (see PortsAgree).                             *)
(***************************************************************************)
THEOREM PortsAlwaysAgree == Spec => []PortsAgree
<1>1. Init => AgreeInv
  <2>1. DOMAIN <<>> = {}
    OBVIOUS
  <2> QED
    BY <2>1 DEF Init, AgreeInv, Agreed
<1>2. ArgsInv /\ ScoreInv /\ AgreeInv /\ [Next]_vars => AgreeInv'
  BY AgreeStep
<1>3. ArgsInv /\ ScoreInv /\ VerdictInv /\ AgreeInv => PortsAgree
  <2> SUFFICES ASSUME ArgsInv, VerdictInv, AgreeInv, NEW p \in Judged, NEW q \in Judged
               PROVE  IF verdicts[p].kind \in Scored
                      THEN verdicts[q].kind \in Scored /\ verdicts[p].score - verdicts[q].score <= 3
                      ELSE verdicts[q].kind = verdicts[p].kind
    BY DEF PortsAgree
  <2>1. PICK w : Findings(w)
    BY FindingsExist
  <2>2. InLine(w, verdicts[p]) /\ InLine(w, verdicts[q])
    BY <2>1 DEF AgreeInv, Agreed, InLine, Judged
  <2>3. PICK n \in Int : n = Whole(w) + w.uptime
    BY <2>1, FindingsAre
  <2>4. CASE w.kind = None
    <3>1. verdicts[p].kind \in Scored /\ verdicts[q].kind \in Scored
      BY <2>2, <2>4 DEF InLine
    <3>2. verdicts[p].score \in Int /\ verdicts[q].score \in Int
      BY <2>2, <2>4 DEF InLine
    <3>3. verdicts[p].score - n \in -1..2 /\ verdicts[q].score - n \in -1..2
      BY <2>2, <2>3, <2>4 DEF InLine
    <3> QED
      BY <3>1, <3>2, <3>3
  <2>5. CASE w.kind # None
    <3>1. verdicts[p].kind = w.kind /\ verdicts[q].kind = w.kind
      BY <2>2, <2>5 DEF InLine
    <3>2. w.kind \notin Scored
      BY <2>1, <2>5, LookupIs DEF Findings, Services, Scored
    <3> QED
      BY <3>1, <3>2
  <2> QED
    BY <2>4, <2>5
<1> QED
  BY <1>1, <1>2, <1>3, AlwaysJudged, PTL DEF Spec
-----------------------------------------------------------------------------
\* The process of a known service gets no further than to the test for an identity.
ShelterInv ==
  proc.exe \in Services =>
    /\ pc \in {"args", "begin", "identity"}
    /\ \A p \in DOMAIN verdicts : verdicts[p].kind \notin Scored

\* The executable is looked up first, before any word of the command line.
LEMMA ExecutableFirst ==
  ASSUME proc.exe \in Services
  PROVE  Known(Services) /\ Lookup(Services) \notin Scored
BY DEF Known, Lookup, Services, Scored, None

\* A verdict of a kind that is not scored keeps the invariant.
LEMMA ShelterFinish ==
  ASSUME ShelterInv, NEW kind, NEW name, NEW points, NEW why, Finish(kind, name, points, why),
         proc.exe \in Services => kind \notin Scored
  PROVE  ShelterInv'
<1>1. Verdict(kind, name, points, why).kind = kind
  BY DEF Verdict
<1>2. \A p \in DOMAIN verdicts' :
        verdicts'[p].kind = kind \/ (p \in DOMAIN verdicts /\ verdicts'[p] = verdicts[p])
  BY <1>1, FinishIs
<1>3. pc' = "begin" /\ proc' = proc
  BY FinishIs DEF given
<1> QED
  BY <1>2, <1>3 DEF ShelterInv

LEMMA ShelterStep == ASSUME ShelterInv, [Next]_vars PROVE ShelterInv'
<1>1. CASE ReadArgs \/ Begin \/ Done \/ UNCHANGED vars
  BY <1>1 DEF ReadArgs, Begin, Done, vars, given, locals, ShelterInv
<1>2. CASE Identify
  <2>1. CASE proc.system
    BY <1>2, <2>1, ShelterFinish DEF Identify, Scored
  <2>2. CASE ~proc.system /\ proc.exe \in Containers
    BY <1>2, <2>2, ShelterFinish DEF Identify, Scored
  <2>3. CASE ~proc.system /\ proc.exe \notin Containers /\ Known(Services)
    BY <1>2, <2>3, ShelterFinish, ExecutableFirst DEF Identify
  <2>4. CASE ~proc.system /\ proc.exe \notin Containers /\ ~Known(Services)
    BY <1>2, <2>4, ExecutableFirst DEF Identify, ShelterInv, given
  <2> QED
    BY <2>1, <2>2, <2>3, <2>4
<1>3. ASSUME pc \notin {"args", "begin", "identity"}, UNCHANGED <<proc, verdicts>>
      PROVE  ShelterInv'
  BY <1>3 DEF ShelterInv
<1>4. CASE Framework \/ Token \/ Cwd \/ Root \/ Parent \/ Orphan \/ EnvTool \/ Bind
           \/ Uptime \/ Connections
  BY <1>3, <1>4
  DEF Framework, Token, Cwd, Root, Parent, Orphan, EnvTool, Bind, Uptime, Connections, Test, given
<1>5. CASE EnvMode
  BY <1>3, <1>5 DEF EnvMode, given
<1>6. CASE Conclude
  <2> DEFINE kind == IF score >= 3 THEN "DevServer" ELSE "Unknown"
  <2>1. Finish(kind, IF label = "none" /\ kind = "DevServer" THEN Guess ELSE label, score, ev)
    BY <1>6 DEF Conclude
  <2>2. proc.exe \notin Services
    BY <1>6 DEF Conclude, ShelterInv
  <2> HIDE DEF kind
  <2> QED
    BY <2>1, <2>2, ShelterFinish
<1> QED
  BY <1>1, <1>2, <1>4, <1>5, <1>6 DEF Next

(***************************************************************************)
(* For every process and any number of ports: the executable of a database *)
(* or of an infrastructure service is never taken for a dev server.        *)
(***************************************************************************)
THEOREM ServicesLeftAlone == Spec => []DatabaseLeftAlone
<1>1. Init => ShelterInv
  BY DEF Init, ShelterInv
<1>2. ShelterInv /\ [Next]_vars => ShelterInv'
  BY ShelterStep
<1>3. ShelterInv => DatabaseLeftAlone
  BY DEF ShelterInv, DatabaseLeftAlone, Judged
<1> QED
  BY <1>1, <1>2, <1>3, PTL DEF Spec
=============================================================================
