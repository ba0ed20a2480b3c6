-------------------------- MODULE SelfGuard_proofs --------------------------
(***************************************************************************)
(* Proof that the walk of SelfGuard covers every living ancestor, for      *)
(* chains of any length the loop has rounds for, when no ancestor but the  *)
(* topmost is hidden from the user.                                        *)
(*                                                                         *)
(* The invariant: either the chain is already inside lineage (and stays    *)
(* there, since chains only get shorter and lineage only grows), or the    *)
(* walk is still on the chain, and has recorded exactly what is below it.  *)
(***************************************************************************)
EXTENDS SelfGuard, SequenceTheorems, TLAPS

ChainOK ==
  /\ Len(chain) <= MaxHops
  /\ \A i \in 1..(Len(chain) - 1) : chain[i] \in Readable

OnChain ==
  /\ ~done /\ hops + 1 <= Len(chain)
  /\ cursor = chain[hops + 1]
  /\ lineage = {chain[i] : i \in 1..hops}

IInv == TypeOK /\ ChainOK /\ (Ancestors \subseteq lineage \/ OnChain)
-----------------------------------------------------------------------------
(***************************************************************************)
(* An exit leaves a prefix of the chain.                                   *)
(***************************************************************************)
LEMMA PrefixOfChain ==
  ASSUME TypeOK, Orphan
  PROVE  /\ chain' \in Seq(Procs) /\ Len(chain') > 0 /\ Len(chain') <= Len(chain)
         /\ \A i \in 1..Len(chain') : chain'[i] = chain[i]
<1>1. PICK i \in 2..Len(chain) : chain' = SubSeq(chain, 1, i - 1)
  BY DEF Orphan
<1>2. chain \in Seq(Procs) /\ Len(chain) \in Nat
  BY DEF TypeOK
<1>3. i \in Int /\ i - 1 \in Int /\ 1 <= i - 1 /\ i - 1 <= Len(chain)
  BY <1>1, <1>2
<1>4. \A k \in 1..(i - 1) : chain[k] \in Procs
  BY <1>2, <1>3
<1>5. /\ SubSeq(chain, 1, i - 1) \in Seq(Procs)
      /\ Len(SubSeq(chain, 1, i - 1)) = IF 1 <= i - 1 THEN (i - 1) - 1 + 1 ELSE 0
      /\ \A k \in 1..((i - 1) - 1 + 1) : SubSeq(chain, 1, i - 1)[k] = chain[1 + k - 1]
  BY <1>3, <1>4, SubSeqProperties
<1>6. \A k \in 1..(i - 1) : chain'[k] = chain[k]
  BY <1>1, <1>3, <1>5
<1> QED
  BY <1>1, <1>2, <1>3, <1>5, <1>6

\* The answer of platform::ppid is a pid, 0, or a failure.
LEMMA PpidType ==
  ASSUME TypeOK, NEW p
  PROVE  Ppid(p) \subseteq Procs \cup {None, 0, Launchd}
<1>1. \A i \in 1..Len(chain) : Above(i) \in Procs \cup {Launchd}
  BY DEF TypeOK, Above
<1> QED
  BY <1>1 DEF Ppid

\* The walk starts with the right types.
LEMMA InitTypes == Init => TypeOK
<1> SUFFICES ASSUME Init PROVE TypeOK
  OBVIOUS
<1>1. PICK c \in Chains : chain = c
  BY DEF Init
<1>2. /\ chain \in Seq(Procs) /\ Len(chain) > 0
      /\ \A i, j \in 1..Len(chain) : chain[i] = chain[j] => i = j
  BY <1>1, GuardAssumption
<1>3. cursor \in Procs
  BY <1>2 DEF Init
<1>4. hops \in 0..MaxHops
  BY GuardAssumption DEF Init
<1> QED
  BY <1>2, <1>3, <1>4 DEF Init, TypeOK

\* Every step keeps the types.
LEMMA StepTypes == TypeOK /\ [Next]_vars => TypeOK'
<1> SUFFICES ASSUME TypeOK, [Next]_vars PROVE TypeOK'
  OBVIOUS
<1>1. CASE Visit
  <2>1. cursor \in Procs \cup {Launchd}
    BY <1>1 DEF Visit, TypeOK, Launchd
  <2>2. PICK parent \in Ppid(cursor) :
          IF parent = None THEN done' = TRUE /\ UNCHANGED cursor
          ELSE cursor' = parent /\ UNCHANGED done
    BY <1>1 DEF Visit
  <2>3. cursor' \in Procs \cup {0, Launchd} /\ done' \in BOOLEAN
    BY <2>2, PpidType DEF TypeOK
  <2>4. hops' \in 0..MaxHops
    BY <1>1, GuardAssumption DEF Visit, TypeOK
  <2> QED
    BY <1>1, <2>1, <2>3, <2>4 DEF Visit, TypeOK
<1>2. CASE Stop
  BY <1>2 DEF Stop, TypeOK
<1>3. CASE Orphan
  <2>1. /\ chain' \in Seq(Procs) /\ Len(chain') > 0 /\ Len(chain') <= Len(chain)
        /\ \A i \in 1..Len(chain') : chain'[i] = chain[i]
    BY <1>3, PrefixOfChain
  <2>2. \A i, j \in 1..Len(chain') : chain'[i] = chain'[j] => i = j
    BY <2>1 DEF TypeOK
  <2> QED
    BY <1>3, <2>1, <2>2 DEF Orphan, TypeOK
<1>4. CASE Rest \/ UNCHANGED vars
  BY <1>4 DEF Rest, vars, TypeOK
<1> QED
  BY <1>1, <1>2, <1>3, <1>4 DEF Next

(***************************************************************************)
(* Every variable keeps its type, and the loop its bound.                  *)
(***************************************************************************)
THEOREM TypeCorrect == Spec => []TypeOK
  BY InitTypes, StepTypes, PTL DEF Spec
-----------------------------------------------------------------------------
\* The walk starts on the chain, with nothing recorded.
LEMMA InitCovers == ASSUME WalkCanReachTop, Init PROVE IInv
<1>1. TypeOK
  BY InitTypes
<1>2. ChainOK
  BY DEF WalkCanReachTop, ChainOK, Init
<1>3. OnChain
  <2>1. Len(chain) \in Nat /\ Len(chain) > 0
    BY <1>1 DEF TypeOK
  <2>2. {chain[i] : i \in 1..hops} = {}
    BY DEF Init
  <2> QED
    BY <2>1, <2>2 DEF Init, OnChain
<1> QED
  BY <1>1, <1>2, <1>3 DEF IInv

\* A hop stays on the chain, and an exit shortens it.
LEMMA StepCovers == IInv /\ [Next]_vars => IInv'
<1> SUFFICES ASSUME IInv, [Next]_vars PROVE IInv'
  OBVIOUS
<1>0. TypeOK /\ TypeOK' /\ hops \in Nat /\ Len(chain) \in Nat
  BY StepTypes, GuardAssumption DEF IInv, TypeOK
<1>1. CASE Visit
  <2>1. UNCHANGED chain /\ lineage' = lineage \cup {cursor} /\ hops' = hops + 1
    BY <1>1 DEF Visit
  <2>2. CASE Ancestors \subseteq lineage
    BY <1>0, <2>1, <2>2 DEF IInv, ChainOK, Ancestors
  <2>3. CASE OnChain
    <3>1. lineage' = {chain[i] : i \in 1..(hops + 1)}
      BY <1>0, <2>1, <2>3 DEF OnChain
    <3>2. CASE hops + 1 = Len(chain)
      BY <1>0, <2>1, <3>1, <3>2 DEF IInv, ChainOK, Ancestors
    <3>3. CASE hops + 1 < Len(chain)
      <4>1. hops + 1 \in 1..(Len(chain) - 1)
        BY <1>0, <3>3
      <4>2. cursor = chain[hops + 1] /\ cursor \in Readable /\ cursor \in Ancestors /\ cursor # Launchd
        BY <1>0, <2>3, <4>1, GuardAssumption DEF OnChain, IInv, ChainOK, Ancestors, Launchd
      <4>3. \A j \in 1..Len(chain) : chain[j] = cursor => j = hops + 1
        BY <1>0, <4>1, <4>2 DEF TypeOK
      <4>4. Ppid(cursor) = {chain[hops + 2]}
        <5>1. {j \in 1..Len(chain) : chain[j] = cursor} = {hops + 1}
          BY <1>0, <4>1, <4>2, <4>3
        <5>2. Ppid(cursor) = {Above(i) : i \in {hops + 1}}
          BY <4>2, <5>1 DEF Ppid
        <5>3. Above(hops + 1) = chain[hops + 2]
          BY <1>0, <3>3 DEF Above
        <5> QED
          BY <5>2, <5>3
      <4>5. chain[hops + 2] \in Procs /\ chain[hops + 2] # None
        BY <1>0, <3>3, GuardAssumption DEF TypeOK, None
      <4>6. cursor' = chain[hops + 2] /\ ~done'
        BY <1>1, <2>3, <4>4, <4>5 DEF Visit, OnChain
      <4>7. OnChain'
        BY <1>0, <2>1, <3>1, <3>3, <4>6 DEF OnChain
      <4>8. ChainOK'
        BY <2>1 DEF IInv, ChainOK
      <4> QED
        BY <1>0, <4>7, <4>8 DEF IInv
    <3> QED
      BY <1>0, <2>3, <3>2, <3>3 DEF OnChain
  <2> QED
    BY <2>2, <2>3 DEF IInv
<1>2. CASE Stop
  <2>1. ~OnChain
    <3> SUFFICES ASSUME OnChain PROVE FALSE
      OBVIOUS
    <3>1. hops < MaxHops
      BY <1>0, GuardAssumption DEF OnChain, IInv, ChainOK
    <3>2. cursor \in Procs /\ cursor \in Nat /\ cursor > 0
      <4>1. hops + 1 \in 1..Len(chain) /\ cursor = chain[hops + 1] /\ chain \in Seq(Procs)
        BY <1>0 DEF OnChain, TypeOK
      <4>2. cursor \in Procs
        BY <4>1
      <4> QED
        BY <4>2, GuardAssumption
    <3>3. cursor \notin lineage
      BY <1>0 DEF OnChain, TypeOK
    <3>4. hops \in Nat /\ MaxHops \in Nat
      BY <1>0, GuardAssumption
    <3> QED
      BY <1>2, <3>1, <3>2, <3>3, <3>4 DEF Stop
  <2> QED
    BY <1>0, <1>2, <2>1 DEF Stop, IInv, ChainOK, Ancestors
<1>3. CASE Orphan
  <2>1. /\ Len(chain') \in Nat /\ Len(chain') <= Len(chain)
        /\ \A i \in 1..Len(chain') : chain'[i] = chain[i]
    BY <1>0, <1>3, PrefixOfChain DEF TypeOK
  <2>2. ChainOK'
    BY <1>0, <2>1, GuardAssumption DEF IInv, ChainOK
  <2>3. Ancestors' \subseteq Ancestors
    BY <1>0, <2>1 DEF Ancestors
  <2>4. UNCHANGED <<cursor, hops, lineage, done>>
    BY <1>3 DEF Orphan
  <2>5. CASE Ancestors \subseteq lineage
    BY <1>0, <2>2, <2>3, <2>4, <2>5 DEF IInv
  <2>6. CASE OnChain /\ hops + 1 <= Len(chain')
    <3>1. {chain'[i] : i \in 1..hops'} = {chain[i] : i \in 1..hops} /\ chain'[hops + 1] = chain[hops + 1]
      BY <1>0, <2>1, <2>4, <2>6
    <3> QED
      BY <1>0, <2>2, <2>4, <2>6, <3>1 DEF IInv, OnChain
  <2>7. CASE OnChain /\ ~(hops + 1 <= Len(chain'))
    <3>1. \A i \in 1..Len(chain') : i \in 1..hops
      BY <1>0, <2>1, <2>7
    <3>2. Ancestors' \subseteq lineage'
      BY <2>1, <2>4, <2>7, <3>1 DEF Ancestors, OnChain
    <3> QED
      BY <1>0, <2>2, <3>2 DEF IInv
  <2> QED
    BY <2>5, <2>6, <2>7 DEF IInv
<1>4. CASE Rest \/ UNCHANGED vars
  BY <1>0, <1>4 DEF Rest, vars, IInv, TypeOK, ChainOK, OnChain, Ancestors
<1> QED
  BY <1>1, <1>2, <1>3, <1>4 DEF Next

(***************************************************************************)
(* If the loop has rounds enough and only the topmost ancestor may be      *)
(* hidden, no living ancestor is missing from lineage when the walk ends.  *)
(***************************************************************************)
THEOREM WalkCoversAncestors == WalkCanReachTop => (Spec => []AncestorsCovered)
<1> SUFFICES ASSUME WalkCanReachTop PROVE Spec => []AncestorsCovered
  OBVIOUS
<1>1. Init => IInv
  BY InitCovers
<1>2. IInv /\ [Next]_vars => IInv'
  BY StepCovers
<1>3. IInv => AncestorsCovered
  BY DEF IInv, OnChain, AncestorsCovered
<1> QED
  BY <1>1, <1>2, <1>3, PTL DEF Spec
=============================================================================
