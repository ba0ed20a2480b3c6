----------------------------- MODULE SelfGuard ------------------------------
(***************************************************************************)
(* SelfGuard::new of scan.rs: edev walks from its own pid up through the   *)
(* parents and puts every pid it visits into lineage; SelfGuard::protection *)
(* then refuses to touch a listener whose pid is there.  The walk makes    *)
(* one system call per hop, and an ancestor may exit between two of them:  *)
(* its child becomes a child of pid 1, and its pid may name a stranger by  *)
(* the time it is asked for its parent.                                    *)
(*                                                                         *)
(* Operators marked "fault" are plausible bugs of the action below them;   *)
(* the specification does not use them.                                    *)
(***************************************************************************)
EXTENDS Integers, Sequences

CONSTANTS
  MaxHops,     \* rounds of the loop (64 in the code)
  Procs,       \* pids above 1
  Readable,    \* those whose BSDInfo the kernel gives to this user
  Chains       \* edev and its ancestors below pid 1, edev first

ASSUME GuardAssumption ==
  /\ MaxHops \in Nat
  /\ Procs \subseteq Nat \ {0, 1}
  /\ Readable \subseteq Procs
  /\ \A c \in Chains :
       /\ c \in Seq(Procs) /\ Len(c) > 0
       /\ \A i, j \in 1..Len(c) : c[i] = c[j] => i = j

VARIABLES
  chain,       \* edev and its living ancestors below pid 1, edev first
  cursor,      \* `pid` in the loop
  hops,        \* rounds completed
  lineage,     \* pids visited
  done         \* the walk has ended

vars == <<chain, cursor, hops, lineage, done>>

None == -1     \* proc_pidinfo failed
Launchd == 1

Ancestors == {chain[i] : i \in 1..Len(chain)}

\* The parent of the i-th process of the chain.
Above(i) == IF i = Len(chain) THEN Launchd ELSE chain[i + 1]

(***************************************************************************)
(* platform::ppid.  BSDInfo of a process of another user is refused (only  *)
(* root may read that of pid 1).  A pid that is no longer an ancestor is   *)
(* free, or names any process.                                             *)
(***************************************************************************)
Ppid(p) ==
  IF p = Launchd THEN {None, 0}
  ELSE IF p \in Ancestors
  THEN IF p \in Readable THEN {Above(i) : i \in {j \in 1..Len(chain) : chain[j] = p}}
       ELSE {None}
  ELSE {None, Launchd} \cup Procs

\* fault: the parent is asked for first, and recorded only if there is one
LastAncestorDropped ==
  /\ ~done /\ hops < MaxHops /\ cursor > 0 /\ cursor \notin lineage
  /\ hops' = hops + 1
  /\ \E parent \in Ppid(cursor) :
       IF parent = None
       THEN done' = TRUE /\ UNCHANGED <<cursor, lineage>>
       ELSE lineage' = lineage \cup {cursor} /\ cursor' = parent /\ UNCHANGED done
  /\ UNCHANGED chain

\* fault: no bound on the rounds
VisitWithoutBound ==
  /\ ~done /\ cursor > 0 /\ cursor \notin lineage
  /\ lineage' = lineage \cup {cursor}
  /\ hops' = hops + 1
  /\ \E parent \in Ppid(cursor) :
       IF parent = None THEN done' = TRUE /\ UNCHANGED cursor
       ELSE cursor' = parent /\ UNCHANGED done
  /\ UNCHANGED chain

\* One round of the loop: record the pid, then go to its parent if it has one.
Visit ==
  /\ ~done /\ hops < MaxHops /\ cursor > 0 /\ cursor \notin lineage
  /\ lineage' = lineage \cup {cursor}
  /\ hops' = hops + 1
  /\ \E parent \in Ppid(cursor) :
       IF parent = None THEN done' = TRUE /\ UNCHANGED cursor
       ELSE cursor' = parent /\ UNCHANGED done
  /\ UNCHANGED chain

\* Past pid 1, in a cycle, or out of rounds.
Stop ==
  /\ ~done
  /\ hops = MaxHops \/ cursor <= 0 \/ cursor \in lineage
  /\ done' = TRUE
  /\ UNCHANGED <<chain, cursor, hops, lineage>>

\* An ancestor exits: its child, and what is below it, hang on pid 1.
Orphan ==
  /\ \E i \in 2..Len(chain) : chain' = SubSeq(chain, 1, i - 1)
  /\ UNCHANGED <<cursor, hops, lineage, done>>

Rest == done /\ UNCHANGED vars

Init ==
  /\ chain \in Chains
  /\ cursor = chain[1] /\ hops = 0 /\ lineage = {} /\ done = FALSE

Next == Visit \/ Stop \/ Orphan \/ Rest

Spec == Init /\ [][Next]_vars
-----------------------------------------------------------------------------
\* Types; the chain stays one of distinct pids, and the walk is bounded.
TypeOK ==
  /\ chain \in Seq(Procs) /\ Len(chain) > 0
  /\ \A i, j \in 1..Len(chain) : chain[i] = chain[j] => i = j
  /\ cursor \in Procs \cup {0, Launchd} /\ hops \in 0..MaxHops
  /\ lineage \subseteq Procs \cup {Launchd}
  /\ done \in BOOLEAN

(***************************************************************************)
(* scan.rs:200: edev and its ancestors must not be killed.  Once the walk  *)
(* has ended, every process that edev still descends from is in lineage,   *)
(* however many ancestors exited meanwhile and whoever got their pids.     *)
(***************************************************************************)
AncestorsCovered == done => Ancestors \subseteq lineage

(***************************************************************************)
(* What the walk needs to be complete: rounds enough for the chain, and    *)
(* read access to every ancestor but the topmost.                          *)
(***************************************************************************)
WalkCanReachTop ==
  \A c \in Chains : /\ Len(c) <= MaxHops
                    /\ \A i \in 1..(Len(c) - 1) : c[i] \in Readable
=============================================================================
