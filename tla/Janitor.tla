------------------------------ MODULE Janitor -------------------------------
(***************************************************************************)
(* What `edev clean` promises its user, whatever the scan, the flags, the  *)
(* menu, the kernel and the standard output do.  A set of processes is     *)
(* chosen once; nothing happens to it before the user consents; then they  *)
(* are dealt with one at a time, in order of pid and each once; protected  *)
(* ones are passed over; a process gets at most two signals, none in a     *)
(* rehearsal.  Module Clean is checked to implement this.                  *)
(***************************************************************************)
EXTENDS Integers, FiniteSets

CONSTANTS People, Nobody

VARIABLES
  spared,      \* the protected processes
  rehearsal,   \* is it a dry run?
  consent,     \* by flag or by answer
  chosen,      \* the processes to deal with
  dealt,       \* those that were
  current,     \* the process being dealt with, or Nobody
  hits,        \* the signals it has got
  over

jvars == <<spared, rehearsal, consent, chosen, dealt, current, hits, over>>
terms == <<spared, rehearsal>>

Waiting == chosen \ dealt

Choose(S) ==
  /\ ~over /\ chosen = {} /\ chosen' = S
  /\ UNCHANGED <<terms, consent, dealt, current, hits, over>>

Agree ==
  /\ ~over /\ ~consent /\ chosen \ spared # {} /\ consent' = TRUE
  /\ UNCHANGED <<terms, chosen, dealt, current, hits, over>>

\* The first of those left.
Turn(p) == ~over /\ consent /\ current = Nobody /\ p \in Waiting /\ \A q \in Waiting : p <= q

PassOver(p) ==
  /\ Turn(p) /\ p \in spared /\ dealt' = dealt \cup {p}
  /\ UNCHANGED <<terms, consent, chosen, current, hits, over>>

Take(p) ==
  /\ Turn(p) /\ p \notin spared /\ current' = p
  /\ UNCHANGED <<terms, consent, chosen, dealt, hits, over>>

Hit ==
  /\ ~over /\ current # Nobody /\ ~rehearsal /\ hits < 2 /\ hits' = hits + 1
  /\ UNCHANGED <<terms, consent, chosen, dealt, current, over>>

Finish ==
  /\ ~over /\ current # Nobody
  /\ dealt' = dealt \cup {current} /\ current' = Nobody /\ hits' = 0
  /\ UNCHANGED <<terms, consent, chosen, over>>

\* Early, before anybody is dealt with; when all are; or by a panic.
End ==
  /\ ~over /\ over' = TRUE /\ current' = Nobody /\ hits' = 0
  /\ (dealt = {} /\ current = Nobody) \/ dealt = chosen \/ current # Nobody
  /\ UNCHANGED <<terms, consent, chosen, dealt>>

Init ==
  /\ spared \subseteq People /\ rehearsal \in BOOLEAN /\ consent \in BOOLEAN
  /\ chosen = {} /\ dealt = {} /\ current = Nobody /\ hits = 0 /\ over = FALSE

Deal == Finish \/ End \/ \E p \in People : PassOver(p) \/ Take(p)

Next == Deal \/ Agree \/ Hit \/ \E S \in SUBSET People : Choose(S)

Safety == Init /\ [][Next]_jvars

\* Once there are processes to deal with and consent, it goes on to the end.
Spec == Safety /\ WF_jvars(consent /\ chosen # {} /\ Deal)
=============================================================================
