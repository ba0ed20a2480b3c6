---------------------------- MODULE KillContract ----------------------------
(***************************************************************************)
(* What one call of kill::terminate promises whoever makes it: which       *)
(* signals the kernel may accept on the call's behalf, in which order, and *)
(* which Outcome may be returned after them.  Nothing is said of polling,  *)
(* of time or of the process table: module Terminate has those and is      *)
(* shown to implement this one, and module Clean makes its calls through   *)
(* this one.                                                               *)
(***************************************************************************)
EXTENDS Naturals, Sequences

CONSTANTS
  Graces,      \* grace periods a caller may ask for
  InstantMax   \* longest Duration that can be added to Instant::now()

VARIABLES
  opts,        \* the KillOpts of the call
  sent,        \* the signals the kernel has accepted, in order
  outcome      \* what the call returned, Pending until it does

contractVars == <<opts, sent, outcome>>

KillOpts == [grace : Graces, force : BOOLEAN, no_escalate : BOOLEAN, dry_run : BOOLEAN]

Pending  == "pending"
Outcomes == {"Terminated", "Killed", "AlreadyGone", "StillAlive", "Denied",
             "Skipped", "Planned", "Failed"}

\* Outcome::ok: these do not make `clean` fail.
Good(o) == o \in {"Terminated", "Killed", "AlreadyGone", "Planned"}

(***************************************************************************)
(* The sequences of signals a call may have had accepted so far.           *)
(***************************************************************************)
Ladder(o) ==
  IF o.dry_run THEN {<<>>}
  ELSE IF o.force THEN {<<>>, <<"SIGKILL">>}
  ELSE IF o.no_escalate THEN {<<>>, <<"SIGTERM">>}
  ELSE {<<>>, <<"SIGTERM">>, <<"SIGTERM", "SIGKILL">>}

(***************************************************************************)
(* What may be returned once exactly the signals s have been accepted.  A  *)
(* grace period that Instant cannot represent ends the program instead.    *)
(***************************************************************************)
Returns(o, s) ==
  IF s = <<>>
  THEN {"AlreadyGone", "Skipped"}
         \cup (IF o.dry_run THEN {"Planned"} ELSE {"Denied", "Failed"})
  ELSE IF s = <<"SIGTERM">>
  THEN IF o.grace > InstantMax THEN {"Panicked"}
       ELSE {"Terminated"}
              \cup (IF o.no_escalate THEN {"StillAlive"}
                    ELSE {"Killed", "Denied", "Failed"})
  ELSE {"Killed"}

Init == opts \in KillOpts /\ sent = <<>> /\ outcome = Pending

Deliver(sig) ==
  /\ outcome = Pending
  /\ Append(sent, sig) \in Ladder(opts)
  /\ sent = <<"SIGTERM">> => opts.grace <= InstantMax
  /\ sent' = Append(sent, sig)
  /\ UNCHANGED <<opts, outcome>>

Decide(o) ==
  /\ outcome = Pending
  /\ o \in Returns(opts, sent)
  /\ outcome' = o
  /\ UNCHANGED <<opts, sent>>

Next ==
  \/ \E sig \in {"SIGTERM", "SIGKILL"} : Deliver(sig)
  \/ \E o \in Outcomes \cup {"Panicked"} : Decide(o)

Safety == Init /\ [][Next]_contractVars
\* A call returns, or takes the program down with it, whatever its options.
Spec == Safety /\ WF_contractVars(Next)
=============================================================================
