-------------------------- MODULE Terminate_proofs --------------------------
(***************************************************************************)
(* Proofs about one call of kill::terminate, for every grace period, every *)
(* back-off cap, every pid and any number of reuses of the pid.            *)
(*                                                                         *)
(* The invariant has four parts beyond the types.  Stage ties the program  *)
(* counter and the phase to the signals accepted so far.  Timing bounds    *)
(* the time left until the deadline from below by what is missing of the   *)
(* grace period.  Sighting says that an ESRCH is remembered by the control *)
(* flow.  Backing says why the call may answer as it does.                 *)
(***************************************************************************)
EXTENDS Terminate, SequenceTheorems, TLAPS

Sig == {"SIGTERM", "SIGKILL"}

Waiting == pc \in {"poll", "check", "nap"}

Stage ==
  /\ pc # "done" <=> outcome = "pending"
  /\ phase = "none" => sent = <<>> /\ pc \in {"enter", "done"}
  /\ pc = "enter" => phase = "none"
  /\ phase # "none" => ~opts.dry_run
  /\ phase = "grace" => sent = Term /\ ~opts.force
  /\ phase = "reap" => IF opts.force THEN sent = Kill
                       ELSE sent \in {Term, Both} /\ ~opts.no_escalate
  /\ pc = "escalate" => phase = "grace" /\ ~opts.no_escalate

Timing ==
  /\ age <= opts.grace
  /\ pc = "enter" => age = 0
  /\ phase = "grace" /\ Waiting => age + left >= opts.grace
  /\ phase = "grace" /\ (Waiting \/ pc = "escalate") => opts.grace <= InstantMax
  /\ pc = "escalate" => age = opts.grace
  /\ phase = "reap" /\ ~opts.force => age = opts.grace /\ opts.grace <= InstantMax

Sighting ==
  /\ sawGone => TargetGone
  /\ sawGone => phase = "reap" \/ pc = "done"

Backing ==
  /\ outcome \in {"Terminated", "AlreadyGone"} => TargetGone
  /\ phase = "reap" /\ sent = Term => sawGone
  /\ outcome = "Killed" => phase = "reap"

IInv == TypeOK /\ Stage /\ Timing /\ Sighting /\ Backing
-----------------------------------------------------------------------------
(***************************************************************************)
(* The four values of sent differ, and how each is reached from another.   *)
(***************************************************************************)
LEMMA Signals ==
  /\ Term # <<>> /\ Kill # <<>> /\ Both # <<>>
  /\ Term # Kill /\ Term # Both /\ Kill # Both
  /\ Append(<<>>, "SIGTERM") = Term
  /\ Append(<<>>, "SIGKILL") = Kill
  /\ Append(Term, "SIGKILL") = Both
  /\ Term[Len(Term)] = "SIGTERM"
  /\ Kill[Len(Kill)] = "SIGKILL"
  /\ Both[Len(Both)] = "SIGKILL"
<1>1. Len(Term) = 1 /\ Len(Kill) = 1 /\ Len(Both) = 2 /\ Len(<<>>) = 0
  BY DEF Term, Kill, Both
<1>2. Term[1] = "SIGTERM" /\ Kill[1] = "SIGKILL" /\ Both[2] = "SIGKILL"
  BY DEF Term, Kill, Both
<1>3. Term \in Seq(Sig) /\ Kill \in Seq(Sig) /\ Both \in Seq(Sig) /\ <<>> \in Seq(Sig)
  BY DEF Term, Kill, Both, Sig
<1>4. /\ Append(<<>>, "SIGTERM") = Term
      /\ Append(<<>>, "SIGKILL") = Kill
  <2>1. \A sig \in Sig : Append(<<>>, sig) \in Seq(Sig) /\ Len(Append(<<>>, sig)) = 1
                            /\ Append(<<>>, sig)[1] = sig
    BY <1>1, <1>3, AppendProperties
  <2> QED
    BY <1>1, <1>2, <1>3, <2>1, SeqEqual DEF Sig
<1>5. Append(Term, "SIGKILL") = Both
  <2> DEFINE s == Append(Term, "SIGKILL")
  <2>1. "SIGKILL" \in Sig
    BY DEF Sig
  <2>2. /\ s \in Seq(Sig) /\ Len(s) = Len(Term) + 1
        /\ \A i \in 1..Len(Term) : s[i] = Term[i]
        /\ s[Len(Term) + 1] = "SIGKILL"
    BY <1>3, <2>1, AppendProperties
  <2>3. Len(s) = 2 /\ s[1] = Term[1] /\ s[2] = "SIGKILL"
    BY <1>1, <2>2
  <2>4. Both[1] = "SIGTERM"
    BY DEF Both
  <2>5. \A i \in 1..Len(s) : s[i] = Both[i]
    BY <1>2, <2>3, <2>4
  <2> QED
    BY <1>1, <1>3, <2>2, <2>3, <2>5, SeqEqual
<1> QED
  BY <1>1, <1>2, <1>4, <1>5

\* A call starts with the invariant true.
LEMMA InitIInv == Init => IInv
<1> SUFFICES ASSUME Init PROVE IInv
  OBVIOUS
<1> USE TerminateAssumption DEF Init
<1>1. opts.grace \in Nat
  BY DEF Contract!KillOpts
<1>2. TypeOK
  <2>1. nap \in 0..MaxNap /\ backoff \in 1..MaxNap /\ inc \in 0..MaxReuse
    OBVIOUS
  <2> QED
    BY <2>1 DEF TypeOK, Phases
<1>3. Stage
  BY DEF Stage, Contract!Pending
<1>4. Timing
  BY <1>1 DEF Timing, Waiting
<1>5. Sighting /\ Backing
  BY DEF Sighting, Backing, Contract!Pending
<1> QED
  BY <1>2, <1>3, <1>4, <1>5 DEF IInv

(***************************************************************************)
(* Every step of the call keeps the invariant.                             *)
(***************************************************************************)
LEMMA CallerStep == ASSUME IInv, Caller PROVE IInv'
<1>0. opts.grace \in Nat /\ ReapWait \in Nat /\ ReapWait <= InstantMax /\ left \in Nat /\ age \in Nat
  <2>1. ReapWait \in Nat /\ ReapWait <= InstantMax
    BY TerminateAssumption
  <2>2. opts.grace \in Nat
    BY TerminateAssumption DEF IInv, TypeOK, Contract!KillOpts
  <2> QED
    BY <2>1, <2>2 DEF IInv, TypeOK
<1> USE TerminateAssumption, Signals
    DEF IInv, TypeOK, Stage, Timing, Sighting, Backing, Waiting, TargetGone,
        Phases, Contract!KillOpts, Contract!Pending, Contract!Outcomes,
        Return, NoteErrno, ErrnoOutcome, KillErrnos, ProbeErrno, Alive,
        call, kernel
<1>1. CASE Reject
  BY <1>1 DEF Reject
<1>2. CASE Preview
  BY <1>2 DEF Preview
<1>3. CASE SendFirst
  BY <1>3 DEF SendFirst, First
<1>4. CASE Arm
  <2>1. Budget \in Nat /\ ReapWait <= InstantMax
    BY <1>0 DEF Budget
  <2> QED
    BY <1>4, <2>1 DEF Arm, Budget
<1>5. CASE Poll
  BY <1>5 DEF Poll, AfterWait
<1>6. CASE Check
  <2>1. NextBackoff \in 1..MaxNap
    BY DEF NextBackoff, Capped
  <2>2. CASE DeadlinePassed
    BY <1>0, <1>6, <2>2 DEF Check, AfterWait, DeadlinePassed
  <2>3. CASE ~DeadlinePassed
    BY <1>6, <2>1, <2>3 DEF Check
  <2> QED
    BY <2>2, <2>3
<1>7. CASE Wake
  BY <1>7 DEF Wake
<1>8. CASE Escalate
  <2> PICK e \in KillErrnos : /\ sawGone' = (sawGone \/ e = "ESRCH")
                             /\ IF e \in {"ok", "ESRCH"}
                                THEN /\ sent' = IF e = "ok" THEN Append(sent, "SIGKILL") ELSE sent
                                     /\ phase' = "reap" /\ pc' = "arm"
                                     /\ UNCHANGED outcome
                                ELSE Return(ErrnoOutcome(e)) /\ UNCHANGED <<sent, phase>>
    BY <1>8 DEF Escalate
  <2>1. CASE e = "ok"
    BY <1>8, <2>1 DEF Escalate
  <2>2. CASE e = "ESRCH"
    BY <1>8, <2>2 DEF Escalate
  <2>3. CASE e \notin {"ok", "ESRCH"}
    BY <1>8, <2>3 DEF Escalate
  <2> QED
    BY <2>1, <2>2, <2>3
<1> QED
  BY <1>1, <1>2, <1>3, <1>4, <1>5, <1>6, <1>7, <1>8 DEF Caller

(***************************************************************************)
(* So does every step of the kernel and the clock.                         *)
(***************************************************************************)
LEMMA EnvironmentStep == ASSUME IInv, Kernel \/ Tick \/ Finished PROVE IInv'
<1>0. opts.grace \in Nat /\ MaxReuse \in Nat
  BY TerminateAssumption DEF IInv, TypeOK, Contract!KillOpts
<1> USE DEF IInv, TypeOK, Stage, Timing, Sighting, Backing, Waiting, TargetGone, Budget, call, kernel
<1>1. CASE Exit
  BY <1>1 DEF Exit
<1>2. CASE Reap
  BY <1>2 DEF Reap
<1>3. CASE Reuse
  BY <1>0, <1>3 DEF Reuse
<1>4. CASE ChangeUser
  BY <1>4 DEF ChangeUser
<1>5. CASE Tick
  <2>1. /\ left' \in Nat /\ nap' \in 0..MaxNap /\ left <= left' + 1
        /\ UNCHANGED <<opts, pid, pc, phase, backoff, sent, outcome, status, inc, access, sawGone>>
    BY <1>5, TerminateAssumption DEF Tick
  <2>2. /\ age' \in Nat /\ age' <= opts.grace
        /\ sent # <<>> => age' = opts.grace \/ age' = age + 1
        /\ sent # <<>> /\ age = opts.grace => age' = opts.grace
        /\ sent = <<>> => age' = age
    BY <1>0, <1>5 DEF Tick, Capped
  <2>3. TypeOK' /\ Stage' /\ Sighting' /\ Backing'
    BY <2>1, <2>2
  <2>4. Timing'
    <3>1. phase = "grace" /\ Waiting => age' + left' >= opts.grace
      <4> SUFFICES ASSUME phase = "grace", Waiting PROVE age' + left' >= opts.grace
        OBVIOUS
      <4>1. sent # <<>>
        BY Signals
      <4>2. age + left >= opts.grace /\ age \in Nat /\ left \in Nat
        OBVIOUS
      <4>3. left' \in Nat /\ left <= left' + 1 /\ age' \in Nat
        BY <2>1, <2>2
      <4>4. CASE age' = opts.grace
        BY <1>0, <4>3, <4>4
      <4>5. CASE age' = age + 1
        <5>1. \A a, l, m, g \in Nat : a + l >= g /\ l <= m + 1 => (a + 1) + m >= g
          OBVIOUS
        <5> QED
          BY <1>0, <4>2, <4>3, <4>5, <5>1
      <4> QED
        BY <2>2, <4>1, <4>4, <4>5
    <3>2. pc = "escalate" \/ (phase = "reap" /\ ~opts.force) => age' = opts.grace
      BY <2>2, Signals
    <3>3. pc = "enter" => age' = 0
      BY <2>2
    <3> QED
      BY <2>1, <2>2, <3>1, <3>2, <3>3
  <2> QED
    BY <2>3, <2>4
<1>6. CASE Finished
  BY <1>6 DEF Finished, vars
<1> QED
  BY <1>1, <1>2, <1>3, <1>4, <1>5, <1>6 DEF Kernel

\* Stage, Timing, Sighting and Backing hold in every reachable state.
THEOREM Invariance == Spec => []IInv
<1>1. Init => IInv
  BY InitIInv
<1>2. IInv /\ [Next]_vars => IInv'
  <2> SUFFICES ASSUME IInv, [Next]_vars PROVE IInv'
    OBVIOUS
  <2>1. CASE Caller
    BY <2>1, CallerStep
  <2>2. CASE Kernel \/ Tick \/ Finished
    BY <2>2, EnvironmentStep
  <2>3. CASE UNCHANGED vars
    BY <2>3 DEF vars, call, kernel, IInv, TypeOK, Stage, Timing, Sighting, Backing,
                Waiting, TargetGone
  <2> QED
    BY <2>1, <2>2, <2>3 DEF Next
<1> QED
  BY <1>1, <1>2, PTL DEF Spec
-----------------------------------------------------------------------------
(***************************************************************************)
(* Every variable keeps its type; no sleep is longer than MaxNap.          *)
(***************************************************************************)
THEOREM TypeCorrect == Spec => []TypeOK
<1>1. IInv => TypeOK
  BY DEF IInv
<1> QED
  BY <1>1, Invariance, PTL

(***************************************************************************)
(* Unless --force asks for it, SIGKILL only follows SIGTERM and the whole  *)
(* grace period, for every grace period and every back-off.                *)
(***************************************************************************)
THEOREM GraceAlwaysRespected == Spec => []GraceRespected
<1>1. IInv => GraceRespected
  BY Signals DEF IInv, Stage, Timing, GraceRespected, TypeOK, Phases
<1> QED
  BY <1>1, Invariance, PTL

(***************************************************************************)
(* The outcomes that report the process gone are never wrong, whatever the *)
(* kernel does with its credentials and its pid during the call.           *)
(***************************************************************************)
THEOREM OutcomesTruthful == Spec => []OutcomeTruthful
<1>1. IInv => OutcomeTruthful
  BY Signals DEF IInv, Stage, Sighting, Backing, OutcomeTruthful, TypeOK
<1> QED
  BY <1>1, Invariance, PTL

(***************************************************************************)
(* No signal follows an ESRCH.                                             *)
(***************************************************************************)
THEOREM AlwaysSilentAfterGone == Spec => SilentAfterGone
<1>1. IInv /\ [Next]_vars => [sawGone => sent' = sent]_vars
  <2> SUFFICES ASSUME IInv, Next, sawGone PROVE sent' = sent
    OBVIOUS
  <2>1. phase = "reap" \/ pc = "done"
    BY DEF IInv, Sighting
  <2>2. pc \notin {"enter", "escalate"}
    BY <2>1 DEF IInv, Stage
  <2> QED
    BY <2>2 DEF Next, Caller, Kernel, Reject, Preview, SendFirst, Arm, Poll, Check, Wake, Escalate,
                Exit, Reap, Reuse, ChangeUser, Tick, Finished, call, vars
<1> QED
  BY <1>1, Invariance, PTL DEF Spec, SilentAfterGone
-----------------------------------------------------------------------------
(***************************************************************************)
(* Each step of the detailed call is one of KillContract's, or changes     *)
(* nothing that KillContract sees.                                         *)
(***************************************************************************)
LEMMA Simulation ==
  ASSUME IInv, [Next]_vars
  PROVE  [Contract!Next]_<<opts, sent, outcome>>
<1>0. opts.grace \in Nat /\ ReapWait \in Nat /\ ReapWait <= InstantMax
  <2>1. ReapWait \in Nat /\ ReapWait <= InstantMax
    BY TerminateAssumption
  <2>2. opts.grace \in Nat
    BY TerminateAssumption DEF IInv, TypeOK, Contract!KillOpts
  <2> QED
    BY <2>1, <2>2
<1> DEFINE Answers == /\ outcome = "pending" /\ UNCHANGED <<opts, sent>>
                      /\ outcome' \in Contract!Returns(opts, sent)
                      /\ outcome' \in Contract!Outcomes \cup {"Panicked"}
           Signalled(sig) == /\ outcome = "pending" /\ UNCHANGED <<opts, outcome>>
                             /\ sent' = Append(sent, sig)
                             /\ Append(sent, sig) \in Contract!Ladder(opts)
                             /\ sent = Term => opts.grace <= InstantMax
           Silent == UNCHANGED <<opts, sent, outcome>>
<1>1. ASSUME Answers PROVE Contract!Next
  BY <1>1 DEF Contract!Next, Contract!Decide, Contract!Pending
<1>2. ASSUME NEW sig \in Sig, Signalled(sig) PROVE Contract!Next
  BY <1>2 DEF Contract!Next, Contract!Deliver, Contract!Pending, Term, Sig
<1>r. /\ sent = Term /\ opts.grace > InstantMax => "Panicked" \in Contract!Returns(opts, sent)
      /\ sent = Term /\ opts.grace <= InstantMax =>
           /\ "Terminated" \in Contract!Returns(opts, sent)
           /\ IF opts.no_escalate THEN "StillAlive" \in Contract!Returns(opts, sent)
              ELSE {"Killed", "Denied", "Failed"} \subseteq Contract!Returns(opts, sent)
      /\ sent \in {Kill, Both} => "Killed" \in Contract!Returns(opts, sent)
  <2>1. ~(opts.grace > InstantMax) <=> opts.grace <= InstantMax
    BY <1>0, TerminateAssumption
  <2> QED
    BY <2>1, Signals DEF Contract!Returns, Term
<1>p. pc \notin {"enter", "done"} => phase \in {"grace", "reap"}
  BY DEF IInv, TypeOK, Phases, Stage
<1>3. Next => Answers \/ (\E sig \in Sig : Signalled(sig)) \/ Silent
  <2> USE Signals DEF Return, Contract!Outcomes
  <2>1. pc # "done" => outcome = "pending"
    BY DEF IInv, Stage
  <2>2. CASE Reject
    <3>1. sent = <<>>
      BY <2>2 DEF Reject, IInv, Stage
    <3> QED
      BY <2>1, <2>2, <3>1 DEF Reject, Contract!Returns
  <2>3. CASE Preview
    <3>1. sent = <<>>
      BY <2>3 DEF Preview, IInv, Stage
    <3> QED
      BY <2>1, <2>3, <3>1 DEF Preview, Contract!Returns
  <2>4. CASE SendFirst
    <3>1. sent = <<>> /\ ~opts.dry_run
      BY <2>4 DEF SendFirst, IInv, Stage
    <3>2. CASE sent' = sent
      BY <2>1, <2>4, <3>1, <3>2 DEF SendFirst, ErrnoOutcome, Contract!Returns
    <3>3. CASE sent' # sent
      BY <2>1, <2>4, <3>1, <3>3 DEF SendFirst, First, Sig, Contract!Ladder, Term, Kill
    <3> QED
      BY <3>2, <3>3
  <2>5. CASE Arm
    <3>1. CASE Budget > InstantMax
      <4>1. phase = "grace" /\ opts.grace > InstantMax
        BY <1>0, <1>p, <2>5, <3>1, TerminateAssumption DEF Arm, Budget
      <4>2. sent = Term
        BY <4>1 DEF IInv, Stage
      <4> QED
        BY <1>r, <2>1, <2>5, <3>1, <4>1, <4>2 DEF Arm
    <3>2. CASE ~(Budget > InstantMax)
      BY <2>5, <3>2 DEF Arm
    <3> QED
      BY <3>1, <3>2
  <2>6. CASE Poll
    <3>1. CASE phase = "grace"
      <4>1. sent = Term /\ opts.grace <= InstantMax
        BY <2>6, <3>1 DEF Poll, IInv, Stage, Timing, Waiting
      <4> QED
        BY <1>r, <2>1, <2>6, <3>1, <4>1 DEF Poll, AfterWait
    <3>2. CASE phase = "reap"
      <4>1. /\ sent \in {Kill, Both} \/ (sent = Term /\ opts.grace <= InstantMax /\ ~opts.no_escalate)
        BY <3>2 DEF IInv, Stage, Timing
      <4> QED
        BY <1>r, <2>1, <2>6, <3>2, <4>1 DEF Poll, AfterWait
    <3> QED
      BY <1>p, <2>6, <3>1, <3>2 DEF Poll
  <2>7. CASE Check
    <3>1. CASE phase = "grace"
      <4>1. sent = Term /\ opts.grace <= InstantMax
        BY <2>7, <3>1 DEF Check, IInv, Stage, Timing, Waiting
      <4> QED
        BY <1>r, <2>1, <2>7, <3>1, <4>1 DEF Check, AfterWait
    <3>2. CASE phase = "reap"
      <4>1. /\ sent \in {Kill, Both} \/ (sent = Term /\ opts.grace <= InstantMax /\ ~opts.no_escalate)
        BY <3>2 DEF IInv, Stage, Timing
      <4> QED
        BY <1>r, <2>1, <2>7, <3>2, <4>1 DEF Check, AfterWait
    <3> QED
      BY <1>p, <2>7, <3>1, <3>2 DEF Check
  <2>8. CASE Wake
    BY <2>8 DEF Wake
  <2>9. CASE Escalate
    <3>1. sent = Term /\ opts.grace <= InstantMax /\ ~opts.no_escalate /\ ~opts.force /\ ~opts.dry_run
      BY <2>9 DEF Escalate, IInv, Stage, Timing
    <3>2. CASE sent' = sent
      BY <1>r, <2>1, <2>9, <3>1, <3>2 DEF Escalate, ErrnoOutcome
    <3>3. CASE sent' # sent
      BY <2>1, <2>9, <3>1, <3>3 DEF Escalate, Sig, Contract!Ladder, Both
    <3> QED
      BY <3>2, <3>3
  <2>10. CASE Kernel \/ Tick \/ Finished
    BY <2>10 DEF Kernel, Exit, Reap, Reuse, ChangeUser, Tick, Finished, call, vars
  <2> QED
    BY <2>2, <2>3, <2>4, <2>5, <2>6, <2>7, <2>8, <2>9, <2>10 DEF Next, Caller
<1>4. UNCHANGED vars => Silent
  BY DEF vars, call
<1> QED
  BY <1>1, <1>2, <1>3, <1>4

(***************************************************************************)
(* A call sends what KillContract allows, in its order, and answers what   *)
(* KillContract allows after it.  (That it answers at all needs fairness,  *)
(* and is left to TLC.)                                                    *)
(***************************************************************************)
THEOREM ImplementsContract == Spec => Contract!Safety
<1>1. Init => Contract!Init
  BY DEF Init, Contract!Init
<1>2. IInv /\ [Next]_vars => [Contract!Next]_(Contract!contractVars)
  BY Simulation DEF Contract!contractVars
<1> QED
  BY <1>1, <1>2, Invariance, PTL DEF Spec, Contract!Safety
=============================================================================
