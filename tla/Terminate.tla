----------------------------- MODULE Terminate ------------------------------
(***************************************************************************)
(* kill.rs: one call of kill::terminate(pid, opts) and its polling loop    *)
(* wait_gone, step by step, against a kernel that may let the process      *)
(* exit, keep its zombie, reap it, hand its pid to another process or      *)
(* change its credentials between any two system calls.                    *)
(*                                                                         *)
(* Time is discrete, one unit being the first back-off of the code (10 ms).*)
(* A deadline is the time left until it, so no clock grows without bound.  *)
(*                                                                         *)
(* Operators marked "fault" are plausible bugs of the definition that      *)
(* follows them.  The specification never uses them: they are there to     *)
(* show that the properties can fail.                                      *)
(***************************************************************************)
EXTENDS Integers, Sequences

CONSTANTS
  Graces,      \* KillOpts::grace, in units
  InstantMax,  \* longest Duration that can be added to Instant::now()
  ReapWait,    \* REAP_WAIT (200 units in the code)
  MaxNap,      \* cap of the back-off (10 units in the code)
  Pids,        \* pids the function may be called with
  MaxReuse     \* bound: how often the kernel reuses the pid (0: never)

ASSUME TerminateAssumption ==
  /\ Graces \subseteq Nat
  /\ InstantMax \in Nat
  /\ ReapWait \in 0..InstantMax
  /\ MaxNap \in Nat \ {0}
  /\ Pids \subseteq Int
  /\ MaxReuse \in Nat

VARIABLES
  opts, pid,   \* arguments of the call
  pc, phase,   \* next step of the call; which of the waits it is in
  left,        \* time until the deadline of wait_gone, 0 once passed
  nap,         \* time until thread::sleep may return
  backoff,     \* how long the next sleep will be
  sent,        \* signals accepted by the kernel
  outcome,     \* the returned Outcome
  status,      \* the pid in the kernel: "running", "zombie" or "gone"
  inc,         \* 0 for the process the call is about, more after a reuse
  access,      \* errno of signalling the running process: "ok" or "EPERM"
  age,         \* history: time since the first signal was accepted, up to the grace
  sawGone      \* history: a system call has answered ESRCH

call   == <<opts, pid, pc, phase, left, nap, backoff, sent, outcome>>
kernel == <<status, inc, access>>
vars   == <<call, kernel, age, sawGone>>

Contract == INSTANCE KillContract

Capped(n, bound) == IF n < bound THEN n ELSE bound
-----------------------------------------------------------------------------
(***************************************************************************)
(* kill(2).  Signal 0 only checks existence and permission; a real signal  *)
(* may moreover be refused for a reason terminate() has no name for.  A    *)
(* zombie still owns its pid and takes any signal without effect.          *)
(***************************************************************************)
ProbeErrno == IF status = "gone" THEN "ESRCH" ELSE IF status = "zombie" THEN "ok" ELSE access

KillErrnos == {ProbeErrno} \cup (IF ProbeErrno = "ok" THEN {"EINVAL"} ELSE {})

\* fault: EPERM taken for "gone"
AliveOnlyIfMine == ProbeErrno = "ok"
\* alive(): EPERM means that the process is there and belongs to someone else.
Alive == ProbeErrno \in {"ok", "EPERM"}
-----------------------------------------------------------------------------
Return(o) == outcome' = o /\ pc' = "done"

NoteErrno(e) == sawGone' = (sawGone \/ e = "ESRCH")

ErrnoOutcome(e) ==
  CASE e = "ESRCH" -> "AlreadyGone"
    [] e = "EPERM" -> "Denied"
    [] OTHER       -> "Failed"

\* pid <= 1 is never signalled: kill(2) reads 0 and negatives as groups.
Reject ==
  /\ pc = "enter" /\ pid <= 1
  /\ Return("Skipped")
  /\ UNCHANGED <<opts, pid, phase, left, nap, backoff, sent, kernel, age, sawGone>>

Preview ==
  /\ pc = "enter" /\ pid > 1 /\ opts.dry_run
  /\ Return(IF Alive THEN "Planned" ELSE "AlreadyGone")
  /\ NoteErrno(ProbeErrno)
  /\ UNCHANGED <<opts, pid, phase, left, nap, backoff, sent, kernel, age>>

First == IF opts.force THEN "SIGKILL" ELSE "SIGTERM"

SendFirst ==
  /\ pc = "enter" /\ pid > 1 /\ ~opts.dry_run
  /\ \E e \in KillErrnos :
       /\ NoteErrno(e)
       /\ IF e = "ok"
          THEN /\ sent' = Append(sent, First)
               /\ phase' = IF opts.force THEN "reap" ELSE "grace"
               /\ pc' = "arm"
               /\ UNCHANGED outcome
          ELSE Return(ErrnoOutcome(e)) /\ UNCHANGED <<sent, phase>>
  /\ UNCHANGED <<opts, pid, left, nap, backoff, kernel, age>>
-----------------------------------------------------------------------------
(***************************************************************************)
(* wait_gone, called in phase "grace" and again in phase "reap".           *)
(***************************************************************************)
Budget == IF phase = "grace" THEN opts.grace ELSE ReapWait

\* Instant::now() + budget panics when the sum cannot be represented.
Arm ==
  /\ pc = "arm"
  /\ IF Budget > InstantMax
     THEN /\ outcome' = "Panicked" /\ pc' = "done"
          /\ UNCHANGED <<left, backoff>>
     ELSE /\ left' = Budget /\ backoff' = 1 /\ pc' = "poll"
          /\ UNCHANGED outcome
  /\ UNCHANGED <<opts, pid, phase, nap, sent, kernel, age, sawGone>>

\* fault: the answer of wait_gone is dropped
AfterWaitDeafToExit(gone) ==
  IF phase = "reap" THEN Return("Killed")
  ELSE IF opts.no_escalate THEN Return("StillAlive")
  ELSE pc' = "escalate" /\ UNCHANGED outcome

(***************************************************************************)
(* What terminate() does with the answer of wait_gone.                     *)
(***************************************************************************)
AfterWait(gone) ==
  IF phase = "reap" THEN Return("Killed")
  ELSE IF gone THEN Return("Terminated")
  ELSE IF opts.no_escalate THEN Return("StillAlive")
  ELSE pc' = "escalate" /\ UNCHANGED outcome

Poll ==
  /\ pc = "poll"
  /\ NoteErrno(ProbeErrno)
  /\ IF Alive THEN pc' = "check" /\ UNCHANGED outcome ELSE AfterWait(TRUE)
  /\ UNCHANGED <<opts, pid, phase, left, nap, backoff, sent, kernel, age>>

\* faults: a loop without a deadline, a deadline one unit early
DeadlineForgotten == FALSE
DeadlineTooEarly  == left <= 1
DeadlinePassed == left = 0

\* fault: back-off without its cap
NextBackoffUncapped == 2 * backoff
NextBackoff == Capped(2 * backoff, MaxNap)

Check ==
  /\ pc = "check"
  /\ IF DeadlinePassed
     THEN AfterWait(FALSE) /\ UNCHANGED <<nap, backoff>>
     ELSE /\ nap' = backoff /\ backoff' = NextBackoff /\ pc' = "nap"
          /\ UNCHANGED outcome
  /\ UNCHANGED <<opts, pid, phase, left, sent, kernel, age, sawGone>>

Wake ==
  /\ pc = "nap" /\ nap = 0
  /\ pc' = "poll"
  /\ UNCHANGED <<opts, pid, phase, left, nap, backoff, sent, outcome, kernel, age, sawGone>>

\* The second signal; a process that left in between also counts as killed.
Escalate ==
  /\ pc = "escalate"
  /\ \E e \in KillErrnos :
       /\ NoteErrno(e)
       /\ IF e \in {"ok", "ESRCH"}
          THEN /\ sent' = IF e = "ok" THEN Append(sent, "SIGKILL") ELSE sent
               /\ phase' = "reap" /\ pc' = "arm"
               /\ UNCHANGED outcome
          ELSE Return(ErrnoOutcome(e)) /\ UNCHANGED <<sent, phase>>
  /\ UNCHANGED <<opts, pid, left, nap, backoff, kernel, age>>
-----------------------------------------------------------------------------
(***************************************************************************)
(* The environment: time, and the kernel's side of the pid.                *)
(***************************************************************************)
Tick ==
  /\ pc # "done"
  /\ left' = IF left > 0 THEN left - 1 ELSE 0
  /\ nap'  = IF nap > 0 THEN nap - 1 ELSE 0
  /\ age'  = IF sent # <<>> THEN Capped(age + 1, opts.grace) ELSE age
  /\ UNCHANGED <<opts, pid, pc, phase, backoff, sent, outcome, kernel, sawGone>>

Exit ==
  /\ status = "running" /\ status' = "zombie"
  /\ UNCHANGED <<call, inc, access, age, sawGone>>

Reap ==
  /\ status = "zombie" /\ status' = "gone"
  /\ UNCHANGED <<call, inc, access, age, sawGone>>

Reuse ==
  /\ status = "gone" /\ inc < MaxReuse
  /\ status' = "running" /\ inc' = inc + 1 /\ access' \in {"ok", "EPERM"}
  /\ UNCHANGED <<call, age, sawGone>>

\* exec of a set-user-id program, or a change of user by the process itself
ChangeUser ==
  /\ status = "running"
  /\ access' \in {"ok", "EPERM"} \ {access}
  /\ UNCHANGED <<call, status, inc, age, sawGone>>

\* The call is over and the pid is free for good.
Finished == pc = "done" /\ status = "gone" /\ inc = MaxReuse /\ UNCHANGED vars
-----------------------------------------------------------------------------
Init ==
  /\ opts \in Contract!KillOpts /\ pid \in Pids
  /\ pc = "enter" /\ phase = "none"
  /\ left = 0 /\ nap = 0 /\ backoff = 1
  /\ sent = <<>> /\ outcome = Contract!Pending
  /\ status \in {"running", "zombie", "gone"} /\ inc = 0 /\ access \in {"ok", "EPERM"}
  /\ age = 0 /\ sawGone = FALSE

Caller == Reject \/ Preview \/ SendFirst \/ Arm \/ Poll \/ Check \/ Wake \/ Escalate

Kernel == Exit \/ Reap \/ Reuse \/ ChangeUser

Next == Caller \/ Kernel \/ Tick \/ Finished

(***************************************************************************)
(* The thread keeps running and time keeps passing; the process may ignore *)
(* SIGTERM for ever and its parent may never reap it.                      *)
(***************************************************************************)
Spec == Init /\ [][Next]_vars /\ WF_vars(Caller) /\ WF_vars(Tick)
-----------------------------------------------------------------------------
Phases == {"none", "grace", "reap"}

Term == <<"SIGTERM">>
Kill == <<"SIGKILL">>
Both == <<"SIGTERM", "SIGKILL">>

\* Types, and the bound on every sleep: min(2 * backoff, 100 ms) (kill.rs:143).
TypeOK ==
  /\ opts \in Contract!KillOpts /\ pid \in Pids
  /\ pc \in {"enter", "arm", "poll", "check", "nap", "escalate", "done"}
  /\ phase \in Phases
  /\ left \in Nat /\ nap \in 0..MaxNap /\ backoff \in 1..MaxNap
  /\ sent \in {<<>>, Term, Kill, Both}
  /\ outcome \in Contract!Outcomes \cup {Contract!Pending, "Panicked"}
  /\ status \in {"running", "zombie", "gone"} /\ inc \in 0..MaxReuse
  /\ access \in {"ok", "EPERM"}
  /\ age \in Nat /\ sawGone \in BOOLEAN

\* The process the call was made about no longer holds its pid.
TargetGone == inc > 0 \/ status = "gone"

(***************************************************************************)
(* SIGKILL is never sent in place of the grace period: unless --force asks *)
(* for it, SIGTERM came first and the whole grace has passed since         *)
(* (kill.rs:115-121), however the sleeps overshoot.                        *)
(***************************************************************************)
GraceRespected ==
  sent # <<>> /\ sent[Len(sent)] = "SIGKILL" /\ ~opts.force
    => sent = Both /\ age = opts.grace

(***************************************************************************)
(* An outcome that says the process is gone is true of the process the     *)
(* call was made about, even if its credentials changed or its pid was     *)
(* handed on meanwhile (kill.rs:31, kill.rs:35, kill.rs:78).  "Killed" is  *)
(* backed by a signal that cannot be ignored or by the process being gone. *)
(***************************************************************************)
OutcomeTruthful ==
  /\ outcome \in {"Terminated", "AlreadyGone"} => TargetGone
  /\ outcome = "Killed" => TargetGone \/ sent[Len(sent)] = "SIGKILL"

(***************************************************************************)
(* Once a system call has said that the pid is free, nothing more is sent  *)
(* to it: whoever gets the pid next is safe from this call (kill.rs:105,   *)
(* kill.rs:115, kill.rs:122).                                              *)
(***************************************************************************)
SilentAfterGone == [][sawGone => sent' = sent]_vars

(***************************************************************************)
(* The signals and the outcome are those KillContract allows, and the call *)
(* returns, whatever the process does.                                     *)
(***************************************************************************)
MeetsContract == Contract!Spec
=============================================================================
