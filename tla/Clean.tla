------------------------------- MODULE Clean --------------------------------
(***************************************************************************)
(* `edev clean` (run_clean of main.rs): from a scan and the command line   *)
(* to a plan, a confirmation, one kill::terminate per process, a report    *)
(* and an exit code.                                                       *)
(*                                                                         *)
(* The scan is a snapshot: while clean waits for an answer or for a        *)
(* process, any of the processes may exit and its pid go to another one,   *)
(* and the reader of standard output may go away.  A call of terminate is  *)
(* made through KillContract, which module Terminate implements.           *)
(*                                                                         *)
(* Operators marked "fault" are plausible bugs of the definition below     *)
(* them; the specification does not use them.                              *)
(***************************************************************************)
EXTENDS Specs, FiniteSets

CONSTANTS
  Listings,    \* what a scan of all ports may find: sets of entries
  ArgSets,     \* command lines
  Lines,       \* texts that may be typed at the menu
  Graces, InstantMax,   \* as in KillContract
  Recycling    \* may the kernel give the pid of a dead process away?

\* What the scan says of a process, it says for each of its ports.
ASSUME CleanAssumption ==
  /\ \A l \in Listings :
       /\ IsFiniteSet(l)
       /\ \A e, f \in l : e.pid \in Nat /\ (e.pid = f.pid => (e.protected <=> f.protected))
       /\ \A e \in l : e.port \in 0..MaxPort
  /\ \A a \in ArgSets :
       /\ {a.yes, a.dry_run, a.all, a.dev_only} \subseteq BOOLEAN
       /\ a.ports \in Text /\ \A t \in a.targets : t.pid \in BOOLEAN /\ t.part \in Part
  /\ Lines \subseteq Text

VARIABLES
  args,        \* CleanArgs
  listed,      \* the entries of a scan of all ports
  occ,         \* pid -> who has it now: "listed" (the process the scan saw),
               \* "gone", or "other"
  pc,          \* next step
  entries,     \* the entries left by --ports and by the scope
  line,        \* the numbers typed at the menu
  selected,    \* the entries chosen among them
  plan,        \* one [pid, ports, protected] per process
  records,     \* one [pid, ports, outcome] per plan item dealt with
  opts, sent, outcome,  \* the current call of terminate
  printed,     \* the kinds of text written to standard output
  broken,      \* nobody reads standard output any more
  exit,        \* exit code of the program, Running before
  agreed,      \* history: the user has confirmed
  log          \* history: the signals accepted, and by which pid

call    == <<opts, sent, outcome>>
input   == <<args, listed>>
world   == <<occ, broken>>
choice  == <<entries, line, selected>>
work    == <<plan, records, call>>
history == <<agreed, log>>
vars    == <<input, world, choice, work, history, pc, printed, exit>>

Kernel == INSTANCE KillContract

Running == -1
-----------------------------------------------------------------------------
(***************************************************************************)
(* Scope::admits.  clean never asks for everything.                        *)
(***************************************************************************)
ShownByDefault(kind) == kind \in {"DevServer", "Database", "Infra", "Container"}

Admits(scope, kind) ==
  IF scope.dev_only THEN kind = "DevServer"
  ELSE scope.all \/ ShownByDefault(kind) \/ (scope.include_unknown /\ kind = "Unknown")

CleanScope ==
  [all |-> FALSE, dev_only |-> args.dev_only, include_unknown |-> args.include_unknown]

\* build_filter: without --ports, every port.
PortSpec == IF args.ports = <<>> THEN [ok |-> TRUE, out |-> {<<0, MaxPort>>}]
            ELSE ParsePortSpec(args.ports)

Collected == {e \in listed : \E r \in PortSpec.out : r[1] <= e.port /\ e.port <= r[2]}

\* fault: --dev-only forgotten when targets are named
NarrowWithoutTargets == args.targets = {}

\* --all and the menu stay in scope; what is named explicitly need not.
Narrow == args.dev_only \/ args.targets = {}

InScope == IF Narrow THEN {e \in Collected : Admits(CleanScope, e.kind)} ELSE Collected

\* Target::matches
Matches(t, e) == LET n == IF t.type = "pid" THEN e.pid ELSE e.port IN t.lo <= n /\ n <= t.hi

Targets == {ParseTarget(t) : t \in args.targets}

Named(e) == \E t \in Targets : Matches(t, e)

(***************************************************************************)
(* merge_by_pid: one item per process, for all the ports it was chosen by. *)
(* The entries of a process all carry the same protection.                 *)
(***************************************************************************)
Pids(S) == {e.pid : e \in S}

PortsOf(pid) == {e.port : e \in {x \in selected : x.pid = pid}}

PlanItem(pid) ==
  [pid |-> pid, ports |-> PortsOf(pid),
   protected |-> \E e \in selected : e.pid = pid /\ e.protected]

\* The ways to put the processes in order of pid: there is one.
Orders ==
  LET S == Pids(selected)
  IN  {o \in [1..Cardinality(S) -> S] :
         (\A i, j \in DOMAIN o : i < j => o[i] < o[j]) /\ S = {o[i] : i \in DOMAIN o}}

\* faults: one item per entry; the items of a pid keep its first port only
OneItemPerEntry ==
  LET all == SetToSortSeq(selected, LAMBDA a, b : a.port < b.port)
  IN  {[i \in DOMAIN all |-> [PlanItem(all[i].pid) EXCEPT !.ports = {all[i].port}]]}

FirstPortOnly ==
  {[i \in DOMAIN o |-> [PlanItem(o[i]) EXCEPT !.ports = {p \in @ : \A q \in @ : p <= q}]] : o \in Orders}

MergeByPid == {[i \in DOMAIN o |-> PlanItem(o[i])] : o \in Orders}
-----------------------------------------------------------------------------
Goto(step) == pc' = step /\ UNCHANGED exit
Exit(code) == pc' = "exited" /\ exit' = code

\* Every error reaches main(), which tells stderr and exits with 2.
Fail == Exit(2)

\* A panic exits with 101 where it unwinds; the release build aborts
\* (Cargo.toml:37), which is SIGABRT, 134 to a shell.
Crashes == {101, 134}
Crash   == \E code \in Crashes : Exit(code)

Write(kind) == printed' = printed \cup {kind}

\* Text that is flushed at once: the write fails if stdout is broken.
WriteThen(kind, next) ==
  IF broken THEN Fail /\ UNCHANGED printed ELSE Write(kind) /\ Goto(next)

\* Text that stays in the BufWriter, whose drop ignores errors.
Farewell == Write("text") /\ Exit(0)
-----------------------------------------------------------------------------
Collect ==
  /\ pc = "collect"
  /\ IF PortSpec.ok THEN entries' = InScope /\ Goto("select") ELSE Fail /\ UNCHANGED entries
  /\ UNCHANGED <<input, world, work, history, selected, printed, line>>

NothingListed ==
  /\ pc = "select" /\ entries = {}
  /\ Write(IF args.json THEN "json" ELSE "text") /\ Exit(0)
  /\ UNCHANGED <<input, world, choice, work, history>>

\* select_targets: --all first, then the menu, then the targets.
SelectAll ==
  /\ pc = "select" /\ entries # {} /\ args.all
  /\ selected' = entries /\ Goto("plan")
  /\ UNCHANGED <<input, world, work, history, entries, printed, line>>

RefuseMenu ==
  /\ pc = "select" /\ entries # {} /\ ~args.all /\ args.targets = {} /\ args.json
  /\ Fail
  /\ UNCHANGED <<input, world, choice, work, history, printed>>

ShowMenu ==
  /\ pc = "select" /\ entries # {} /\ ~args.all /\ args.targets = {} /\ ~args.json
  /\ WriteThen("menu", "menu")
  /\ UNCHANGED <<input, world, choice, work, history>>

\* pick_interactive numbers the entries from 1, in the order of collect.
Number(e) ==
  Cardinality({x \in entries : x.port < e.port \/ (x.port = e.port /\ x.pid <= e.pid)})

ChooseNothing == selected' = {} /\ UNCHANGED line /\ Goto("plan")

ChooseAll == selected' = entries /\ line' = <<<<1, Cardinality(entries)>>>> /\ Goto("plan")

ChooseNumbers ==
  /\ line' \in Lines
  /\ LET parsed == ParseIndexSpec(line', Cardinality(entries))
     IN  IF parsed.ok
         THEN selected' = {e \in entries : Number(e) - 1 \in parsed.out} /\ Goto("plan")
         ELSE Fail /\ UNCHANGED selected

\* The line read: "q" or nothing, "a" for all, numbers, or no text at all.
Choose ==
  /\ pc = "menu"
  /\ ChooseNothing \/ ChooseAll \/ ChooseNumbers \/ (Fail /\ UNCHANGED <<line, selected>>)
  /\ UNCHANGED <<input, world, work, history, entries, printed>>

SelectNamed ==
  /\ pc = "select" /\ entries # {} /\ ~args.all /\ args.targets # {}
  /\ LET picked == {e \in entries : Named(e)}
     IN  IF picked = {} \/ \E t \in Targets : t.type = "error"
         THEN Fail /\ UNCHANGED selected
         ELSE selected' = picked /\ Goto("plan")
  /\ UNCHANGED <<input, world, work, history, entries, printed, line>>

NothingSelected ==
  /\ pc = "plan" /\ selected = {}
  /\ Farewell
  /\ UNCHANGED <<input, world, choice, work, history>>

MakePlan ==
  /\ pc = "plan" /\ selected # {}
  /\ plan' \in MergeByPid
  /\ IF args.json THEN Goto("confirm") /\ UNCHANGED printed ELSE WriteThen("plan", "confirm")
  /\ UNCHANGED <<input, world, choice, history, records, call>>

Actionable == \E i \in DOMAIN plan : ~plan[i].protected

AllProtected ==
  /\ pc = "confirm" /\ ~Actionable
  /\ Farewell
  /\ UNCHANGED <<input, world, choice, work, history>>

\* fault: with --json there is nobody to ask
NoNeedToAsk == args.yes \/ args.dry_run \/ args.json

MayProceed == args.yes \/ args.dry_run

Confirm ==
  /\ pc = "confirm" /\ Actionable
  /\ IF MayProceed THEN Goto("loop") /\ UNCHANGED printed ELSE WriteThen("prompt", "answer")
  /\ UNCHANGED <<input, world, choice, work, history>>

\* End of file counts as no; a line that is not UTF-8 is an error.
Answer ==
  /\ pc = "answer"
  /\ \/ agreed' = TRUE /\ Goto("loop") /\ UNCHANGED printed
     \/ Farewell /\ UNCHANGED agreed
     \/ Fail /\ UNCHANGED <<printed, agreed>>
  /\ UNCHANGED <<input, world, choice, work, log>>
-----------------------------------------------------------------------------
(***************************************************************************)
(* The loop over the plan.                                                 *)
(***************************************************************************)
Item == plan[Len(records) + 1]
More == pc = "loop" /\ Len(records) < Len(plan)

Record(o) == records' = Append(records, [pid |-> Item.pid, ports |-> Item.ports, outcome |-> o])

SkipProtected ==
  /\ More /\ Item.protected
  /\ Record("Skipped") /\ Goto("loop")
  /\ UNCHANGED <<input, world, choice, history, plan, call, printed>>

\* fault: --yes waives the protection
BeginUnlessAsked ==
  /\ More /\ (~Item.protected \/ args.yes)
  /\ opts' = [grace |-> args.grace, force |-> args.force,
              no_escalate |-> args.no_escalate, dry_run |-> args.dry_run]
  /\ sent' = <<>> /\ outcome' = Kernel!Pending
  /\ Goto("call")
  /\ UNCHANGED <<input, world, choice, history, plan, records, printed>>

Begin ==
  /\ More /\ ~Item.protected
  /\ opts' = [grace |-> args.grace, force |-> args.force,
              no_escalate |-> args.no_escalate, dry_run |-> args.dry_run]
  /\ sent' = <<>> /\ outcome' = Kernel!Pending
  /\ Goto("call")
  /\ UNCHANGED <<input, world, choice, history, plan, records, printed>>

(***************************************************************************)
(* Inside terminate: a signal needs somebody to take it, and an outcome    *)
(* that reports the process gone is true (Terminate: OutcomeTruthful).     *)
(***************************************************************************)
Signal ==
  /\ pc = "call" /\ occ[Item.pid] # "gone"
  /\ \E sig \in {"SIGTERM", "SIGKILL"} :
       /\ Kernel!Deliver(sig)
       /\ log' = Append(log, [pid |-> Item.pid, sig |-> sig])
  /\ UNCHANGED <<input, world, choice, pc, plan, records, printed, exit, agreed>>

Decide ==
  /\ pc = "call"
  /\ \E o \in Kernel!Outcomes \cup {"Panicked"} :
       /\ o \in {"Terminated", "AlreadyGone"} => occ[Item.pid] # "listed"
       /\ Kernel!Decide(o)
  /\ UNCHANGED <<input, world, choice, history, pc, plan, records, printed, exit>>

\* fault: a refusal is tried again
RetryDenied ==
  /\ pc = "call" /\ outcome # Kernel!Pending
  /\ IF outcome = "Panicked" THEN Crash /\ UNCHANGED records
     ELSE Goto("loop") /\ IF outcome = "Denied" THEN UNCHANGED records ELSE Record(outcome)
  /\ UNCHANGED <<input, world, choice, history, plan, call, printed>>

\* A panic ends the program: no record, no report.
Return ==
  /\ pc = "call" /\ outcome # Kernel!Pending
  /\ IF outcome = "Panicked" THEN Crash /\ UNCHANGED records
     ELSE Record(outcome) /\ Goto("loop")
  /\ UNCHANGED <<input, world, choice, history, plan, call, printed>>

\* fault: only the last outcome decides
LastFailed ==
  LET last == records[Len(records)].outcome IN ~Kernel!Good(last) /\ last # "Skipped"

Failed ==
  \E i \in DOMAIN records : ~Kernel!Good(records[i].outcome) /\ records[i].outcome # "Skipped"

(***************************************************************************)
(* The report goes to a buffer: if stdout is broken it is lost, with an    *)
(* error only if it does not fit.                                          *)
(***************************************************************************)
Report ==
  /\ pc = "loop" /\ Len(records) = Len(plan)
  /\ \/ Write(IF args.json THEN "json" ELSE "results") /\ Exit(IF Failed THEN 1 ELSE 0)
     \/ broken /\ Fail /\ UNCHANGED printed
  /\ UNCHANGED <<input, world, choice, work, history>>
-----------------------------------------------------------------------------
(***************************************************************************)
(* The environment.                                                        *)
(***************************************************************************)
Leave ==
  /\ exit = Running
  /\ \E p \in DOMAIN occ : occ[p] # "gone" /\ occ' = [occ EXCEPT ![p] = "gone"]
  /\ UNCHANGED <<input, choice, work, history, pc, printed, broken, exit>>

Recycle ==
  /\ Recycling /\ exit = Running
  /\ \E p \in DOMAIN occ : occ[p] = "gone" /\ occ' = [occ EXCEPT ![p] = "other"]
  /\ UNCHANGED <<input, choice, work, history, pc, printed, broken, exit>>

Break ==
  /\ exit = Running /\ ~broken /\ broken' = TRUE
  /\ UNCHANGED <<input, choice, work, history, occ, pc, printed, exit>>

Done == exit # Running /\ UNCHANGED vars
-----------------------------------------------------------------------------
Init ==
  /\ args \in ArgSets /\ listed \in Listings
  /\ occ = [p \in Pids(listed) |-> "listed"]
  /\ pc = "collect" /\ entries = {} /\ line = <<>> /\ selected = {} /\ plan = <<>> /\ records = <<>>
  /\ opts = [grace |-> args.grace, force |-> args.force,
             no_escalate |-> args.no_escalate, dry_run |-> args.dry_run]
  /\ sent = <<>> /\ outcome = Kernel!Pending
  /\ printed = {} /\ broken = FALSE /\ exit = Running
  /\ agreed = FALSE /\ log = <<>>

User == Choose \/ Answer

Program ==
  \/ Collect \/ NothingListed \/ SelectAll \/ RefuseMenu \/ ShowMenu \/ SelectNamed
  \/ NothingSelected \/ MakePlan \/ AllProtected \/ Confirm
  \/ SkipProtected \/ Begin \/ Signal \/ Decide \/ Return \/ Report

Next == User \/ Program \/ Leave \/ Recycle \/ Break \/ Done

(***************************************************************************)
(* The program keeps running; that a call of terminate does come back is   *)
(* part of its contract.  The user may never answer.                       *)
(***************************************************************************)
Spec == Init /\ [][Next]_vars /\ WF_vars(Program)
-----------------------------------------------------------------------------
Signalled == {log[n].pid : n \in DOMAIN log}

\* All that a process got is these signals, in this order, one after the other.
Got(p, sigs) ==
  \E before \in 0..Len(log) :
    /\ {n \in DOMAIN log : log[n].pid = p} = {before + k : k \in DOMAIN sigs}
    /\ \A k \in DOMAIN sigs : log[before + k].sig = sigs[k]

Reported == printed \cap {"results"} # {} \/ (exit \in {0, 1} /\ selected # {} /\ "json" \in printed)

\* Types; a plan item and a record have just the ports their process was chosen by.
TypeOK ==
  /\ args \in ArgSets /\ listed \in Listings
  /\ occ \in [Pids(listed) -> {"listed", "gone", "other"}]
  /\ pc \in {"collect", "select", "menu", "plan", "confirm", "answer", "loop", "call", "exited"}
  /\ selected \subseteq entries /\ entries \subseteq listed
  /\ \A i \in DOMAIN plan : plan[i] \in [pid : Pids(selected), ports : {PortsOf(plan[i].pid)},
                                         protected : BOOLEAN]
  /\ \A i \in DOMAIN records :
       records[i] \in [pid : Pids(selected), ports : {PortsOf(records[i].pid)},
                       outcome : Kernel!Outcomes]
  /\ outcome \in Kernel!Outcomes \cup {Kernel!Pending, "Panicked"}
  /\ printed \subseteq {"json", "text", "menu", "plan", "prompt", "results"}
  /\ broken \in BOOLEAN /\ agreed \in BOOLEAN
  /\ exit \in {Running, 0, 1, 2} \cup Crashes /\ (exit # Running <=> pc = "exited")

(***************************************************************************)
(* README.md:50-51: what the scan found protected is not signalled, and no *)
(* flag, target or answer changes that.                                    *)
(***************************************************************************)
ProtectedUntouched == \A e \in listed : e.protected => e.pid \notin Signalled

\* What a target says to a reader.
Means(t, e) == IF t.pid THEN t.part = <<e.pid>> ELSE Covers(<<t.part>>, e.port)

(***************************************************************************)
(* A process is signalled only for a port of its own that the user's words *)
(* cover: in scope when nothing is named or --dev-only is given (main.rs:  *)
(* 97-98, cli.rs:95), among the --ports given, meant by a target when only *)
(* targets are given, and at a number typed when numbers are (main.rs:     *)
(* 328).                                                                   *)
(***************************************************************************)
SignalsCovered ==
  \A p \in Signalled : \E e \in listed :
     /\ e.pid = p
     /\ args.targets = {} \/ args.dev_only => Admits(CleanScope, e.kind)
     /\ args.ports # <<>> => Covers(args.ports, e.port)
     /\ ~args.all /\ args.targets # {} => \E t \in args.targets : Means(t, e)
     /\ line # <<>> => e \in entries /\ Covers(line, Number(e))

(***************************************************************************)
(* Nothing is guessed: unless --ports and every target that counts is a    *)
(* number, a range the right way round, or a pid above 1 (cli.rs:129-169), *)
(* no signal is sent at all, not even for the parts that can be read.      *)
(***************************************************************************)
NothingGuessed ==
  log # <<>> =>
    /\ WellFormed(args.ports, 0, MaxPort)
    /\ ~args.all => \A t \in args.targets :
         IF t.pid THEN Well(t.part, 2, MaxPid) /\ Len(t.part) = 1 ELSE Well(t.part, 0, MaxPort)

(***************************************************************************)
(* The numbers typed at the menu select the entries that stand at them     *)
(* (main.rs:328): all of those, no other, and none if one of them is out   *)
(* of range, reversed or no number.                                        *)
(***************************************************************************)
MenuHonoured ==
  line # <<>> =>
    selected = IF WellFormed(line, 1, Cardinality(entries))
               THEN {e \in entries : Covers(line, Number(e))} ELSE {}

(***************************************************************************)
(* No signal without --yes or a confirmation, and none in a dry run.       *)
(***************************************************************************)
NothingWithoutConsent == log # <<>> => (args.yes \/ agreed) /\ ~args.dry_run

(***************************************************************************)
(* main.rs:217: a process is signalled once however many ports it holds:   *)
(* what it gets over the whole run is what one call of terminate may send. *)
(***************************************************************************)
OneCallPerProcess == \A p \in Signalled : \E sigs \in Kernel!Ladder(opts) : Got(p, sigs)

(***************************************************************************)
(* The report has one record for each process chosen, in order of pid,     *)
(* with every port it was chosen by.                                       *)
(***************************************************************************)
ReportComplete ==
  Reported =>
    /\ {<<records[i].pid, records[i].ports>> : i \in DOMAIN records}
         = {<<p, PortsOf(p)>> : p \in Pids(selected)}
    /\ \A i, j \in DOMAIN records : i < j => records[i].pid < records[j].pid

(***************************************************************************)
(* The exit code is that of the whole run: 0 only if every process chosen  *)
(* is gone, on its way out, or was left alone on purpose; 1 only if one is *)
(* not; and an error (2) never hides a signal unless stdout was lost.      *)
(***************************************************************************)
ExitCodeHonest ==
  /\ exit = 0 => \A i \in DOMAIN records :
                   Kernel!Good(records[i].outcome) \/ records[i].outcome = "Skipped"
  /\ exit = 0 /\ log # <<>> => Len(records) = Len(plan)
  /\ exit = 1 => \E i \in DOMAIN records :
                   ~Kernel!Good(records[i].outcome) /\ records[i].outcome # "Skipped"
  /\ exit = 2 => broken \/ log = <<>>

(***************************************************************************)
(* Once it has started to signal, clean comes to an end, whatever the      *)
(* processes do and whoever reads its output.                              *)
(***************************************************************************)
LoopEnds == pc = "loop" ~> exit # Running

(***************************************************************************)
(* Clean implements Janitor: consent is --yes, --dry-run or an answer; who *)
(* has a record is dealt with; the call that runs is for the current one.  *)
(***************************************************************************)
Promise == INSTANCE Janitor WITH
  People    <- UNION {Pids(l) : l \in Listings},
  Nobody    <- -1,
  spared    <- {e.pid : e \in {x \in listed : x.protected}},
  rehearsal <- args.dry_run,
  consent   <- args.yes \/ args.dry_run \/ agreed,
  chosen    <- Pids(selected),
  dealt     <- {records[i].pid : i \in DOMAIN records},
  current   <- IF pc = "call" THEN Item.pid ELSE -1,
  hits      <- IF pc = "call" THEN Len(sent) ELSE 0,
  over      <- exit # Running

KeepsPromise == Promise!Spec

(***************************************************************************)
(* cli.rs:79: --all cleans "all entries in scope".  Not so when a target   *)
(* is also given: the scope filter is then skipped (main.rs:99) and --all  *)
(* takes every entry that is left (main.rs:199).                           *)
(***************************************************************************)
AllStaysInScope ==
  args.all => \A p \in Signalled : \E e \in listed : e.pid = p /\ Admits(CleanScope, e.kind)

(***************************************************************************)
(* cli.rs:119, README.md:123: with --json, what standard output carries is *)
(* JSON.                                                                   *)
(***************************************************************************)
JsonStdoutPure == args.json => printed \subseteq {"json"}
=============================================================================
