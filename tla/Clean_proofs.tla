---------------------------- MODULE Clean_proofs ----------------------------
(***************************************************************************)
(* For all listings, command lines, answers and outcomes: clean implements *)
(* the safety part of Janitor, signals no protected process, and reports   *)
(* on each process chosen.                                                 *)
(*                                                                         *)
(* The invariant of Edev_proofs is strengthened by what ties the plan to   *)
(* the selection and the records to the plan: the plan is the processes of *)
(* the selection in order of pid, the records are those of its first       *)
(* items, and a call is under way for an item that is not protected.  What *)
(* the texts mean comes from the theorems of Edev_proofs: together they    *)
(* bound who is signalled by what the user typed.  At the end, what a scan *)
(* shows.                                                                  *)
(***************************************************************************)
EXTENDS Edev_proofs, FiniteSetTheorems

Guarded(l) == {e.pid : e \in {x \in l : x.protected}}

PortsIn(S, p) == {e.port : e \in {x \in S : x.pid = p}}

\* A plan with one item for each process of a selection, in order of pid.
Fits(items, S, l) ==
  /\ Len(items) \in Nat /\ DOMAIN items = 1..Len(items)
  /\ \A i \in DOMAIN items :
       /\ items[i] \in [pid : Nat, ports : {PortsIn(S, items[i].pid)}, protected : BOOLEAN]
       /\ items[i].protected <=> items[i].pid \in Guarded(l)
  /\ {items[i].pid : i \in DOMAIN items} = Pids(S)
  /\ \A i, j \in DOMAIN items : i < j => items[i].pid < items[j].pid

PlanFits == Fits(plan, selected, listed)

Inputs == args \in ArgSets /\ listed \in Listings

Selected ==
  /\ selected \subseteq entries /\ entries \subseteq listed
  /\ pc \in {"collect", "select", "menu"} => selected = {}

Drafted ==
  /\ plan # <<>> \/ pc \in {"confirm", "answer", "loop", "call"} => PlanFits
  /\ pc \in {"collect", "select", "menu", "plan"} => plan = <<>>

Items == [pid : {plan[i].pid : i \in DOMAIN plan}, ports : {plan[i].ports : i \in DOMAIN plan},
          outcome : Kernel!Outcomes]

\* A record is of the item at its place.
Recorded ==
  /\ records \in Seq(Items) /\ Len(records) <= Len(plan)
  /\ \A i \in DOMAIN records : records[i].pid = plan[i].pid /\ records[i].ports = plan[i].ports

Asking == pc = "answer" => Actionable /\ ~args.yes /\ ~args.dry_run

NotYet == pc \in Early => ~agreed

Calling ==
  /\ outcome \in Kernel!Outcomes \cup {Kernel!Pending, "Panicked"}
  /\ pc = "call" => Len(records) < Len(plan) /\ ~Item.protected

Told ==
  /\ "json" \in printed \/ "results" \in printed => pc = "exited"
  /\ "results" \in printed \/ ("json" \in printed /\ selected # {}) =>
       PlanFits /\ Len(records) = Len(plan)

Spared == log \in Seq([pid : Nat, sig : {"SIGTERM", "SIGKILL"}]) /\ ProtectedUntouched

PInv ==
  IInv /\ Inputs /\ Selected /\ Drafted /\ Recorded /\ Asking /\ NotYet /\ Calling /\ Told /\ Spared
-----------------------------------------------------------------------------
\* The processes chosen can be counted.
LEMMA FinitelyMany == ASSUME Inputs, Selected PROVE IsFiniteSet(Pids(selected))
<1>1. IsFiniteSet(selected)
  <2>1. IsFiniteSet(listed) /\ selected \in SUBSET listed
    BY CleanAssumption DEF Inputs, Selected
  <2> QED
    BY <2>1, FS_Subset
<1> DEFINE f == [e \in selected |-> e.pid]
<1>2. f \in Surjection(selected, Pids(selected))
  BY DEF Surjection, Pids
<1> QED
  BY <1>1, <1>2, FS_Surjection

\* merge_by_pid: what it returns fits the selection.
LEMMA MergeFits ==
  ASSUME Inputs, Selected, NEW items \in MergeByPid
  PROVE  Fits(items, selected, listed)
<1> DEFINE S == Pids(selected)
<1>1. PICK o \in Orders : items = [i \in DOMAIN o |-> PlanItem(o[i])]
  BY DEF MergeByPid
<1>2. Cardinality(S) \in Nat
  BY FinitelyMany, FS_CardinalityType
<1>3. /\ o \in [1..Cardinality(S) -> S]
      /\ \A i, j \in DOMAIN o : i < j => o[i] < o[j]
      /\ S = {o[i] : i \in DOMAIN o}
  BY DEF Orders
<1>4. S \subseteq Nat
  BY CleanAssumption DEF Inputs, Selected, Pids
<1>5. Len(items) \in Nat /\ DOMAIN items = 1..Len(items) /\ DOMAIN items = DOMAIN o
  BY <1>1, <1>2, <1>3
<1>6. \A p \in S : (\E e \in selected : e.pid = p /\ e.protected) <=> p \in Guarded(listed)
  BY CleanAssumption DEF Inputs, Selected, Pids, Guarded
<1>7. ASSUME NEW i \in DOMAIN items
      PROVE  /\ items[i].pid = o[i]
             /\ items[i] \in [pid : Nat, ports : {PortsIn(selected, o[i])}, protected : BOOLEAN]
             /\ items[i].protected <=> o[i] \in Guarded(listed)
  <2> DEFINE guarded == \E e \in selected : e.pid = o[i] /\ e.protected
  <2>1. o[i] \in S /\ o[i] \in Nat
    BY <1>3, <1>4, <1>5
  <2>2. guarded \in BOOLEAN
    OBVIOUS
  <2>3. guarded <=> o[i] \in Guarded(listed)
    BY <1>6, <2>1
  <2>4. items[i] = [pid |-> o[i], ports |-> PortsIn(selected, o[i]), protected |-> guarded]
    BY <1>1, <1>5 DEF PlanItem, PortsOf, PortsIn
  <2> HIDE DEF guarded
  <2>5. items[i].protected = guarded
    BY <2>4
  <2>6. items[i].protected <=> o[i] \in Guarded(listed)
    BY <2>3, <2>5, Zenon
  <2> QED
    BY <2>1, <2>2, <2>4, <2>6
<1> HIDE DEF S
<1>8. \A i \in DOMAIN items : items[i].pid = o[i]
  BY <1>7
<1>9. {items[i].pid : i \in DOMAIN items} = S
  BY <1>3, <1>5, <1>8
<1>10. \A i, j \in DOMAIN items : i < j => items[i].pid < items[j].pid
  <2> SUFFICES ASSUME NEW i \in DOMAIN items, NEW j \in DOMAIN items, i < j
               PROVE  items[i].pid < items[j].pid
    OBVIOUS
  <2>1. o[i] < o[j]
    BY <1>3, <1>5
  <2> QED
    BY <1>8, <2>1
<1>11. \A i \in DOMAIN items :
         /\ items[i] \in [pid : Nat, ports : {PortsIn(selected, items[i].pid)}, protected : BOOLEAN]
         /\ items[i].protected <=> items[i].pid \in Guarded(listed)
  BY <1>7, <1>8
<1> QED
  BY <1>5, <1>9, <1>10, <1>11 DEF Fits, S
-----------------------------------------------------------------------------
LEMMA Begins == EdevInit => PInv
BY InitLemma
DEF EdevInit, Init, PInv, Inputs, Selected, Drafted, Items, Recorded, Asking, NotYet, Calling,
    Told, Spared, ProtectedUntouched, Signalled, Early, Kernel!Pending

\* Steps that leave alone all that the invariant speaks of.
LEMMA SameStep ==
  ASSUME PInv, IInv',
         UNCHANGED <<args, listed, log, plan, records, outcome, pc, printed, entries, selected, agreed>>
  PROVE  PInv'
BY DEF PInv, Inputs, Selected, Drafted, PlanFits, Items, Recorded, Asking, NotYet, Calling,
       Told, Spared, ProtectedUntouched, Signalled, Actionable, Item

\* Steps of the selection, and of a scan.
LEMMA ChoiceStep ==
  ASSUME PInv, IInv', UNCHANGED <<args, listed, log, plan, records, outcome, agreed>>,
         pc \in {"collect", "select", "menu"}, pc' \in {"select", "menu", "plan", "exited"},
         selected' \subseteq entries', entries' \subseteq listed,
         pc' # "plan" => selected' = {},
         printed' \in {printed, printed \cup {"text"}, printed \cup {"menu"}, printed \cup {"json"}},
         "json" \in printed' => pc' = "exited"
  PROVE  PInv'
<1>1. Inputs' /\ Selected' /\ Drafted'
  BY DEF PInv, Inputs, Selected, Drafted, PlanFits
<1>2. Recorded' /\ Spared'
  BY DEF PInv, Items, Recorded, Spared, ProtectedUntouched, Signalled
<1>3. Asking' /\ NotYet' /\ Calling'
  BY DEF PInv, Asking, NotYet, Calling, Early
<1>4. Told'
  <2>1. "json" \notin printed /\ "results" \notin printed
    BY DEF PInv, Told
  <2>2. "results" \notin printed'
    BY <2>1
  <2>3. "json" \in printed' => pc' = "exited" /\ selected' = {}
    OBVIOUS
  <2> QED
    BY <2>2, <2>3 DEF Told
<1> QED
  BY <1>1, <1>2, <1>3, <1>4 DEF PInv

LEMMA SelectLemma ==
  ASSUME PInv, IInv',
         \/ Collect \/ NothingListed \/ SelectAll \/ RefuseMenu \/ ShowMenu \/ Choose
         \/ SelectNamed \/ RunScan
  PROVE  PInv'
<1> USE DEF input, world, choice, work, history, call, Goto, Exit, Fail, Write, WriteThen
<1>0. Selected /\ Told
  BY DEF PInv
<1>1. CASE Collect
  BY <1>0, <1>1, ChoiceStep DEF Collect, InScope, Collected, Selected, Told
<1>2. CASE NothingListed
  BY <1>0, <1>2, ChoiceStep DEF NothingListed, Selected, Told
<1>3. CASE SelectAll
  BY <1>0, <1>3, ChoiceStep DEF SelectAll, Selected, Told
<1>4. CASE RefuseMenu
  BY <1>0, <1>4, ChoiceStep DEF RefuseMenu, Selected, Told
<1>5. CASE ShowMenu
  BY <1>0, <1>5, ChoiceStep DEF ShowMenu, Selected, Told
<1>6. CASE Choose
  BY <1>0, <1>6, ChoiceStep DEF Choose, ChooseNothing, ChooseAll, ChooseNumbers, Selected, Told
<1>7. CASE SelectNamed
  BY <1>0, <1>7, ChoiceStep DEF SelectNamed, Selected, Told
<1>8. CASE RunScan
  BY <1>0, <1>8, ChoiceStep DEF RunScan, Selected, Told
<1> QED
  BY <1>1, <1>2, <1>3, <1>4, <1>5, <1>6, <1>7, <1>8

\* The plan fits the selection from the moment it is made.
LEMMA DraftLemma == ASSUME PInv, IInv', MakePlan PROVE PInv'
<1> USE DEF input, world, choice, history, call, Goto, Exit, Fail, Write, WriteThen
<1>1. Fits(plan', selected, listed)
  BY MergeFits DEF PInv, MakePlan
<1>2. /\ UNCHANGED <<args, listed, log, entries, selected, records, outcome, agreed>>
      /\ pc = "plan" /\ pc' \in {"confirm", "exited"}
      /\ printed' \in {printed, printed \cup {"plan"}}
  BY DEF MakePlan
<1>3. Inputs' /\ Selected' /\ PlanFits' /\ Drafted'
  BY <1>1, <1>2 DEF PInv, Inputs, Selected, Drafted, PlanFits
<1>4. records = <<>>
  BY <1>2 DEF PInv, IInv, NothingDone, Early
<1>5. Recorded'
  BY <1>1, <1>2, <1>4 DEF Recorded, Fits
<1>6. Asking' /\ NotYet' /\ Calling' /\ Spared'
  BY <1>2 DEF PInv, Asking, NotYet, Calling, Spared, ProtectedUntouched, Signalled, Early
<1>7. Told'
  BY <1>2 DEF PInv, Told
<1> QED
  BY <1>3, <1>5, <1>6, <1>7 DEF PInv

\* Steps of the confirmation and the end of a run in which nothing is chosen.
LEMMA AskStep ==
  ASSUME PInv, IInv',
         UNCHANGED <<args, listed, log, entries, selected, plan, records, outcome>>,
         pc \in {"plan", "confirm", "answer"}, pc' \in {"answer", "loop", "exited"},
         pc = "plan" => pc' = "exited",
         pc' # "loop" => UNCHANGED agreed,
         pc' = "answer" => Actionable /\ ~args.yes /\ ~args.dry_run,
         printed' \in {printed, printed \cup {"text"}, printed \cup {"prompt"}}
  PROVE  PInv'
<1>1. Inputs' /\ Selected' /\ Drafted'
  BY DEF PInv, Inputs, Selected, Drafted, PlanFits
<1>2. Recorded' /\ Spared'
  BY DEF PInv, Items, Recorded, Spared, ProtectedUntouched, Signalled
<1>3. Asking' /\ NotYet' /\ Calling' /\ Told'
  BY DEF PInv, Asking, Actionable, NotYet, Calling, Early, Told
<1> QED
  BY <1>1, <1>2, <1>3 DEF PInv

LEMMA AskLemma ==
  ASSUME PInv, IInv', NothingSelected \/ AllProtected \/ Confirm \/ Answer
  PROVE  PInv'
<1> USE DEF input, world, choice, work, history, call, Goto, Exit, Fail, Farewell, Write, WriteThen
<1>1. CASE NothingSelected
  BY <1>1, AskStep DEF NothingSelected
<1>2. CASE AllProtected
  BY <1>2, AskStep DEF AllProtected
<1>3. CASE Confirm
  BY <1>3, AskStep, CleanAssumption DEF Confirm, MayProceed, PInv, Inputs
<1>4. CASE Answer
  BY <1>4, AskStep DEF Answer
<1> QED
  BY <1>1, <1>2, <1>3, <1>4

LEMMA OutsideLemma == ASSUME PInv, IInv', Leave \/ Recycle \/ Break \/ Done PROVE PInv'
BY SameStep DEF Leave, Recycle, Break, Done, vars, input, world, choice, work, history, call
-----------------------------------------------------------------------------
(***************************************************************************)
(* The loop.                                                               *)
(***************************************************************************)
\* A record of the next item keeps the records in step with the plan.
LEMMA RecordLemma ==
  ASSUME Recorded, PlanFits, Len(records) < Len(plan), NEW o \in Kernel!Outcomes, Record(o),
         UNCHANGED plan
  PROVE  Recorded' /\ Len(records') = Len(records) + 1
<1>1. Len(records) + 1 \in DOMAIN plan
  BY DEF Recorded, PlanFits, Fits
<1> DEFINE r == [pid |-> Item.pid, ports |-> Item.ports, outcome |-> o]
<1>2. r \in Items
  BY <1>1 DEF Items, Item
<1>3. records' = Append(records, r) /\ records \in Seq(Items)
  BY DEF Record, Recorded
<1>4. Items' = Items
  BY DEF Items
<1>5. r.pid = Item.pid /\ r.ports = Item.ports
  OBVIOUS
<1> HIDE DEF r
<1>6. records' \in Seq(Items) /\ Len(records') = Len(records) + 1
  BY <1>2, <1>3
<1>7. \A i \in 1..Len(records) : records'[i] = records[i]
  BY <1>2, <1>3
<1>8. records'[Len(records) + 1] = r
  BY <1>2, <1>3
<1>9. ASSUME NEW i \in DOMAIN records'
      PROVE  records'[i].pid = plan[i].pid /\ records'[i].ports = plan[i].ports
  <2>1. CASE i \in 1..Len(records)
    BY <2>1, <1>3, <1>7 DEF Recorded
  <2>2. CASE i = Len(records) + 1
    BY <2>2, <1>5, <1>8 DEF Item
  <2> QED
    BY <1>3, <1>6, <2>1, <2>2
<1> QED
  BY <1>4, <1>6, <1>9 DEF Recorded, PlanFits, Fits

\* What a step of the loop leaves alone.
LEMMA LoopFrame ==
  ASSUME PInv, UNCHANGED <<args, listed, entries, selected, plan>>,
         pc \in {"loop", "call"}, pc' \in {"loop", "call", "exited"}
  PROVE  Inputs' /\ Selected' /\ Drafted' /\ PlanFits /\ PlanFits' /\ Asking' /\ NotYet'
BY DEF PInv, Inputs, Selected, Drafted, PlanFits, Asking, NotYet, Early

LEMMA PassLemma == ASSUME PInv, IInv', SkipProtected PROVE PInv'
<1>1. /\ UNCHANGED <<args, listed, log, entries, selected, plan, outcome, printed, exit>>
      /\ pc = "loop" /\ pc' = "loop" /\ Len(records) < Len(plan) /\ Record("Skipped")
  BY DEF SkipProtected, More, Goto, input, world, choice, history, call
<1>2. Recorded'
  BY <1>1, LoopFrame, RecordLemma DEF PInv, Kernel!Outcomes
<1>3. Calling' /\ Told' /\ Spared'
  BY <1>1 DEF PInv, Calling, Told, Spared, ProtectedUntouched, Signalled
<1> QED
  BY <1>1, <1>2, <1>3, LoopFrame DEF PInv

LEMMA TakeLemma == ASSUME PInv, IInv', Begin PROVE PInv'
<1>1. /\ UNCHANGED <<args, listed, log, entries, selected, plan, records, printed, exit>>
      /\ pc = "loop" /\ pc' = "call" /\ Len(records) < Len(plan) /\ ~Item.protected
      /\ outcome' = Kernel!Pending
  BY DEF Begin, More, Goto, input, world, choice, history
<1>2. Recorded' /\ Calling' /\ Told' /\ Spared'
  BY <1>1 DEF PInv, Recorded, Items, Calling, Item, Told, Spared, ProtectedUntouched, Signalled
<1> QED
  BY <1>1, <1>2, LoopFrame DEF PInv

\* Whoever is signalled is the item of the call, and not protected.
LEMMA HitLemma == ASSUME PInv, IInv', Signal PROVE PInv'
<1>1. /\ UNCHANGED <<args, listed, entries, selected, plan, records, outcome, printed, exit, pc>>
      /\ pc = "call"
  BY DEF Signal, Kernel!Deliver, input, world, choice
<1>2. PICK sig \in {"SIGTERM", "SIGKILL"} : log' = Append(log, [pid |-> Item.pid, sig |-> sig])
  BY DEF Signal
<1>3. Len(records) < Len(plan) /\ ~Item.protected
  BY <1>1 DEF PInv, Calling
<1>4. Len(records) + 1 \in DOMAIN plan
  BY <1>1, <1>3, LoopFrame DEF PInv, Recorded, PlanFits, Fits
<1>5. Item.pid \in Nat /\ Item.pid \notin Guarded(listed)
  BY <1>1, <1>3, <1>4, LoopFrame DEF PlanFits, Fits, Item
<1> DEFINE new == [pid |-> Item.pid, sig |-> sig]
<1>6. /\ log \in Seq([pid : Nat, sig : {"SIGTERM", "SIGKILL"}])
      /\ new \in [pid : Nat, sig : {"SIGTERM", "SIGKILL"}]
  BY <1>5 DEF PInv, Spared
<1>7. \A n \in DOMAIN log' : log'[n] = new \/ (n \in DOMAIN log /\ log'[n] = log[n])
  BY <1>2, <1>6
<1>8. \A n \in DOMAIN log : log[n].pid \notin Guarded(listed)
  BY DEF PInv, Spared, ProtectedUntouched, Signalled, Guarded
<1>9. new.pid = Item.pid
  OBVIOUS
<1>10. log' \in Seq([pid : Nat, sig : {"SIGTERM", "SIGKILL"}])
  BY <1>2, <1>6
<1> HIDE DEF new
<1>11. \A n \in DOMAIN log' : log'[n].pid \notin Guarded(listed)
  BY <1>5, <1>7, <1>8, <1>9
<1>12. Spared'
  BY <1>1, <1>10, <1>11 DEF Spared, ProtectedUntouched, Signalled, Guarded
<1>13. Recorded' /\ Calling' /\ Told'
  BY <1>1 DEF PInv, Recorded, Items, Calling, Item, Told
<1> QED
  BY <1>1, <1>12, <1>13, LoopFrame DEF PInv

LEMMA VerdictLemma == ASSUME PInv, IInv', Decide PROVE PInv'
<1>1. /\ UNCHANGED <<args, listed, log, entries, selected, plan, records, printed, exit, pc>>
      /\ pc = "call" /\ outcome' \in Kernel!Outcomes \cup {"Panicked"}
  BY DEF Decide, Kernel!Decide, input, world, choice, history
<1>2. Recorded' /\ Calling' /\ Told' /\ Spared'
  BY <1>1 DEF PInv, Recorded, Items, Calling, Item, Told, Spared, ProtectedUntouched, Signalled
<1> QED
  BY <1>1, <1>2, LoopFrame DEF PInv

LEMMA BackLemma == ASSUME PInv, IInv', Return PROVE PInv'
<1>1. /\ UNCHANGED <<args, listed, log, entries, selected, plan, outcome, printed>>
      /\ pc = "call" /\ pc' \in {"loop", "exited"}
      /\ outcome # Kernel!Pending
  BY DEF Return, Goto, Crash, Exit, input, world, choice, history, call
<1>2. Recorded'
  <2>1. CASE outcome = "Panicked"
    BY <1>1, <2>1 DEF Return, PInv, Recorded, Items
  <2>2. CASE outcome # "Panicked"
    <3>1. outcome \in Kernel!Outcomes /\ Record(outcome)
      BY <1>1, <2>2 DEF PInv, Calling, Return
    <3>2. Len(records) < Len(plan) /\ PlanFits /\ Recorded
      BY <1>1, LoopFrame DEF PInv, Calling
    <3> QED
      BY <1>1, <3>1, <3>2, RecordLemma
  <2> QED
    BY <2>1, <2>2
<1>3. Calling' /\ Told' /\ Spared'
  BY <1>1 DEF PInv, Calling, Told, Spared, ProtectedUntouched, Signalled
<1> QED
  BY <1>1, <1>2, <1>3, LoopFrame DEF PInv

LEMMA EndLemma == ASSUME PInv, IInv', Report PROVE PInv'
<1>1. /\ UNCHANGED <<args, listed, log, entries, selected, plan, records, outcome>>
      /\ pc = "loop" /\ pc' = "exited" /\ Len(records) = Len(plan)
  BY DEF Report, Exit, Fail, input, world, choice, work, history, call
<1>2. Recorded' /\ Calling' /\ Spared'
  BY <1>1 DEF PInv, Recorded, Items, Calling, Spared, ProtectedUntouched, Signalled
<1>3. Told'
  BY <1>1, LoopFrame DEF Told
<1> QED
  BY <1>1, <1>2, <1>3, LoopFrame DEF PInv

LEMMA Steps == ASSUME PInv, [EdevNext]_<<vars, view>> PROVE PInv'
<1>1. IInv'
  BY StepLemma DEF PInv
<1>2. CASE ScanCommand
  BY <1>1, <1>2, SelectLemma, OutsideLemma DEF ScanCommand
<1>3. CASE CleanCommand
  BY <1>1, <1>3, SelectLemma, DraftLemma, AskLemma, OutsideLemma, PassLemma, TakeLemma, HitLemma,
     VerdictLemma, BackLemma, EndLemma
  DEF CleanCommand, Next, User, Program
<1>4. CASE UNCHANGED <<vars, view>>
  BY <1>1, <1>4, SameStep DEF vars, input, world, choice, work, history, call
<1> QED
  BY <1>2, <1>3, <1>4 DEF EdevNext

LEMMA Always == EdevSpec => []PInv
<1>1. PInv /\ [EdevNext]_<<vars, view>> => PInv'
  BY Steps
<1> QED
  BY <1>1, Begins, PTL DEF EdevSpec

(***************************************************************************)
(* README.md:50-51: what the scan found protected is not signalled.        *)
(***************************************************************************)
THEOREM ProtectedNeverSignalled == EdevSpec => []ProtectedUntouched
BY Always, PTL DEF PInv, Spared

\* What is told of is what was chosen, each process once and in order.
LEMMA Complete == ASSUME PInv PROVE ReportComplete
<1> SUFFICES ASSUME Reported
             PROVE  /\ {<<records[i].pid, records[i].ports>> : i \in DOMAIN records}
                         = {<<p, PortsOf(p)>> : p \in Pids(selected)}
                    /\ \A i, j \in DOMAIN records : i < j => records[i].pid < records[j].pid
  BY DEF ReportComplete
<1>1. PlanFits /\ Len(records) = Len(plan) /\ Recorded
  BY DEF PInv, Reported, Told
<1>2. DOMAIN records = DOMAIN plan
  BY <1>1 DEF Recorded, PlanFits, Fits
<1>3. \A i \in DOMAIN plan :
        /\ records[i].pid = plan[i].pid /\ records[i].ports = plan[i].ports
        /\ plan[i].ports = PortsIn(selected, plan[i].pid)
  BY <1>1, <1>2 DEF Recorded, PlanFits, Fits
<1>4. \A p : PortsIn(selected, p) = PortsOf(p)
  BY DEF PortsIn, PortsOf
<1>5. \A i \in DOMAIN plan : <<records[i].pid, records[i].ports>> = <<plan[i].pid, PortsOf(plan[i].pid)>>
  BY <1>3, <1>4
<1>6. {plan[i].pid : i \in DOMAIN plan} = Pids(selected)
  BY <1>1 DEF PlanFits, Fits
<1>7. {<<records[i].pid, records[i].ports>> : i \in DOMAIN records}
        = {<<p, PortsOf(p)>> : p \in Pids(selected)}
  BY <1>2, <1>5, <1>6
<1>8. \A i, j \in DOMAIN records : i < j => records[i].pid < records[j].pid
  BY <1>1, <1>2, <1>3 DEF PlanFits, Fits
<1> QED
  BY <1>7, <1>8

(***************************************************************************)
(* The report has one record for each process chosen, in order of pid,     *)
(* with every port it was chosen by.                                       *)
(***************************************************************************)
THEOREM EveryReportComplete == EdevSpec => []ReportComplete
BY Always, Complete, PTL
-----------------------------------------------------------------------------
(***************************************************************************)
(* Types: what the invariant does not say of the rest of the state.        *)
(***************************************************************************)
Rest ==
  /\ occ \in [Pids(listed) -> {"listed", "gone", "other"}]
  /\ printed \subseteq {"json", "text", "menu", "plan", "prompt", "results"}
  /\ broken \in BOOLEAN /\ agreed \in BOOLEAN /\ exit \in {Running, 0, 1, 2} \cup Crashes

LEMMA RestStep ==
  ASSUME Rest, UNCHANGED <<listed, occ, broken>>, agreed' \in BOOLEAN,
         \E k \in {"json", "text", "menu", "plan", "prompt", "results"} :
           printed' \in {printed, printed \cup {k}},
         exit' \in {exit, 0, 1, 2} \cup Crashes
  PROVE  Rest'
BY DEF Rest, Pids

LEMMA RestPreserved == ASSUME Rest, [EdevNext]_<<vars, view>> PROVE Rest'
<1> USE DEF input, world, choice, work, history, call, Goto, Exit, Fail, Farewell, Write, WriteThen
<1>0. agreed \in BOOLEAN
  BY DEF Rest
<1>1. CASE Collect \/ NothingListed \/ SelectAll \/ RefuseMenu \/ ShowMenu \/ SelectNamed
  BY <1>0, <1>1, RestStep
  DEF Collect, NothingListed, SelectAll, RefuseMenu, ShowMenu, SelectNamed
<1>2. CASE Choose \/ NothingSelected \/ MakePlan \/ AllProtected \/ Confirm \/ Answer
  BY <1>0, <1>2, RestStep
  DEF Choose, ChooseNothing, ChooseAll, ChooseNumbers, NothingSelected, MakePlan, AllProtected,
      Confirm, Answer
<1>3. CASE SkipProtected \/ Begin \/ Signal \/ Decide \/ Return
  BY <1>0, <1>3, RestStep
  DEF SkipProtected, Begin, Signal, Kernel!Deliver, Decide, Kernel!Decide, Return, Crash
<1>4. CASE Report \/ RunScan
  BY <1>0, <1>4, RestStep DEF Report, RunScan
<1>5. CASE Leave
  BY <1>5 DEF Leave, Rest, Pids
<1>6. CASE Recycle
  BY <1>6 DEF Recycle, Rest, Pids
<1>7. CASE Break
  BY <1>7 DEF Break, Rest, Pids
<1>8. CASE Done \/ UNCHANGED <<vars, view>>
  BY <1>0, <1>8, RestStep DEF Done, vars
<1> QED
  BY <1>1, <1>2, <1>3, <1>4, <1>5, <1>6, <1>7, <1>8
  DEF EdevNext, ScanCommand, CleanCommand, Next, User, Program

LEMMA WellTyped == ASSUME PInv, Rest PROVE TypeOK
<1>1. ASSUME PlanFits, NEW i \in DOMAIN plan
      PROVE  plan[i] \in [pid : Pids(selected), ports : {PortsOf(plan[i].pid)}, protected : BOOLEAN]
  <2>1. plan[i].pid \in Pids(selected)
    BY <1>1 DEF PlanFits, Fits
  <2>2. plan[i] \in [pid : Nat, ports : {PortsIn(selected, plan[i].pid)}, protected : BOOLEAN]
    BY <1>1 DEF PlanFits, Fits
  <2>3. PortsIn(selected, plan[i].pid) = PortsOf(plan[i].pid)
    BY DEF PortsIn, PortsOf
  <2> QED
    BY <2>1, <2>2, <2>3
<1>2. \A i \in DOMAIN plan :
        plan[i] \in [pid : Pids(selected), ports : {PortsOf(plan[i].pid)}, protected : BOOLEAN]
  BY <1>1 DEF PInv, Drafted
<1>3. ASSUME NEW i \in DOMAIN records
      PROVE  records[i] \in [pid : Pids(selected), ports : {PortsOf(records[i].pid)},
                             outcome : Kernel!Outcomes]
  <2>1. records[i] \in Items /\ records[i].pid = plan[i].pid /\ records[i].ports = plan[i].ports
    BY DEF PInv, Recorded
  <2>2. plan # <<>> /\ i \in DOMAIN plan
    <3>1. Len(records) \in Nat /\ i \in 1..Len(records) /\ Len(records) <= Len(plan)
      BY DEF PInv, Recorded
    <3>2. plan # <<>>
      <4>1. Len(<<>>) = 0
        OBVIOUS
      <4> QED
        BY <3>1, <4>1
    <3> QED
      BY <3>1, <3>2 DEF PInv, Drafted, PlanFits, Fits
  <2>3. plan[i].pid \in Pids(selected) /\ plan[i].ports = PortsOf(plan[i].pid)
    BY <1>2, <2>2
  <2> QED
    BY <2>1, <2>3 DEF Items
<1> QED
  BY <1>2, <1>3, Zenon DEF TypeOK, PInv, IInv, Stages, Early, Inputs, Selected, Calling, Rest

(***************************************************************************)
(* Types; a plan item and a record have just the ports their process was   *)
(* chosen by.                                                              *)
(***************************************************************************)
THEOREM TypesPreserved == EdevSpec => []TypeOK
<1>1. EdevInit => Rest
  BY DEF EdevInit, Init, Rest
<1>2. Rest /\ [EdevNext]_<<vars, view>> => Rest'
  BY RestPreserved
<1>3. PInv /\ Rest => TypeOK
  BY WellTyped
<1> QED
  BY <1>1, <1>2, <1>3, Always, PTL DEF EdevSpec
-----------------------------------------------------------------------------
(***************************************************************************)
(* Janitor: each step of clean is one of its steps, or none.               *)
(***************************************************************************)
PromiseStep == [Promise!Next]_(Promise!jvars)

LEMMA StartsAsPromised == EdevInit => Promise!Init
<1> SUFFICES ASSUME EdevInit PROVE Promise!Init
  OBVIOUS
<1>1. {e.pid : e \in {x \in listed : x.protected}} \subseteq UNION {Pids(l) : l \in Listings}
  BY DEF EdevInit, Init, Pids
<1>2. args.yes \in BOOLEAN /\ args.dry_run \in BOOLEAN /\ agreed = FALSE
  BY CleanAssumption DEF EdevInit, Init
<1> QED
  BY <1>1, <1>2 DEF EdevInit, Init, Promise!Init, Pids, Running

LEMMA StutterAsPromised ==
  ASSUME UNCHANGED <<args, listed, agreed, selected, records, exit>>,
         (pc # "call" /\ pc' # "call") \/ UNCHANGED <<pc, plan, sent>>
  PROVE  PromiseStep
BY DEF PromiseStep, Promise!jvars, Promise!terms, Item, Pids

\* Nobody has been dealt with, or everybody has.
LEMMA EndAsPromised ==
  ASSUME UNCHANGED <<args, listed, agreed, selected, records>>,
         exit = Running, exit' # Running, pc # "call", pc' # "call",
         records = <<>> \/ {records[i].pid : i \in DOMAIN records} = Pids(selected)
  PROVE  PromiseStep
<1>1. CASE records = <<>>
  <2>1. {records[i].pid : i \in DOMAIN records} = {}
    BY <1>1
  <2> QED
    BY <2>1 DEF PromiseStep, Promise!Next, Promise!Deal, Promise!End, Promise!terms, Pids
<1>2. CASE {records[i].pid : i \in DOMAIN records} = Pids(selected)
  BY <1>2 DEF PromiseStep, Promise!Next, Promise!Deal, Promise!End, Promise!terms, Pids
<1> QED
  BY <1>1, <1>2

LEMMA ChooseAsPromised ==
  ASSUME PInv, PInv', UNCHANGED <<args, listed, agreed, records, exit>>,
         pc \in {"select", "menu"}, pc' = "plan"
  PROVE  PromiseStep
<1>1. Pids(selected') \subseteq UNION {Pids(l) : l \in Listings}
  BY DEF PInv, Inputs, Selected, Pids
<1>2. Pids(selected) = {} /\ exit = Running
  BY DEF PInv, Selected, Pids, IInv, Stages
<1>3. Promise!Choose(Pids(selected'))
  BY <1>2 DEF Promise!Choose, Promise!terms, Pids
<1> QED
  BY <1>1, <1>3 DEF PromiseStep, Promise!Next

LEMMA AgreeAsPromised ==
  ASSUME PInv, UNCHANGED <<args, listed, records, selected, exit>>, Actionable,
         pc = "answer", pc' = "loop", agreed' = TRUE
  PROVE  PromiseStep
<1>1. exit = Running /\ ~(args.yes \/ args.dry_run \/ agreed)
  BY DEF PInv, IInv, Stages, Asking, NotYet, Early
<1>2. PICK i \in DOMAIN plan : ~plan[i].protected
  BY DEF Actionable
<1>3. plan[i].pid \in Pids(selected) \ Guarded(listed)
  BY <1>2 DEF PInv, Drafted, PlanFits, Fits
<1> QED
  BY <1>1, <1>3 DEF PromiseStep, Promise!Next, Promise!Agree, Promise!terms, Pids, Guarded

Dealt == {records[i].pid : i \in DOMAIN records}

\* The next item is the first of those that wait.
LEMMA NextItem ==
  ASSUME PInv, pc \in {"loop", "call"}, Len(records) < Len(plan)
  PROVE  /\ Item.pid \in UNION {Pids(l) : l \in Listings} /\ Item.pid \in Nat
         /\ Item.pid \in Pids(selected) \ Dealt
         /\ \A q \in Pids(selected) \ Dealt : Item.pid <= q
         /\ Item.protected <=> Item.pid \in Guarded(listed)
<1>1. PlanFits /\ Recorded /\ Inputs /\ Selected
  BY DEF PInv, Drafted
<1>2. Len(records) + 1 \in DOMAIN plan /\ Len(records) \in Nat /\ DOMAIN records = 1..Len(records)
  BY <1>1 DEF PlanFits, Fits, Recorded
<1>3. Item.pid \in Nat /\ Item.pid \in Pids(selected) /\ (Item.protected <=> Item.pid \in Guarded(listed))
  BY <1>1, <1>2 DEF PlanFits, Fits, Item
<1>4. \A i \in DOMAIN records : i \in DOMAIN plan /\ records[i].pid = plan[i].pid
  BY <1>1, <1>2 DEF PlanFits, Fits, Recorded
<1>5. Item.pid \notin Dealt
  BY <1>1, <1>2, <1>4 DEF PlanFits, Fits, Item, Dealt
<1>6. ASSUME NEW q \in Pids(selected) \ Dealt PROVE Item.pid <= q
  <2>1. PICK j \in DOMAIN plan : q = plan[j].pid
    BY <1>1, <1>6 DEF PlanFits, Fits
  <2>2. j \notin DOMAIN records
    BY <1>4, <1>6, <2>1 DEF Dealt
  <2>3. j = Len(records) + 1 \/ Len(records) + 1 < j
    BY <1>1, <1>2, <2>1, <2>2 DEF PlanFits, Fits
  <2> QED
    BY <1>1, <1>2, <2>1, <2>3 DEF PlanFits, Fits, Item
<1>7. Item.pid \in UNION {Pids(l) : l \in Listings}
  BY <1>1, <1>3 DEF Inputs, Selected, Pids
<1> QED
  BY <1>3, <1>5, <1>6, <1>7

\* A record adds one process to those dealt with.
LEMMA OneMoreDealt ==
  ASSUME PInv, NEW o, Record(o)
  PROVE  Dealt' = Dealt \cup {Item.pid}
<1> DEFINE r == [pid |-> Item.pid, ports |-> Item.ports, outcome |-> o]
<1>1. records \in Seq(Items) /\ records' = Append(records, r) /\ r.pid = Item.pid
  BY DEF PInv, Recorded, Record
<1> HIDE DEF r
<1>2. /\ DOMAIN records' = DOMAIN records \cup {Len(records) + 1}
      /\ \A i \in DOMAIN records : records'[i] = records[i]
      /\ records'[Len(records) + 1] = r
  BY <1>1
<1> QED
  BY <1>1, <1>2 DEF Dealt

LEMMA PassAsPromised == ASSUME PInv, SkipProtected PROVE PromiseStep
<1>1. /\ UNCHANGED <<args, listed, selected, agreed, exit>>
      /\ pc = "loop" /\ pc' = "loop" /\ Len(records) < Len(plan) /\ Record("Skipped")
      /\ Item.protected
  BY DEF SkipProtected, More, Goto, input, world, choice, history
<1>2. exit = Running /\ (args.yes \/ args.dry_run \/ agreed)
  BY <1>1 DEF PInv, IInv, Stages, Leaved
<1>3. PICK p : p = Item.pid
  OBVIOUS
<1>4. p \in UNION {Pids(l) : l \in Listings}
  BY <1>1, <1>3, NextItem
<1>5. Promise!PassOver(p)
  BY <1>1, <1>2, <1>3, NextItem, OneMoreDealt
  DEF Promise!PassOver, Promise!Turn, Promise!Waiting, Promise!terms, Dealt, Guarded, Pids
<1> QED
  BY <1>4, <1>5 DEF PromiseStep, Promise!Next, Promise!Deal

LEMMA TakeAsPromised == ASSUME PInv, Begin PROVE PromiseStep
<1>1. /\ UNCHANGED <<args, listed, selected, plan, records, agreed, exit>>
      /\ pc = "loop" /\ pc' = "call" /\ Len(records) < Len(plan) /\ ~Item.protected /\ sent' = <<>>
  BY DEF Begin, More, Goto, input, world, choice, history
<1>2. exit = Running /\ (args.yes \/ args.dry_run \/ agreed)
  BY <1>1 DEF PInv, IInv, Stages, Leaved
<1>3. Item' = Item
  BY <1>1 DEF Item
<1>4. PICK p : p = Item.pid
  OBVIOUS
<1>5. p \in UNION {Pids(l) : l \in Listings}
  BY <1>1, <1>4, NextItem
<1>6. Promise!Take(p)
  BY <1>1, <1>2, <1>3, <1>4, NextItem
  DEF Promise!Take, Promise!Turn, Promise!Waiting, Promise!terms, Dealt, Guarded, Pids
<1> QED
  BY <1>5, <1>6 DEF PromiseStep, Promise!Next, Promise!Deal

\* The contract of terminate: no ladder has more than two signals.
LEMMA HitAsPromised == ASSUME PInv, Signal PROVE PromiseStep
<1>1. /\ UNCHANGED <<args, listed, selected, plan, records, agreed, exit, pc>>
      /\ pc = "call"
  BY DEF Signal, input, world, choice
<1>2. PICK sig : Kernel!Deliver(sig)
  BY DEF Signal
<1>3. sent' = Append(sent, sig) /\ sent' \in Kernel!Ladder(opts) /\ sent \in Seq({"SIGTERM", "SIGKILL"})
  BY <1>2 DEF Kernel!Deliver, PInv, IInv, CallOptions
<1>4. Len(sent') = Len(sent) + 1 /\ Len(sent) \in Nat
  BY <1>3
<1>5. Len(sent') <= 2 /\ ~opts.dry_run
  BY <1>3, <1>4 DEF Kernel!Ladder
<1>6. exit = Running /\ opts.dry_run = args.dry_run
  BY <1>1 DEF PInv, IInv, Stages, CallOptions, Early
<1>7. Item.pid # -1 /\ Item' = Item
  BY <1>1, NextItem DEF PInv, Calling, Item
<1>8. Len(sent) < 2 /\ ~args.dry_run
  BY <1>4, <1>5, <1>6
<1>9. Promise!Hit
  BY <1>1, <1>4, <1>6, <1>7, <1>8 DEF Promise!Hit, Promise!terms, Pids
<1> QED
  BY <1>9 DEF PromiseStep, Promise!Next

LEMMA ReturnAsPromised == ASSUME PInv, Return PROVE PromiseStep
<1>1. /\ UNCHANGED <<args, listed, selected, plan, agreed>>
      /\ pc = "call" /\ pc' # "call"
  BY DEF Return, Goto, Crash, Exit, input, world, choice, history
<1>2. exit = Running /\ Item.pid # -1
  BY <1>1, NextItem DEF PInv, IInv, Stages, Calling, Early
<1>3. CASE outcome = "Panicked"
  <2>1. exit' \in Crashes /\ UNCHANGED records
    BY <1>3 DEF Return, Crash, Exit
  <2> QED
    BY <1>1, <1>2, <2>1
    DEF PromiseStep, Promise!Next, Promise!Deal, Promise!End, Promise!terms, Pids, Running, Crashes
<1>4. CASE outcome # "Panicked"
  <2>1. Record(outcome) /\ exit' = exit
    BY <1>4 DEF Return, Goto
  <2>2. Dealt' = Dealt \cup {Item.pid}
    BY <2>1, OneMoreDealt
  <2> QED
    BY <1>1, <1>2, <2>1, <2>2
    DEF PromiseStep, Promise!Next, Promise!Deal, Promise!Finish, Promise!terms, Dealt, Pids
<1> QED
  BY <1>3, <1>4

LEMMA ReportAsPromised == ASSUME PInv, Report PROVE PromiseStep
<1>1. /\ UNCHANGED <<args, listed, selected, plan, records, agreed>>
      /\ pc = "loop" /\ pc' = "exited" /\ Len(records) = Len(plan) /\ exit' \in {0, 1, 2}
  BY DEF Report, Exit, Fail, input, world, choice, work, history
<1>2. exit = Running
  BY <1>1 DEF PInv, IInv, Stages
<1>3. PlanFits /\ Recorded
  BY <1>1 DEF PInv, Drafted
<1>4. DOMAIN records = DOMAIN plan /\ \A i \in DOMAIN records : records[i].pid = plan[i].pid
  BY <1>1, <1>3 DEF PlanFits, Fits, Recorded
<1>5. {records[i].pid : i \in DOMAIN records} = Pids(selected)
  BY <1>3, <1>4 DEF PlanFits, Fits
<1> QED
  BY <1>1, <1>2, <1>5, EndAsPromised DEF Running

\* The steps before the loop: they choose, they end the run, or say nothing.
LEMMA EarlyAsPromised ==
  ASSUME PInv, PInv',
         \/ Collect \/ NothingListed \/ SelectAll \/ RefuseMenu \/ ShowMenu \/ Choose
         \/ SelectNamed \/ NothingSelected \/ MakePlan \/ AllProtected \/ Confirm \/ Answer \/ RunScan
  PROVE  PromiseStep
<1> USE DEF input, world, choice, work, history, call, Goto, Exit, Fail, Farewell, Write, WriteThen
<1>0. pc \in Early => records = <<>> /\ exit = Running
  BY DEF PInv, IInv, NothingDone, Stages, Early
<1>1. CASE Collect
  BY <1>0, <1>1, StutterAsPromised, EndAsPromised DEF Collect, Early, Running
<1>2. CASE NothingListed
  BY <1>0, <1>2, EndAsPromised DEF NothingListed, Early, Running
<1>3. CASE SelectAll
  BY <1>3, ChooseAsPromised DEF SelectAll
<1>4. CASE RefuseMenu
  BY <1>0, <1>4, EndAsPromised DEF RefuseMenu, Early, Running
<1>5. CASE ShowMenu
  BY <1>0, <1>5, StutterAsPromised, EndAsPromised DEF ShowMenu, Early, Running
<1>6. CASE Choose
  BY <1>0, <1>6, ChooseAsPromised, EndAsPromised
  DEF Choose, ChooseNothing, ChooseAll, ChooseNumbers, Early, Running
<1>7. CASE SelectNamed
  BY <1>0, <1>7, ChooseAsPromised, EndAsPromised DEF SelectNamed, Early, Running
<1>8. CASE NothingSelected
  BY <1>0, <1>8, EndAsPromised DEF NothingSelected, Early, Running
<1>9. CASE MakePlan
  BY <1>0, <1>9, StutterAsPromised, EndAsPromised DEF MakePlan, Early, Running
<1>10. CASE AllProtected
  BY <1>0, <1>10, EndAsPromised DEF AllProtected, Early, Running
<1>11. CASE Confirm
  BY <1>0, <1>11, StutterAsPromised, EndAsPromised DEF Confirm, Early, Running
<1>12. CASE Answer
  <2>1. /\ UNCHANGED <<args, listed, selected, records>> /\ pc = "answer"
        /\ \/ agreed' = TRUE /\ pc' = "loop" /\ UNCHANGED exit
           \/ UNCHANGED agreed /\ pc' = "exited" /\ exit' \in {0, 2}
    BY <1>12 DEF Answer
  <2>2. CASE agreed' = TRUE /\ pc' = "loop" /\ UNCHANGED exit
    BY <2>1, <2>2, AgreeAsPromised DEF PInv, Asking
  <2>3. CASE UNCHANGED agreed /\ pc' = "exited" /\ exit' \in {0, 2}
    BY <1>0, <2>1, <2>3, EndAsPromised DEF Early, Running
  <2> QED
    BY <2>1, <2>2, <2>3
<1>13. CASE RunScan
  BY <1>0, <1>13, EndAsPromised DEF RunScan, Early, Running
<1> QED
  BY <1>1, <1>2, <1>3, <1>4, <1>5, <1>6, <1>7, <1>8, <1>9, <1>10, <1>11, <1>12, <1>13

\* What happens to the processes and to stdout, and the verdict of a call.
LEMMA OthersAsPromised ==
  ASSUME PInv, Leave \/ Recycle \/ Break \/ Done \/ Decide
  PROVE  PromiseStep
BY StutterAsPromised DEF Leave, Recycle, Break, Done, vars, Decide, Kernel!Decide, input, world, choice,
   work, history, call

LEMMA EveryStepAsPromised ==
  ASSUME PInv, PInv', [EdevNext]_<<vars, view>>
  PROVE  PromiseStep
<1>1. CASE ScanCommand
  BY <1>1, EarlyAsPromised, OthersAsPromised DEF ScanCommand
<1>2. CASE CleanCommand
  BY <1>2, EarlyAsPromised, OthersAsPromised, PassAsPromised, TakeAsPromised, HitAsPromised,
     ReturnAsPromised, ReportAsPromised
  DEF CleanCommand, Next, User, Program
<1>3. CASE UNCHANGED <<vars, view>>
  BY <1>3, StutterAsPromised DEF vars, input, world, choice, work, history, call
<1> QED
  BY <1>1, <1>2, <1>3 DEF EdevNext

(***************************************************************************)
(* Whatever the listings, the options, the answers and the outcomes of the *)
(* calls: a run of edev is one that Janitor allows, liveness apart.        *)
(***************************************************************************)
THEOREM EdevKeepsPromise == EdevSpec => Promise!Safety
<1>1. PInv /\ PInv' /\ [EdevNext]_<<vars, view>> => [Promise!Next]_(Promise!jvars)
  BY EveryStepAsPromised DEF PromiseStep
<1> QED
  BY <1>1, StartsAsPromised, Always, PTL DEF EdevSpec, Promise!Safety
-----------------------------------------------------------------------------
(***************************************************************************)
(* What is signalled was chosen, what is chosen was listed and asked for.  *)
(***************************************************************************)
Understood == \A t \in Targets : t.type # "error"

Chosen ==
  /\ entries # {} => PortSpec.ok /\ entries = InScope
  /\ pc = "collect" => entries = {}
  /\ pc = "menu" => ~args.all /\ args.targets = {}
  /\ selected # {} /\ ~args.all /\ args.targets # {} =>
       Understood /\ \A e \in selected : Named(e)
  /\ \A n \in DOMAIN log : log[n].pid \in Pids(selected)

MenuRead == (pc \in {"collect", "select", "menu"} => line = <<>>) /\ MenuHonoured

\* A place in the menu is a number from 1 to the number of entries.
LEMMA MenuPlaces ==
  ASSUME Inputs, Selected
  PROVE  /\ Cardinality(entries) \in Nat
         /\ \A e \in entries : Number(e) \in 1..Cardinality(entries)
<1>1. listed \in Listings /\ entries \in SUBSET listed
  BY DEF Inputs, Selected
<1>2. IsFiniteSet(entries)
  BY <1>1, CleanAssumption, FS_Subset
<1>3. Cardinality(entries) \in Nat
  BY <1>2, FS_CardinalityType
<1>4. ASSUME NEW e \in entries PROVE Number(e) \in 1..Cardinality(entries)
  <2> DEFINE before == {x \in entries : x.port < e.port \/ (x.port = e.port /\ x.pid <= e.pid)}
  <2>1. e.port \in Int /\ e.pid \in Int
    BY <1>1, CleanAssumption
  <2>2. before \in SUBSET entries /\ e \in before
    BY <2>1
  <2>3. Number(e) = Cardinality(before)
    BY DEF Number
  <2> HIDE DEF before
  <2>4. IsFiniteSet(before) /\ Cardinality(before) <= Cardinality(entries)
    BY <1>2, <2>2, FS_Subset
  <2>5. Cardinality(before) \in Nat
    BY <2>4, FS_CardinalityType
  <2>6. Cardinality(before) # 0
    BY <2>2, <2>4, FS_EmptySet
  <2> QED
    BY <1>3, <2>3, <2>4, <2>5, <2>6
<1> QED
  BY <1>3, <1>4

\* Steps after the selection; those of a call add to the log the process it is for.
LEMMA KeptStep ==
  ASSUME Chosen, UNCHANGED <<args, listed, entries, selected>>, pc \notin {"collect", "menu"},
         pc' \notin {"collect", "menu"},
         \A n \in DOMAIN log' : (n \in DOMAIN log /\ log'[n] = log[n]) \/ log'[n].pid \in Pids(selected)
  PROVE  Chosen'
BY DEF Chosen, PortSpec, InScope, Narrow, CleanScope, Collected, Targets, Named, Understood, Pids

LEMMA UntouchedStep ==
  ASSUME Chosen, UNCHANGED <<args, listed, entries, selected, log>>,
         pc' = pc \/ pc' \notin {"collect", "menu"} \/ (pc' = "menu" /\ ~args.all /\ args.targets = {})
  PROVE  Chosen'
BY DEF Chosen, PortSpec, InScope, Narrow, CleanScope, Collected, Targets, Named, Understood, Pids

LEMMA ChosenPreserved == ASSUME PInv, Chosen, [EdevNext]_<<vars, view>> PROVE Chosen'
<1> USE DEF input, world, choice, work, history, call, Goto, Exit, Fail, Farewell, Write, WriteThen
<1>0. /\ pc \in {"collect", "select", "menu"} => selected = {} /\ log = <<>>
      /\ selected \subseteq entries
  BY DEF PInv, Selected, IInv, NothingDone, Early
<1>1. CASE Collect
  <2>1. /\ pc' \in {"select", "exited"} /\ UNCHANGED <<args, listed, selected, log>> /\ pc = "collect"
        /\ entries' = IF PortSpec.ok THEN InScope ELSE entries
    BY <1>1 DEF Collect
  <2>2. PortSpec' = PortSpec /\ InScope' = InScope
    BY <2>1 DEF PortSpec, InScope, Narrow, CleanScope, Collected
  <2> QED
    BY <1>0, <2>1, <2>2 DEF Chosen, Pids
<1>2. CASE NothingListed \/ RefuseMenu \/ RunScan
  BY <1>2, UntouchedStep DEF NothingListed, RefuseMenu, RunScan
<1>3. CASE ShowMenu
  BY <1>3, UntouchedStep DEF ShowMenu
<1>4. CASE SelectAll \/ Choose \/ SelectNamed
  <2>1. /\ UNCHANGED <<args, listed, entries, log>> /\ log = <<>>
        /\ pc \in {"select", "menu"} /\ pc' \in {"plan", "exited"}
    BY <1>0, <1>4 DEF SelectAll, Choose, ChooseNothing, ChooseAll, ChooseNumbers, SelectNamed
  <2>2. args.all \/ args.targets = {} \/ selected' = {}
          \/ (Understood /\ selected' = {e \in entries : Named(e)})
    <3>1. CASE SelectAll
      BY <3>1 DEF SelectAll
    <3>2. CASE Choose
      BY <3>2 DEF Choose, Chosen
    <3>3. CASE SelectNamed
      BY <1>0, <3>3 DEF SelectNamed, Understood
    <3> QED
      BY <1>4, <3>1, <3>2, <3>3
  <2>3. /\ PortSpec' = PortSpec /\ InScope' = InScope /\ Understood' = Understood
        /\ \A e : Named(e)' <=> Named(e)
    BY <2>1 DEF PortSpec, InScope, Narrow, CleanScope, Collected, Targets, Named, Understood
  <2> QED
    BY <2>1, <2>2, <2>3 DEF Chosen
<1>5. CASE NothingSelected \/ MakePlan \/ AllProtected \/ Confirm \/ Answer
  BY <1>5, UntouchedStep DEF NothingSelected, MakePlan, AllProtected, Confirm, Answer
<1>6. CASE SkipProtected \/ Begin \/ Decide \/ Return \/ Report
  BY <1>6, UntouchedStep DEF SkipProtected, Begin, Decide, Kernel!Decide, Return, Crash, Report
<1>7. CASE Signal
  <2>1. /\ UNCHANGED <<args, listed, entries, selected, pc>> /\ pc = "call"
    BY <1>7 DEF Signal
  <2>2. PICK new : log' = Append(log, new) /\ new.pid = Item.pid
    BY <1>7 DEF Signal
  <2>3. Item.pid \in Pids(selected)
    <3>1. PlanFits /\ Len(records) < Len(plan) /\ Len(records) \in Nat
      BY <2>1, LoopFrame DEF PInv, Drafted, Calling, Recorded
    <3>2. Len(records) + 1 \in DOMAIN plan
      BY <3>1 DEF PlanFits, Fits
    <3> QED
      BY <3>1, <3>2 DEF PlanFits, Fits, Item
  <2>4. log \in Seq([pid : Nat, sig : {"SIGTERM", "SIGKILL"}])
    BY DEF PInv, Spared
  <2>5. \A n \in DOMAIN log' : (n \in DOMAIN log /\ log'[n] = log[n]) \/ log'[n] = new
    BY <2>2, <2>4
  <2> QED
    BY <2>1, <2>2, <2>3, <2>5, KeptStep
<1>8. CASE Leave \/ Recycle \/ Break \/ Done \/ UNCHANGED <<vars, view>>
  BY <1>8, UntouchedStep DEF Leave, Recycle, Break, Done, vars
<1> QED
  BY <1>1, <1>2, <1>3, <1>4, <1>5, <1>6, <1>7, <1>8
  DEF EdevNext, ScanCommand, CleanCommand, Next, User, Program

LEMMA ChosenAlways == EdevSpec => [](PInv /\ Chosen)
<1>1. EdevInit => Chosen
  BY DEF EdevInit, Init, Chosen, Pids
<1>2. PInv /\ Chosen /\ [EdevNext]_<<vars, view>> => Chosen'
  BY ChosenPreserved
<1> QED
  BY <1>1, <1>2, Always, PTL DEF EdevSpec

\* The ports of a list that was read are those it covers.
LEMMA PortsAsMeant ==
  ASSUME Inputs, PortSpec.ok
  PROVE  /\ WellFormed(args.ports, 0, MaxPort)
         /\ \A e \in listed : e \in Collected <=> (args.ports # <<>> => Covers(args.ports, e.port))
<1>1. args.ports \in Text /\ \A e \in listed : e.port \in 0..MaxPort
  BY CleanAssumption DEF Inputs
<1>2. CASE args.ports = <<>>
  <2>1. PortSpec.out = {<<0, MaxPort>>}
    BY <1>2 DEF PortSpec
  <2> QED
    BY <1>1, <1>2, <2>1 DEF Collected, WellFormed
<1>3. CASE args.ports # <<>>
  <2>0. PICK t \in Text : t = args.ports
    BY <1>1
  <2>1. PortSpec = ParsePortSpec(t)
    BY <1>3, <2>0 DEF PortSpec
  <2>2. PortSpec # Failure
    BY DEF Failure
  <2>3. WellFormed(t, 0, MaxPort) /\ PortSpec.out = Ranges(t, Len(t))
    BY <2>1, <2>2, PortSpecsReadAsMeant
  <2>4. DOMAIN t = 1..Len(t)
    BY DEF Text
  <2>5. ASSUME NEW n
        PROVE  (\E r \in PortSpec.out : r[1] <= n /\ n <= r[2]) <=> Covers(t, n)
    <3>1. ASSUME NEW r \in PortSpec.out, r[1] <= n, n <= r[2] PROVE Covers(t, n)
      <4>1. PICK i \in 1..Len(t) : t[i] # Empty /\ r = <<t[i][1], t[i][Len(t[i])]>>
        BY <2>3, <3>1 DEF Ranges
      <4>2. r[1] = t[i][1] /\ r[2] = t[i][Len(t[i])]
        BY <4>1
      <4> QED
        BY <2>4, <3>1, <4>1, <4>2 DEF Covers
    <3>2. ASSUME Covers(t, n) PROVE \E r \in PortSpec.out : r[1] <= n /\ n <= r[2]
      <4>1. PICK i \in 1..Len(t) : t[i] # Empty /\ t[i][1] <= n /\ n <= t[i][Len(t[i])]
        BY <2>4, <3>2 DEF Covers
      <4>2. <<t[i][1], t[i][Len(t[i])]>> \in PortSpec.out
        BY <2>3, <4>1 DEF Ranges
      <4> QED
        BY <4>1, <4>2
    <3> QED
      BY <3>1, <3>2
  <2> QED
    BY <1>3, <2>0, <2>3, <2>5 DEF Collected
<1> QED
  BY <1>2, <1>3

\* What is known of a process that has a signal: the entry it was chosen by.
LEMMA SignalledChosen ==
  ASSUME PInv, Chosen, NEW p \in Signalled
  PROVE  \E e \in selected : /\ e.pid = p /\ e \in InScope /\ e \in listed
                             /\ ~args.all /\ args.targets # {} => Understood /\ Named(e)
BY DEF PInv, Chosen, Signalled, Pids, Selected

LEMMA CoveredLemma == ASSUME PInv, Chosen, MenuHonoured PROVE SignalsCovered
<1> SUFFICES ASSUME NEW p \in Signalled
             PROVE  \E e \in listed :
                      /\ e.pid = p
                      /\ args.targets = {} \/ args.dev_only => Admits(CleanScope, e.kind)
                      /\ args.ports # <<>> => Covers(args.ports, e.port)
                      /\ ~args.all /\ args.targets # {} => \E t \in args.targets : Means(t, e)
                      /\ line # <<>> => e \in entries /\ Covers(line, Number(e))
  BY DEF SignalsCovered
<1>1. PICK e \in selected : /\ e.pid = p /\ e \in InScope /\ e \in listed
                            /\ ~args.all /\ args.targets # {} => Understood /\ Named(e)
  BY SignalledChosen
<1>2. Inputs /\ PortSpec.ok
  BY <1>1 DEF PInv, Chosen, Selected
<1>3. e \in Collected /\ (args.targets = {} \/ args.dev_only => Admits(CleanScope, e.kind))
  <2>1. args.dev_only \in BOOLEAN
    BY <1>2, CleanAssumption DEF Inputs
  <2> QED
    BY <1>1, <2>1, Zenon DEF InScope, Narrow
<1>4. args.ports # <<>> => Covers(args.ports, e.port)
  BY <1>1, <1>2, <1>3, PortsAsMeant
<1>5. ASSUME ~args.all, args.targets # {} PROVE \E t \in args.targets : Means(t, e)
  <2>1. PICK t \in args.targets : Matches(ParseTarget(t), e) /\ ParseTarget(t).type # "error"
    BY <1>1, <1>5 DEF Named, Understood, Targets
  <2>2. t.pid \in BOOLEAN /\ t.part \in Seq(Int) /\ Len(t.part) > 0 /\ e.pid \in Int /\ e.port \in Int
    BY <1>1, <1>2, CleanAssumption DEF Inputs, Part
  <2> QED
    BY <2>1, <2>2, SpecsAssumption, TargetsMeanWhatTheySay
<1>6. line # <<>> => e \in entries /\ Covers(line, Number(e))
  BY <1>1 DEF MenuHonoured
<1> QED
  BY <1>1, <1>3, <1>4, <1>5, <1>6

LEMMA NotGuessedLemma == ASSUME PInv, Chosen PROVE NothingGuessed
<1> SUFFICES ASSUME log # <<>>
             PROVE  /\ WellFormed(args.ports, 0, MaxPort)
                    /\ ~args.all => \A t \in args.targets :
                         IF t.pid THEN Well(t.part, 2, MaxPid) /\ Len(t.part) = 1
                         ELSE Well(t.part, 0, MaxPort)
  BY DEF NothingGuessed
<1>1. PICK p : p \in Signalled
  BY DEF PInv, Spared, Signalled
<1>2. PICK e \in selected : ~args.all /\ args.targets # {} => Understood
  BY <1>1, SignalledChosen
<1>3. Inputs /\ PortSpec.ok
  BY <1>2 DEF PInv, Chosen, Selected
<1>4. ASSUME ~args.all, NEW t \in args.targets
      PROVE  IF t.pid THEN Well(t.part, 2, MaxPid) /\ Len(t.part) = 1 ELSE Well(t.part, 0, MaxPort)
  <2>1. ParseTarget(t).type # "error" /\ t.pid \in BOOLEAN /\ t.part \in Part
    BY <1>2, <1>3, <1>4, CleanAssumption DEF Understood, Targets, Inputs
  <2>2. CASE t.pid
    BY <2>1, <2>2, SpecsAssumption DEF ParseTarget, Well, Part
  <2>3. CASE ~t.pid
    BY <2>1, <2>3, PortPartRead DEF ParseTarget
  <2> QED
    BY <2>1, <2>2, <2>3
<1> QED
  BY <1>3, <1>4, PortsAsMeant

\* The numbers typed at the menu select the entries that stand at them.
LEMMA MenuStep ==
  ASSUME PInv, UNCHANGED entries, pc = "menu", pc' \in {"plan", "exited"}, line = <<>>,
         ChooseNothing \/ ChooseAll \/ ChooseNumbers \/ UNCHANGED <<line, selected>>
  PROVE  MenuHonoured'
<1> DEFINE n == Cardinality(entries)
<1>1. n \in Nat /\ \A e \in entries : Number(e) \in 1..n
  BY MenuPlaces DEF PInv
<1>2. /\ n' = n /\ selected = {}
      /\ \A e : Number(e)' = Number(e)
  BY DEF PInv, Selected, Number
<1> HIDE DEF n
<1>3. CASE ChooseNothing \/ UNCHANGED <<line, selected>>
  BY <1>3 DEF ChooseNothing, MenuHonoured
<1>4. CASE ChooseAll
  <2>1. line' = <<<<1, n>>>> /\ selected' = entries
    BY <1>4 DEF ChooseAll, n
  <2>2. CASE entries = {}
    BY <1>2, <2>1, <2>2 DEF MenuHonoured, n
  <2>3. CASE entries # {}
    <3>1. WellFormed(line', 1, n)
      BY <1>1, <2>1, <2>3 DEF WellFormed, Well
    <3>2. \A e \in entries : Covers(line', Number(e))
      BY <1>1, <2>1 DEF Covers, Empty
    <3> QED
      BY <1>2, <2>1, <3>1, <3>2 DEF MenuHonoured, n
  <2> QED
    BY <2>2, <2>3
<1>5. CASE ChooseNumbers
  <2>1. PICK typed \in Lines : typed = line'
    BY <1>5 DEF ChooseNumbers
  <2>2. typed \in Text
    BY <2>1, CleanAssumption
  <2> DEFINE parsed == ParseIndexSpec(typed, n)
  <2>3. IF parsed.ok THEN selected' = {e \in entries : Number(e) - 1 \in parsed.out} ELSE selected' = {}
    BY <1>2, <1>5, <2>1 DEF ChooseNumbers, n
  <2>4. parsed = IF WellFormed(typed, 1, n) THEN [ok |-> TRUE, out |-> {i \in Nat : Covers(typed, i + 1)}]
                 ELSE Failure
    BY <1>1, <2>2, IndexSpecsReadAsMeant
  <2> HIDE DEF parsed
  <2>5. CASE WellFormed(typed, 1, n)
    <3>1. \A e \in entries : Number(e) - 1 \in parsed.out <=> Covers(typed, Number(e))
      BY <1>1, <2>4, <2>5
    <3>2. selected' = {e \in entries : Covers(typed, Number(e))}
      BY <2>3, <2>4, <2>5, <3>1
    <3> QED
      BY <1>2, <2>1, <2>5, <3>2 DEF MenuHonoured, n
  <2>6. CASE ~WellFormed(typed, 1, n)
    BY <1>2, <2>1, <2>3, <2>4, <2>6 DEF MenuHonoured, Failure, n
  <2> QED
    BY <2>5, <2>6
<1> QED
  BY <1>3, <1>4, <1>5

LEMMA MenuFrame ==
  ASSUME MenuRead, UNCHANGED line, pc' \in {"collect", "select", "menu"} => pc \in {"collect", "select", "menu"},
         pc \in {"collect", "select", "menu"} \/ UNCHANGED <<entries, selected>>
  PROVE  MenuRead'
BY DEF MenuRead, MenuHonoured, Number

LEMMA MenuPreserved == ASSUME PInv, MenuRead, [EdevNext]_<<vars, view>> PROVE MenuRead'
<1> USE DEF input, world, choice, work, history, call, Goto, Exit, Fail, Farewell, Write, WriteThen
<1>1. CASE Collect \/ NothingListed \/ RefuseMenu \/ RunScan \/ ShowMenu \/ SelectAll \/ SelectNamed
  BY <1>1, MenuFrame DEF Collect, NothingListed, RefuseMenu, RunScan, ShowMenu, SelectAll, SelectNamed
<1>2. CASE Choose
  <2>1. MenuHonoured'
    BY <1>2, MenuStep DEF Choose, ChooseNothing, ChooseAll, ChooseNumbers, MenuRead
  <2> QED
    BY <1>2, <2>1 DEF Choose, ChooseNothing, ChooseAll, ChooseNumbers, MenuRead
<1>3. CASE NothingSelected \/ MakePlan \/ AllProtected \/ Confirm \/ Answer
  BY <1>3, MenuFrame DEF NothingSelected, MakePlan, AllProtected, Confirm, Answer
<1>4. CASE SkipProtected \/ Begin \/ Signal \/ Decide \/ Return \/ Report
  BY <1>4, MenuFrame DEF SkipProtected, Begin, Signal, Decide, Return, Crash, Report
<1>5. CASE Leave \/ Recycle \/ Break \/ Done \/ UNCHANGED <<vars, view>>
  BY <1>5, MenuFrame DEF Leave, Recycle, Break, Done, vars
<1> QED
  BY <1>1, <1>2, <1>3, <1>4, <1>5
  DEF EdevNext, ScanCommand, CleanCommand, Next, User, Program

(***************************************************************************)
(* No signal is sent unless all that the user typed can be read.           *)
(***************************************************************************)
THEOREM NothingEverGuessed == EdevSpec => []NothingGuessed
<1>1. PInv /\ Chosen => NothingGuessed
  BY NotGuessedLemma
<1> QED
  BY <1>1, ChosenAlways, PTL

(***************************************************************************)
(* The numbers typed at the menu select the entries that stand at them,    *)
(* all of them and no other, or nothing.                                   *)
(***************************************************************************)
THEOREM MenuAlwaysHonoured == EdevSpec => []MenuHonoured
<1>1. EdevInit => MenuRead
  BY DEF EdevInit, Init, MenuRead, MenuHonoured
<1>2. PInv /\ MenuRead /\ [EdevNext]_<<vars, view>> => MenuRead'
  BY MenuPreserved
<1>3. MenuRead => MenuHonoured
  BY DEF MenuRead
<1> QED
  BY <1>1, <1>2, <1>3, Always, PTL DEF EdevSpec

(***************************************************************************)
(* A process is signalled only for a port of its own that the user's words *)
(* cover, whatever lists of ports, targets and menu numbers are typed, and *)
(* however long.                                                           *)
(***************************************************************************)
THEOREM SignalsAlwaysCovered == EdevSpec => []SignalsCovered
<1>1. PInv /\ Chosen /\ MenuHonoured => SignalsCovered
  BY CoveredLemma
<1> QED
  BY <1>1, ChosenAlways, MenuAlwaysHonoured, PTL
-----------------------------------------------------------------------------
(***************************************************************************)
(* One call per process: the log is made of the signals of one call after  *)
(* the other, and that under way is for a process not dealt with.          *)
(***************************************************************************)
\* The signals to p in the log l are sigs, after the first "before" ones.
Burst(l, p, sigs, before) ==
  /\ before \in 0..Len(l)
  /\ {n \in DOMAIN l : l[n].pid = p} = {before + k : k \in DOMAIN sigs}
  /\ \A k \in DOMAIN sigs : l[before + k].sig = sigs[k]

Options(a) == [grace |-> a.grace, force |-> a.force, no_escalate |-> a.no_escalate, dry_run |-> a.dry_run]

LoggedBy(l, S) == \A n \in DOMAIN l : l[n].pid \in S

Calls ==
  /\ opts = Options(args)
  /\ OneCallPerProcess
  /\ pc = "loop" => LoggedBy(log, Dealt)
  /\ pc = "call" => /\ LoggedBy(log, Dealt \cup {Item.pid})
                    /\ sent \in Kernel!Ladder(opts)
                    /\ Burst(log, Item.pid, sent, Len(log) - Len(sent))

\* A signal more for p, after others of the same call.
LEMMA RunGrows ==
  ASSUME NEW l \in Seq([pid : Nat, sig : {"SIGTERM", "SIGKILL"}]), NEW p \in Nat,
         NEW sig \in {"SIGTERM", "SIGKILL"}, NEW sigs \in Seq({"SIGTERM", "SIGKILL"}),
         NEW longer, longer = Append(l, [pid |-> p, sig |-> sig]),
         Burst(l, p, sigs, Len(l) - Len(sigs))
  PROVE  Burst(longer, p, Append(sigs, sig), Len(longer) - Len(Append(sigs, sig)))
<1> DEFINE new == [pid |-> p, sig |-> sig]
<1>1. /\ Len(l) \in Nat /\ DOMAIN l = 1..Len(l) /\ Len(sigs) \in Nat /\ DOMAIN sigs = 1..Len(sigs)
      /\ new.pid = p /\ new.sig = sig /\ new \in [pid : Nat, sig : {"SIGTERM", "SIGKILL"}]
  OBVIOUS
<1>2. /\ Len(longer) = Len(l) + 1 /\ DOMAIN longer = 1..(Len(l) + 1)
      /\ longer[Len(l) + 1] = new /\ \A n \in 1..Len(l) : longer[n] = l[n]
  BY <1>1
<1> HIDE DEF new
<1> DEFINE more == Append(sigs, sig)
<1>3. /\ Len(more) = Len(sigs) + 1 /\ DOMAIN more = 1..(Len(sigs) + 1)
      /\ more[Len(sigs) + 1] = sig /\ \A k \in 1..Len(sigs) : more[k] = sigs[k]
  OBVIOUS
<1> HIDE DEF more
<1>4. PICK before : before = Len(l) - Len(sigs)
  OBVIOUS
<1>5. before \in 0..Len(l) /\ before = Len(longer) - Len(more)
  BY <1>1, <1>2, <1>3, <1>4 DEF Burst
<1>6. {n \in DOMAIN longer : longer[n].pid = p} = {n \in DOMAIN l : l[n].pid = p} \cup {Len(l) + 1}
  BY <1>1, <1>2
<1>7. {before + k : k \in DOMAIN more} = {before + k : k \in DOMAIN sigs} \cup {Len(l) + 1}
  <2>1. DOMAIN more = DOMAIN sigs \cup {Len(sigs) + 1}
    BY <1>1, <1>3
  <2>2. before + (Len(sigs) + 1) = Len(l) + 1
    BY <1>1, <1>4
  <2>3. {before + k : k \in DOMAIN sigs \cup {Len(sigs) + 1}}
          = {before + k : k \in DOMAIN sigs} \cup {before + (Len(sigs) + 1)}
    <3> DEFINE Place(k) == before + k
    <3> HIDE DEF Place
    <3>1. {Place(k) : k \in DOMAIN sigs \cup {Len(sigs) + 1}}
            = {Place(k) : k \in DOMAIN sigs} \cup {Place(Len(sigs) + 1)}
      OBVIOUS
    <3> QED
      BY <3>1 DEF Place
  <2> QED
    BY <2>1, <2>2, <2>3
<1>8. ASSUME NEW k \in DOMAIN more PROVE longer[before + k].sig = more[k]
  <2>1. CASE k = Len(sigs) + 1
    BY <1>1, <1>2, <1>3, <1>4, <2>1
  <2>2. CASE k \in DOMAIN sigs
    <3>1. before + k \in 1..Len(l)
      BY <1>1, <1>4, <1>5, <2>2
    <3>2. l[before + k].sig = sigs[k]
      BY <1>4, <2>2 DEF Burst
    <3>3. longer[before + k] = l[before + k]
      BY <1>2, <3>1
    <3>4. more[k] = sigs[k]
      BY <1>1, <1>3, <2>2
    <3> QED
      BY <3>2, <3>3, <3>4
  <2>3. k = Len(sigs) + 1 \/ k \in DOMAIN sigs
    BY <1>1, <1>3
  <2> QED
    BY <2>1, <2>2, <2>3
<1>9. {n \in DOMAIN l : l[n].pid = p} = {before + k : k \in DOMAIN sigs}
  BY <1>4 DEF Burst
<1>10. before \in 0..Len(longer)
  BY <1>1, <1>2, <1>5
<1>11. Burst(longer, p, more, before)
  BY <1>6, <1>7, <1>8, <1>9, <1>10 DEF Burst
<1> QED
  BY <1>5, <1>11 DEF more

\* The signals to the others are where they were.
LEMMA RunStays ==
  ASSUME NEW l \in Seq([pid : Nat, sig : {"SIGTERM", "SIGKILL"}]), NEW new, new.pid \in Nat,
         new \in [pid : Nat, sig : {"SIGTERM", "SIGKILL"}],
         NEW q, new.pid # q, NEW others, NEW before, Burst(l, q, others, before)
  PROVE  Burst(Append(l, new), q, others, before)
<1> DEFINE longer == Append(l, new)
<1>1. Len(l) \in Nat /\ DOMAIN l = 1..Len(l)
  OBVIOUS
<1>2. /\ Len(longer) = Len(l) + 1 /\ DOMAIN longer = 1..(Len(l) + 1)
      /\ longer[Len(l) + 1] = new /\ \A n \in 1..Len(l) : longer[n] = l[n]
  BY <1>1
<1> HIDE DEF longer
<1>3. {n \in DOMAIN longer : longer[n].pid = q} = {n \in DOMAIN l : l[n].pid = q}
  BY <1>1, <1>2
<1>4. \A k \in DOMAIN others : before + k \in DOMAIN l
  BY DEF Burst
<1>5. \A k \in DOMAIN others : longer[before + k] = l[before + k]
  BY <1>1, <1>2, <1>4
<1>6. before \in 0..Len(longer)
  BY <1>1, <1>2 DEF Burst
<1>7. Burst(longer, q, others, before)
  BY <1>3, <1>5, <1>6 DEF Burst
<1> QED
  BY <1>7 DEF longer

LEMMA OneCallFrame ==
  ASSUME OneCallPerProcess, UNCHANGED <<opts, log>>
  PROVE  OneCallPerProcess'
<1>1. Kernel!Ladder(opts)' = Kernel!Ladder(opts) /\ Signalled' = Signalled
  BY DEF Kernel!Ladder, Signalled
<1>2. \A p, sigs : Got(p, sigs)' <=> Got(p, sigs)
  BY DEF Got
<1> QED
  BY <1>1, <1>2 DEF OneCallPerProcess

LEMMA CallsFrame ==
  ASSUME Calls, UNCHANGED <<args, opts, log>>,
         pc' = "loop" => LoggedBy(log, Dealt'), pc' # "call"
  PROVE  Calls'
<1>1. OneCallPerProcess'
  BY OneCallFrame DEF Calls
<1>2. Options(args)' = Options(args)
  BY DEF Options
<1> QED
  BY <1>1, <1>2 DEF Calls

LEMMA CallsSame ==
  ASSUME Calls, UNCHANGED <<args, opts, log, sent, plan, records, pc>>
  PROVE  Calls'
<1>1. OneCallPerProcess'
  BY OneCallFrame DEF Calls
<1>2. /\ Options(args)' = Options(args) /\ Item' = Item /\ Dealt' = Dealt
      /\ Kernel!Ladder(opts)' = Kernel!Ladder(opts)
  BY DEF Options, Item, Dealt, Kernel!Ladder
<1> QED
  BY <1>1, <1>2 DEF Calls

LEMMA CallsSignal == ASSUME PInv, Calls, Signal PROVE Calls'
<1>1. /\ UNCHANGED <<args, plan, records, pc, opts>> /\ pc = "call" /\ Len(records) < Len(plan)
  BY DEF Signal, Kernel!Deliver, input, PInv, Calling
<1>2. PICK sig \in {"SIGTERM", "SIGKILL"} :
        /\ log' = Append(log, [pid |-> Item.pid, sig |-> sig])
        /\ sent' = Append(sent, sig) /\ sent' \in Kernel!Ladder(opts)
  BY DEF Signal, Kernel!Deliver
<1>3. PICK p \in Nat : p = Item.pid
  BY <1>1, NextItem
<1>4. /\ log \in Seq([pid : Nat, sig : {"SIGTERM", "SIGKILL"}])
      /\ sent \in Seq({"SIGTERM", "SIGKILL"})
  BY DEF PInv, Spared, IInv, CallOptions
<1>5. log' = Append(log, [pid |-> p, sig |-> sig])
  BY <1>2, <1>3
<1>6. Item' = Item /\ Dealt' = Dealt /\ Kernel!Ladder(opts)' = Kernel!Ladder(opts)
  BY <1>1 DEF Item, Dealt, Kernel!Ladder
<1>7. Burst(log, p, sent, Len(log) - Len(sent)) /\ LoggedBy(log, Dealt \cup {p})
  BY <1>1, <1>3 DEF Calls
<1>8. Burst(log', p, sent', Len(log') - Len(sent'))
  BY <1>2, <1>4, <1>5, <1>7, RunGrows
<1>9. \A n \in DOMAIN log' : (n \in DOMAIN log /\ log'[n] = log[n]) \/ log'[n].pid = p
  BY <1>4, <1>5
<1>10. LoggedBy(log', Dealt \cup {p})
  BY <1>7, <1>9 DEF LoggedBy
<1>11. OneCallPerProcess'
  <2> SUFFICES ASSUME NEW q \in Signalled' PROVE \E sigs \in Kernel!Ladder(opts) : Got(q, sigs)'
    BY <1>6 DEF OneCallPerProcess
  <2>1. CASE q = p
    BY <1>2, <1>8, <2>1 DEF Got, Burst
  <2>2. CASE q # p
    <3>1. q \in Signalled
      BY <1>9, <2>2 DEF Signalled
    <3>2. PICK sigs \in Kernel!Ladder(opts), before \in 0..Len(log) : Burst(log, q, sigs, before)
      BY <3>1 DEF Calls, OneCallPerProcess, Got, Burst
    <3> DEFINE new == [pid |-> p, sig |-> sig]
    <3>3. new.pid = p /\ new \in [pid : Nat, sig : {"SIGTERM", "SIGKILL"}] /\ log' = Append(log, new)
      BY <1>5
    <3> HIDE DEF new
    <3>4. Burst(log', q, sigs, before)
      BY <1>4, <2>2, <3>2, <3>3, RunStays
    <3> QED
      BY <3>2, <3>4 DEF Got, Burst
  <2> QED
    BY <2>1, <2>2
<1> QED
  BY <1>1, <1>2, <1>3, <1>6, <1>8, <1>10, <1>11 DEF Calls

LEMMA CallsPreserved == ASSUME PInv, Calls, [EdevNext]_<<vars, view>> PROVE Calls'
<1> USE DEF input, world, choice, work, history, call, Goto, Exit, Fail, Farewell, Write, WriteThen
<1>1. CASE Collect \/ NothingListed \/ RefuseMenu \/ RunScan \/ ShowMenu \/ SelectAll \/ SelectNamed
  BY <1>1, CallsFrame DEF Collect, NothingListed, RefuseMenu, RunScan, ShowMenu, SelectAll, SelectNamed
<1>2. CASE Choose \/ NothingSelected \/ MakePlan \/ AllProtected
  BY <1>2, CallsFrame
  DEF Choose, ChooseNothing, ChooseAll, ChooseNumbers, NothingSelected, MakePlan, AllProtected
<1>3. CASE Confirm \/ Answer
  <2>1. log = <<>> /\ UNCHANGED <<args, opts, log>> /\ pc' # "call"
    BY <1>3 DEF Confirm, Answer, PInv, IInv, NothingDone, Early
  <2> QED
    BY <2>1, CallsFrame DEF LoggedBy
<1>4. CASE SkipProtected
  <2>1. UNCHANGED <<args, opts, log>> /\ pc = "loop" /\ pc' = "loop" /\ Dealt \subseteq Dealt'
    BY <1>4, OneMoreDealt DEF SkipProtected, More
  <2> QED
    BY <2>1, CallsFrame DEF Calls, LoggedBy
<1>5. CASE Begin
  <2>1. /\ pc = "loop" /\ pc' = "call" /\ UNCHANGED <<args, log, plan, records>> /\ Len(records) < Len(plan)
        /\ opts' = Options(args) /\ sent' = <<>>
    BY <1>5 DEF Begin, More, Options
  <2>2. PICK p \in Nat : p = Item.pid /\ p \notin Dealt
    BY <2>1, NextItem
  <2>3. Item' = Item /\ Dealt' = Dealt /\ opts' = opts
    BY <2>1 DEF Item, Dealt, Calls
  <2>4. log \in Seq([pid : Nat, sig : {"SIGTERM", "SIGKILL"}]) /\ LoggedBy(log, Dealt)
    BY <2>1 DEF PInv, Spared, Calls
  <2>5. Burst(log, p, <<>>, Len(log) - Len(<<>>))
    <3>1. {n \in DOMAIN log : log[n].pid = p} = {}
      BY <2>2, <2>4 DEF LoggedBy
    <3>2. Len(log) - Len(<<>>) \in 0..Len(log)
      BY <2>4
    <3> QED
      BY <3>1, <3>2 DEF Burst
  <2>6. <<>> \in Kernel!Ladder(opts)
    BY DEF Kernel!Ladder
  <2>7. OneCallPerProcess'
    BY <2>1, <2>3, OneCallFrame DEF Calls
  <2>8. LoggedBy(log, Dealt \cup {p})
    BY <2>4 DEF LoggedBy
  <2>9. (pc = "call" => /\ LoggedBy(log, Dealt \cup {Item.pid})
                        /\ sent \in Kernel!Ladder(opts)
                        /\ Burst(log, Item.pid, sent, Len(log) - Len(sent)))'
    BY <2>1, <2>2, <2>3, <2>5, <2>6, <2>8
  <2> QED
    BY <2>1, <2>7, <2>9 DEF Calls
<1>6. CASE Signal
  BY <1>6, CallsSignal
<1>7. CASE Decide
  BY <1>7, CallsSame DEF Decide, Kernel!Decide
<1>8. CASE Return
  <2>1. pc = "call" /\ UNCHANGED <<args, opts, log>> /\ pc' \in {"loop", "exited"}
    BY <1>8 DEF Return, Crash
  <2>2. pc' = "loop" => Dealt' = Dealt \cup {Item.pid}
    BY <1>8, OneMoreDealt DEF Return, Crash
  <2> QED
    BY <2>1, <2>2, CallsFrame DEF Calls
<1>9. CASE Report
  BY <1>9, CallsFrame DEF Report
<1>10. CASE Leave \/ Recycle \/ Break \/ Done \/ UNCHANGED <<vars, view>>
  BY <1>10, CallsSame DEF Leave, Recycle, Break, Done, vars
<1> QED
  BY <1>1, <1>2, <1>3, <1>4, <1>5, <1>6, <1>7, <1>8, <1>9, <1>10
  DEF EdevNext, ScanCommand, CleanCommand, Next, User, Program

(***************************************************************************)
(* main.rs:217: a process is signalled once however many ports it holds.   *)
(***************************************************************************)
THEOREM AlwaysOneCall == EdevSpec => []OneCallPerProcess
<1>1. EdevInit => Calls
  BY DEF EdevInit, Init, Calls, Options, OneCallPerProcess, Signalled
<1>2. PInv /\ Calls /\ [EdevNext]_<<vars, view>> => Calls'
  BY CallsPreserved
<1>3. Calls => OneCallPerProcess
  BY DEF Calls
<1> QED
  BY <1>1, <1>2, <1>3, Always, PTL DEF EdevSpec
-----------------------------------------------------------------------------
(***************************************************************************)
(* A scan: what it wrote follows from the listing and the command line.    *)
(***************************************************************************)
Viewed == \A v \in view : args.cmd = "scan" /\ PortSpec.ok /\ v = Kept

LEMMA ViewFrame == ASSUME Viewed, UNCHANGED <<args, listed, view>> PROVE Viewed'
<1>1. PortSpec' = PortSpec /\ Kept' = Kept
  BY DEF PortSpec, Kept, Collected, ScanScope
<1> QED
  BY <1>1 DEF Viewed

LEMMA ViewPreserved == ASSUME Viewed, [EdevNext]_<<vars, view>> PROVE Viewed'
<1> USE DEF input, world, choice, work, history, call, Goto, Exit, Fail, Farewell, Write, WriteThen
<1>1. CASE ScanCommand
  <2>1. UNCHANGED <<args, listed>> /\ args.cmd = "scan"
    BY <1>1 DEF ScanCommand, RunScan, Break, Done, vars
  <2>2. UNCHANGED view \/ (PortSpec.ok /\ \A v \in view' : v = Kept)
    BY <1>1 DEF ScanCommand, RunScan
  <2>3. PortSpec' = PortSpec /\ Kept' = Kept
    BY <2>1 DEF PortSpec, Kept, Collected, ScanScope
  <2>4. CASE UNCHANGED view
    BY <2>1, <2>4, ViewFrame
  <2>5. CASE PortSpec.ok /\ \A v \in view' : v = Kept
    BY <2>1, <2>3, <2>5 DEF Viewed
  <2> QED
    BY <2>2, <2>4, <2>5
<1>2. CASE CleanCommand
  <2>1. UNCHANGED <<args, listed, view>>
    BY <1>2
    DEF CleanCommand, Next, User, Program, Choose, Answer, Collect, NothingListed, SelectAll, RefuseMenu,
        ShowMenu, SelectNamed, NothingSelected, MakePlan, AllProtected, Confirm, SkipProtected, Begin,
        Signal, Decide, Return, Report, Leave, Recycle, Break, Done, vars
  <2> QED
    BY <2>1, ViewFrame
<1>3. CASE UNCHANGED <<vars, view>>
  BY <1>3, ViewFrame DEF vars
<1> QED
  BY <1>1, <1>2, <1>3 DEF EdevNext

LEMMA ViewAlways == EdevSpec => [](PInv /\ Viewed)
<1>1. EdevInit => Viewed
  BY DEF EdevInit, Viewed
<1>2. Viewed /\ [EdevNext]_<<vars, view>> => Viewed'
  BY ViewPreserved
<1> QED
  BY <1>1, <1>2, Always, PTL DEF EdevSpec

LEMMA ForetellsLemma == ASSUME PInv, Viewed PROVE ScanForetellsClean
<1> SUFFICES ASSUME ~args.all, NEW v \in view PROVE v = InScope
  BY DEF ScanForetellsClean
<1>1. args \in ArgSets /\ args.cmd = "scan" /\ v = Kept
  BY DEF PInv, Inputs, Viewed
<1>2. args.targets = {} /\ args.all \in BOOLEAN
  BY <1>1, CleanAssumption, EdevAssumption
<1>3. ScanScope = CleanScope
  BY <1>2 DEF ScanScope, CleanScope
<1> QED
  BY <1>1, <1>2, <1>3 DEF InScope, Narrow, Kept

(***************************************************************************)
(* What `edev scan` shows is what `edev clean --all` would act on.         *)
(***************************************************************************)
THEOREM ScanForetells == EdevSpec => []ScanForetellsClean
<1>1. PInv /\ Viewed => ScanForetellsClean
  BY ForetellsLemma
<1> QED
  BY <1>1, ViewAlways, PTL
=============================================================================
