-------------------------------- MODULE Edev --------------------------------
(***************************************************************************)
(* main(): one command, `edev clean` (module Clean) or `edev scan`, which  *)
(* is run_scan: collect, filter by scope, print what is left.  A scan      *)
(* keeps no state and signals nobody.                                      *)
(*                                                                         *)
(* Operators marked "fault" are plausible bugs of the definition below     *)
(* them; the specification does not use them.                              *)
(***************************************************************************)
EXTENDS Clean

\* ScanArgs of cli.rs has no targets.
ASSUME EdevAssumption == \A a \in ArgSets : a.cmd = "scan" => a.targets = {}

VARIABLE
  view   \* what run_scan wrote: nothing, or one set of entries

\* fault: the flags of the two commands drift apart
ScopeWithoutUnknown == [all |-> args.all, dev_only |-> args.dev_only, include_unknown |-> FALSE]

ScanScope == [all |-> args.all, dev_only |-> args.dev_only, include_unknown |-> args.include_unknown]

\* apply_scope
Kept == {e \in Collected : Admits(ScanScope, e.kind)}

(***************************************************************************)
(* run_scan writes to a buffer: with stdout broken the text is lost, with  *)
(* an error only if it does not fit.                                       *)
(***************************************************************************)
RunScan ==
  /\ pc = "collect"
  /\ IF ~PortSpec.ok THEN Fail /\ UNCHANGED <<printed, view>>
     ELSE \/ /\ view' = {Kept}
             /\ Write(IF args.json THEN "json" ELSE "text") /\ Exit(0)
          \/ broken /\ Fail /\ UNCHANGED <<printed, view>>
  /\ UNCHANGED <<input, world, choice, work, history>>

ScanCommand  == args.cmd = "scan" /\ (RunScan \/ ((Break \/ Done) /\ UNCHANGED view))
CleanCommand == args.cmd = "clean" /\ Next /\ UNCHANGED view

EdevInit == Init /\ view = {}
EdevNext == ScanCommand \/ CleanCommand
EdevSpec == EdevInit /\ [][EdevNext]_<<vars, view>> /\ WF_vars(args.cmd = "clean" /\ Program)
-----------------------------------------------------------------------------
(***************************************************************************)
(* scan.rs:141: the two commands have one idea of what is in scope.  Short *)
(* of -a, what `edev scan` shows is what `edev clean --all` with the same  *)
(* flags would act on.                                                     *)
(***************************************************************************)
ScanForetellsClean == ~args.all => \A v \in view : v = InScope
=============================================================================
