------------------------------ MODULE MCClean -------------------------------
(***************************************************************************)
(* Instances of Clean for TLC.                                             *)
(***************************************************************************)
EXTENDS Edev

Entry(port, pid, kind, protected) ==
  [port |-> port, pid |-> pid, kind |-> kind, protected |-> protected]

Port(lo, hi) == [pid |-> FALSE, part |-> <<lo, hi>>]
Pid(p)       == [pid |-> TRUE, part |-> <<p>>]
Bad          == [pid |-> FALSE, part |-> <<Junk>>]

\* A dev server whose other port is not recognised, something unknown, and
\* the protected shell edev was started from.
Mixed == {Entry(1, 20, "DevServer", FALSE), Entry(2, 10, "Unknown", FALSE),
          Entry(3, 20, "Unknown", FALSE), Entry(4, 30, "DevServer", TRUE)}

Stranger    == {Entry(2, 10, "Unknown", FALSE), Entry(3, 20, "Database", FALSE)}
OnlySystem  == {Entry(4, 30, "System", TRUE)}
Two         == {Entry(1, 10, "Database", FALSE), Entry(2, 20, "DevServer", FALSE)}

Command == [cmd : {"clean"}, targets : {{}}, all : {TRUE}, dev_only : {FALSE}, include_unknown : {FALSE},
            yes : {TRUE}, force : {FALSE}, grace : {0}, no_escalate : {FALSE},
            dry_run : {FALSE}, json : {FALSE}, ports : {<<>>}]

\* Parts with one, two or three fields, out of range on either side.
Parts == {Empty, <<0>>, <<2>>, <<3, 4>>, <<4, 3>>, <<3, 3>>, <<5>>, <<Junk>>, <<2, Blank>>,
          <<Blank, 3>>, <<2, 3, 4>>, <<3, 9>>, <<1, 4>>}
Texts == {<<p>> : p \in Parts} \cup {<<p, q>> : p \in Parts, q \in Parts}

\* Which processes: every way to choose, one way to signal.
SelectionListings == {Mixed, Stranger, OnlySystem, {}}
TargetSets == {{}, {Port(1, 1)}, {Port(2, 3)}, {Pid(30)}, {Pid(10), Port(4, 4)}, {Port(8, 8)}, {Port(1, 1), Bad}}
SelectionArgs ==
  [cmd : {"clean"}, targets : TargetSets, all : BOOLEAN, dev_only : BOOLEAN, include_unknown : BOOLEAN,
   yes : BOOLEAN, force : {FALSE}, grace : {0}, no_escalate : {TRUE},
   dry_run : BOOLEAN, json : BOOLEAN, ports : {<<>>}]
  \cup {[c EXCEPT !.ports = t] : c \in Command, t \in Texts}
  \cup {[c EXCEPT !.targets = {[pid |-> b, part |-> q]}, !.all = FALSE] :
          c \in Command, b \in BOOLEAN, q \in Parts}
  \cup {[c EXCEPT !.cmd = "scan", !.all = a, !.dev_only = d, !.include_unknown = u, !.json = j, !.ports = t] :
          c \in Command, a \in BOOLEAN, d \in BOOLEAN, u \in BOOLEAN, j \in BOOLEAN,
          t \in {<<>>, <<<<1, 2>>>>, <<<<Junk>>>>}}

\* How they are signalled: one way to choose, every way to signal, without
\* the options that have no effect together.
SignalListings == {Two, Mixed}
SignalArgs ==
  {a \in [cmd : {"clean"}, targets : {{}}, all : {TRUE}, dev_only : {FALSE}, include_unknown : {TRUE},
          yes : BOOLEAN, force : BOOLEAN, grace : {0, 1}, no_escalate : BOOLEAN,
          dry_run : BOOLEAN, json : BOOLEAN, ports : {<<>>, <<<<Junk>>>>}] :
     /\ a.dry_run => ~a.force /\ ~a.no_escalate /\ a.grace = 0
     /\ a.force => ~a.no_escalate /\ ~a.json}

\* One command each.
TargetAndAll == {[c EXCEPT !.targets = {Port(1, 1)}] : c \in Command}
JsonAll      == {[c EXCEPT !.json = TRUE, !.yes = FALSE] : c \in Command}
NoLines      == {<<<<1>>>>}
=============================================================================
