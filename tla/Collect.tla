------------------------------ MODULE Collect -------------------------------
(***************************************************************************)
(* scan::collect: the sockets of module Scan are grouped by process and    *)
(* port; then every listener is asked, in rounds, for the facts an entry   *)
(* is made of: what proc_info reads, two samples of its CPU time, its      *)
(* arguments and directory, its parent.  At last edev walks up from itself *)
(* to find who must be spared.  Each fact is a system call of its own, and *)
(* the pid may have changed hands since the one before.                    *)
(*                                                                         *)
(* Operators marked "fault" are plausible bugs of the definition below     *)
(* them; the specification does not use them.                              *)
(***************************************************************************)
EXTENDS Scan, Sequences

CONSTANTS
  Homes,         \* parents that edev may start with
  MaxHops        \* rounds of SelfGuard::new: 64 in the code

ASSUME CollectAssumption == Homes \subseteq Pids /\ MaxHops \in Nat \ {0}

VARIABLES
  home,        \* the parent of edev
  facts,       \* pid -> call -> {} if it failed, {who answered}, or Unasked
  lineage,     \* SelfGuard's, behind edev's own pid: pids in order of insertion
  cursor,      \* `pid` in the loop of SelfGuard::new
  entries      \* what collect returns

guard   == <<lineage, cursor>>
edev    == <<facts, guard, entries>>
allVars == <<vars, home, edev>>

Calls   == {"info", "path", "before", "after", "args", "cwd", "brief", "briefpath"}
Unasked == {[gen |-> -1]}

\* The calls of each round; a round is over when all its calls are.
Round ==
  [info |-> {"info", "path"}, before |-> {"before"}, after |-> {"after"},
   extras |-> {"args", "cwd"}, parents |-> {"brief", "briefpath"}]

Known(p, call) == facts[p][call] \notin {{}, Unasked}
Fact(p, call)  == CHOOSE id \in facts[p][call] : TRUE
-----------------------------------------------------------------------------
Grouped ==
  UNION {{<<p, s.port>> : s \in {x \in got[p] : Listening(x) /\ Accepts(x)}} : p \in Pids}

Asked == {g[1] : g \in Grouped}

Infos == {p \in Asked : Known(p, "info")}

\* Of launchd the parent is 0, which is nobody.
Parents == {Fact(p, "info").ppid : p \in Infos} \ {0}

Group ==
  /\ stage = "walk" /\ \A p \in Pids : at[p] = "over"
  /\ stage' = IF Grouped = {} THEN "done" ELSE "info"
  /\ UNCHANGED <<walk, machine, home, edev>>

\* Which pids a call is made for.  proc_info and brief end at a refusal.
Wanted(call) ==
  CASE call \in {"info", "args"} -> Asked
    [] call \in {"path", "before"} -> Infos
    [] call = "after"     -> {p \in Infos : Known(p, "before")}
    [] call = "cwd"       -> {p \in Asked : facts[p].args # Unasked}
    [] call = "brief"     -> Parents
    [] call = "briefpath" -> {p \in Parents : Known(p, "brief")}

Who(p) == [gen |-> table[p].gen, ppid |-> table[p].ppid, prog |-> table[p].prog]

\* proc_pidpath needs no right, but the file must still be there.
Answers(p, call) ==
  IF call \in {"path", "briefpath"} THEN table[p].alive /\ table[p].prog.place # "lost"
  ELSE Readable(p)

Ask(p, call) ==
  /\ stage \in DOMAIN Round /\ call \in Round[stage]
  /\ p \in Wanted(call) /\ facts[p][call] = Unasked
  /\ facts' = [facts EXCEPT ![p][call] = IF Answers(p, call) THEN {Who(p)} ELSE {}]
  /\ UNCHANGED <<vars, home, guard, entries>>

TaskInfo(p)  == Ask(p, "info")
PidPath(p)   == Ask(p, "path")
CpuBefore(p) == Ask(p, "before")
CpuAfter(p)  == Ask(p, "after")
Cmdline(p)   == Ask(p, "args")
Cwd(p)       == Ask(p, "cwd")
Brief(p)     == Ask(p, "brief") \/ Ask(p, "briefpath")

Over(round) == \A call \in Round[round] : \A p \in Wanted(call) : facts[p][call] # Unasked

Advance(round, next) ==
  /\ stage = round /\ Over(round) /\ stage' = next
  /\ UNCHANGED <<walk, machine, home, edev>>

\* CPU time is sampled only if asked for.
Rounds ==
  \/ Advance("info", "before") \/ Advance("before", "after") \/ Advance("after", "extras")
  \/ Advance("info", "extras") \/ Advance("extras", "parents")

(***************************************************************************)
(* SelfGuard::new, as in module SelfGuard, on the table of processes.  The *)
(* first round records edev itself and finds its parent.                   *)
(***************************************************************************)
NewGuard ==
  /\ stage = "parents" /\ Over("parents") /\ stage' = "guard"
  /\ cursor' = home
  /\ UNCHANGED <<walk, machine, home, facts, lineage, entries>>

Visited == {lineage[i] : i \in DOMAIN lineage}

\* Rounds are left, and the pid is neither nobody's nor known.
OneMoreRound == Len(lineage) + 1 < MaxHops /\ cursor > 0 /\ cursor \notin Visited

\* fault: a pid is recorded only if its parent can be read
HopIfReadable ==
  /\ stage = "guard" /\ OneMoreRound
  /\ IF Readable(cursor)
     THEN /\ cursor' = table[cursor].ppid /\ lineage' = Append(lineage, cursor)
          /\ UNCHANGED stage
     ELSE stage' = "build" /\ UNCHANGED guard
  /\ UNCHANGED <<walk, machine, home, facts, entries>>

\* One round: the pid is recorded, then asked for its parent.
Hop ==
  /\ stage = "guard" /\ OneMoreRound
  /\ lineage' = Append(lineage, cursor)
  /\ IF Readable(cursor)
     THEN cursor' = table[cursor].ppid /\ UNCHANGED stage
     ELSE stage' = "build" /\ UNCHANGED cursor
  /\ UNCHANGED <<walk, machine, home, facts, entries>>

GuardDone ==
  /\ stage = "guard" /\ ~OneMoreRound /\ stage' = "build"
  /\ UNCHANGED <<walk, machine, home, edev>>
-----------------------------------------------------------------------------
(***************************************************************************)
(* The entries, from what was collected.                                   *)
(***************************************************************************)
\* count_conns
Conns(p, port) == {s \in got[p] : ~Listening(s) /\ s.port = port}

Addresses(p, port) == {s.local : s \in {x \in got[p] : Listening(x) /\ Accepts(x) /\ x.port = port}}

\* fault: the first address speaks for all
LoopbackFirst(p, port) == TRUE \in Addresses(p, port)

LoopbackOnly(p, port) == Addresses(p, port) = {TRUE}

\* display_name: from the executable, from the kernel without one.
Name(p) == IF Known(p, "path") THEN Fact(p, "path").prog.name ELSE Fact(p, "info").prog.name

\* fault: a service is one only if root runs it
RootComponentsOnly(p) ==
  \/ p <= Launchd
  \/ Fact(p, "info").prog.root
       /\ (Name(p) = "service" \/ (Known(p, "path") /\ Fact(p, "path").prog.place = "system"))

SystemComponent(p) ==
  \/ p <= Launchd
  \/ Name(p) = "service"
  \/ Fact(p, "info").prog.root /\ Known(p, "path") /\ Fact(p, "path").prog.place = "system"

\* SelfGuard::protection
Protection(p) == p \in Visited \/ SystemComponent(p)

\* fault: results without their pids, in the order of those that answered
ExtraByPosition(p) ==
  LET before(S) == Cardinality({q \in S : q <= p})
  IN  facts[CHOOSE q \in Asked : Cardinality({r \in Asked : r <= q}) = before(Infos)]

\* extras.get(&pid)
Extra(p) == facts[p]

ParentOf(p) ==
  LET parent == Fact(p, "info").ppid IN IF parent \in Parents THEN facts[parent].brief ELSE {}

Entry(p, port) ==
  [pid |-> p, port |-> port,
   total |-> Cardinality(Conns(p, port)),
   external |-> Cardinality({s \in Conns(p, port) : s.external}),
   loopback_only |-> LoopbackOnly(p, port),
   system |-> SystemComponent(p), protected |-> Protection(p),
   info |-> Fact(p, "info"), path |-> facts[p].path,
   cpu |-> IF Known(p, "before") THEN facts[p].after ELSE {},
   args |-> Extra(p).args, cwd |-> Extra(p).cwd, parent |-> ParentOf(p)]

Build ==
  /\ stage = "build" /\ stage' = "done"
  /\ entries' = {Entry(g[1], g[2]) : g \in {x \in Grouped : x[1] \in Infos}}
  /\ UNCHANGED <<walk, machine, home, facts, guard>>

Done == stage = "done" /\ UNCHANGED allVars
-----------------------------------------------------------------------------
CollectInit ==
  /\ Init /\ home \in Homes /\ table[home].alive
  /\ facts = [p \in Pids |-> [c \in Calls |-> Unasked]]
  /\ lineage = <<>> /\ cursor = 0 /\ entries = {}

Scanning == (List \/ \E p \in Pids : Thread(p)) /\ UNCHANGED <<home, edev>>

Asking ==
  \E p \in Pids :
    TaskInfo(p) \/ PidPath(p) \/ CpuBefore(p) \/ CpuAfter(p) \/ Cmdline(p) \/ Cwd(p) \/ Brief(p)

\* edev outlives its parent, too.
Environment ==
  /\ \E p \in Pids : Machine(p)
  /\ home' = IF table'[home].alive THEN home ELSE Launchd
  /\ UNCHANGED edev

Guarding == NewGuard \/ Hop \/ GuardDone

CollectNext == Scanning \/ Group \/ Asking \/ Rounds \/ Guarding \/ Build \/ Environment \/ Done

CollectSpec == CollectInit /\ [][CollectNext]_allVars
-----------------------------------------------------------------------------
Steady(p, s) == <<p, s>> \notin fleeting /\ p \notin truncated

\* What the kernel says of a socket that takes what comes to its port, and of
\* one that has a peer.
Serves(s) ==
  /\ s.port # 0
  /\ (s.kind = "tcp" /\ s.state = "listen") \/ (s.kind = "udp" /\ s.state = "unconnected")

Connected(s) == s.kind = "tcp" /\ s.state = "established"

\* --ports and --udp
AskedFor(s) == s.port \in Accepted /\ (Udp \/ s.kind # "udp")

(***************************************************************************)
(* scan.rs:19-22: the scan filters nothing but what it is told to.  A      *)
(* socket that a readable process serves a port with all along is in the   *)
(* result, whatever else starts, exits, opens, connects or closes          *)
(* meanwhile, unless its descriptors did not fit.                          *)
(***************************************************************************)
NothingMissed ==
  stage = "done" =>
    \A p \in Pids, s \in Socks :
      Steady(p, s) /\ Serves(s) /\ AskedFor(s)
        => \E e \in entries : e.pid = p /\ e.port = s.port

(***************************************************************************)
(* model.rs:103: an entry is a process listening on a port.  A port it     *)
(* only has connections on, an outgoing UDP socket, a raw one, or one that *)
(* is not bound makes none, even if a descriptor's number has passed from  *)
(* a listener to it.                                                       *)
(***************************************************************************)
NothingInvented ==
  \A e \in entries : \E s \in Socks :
    <<e.pid, s>> \in shown /\ Serves(s) /\ AskedFor(s) /\ s.port = e.port

(***************************************************************************)
(* scan.rs:126-128: the connections on a listening port are all counted,   *)
(* in whatever order the descriptors are read.                             *)
(***************************************************************************)
ConnsCounted ==
  \A e \in entries :
    Cardinality({s \in Socks : Steady(e.pid, s) /\ Connected(s) /\ s.port = e.port}) <= e.total

(***************************************************************************)
(* classify.rs:374: "bound to loopback" counts as evidence of a dev server.*)
(* It is not said of a port that was open to the network all along.        *)
(***************************************************************************)
BoundAsSaid ==
  \A e \in entries : e.loopback_only =>
    ~\E s \in Socks : Steady(e.pid, s) /\ Serves(s) /\ AskedFor(s) /\ s.port = e.port /\ ~s.local

(***************************************************************************)
(* An entry is about one process.  If its pid named the same process, with *)
(* the same program, during the whole scan, so says every fact, and none   *)
(* that the user may read is missing; and so for its parent.               *)
(***************************************************************************)
About(p, fact, due) == (due => fact # {}) /\ \A id \in fact : id.gen = table[p].gen

EntriesWhole ==
  \A e \in entries : e.pid \notin renewed =>
    /\ About(e.pid, e.path, table[e.pid].prog.place # "lost")
    /\ About(e.pid, e.args, TRUE) /\ About(e.pid, e.cwd, TRUE) /\ About(e.pid, e.cpu, FALSE)
    /\ LET parent == e.info.ppid
       IN  parent \in Pids \ renewed => About(parent, e.parent, Readable(parent))

\* edev's ancestors below pid 1, by the kernel's table, up to the first that
\* could not be read at some time: whoever is in every set that has edev's
\* parent and, with a process that could be read, the parent of that.
Shut(S) == \A p \in S \ barred : table[p].ppid \in Pids => table[p].ppid \in S

Shielded ==
  {p \in Pids \ {Launchd} : \A S \in SUBSET Pids : home \in S /\ Shut(S) => p \in S}

(***************************************************************************)
(* README.md:50-51, scan.rs:93: whatever exits and whoever gets its pid    *)
(* while edev scans and walks, the entry of an ancestor of edev is         *)
(* protected, up to the first that could not be read and if the rounds     *)
(* were enough (module SelfGuard shows what happens beyond); and so is     *)
(* that of a process that has been part of the system all along.           *)
(***************************************************************************)
Spared ==
  \A e \in entries :
    /\ e.pid \in Shielded /\ Cardinality(Shielded) < MaxHops => e.protected
    /\ e.pid \notin renewed =>
         LET prog == table[e.pid].prog
         IN  e.pid = Launchd \/ prog.name = "service" \/ (prog.root /\ prog.place = "system")
             => e.protected
=============================================================================
