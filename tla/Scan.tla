-------------------------------- MODULE Scan --------------------------------
(***************************************************************************)
(* platform::scan of macos.rs, which walks every pid in parallel and reads *)
(* its sockets one system call at a time.  Processes start, exit, run      *)
(* another program, open, connect and close sockets between any two of     *)
(* these calls, and a descriptor's number may name another socket by the   *)
(* time it is read.  Module Collect goes on from here.                     *)
(*                                                                         *)
(* Operators marked "fault" are plausible bugs of the definition below     *)
(* them; the specification does not use them.                              *)
(***************************************************************************)
EXTENDS Integers, FiniteSets

CONSTANTS
  Pids,           \* Launchd among them
  Programs,       \* what a process may run: [readable, root, name, place]
  Socks,          \* open descriptors: [fd, kind, state, port, local, external]
  Starts,         \* process tables a scan may start from
  Accepted,       \* the ports that --ports accepts
  Udp,            \* --udp
  MinFds, Slack,  \* room made for file descriptors: 64 and 64 in the code
  MaxChurn        \* bound: changes of the process table during a scan

Rows ==
  [alive : BOOLEAN, open : SUBSET Socks, ppid : Nat, gen : Nat, prog : Programs]

Launchd == 1

\* A dead process holds nothing; a descriptor's number names one thing.
Sound(t) ==
  \A p \in DOMAIN t :
    /\ t[p].open # {} => t[p].alive
    /\ \A s, x \in t[p].open : s.fd = x.fd => s = x

\* Pid 1 is there, nobody's child; the parent of a living process is alive.
Rooted(t) ==
  /\ t[Launchd].alive /\ t[Launchd].ppid = 0
  /\ \A p \in DOMAIN t : t[p].alive => t[p].ppid = 0 \/ t[t[p].ppid].alive

ASSUME ScanAssumption ==
  /\ Pids \subseteq Nat \ {0} /\ Launchd \in Pids /\ IsFiniteSet(Pids) /\ IsFiniteSet(Socks)
  /\ \A s \in Socks : /\ s.fd \in Nat /\ s.port \in Nat
                      /\ s.kind \in {"tcp", "udp", "raw", "unix", "file"}
                      /\ s.kind = "udp" => s.state \in {"unconnected", "connected"}
  /\ {MinFds, Slack, MaxChurn} \subseteq Nat
  /\ \A t \in Starts :
       /\ t \in [Pids -> Rows] /\ Sound(t) /\ Rooted(t)
       /\ \A p \in Pids : t[p].gen = 0 /\ t[p].ppid \in Pids \cup {0}

VARIABLES
  table,       \* pid -> [alive, open, ppid, gen, prog], the kernel's; gen tells
               \* the programs apart that have run under a pid
  stage,       \* "list", "walk", then the stages of Collect up to "done"
  seen,        \* the pids listed
  at,          \* pid -> next step of its scan_pid
  room,        \* pid -> how many descriptors it asks for
  todo, got,   \* pid -> numbers of descriptors still to look at; sockets kept
  denied,      \* ScanStats::pids_denied
  churn,       \* bound: changes so far
  fleeting,    \* history: <<pid, socket>> not open and readable all along
  shown,       \* history: <<pid, socket>> that were open at some time
  renewed,     \* history: pids whose process exited, started or changed program
  truncated,   \* history: pids whose descriptors did not fit
  refused,     \* history: pids whose BSDInfo the kernel refused
  barred       \* history: pids of living processes that could not be read

walk    == <<seen, at, room, todo, got, denied, truncated, refused>>
machine == <<table, churn, fleeting, shown, renewed, barred>>
vars    == <<stage, walk, machine>>

Readable(p) == table[p].alive /\ table[p].prog.readable

\* fault: a UDP socket is taken for a listener although it has a peer
RoleOfAnyUdp(s) ==
  CASE s.kind = "tcp" /\ s.state = "listen"      -> "listen"
    [] s.kind = "tcp" /\ s.state = "established" -> "established"
    [] s.kind = "udp" -> "listen"
    [] OTHER -> "none"

\* What scan_pid makes of a descriptor: TCP in another state, other protocols,
\* files and UDP sockets with a peer are passed over.
Role(s) ==
  CASE s.kind = "tcp" /\ s.state = "listen"      -> "listen"
    [] s.kind = "tcp" /\ s.state = "established" -> "established"
    [] s.kind = "udp" /\ s.state = "unconnected" -> "listen"
    [] OTHER -> "none"

Listening(s) == Role(s) = "listen"

\* fault: port 0 is a port
KeptUnbound(s) == Role(s) # "none"

\* to_sock drops what is not bound to a port.
Kept(s) == Role(s) # "none" /\ s.port # 0

\* fault: --ports has no effect
AcceptsAnyPort(s) == s.kind = "udp" => Udp

\* Filter::accepts
Accepts(s) == (s.kind = "udp" => Udp) /\ s.port \in Accepted
-----------------------------------------------------------------------------
(***************************************************************************)
(* platform::scan.  That the kernel can list the pids, and lists all that  *)
(* are alive, is assumed.                                                  *)
(***************************************************************************)
List ==
  /\ stage = "list" /\ stage' = "walk"
  /\ seen' = {p \in Pids : table[p].alive}
  /\ at' = [p \in Pids |-> IF table[p].alive THEN "bsd" ELSE "over"]
  /\ UNCHANGED <<room, todo, got, denied, truncated, refused, machine>>

RoomFor(p) ==
  LET n == Cardinality(table[p].open) IN (IF n > MinFds THEN n ELSE MinFds) + Slack

\* fault: a flag in place of the counter
CountOnce == 1

\* fetch_add, from any thread
CountDenied == denied + 1

\* Any failure to read BSDInfo counts as denied.
Bsd(p) ==
  /\ at[p] = "bsd"
  /\ IF Readable(p)
     THEN /\ room' = [room EXCEPT ![p] = RoomFor(p)]
          /\ at' = [at EXCEPT ![p] = "fds"]
          /\ UNCHANGED <<denied, refused>>
     ELSE /\ denied' = CountDenied
          /\ refused' = IF table[p].alive THEN refused \cup {p} ELSE refused
          /\ at' = [at EXCEPT ![p] = "over"]
          /\ UNCHANGED room
  /\ UNCHANGED <<stage, seen, todo, got, truncated, machine>>

\* proc_fdtype: files are skipped.
SocketFds(open) == {s.fd : s \in {x \in open : x.kind # "file"}}

\* fault: whatever the room made for them
ListAllFds(p) ==
  /\ at[p] = "fds"
  /\ IF ~Readable(p)
     THEN at' = [at EXCEPT ![p] = "over"] /\ UNCHANGED todo
     ELSE at' = [at EXCEPT ![p] = "read"] /\ todo' = [todo EXCEPT ![p] = SocketFds(table[p].open)]
  /\ UNCHANGED <<stage, seen, room, got, denied, truncated, refused, machine>>

\* PROC_PIDLISTFDS fills the buffer and does not tell what was left out.
ListFds(p) ==
  /\ at[p] = "fds"
  /\ IF ~Readable(p)
     THEN at' = [at EXCEPT ![p] = "over"] /\ UNCHANGED <<todo, truncated>>
     ELSE LET open == table[p].open
              fits == Cardinality(open) <= room[p]
          IN  /\ at' = [at EXCEPT ![p] = "read"]
              /\ \E fds \in SUBSET open :
                   /\ IF fits THEN fds = open ELSE Cardinality(fds) = room[p]
                   /\ todo' = [todo EXCEPT ![p] = SocketFds(fds)]
              /\ truncated' = IF fits THEN truncated ELSE truncated \cup {p}
  /\ UNCHANGED <<stage, seen, room, got, denied, refused, machine>>

\* fault: a connection is judged by the sockets read before it
FoundAtOnce(p, n) ==
  {s \in table[p].open :
     /\ s.fd = n /\ Readable(p) /\ Kept(s)
     /\ Listening(s) \/ \E l \in got[p] : Listening(l) /\ l.port = s.port}

\* The socket that number n names by now, if it is one to keep.
Found(p, n) == {s \in table[p].open : s.fd = n /\ Readable(p) /\ Kept(s)}

\* fault: a descriptor that was closed meanwhile ends the walk
StopAtClosed(p) ==
  /\ at[p] = "read" /\ todo[p] # {}
  /\ \E n \in todo[p] :
       /\ todo' = [todo EXCEPT ![p] = IF \E s \in table[p].open : s.fd = n THEN @ \ {n} ELSE {}]
       /\ got' = [got EXCEPT ![p] = @ \cup Found(p, n)]
  /\ UNCHANGED <<stage, seen, at, room, denied, truncated, refused, machine>>

\* One descriptor, by its number.
ReadFd(p) ==
  /\ at[p] = "read" /\ todo[p] # {}
  /\ \E n \in todo[p] :
       /\ todo' = [todo EXCEPT ![p] = @ \ {n}]
       /\ got' = [got EXCEPT ![p] = @ \cup Found(p, n)]
  /\ UNCHANGED <<stage, seen, at, room, denied, truncated, refused, machine>>

\* retain_own_listen_ports
Retain(p) ==
  /\ at[p] = "read" /\ todo[p] = {}
  /\ at' = [at EXCEPT ![p] = "over"]
  /\ got' = [got EXCEPT ![p] =
       {s \in @ : Listening(s) \/ \E l \in @ : Listening(l) /\ l.port = s.port}]
  /\ UNCHANGED <<stage, seen, room, todo, denied, truncated, refused, machine>>
-----------------------------------------------------------------------------
(***************************************************************************)
(* The rest of the machine.                                                *)
(***************************************************************************)
Holding(t) == {h \in Pids \X Socks : h[2] \in t[h[1]].open}
Visible(t) == {h \in Holding(t) : t[h[1]].prog.readable}
Private(t) == {p \in Pids : t[p].alive /\ ~t[p].prog.readable}

Change(rows) ==
  /\ stage # "done" /\ churn < MaxChurn /\ churn' = churn + 1
  /\ table' = rows
  /\ fleeting' = fleeting \cup ((Pids \X Socks) \ (Visible(table) \cap Visible(rows)))
  /\ shown' = shown \cup Holding(rows)
  /\ renewed' = renewed \cup
       {p \in Pids : rows[p].gen # table[p].gen \/ rows[p].alive # table[p].alive}
  /\ barred' = barred \cup Private(rows)
  /\ UNCHANGED <<stage, walk>>

Become(p, row) == Change([table EXCEPT ![p] = row])

Living == {p \in Pids : table[p].alive}

\* Its children become children of pid 1, which does not exit.
ExitProc(p) ==
  /\ p # Launchd /\ table[p].alive
  /\ Change([q \in Pids |->
       IF q = p THEN [table[p] EXCEPT !.alive = FALSE, !.open = {}]
       ELSE [table[q] EXCEPT !.ppid = IF @ = p THEN Launchd ELSE @]])

\* A new process may get the pid of a dead one.
Start(p) ==
  /\ ~table[p].alive
  /\ \E prog \in Programs, parent \in Living :
       Become(p, [alive |-> TRUE, open |-> {}, ppid |-> parent,
                  gen |-> table[p].gen + 1, prog |-> prog])

Exec(p) ==
  /\ p # Launchd /\ table[p].alive
  /\ \E prog \in Programs \ {table[p].prog} :
       Become(p, [table[p] EXCEPT !.prog = prog, !.gen = @ + 1])

Open(p) ==
  /\ table[p].alive
  /\ \E s \in Socks :
       /\ \A x \in table[p].open : x.fd # s.fd
       /\ Become(p, [table[p] EXCEPT !.open = @ \cup {s}])

Close(p) == \E s \in table[p].open : Become(p, [table[p] EXCEPT !.open = @ \ {s}])

\* A socket listens, connects or loses its peer, or its number is closed and
\* taken again at once.
Alter(p) ==
  \E s \in table[p].open : \E x \in Socks \ {s} :
    /\ x.fd = s.fd
    /\ Become(p, [table[p] EXCEPT !.open = (@ \ {s}) \cup {x}])
-----------------------------------------------------------------------------
Init ==
  /\ table \in Starts
  /\ stage = "list" /\ seen = {} /\ at = [p \in Pids |-> "idle"]
  /\ room = [p \in Pids |-> 0] /\ todo = [p \in Pids |-> {}] /\ got = [p \in Pids |-> {}]
  /\ denied = 0
  /\ churn = 0 /\ fleeting = (Pids \X Socks) \ Visible(table) /\ shown = Holding(table)
  /\ renewed = {} /\ truncated = {} /\ refused = {} /\ barred = Private(table)

Thread(p) == Bsd(p) \/ ListFds(p) \/ ReadFd(p) \/ Retain(p)

Machine(p) == ExitProc(p) \/ Start(p) \/ Exec(p) \/ Open(p) \/ Close(p) \/ Alter(p)
-----------------------------------------------------------------------------
\* Types; no more descriptors are looked at than there was room for.
TypeOK ==
  /\ table \in [Pids -> [alive : BOOLEAN, open : SUBSET Socks, ppid : Pids \cup {0},
                        gen : 0..MaxChurn, prog : Programs]]
  /\ seen \subseteq Pids
  /\ at \in [Pids -> {"idle", "bsd", "fds", "read", "over"}]
  /\ \A p \in Pids : Cardinality(todo[p]) <= room[p] /\ Cardinality(got[p]) <= room[p]
  /\ denied \in 0..Cardinality(seen)

(***************************************************************************)
(* The footer's advice to use sudo: every process listed that could not be *)
(* read is counted, by however many threads at once.                       *)
(***************************************************************************)
DeniedCounted ==
  stage = "done" =>
    Cardinality({p \in seen \ renewed : ~table[p].prog.readable}) <= denied

(***************************************************************************)
(* model.rs:132: pids_denied counts the processes refused for want of      *)
(* permission.  It also counts those that exited in time (macos.rs:55-57). *)
(***************************************************************************)
DeniedMeansRefused == denied = Cardinality(refused)
=============================================================================
