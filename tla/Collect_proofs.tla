--------------------------- MODULE Collect_proofs ---------------------------
(***************************************************************************)
(* For any number of processes, sockets and changes of the machine: a scan *)
(* misses no socket that was there all along, invents none, and says of    *)
(* none that was open to the network that it is bound to loopback; it      *)
(* counts all connections and all processes that could not be read; an     *)
(* entry is about one process, and protected if that is to be spared.      *)
(*                                                                         *)
(* The inductive invariant follows a socket that stays: while its process  *)
(* is walked it is among the descriptors still to be read or those kept,   *)
(* then among those kept; and once its process is asked for its facts, it  *)
(* answers.  Of the walk to edev's ancestors it keeps what is still a      *)
(* chain of living processes up from edev.                                 *)
(***************************************************************************)
EXTENDS Collect, Induction, FiniteSetTheorems, TLAPS

Whos == [gen : Nat, ppid : Nat, prog : Programs]

Stages ==
  {"list", "walk", "guard", "build", "done"} \cup {"info", "before", "after", "extras", "parents"}

Typed ==
  /\ table \in [Pids -> Rows] /\ Sound(table)
  /\ stage \in Stages
  /\ at \in [Pids -> {"idle", "bsd", "fds", "read", "over"}]
  /\ todo \in [Pids -> SUBSET Nat] /\ got \in [Pids -> SUBSET Socks]
  /\ facts \in [Pids -> [Calls -> SUBSET (Whos \cup Unasked)]]

\* What was open and readable all along still is.
StillThere ==
  \A p \in Pids, s \in Socks : <<p, s>> \notin fleeting => s \in table[p].open /\ Readable(p)

\* Where a steady socket is while its process is walked, and afterwards.
Followed ==
  \A p \in Pids, s \in Socks : Steady(p, s) /\ Kept(s) =>
    /\ at[p] = "read" => s.fd \in todo[p] \/ s \in got[p]
    /\ at[p] = "over" /\ Listening(s) => s \in got[p]

WalkOver == stage \notin {"list", "walk"} => \A p \in Pids : at[p] = "over"

\* What was read has been open, and was one to keep.
SeenOpen ==
  \A p \in Pids, s \in Socks :
    /\ s \in table[p].open \cup got[p] => <<p, s>> \in shown
    /\ s \in got[p] => Kept(s)

\* A process with a steady socket answers when it is asked, and it is asked.
Answering ==
  /\ \A p \in Pids, s \in Socks :
       Steady(p, s) => facts[p].info = Unasked \/ Known(p, "info")
  /\ stage \in {"before", "after", "extras", "parents", "guard", "build"} =>
       \A p \in Asked : facts[p].info # Unasked

IInv ==
  /\ Typed /\ StillThere /\ Followed /\ WalkOver /\ SeenOpen /\ Answering
  /\ NothingMissed /\ NothingInvented /\ BoundAsSaid
-----------------------------------------------------------------------------
\* What scan_pid makes of a descriptor is what the kernel says of it.
LEMMA Roles ==
  ASSUME NEW s \in Socks
  PROVE  /\ Serves(s) <=> Kept(s) /\ Listening(s)
         /\ Connected(s) /\ s.port # 0 => Kept(s) /\ ~Listening(s)
         /\ AskedFor(s) <=> Accepts(s)
         /\ Kept(s) => s.kind # "file"
<1>1. /\ s.kind \in {"tcp", "udp", "raw", "unix", "file"}
      /\ s.kind = "udp" => s.state \in {"unconnected", "connected"}
  BY ScanAssumption
<1>2. Listening(s) <=> (s.kind = "tcp" /\ s.state = "listen") \/ (s.kind = "udp" /\ s.state = "unconnected")
  BY <1>1 DEF Listening, Role
<1>3. /\ s.kind = "tcp" /\ s.state = "established" => Role(s) = "established"
      /\ Role(s) # "none" => s.kind # "file"
      /\ Role(s) = "listen" => Role(s) # "none"
      /\ Role(s) = "established" => Role(s) # "none" /\ Role(s) # "listen"
  BY <1>1 DEF Role
<1> QED
  BY <1>2, <1>3 DEF Serves, Connected, AskedFor, Accepts, Kept, Listening

LEMMA InitLemma == CollectInit => IInv
<1> SUFFICES ASSUME CollectInit PROVE IInv
  OBVIOUS
<1>1. Typed
  BY ScanAssumption DEF CollectInit, Init, Typed, Stages
<1>2. StillThere /\ SeenOpen
  BY <1>1, ScanAssumption
  DEF CollectInit, Init, StillThere, SeenOpen, Holding, Visible, Readable, Typed, Sound
<1>3. Followed /\ WalkOver /\ Answering
  BY DEF CollectInit, Init, Followed, WalkOver, Answering, Calls, Asked
<1>4. NothingMissed /\ NothingInvented /\ BoundAsSaid
  BY DEF CollectInit, Init, NothingMissed, NothingInvented, BoundAsSaid
<1> QED
  BY <1>1, <1>2, <1>3, <1>4 DEF IInv

(***************************************************************************)
(* The walk.                                                               *)
(***************************************************************************)
\* What only reads leaves the facts, the entries and the machine alone.
LEMMA WalkFrame ==
  ASSUME IInv, stage \in {"list", "walk"}, stage' \in {"list", "walk"},
         UNCHANGED <<machine, home, edev>>, Followed', SeenOpen',
         truncated \subseteq truncated',
         at' \in [Pids -> {"idle", "bsd", "fds", "read", "over"}],
         todo' \in [Pids -> SUBSET Nat], got' \in [Pids -> SUBSET Socks]
  PROVE  IInv'
<1> USE DEF IInv, machine, edev
<1>1. \A p, s : Steady(p, s)' => Steady(p, s)
  BY DEF Steady
<1>2. Typed'
  BY DEF Typed, Stages
<1>3. StillThere'
  BY DEF StillThere, Readable
<1>4. WalkOver'
  BY DEF WalkOver
<1>5. Answering'
  BY <1>1 DEF Answering, Known
<1>6. NothingMissed' /\ NothingInvented' /\ BoundAsSaid'
  BY <1>1 DEF NothingMissed, NothingInvented, BoundAsSaid
<1> QED
  BY <1>2, <1>3, <1>4, <1>5, <1>6

\* Every process alive is to be walked; a dead one has no steady socket.
LEMMA ListLemma ==
  ASSUME IInv, List, UNCHANGED <<home, edev>>
  PROVE  IInv'
<1> USE DEF IInv
<1>1. /\ UNCHANGED <<machine, truncated, todo, got>> /\ stage = "list" /\ stage' = "walk"
      /\ at' = [p \in Pids |-> IF table[p].alive THEN "bsd" ELSE "over"]
  BY DEF List
<1>2. Followed'
  BY <1>1 DEF Followed, Steady, StillThere, Readable, machine
<1>3. SeenOpen'
  BY <1>1 DEF SeenOpen, machine
<1> QED
  BY <1>1, <1>2, <1>3, WalkFrame DEF Typed

LEMMA BsdLemma ==
  ASSUME IInv, NEW p \in Pids, Bsd(p), UNCHANGED <<home, edev>>
  PROVE  IInv'
<1> USE DEF IInv
<1>1. /\ UNCHANGED <<stage, machine, truncated, todo, got>> /\ at[p] = "bsd"
      /\ at' = [at EXCEPT ![p] = IF Readable(p) THEN "fds" ELSE "over"]
  BY DEF Bsd
<1>2. stage \in {"list", "walk"}
  BY <1>1 DEF WalkOver
<1>3. Followed'
  <2> SUFFICES ASSUME NEW q \in Pids, NEW s \in Socks, Steady(q, s)', Kept(s)
               PROVE  /\ at'[q] = "read" => s.fd \in todo'[q] \/ s \in got'[q]
                      /\ at'[q] = "over" /\ Listening(s) => s \in got'[q]
    BY DEF Followed
  <2>1. Steady(q, s)
    BY <1>1 DEF Steady, machine
  <2>2. Readable(q)
    BY <2>1 DEF StillThere, Steady
  <2>3. CASE q = p
    BY <1>1, <2>2, <2>3 DEF Typed
  <2>4. CASE q # p
    BY <1>1, <2>1, <2>4 DEF Followed, Typed
  <2> QED
    BY <2>3, <2>4
<1>4. SeenOpen'
  BY <1>1 DEF SeenOpen, machine
<1> QED
  BY <1>1, <1>2, <1>3, <1>4, WalkFrame DEF Typed

\* What does not fit its room is steady no more.
LEMMA ListFdsLemma ==
  ASSUME IInv, NEW p \in Pids, ListFds(p), UNCHANGED <<home, edev>>
  PROVE  IInv'
<1> USE DEF IInv
<1> DEFINE fits == Cardinality(table[p].open) <= room[p]
<1>1. UNCHANGED <<stage, machine, got>> /\ at[p] = "fds"
  BY DEF ListFds
<1>2. stage \in {"list", "walk"}
  BY <1>1 DEF WalkOver
<1>3. CASE ~Readable(p)
  <2>1. UNCHANGED <<todo, truncated>> /\ at' = [at EXCEPT ![p] = "over"]
    BY <1>3 DEF ListFds
  <2>2. Followed'
    <3> SUFFICES ASSUME NEW q \in Pids, NEW s \in Socks, Steady(q, s)', Kept(s)
                 PROVE  /\ at'[q] = "read" => s.fd \in todo'[q] \/ s \in got'[q]
                        /\ at'[q] = "over" /\ Listening(s) => s \in got'[q]
      BY DEF Followed
    <3>1. Steady(q, s)
      BY <1>1, <2>1 DEF Steady, machine
    <3>2. q # p
      BY <1>3, <3>1 DEF StillThere, Steady
    <3> QED
      BY <1>1, <2>1, <3>1, <3>2 DEF Followed, Typed
  <2>3. SeenOpen'
    BY <1>1, <2>1 DEF SeenOpen, machine
  <2> QED
    BY <1>1, <1>2, <2>1, <2>2, <2>3, WalkFrame DEF Typed
<1>4. CASE Readable(p)
  <2>1. PICK fds \in SUBSET table[p].open :
          /\ fits => fds = table[p].open
          /\ todo' = [todo EXCEPT ![p] = SocketFds(fds)]
    BY <1>4 DEF ListFds
  <2>2. /\ at' = [at EXCEPT ![p] = "read"]
        /\ truncated' = IF fits THEN truncated ELSE truncated \cup {p}
    BY <1>4 DEF ListFds
  <2> HIDE DEF fits
  <2>3. SocketFds(fds) \in SUBSET Nat
    <3>1. fds \subseteq Socks
      BY DEF Typed, Rows
    <3> QED
      BY <3>1, ScanAssumption DEF SocketFds
  <2>4. Followed'
    <3> SUFFICES ASSUME NEW q \in Pids, NEW s \in Socks, Steady(q, s)', Kept(s)
                 PROVE  /\ at'[q] = "read" => s.fd \in todo'[q] \/ s \in got'[q]
                        /\ at'[q] = "over" /\ Listening(s) => s \in got'[q]
      BY DEF Followed
    <3>1. Steady(q, s) /\ (q = p => fits)
      BY <1>1, <2>2 DEF Steady, machine
    <3>2. CASE q = p
      <4>1. s \in fds /\ s.kind # "file"
        BY <2>1, <3>1, <3>2, Roles DEF StillThere, Steady
      <4>2. s.fd \in todo'[p]
        BY <2>1, <4>1 DEF SocketFds, Typed
      <4> QED
        BY <2>2, <3>2, <4>2 DEF Typed
    <3>3. CASE q # p
      BY <1>1, <2>1, <2>2, <3>1, <3>3 DEF Followed, Typed
    <3> QED
      BY <3>2, <3>3
  <2>5. SeenOpen'
    BY <1>1, <2>1 DEF SeenOpen, machine, Typed
  <2> QED
    BY <1>1, <1>2, <2>1, <2>2, <2>3, <2>4, <2>5, WalkFrame DEF Typed
<1> QED
  BY <1>3, <1>4

\* A steady socket is still open when its turn comes.
LEMMA ReadFdLemma ==
  ASSUME IInv, NEW p \in Pids, ReadFd(p), UNCHANGED <<home, edev>>
  PROVE  IInv'
<1> USE DEF IInv
<1>1. UNCHANGED <<stage, machine, at, truncated>> /\ at[p] = "read"
  BY DEF ReadFd
<1>2. stage \in {"list", "walk"}
  BY <1>1 DEF WalkOver
<1>3. PICK n \in todo[p] :
        /\ todo' = [todo EXCEPT ![p] = @ \ {n}]
        /\ got' = [got EXCEPT ![p] = @ \cup Found(p, n)]
  BY DEF ReadFd
<1>4. /\ todo'[p] = todo[p] \ {n} /\ got'[p] = got[p] \cup Found(p, n)
      /\ \A q \in Pids : q # p => todo'[q] = todo[q] /\ got'[q] = got[q]
  BY <1>3 DEF Typed
<1>5. Found(p, n) \subseteq table[p].open /\ Found(p, n) \in SUBSET Socks
  BY DEF Found, Typed, Rows
<1>6. Followed'
  <2> SUFFICES ASSUME NEW q \in Pids, NEW x \in Socks, Steady(q, x)', Kept(x)
               PROVE  /\ at'[q] = "read" => x.fd \in todo'[q] \/ x \in got'[q]
                      /\ at'[q] = "over" /\ Listening(x) => x \in got'[q]
    BY DEF Followed
  <2>1. Steady(q, x)
    BY <1>1 DEF Steady, machine
  <2>2. CASE q = p
    <3>1. x \in table[p].open /\ Readable(p)
      BY <2>1, <2>2 DEF StillThere, Steady
    <3>2. x.fd = n => x \in Found(p, n)
      BY <3>1 DEF Found
    <3>3. x.fd \in todo[p] \/ x \in got[p]
      BY <1>1, <2>1, <2>2 DEF Followed
    <3> QED
      BY <1>1, <1>4, <2>2, <3>2, <3>3
  <2>3. CASE q # p
    BY <1>1, <1>4, <2>1, <2>3 DEF Followed
  <2> QED
    BY <2>2, <2>3
<1>7. SeenOpen'
  <2>1. \A s \in Found(p, n) : Kept(s)
    BY DEF Found
  <2> QED
    BY <1>1, <1>4, <1>5, <2>1 DEF SeenOpen, machine
<1>8. todo' \in [Pids -> SUBSET Nat] /\ got' \in [Pids -> SUBSET Socks]
  <2>1. todo[p] \ {n} \in SUBSET Nat /\ got[p] \cup Found(p, n) \in SUBSET Socks
    BY <1>5 DEF Typed
  <2> QED
    BY <1>3, <2>1 DEF Typed
<1> QED
  BY <1>1, <1>2, <1>6, <1>7, <1>8, WalkFrame DEF Typed

LEMMA RetainLemma ==
  ASSUME IInv, NEW p \in Pids, Retain(p), UNCHANGED <<home, edev>>
  PROVE  IInv'
<1> USE DEF IInv
<1> DEFINE kept == {s \in got[p] : Listening(s) \/ \E l \in got[p] : Listening(l) /\ l.port = s.port}
<1>1. UNCHANGED <<stage, machine, todo, truncated>> /\ at[p] = "read" /\ todo[p] = {}
  BY DEF Retain
<1>2. stage \in {"list", "walk"}
  BY <1>1 DEF WalkOver
<1>3. at' = [at EXCEPT ![p] = "over"] /\ got' = [got EXCEPT ![p] = kept]
  BY DEF Retain, Typed
<1>4. kept \subseteq got[p] /\ \A s \in got[p] : Listening(s) => s \in kept
  OBVIOUS
<1> HIDE DEF kept
<1>5. Followed'
  <2> SUFFICES ASSUME NEW q \in Pids, NEW s \in Socks, Steady(q, s)', Kept(s)
               PROVE  /\ at'[q] = "read" => s.fd \in todo'[q] \/ s \in got'[q]
                      /\ at'[q] = "over" /\ Listening(s) => s \in got'[q]
    BY DEF Followed
  <2>1. Steady(q, s)
    BY <1>1 DEF Steady, machine
  <2>2. CASE q = p
    BY <1>1, <1>3, <1>4, <2>1, <2>2 DEF Followed, Typed
  <2>3. CASE q # p
    BY <1>1, <1>3, <2>1, <2>3 DEF Followed, Typed
  <2> QED
    BY <2>2, <2>3
<1>6. SeenOpen'
  BY <1>1, <1>3, <1>4 DEF SeenOpen, machine, Typed
<1> QED
  BY <1>1, <1>2, <1>3, <1>4, <1>5, <1>6, WalkFrame DEF Typed
-----------------------------------------------------------------------------
(***************************************************************************)
(* The questions.                                                          *)
(***************************************************************************)
LEMMA WhoLemma ==
  ASSUME Typed, NEW p \in Pids
  PROVE  Who(p) \in Whos /\ {Who(p)} \notin {{}, Unasked}
<1>1. Who(p) \in Whos
  BY DEF Typed, Who, Whos, Rows
<1>2. Who(p).gen # -1
  BY <1>1 DEF Whos
<1>3. [gen |-> -1] \in Unasked /\ [gen |-> -1].gen = -1
  BY DEF Unasked
<1> QED
  BY <1>1, <1>2, <1>3

\* Where the machine and the sockets stay as they are, the facts matter.
LEMMA AskFrame ==
  ASSUME IInv, UNCHANGED <<walk, machine, home, entries>>,
         stage \notin {"list", "done"}, stage' \in Stages \ {"list", "walk", "done"},
         stage = "walk" => \A p \in Pids : at[p] = "over",
         facts' \in [Pids -> [Calls -> SUBSET (Whos \cup Unasked)]], Answering'
  PROVE  IInv'
<1> USE DEF IInv, walk, machine
<1>1. Typed'
  BY DEF Typed
<1>2. StillThere' /\ Followed' /\ SeenOpen' /\ NothingInvented' /\ BoundAsSaid'
  BY DEF StillThere, Followed, SeenOpen, NothingInvented, BoundAsSaid, Steady, Readable
<1>3. WalkOver'
  BY DEF WalkOver
<1>4. NothingMissed'
  BY DEF NothingMissed
<1> QED
  BY <1>1, <1>2, <1>3, <1>4

LEMMA AskLemma ==
  ASSUME IInv, NEW p \in Pids, NEW c \in Calls, Ask(p, c)
  PROVE  IInv'
<1> USE DEF IInv
<1>1. /\ UNCHANGED <<walk, machine, home, entries, stage>> /\ stage \in DOMAIN Round
      /\ facts[p][c] = Unasked
      /\ facts' = [facts EXCEPT ![p][c] = IF Answers(p, c) THEN {Who(p)} ELSE {}]
  BY DEF Ask, vars
<1>2. stage \in Stages \ {"list", "walk", "done", "guard", "build"}
  BY <1>1 DEF Round, Stages
<1>3. facts' \in [Pids -> [Calls -> SUBSET (Whos \cup Unasked)]]
  BY <1>1, WhoLemma DEF Typed
<1>4. \A q \in Pids : facts'[q].info = facts[q].info
        \/ (q = p /\ c = "info" /\ facts'[q].info = IF Readable(p) THEN {Who(p)} ELSE {})
  BY <1>1 DEF Typed, Calls, Answers
<1>5. {} # Unasked
  BY DEF Unasked
<1>6. Asked' = Asked /\ Asked \subseteq Pids
  BY <1>1 DEF Asked, Grouped, walk
<1>7. Answering'
  <2>1. \A q \in Pids, s \in Socks : Steady(q, s)' => (facts[q].info = Unasked \/ Known(q, "info"))'
    <3> SUFFICES ASSUME NEW q \in Pids, NEW s \in Socks, Steady(q, s)'
                 PROVE  (facts[q].info = Unasked \/ Known(q, "info"))'
      OBVIOUS
    <3>1. Steady(q, s) /\ Readable(q)
      BY <1>1 DEF Steady, StillThere, walk, machine
    <3>2. CASE facts'[q].info = facts[q].info
      BY <3>1, <3>2 DEF Answering, Known
    <3>3. CASE q = p /\ facts'[q].info = {Who(p)}
      BY <3>3, WhoLemma DEF Known
    <3> QED
      BY <1>4, <3>1, <3>2, <3>3
  <2>2. stage' \in {"before", "after", "extras", "parents", "guard", "build"} =>
          \A q \in Asked' : facts'[q].info # Unasked
    BY <1>1, <1>4, <1>5, <1>6, WhoLemma DEF Answering
  <2> QED
    BY <2>1, <2>2 DEF Answering
<1> QED
  BY <1>1, <1>2, <1>3, <1>7, AskFrame

LEMMA AdvanceLemma ==
  ASSUME IInv, Rounds \/ Guarding
  PROVE  IInv'
<1> USE DEF IInv
<1>1. /\ UNCHANGED <<walk, machine, home, facts, entries>>
      /\ stage \in {"info", "before", "after", "extras", "parents", "guard"}
      /\ stage' \in {"before", "after", "extras", "parents", "guard", "build"}
      /\ stage = "info" => Over("info")
  BY DEF Rounds, Advance, Guarding, NewGuard, Hop, GuardDone, edev
<1>2. stage = "info" => \A p \in Asked : facts[p].info # Unasked
  BY <1>1 DEF Over, Round, Wanted
<1>3. Answering'
  BY <1>1, <1>2 DEF Answering, Known, Asked, Grouped, Steady, walk, machine
<1> QED
  BY <1>1, <1>3, AskFrame DEF Stages, Typed

\* With nothing to ask for there is no steady socket to be missed.
LEMMA GroupLemma ==
  ASSUME IInv, Group
  PROVE  IInv'
<1> USE DEF IInv
<1>1. /\ UNCHANGED <<walk, machine, home, facts, entries>> /\ stage = "walk"
      /\ \A p \in Pids : at[p] = "over"
  BY DEF Group, edev
<1>2. CASE Grouped # {}
  <2>1. stage' = "info"
    BY <1>2 DEF Group
  <2>2. Answering'
    BY <1>1, <2>1 DEF Answering, Known, Steady, walk, machine
  <2> QED
    BY <1>1, <2>1, <2>2, AskFrame DEF Stages, Typed
<1>3. CASE Grouped = {}
  <2>1. stage' = "done"
    BY <1>3 DEF Group
  <2>2. Typed'
    BY <1>1, <2>1 DEF Typed, Stages, walk, machine
  <2>3. StillThere' /\ Followed' /\ SeenOpen' /\ NothingInvented' /\ BoundAsSaid' /\ WalkOver'
    BY <1>1 DEF StillThere, Followed, SeenOpen, NothingInvented, BoundAsSaid, WalkOver, Steady,
                Readable, walk, machine
  <2>4. Answering'
    BY <1>1, <2>1 DEF Answering, Known, Steady, walk, machine
  <2>5. \A p \in Pids, s \in Socks : ~(Steady(p, s) /\ Serves(s) /\ AskedFor(s))
    <3> SUFFICES ASSUME NEW p \in Pids, NEW s \in Socks,
                        Steady(p, s), Serves(s), AskedFor(s)
                 PROVE  FALSE
      OBVIOUS
    <3>1. s \in got[p]
      BY <1>1, Roles DEF Followed
    <3>2. <<p, s.port>> \in Grouped
      BY <3>1, Roles DEF Grouped
    <3> QED
      BY <1>3, <3>2
  <2>6. NothingMissed'
    BY <1>1, <2>5 DEF NothingMissed, Steady, walk, machine
  <2> QED
    BY <2>2, <2>3, <2>4, <2>6
<1> QED
  BY <1>2, <1>3

\* Every group has its entry if its process answered.
LEMMA BuildLemma ==
  ASSUME IInv, Build
  PROVE  IInv'
<1> USE DEF IInv
<1>1. /\ UNCHANGED <<walk, machine, home, facts, guard>> /\ stage = "build" /\ stage' = "done"
      /\ entries' = {Entry(g[1], g[2]) : g \in {x \in Grouped : x[1] \in Infos}}
  BY DEF Build
<1>2. Typed'
  BY <1>1 DEF Typed, Stages, walk, machine
<1>3. StillThere' /\ Followed' /\ SeenOpen' /\ WalkOver'
  BY <1>1 DEF StillThere, Followed, SeenOpen, WalkOver, Steady, Readable, walk, machine
<1>4. Answering'
  BY <1>1 DEF Answering, Known, Steady, walk, machine
<1>5. \A e \in entries' : \E g \in Grouped : e.pid = g[1] /\ e.port = g[2]
                             /\ e.loopback_only = LoopbackOnly(g[1], g[2])
  <2>1. \A p, port : /\ Entry(p, port).pid = p /\ Entry(p, port).port = port
                     /\ Entry(p, port).loopback_only = LoopbackOnly(p, port)
    BY DEF Entry
  <2> SUFFICES ASSUME NEW e \in entries'
               PROVE  \E g \in Grouped : e.pid = g[1] /\ e.port = g[2]
                        /\ e.loopback_only = LoopbackOnly(g[1], g[2])
    OBVIOUS
  <2>2. PICK g \in Grouped : e = Entry(g[1], g[2])
    BY <1>1
  <2> QED
    BY <2>1, <2>2
<1>6. \A g \in Grouped : g[1] \in Pids /\ \E s \in got[g[1]] : Listening(s) /\ Accepts(s) /\ s.port = g[2]
  BY DEF Grouped
<1>7. \A p \in Pids, s \in Socks : Steady(p, s) /\ Serves(s) => s \in got[p]
  BY <1>1, Roles DEF Followed, WalkOver
<1>8. NothingMissed'
  <2> SUFFICES ASSUME NEW p \in Pids, NEW s \in Socks, Steady(p, s)', Serves(s), AskedFor(s)
               PROVE  \E e \in entries' : e.pid = p /\ e.port = s.port
    BY DEF NothingMissed
  <2>1. Steady(p, s) /\ s \in got[p]
    BY <1>1, <1>7 DEF Steady, walk, machine
  <2>2. <<p, s.port>> \in Grouped
    BY <2>1, Roles DEF Grouped
  <2>3. p \in Infos
    BY <1>1, <2>1, <2>2 DEF Infos, Asked, Answering
  <2>4. Entry(p, s.port) \in entries'
    BY <1>1, <2>2, <2>3
  <2> QED
    BY <2>4 DEF Entry
<1>9. NothingInvented'
  <2> SUFFICES ASSUME NEW e \in entries'
               PROVE  \E s \in Socks : /\ <<e.pid, s>> \in shown' /\ Serves(s)
                                       /\ AskedFor(s) /\ s.port = e.port
    BY DEF NothingInvented
  <2>1. PICK g \in Grouped : e.pid = g[1] /\ e.port = g[2]
    BY <1>5
  <2>2. PICK s \in got[g[1]] : Listening(s) /\ Accepts(s) /\ s.port = g[2]
    BY <1>6
  <2>3. s \in Socks /\ <<g[1], s>> \in shown /\ Kept(s)
    BY <1>6 DEF Typed, SeenOpen
  <2>4. Serves(s) /\ AskedFor(s)
    BY <2>2, <2>3, Roles
  <2> QED
    BY <1>1, <2>1, <2>2, <2>3, <2>4 DEF machine
<1>10. BoundAsSaid'
  <2> SUFFICES ASSUME NEW e \in entries', e.loopback_only, NEW s \in Socks,
                      Steady(e.pid, s)', Serves(s), AskedFor(s), s.port = e.port, ~s.local
               PROVE  FALSE
    BY DEF BoundAsSaid
  <2>1. PICK g \in Grouped : e.pid = g[1] /\ e.port = g[2] /\ e.loopback_only = LoopbackOnly(g[1], g[2])
    BY <1>5
  <2>2. s \in got[g[1]]
    BY <1>1, <1>6, <1>7, <2>1 DEF Steady, walk, machine
  <2>3. s.local \in Addresses(g[1], g[2])
    BY <2>1, <2>2, Roles DEF Addresses
  <2> QED
    BY <2>1, <2>3 DEF LoopbackOnly
<1> QED
  BY <1>2, <1>3, <1>4, <1>8, <1>9, <1>10
-----------------------------------------------------------------------------
(***************************************************************************)
(* The machine: what changes is steady no more.                            *)
(***************************************************************************)
LEMMA ChangeLemma ==
  ASSUME IInv, NEW rows \in [Pids -> Rows], Sound(rows), Change(rows), UNCHANGED edev
  PROVE  IInv'
<1> USE DEF IInv
<1>1. /\ UNCHANGED <<stage, walk, edev>> /\ table' = rows /\ stage # "done"
      /\ fleeting' = fleeting \cup ((Pids \X Socks) \ (Visible(table) \cap Visible(rows)))
      /\ shown' = shown \cup Holding(rows)
  BY DEF Change
<1>2. \A p, s : Steady(p, s)' => Steady(p, s)
  BY <1>1 DEF Steady, walk
<1>3. Typed'
  BY <1>1 DEF Typed, walk, edev
<1>4. StillThere'
  <2> SUFFICES ASSUME NEW p \in Pids, NEW s \in Socks, <<p, s>> \notin fleeting'
               PROVE  s \in rows[p].open /\ rows[p].alive /\ rows[p].prog.readable
    BY <1>1 DEF StillThere, Readable
  <2>1. <<p, s>> \in Visible(rows)
    BY <1>1
  <2> QED
    BY <2>1 DEF Visible, Holding, Sound
<1>5. Followed' /\ WalkOver'
  BY <1>1, <1>2 DEF Followed, WalkOver, walk
<1>6. SeenOpen'
  <2> SUFFICES ASSUME NEW p \in Pids, NEW s \in Socks, s \in rows[p].open \cup got[p]
               PROVE  <<p, s>> \in shown'
    BY <1>1 DEF SeenOpen, IInv, walk
  <2>1. s \in rows[p].open => <<p, s>> \in Holding(rows)
    BY DEF Holding
  <2> QED
    BY <1>1, <2>1 DEF SeenOpen
<1>7. Answering'
  BY <1>1, <1>2 DEF Answering, Known, Asked, Grouped, walk, edev
<1>8. NothingMissed' /\ NothingInvented' /\ BoundAsSaid'
  BY <1>1, <1>2 DEF NothingMissed, NothingInvented, BoundAsSaid, edev
<1> QED
  BY <1>3, <1>4, <1>5, <1>6, <1>7, <1>8

\* A row of a sound table.
Tidy(row) ==
  row \in Rows /\ (row.open # {} => row.alive) /\ \A s, x \in row.open : s.fd = x.fd => s = x

\* What another set of open sockets leaves of a row.
Opened(row, open) ==
  /\ [row EXCEPT !.open = open] \in Rows /\ [row EXCEPT !.open = open].open = open
  /\ [row EXCEPT !.open = open].alive = row.alive /\ [row EXCEPT !.open = open].gen = row.gen
  /\ [row EXCEPT !.open = open].ppid = row.ppid /\ [row EXCEPT !.open = open].prog = row.prog

LEMMA RowsOpen ==
  ASSUME NEW row \in Rows, NEW open \in SUBSET Socks
  PROVE  Opened(row, open)
BY DEF Rows, Opened

LEMMA BecomeLemma ==
  ASSUME IInv, NEW p \in Pids, NEW row, Tidy(row), Become(p, row), UNCHANGED edev
  PROVE  IInv'
<1> DEFINE rows == [table EXCEPT ![p] = row]
<1>1. rows \in [Pids -> Rows] /\ DOMAIN rows = Pids
  BY DEF IInv, Typed, Tidy
<1>2. \A q \in Pids : rows[q] = IF q = p THEN row ELSE table[q]
  BY DEF IInv, Typed
<1>3. Change(rows)
  BY DEF Become
<1> HIDE DEF rows
<1>4. \A q \in Pids : Tidy(rows[q])
  BY <1>2 DEF IInv, Typed, Sound, Tidy
<1>5. Sound(rows)
  BY <1>1, <1>4 DEF Sound, Tidy
<1> QED
  BY <1>1, <1>3, <1>5, ChangeLemma

LEMMA MachineLemma ==
  ASSUME IInv, NEW p \in Pids, Machine(p), UNCHANGED edev
  PROVE  IInv'
<1> USE ScanAssumption
<1>1. \A q \in Pids : Tidy(table[q])
  BY DEF IInv, Typed, Sound, Tidy
<1>2. CASE ExitProc(p)
  <2> DEFINE rows == [q \in Pids |->
               IF q = p THEN [table[p] EXCEPT !.alive = FALSE, !.open = {}]
               ELSE [table[q] EXCEPT !.ppid = IF @ = p THEN Launchd ELSE @]]
  <2>1. Change(rows)
    BY <1>2 DEF ExitProc
  <2>2. ASSUME NEW q \in Pids PROVE Tidy(rows[q])
    <3>1. CASE q = p
      <4>1. rows[q] = [table[p] EXCEPT !.alive = FALSE, !.open = {}]
        BY <3>1
      <4> HIDE DEF rows
      <4>2. rows[q] \in Rows /\ rows[q].open = {}
        <5>1. table[p] \in Rows
          BY <1>1 DEF Tidy
        <5>2. /\ [table[p] EXCEPT !.alive = FALSE, !.open = {}] \in Rows
              /\ [table[p] EXCEPT !.alive = FALSE, !.open = {}].open = {}
          BY <5>1 DEF Rows
        <5> QED
          BY <4>1, <5>2
      <4> QED
        BY <4>2 DEF Tidy
    <3>2. CASE q # p
      <4>1. rows[q] = [table[q] EXCEPT !.ppid = IF @ = p THEN Launchd ELSE @]
        BY <3>2
      <4> HIDE DEF rows
      <4>2. table[q] \in Rows /\ Launchd \in Nat
        BY <1>1 DEF Launchd, Tidy
      <4>3. rows[q] \in Rows /\ rows[q].open = table[q].open /\ rows[q].alive = table[q].alive
        BY <4>1, <4>2 DEF Rows
      <4> QED
        BY <1>1, <4>3 DEF Tidy
    <3> QED
      BY <3>1, <3>2
  <2>3. DOMAIN rows = Pids
    OBVIOUS
  <2> HIDE DEF rows
  <2>4. rows \in [Pids -> Rows] /\ Sound(rows)
    <3>1. rows = [q \in Pids |-> rows[q]]
      BY DEF rows
    <3>2. \A q \in Pids : rows[q] \in Rows
      BY <2>2 DEF Tidy
    <3> QED
      BY <2>2, <2>3, <3>1, <3>2 DEF Sound, Tidy
  <2> QED
    BY <2>1, <2>4, ChangeLemma
<1>3. CASE Start(p)
  <2>1. PICK prog \in Programs, parent \in Living :
          Become(p, [alive |-> TRUE, open |-> {}, ppid |-> parent,
                     gen |-> table[p].gen + 1, prog |-> prog])
    BY <1>3 DEF Start
  <2>2. Tidy([alive |-> TRUE, open |-> {}, ppid |-> parent,
              gen |-> table[p].gen + 1, prog |-> prog])
    BY <1>1, <2>1 DEF Rows, Living, Tidy
  <2> QED
    BY <2>1, <2>2, BecomeLemma
<1>4. CASE Exec(p)
  <2>1. PICK prog \in Programs :
          Become(p, [table[p] EXCEPT !.prog = prog, !.gen = @ + 1])
    BY <1>4 DEF Exec
  <2>2. Tidy([table[p] EXCEPT !.prog = prog, !.gen = @ + 1])
    <3>1. table[p] \in Rows /\ table[p].gen + 1 \in Nat
      BY <1>1 DEF Rows, Tidy
    <3>2. [table[p] EXCEPT !.prog = prog, !.gen = @ + 1] \in Rows
      BY <2>1, <3>1 DEF Rows
    <3>3. /\ [table[p] EXCEPT !.prog = prog, !.gen = @ + 1].open = table[p].open
          /\ [table[p] EXCEPT !.prog = prog, !.gen = @ + 1].alive = table[p].alive
      BY <3>1 DEF Rows
    <3> QED
      BY <1>1, <3>2, <3>3 DEF Tidy
  <2> QED
    BY <2>1, <2>2, BecomeLemma
<1>5. CASE Open(p)
  <2>1. PICK s \in Socks : /\ \A x \in table[p].open : x.fd # s.fd
                           /\ Become(p, [table[p] EXCEPT !.open = @ \cup {s}])
                           /\ table[p].alive
    BY <1>5 DEF Open
  <2>2. Opened(table[p], table[p].open \cup {s})
    <3>1. table[p].open \cup {s} \subseteq Socks
      BY <1>1 DEF Tidy, Rows
    <3> QED
      BY <1>1, <3>1, RowsOpen DEF Tidy
  <2>3. Tidy([table[p] EXCEPT !.open = table[p].open \cup {s}])
    BY <1>1, <2>1, <2>2 DEF Tidy, Opened
  <2> QED
    BY <2>1, <2>3, BecomeLemma
<1>6. CASE Close(p)
  <2>1. PICK s \in table[p].open : Become(p, [table[p] EXCEPT !.open = @ \ {s}])
    BY <1>6 DEF Close
  <2>2. Opened(table[p], table[p].open \ {s}) /\ table[p].open \ {s} \subseteq table[p].open
    <3>1. table[p].open \ {s} \subseteq Socks
      BY <1>1 DEF Tidy, Rows
    <3> QED
      BY <1>1, <3>1, RowsOpen DEF Tidy
  <2>3. Tidy([table[p] EXCEPT !.open = table[p].open \ {s}])
    BY <1>1, <2>2 DEF Tidy, Opened
  <2> QED
    BY <2>1, <2>3, BecomeLemma
<1>7. CASE Alter(p)
  <2>1. PICK s \in table[p].open, x \in Socks :
          x.fd = s.fd /\ Become(p, [table[p] EXCEPT !.open = (@ \ {s}) \cup {x}])
    BY <1>7 DEF Alter
  <2>2. Opened(table[p], (table[p].open \ {s}) \cup {x})
    <3>1. (table[p].open \ {s}) \cup {x} \subseteq Socks
      BY <1>1 DEF Tidy, Rows
    <3> QED
      BY <1>1, <3>1, RowsOpen DEF Tidy
  <2>3. \A y \in table[p].open \ {s} : y.fd # x.fd
    BY <1>1, <2>1 DEF Tidy
  <2>4. \A y, z \in (table[p].open \ {s}) \cup {x} : y.fd = z.fd => y = z
    BY <1>1, <2>3 DEF Tidy
  <2>5. Tidy([table[p] EXCEPT !.open = (table[p].open \ {s}) \cup {x}])
    BY <1>1, <2>1, <2>2, <2>4 DEF Tidy, Opened
  <2> QED
    BY <2>1, <2>5, BecomeLemma
<1> QED
  BY <1>2, <1>3, <1>4, <1>5, <1>6, <1>7 DEF Machine

LEMMA StutterLemma ==
  ASSUME IInv, UNCHANGED allVars
  PROVE  IInv'
<1> USE DEF IInv
<1>1. UNCHANGED <<stage, walk, machine, home, edev>>
  BY DEF allVars, vars
<1>2. Typed' /\ StillThere' /\ Followed' /\ WalkOver' /\ SeenOpen'
  BY <1>1 DEF Typed, StillThere, Followed, WalkOver, SeenOpen, Steady, Readable, walk, machine, edev
<1>3. Answering'
  BY <1>1 DEF Answering, Steady, Known, Asked, Grouped, walk, machine, edev
<1>4. NothingMissed' /\ NothingInvented' /\ BoundAsSaid'
  BY <1>1 DEF NothingMissed, NothingInvented, BoundAsSaid, Steady, walk, machine, edev
<1> QED
  BY <1>2, <1>3, <1>4

LEMMA StepLemma == ASSUME IInv, [CollectNext]_allVars PROVE IInv'
<1>1. CASE Scanning
  BY <1>1, ListLemma, BsdLemma, ListFdsLemma, ReadFdLemma, RetainLemma DEF Scanning, Thread
<1>2. CASE Group
  BY <1>2, GroupLemma
<1>3. CASE Asking
  BY <1>3, AskLemma
  DEF Asking, TaskInfo, PidPath, CpuBefore, CpuAfter, Cmdline, Cwd, Brief, Calls
<1>4. CASE Rounds \/ Guarding
  BY <1>4, AdvanceLemma
<1>5. CASE Build
  BY <1>5, BuildLemma
<1>6. CASE Environment
  BY <1>6, MachineLemma DEF Environment
<1>7. CASE Done \/ UNCHANGED allVars
  BY <1>7, StutterLemma DEF Done
<1> QED
  BY <1>1, <1>2, <1>3, <1>4, <1>5, <1>6, <1>7 DEF CollectNext

LEMMA Invariance == CollectSpec => []IInv
<1>1. IInv /\ [CollectNext]_allVars => IInv'
  BY StepLemma
<1> QED
  BY <1>1, InitLemma, PTL DEF CollectSpec

(***************************************************************************)
(* No listener that was there and readable all along is missed.            *)
(***************************************************************************)
THEOREM NothingEverMissed == CollectSpec => []NothingMissed
BY Invariance, PTL DEF IInv

(***************************************************************************)
(* Every entry is that of a process that did listen on its port.           *)
(***************************************************************************)
THEOREM NothingEverInvented == CollectSpec => []NothingInvented
BY Invariance, PTL DEF IInv

(***************************************************************************)
(* A port that was open to the network all along is not said to be bound   *)
(* to loopback.                                                            *)
(***************************************************************************)
THEOREM BoundAlwaysAsSaid == CollectSpec => []BoundAsSaid
BY Invariance, PTL DEF IInv
-----------------------------------------------------------------------------
(***************************************************************************)
(* The entries.  A process that is never renewed answers a call at any     *)
(* time or at none, and always as the same; so what is known of it is of   *)
(* it, and what it answers to one call it answers to the others, once the  *)
(* rounds are over.                                                        *)
(***************************************************************************)
\* What is known of a process is what it still would say.
Consistent(p, c) ==
  \/ facts[p][c] = Unasked
  \/ /\ Answers(p, c)
     /\ \E id \in Whos : facts[p][c] = {id} /\ id.gen = table[p].gen /\ id.prog = table[p].prog
  \/ ~Answers(p, c) /\ facts[p][c] = {}

FactsHold == \A p \in Pids \ renewed, c \in Calls : Consistent(p, c)

Asks == {"info", "before", "after", "extras", "parents"}

\* What each round has left behind it.
RoundsOver ==
  /\ stage \in {"list", "walk", "info"} => \A p \in Pids : facts[p].before = Unasked
  /\ stage \in (Asks \cup {"guard", "build"}) \ {"info"} => \A p \in Infos : facts[p].path # Unasked
  /\ stage \in {"extras", "parents", "guard", "build"} =>
       \A p \in Infos : Known(p, "before") => facts[p].after # Unasked
  /\ stage \in {"parents", "guard", "build"} =>
       \A p \in Infos : facts[p].args # Unasked /\ facts[p].cwd # Unasked
  /\ stage \in {"guard", "build"} => \A p \in Parents \cap Pids : facts[p].brief # Unasked

Unbuilt == stage # "done" => entries = {}

WInv == IInv /\ FactsHold /\ RoundsOver /\ Unbuilt /\ EntriesWhole
-----------------------------------------------------------------------------
LEMMA Starting == CollectInit => WInv
BY InitLemma
DEF CollectInit, Init, WInv, FactsHold, Consistent, RoundsOver, Asks, Infos, Asked, Known, Unbuilt,
    EntriesWhole, Calls

\* What only reads, and the machine, leaves the facts alone.
LEMMA WalkStep ==
  ASSUME WInv, IInv', stage \in {"list", "walk"}, stage' \in {"list", "walk", "info", "done"},
         UNCHANGED <<machine, home, edev>>
  PROVE  WInv'
BY DEF WInv, machine, edev, FactsHold, Consistent, Answers, Readable, RoundsOver, Asks, Infos, Asked,
   Known, Unbuilt, EntriesWhole

LEMMA WalkLemma == ASSUME WInv, IInv', Scanning \/ Group PROVE WInv'
<1>1. CASE Scanning
  <2>1. UNCHANGED <<machine, home, edev>> /\ stage \in {"list", "walk"} /\ stage' \in {"list", "walk"}
    <3>1. CASE List
      BY <1>1, <3>1 DEF Scanning, List
    <3>2. ASSUME NEW p \in Pids, Thread(p)
          PROVE  UNCHANGED <<machine, stage>> /\ at[p] # "over"
      BY <3>2 DEF Thread, Bsd, ListFds, ReadFd, Retain
    <3>3. stage \in {"list", "walk"} \/ \A p \in Pids : at[p] = "over"
      BY DEF WInv, IInv, WalkOver
    <3> QED
      BY <1>1, <3>1, <3>2, <3>3 DEF Scanning
  <2> QED
    BY <2>1, WalkStep
<1>2. CASE Group
  BY <1>2, WalkStep DEF Group
<1> QED
  BY <1>1, <1>2
-----------------------------------------------------------------------------
(***************************************************************************)
(* The questions.                                                          *)
(***************************************************************************)
LEMMA QuestionLemma ==
  ASSUME WInv, IInv', NEW p \in Pids, NEW c \in Calls, Ask(p, c)
  PROVE  WInv'
<1>1. /\ UNCHANGED <<walk, machine, home, entries, stage>> /\ stage \in DOMAIN Round
      /\ c \in Round[stage] /\ facts[p][c] = Unasked
      /\ facts' = [facts EXCEPT ![p][c] = IF Answers(p, c) THEN {Who(p)} ELSE {}]
  BY DEF Ask, vars
<1>2. Typed
  BY DEF WInv, IInv
<1>3. /\ facts'[p][c] = IF Answers(p, c) THEN {Who(p)} ELSE {}
      /\ \A q \in Pids, k \in Calls : q # p \/ k # c => facts'[q][k] = facts[q][k]
  BY <1>1, <1>2 DEF Typed
<1>4. \A q \in Pids, k \in Calls : Answers(q, k)' <=> Answers(q, k)
  BY <1>1 DEF Answers, Readable, machine
<1>5. FactsHold'
  <2> SUFFICES ASSUME NEW q \in Pids \ renewed', NEW k \in Calls
               PROVE  Consistent(q, k)'
    BY DEF FactsHold
  <2>1. UNCHANGED <<table, renewed>>
    BY <1>1 DEF machine
  <2>2. CASE q = p /\ k = c
    BY <1>2, <1>3, <1>4, <2>1, <2>2, WhoLemma DEF Consistent, Who
  <2>3. CASE q # p \/ k # c
    BY <1>3, <1>4, <2>1, <2>3 DEF WInv, FactsHold, Consistent
  <2> QED
    BY <2>2, <2>3
<1>6. facts'[p][c] # Unasked
  BY <1>2, <1>3, WhoLemma DEF Unasked
<1>7. \A q \in Pids, k \in Calls : facts[q][k] # Unasked => facts'[q][k] = facts[q][k]
  BY <1>1, <1>3
<1>8. Asked' = Asked /\ Asked \subseteq Pids
  BY <1>1 DEF Asked, Grouped, walk
<1>9. RoundsOver'
  <2>1. stage = "info" => \A q \in Pids : facts'[q].before = facts[q].before
    BY <1>1, <1>3 DEF Round, Calls
  <2>2. stage # "info" => Infos' = Infos /\ \A q \in Pids : facts'[q].info = facts[q].info
    BY <1>1, <1>3, <1>8 DEF Round, Calls, Infos, Known, Asks
  <2>3. stage \in {"extras", "parents"} => \A q \in Pids : facts'[q].before = facts[q].before
    BY <1>1, <1>3 DEF Round, Calls
  <2>4. \A q \in Pids, k \in Calls : facts[q][k] # Unasked => facts'[q][k] # Unasked
    BY <1>7
  <2>5. stage \in Asks /\ stage' = stage /\ Infos \subseteq Pids
    BY <1>1, <1>8 DEF Round, Asks, Infos
  <2> QED
    BY <2>1, <2>2, <2>3, <2>4, <2>5 DEF WInv, RoundsOver, Known, Asks, Calls
<1>10. Unbuilt' /\ EntriesWhole'
  BY <1>1 DEF WInv, Unbuilt, EntriesWhole, Round
<1> QED
  BY <1>5, <1>9, <1>10 DEF WInv

\* A round ends when all its questions are answered.
LEMMA RoundLemma == ASSUME WInv, IInv', Rounds \/ Guarding PROVE WInv'
<1>1. /\ UNCHANGED <<walk, machine, home, facts, entries>>
      /\ stage \in Asks \cup {"guard"} /\ stage' \in (Asks \cup {"guard", "build"}) \ {"info"}
  BY DEF Rounds, Advance, Guarding, NewGuard, Hop, GuardDone, edev, Asks
<1>2. UNCHANGED <<Asked, Infos, Parents>> /\ Infos \subseteq Asked /\ Asked \subseteq Pids
  BY <1>1 DEF Asked, Grouped, Infos, Parents, Known, Fact, walk
<1>3. FactsHold' /\ Unbuilt' /\ EntriesWhole'
  BY <1>1 DEF WInv, FactsHold, Consistent, Answers, Readable, machine, Unbuilt, EntriesWhole, Asks
<1>4. CASE stage = "info"
  <2>1. \A p \in Infos : facts[p].path # Unasked
    <3>1. Over("info")
      BY <1>4 DEF Rounds, Advance, Guarding, NewGuard, Hop, GuardDone
    <3> QED
      BY <3>1 DEF Over, Round, Wanted
  <2>2. stage' \in {"before", "extras"} /\ \A p \in Pids : facts[p].before = Unasked
    BY <1>4 DEF Rounds, Advance, Guarding, NewGuard, Hop, GuardDone, WInv, RoundsOver
  <2> QED
    BY <1>1, <1>2, <1>3, <2>1, <2>2 DEF WInv, RoundsOver, Known, Asks
<1>5. CASE stage = "before"
  BY <1>1, <1>2, <1>3, <1>5 DEF WInv, RoundsOver, Known, Asks, Rounds, Advance, Guarding, NewGuard, Hop, GuardDone
<1>6. CASE stage = "after"
  <2>1. Over("after") /\ stage' = "extras"
    BY <1>6 DEF Rounds, Advance, Guarding, NewGuard, Hop, GuardDone
  <2>2. \A p \in Infos : Known(p, "before") => facts[p].after # Unasked
    BY <2>1 DEF Over, Round, Wanted
  <2> QED
    BY <1>1, <1>2, <1>3, <1>6, <2>1, <2>2 DEF WInv, RoundsOver, Known, Asks
<1>7. CASE stage = "extras"
  <2>1. Over("extras") /\ stage' = "parents"
    BY <1>7 DEF Rounds, Advance, Guarding, NewGuard, Hop, GuardDone
  <2>2. \A p \in Asked : facts[p].args # Unasked
    BY <2>1 DEF Over, Round, Wanted
  <2>3. \A p \in Asked : facts[p].cwd # Unasked
    BY <2>1, <2>2 DEF Over, Round, Wanted
  <2> QED
    BY <1>1, <1>2, <1>3, <1>7, <2>1, <2>2, <2>3 DEF WInv, RoundsOver, Known, Asks
<1>8. CASE stage = "parents"
  <2>1. Over("parents") /\ stage' = "guard"
    BY <1>8 DEF Rounds, Advance, Guarding, NewGuard, Hop, GuardDone
  <2>2. \A p \in Parents : facts[p].brief # Unasked
    BY <2>1 DEF Over, Round, Wanted
  <2> QED
    BY <1>1, <1>2, <1>3, <1>8, <2>1, <2>2 DEF WInv, RoundsOver, Known, Asks
<1>9. CASE stage = "guard"
  <2>1. stage' \in {"guard", "build"}
    BY <1>9 DEF Rounds, Advance, Guarding, NewGuard, Hop, GuardDone
  <2> QED
    BY <1>1, <1>2, <1>3, <1>9, <2>1 DEF WInv, RoundsOver, Known, Asks
<1> QED
  BY <1>1, <1>4, <1>5, <1>6, <1>7, <1>8, <1>9 DEF Asks

\* What is known of a process that is not renewed is of it, and is not
\* missing if it would answer.
LEMMA AboutLemma ==
  ASSUME WInv, NEW p \in Pids \ renewed, NEW c \in Calls, facts[p][c] # Unasked
  PROVE  About(p, facts[p][c], Answers(p, c))
<1>1. Consistent(p, c)
  BY DEF WInv, FactsHold
<1>2. CASE ~Answers(p, c) /\ facts[p][c] = {}
  BY <1>2 DEF About
<1>3. CASE /\ Answers(p, c)
           /\ \E id \in Whos : facts[p][c] = {id} /\ id.gen = table[p].gen /\ id.prog = table[p].prog
  BY <1>3 DEF About
<1> QED
  BY <1>1, <1>2, <1>3 DEF Consistent

LEMMA WholeLemma ==
  ASSUME WInv, stage = "build", NEW p \in Infos \ renewed, NEW port
  PROVE  /\ About(p, facts[p].path, table[p].prog.place # "lost")
         /\ About(p, facts[p].args, TRUE) /\ About(p, facts[p].cwd, TRUE)
         /\ About(p, IF Known(p, "before") THEN facts[p].after ELSE {}, FALSE)
         /\ LET parent == Fact(p, "info").ppid
            IN  parent \in Pids \ renewed => About(parent, ParentOf(p), Readable(parent))
<1>1. p \in Pids \ renewed
  BY DEF Infos, Asked, Grouped
<1>2. Readable(p)
  BY <1>1 DEF WInv, FactsHold, Consistent, Infos, Known, Answers, Calls
<1>3. facts[p].path # Unasked /\ facts[p].args # Unasked /\ facts[p].cwd # Unasked
      /\ (Known(p, "before") => facts[p].after # Unasked)
  BY DEF WInv, RoundsOver, Asks
<1>4. /\ Answers(p, "args") /\ Answers(p, "cwd") /\ Answers(p, "after")
      /\ table[p].prog.place # "lost" => Answers(p, "path")
  BY <1>2 DEF Answers, Readable
<1>5. About(p, facts[p].path, table[p].prog.place # "lost")
  BY <1>1, <1>3, <1>4, AboutLemma DEF About, Calls
<1>6. About(p, facts[p].args, TRUE) /\ About(p, facts[p].cwd, TRUE)
  BY <1>1, <1>3, <1>4, AboutLemma DEF About, Calls
<1>7. About(p, IF Known(p, "before") THEN facts[p].after ELSE {}, FALSE)
  BY <1>1, <1>3, AboutLemma DEF About, Calls
<1> DEFINE parent == Fact(p, "info").ppid
<1>8. ASSUME parent \in Pids \ renewed PROVE About(parent, ParentOf(p), Readable(parent))
  <2>1. parent \in Parents
    BY <1>8, ScanAssumption DEF Parents
  <2>2. facts[parent].brief # Unasked
    BY <1>8, <2>1 DEF WInv, RoundsOver
  <2>3. ParentOf(p) = facts[parent].brief
    BY <2>1 DEF ParentOf
  <2>4. Answers(parent, "brief") <=> Readable(parent)
    BY DEF Answers
  <2> HIDE DEF parent
  <2> QED
    BY <1>8, <2>2, <2>3, <2>4, AboutLemma DEF About, Calls
<1> QED
  BY <1>5, <1>6, <1>7, <1>8

LEMMA EntryLemma == ASSUME WInv, IInv', Build PROVE WInv'
<1>1. /\ UNCHANGED <<walk, machine, home, facts, guard>> /\ stage = "build" /\ stage' = "done"
      /\ entries' = {Entry(g[1], g[2]) : g \in {x \in Grouped : x[1] \in Infos}}
  BY DEF Build
<1>2. FactsHold' /\ RoundsOver' /\ Unbuilt'
  BY <1>1 DEF WInv, FactsHold, Consistent, Answers, Readable, machine, RoundsOver, Unbuilt, Asks
<1>3. EntriesWhole'
  <2> SUFFICES ASSUME NEW g \in Grouped, g[1] \in Infos, g[1] \notin renewed
               PROVE  LET e == Entry(g[1], g[2])
                      IN  /\ About(e.pid, e.path, table[e.pid].prog.place # "lost")
                          /\ About(e.pid, e.args, TRUE) /\ About(e.pid, e.cwd, TRUE)
                          /\ About(e.pid, e.cpu, FALSE)
                          /\ LET parent == e.info.ppid
                             IN  parent \in Pids \ renewed => About(parent, e.parent, Readable(parent))
    <3>1. \A p, port : Entry(p, port).pid = p
      BY DEF Entry
    <3> QED
      BY <1>1, <3>1 DEF EntriesWhole, About, Readable, machine
  <2> DEFINE e == Entry(g[1], g[2])
  <2>1. /\ e.pid = g[1] /\ e.path = facts[g[1]].path /\ e.info = Fact(g[1], "info")
        /\ e.args = facts[g[1]].args /\ e.cwd = facts[g[1]].cwd /\ e.parent = ParentOf(g[1])
        /\ e.cpu = IF Known(g[1], "before") THEN facts[g[1]].after ELSE {}
    BY DEF Entry, Extra
  <2> HIDE DEF e
  <2> QED
    BY <1>1, <2>1, WholeLemma DEF e
<1> QED
  BY <1>2, <1>3 DEF WInv
-----------------------------------------------------------------------------
(***************************************************************************)
(* The machine: a process that is not renewed is what it was.              *)
(***************************************************************************)
LEMMA SameProcess ==
  ASSUME Typed, NEW p \in Pids, Machine(p), NEW q \in Pids, q \notin renewed'
  PROVE  /\ q \notin renewed /\ stage # "done" /\ UNCHANGED <<stage, walk>>
         /\ table'[q].alive = table[q].alive /\ table'[q].gen = table[q].gen
         /\ table'[q].prog = table[q].prog
<1>1. table[p] \in Rows /\ table[q] \in Rows /\ DOMAIN table = Pids
  BY DEF Typed
<1>2. ASSUME NEW rows, Change(rows)
      PROVE  /\ q \notin renewed /\ stage # "done" /\ UNCHANGED <<stage, walk>> /\ table' = rows
             /\ rows[q].alive = table[q].alive /\ rows[q].gen = table[q].gen
  BY <1>2 DEF Change
<1>3. ASSUME NEW row, Become(p, row), row.gen = table[p].gen => row.prog = table[p].prog
      PROVE  /\ q \notin renewed /\ stage # "done" /\ UNCHANGED <<stage, walk>>
             /\ table'[q].alive = table[q].alive /\ table'[q].gen = table[q].gen
             /\ table'[q].prog = table[q].prog
  <2> DEFINE rows == [table EXCEPT ![p] = row]
  <2>1. rows[q] = IF q = p THEN row ELSE table[q]
    BY <1>1
  <2>2. Change(rows)
    BY <1>3 DEF Become
  <2> HIDE DEF rows
  <2> QED
    BY <1>2, <1>3, <2>1, <2>2
<1>4. CASE ExitProc(p)
  <2> DEFINE rows == [r \in Pids |->
               IF r = p THEN [table[p] EXCEPT !.alive = FALSE, !.open = {}]
               ELSE [table[r] EXCEPT !.ppid = IF @ = p THEN Launchd ELSE @]]
  <2>1. Change(rows)
    BY <1>4 DEF ExitProc
  <2>2. rows[q].prog = table[q].prog
    <3>1. CASE q = p
      BY <1>1, <3>1 DEF Rows
    <3>2. CASE q # p
      BY <1>1, <3>2 DEF Rows
    <3> QED
      BY <3>1, <3>2
  <2> HIDE DEF rows
  <2> QED
    BY <1>2, <2>1, <2>2
<1>5. CASE Start(p)
  <2>1. PICK prog \in Programs, parent \in Living :
          Become(p, [alive |-> TRUE, open |-> {}, ppid |-> parent,
                     gen |-> table[p].gen + 1, prog |-> prog])
    BY <1>5 DEF Start
  <2>2. table[p].gen + 1 # table[p].gen
    BY <1>1 DEF Rows
  <2> QED
    BY <1>3, <2>1, <2>2
<1>6. CASE Exec(p)
  <2>1. PICK prog \in Programs : Become(p, [table[p] EXCEPT !.prog = prog, !.gen = @ + 1])
    BY <1>6 DEF Exec
  <2>2. [table[p] EXCEPT !.prog = prog, !.gen = @ + 1].gen # table[p].gen
    BY <1>1 DEF Rows
  <2> QED
    BY <1>3, <2>1, <2>2
<1>7. CASE Open(p)
  <2>1. PICK s \in Socks : Become(p, [table[p] EXCEPT !.open = @ \cup {s}])
    BY <1>7 DEF Open
  <2>2. [table[p] EXCEPT !.open = @ \cup {s}].prog = table[p].prog
    BY <1>1 DEF Rows
  <2> QED
    BY <1>3, <2>1, <2>2
<1>8. CASE Close(p)
  <2>1. PICK s \in table[p].open : Become(p, [table[p] EXCEPT !.open = @ \ {s}])
    BY <1>8 DEF Close
  <2>2. [table[p] EXCEPT !.open = @ \ {s}].prog = table[p].prog
    BY <1>1 DEF Rows
  <2> QED
    BY <1>3, <2>1, <2>2
<1>9. CASE Alter(p)
  <2>1. PICK s \in table[p].open, x \in Socks :
          Become(p, [table[p] EXCEPT !.open = (@ \ {s}) \cup {x}])
    BY <1>9 DEF Alter
  <2>2. [table[p] EXCEPT !.open = (@ \ {s}) \cup {x}].prog = table[p].prog
    BY <1>1 DEF Rows
  <2> QED
    BY <1>3, <2>1, <2>2
<1> QED
  BY <1>4, <1>5, <1>6, <1>7, <1>8, <1>9 DEF Machine

\* Nothing happens once the scan is done, nor to what has been read.
LEMMA MachineFrame ==
  ASSUME NEW p \in Pids, Machine(p)
  PROVE  /\ stage # "done" /\ UNCHANGED <<stage, walk>>
         /\ renewed \subseteq renewed' /\ fleeting \subseteq fleeting'
BY DEF Machine, ExitProc, Start, Exec, Open, Close, Alter, Become, Change

LEMMA OutsideLemma == ASSUME WInv, IInv', Environment PROVE WInv'
<1>1. PICK p \in Pids : Machine(p) /\ UNCHANGED edev
  BY DEF Environment
<1>2. stage # "done" /\ UNCHANGED <<stage, walk, edev>>
  BY <1>1, MachineFrame
<1>3. FactsHold'
  <2> SUFFICES ASSUME NEW q \in Pids, q \notin renewed', NEW c \in Calls
               PROVE  Consistent(q, c)'
    BY DEF FactsHold
  <2>1. /\ q \notin renewed /\ table'[q].alive = table[q].alive
        /\ table'[q].gen = table[q].gen /\ table'[q].prog = table[q].prog
    BY <1>1, SameProcess DEF WInv, IInv
  <2>2. Consistent(q, c)
    BY <2>1 DEF WInv, FactsHold
  <2>3. UNCHANGED facts
    BY <1>2 DEF edev
  <2> QED
    BY <2>1, <2>2, <2>3 DEF Consistent, Answers, Readable
<1>4. RoundsOver'
  BY <1>2 DEF WInv, RoundsOver, Infos, Asked, Grouped, Parents, Known, Fact, walk, edev
<1>5. Unbuilt' /\ EntriesWhole'
  BY <1>2 DEF WInv, Unbuilt, EntriesWhole, edev
<1> QED
  BY <1>3, <1>4, <1>5 DEF WInv

LEMMA StillLemma == ASSUME WInv, IInv', UNCHANGED allVars PROVE WInv'
<1>1. UNCHANGED <<stage, walk, machine, home, edev>>
  BY DEF allVars, vars
<1>2. FactsHold' /\ Unbuilt' /\ EntriesWhole'
  BY <1>1 DEF WInv, FactsHold, Consistent, Answers, Readable, Unbuilt, EntriesWhole, About, machine, edev
<1>3. RoundsOver'
  BY <1>1 DEF WInv, RoundsOver, Infos, Asked, Grouped, Parents, Known, Fact, walk, edev
<1> QED
  BY <1>2, <1>3 DEF WInv

LEMMA WholeStep == ASSUME WInv, [CollectNext]_allVars PROVE WInv'
<1>1. IInv'
  BY StepLemma DEF WInv
<1>2. CASE Scanning \/ Group
  BY <1>1, <1>2, WalkLemma
<1>3. CASE Asking
  BY <1>1, <1>3, QuestionLemma
  DEF Asking, TaskInfo, PidPath, CpuBefore, CpuAfter, Cmdline, Cwd, Brief, Calls
<1>4. CASE Rounds \/ Guarding
  BY <1>1, <1>4, RoundLemma
<1>5. CASE Build
  BY <1>1, <1>5, EntryLemma
<1>6. CASE Environment
  BY <1>1, <1>6, OutsideLemma
<1>7. CASE Done \/ UNCHANGED allVars
  BY <1>1, <1>7, StillLemma DEF Done
<1> QED
  BY <1>2, <1>3, <1>4, <1>5, <1>6, <1>7 DEF CollectNext

(***************************************************************************)
(* An entry is about one process, and its parent about another, if their   *)
(* pids did not change hands during the scan.                              *)
(***************************************************************************)
THEOREM EntriesAlwaysWhole == CollectSpec => []EntriesWhole
<1>1. WInv /\ [CollectNext]_allVars => WInv'
  BY WholeStep
<1>2. WInv => EntriesWhole
  BY DEF WInv
<1> QED
  BY <1>1, <1>2, Starting, PTL DEF CollectSpec
-----------------------------------------------------------------------------
(***************************************************************************)
(* The connections of a port that its process listens on.                  *)
(***************************************************************************)
\* Once a process is walked, steady connections are kept beside a listener.
Accompanied ==
  \A p \in Pids, s \in Socks : Steady(p, s) /\ Kept(s) /\ at[p] = "over" =>
    \A l \in got[p] : Listening(l) /\ l.port = s.port => s \in got[p]

LEMMA AccompaniedWalk ==
  ASSUME IInv, IInv', Accompanied, NEW p \in Pids, Thread(p)
  PROVE  Accompanied'
<1>1. UNCHANGED machine /\ truncated \subseteq truncated'
  BY DEF Thread, Bsd, ListFds, ReadFd, Retain
<1>2. \A q, s : Steady(q, s)' => Steady(q, s)
  BY <1>1 DEF Steady, machine
<1>3. \A q \in Pids : q # p => at'[q] = at[q] /\ got'[q] = got[q]
  BY DEF Thread, Bsd, ListFds, ReadFd, Retain, IInv, Typed
<1> SUFFICES ASSUME NEW q \in Pids, NEW s \in Socks, Steady(q, s)', Kept(s), at'[q] = "over",
                    NEW l \in got'[q], Listening(l), l.port = s.port
             PROVE  s \in got'[q]
  BY DEF Accompanied
<1>4. CASE q # p
  BY <1>2, <1>3, <1>4 DEF Accompanied
<1>5. CASE q = p
  <2>1. Readable(p)
    BY <1>2, <1>5 DEF IInv, StillThere, Steady
  <2>2. Retain(p)
    BY <1>5, <2>1 DEF Thread, Bsd, ListFds, ReadFd, IInv, Typed
  <2>3. s \in got[p]
    BY <1>2, <1>5, <2>2 DEF Retain, IInv, Followed
  <2>4. got'[p] = {x \in got[p] : Listening(x) \/ \E k \in got[p] : Listening(k) /\ k.port = x.port}
    BY <2>2 DEF Retain, IInv, Typed
  <2> QED
    BY <1>5, <2>3, <2>4
<1> QED
  BY <1>4, <1>5

CInv == WInv /\ Accompanied /\ ConnsCounted

LEMMA AccompaniedStep == ASSUME CInv, WInv', [CollectNext]_allVars PROVE Accompanied'
<1> USE DEF CInv
<1>1. CASE List
  BY <1>1 DEF List, Accompanied, Steady, machine, WInv, IInv, StillThere, Readable
<1>2. CASE \E p \in Pids : Thread(p)
  BY <1>2, AccompaniedWalk DEF WInv
<1>3. CASE Group \/ Asking \/ Rounds \/ Guarding \/ Build \/ Done \/ UNCHANGED allVars
  <2>1. UNCHANGED <<walk, machine>>
    BY <1>3 DEF Group, Asking, TaskInfo, PidPath, CpuBefore, CpuAfter, Cmdline, Cwd, Brief, Ask,
                Rounds, Advance, Guarding, NewGuard, Hop, GuardDone, Build, Done, allVars, vars
  <2> QED
    BY <2>1 DEF Accompanied, Steady, walk, machine
<1>4. CASE Environment
  <2>1. UNCHANGED walk /\ fleeting \subseteq fleeting'
    BY <1>4, MachineFrame DEF Environment
  <2> QED
    BY <2>1 DEF Accompanied, Steady, walk
<1> QED
  BY <1>1, <1>2, <1>3, <1>4 DEF CollectNext, Scanning

\* At the end every steady connection is among those that are counted.
LEMMA CountedAtEnd == ASSUME CInv, Build PROVE ConnsCounted'
<1>1. /\ UNCHANGED <<walk, machine>> /\ stage = "build"
      /\ entries' = {Entry(g[1], g[2]) : g \in {x \in Grouped : x[1] \in Infos}}
  BY DEF Build
<1> SUFFICES ASSUME NEW e \in entries'
             PROVE  Cardinality({s \in Socks : Steady(e.pid, s)' /\ Connected(s) /\ s.port = e.port})
                      <= e.total
  BY DEF ConnsCounted
<1>2. PICK g \in Grouped : g[1] \in Infos /\ e = Entry(g[1], g[2])
  BY <1>1
<1> DEFINE due == {s \in Socks : Steady(g[1], s) /\ Connected(s) /\ s.port = g[2]}
<1>3. e.pid = g[1] /\ e.port = g[2] /\ e.total = Cardinality(Conns(g[1], g[2]))
  BY <1>2 DEF Entry
<1>4. g[1] \in Pids /\ \E l \in got[g[1]] : Listening(l) /\ l.port = g[2]
  BY DEF Grouped
<1>5. at[g[1]] = "over"
  BY <1>1, <1>4 DEF CInv, WInv, IInv, WalkOver
<1>6. due \subseteq Conns(g[1], g[2])
  <2>1. g[2] # 0
    BY <1>4 DEF CInv, WInv, IInv, SeenOpen, Typed, Kept
  <2>2. \A s \in due : Kept(s) /\ ~Listening(s)
    BY <2>1, Roles
  <2> QED
    BY <1>4, <1>5, <2>2 DEF CInv, Accompanied, Conns
<1>7. IsFiniteSet(Conns(g[1], g[2]))
  <2>1. Conns(g[1], g[2]) \in SUBSET Socks
    BY <1>4 DEF CInv, WInv, IInv, Typed, Conns
  <2> QED
    BY <2>1, ScanAssumption, FS_Subset
<1>8. Cardinality(due) <= Cardinality(Conns(g[1], g[2]))
  BY <1>6, <1>7, FS_Subset
<1>9. {s \in Socks : Steady(e.pid, s)' /\ Connected(s) /\ s.port = e.port} = due
  BY <1>1, <1>3 DEF Steady, walk, machine
<1> QED
  BY <1>3, <1>8, <1>9

LEMMA CountedStep == ASSUME CInv, [CollectNext]_allVars PROVE CInv'
<1>1. WInv'
  BY WholeStep DEF CInv
<1>2. Accompanied'
  BY <1>1, AccompaniedStep
<1>3. ConnsCounted'
  <2>1. CASE Build
    BY <2>1, CountedAtEnd
  <2>2. CASE stage' # "done"
    BY <1>1, <2>2 DEF ConnsCounted, WInv, Unbuilt
  <2>3. CASE Group
    BY <2>3 DEF Group, edev, CInv, WInv, Unbuilt, ConnsCounted
  <2>4. CASE Done \/ UNCHANGED allVars
    BY <2>4 DEF Done, allVars, vars, walk, machine, edev, CInv, ConnsCounted, Steady
  <2>5. CASE Scanning \/ Asking \/ Rounds \/ Guarding \/ Environment
    <3>1. stage' # "done"
      BY <2>5, MachineFrame
      DEF Scanning, List, Thread, Bsd, ListFds, ReadFd, Retain, Asking, TaskInfo, PidPath, CpuBefore,
          CpuAfter, Cmdline, Cwd, Brief, Ask, Round, vars, Rounds, Advance, Guarding, NewGuard, Hop, GuardDone, Environment,
          WInv, IInv, WalkOver, CInv
    <3> QED
      BY <3>1, <2>2
  <2> QED
    BY <2>1, <2>3, <2>4, <2>5 DEF CollectNext
<1> QED
  BY <1>1, <1>2, <1>3 DEF CInv

LEMMA CountedStart == CollectInit => CInv
<1>1. CollectInit => Accompanied /\ ConnsCounted
  BY DEF CollectInit, Init, Accompanied, ConnsCounted
<1> QED
  BY <1>1, Starting DEF CInv

(***************************************************************************)
(* The connections on a listening port are all counted, in whatever order  *)
(* the descriptors are read.                                               *)
(***************************************************************************)
THEOREM ConnectionsAlwaysCounted == CollectSpec => []ConnsCounted
<1>1. CInv /\ [CollectNext]_allVars => CInv'
  BY CountedStep
<1>2. CInv => ConnsCounted
  BY DEF CInv
<1> QED
  BY <1>1, <1>2, CountedStart, PTL DEF CollectSpec
-----------------------------------------------------------------------------
(***************************************************************************)
(* The processes that could not be read.                                   *)
(***************************************************************************)
\* Those that have been asked, cannot be read, and are what they were.
Unread == {p \in seen : p \notin renewed /\ ~table[p].prog.readable /\ at[p] # "bsd"}

DInv == IInv /\ seen \subseteq Pids /\ denied \in Nat /\ Cardinality(Unread) <= denied

LEMMA UnreadFinite == ASSUME DInv PROVE IsFiniteSet(Unread) /\ Cardinality(Unread) \in Nat
<1>1. Unread \in SUBSET Pids
  BY DEF DInv, Unread
<1> QED
  BY <1>1, ScanAssumption, FS_Subset, FS_CardinalityType

LEMMA AtMostOneMore ==
  ASSUME NEW S, IsFiniteSet(S), NEW x
  PROVE  IsFiniteSet(S \cup {x}) /\ Cardinality(S \cup {x}) <= Cardinality(S) + 1
<1>1. IsFiniteSet(S \cup {x}) /\ Cardinality(S) \in Nat
  BY FS_AddElement, FS_CardinalityType
<1>2. Cardinality(S \cup {x}) = IF x \in S THEN Cardinality(S) ELSE Cardinality(S) + 1
  BY FS_AddElement
<1>3. Cardinality(S \cup {x}) \in {Cardinality(S), Cardinality(S) + 1}
  BY <1>2
<1> QED
  BY <1>1, <1>3

\* Where nobody is added nobody need be counted.
LEMMA NoMoreUnread ==
  ASSUME DInv, IInv', UNCHANGED denied, seen' \subseteq Pids, Unread' \subseteq Unread
  PROVE  DInv'
<1>1. Cardinality(Unread') <= Cardinality(Unread)
  BY UnreadFinite, FS_Subset
<1>2. Cardinality(Unread') \in Nat
  BY UnreadFinite, FS_Subset, FS_CardinalityType
<1> QED
  BY <1>1, <1>2, UnreadFinite DEF DInv

LEMMA DeniedThread ==
  ASSUME DInv, IInv', NEW p \in Pids, Thread(p)
  PROVE  DInv'
<1>1. UNCHANGED <<seen, table, renewed>>
  BY DEF Thread, Bsd, ListFds, ReadFd, Retain, machine
<1>2. CASE ~Bsd(p) \/ Readable(p)
  <2>1. UNCHANGED denied
    BY <1>2 DEF Thread, Bsd, ListFds, ReadFd, Retain
  <2>2. \A q \in Pids : at[q] = "bsd" => at'[q] = "bsd" \/ (q = p /\ Readable(p))
    BY <1>2 DEF Thread, Bsd, ListFds, ReadFd, Retain, DInv, IInv, Typed
  <2>3. Unread' \subseteq Unread
    BY <1>1, <2>2 DEF Unread, Readable, DInv
  <2> QED
    BY <1>1, <2>1, <2>3, NoMoreUnread DEF DInv
<1>3. CASE Bsd(p) /\ ~Readable(p)
  <2>1. denied' = denied + 1 /\ at' = [at EXCEPT ![p] = "over"]
    BY <1>3 DEF Bsd, CountDenied
  <2>2. Unread' \subseteq Unread \cup {p}
    BY <1>1, <2>1 DEF Unread, DInv, IInv, Typed
  <2>3. IsFiniteSet(Unread \cup {p}) /\ Cardinality(Unread \cup {p}) <= Cardinality(Unread) + 1
    BY UnreadFinite, AtMostOneMore
  <2>4. /\ Cardinality(Unread') <= Cardinality(Unread \cup {p})
        /\ Cardinality(Unread') \in Nat /\ Cardinality(Unread \cup {p}) \in Nat
    BY <2>2, <2>3, FS_Subset, FS_CardinalityType
  <2> QED
    BY <1>1, <2>1, <2>3, <2>4, UnreadFinite DEF DInv
<1> QED
  BY <1>2, <1>3

LEMMA DeniedStep == ASSUME DInv, [CollectNext]_allVars PROVE DInv'
<1>1. IInv'
  BY StepLemma DEF DInv
<1>2. CASE List
  <2>1. Unread' = {} /\ UNCHANGED denied /\ seen' \subseteq Pids
    BY <1>2 DEF List, Unread
  <2> QED
    BY <1>1, <2>1, NoMoreUnread
<1>3. CASE \E p \in Pids : Thread(p)
  BY <1>1, <1>3, DeniedThread
<1>4. CASE Group \/ Asking \/ Rounds \/ Guarding \/ Build \/ Done \/ UNCHANGED allVars
  <2>1. UNCHANGED <<walk, machine>>
    BY <1>4 DEF Group, Asking, TaskInfo, PidPath, CpuBefore, CpuAfter, Cmdline, Cwd, Brief, Ask,
                Rounds, Advance, Guarding, NewGuard, Hop, GuardDone, Build, Done, allVars, vars
  <2>2. Unread' = Unread
    BY <2>1 DEF Unread, walk, machine
  <2> QED
    BY <1>1, <2>1, <2>2, NoMoreUnread DEF DInv, walk
<1>5. CASE Environment
  <2>1. PICK p \in Pids : Machine(p)
    BY <1>5 DEF Environment
  <2>2. UNCHANGED walk
    BY <2>1, MachineFrame
  <2>3. \A q \in Pids : q \notin renewed' => q \notin renewed /\ table'[q].prog = table[q].prog
    BY <2>1, SameProcess DEF DInv, IInv
  <2>4. Unread' \subseteq Unread
    BY <2>2, <2>3 DEF Unread, walk, DInv
  <2> QED
    BY <1>1, <2>2, <2>4, NoMoreUnread DEF DInv, walk
<1> QED
  BY <1>2, <1>3, <1>4, <1>5 DEF CollectNext, Scanning

LEMMA DeniedAtEnd == ASSUME DInv PROVE DeniedCounted
<1>1. stage = "done" => Unread = {p \in seen \ renewed : ~table[p].prog.readable}
  BY DEF DInv, IInv, WalkOver, Unread
<1> QED
  BY <1>1 DEF DeniedCounted, DInv

(***************************************************************************)
(* Every process listed that could not be read is counted, by however many *)
(* threads at once.                                                        *)
(***************************************************************************)
THEOREM DeniedAlwaysCounted == CollectSpec => []DeniedCounted
<1>1. CollectInit => DInv
  <2>1. CollectInit => Unread = {} /\ seen = {} /\ denied = 0
    BY DEF CollectInit, Init, Unread
  <2> QED
    BY <2>1, InitLemma, FS_EmptySet DEF DInv
<1>2. DInv /\ [CollectNext]_allVars => DInv'
  BY DeniedStep
<1> QED
  BY <1>1, <1>2, DeniedAtEnd, PTL DEF CollectSpec
-----------------------------------------------------------------------------
(***************************************************************************)
(* Types and limits: what changes is counted, descriptors read had room    *)
(* made for them, and a process is denied once.                            *)
(***************************************************************************)
RowsUpTo(n) ==
  [alive : BOOLEAN, open : SUBSET Socks, ppid : Pids \cup {0}, gen : 0..n, prog : Programs]

TableKept == churn \in 0..MaxChurn /\ table \in [Pids -> RowsUpTo(churn)]

\* What is left to read and what was kept share the room of one process.
RoomKept ==
  /\ room \in [Pids -> Nat]
  /\ \A p \in Pids :
       /\ at[p] \in {"idle", "bsd", "fds"} => todo[p] = {} /\ got[p] = {}
       /\ IsFiniteSet(todo[p])
       /\ Cardinality(todo[p]) + Cardinality(got[p]) <= room[p]

Pending == {p \in Pids : at[p] = "bsd"}

\* Who may yet be denied, and who was, have been seen.
DeniedOnce ==
  /\ stage = "list" => denied = 0 /\ \A p \in Pids : at[p] = "idle"
  /\ seen \subseteq Pids /\ Pending \subseteq seen
  /\ denied \in Nat /\ Cardinality(Pending) + denied <= Cardinality(seen)

TInv == IInv /\ TableKept /\ RoomKept /\ DeniedOnce

LEMMA SmallSets ==
  ASSUME NEW S, S \subseteq Socks \/ S \subseteq Pids
  PROVE  IsFiniteSet(S) /\ Cardinality(S) \in Nat
<1>1. IsFiniteSet(S)
  BY ScanAssumption, FS_Subset
<1> QED
  BY <1>1, FS_CardinalityType

LEMMA KeptTypes == ASSUME TInv PROVE TypeOK
<1>1. table \in [Pids -> [alive : BOOLEAN, open : SUBSET Socks, ppid : Pids \cup {0},
                          gen : 0..MaxChurn, prog : Programs]]
  <2>1. 0..churn \subseteq 0..MaxChurn
    BY ScanAssumption DEF TInv, TableKept
  <2> QED
    BY <2>1 DEF TInv, TableKept, RowsUpTo
<1>2. \A p \in Pids : Cardinality(todo[p]) <= room[p] /\ Cardinality(got[p]) <= room[p]
  <2> SUFFICES ASSUME NEW p \in Pids
               PROVE  Cardinality(todo[p]) <= room[p] /\ Cardinality(got[p]) <= room[p]
    OBVIOUS
  <2>1. Cardinality(todo[p]) \in Nat /\ Cardinality(got[p]) \in Nat
    BY SmallSets, FS_CardinalityType DEF TInv, IInv, Typed, RoomKept
  <2>2. room[p] \in Nat /\ Cardinality(todo[p]) + Cardinality(got[p]) <= room[p]
    BY DEF TInv, RoomKept
  <2> QED
    BY <2>1, <2>2
<1>3. denied \in 0..Cardinality(seen)
  <2>1. Cardinality(Pending) \in Nat /\ Cardinality(seen) \in Nat
    BY SmallSets DEF TInv, DeniedOnce, Pending
  <2> QED
    BY <2>1 DEF TInv, DeniedOnce
<1> QED
  BY <1>1, <1>2, <1>3 DEF TypeOK, TInv, IInv, Typed, DeniedOnce

LEMMA TypesAtStart == CollectInit => TInv
<1> SUFFICES ASSUME CollectInit PROVE TInv
  OBVIOUS
<1>1. TableKept
  <2>1. table \in [Pids -> Rows] /\ \A p \in Pids : table[p].gen = 0 /\ table[p].ppid \in Pids \cup {0}
    BY ScanAssumption DEF CollectInit, Init
  <2>2. \A p \in Pids : table[p] \in RowsUpTo(0)
    BY <2>1 DEF RowsUpTo, Rows
  <2> QED
    BY <2>1, <2>2, ScanAssumption DEF TableKept, CollectInit, Init
<1>2. RoomKept
  BY FS_EmptySet DEF CollectInit, Init, RoomKept
<1>3. DeniedOnce
  <2>1. Pending = {} /\ seen = {} /\ denied = 0
    BY DEF CollectInit, Init, Pending
  <2> QED
    BY <2>1, FS_EmptySet DEF DeniedOnce, CollectInit, Init
<1> QED
  BY <1>1, <1>2, <1>3, InitLemma DEF TInv

\* No more numbers than descriptors.
LEMMA FewerNumbers ==
  ASSUME NEW fds, IsFiniteSet(fds)
  PROVE  /\ IsFiniteSet(SocketFds(fds)) /\ Cardinality(SocketFds(fds)) \in Nat
         /\ Cardinality(SocketFds(fds)) <= Cardinality(fds)
<1> DEFINE socks == {x \in fds : x.kind # "file"}
           f == [s \in socks |-> s.fd]
<1>1. /\ IsFiniteSet(socks) /\ Cardinality(socks) <= Cardinality(fds)
      /\ Cardinality(socks) \in Nat /\ Cardinality(fds) \in Nat
  BY FS_Subset, FS_CardinalityType
<1>2. f \in Surjection(socks, SocketFds(fds))
  BY DEF Surjection, SocketFds
<1> HIDE DEF f, socks
<1>3. IsFiniteSet(SocketFds(fds)) /\ Cardinality(SocketFds(fds)) <= Cardinality(socks)
  BY <1>1, <1>2, FS_Surjection
<1> QED
  BY <1>1, <1>3, FS_CardinalityType

LEMMA RoomStep == ASSUME TInv, NEW p \in Pids, Thread(p) PROVE RoomKept'
<1> DEFINE Fine(q) ==
      /\ at'[q] \in {"idle", "bsd", "fds"} => todo'[q] = {} /\ got'[q] = {}
      /\ IsFiniteSet(todo'[q])
      /\ Cardinality(todo'[q]) + Cardinality(got'[q]) <= room'[q]
<1>1. /\ room' \in [Pids -> Nat]
      /\ \A q \in Pids : q # p => at'[q] = at[q] /\ todo'[q] = todo[q] /\ got'[q] = got[q] /\ room'[q] = room[q]
  <2>1. ASSUME Bsd(p), Readable(p) PROVE RoomFor(p) \in Nat
    <3>1. Cardinality(table[p].open) \in Nat
      BY SmallSets DEF TInv, IInv, Typed, Rows
    <3> QED
      BY <3>1, ScanAssumption DEF RoomFor
  <2> QED
    BY <2>1 DEF Thread, Bsd, ListFds, ReadFd, Retain, TInv, RoomKept, IInv, Typed
<1>2. \A q \in Pids : q # p => Fine(q)
  BY <1>1 DEF TInv, RoomKept
<1>3. /\ Cardinality(todo[p]) \in Nat /\ Cardinality(got[p]) \in Nat /\ room[p] \in Nat
      /\ IsFiniteSet(todo[p]) /\ IsFiniteSet(got[p])
      /\ Cardinality(todo[p]) + Cardinality(got[p]) <= room[p]
  BY SmallSets, FS_CardinalityType DEF TInv, IInv, Typed, RoomKept
<1>4. Fine(p)
  <2>1. CASE Bsd(p)
    <3>1. todo'[p] = {} /\ got'[p] = {}
      BY <2>1 DEF Bsd, TInv, RoomKept
    <3> QED
      BY <1>1, <3>1, FS_EmptySet
  <2>2. CASE ListFds(p)
    <3>1. got'[p] = {} /\ room'[p] = room[p] /\ todo[p] = {} /\ at'[p] \in {"over", "read"}
      BY <2>2 DEF ListFds, TInv, RoomKept, IInv, Typed
    <3>2. /\ IsFiniteSet(todo'[p])
          /\ Cardinality(todo'[p]) <= room[p] /\ Cardinality(todo'[p]) \in Nat
      <4>1. CASE UNCHANGED todo
        <5>1. todo'[p] = todo[p] /\ Cardinality(todo[p]) <= room[p]
          BY <1>3, <4>1
        <5> QED
          BY <1>3, <5>1
      <4>2. CASE Readable(p)
        <5>1. PICK fds \in SUBSET table[p].open :
                /\ IF Cardinality(table[p].open) <= room[p]
                   THEN fds = table[p].open ELSE Cardinality(fds) = room[p]
                /\ todo' = [todo EXCEPT ![p] = SocketFds(fds)]
          BY <2>2, <4>2 DEF ListFds
        <5>2. todo'[p] = SocketFds(fds) /\ fds \subseteq Socks
          BY <5>1 DEF TInv, IInv, Typed, Rows
        <5>3. Cardinality(fds) \in Nat /\ Cardinality(fds) <= room[p] /\ IsFiniteSet(fds)
          <6>1. Cardinality(fds) \in Nat /\ IsFiniteSet(fds)
            BY <5>2, SmallSets
          <6> QED
            BY <1>3, <5>1, <6>1
        <5>4. /\ IsFiniteSet(SocketFds(fds)) /\ Cardinality(SocketFds(fds)) \in Nat
              /\ Cardinality(SocketFds(fds)) <= Cardinality(fds)
          BY <5>3, FewerNumbers
        <5>5. Cardinality(SocketFds(fds)) <= room[p]
          BY <1>3, <5>3, <5>4
        <5> QED
          BY <5>2, <5>4, <5>5
      <4> QED
        BY <2>2, <4>1, <4>2 DEF ListFds
    <3> QED
      BY <1>3, <3>1, <3>2, FS_EmptySet
  <2>3. CASE ReadFd(p)
    <3>1. PICK n \in todo[p] : todo'[p] = todo[p] \ {n} /\ got'[p] = got[p] \cup Found(p, n)
      BY <2>3 DEF ReadFd, TInv, IInv, Typed
    <3>2. room'[p] = room[p] /\ at'[p] = "read"
      BY <2>3 DEF ReadFd
    <3>3. Cardinality(todo'[p]) = Cardinality(todo[p]) - 1 /\ IsFiniteSet(todo'[p])
      BY <1>3, <3>1, FS_RemoveElement
    <3>4. Cardinality(got'[p]) <= Cardinality(got[p]) + 1 /\ Cardinality(got'[p]) \in Nat
      <4>0. \A s, x \in Found(p, n) : s = x
        BY DEF Found, TInv, IInv, Typed, Sound
      <4>1. got'[p] = got[p] \/ \E s : got'[p] = got[p] \cup {s}
        BY <3>1, <4>0
      <4>2. \A s : /\ Cardinality(got[p] \cup {s}) <= Cardinality(got[p]) + 1
                   /\ Cardinality(got[p] \cup {s}) \in Nat
        BY <1>3, AtMostOneMore, FS_CardinalityType
      <4>3. Cardinality(got[p]) <= Cardinality(got[p]) + 1
        BY <1>3
      <4>4. CASE got'[p] = got[p]
        BY <1>3, <4>3, <4>4
      <4>5. CASE \E s : got'[p] = got[p] \cup {s}
        BY <4>2, <4>5
      <4> QED
        BY <4>1, <4>4, <4>5
    <3> QED
      BY <1>3, <3>2, <3>3, <3>4
  <2>4. CASE Retain(p)
    <3>1. room'[p] = room[p] /\ todo'[p] = todo[p] /\ got'[p] \subseteq got[p] /\ at'[p] = "over"
      BY <2>4 DEF Retain, TInv, IInv, Typed
    <3>2. Cardinality(got'[p]) <= Cardinality(got[p]) /\ Cardinality(got'[p]) \in Nat
      BY <1>3, <3>1, FS_Subset, FS_CardinalityType
    <3> QED
      BY <1>3, <3>1, <3>2
  <2> QED
    BY <2>1, <2>2, <2>3, <2>4 DEF Thread
<1> QED
  BY <1>1, <1>2, <1>4 DEF RoomKept

LEMMA DeniedKept == ASSUME TInv, IInv', NEW p \in Pids, Thread(p) PROVE DeniedOnce'
<1>1. UNCHANGED <<stage, seen>>
  BY DEF Thread, Bsd, ListFds, ReadFd, Retain
<1>2. stage # "list"
  BY DEF Thread, Bsd, ListFds, ReadFd, Retain, TInv, DeniedOnce
<1>3. /\ IsFiniteSet(Pending) /\ Cardinality(Pending) \in Nat /\ Cardinality(seen) \in Nat
  BY SmallSets DEF TInv, DeniedOnce, Pending
<1>4. CASE Bsd(p)
  <2>1. at[p] = "bsd" /\ at'[p] \in {"fds", "over"} /\ \A q \in Pids : q # p => at'[q] = at[q]
    BY <1>4 DEF Bsd, TInv, IInv, Typed
  <2>2. Pending' = Pending \ {p} /\ p \in Pending
    BY <2>1 DEF Pending
  <2>3. Cardinality(Pending') = Cardinality(Pending) - 1 /\ Cardinality(Pending') \in Nat
    BY <1>3, <2>2, FS_RemoveElement, FS_CardinalityType
  <2>4. denied' \in {denied, denied + 1}
    BY <1>4 DEF Bsd, CountDenied
  <2> QED
    BY <1>1, <1>2, <1>3, <2>2, <2>3, <2>4 DEF TInv, DeniedOnce
<1>5. CASE ListFds(p) \/ ReadFd(p) \/ Retain(p)
  <2>1. UNCHANGED denied /\ \A q \in Pids : at'[q] = "bsd" <=> at[q] = "bsd"
    BY <1>5 DEF ListFds, ReadFd, Retain, TInv, IInv, Typed
  <2>2. Pending' = Pending
    BY <2>1 DEF Pending
  <2> QED
    BY <1>1, <1>2, <2>1, <2>2 DEF TInv, DeniedOnce
<1> QED
  BY <1>4, <1>5 DEF Thread

\* Every change is counted, and makes one new program at most.
LEMMA TableStep == ASSUME TInv, IInv', NEW p \in Pids, Machine(p) PROVE TableKept'
<1>1. ASSUME NEW rows, Change(rows), \A q \in Pids : rows[q] \in RowsUpTo(churn + 1), DOMAIN rows = Pids
      PROVE  TableKept'
  <2>1. churn' = churn + 1 /\ churn' \in 0..MaxChurn /\ table' = rows
    BY <1>1, ScanAssumption DEF Change, TInv, TableKept
  <2> QED
    BY <1>1, <2>1 DEF TableKept, TInv, IInv, Typed
<1>2. /\ churn \in Nat /\ \A q \in Pids : table[q] \in RowsUpTo(churn)
      /\ \A q \in Pids : table[q] \in RowsUpTo(churn + 1) /\ table[q].gen + 1 \in 0..(churn + 1)
  <2>1. churn \in Nat /\ \A q \in Pids : table[q] \in RowsUpTo(churn)
    <3>1. MaxChurn \in Nat
      BY ScanAssumption
    <3> QED
      BY <3>1 DEF TInv, TableKept
  <2>2. \A q \in Pids : table[q].gen \in 0..churn
    BY <2>1 DEF RowsUpTo
  <2>3. \A q \in Pids : table[q].gen \in 0..(churn + 1) /\ table[q].gen + 1 \in 0..(churn + 1)
    BY <2>1, <2>2
  <2> QED
    BY <2>1, <2>3 DEF RowsUpTo
<1>3. ASSUME NEW row \in RowsUpTo(churn + 1), Become(p, row) PROVE TableKept'
  <2> DEFINE rows == [table EXCEPT ![p] = row]
  <2>1. Change(rows)
    BY <1>3 DEF Become
  <2>2. DOMAIN rows = Pids /\ \A q \in Pids : rows[q] = IF q = p THEN row ELSE table[q]
    BY DEF TInv, IInv, Typed
  <2> HIDE DEF rows
  <2> QED
    BY <1>1, <1>2, <1>3, <2>1, <2>2
<1>4. CASE ExitProc(p)
  <2> DEFINE rows == [q \in Pids |->
               IF q = p THEN [table[p] EXCEPT !.alive = FALSE, !.open = {}]
               ELSE [table[q] EXCEPT !.ppid = IF @ = p THEN Launchd ELSE @]]
  <2>1. Change(rows)
    BY <1>4 DEF ExitProc
  <2>2. ASSUME NEW q \in Pids PROVE rows[q] \in RowsUpTo(churn + 1)
    <3>1. [table[p] EXCEPT !.alive = FALSE, !.open = {}] \in RowsUpTo(churn + 1)
      BY <1>2 DEF RowsUpTo
    <3>2. [table[q] EXCEPT !.ppid = IF @ = p THEN Launchd ELSE @] \in RowsUpTo(churn + 1)
      BY <1>2, ScanAssumption DEF RowsUpTo
    <3> QED
      BY <3>1, <3>2
  <2>3. DOMAIN rows = Pids
    OBVIOUS
  <2> HIDE DEF rows
  <2> QED
    BY <1>1, <2>1, <2>2, <2>3
<1>5. CASE Start(p)
  <2>1. PICK prog \in Programs, parent \in Living :
          Become(p, [alive |-> TRUE, open |-> {}, ppid |-> parent,
                     gen |-> table[p].gen + 1, prog |-> prog])
    BY <1>5 DEF Start
  <2>2. [alive |-> TRUE, open |-> {}, ppid |-> parent,
         gen |-> table[p].gen + 1, prog |-> prog] \in RowsUpTo(churn + 1)
    BY <1>2, <2>1 DEF RowsUpTo, Living
  <2> QED
    BY <1>3, <2>1, <2>2
<1>6. CASE Exec(p)
  <2>1. PICK prog \in Programs : Become(p, [table[p] EXCEPT !.prog = prog, !.gen = @ + 1])
    BY <1>6 DEF Exec
  <2>2. [table[p] EXCEPT !.prog = prog, !.gen = @ + 1] \in RowsUpTo(churn + 1)
    BY <1>2, <2>1 DEF RowsUpTo
  <2> QED
    BY <1>3, <2>1, <2>2
<1>7. CASE Open(p)
  <2>1. PICK s \in Socks : Become(p, [table[p] EXCEPT !.open = @ \cup {s}])
    BY <1>7 DEF Open
  <2>2. [table[p] EXCEPT !.open = @ \cup {s}] \in RowsUpTo(churn + 1)
    BY <1>2, <2>1 DEF RowsUpTo
  <2> QED
    BY <1>3, <2>1, <2>2
<1>8. CASE Close(p)
  <2>1. PICK s \in table[p].open : Become(p, [table[p] EXCEPT !.open = @ \ {s}])
    BY <1>8 DEF Close
  <2>2. [table[p] EXCEPT !.open = @ \ {s}] \in RowsUpTo(churn + 1)
    BY <1>2, <2>1 DEF RowsUpTo
  <2> QED
    BY <1>3, <2>1, <2>2
<1>9. CASE Alter(p)
  <2>1. PICK s \in table[p].open, x \in Socks :
          Become(p, [table[p] EXCEPT !.open = (@ \ {s}) \cup {x}])
    BY <1>9 DEF Alter
  <2>2. [table[p] EXCEPT !.open = (@ \ {s}) \cup {x}] \in RowsUpTo(churn + 1)
    BY <1>2, <2>1 DEF RowsUpTo
  <2> QED
    BY <1>3, <2>1, <2>2
<1> QED
  BY <1>4, <1>5, <1>6, <1>7, <1>8, <1>9 DEF Machine

LEMMA TypesStep == ASSUME TInv, [CollectNext]_allVars PROVE TInv'
<1>1. IInv'
  BY StepLemma DEF TInv
<1>2. CASE List
  <2>1. /\ UNCHANGED <<machine, room, todo, got, denied>> /\ stage = "list" /\ stage' = "walk"
        /\ seen' = {p \in Pids : table[p].alive}
        /\ at' = [p \in Pids |-> IF table[p].alive THEN "bsd" ELSE "over"]
    BY <1>2 DEF List
  <2>2. Pending' = seen' /\ seen' \subseteq Pids /\ denied' = 0
    BY <2>1 DEF Pending, TInv, DeniedOnce
  <2>3. Cardinality(seen') \in Nat
    BY <2>2, SmallSets
  <2>4. DeniedOnce'
    BY <2>1, <2>2, <2>3 DEF DeniedOnce
  <2>5. RoomKept'
    BY <2>1 DEF TInv, RoomKept, DeniedOnce
  <2>6. TableKept'
    BY <2>1 DEF TInv, TableKept, machine
  <2> QED
    BY <1>1, <2>4, <2>5, <2>6 DEF TInv
<1>3. CASE \E p \in Pids : Thread(p)
  <2>1. PICK p \in Pids : Thread(p)
    BY <1>3
  <2>2. TableKept'
    BY <2>1 DEF Thread, Bsd, ListFds, ReadFd, Retain, machine, TInv, TableKept
  <2> QED
    BY <1>1, <2>1, <2>2, RoomStep, DeniedKept DEF TInv
<1>4. CASE Group \/ Asking \/ Rounds \/ Guarding \/ Build \/ Done \/ UNCHANGED allVars
  <2>1. UNCHANGED <<walk, machine>> /\ (stage' = "list" => stage = "list")
    BY <1>4 DEF Group, Asking, TaskInfo, PidPath, CpuBefore, CpuAfter, Cmdline, Cwd, Brief, Ask,
                Rounds, Advance, Guarding, NewGuard, Hop, GuardDone, Build, Done, allVars, vars
  <2>2. Pending' = Pending
    BY <2>1 DEF Pending, walk
  <2>3. TableKept' /\ RoomKept' /\ DeniedOnce'
    BY <2>1, <2>2 DEF walk, machine, TInv, TableKept, RoomKept, DeniedOnce
  <2> QED
    BY <1>1, <2>3 DEF TInv
<1>5. CASE Environment
  <2>1. PICK p \in Pids : Machine(p)
    BY <1>5 DEF Environment
  <2>2. UNCHANGED <<stage, walk>>
    BY <2>1, MachineFrame
  <2>3. Pending' = Pending
    BY <2>2 DEF Pending, walk
  <2>4. RoomKept' /\ DeniedOnce'
    BY <2>2, <2>3 DEF walk, TInv, RoomKept, DeniedOnce
  <2> QED
    BY <1>1, <2>1, <2>4, TableStep DEF TInv
<1> QED
  BY <1>2, <1>3, <1>4, <1>5 DEF CollectNext, Scanning

(***************************************************************************)
(* Types; no more descriptors are looked at than there was room for, and   *)
(* no more processes denied than were seen.                                *)
(***************************************************************************)
THEOREM TypesAndRoom == CollectSpec => []TypeOK
<1>1. TInv /\ [CollectNext]_allVars => TInv'
  BY TypesStep
<1> QED
  BY <1>1, TypesAtStart, KeptTypes, PTL DEF CollectSpec
-----------------------------------------------------------------------------
(***************************************************************************)
(* Whom to spare.  SelfGuard::new walks up a chain that may break behind   *)
(* it: whoever exits leaves its children, edev among them, to pid 1.  So   *)
(* the invariant holds on to what is left of it: some of the pids recorded *)
(* first are still a chain of living processes up from edev's parent, and  *)
(* either the walk is at its end, or edev's ancestors are at theirs.       *)
(***************************************************************************)
Kin == Rooted(table) /\ home \in Pids /\ table[home].alive /\ Private(table) \subseteq barred

\* What SelfGuard::new has recorded, each pid once.
Trail ==
  /\ lineage \in Seq(Pids) /\ cursor \in Pids \cup {0}
  /\ \A i, j \in DOMAIN lineage : lineage[i] = lineage[j] => i = j
  /\ stage \in Asks \cup {"list", "walk"} => lineage = <<>>

\* The first k pids recorded are edev's parent, its parent, and so on.
Linked(k) ==
  /\ k \in 0..Len(lineage)
  /\ \A i \in 1..k : lineage[i] # Launchd /\ table[lineage[i]].alive
  /\ k >= 1 => lineage[1] = home
  /\ \A i \in 1..k : i < k => table[lineage[i]].ppid = lineage[i + 1]

\* The walk goes on from them; nobody is to be found behind them; or the
\* rounds are over.
Walking(k) ==
  /\ stage = "guard" /\ k = Len(lineage)
  /\ k = 0 => cursor = home
  /\ k >= 1 => cursor = table[lineage[k]].ppid

Ended(k) ==
  /\ k >= 1
  /\ \/ lineage[k] \in barred
     \/ table[lineage[k]].ppid \in {0, Launchd}
     \/ \E i \in 1..k : table[lineage[k]].ppid = lineage[i]

Exhausted(k) == stage = "build" /\ k = Len(lineage) /\ k + 1 >= MaxHops

Walked ==
  stage \in {"guard", "build"} =>
    home = Launchd \/ \E k \in Nat : Linked(k) /\ (Walking(k) \/ Ended(k) \/ Exhausted(k))

SInv == WInv /\ TInv /\ Kin /\ Trail /\ Walked /\ Spared

LEMMA KinAtStart == CollectInit => SInv
<1> SUFFICES ASSUME CollectInit PROVE SInv
  OBVIOUS
<1>1. Kin
  BY ScanAssumption, CollectAssumption DEF CollectInit, Init, Kin
<1>2. stage = "list" /\ entries = {} /\ lineage = <<>> /\ cursor = 0
  BY DEF CollectInit, Init
<1>3. Trail
  BY <1>2 DEF Trail
<1> QED
  BY <1>1, <1>2, <1>3, Starting, TypesAtStart DEF SInv, Spared, Walked
-----------------------------------------------------------------------------
(***************************************************************************)
(* The machine.                                                            *)
(***************************************************************************)
\* What a living process had for a parent it keeps, or gets pid 1 when its
\* parent exits.
Adopted(q) ==
  /\ table'[q].alive /\ table[q].alive =>
       /\ table'[q].ppid = table[q].ppid
            \/ (table'[q].ppid = Launchd /\ ~table'[table[q].ppid].alive)
       /\ table'[q].ppid # 0 => table'[table'[q].ppid].alive
  /\ table'[q].alive /\ ~table[q].alive =>
       table'[q].ppid \in Pids /\ table'[table'[q].ppid].alive

LEMMA AdoptedLemma ==
  ASSUME TInv, Kin, NEW p \in Pids, Machine(p)
  PROVE  /\ \A q \in Pids : Adopted(q)
         /\ table'[Launchd].alive /\ table'[Launchd].ppid = 0
<1>1. /\ DOMAIN table = Pids /\ Launchd \in Pids /\ 0 \notin Pids
      /\ \A q \in Pids : table[q] \in Rows /\ table[q].ppid \in Pids \cup {0}
      /\ \A q \in Pids : table[q].alive => table[q].ppid = 0 \/ table[table[q].ppid].alive
      /\ table[Launchd].alive /\ table[Launchd].ppid = 0
  BY ScanAssumption DEF TInv, TableKept, RowsUpTo, IInv, Typed, Kin, Rooted
<1>2. ASSUME NEW row, Become(p, row), row.ppid = table[p].ppid, row.alive = table[p].alive
      PROVE  /\ \A q \in Pids : Adopted(q)
             /\ table'[Launchd].alive /\ table'[Launchd].ppid = 0
  <2>1. table' = [table EXCEPT ![p] = row]
    BY <1>2 DEF Become, Change
  <2>2. \A q \in Pids : table'[q].alive = table[q].alive /\ table'[q].ppid = table[q].ppid
    BY <1>1, <1>2, <2>1
  <2> QED
    BY <1>1, <2>2 DEF Adopted
<1>3. CASE ExitProc(p)
  <2>1. /\ p # Launchd
        /\ table' = [q \in Pids |->
               IF q = p THEN [table[p] EXCEPT !.alive = FALSE, !.open = {}]
               ELSE [table[q] EXCEPT !.ppid = IF @ = p THEN Launchd ELSE @]]
    BY <1>3 DEF ExitProc, Change
  <2>2. ~table'[p].alive
    <3>1. table'[p] = [table[p] EXCEPT !.alive = FALSE, !.open = {}]
      BY <2>1
    <3> QED
      BY <1>1, <3>1 DEF Rows
  <2>3. ASSUME NEW q \in Pids, q # p
        PROVE  /\ table'[q].alive = table[q].alive
               /\ table'[q].ppid = IF table[q].ppid = p THEN Launchd ELSE table[q].ppid
    <3>1. table'[q] = [table[q] EXCEPT !.ppid = IF @ = p THEN Launchd ELSE @]
      BY <2>1, <2>3
    <3> QED
      BY <1>1, <3>1 DEF Rows
  <2> QED
    BY <1>1, <2>1, <2>2, <2>3 DEF Adopted
<1>4. CASE Start(p)
  <2>1. PICK prog \in Programs, parent \in Living :
          Become(p, [alive |-> TRUE, open |-> {}, ppid |-> parent,
                     gen |-> table[p].gen + 1, prog |-> prog])
    BY <1>4 DEF Start
  <2>2. ~table[p].alive /\ parent \in Pids /\ table[parent].alive
    BY <1>4, <2>1 DEF Start, Living
  <2>3. table'[p].alive /\ table'[p].ppid = parent /\ \A q \in Pids : q # p => table'[q] = table[q]
    BY <1>1, <2>1 DEF Become, Change
  <2> QED
    BY <1>1, <2>2, <2>3 DEF Adopted
<1>5. CASE Exec(p)
  <2>1. PICK prog \in Programs : Become(p, [table[p] EXCEPT !.prog = prog, !.gen = @ + 1])
    BY <1>5 DEF Exec
  <2>2. /\ [table[p] EXCEPT !.prog = prog, !.gen = @ + 1].ppid = table[p].ppid
        /\ [table[p] EXCEPT !.prog = prog, !.gen = @ + 1].alive = table[p].alive
    BY <1>1 DEF Rows
  <2> QED
    BY <1>2, <2>1, <2>2
<1>6. CASE Open(p)
  <2>1. PICK s \in Socks : Become(p, [table[p] EXCEPT !.open = @ \cup {s}])
    BY <1>6 DEF Open
  <2>2. /\ [table[p] EXCEPT !.open = @ \cup {s}].ppid = table[p].ppid
        /\ [table[p] EXCEPT !.open = @ \cup {s}].alive = table[p].alive
    BY <1>1 DEF Rows
  <2> QED
    BY <1>2, <2>1, <2>2
<1>7. CASE Close(p)
  <2>1. PICK s \in table[p].open : Become(p, [table[p] EXCEPT !.open = @ \ {s}])
    BY <1>7 DEF Close
  <2>2. /\ [table[p] EXCEPT !.open = @ \ {s}].ppid = table[p].ppid
        /\ [table[p] EXCEPT !.open = @ \ {s}].alive = table[p].alive
    BY <1>1 DEF Rows
  <2> QED
    BY <1>2, <2>1, <2>2
<1>8. CASE Alter(p)
  <2>1. PICK s \in table[p].open, x \in Socks :
          Become(p, [table[p] EXCEPT !.open = (@ \ {s}) \cup {x}])
    BY <1>8 DEF Alter
  <2>2. /\ [table[p] EXCEPT !.open = (@ \ {s}) \cup {x}].ppid = table[p].ppid
        /\ [table[p] EXCEPT !.open = (@ \ {s}) \cup {x}].alive = table[p].alive
    BY <1>1 DEF Rows
  <2> QED
    BY <1>2, <2>1, <2>2
<1> QED
  BY <1>3, <1>4, <1>5, <1>6, <1>7, <1>8 DEF Machine

\* Who cannot be read at some time is remembered.
LEMMA BarredLemma ==
  ASSUME Typed, NEW p \in Pids, Machine(p)
  PROVE  barred \subseteq barred' /\ Private(table)' \subseteq barred' /\ DOMAIN table' = Pids
BY DEF Machine, ExitProc, Start, Exec, Open, Close, Alter, Become, Change, Typed

\* What the rows hold that a chain goes through.
LEMMA RowFacts ==
  ASSUME TInv, Kin
  PROVE  /\ 0 \notin Pids /\ Launchd \in Pids /\ Launchd # 0 /\ Pids \subseteq Nat
         /\ \A q \in Pids : table[q].ppid \in Pids \cup {0} /\ table[q].alive \in BOOLEAN
         /\ \A q \in Pids : table[q].alive /\ table[q].ppid # 0 => table[table[q].ppid].alive
         /\ table[Launchd].ppid = 0 /\ home \in Pids /\ table[home].alive
<1>1. 0 \notin Pids /\ Launchd \in Pids /\ Launchd # 0 /\ Pids \subseteq Nat
  BY ScanAssumption DEF Launchd
<1>2. DOMAIN table = Pids /\ \A q \in Pids : table[q].ppid \in Pids \cup {0} /\ table[q].alive \in BOOLEAN
  BY DEF TInv, TableKept, RowsUpTo
<1> QED
  BY <1>1, <1>2 DEF Kin, Rooted

\* The pids recorded, as they stand.
LEMMA TrailFacts ==
  ASSUME Trail
  PROVE  \E L \in Seq(Pids), n \in Nat : lineage = L /\ Len(L) = n /\ DOMAIN L = 1..n
BY DEF Trail

\* Where a chain breaks, pid 1 takes over.
LEMMA ChainLemma ==
  ASSUME SInv, TInv', Kin', UNCHANGED <<stage, guard>>, home' = home, barred \subseteq barred',
         \A q \in Pids : Adopted(q), NEW k \in Nat, Linked(k),
         Walking(k) \/ Ended(k) \/ Exhausted(k)
  PROVE  \E j \in Nat : Linked(j)' /\ (Walking(j)' \/ Ended(j)' \/ Exhausted(j)')
<1>1. stage' = stage /\ lineage' = lineage /\ cursor' = cursor
  BY DEF guard
<1>2. PICK L \in Seq(Pids), n \in Nat : lineage = L /\ Len(L) = n
  BY TrailFacts DEF SInv
<1>3. /\ k \in 0..n /\ (k >= 1 => L[1] = home)
      /\ \A i \in 1..k : L[i] \in Pids /\ L[i] # Launchd /\ table[L[i]].alive
      /\ \A i \in 1..k : i < k => table[L[i]].ppid = L[i + 1]
  BY <1>2 DEF Linked
<1>4. 0 \notin Pids /\ table'[home].alive
  BY RowFacts DEF SInv, Kin
<1>5. \A q \in Pids : table[q].alive /\ table'[q].alive =>
        table'[q].ppid = table[q].ppid \/ (table'[q].ppid = Launchd /\ ~table'[table[q].ppid].alive)
  BY DEF Adopted
<1> DEFINE D == {i \in 1..k : ~table'[L[i]].alive}
<1>6. CASE D = {}
  <2>1. \A i \in 1..k : table'[L[i]].alive
    BY <1>6
  <2>2. \A i \in 1..k : table'[L[i]].ppid = table[L[i]].ppid \/ table'[L[i]].ppid = Launchd
    BY <1>3, <1>5, <2>1
  <2>3. ASSUME NEW i \in 1..k, i < k PROVE table'[L[i]].ppid = L[i + 1]
    <3>1. i + 1 \in 1..k
      BY <2>3
    <3> QED
      BY <1>3, <1>5, <2>1, <2>3, <3>1
  <2>4. Linked(k)'
    BY <1>1, <1>2, <1>3, <2>1, <2>3 DEF Linked
  <2>5. CASE Ended(k)
    <3>1. k \in 1..k
      BY <2>5 DEF Ended
    <3>2. Ended(k)'
      BY <1>1, <1>2, <2>2, <2>5, <3>1 DEF Ended
    <3> QED
      BY <2>4, <3>2
  <2>6. CASE Walking(k) /\ k = 0
    <3>1. Walking(k)'
      BY <1>1, <2>6 DEF Walking
    <3> QED
      BY <2>4, <3>1
  <2>7. CASE Walking(k) /\ k # 0
    <3>1. k \in 1..k
      BY <2>7
    <3>2. CASE table'[L[k]].ppid = table[L[k]].ppid
      <4>1. Walking(k)'
        BY <1>1, <1>2, <2>7, <3>2 DEF Walking
      <4> QED
        BY <2>4, <4>1
    <3>3. CASE table'[L[k]].ppid = Launchd
      <4>1. Ended(k)'
        BY <1>1, <1>2, <2>7, <3>1, <3>3 DEF Ended
      <4> QED
        BY <2>4, <4>1
    <3> QED
      BY <2>2, <3>1, <3>2, <3>3
  <2>8. CASE Exhausted(k)
    <3>1. Exhausted(k)'
      BY <1>1, <2>8 DEF Exhausted
    <3> QED
      BY <2>4, <3>1
  <2> QED
    BY <2>5, <2>6, <2>7, <2>8
<1>7. CASE D # {}
  <2>1. D \in SUBSET Nat
    OBVIOUS
  <2> HIDE DEF D
  <2>2. PICK m \in D : \A i \in D : m <= i
    BY <1>7, <2>1, LeastFound
  <2>3. m \in 1..k /\ ~table'[L[m]].alive
    BY <2>2 DEF D
  <2>4. m # 1
    BY <1>3, <1>4, <2>3
  <2>5. PICK j \in Nat : j = m - 1
    BY <2>3
  <2>6. j \in 1..k /\ j < k /\ j + 1 = m /\ j \in 1..j
    BY <2>3, <2>4, <2>5
  <2>7. ASSUME NEW i \in 1..j PROVE i \in 1..k /\ i < k /\ i + 1 \in 1..m /\ table'[L[i]].alive
    <3>1. i \in 1..k /\ i < k /\ i + 1 \in 1..m /\ ~(m <= i)
      BY <2>3, <2>6
    <3>2. i \notin D
      BY <2>2, <3>1
    <3> QED
      BY <3>1, <3>2 DEF D
  <2>8. ASSUME NEW i \in 1..j, i < j PROVE table'[L[i]].ppid = L[i + 1]
    <3>1. i + 1 \in 1..j
      BY <2>8
    <3>2. table'[L[i + 1]].alive /\ table'[L[i]].alive /\ table[L[i]].ppid = L[i + 1]
      BY <1>3, <2>7, <3>1
    <3> QED
      BY <1>3, <1>5, <2>7, <3>2
  <2>9. Linked(j)'
    BY <1>1, <1>2, <1>3, <2>6, <2>7, <2>8 DEF Linked
  <2>10. table'[L[j]].ppid = Launchd
    <3>1. table[L[j]].ppid = L[m] /\ table[L[j]].alive /\ table'[L[j]].alive /\ L[j] \in Pids /\ L[m] \in Pids
      BY <1>3, <2>3, <2>6, <2>7
    <3>2. table'[L[j]].ppid # L[m]
      <4>1. table'[L[j]].ppid # 0 => table'[table'[L[j]].ppid].alive
        BY <3>1 DEF Adopted
      <4> QED
        BY <1>4, <2>3, <3>1, <4>1
    <3> QED
      BY <1>5, <3>1, <3>2
  <2>11. Ended(j)'
    BY <1>1, <1>2, <2>6, <2>10 DEF Ended
  <2> QED
    BY <2>9, <2>11
<1> QED
  BY <1>6, <1>7

LEMMA WalkedOutside ==
  ASSUME SInv, TInv', Environment
  PROVE  Kin' /\ Trail' /\ Walked'
<1>1. PICK p \in Pids : Machine(p)
  BY DEF Environment
<1>2. /\ \A q \in Pids : Adopted(q)
      /\ table'[Launchd].alive /\ table'[Launchd].ppid = 0
  BY <1>1, AdoptedLemma DEF SInv
<1>3. Launchd \in Pids /\ 0 \notin Pids /\ home' = IF table'[home].alive THEN home ELSE Launchd
  BY ScanAssumption DEF Environment
<1>4. /\ barred \subseteq barred' /\ Private(table)' \subseteq barred' /\ DOMAIN table' = Pids
  BY <1>1, BarredLemma DEF SInv, TInv, IInv
<1>5. Kin'
  BY <1>2, <1>3, <1>4 DEF Adopted, Kin, Rooted, SInv
<1>6. UNCHANGED <<stage, guard>>
  BY <1>1, MachineFrame DEF Environment, edev
<1>7. Trail'
  BY <1>6 DEF SInv, Trail, guard
<1>8. Walked'
  <2> SUFFICES ASSUME stage' \in {"guard", "build"}, home' # Launchd
               PROVE  \E k \in Nat : Linked(k)' /\ (Walking(k)' \/ Ended(k)' \/ Exhausted(k)')
    BY DEF Walked
  <2>1. home' = home /\ stage \in {"guard", "build"}
    BY <1>3, <1>6
  <2>2. PICK k \in Nat : Linked(k) /\ (Walking(k) \/ Ended(k) \/ Exhausted(k))
    BY <2>1 DEF SInv, Walked
  <2> QED
    BY <1>2, <1>4, <1>5, <1>6, <2>1, <2>2, ChainLemma
<1> QED
  BY <1>5, <1>7, <1>8
-----------------------------------------------------------------------------
(***************************************************************************)
(* The walk.                                                               *)
(***************************************************************************)
LEMMA NewGuardLemma == ASSUME SInv, NewGuard PROVE Trail' /\ Walked'
<1>1. /\ stage = "parents" /\ stage' = "guard" /\ cursor' = home /\ lineage' = <<>>
      /\ home' = home /\ home \in Pids
  BY DEF NewGuard, SInv, Trail, Asks, Kin
<1>2. Trail'
  BY <1>1 DEF Trail, Asks
<1>3. Linked(0)' /\ Walking(0)'
  BY <1>1 DEF Linked, Walking
<1> QED
  BY <1>2, <1>3 DEF Walked

\* One pid more.
LEMMA Longer ==
  ASSUME NEW L \in Seq(Pids), NEW n \in Nat, Len(L) = n, NEW c \in Pids
  PROVE  /\ Append(L, c) \in Seq(Pids) /\ Len(Append(L, c)) = n + 1
         /\ Append(L, c)[n + 1] = c /\ \A i \in 1..n : Append(L, c)[i] = L[i]
OBVIOUS

LEMMA HopLemma == ASSUME SInv, Hop PROVE Trail' /\ Walked'
<1>1. /\ stage = "guard" /\ stage' \in {"guard", "build"}
      /\ cursor > 0 /\ cursor \notin Visited /\ lineage' = Append(lineage, cursor)
      /\ table' = table /\ home' = home /\ barred' = barred
  BY DEF Hop, OneMoreRound, machine
<1>2. PICK L \in Seq(Pids), n \in Nat : lineage = L /\ Len(L) = n /\ DOMAIN L = 1..n
  BY TrailFacts DEF SInv
<1>3. PICK c \in Pids : c = cursor
  BY <1>1 DEF SInv, Trail
<1>4. PICK M \in Seq(Pids) : /\ M = Append(L, c) /\ lineage' = M /\ Len(M) = n + 1
                             /\ M[n + 1] = c /\ \A i \in 1..n : M[i] = L[i]
  BY <1>1, <1>2, <1>3, Longer
<1>5. \A i \in 1..n : L[i] # c
  BY <1>1, <1>2, <1>3 DEF Visited
<1>6. /\ Readable(c) => stage' = "guard" /\ cursor' = table[c].ppid
      /\ ~Readable(c) => cursor' = c
  BY <1>1, <1>3 DEF Hop
<1>7. Trail'
  <2>1. cursor' \in Pids \cup {0}
    BY <1>6, RowFacts DEF SInv
  <2>2. \A i, j \in 1..(n + 1) : M[i] = M[j] => i = j
    <3>1. \A i, j \in 1..n : L[i] = L[j] => i = j
      BY <1>2 DEF SInv, Trail
    <3>2. \A i \in 1..(n + 1) : i \in 1..n \/ i = n + 1
      OBVIOUS
    <3> QED
      BY <1>4, <1>5, <3>1, <3>2
  <2>3. DOMAIN M = 1..(n + 1)
    BY <1>4
  <2> QED
    BY <1>1, <1>4, <2>1, <2>2, <2>3 DEF Trail, Asks
<1>8. Walked'
  <2> SUFFICES ASSUME home # Launchd
               PROVE  \E k \in Nat : Linked(k)' /\ (Walking(k)' \/ Ended(k)' \/ Exhausted(k)')
    BY <1>1 DEF Walked
  <2>1. PICK k \in Nat : Linked(k) /\ (Walking(k) \/ Ended(k))
    BY <1>1 DEF SInv, Walked, Exhausted
  <2>2. /\ k \in 0..n /\ (k >= 1 => L[1] = home)
        /\ \A i \in 1..k : L[i] # Launchd /\ table[L[i]].alive
        /\ \A i \in 1..k : i < k => table[L[i]].ppid = L[i + 1]
    BY <1>2, <2>1 DEF Linked
  <2>3. Linked(k)'
    <3>1. \A i \in 1..k : i \in 1..n /\ (i < k => i + 1 \in 1..n)
      BY <2>2
    <3>2. k \in 0..(n + 1) /\ (k >= 1 => 1 \in 1..n)
      BY <2>2
    <3> QED
      BY <1>1, <1>4, <2>2, <3>1, <3>2 DEF Linked
  <2>4. CASE Ended(k)
    <3>1. k \in 1..n /\ \A i \in 1..k : i \in 1..n
      BY <2>2, <2>4 DEF Ended
    <3>2. Ended(k)'
      BY <1>1, <1>2, <1>4, <2>4, <3>1 DEF Ended
    <3> QED
      BY <2>3, <3>2
  <2>5. CASE Walking(k) /\ c = Launchd
    <3>1. k = n /\ k >= 1 /\ table[L[k]].ppid = Launchd
      BY <1>2, <1>3, <2>2, <2>5 DEF Walking
    <3>2. k \in 1..n
      BY <3>1
    <3>3. Ended(k)'
      BY <1>1, <1>4, <3>1, <3>2 DEF Ended
    <3> QED
      BY <2>3, <3>3
  <2>6. CASE Walking(k) /\ c # Launchd
    <3>1. /\ k = n /\ (k = 0 => c = home) /\ (k >= 1 => c = table[L[k]].ppid)
      BY <1>2, <1>3, <2>6 DEF Walking
    <3>2. table[c].alive
      <4>1. CASE k = 0
        BY <3>1, <4>1, RowFacts DEF SInv
      <4>2. CASE k >= 1
        <5>1. k \in 1..k /\ k \in 1..n
          BY <3>1, <4>2
        <5>2. table[L[k]].alive
          BY <2>2, <5>1
        <5>3. L[k] \in Pids
          BY <1>2, <5>1
        <5> QED
          BY <1>3, <3>1, <4>2, <5>2, <5>3, RowFacts DEF SInv
      <4> QED
        BY <4>1, <4>2
    <3>3. Linked(n + 1)'
      <4>1. \A i \in 1..(n + 1) : i \in 1..n \/ i = n + 1
        OBVIOUS
      <4>2. \A i \in 1..(n + 1) : M[i] # Launchd /\ table[M[i]].alive
        BY <1>4, <2>2, <2>6, <3>1, <3>2, <4>1
      <4>3. M[1] = home
        <5>1. n = 0 \/ 1 \in 1..n
          OBVIOUS
        <5> QED
          BY <1>4, <2>2, <3>1, <5>1
      <4>4. ASSUME NEW i \in 1..(n + 1), i < n + 1 PROVE table[M[i]].ppid = M[i + 1]
        <5>1. i \in 1..n /\ (i = n \/ (i < n /\ i + 1 \in 1..n))
          BY <4>4
        <5>2. CASE i = n
          BY <1>4, <3>1, <5>1, <5>2
        <5>3. CASE i < n /\ i + 1 \in 1..n
          BY <1>4, <2>2, <3>1, <5>1, <5>3
        <5> QED
          BY <5>1, <5>2, <5>3
      <4>5. n + 1 \in 0..(n + 1) /\ n + 1 >= 1
        OBVIOUS
      <4> QED
        BY <1>1, <1>4, <4>2, <4>3, <4>4, <4>5 DEF Linked
    <3>4. CASE Readable(c)
      <4>1. Walking(n + 1)'
        BY <1>1, <1>4, <1>6, <3>4 DEF Walking
      <4> QED
        BY <3>3, <4>1
    <3>5. CASE ~Readable(c)
      <4>1. c \in barred
        BY <3>2, <3>5 DEF SInv, Kin, Private, Readable
      <4>2. Ended(n + 1)'
        BY <1>1, <1>4, <4>1 DEF Ended
      <4> QED
        BY <3>3, <4>2
    <3> QED
      BY <3>4, <3>5
  <2> QED
    BY <2>1, <2>4, <2>5, <2>6
<1> QED
  BY <1>7, <1>8

LEMMA GuardDoneLemma == ASSUME SInv, GuardDone PROVE Trail' /\ Walked'
<1>1. /\ stage = "guard" /\ stage' = "build" /\ ~OneMoreRound
      /\ lineage' = lineage /\ cursor' = cursor
      /\ table' = table /\ home' = home /\ barred' = barred
  BY DEF GuardDone, edev, guard, machine
<1>2. PICK L \in Seq(Pids), n \in Nat : lineage = L /\ Len(L) = n /\ DOMAIN L = 1..n
  BY TrailFacts DEF SInv
<1>3. Trail'
  BY <1>1 DEF SInv, Trail, Asks
<1>4. Walked'
  <2> SUFFICES ASSUME home # Launchd
               PROVE  \E k \in Nat : Linked(k)' /\ (Walking(k)' \/ Ended(k)' \/ Exhausted(k)')
    BY <1>1 DEF Walked
  <2>1. PICK k \in Nat : Linked(k) /\ (Walking(k) \/ Ended(k))
    BY <1>1 DEF SInv, Walked, Exhausted
  <2>2. Linked(k)'
    BY <1>1, <2>1 DEF Linked
  <2>3. CASE Ended(k)
    <3>1. Ended(k)'
      BY <1>1, <2>3 DEF Ended
    <3> QED
      BY <2>2, <3>1
  <2>4. CASE Walking(k)
    <3>1. k = n /\ (k = 0 => cursor = home) /\ (k >= 1 => cursor = table[L[k]].ppid)
      BY <1>2, <2>4 DEF Walking
    <3>2. MaxHops \in Nat /\ cursor \in Pids \cup {0} /\ home \in Nat \ {0}
      BY CollectAssumption, ScanAssumption DEF SInv, Trail, Kin
    <3>3. Len(lineage) + 1 >= MaxHops \/ cursor = 0 \/ cursor \in Visited
      <4>1. cursor \in Nat
        BY <3>2, ScanAssumption
      <4> QED
        BY <1>1, <1>2, <3>2, <4>1 DEF OneMoreRound
    <3>4. CASE Len(lineage) + 1 >= MaxHops
      <4>1. Exhausted(k)'
        BY <1>1, <1>2, <3>1, <3>4 DEF Exhausted
      <4> QED
        BY <2>2, <4>1
    <3>5. CASE cursor = 0
      <4>1. k >= 1
        BY <3>1, <3>2, <3>5
      <4>2. Ended(k)'
        BY <1>1, <1>2, <3>1, <3>5, <4>1 DEF Ended
      <4> QED
        BY <2>2, <4>2
    <3>6. CASE cursor \in Visited
      <4>1. PICK i \in 1..n : cursor = L[i]
        BY <1>2, <3>6 DEF Visited
      <4>2. k >= 1
        BY <3>1
      <4>3. Ended(k)'
        BY <1>1, <1>2, <3>1, <4>1, <4>2 DEF Ended
      <4> QED
        BY <2>2, <4>3
    <3> QED
      BY <3>3, <3>4, <3>5, <3>6
  <2> QED
    BY <2>1, <2>3, <2>4
<1> QED
  BY <1>3, <1>4

LEMMA WalkedFrame ==
  ASSUME SInv, UNCHANGED <<guard, machine, home>>,
         stage' \in {"guard", "build"} => stage' = stage,
         stage' \in Asks \cup {"list", "walk"} => stage \in Asks \cup {"list", "walk"}
  PROVE  Trail' /\ Walked'
<1>1. lineage' = lineage /\ cursor' = cursor /\ table' = table /\ barred' = barred
  BY DEF guard, machine
<1>2. Trail'
  BY <1>1 DEF SInv, Trail
<1>3. Walked'
  <2> SUFFICES ASSUME stage' \in {"guard", "build"}, home # Launchd
               PROVE  \E k \in Nat : Linked(k)' /\ (Walking(k)' \/ Ended(k)' \/ Exhausted(k)')
    BY DEF Walked
  <2>1. PICK k \in Nat : Linked(k) /\ (Walking(k) \/ Ended(k) \/ Exhausted(k))
    BY DEF SInv, Walked
  <2>2. Linked(k)'
    BY <1>1, <2>1 DEF Linked
  <2>3. Walking(k)' \/ Ended(k)' \/ Exhausted(k)'
    BY <1>1, <2>1 DEF Walking, Ended, Exhausted
  <2> QED
    BY <2>2, <2>3
<1> QED
  BY <1>2, <1>3
-----------------------------------------------------------------------------
(***************************************************************************)
(* At the end.                                                             *)
(***************************************************************************)
\* Where the chain ends behind those recorded, they are all to be spared.
LEMMA EndedLemma ==
  ASSUME SInv, NEW k \in Nat, Linked(k), Ended(k), NEW p \in Shielded
  PROVE  p \in Visited
<1>1. PICK L \in Seq(Pids), n \in Nat : lineage = L /\ Len(L) = n /\ DOMAIN L = 1..n
  BY TrailFacts DEF SInv
<1>2. /\ k \in 1..n /\ L[1] = home /\ 1 \in 1..k
      /\ \A i \in 1..k : i < k => table[L[i]].ppid = L[i + 1]
  BY <1>1 DEF Linked, Ended
<1>3. /\ \A i \in 1..k : L[i] \in Pids /\ L[i] \in Visited
  BY <1>1, <1>2 DEF Visited
<1> DEFINE S == {L[i] : i \in 1..k} \cup {Launchd}
<1>4. S \in SUBSET Pids /\ home \in S
  BY <1>2, <1>3, RowFacts DEF SInv
<1>5. Shut(S)
  <2> SUFFICES ASSUME NEW q \in S, q \notin barred, table[q].ppid \in Pids
               PROVE  table[q].ppid \in S
    BY DEF Shut
  <2>1. q # Launchd
    BY RowFacts DEF SInv
  <2>2. PICK i \in 1..k : q = L[i]
    BY <2>1
  <2>3. CASE i < k
    <3>1. i + 1 \in 1..k
      BY <2>3
    <3> QED
      BY <1>2, <2>2, <2>3, <3>1
  <2>4. CASE i = k
    <3>1. table[q].ppid # 0
      BY RowFacts DEF SInv
    <3> QED
      BY <1>1, <2>2, <2>4, <3>1 DEF Ended
  <2> QED
    BY <2>3, <2>4
<1>6. p \in S /\ p # Launchd
  <2> HIDE DEF S
  <2> QED
    BY <1>4, <1>5 DEF Shielded
<1> QED
  BY <1>3, <1>6

\* So many pids, each once.
LEMMA AsMany ==
  ASSUME NEW L, NEW n \in Nat, DOMAIN L = 1..n, \A i, j \in 1..n : L[i] = L[j] => i = j
  PROVE  /\ IsFiniteSet({L[i] : i \in DOMAIN L}) /\ Cardinality({L[i] : i \in DOMAIN L}) = n
<1> DEFINE T == {L[i] : i \in DOMAIN L}
           f == [i \in 1..n |-> L[i]]
<1>1. f \in Bijection(1..n, T)
  BY DEF Bijection, Injection, Surjection, IsInjective
<1>2. IsFiniteSet(1..n) /\ Cardinality(1..n) = n
  <2>1. IsFiniteSet(1..n) /\ Cardinality(1..n) = IF 1 > n THEN 0 ELSE n - 1 + 1
    BY FS_Interval
  <2> QED
    BY <2>1
<1> HIDE DEF f, T
<1>3. ExistsBijection(1..n, T)
  BY <1>1 DEF ExistsBijection
<1>4. IsFiniteSet(T) /\ Cardinality(T) = Cardinality(1..n)
  BY <1>2, <1>3, FS_Bijection
<1> QED
  BY <1>2, <1>4 DEF T

\* Where the rounds were over, those recorded are as many as can be.
LEMMA ExhaustedLemma ==
  ASSUME SInv, NEW k \in Nat, Linked(k), Exhausted(k), NEW p \in Shielded,
         Cardinality(Shielded) < MaxHops
  PROVE  p \in Visited
<1>1. PICK L \in Seq(Pids), n \in Nat : lineage = L /\ Len(L) = n /\ DOMAIN L = 1..n
  BY TrailFacts DEF SInv
<1>2. /\ k = n /\ k + 1 >= MaxHops /\ (k >= 1 => L[1] = home)
      /\ \A i \in 1..k : L[i] \in Pids /\ L[i] # Launchd
      /\ \A i \in 1..k : i < k => table[L[i]].ppid = L[i + 1]
  BY <1>1 DEF Linked, Exhausted
<1>3. CASE \E m \in 1..k : L[m] \in barred
  <2>1. PICK m \in 1..k : L[m] \in barred
    BY <1>3
  <2>2. Linked(m)
    <3>1. m \in 0..n /\ m >= 1 /\ \A i \in 1..m : i \in 1..k /\ (i < m => i < k)
      BY <1>2, <2>1
    <3> QED
      BY <1>1, <1>2, <3>1 DEF Linked
  <2>3. Ended(m)
    BY <1>1, <2>1 DEF Ended
  <2> QED
    BY <2>1, <2>2, <2>3, EndedLemma
<1>4. CASE \A m \in 1..k : L[m] \notin barred
  <2> SUFFICES ASSUME p \notin Visited PROVE FALSE
    OBVIOUS
  <2>1. Visited \subseteq Shielded
    <3> SUFFICES ASSUME NEW S \in SUBSET Pids, home \in S, Shut(S), NEW j \in 1..k
                 PROVE  L[j] \in S
      BY <1>1, <1>2 DEF Visited, Shielded
    <3> DEFINE T == {i \in Nat : i + 1 \in 1..k => L[i + 1] \in S}
    <3>1. 0 \in T
      BY <1>2
    <3>2. ASSUME NEW i \in Nat, i \in T PROVE i + 1 \in T
      <4> SUFFICES ASSUME (i + 1) + 1 \in 1..k PROVE L[(i + 1) + 1] \in S
        OBVIOUS
      <4>1. i + 1 \in 1..k /\ i + 1 < k
        OBVIOUS
      <4>2. L[i + 1] \in S /\ L[i + 1] \notin barred /\ table[L[i + 1]].ppid = L[(i + 1) + 1]
        BY <1>2, <1>4, <3>2, <4>1
      <4>3. L[(i + 1) + 1] \in Pids
        BY <1>2
      <4> QED
        BY <4>2, <4>3 DEF Shut
    <3> HIDE DEF T
    <3>3. \A i \in Nat : i \in T
      BY <3>1, <3>2, Induct
    <3>4. j - 1 \in Nat /\ (j - 1) + 1 = j
      OBVIOUS
    <3>5. j - 1 \in T
      BY <3>3, <3>4
    <3> QED
      BY <3>4, <3>5 DEF T
  <2>2. IsFiniteSet(Visited) /\ Cardinality(Visited) = n
    <3>1. \A i, j \in 1..n : L[i] = L[j] => i = j
      BY <1>1 DEF SInv, Trail
    <3>2. Visited = {L[i] : i \in DOMAIN L}
      BY <1>1 DEF Visited
    <3> QED
      BY <1>1, <3>1, <3>2, AsMany
  <2>3. IsFiniteSet(Shielded) /\ Cardinality(Shielded) \in Nat
    <3>1. Shielded \subseteq Pids
      BY DEF Shielded
    <3> QED
      BY <3>1, SmallSets
  <2>4. Cardinality(Visited \cup {p}) = n + 1 /\ Visited \cup {p} \subseteq Shielded
    BY <2>1, <2>2, FS_AddElement
  <2>5. Cardinality(Visited \cup {p}) <= Cardinality(Shielded)
    BY <2>3, <2>4, FS_Subset
  <2>6. MaxHops \in Nat
    BY CollectAssumption
  <2> QED
    BY <1>2, <2>3, <2>4, <2>5, <2>6
<1> QED
  BY <1>3, <1>4

LEMMA ShieldedVisited ==
  ASSUME SInv, stage = "build", NEW p \in Shielded, Cardinality(Shielded) < MaxHops
  PROVE  p \in Visited
<1>1. CASE home = Launchd
  <2>1. Shut({Launchd}) /\ {Launchd} \in SUBSET Pids
    BY RowFacts DEF SInv, Shut
  <2> QED
    BY <1>1, <2>1 DEF Shielded
<1>2. CASE home # Launchd
  <2>1. PICK k \in Nat : Linked(k) /\ (Ended(k) \/ Exhausted(k))
    BY <1>2 DEF SInv, Walked, Walking
  <2> QED
    BY <2>1, EndedLemma, ExhaustedLemma
<1> QED
  BY <1>1, <1>2

\* The facts of a process that is not renewed are its own.
LEMMA SparedAtEnd == ASSUME SInv, Build PROVE Spared'
<1>1. /\ UNCHANGED <<machine, home, guard>> /\ stage = "build"
      /\ entries' = {Entry(g[1], g[2]) : g \in {x \in Grouped : x[1] \in Infos}}
  BY DEF Build
<1>2. Shielded' = Shielded /\ table' = table /\ renewed' = renewed
  BY <1>1 DEF Shielded, Shut, machine
<1>3. ASSUME NEW p \in Shielded, Cardinality(Shielded) < MaxHops
      PROVE  Protection(p)
  BY <1>1, <1>3, ShieldedVisited DEF Protection
<1>4. ASSUME NEW p \in Infos, p \notin renewed,
             \/ p = Launchd \/ table[p].prog.name = "service"
             \/ table[p].prog.root /\ table[p].prog.place = "system"
      PROVE  Protection(p)
  <2>1. p \in Pids \ renewed /\ Known(p, "info")
    BY <1>4 DEF Infos, Asked, Grouped
  <2>2. Consistent(p, "info") /\ Consistent(p, "path")
    BY <2>1 DEF SInv, WInv, FactsHold, Calls
  <2>3. Readable(p) /\ Fact(p, "info").prog = table[p].prog
    BY <2>1, <2>2 DEF Consistent, Known, Answers, Fact
  <2>4. facts[p].path # Unasked
    BY <1>1, <1>4 DEF SInv, WInv, RoundsOver
  <2>5. Known(p, "path") => Fact(p, "path").prog = table[p].prog
    BY <2>2 DEF Consistent, Known, Fact
  <2>6. table[p].prog.place # "lost" => Known(p, "path")
    BY <2>2, <2>3, <2>4 DEF Consistent, Known, Answers, Readable
  <2>7. CASE p = Launchd
    BY <2>7 DEF Protection, SystemComponent, Launchd
  <2>8. CASE table[p].prog.name = "service"
    BY <2>3, <2>5, <2>8 DEF Protection, SystemComponent, Name
  <2>9. CASE table[p].prog.root /\ table[p].prog.place = "system"
    BY <2>3, <2>5, <2>6, <2>9 DEF Protection, SystemComponent
  <2> QED
    BY <1>4, <2>7, <2>8, <2>9
<1>5. \A p, port : Entry(p, port).pid = p /\ Entry(p, port).protected = Protection(p)
  BY DEF Entry
<1> SUFFICES ASSUME NEW g \in Grouped, g[1] \in Infos,
                    NEW e, e = Entry(g[1], g[2])
             PROVE  /\ e.pid \in Shielded /\ Cardinality(Shielded) < MaxHops => e.protected
                    /\ /\ e.pid \notin renewed
                       /\ \/ e.pid = Launchd \/ table[e.pid].prog.name = "service"
                          \/ table[e.pid].prog.root /\ table[e.pid].prog.place = "system"
                       => e.protected
  BY <1>1, <1>2 DEF Spared
<1> QED
  BY <1>3, <1>4, <1>5

LEMMA SparedStep == ASSUME SInv, [CollectNext]_allVars PROVE SInv'
<1>1. WInv' /\ TInv'
  BY WholeStep, TypesStep DEF SInv
<1>2. CASE Environment
  <2>1. stage # "done" /\ UNCHANGED stage
    BY <1>2, MachineFrame DEF Environment
  <2>2. Spared'
    BY <1>1, <2>1 DEF Spared, WInv, Unbuilt
  <2> QED
    BY <1>1, <1>2, <2>2, WalkedOutside DEF SInv
<1>3. CASE ~Environment
  <2>1. UNCHANGED <<machine, home>>
    BY <1>3 DEF CollectNext, Scanning, List, Thread, Bsd, ListFds, ReadFd, Retain, Group, Asking,
                TaskInfo, PidPath, CpuBefore, CpuAfter, Cmdline, Cwd, Brief, Ask, Rounds, Advance,
                Guarding, NewGuard, Hop, GuardDone, Build, Done, allVars, vars
  <2>2. Shielded' = Shielded /\ Kin' = Kin
    BY <2>1 DEF Shielded, Shut, Kin, Private, machine
  <2>3. Trail' /\ Walked'
    <3>1. CASE Guarding
      BY <3>1, NewGuardLemma, HopLemma, GuardDoneLemma DEF Guarding
    <3>2. CASE ~Guarding
      <4>1. /\ UNCHANGED guard
            /\ stage' \in {"guard", "build"} => stage' = stage
            /\ stage' \in Asks \cup {"list", "walk"} => stage \in Asks \cup {"list", "walk"}
        BY <1>3, <3>2
        DEF CollectNext, Scanning, List, Thread, Bsd, ListFds, ReadFd, Retain, Group, Asking, TaskInfo,
            PidPath, CpuBefore, CpuAfter, Cmdline, Cwd, Brief, Ask, Rounds, Advance, Build, Done,
            allVars, vars, edev, Asks
      <4> QED
        BY <2>1, <4>1, WalkedFrame
    <3> QED
      BY <3>1, <3>2
  <2>4. Spared'
    <3>1. CASE Build
      BY <3>1, SparedAtEnd
    <3>2. CASE ~Build
      <4>1. UNCHANGED entries
        BY <1>3, <3>2
        DEF CollectNext, Scanning, Group, Asking, TaskInfo, PidPath, CpuBefore, CpuAfter, Cmdline, Cwd,
            Brief, Ask, Rounds, Advance, Guarding, NewGuard, Hop, GuardDone, Done, allVars, edev
      <4>2. table' = table /\ renewed' = renewed
        BY <2>1 DEF machine
      <4> QED
        BY <2>2, <4>1, <4>2 DEF Spared, SInv
    <3> QED
      BY <3>1, <3>2
  <2> QED
    BY <1>1, <2>2, <2>3, <2>4 DEF SInv
<1> QED
  BY <1>2, <1>3

(***************************************************************************)
(* The entry of an ancestor of edev is protected, however its ancestors    *)
(* come and go while it walks up to them, as far as they could all be read *)
(* and if the rounds were enough; and so is that of a part of the system   *)
(* that has not changed hands.                                             *)
(***************************************************************************)
THEOREM AncestorsAlwaysSpared == CollectSpec => []Spared
<1>1. SInv /\ [CollectNext]_allVars => SInv'
  BY SparedStep
<1>2. SInv => Spared
  BY DEF SInv
<1> QED
  BY <1>1, <1>2, KinAtStart, PTL DEF CollectSpec
=============================================================================
