------------------------------- MODULE MCScan -------------------------------
(***************************************************************************)
(* Instances of Collect for TLC: launchd, edev's parent, and a process     *)
(* that is not there, is a child of edev's parent, or is its parent, and   *)
(* then readable or not.  Either may listen, with a connection on its port *)
(* and a port that was not asked for.  Several sockets have the same       *)
(* number: what one descriptor may name at different times.                *)
(***************************************************************************)
EXTENDS Collect

Tcp(fd, state, local, external) ==
  [fd |-> fd, kind |-> "tcp", state |-> state, port |-> 1, local |-> local, external |-> external]

Udp5(kind, state, port) ==
  [fd |-> 5, kind |-> kind, state |-> state, port |-> port, local |-> FALSE, external |-> FALSE]

Web        == Tcp(3, "listen", TRUE, FALSE)
Client     == Tcp(4, "established", TRUE, TRUE)
Outgoing   == [Tcp(3, "established", TRUE, TRUE) EXCEPT !.port = 2]
HalfClosed == Tcp(4, "closing", TRUE, TRUE)
Public     == [Tcp(6, "listen", FALSE, FALSE) EXCEPT !.port = 2]
Quic       == Udp5("udp", "unconnected", 1)
Resolver   == Udp5("udp", "connected", 1)
Unbound    == Udp5("udp", "unconnected", 0)
Ping       == Udp5("raw", "unconnected", 0)
LogFile    == [Ping EXCEPT !.fd = 6, !.kind = "file"]

AllSocks == {Web, Client, Outgoing, HalfClosed, Public, Quic, Resolver, Unbound, Ping, LogFile}

Program(readable, root, name, place) ==
  [readable |-> readable, root |-> root, name |-> name, place |-> place]

Shell   == Program(TRUE, FALSE, "plain", "lost")
Daemon  == Program(TRUE, TRUE, "plain", "system")
Rapport == Program(TRUE, FALSE, "service", "elsewhere")
Hidden  == Program(FALSE, TRUE, "plain", "system")

AllPrograms == {Shell, Daemon, Rapport, Hidden}

Proc(prog, ppid, open) == [alive |-> TRUE, open |-> open, ppid |-> ppid, gen |-> 0, prog |-> prog]
Free == [Proc(Shell, 1, {}) EXCEPT !.alive = FALSE]

Table(init, two, three) == [p \in {1, 2, 3} |-> IF p = 1 THEN init ELSE IF p = 2 THEN two ELSE three]
Init1 == Proc(Hidden, 0, {})

MCStarts ==
  {Table(Init1, Free, Proc(Shell, 1, {Web, Client, Public})),
   Table(Init1, Proc(Rapport, 3, {Web, Client}), Proc(Shell, 1, {Quic})),
   Table(Init1, Proc(Hidden, 1, {Web}), Proc(Shell, 2, {Web, Quic, LogFile})),
   Table(Init1, Proc(Daemon, 1, {Web}), Proc(Shell, 2, {}))}
=============================================================================
