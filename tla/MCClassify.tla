----------------------------- MODULE MCClassify -----------------------------
(***************************************************************************)
(* Instances of Classify for TLC.  Each fact is combined with the facts    *)
(* that the same tests look at; the others are those of a server started   *)
(* from a shell in a project, or of a daemon.                              *)
(***************************************************************************)
EXTENDS Classify, TLC

Dir(depth, home) == [depth |-> depth, home |-> home]

Shell  == [system |-> FALSE, exe |-> "plain", mine |-> TRUE, argv |-> <<"plain", "plain", "dev">>,
           environ |-> <<"development", "tool">>, cwd |-> Dir(2, TRUE), markers |-> {2},
           parent |-> "interactive", ppid |-> 9, uptime |-> "fresh"]
Daemon == [system |-> FALSE, exe |-> "plain", mine |-> TRUE, argv |-> <<"plain">>,
           environ |-> <<>>, cwd |-> Dir(0, FALSE), markers |-> {},
           parent |-> None, ppid |-> 1, uptime |-> "old"]

Words == {<<>>, <<"plain">>, <<"">>, <<"dev">>, <<"serve", "script">>, <<"framework", "Infra">>,
          <<"Database", "Infra">>, <<"-m", "Infra.mod">>, <<"-m">>}

Names ==
  {[f EXCEPT !.system = s, !.exe = e, !.argv = <<z>> \o w] :
     f \in {Shell, Daemon}, s \in BOOLEAN, z \in {"", "plain", "Database"},
     e \in {"plain", "container", "framework", "Database", "Infra"}, w \in Words}
  \cup {[f EXCEPT !.mine = m, !.argv = <<>>] : f \in {Shell, Daemon}, m \in BOOLEAN}

\* A supervisor is pid 1; the parent of a process may be gone or unreadable.
Kin == {<<1, "supervisor">>, <<1, None>>, <<9, "interactive">>, <<9, "other">>, <<9, None>>}

\* Markers at any depth, too far up among them.
Dirs ==
  {<<Dir(d, h), m>> : d \in {0, 4, 5}, h \in BOOLEAN, m \in {{}, {0}, {1}, {4, 0}}} \cup {<<NoDir, {}>>}

Sites ==
  {[f EXCEPT !.cwd = c[1], !.markers = c[2], !.ppid = q[1], !.parent = q[2], !.uptime = u] :
     f \in {Shell, Daemon}, c \in {d \in Dirs : \A m \in d[2] : m <= d[1].depth},
     q \in Kin, u \in {"fresh", "mid", "old"}}

Modes == {"development", "production", "other"}

\* The last of these is too long for ARG_MAX, that before for the small buffer.
Environments ==
  {[f EXCEPT !.environ = v \o t] : f \in {Shell, Daemon}, t \in {<<>>, <<"", "tool">>},
     v \in {<<"no pair">>} \cup {<<m>> : m \in Modes} \cup {<<m, n>> : m \in Modes, n \in Modes}
             \cup {<<"no pair", "tool", "other", "", "production">>,
                   <<"other", "other", "other", "other", "other", "other", "other", "tool">>}}

MCPairs == Modes \cup {"tool"}

MCProcesses == Names \cup Sites \cup Environments

\* The first port has all that speaks for a dev server.
MCPorts ==
  (1 :> {[loopback |-> TRUE, total |-> 2, external |-> 0]})
  @@ (2 :> {[loopback |-> TRUE, total |-> 0, external |-> 0],
            [loopback |-> FALSE, total |-> 0, external |-> 0],
            [loopback |-> FALSE, total |-> 3, external |-> 1]})
=============================================================================
