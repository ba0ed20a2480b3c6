------------------------------ MODULE Classify ------------------------------
(***************************************************************************)
(* classify.rs, as scan::collect calls it: once for every port that a      *)
(* process listens on, in the order of a hash map.  What is known of the   *)
(* process is the same for all its ports; the addresses and the            *)
(* connections are those of the port.                                      *)
(*                                                                         *)
(* A word of the command line stands for what the feature tables make of   *)
(* it: "Database" and "Infra" for the rows of SERVICES, "container" for    *)
(* CONTAINER_HOSTS, "framework" for FRAMEWORKS, "dev" for DEV_TOKENS,      *)
(* "serve" for a word of both, "script" for a path that entry_label takes, *)
(* "Infra.mod" for a dotted module of a service, "plain" for any other.  A *)
(* variable of the environment stands for what env_score makes of it, and  *)
(* a piece of evidence is named for the test that leaves it.               *)
(*                                                                         *)
(* Operators marked "fault" are plausible bugs of the definition below     *)
(* them; the specification does not use them.                              *)
(***************************************************************************)
EXTENDS ProcArgs, FiniteSets

CONSTANTS
  Processes,   \* what may be known of a process: see MCClassify
  Ports        \* port # 0 -> what may be known of it: sets of [loopback, total, external]

\* Strings have no NUL in them; pid 1 is launchd if it can be asked.
ASSUME ClassifyAssumption ==
  /\ \A p \in Processes :
       /\ p.argv \in Seq(STRING \ {Nul}) /\ p.environ \in Seq(STRING \ {Nul})
       /\ p.ppid = 1 => p.parent \in {"supervisor", "none"}
  /\ 0 \notin DOMAIN Ports

VARIABLES
  proc, port,  \* the process, and its ports: port -> facts
  todo,        \* ports to classify
  at,          \* the port being classified, or Nowhere
  args,        \* what cmdline returned: {} or {[argv, env]}
  pc,          \* next test
  score, label, ev,
  seen,        \* how many variables of the environment were looked at
  verdicts     \* port -> verdict, of the ports done

locals == <<at, pc, score, label, ev, seen>>
given  == <<proc, port, args>>
vars   == <<given, todo, locals, verdicts>>

None == "none"
Nowhere == 0
NoDir == [depth |-> -1, home |-> FALSE]

Services   == {"Database", "Infra"}
Containers == {"container"}
Frameworks == {"framework", "serve"}
DevTokens  == {"dev", "serve"}
Scripts    == {"script"}
Runners    == {"interactive"}   \* INTERACTIVE_PARENTS
Supervisor == "supervisor"      \* SUPERVISOR_NAME

Argv == IF args = {} THEN <<>> ELSE (CHOOSE a \in args : TRUE).argv
Env  == IF args = {} THEN <<>> ELSE (CHOOSE a \in args : TRUE).env

Least(S) == CHOOSE i \in S : \A j \in S : i <= j

\* The places of argv[1..] with a word of the table.
Places(table) == {i \in 2..Len(Argv) : Argv[i] \in table}

\* module_head: what the module after the first "-m" is named for.
ModuleHead ==
  LET flags == {i \in DOMAIN Argv : Argv[i] = "-m"}
      next  == Least(flags) + 1
  IN  IF flags = {} \/ next > Len(Argv) THEN None
      ELSE IF Argv[next] = "Infra.mod" THEN "Infra" ELSE Argv[next]

\* lookup: the executable, then argv[1..], then the module.
Lookup(table) ==
  IF proc.exe \in table THEN proc.exe
  ELSE IF Places(table) # {} THEN Argv[Least(Places(table))]
  ELSE IF ModuleHead \in table THEN ModuleHead ELSE None

Known(table) == Lookup(table) # None

\* find_project_root: the directories that hold a marker, this one and three up.
ProjectRoots == {d \in proc.markers : proc.cwd.depth - d \in 0..3}

Here == port[at]
-----------------------------------------------------------------------------
Hit(weight, what) == score' = score + weight /\ ev' = Append(ev, what)
Miss == UNCHANGED <<score, ev>>

Test(step, next) == pc = step /\ pc' = next /\ UNCHANGED <<given, todo, at, verdicts>>
Same == UNCHANGED <<label, seen>>

ReadArgs ==
  /\ pc = "args" /\ pc' = "begin"
  /\ args' = Cmdline(proc)
  /\ UNCHANGED <<proc, port, todo, at, score, label, ev, seen, verdicts>>

Begin ==
  /\ pc = "begin" /\ todo # {}
  /\ at' \in todo /\ todo' = todo \ {at'}
  /\ pc' = "identity" /\ score' = 0 /\ label' = "none" /\ ev' = <<>> /\ seen' = 0
  /\ UNCHANGED <<given, verdicts>>

ConnNames == IF Here.total = 0 THEN <<>>
             ELSE IF Here.external = 0 THEN <<"local">> ELSE <<"external">>

Confidence(kind, points) ==
  CASE kind = "DevServer" -> IF points >= 7 THEN "High" ELSE "Medium"
    [] kind = "Unknown"   -> "Low"
    [] OTHER              -> "High"

Finish(kind, name, points, why) ==
  /\ verdicts' = [p \in DOMAIN verdicts \cup {at} |->
       IF p # at THEN verdicts[p]
       ELSE [kind |-> kind, label |-> name, score |-> points, evidence |-> why,
             confidence |-> Confidence(kind, points)]]
  /\ at' = Nowhere /\ pc' = "begin"
  /\ UNCHANGED <<given, todo, score, label, ev, seen>>

\* fault: a framework in the command line is looked for before a service
FrameworkBeforeService ==
  /\ pc = "identity"
  /\ IF proc.system THEN Finish("System", "none", 0, <<"system">>)
     ELSE IF proc.exe \in Containers THEN Finish("Container", "known", 0, <<"forwarder">>)
     ELSE IF Known(Services) /\ ~Known(Frameworks)
          THEN Finish(Lookup(Services), "known", 0, <<"service">> \o ConnNames)
     ELSE /\ pc' = "framework"
          /\ UNCHANGED <<given, todo, at, score, label, ev, seen, verdicts>>

Identify ==
  /\ pc = "identity"
  /\ IF proc.system THEN Finish("System", "none", 0, <<"system">>)
     ELSE IF proc.exe \in Containers THEN Finish("Container", "known", 0, <<"forwarder">>)
     ELSE IF Known(Services)
          THEN Finish(Lookup(Services), "known", 0, <<"service">> \o ConnNames)
     ELSE /\ pc' = "framework"
          /\ UNCHANGED <<given, todo, at, score, label, ev, seen, verdicts>>

Framework ==
  /\ Test("framework", "token") /\ UNCHANGED seen
  /\ IF Known(Frameworks) THEN Hit(5, "framework") /\ label' = "known"
     ELSE Miss /\ UNCHANGED label

Token ==
  /\ Test("token", "cwd") /\ Same
  /\ IF Places(DevTokens) # {} THEN Hit(2, "token") ELSE Miss

Cwd ==
  /\ Test("cwd", "root") /\ Same
  /\ CASE proc.cwd # NoDir /\ ProjectRoots # {}                 -> Hit(3, "project")
       [] proc.cwd # NoDir /\ ProjectRoots = {} /\ proc.cwd.home -> Hit(1, "home")
       [] OTHER                                                 -> Miss

Root ==
  /\ Test("root", "parent") /\ Same
  /\ IF proc.cwd.depth = 0 THEN Hit(-2, "root") ELSE Miss

Parent ==
  /\ Test("parent", "orphan") /\ Same
  /\ CASE proc.parent = Supervisor -> Hit(-3, "supervised")
       [] proc.parent \in Runners   -> Hit(3, "interactive")
       [] OTHER                     -> Miss

\* fault: launchd as a parent counts whether or not its name is known
OrphanTwice ==
  /\ Test("orphan", "env") /\ Same
  /\ IF proc.ppid = 1 THEN Hit(-2, "orphan") ELSE Miss

Orphan ==
  /\ Test("orphan", "env") /\ Same
  /\ IF proc.ppid = 1 /\ proc.parent = None THEN Hit(-2, "orphan") ELSE Miss

\* fault: production counts but leaves no evidence
SilentProduction ==
  /\ pc = "env" /\ seen < Len(Env)
  /\ seen' = seen + 1
  /\ CASE Env[seen'] = "development" -> Hit(3, "development")
       [] Env[seen'] = "production"  -> score' = score - 3 /\ UNCHANGED ev
       [] OTHER                           -> Miss
  /\ UNCHANGED <<given, todo, at, pc, label, verdicts>>

\* env_score: every variable of ENV_MODE_KEYS, then the tool prefixes.
EnvMode ==
  /\ pc = "env" /\ seen < Len(Env)
  /\ seen' = seen + 1
  /\ CASE Env[seen'] = "development" -> Hit(3, "development")
       [] Env[seen'] = "production"  -> Hit(-3, "production")
       [] OTHER                           -> Miss
  /\ UNCHANGED <<given, todo, at, pc, label, verdicts>>

EnvTool ==
  /\ seen = Len(Env) /\ Test("env", "bind") /\ Same
  /\ IF "tool" \in ToSet(Env) THEN Hit(2, "tool") ELSE Miss

Bind ==
  /\ Test("bind", "uptime") /\ Same
  /\ IF Here.loopback THEN Hit(1, "loopback") ELSE Miss

Uptime ==
  /\ Test("uptime", "conns") /\ Same
  /\ CASE proc.uptime = "fresh" -> Hit(1, "fresh")
       [] proc.uptime = "old"   -> Hit(-1, "old")
       [] OTHER                 -> Miss

\* fault: one point for each connection
PointPerConnection ==
  /\ Test("conns", "verdict") /\ Same
  /\ ev' = ev \o ConnNames
  /\ score' = IF Here.external = 0 THEN score + Here.total ELSE score - Here.external

\* conn_evidence
Connections ==
  /\ Test("conns", "verdict") /\ Same
  /\ CASE Here.total = 0                        -> Miss
       [] Here.total > 0 /\ Here.external = 0   -> Hit(1, "local")
       [] OTHER                                 -> Hit(-1, "external")

\* entry_label, or else the executable.
Guess == IF Places(Scripts) # {} THEN "script" ELSE "executable"

\* fault: only a framework gives a name
NameOfFrameworkOnly ==
  /\ pc = "verdict"
  /\ Finish(IF score >= 3 THEN "DevServer" ELSE "Unknown", label, score, ev)

Conclude ==
  /\ pc = "verdict"
  /\ LET kind == IF score >= 3 THEN "DevServer" ELSE "Unknown"
     IN  Finish(kind, IF label = "none" /\ kind = "DevServer" THEN Guess ELSE label, score, ev)

Done == pc = "begin" /\ todo = {} /\ UNCHANGED vars
-----------------------------------------------------------------------------
Init ==
  /\ proc \in Processes
  /\ port \in {f \in [DOMAIN Ports -> UNION {Ports[p] : p \in DOMAIN Ports}] :
                 \A p \in DOMAIN Ports : f[p] \in Ports[p]}
  /\ todo = DOMAIN Ports /\ at = Nowhere /\ pc = "args" /\ args = {}
  /\ score = 0 /\ label = "none" /\ ev = <<>> /\ seen = 0
  /\ verdicts = <<>>

Next ==
  \/ ReadArgs \/ Begin \/ Identify \/ Framework \/ Token \/ Cwd \/ Root \/ Parent \/ Orphan
  \/ EnvMode \/ EnvTool \/ Bind \/ Uptime \/ Connections \/ Conclude \/ Done

Spec == Init /\ [][Next]_vars
-----------------------------------------------------------------------------
Kinds == {"DevServer", "Database", "Infra", "Container", "System", "Unknown"}
Scored == {"DevServer", "Unknown"}

Judged == DOMAIN verdicts

\* What each piece of evidence says to its reader.
Weight == [framework |-> 5, token |-> 2, project |-> 3, home |-> 1, root |-> -2,
           supervised |-> -3, interactive |-> 3, orphan |-> -2, development |-> 3,
           production |-> -3, tool |-> 2, loopback |-> 1, fresh |-> 1, old |-> -1,
           local |-> 1, external |-> -1]

WeightOf(why) ==
  LET sum[n \in 0..Len(why)] == IF n = 0 THEN 0 ELSE sum[n - 1] + Weight[why[n]] IN sum[Len(why)]

\* Types; every dev server has a name to be shown by (classify.rs:390).
TypeOK ==
  /\ todo \subseteq DOMAIN Ports /\ DOMAIN verdicts \subseteq DOMAIN Ports \ todo
  /\ \A a \in args : Len(a.argv) <= Len(proc.argv) /\ Len(a.env) <= Len(proc.environ)
  /\ at \in DOMAIN Ports \cup {Nowhere}
  /\ score \in Int /\ seen \in 0..Len(Env) /\ label \in {"none", "known"}
  /\ \A p \in Judged :
       /\ verdicts[p].kind \in Kinds /\ verdicts[p].confidence \in {"High", "Medium", "Low"}
       /\ verdicts[p].kind = "DevServer" => verdicts[p].label # "none"

(***************************************************************************)
(* README.md:48: every verdict ships with the evidence that produced it.   *)
(* An identity has its reason; otherwise the points that the evidence is   *)
(* worth are the score, and decide between DevServer and Unknown.          *)
(***************************************************************************)
Explained ==
  \A p \in Judged :
    LET v == verdicts[p] IN
    IF v.kind \in Scored
    THEN v.score = WeightOf(v.evidence) /\ (v.kind = "DevServer" <=> v.score >= 3)
    ELSE v.score = 0 /\ v.evidence # <<>>

(***************************************************************************)
(* The ports of one process, all of which a signal closes, are judged      *)
(* alike: by the same identity, or by scores that differ by what a bind    *)
(* address and the origin of the connections are worth at most.            *)
(***************************************************************************)
PortsAgree ==
  \A p, q \in Judged :
    IF verdicts[p].kind \in Scored
    THEN verdicts[q].kind \in Scored /\ verdicts[p].score - verdicts[q].score <= 3
    ELSE verdicts[q].kind = verdicts[p].kind

(***************************************************************************)
(* README.md:40: --dev-only leaves the database alone.  What runs the      *)
(* executable of a database or of an infrastructure service is never taken *)
(* for a dev server, whatever is in its command line and its environment.  *)
(***************************************************************************)
DatabaseLeftAlone ==
  proc.exe \in Services => \A p \in Judged : verdicts[p].kind \notin Scored

(***************************************************************************)
(* The words and the variables that a verdict is based on are those of the *)
(* process, in order, whatever their number, unless argv[0] is empty (it   *)
(* is taken for padding, and all moves up by one), it is another user's,   *)
(* or they exceed ARG_MAX.                                                 *)
(***************************************************************************)
ArgsAsGiven ==
  /\ args = {} /\ pc # "args" => ~proc.mine \/ Len(Layout(proc).cells) >= ArgMax
  /\ proc.argv # <<>> /\ proc.argv[1] # "" =>
       \A a \in args : a.argv = proc.argv /\ a.env = PairsOf(proc.environ)

Held(why) == {i \in DOMAIN why : why[i] \in {"supervised", "orphan"}}

(***************************************************************************)
(* classify.rs:359, 367: that a process is run by launchd is held against  *)
(* it once.  Whether launchd can be asked for its name (only root may)     *)
(* makes a difference of one point, not of the whole evidence.             *)
(***************************************************************************)
LaunchdCountedOnce ==
  proc.ppid = 1 => \A p \in Judged : verdicts[p].kind \in Scored =>
    Cardinality(Held(verdicts[p].evidence)) = 1
=============================================================================
