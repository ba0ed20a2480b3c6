# A TLA+ model of edev

edev lists the processes that listen on ports, guesses which of them are development
servers, and stops the ones the user chooses. This directory models the parts of it whose
correctness depends on what happens *between* two steps: between two system calls, between the
scan and the signal, between two threads. Every definition is translated from the Rust code
under `src/`; `PROJECT.json` ("map") names the lines each one stands for.

## Inventory

| Part | State it keeps | Operations | Talks to | What makes it correct |
|---|---|---|---|---|
| `kill.rs` | none between calls; deadline and back-off within one | `terminate`, `wait_gone`, `alive`, `send` | the kernel (`kill(2)`, clock) | the grace period is honoured, the outcome is true, no signal after ESRCH, it returns |
| `main.rs`, clean | entries, selection, plan, records, exit code | `run_clean`, `select_targets`, `merge_by_pid`, `pick_interactive`, `confirm` | scan, kill, the user, stdout | only what was asked for is signalled, once, with consent; the report and the exit code tell |
| `main.rs`, scan | none | `run_scan`, `apply_scope` | scan, render | it shows what is in scope; scope means the same as for clean |
| `scan.rs`, `platform/macos.rs` | sockets, groups, facts of one scan; a shared counter | `platform::scan`, `scan_pid`, `collect`, `count_conns`, `proc_info`, `apply_cpu_sample`, `cwd`, `brief`, `system_component` | the kernel, one call at a time, from many threads | nothing that listens all along is missed, nothing is invented, connections and denials are counted, an entry is about one process, the system is protected |
| `macos.rs`, arguments | a buffer | `cmdline`, `sysctl_procargs`, `parse_procargs` | the kernel (`KERN_PROCARGS2`) | the words and variables are those of the process, whatever their number |
| `scan.rs`, `SelfGuard` | `lineage`: edev's own ancestors | `new`, `protection` | `platform::ppid` | every ancestor that can be reached is protected |
| `classify.rs` | score, label and evidence of one verdict | `classify`, `lookup`, `env_score`, `conn_evidence`, `verdict` | called by `collect` for each port | the evidence explains the verdict; the ports of a process are judged alike |
| `macos.rs`, user names | a process-wide cache behind a lock | `username`, `lookup_user` | the directory (`getpwuid`) from many threads | right answers, one row and at most one lookup per thread and uid |
| `cli.rs`, `parse_index_spec` | none | `parse_port_spec`, `Target::parse`, `Target::matches` | | a text denotes what it reads as, or is an error |
| `model.rs`, `render.rs`, `style.rs` | none (`Hidden`: six counters) | records, layout, colours, `footer` | stdout | nothing that steps or orders could break |

`collect` calls `platform::scan`, asks each listening process for its facts, builds a `SelfGuard`
and calls `classify` for each (pid, port); `run_clean` filters and merges the entries and calls
`kill::terminate` for one process after another. Nothing is persisted, so there is no recovery
from a crash to model.

The hard behaviours: the process table changes under every loop (exit, zombie, reuse of a pid,
change of user); sleeps overshoot deadlines; the user may take any time to answer; standard
output may break after the signals were sent; the scan and the user-name cache run on many
threads; privileges hide part of the machine. `PROJECT.json` ("hazards") lists them line by line.

## Modules

| Module | Models | Correspondence |
|---|---|---|
| `KillContract` | what a caller of `terminate` may rely on | `sent` and `outcome` of one call; `Ladder` and `Returns` say which sequences of signals and which `Outcome` an option set allows |
| `Terminate` | `kill.rs`, one action per system call or early return | `pc`/`phase` are the place in `terminate` and `wait_gone`, `left` the time to the deadline, `nap` the running sleep; `Exit`, `Reap`, `Reuse`, `ChangeUser` are the kernel's |
| `SelfGuard` | `SelfGuard::new` and `platform::ppid` | `Visit` is one round of the loop, `Stop` its end; `Orphan` is an ancestor that exits |
| `Specs` | `parse_port_spec`, `Target::parse`, `parse_index_spec` | a text is a sequence of parts, a part a sequence of fields; each parser is a fold of one round of its loop. `WellFormed` and `Covers` say what a reader takes the text for |
| `Janitor` | what `edev clean` promises: choose once, ask, then deal with each in order, once, at most two signals | abstract: `chosen`, `dealt`, `current`, `hits` |
| `Clean` | `run_clean` and what it calls in `main.rs` | `pc` is the place in `run_clean`; one action per early return, prompt and loop step; calls of `terminate` are steps of `KillContract` |
| `Edev` | `main`, and `run_scan` | `ScanCommand` or `CleanCommand`, by `args.cmd`; `view` is what `run_scan` prints |
| `Scan` | `platform::scan`, `scan_pid`, `to_sock` | `at[p]` is the place in `scan_pid`, one action per system call; `Role` and `Kept` are its tests on what a descriptor names; `ExitProc`, `Start`, `Exec`, `Open`, `Close`, `Alter` are the rest of the machine |
| `Collect` | the rest of `scan::collect` | `stage` is the `par_iter` that runs, `facts[p]` what each call for p got; `NewGuard`, `Hop` and `GuardDone` are `SelfGuard::new`, then `Build` makes the entries |
| `ProcArgs` | `cmdline` and the parser of `KERN_PROCARGS2` | a buffer is a sequence of NULs and runs of other bytes |
| `Classify` | `classify`, called for each port of one process | `ReadArgs`, then one action per test that scores |
| `Username` | `username` and its cache | one action per lock section; `getpwuid` begins to fill its buffer, has filled it, and the name is copied in three |
| `MC*` | instances for TLC | constants only |
| `*_proofs`, `Induction` | theorems; induction, for recursion over numbers and sequences | |

How they compose:

* `Terminate` implements `KillContract` (`MeetsContract`, and `ImplementsContract` as a theorem),
  and `Clean` makes its calls through it, so that the states of `wait_gone` do not multiply with
  those of the loop.
* `Clean` implements `Janitor` (`KeepsPromise`, and `EdevKeepsPromise` as a theorem of its safety
  part): the processes chosen are the pids of
  `selected`, those dealt with the pids of `records`, the current one is that of the call that
  runs, and consent is `--yes`, `--dry-run` or an answer.
* `Edev` puts the two commands side by side, so that what one shows can be compared with what
  the other acts on.
* `Collect` extends `Scan`: the facts are asked for, and the ancestors of edev walked to, while
  the same machine keeps changing. Module `SelfGuard` has the walk by itself, for longer chains
  and with the topmost ancestor unreadable or not.
* `Classify` extends `ProcArgs`: the words it judges by are those that were read.

Operators with the comment "fault" are plausible bugs. No specification uses them; they are put
in the place of the definition they precede to see the property fail ("mutants" in
`PROJECT.json`).

## Runs and what they show

| Run | Question | Bounds |
|---|---|---|
| `terminate` | grace, truth of the outcome, silence after ESRCH, contract and return | grace 0, 3, 7 (none, several naps, too long for `Instant`), reap wait 2, naps up to 3, one reuse of the pid |
| `self_guard` | ancestors covered while some exit | chains of up to 5 of 5 pids, 5 rounds: as many as the longest chain, so that the bound of the loop bites |
| `clean_selection` | who may be signalled, what the user's texts select, and what scan shows for the same flags | 4 entries (two ports of one process with different verdicts, an unknown, a protected one) and three smaller listings; 7 sets of targets with every combination of the 6 flags; 182 texts (13 parts, alone and in pairs: empty, zero, out of range, reversed, open, with two hyphens, no number) as `--ports` and at the menu, each part also as a port and a pid target. The largest port is 8 and the largest pid 30 |
| `clean_signal` | consent, one call each, report, exit code, the loop ends, `Janitor` | 2 listings, every combination of signalling options that has an effect, every outcome of each call, pids recycled without bound |
| `scan` | nothing missed or invented, counters, whole entries, protection | 3 processes: launchd, edev's parent, and one that is not there, is a child of it, or its parent, readable or not; 10 sockets on 4 descriptor numbers, so that a number may pass from a listener to a connection, a half-closed one, a UDP socket with a peer, an unbound or a raw one, or a file; a port that was not asked for; 4 programs; 2 changes of the machine (among them `exec` and a pid that changes hands) at any two points of the scan; room for descriptors of 1, so that truncation occurs; 3 rounds of `SelfGuard::new`. Over a million states |
| `classify` | verdicts explained, ports agree, services left alone, arguments as given, launchd held against a process once | each group of tests with every value it looks at, two ports; buffers of 14 and 22 cells, so that some processes fit the first, some the second and some neither |
| `username` | right answers unless the buffer was raced for, lookups | 2 threads that share one buffer, 3 uids, one without a name, 3 calls per thread |

The bounds are small because what can go wrong needs few actors: one process and one successor
on its pid; two entries of one process; one thread between two steps of another. Times are in
units of the first back-off; only their order matters.

Runs that end in a counterexample show where the code and what is written about it differ:

* `clean_all_scope`: `clean --all TARGET` acts on everything, in scope or not (main.rs:99 and
  199 against main.rs:97, cli.rs:79).
* `clean_json`: `clean --json` writes prose to standard output (main.rs:285, 136, 131
  against cli.rs:119 and the repository's README:123).
* `self_guard_login`: an ancestor of another user hides those above it (scan.rs:218 against
  scan.rs:200).
* `scan_denied`: processes that exited are counted as denied (macos.rs:56 against model.rs:132).
* `username_race`: with the static buffer that macos.rs:247 speaks of, "copied at once" is not
  soon enough: another thread of the `par_iter` at scan.rs:66 may be filling it. A wrong name is
  answered, and stays in the cache.

A few more differences were seen in the model and have no run of their own: `Killed` is returned too when the
SIGKILL that ends the grace period finds nobody (kill.rs:122; `Returns` allows `Killed` after
SIGTERM alone), and a signal goes to whoever has the pid by then, a protected process included
(`Signal` in `Clean` when `occ` is "other"). The evidence of a verdict quotes environment
variables (classify.rs:519, 522, 530), which the README says are "discarded — never stored, never
printed" (README:107-109). `scan -a --dev-only` hides entries and its footer still advises `-a`
(render.rs:310; `Admits` looks at `dev_only` first). `clean --all TARGET`
never parses the target, so that a mistyped one is no error (main.rs:199 before 208). With an
empty listing, `clean` prints a footer without the hidden entries (main.rs:112).

## Fairness

* `Terminate`: weak fairness of the caller and of time. The thread is scheduled and the clock
  advances; nothing is assumed of the process (it may ignore SIGTERM), its parent (it may never
  reap) or the kernel.
* `KillContract`: weak fairness of the call, which `Terminate` is shown to provide; it is what
  `Clean` uses.
* `Clean`: weak fairness of the program. None for the user, who may never answer: `LoopEnds`
  starts where no answer is needed any more. `EdevSpec` asks the same, of `clean` only.
* `Janitor`: weak fairness of going on once there is consent and somebody to deal with. That
  `Clean` provides it is part of `KeepsPromise`.
* The other modules state safety only.

## Proofs

Checked by TLAPS for all values of the constants, under the assumptions named in the modules.

* `Terminate_proofs`: `TypeCorrect`, `GraceAlwaysRespected`, `OutcomesTruthful`,
  `AlwaysSilentAfterGone`, `ImplementsContract`. None of the properties is inductive: that
  SIGKILL waits for the grace period needs to know, at every poll, that the time since SIGTERM
  plus the time left is at least the grace (`Timing`); and that an answer is true needs what the
  last system call has seen (`Sighting`, `Backing`). `Stage` ties the program counter to the
  signals sent. `ImplementsContract` shows that the initial states of `Terminate` are initial
  states of the contract, and that each step is a `Deliver`, a `Decide` or a stutter
  (`Simulation`). Assumption: `TerminateAssumption` (waits and caps are naturals, the reap wait
  can be added to the clock).
* `SelfGuard_proofs`: `TypeCorrect`, and `WalkCoversAncestors`: if the chain is not longer than
  the loop's rounds and every process of it but the topmost can be read (`WalkCanReachTop`), then
  all ancestors left at the end are in `lineage`. The invariant: either they already are, or the
  walk is still on the chain and has recorded exactly what is below it. The code does not
  guarantee the hypothesis; `self_guard_login` is what happens without it.
* `Username_proofs`: `TypeCorrect` (one row per uid), `AnswersRightUntilRaced`,
  `OwnBuffersSuffice`, `AlwaysAskedOnce`. The invariant follows a name from the directory through
  the buffer and the thread to the row, as long as no buffer was filled while a name in it was
  still to be copied (`raced`). Nothing is assumed about who shares a buffer: the first theorem
  holds for any sharing. `OwnBuffersSuffice` has it as a hypothesis that no two threads share one,
  and then every answer is right. Which of the two holds is for the C library to say; the code
  says the buffer is static, and `username_race` is what happens then.
* `Edev_proofs`: `ConsentBeforeSignals` and `ExitCodes`, over `EdevSpec`. The invariant says
  which stages of a run come before the first record and the first signal, that the loop is
  only reached with leave to go on (`Leaved`), and that the options of a call are those of the
  command line (`CallOptions`): without the last, a signal in a dry run could not be excluded.
  Three theorems are about what the user types, for texts of any length: `PortSpecsReadAsMeant`
  and `IndexSpecsReadAsMeant` (each parser accepts just the texts that are well formed to a
  reader, and returns what they cover; by induction over the rounds of its loop) and
  `TargetsMeanWhatTheySay` (a target that parses matches what its text covers).
* `Clean_proofs`: over `EdevSpec`, for any listings, options, texts and plans of any length.
  The invariant ties three sequences together: the plan is the processes of the selection, each
  once, in order of pid, with all their ports and their protection (`Fits`, which `MergeFits`
  shows of what `merge_by_pid` returns); the records are those of its first items (`Recorded`);
  a call is under way for the next item, which is not protected (`Calling`). It gives
  `TypesPreserved`, `ProtectedNeverSignalled` and `EveryReportComplete`. From it `NextItem`:
  whoever is next is the first of those that wait, which is what `Janitor` asks of a turn; each
  action then maps to one step of `Janitor` or to none (`...AsPromised`), which is
  `EdevKeepsPromise`. `SignalsAlwaysCovered`, `NothingEverGuessed` and `MenuAlwaysHonoured` add
  that what is collected, selected and chosen is what the texts cover, by the theorems of
  `Edev_proofs`; a number typed at the menu is part of `SignalsCovered`. `AlwaysOneCall` adds that the signals of the log that went to a pid are those of
  its one call: none before its turn, those of `sent` during it, no more after it.
  `ScanForetells` compares what `run_scan` shows with what `run_clean` narrows its choice to.
  Assumptions: `CleanAssumption` (a
  listing is finite, its pids are naturals and its ports ports, the flags are Booleans and the
  texts texts, and the entries of one process agree on its protection: `collect` computes it from
  the one `ProcInfo` of the pid, scan.rs:99) and `EdevAssumption` (`scan` has no targets, cli.rs:34-70).
* `Collect_proofs`: for any number of processes, sockets, programs and changes of the machine.
  For `NothingEverMissed` and `BoundAlwaysAsSaid` the invariant follows a
  socket that is open and readable all along: while its process is walked it is among the
  descriptors to read or those kept (`Followed`), and its process answers when it is asked
  (`Answering`), which needs that what was steady so far still is there (`StillThere`). For
  `NothingEverInvented`, all that is kept has been open (`SeenOpen`), and what is kept of what
  has been open serves a port by the tests of `Role` and `Kept`, whatever its number named before.
  `EntriesAlwaysWhole` rests on two more: what is known of a process that was not
  renewed is what it would still say (`FactsHold`; `SameProcess` shows that such a process keeps
  its program through every change of the machine), and each round leaves all its questions
  answered (`RoundsOver`), so that nothing is asked too late or not at all. For
  `ConnectionsAlwaysCounted`, once a process is walked a steady connection is kept wherever a
  listener on its port is (`Accompanied`); for `DeniedAlwaysCounted`, the processes asked and not
  readable are never more than `denied` (`DInv`). `TypesAndRoom` bounds what is read by the room
  made for it. `AncestorsAlwaysSpared` follows the walk of `SelfGuard::new` (`Walked`): edev's
  parent is launchd by now, or the first few pids recorded are a chain of living processes up from
  it (`Linked`) and the walk goes on from its end (`Walking`), could not go on (`Ended`: the last one
  was not readable, or its parent is launchd, nobody or known), or is out of rounds
  (`Exhausted`). An exit may cut the chain short at any place, and then the rest of it hangs from
  launchd (`ChainLemma`), so that what was recorded beyond is no ancestor any more. Every ancestor
  below launchd up to the first that could not be read is on that chain. Assumptions:
  `ScanAssumption` (pids are positive and finitely many, sockets too; a UDP socket has a peer or
  not; pid 1 is among the pids, lives and is nobody's child, and the parent of a living process is
  alive; the first process table has the types of a table, no dead process holds a socket, and a
  descriptor number of a process names one thing) and `CollectAssumption` (edev's parent is one of
  the pids, and the walk has at least one round).
* `Classify_proofs`: for any process, ports, number of words and variables, padding and sizes of
  the buffers. `ArgsAlwaysAsGiven` is about the parser of `KERN_PROCARGS2`: the chunks of
  strings laid out are the strings (`ChunksOfFlat`), padding and empty strings are alike
  (`FlatAfterBlanks`), so that what is skipped are the empty strings before the first other one
  (`Parsed`), and what is taken of the rest is no more than the process has (`TakenBounded`).
  `AlwaysExplained`: the score is what the evidence so far is worth (`ScoreInv`), and each verdict
  is a reasoned one (`VerdictInv`). `TypesAndNames` needs `ArgsInv` too. `LaunchdAlwaysOnce`: up to the test
  `Parent` there is no evidence of launchd, between `Parent` and `Orphan` only if it could be
  asked for its name, and one piece from then on (`LaunchInv`). `PortsAlwaysAgree`: there is one
  list of `Findings` that depends on the process and its arguments only; every test adds what it
  has there (`TestAdds`), except for the address and the connections, worth between -1 and 2.
  `ServicesLeftAlone`: what runs the executable of a service is never past `Identify`.
  Assumptions: `ProcArgsAssumption` (buffer sizes and padding are naturals; an empty string has no
  "=") and `ClassifyAssumption` (strings have no NUL in them; the parent of a process with ppid 1
  is launchd, if it can be asked; no port is 0).
* `Induction`: what the others need to reason about recursion. The library's induction theorems
  take a predicate, which the provers here cannot instantiate; stated for a *set* of numbers or
  sequences (`Induct`, `SeqInduct`), from well-foundedness, they can be used. `FoldExists` and
  `RunExists` then show that a fold, or a recursive function over a sequence, has a value at each
  step, which is what its definition by `CHOOSE` leaves open.

Only model-checked: liveness, that is `LoopEnds` and the fairness parts of `MeetsContract` and
`KeepsPromise` (the prover has neither fairness nor ENABLED). The safety parts of the last two, and
every invariant that a passing run checks, are theorems.

## What is abstracted

* Names, paths, command lines: a word is the table it is found in; the rows of the tables, and
  the splitting of a path into the candidates to compare, are left out.
* Texts of ports, targets and menu numbers: numbers and hyphens, without spaces and with every
  text that is no number (letters, a sign, too many digits) as one value. A `usize` that
  overflows is no number.
* `KERN_PROCARGS2`: `sysctl` is taken to fail if the buffer is too small, and for a process of
  another user.
* Time: units, not milliseconds. Sleeping too long is part of the model, sleeping too short not.
* `Scan` and `Collect` assume that the kernel can list the pids, that what may be read of a
  process depends on the program it runs, and that the path of a process that is alive can be
  read unless the file is gone. Figures (CPU, memory, times) are left out; of a sample, who
  answered it is kept.
* In `Username`, the uid asked for is all that `proc_info` passes on, and a name is whole or torn.
* A panic ends `Clean` with one of two codes: 101 where it unwinds, 134 (SIGABRT, to a shell) in
  the release build, which aborts (Cargo.toml:37).
* In `Clean`, protection and kind are inputs: `Collect` and `Classify` say where they come from.
  Their composition in one state space would add nothing: an entry is passed on by value.
* Of standard output, the kind of text that is written and whether it is flushed.

## Not modelled

* `redact_argv`: which of the words of a command line are shown.
* The count of what is hidden, and its split by kind (`Hidden`, `footer`).
* `render::table`, `render::long`, `render::json`, `style.rs`: widths, truncation, units, colours.
* The conversion of addresses, times and C strings in `macos.rs`: each is a line of library code.
* `platform/mod.rs`: a compile-time choice with one branch. Build and release files.

## Plan

Done: all modules above, and a theorem for each invariant. Left, in order of worth:

1. That `Username` implements an abstract cache whose lookups are atomic, as long as no buffer
   was raced for.
2. The buckets of `Hidden` (`Kind::index`, `Kind::ALL` and the `zip` of `breakdown`), which would
   need the array and its order in the model to say anything about the split by kind.
3. `redact_argv`, which decides which words of a command line are shown.
