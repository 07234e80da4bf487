# Specifications of instantcoffee

instantcoffee runs coding agents (pi) on a local or remote model. Much of the repository
is launch scripts, data and text; what has logic of its own is the multi-agent
orchestrator `team-solve`, the forked subagent extension, the patched tool-call proxy
(forge), the browser server, the capture proxy, the model downloader and the decisions
of the benchmarks. These modules specify that logic in TLA+. TLC checks small instances;
TLAPS proves the main results for every instance.

- [The system](#the-system)
- [Modules](#modules): what each models and how it corresponds to the code
- [Runs](#runs): what TLC checks, the bounds, the fairness
- [Findings](#findings): where the code and its documents part
- [Proofs](#proofs): what TLAPS proves, from what, and along which argument
- [Not modelled](#not-modelled-and-why)
- [Plan](#plan)

## The system

| Part | State | Operations | What is hard, and what must hold |
|---|---|---|---|
| **team-solve orchestrator** `scripts/team-solve/team_solve.py` (`Orchestrator`), `tree.py`, `taskspec.py`, `failures.py` | `state.json` (phase, role ledger, baseline, settled check, keep), the workspace, saved trees `direct`/`accepted`/`team`, `tasks.json`, the roles' files and logs, the locals of `execute` | the phases of `execute`; `run_role` with its attempts and threads; `snapshot`, `save`, `restore`, `capture_diff`; `prior_role`; `against_baseline` | crash, stop, failure or an operator's edit at any step, then resume with the locals lost. What is accepted was checked; a run is solved only on accepted work and ends on the best proven work; a saved state comes back exactly; an answer is reused only if it would be given again |
| **team-solve run control** same file, `cmd_run` to `main` | run lock, `current.json`, `state.json` with pid and children, `result.json`, result lock | `run`, `resume`, `stop`, `status`, `check` as separate processes | killed owners, orphaned children, stale reads before a lock, work after a lock is released. One owner per run; a verdict stands; nobody waits for ever |
| **subagents** `vendor/pi-subagents-lite/src` | agent records, slot tables per depth, queue, gates, verify runs | spawn, settle, verify, stop, clear, continue, setLimits, dispose | a settlement racing a stop, a parent waiting for a queued child, limits that change. A slot is held exactly while a run goes on; a verdict is about the answer that is returned; not everybody waits |
| **forge patches** `patches/forge_*.py`, `Dockerfile.forge` | a conversation on four wires; the files of the installed package | one request with its two retry budgets; thirteen patches in a build | a failure told as an answer, an empty turn, a prompt that is not an extension of the last one; a patch that reports success and patched nothing |
| **browser server** `scripts/browser_cli.py` | pid file, port, processes | `up`, `down`, `restart`, `reap`, the supervisor's loop | two commands at once with no lock, a Chrome that wedges, a stale pid file, a shutdown that outlasts the patience of who asked for it. A stop stops, no Chrome is left over, a dead server comes back |
| **capture** `scripts/capture_proxy.py`, `capture_sessions.py` | the tape, the recorder's count and buffer; the chains of workstreams | record, restart, assemble a stream; chain, import, export | a kill inside a line or a character, answers that finish out of order, branches of a session. What is recorded is what was sent; the cap holds; a line cut short costs no other |
| **model download** `scripts/download_model.py` | the models volume, the cache, what the Hub said | look, set aside, fetch, check, prune | the Hub replaces a file between two steps; a kill between any two. Done means what was announced; a whole copy is not lost |
| **benchmarks and analyses** `scripts/bench_cross_engine.py`, `spec_sweep_compare.py`, `kld_budget.py` | the negotiated request, nonces; a sweep's results; a model file's table | negotiate, measure, compare; preflight | a cached prompt timed as a prefill; partial or busy rounds compared; a tensor table in another order than its data |
| spawn coordination, nudges, compaction lock and guard, loop mode, update, mode and stack scripts, prompts, observe, llama patches | - | - | not modelled, [see below](#not-modelled-and-why) |

The extension `team-solve.ts` starts `run` and `resume` detached and calls `stop` and
`status` with a time limit. The orchestrator starts each role as a `pi` process and each
check as a `bash` process, and learns of them by polling. The commands share nothing but
files and signals. Subagents live in one pi process and meet in callbacks. pi talks to
forge, forge to llama-server, through the capture proxy when there is one; they meet in
requests only. The browser's commands and its supervisors share the pid file, the port,
the process table and signals, and no lock. The other tools stand alone.

## Modules

| Module | What it is | Run |
|---|---|---|
| `TeamSolve`, `ProvenWork` | one run of `Orchestrator.execute` with every interruption; what a run promises, which it implements | `resume`, `once`, `stale_keep` |
| `RoleRun` | one phase of it with two roles: threads, attempts, children, stop, timeout, death, resume | `roles` |
| `RoleAnswer` | what `run_role` makes of a child's log, over attempts and a resume | `turns` |
| `RoleReuse` | which recorded answers a resumed run takes over | `control` |
| `WorkTree`, `TaskLedger` | snapshots, saves, restores, diffs; the settled check and the ledger of tasks | `turns`, `agents` |
| `BaselineCheck` | a failing check against its baseline | `tools` |
| `RunControl` | the commands as processes over the files and locks | `control`, `control_ends` |
| `SlotTable`, `AgentManager`, `Admission` | concurrency limits, the subagents under them; what the limits promise, which they implement | `agents` |
| `ForgeTurn`, `PatchBuild` | a conversation through the patched forge; the build that patches it | `turns` |
| `BrowserServer` | commands, supervisors, servers and Chromes | `browser`, `stop_wedged` |
| `CaptureTape`, `CaptureSessions`, `StreamAssembler`, `PiImport` | the recorder and its tape; how it is read back; streamed answers; pi's transcripts | `tools`, `torn_tape`, `agents` |
| `Download` | the downloader beside the Hub | `control` |
| `BenchArms`, `SweepVerdict`, `GgufPlacement` | the cross-engine benchmark, the verdict of a sweep, the memory preflight | `tools` |
| `MCTeamSolve`, `MCRunControl`, `MCRoleRun`, `MCAgentManager`, `MCTurns`, `MCTools`, `MCCaptureTape` | the instances TLC checks | |
| `TeamSolveProofs`, `RunControlProofs`, `RoleRunProofs`, `AgentManagerProofs`, `BrowserServerProofs`, `CaptureTapeProofs`, `TurnsProofs`, `ToolsProofs` | the proofs; `CaptureTapeProofs` is also about `StreamAssembler`, `TurnsProofs` about `ForgeTurn`, `RoleAnswer` and `WorkTree`, `ToolsProofs` about `Download`, `RoleReuse`, `BenchArms` and `SweepVerdict` | |

`MCRunControl`, `MCAgentManager`, `MCTurns` and `MCTools` put parts that share nothing side by side:
in a behaviour only one of them moves, so their state spaces add up instead of multiplying.

`PROJECT.json` names the lines of the source that every definition stands for.

### TeamSolve

A workspace is an element of `Trees`: `tree.py` identifies one by a git tree object.
`ws` is the live one and `saved` the named ones (`Tree.save`). `pc` is the phase, named like
`set_phase`'s argument where there is one; each action runs to the next save of
`state.json`. Steps that leave something on disk in between are actions of their own:
`DirectEdits`, `SolveEdits` and `RepairEdits` (a role writes and then may fail),
`RestorePart` (`restore_tree` writes file by file).

The volatile variables `round`, `before`, `review`, `acceptedNow` are the locals of
`execute`. `Gone` resets them: this is what a crash, failure or stop loses. The variables
under "on disk" survive, including the fields that nothing clears (`keep`, `repaired`).
`measured`, `proof`, `touched`, `cut` and `resumes` are history for the properties;
`resumes` is also the bound on `Resume`, `ResumeSolved` and `OperatorEdits`.

Answers of roles and exits of checks are choices; what the code does with them are
definitions: `CheckOutcomes` (`evaluate_check`, `against_baseline`), `CountedReview`,
`Rejects`, `AcceptsUnjudged`, `JudgeAccepts`, `EndsAccepted`, `KeepNet`, `SolvedVerdict`. The
ledger (`prior_role`) is `done`: whether the record of a writable role still matches is a
choice (`Reusable`), which `RoleReuse` is about. A check killed by the operator's stop
exits like one that failed, and the code does not tell the two apart: `TakeBaseline` and
`Test0` take the exit although `stopReq` is set.

Abstracted: texts, tasks of the manager, routing to a profile, models, usage, the report,
and the field `stopped`, which only the report reads. A phase's attempts and threads are
one step here and `RoleRun` inside. A settled check that cannot be read back is the `judge`
kind, as in `settle`.

### RoleRun, RoleAnswer, RoleReuse

`RoleRun` is `run_parallel` or `run_beside` with two threads. `pc[t]` is where `run_role` is in
thread t, `frame` whether it is the role or its cut-off summary; `procs` is
`current_procs`, `disk` `active_processes` (in memory and in `state.json`, whose save is
atomic with it here; the entry made before its save is left out), `snap` the inventory
one thread has found and not yet applied. A step ends where another thread can see what
it did. `Crash` leaves the children alive and `Resume` finds them; `lost` are those no file
names. The cutoff's own record is left out, a prompt is a number that may change with a
resume, and `scenario` chooses what may disturb the phase.

`RoleAnswer` is the path of an answer from pi's log (`parse_pi_events`) to the ledger: `PiSays`,
`RetryFails`, `Settles`, `PiExits` write the log, `AttemptFails` and `RoleDone` judge it, the
router's answer goes on to `Routed` or `Fallback`. At most one line of a log is torn.
`cmd_resume` asks the router again when its prompt names the resolved profile
(`team_solve.py:1051`), so the profile may change on a resume. Usage is left out (that of
stopped, cancelled and killed attempts is never added up).

`RoleReuse` has the files of the run's directory by name, the version of each, and for every
role of every round its record: the versions `role_evidence_paths` listed when it was asked
(`evidence`), what the prompt told it to read (`told`), and, as history, what it read
(`seen`). Left out: the planner's own `task.md`, a judge that answers nothing, an
uninformative check, router and profile. The first line of `diff.txt` is its time of
capture, so after a check of a round nothing that reads the diff is reused in a later
sitting; the audit lists its own output as evidence and is never reused.

### WorkTree, TaskLedger, BaselineCheck

In `WorkTree` a workspace is a function from paths to contents, in which a path is a file or a
directory; `index`, `commits`, `head`
and `ref` are git's, which others may change between any two steps. `SaveKeep`/`SaveName` are
the two steps of `save`, `RestoreDelete`/`RestoreWrite`/`RestoreClear` the loop of `restore`,
`Capture`/`CaptureScope` are `capture_diff`. Left out: failures and retries of `git add`,
`baseline_copy`, `.patch` files, a detached HEAD, a role's own `git init`. `TaskLedger` has the
manager's answers, the list in `tasks.json` and `next_task`, with kills between them; only the
Check section of `task.md` is modelled, and a check that begins with `judge` or `samples`
is left out. In `BaselineCheck` a log is its sequence of telling lines, tests are names in
units, and `Parse`, `AgainstBaseline` say what `failures.parse` and `against_baseline` make of it; a
check of two steps that a timeout cuts is judged by the runner that finished.

### RunControl

Each element of `Procs` is one invocation of the script and its own pid. `state[r]` holds
what the commands read of `state.json`: `gen` (the pid of the generation), `status`
(`finished` is the terminal statuses) and `kids` (`active_processes`). `mem` is the state
a process has in memory, so a stale read stays stale. `lock` is `claim_run_lock`
(non-blocking: a refused invocation does nothing and is no step); `resLock` is
`result_lock` (blocking). Both go with their process. The children of a process are one
child, with the pid of its parent. `trace` is what `state.json` was ever told of it. A kill
always ends its target: the survivors `stop_process_tree` may report are not modelled.

`run` is `RunAgain`/`RunNew`, `Activate`, `Begin`; `resume` is `Resume`, `RecheckPasses` or
`RecheckFails`, `Unlink`, `Activate`; the orchestrator at work is `Spawn`, `Register`,
`Unregister`, `Stopped`, `Fail`, `Finish`; the end of `main` with the lock already released
is `TerminalRead`, `TerminalSave`, `WriteResult`; `stop` is `StopRead` to `StopRecord` and
`WriteResult`; `status` is `StatusRead`, `StatusLock`, `StatusWrite`; `check` is
`ManualCheck`, `ManualCheckEnds`. Where the code reads and later writes without a lock,
there are two actions. `Crash` is any death with nothing written, the extension's time
limit on `stop` included. Which of `run`'s two paths is taken depends on the request, which
is not modelled, so both are possible.

### SlotTable, AgentManager

`SlotTable` is `concurrency-slots.ts` as operators on tables: a slot per model or per provider,
its limit and its count. `AgentManager` has `rec`, one record per subagent with the phase of
its run, `agents` (those the manager still has), `queue`, `tables` (one per depth; a subagent's
`Depth` is its parent's plus one) and `config`. One thread runs all of it, so a step is what happens between two awaits: `Spawn`,
`RunStep` (setup, turn, end, judge, repair, settlement), `Stop`, `Clear`, `Steer`, `Limits`,
`Dispose`. An answer is its attempt's number, so that a verdict can be of the wrong one.
Left out: briefs and the texts of steering, transcripts, costs, the watchdog's clocks; the
outcomes of a judge or a repair are choices. The scenario says which operations may occur.
The code can start a judge after `dispose`, and gives a session to a record that was
stopped and cleared during its setup; the model does too.

### ForgeTurn, PatchBuild

A message of `ForgeTurn` says who wrote it and where its parts came from (`said`, `thought`,
`call`), enough to see a thought answered as text or a call dropped. `Generate` and `Fail` are
the backend's answers, `attempt`, `retries` and `toolErrors` the budgets. The parts of forge that no
patch touches are modelled from how the patches use them and mapped as external. Left
out: the backend is never streamed from, `respond` tool and rescue, prompt mode, usage,
`FORGE_MERGE_ACROSS_TOOLS=1`. `PatchBuild` has each file as a bag of named fragments, one
change upstream at a time, and the patches run in any order, again and again, until one
refuses.

### BrowserServer

`sup[s]`, `srv[s]`, `chrome[s]` are a supervisor, its server and the server's Chrome; `pc[c]` and
`kind[c]` a command. Commands are numbered in the order they are issued. `World` is what
happens to processes: a server exits or hangs, a Chrome wedges, a supervisor dies. `mark`
remembers the server a stop has to end, `abrupt` the supervisors that died between the
death of their server and the end of its group.

`stop_browser` is sent to whoever holds the port, and is answered (`Answers`) unless that server
hangs or its Chrome is wedged, which the code calls "exactly the call that hangs". A command
waits its 30 seconds and goes on, with Chrome as it was (`ClosesChrome`). A supervisor waits 20
(`StuckClosing`), which is longer than the 15 that `stop_server` gives its shutdown and the 2 of
`reap`: it is killed there (`StopKills`, `ReapKills`) and its server stays. `forced` remembers the
commands that stopped such a supervisor: `StopStops` excepts them and servers that hang, and
`StopEndsServer`, without the exceptions, is the finding of `stop_wedged`.

Left out: the reuse of a pid
(`read_pid`), the tool calls and their output. Of two concurrent `up`s the model has what the
code does: both spawn, one loses the port.

### CaptureTape, CaptureSessions, StreamAssembler, PiImport

`handler[r]` is the thread of request r and `client[c]` what a client has said and waits for. A
line is one unit of the cap, `size` what the recorder counts, `held` lines in the buffer of
a file whose write failed. `CaptureSessions` is the reader as operators; `Workstreams`
compares what it chains with what the clients said. The end of the process may cut the line it
is writing short, between two characters ("torn") or inside one ("split", of lines that hold what a
client said). The line appended after it is one line with it, and neither parses (`Parses`). Half a
character is worse: the file is decoded as it is iterated, outside of what catches an unparseable
line, so nothing is read at all (`Decodes`, `LoadTape`). `TapeIsTrue` says which lines parse,
`OnlyUnparseableSkipped` which are read: that is the finding of `torn_tape`. `StreamAssembler` takes the same answer
delta by delta and whole. `PiImport` reads a log of pi after any entry. Left out: `n > 1`,
doubled reasoning keys, the rotation by day, pi's `branch_summary` and aborted replies.
Things the models show and no property forbids: an upstream that dies inside a stream
leaves no line; each restart adds two marker lines past the cap; a write after the close
opens the file again; a torn last line makes the whole import raise; the import drops what
a compaction kept (it says so) and the reasoning (it does not).

### Download, BenchArms, SweepVerdict, GgufPlacement

`Download` handles one file at a time (`left[1]`): `AskHub`, `LookAt`, then keep, or `UnlinkBackup`,
`RenameStale`, `GetFile`, `MoveIntoPlace`, `CheckFetched`. A content is its bytes and hash,
`Size` tells which have one length (the Hub's client checks the length only), `Replace` is
the Hub's (`HubAnswers`, `WholeCopy` and `hadWhole` are about its answer and about whole copies). In
`BenchArms` a request is its set of fields, a prompt the number of its nonce, a
server what it refuses, requires and reports. In `SweepVerdict` the arms of a round are measured in an
order that is rotated from round to round (`Arm`, `spec-sweep.sh`), all at once for `--resume` and
workloads are left out; a pool is a function from arm
and row to a rate, and `Hits` the deals at least as far apart as the observed one; the
sampled test of larger pools is left out. `GgufPlacement` reads the
file entry by entry and places every tensor; what the server does (`HeldBy`) is taken from
the file's own comment. Left out there: rounding to MiB, bad magic and version.

## Runs

| Run | Shows | Bounds | States, time |
|---|---|---|---|
| `resume` | `AcceptedWasProven`, `JudgeLeftOutSoundly`, `SolvedWasAccepted`, `EndsOnBestProven`, `OnlyAcceptedEndsEarly`: what an interrupted and resumed run may still claim | 3 trees, 2 rounds, 1 resume, symmetry | 3.9 M, 65 s |
| `once` | `KeepNetLosesNothing`, `PromiseKept` (TeamSolve implements `ProvenWork`), `RunEnds` | 3 trees, 3 rounds, no resume, fair | 760 k, 75 s |
| `stale_keep` | the finding `EndsOnAccepted` | as `resume` | violation |
| `control` | `RunIsItsOwn`, `VerdictStands`; `ReuseIsCurrent`; `DownloadIsSafe` | 3 processes, 2 runs, 2 crashes, `LateErrors` false, symmetry; 2 rounds, 2 sittings, 2 edited answers; 3 versions and a damaged one, 2 runs, 1 replacement | 1.8 M, 150 s |
| `control_ends` | `AllEnd`: every invocation ends | 2 processes, 2 runs, 1 crash, `LateErrors` true, fair | 8 k, 4 s |
| `roles` | `Findable`, `PhaseEndsWell`, `ReusedIsClean`, `InterruptEnds` | 2 attempts, 1 death, 4 scenarios, fair | 770 k, 190 s |
| `agents` | `BooksAreRight`, `VouchedFor`, `NeverAllWait`, `Admits` (AgentManager implements `Admission`), `AnswerWaits`; `LedgerIsKept`; `ImportIsFaithful` | 3 subagents (one nested), 3 configurations, 5 scenarios, 1 round of verification, 2 runs each, 1 continuation, 2 changes of limits; 3 tasks, 2 rounds, 1 kill; logs of 5 entries, 1 rewind, 1 compaction | 910 k, 165 s |
| `turns` | `TurnIsTold`, `PromptGrows`; `OnceInAnyOrder`; `AnswerIsWhole`; `SavedComesBack`, `DiffIsTheWork` | 3 turns, budgets 0 and 2; 13 patches; 2 messages, 2 attempts, 2 resumes; 7 paths, 2 edits, 3 operations, 1 crash | 1.3 M, 170 s |
| `browser` | `StopStops`, `ChromeOwned`, `Recovers` | 2 commands, 2 supervisors, 1 fault, 2 restarts, 2 strikes, fair | 260 k, 140 s |
| `stop_wedged` | the finding `StopEndsServer` | 1 command, 1 fault, no hanging server | violation |
| `tools` | `ArmIsMeasured`; `PassAddsNoFailure`; `VerdictIsSound`; `PreflightCovers`; `TapeIsTrue`, `Workstreams`; `StreamedAsWhole` | 2 arms, 2 repeats, 1 fault; 2 configurations in 2 rounds; 2 clients, 4 requests, 4 scenarios, symmetry | 1.5 M, 130 s |
| `torn_tape` | the finding `OnlyUnparseableSkipped` | the tape of `tools` | violation |

Every property of a run that passes has a mutant in `PROJECT.json`: a change of one definition, of the kind a slip in the
code would be, under which its run fails. Properties that are conjunctions say one thing
about one component; each part failed under a mutant of its own when it was written.

**Why the bounds are enough.** Two rounds give an accepted round followed by a repair that
breaks it; three give a repair after that. Two changed trees tell the direct attempt from
the team's work, and every comparison in the code is between two trees. One resume gives
each "saved before, lost after" pair. Three processes give an owner, one that takes over,
and a stop or status in between; two crashes, one of the owner and one of its successor.
Two attempts give a retry after each kind of failure, and a phase has two threads. Three
subagents give a parent with a child and a rival for the slot, with limits per model, per
provider, of 0 and unreadable. Two supervisors give a winner and a loser of the port, two
commands a stop racing a start; two strikes and two restarts give one below and one at
each limit. Two clients and four requests give an answer that comes after the next request
of the same client, beside another client's. A path in the work tree of each kind: plain,
in scope, ignored, excluded, sensitive or both, and below another. For the four components of
`ToolsProofs`, and for most properties of the others, the proofs go beyond all bounds.

**`CHECK_DEADLOCK FALSE`** is in all of them: a run, an invocation, a phase, a build and a
benchmark really end, and the numbers of requests, commands and edits are bounded.

**Fairness.** `TeamSolve!FairSpec` is weak fairness of the orchestrator's own steps: every
child is bounded by a timeout (`attempt_timeout`, `check_timeout`) and killed at it, so a
phase that is not interrupted ends. Roles, crashes, stops and resumes are not fair.
`RunControl!FairSpec` is weak fairness of each live process and of the end of a child (the
same timeouts), and strong fairness of the end of a run: the steps of `execute` spawn
child after child, but the rounds, the retries and the hours are bounded.
`RoleRun!FairSpec` is weak fairness of the threads, the main thread and the delivery of a
signal to Python; no timeout has to fire and no child has to end, which is what
`InterruptEnds` is about. `BrowserServer!FairSpec` is weak fairness of each command, of each
supervisor and of a server that is starting: they are processes the system schedules.
Starting an invocation, a command or a fault is never fair.

**`LateErrors`.** After the verdict is in `state.json`, `write_result` may still raise (a full
disk). `control` assumes that it does not; `control_ends` allows it. With it,
`RunIsItsOwn` and `VerdictStands` fail, see `own_run` below.

## Findings

Three findings have a run each, which ends in the counterexample.

- `stale_keep`: `keep` is written once and never cleared (`team_solve.py:1997`). A run that failed or
  was stopped after its keep net and is resumed does new rounds and skips the keep net: it may end
  on broken work although it had accepted better. `docs/team-solve.md:114-115` says "If a later round
  breaks it, the last accepted state is put back".
- `stop_wedged`: a stop beside a wedged Chrome (`browser_cli.py:567`). Its own `stop_browser` hangs and is
  given up (:551); the supervisor it then signals sends another one, with 20 seconds (:498), is
  killed after 15 (:577), and never comes to end its server. The pid file is removed, success is
  printed, the server keeps the port, and `restart` finds it up. A second stop
  finds the server itself (`find_supervisor`) and ends it.
  `docs/context-budget.md:429` says "Stop Chrome and its server", and `status` recommends
  `restart` for a wedged Chrome (:699).
- `torn_tape`: a proxy killed while it writes what a client said may leave half a character, as the tape
  is written with `ensure_ascii=False` (`capture_proxy.py:246`). `load_tape` decodes strictly in the
  iteration and catches `JSONDecodeError` only (`capture_sessions.py:112-121`): it raises, and no record
  of any tape it was given is read. Its message says "unparseable line skipped" (:120).

Other disagreements met while modelling. Each was seen as a counterexample; each is an
exception written into a property, an assumption, or a behaviour the model keeps.

| Where | What the code does | Where the model has it |
|---|---|---|
| `team_solve.py:1899` | an interrupted repair leaves `repaired` unset; the resumed run accepts the repaired work without a judge | `cut` in `JudgeLeftOutSoundly` |
| `:1692` | `stop` kills the check too; the loop of `run_check` may find it dead before it sees the flag, and the exit is saved as the check's answer | kept in `TakeBaseline`, `Test0` |
| `:1816` | a solved run whose recheck failed is solved again by its old baseline | kept in `TeamSolve` |
| `:1936` | review and judge may both say nothing and the check alone accepts; the docs ask for a PASS of the judge | kept in `AcceptedWasProven` |
| `:2880`, `:2912` | `stop` kills the children of one read of `state.json` and clears the list of a later one | `trace` in `RunControl` |
| `:2993` | `result.json` is written after the run lock is released and may replace a resumed run's; a later `status` repairs it | kept; the property is about `state.json` |
| `:2972` (own_run) | the late error of a process is saved over the run a resume has reopened | `LateErrors` |
| `:1495` | `capture_diff` snapshots before it puts HEAD back, and after the check | kept in `WorkTree` |
| `:1147` | a repair is told "The judge failed the work: read judge.md" whenever an earlier `judge.md` exists; from round 2 the manager is told to read a plan that is not there | kept in `NamedAs` |
| `tree.py:265` | a crash between the ref and the `.tree` file, then gc, loses the saved state; `drop_refs` leaves a reopened run's trees unkept | `fault` in `SavedComesBack` |
| `tree.py:297` | a restore deletes ignored files below a directory that replaced a saved file, and raises when a path became ignored after the save | kept in `WorkTree` |
| `agent-manager.ts:290` | a stopped record that still holds a slot may be cleared; a recount then forgets it | no scenario has stop, clear and limits together; `ClearsNoHolder` |
| `browser_cli.py:282` | a supervisor whose server has opened no Chrome yet takes the only Chrome on the machine for its own; the comment at 279-280 says that an ambiguous reading never becomes a wrong verdict | kept in `BrowserServer` |
| `forge_toolcall_passthrough.py:179` | a turn cut off inside the arguments of a call is reported as one the model ended; `scripts/test_forge_patches.py:171` says "a truncated agent turn is not reported as a natural stop" | `TurnIsTold` asks it of turns without calls only |
| `bench_cross_engine.py:451` | the rungs are piled up in one order, in which every pile takes the model out again: a server that requires it and refuses another field is given up; `:353` says "Find the smallest set of adjustments this server will accept" | kept in `BenchArms` |
| `failures.py:66` | tests of two go packages with one name are one test | `Id` in `BaselineCheck`, whose instance has no two such packages |
| `download_model.py` | the Hub's client checks lengths only: a damaged transfer is put in place, and the next replacement deletes the last whole copy; the file left "for inspection" is kept by the next run | `harmed` in `WholeCopyIsKept` |
| `spec_sweep_compare.py` | a load of exactly 0 (`lo > 0`), or an arm without one, keeps a round from being looked at | `ComparedAlike` |

`RunControl` and `BrowserServer` also show races that break no property: `reap` with a stale pid
file ends a live supervisor; a pid file removed before the kill makes a restart give up.

## Proofs

TLAPS proves, for every value of the constants, most of what TLC checks on small instances. No
proof takes anything on trust; the assumptions on constants are the named ASSUMEs of
the modules, which TLC evaluates in every run. Each proof has the same plan: an inductive
invariant that strengthens the property, one lemma (or step) per action and conjunct, a
theorem `Invariance`, and the property from it.

| Module | Theorems | The inductive invariant, and why it is needed |
|---|---|---|
| `TeamSolveProofs` | `TypeCorrect`, `AcceptedProven`, `JudgeSound`, `SolvedAccepted`, `BestProven`, `OnlyAcceptedEnds`, `NetLosesNothing`; `PromiseHolds` | `OnMeasured`: from triage to judge nothing writes, so what is accepted is what was checked. `BaselineFixed`: the baseline an acceptance used is still the baseline. `RepairSeen`: only an interruption hides a repair. `OnAccepted`, `KeepDecides`: no edit between the last acceptance and the keep net but a repair's; the keep net is decided once. `AcceptedSaved`, `Lively` tie flags to saved trees and phases to status. For `NetLosesNothing`, `MeasuredStays`, `DirectKept`, `NetKept` |
| `RunControlProofs` | `Ownership`, `VerdictsStand` | who holds the lock and what of `state.json` is in memory: `Decided`, `Held`, `Prepared`, `InMemory`, `KnownToCurrent`, `Activated`, `SeenDead` (who has been seen dead stays dead), `Fresh` |
| `RoleRunProofs` | `ChildrenFindable`, `PhaseEnds`, `ReuseIsClean` | `InHand`, `ProcsAre`, `Registered`, `Taken` follow a child from Popen to the end of its registration through both threads' inventories; `LateOnce`, `EndedIs`, `CancelIs`, `MainIs` tie how a thread ended to why. `StepKinds` sorts the steps by what they touch |
| `AgentManagerProofs` | `BooksRight`, `Vouched`, `AnswersWait`, `AdmissionKept`, `SomebodyGoesOn` | in levels: tables of limits (`ReserveCounts`, `ReleaseCounts`, `RecountIs`, `SetLimitsIs`), records (each phase of a run fixes what its record holds), worlds (records with queue and tables: `Books`, `DrainedIs`, `DrainedFull`), then one lemma per action |
| `BrowserServerProofs` | `StopsStop`, `ChromeIsOwned` | `OnePort` (who holds the port), `Targets`, `Marked`, `Aimed` (what a stop has in hand is what it has to end), `Between`, `Owned` |
| `CaptureTapeProofs` | `TapeTrue`, `DecodedIsRead`, `StreamedWhole` | for the tape `CountType` (the size the recorder counts against what is on the tape), `TrueLines`, `TornIs`, `Below`; `Effects` sorts the steps by what they do to the tape. For a streamed answer, below |
| `TurnsProofs` | `TurnTold`, `PromptPreserved`, `AnswerWhole`, `DiffShowsWork`, `SavedStateComesBack`, `RunKeepsItsLedger` | below |
| `ToolsProofs` | `DownloadSafe`, `ReuseCurrent`, `ArmMeasured`, `VerdictSound` | below |

- `AdmissionKept` and `PromiseHolds` are refinements: the initial states map to initial states, and
  every step to a step or a stutter (for `Admission` through `SeatsAreRoomy`: whoever is
  seated had room). `BestProven`, `OnlyAcceptedEnds`, `NetLosesNothing`, `VerdictsStand`, `ReuseIsClean`,
  `AnswersWait`, `ReuseCurrent` and `RunKeepsItsLedger` are action properties.
- `SomebodyGoesOn`: who is queued is in the queue, the manager has its record, and its slot is full
  (`Queues`): draining passes over a record only when its slot is full, slots that are taken meanwhile
  fill slots and never free one (`Fills`, also a start that throws: `ReturnFills`), and whatever frees
  one drains the queue. A full slot serves a run of the same depth (`FullServes`, from `Books`), and a run
  waits only for deeper ones; so of the records somebody waits for, take one that is nested deepest
  (`Deepest`): it, or a run of its depth, goes on. Nesting may be of any depth.
- `DownloadSafe`: what has been said of a file stays what the run compares it with (`UnderWay`,
  `Settled`), files not yet settled are still on the list (`Left`, `Waiting`), and a whole
  copy is the model or its `.superseded` (`Safe`).
- `ReuseCurrent`: a role's prompt is a function of the files it names. Those that are compared
  hold what they held, since the record is of one state of the files (`OneState`, `Captured`). The
  two that are not (`scope.txt` for a review, the last `judge.md` for a repair) belong to
  a check whose `diff.txt` is compared: `Earlier` says that no record of what is still due names
  the capture of this sitting, so the comparison fails and the role is asked again.
- `TurnTold` is inductive beside the type of the history: the attempts never run out before an
  answer. `PromptPreserved`: the last prompt is the history folded (`Together`), and what was
  answered last is a strict beginning of it (`Begins`). `AnswerWhole`: the log reads as what
  the child did unless its last line is torn (`LogIsTrue`), and whole answers stay
  (`WholeIsKept`, `SummaryIsDue`, `OutputIsWhole`, `UsedIsOutput`). Both fold over a sequence that
  grows at its end only, so one lemma on a fold of one element more (`FoldGrows`) replaces the
  induction; the fold exists by a least counterexample.
- `SavedStateComesBack`: a name's ref keeps what its file names, but for the two faults (`RefsKeep`), so gc
  prunes neither; a saved state is the snapshot of some workspace beside the index it was
  saved with (`SavedIs`). While nobody disturbs a restore, what still differs is on its
  lists (`Lists`), every other path is as it was, as saved, or below a saved file (`Rest`), and
  nothing stands in a directory that is to be deleted (`Deletable`); two workspaces that agree on
  what a snapshot takes as it is, beside indexes that agree on the rest, have one snapshot
  (`SameSnapshot`). All of it stands on consistent states: what git puts, covers and snapshots
  has no file that is also a directory (`PutKeeps`, `CoverKeeps`, `SnapshotIs`).
- `DiffShowsWork`: the base has the plain paths as they were found (`BaseIs`), and the tree a diff is
  made of is the workspace's until somebody edits (`ShownIs`).
- `RunKeepsItsLedger`: what `reconcile_tasks` makes of a ledger is a ledger again (`Follows`): a new number
  is above all that were given (`LastOfIs`, `NextIdIs`), the next task is marked or added while there is
  room (`Listed`), and the manager's list has each description once (`ParsedIs`). Places are counted
  by their rank in a set; that every rank is taken (`NthIs`) is the pigeonhole principle, so no
  induction is needed. Beside it `SettledIn` says of the state in memory and of the one on disk, from
  which a resume goes on, that its check is the one of `task.md` or not settled yet.
- `StreamedWhole`: the assembler holds of every text what was sent of it (`Assembled`), and its end
  when it is over (`EndsWhole`). Put in order, the calls are 1 to n: n numbers that grow and
  lie in 1..n are all of them.
- `StopsStop` has the two exceptions of `StopStops`. That a stop which was not forced has ended its
  server rests on who may be killed (`Aimed`, `Marked`): a supervisor that is not stuck in its
  `stop_browser` ends its server before it is gone, and the one that is killed makes every command
  that waits for it a forced one.
- `TapeTrue` says which lines parse, whatever was cut. `DecodedIsRead` says that on a tape without half
  a character these are what is read; `torn_tape` shows that the condition is needed.
- `ArmMeasured`: nonces only grow and a server's slot holds an older one (`SlotsRead`).
- `VerdictSound`: a usable round has a load that is neither cold nor split, from `Max` and `Min` of a
  finite set. That few deals are significant is a counting argument: the significant ones all
  lie at least as far out as the nearest of them, so they are among its hits, and those are
  fewer than one in `Level`. Sums are folds: `SumsExist` shows that the function that
  `MapThenFoldSet` chooses exists, and `SumIsNumber` that its values are numbers, by a least
  counterexample.

What the theorems assume beyond the modules' ASSUMEs:

- `PromiseHolds`: `MaxResumes = 0`. With a resume it is false: a solved run can be reopened, and the
  finding breaks the promise.
- `Ownership`, `VerdictsStand`: `~LateErrors`, as the run `control`. The excluded case is own_run.
- `SavedStateComesBack`: `SecretsAreFiles`: no path whose name is excluded or sensitive is a file at one
  time and a directory at another (one that is always a directory need not be among the paths). The
  excluded case was seen as a counterexample: a tracked file with an excluded name and a
  directory in its place stays in the snapshot, and a restore cannot unlink it.
- `BooksRight`, `AdmissionKept`, `SomebodyGoesOn`: `ClearsNoHolder`, as the scenarios of the run `agents`. The excluded
  case is that of `agent-manager.ts:290`.

The proofs changed the models where these were wrong: `RoleRun` forgot the children lost to a first
crash when a second came, `ComparedAlike` had claimed that a round with a load of 0 is looked
at, and `WorkTree` had git refuse, keep or overwrite the wrong files where one branch has a file and
the other a directory.

Only model-checked:

- Liveness, which is out of the prover's reach: `RunEnds`, `AllEnd`, `InterruptEnds`, `Recovers`.
- `Workstreams`, `ImportIsFaithful`: they compare folds over sequences of any length
  with what was said, which is induction over data.
- `PassAddsNoFailure`, `PreflightCovers`: the same, over the lines of a log and the entries of a file.
- `OnceInAnyOrder`: not true for every package (a text that holds a marker before it is patched is
  not patched), so it is about the listed ones.

## Not modelled, and why

- `prompts.py`, the texts of roles, the report, `team-solve.ts`: text, and a front end that calls the
  script; what is decided from answers is a choice.
- Spawn coordination, nudges and the compaction lock with its guard: state that hangs on events of
  pi's session, whose code is not in the repository. The loop mode: likewise, and not reached.
- `update.sh`, `mode.sh`, the stack and its watchdog: shell over git and docker.
- The other benchmarks and analyses (`bench_quality.py`, `ppl_depth_analyse.py`, ...): they measure and
  print, with no state that outlives a call. `observe`: read-only views.
- The llama patches: text edits of third-party C++.
- Within the modelled parts: see the end of each module's section above.

## Plan

`CompactionLock` with its three owners and staleness, if the host's events can be read from
the extensions alone.
