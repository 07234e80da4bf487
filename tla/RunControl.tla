------------------------------ MODULE RunControl ------------------------------
(***************************************************************************)
(* The processes around a team-solve run (scripts/team-solve/              *)
(* team_solve.py, cmd_run to main): run, resume, check, stop and status    *)
(* are separate processes of the operator.  They meet on disk only: the    *)
(* run lock of the workspace, the state.json and result.json of a run, the *)
(* result lock, and the pids state.json names.  What the orchestrator does *)
(* between start and verdict is TeamSolve; here it starts and ends         *)
(* children, saves its state, and is killed.                               *)
(*                                                                         *)
(* A process is an element of Procs and its own pid: pid_start_ticks keeps *)
(* a reused pid from being taken for it.  The children of one process are  *)
(* one child.  A process that refuses (the lock is held, the run is        *)
(* active) does nothing, so refusing is not a step.                        *)
(***************************************************************************)
EXTENDS Naturals, FiniteSets

CONSTANTS
    Procs,      \* invocations of team_solve.py
    Nobody,     \* no process: a free lock, a run nobody has activated
    MaxRuns,    \* bound: runs created in the workspace
    MaxCrashes, \* bound: processes killed from outside
    LateErrors  \* result.json may fail to be written once the verdict is in state.json

ASSUME NobodyAssumption == Nobody \notin Procs
ASSUME BoundsAssumption == MaxRuns \in Nat \ {0} /\ MaxCrashes \in Nat /\ LateErrors \in BOOLEAN

VARIABLES
    \* --- on disk
    current,    \* current.json: the number of the current run, 0 for none
    state,      \* state.json of each run
    result,     \* the status in result.json of each run, "none" without the file
    lock,       \* who holds the run lock of the workspace
    resLock,    \* who holds the result lock of each run
    \* --- the processes
    pc,         \* where each process is
    run,        \* the run it works on
    mem,        \* the state it has in memory
    sigterm,    \* it has received SIGTERM
    child,      \* its child process is alive
    \* --- history, read by properties only
    trace,      \* what state.json was told of the child: nothing, "saved", or it was "dropped"
    crashes

disk  == <<current, state, result>>
locks == <<lock, resLock>>
procs == <<pc, run, mem, sigterm, child>>
vars  == <<disk, locks, procs, trace, crashes>>

Runs     == 1..MaxRuns
Terminal == {"solved", "failed", "error", "stopped"}
Statuses == Terminal \cup {"created", "running"}
Record   == [gen : Procs \cup {Nobody}, status : Statuses, kids : SUBSET Procs]
Created  == [gen |-> Nobody, status |-> "created", kids |-> {}]

Labels == {"idle", "gone", "activate", "unlink", "recheck", "begin", "execute", "spawned", "write",
           "stopping", "failing", "close", "tell", "signal", "await", "reap", "claim", "record",
           "refresh", "refreshed", "check"}

TypeOK ==
    /\ current \in 0..MaxRuns
    /\ state \in [Runs -> Record]
    /\ result \in [Runs -> Terminal \cup {"none"}]
    /\ lock \in Procs \cup {Nobody}
    /\ resLock \in [Runs -> Procs \cup {Nobody}]
    /\ pc \in [Procs -> Labels]
    /\ run \in [Procs -> Runs]
    /\ mem \in [Procs -> Record]
    /\ sigterm \in [Procs -> BOOLEAN]
    /\ child \in [Procs -> BOOLEAN]
    /\ trace \in [Procs -> {"unsaved", "saved", "dropped"}]
    /\ crashes \in 0..MaxCrashes

-----------------------------------------------------------------------------
(* Helpers *)

\* "finished", set with a terminal status and cleared by a resume.  Mutant: a failed run
\* does not count.
FinishedUnlessFailed(rec) == rec.status \in Terminal \ {"failed"}
Finished(rec) == rec.status \in Terminal

\* pid_alive of a saved pid.
Alive(p) == p \in Procs /\ pc[p] \notin {"idle", "gone"}

\* active_problem: the run has a live process, or a live child it knows of.
\* Mutant: the children are not looked at.
ActiveProcessOnly(rec) == rec.status = "running" /\ Alive(rec.gen)
Active(rec) == (rec.status = "running" /\ Alive(rec.gen)) \/ \E k \in rec.kids : child[k]

Go(p, label) == pc' = [pc EXCEPT ![p] = label]

\* save(): the whole state in memory replaces state.json.
Save(p, rec) == mem' = [mem EXCEPT ![p] = rec] /\ state' = [state EXCEPT ![run[p]] = rec]

\* The run lock goes with the process, or at the end of the with block.
Unlocked(p) == IF lock = p THEN Nobody ELSE lock
Gone(p) == Go(p, "gone") /\ lock' = Unlocked(p)

\* The result lock goes with the process, or at the end of the with block.  Mutant: not at
\* the end of the with block.
LetGoNever(p) == resLock
LetGo(p) == [r \in Runs |-> IF resLock[r] = p THEN Nobody ELSE resLock[r]]

Kill(kids) == child' = [k \in Procs |-> child[k] /\ k \notin kids]

\* claim_run_lock and load_current.
Claim(p) == pc[p] = "idle" /\ lock = Nobody /\ lock' = p
Loads(p, r, rec) == run' = [run EXCEPT ![p] = r] /\ mem' = [mem EXCEPT ![p] = rec]

-----------------------------------------------------------------------------
(* run and resume, to the activated run *)

Init ==
    /\ current = 0 /\ state = [r \in Runs |-> Created] /\ result = [r \in Runs |-> "none"]
    /\ lock = Nobody /\ resLock = [r \in Runs |-> Nobody]
    /\ pc = [p \in Procs |-> "idle"] /\ run = [p \in Procs |-> 1] /\ mem = [p \in Procs |-> Created]
    /\ sigterm = [p \in Procs |-> FALSE] /\ child = [p \in Procs |-> FALSE]
    /\ trace = [p \in Procs |-> "unsaved"] /\ crashes = 0

\* cmd_run on an unfinished run that asks for the same.
RunAgain(p) ==
    /\ Claim(p) /\ current # 0
    /\ ~Finished(state[current]) /\ ~Active(state[current])
    /\ Loads(p, current, state[current])
    /\ Go(p, "activate")
    /\ UNCHANGED <<disk, resLock, sigterm, child, trace, crashes>>

\* cmd_run, create_run: a new run becomes the current one.
RunNew(p) ==
    /\ Claim(p) /\ current < MaxRuns
    /\ current # 0 => ~Active(state[current])
    /\ current' = current + 1
    /\ Loads(p, current + 1, Created)
    /\ state' = [state EXCEPT ![current + 1] = Created]
    /\ Go(p, "activate")
    /\ UNCHANGED <<result, resLock, sigterm, child, trace, crashes>>

\* cmd_resume.  A solved run is checked again first; its child is in no state.json.
Resume(p) ==
    /\ Claim(p) /\ current # 0 /\ ~Active(state[current])
    /\ IF state[current].status = "solved"
       THEN /\ Loads(p, current, state[current])
            /\ Go(p, "recheck")
            /\ child' = [child EXCEPT ![p] = TRUE] /\ trace' = [trace EXCEPT ![p] = "unsaved"]
       ELSE /\ Loads(p, current, [state[current] EXCEPT !.status = "running"])
            /\ Go(p, "unlink")
            /\ UNCHANGED <<child, trace>>
    /\ UNCHANGED <<disk, resLock, sigterm, crashes>>

RecheckPasses(p) ==
    /\ pc[p] = "recheck"
    /\ Kill({p})
    /\ Save(p, mem[p])
    /\ Go(p, "write")
    /\ UNCHANGED <<current, result, locks, run, sigterm, trace, crashes>>

RecheckFails(p) ==
    /\ pc[p] = "recheck"
    /\ Kill({p})
    /\ Save(p, [mem[p] EXCEPT !.status = "running"])
    /\ Go(p, "unlink")
    /\ UNCHANGED <<current, result, locks, run, sigterm, trace, crashes>>

\* Under the result lock: result.json goes, the run is activated.
Unlink(p) ==
    /\ pc[p] = "unlink" /\ resLock[run[p]] = Nobody
    /\ resLock' = [resLock EXCEPT ![run[p]] = p]
    /\ result' = [result EXCEPT ![run[p]] = "none"]
    /\ Go(p, "activate")
    /\ UNCHANGED <<current, state, lock, run, mem, sigterm, child, trace, crashes>>

\* Orchestrator(activate=True): the run is this process's.
Activate(p) ==
    /\ pc[p] = "activate"
    /\ Save(p, [mem[p] EXCEPT !.gen = p, !.status = "running"])
    /\ resLock' = LetGo(p)
    /\ Go(p, "begin")
    /\ UNCHANGED <<current, result, lock, run, sigterm, child, trace, crashes>>

-----------------------------------------------------------------------------
(* The orchestrator at work *)

\* EARLY_STOP_REQUESTED.
Begin(p) ==
    /\ pc[p] = "begin"
    /\ IF sigterm[p] THEN Go(p, "stopping") /\ lock' = Unlocked(p)
                     ELSE Go(p, "execute") /\ UNCHANGED lock
    /\ UNCHANGED <<disk, resLock, run, mem, sigterm, child, trace, crashes>>

\* Popen, then register_process: a crash in between leaves a child nobody knows of.
Spawn(p) ==
    /\ pc[p] = "execute" /\ p \notin mem[p].kids
    /\ child' = [child EXCEPT ![p] = TRUE] /\ trace' = [trace EXCEPT ![p] = "unsaved"]
    /\ Go(p, "spawned")
    /\ UNCHANGED <<disk, locks, run, mem, sigterm, crashes>>

Register(p) ==
    /\ pc[p] = "spawned"
    /\ Save(p, [mem[p] EXCEPT !.kids = {k \in @ : child[k]} \cup {p}])
    /\ trace' = [trace EXCEPT ![p] = "saved"]
    /\ Go(p, "execute")
    /\ UNCHANGED <<current, result, locks, run, sigterm, child, crashes>>

ChildEnds(p) ==
    /\ child[p] /\ pc[p] \notin {"recheck", "check"}
    /\ child' = [child EXCEPT ![p] = FALSE]
    /\ UNCHANGED <<disk, locks, pc, run, mem, sigterm, trace, crashes>>

Unregister(p) ==
    /\ pc[p] = "execute" /\ p \in mem[p].kids /\ ~child[p]
    /\ Save(p, [mem[p] EXCEPT !.kids = @ \ {p}])
    /\ UNCHANGED <<current, result, locks, pc, run, sigterm, child, trace, crashes>>

\* The loop that waits for a child sees the flag: the child is ended, TeamStopped.
Stopped(p) ==
    /\ pc[p] = "execute" /\ sigterm[p] /\ p \in mem[p].kids
    /\ Kill({p})
    /\ Save(p, [mem[p] EXCEPT !.kids = @ \ {p}])
    /\ Go(p, "stopping") /\ lock' = Unlocked(p)
    /\ UNCHANGED <<current, result, resLock, run, sigterm, trace, crashes>>

\* TeamSolveError; or an OSError of write_result when the verdict is saved already.
Fail(p) ==
    /\ \/ pc[p] = "execute" /\ p \notin mem[p].kids
       \/ pc[p] = "write" /\ mem[p].gen = p /\ LateErrors
    /\ Go(p, "failing") /\ lock' = Unlocked(p)
    /\ UNCHANGED <<disk, resLock, run, mem, sigterm, child, trace, crashes>>

Finish(p) ==
    /\ pc[p] = "execute" /\ p \notin mem[p].kids
    /\ \E how \in {"solved", "failed"} : Save(p, [mem[p] EXCEPT !.status = how, !.kids = {}])
    /\ Go(p, "write")
    /\ UNCHANGED <<current, result, locks, run, sigterm, child, trace, crashes>>

-----------------------------------------------------------------------------
(* terminalize_claimed_run: after the lock is released *)

\* The verdict that is there stays.
Closed(rec, how) == IF Finished(rec) THEN rec ELSE [rec EXCEPT !.status = how, !.kids = {}]

\* It reads the state again and ends the children the state knows of.
TerminalRead(p) ==
    /\ pc[p] \in {"stopping", "failing"}
    /\ LET rec == state[run[p]] IN
         IF rec.gen # p
         THEN Gone(p) /\ UNCHANGED <<mem, child>>
         ELSE /\ mem' = [mem EXCEPT ![p] = Closed(rec, IF pc[p] = "stopping" THEN "stopped" ELSE "error")]
              /\ IF Finished(rec) THEN UNCHANGED child ELSE Kill(rec.kids)
              /\ Go(p, IF Finished(rec) THEN "tell" ELSE "close") /\ UNCHANGED lock
    /\ UNCHANGED <<disk, resLock, run, sigterm, trace, crashes>>

TerminalSave(p) ==
    /\ pc[p] = "close"
    /\ Save(p, mem[p])
    /\ Go(p, "tell")
    /\ UNCHANGED <<current, result, locks, run, sigterm, child, trace, crashes>>

\* write_result, from what the process has in memory; then it ends.
WriteResult(p) ==
    /\ pc[p] \in {"write", "tell"} /\ resLock[run[p]] = Nobody
    /\ result' = [result EXCEPT ![run[p]] = mem[p].status]
    /\ Gone(p)
    /\ UNCHANGED <<current, state, resLock, run, mem, sigterm, child, trace, crashes>>
-----------------------------------------------------------------------------
(* stop *)

\* cmd_stop reads state.json, and whether its process is alive, under no lock.
StopRead(p) ==
    /\ pc[p] = "idle" /\ current # 0
    /\ Loads(p, current, state[current])
    /\ Go(p, IF Alive(state[current].gen) THEN "signal" ELSE "reap")
    /\ UNCHANGED <<disk, locks, sigterm, child, trace, crashes>>

\* SIGTERM to the process and its descendants.
Signal(p) ==
    /\ pc[p] = "signal"
    /\ LET q == mem[p].gen IN
         IF Alive(q) THEN sigterm' = [sigterm EXCEPT ![q] = TRUE] /\ Kill({q})
                     ELSE UNCHANGED <<sigterm, child>>
    /\ Go(p, "await")
    /\ UNCHANGED <<disk, locks, run, mem, trace, crashes>>

Await(p) ==
    /\ pc[p] = "await" /\ ~Alive(mem[p].gen)
    /\ Go(p, "reap")
    /\ UNCHANGED <<disk, locks, run, mem, sigterm, child, trace, crashes>>

\* After the grace period, SIGKILL to the process and its descendants.
HardKill(p) ==
    /\ pc[p] = "await" /\ Alive(mem[p].gen)
    /\ LET q == mem[p].gen IN
         /\ pc' = [pc EXCEPT ![p] = "reap", ![q] = "gone"]
         /\ lock' = Unlocked(q)
         /\ resLock' = LetGo(q)
         /\ Kill({q})
    /\ UNCHANGED <<disk, run, mem, sigterm, trace, crashes>>

\* stop_tracked_processes, on the children of the state read at the start.
Reap(p) ==
    /\ pc[p] = "reap"
    /\ Kill(mem[p].kids)
    /\ Go(p, "claim")
    /\ UNCHANGED <<disk, locks, run, mem, sigterm, trace, crashes>>

\* Under the run lock, unless another generation has the run by now.
SameGeneration(rec, stopped) == rec.gen = stopped.gen

StopClaim(p) ==
    /\ pc[p] = "claim"
    /\ LET rec == state[run[p]] IN
         IF lock # Nobody \/ ~SameGeneration(rec, mem[p])
         THEN Gone(p) /\ UNCHANGED mem
         ELSE /\ lock' = p
              /\ mem' = [mem EXCEPT ![p] = Closed(rec, "stopped")]
              /\ Go(p, IF Finished(rec) THEN "tell" ELSE "record")
    /\ UNCHANGED <<disk, resLock, run, sigterm, child, trace, crashes>>

\* active_processes of the state read again is dropped with whatever is in it.
StopRecord(p) ==
    /\ pc[p] = "record"
    /\ trace' = [k \in Procs |-> IF k \in state[run[p]].kids /\ child[k] THEN "dropped" ELSE trace[k]]
    /\ Save(p, mem[p])
    /\ Go(p, "tell")
    /\ UNCHANGED <<current, result, locks, run, sigterm, child, crashes>>

-----------------------------------------------------------------------------
(* status, check, and the machine *)

\* cmd_status on a finished run writes result.json again, under the result lock.
StatusRead(p) ==
    /\ pc[p] = "idle" /\ current # 0 /\ Finished(state[current])
    /\ run' = [run EXCEPT ![p] = current]
    /\ Go(p, "refresh")
    /\ UNCHANGED <<disk, locks, mem, sigterm, child, trace, crashes>>

StatusLock(p) ==
    /\ pc[p] = "refresh" /\ resLock[run[p]] = Nobody
    /\ resLock' = [resLock EXCEPT ![run[p]] = p]
    /\ mem' = [mem EXCEPT ![p] = state[run[p]]]
    /\ Go(p, "refreshed")
    /\ UNCHANGED <<disk, lock, run, sigterm, child, trace, crashes>>

StatusWrite(p) ==
    /\ pc[p] = "refreshed"
    /\ result' = IF Finished(mem[p]) THEN [result EXCEPT ![run[p]] = mem[p].status] ELSE result
    /\ resLock' = LetGo(p)
    /\ Gone(p)
    /\ UNCHANGED <<current, state, run, mem, sigterm, child, trace, crashes>>

\* cmd_check runs the check under the run lock and saves nothing.
ManualCheck(p) ==
    /\ Claim(p) /\ current # 0
    /\ Loads(p, current, state[current])
    /\ child' = [child EXCEPT ![p] = TRUE] /\ trace' = [trace EXCEPT ![p] = "unsaved"]
    /\ Go(p, "check")
    /\ UNCHANGED <<disk, resLock, sigterm, crashes>>

ManualCheckEnds(p) ==
    /\ pc[p] = "check"
    /\ Kill({p})
    /\ Gone(p)
    /\ UNCHANGED <<disk, resLock, run, mem, sigterm, trace, crashes>>

\* SIGKILL, out of memory, the launcher's time limit: the locks go, the child stays.
Crash(p) ==
    /\ Alive(p) /\ crashes < MaxCrashes
    /\ crashes' = crashes + 1
    /\ Gone(p)
    /\ resLock' = LetGo(p)
    /\ UNCHANGED <<disk, run, mem, sigterm, child, trace>>

-----------------------------------------------------------------------------

Starts(p) == RunAgain(p) \/ RunNew(p) \/ Resume(p) \/ StopRead(p) \/ StatusRead(p) \/ ManualCheck(p)

Works(p) ==
    \/ RecheckPasses(p) \/ RecheckFails(p) \/ Unlink(p) \/ Activate(p) \/ Begin(p)
    \/ Register(p) \/ Unregister(p) \/ Stopped(p)
    \/ TerminalRead(p) \/ TerminalSave(p) \/ WriteResult(p)
    \/ Signal(p) \/ Await(p) \/ HardKill(p) \/ Reap(p) \/ StopClaim(p) \/ StopRecord(p)
    \/ StatusLock(p) \/ StatusWrite(p) \/ ManualCheckEnds(p)

Next == \E p \in Procs :
    Starts(p) \/ Works(p) \/ Spawn(p) \/ ChildEnds(p) \/ Finish(p) \/ Fail(p) \/ Crash(p)

Spec == Init /\ [][Next]_vars

\* A live process goes on, a child is ended by its timeout, and a run comes to its end:
\* its rounds and its hours are bounded.
FairSpec ==
    /\ Spec
    /\ \A p \in Procs : WF_vars(Works(p)) /\ WF_vars(ChildEnds(p)) /\ SF_vars(Finish(p) \/ Fail(p))

-----------------------------------------------------------------------------
(* Properties *)

\* A verdict, an error and a stop stay what they are until a resume reopens the run: a
\* stop, a second stop and an error leave a finished run alone.
VerdictStands ==
    [][ \A r \in Runs : state[r].status \in Terminal /\ state'[r] # state[r] =>
          state'[r].status = "running" ]_vars

\* While an orchestrator works, and until it has recorded how it ended (with no lock
\* held by then), the run is its own: nobody has resumed, stopped or replaced it.
NotSuperseded ==
    \A p \in Procs : pc[p] \in {"begin", "execute", "spawned", "stopping", "failing", "close"} =>
        state[run[p]].gen = p /\ state[run[p]].status = "running" /\ current = run[p]

\* An orchestrator works alone: no child of an earlier one that state.json was told of,
\* and that no stop has dropped, is still alive.
WorksAlone ==
    \A p, q \in Procs :
        pc[p] \in {"begin", "execute", "spawned"} /\ q # p /\ child[q] => trace[q] # "saved"

\* A run belongs to one orchestrator at a time, and so does the workspace: across stops that
\* work without the lock, kills, orphaned children and resumes (claim_run_lock, active_problem).
RunIsItsOwn == TypeOK /\ NotSuperseded /\ WorksAlone

\* Every invocation ends, whoever else holds the locks.
AllEnd == \A p \in Procs : pc[p] # "idle" ~> pc[p] = "gone"
=============================================================================
