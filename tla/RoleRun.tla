------------------------------- MODULE RoleRun -------------------------------
(***************************************************************************)
(* One phase of team-solve with two roles at once (scripts/team-solve/     *)
(* team_solve.py): run_parallel for the two ideators, run_beside for the   *)
(* direct attempt beside the planner.  The main thread waits; each role    *)
(* runs run_role in a thread of the pool, with its attempts, its child     *)
(* process, the operator's stop, the cancellation by a failed sibling, the *)
(* timeout and the budget.  TeamSolve takes such a phase as one step       *)
(* (BesideEnds, Ideate); this module is what is inside it.                 *)
(*                                                                         *)
(* Thread "b" runs the required role of run_beside, "a" the tolerated one. *)
(* The cut-off summary of the direct attempt is a second run_role inside   *)
(* the first: frame "cutoff".  A step ends where another thread can see    *)
(* what it did: at a save, a change of current_procs, a flag, a child.     *)
(***************************************************************************)
EXTENDS Naturals, FiniteSets

CONSTANTS
    MaxAttempts, \* bound: role_retries + 1
    MaxCrashes,  \* bound: deaths of the orchestrator, each followed by a resume
    Scenarios    \* the attempts a run is given, and the disturbances that may come together

ASSUME BoundsAssumption == MaxAttempts \in Nat \ {0} /\ MaxCrashes \in Nat
ASSUME ScenariosAssumption ==
    Scenarios \subseteq [attempts : 1..MaxAttempts, may : SUBSET {"stop", "late", "crash"}]

VARIABLES
    \* --- the orchestrator's process
    call,       \* which function runs: "parallel" (run_parallel) or "beside" (run_beside)
    main,       \* where the main thread is
    cause,      \* the error it raises: the end of a role, "none" without one
    pc,         \* where each role's thread is
    frame,      \* the run_role call it is in: "role", or "cutoff" inside it
    att,        \* the attempt of each call
    why,        \* why the child is terminated
    end,        \* how the thread ended
    snap,       \* the children a thread's inventory has found
    victims,    \* the children terminate_all has taken from current_procs
    procs,      \* current_procs
    cancel,     \* cancel_requested
    stopReq,    \* stop_requested
    late,       \* the deadline has passed
    \* --- children and files
    alive,      \* children that run
    killed,     \* children of the phase that a signal ended, until they are judged
    disk,       \* active_processes, in memory and in state.json
    record,     \* the ledger: state["roles"]
    output,     \* the attempt whose text is in the role's output file
    prompt,     \* what the roles are asked: a resume may find other evidence
    signalled,  \* a stop has signalled the process tree
    crashes,
    scenario,   \* role_retries, and what may disturb the phase
    \* --- history, read by properties only
    clean,      \* the last attempt of each role that ended cleanly, with its prompt
    lost,       \* children that a crash caught before they were registered
    lateStarts  \* children started after the deadline

thread  == <<pc, frame, att, why, end, snap>>
mainv   == <<call, main, cause, victims>>
flags   == <<cancel, stopReq, late, signalled>>
kidv    == <<alive, killed, lateStarts>>
files   == <<record, output, prompt, clean>>
era     == <<crashes, scenario, lost>>
vars    == <<thread, mainv, procs, flags, kidv, disk, files, era>>

Threads == {"a", "b"}
Bad     == {"failed", "stopped", "cancelled"}
Over    == {"returned", "raised", "gone"}
Nothing == <<>>
First   == [role |-> 1, cutoff |-> 1]

\* The child of a thread's current attempt, and what the ledger says of a role.
Kid(t)    == <<crashes, t, att[t].role, IF frame[t] = "role" THEN 0 ELSE att[t].cutoff>>
AllKids   == (0..MaxCrashes) \X Threads \X (1..MaxAttempts) \X (0..MaxAttempts)
Prompts   == 1..2
Records   == [status : {"none", "running", "failed", "done"}, prompt : Prompts, output : AllKids \cup {Nothing}]

TypeOK ==
    /\ call \in {"parallel", "beside"}
    /\ main \in {"wait", "side", "cancel", "kill", "drop", "exit"} \cup Over
    /\ cause \in Bad \cup {"none"}
    /\ pc \in [Threads -> {"idle", "enter", "attempt", "spawn", "register", "publish", "poll", "terminate", "drop",
                           "write", "done", "note", "ended"}]
    /\ frame \in [Threads -> {"role", "cutoff"}]
    /\ att \in [Threads -> [role : 1..MaxAttempts, cutoff : 1..MaxAttempts]]
    /\ why \in [Threads -> {"none", "timeout", "stopped", "cancelled"}]
    /\ end \in [Threads -> Bad \cup {"none", "ok", "dropped"}]
    /\ snap \in [Threads -> SUBSET AllKids]
    /\ victims \subseteq AllKids /\ procs \subseteq AllKids /\ disk \subseteq AllKids
    /\ alive \subseteq AllKids /\ killed \subseteq AllKids /\ lost \subseteq AllKids
    /\ cancel \in BOOLEAN /\ stopReq \in BOOLEAN /\ late \in BOOLEAN /\ signalled \in BOOLEAN
    /\ record \in [Threads -> Records]
    /\ output \in [Threads -> AllKids \cup {Nothing}]
    /\ prompt \in Prompts
    /\ crashes \in 0..MaxCrashes /\ scenario \in Scenarios
    /\ clean \in [Threads -> (AllKids \X Prompts) \cup {Nothing}]
    /\ lateStarts \in [Threads -> Nat]

-----------------------------------------------------------------------------
(* Helpers *)

Set(f, t, v) == [f EXCEPT ![t] = v]
Go(t, label) == pc' = Set(pc, t, label)

\* prior_role: the record is done, of this prompt, and the file holds what it says.  Mutant:
\* the prompt is not compared.
CachedForAnyPrompt(t) == record[t].status = "done" /\ output[t] = record[t].output
Cached(t) == record[t].status = "done" /\ output[t] = record[t].output /\ record[t].prompt = prompt
Answered(t) == frame[t] = "role" /\ Cached(t)

\* The record of the role itself: that of the cut-off summary only serves its own retry.
Note(t, status, file) ==
    record' = IF frame[t] = "role"
              THEN Set(record, t, [status |-> status, prompt |-> prompt, output |-> file])
              ELSE record

\* run_role returns or raises.  Out of the summary's call: an answer completes the attempt, a
\* stop goes through, any other error is the reason why the attempt failed.
Leave(t, e) ==
    IF frame[t] = "role" \/ e = "stopped"
    THEN Go(t, "ended") /\ end' = Set(end, t, e) /\ att' = Set(att, t, First) /\ frame' = Set(frame, t, "role")
    ELSE /\ Go(t, IF e = "ok" THEN "write" ELSE "note") /\ frame' = Set(frame, t, "role")
         /\ att' = [att EXCEPT ![t].cutoff = 1] /\ UNCHANGED end
Stays == UNCHANGED <<frame, att, end>>

Attempt(t) == IF frame[t] = "role" THEN att[t].role ELSE att[t].cutoff
MayRetry(t) == Attempt(t) < scenario.attempts

\* refresh_process_inventory, second half: the dead leave the list, what was found joins it.
\* Mutant: what was found replaces the list.
RefreshedAnew(found) == found
Refreshed(found) == (disk \cap alive) \cup found

\* terminate_process: the tree of the child is signalled until nothing is left of it.
\* Mutant: the signal is not followed up.
Unkilled(k) == alive' = alive /\ killed' = killed \cup k
Kills(k) == alive' = alive \ k /\ killed' = killed \cup (alive \cap k)

\* unregister_process.
Unregister(k) == procs' = procs \ k /\ disk' = disk \ k

-----------------------------------------------------------------------------
(* run_role in the thread of a role *)

Starts(t) ==
    /\ pc[t] = "idle" /\ Go(t, "enter") /\ Stays
    /\ UNCHANGED <<mainv, why, snap, procs, flags, kidv, disk, files, era>>

\* Up to the loop: cancelled, over the budget, answered by the ledger, or a running record.
Enter(t) ==
    /\ pc[t] = "enter"
    /\ \/ cancel /\ Leave(t, "cancelled") /\ UNCHANGED record
       \/ ~cancel /\ late /\ Leave(t, "failed") /\ UNCHANGED record
       \/ ~cancel /\ ~late /\ Answered(t) /\ Leave(t, "ok") /\ UNCHANGED record
       \/ ~cancel /\ ~late /\ ~Answered(t) /\ Note(t, "running", Nothing) /\ Go(t, "attempt") /\ Stays
    /\ UNCHANGED <<mainv, why, snap, procs, flags, kidv, disk, output, prompt, clean, era>>

\* require_budget before each attempt.
OutOfBudget(t) == late

Tries(t) ==
    /\ pc[t] = "attempt"
    /\ \/ OutOfBudget(t) /\ Leave(t, "failed") /\ UNCHANGED record
       \/ ~OutOfBudget(t) /\ Note(t, "running", Nothing) /\ Go(t, "spawn") /\ Stays
    /\ UNCHANGED <<mainv, why, snap, procs, flags, kidv, disk, output, prompt, clean, era>>

Spawn(t) ==
    /\ pc[t] = "spawn" /\ Go(t, "register") /\ Stays
    /\ alive' = alive \cup {Kid(t)}
    /\ lateStarts' = IF late THEN Set(lateStarts, t, lateStarts[t] + 1) ELSE lateStarts
    /\ UNCHANGED <<mainv, why, snap, procs, flags, killed, disk, files, era>>

\* Popen raises OSError: no further attempt.
SpawnFails(t) ==
    /\ pc[t] = "spawn" /\ Leave(t, "failed") /\ Note(t, "failed", Nothing)
    /\ UNCHANGED <<mainv, why, snap, procs, flags, kidv, disk, output, prompt, clean, era>>

\* register_process, and the inventory's look at /proc, for which it takes no lock.
Register(t) ==
    /\ pc[t] = "register" /\ Go(t, "publish") /\ Stays
    /\ procs' = procs \cup {Kid(t)} /\ snap' = Set(snap, t, procs' \cap alive)
    /\ UNCHANGED <<mainv, why, flags, kidv, disk, files, era>>

Publish(t) ==
    /\ pc[t] = "publish" /\ Go(t, "poll") /\ Stays
    /\ disk' = Refreshed(snap[t]) /\ snap' = Set(snap, t, {})
    /\ UNCHANGED <<mainv, why, procs, flags, kidv, files, era>>

\* The polling loop while the child lives: the stop is seen first, then the cancellation, then
\* the timeout; else it may be time for the inventory.
Polls(t) == pc[t] = "poll" /\ Kid(t) \in alive
Interrupt == IF stopReq THEN "stopped" ELSE IF cancel THEN "cancelled" ELSE "none"

PollInterrupted(t) ==
    /\ Polls(t) /\ Interrupt # "none"
    /\ why' = Set(why, t, Interrupt) /\ Go(t, "terminate") /\ Stays
    /\ UNCHANGED <<mainv, snap, procs, flags, kidv, disk, files, era>>

Timeout(t) ==
    /\ Polls(t) /\ Interrupt = "none"
    /\ why' = Set(why, t, "timeout") /\ Go(t, "terminate") /\ Stays
    /\ UNCHANGED <<mainv, snap, procs, flags, kidv, disk, files, era>>

PollRefreshes(t) ==
    /\ Polls(t) /\ Interrupt = "none"
    /\ snap' = Set(snap, t, procs \cap alive) /\ Go(t, "publish") /\ Stays
    /\ UNCHANGED <<mainv, why, procs, flags, kidv, disk, files, era>>

Terminate(t) ==
    /\ pc[t] = "terminate" /\ Go(t, "drop") /\ Kills({Kid(t)}) /\ Stays
    /\ UNCHANGED <<mainv, why, snap, procs, flags, lateStarts, disk, files, era>>

\* The loop raised: the child is unregistered on the way out.
Interrupted(t) ==
    /\ pc[t] = "drop" /\ why[t] \in Bad
    /\ Unregister({Kid(t)}) /\ Leave(t, why[t])
    /\ why' = Set(why, t, "none") /\ killed' = killed \ {Kid(t)}
    /\ UNCHANGED <<mainv, snap, flags, alive, lateStarts, files, era>>

\* The child has ended, by itself or at its timeout: it is unregistered and the attempt judged.
TimedOut(t) == pc[t] = "drop" /\ why[t] = "timeout"
Exited(t) == pc[t] = "poll" /\ Kid(t) \notin alive
Judged(t) ==
    /\ Unregister({Kid(t)}) /\ why' = Set(why, t, "none") /\ killed' = killed \ {Kid(t)}
    /\ UNCHANGED <<mainv, snap, flags, alive, lateStarts, output, prompt, era>>

\* A stop is looked at before the child's own exit, but after a timeout.
JudgeStopped(t) == Exited(t) /\ stopReq /\ Leave(t, "stopped") /\ Judged(t) /\ UNCHANGED <<record, clean>>

\* Only the direct attempt has a cut-off summary, and only run_beside calls it.
JudgeCutOff(t) ==
    /\ Exited(t) /\ ~stopReq /\ Kid(t) \notin killed
    /\ call = "beside" /\ t = "a" /\ frame[t] = "role"
    /\ frame' = Set(frame, t, "cutoff") /\ Go(t, "enter") /\ Judged(t) /\ UNCHANGED <<att, end, record, clean>>

JudgeAccepts(t) ==
    /\ Exited(t) /\ ~stopReq /\ Kid(t) \notin killed
    /\ IF frame[t] = "role" THEN Go(t, "write") /\ Stays ELSE Leave(t, "ok")
    /\ clean' = Set(clean, t, <<<<crashes, t, att[t].role, 0>>, prompt>>)
    /\ Judged(t) /\ UNCHANGED record

\* The attempt failed: it is recorded, and the next one begins or the role has failed.
Failed(t) ==
    /\ Note(t, "failed", Nothing)
    /\ IF MayRetry(t)
       THEN /\ att' = IF frame[t] = "role" THEN [att EXCEPT ![t].role = @ + 1]
                                           ELSE [att EXCEPT ![t].cutoff = @ + 1]
            /\ Go(t, "attempt") /\ UNCHANGED <<frame, end>>
       ELSE Leave(t, "failed")

JudgeFails(t) == (TimedOut(t) \/ (Exited(t) /\ ~stopReq)) /\ Failed(t) /\ Judged(t) /\ UNCHANGED clean

SummaryFailed(t) ==
    /\ pc[t] = "note" /\ Failed(t)
    /\ UNCHANGED <<mainv, why, snap, procs, flags, kidv, disk, output, prompt, clean, era>>

\* The answer: first its file, then the record that vouches for it.
Write(t) ==
    /\ pc[t] = "write" /\ Go(t, "done") /\ output' = Set(output, t, Kid(t)) /\ Stays
    /\ UNCHANGED <<mainv, why, snap, procs, flags, kidv, disk, record, prompt, clean, era>>

Done(t) ==
    /\ pc[t] = "done" /\ Leave(t, "ok") /\ Note(t, "done", Kid(t))
    /\ UNCHANGED <<mainv, why, snap, procs, flags, kidv, disk, output, prompt, clean, era>>

-----------------------------------------------------------------------------
(* The main thread *)

MainGoes(label) == main' = label /\ UNCHANGED <<call, frame, att, why, snap, disk, files, era, lateStarts>>
Quietly == UNCHANGED <<pc, end, procs, flags, alive, killed, victims>>

\* run_parallel: wait(FIRST_EXCEPTION), then the error of one of the futures that are done; a
\* future that no thread has taken yet is cancelled.
ParallelFails ==
    /\ call = "parallel" /\ main = "wait" /\ MainGoes("cancel")
    /\ \E t \in Threads : pc[t] = "ended" /\ end[t] \in Bad /\ cause' = end[t]
    /\ pc' = [t \in Threads |-> IF pc[t] = "idle" THEN "ended" ELSE pc[t]]
    /\ end' = [t \in Threads |-> IF pc[t] = "idle" THEN "dropped" ELSE end[t]]
    /\ UNCHANGED <<procs, flags, alive, killed, victims>>

ParallelEnds ==
    /\ call = "parallel" /\ main = "wait" /\ \A t \in Threads : pc[t] = "ended" /\ end[t] = "ok"
    /\ MainGoes("exit") /\ Quietly /\ UNCHANGED cause

\* run_beside: the required role first.
BesideFails ==
    /\ call = "beside" /\ main = "wait" /\ pc["b"] = "ended" /\ end["b"] \in Bad
    /\ cause' = end["b"] /\ MainGoes("cancel") /\ Quietly

BesideGoesOn ==
    /\ call = "beside" /\ main = "wait" /\ pc["b"] = "ended" /\ end["b"] = "ok"
    /\ MainGoes("side") /\ Quietly /\ UNCHANGED cause

\* Which end of the tolerated role is raised all the same.
SideRaises(e) == e = "stopped" \/ (e \in Bad /\ late)

SideEnds ==
    /\ main = "side" /\ pc["a"] = "ended"
    /\ cause' = (IF SideRaises(end["a"]) THEN end["a"] ELSE "none")
    /\ MainGoes("exit") /\ Quietly

\* cancel_requested.set().  Mutant: forgotten.
CancelForgotten == FALSE
CancelSet == TRUE

Cancels ==
    /\ main = "cancel" /\ cancel' = CancelSet /\ MainGoes("kill")
    /\ UNCHANGED <<cause, pc, end, procs, stopReq, late, signalled, alive, killed, victims>>

\* terminate_all: what current_procs holds is killed and then unregistered.
KillAll ==
    /\ main = "kill" /\ main' = "drop" /\ Kills(procs) /\ victims' = procs
    /\ UNCHANGED <<thread, call, cause, procs, flags, lateStarts, disk, files, era>>

DropAll ==
    /\ main = "drop" /\ main' = "exit" /\ Unregister(victims) /\ victims' = {}
    /\ UNCHANGED <<thread, call, cause, flags, kidv, files, era>>

\* The end of the with block waits for the threads.
Exit ==
    /\ main = "exit" /\ \A t \in Threads : pc[t] = "ended"
    /\ MainGoes(IF cause = "none" THEN "returned" ELSE "raised") /\ Quietly /\ UNCHANGED cause

-----------------------------------------------------------------------------
(* The world *)

KidEnds ==
    /\ \E k \in alive : alive' = alive \ {k}
    /\ UNCHANGED <<thread, mainv, procs, flags, killed, lateStarts, disk, files, era>>

Deadline ==
    /\ "late" \in scenario.may /\ ~late /\ main \notin Over /\ late' = TRUE
    /\ UNCHANGED <<thread, mainv, procs, cancel, stopReq, signalled, kidv, disk, files, era>>

\* cmd_stop signals the orchestrator and its descendants; Python runs the handler later.
StopSignal ==
    /\ "stop" \in scenario.may /\ ~signalled /\ main \notin Over
    /\ signalled' = TRUE /\ Kills({k \in alive : k[1] = crashes})
    /\ UNCHANGED <<thread, mainv, procs, cancel, stopReq, late, lateStarts, disk, files, era>>

Handler ==
    /\ signalled /\ ~stopReq /\ main \notin Over /\ stopReq' = TRUE
    /\ UNCHANGED <<thread, mainv, procs, cancel, late, signalled, kidv, disk, files, era>>

\* The orchestrator dies: its threads with it, its children not.
Crash ==
    /\ "crash" \in scenario.may /\ crashes < MaxCrashes /\ main \notin Over
    /\ main' = "gone"
    /\ cause' = "none" /\ victims' = {} /\ procs' = {} /\ killed' = {}
    /\ pc' = [t \in Threads |-> "idle"] /\ frame' = [t \in Threads |-> "role"] /\ att' = [t \in Threads |-> First]
    /\ why' = [t \in Threads |-> "none"] /\ end' = [t \in Threads |-> "none"] /\ snap' = [t \in Threads |-> {}]
    /\ cancel' = FALSE /\ stopReq' = FALSE /\ late' = FALSE /\ signalled' = FALSE
    /\ lateStarts' = [t \in Threads |-> 0]
    /\ lost' = lost \cup (alive \cap {Kid(t) : t \in {u \in Threads : pc[u] \in {"register", "publish"}}})
    /\ UNCHANGED <<call, alive, disk, files, crashes, scenario>>

\* A resumed run comes to the same phase, perhaps with other prompts.  It refuses beside a
\* live child that state.json names (active_problem).
Resume ==
    /\ main = "gone" /\ crashes < MaxCrashes /\ disk \cap alive = {}
    /\ main' = "wait" /\ crashes' = crashes + 1
    /\ prompt' \in Prompts
    /\ UNCHANGED <<thread, call, cause, victims, procs, flags, kidv, disk, record, output, clean, scenario, lost>>

-----------------------------------------------------------------------------
Init ==
    /\ call \in {"parallel", "beside"} /\ main = "wait"
    /\ cause = "none" /\ victims = {} /\ procs = {} /\ killed = {}
    /\ pc = [t \in Threads |-> "idle"] /\ frame = [t \in Threads |-> "role"] /\ att = [t \in Threads |-> First]
    /\ why = [t \in Threads |-> "none"] /\ end = [t \in Threads |-> "none"] /\ snap = [t \in Threads |-> {}]
    /\ cancel = FALSE /\ stopReq = FALSE /\ late = FALSE /\ signalled = FALSE
    /\ lateStarts = [t \in Threads |-> 0]
    /\ alive = {} /\ disk = {}
    /\ record = [t \in Threads |-> [status |-> "none", prompt |-> 1, output |-> Nothing]]
    /\ output = [t \in Threads |-> Nothing] /\ prompt = 1
    /\ crashes = 0 /\ scenario \in Scenarios /\ clean = [t \in Threads |-> Nothing] /\ lost = {}

\* Everything a thread does by itself; its timeout is apart.
RoleStep(t) ==
    /\ main # "gone"
    /\ \/ Starts(t) \/ Enter(t) \/ Tries(t) \/ Spawn(t) \/ SpawnFails(t) \/ Register(t) \/ Publish(t)
       \/ PollInterrupted(t) \/ PollRefreshes(t) \/ Terminate(t) \/ Interrupted(t)
       \/ JudgeStopped(t) \/ JudgeCutOff(t) \/ JudgeAccepts(t) \/ JudgeFails(t) \/ SummaryFailed(t)
       \/ Write(t) \/ Done(t)

MainStep ==
    \/ ParallelFails \/ ParallelEnds \/ BesideFails \/ BesideGoesOn \/ SideEnds
    \/ Cancels \/ KillAll \/ DropAll \/ Exit

Next ==
    \/ \E t \in Threads : RoleStep(t) \/ (main # "gone" /\ Timeout(t))
    \/ MainStep \/ KidEnds \/ Deadline \/ StopSignal \/ Handler \/ Crash \/ Resume

Spec == Init /\ [][Next]_vars

\* The threads run, and Python runs the handler of a signal.  No timeout has to fire and no
\* child has to end.
FairSpec == Spec /\ (\A t \in Threads : WF_vars(RoleStep(t))) /\ WF_vars(MainStep) /\ WF_vars(Handler)
-----------------------------------------------------------------------------
(* Properties *)

\* Every child of the phase is in state.json once its thread polls it, whatever the inventory
\* of the sibling does meanwhile: only a child that a crash caught between Popen and the
\* first inventory is unknown to a later stop (register_process, refresh_process_inventory).
Findable ==
    \A k \in alive :
        \/ k \in disk \cup lost
        \/ main # "gone" /\ \E t \in Threads : k = Kid(t) /\ pc[t] \in {"register", "publish"}

\* When run_parallel or run_beside has returned or raised, no child of the phase is alive
\* or registered: no role writes to the workspace beside the next phase (terminate_process).
NothingLeft == main \in {"returned", "raised"} => procs = {} /\ \A k \in alive : k[1] < crashes

\* A phase that returns has the answer of each role it needs, and no operator's stop was
\* swallowed with a tolerated failure; a phase that raises names the failure that came first,
\* never the cancellation it caused itself (run_parallel, run_beside).
OutcomeJustified ==
    /\ main = "returned" => /\ end["b"] = "ok"
                            /\ end["a"] = "ok" \/ (call = "beside" /\ end["a"] = "failed")
    /\ main = "raised" => cause \in {"failed", "stopped"}

\* After the deadline a role starts at most the one child whose budget check came before it
\* (require_budget before each attempt and in the cut-off summary).
OneLateChild == \A t \in Threads : lateStarts[t] <= 1

\* However a phase of two roles is over, it is over: nothing of it runs, it says truly why,
\* and the budget was overrun by one child at most.
PhaseEndsWell == TypeOK /\ NothingLeft /\ OutcomeJustified /\ OneLateChild

\* An answer the ledger gives in place of a child is the text of an attempt that ended
\* cleanly on this prompt, across crashes between the file and the record (prior_role).
ReusedIsClean ==
    [][\A t \in Threads : pc[t] = "enter" /\ pc'[t] = "ended" /\ end'[t] = "ok" => clean[t] = <<output[t], prompt>>]_vars

\* A stop, or the failure of a role the phase needs, ends the phase although no timeout fires
\* and no child ends by itself: the main thread that waits for the pool is not waited for
\* (cancel_requested, terminate_all).
InterruptEnds == (stopReq \/ main = "cancel") ~> main \in Over
=============================================================================
