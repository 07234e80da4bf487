------------------------------ MODULE TeamSolve ------------------------------
(***************************************************************************)
(* One run of the team-solve orchestrator (scripts/team-solve/             *)
(* team_solve.py, Orchestrator.execute): a direct attempt beside a         *)
(* planner, a check, rounds of review / judge / manager / repair, the keep *)
(* net, the final check, and the verdict of the run.  The process may      *)
(* crash, fail or be stopped at any point and be resumed from what is on   *)
(* disk: state.json and the saved trees survive, the locals of execute()   *)
(* do not.                                                                 *)
(*                                                                         *)
(* A workspace is an element of Trees (the git tree object tree.py makes   *)
(* of it).  What a role answers and what a check command exits with are    *)
(* choices; everything the code does with the answer is a definition.      *)
(* Every action ends at a save of state.json, so a crash inside an action  *)
(* is a crash before it, and the steps that leave something else on disk   *)
(* on the way (a role's edits, a half-written restore) are their own.      *)
(***************************************************************************)
EXTENDS Naturals, FiniteSets

CONSTANTS
    Trees,          \* contents the workspace can have
    Base,           \* the workspace as the run found it
    NoTree,         \* "no tree saved under this name"
    MaxRounds,      \* --rounds
    MaxResumes      \* bound: how often the run is resumed

ASSUME TreesAssumption   == Base \in Trees /\ NoTree \notin Trees
ASSUME RoundsAssumption  == MaxRounds \in Nat \ {0}
ASSUME ResumesAssumption == MaxResumes \in Nat

VARIABLES
    \* --- volatile: the process and the locals of execute()
    pc,             \* the phase the process is in, "off" when there is none
    stopReq,        \* Orchestrator.stop_requested
    round,          \* round_no
    before,         \* the snapshot a repair started from
    review,         \* the review's verdict in this round
    acceptedNow,    \* accepted_now
    \* --- on disk: state.json
    config,         \* what the operator asked for
    status,
    baseline,       \* baseline_check
    kind,           \* settled.kind: how the plan is checked, "unset" until settle
    done,           \* the writable roles whose ledger record is "done"
    directPassed,
    repaired,
    keep,           \* what the keep net did
    lastCheck,      \* last_check
    \* --- on disk: the workspace and the saved states of tree.py
    ws,
    saved,
    \* --- history, read by properties only
    measured,       \* the tree the round's check and diff were taken on
    proof,          \* what the accepted tree was accepted on, and that no judge saw a repair in it
    touched,        \* a repair has changed the workspace
    cut,            \* which promises an interruption has already broken
    resumes

local   == <<stopReq, round, before, review, acceptedNow>>
ledger  == <<config, baseline, kind, done, directPassed, repaired, keep>>
disk    == <<ws, saved>>
history == <<measured, proof, touched, cut, resumes>>
vars    == <<pc, local, status, ledger, lastCheck, disk, history>>

-----------------------------------------------------------------------------
(* Values *)

Phases == {"baseline", "beside", "copy", "test0", "ideate", "solve", "verify", "triage",
           "review", "judge", "manage", "repair", "keep", "restore", "final", "audit"}

\* keep and restore start no child, so nothing there looks at stop_requested.
\* Mutant: the manager's phase does not look either.
ChildPhasesButManage == Phases \ {"keep", "restore", "manage"}
ChildPhases == Phases \ {"keep", "restore"}

CheckStatus == {"pass", "fail", "none"}
Verdict     == {"PASS", "FAIL", "none"}
Configs     == {c \in [opCheck : BOOLEAN, goal : BOOLEAN, improve : BOOLEAN] : c.opCheck \/ c.goal}
SavedNames  == {"direct", "accepted", "team"}
Writers     == {"direct", "solve"}
KeptAccepted == {"accepted", "back-accepted"}
Kept        == KeptAccepted \cup {"direct", "latest", "passing", "back-direct"}
NoProof     == [tree |-> NoTree, check |-> "none", review |-> "none", judge |-> "none", unseen |-> FALSE]

TypeOK ==
    /\ pc \in Phases \cup {"off"}
    /\ stopReq \in BOOLEAN
    /\ round \in 0..MaxRounds
    /\ before \in Trees
    /\ review \in Verdict
    /\ acceptedNow \in BOOLEAN
    /\ config \in Configs
    /\ status \in {"created", "running", "solved", "failed", "error", "stopped"}
    /\ baseline \in {"unset", "skipped", "pass", "fail"}
    /\ kind \in {"unset", "command", "judge"}
    /\ done \subseteq Writers
    /\ directPassed \in {"unset", "yes", "no"}
    /\ repaired \in BOOLEAN
    /\ keep \in Kept \cup {"unset"}
    /\ lastCheck \in CheckStatus \cup {"unset"}
    /\ ws \in Trees
    /\ saved \in [SavedNames -> Trees \cup {NoTree}]
    /\ measured \in Trees \cup {NoTree}
    /\ proof \in [tree : Trees \cup {NoTree}, check : CheckStatus, review : Verdict,
                  judge : Verdict \cup {"skipped"}, unseen : BOOLEAN]
    /\ touched \in BOOLEAN
    /\ cut \subseteq {"repair", "keep"}
    /\ resumes \in 0..MaxResumes

-----------------------------------------------------------------------------
(* What the code decides *)

\* A check runs when the operator gave one or the planner settled one.
HasCheck == config.opCheck \/ kind = "command"

\* evaluate_check: what a check may be found to say.  A baseline that failed leaves all
\* three answers open (against_baseline).
CheckOutcomes ==
    IF ~HasCheck THEN {"none"}
    ELSE IF baseline = "fail" THEN CheckStatus ELSE {"pass", "fail"}

\* A check that passed before any work cannot show the work, when there is a goal.
Uninformative == kind = "command" /\ baseline = "pass" /\ config.goal

\* A passing baseline with nothing else asked ends the run.
NothingToDo == baseline = "pass" /\ ~config.goal /\ ~config.improve

\* The direct attempt passes test-0.
Test0Passes(chk) == ws # Base /\ (chk = "pass" \/ (chk = "none" /\ kind = "judge"))

\* A review that says PASS on a failing check counts as FAIL.
CountedReview(rev) == IF lastCheck = "fail" /\ rev = "PASS" THEN "FAIL" ELSE rev

\* Mutant: a failing review no longer rejects the round by itself.
RejectsIgnoringReview(rev) == lastCheck = "fail" \/ measured = Base
Rejects(rev) == lastCheck = "fail" \/ rev = "FAIL" \/ measured = Base

\* Mutant: a repaired change needs no judge.
AcceptsRepairedUnjudged(rev) == lastCheck = "pass" /\ rev = "PASS" /\ ~Uninformative
AcceptsUnjudged(rev) == lastCheck = "pass" /\ rev = "PASS" /\ ~repaired /\ ~Uninformative

\* A judge that answered nothing leaves the check and the review to decide.
JudgeAccepts(jdg) == jdg = "PASS" \/ (jdg = "none" /\ lastCheck = "pass" /\ ~Uninformative)

\* Mutant: DONE from the manager ends the run whether or not the work is accepted.
DoneAlwaysEnds(isDone, next) == (isDone \/ (acceptedNow /\ ~next)) /\ (~config.improve \/ round >= MaxRounds)
EndsAccepted(isDone, next) ==
    acceptedNow /\ (isDone \/ ~next) /\ (~config.improve \/ round >= MaxRounds)

\* keep_net: what the keep net decides.  Mutant: it does not look for an accepted state.
KeepNetForgetsAccepted ==
    IF acceptedNow THEN "accepted"
    ELSE IF directPassed = "yes" /\ ~repaired THEN "direct"
    ELSE "latest"
KeepNet ==
    IF acceptedNow THEN "accepted"
    ELSE IF saved["accepted"] # NoTree THEN "back-accepted"
    ELSE IF directPassed = "yes" /\ ~repaired THEN "direct"
    ELSE IF kind = "judge" THEN "latest"
    ELSE IF lastCheck = "pass" THEN "passing"
    ELSE IF saved["direct"] # NoTree THEN "back-direct"
    ELSE "latest"

PutBack == {"back-accepted", "back-direct"}
Target(kept) == IF kept = "back-accepted" THEN "accepted" ELSE "direct"

\* prior_role: the ledger answers for a role that is done, or does not (its prompt, its
\* evidence or its model changed) and the role runs again.
Reusable(role) == {done, done \ {role}}

\* After a stop request a phase goes on only when the ledger answers for its roles: the
\* planner's record is there once settled, the ideators' once the solver has worked.
MayReturn(role) == ~stopReq \/ (role \in done /\ kind # "unset")
-----------------------------------------------------------------------------
(* The process starts, is resumed, is interrupted *)

Init ==
    /\ pc = "off" /\ stopReq = FALSE /\ round = 0 /\ before = Base
    /\ review = "none" /\ acceptedNow = FALSE
    /\ config \in Configs
    /\ status = "created" /\ baseline = "unset" /\ kind = "unset" /\ done = {}
    /\ directPassed = "unset" /\ repaired = FALSE
    /\ keep = "unset" /\ lastCheck = "unset"
    /\ ws = Base /\ saved = [n \in SavedNames |-> NoTree]
    /\ measured = NoTree /\ proof = NoProof /\ touched = FALSE /\ cut = {} /\ resumes = 0

\* The locals of execute() go with the process: the next one starts from the disk alone.
Gone ==
    /\ pc' = "off"
    /\ stopReq' = FALSE /\ round' = 0 /\ before' = Base
    /\ review' = "none" /\ acceptedNow' = FALSE /\ measured' = NoTree

Enter == pc' = "baseline" /\ status' = "running" /\ UNCHANGED local

Start ==
    /\ pc = "off" /\ status = "created"
    /\ Enter
    /\ UNCHANGED <<ledger, lastCheck, disk, history>>

\* Resuming keeps the whole saved state, "keep" with it.
Reopen ==
    /\ Enter
    /\ resumes' = resumes + 1
    /\ cut' = cut \cup (IF keep # "unset" THEN {"keep"} ELSE {})
    /\ UNCHANGED <<ledger, disk, measured, proof, touched>>

Resume ==
    /\ pc = "off" /\ status \notin {"created", "solved"} /\ resumes < MaxResumes
    /\ Reopen
    /\ UNCHANGED lastCheck

\* resume of a solved run: the check is run again, raw, and only a failure reopens it.
ResumeSolved ==
    /\ pc = "off" /\ status = "solved" /\ HasCheck /\ resumes < MaxResumes
    /\ \/ /\ lastCheck' = "pass"
          /\ resumes' = resumes + 1
          /\ UNCHANGED <<pc, local, status, ledger, disk, measured, proof, touched, cut>>
       \/ /\ lastCheck' = "fail"
          /\ Reopen

\* The operator works on the project while no process runs.
OperatorEdits ==
    /\ pc = "off" /\ status # "created" /\ resumes < MaxResumes
    /\ ws' \in Trees \ {ws}
    /\ UNCHANGED <<pc, local, status, ledger, lastCheck, saved, history>>

\* An interrupted repair has changed the workspace and not recorded it.
CutHere == cut \cup (IF pc = "repair" /\ touched /\ ~repaired THEN {"repair"} ELSE {})

Ends(how) ==
    /\ pc # "off"
    /\ Gone /\ status' = how /\ cut' = CutHere
    /\ UNCHANGED <<ledger, lastCheck, disk, proof, touched, resumes>>

\* TeamSolveError, OSError, the budget: terminalize_claimed_run(..., "error").
Fail == Ends("error")

\* The process dies with nothing written: state.json still says running.
Crash == Ends("running")

\* SIGTERM or SIGINT only sets a flag; the children are signalled too.
StopRequest ==
    /\ pc # "off" /\ ~stopReq
    /\ stopReq' = TRUE
    /\ UNCHANGED <<pc, round, before, review, acceptedNow, status, ledger, lastCheck, disk, history>>

\* A phase that watches a child sees the flag: terminalize_claimed_run(..., "stopped").
StopExit == stopReq /\ pc \in ChildPhases /\ Ends("stopped")

\* cmd_stop on a run whose process is gone.
StopDead ==
    /\ pc = "off" /\ status \in {"created", "running"}
    /\ status' = "stopped"
    /\ UNCHANGED <<pc, local, ledger, lastCheck, disk, history>>

-----------------------------------------------------------------------------
(* Before the rounds *)

\* The operator's check on the workspace as found; a stop kills the check, and its
\* exit code is recorded all the same.
TakeBaseline ==
    /\ pc = "baseline"
    /\ UNCHANGED <<config, kind, directPassed, repaired, keep, disk,
                   proof, touched, cut, resumes>>
    /\ IF config.opCheck /\ baseline = "unset"
       THEN \/ baseline' = "pass" /\ lastCheck' = "pass"
            \/ baseline' = "fail" /\ lastCheck' = "fail"
       ELSE UNCHANGED <<baseline, lastCheck>>
    /\ IF NothingToDo'
       THEN Gone /\ status' = "solved" /\ UNCHANGED done
       ELSE pc' = "beside" /\ done' \in Reusable("direct") /\ UNCHANGED <<status, local, measured>>

\* A writable role at work.  What it has written stays, however the role ends.
Edits == ws' \in Trees \ {ws} /\ UNCHANGED saved

DirectEdits ==
    /\ pc = "beside" /\ "direct" \notin done
    /\ Edits
    /\ UNCHANGED <<pc, local, status, ledger, lastCheck, history>>

\* The planner must answer; the direct attempt may fail.  Then settle().
BesideEnds ==
    /\ pc = "beside" /\ MayReturn("direct")
    /\ done' \in {done, done \cup {"direct"}}
    /\ kind' \in IF kind # "unset" THEN {kind}
                 ELSE IF config.opCheck THEN {"command"} ELSE {"command", "judge"}
    /\ pc' = IF kind' = "command" /\ baseline = "unset" THEN "copy" ELSE "test0"
    /\ UNCHANGED <<local, status, config, baseline, directPassed, repaired, keep,
                   lastCheck, disk, history>>

\* The settled check on a copy of the start; without a clean copy there is no baseline.
CopyBaseline ==
    /\ pc = "copy"
    /\ baseline' \in {"skipped", "pass", "fail"}
    /\ pc' = "test0"
    /\ UNCHANGED <<local, status, config, kind, done, directPassed, repaired, keep,
                   lastCheck, disk, history>>

IntoRounds(passed) ==
    IF passed
    THEN pc' = "verify" /\ round' = 1 /\ UNCHANGED done
    ELSE pc' = "ideate" /\ UNCHANGED <<round, done>>

Test0 ==
    /\ pc = "test0"
    /\ IF directPassed = "unset"
       THEN \E chk \in CheckOutcomes :
              /\ lastCheck' = chk
              /\ saved' = [saved EXCEPT !["direct"] = ws]
              /\ directPassed' = IF Test0Passes(chk) THEN "yes" ELSE "no"
       ELSE UNCHANGED <<lastCheck, saved, directPassed>>
    /\ IntoRounds(directPassed' = "yes")
    /\ UNCHANGED <<stopReq, before, review, acceptedNow, status, config, baseline, kind,
                   repaired, keep, ws, history>>

Ideate ==
    /\ pc = "ideate" /\ MayReturn("solve")
    /\ done' \in Reusable("solve")
    /\ pc' = "solve" /\ round' = 1
    /\ UNCHANGED <<stopReq, before, review, acceptedNow, status, config, baseline, kind,
                   directPassed, repaired, keep, lastCheck, disk, history>>

SolveEdits ==
    /\ pc = "solve" /\ "solve" \notin done
    /\ Edits
    /\ UNCHANGED <<pc, local, status, ledger, lastCheck, history>>

Solve ==
    /\ pc = "solve" /\ MayReturn("solve")
    /\ done' = done \cup {"solve"}
    /\ pc' = "verify"
    /\ UNCHANGED <<local, status, config, baseline, kind, directPassed, repaired,
                   keep, lastCheck, disk, history>>

-----------------------------------------------------------------------------
(* A round *)

\* The check and the diff of the round, on one workspace.
Verify ==
    /\ pc = "verify"
    /\ lastCheck' \in CheckOutcomes
    /\ measured' = ws
    /\ pc' = "triage"
    /\ UNCHANGED <<local, status, ledger, disk, proof, touched, cut, resumes>>

Triage ==
    /\ pc = "triage" /\ ~stopReq
    /\ pc' = "review"
    /\ UNCHANGED <<local, status, ledger, lastCheck, disk, history>>

\* The round's entry in state.json, and the tree of an accepted round.
Record(accepted, rev, jdg) ==
    /\ acceptedNow' = accepted
    /\ pc' = "manage" /\ review' = "none"
    /\ IF accepted
       THEN /\ saved' = [saved EXCEPT !["accepted"] = ws]
            /\ proof' = [tree |-> measured, check |-> lastCheck, review |-> rev, judge |-> jdg,
                         unseen |-> touched /\ jdg = "skipped"]
       ELSE UNCHANGED <<saved, proof>>

Review ==
    /\ pc = "review" /\ ~stopReq
    /\ \E rev \in {CountedReview(r) : r \in Verdict} :
         IF Rejects(rev) \/ AcceptsUnjudged(rev)
         THEN Record(~Rejects(rev), rev, "skipped")
         ELSE pc' = "judge" /\ review' = rev /\ UNCHANGED <<acceptedNow, saved, proof>>
    /\ UNCHANGED <<stopReq, round, before, status, ledger, lastCheck, ws, measured, touched, cut, resumes>>

Judge ==
    /\ pc = "judge" /\ ~stopReq
    /\ \E jdg \in Verdict : Record(JudgeAccepts(jdg), review, jdg)
    /\ UNCHANGED <<stopReq, round, before, status, ledger, lastCheck, ws, measured, touched,
                   cut, resumes>>

\* The manager's STATUS and whether any task is left; the loop goes on or ends.
Manage ==
    /\ pc = "manage" /\ ~stopReq
    /\ \E isDone, next \in BOOLEAN :
         \/ /\ EndsAccepted(isDone, next)
            /\ pc' = "keep" /\ UNCHANGED <<round, before>>
         \/ /\ ~EndsAccepted(isDone, next) /\ round >= MaxRounds
            /\ pc' = "keep" /\ UNCHANGED <<round, before>>
         \/ /\ ~EndsAccepted(isDone, next) /\ round < MaxRounds
            /\ pc' = "repair" /\ round' = round + 1 /\ before' = ws
    /\ UNCHANGED <<stopReq, review, acceptedNow, status, config, baseline, kind, done,
                   directPassed, repaired, keep, lastCheck, disk, history>>

RepairEdits ==
    /\ pc = "repair"
    /\ Edits
    /\ touched' = TRUE
    /\ UNCHANGED <<pc, local, status, ledger, lastCheck, measured, proof, cut, resumes>>

Repair ==
    /\ pc = "repair" /\ ~stopReq
    /\ repaired' = TRUE /\ before' = Base
    /\ IF ws = before /\ ~config.improve
       THEN pc' = "keep" /\ round' = round - 1
       ELSE pc' = "verify" /\ UNCHANGED round
    /\ UNCHANGED <<stopReq, review, acceptedNow, status, config, baseline, kind, done,
                   directPassed, keep, lastCheck, disk, history>>

-----------------------------------------------------------------------------
(* After the rounds *)

\* Mutant: the direct attempt's patch is written again, not the team's.
SetAsideAsDirect == [saved EXCEPT !["direct"] = ws]
SetAside == [saved EXCEPT !["team"] = ws]

\* The keep net runs once in the life of a run: a saved "keep" is never decided again.
\* Putting a state back first saves the workspace as "team".
KeepTakes ==
    /\ pc = "keep"
    /\ \/ /\ keep # "unset"
          /\ pc' = "final" /\ UNCHANGED <<keep, saved>>
       \/ /\ keep = "unset" /\ KeepNet \notin PutBack
          /\ keep' = KeepNet /\ pc' = "final" /\ UNCHANGED saved
       \/ /\ keep = "unset" /\ KeepNet \in PutBack
          /\ saved' = SetAside
          /\ pc' = "restore" /\ UNCHANGED keep
    /\ UNCHANGED <<local, status, config, baseline, kind, done, directPassed, repaired,
                   lastCheck, ws, history>>

\* restore_tree writes file by file.
RestorePart ==
    /\ pc = "restore"
    /\ ws' \in Trees \ {ws}
    /\ UNCHANGED <<pc, local, status, ledger, lastCheck, saved, history>>

Restore ==
    /\ pc = "restore"
    /\ ws' = saved[Target(KeepNet)]
    /\ keep' = KeepNet
    /\ pc' = "final"
    /\ UNCHANGED <<local, status, config, baseline, kind, done, directPassed, repaired,
                   lastCheck, saved, history>>

FinalCheck ==
    /\ pc = "final"
    /\ lastCheck' \in CheckOutcomes
    /\ pc' = "audit"
    /\ UNCHANGED <<local, status, ledger, disk, history>>

\* A failed audit is a warning; then the verdict of the run.
\* Mutant: the final check is not asked.
SolvedByKeep == keep \in KeptAccepted
SolvedVerdict == keep \in KeptAccepted /\ lastCheck # "fail"
Audit ==
    /\ pc = "audit" /\ ~stopReq
    /\ Gone
    /\ status' = IF SolvedVerdict THEN "solved" ELSE "failed"
    /\ UNCHANGED <<ledger, lastCheck, disk, proof, touched, cut, resumes>>

-----------------------------------------------------------------------------

\* The orchestrator's own steps.
Step ==
    \/ TakeBaseline \/ BesideEnds \/ CopyBaseline \/ Test0 \/ Ideate \/ Solve
    \/ Verify \/ Triage \/ Review \/ Judge \/ Manage \/ Repair
    \/ KeepTakes \/ Restore \/ FinalCheck \/ Audit
    \/ StopExit

\* What its children, the operator and the machine do.
Environment ==
    \/ Start \/ Resume \/ ResumeSolved \/ OperatorEdits \/ StopDead
    \/ DirectEdits \/ SolveEdits \/ RepairEdits \/ RestorePart
    \/ StopRequest \/ Fail \/ Crash

Next == Step \/ Environment

Spec == Init /\ [][Next]_vars

\* Every child is bounded by a timeout, so a phase that is not interrupted ends.
FairSpec == Spec /\ WF_vars(Step)

-----------------------------------------------------------------------------
(* Properties *)

\* The accepted tree (refs and accepted.patch) is the very tree the round's check and
\* diff were taken on, it is a change, nothing rejected it, and the check or the judge
\* passed it: execute's acceptance, across any crash, stop, edit and resume.
AcceptedWasProven ==
    saved["accepted"] # NoTree =>
        /\ proof.tree = saved["accepted"] /\ proof.tree # Base
        /\ proof.check # "fail" /\ proof.review # "FAIL"
        /\ proof.check = "pass" \/ proof.judge = "PASS"

\* The judge was left out only where a passing check and a passing review settle it: no
\* repair had changed the work (but one an interruption hid), and the check had not
\* passed before any work.
JudgeLeftOutSoundly ==
    saved["accepted"] # NoTree /\ proof.judge = "skipped" =>
        /\ proof.check = "pass" /\ proof.review = "PASS" /\ ~Uninformative
        /\ proof.unseen => "repair" \in cut

\* A run that says solved has accepted some work, and the last check run on it did not
\* fail; or it had nothing to do.
SolvedWasAccepted ==
    status = "solved" => NothingToDo \/ (saved["accepted"] # NoTree /\ lastCheck # "fail")

\* The run's verdict is on the best proven work: with an accepted tree that tree is the
\* workspace when execute() finishes, unless the keep net was decided before a resume.
EndsOnBestProven ==
    [][ Audit /\ "keep" \notin cut =>
          /\ saved["accepted"] # NoTree => ws = saved["accepted"]
          /\ status' = "solved" => saved["accepted"] # NoTree ]_vars

\* "STATUS: DONE cannot override": the rounds end on work that is not accepted only when
\* they are used up or a repair changed nothing.
OnlyAcceptedEndsEarly ==
    [][ pc' = "keep" /\ pc # "keep" /\ ~acceptedNow =>
          (pc = "manage" /\ round = MaxRounds) \/ (pc = "repair" /\ ws = before /\ ~config.improve) ]_vars

\* In an uninterrupted run the keep net loses nothing.  With nothing accepted and a check to
\* run, the workspace at the end is the direct attempt unless the team's work passed the
\* check; and where a state was put back it is whole, and the state named team is the tree
\* that the last round's check and review saw.
KeepNetLosesNothing ==
    [][ Audit /\ resumes = 0 =>
          /\ saved["accepted"] = NoTree /\ kind = "command" => ws = saved["direct"] \/ keep = "passing"
          /\ keep \in PutBack => saved["team"] = measured /\ ws = saved[Target(keep)] ]_vars

\* A process that has started ends: with a verdict, an error, a stop or a crash.
RunEnds == pc # "off" ~> pc = "off"

\* A run that is not resumed keeps the promise of ProvenWork.
Promise == INSTANCE ProvenWork WITH
    work <- ws, proven <- saved["accepted"],
    verdict <- IF status \in {"created", "running"} THEN "open" ELSE status
PromiseKept == Promise!Spec

-----------------------------------------------------------------------------
(* What the repository says and the code does not do *)

\* "If a later round breaks it, the last accepted state is put back" (docs/team-solve.md:114).
EndsOnAccepted == [][ Audit /\ saved["accepted"] # NoTree => ws = saved["accepted"] ]_vars
=============================================================================
