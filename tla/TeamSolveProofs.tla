--------------------------- MODULE TeamSolveProofs ---------------------------
(***************************************************************************)
(* What holds of TeamSolve for every set of workspaces, every number of    *)
(* rounds and any number of resumes.                                       *)
(***************************************************************************)
EXTENDS TeamSolve, TLAPS

-----------------------------------------------------------------------------
(* The inductive invariant, by what each part is about *)

\* A live process is a running run, and a created run has done nothing.
Lively ==
    /\ pc # "off" => status = "running"
    /\ status = "created" =>
         keep = "unset" /\ ws = Base /\ saved["accepted"] = NoTree /\ resumes = 0
    /\ "keep" \in cut => resumes > 0
    /\ pc = "baseline" /\ resumes = 0 => ws = Base /\ saved["accepted"] = NoTree

\* From the check to the verdict of a round the workspace is the one that was checked,
\* and the judge is asked only what the review left open.
OnMeasured ==
    /\ pc \in {"triage", "review", "judge"} => measured = ws
    /\ pc = "judge" => ~Rejects(review)

\* Once settled, and so once anything is accepted, the baseline is fixed.
BaselineFixed ==
    /\ config.opCheck /\ kind # "unset" => kind = "command"
    /\ config.opCheck /\ pc \notin {"off", "baseline"} => baseline # "unset"
    /\ config.opCheck /\ kind # "unset" => baseline # "unset"
    /\ pc = "copy" => kind = "command" /\ baseline = "unset"
    /\ pc \notin {"off", "baseline", "beside", "copy"} =>
         kind # "unset" /\ (kind = "command" => baseline # "unset")
    /\ saved["accepted"] # NoTree => kind # "unset" /\ (kind = "command" => baseline # "unset")

\* A change by a repair is recorded when the repair returns, or was cut off.
RepairSeen == touched /\ ~repaired => pc = "repair" \/ "repair" \in cut

\* Work is called accepted only with its tree saved.
AcceptedSaved == acceptedNow \/ keep \in KeptAccepted => saved["accepted"] # NoTree

\* After an accepted round the workspace is the accepted tree until a repair edits it.
OnAccepted ==
    acceptedNow => /\ pc \in {"manage", "keep"} => ws = saved["accepted"]
                   /\ pc = "repair" => before = saved["accepted"]

\* The keep net decides once, and what it decides leaves the best proven work.
KeepDecides ==
    /\ keep # "unset" => pc \in {"off", "final", "audit"} \/ "keep" \in cut
    /\ pc = "restore" => KeepNet \in PutBack
    /\ pc \in {"final", "audit"} /\ "keep" \notin cut /\ saved["accepted"] # NoTree =>
         ws = saved["accepted"]

\* A repair runs in a round that has begun, and a review sees the answer of a check.
RoundBegun ==
    /\ pc = "repair" => round > 0
    /\ pc \in {"triage", "review", "judge"} => lastCheck \in CheckStatus

IInv ==
    /\ TypeOK /\ RoundBegun
    /\ Lively /\ OnMeasured /\ BaselineFixed /\ RepairSeen
    /\ AcceptedSaved /\ OnAccepted /\ KeepDecides
    /\ AcceptedWasProven /\ JudgeLeftOutSoundly /\ SolvedWasAccepted

-----------------------------------------------------------------------------
(* Type correctness *)

\* A process that ends leaves its locals fresh.
LEMMA GoneType ==
    ASSUME Gone
    PROVE  /\ pc' \in Phases \cup {"off"} /\ stopReq' \in BOOLEAN /\ acceptedNow' \in BOOLEAN
           /\ round' \in 0..MaxRounds
           /\ before' \in Trees /\ review' \in Verdict /\ measured' \in Trees \cup {NoTree}
<1>1. pc' \in Phases \cup {"off"} /\ stopReq' \in BOOLEAN /\ acceptedNow' \in BOOLEAN
  BY DEF Gone
<1>2. round' \in 0..MaxRounds
  BY RoundsAssumption DEF Gone
<1>3. before' \in Trees /\ review' \in Verdict /\ measured' \in Trees \cup {NoTree}
  BY TreesAssumption DEF Gone, Verdict
<1> QED
  BY <1>1, <1>2, <1>3

LEMMA EndsType ==
    ASSUME TypeOK, NEW how \in {"error", "running", "stopped"}, Ends(how)
    PROVE  TypeOK'
<1>1. cut' \subseteq {"repair", "keep"}
  BY DEF TypeOK, Ends, CutHere
<1>2. status' \in {"created", "running", "solved", "failed", "error", "stopped"}
  BY DEF Ends
<1>3. /\ UNCHANGED <<config, baseline, kind, done, directPassed, repaired, keep>>
      /\ UNCHANGED <<lastCheck, ws, saved, proof, touched, resumes>>
  BY DEF Ends, ledger, disk
<1> QED
  BY GoneType, <1>1, <1>2, <1>3 DEF TypeOK, Ends

LEMMA RecordType ==
    ASSUME TypeOK, lastCheck \in CheckStatus,
           NEW accepted \in BOOLEAN, NEW rev \in Verdict, NEW jdg \in Verdict \cup {"skipped"},
           Record(accepted, rev, jdg)
    PROVE  /\ pc' \in Phases \cup {"off"} /\ acceptedNow' \in BOOLEAN /\ review' \in Verdict
           /\ saved' \in [SavedNames -> Trees \cup {NoTree}]
           /\ proof' \in [tree : Trees \cup {NoTree}, check : CheckStatus, review : Verdict,
                         judge : Verdict \cup {"skipped"}, unseen : BOOLEAN]
<1>1. pc' \in Phases \cup {"off"} /\ acceptedNow' \in BOOLEAN
  BY DEF Record, Phases
<1>2. review' \in Verdict
  BY DEF Record, Verdict
<1>3. saved' \in [SavedNames -> Trees \cup {NoTree}]
  BY DEF Record, TypeOK
<1>4. proof' \in [tree : Trees \cup {NoTree}, check : CheckStatus, review : Verdict,
                 judge : Verdict \cup {"skipped"}, unseen : BOOLEAN]
  <2>1. (touched /\ jdg = "skipped") \in BOOLEAN
    BY Zenon DEF TypeOK
  <2>2. measured \in Trees \cup {NoTree} /\ lastCheck \in CheckStatus
    BY DEF TypeOK
  <2>3. CASE accepted
    <3>1. proof' = [tree |-> measured, check |-> lastCheck, review |-> rev, judge |-> jdg,
                    unseen |-> touched /\ jdg = "skipped"]
      BY <2>3 DEF Record
    <3> DEFINE u == touched /\ jdg = "skipped"
    <3>2. u \in BOOLEAN
      BY <2>1
    <3>3. proof' = [tree |-> measured, check |-> lastCheck, review |-> rev, judge |-> jdg,
                    unseen |-> u]
      BY <3>1
    <3> HIDE DEF u
    <3> QED
      BY <2>2, <3>2, <3>3
  <2>4. CASE ~accepted
    BY <2>4 DEF Record, TypeOK
  <2> QED
    BY <2>3, <2>4
<1> QED
  BY <1>1, <1>2, <1>3, <1>4

\* Each step of the run keeps every variable in its type.  Restore is the one that needs
\* more: it writes a saved state back, which the keep net chose only because it is saved.
LEMMA TypeStep == TypeOK /\ RoundBegun /\ KeepDecides /\ [Next]_vars => TypeOK'
<1> SUFFICES ASSUME TypeOK, RoundBegun, KeepDecides, [Next]_vars PROVE TypeOK'
    OBVIOUS
<1> USE TreesAssumption, RoundsAssumption, ResumesAssumption
    DEF TypeOK, local, ledger, disk, history, SavedNames, Phases
<1>1. CASE Start            BY <1>1 DEF Start, Enter
<1>2. CASE Resume           BY <1>2 DEF Resume, Reopen, Enter
<1>3. CASE ResumeSolved
  <2>1. lastCheck' \in CheckStatus \cup {"unset"}
    BY <1>3 DEF ResumeSolved, CheckStatus
  <2>2. resumes' \in 0..MaxResumes
    BY <1>3 DEF ResumeSolved, Reopen
  <2>3. pc' \in Phases \cup {"off"} /\ status' \in {"running", "solved"}
    BY <1>3 DEF ResumeSolved, Reopen, Enter
  <2>4. cut' \subseteq {"repair", "keep"}
    BY <1>3 DEF ResumeSolved, Reopen
  <2>5. UNCHANGED <<stopReq, round, before, review, acceptedNow, ledger, disk, measured,
                    proof, touched>>
    BY <1>3 DEF ResumeSolved, Reopen, Enter
  <2> QED
    BY <2>1, <2>2, <2>3, <2>4, <2>5
<1>4. CASE OperatorEdits    BY <1>4 DEF OperatorEdits
<1>5. CASE StopDead         BY <1>5 DEF StopDead
<1>6. CASE DirectEdits      BY <1>6 DEF DirectEdits, Edits
<1>7. CASE SolveEdits       BY <1>7 DEF SolveEdits, Edits
<1>8. CASE RepairEdits      BY <1>8 DEF RepairEdits, Edits
<1>9. CASE RestorePart      BY <1>9 DEF RestorePart
<1>10. CASE StopRequest     BY <1>10 DEF StopRequest
<1>11. CASE Fail            BY <1>11, EndsType DEF Fail
<1>12. CASE Crash           BY <1>12, EndsType DEF Crash
<1>13. CASE TakeBaseline
  <2>1. /\ baseline' \in {"unset", "skipped", "pass", "fail"}
        /\ lastCheck' \in CheckStatus \cup {"unset"}
    BY <1>13 DEF TakeBaseline, CheckStatus
  <2>2. done' \subseteq Writers /\ status' \in {"running", "solved", status}
    BY <1>13 DEF TakeBaseline, Reusable
  <2>3. UNCHANGED <<config, kind, directPassed, repaired, keep, disk, proof,
                    touched, cut, resumes>>
    BY <1>13 DEF TakeBaseline
  <2>4. Gone \/ (pc' = "beside" /\ UNCHANGED <<local, measured>>)
    BY <1>13 DEF TakeBaseline
  <2> QED
    BY <2>1, <2>2, <2>3, <2>4, GoneType
<1>14. CASE BesideEnds      BY <1>14 DEF BesideEnds, Writers
<1>15. CASE CopyBaseline    BY <1>15 DEF CopyBaseline
<1>16. CASE Test0           BY <1>16 DEF Test0, CheckOutcomes, CheckStatus, IntoRounds
<1>17. CASE Ideate          BY <1>17 DEF Ideate, Reusable, Writers
<1>18. CASE Solve           BY <1>18 DEF Solve, Writers
<1>19. CASE Verify          BY <1>19 DEF Verify, CheckOutcomes, CheckStatus
<1>20. CASE Triage          BY <1>20 DEF Triage
<1>21. CASE Review
  <2>1. lastCheck \in CheckStatus
    BY <1>21 DEF Review, RoundBegun
  <2>2. PICK rev \in Verdict :
          IF Rejects(rev) \/ AcceptsUnjudged(rev)
          THEN Record(~Rejects(rev), rev, "skipped")
          ELSE pc' = "judge" /\ review' = rev /\ UNCHANGED <<acceptedNow, saved, proof>>
    BY <1>21 DEF Review, CountedReview, Verdict
  <2>3. UNCHANGED <<stopReq, round, before, status, ledger, lastCheck, ws, measured,
                    touched, cut, resumes>>
    BY <1>21 DEF Review
  <2>4. CASE \E accepted \in BOOLEAN : Record(accepted, rev, "skipped")
    <3>1. PICK accepted \in BOOLEAN : Record(accepted, rev, "skipped")
      BY <2>4
    <3>2. rev \in Verdict /\ "skipped" \in Verdict \cup {"skipped"}
      BY <2>2
    <3> QED
      BY <2>1, <2>3, <3>1, <3>2, RecordType
  <2>5. CASE pc' = "judge" /\ review' = rev /\ UNCHANGED <<acceptedNow, saved, proof>>
    <3>1. pc' \in Phases \cup {"off"} /\ review' \in Verdict
      BY <2>2, <2>5
    <3> QED
      BY <2>3, <2>5, <3>1
  <2> QED
    BY <2>2, <2>4, <2>5 DEF Rejects
<1>22. CASE Judge
  <2>1. lastCheck \in CheckStatus
    BY <1>22 DEF Judge, RoundBegun
  <2>2. PICK jdg \in Verdict : Record(JudgeAccepts(jdg), review, jdg)
    BY <1>22 DEF Judge
  <2>3. UNCHANGED <<stopReq, round, before, status, ledger, lastCheck, ws, measured,
                    touched, cut, resumes>>
    BY <1>22 DEF Judge
  <2>4. JudgeAccepts(jdg) \in BOOLEAN /\ jdg \in Verdict \cup {"skipped"}
    BY <2>2 DEF JudgeAccepts
  <2> QED
    BY <2>1, <2>2, <2>3, <2>4, RecordType
<1>23. CASE Manage          BY <1>23 DEF Manage
<1>24. CASE Repair          BY <1>24 DEF Repair, RoundBegun
<1>25. CASE KeepTakes       BY <1>25 DEF KeepTakes, KeepNet, PutBack, SetAside, Kept, KeptAccepted
<1>26. CASE Restore
  BY <1>26 DEF Restore, KeepNet, PutBack, Kept, KeptAccepted, Target, KeepDecides
<1>27. CASE FinalCheck      BY <1>27 DEF FinalCheck, CheckOutcomes, CheckStatus
<1>28. CASE Audit           BY <1>28, GoneType DEF Audit
<1>29. CASE StopExit        BY <1>29, EndsType DEF StopExit
<1>30. CASE UNCHANGED vars  BY <1>30 DEF vars
<1> QED
  BY <1>1, <1>2, <1>3, <1>4, <1>5, <1>6, <1>7, <1>8, <1>9, <1>10, <1>11, <1>12, <1>13, <1>14,
     <1>15, <1>16, <1>17, <1>18, <1>19, <1>20, <1>21, <1>22, <1>23, <1>24, <1>25, <1>26, <1>27,
     <1>28, <1>29, <1>30
  DEF Next, Step, Environment

-----------------------------------------------------------------------------
(* Each part of the invariant is kept by every step *)

\* A repair is reached only by going on to the next round; a review only after the check.
LEMMA RoundBegunStep == TypeOK /\ RoundBegun /\ [Next]_vars => RoundBegun'
<1> SUFFICES ASSUME TypeOK, RoundBegun, [Next]_vars PROVE RoundBegun'
    OBVIOUS
<1> USE DEF TypeOK, RoundBegun, Phases, local, ledger, disk, history
<1>1. CASE Start            BY <1>1 DEF Start, Enter
<1>2. CASE Resume           BY <1>2 DEF Resume, Reopen, Enter
<1>3. CASE ResumeSolved     BY <1>3 DEF ResumeSolved, Reopen, Enter
<1>4. CASE OperatorEdits    BY <1>4 DEF OperatorEdits
<1>5. CASE StopDead         BY <1>5 DEF StopDead
<1>6. CASE DirectEdits      BY <1>6 DEF DirectEdits, Edits
<1>7. CASE SolveEdits       BY <1>7 DEF SolveEdits, Edits
<1>8. CASE RepairEdits      BY <1>8 DEF RepairEdits, Edits
<1>9. CASE RestorePart      BY <1>9 DEF RestorePart
<1>10. CASE StopRequest     BY <1>10 DEF StopRequest
<1>11. CASE Fail            BY <1>11 DEF Fail, Ends, Gone, CutHere
<1>12. CASE Crash           BY <1>12 DEF Crash, Ends, Gone, CutHere
<1>13. CASE TakeBaseline    BY <1>13 DEF TakeBaseline, Gone
<1>14. CASE BesideEnds      BY <1>14 DEF BesideEnds
<1>15. CASE CopyBaseline    BY <1>15 DEF CopyBaseline
<1>16. CASE Test0           BY <1>16 DEF Test0, IntoRounds
<1>17. CASE Ideate          BY <1>17 DEF Ideate
<1>18. CASE Solve           BY <1>18 DEF Solve
<1>19. CASE Verify          BY <1>19 DEF Verify, CheckOutcomes, CheckStatus
<1>20. CASE Triage          BY <1>20 DEF Triage
<1>21. CASE Review          BY <1>21 DEF Review, Record
<1>22. CASE Judge           BY <1>22 DEF Judge, Record
<1>23. CASE Manage          BY <1>23 DEF Manage
<1>24. CASE Repair          BY <1>24 DEF Repair
<1>25. CASE KeepTakes       BY <1>25 DEF KeepTakes
<1>26. CASE Restore         BY <1>26 DEF Restore
<1>27. CASE FinalCheck      BY <1>27 DEF FinalCheck
<1>28. CASE Audit           BY <1>28 DEF Audit, Gone
<1>29. CASE StopExit        BY <1>29 DEF StopExit, Ends, Gone, CutHere
<1>30. CASE UNCHANGED vars  BY <1>30 DEF vars
<1> QED
  BY <1>1, <1>2, <1>3, <1>4, <1>5, <1>6, <1>7, <1>8, <1>9, <1>10, <1>11, <1>12, <1>13, <1>14,
     <1>15, <1>16, <1>17, <1>18, <1>19, <1>20, <1>21, <1>22, <1>23, <1>24, <1>25, <1>26, <1>27,
     <1>28, <1>29, <1>30
  DEF Next, Step, Environment

\* The status follows the process, and a run that was never resumed starts on Base.
LEMMA LivelyStep == TypeOK /\ Lively /\ [Next]_vars => Lively'
<1> SUFFICES ASSUME TypeOK, Lively, [Next]_vars PROVE Lively'
    OBVIOUS
<1> USE DEF TypeOK, Lively, Phases, local, ledger, disk, history
<1>1. CASE Start            BY <1>1 DEF Start, Enter
<1>2. CASE Resume           BY <1>2 DEF Resume, Reopen, Enter
<1>3. CASE ResumeSolved     BY <1>3 DEF ResumeSolved, Reopen, Enter
<1>4. CASE OperatorEdits    BY <1>4 DEF OperatorEdits
<1>5. CASE StopDead         BY <1>5 DEF StopDead
<1>6. CASE DirectEdits      BY <1>6 DEF DirectEdits, Edits
<1>7. CASE SolveEdits       BY <1>7 DEF SolveEdits, Edits
<1>8. CASE RepairEdits      BY <1>8 DEF RepairEdits, Edits
<1>9. CASE RestorePart      BY <1>9 DEF RestorePart
<1>10. CASE StopRequest     BY <1>10 DEF StopRequest
<1>11. CASE Fail            BY <1>11 DEF Fail, Ends, Gone, CutHere
<1>12. CASE Crash           BY <1>12 DEF Crash, Ends, Gone, CutHere
<1>13. CASE TakeBaseline    BY <1>13 DEF TakeBaseline, Gone
<1>14. CASE BesideEnds      BY <1>14 DEF BesideEnds
<1>15. CASE CopyBaseline    BY <1>15 DEF CopyBaseline
<1>16. CASE Test0           BY <1>16 DEF Test0, IntoRounds
<1>17. CASE Ideate          BY <1>17 DEF Ideate
<1>18. CASE Solve           BY <1>18 DEF Solve
<1>19. CASE Verify          BY <1>19 DEF Verify
<1>20. CASE Triage          BY <1>20 DEF Triage
<1>21. CASE Review          BY <1>21 DEF Review, Record
<1>22. CASE Judge           BY <1>22 DEF Judge, Record
<1>23. CASE Manage          BY <1>23 DEF Manage
<1>24. CASE Repair          BY <1>24 DEF Repair
<1>25. CASE KeepTakes       BY <1>25 DEF KeepTakes
<1>26. CASE Restore         BY <1>26 DEF Restore
<1>27. CASE FinalCheck      BY <1>27 DEF FinalCheck
<1>28. CASE Audit           BY <1>28 DEF Audit, Gone
<1>29. CASE StopExit        BY <1>29 DEF StopExit, Ends, Gone, CutHere
<1>30. CASE UNCHANGED vars  BY <1>30 DEF vars
<1> QED
  BY <1>1, <1>2, <1>3, <1>4, <1>5, <1>6, <1>7, <1>8, <1>9, <1>10, <1>11, <1>12, <1>13, <1>14,
     <1>15, <1>16, <1>17, <1>18, <1>19, <1>20, <1>21, <1>22, <1>23, <1>24, <1>25, <1>26, <1>27,
     <1>28, <1>29, <1>30
  DEF Next, Step, Environment

\* Between the check and the verdict of a round no role writes, so the diff stays true.
LEMMA OnMeasuredStep == TypeOK /\ OnMeasured /\ [Next]_vars => OnMeasured'
<1> SUFFICES ASSUME TypeOK, OnMeasured, [Next]_vars PROVE OnMeasured'
    OBVIOUS
<1> USE DEF TypeOK, OnMeasured, Phases, local, ledger, disk, history
<1>1. CASE Start            BY <1>1 DEF Start, Enter
<1>2. CASE Resume           BY <1>2 DEF Resume, Reopen, Enter
<1>3. CASE ResumeSolved     BY <1>3 DEF ResumeSolved, Reopen, Enter
<1>4. CASE OperatorEdits    BY <1>4 DEF OperatorEdits
<1>5. CASE StopDead         BY <1>5 DEF StopDead
<1>6. CASE DirectEdits      BY <1>6 DEF DirectEdits, Edits
<1>7. CASE SolveEdits       BY <1>7 DEF SolveEdits, Edits
<1>8. CASE RepairEdits      BY <1>8 DEF RepairEdits, Edits
<1>9. CASE RestorePart      BY <1>9 DEF RestorePart
<1>10. CASE StopRequest     BY <1>10 DEF StopRequest, Rejects
<1>11. CASE Fail            BY <1>11 DEF Fail, Ends, Gone, CutHere
<1>12. CASE Crash           BY <1>12 DEF Crash, Ends, Gone, CutHere
<1>13. CASE TakeBaseline    BY <1>13 DEF TakeBaseline, Gone
<1>14. CASE BesideEnds      BY <1>14 DEF BesideEnds
<1>15. CASE CopyBaseline    BY <1>15 DEF CopyBaseline
<1>16. CASE Test0           BY <1>16 DEF Test0, IntoRounds
<1>17. CASE Ideate          BY <1>17 DEF Ideate
<1>18. CASE Solve           BY <1>18 DEF Solve
<1>19. CASE Verify          BY <1>19 DEF Verify
<1>20. CASE Triage          BY <1>20 DEF Triage
<1>21. CASE Review          BY <1>21 DEF Review, Record, Rejects
<1>22. CASE Judge           BY <1>22 DEF Judge, Record
<1>23. CASE Manage          BY <1>23 DEF Manage
<1>24. CASE Repair          BY <1>24 DEF Repair
<1>25. CASE KeepTakes       BY <1>25 DEF KeepTakes
<1>26. CASE Restore         BY <1>26 DEF Restore
<1>27. CASE FinalCheck      BY <1>27 DEF FinalCheck
<1>28. CASE Audit           BY <1>28 DEF Audit, Gone
<1>29. CASE StopExit        BY <1>29 DEF StopExit, Ends, Gone, CutHere
<1>30. CASE UNCHANGED vars  BY <1>30 DEF vars, Rejects
<1> QED
  BY <1>1, <1>2, <1>3, <1>4, <1>5, <1>6, <1>7, <1>8, <1>9, <1>10, <1>11, <1>12, <1>13, <1>14,
     <1>15, <1>16, <1>17, <1>18, <1>19, <1>20, <1>21, <1>22, <1>23, <1>24, <1>25, <1>26, <1>27,
     <1>28, <1>29, <1>30
  DEF Next, Step, Environment

\* The baseline is taken before, or right after, the plan is settled, and stays.
LEMMA BaselineFixedStep ==
    TypeOK /\ Lively /\ OnMeasured /\ BaselineFixed /\ [Next]_vars => BaselineFixed'
<1> SUFFICES ASSUME TypeOK, Lively, OnMeasured, BaselineFixed, [Next]_vars PROVE BaselineFixed'
    OBVIOUS
<1> USE DEF TypeOK, BaselineFixed, Phases, Configs, SavedNames, local, ledger, disk, history
<1>1. CASE Start            BY <1>1 DEF Start, Enter
<1>2. CASE Resume           BY <1>2 DEF Resume, Reopen, Enter
<1>3. CASE ResumeSolved     BY <1>3 DEF ResumeSolved, Reopen, Enter
<1>4. CASE OperatorEdits    BY <1>4 DEF OperatorEdits
<1>5. CASE StopDead         BY <1>5 DEF StopDead
<1>6. CASE DirectEdits      BY <1>6 DEF DirectEdits, Edits
<1>7. CASE SolveEdits       BY <1>7 DEF SolveEdits, Edits
<1>8. CASE RepairEdits      BY <1>8 DEF RepairEdits, Edits
<1>9. CASE RestorePart      BY <1>9 DEF RestorePart
<1>10. CASE StopRequest     BY <1>10 DEF StopRequest
<1>11. CASE Fail            BY <1>11 DEF Fail, Ends, Gone, CutHere
<1>12. CASE Crash           BY <1>12 DEF Crash, Ends, Gone, CutHere
<1>13. CASE TakeBaseline    BY <1>13 DEF TakeBaseline, Gone, NothingToDo
<1>14. CASE BesideEnds      BY <1>14 DEF BesideEnds
<1>15. CASE CopyBaseline    BY <1>15 DEF CopyBaseline
<1>16. CASE Test0           BY <1>16 DEF Test0, IntoRounds
<1>17. CASE Ideate          BY <1>17 DEF Ideate
<1>18. CASE Solve           BY <1>18 DEF Solve
<1>19. CASE Verify          BY <1>19 DEF Verify
<1>20. CASE Triage          BY <1>20 DEF Triage
<1>21. CASE Review          BY <1>21 DEF Review, Record
<1>22. CASE Judge           BY <1>22 DEF Judge, Record
<1>23. CASE Manage          BY <1>23 DEF Manage
<1>24. CASE Repair          BY <1>24 DEF Repair
<1>25. CASE KeepTakes       BY <1>25 DEF KeepTakes, SetAside
<1>26. CASE Restore         BY <1>26 DEF Restore
<1>27. CASE FinalCheck      BY <1>27 DEF FinalCheck
<1>28. CASE Audit           BY <1>28 DEF Audit, Gone
<1>29. CASE StopExit        BY <1>29 DEF StopExit, Ends, Gone, CutHere
<1>30. CASE UNCHANGED vars  BY <1>30 DEF vars
<1> QED
  BY <1>1, <1>2, <1>3, <1>4, <1>5, <1>6, <1>7, <1>8, <1>9, <1>10, <1>11, <1>12, <1>13, <1>14,
     <1>15, <1>16, <1>17, <1>18, <1>19, <1>20, <1>21, <1>22, <1>23, <1>24, <1>25, <1>26, <1>27,
     <1>28, <1>29, <1>30
  DEF Next, Step, Environment

\* A repair's edits end in repaired = TRUE or in an interruption that cut remembers.
LEMMA RepairSeenStep == TypeOK /\ RepairSeen /\ [Next]_vars => RepairSeen'
<1> SUFFICES ASSUME TypeOK, RepairSeen, [Next]_vars PROVE RepairSeen'
    OBVIOUS
<1> USE DEF RepairSeen, Phases, local, ledger, disk, history
<1>1. CASE Start            BY <1>1 DEF Start, Enter
<1>2. CASE Resume           BY <1>2 DEF Resume, Reopen, Enter
<1>3. CASE ResumeSolved
  <2>1. UNCHANGED <<repaired, touched>> /\ pc = "off"
    BY <1>3 DEF ResumeSolved, Reopen
  <2>2. cut \subseteq cut'
    BY <1>3 DEF ResumeSolved, Reopen
  <2> QED
    BY <2>1, <2>2
<1>4. CASE OperatorEdits    BY <1>4 DEF OperatorEdits
<1>5. CASE StopDead         BY <1>5 DEF StopDead
<1>6. CASE DirectEdits      BY <1>6 DEF DirectEdits, Edits
<1>7. CASE SolveEdits       BY <1>7 DEF SolveEdits, Edits
<1>8. CASE RepairEdits      BY <1>8 DEF RepairEdits, Edits
<1>9. CASE RestorePart      BY <1>9 DEF RestorePart
<1>10. CASE StopRequest     BY <1>10 DEF StopRequest
<1>11. CASE Fail            BY <1>11 DEF Fail, Ends, Gone, CutHere
<1>12. CASE Crash           BY <1>12 DEF Crash, Ends, Gone, CutHere
<1>13. CASE TakeBaseline    BY <1>13 DEF TakeBaseline, Gone
<1>14. CASE BesideEnds      BY <1>14 DEF BesideEnds
<1>15. CASE CopyBaseline    BY <1>15 DEF CopyBaseline
<1>16. CASE Test0           BY <1>16 DEF Test0, IntoRounds
<1>17. CASE Ideate          BY <1>17 DEF Ideate
<1>18. CASE Solve           BY <1>18 DEF Solve
<1>19. CASE Verify          BY <1>19 DEF Verify
<1>20. CASE Triage          BY <1>20 DEF Triage
<1>21. CASE Review          BY <1>21 DEF Review, Record
<1>22. CASE Judge           BY <1>22 DEF Judge, Record
<1>23. CASE Manage          BY <1>23 DEF Manage
<1>24. CASE Repair          BY <1>24 DEF Repair
<1>25. CASE KeepTakes       BY <1>25 DEF KeepTakes
<1>26. CASE Restore         BY <1>26 DEF Restore
<1>27. CASE FinalCheck      BY <1>27 DEF FinalCheck
<1>28. CASE Audit           BY <1>28 DEF Audit, Gone
<1>29. CASE StopExit        BY <1>29 DEF StopExit, Ends, Gone, CutHere
<1>30. CASE UNCHANGED vars  BY <1>30 DEF vars
<1> QED
  BY <1>1, <1>2, <1>3, <1>4, <1>5, <1>6, <1>7, <1>8, <1>9, <1>10, <1>11, <1>12, <1>13, <1>14,
     <1>15, <1>16, <1>17, <1>18, <1>19, <1>20, <1>21, <1>22, <1>23, <1>24, <1>25, <1>26, <1>27,
     <1>28, <1>29, <1>30
  DEF Next, Step, Environment

\* execute() saves the accepted tree in the step that sets accepted_now.
LEMMA AcceptedSavedStep == TypeOK /\ KeepDecides /\ AcceptedSaved /\ [Next]_vars => AcceptedSaved'
<1> SUFFICES ASSUME TypeOK, KeepDecides, AcceptedSaved, [Next]_vars PROVE AcceptedSaved'
    OBVIOUS
<1> USE TreesAssumption DEF TypeOK, AcceptedSaved, Phases, SavedNames, KeptAccepted, local, ledger, disk, history
<1>1. CASE Start            BY <1>1 DEF Start, Enter
<1>2. CASE Resume           BY <1>2 DEF Resume, Reopen, Enter
<1>3. CASE ResumeSolved     BY <1>3 DEF ResumeSolved, Reopen, Enter
<1>4. CASE OperatorEdits    BY <1>4 DEF OperatorEdits
<1>5. CASE StopDead         BY <1>5 DEF StopDead
<1>6. CASE DirectEdits      BY <1>6 DEF DirectEdits, Edits
<1>7. CASE SolveEdits       BY <1>7 DEF SolveEdits, Edits
<1>8. CASE RepairEdits      BY <1>8 DEF RepairEdits, Edits
<1>9. CASE RestorePart      BY <1>9 DEF RestorePart
<1>10. CASE StopRequest     BY <1>10 DEF StopRequest
<1>11. CASE Fail            BY <1>11 DEF Fail, Ends, Gone, CutHere
<1>12. CASE Crash           BY <1>12 DEF Crash, Ends, Gone, CutHere
<1>13. CASE TakeBaseline    BY <1>13 DEF TakeBaseline, Gone
<1>14. CASE BesideEnds      BY <1>14 DEF BesideEnds
<1>15. CASE CopyBaseline    BY <1>15 DEF CopyBaseline
<1>16. CASE Test0           BY <1>16 DEF Test0, IntoRounds
<1>17. CASE Ideate          BY <1>17 DEF Ideate
<1>18. CASE Solve           BY <1>18 DEF Solve
<1>19. CASE Verify          BY <1>19 DEF Verify
<1>20. CASE Triage          BY <1>20 DEF Triage
<1>21. CASE Review          BY <1>21 DEF Review, Record
<1>22. CASE Judge           BY <1>22 DEF Judge, Record
<1>23. CASE Manage          BY <1>23 DEF Manage
<1>24. CASE Repair          BY <1>24 DEF Repair
<1>25. CASE KeepTakes       BY <1>25 DEF KeepTakes, SetAside, KeepNet, PutBack
<1>26. CASE Restore         BY <1>26 DEF Restore, KeepNet, PutBack, KeepDecides
<1>27. CASE FinalCheck      BY <1>27 DEF FinalCheck
<1>28. CASE Audit           BY <1>28 DEF Audit, Gone
<1>29. CASE StopExit        BY <1>29 DEF StopExit, Ends, Gone, CutHere
<1>30. CASE UNCHANGED vars  BY <1>30 DEF vars
<1> QED
  BY <1>1, <1>2, <1>3, <1>4, <1>5, <1>6, <1>7, <1>8, <1>9, <1>10, <1>11, <1>12, <1>13, <1>14,
     <1>15, <1>16, <1>17, <1>18, <1>19, <1>20, <1>21, <1>22, <1>23, <1>24, <1>25, <1>26, <1>27,
     <1>28, <1>29, <1>30
  DEF Next, Step, Environment

\* Only a repair writes after an accepted round, and it keeps where it started.
LEMMA OnAcceptedStep == TypeOK /\ OnMeasured /\ OnAccepted /\ [Next]_vars => OnAccepted'
<1> SUFFICES ASSUME TypeOK, OnMeasured, OnAccepted, [Next]_vars PROVE OnAccepted'
    OBVIOUS
<1> USE DEF TypeOK, OnAccepted, Phases, SavedNames, local, ledger, disk, history
<1>1. CASE Start            BY <1>1 DEF Start, Enter
<1>2. CASE Resume           BY <1>2 DEF Resume, Reopen, Enter
<1>3. CASE ResumeSolved     BY <1>3 DEF ResumeSolved, Reopen, Enter
<1>4. CASE OperatorEdits    BY <1>4 DEF OperatorEdits
<1>5. CASE StopDead         BY <1>5 DEF StopDead
<1>6. CASE DirectEdits      BY <1>6 DEF DirectEdits, Edits
<1>7. CASE SolveEdits       BY <1>7 DEF SolveEdits, Edits
<1>8. CASE RepairEdits      BY <1>8 DEF RepairEdits, Edits
<1>9. CASE RestorePart      BY <1>9 DEF RestorePart
<1>10. CASE StopRequest     BY <1>10 DEF StopRequest
<1>11. CASE Fail            BY <1>11 DEF Fail, Ends, Gone, CutHere
<1>12. CASE Crash           BY <1>12 DEF Crash, Ends, Gone, CutHere
<1>13. CASE TakeBaseline    BY <1>13 DEF TakeBaseline, Gone
<1>14. CASE BesideEnds      BY <1>14 DEF BesideEnds
<1>15. CASE CopyBaseline    BY <1>15 DEF CopyBaseline
<1>16. CASE Test0           BY <1>16 DEF Test0, IntoRounds
<1>17. CASE Ideate          BY <1>17 DEF Ideate
<1>18. CASE Solve           BY <1>18 DEF Solve
<1>19. CASE Verify          BY <1>19 DEF Verify
<1>20. CASE Triage          BY <1>20 DEF Triage
<1>21. CASE Review          BY <1>21 DEF Review, Record
<1>22. CASE Judge           BY <1>22 DEF Judge, Record
<1>23. CASE Manage          BY <1>23 DEF Manage
<1>24. CASE Repair          BY <1>24 DEF Repair
<1>25. CASE KeepTakes       BY <1>25 DEF KeepTakes, SetAside
<1>26. CASE Restore         BY <1>26 DEF Restore
<1>27. CASE FinalCheck      BY <1>27 DEF FinalCheck
<1>28. CASE Audit           BY <1>28 DEF Audit, Gone
<1>29. CASE StopExit        BY <1>29 DEF StopExit, Ends, Gone, CutHere
<1>30. CASE UNCHANGED vars  BY <1>30 DEF vars
<1> QED
  BY <1>1, <1>2, <1>3, <1>4, <1>5, <1>6, <1>7, <1>8, <1>9, <1>10, <1>11, <1>12, <1>13, <1>14,
     <1>15, <1>16, <1>17, <1>18, <1>19, <1>20, <1>21, <1>22, <1>23, <1>24, <1>25, <1>26, <1>27,
     <1>28, <1>29, <1>30
  DEF Next, Step, Environment

\* The keep net leaves the accepted tree: it was there, or restore has written it.  A
\* repair that changes nothing leaves it too, which is where OnAccepted is needed.
LEMMA KeepDecidesStep ==
    TypeOK /\ Lively /\ OnAccepted /\ AcceptedSaved /\ KeepDecides /\ [Next]_vars => KeepDecides'
<1> SUFFICES ASSUME TypeOK, Lively, OnAccepted, AcceptedSaved, KeepDecides, [Next]_vars
             PROVE  KeepDecides'
    OBVIOUS
<1> USE DEF TypeOK, KeepDecides, Phases, SavedNames, local, ledger, disk, history
<1>1. CASE Start            BY <1>1 DEF Start, Enter, Lively
<1>2. CASE Resume           BY <1>2 DEF Resume, Reopen, Enter
<1>3. CASE ResumeSolved     BY <1>3 DEF ResumeSolved, Reopen, Enter
<1>4. CASE OperatorEdits    BY <1>4 DEF OperatorEdits
<1>5. CASE StopDead         BY <1>5 DEF StopDead
<1>6. CASE DirectEdits      BY <1>6 DEF DirectEdits, Edits
<1>7. CASE SolveEdits       BY <1>7 DEF SolveEdits, Edits
<1>8. CASE RepairEdits      BY <1>8 DEF RepairEdits, Edits
<1>9. CASE RestorePart      BY <1>9 DEF RestorePart, KeepNet, PutBack
<1>10. CASE StopRequest     BY <1>10 DEF StopRequest, KeepNet, PutBack
<1>11. CASE Fail            BY <1>11 DEF Fail, Ends, Gone, CutHere
<1>12. CASE Crash           BY <1>12 DEF Crash, Ends, Gone, CutHere
<1>13. CASE TakeBaseline    BY <1>13 DEF TakeBaseline, Gone
<1>14. CASE BesideEnds      BY <1>14 DEF BesideEnds
<1>15. CASE CopyBaseline    BY <1>15 DEF CopyBaseline
<1>16. CASE Test0           BY <1>16 DEF Test0, IntoRounds
<1>17. CASE Ideate          BY <1>17 DEF Ideate
<1>18. CASE Solve           BY <1>18 DEF Solve
<1>19. CASE Verify          BY <1>19 DEF Verify
<1>20. CASE Triage          BY <1>20 DEF Triage
<1>21. CASE Review          BY <1>21 DEF Review, Record
<1>22. CASE Judge           BY <1>22 DEF Judge, Record
<1>23. CASE Manage          BY <1>23 DEF Manage
<1>24. CASE Repair          BY <1>24 DEF Repair
<1>25. CASE KeepTakes       BY <1>25 DEF KeepTakes, SetAside, KeepNet, PutBack, OnAccepted
<1>26. CASE Restore         BY <1>26 DEF Restore, KeepNet, PutBack, Target
<1>27. CASE FinalCheck      BY <1>27 DEF FinalCheck
<1>28. CASE Audit           BY <1>28 DEF Audit, Gone
<1>29. CASE StopExit        BY <1>29 DEF StopExit, Ends, Gone, CutHere
<1>30. CASE UNCHANGED vars  BY <1>30 DEF vars, KeepNet, PutBack
<1> QED
  BY <1>1, <1>2, <1>3, <1>4, <1>5, <1>6, <1>7, <1>8, <1>9, <1>10, <1>11, <1>12, <1>13, <1>14,
     <1>15, <1>16, <1>17, <1>18, <1>19, <1>20, <1>21, <1>22, <1>23, <1>24, <1>25, <1>26, <1>27,
     <1>28, <1>29, <1>30
  DEF Next, Step, Environment

\* The tree saved as accepted is the measured one, and the verdict was an acceptance.
LEMMA AcceptedStep ==
    TypeOK /\ OnMeasured /\ RoundBegun /\ AcceptedWasProven /\ [Next]_vars => AcceptedWasProven'
<1> SUFFICES ASSUME TypeOK, OnMeasured, RoundBegun, AcceptedWasProven, [Next]_vars
             PROVE  AcceptedWasProven'
    OBVIOUS
<1> USE DEF TypeOK, AcceptedWasProven, Phases, SavedNames, local, ledger, disk, history
<1>1. CASE Start            BY <1>1 DEF Start, Enter
<1>2. CASE Resume           BY <1>2 DEF Resume, Reopen, Enter
<1>3. CASE ResumeSolved     BY <1>3 DEF ResumeSolved, Reopen, Enter
<1>4. CASE OperatorEdits    BY <1>4 DEF OperatorEdits
<1>5. CASE StopDead         BY <1>5 DEF StopDead
<1>6. CASE DirectEdits      BY <1>6 DEF DirectEdits, Edits
<1>7. CASE SolveEdits       BY <1>7 DEF SolveEdits, Edits
<1>8. CASE RepairEdits      BY <1>8 DEF RepairEdits, Edits
<1>9. CASE RestorePart      BY <1>9 DEF RestorePart
<1>10. CASE StopRequest     BY <1>10 DEF StopRequest
<1>11. CASE Fail            BY <1>11 DEF Fail, Ends, Gone, CutHere
<1>12. CASE Crash           BY <1>12 DEF Crash, Ends, Gone, CutHere
<1>13. CASE TakeBaseline    BY <1>13 DEF TakeBaseline, Gone
<1>14. CASE BesideEnds      BY <1>14 DEF BesideEnds
<1>15. CASE CopyBaseline    BY <1>15 DEF CopyBaseline
<1>16. CASE Test0           BY <1>16 DEF Test0, IntoRounds
<1>17. CASE Ideate          BY <1>17 DEF Ideate
<1>18. CASE Solve           BY <1>18 DEF Solve
<1>19. CASE Verify          BY <1>19 DEF Verify
<1>20. CASE Triage          BY <1>20 DEF Triage
<1>21. CASE Review          BY <1>21 DEF Review, Record, Rejects, AcceptsUnjudged, OnMeasured
<1>22. CASE Judge           BY <1>22 DEF Judge, Record, JudgeAccepts, Rejects, OnMeasured, Verdict
<1>23. CASE Manage          BY <1>23 DEF Manage
<1>24. CASE Repair          BY <1>24 DEF Repair
<1>25. CASE KeepTakes       BY <1>25 DEF KeepTakes, SetAside
<1>26. CASE Restore         BY <1>26 DEF Restore
<1>27. CASE FinalCheck      BY <1>27 DEF FinalCheck
<1>28. CASE Audit           BY <1>28 DEF Audit, Gone
<1>29. CASE StopExit        BY <1>29 DEF StopExit, Ends, Gone, CutHere
<1>30. CASE UNCHANGED vars  BY <1>30 DEF vars
<1> QED
  BY <1>1, <1>2, <1>3, <1>4, <1>5, <1>6, <1>7, <1>8, <1>9, <1>10, <1>11, <1>12, <1>13, <1>14,
     <1>15, <1>16, <1>17, <1>18, <1>19, <1>20, <1>21, <1>22, <1>23, <1>24, <1>25, <1>26, <1>27,
     <1>28, <1>29, <1>30
  DEF Next, Step, Environment

\* The judge is left out by AcceptsUnjudged alone, and the baseline it read stays.
LEMMA JudgeStep ==
    TypeOK /\ RepairSeen /\ BaselineFixed /\ JudgeLeftOutSoundly /\ [Next]_vars => JudgeLeftOutSoundly'
<1> SUFFICES ASSUME TypeOK, RepairSeen, BaselineFixed, JudgeLeftOutSoundly, [Next]_vars
             PROVE  JudgeLeftOutSoundly'
    OBVIOUS
<1> USE DEF TypeOK, BaselineFixed, JudgeLeftOutSoundly, Phases, SavedNames, Uninformative, local, ledger, disk, history
<1>1. CASE Start            BY <1>1 DEF Start, Enter
<1>2. CASE Resume           BY <1>2 DEF Resume, Reopen, Enter
<1>3. CASE ResumeSolved     BY <1>3 DEF ResumeSolved, Reopen, Enter
<1>4. CASE OperatorEdits    BY <1>4 DEF OperatorEdits
<1>5. CASE StopDead         BY <1>5 DEF StopDead
<1>6. CASE DirectEdits      BY <1>6 DEF DirectEdits, Edits
<1>7. CASE SolveEdits       BY <1>7 DEF SolveEdits, Edits
<1>8. CASE RepairEdits      BY <1>8 DEF RepairEdits, Edits
<1>9. CASE RestorePart      BY <1>9 DEF RestorePart
<1>10. CASE StopRequest     BY <1>10 DEF StopRequest
<1>11. CASE Fail            BY <1>11 DEF Fail, Ends, Gone, CutHere
<1>12. CASE Crash           BY <1>12 DEF Crash, Ends, Gone, CutHere
<1>13. CASE TakeBaseline    BY <1>13 DEF TakeBaseline, Gone
<1>14. CASE BesideEnds      BY <1>14 DEF BesideEnds
<1>15. CASE CopyBaseline    BY <1>15 DEF CopyBaseline
<1>16. CASE Test0           BY <1>16 DEF Test0, IntoRounds
<1>17. CASE Ideate          BY <1>17 DEF Ideate
<1>18. CASE Solve           BY <1>18 DEF Solve
<1>19. CASE Verify          BY <1>19 DEF Verify
<1>20. CASE Triage          BY <1>20 DEF Triage
<1>21. CASE Review          BY <1>21 DEF Review, Record, Rejects, AcceptsUnjudged, RepairSeen
<1>22. CASE Judge           BY <1>22 DEF Judge, Record, Verdict
<1>23. CASE Manage          BY <1>23 DEF Manage
<1>24. CASE Repair          BY <1>24 DEF Repair
<1>25. CASE KeepTakes       BY <1>25 DEF KeepTakes, SetAside
<1>26. CASE Restore         BY <1>26 DEF Restore
<1>27. CASE FinalCheck      BY <1>27 DEF FinalCheck
<1>28. CASE Audit           BY <1>28 DEF Audit, Gone
<1>29. CASE StopExit        BY <1>29 DEF StopExit, Ends, Gone, CutHere
<1>30. CASE UNCHANGED vars  BY <1>30 DEF vars
<1> QED
  BY <1>1, <1>2, <1>3, <1>4, <1>5, <1>6, <1>7, <1>8, <1>9, <1>10, <1>11, <1>12, <1>13, <1>14,
     <1>15, <1>16, <1>17, <1>18, <1>19, <1>20, <1>21, <1>22, <1>23, <1>24, <1>25, <1>26, <1>27,
     <1>28, <1>29, <1>30
  DEF Next, Step, Environment

\* Only the audit and a passing baseline write solved; a failing recheck reopens the run.
LEMMA SolvedStep ==
    TypeOK /\ Lively /\ AcceptedSaved /\ BaselineFixed /\ SolvedWasAccepted /\ [Next]_vars => SolvedWasAccepted'
<1> SUFFICES ASSUME TypeOK, Lively, AcceptedSaved, BaselineFixed, SolvedWasAccepted, [Next]_vars
             PROVE  SolvedWasAccepted'
    OBVIOUS
<1> USE DEF TypeOK, Lively, SolvedWasAccepted, Phases, SavedNames, NothingToDo, local, ledger, disk, history
<1>1. CASE Start            BY <1>1 DEF Start, Enter
<1>2. CASE Resume           BY <1>2 DEF Resume, Reopen, Enter
<1>3. CASE ResumeSolved     BY <1>3 DEF ResumeSolved, Reopen, Enter
<1>4. CASE OperatorEdits    BY <1>4 DEF OperatorEdits
<1>5. CASE StopDead         BY <1>5 DEF StopDead
<1>6. CASE DirectEdits      BY <1>6 DEF DirectEdits, Edits
<1>7. CASE SolveEdits       BY <1>7 DEF SolveEdits, Edits
<1>8. CASE RepairEdits      BY <1>8 DEF RepairEdits, Edits
<1>9. CASE RestorePart      BY <1>9 DEF RestorePart
<1>10. CASE StopRequest     BY <1>10 DEF StopRequest
<1>11. CASE Fail            BY <1>11 DEF Fail, Ends, Gone, CutHere
<1>12. CASE Crash           BY <1>12 DEF Crash, Ends, Gone, CutHere
<1>13. CASE TakeBaseline    BY <1>13 DEF TakeBaseline, Gone
<1>14. CASE BesideEnds      BY <1>14 DEF BesideEnds
<1>15. CASE CopyBaseline    BY <1>15 DEF CopyBaseline
<1>16. CASE Test0           BY <1>16 DEF Test0, IntoRounds
<1>17. CASE Ideate          BY <1>17 DEF Ideate
<1>18. CASE Solve           BY <1>18 DEF Solve
<1>19. CASE Verify          BY <1>19 DEF Verify
<1>20. CASE Triage          BY <1>20 DEF Triage
<1>21. CASE Review          BY <1>21 DEF Review, Record
<1>22. CASE Judge           BY <1>22 DEF Judge, Record
<1>23. CASE Manage          BY <1>23 DEF Manage
<1>24. CASE Repair          BY <1>24 DEF Repair
<1>25. CASE KeepTakes       BY <1>25 DEF KeepTakes, SetAside
<1>26. CASE Restore         BY <1>26 DEF Restore
<1>27. CASE FinalCheck      BY <1>27 DEF FinalCheck
<1>28. CASE Audit           BY <1>28 DEF Audit, Gone, SolvedVerdict, AcceptedSaved
<1>29. CASE StopExit        BY <1>29 DEF StopExit, Ends, Gone, CutHere
<1>30. CASE UNCHANGED vars  BY <1>30 DEF vars
<1> QED
  BY <1>1, <1>2, <1>3, <1>4, <1>5, <1>6, <1>7, <1>8, <1>9, <1>10, <1>11, <1>12, <1>13, <1>14,
     <1>15, <1>16, <1>17, <1>18, <1>19, <1>20, <1>21, <1>22, <1>23, <1>24, <1>25, <1>26, <1>27,
     <1>28, <1>29, <1>30
  DEF Next, Step, Environment

-----------------------------------------------------------------------------
(* The invariant holds of every run *)

\* A run as cmd_run creates it satisfies every part.
LEMMA InitIInv == Init => IInv
<1> SUFFICES ASSUME Init PROVE IInv
    OBVIOUS
<1> USE DEF Init
<1>1. TypeOK
  <2>1. proof \in [tree : Trees \cup {NoTree}, check : CheckStatus, review : Verdict,
                  judge : Verdict \cup {"skipped"}, unseen : BOOLEAN]
    BY DEF NoProof, CheckStatus, Verdict
  <2>2. saved \in [SavedNames -> Trees \cup {NoTree}] /\ done \subseteq Writers
    OBVIOUS
  <2>3. round \in 0..MaxRounds /\ resumes \in 0..MaxResumes
    BY RoundsAssumption, ResumesAssumption
  <2>4. before \in Trees /\ ws \in Trees /\ review \in Verdict /\ measured \in Trees \cup {NoTree}
    BY TreesAssumption DEF Verdict
  <2> QED
    BY <2>1, <2>2, <2>3, <2>4 DEF TypeOK
<1>2. RoundBegun /\ Lively /\ OnMeasured /\ RepairSeen /\ AcceptedSaved /\ OnAccepted
  BY DEF RoundBegun, Lively, OnMeasured, RepairSeen, AcceptedSaved, OnAccepted, SavedNames,
         KeptAccepted
<1>3. BaselineFixed /\ KeepDecides
  BY DEF BaselineFixed, KeepDecides, SavedNames
<1>4. AcceptedWasProven /\ JudgeLeftOutSoundly /\ SolvedWasAccepted
  BY DEF AcceptedWasProven, JudgeLeftOutSoundly, SolvedWasAccepted, SavedNames
<1> QED
  BY <1>1, <1>2, <1>3, <1>4 DEF IInv

\* Every step of a run, its children, the operator and the machine keeps the invariant.
LEMMA NextIInv == IInv /\ [Next]_vars => IInv'
<1> SUFFICES ASSUME IInv, [Next]_vars PROVE IInv'
    OBVIOUS
<1>1. TypeOK' /\ RoundBegun' /\ Lively' /\ OnMeasured'
  BY TypeStep, RoundBegunStep, LivelyStep, OnMeasuredStep DEF IInv
<1>2. BaselineFixed' /\ RepairSeen' /\ AcceptedSaved' /\ OnAccepted' /\ KeepDecides'
  BY BaselineFixedStep, RepairSeenStep, AcceptedSavedStep, OnAcceptedStep, KeepDecidesStep
  DEF IInv
<1>3. AcceptedWasProven' /\ JudgeLeftOutSoundly' /\ SolvedWasAccepted'
  BY AcceptedStep, JudgeStep, SolvedStep DEF IInv
<1> QED
  BY <1>1, <1>2, <1>3 DEF IInv

\* The invariant is true in every reachable state.
THEOREM Invariance == Spec => []IInv
  BY InitIInv, NextIInv, PTL DEF Spec

\* Every variable keeps its type: no phase reads a tree that was never saved.
THEOREM TypeCorrect == Spec => []TypeOK
<1>1. IInv => TypeOK
  BY DEF IInv
<1> QED
  BY <1>1, Invariance, PTL

\* What refs/accepted names was checked, was not rejected, and is a change.
THEOREM AcceptedProven == Spec => []AcceptedWasProven
<1>1. IInv => AcceptedWasProven
  BY DEF IInv
<1> QED
  BY <1>1, Invariance, PTL

\* The judge is skipped only where the check and the review settle the round.
THEOREM JudgeSound == Spec => []JudgeLeftOutSoundly
<1>1. IInv => JudgeLeftOutSoundly
  BY DEF IInv
<1> QED
  BY <1>1, Invariance, PTL

\* A solved run has accepted work whose last check did not fail, or had nothing to do.
THEOREM SolvedAccepted == Spec => []SolvedWasAccepted
<1>1. IInv => SolvedWasAccepted
  BY DEF IInv
<1> QED
  BY <1>1, Invariance, PTL

-----------------------------------------------------------------------------
(* What a step may never do *)

\* The audit closes the run on the accepted tree, and never says solved without one.
THEOREM BestProven == Spec => EndsOnBestProven
<1>1. IInv /\ [Next]_vars =>
        [Audit /\ "keep" \notin cut =>
           /\ saved["accepted"] # NoTree => ws = saved["accepted"]
           /\ status' = "solved" => saved["accepted"] # NoTree]_vars
  BY DEF IInv, KeepDecides, AcceptedSaved, Audit, SolvedVerdict
<1> QED
  BY <1>1, Invariance, PTL DEF Spec, EndsOnBestProven

\* The manager's DONE never ends the rounds on work that is not accepted.
THEOREM OnlyAcceptedEnds == Spec => OnlyAcceptedEndsEarly
<1>1. IInv /\ [Next]_vars =>
        [pc' = "keep" /\ pc # "keep" /\ ~acceptedNow =>
           (pc = "manage" /\ round = MaxRounds) \/ (pc = "repair" /\ ws = before /\ ~config.improve)]_vars
  <2> SUFFICES ASSUME TypeOK, [Next]_vars, pc' = "keep", pc # "keep", ~acceptedNow
               PROVE  (pc = "manage" /\ round = MaxRounds) \/ (pc = "repair" /\ ws = before /\ ~config.improve)
    BY DEF IInv, vars
  <2>1. Manage \/ Repair
    BY DEF Next, Step, Environment, vars, local, Start, Resume, ResumeSolved, Reopen, Enter,
           OperatorEdits, StopDead, DirectEdits, SolveEdits, RepairEdits, RestorePart,
           StopRequest, Fail, Crash, StopExit, Ends, Gone, TakeBaseline, BesideEnds,
           CopyBaseline, Test0, IntoRounds, Ideate, Solve, Verify, Triage, Review, Judge,
           Record, KeepTakes, Restore, FinalCheck, Audit
  <2>2. CASE Manage
    BY <2>2, RoundsAssumption DEF Manage, EndsAccepted, TypeOK
  <2>3. CASE Repair
    BY <2>3 DEF Repair
  <2> QED
    BY <2>1, <2>2, <2>3
<1> QED
  BY <1>1, Invariance, PTL DEF Spec, OnlyAcceptedEndsEarly

-----------------------------------------------------------------------------
(* What the keep net may lose in a run that is not resumed *)

\* The workspace is the one that was checked until a repair has edited it.
MeasuredStays ==
    /\ pc \in {"manage", "keep"} => measured = ws
    /\ pc = "repair" => before = measured
    /\ pc = "restore" => saved["team"] = measured

\* The direct attempt is saved by test-0, and when it passed it is the work until a repair.
DirectKept ==
    /\ directPassed # "unset" => saved["direct"] # NoTree
    /\ status = "created" => directPassed = "unset"
    /\ pc \notin {"off", "baseline", "beside", "copy", "test0"} => directPassed # "unset"
    /\ pc \in {"baseline", "beside", "copy", "test0"} /\ resumes = 0 => directPassed = "unset"
    /\ pc \in {"ideate", "solve"} /\ resumes = 0 => directPassed # "yes"
    /\ pc \notin {"off", "repair", "restore", "final", "audit"} /\ resumes = 0
         /\ directPassed = "yes" /\ ~repaired => ws = saved["direct"]

\* What the keep net has decided is what the audit finds.
NetKept ==
    pc \in {"final", "audit"} /\ resumes = 0 =>
        /\ saved["accepted"] = NoTree /\ kind = "command" => ws = saved["direct"] \/ keep = "passing"
        /\ keep \in PutBack => saved["team"] = measured /\ ws = saved[Target(keep)]

\* Nothing edits the workspace between the check of a round and the keep net.
LEMMA MeasuredStaysStep ==
    TypeOK /\ OnMeasured /\ MeasuredStays /\ [Next]_vars => MeasuredStays'
<1> SUFFICES ASSUME TypeOK, OnMeasured, MeasuredStays, [Next]_vars
             PROVE  MeasuredStays'
    OBVIOUS
<1> USE DEF TypeOK, MeasuredStays, Phases, SavedNames, local, ledger, disk, history
<1>1. CASE Start            BY <1>1 DEF Start, Enter
<1>2. CASE Resume           BY <1>2 DEF Resume, Reopen, Enter
<1>3. CASE ResumeSolved     BY <1>3 DEF ResumeSolved, Reopen, Enter
<1>4. CASE OperatorEdits    BY <1>4 DEF OperatorEdits
<1>5. CASE StopDead         BY <1>5 DEF StopDead
<1>6. CASE DirectEdits      BY <1>6 DEF DirectEdits, Edits
<1>7. CASE SolveEdits       BY <1>7 DEF SolveEdits, Edits
<1>8. CASE RepairEdits      BY <1>8 DEF RepairEdits, Edits
<1>9. CASE RestorePart      BY <1>9 DEF RestorePart
<1>10. CASE StopRequest     BY <1>10 DEF StopRequest
<1>11. CASE Fail            BY <1>11 DEF Fail, Ends, Gone, CutHere
<1>12. CASE Crash           BY <1>12 DEF Crash, Ends, Gone, CutHere
<1>13. CASE TakeBaseline    BY <1>13 DEF TakeBaseline, Gone
<1>14. CASE BesideEnds      BY <1>14 DEF BesideEnds
<1>15. CASE CopyBaseline    BY <1>15 DEF CopyBaseline
<1>16. CASE Test0           BY <1>16 DEF Test0, IntoRounds
<1>17. CASE Ideate          BY <1>17 DEF Ideate
<1>18. CASE Solve           BY <1>18 DEF Solve
<1>19. CASE Verify          BY <1>19 DEF Verify
<1>20. CASE Triage          BY <1>20 DEF Triage
<1>21. CASE Review          BY <1>21 DEF Review, Record, OnMeasured
<1>22. CASE Judge           BY <1>22 DEF Judge, Record, OnMeasured
<1>23. CASE Manage          BY <1>23 DEF Manage
<1>24. CASE Repair          BY <1>24 DEF Repair
<1>25. CASE KeepTakes       BY <1>25 DEF KeepTakes, SetAside
<1>26. CASE Restore         BY <1>26 DEF Restore
<1>27. CASE FinalCheck      BY <1>27 DEF FinalCheck
<1>28. CASE Audit           BY <1>28 DEF Audit, Gone
<1>29. CASE StopExit        BY <1>29 DEF StopExit, Ends, Gone, CutHere
<1>30. CASE UNCHANGED vars  BY <1>30 DEF vars
<1> QED
  BY <1>1, <1>2, <1>3, <1>4, <1>5, <1>6, <1>7, <1>8, <1>9, <1>10, <1>11, <1>12, <1>13, <1>14,
     <1>15, <1>16, <1>17, <1>18, <1>19, <1>20, <1>21, <1>22, <1>23, <1>24, <1>25, <1>26, <1>27,
     <1>28, <1>29, <1>30
  DEF Next, Step, Environment

\* A direct attempt that passed is followed by the rounds at once.
LEMMA DirectKeptStep ==
    TypeOK /\ Lively /\ DirectKept /\ [Next]_vars => DirectKept'
<1> SUFFICES ASSUME TypeOK, Lively, DirectKept, [Next]_vars
             PROVE  DirectKept'
    OBVIOUS
<1> USE DEF TypeOK, DirectKept, Phases, SavedNames, local, ledger, disk, history
<1>1. CASE Start            BY <1>1 DEF Start, Enter, Lively
<1>2. CASE Resume           BY <1>2 DEF Resume, Reopen, Enter
<1>3. CASE ResumeSolved     BY <1>3 DEF ResumeSolved, Reopen, Enter
<1>4. CASE OperatorEdits    BY <1>4 DEF OperatorEdits
<1>5. CASE StopDead         BY <1>5 DEF StopDead
<1>6. CASE DirectEdits      BY <1>6 DEF DirectEdits, Edits
<1>7. CASE SolveEdits       BY <1>7 DEF SolveEdits, Edits
<1>8. CASE RepairEdits      BY <1>8 DEF RepairEdits, Edits
<1>9. CASE RestorePart      BY <1>9 DEF RestorePart
<1>10. CASE StopRequest     BY <1>10 DEF StopRequest
<1>11. CASE Fail            BY <1>11 DEF Fail, Ends, Gone, CutHere
<1>12. CASE Crash           BY <1>12 DEF Crash, Ends, Gone, CutHere
<1>13. CASE TakeBaseline    BY <1>13 DEF TakeBaseline, Gone
<1>14. CASE BesideEnds      BY <1>14 DEF BesideEnds
<1>15. CASE CopyBaseline    BY <1>15 DEF CopyBaseline
<1>16. CASE Test0
  <2>1. /\ pc = "test0" /\ pc' \in {"verify", "ideate"} 
        /\ pc' = "ideate" => directPassed' # "yes"
        /\ UNCHANGED <<ws, status, resumes, repaired>>
    BY <1>16 DEF Test0, IntoRounds
  <2>2. CASE directPassed = "unset"
    <3>1. directPassed' \in {"yes", "no"} /\ saved'["direct"] = ws
      BY <1>16, <2>2 DEF Test0
    <3> QED
      BY <2>1, <3>1, TreesAssumption DEF Lively
  <2>3. CASE directPassed # "unset"
    BY <1>16, <2>1, <2>3 DEF Test0
  <2> QED
    BY <2>2, <2>3
<1>17. CASE Ideate          BY <1>17 DEF Ideate
<1>18. CASE Solve           BY <1>18 DEF Solve
<1>19. CASE Verify          BY <1>19 DEF Verify
<1>20. CASE Triage          BY <1>20 DEF Triage
<1>21. CASE Review          BY <1>21 DEF Review, Record
<1>22. CASE Judge           BY <1>22 DEF Judge, Record
<1>23. CASE Manage          BY <1>23 DEF Manage
<1>24. CASE Repair          BY <1>24 DEF Repair
<1>25. CASE KeepTakes       BY <1>25 DEF KeepTakes, SetAside
<1>26. CASE Restore         BY <1>26 DEF Restore
<1>27. CASE FinalCheck      BY <1>27 DEF FinalCheck
<1>28. CASE Audit           BY <1>28 DEF Audit, Gone
<1>29. CASE StopExit        BY <1>29 DEF StopExit, Ends, Gone, CutHere
<1>30. CASE UNCHANGED vars  BY <1>30 DEF vars
<1> QED
  BY <1>1, <1>2, <1>3, <1>4, <1>5, <1>6, <1>7, <1>8, <1>9, <1>10, <1>11, <1>12, <1>13, <1>14,
     <1>15, <1>16, <1>17, <1>18, <1>19, <1>20, <1>21, <1>22, <1>23, <1>24, <1>25, <1>26, <1>27,
     <1>28, <1>29, <1>30
  DEF Next, Step, Environment

\* Each thing the keep net can decide.
LEMMA NetKeptStep ==
    TypeOK /\ Lively /\ AcceptedSaved /\ KeepDecides /\ MeasuredStays /\ DirectKept /\ NetKept /\ [Next]_vars => NetKept'
<1> SUFFICES ASSUME TypeOK, Lively, AcceptedSaved, KeepDecides, MeasuredStays, DirectKept, NetKept, [Next]_vars
             PROVE  NetKept'
    OBVIOUS
<1> USE DEF TypeOK, NetKept, Phases, SavedNames, local, ledger, disk, history
<1>1. CASE Start            BY <1>1 DEF Start, Enter
<1>2. CASE Resume           BY <1>2 DEF Resume, Reopen, Enter
<1>3. CASE ResumeSolved     BY <1>3 DEF ResumeSolved, Reopen, Enter
<1>4. CASE OperatorEdits    BY <1>4 DEF OperatorEdits
<1>5. CASE StopDead         BY <1>5 DEF StopDead
<1>6. CASE DirectEdits      BY <1>6 DEF DirectEdits, Edits
<1>7. CASE SolveEdits       BY <1>7 DEF SolveEdits, Edits
<1>8. CASE RepairEdits      BY <1>8 DEF RepairEdits, Edits
<1>9. CASE RestorePart      BY <1>9 DEF RestorePart
<1>10. CASE StopRequest     BY <1>10 DEF StopRequest
<1>11. CASE Fail            BY <1>11 DEF Fail, Ends, Gone, CutHere
<1>12. CASE Crash           BY <1>12 DEF Crash, Ends, Gone, CutHere
<1>13. CASE TakeBaseline    BY <1>13 DEF TakeBaseline, Gone
<1>14. CASE BesideEnds      BY <1>14 DEF BesideEnds
<1>15. CASE CopyBaseline    BY <1>15 DEF CopyBaseline
<1>16. CASE Test0           BY <1>16 DEF Test0, IntoRounds
<1>17. CASE Ideate          BY <1>17 DEF Ideate
<1>18. CASE Solve           BY <1>18 DEF Solve
<1>19. CASE Verify          BY <1>19 DEF Verify
<1>20. CASE Triage          BY <1>20 DEF Triage
<1>21. CASE Review          BY <1>21 DEF Review, Record
<1>22. CASE Judge           BY <1>22 DEF Judge, Record
<1>23. CASE Manage          BY <1>23 DEF Manage
<1>24. CASE Repair          BY <1>24 DEF Repair
<1>25. CASE KeepTakes       BY <1>25 DEF KeepTakes, SetAside, KeepNet, KeptAccepted, PutBack, AcceptedSaved, KeepDecides,
      Lively, DirectKept
<1>26. CASE Restore         BY <1>26 DEF Restore, KeepNet, PutBack, Target, MeasuredStays, AcceptedSaved
<1>27. CASE FinalCheck      BY <1>27 DEF FinalCheck
<1>28. CASE Audit           BY <1>28 DEF Audit, Gone
<1>29. CASE StopExit        BY <1>29 DEF StopExit, Ends, Gone, CutHere
<1>30. CASE UNCHANGED vars  BY <1>30 DEF vars
<1> QED
  BY <1>1, <1>2, <1>3, <1>4, <1>5, <1>6, <1>7, <1>8, <1>9, <1>10, <1>11, <1>12, <1>13, <1>14,
     <1>15, <1>16, <1>17, <1>18, <1>19, <1>20, <1>21, <1>22, <1>23, <1>24, <1>25, <1>26, <1>27,
     <1>28, <1>29, <1>30
  DEF Next, Step, Environment

\* In an uninterrupted run the audit finds the direct attempt or work that passed, and what was
\* set aside is what the last round measured.
THEOREM NetLosesNothing == Spec => KeepNetLosesNothing
<1> DEFINE Net == MeasuredStays /\ DirectKept /\ NetKept
<1>1. Init => Net
  BY DEF Init, MeasuredStays, DirectKept, NetKept
<1>2. IInv /\ Net /\ [Next]_vars => Net'
  BY MeasuredStaysStep, DirectKeptStep, NetKeptStep DEF IInv
<1>3. Net /\ [Next]_vars =>
        [Audit /\ resumes = 0 =>
          /\ saved["accepted"] = NoTree /\ kind = "command" => ws = saved["direct"] \/ keep = "passing"
          /\ keep \in PutBack => saved["team"] = measured /\ ws = saved[Target(keep)]]_vars
  BY DEF NetKept, Audit
<1>4. Spec => []Net
  BY <1>1, <1>2, Invariance, PTL DEF Spec
<1> QED
  BY <1>3, <1>4, PTL DEF Spec, KeepNetLosesNothing

-----------------------------------------------------------------------------
(* A run that is not resumed keeps the promise of ProvenWork *)

\* Each step of the orchestrator is a step of ProvenWork or changes nothing it sees.
LEMMA PromiseStep ==
    ASSUME MaxResumes = 0, IInv, IInv', [Next]_vars
    PROVE  [Promise!Next]_Promise!vars
<1> USE DEF Promise!Next, Promise!vars, local, ledger, disk, history
<1>0. /\ resumes = 0 /\ "keep" \notin cut
      /\ pc # "off" => status = "running"
  BY DEF IInv, TypeOK, Lively
<1> USE <1>0
<1>1. CASE Start            BY <1>1 DEF Start, Enter
<1>2. CASE Resume           BY <1>2 DEF Resume
<1>3. CASE ResumeSolved     BY <1>3 DEF ResumeSolved
<1>4. CASE OperatorEdits    BY <1>4 DEF OperatorEdits
<1>5. CASE StopDead         BY <1>5 DEF StopDead, Promise!Interrupt
<1>6. CASE DirectEdits      BY <1>6 DEF DirectEdits, Edits, Promise!Change
<1>7. CASE SolveEdits       BY <1>7 DEF SolveEdits, Edits, Promise!Change
<1>8. CASE RepairEdits      BY <1>8 DEF RepairEdits, Edits, Promise!Change
<1>9. CASE RestorePart      BY <1>9 DEF RestorePart, Promise!Change
<1>10. CASE StopRequest     BY <1>10 DEF StopRequest
<1>11. CASE Fail            BY <1>11 DEF Fail, Ends, Promise!Interrupt
<1>12. CASE Crash           BY <1>12 DEF Crash, Ends
<1>13. CASE TakeBaseline    BY <1>13 DEF TakeBaseline, Gone, Promise!Solve, IInv, Lively
<1>14. CASE BesideEnds      BY <1>14 DEF BesideEnds
<1>15. CASE CopyBaseline    BY <1>15 DEF CopyBaseline
<1>16. CASE Test0           BY <1>16 DEF Test0, IntoRounds, IInv, TypeOK, SavedNames
<1>17. CASE Ideate          BY <1>17 DEF Ideate
<1>18. CASE Solve           BY <1>18 DEF Solve
<1>19. CASE Verify          BY <1>19 DEF Verify
<1>20. CASE Triage          BY <1>20 DEF Triage
<1>21. CASE Review
  BY <1>21, TreesAssumption DEF Review, Record, IInv, OnMeasured, AcceptedWasProven, TypeOK, SavedNames, Promise!Prove
<1>22. CASE Judge
  BY <1>22, TreesAssumption DEF Judge, Record, IInv, OnMeasured, AcceptedWasProven, TypeOK, SavedNames, Promise!Prove
<1>23. CASE Manage          BY <1>23 DEF Manage
<1>24. CASE Repair          BY <1>24 DEF Repair
<1>25. CASE KeepTakes       BY <1>25 DEF KeepTakes, SetAside, IInv, TypeOK, SavedNames
<1>26. CASE Restore         BY <1>26 DEF Restore, IInv, TypeOK, Promise!Change
<1>27. CASE FinalCheck      BY <1>27 DEF FinalCheck
<1>28. CASE Audit
  BY <1>28 DEF Audit, Gone, SolvedVerdict, IInv, KeepDecides, AcceptedSaved, Promise!Solve, Promise!GiveUp
<1>29. CASE StopExit        BY <1>29 DEF StopExit, Ends, Promise!Interrupt
<1>30. CASE UNCHANGED vars  BY <1>30 DEF vars
<1> QED
  BY <1>1, <1>2, <1>3, <1>4, <1>5, <1>6, <1>7, <1>8, <1>9, <1>10, <1>11, <1>12, <1>13, <1>14,
     <1>15, <1>16, <1>17, <1>18, <1>19, <1>20, <1>21, <1>22, <1>23, <1>24, <1>25, <1>26, <1>27,
     <1>28, <1>29, <1>30
  DEF Next, Step, Environment

\* Without a resume the run closes only on the work it last proved, as ProvenWork says:
\* the check, the judge, the keep net and the verdict together keep that promise.
THEOREM PromiseHolds == ASSUME MaxResumes = 0 PROVE Spec => PromiseKept
<1>1. Init => Promise!Init
  BY DEF Init, Promise!Init, SavedNames
<1>2. IInv /\ IInv' /\ [Next]_vars => [Promise!Next]_Promise!vars
  BY PromiseStep
<1> QED
  BY <1>1, <1>2, Invariance, PTL DEF Spec, PromiseKept, Promise!Spec
=============================================================================
