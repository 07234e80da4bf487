----------------------------- MODULE RoleRunProofs -----------------------------
(***************************************************************************)
(* What holds of a phase of two roles (RoleRun) for any number of attempts *)
(* and of deaths of the orchestrator, in every scenario.                   *)
(***************************************************************************)
EXTENDS RoleRun, TLAPS

-----------------------------------------------------------------------------
(* The inductive invariant *)

Quiet == {"idle", "enter", "attempt", "spawn", "write", "done", "note", "ended"}
Named == {"publish", "poll", "terminate", "drop"}
Held  == {"register", "publish", "poll", "terminate"}

\* A child that is alive is of an earlier era, or the one its thread has in hand.
InHand == \A k \in alive :
    /\ k[1] <= crashes
    /\ main # "gone" /\ k[1] = crashes => k = Kid(k[2]) /\ pc[k[2]] \in Held

\* current_procs names children in hand, and each one that its thread polls.
ProcsAre == \A k \in procs : k = Kid(k[2]) /\ pc[k[2]] \in Named
Registered == \A t \in Threads :
    /\ pc[t] \in Named /\ Kid(t) \in alive => Kid(t) \in procs
    /\ pc[t] = "publish" /\ Kid(t) \in alive => Kid(t) \in snap[t]

\* A child that terminate_all has killed is none that its thread still has to start.
Behind(k) == LET t == k[2] IN
    \/ pc[t] = "ended" \/ k[3] < att[t].role
    \/ /\ k[3] = att[t].role /\ frame[t] = "cutoff"
       /\ k[4] < att[t].cutoff \/ (k[4] = att[t].cutoff /\ pc[t] \in Named)
    \/ /\ k[3] = att[t].role /\ frame[t] = "role"
       /\ (k[4] = 0 /\ pc[t] \in Named) \/ pc[t] \in {"write", "done", "note"}
Taken == \A k \in victims : k \notin alive /\ Behind(k)

\* An orchestrator that is gone has no thread.
Gone == main = "gone" =>
    /\ procs = {} /\ victims = {} /\ cause = "none" /\ ~cancel
    /\ \A t \in Threads : pc[t] = "idle" /\ frame[t] = "role" /\ lateStarts[t] = 0

\* A record that is done is that of a clean attempt, and so is the text on its way to be one.
Recorded == \A t \in Threads :
    /\ record[t].status = "done" => /\ pc[t] \in {"idle", "enter", "ended"} /\ frame[t] = "role"
                                    /\ clean[t] = <<record[t].output, record[t].prompt>>
    /\ pc[t] \in {"write", "done"} => frame[t] = "role" /\ clean[t] = <<Kid(t), prompt>>
    /\ pc[t] = "done" => output[t] = Kid(t)

\* A child that is started late had its budget checked before.
LateOnce == \A t \in Threads :
    lateStarts[t] <= 1 /\ (lateStarts[t] # 0 => late /\ pc[t] # "spawn")

\* Why the main thread is where it is.
Failure == {"failed", "stopped"}
EndedIs == \A t \in Threads : end[t] = "none" <=> pc[t] # "ended"
CancelIs ==
    /\ cancel => main \in {"kill", "drop", "exit", "raised"} /\ cause \in Failure
    /\ \A t \in Threads : why[t] = "cancelled" \/ end[t] = "cancelled" => cancel
    /\ \A t \in Threads : end[t] = "dropped" =>
          main \in {"cancel", "kill", "drop", "exit", "raised"} /\ cause \in Failure
Answers ==
    /\ end["b"] = "ok"
    /\ end["a"] = "ok" \/ (call = "beside" /\ end["a"] = "failed")
MainIs ==
    /\ main \in {"wait", "side", "gone", "returned"} => cause = "none"
    /\ main \in {"cancel", "kill", "drop", "raised"} => cause \in Failure
    /\ main = "exit" => cause \in Failure \cup {"none"}
    /\ main = "side" => call = "beside" /\ end["b"] = "ok"
    /\ main \in {"exit", "returned"} /\ cause = "none" => Answers
    /\ main \in {"returned", "raised"} => \A t \in Threads : pc[t] = "ended"

IInv ==
    /\ TypeOK /\ Gone /\ InHand /\ ProcsAre /\ Registered /\ Taken /\ Findable
    /\ Recorded /\ LateOnce /\ EndedIs /\ CancelIs /\ MainIs

-----------------------------------------------------------------------------
(* Children *)

LEMMA KidIs ==
    ASSUME TypeOK, NEW t \in Threads
    PROVE  /\ Kid(t) \in AllKids /\ Kid(t)[1] = crashes /\ Kid(t)[2] = t /\ Kid(t)[3] = att[t].role
           /\ frame[t] = "role" => Kid(t)[4] = 0
           /\ frame[t] = "cutoff" => Kid(t)[4] = att[t].cutoff
<1>1. /\ crashes \in 0..MaxCrashes /\ att[t].role \in 1..MaxAttempts /\ att[t].cutoff \in 1..MaxAttempts
      /\ MaxAttempts \in Nat /\ frame[t] \in {"role", "cutoff"}
    BY BoundsAssumption DEF TypeOK
<1> QED
    BY <1>1 DEF Kid, AllKids

LEMMA KidsType ==
    ASSUME NEW k \in AllKids
    PROVE  k[1] \in 0..MaxCrashes /\ k[2] \in Threads /\ k[3] \in 1..MaxAttempts /\ k[4] \in 0..MaxAttempts
    BY DEF AllKids

\* The child of an attempt is the same as long as the attempt is.
LEMMA KidStays ==
    ASSUME NEW t, crashes' = crashes, frame'[t] = frame[t], att'[t] = att[t]
    PROVE  Kid(t)' = Kid(t)
    BY DEF Kid


\* A late child.
LEMMA LateStep ==
    ASSUME TypeOK, LateOnce, [Next]_vars
    PROVE  LateOnce'
<1> USE DEF thread, mainv, flags, kidv, files, era, Go, Stays, Set, Note, Leave, Attempt,
    MayRetry, Failed, Judged, Unregister, Kills, Polls, TimedOut, Exited, Answered, Cached,
    Refreshed, CancelSet, OutOfBudget, Interrupt, LateOnce, TypeOK
<1> USE DEF Threads
<1>1. ASSUME NEW t \in Threads, RoleStep(t) \/ (main # "gone" /\ Timeout(t)) PROVE LateOnce'
  <2> main # "gone"
    BY <1>1 DEF RoleStep
  <2>1. CASE Starts(t)
    BY <2>1 DEF Starts
  <2>2. CASE Enter(t)
    BY <2>2 DEF Enter
  <2>3. CASE Tries(t)
    BY <2>3 DEF Tries
  <2>4. CASE Spawn(t)
    BY <2>4 DEF Spawn
  <2>5. CASE SpawnFails(t)
    BY <2>5 DEF SpawnFails
  <2>6. CASE Register(t)
    BY <2>6 DEF Register
  <2>7. CASE Publish(t)
    BY <2>7 DEF Publish
  <2>8. CASE PollInterrupted(t)
    BY <2>8 DEF PollInterrupted
  <2>9. CASE PollRefreshes(t)
    BY <2>9 DEF PollRefreshes
  <2>10. CASE Terminate(t)
    BY <2>10 DEF Terminate
  <2>11. CASE Interrupted(t)
    BY <2>11 DEF Interrupted
  <2>12. CASE JudgeStopped(t)
    BY <2>12 DEF JudgeStopped
  <2>13. CASE JudgeCutOff(t)
    BY <2>13 DEF JudgeCutOff
  <2>14. CASE JudgeAccepts(t)
    BY <2>14 DEF JudgeAccepts
  <2>15. CASE JudgeFails(t)
    BY <2>15 DEF JudgeFails
  <2>16. CASE SummaryFailed(t)
    BY <2>16 DEF SummaryFailed
  <2>17. CASE Write(t)
    BY <2>17 DEF Write
  <2>18. CASE Done(t)
    BY <2>18 DEF Done
  <2>19. CASE Timeout(t)
    BY <2>19 DEF Timeout
  <2> QED
    BY <1>1, <2>1, <2>2, <2>3, <2>4, <2>5, <2>6, <2>7, <2>8, <2>9, <2>10, <2>11, <2>12, <2>13,
      <2>14, <2>15, <2>16, <2>17, <2>18, <2>19 DEF RoleStep
<1>2. CASE MainStep
  <2>1. CASE ParallelFails
    BY <2>1 DEF ParallelFails, MainGoes, Quietly
  <2>2. CASE ParallelEnds
    BY <2>2 DEF ParallelEnds, MainGoes, Quietly
  <2>3. CASE BesideFails
    BY <2>3 DEF BesideFails, MainGoes, Quietly
  <2>4. CASE BesideGoesOn
    BY <2>4 DEF BesideGoesOn, MainGoes, Quietly
  <2>5. CASE SideEnds
    BY <2>5 DEF SideEnds, MainGoes, Quietly
  <2>6. CASE Cancels
    BY <2>6 DEF Cancels, MainGoes, Quietly
  <2>7. CASE KillAll
    BY <2>7 DEF KillAll, MainGoes, Quietly
  <2>8. CASE DropAll
    BY <2>8 DEF DropAll, MainGoes, Quietly
  <2>9. CASE Exit
    BY <2>9 DEF Exit, MainGoes, Quietly
  <2> QED
    BY <1>2, <2>1, <2>2, <2>3, <2>4, <2>5, <2>6, <2>7, <2>8, <2>9 DEF MainStep
<1>3. CASE KidEnds
  BY <1>3 DEF KidEnds
<1>4. CASE Deadline
  BY <1>4 DEF Deadline
<1>5. CASE StopSignal
  BY <1>5 DEF StopSignal
<1>6. CASE Handler
  BY <1>6 DEF Handler
<1>7. CASE Crash
  BY <1>7 DEF Crash
<1>8. CASE Resume
  BY <1>8 DEF Resume
<1>9. CASE UNCHANGED vars
  BY <1>9 DEF vars
<1> QED
  BY <1>1, <1>2, <1>3, <1>4, <1>5, <1>6, <1>7, <1>8, <1>9 DEF Next

\* What a thread may be left with when its call ends, or its attempt fails.
PcType == pc \in [Threads -> Quiet \cup Named \cup {"register"}]
ThreadType ==
    /\ PcType
    /\ frame \in [Threads -> {"role", "cutoff"}]
    /\ att \in [Threads -> [role : 1..MaxAttempts, cutoff : 1..MaxAttempts]]
    /\ end \in [Threads -> Bad \cup {"none", "ok", "dropped"}]

LEMMA LeaveType ==
    ASSUME TypeOK, NEW t \in Threads, NEW e \in Bad \cup {"ok"}, Leave(t, e)
    PROVE  ThreadType'
<1>1. MaxAttempts \in Nat /\ 1 \in 1..MaxAttempts
  BY BoundsAssumption
<1>2. CASE frame[t] = "role" \/ e = "stopped"
  <2>1. /\ pc' = [pc EXCEPT ![t] = "ended"] /\ end' = [end EXCEPT ![t] = e]
        /\ att' = [att EXCEPT ![t] = First] /\ frame' = [frame EXCEPT ![t] = "role"]
    BY <1>2 DEF Leave, Go, Set
  <2>2. First \in [role : 1..MaxAttempts, cutoff : 1..MaxAttempts]
    BY <1>1 DEF First
  <2> QED
    BY <2>1, <2>2 DEF TypeOK, ThreadType, PcType, Quiet, Named
<1>3. CASE ~(frame[t] = "role" \/ e = "stopped")
  <2>1. /\ pc' = [pc EXCEPT ![t] = IF e = "ok" THEN "write" ELSE "note"] /\ end' = end
        /\ att' = [att EXCEPT ![t].cutoff = 1] /\ frame' = [frame EXCEPT ![t] = "role"]
    BY <1>3 DEF Leave, Go, Set
  <2>2. att' \in [Threads -> [role : 1..MaxAttempts, cutoff : 1..MaxAttempts]]
    BY <1>1, <2>1 DEF TypeOK
  <2> QED
    BY <2>1, <2>2 DEF TypeOK, ThreadType, PcType, Quiet, Named
<1> QED
  BY <1>2, <1>3

LEMMA NoteType ==
    ASSUME TypeOK, NEW t \in Threads, NEW s \in {"running", "failed", "done"},
           NEW o \in AllKids \cup {Nothing}, Note(t, s, o)
    PROVE  record' \in [Threads -> Records]
<1>1. [status |-> s, prompt |-> prompt, output |-> o] \in Records
  BY DEF Records, TypeOK
<1> QED
  BY <1>1 DEF Note, Set, TypeOK

LEMMA FailedType ==
    ASSUME TypeOK, NEW t \in Threads, Failed(t)
    PROVE  ThreadType' /\ record' \in [Threads -> Records]
<1>1. record' \in [Threads -> Records]
  BY NoteType DEF Failed
<1>2. CASE MayRetry(t)
  <2>1. scenario.attempts \in 1..MaxAttempts
    BY ScenariosAssumption DEF TypeOK
  <2>2. MaxAttempts \in Nat /\ Attempt(t) < scenario.attempts
    BY <1>2, BoundsAssumption DEF MayRetry
  <2>3. /\ pc' = [pc EXCEPT ![t] = "attempt"] /\ UNCHANGED <<frame, end>>
        /\ att' = IF frame[t] = "role" THEN [att EXCEPT ![t].role = @ + 1]
                                      ELSE [att EXCEPT ![t].cutoff = @ + 1]
    BY <1>2 DEF Failed, Go, Set
  <2>4. att' \in [Threads -> [role : 1..MaxAttempts, cutoff : 1..MaxAttempts]]
    <3>1. att[t].role \in 1..MaxAttempts /\ att[t].cutoff \in 1..MaxAttempts
      BY DEF TypeOK
    <3>2. CASE frame[t] = "role"
      <4>1. att[t].role + 1 \in 1..MaxAttempts
        BY <2>1, <2>2, <3>1, <3>2 DEF Attempt
      <4> QED
        BY <2>3, <3>2, <4>1 DEF TypeOK
    <3>3. CASE frame[t] # "role"
      <4>1. att[t].cutoff + 1 \in 1..MaxAttempts
        BY <2>1, <2>2, <3>1, <3>3 DEF Attempt
      <4> QED
        BY <2>3, <3>3, <4>1 DEF TypeOK
    <3> QED
      BY <3>2, <3>3
  <2> QED
    BY <1>1, <2>3, <2>4 DEF ThreadType, PcType, TypeOK, Quiet, Named
<1>3. CASE ~MayRetry(t)
  BY <1>1, <1>3, LeaveType DEF Failed, Bad
<1> QED
  BY <1>2, <1>3

\* The types.
LEMMA TypeStep ==
    ASSUME TypeOK, [Next]_vars
    PROVE  TypeOK'
<1> USE DEF thread, mainv, flags, kidv, files, era, Go, Stays, Set, Attempt, MayRetry, Judged,
    Unregister, Kills, Polls, TimedOut, Exited, Answered, Cached, Refreshed, CancelSet,
    OutOfBudget, Interrupt, Bad, First, Over
<1>k. \A t \in Threads : Kid(t) \in AllKids
  BY KidIs
<1>b. MaxAttempts \in Nat /\ 1 \in 1..MaxAttempts
  BY BoundsAssumption
<1>j. ASSUME NEW t \in Threads, Judged(t), ThreadType', record' \in [Threads -> Records],
             clean' \in [Threads -> (AllKids \X Prompts) \cup {Nothing}]
      PROVE  TypeOK'
  <2>1. /\ procs' \subseteq AllKids /\ disk' \subseteq AllKids /\ killed' \subseteq AllKids
        /\ why' \in [Threads -> {"none", "timeout", "stopped", "cancelled"}]
    BY <1>j, <1>k DEF Judged, Unregister, Set, TypeOK
  <2>2. UNCHANGED <<call, main, cause, victims, snap, cancel, stopReq, late, signalled, alive, lateStarts,
                    output, prompt, crashes, scenario, lost>>
    BY <1>j DEF Judged, mainv, flags, era
  <2> QED
    BY <1>j, <2>1, <2>2 DEF TypeOK, ThreadType, PcType, Quiet, Named
<1>1. ASSUME NEW t \in Threads, RoleStep(t) \/ (main # "gone" /\ Timeout(t)) PROVE TypeOK'
  <2> main # "gone"
    BY <1>1 DEF RoleStep
  <2>1. CASE Starts(t)
    BY <2>1, <1>k, <1>b DEF Starts, TypeOK
  <2>2. CASE Enter(t)
    <3>1. ThreadType'
      BY <2>2, LeaveType DEF Enter, ThreadType, PcType, TypeOK, Bad, Quiet, Named
    <3>2. record' \in [Threads -> Records]
      BY <2>2, NoteType DEF Enter, TypeOK
    <3> QED
      BY <2>2, <3>1, <3>2, <1>k DEF Enter, TypeOK, ThreadType, PcType, Quiet, Named
  <2>3. CASE Tries(t)
    <3>1. ThreadType'
      BY <2>3, LeaveType DEF Tries, ThreadType, PcType, TypeOK, Bad, Quiet, Named
    <3>2. record' \in [Threads -> Records]
      BY <2>3, NoteType DEF Tries, TypeOK
    <3> QED
      BY <2>3, <3>1, <3>2, <1>k DEF Tries, TypeOK, ThreadType, PcType, Quiet, Named
  <2>4. CASE Spawn(t)
    BY <2>4, <1>k, <1>b DEF Spawn, TypeOK
  <2>5. CASE SpawnFails(t)
    <3>1. ThreadType'
      BY <2>5, LeaveType DEF SpawnFails, ThreadType, PcType, TypeOK, Bad, Quiet, Named
    <3>2. record' \in [Threads -> Records]
      BY <2>5, NoteType DEF SpawnFails, TypeOK
    <3> QED
      BY <2>5, <3>1, <3>2, <1>k DEF SpawnFails, TypeOK, ThreadType, PcType, Quiet, Named
  <2>6. CASE Register(t)
    BY <2>6, <1>k, <1>b DEF Register, TypeOK
  <2>7. CASE Publish(t)
    BY <2>7, <1>k, <1>b DEF Publish, TypeOK
  <2>8. CASE PollInterrupted(t)
    BY <2>8, <1>k, <1>b DEF PollInterrupted, TypeOK
  <2>9. CASE PollRefreshes(t)
    BY <2>9, <1>k, <1>b DEF PollRefreshes, TypeOK
  <2>10. CASE Terminate(t)
    BY <2>10, <1>k, <1>b DEF Terminate, TypeOK
  <2>11. CASE Interrupted(t)
    <3>1. ThreadType'
      BY <2>11, LeaveType DEF Interrupted, Bad
    <3>2. why' \in [Threads -> {"none", "timeout", "stopped", "cancelled"}]
      BY <2>11 DEF Interrupted, TypeOK
    <3>3. /\ UNCHANGED <<mainv, snap, flags, alive, lateStarts, files, era>>
          /\ procs' \subseteq procs /\ disk' \subseteq disk /\ killed' \subseteq killed
      BY <2>11 DEF Interrupted
    <3> QED
      BY <3>1, <3>2, <3>3 DEF TypeOK, ThreadType, PcType, Quiet, Named
  <2>12. CASE JudgeStopped(t)
    <3>1. ThreadType'
      BY <2>12, LeaveType DEF JudgeStopped, ThreadType, PcType, TypeOK, Bad, Quiet, Named
    <3>2. record' \in [Threads -> Records]
      BY <2>12, NoteType DEF JudgeStopped, TypeOK
    <3> QED
      BY <2>12, <3>1, <3>2, <1>j DEF JudgeStopped, TypeOK
  <2>13. CASE JudgeCutOff(t)
    BY <2>13, <1>k, <1>b DEF JudgeCutOff, TypeOK
  <2>14. CASE JudgeAccepts(t)
    <3>1. ThreadType'
      BY <2>14, LeaveType DEF JudgeAccepts, ThreadType, PcType, TypeOK, Bad, Quiet, Named
    <3>2. <<<<crashes, t, att[t].role, 0>>, prompt>> \in AllKids \X Prompts
      BY BoundsAssumption DEF TypeOK, AllKids
    <3>3. clean' \in [Threads -> (AllKids \X Prompts) \cup {Nothing}]
      BY <2>14, <3>2 DEF JudgeAccepts, TypeOK
    <3> QED
      BY <2>14, <3>1, <3>3, <1>j DEF JudgeAccepts, TypeOK
  <2>15. CASE JudgeFails(t)
    <3>1. ThreadType' /\ record' \in [Threads -> Records]
      BY <2>15, FailedType DEF JudgeFails
    <3> QED
      BY <2>15, <3>1, <1>j DEF JudgeFails, TypeOK
  <2>16. CASE SummaryFailed(t)
    <3>1. ThreadType' /\ record' \in [Threads -> Records]
      BY <2>16, FailedType DEF SummaryFailed
    <3> QED
      BY <2>16, <3>1, <1>k DEF SummaryFailed, TypeOK, ThreadType, PcType, Quiet, Named
  <2>17. CASE Write(t)
    BY <2>17, <1>k, <1>b DEF Write, TypeOK
  <2>18. CASE Done(t)
    <3>1. ThreadType'
      BY <2>18, LeaveType DEF Done, ThreadType, PcType, TypeOK, Bad, Quiet, Named
    <3>2. record' \in [Threads -> Records]
      BY <2>18, NoteType, <1>k DEF Done, TypeOK
    <3> QED
      BY <2>18, <3>1, <3>2, <1>k DEF Done, TypeOK, ThreadType, PcType, Quiet, Named
  <2>19. CASE Timeout(t)
    BY <2>19, <1>k, <1>b DEF Timeout, TypeOK
  <2> QED
    BY <1>1, <2>1, <2>2, <2>3, <2>4, <2>5, <2>6, <2>7, <2>8, <2>9, <2>10, <2>11, <2>12, <2>13,
      <2>14, <2>15, <2>16, <2>17, <2>18, <2>19 DEF RoleStep
<1>2. CASE MainStep
  <2>1. CASE ParallelFails
    BY <2>1, <1>k, <1>b DEF ParallelFails, MainGoes, Quietly, TypeOK
  <2>2. CASE ParallelEnds
    BY <2>2, <1>k, <1>b DEF ParallelEnds, MainGoes, Quietly, TypeOK
  <2>3. CASE BesideFails
    BY <2>3, <1>k, <1>b DEF BesideFails, MainGoes, Quietly, TypeOK
  <2>4. CASE BesideGoesOn
    BY <2>4, <1>k, <1>b DEF BesideGoesOn, MainGoes, Quietly, TypeOK
  <2>5. CASE SideEnds
    <3>1. cause' \in Bad \cup {"none"}
      BY <2>5 DEF SideEnds, SideRaises, TypeOK
    <3> QED
      BY <2>5, <3>1 DEF SideEnds, MainGoes, Quietly, TypeOK
  <2>6. CASE Cancels
    BY <2>6, <1>k, <1>b DEF Cancels, MainGoes, Quietly, TypeOK
  <2>7. CASE KillAll
    BY <2>7, <1>k, <1>b DEF KillAll, MainGoes, Quietly, TypeOK
  <2>8. CASE DropAll
    BY <2>8, <1>k, <1>b DEF DropAll, MainGoes, Quietly, TypeOK
  <2>9. CASE Exit
    BY <2>9, <1>k, <1>b DEF Exit, MainGoes, Quietly, TypeOK
  <2> QED
    BY <1>2, <2>1, <2>2, <2>3, <2>4, <2>5, <2>6, <2>7, <2>8, <2>9 DEF MainStep
<1>3. CASE KidEnds
  BY <1>3, <1>k, <1>b DEF KidEnds, TypeOK
<1>4. CASE Deadline
  BY <1>4, <1>k, <1>b DEF Deadline, TypeOK
<1>5. CASE StopSignal
  BY <1>5, <1>k, <1>b DEF StopSignal, TypeOK
<1>6. CASE Handler
  BY <1>6, <1>k, <1>b DEF Handler, TypeOK
<1>7. CASE Crash
  BY <1>7, <1>k, <1>b DEF Crash, TypeOK
<1>8. CASE Resume
  <2>1. crashes + 1 \in 0..MaxCrashes
  BY <1>8, BoundsAssumption DEF Resume, TypeOK
<2> QED
  BY <1>8, <2>1 DEF Resume, TypeOK
<1>9. CASE UNCHANGED vars
  BY <1>9 DEF vars, TypeOK
<1> QED
  BY <1>1, <1>2, <1>3, <1>4, <1>5, <1>6, <1>7, <1>8, <1>9 DEF Next

\* The orchestrator is gone.
LEMMA GoneStep ==
    ASSUME Gone, [Next]_vars
    PROVE  Gone'
<1> USE DEF thread, mainv, flags, kidv, files, era, Go, Stays, Set, Note, Leave, Attempt,
    MayRetry, Failed, Judged, Unregister, Kills, Polls, TimedOut, Exited, Answered, Cached,
    Refreshed, CancelSet, OutOfBudget, Interrupt, Gone
<1> USE DEF Threads
<1>1. ASSUME NEW t \in Threads, RoleStep(t) \/ (main # "gone" /\ Timeout(t)) PROVE Gone'
  <2> main # "gone"
    BY <1>1 DEF RoleStep
  <2>1. CASE Starts(t)
    BY <2>1 DEF Starts
  <2>2. CASE Enter(t)
    BY <2>2 DEF Enter
  <2>3. CASE Tries(t)
    BY <2>3 DEF Tries
  <2>4. CASE Spawn(t)
    BY <2>4 DEF Spawn
  <2>5. CASE SpawnFails(t)
    BY <2>5 DEF SpawnFails
  <2>6. CASE Register(t)
    BY <2>6 DEF Register
  <2>7. CASE Publish(t)
    BY <2>7 DEF Publish
  <2>8. CASE PollInterrupted(t)
    BY <2>8 DEF PollInterrupted
  <2>9. CASE PollRefreshes(t)
    BY <2>9 DEF PollRefreshes
  <2>10. CASE Terminate(t)
    BY <2>10 DEF Terminate
  <2>11. CASE Interrupted(t)
    BY <2>11 DEF Interrupted
  <2>12. CASE JudgeStopped(t)
    BY <2>12 DEF JudgeStopped
  <2>13. CASE JudgeCutOff(t)
    BY <2>13 DEF JudgeCutOff
  <2>14. CASE JudgeAccepts(t)
    BY <2>14 DEF JudgeAccepts
  <2>15. CASE JudgeFails(t)
    BY <2>15 DEF JudgeFails
  <2>16. CASE SummaryFailed(t)
    BY <2>16 DEF SummaryFailed
  <2>17. CASE Write(t)
    BY <2>17 DEF Write
  <2>18. CASE Done(t)
    BY <2>18 DEF Done
  <2>19. CASE Timeout(t)
    BY <2>19 DEF Timeout
  <2> QED
    BY <1>1, <2>1, <2>2, <2>3, <2>4, <2>5, <2>6, <2>7, <2>8, <2>9, <2>10, <2>11, <2>12, <2>13,
      <2>14, <2>15, <2>16, <2>17, <2>18, <2>19 DEF RoleStep
<1>2. CASE MainStep
  <2>1. CASE ParallelFails
    BY <2>1 DEF ParallelFails, MainGoes, Quietly
  <2>2. CASE ParallelEnds
    BY <2>2 DEF ParallelEnds, MainGoes, Quietly
  <2>3. CASE BesideFails
    BY <2>3 DEF BesideFails, MainGoes, Quietly
  <2>4. CASE BesideGoesOn
    BY <2>4 DEF BesideGoesOn, MainGoes, Quietly
  <2>5. CASE SideEnds
    BY <2>5 DEF SideEnds, MainGoes, Quietly
  <2>6. CASE Cancels
    BY <2>6 DEF Cancels, MainGoes, Quietly
  <2>7. CASE KillAll
    BY <2>7 DEF KillAll, MainGoes, Quietly
  <2>8. CASE DropAll
    BY <2>8 DEF DropAll, MainGoes, Quietly
  <2>9. CASE Exit
    BY <2>9 DEF Exit, MainGoes, Quietly
  <2> QED
    BY <1>2, <2>1, <2>2, <2>3, <2>4, <2>5, <2>6, <2>7, <2>8, <2>9 DEF MainStep
<1>3. CASE KidEnds
  BY <1>3 DEF KidEnds
<1>4. CASE Deadline
  BY <1>4 DEF Deadline
<1>5. CASE StopSignal
  BY <1>5 DEF StopSignal
<1>6. CASE Handler
  BY <1>6 DEF Handler
<1>7. CASE Crash
  BY <1>7 DEF Crash
<1>8. CASE Resume
  BY <1>8 DEF Resume
<1>9. CASE UNCHANGED vars
  BY <1>9 DEF vars
<1> QED
  BY <1>1, <1>2, <1>3, <1>4, <1>5, <1>6, <1>7, <1>8, <1>9 DEF Next

\* The records.
LEMMA RecordedStep ==
    ASSUME TypeOK, Gone, Recorded, [Next]_vars
    PROVE  Recorded'
<1> USE DEF thread, mainv, flags, kidv, files, era, Go, Stays, Set, Note, Leave, Attempt,
    MayRetry, Failed, Judged, Unregister, Kills, Polls, TimedOut, Exited, Answered, Cached,
    Refreshed, CancelSet, OutOfBudget, Interrupt, Recorded, TypeOK, Kid, Records, Gone
<1>1. ASSUME NEW t \in Threads, RoleStep(t) \/ (main # "gone" /\ Timeout(t)) PROVE Recorded'
  <2> main # "gone"
    BY <1>1 DEF RoleStep
  <2>1. CASE Starts(t)
    BY <2>1 DEF Starts
  <2>2. CASE Enter(t)
    <3>1. ASSUME NEW u \in Threads \ {t}
          PROVE  pc'[u] = pc[u] /\ frame'[u] = frame[u] /\ att'[u] = att[u] /\ record'[u] = record[u]
      BY <2>2 DEF Enter
    <3>2. pc[t] = "enter" /\ UNCHANGED <<clean, output, prompt, crashes>>
      BY <2>2 DEF Enter
    <3>3. frame[t] = "role" => pc'[t] \in {"ended", "attempt"} /\ frame'[t] = "role"
          /\ (record'[t] = record[t] \/ record'[t].status = "running")
      BY <2>2 DEF Enter
    <3>4. frame[t] = "cutoff" => record'[t] = record[t] /\ pc'[t] \in {"note", "ended", "attempt"}
      BY <2>2 DEF Enter
    <3>5. frame[t] \in {"role", "cutoff"} /\ record[t].status = "done" => frame[t] = "role"
      OBVIOUS
    <3>6. pc'[t] \notin {"write", "done"}
      BY <3>3, <3>4, <3>5
    <3>7. record'[t].status = "done" => record'[t] = record[t] /\ pc'[t] = "ended" /\ frame'[t] = "role"
      BY <2>2, <3>2, <3>3, <3>4, <3>5 DEF Enter
    <3> QED
      BY <3>1, <3>2, <3>6, <3>7
  <2>3. CASE Tries(t)
    BY <2>3 DEF Tries
  <2>4. CASE Spawn(t)
    BY <2>4 DEF Spawn
  <2>5. CASE SpawnFails(t)
    BY <2>5 DEF SpawnFails
  <2>6. CASE Register(t)
    BY <2>6 DEF Register
  <2>7. CASE Publish(t)
    BY <2>7 DEF Publish
  <2>8. CASE PollInterrupted(t)
    BY <2>8 DEF PollInterrupted
  <2>9. CASE PollRefreshes(t)
    BY <2>9 DEF PollRefreshes
  <2>10. CASE Terminate(t)
    BY <2>10 DEF Terminate
  <2>11. CASE Interrupted(t)
    <3>1. /\ \A u \in Threads \ {t} : pc'[u] = pc[u] /\ frame'[u] = frame[u] /\ att'[u] = att[u]
          /\ pc[t] = "drop" /\ pc'[t] \in {"note", "ended"} /\ UNCHANGED <<record, clean, output, prompt, crashes>>
      BY <2>11 DEF Interrupted, Bad
    <3> QED
      BY <3>1
  <2>12. CASE JudgeStopped(t)
    BY <2>12 DEF JudgeStopped
  <2>13. CASE JudgeCutOff(t)
    BY <2>13 DEF JudgeCutOff
  <2>14. CASE JudgeAccepts(t)
    BY <2>14 DEF JudgeAccepts
  <2>15. CASE JudgeFails(t)
    BY <2>15 DEF JudgeFails
  <2>16. CASE SummaryFailed(t)
    BY <2>16 DEF SummaryFailed
  <2>17. CASE Write(t)
    BY <2>17 DEF Write
  <2>18. CASE Done(t)
    BY <2>18 DEF Done
  <2>19. CASE Timeout(t)
    BY <2>19 DEF Timeout
  <2> QED
    BY <1>1, <2>1, <2>2, <2>3, <2>4, <2>5, <2>6, <2>7, <2>8, <2>9, <2>10, <2>11, <2>12, <2>13,
      <2>14, <2>15, <2>16, <2>17, <2>18, <2>19 DEF RoleStep
<1>2. CASE MainStep
  <2>1. CASE ParallelFails
    BY <2>1 DEF ParallelFails, MainGoes, Quietly
  <2>2. CASE ParallelEnds
    BY <2>2 DEF ParallelEnds, MainGoes, Quietly
  <2>3. CASE BesideFails
    BY <2>3 DEF BesideFails, MainGoes, Quietly
  <2>4. CASE BesideGoesOn
    BY <2>4 DEF BesideGoesOn, MainGoes, Quietly
  <2>5. CASE SideEnds
    BY <2>5 DEF SideEnds, MainGoes, Quietly
  <2>6. CASE Cancels
    BY <2>6 DEF Cancels, MainGoes, Quietly
  <2>7. CASE KillAll
    BY <2>7 DEF KillAll, MainGoes, Quietly
  <2>8. CASE DropAll
    BY <2>8 DEF DropAll, MainGoes, Quietly
  <2>9. CASE Exit
    BY <2>9 DEF Exit, MainGoes, Quietly
  <2> QED
    BY <1>2, <2>1, <2>2, <2>3, <2>4, <2>5, <2>6, <2>7, <2>8, <2>9 DEF MainStep
<1>3. CASE KidEnds
  BY <1>3 DEF KidEnds
<1>4. CASE Deadline
  BY <1>4 DEF Deadline
<1>5. CASE StopSignal
  BY <1>5 DEF StopSignal
<1>6. CASE Handler
  BY <1>6 DEF Handler
<1>7. CASE Crash
  BY <1>7 DEF Crash
<1>8. CASE Resume
  BY <1>8 DEF Resume
<1>9. CASE UNCHANGED vars
  BY <1>9 DEF vars
<1> QED
  BY <1>1, <1>2, <1>3, <1>4, <1>5, <1>6, <1>7, <1>8, <1>9 DEF Next

\* The ends.
LEMMA EndedStep ==
    ASSUME TypeOK, EndedIs, [Next]_vars
    PROVE  EndedIs'
<1> USE DEF thread, mainv, flags, kidv, files, era, Go, Stays, Set, Note, Leave, Attempt,
    MayRetry, Failed, Judged, Unregister, Kills, Polls, TimedOut, Exited, Answered, Cached,
    Refreshed, CancelSet, OutOfBudget, Interrupt, EndedIs, TypeOK, Bad
<1>1. ASSUME NEW t \in Threads, RoleStep(t) \/ (main # "gone" /\ Timeout(t)) PROVE EndedIs'
  <2> main # "gone"
    BY <1>1 DEF RoleStep
  <2>1. CASE Starts(t)
    BY <2>1 DEF Starts
  <2>2. CASE Enter(t)
    BY <2>2 DEF Enter
  <2>3. CASE Tries(t)
    BY <2>3 DEF Tries
  <2>4. CASE Spawn(t)
    BY <2>4 DEF Spawn
  <2>5. CASE SpawnFails(t)
    BY <2>5 DEF SpawnFails
  <2>6. CASE Register(t)
    BY <2>6 DEF Register
  <2>7. CASE Publish(t)
    BY <2>7 DEF Publish
  <2>8. CASE PollInterrupted(t)
    BY <2>8 DEF PollInterrupted
  <2>9. CASE PollRefreshes(t)
    BY <2>9 DEF PollRefreshes
  <2>10. CASE Terminate(t)
    BY <2>10 DEF Terminate
  <2>11. CASE Interrupted(t)
    BY <2>11 DEF Interrupted
  <2>12. CASE JudgeStopped(t)
    BY <2>12 DEF JudgeStopped
  <2>13. CASE JudgeCutOff(t)
    BY <2>13 DEF JudgeCutOff
  <2>14. CASE JudgeAccepts(t)
    BY <2>14 DEF JudgeAccepts
  <2>15. CASE JudgeFails(t)
    BY <2>15 DEF JudgeFails
  <2>16. CASE SummaryFailed(t)
    BY <2>16 DEF SummaryFailed
  <2>17. CASE Write(t)
    BY <2>17 DEF Write
  <2>18. CASE Done(t)
    BY <2>18 DEF Done
  <2>19. CASE Timeout(t)
    BY <2>19 DEF Timeout
  <2> QED
    BY <1>1, <2>1, <2>2, <2>3, <2>4, <2>5, <2>6, <2>7, <2>8, <2>9, <2>10, <2>11, <2>12, <2>13,
      <2>14, <2>15, <2>16, <2>17, <2>18, <2>19 DEF RoleStep
<1>2. CASE MainStep
  <2>1. CASE ParallelFails
    BY <2>1 DEF ParallelFails, MainGoes, Quietly
  <2>2. CASE ParallelEnds
    BY <2>2 DEF ParallelEnds, MainGoes, Quietly
  <2>3. CASE BesideFails
    BY <2>3 DEF BesideFails, MainGoes, Quietly
  <2>4. CASE BesideGoesOn
    BY <2>4 DEF BesideGoesOn, MainGoes, Quietly
  <2>5. CASE SideEnds
    BY <2>5 DEF SideEnds, MainGoes, Quietly
  <2>6. CASE Cancels
    BY <2>6 DEF Cancels, MainGoes, Quietly
  <2>7. CASE KillAll
    BY <2>7 DEF KillAll, MainGoes, Quietly
  <2>8. CASE DropAll
    BY <2>8 DEF DropAll, MainGoes, Quietly
  <2>9. CASE Exit
    BY <2>9 DEF Exit, MainGoes, Quietly
  <2> QED
    BY <1>2, <2>1, <2>2, <2>3, <2>4, <2>5, <2>6, <2>7, <2>8, <2>9 DEF MainStep
<1>3. CASE KidEnds
  BY <1>3 DEF KidEnds
<1>4. CASE Deadline
  BY <1>4 DEF Deadline
<1>5. CASE StopSignal
  BY <1>5 DEF StopSignal
<1>6. CASE Handler
  BY <1>6 DEF Handler
<1>7. CASE Crash
  BY <1>7 DEF Crash
<1>8. CASE Resume
  BY <1>8 DEF Resume
<1>9. CASE UNCHANGED vars
  BY <1>9 DEF vars
<1> QED
  BY <1>1, <1>2, <1>3, <1>4, <1>5, <1>6, <1>7, <1>8, <1>9 DEF Next

\* The cancellation.
LEMMA CancelStep ==
    ASSUME TypeOK, Gone, EndedIs, MainIs, CancelIs, [Next]_vars
    PROVE  CancelIs'
<1> USE DEF thread, mainv, flags, kidv, files, era, Go, Stays, Set, Note, Leave, Attempt,
    MayRetry, Failed, Judged, Unregister, Kills, Polls, TimedOut, Exited, Answered, Cached,
    Refreshed, CancelSet, OutOfBudget, Interrupt, EndedIs, CancelIs, MainIs, Failure, Bad,
    TypeOK
<1>1. ASSUME NEW t \in Threads, RoleStep(t) \/ (main # "gone" /\ Timeout(t)) PROVE CancelIs'
  <2> main # "gone"
    BY <1>1 DEF RoleStep
  <2>1. CASE Starts(t)
    BY <2>1 DEF Starts
  <2>2. CASE Enter(t)
    BY <2>2 DEF Enter
  <2>3. CASE Tries(t)
    BY <2>3 DEF Tries
  <2>4. CASE Spawn(t)
    BY <2>4 DEF Spawn
  <2>5. CASE SpawnFails(t)
    BY <2>5 DEF SpawnFails
  <2>6. CASE Register(t)
    BY <2>6 DEF Register
  <2>7. CASE Publish(t)
    BY <2>7 DEF Publish
  <2>8. CASE PollInterrupted(t)
    BY <2>8 DEF PollInterrupted
  <2>9. CASE PollRefreshes(t)
    BY <2>9 DEF PollRefreshes
  <2>10. CASE Terminate(t)
    BY <2>10 DEF Terminate
  <2>11. CASE Interrupted(t)
    BY <2>11 DEF Interrupted
  <2>12. CASE JudgeStopped(t)
    BY <2>12 DEF JudgeStopped
  <2>13. CASE JudgeCutOff(t)
    BY <2>13 DEF JudgeCutOff
  <2>14. CASE JudgeAccepts(t)
    BY <2>14 DEF JudgeAccepts
  <2>15. CASE JudgeFails(t)
    BY <2>15 DEF JudgeFails
  <2>16. CASE SummaryFailed(t)
    BY <2>16 DEF SummaryFailed
  <2>17. CASE Write(t)
    BY <2>17 DEF Write
  <2>18. CASE Done(t)
    BY <2>18 DEF Done
  <2>19. CASE Timeout(t)
    BY <2>19 DEF Timeout
  <2> QED
    BY <1>1, <2>1, <2>2, <2>3, <2>4, <2>5, <2>6, <2>7, <2>8, <2>9, <2>10, <2>11, <2>12, <2>13,
      <2>14, <2>15, <2>16, <2>17, <2>18, <2>19 DEF RoleStep
<1>2. CASE MainStep
  <2>1. CASE ParallelFails
    BY <2>1 DEF ParallelFails, MainGoes, Quietly
  <2>2. CASE ParallelEnds
    BY <2>2 DEF ParallelEnds, MainGoes, Quietly
  <2>3. CASE BesideFails
    BY <2>3 DEF BesideFails, MainGoes, Quietly
  <2>4. CASE BesideGoesOn
    BY <2>4 DEF BesideGoesOn, MainGoes, Quietly
  <2>5. CASE SideEnds
    BY <2>5 DEF SideEnds, MainGoes, Quietly
  <2>6. CASE Cancels
    BY <2>6 DEF Cancels, MainGoes, Quietly
  <2>7. CASE KillAll
    BY <2>7 DEF KillAll, MainGoes, Quietly
  <2>8. CASE DropAll
    BY <2>8 DEF DropAll, MainGoes, Quietly
  <2>9. CASE Exit
    BY <2>9 DEF Exit, MainGoes, Quietly
  <2> QED
    BY <1>2, <2>1, <2>2, <2>3, <2>4, <2>5, <2>6, <2>7, <2>8, <2>9 DEF MainStep
<1>3. CASE KidEnds
  BY <1>3 DEF KidEnds
<1>4. CASE Deadline
  BY <1>4 DEF Deadline
<1>5. CASE StopSignal
  BY <1>5 DEF StopSignal
<1>6. CASE Handler
  BY <1>6 DEF Handler
<1>7. CASE Crash
  BY <1>7 DEF Crash
<1>8. CASE Resume
  BY <1>8 DEF Resume
<1>9. CASE UNCHANGED vars
  BY <1>9 DEF vars
<1> QED
  BY <1>1, <1>2, <1>3, <1>4, <1>5, <1>6, <1>7, <1>8, <1>9 DEF Next

\* The main thread.
LEMMA MainStepIs ==
    ASSUME TypeOK, Gone, EndedIs, CancelIs, MainIs, [Next]_vars
    PROVE  MainIs'
<1> USE DEF thread, mainv, flags, kidv, files, era, Go, Stays, Set, Note, Leave, Attempt,
    MayRetry, Failed, Judged, Unregister, Kills, Polls, TimedOut, Exited, Answered, Cached,
    Refreshed, CancelSet, OutOfBudget, Interrupt, EndedIs, CancelIs, MainIs, Failure, Bad,
    Answers, TypeOK, SideRaises, Over
<1> USE DEF Threads
<1>1. ASSUME NEW t \in Threads, RoleStep(t) \/ (main # "gone" /\ Timeout(t)) PROVE MainIs'
  <2> main # "gone"
    BY <1>1 DEF RoleStep
  <2>1. CASE Starts(t)
    BY <2>1 DEF Starts
  <2>2. CASE Enter(t)
    BY <2>2 DEF Enter
  <2>3. CASE Tries(t)
    BY <2>3 DEF Tries
  <2>4. CASE Spawn(t)
    BY <2>4 DEF Spawn
  <2>5. CASE SpawnFails(t)
    BY <2>5 DEF SpawnFails
  <2>6. CASE Register(t)
    BY <2>6 DEF Register
  <2>7. CASE Publish(t)
    BY <2>7 DEF Publish
  <2>8. CASE PollInterrupted(t)
    BY <2>8 DEF PollInterrupted
  <2>9. CASE PollRefreshes(t)
    BY <2>9 DEF PollRefreshes
  <2>10. CASE Terminate(t)
    BY <2>10 DEF Terminate
  <2>11. CASE Interrupted(t)
    BY <2>11 DEF Interrupted
  <2>12. CASE JudgeStopped(t)
    BY <2>12 DEF JudgeStopped
  <2>13. CASE JudgeCutOff(t)
    BY <2>13 DEF JudgeCutOff
  <2>14. CASE JudgeAccepts(t)
    BY <2>14 DEF JudgeAccepts
  <2>15. CASE JudgeFails(t)
    BY <2>15 DEF JudgeFails
  <2>16. CASE SummaryFailed(t)
    BY <2>16 DEF SummaryFailed
  <2>17. CASE Write(t)
    BY <2>17 DEF Write
  <2>18. CASE Done(t)
    BY <2>18 DEF Done
  <2>19. CASE Timeout(t)
    BY <2>19 DEF Timeout
  <2> QED
    BY <1>1, <2>1, <2>2, <2>3, <2>4, <2>5, <2>6, <2>7, <2>8, <2>9, <2>10, <2>11, <2>12, <2>13,
      <2>14, <2>15, <2>16, <2>17, <2>18, <2>19 DEF RoleStep
<1>2. CASE MainStep
  <2>1. CASE ParallelFails
    BY <2>1 DEF ParallelFails, MainGoes, Quietly
  <2>2. CASE ParallelEnds
    BY <2>2 DEF ParallelEnds, MainGoes, Quietly
  <2>3. CASE BesideFails
    BY <2>3 DEF BesideFails, MainGoes, Quietly
  <2>4. CASE BesideGoesOn
    BY <2>4 DEF BesideGoesOn, MainGoes, Quietly
  <2>5. CASE SideEnds
    BY <2>5 DEF SideEnds, MainGoes, Quietly
  <2>6. CASE Cancels
    BY <2>6 DEF Cancels, MainGoes, Quietly
  <2>7. CASE KillAll
    BY <2>7 DEF KillAll, MainGoes, Quietly
  <2>8. CASE DropAll
    BY <2>8 DEF DropAll, MainGoes, Quietly
  <2>9. CASE Exit
    BY <2>9 DEF Exit, MainGoes, Quietly
  <2> QED
    BY <1>2, <2>1, <2>2, <2>3, <2>4, <2>5, <2>6, <2>7, <2>8, <2>9 DEF MainStep
<1>3. CASE KidEnds
  BY <1>3 DEF KidEnds
<1>4. CASE Deadline
  BY <1>4 DEF Deadline
<1>5. CASE StopSignal
  BY <1>5 DEF StopSignal
<1>6. CASE Handler
  BY <1>6 DEF Handler
<1>7. CASE Crash
  BY <1>7 DEF Crash
<1>8. CASE Resume
  BY <1>8 DEF Resume
<1>9. CASE UNCHANGED vars
  BY <1>9 DEF vars
<1> QED
  BY <1>1, <1>2, <1>3, <1>4, <1>5, <1>6, <1>7, <1>8, <1>9 DEF Next

-----------------------------------------------------------------------------
(* What a step does to the children *)

\* A thread's step leaves the other's alone.
Others(t) ==
    /\ main # "gone" /\ UNCHANGED <<main, victims, lost, crashes>>
    /\ \A u \in Threads \ {t} : pc'[u] = pc[u] /\ frame'[u] = frame[u] /\ att'[u] = att[u] /\ snap'[u] = snap[u]

\* It goes on without a child, or with the next attempt; or it has done with its child.
Onward(t) == \A k \in AllKids : k[2] = t /\ Behind(k) => Behind(k)'
GoesOn(t) ==
    /\ pc[t] \in Quiet /\ pc'[t] \in Quiet /\ UNCHANGED <<alive, procs, disk>> /\ Onward(t)
IsThrough(t) ==
    /\ pc[t] \in {"poll", "drop"} /\ Kid(t) \notin alive /\ pc'[t] \in Quiet
    /\ alive' = alive /\ Unregister({Kid(t)}) /\ Onward(t)

\* It stays with its child.
Keeps(t) == frame'[t] = frame[t] /\ att'[t] = att[t]
Asks(t) == pc[t] = "poll" /\ pc'[t] = "terminate" /\ UNCHANGED <<alive, procs, disk>>
Begets(t) == pc[t] = "spawn" /\ pc'[t] = "register" /\ alive' = alive \cup {Kid(t)} /\ UNCHANGED <<procs, disk>>
Registers(t) ==
    /\ pc[t] = "register" /\ pc'[t] = "publish" /\ UNCHANGED <<alive, disk>>
    /\ procs' = procs \cup {Kid(t)} /\ snap'[t] = procs' \cap alive
Publishes(t) ==
    /\ pc[t] = "publish" /\ pc'[t] = "poll" /\ UNCHANGED <<alive, procs>>
    /\ disk' = (disk \cap alive) \cup snap[t]
Looks(t) ==
    /\ pc[t] = "poll" /\ pc'[t] = "publish" /\ UNCHANGED <<alive, procs, disk>>
    /\ snap'[t] = procs \cap alive
Ends(t) ==
    /\ pc[t] = "terminate" /\ pc'[t] = "drop" /\ UNCHANGED <<procs, disk>>
    /\ alive' = alive \ {Kid(t)}
StaysWith(t) == Keeps(t) /\ (Asks(t) \/ Begets(t) \/ Registers(t) \/ Publishes(t) \/ Looks(t) \/ Ends(t))

Works(t) == Others(t) /\ (GoesOn(t) \/ IsThrough(t) \/ StaysWith(t))

\* The main thread and the world: nothing of it, some children fewer, or those of current_procs.
Rests ==
    /\ UNCHANGED <<frame, att, snap, alive, procs, disk, victims, lost, crashes>>
    /\ main' = "gone" <=> main = "gone"
    /\ \A t \in Threads : pc'[t] = pc[t] \/ (pc[t] = "idle" /\ pc'[t] = "ended")
Dies == UNCHANGED <<pc, frame, att, snap, procs, disk, victims, lost, crashes, main>> /\ alive' \subseteq alive

\* Every step of a thread is one of these.
LEMMA ThreadWorks ==
    ASSUME TypeOK, InHand, NEW t \in Threads, RoleStep(t) \/ (main # "gone" /\ Timeout(t))
    PROVE  Works(t)
<1> USE DEF thread, mainv, flags, kidv, files, era, Go, Stays, Set, Leave, Attempt, MayRetry,
    Failed, Judged, Unregister, Kills, Polls, TimedOut, Exited, Refreshed
<1>m. main # "gone"
  BY DEF RoleStep
<1>k. \A k \in AllKids : k[1] \in 0..MaxCrashes /\ k[3] \in 1..MaxAttempts /\ k[4] \in 0..MaxAttempts
  BY KidsType
<1>h. Kid(t)[1] = crashes /\ Kid(t)[2] = t
  BY KidIs
<1>b. MaxAttempts \in Nat /\ MaxCrashes \in Nat
  BY BoundsAssumption
<1>1. CASE Starts(t)
  <2>1. pc[t] \in Quiet /\ pc'[t] \in Quiet
    BY <1>1, <1>m, <1>b DEF Starts, Quiet, TypeOK
  <2>2. Others(t) /\ UNCHANGED <<alive, procs, disk>>
    BY <1>1, <1>m, <1>b DEF Starts, Others, TypeOK
  <2>3. Onward(t)
    BY <1>1, <1>m, <1>b, <1>k DEF Starts, Onward, Behind, TypeOK, Named
  <2> QED
    BY <2>1, <2>2, <2>3 DEF Works, GoesOn
<1>2. CASE Enter(t)
  <2>1. pc[t] \in Quiet /\ pc'[t] \in Quiet
    BY <1>2, <1>m, <1>b DEF Enter, Quiet, TypeOK
  <2>2. Others(t) /\ UNCHANGED <<alive, procs, disk>>
    BY <1>2, <1>m, <1>b DEF Enter, Others, TypeOK
  <2>3. Onward(t)
    BY <1>2, <1>m, <1>b, <1>k DEF Enter, Onward, Behind, TypeOK, Named
  <2> QED
    BY <2>1, <2>2, <2>3 DEF Works, GoesOn
<1>3. CASE Tries(t)
  <2>1. pc[t] \in Quiet /\ pc'[t] \in Quiet
    BY <1>3, <1>m, <1>b DEF Tries, Quiet, TypeOK
  <2>2. Others(t) /\ UNCHANGED <<alive, procs, disk>>
    BY <1>3, <1>m, <1>b DEF Tries, Others, TypeOK
  <2>3. Onward(t)
    BY <1>3, <1>m, <1>b, <1>k DEF Tries, Onward, Behind, TypeOK, Named
  <2> QED
    BY <2>1, <2>2, <2>3 DEF Works, GoesOn
<1>4. CASE Spawn(t)
  BY <1>4, <1>m, <1>b DEF Spawn, Others, Works, StaysWith, Keeps, Asks, Begets, Registers,
    Publishes, Looks, Ends, TypeOK
<1>5. CASE SpawnFails(t)
  <2>1. pc[t] \in Quiet /\ pc'[t] \in Quiet
    BY <1>5, <1>m, <1>b DEF SpawnFails, Quiet, TypeOK
  <2>2. Others(t) /\ UNCHANGED <<alive, procs, disk>>
    BY <1>5, <1>m, <1>b DEF SpawnFails, Others, TypeOK
  <2>3. Onward(t)
    BY <1>5, <1>m, <1>b, <1>k DEF SpawnFails, Onward, Behind, TypeOK, Named
  <2> QED
    BY <2>1, <2>2, <2>3 DEF Works, GoesOn
<1>6. CASE Register(t)
  BY <1>6, <1>m, <1>b DEF Register, Others, Works, StaysWith, Keeps, Asks, Begets, Registers,
    Publishes, Looks, Ends, TypeOK
<1>7. CASE Publish(t)
  BY <1>7, <1>m, <1>b DEF Publish, Others, Works, StaysWith, Keeps, Asks, Begets, Registers,
    Publishes, Looks, Ends, TypeOK
<1>8. CASE PollInterrupted(t)
  BY <1>8, <1>m, <1>b DEF PollInterrupted, Others, Works, StaysWith, Keeps, Asks, Begets,
    Registers, Publishes, Looks, Ends, TypeOK
<1>9. CASE PollRefreshes(t)
  BY <1>9, <1>m, <1>b DEF PollRefreshes, Others, Works, StaysWith, Keeps, Asks, Begets,
    Registers, Publishes, Looks, Ends, TypeOK
<1>10. CASE Terminate(t)
  BY <1>10, <1>m, <1>b DEF Terminate, Others, Works, StaysWith, Keeps, Asks, Begets, Registers,
    Publishes, Looks, Ends, TypeOK
<1>11. CASE Interrupted(t)
  <2>1. pc[t] \in {"poll", "drop"} /\ pc'[t] \in Quiet
    BY <1>11, <1>m, <1>b DEF Interrupted, Quiet, TypeOK
  <2>2. Others(t) /\ alive' = alive /\ Unregister({Kid(t)})
    BY <1>11, <1>m, <1>b DEF Interrupted, Others, TypeOK
  <2>3. Onward(t)
    BY <1>11, <1>m, <1>b, <1>k DEF Interrupted, Onward, Behind, TypeOK, Named
  <2>4. Kid(t) \notin alive
    BY <1>11, <1>m, <1>b, <1>h, KidIs DEF Interrupted, InHand, Held
  <2> QED
    BY <2>1, <2>2, <2>3, <2>4 DEF Works, IsThrough
<1>12. CASE JudgeStopped(t)
  <2>1. pc[t] \in {"poll", "drop"} /\ pc'[t] \in Quiet
    BY <1>12, <1>m, <1>b DEF JudgeStopped, Quiet, TypeOK
  <2>2. Others(t) /\ alive' = alive /\ Unregister({Kid(t)})
    BY <1>12, <1>m, <1>b DEF JudgeStopped, Others, TypeOK
  <2>3. Onward(t)
    BY <1>12, <1>m, <1>b, <1>k DEF JudgeStopped, Onward, Behind, TypeOK, Named
  <2>4. Kid(t) \notin alive
    BY <1>12, <1>m, <1>b, <1>h, KidIs DEF JudgeStopped, InHand, Held
  <2> QED
    BY <2>1, <2>2, <2>3, <2>4 DEF Works, IsThrough
<1>13. CASE JudgeCutOff(t)
  <2>1. pc[t] \in {"poll", "drop"} /\ pc'[t] \in Quiet
    BY <1>13, <1>m, <1>b DEF JudgeCutOff, Quiet, TypeOK
  <2>2. Others(t) /\ alive' = alive /\ Unregister({Kid(t)})
    BY <1>13, <1>m, <1>b DEF JudgeCutOff, Others, TypeOK
  <2>3. Onward(t)
    BY <1>13, <1>m, <1>b, <1>k DEF JudgeCutOff, Onward, Behind, TypeOK, Named
  <2>4. Kid(t) \notin alive
    BY <1>13, <1>m, <1>b, <1>h, KidIs DEF JudgeCutOff, InHand, Held
  <2> QED
    BY <2>1, <2>2, <2>3, <2>4 DEF Works, IsThrough
<1>14. CASE JudgeAccepts(t)
  <2>1. pc[t] \in {"poll", "drop"} /\ pc'[t] \in Quiet
    BY <1>14, <1>m, <1>b DEF JudgeAccepts, Quiet, TypeOK
  <2>2. Others(t) /\ alive' = alive /\ Unregister({Kid(t)})
    BY <1>14, <1>m, <1>b DEF JudgeAccepts, Others, TypeOK
  <2>3. Onward(t)
    BY <1>14, <1>m, <1>b, <1>k DEF JudgeAccepts, Onward, Behind, TypeOK, Named
  <2>4. Kid(t) \notin alive
    BY <1>14, <1>m, <1>b, <1>h, KidIs DEF JudgeAccepts, InHand, Held
  <2> QED
    BY <2>1, <2>2, <2>3, <2>4 DEF Works, IsThrough
<1>15. CASE JudgeFails(t)
  <2>1. pc[t] \in {"poll", "drop"} /\ pc'[t] \in Quiet
    BY <1>15, <1>m, <1>b DEF JudgeFails, Quiet, TypeOK
  <2>2. Others(t) /\ alive' = alive /\ Unregister({Kid(t)})
    BY <1>15, <1>m, <1>b DEF JudgeFails, Others, TypeOK
  <2>3. Onward(t)
    BY <1>15, <1>m, <1>b, <1>k DEF JudgeFails, Onward, Behind, TypeOK, Named
  <2>4. Kid(t) \notin alive
    BY <1>15, <1>m, <1>b, <1>h, KidIs DEF JudgeFails, InHand, Held
  <2> QED
    BY <2>1, <2>2, <2>3, <2>4 DEF Works, IsThrough
<1>16. CASE SummaryFailed(t)
  <2>1. pc[t] \in Quiet /\ pc'[t] \in Quiet
    BY <1>16, <1>m, <1>b DEF SummaryFailed, Quiet, TypeOK
  <2>2. Others(t) /\ UNCHANGED <<alive, procs, disk>>
    BY <1>16, <1>m, <1>b DEF SummaryFailed, Others, TypeOK
  <2>3. Onward(t)
    BY <1>16, <1>m, <1>b, <1>k DEF SummaryFailed, Onward, Behind, TypeOK, Named
  <2> QED
    BY <2>1, <2>2, <2>3 DEF Works, GoesOn
<1>17. CASE Write(t)
  <2>1. pc[t] \in Quiet /\ pc'[t] \in Quiet
    BY <1>17, <1>m, <1>b DEF Write, Quiet, TypeOK
  <2>2. Others(t) /\ UNCHANGED <<alive, procs, disk>>
    BY <1>17, <1>m, <1>b DEF Write, Others, TypeOK
  <2>3. Onward(t)
    BY <1>17, <1>m, <1>b, <1>k DEF Write, Onward, Behind, TypeOK, Named
  <2> QED
    BY <2>1, <2>2, <2>3 DEF Works, GoesOn
<1>18. CASE Done(t)
  <2>1. pc[t] \in Quiet /\ pc'[t] \in Quiet
    BY <1>18, <1>m, <1>b DEF Done, Quiet, TypeOK
  <2>2. Others(t) /\ UNCHANGED <<alive, procs, disk>>
    BY <1>18, <1>m, <1>b DEF Done, Others, TypeOK
  <2>3. Onward(t)
    BY <1>18, <1>m, <1>b, <1>k DEF Done, Onward, Behind, TypeOK, Named
  <2> QED
    BY <2>1, <2>2, <2>3 DEF Works, GoesOn
<1>19. CASE Timeout(t)
  BY <1>19, <1>m, <1>b DEF Timeout, Others, Works, StaysWith, Keeps, Asks, Begets, Registers,
    Publishes, Looks, Ends, TypeOK
<1> QED
  BY <1>1, <1>2, <1>3, <1>4, <1>5, <1>6, <1>7, <1>8, <1>9, <1>10, <1>11, <1>12, <1>13, <1>14,
    <1>15, <1>16, <1>17, <1>18, <1>19 DEF RoleStep

\* Every other step is one of these.
LEMMA StepKinds ==
    ASSUME TypeOK, InHand, [Next]_vars
    PROVE  (\E t \in Threads : Works(t)) \/ Rests \/ Dies \/ KillAll \/ DropAll \/ Crash \/ Resume
<1> USE DEF thread, mainv, flags, kidv, files, era
<1>1. CASE \E t \in Threads : RoleStep(t) \/ (main # "gone" /\ Timeout(t))
  BY <1>1, ThreadWorks
<1>2. CASE ParallelFails \/ ParallelEnds \/ BesideFails \/ BesideGoesOn
  BY <1>2 DEF ParallelFails, ParallelEnds, BesideFails, BesideGoesOn, MainGoes, Quietly, Rests,
    TypeOK
<1>3. CASE SideEnds \/ Cancels \/ Exit
  BY <1>3 DEF SideEnds, Cancels, Exit, MainGoes, Quietly, Rests, TypeOK
<1>4. CASE Deadline \/ Handler \/ UNCHANGED vars
  BY <1>4 DEF Deadline, Handler, Rests, vars, TypeOK
<1>5. CASE KidEnds \/ StopSignal
  BY <1>5 DEF KidEnds, StopSignal, Kills, Dies
<1> QED
  BY <1>1, <1>2, <1>3, <1>4, <1>5 DEF Next, MainStep

\* The children that are alive.
LEMMA InHandStep ==
    ASSUME TypeOK, Gone, InHand, [Next]_vars
    PROVE  InHand'
<1> USE DEF Unregister, Kills, thread, kidv, era, files, flags, InHand, Held, Quiet
<1>m. MaxAttempts \in Nat /\ MaxCrashes \in Nat /\ crashes \in 0..MaxCrashes
  BY BoundsAssumption DEF TypeOK
<1>a. /\ alive \subseteq AllKids /\ procs \subseteq AllKids /\ victims \subseteq AllKids
      /\ \A k \in AllKids : k[1] \in 0..MaxCrashes /\ k[2] \in Threads /\ k[3] \in 1..MaxAttempts /\ k[4] \in 0..MaxAttempts
  BY KidsType DEF TypeOK
<1>k. \A t \in Threads : /\ Kid(t) \in AllKids /\ Kid(t)[1] = crashes /\ Kid(t)[2] = t /\ Kid(t)[3] = att[t].role
                         /\ frame[t] \in {"role", "cutoff"}
                         /\ frame[t] = "role" => Kid(t)[4] = 0
                         /\ frame[t] = "cutoff" => Kid(t)[4] = att[t].cutoff
  BY KidIs DEF TypeOK
<1>p. \A t \in Threads : crashes' = crashes /\ frame'[t] = frame[t] /\ att'[t] = att[t] => Kid(t)' = Kid(t)
  BY KidStays
<1>1. ASSUME NEW t \in Threads, Works(t) PROVE InHand'
  <2>o. /\ main # "gone" /\ UNCHANGED <<main, victims, lost, crashes>>
        /\ \A u \in Threads \ {t} : /\ pc'[u] = pc[u] /\ frame'[u] = frame[u] /\ att'[u] = att[u]
                                    /\ snap'[u] = snap[u] /\ Kid(u)' = Kid(u)
    BY <1>1, <1>p DEF Works, Others
  <2>1. CASE GoesOn(t)
    BY <2>1, <2>o, <1>k, <1>a DEF GoesOn
  <2>2. CASE IsThrough(t)
    BY <2>2, <2>o, <1>k, <1>a DEF IsThrough
  <2>3. CASE Keeps(t) /\ Asks(t)
    <3>k. Kid(t)' = Kid(t)
      BY <2>3, <2>o, <1>p DEF Keeps
    <3> QED
      BY <2>3, <2>o, <1>k, <1>a, <3>k DEF Asks, Keeps
  <2>4. CASE Keeps(t) /\ Begets(t)
    <3>k. Kid(t)' = Kid(t)
      BY <2>4, <2>o, <1>p DEF Keeps
    <3> QED
      BY <2>4, <2>o, <1>k, <1>a, <3>k DEF Begets, Keeps
  <2>5. CASE Keeps(t) /\ Registers(t)
    <3>k. Kid(t)' = Kid(t)
      BY <2>5, <2>o, <1>p DEF Keeps
    <3> QED
      BY <2>5, <2>o, <1>k, <1>a, <3>k DEF Registers, Keeps
  <2>6. CASE Keeps(t) /\ Publishes(t)
    <3>k. Kid(t)' = Kid(t)
      BY <2>6, <2>o, <1>p DEF Keeps
    <3> QED
      BY <2>6, <2>o, <1>k, <1>a, <3>k DEF Publishes, Keeps
  <2>7. CASE Keeps(t) /\ Looks(t)
    <3>k. Kid(t)' = Kid(t)
      BY <2>7, <2>o, <1>p DEF Keeps
    <3> QED
      BY <2>7, <2>o, <1>k, <1>a, <3>k DEF Looks, Keeps
  <2>8. CASE Keeps(t) /\ Ends(t)
    <3>k. Kid(t)' = Kid(t)
      BY <2>8, <2>o, <1>p DEF Keeps
    <3> QED
      BY <2>8, <2>o, <1>k, <1>a, <3>k DEF Ends, Keeps
  <2> QED
    BY <1>1, <2>1, <2>2, <2>3, <2>4, <2>5, <2>6, <2>7, <2>8 DEF Works, StaysWith
<1>2. CASE Rests
  BY <1>2, <1>k, <1>a, <1>p, <1>m DEF Rests
<1>3. CASE Dies
  BY <1>3, <1>k, <1>a, <1>p, <1>m DEF Dies
<1>4. CASE KillAll
  BY <1>4, <1>k, <1>a, <1>p, <1>m DEF KillAll
<1>5. CASE DropAll
  BY <1>5, <1>k, <1>a, <1>p, <1>m DEF DropAll
<1>6. CASE Crash
  BY <1>6, <1>k, <1>a, <1>p, <1>m DEF Crash
<1>7. CASE Resume
  BY <1>7, <1>k, <1>a, <1>p, <1>m DEF Resume
<1> QED
  BY <1>1, <1>2, <1>3, <1>4, <1>5, <1>6, <1>7, StepKinds

\* The children that are registered.
LEMMA ProcsStep ==
    ASSUME TypeOK, Gone, InHand, ProcsAre, [Next]_vars
    PROVE  ProcsAre'
<1> USE DEF Unregister, Kills, thread, kidv, era, files, flags, ProcsAre, Named, Quiet
<1>m. MaxAttempts \in Nat /\ MaxCrashes \in Nat /\ crashes \in 0..MaxCrashes
  BY BoundsAssumption DEF TypeOK
<1>a. /\ alive \subseteq AllKids /\ procs \subseteq AllKids /\ victims \subseteq AllKids
      /\ \A k \in AllKids : k[1] \in 0..MaxCrashes /\ k[2] \in Threads /\ k[3] \in 1..MaxAttempts /\ k[4] \in 0..MaxAttempts
  BY KidsType DEF TypeOK
<1>k. \A t \in Threads : /\ Kid(t) \in AllKids /\ Kid(t)[1] = crashes /\ Kid(t)[2] = t /\ Kid(t)[3] = att[t].role
                         /\ frame[t] \in {"role", "cutoff"}
                         /\ frame[t] = "role" => Kid(t)[4] = 0
                         /\ frame[t] = "cutoff" => Kid(t)[4] = att[t].cutoff
  BY KidIs DEF TypeOK
<1>p. \A t \in Threads : crashes' = crashes /\ frame'[t] = frame[t] /\ att'[t] = att[t] => Kid(t)' = Kid(t)
  BY KidStays
<1>1. ASSUME NEW t \in Threads, Works(t) PROVE ProcsAre'
  <2>o. /\ main # "gone" /\ UNCHANGED <<main, victims, lost, crashes>>
        /\ \A u \in Threads \ {t} : /\ pc'[u] = pc[u] /\ frame'[u] = frame[u] /\ att'[u] = att[u]
                                    /\ snap'[u] = snap[u] /\ Kid(u)' = Kid(u)
    BY <1>1, <1>p DEF Works, Others
  <2>1. CASE GoesOn(t)
    BY <2>1, <2>o, <1>k, <1>a DEF GoesOn
  <2>2. CASE IsThrough(t)
    BY <2>2, <2>o, <1>k, <1>a DEF IsThrough
  <2>3. CASE Keeps(t) /\ Asks(t)
    <3>k. Kid(t)' = Kid(t)
      BY <2>3, <2>o, <1>p DEF Keeps
    <3> QED
      BY <2>3, <2>o, <1>k, <1>a, <3>k DEF Asks, Keeps
  <2>4. CASE Keeps(t) /\ Begets(t)
    <3>k. Kid(t)' = Kid(t)
      BY <2>4, <2>o, <1>p DEF Keeps
    <3> QED
      BY <2>4, <2>o, <1>k, <1>a, <3>k DEF Begets, Keeps
  <2>5. CASE Keeps(t) /\ Registers(t)
    <3>k. Kid(t)' = Kid(t)
      BY <2>5, <2>o, <1>p DEF Keeps
    <3> QED
      BY <2>5, <2>o, <1>k, <1>a, <3>k DEF Registers, Keeps
  <2>6. CASE Keeps(t) /\ Publishes(t)
    <3>k. Kid(t)' = Kid(t)
      BY <2>6, <2>o, <1>p DEF Keeps
    <3> QED
      BY <2>6, <2>o, <1>k, <1>a, <3>k DEF Publishes, Keeps
  <2>7. CASE Keeps(t) /\ Looks(t)
    <3>k. Kid(t)' = Kid(t)
      BY <2>7, <2>o, <1>p DEF Keeps
    <3> QED
      BY <2>7, <2>o, <1>k, <1>a, <3>k DEF Looks, Keeps
  <2>8. CASE Keeps(t) /\ Ends(t)
    <3>k. Kid(t)' = Kid(t)
      BY <2>8, <2>o, <1>p DEF Keeps
    <3> QED
      BY <2>8, <2>o, <1>k, <1>a, <3>k DEF Ends, Keeps
  <2> QED
    BY <1>1, <2>1, <2>2, <2>3, <2>4, <2>5, <2>6, <2>7, <2>8 DEF Works, StaysWith
<1>2. CASE Rests
  BY <1>2, <1>k, <1>a, <1>p, <1>m DEF Rests
<1>3. CASE Dies
  BY <1>3, <1>k, <1>a, <1>p, <1>m DEF Dies
<1>4. CASE KillAll
  BY <1>4, <1>k, <1>a, <1>p, <1>m DEF KillAll
<1>5. CASE DropAll
  BY <1>5, <1>k, <1>a, <1>p, <1>m DEF DropAll
<1>6. CASE Crash
  BY <1>6, <1>k, <1>a, <1>p, <1>m DEF Crash
<1>7. CASE Resume
  BY <1>7, <1>k, <1>a DEF Resume, Gone
<1> QED
  BY <1>1, <1>2, <1>3, <1>4, <1>5, <1>6, <1>7, StepKinds

LEMMA BehindStays ==
    ASSUME NEW k, pc'[k[2]] = pc[k[2]], frame'[k[2]] = frame[k[2]], att'[k[2]] = att[k[2]],
           Behind(k)
    PROVE  Behind(k)'
    BY DEF Behind

LEMMA BehindKept ==
    ASSUME NEW k, pc[k[2]] \in Named => pc'[k[2]] \in Named, pc[k[2]] \in Named \cup {"spawn",
           "register"},
           frame'[k[2]] = frame[k[2]], att'[k[2]] = att[k[2]], Behind(k)
    PROVE  Behind(k)'
    BY DEF Behind, Named

\* The children that are killed with the phase.
LEMMA TakenStep ==
    ASSUME TypeOK, Gone, InHand, ProcsAre, Taken, [Next]_vars
    PROVE  Taken'
<1> USE DEF Unregister, Kills, thread, kidv, era, files, flags, Quiet
<1>m. MaxAttempts \in Nat /\ MaxCrashes \in Nat /\ crashes \in 0..MaxCrashes
  BY BoundsAssumption DEF TypeOK
<1>a. /\ alive \subseteq AllKids /\ procs \subseteq AllKids /\ victims \subseteq AllKids
      /\ \A k \in AllKids : k[1] \in 0..MaxCrashes /\ k[2] \in Threads /\ k[3] \in 1..MaxAttempts /\ k[4] \in 0..MaxAttempts
  BY KidsType DEF TypeOK
<1>k. \A t \in Threads : /\ Kid(t) \in AllKids /\ Kid(t)[1] = crashes /\ Kid(t)[2] = t /\ Kid(t)[3] = att[t].role
                         /\ frame[t] \in {"role", "cutoff"}
                         /\ frame[t] = "role" => Kid(t)[4] = 0
                         /\ frame[t] = "cutoff" => Kid(t)[4] = att[t].cutoff
  BY KidIs DEF TypeOK
<1>p. \A t \in Threads : crashes' = crashes /\ frame'[t] = frame[t] /\ att'[t] = att[t] => Kid(t)' = Kid(t)
  BY KidStays
<1>1. ASSUME NEW t \in Threads, Works(t) PROVE Taken'
  <2>o. /\ main # "gone" /\ UNCHANGED <<main, victims, lost, crashes>>
        /\ \A u \in Threads \ {t} : /\ pc'[u] = pc[u] /\ frame'[u] = frame[u] /\ att'[u] = att[u]
                                    /\ snap'[u] = snap[u] /\ Kid(u)' = Kid(u)
    BY <1>1, <1>p DEF Works, Others
  <2>1. CASE GoesOn(t)
    <3>1. ASSUME NEW k \in victims PROVE Behind(k)'
      <4>1. Behind(k) /\ k[2] \in Threads
        BY <2>1, <2>o, <1>k, <1>a DEF Taken
      <4>2. CASE k[2] = t
        BY <2>1, <2>o, <1>k, <1>a, <4>1, <4>2 DEF GoesOn, IsThrough, Onward
      <4>3. CASE k[2] # t
        BY <2>1, <2>o, <1>k, <1>a, <4>1, <4>3, BehindStays
      <4> QED
        BY <4>2, <4>3
    <3>3. \A k \in victims : k \notin alive'
      BY <2>1, <2>o, <1>k, <1>a DEF GoesOn, Taken
    <3> QED
      BY <2>o, <3>1, <3>3 DEF Taken
  <2>2. CASE IsThrough(t)
    <3>1. ASSUME NEW k \in victims PROVE Behind(k)'
      <4>1. Behind(k) /\ k[2] \in Threads
        BY <2>2, <2>o, <1>k, <1>a DEF Taken
      <4>2. CASE k[2] = t
        BY <2>2, <2>o, <1>k, <1>a, <4>1, <4>2 DEF GoesOn, IsThrough, Onward
      <4>3. CASE k[2] # t
        BY <2>2, <2>o, <1>k, <1>a, <4>1, <4>3, BehindStays
      <4> QED
        BY <4>2, <4>3
    <3>3. \A k \in victims : k \notin alive'
      BY <2>2, <2>o, <1>k, <1>a DEF IsThrough, Taken
    <3> QED
      BY <2>o, <3>1, <3>3 DEF Taken
  <2>3. CASE Keeps(t) /\ Asks(t)
    <3>k. Kid(t)' = Kid(t)
      BY <2>3, <2>o, <1>p DEF Keeps
    <3>1. ASSUME NEW k \in victims PROVE Behind(k)'
      <4>1. Behind(k) /\ k[2] \in Threads
        BY <2>3, <2>o, <1>k, <1>a DEF Taken
      <4>2. CASE k[2] = t
        BY <2>3, <2>o, <1>k, <1>a, <4>1, <4>2, BehindKept DEF Asks, Keeps, Named
      <4>3. CASE k[2] # t
        BY <2>3, <2>o, <1>k, <1>a, <4>1, <4>3, BehindStays
      <4> QED
        BY <4>2, <4>3
    <3>3. \A k \in victims : k \notin alive'
      BY <2>3, <2>o, <1>k, <1>a DEF Asks, Taken
    <3> QED
      BY <2>o, <3>1, <3>3 DEF Taken
  <2>4. CASE Keeps(t) /\ Begets(t)
    <3>k. Kid(t)' = Kid(t)
      BY <2>4, <2>o, <1>p DEF Keeps
    <3>1. ASSUME NEW k \in victims PROVE Behind(k)'
      <4>1. Behind(k) /\ k[2] \in Threads
        BY <2>4, <2>o, <1>k, <1>a DEF Taken
      <4>2. CASE k[2] = t
        BY <2>4, <2>o, <1>k, <1>a, <4>1, <4>2, BehindKept DEF Begets, Keeps, Named
      <4>3. CASE k[2] # t
        BY <2>4, <2>o, <1>k, <1>a, <4>1, <4>3, BehindStays
      <4> QED
        BY <4>2, <4>3
    <3>2. ~Behind(Kid(t))
      BY <2>4, <2>o, <1>k, <1>a, <1>m DEF Begets, Behind, Named, TypeOK
    <3>3. \A k \in victims : k \notin alive'
      BY <2>4, <2>o, <1>k, <1>a, <3>2 DEF Begets, Taken
    <3> QED
      BY <2>o, <3>1, <3>3 DEF Taken
  <2>5. CASE Keeps(t) /\ Registers(t)
    <3>k. Kid(t)' = Kid(t)
      BY <2>5, <2>o, <1>p DEF Keeps
    <3>1. ASSUME NEW k \in victims PROVE Behind(k)'
      <4>1. Behind(k) /\ k[2] \in Threads
        BY <2>5, <2>o, <1>k, <1>a DEF Taken
      <4>2. CASE k[2] = t
        BY <2>5, <2>o, <1>k, <1>a, <4>1, <4>2, BehindKept DEF Registers, Keeps, Named
      <4>3. CASE k[2] # t
        BY <2>5, <2>o, <1>k, <1>a, <4>1, <4>3, BehindStays
      <4> QED
        BY <4>2, <4>3
    <3>3. \A k \in victims : k \notin alive'
      BY <2>5, <2>o, <1>k, <1>a DEF Registers, Taken
    <3> QED
      BY <2>o, <3>1, <3>3 DEF Taken
  <2>6. CASE Keeps(t) /\ Publishes(t)
    <3>k. Kid(t)' = Kid(t)
      BY <2>6, <2>o, <1>p DEF Keeps
    <3>1. ASSUME NEW k \in victims PROVE Behind(k)'
      <4>1. Behind(k) /\ k[2] \in Threads
        BY <2>6, <2>o, <1>k, <1>a DEF Taken
      <4>2. CASE k[2] = t
        BY <2>6, <2>o, <1>k, <1>a, <4>1, <4>2, BehindKept DEF Publishes, Keeps, Named
      <4>3. CASE k[2] # t
        BY <2>6, <2>o, <1>k, <1>a, <4>1, <4>3, BehindStays
      <4> QED
        BY <4>2, <4>3
    <3>3. \A k \in victims : k \notin alive'
      BY <2>6, <2>o, <1>k, <1>a DEF Publishes, Taken
    <3> QED
      BY <2>o, <3>1, <3>3 DEF Taken
  <2>7. CASE Keeps(t) /\ Looks(t)
    <3>k. Kid(t)' = Kid(t)
      BY <2>7, <2>o, <1>p DEF Keeps
    <3>1. ASSUME NEW k \in victims PROVE Behind(k)'
      <4>1. Behind(k) /\ k[2] \in Threads
        BY <2>7, <2>o, <1>k, <1>a DEF Taken
      <4>2. CASE k[2] = t
        BY <2>7, <2>o, <1>k, <1>a, <4>1, <4>2, BehindKept DEF Looks, Keeps, Named
      <4>3. CASE k[2] # t
        BY <2>7, <2>o, <1>k, <1>a, <4>1, <4>3, BehindStays
      <4> QED
        BY <4>2, <4>3
    <3>3. \A k \in victims : k \notin alive'
      BY <2>7, <2>o, <1>k, <1>a DEF Looks, Taken
    <3> QED
      BY <2>o, <3>1, <3>3 DEF Taken
  <2>8. CASE Keeps(t) /\ Ends(t)
    <3>k. Kid(t)' = Kid(t)
      BY <2>8, <2>o, <1>p DEF Keeps
    <3>1. ASSUME NEW k \in victims PROVE Behind(k)'
      <4>1. Behind(k) /\ k[2] \in Threads
        BY <2>8, <2>o, <1>k, <1>a DEF Taken
      <4>2. CASE k[2] = t
        BY <2>8, <2>o, <1>k, <1>a, <4>1, <4>2, BehindKept DEF Ends, Keeps, Named
      <4>3. CASE k[2] # t
        BY <2>8, <2>o, <1>k, <1>a, <4>1, <4>3, BehindStays
      <4> QED
        BY <4>2, <4>3
    <3>3. \A k \in victims : k \notin alive'
      BY <2>8, <2>o, <1>k, <1>a DEF Ends, Taken
    <3> QED
      BY <2>o, <3>1, <3>3 DEF Taken
  <2> QED
    BY <1>1, <2>1, <2>2, <2>3, <2>4, <2>5, <2>6, <2>7, <2>8 DEF Works, StaysWith
<1>2. CASE Rests
  <2>1. ASSUME NEW k \in victims PROVE Behind(k)'
    <3>1. Behind(k) /\ k[2] \in Threads
      BY <1>2, <1>k, <1>a DEF Taken
    <3> QED
      BY <1>2, <1>k, <1>a, <3>1, BehindStays DEF Rests, Behind
  <2> QED
    BY <1>2, <1>k, <1>a, <2>1 DEF Rests, Taken
<1>3. CASE Dies
  <2>1. ASSUME NEW k \in victims PROVE Behind(k)'
    <3>1. Behind(k) /\ k[2] \in Threads
      BY <1>3, <1>k, <1>a DEF Taken
    <3> QED
      BY <1>3, <1>k, <1>a, <3>1, BehindStays DEF Dies, Behind
  <2> QED
    BY <1>3, <1>k, <1>a, <2>1 DEF Dies, Taken
<1>4. CASE KillAll
  <2>1. ASSUME NEW k \in procs PROVE Behind(k)'
    <3>1. k = Kid(k[2]) /\ pc[k[2]] \in Named /\ k[2] \in Threads
      BY <1>4, <1>k, <1>a DEF ProcsAre
    <3>2. Behind(k)
      <4>1. /\ k[3] = att[k[2]].role /\ frame[k[2]] \in {"role", "cutoff"}
            /\ frame[k[2]] = "role" => k[4] = 0
            /\ frame[k[2]] = "cutoff" => k[4] = att[k[2]].cutoff
        <5>1. PICK t \in Threads : t = k[2] /\ k = Kid(t)
          BY <3>1
        <5>2. /\ Kid(t)[3] = att[t].role /\ frame[t] \in {"role", "cutoff"}
              /\ frame[t] = "role" => Kid(t)[4] = 0
              /\ frame[t] = "cutoff" => Kid(t)[4] = att[t].cutoff
          BY <1>k
        <5> QED
          BY <5>1, <5>2
      <4> QED
        BY <3>1, <4>1 DEF Behind
    <3> QED
      BY <1>4, <1>k, <1>a, <3>2, BehindStays DEF KillAll
  <2> QED
    BY <1>4, <1>k, <1>a, <2>1 DEF KillAll, Taken
<1>5. CASE DropAll
  BY <1>5, <1>k, <1>a DEF DropAll, Taken
<1>6. CASE Crash
  BY <1>6, <1>k, <1>a DEF Crash, Taken
<1>7. CASE Resume
  BY <1>7, <1>k, <1>a DEF Resume, Taken, Gone
<1> QED
  BY <1>1, <1>2, <1>3, <1>4, <1>5, <1>6, <1>7, StepKinds

\* The children that are polled.
LEMMA RegisteredStep ==
    ASSUME TypeOK, Gone, InHand, ProcsAre, Taken, Registered, [Next]_vars
    PROVE  Registered'
<1> USE DEF Unregister, Kills, thread, kidv, era, files, flags, Registered, Taken, Named, Quiet
<1>m. MaxAttempts \in Nat /\ MaxCrashes \in Nat /\ crashes \in 0..MaxCrashes
  BY BoundsAssumption DEF TypeOK
<1>a. /\ alive \subseteq AllKids /\ procs \subseteq AllKids /\ victims \subseteq AllKids
      /\ \A k \in AllKids : k[1] \in 0..MaxCrashes /\ k[2] \in Threads /\ k[3] \in 1..MaxAttempts /\ k[4] \in 0..MaxAttempts
  BY KidsType DEF TypeOK
<1>k. \A t \in Threads : /\ Kid(t) \in AllKids /\ Kid(t)[1] = crashes /\ Kid(t)[2] = t /\ Kid(t)[3] = att[t].role
                         /\ frame[t] \in {"role", "cutoff"}
                         /\ frame[t] = "role" => Kid(t)[4] = 0
                         /\ frame[t] = "cutoff" => Kid(t)[4] = att[t].cutoff
  BY KidIs DEF TypeOK
<1>p. \A t \in Threads : crashes' = crashes /\ frame'[t] = frame[t] /\ att'[t] = att[t] => Kid(t)' = Kid(t)
  BY KidStays
<1>1. ASSUME NEW t \in Threads, Works(t) PROVE Registered'
  <2>o. /\ main # "gone" /\ UNCHANGED <<main, victims, lost, crashes>>
        /\ \A u \in Threads \ {t} : /\ pc'[u] = pc[u] /\ frame'[u] = frame[u] /\ att'[u] = att[u]
                                    /\ snap'[u] = snap[u] /\ Kid(u)' = Kid(u)
    BY <1>1, <1>p DEF Works, Others
  <2>1. CASE GoesOn(t)
    BY <2>1, <2>o, <1>k, <1>a DEF GoesOn
  <2>2. CASE IsThrough(t)
    BY <2>2, <2>o, <1>k, <1>a DEF IsThrough
  <2>3. CASE Keeps(t) /\ Asks(t)
    <3>k. Kid(t)' = Kid(t)
      BY <2>3, <2>o, <1>p DEF Keeps
    <3> QED
      BY <2>3, <2>o, <1>k, <1>a, <3>k DEF Asks, Keeps
  <2>4. CASE Keeps(t) /\ Begets(t)
    <3>k. Kid(t)' = Kid(t)
      BY <2>4, <2>o, <1>p DEF Keeps
    <3> QED
      BY <2>4, <2>o, <1>k, <1>a, <3>k DEF Begets, Keeps
  <2>5. CASE Keeps(t) /\ Registers(t)
    <3>k. Kid(t)' = Kid(t)
      BY <2>5, <2>o, <1>p DEF Keeps
    <3> QED
      BY <2>5, <2>o, <1>k, <1>a, <3>k DEF Registers, Keeps
  <2>6. CASE Keeps(t) /\ Publishes(t)
    <3>k. Kid(t)' = Kid(t)
      BY <2>6, <2>o, <1>p DEF Keeps
    <3> QED
      BY <2>6, <2>o, <1>k, <1>a, <3>k DEF Publishes, Keeps
  <2>7. CASE Keeps(t) /\ Looks(t)
    <3>k. Kid(t)' = Kid(t)
      BY <2>7, <2>o, <1>p DEF Keeps
    <3> QED
      BY <2>7, <2>o, <1>k, <1>a, <3>k DEF Looks, Keeps
  <2>8. CASE Keeps(t) /\ Ends(t)
    <3>k. Kid(t)' = Kid(t)
      BY <2>8, <2>o, <1>p DEF Keeps
    <3> QED
      BY <2>8, <2>o, <1>k, <1>a, <3>k DEF Ends, Keeps
  <2> QED
    BY <1>1, <2>1, <2>2, <2>3, <2>4, <2>5, <2>6, <2>7, <2>8 DEF Works, StaysWith
<1>2. CASE Rests
  BY <1>2, <1>k, <1>a, <1>p, <1>m DEF Rests
<1>3. CASE Dies
  BY <1>3, <1>k, <1>a, <1>p, <1>m DEF Dies
<1>4. CASE KillAll
  BY <1>4, <1>k, <1>a, <1>p, <1>m DEF KillAll
<1>5. CASE DropAll
  BY <1>5, <1>k, <1>a, <1>p, <1>m DEF DropAll
<1>6. CASE Crash
  BY <1>6, <1>k, <1>a, <1>p, <1>m DEF Crash
<1>7. CASE Resume
  BY <1>7, <1>k, <1>a DEF Resume, Gone
<1> QED
  BY <1>1, <1>2, <1>3, <1>4, <1>5, <1>6, <1>7, StepKinds

\* The children that state.json names.
LEMMA FindableStep ==
    ASSUME TypeOK, Gone, InHand, ProcsAre, Taken, Registered, Findable, [Next]_vars
    PROVE  Findable'
<1> USE DEF Unregister, Kills, thread, kidv, era, files, flags, Findable, InHand, Held, Named,
    Quiet, Taken, Registered
<1>m. MaxAttempts \in Nat /\ MaxCrashes \in Nat /\ crashes \in 0..MaxCrashes
  BY BoundsAssumption DEF TypeOK
<1>a. /\ alive \subseteq AllKids /\ procs \subseteq AllKids /\ victims \subseteq AllKids
      /\ \A k \in AllKids : k[1] \in 0..MaxCrashes /\ k[2] \in Threads /\ k[3] \in 1..MaxAttempts /\ k[4] \in 0..MaxAttempts
  BY KidsType DEF TypeOK
<1>k. \A t \in Threads : /\ Kid(t) \in AllKids /\ Kid(t)[1] = crashes /\ Kid(t)[2] = t /\ Kid(t)[3] = att[t].role
                         /\ frame[t] \in {"role", "cutoff"}
                         /\ frame[t] = "role" => Kid(t)[4] = 0
                         /\ frame[t] = "cutoff" => Kid(t)[4] = att[t].cutoff
  BY KidIs DEF TypeOK
<1>p. \A t \in Threads : crashes' = crashes /\ frame'[t] = frame[t] /\ att'[t] = att[t] => Kid(t)' = Kid(t)
  BY KidStays
<1>1. ASSUME NEW t \in Threads, Works(t) PROVE Findable'
  <2>o. /\ main # "gone" /\ UNCHANGED <<main, victims, lost, crashes>>
        /\ \A u \in Threads \ {t} : /\ pc'[u] = pc[u] /\ frame'[u] = frame[u] /\ att'[u] = att[u]
                                    /\ snap'[u] = snap[u] /\ Kid(u)' = Kid(u)
    BY <1>1, <1>p DEF Works, Others
  <2>1. CASE GoesOn(t)
    BY <2>1, <2>o, <1>k, <1>a DEF GoesOn
  <2>2. CASE IsThrough(t)
    BY <2>2, <2>o, <1>k, <1>a DEF IsThrough
  <2>3. CASE Keeps(t) /\ Asks(t)
    <3>k. Kid(t)' = Kid(t)
      BY <2>3, <2>o, <1>p DEF Keeps
    <3> QED
      BY <2>3, <2>o, <1>k, <1>a, <3>k DEF Asks, Keeps
  <2>4. CASE Keeps(t) /\ Begets(t)
    <3>k. Kid(t)' = Kid(t)
      BY <2>4, <2>o, <1>p DEF Keeps
    <3> QED
      BY <2>4, <2>o, <1>k, <1>a, <3>k DEF Begets, Keeps
  <2>5. CASE Keeps(t) /\ Registers(t)
    <3>k. Kid(t)' = Kid(t)
      BY <2>5, <2>o, <1>p DEF Keeps
    <3> QED
      BY <2>5, <2>o, <1>k, <1>a, <3>k DEF Registers, Keeps
  <2>6. CASE Keeps(t) /\ Publishes(t)
    <3>k. Kid(t)' = Kid(t)
      BY <2>6, <2>o, <1>p DEF Keeps
    <3> QED
      BY <2>6, <2>o, <1>k, <1>a, <3>k DEF Publishes, Keeps
  <2>7. CASE Keeps(t) /\ Looks(t)
    <3>k. Kid(t)' = Kid(t)
      BY <2>7, <2>o, <1>p DEF Keeps
    <3> QED
      BY <2>7, <2>o, <1>k, <1>a, <3>k DEF Looks, Keeps
  <2>8. CASE Keeps(t) /\ Ends(t)
    <3>k. Kid(t)' = Kid(t)
      BY <2>8, <2>o, <1>p DEF Keeps
    <3> QED
      BY <2>8, <2>o, <1>k, <1>a, <3>k DEF Ends, Keeps
  <2> QED
    BY <1>1, <2>1, <2>2, <2>3, <2>4, <2>5, <2>6, <2>7, <2>8 DEF Works, StaysWith
<1>2. CASE Rests
  BY <1>2, <1>k, <1>a, <1>p, <1>m DEF Rests
<1>3. CASE Dies
  BY <1>3, <1>k, <1>a, <1>p, <1>m DEF Dies
<1>4. CASE KillAll
  BY <1>4, <1>k, <1>a, <1>p, <1>m DEF KillAll
<1>5. CASE DropAll
  BY <1>5, <1>k, <1>a, <1>p, <1>m DEF DropAll
<1>6. CASE Crash
  BY <1>6, <1>k, <1>a, <1>p, <1>m DEF Crash
<1>7. CASE Resume
  BY <1>7, <1>k, <1>a, <1>p, <1>m DEF Resume
<1> QED
  BY <1>1, <1>2, <1>3, <1>4, <1>5, <1>6, <1>7, StepKinds
-----------------------------------------------------------------------------
(* The theorems *)

LEMMA Initially == ASSUME Init PROVE IInv
<1>1. MaxAttempts \in Nat /\ 1 \in 1..MaxAttempts /\ MaxCrashes \in Nat
  BY BoundsAssumption
<1>2. \A t \in Threads : record[t] \in Records
  BY DEF Init, Records, Prompts
<1>3. TypeOK
  <2>1. First \in [role : 1..MaxAttempts, cutoff : 1..MaxAttempts]
    BY <1>1 DEF First
  <2>2. crashes \in 0..MaxCrashes /\ scenario \in Scenarios /\ prompt \in Prompts
    BY <1>1 DEF Init, Prompts
  <2>3. record \in [Threads -> Records]
    BY <1>2 DEF Init
  <2>4. /\ alive = {} /\ killed = {} /\ lost = {} /\ victims = {} /\ procs = {} /\ disk = {}
        /\ att \in [Threads -> [role : 1..MaxAttempts, cutoff : 1..MaxAttempts]]
        /\ snap \in [Threads -> SUBSET AllKids] /\ output \in [Threads -> AllKids \cup {Nothing}]
        /\ clean \in [Threads -> (AllKids \X Prompts) \cup {Nothing}]
    BY <2>1 DEF Init
  <2> QED
    BY <2>2, <2>3, <2>4 DEF Init, TypeOK, Bad, Over
<1>4. Gone /\ InHand /\ ProcsAre /\ Registered /\ Taken /\ Findable
  BY DEF Init, Gone, InHand, ProcsAre, Registered, Taken, Findable, Named
<1>5. Recorded /\ LateOnce
  BY DEF Init, Recorded, LateOnce
<1>6. EndedIs /\ CancelIs /\ MainIs
  BY DEF Init, EndedIs, CancelIs, MainIs
<1> QED
  BY <1>3, <1>4, <1>5, <1>6 DEF IInv

\* At every step of a phase, through any number of deaths and resumes: children, registrations and
\* inventories are in step, no child that terminate_all has killed is one still to be
\* started, a record that is done vouches for a clean answer, and the main thread is
\* where the ends of the roles and the cancellation put it.
THEOREM Invariance == Spec => []IInv
<1>1. ASSUME IInv, [Next]_vars PROVE IInv'
  <2>1. TypeOK' /\ Gone' /\ Recorded' /\ LateOnce'
    BY <1>1, TypeStep, GoneStep, RecordedStep, LateStep DEF IInv
  <2>2. EndedIs' /\ CancelIs' /\ MainIs'
    BY <1>1, EndedStep, CancelStep, MainStepIs DEF IInv
  <2>3. InHand' /\ ProcsAre' /\ Taken'
    BY <1>1, InHandStep, ProcsStep, TakenStep DEF IInv
  <2>4. Registered' /\ Findable'
    BY <1>1, RegisteredStep, FindableStep DEF IInv
  <2> QED
    BY <2>1, <2>2, <2>3, <2>4 DEF IInv
<1> QED
  BY <1>1, Initially, PTL DEF Spec

\* A child of the phase that is alive is in state.json, or about to be put there by the thread
\* that started it, or was caught in between by a death: a later stop finds the others.
THEOREM ChildrenFindable == Spec => []Findable
  BY Invariance, PTL DEF IInv

\* When a phase is over, nothing of it runs or is registered, its outcome is the one its roles
\* had, and a child at most was started after the deadline for each role.
THEOREM PhaseEnds == Spec => []PhaseEndsWell
<1>1. ASSUME IInv PROVE NothingLeft
  <2>1. CASE main \in {"returned", "raised"}
    <3>1. main # "gone" /\ \A t \in Threads : pc[t] = "ended"
      BY <1>1, <2>1 DEF IInv, MainIs
    <3>2. \A k \in alive \cup procs : k[1] \in Nat /\ crashes \in Nat /\ k[2] \in Threads
      BY <1>1, KidsType, BoundsAssumption DEF IInv, TypeOK
    <3>3. procs = {}
      BY <1>1, <3>1, <3>2 DEF IInv, ProcsAre, Named
    <3>4. \A k \in alive : k[1] < crashes
      BY <1>1, <3>1, <3>2 DEF IInv, InHand, Held
    <3> QED
      BY <3>3, <3>4 DEF NothingLeft
  <2> QED
    BY <2>1 DEF NothingLeft
<1>2. IInv => OutcomeJustified
  BY DEF IInv, MainIs, Answers, Failure, OutcomeJustified
<1>3. IInv => OneLateChild
  BY DEF IInv, LateOnce, OneLateChild
<1> QED
  BY <1>1, <1>2, <1>3, Invariance, PTL DEF IInv, PhaseEndsWell

\* An answer that the ledger gives in place of a child is the text of an attempt that ended
\* cleanly on the prompt of now, also when a death came between the text and its record.
THEOREM ReuseIsClean == Spec => ReusedIsClean
<1> DEFINE Reuses == \A t \in Threads :
             pc[t] = "enter" /\ pc'[t] = "ended" /\ end'[t] = "ok" => clean[t] = <<output[t], prompt>>
<1>1. ASSUME IInv, [Next]_vars PROVE [Reuses]_vars
  <2>1. ASSUME NEW t \in Threads, pc[t] = "enter", pc'[t] = "ended", end'[t] = "ok"
        PROVE  clean[t] = <<output[t], prompt>>
    <3>1. ASSUME NEW u \in Threads, RoleStep(u) \/ (main # "gone" /\ Timeout(u)) PROVE Enter(t)
      <4>1. u = t
        BY <1>1, <2>1, <3>1, ThreadWorks DEF IInv, Works, Others
      <4> QED
        BY <2>1, <3>1, <4>1 DEF RoleStep, Timeout, Starts, Tries, Spawn, SpawnFails, Register,
          Publish,
          PollInterrupted, PollRefreshes, Polls, Terminate, Interrupted, JudgeStopped, JudgeCutOff,
          JudgeAccepts, JudgeFails, Exited, TimedOut, SummaryFailed, Write, Done
    <3>2. Enter(t)
      <4>1. CASE \E u \in Threads : RoleStep(u) \/ (main # "gone" /\ Timeout(u))
        BY <3>1, <4>1
      <4>2. CASE MainStep
        BY <2>1, <4>2 DEF MainStep, ParallelFails, ParallelEnds, BesideFails, BesideGoesOn,
          SideEnds,
          Cancels, KillAll, DropAll, Exit, MainGoes, Quietly, thread
      <4>3. CASE KidEnds \/ Deadline \/ StopSignal \/ Handler \/ Crash \/ Resume \/ UNCHANGED vars
        BY <2>1, <4>3 DEF KidEnds, Deadline, StopSignal, Handler, Crash, Resume, vars, thread
      <4> QED
        BY <1>1, <4>1, <4>2, <4>3 DEF Next
    <3>3. Cached(t)
      BY <1>1, <2>1, <3>2 DEF Enter, Answered, Leave, Go, Set, Stays, IInv, TypeOK
    <3> QED
      BY <1>1, <3>3 DEF IInv, Recorded, Cached
  <2> QED
    BY <2>1
<1>2. Spec => [][Reuses]_vars
  BY <1>1, Invariance, PTL DEF Spec
<1> QED
  BY <1>2 DEF ReusedIsClean
===============================================================================
