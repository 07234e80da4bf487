--------------------------- MODULE RunControlProofs ---------------------------
(***************************************************************************)
(* What holds of RunControl for every set of invocations, every number of  *)
(* runs and any number of kills, as long as the verdict and result.json    *)
(* are written together (LateErrors = FALSE).                              *)
(***************************************************************************)
EXTENDS RunControl, TLAPS

-----------------------------------------------------------------------------
(* The inductive invariant, by what each part is about *)

\* Between the claim and the activation, at work, and until the end is recorded.
Entering == {"recheck", "unlink", "activate"}
Working  == {"begin", "execute", "spawned"}
Ending   == {"stopping", "failing", "close"}

\* Who prepares a run, works on it, or records a stop of it, holds the run lock.
Held == \A p \in Procs : pc[p] \in Entering \cup Working \cup {"record"} => lock = p

\* A child that runs and that its run's state.json was told of.
Known(q) == child[q] /\ trace[q] = "saved"

\* Who prepares a run has found nobody at work and no known child, and knows the children
\* the state lists.
Prepared ==
    \A p \in Procs : pc[p] \in Entering =>
        /\ run[p] = current
        /\ mem[p].kids = state[run[p]].kids
        /\ pc[p] = "recheck" => mem[p] = state[run[p]]
        /\ \A q \in Procs : pc[q] \notin Working \cup Ending /\ ~Known(q)

\* At work, the memory is the file; at the end, no known child is left.
InMemory ==
    \A p \in Procs :
        /\ pc[p] \in Working => mem[p] = state[run[p]]
        /\ pc[p] = "close" => \A q \in Procs : ~Known(q)

\* A known child is one of the current run.
KnownToCurrent == \A q \in Procs : Known(q) => current \in Runs /\ q \in state[current].kids

\* Nobody who activated a run is yet to start, and a stop that records one has seen its
\* process dead.
Activated ==
    /\ \A r \in Runs : state[r].gen \in Procs => pc[state[r].gen] # "idle"
    /\ \A p \in Procs : mem[p].gen \in Procs => pc[mem[p].gen] # "idle"
SeenDead ==
    \A p \in Procs :
        /\ pc[p] \in {"reap", "claim", "record"} /\ mem[p].gen \in Procs => pc[mem[p].gen] = "gone"
        /\ pc[p] = "record" => state[run[p]].gen = mem[p].gen /\ state[run[p]].status \notin Terminal

\* Who is about to close a run or to tell its end has the end in memory.
Decided == \A p \in Procs : pc[p] \in {"recheck", "write", "tell", "close", "record"} => mem[p].status \in Terminal

\* Runs that are not there yet are as they will be created, and nobody works on them.
Fresh ==
    /\ \A r \in Runs : r > current => state[r] = Created
    /\ \A p \in Procs : pc[p] # "idle" => run[p] <= current

IInv ==
    /\ TypeOK /\ Decided /\ Held /\ Prepared /\ InMemory /\ KnownToCurrent /\ Activated /\ SeenDead /\ Fresh
    /\ NotSuperseded /\ WorksAlone
-----------------------------------------------------------------------------
(* Steps *)

Step(p) == Starts(p) \/ Works(p) \/ Spawn(p) \/ ChildEnds(p) \/ Finish(p) \/ Fail(p) \/ Crash(p)

LEMMA Stepped == Next => \E p \in Procs : Step(p)
  BY DEF Next, Step

-----------------------------------------------------------------------------
(* Records *)

LEMMA CreatedRecord == Created \in Record
  BY DEF Record, Created, Statuses

LEMMA StatusEdit ==
    ASSUME NEW rec \in Record, NEW how \in Statuses
    PROVE  LET new == [rec EXCEPT !.status = how] IN
             new \in Record /\ new.gen = rec.gen /\ new.kids = rec.kids /\ new.status = how
  BY DEF Record

LEMMA KidsEdit ==
    ASSUME NEW rec \in Record, NEW kids \in SUBSET Procs
    PROVE  LET new == [rec EXCEPT !.kids = kids] IN
             new \in Record /\ new.gen = rec.gen /\ new.kids = kids /\ new.status = rec.status
  BY DEF Record

\* A record is closed once: a verdict that is there stays.
LEMMA ClosedEdit ==
    ASSUME NEW rec \in Record, NEW how \in {"error", "stopped"}
    PROVE  /\ Closed(rec, how) \in Record /\ Closed(rec, how).gen = rec.gen
           /\ Closed(rec, how).status \in Terminal
           /\ Finished(rec) => Closed(rec, how) = rec
           /\ ~Finished(rec) => Closed(rec, how).kids = {}
  BY DEF Record, Closed, Finished, Statuses, Terminal

LEMMA OwnerEdit ==
    ASSUME NEW rec \in Record, NEW p \in Procs
    PROVE  LET new == [rec EXCEPT !.gen = p, !.status = "running"] IN
             new \in Record /\ new.gen = p /\ new.kids = rec.kids /\ new.status = "running"
  BY DEF Record, Statuses

LEMMA SaveType ==
    ASSUME TypeOK, NEW p \in Procs, NEW rec \in Record, Save(p, rec)
    PROVE  mem' \in [Procs -> Record] /\ state' \in [Runs -> Record]
  BY Zenon DEF TypeOK, Save

LEMMA KillType == ASSUME NEW kids, Kill(kids) PROVE child' \in [Procs -> BOOLEAN]
<1>1. \A k \in Procs : (child[k] /\ k \notin kids) \in BOOLEAN
  OBVIOUS
<1> QED
  BY <1>1, Zenon DEF Kill

-----------------------------------------------------------------------------
(* What the steps that read a record and change it do *)

ResumeDoes(p) ==
    /\ pc[p] = "idle" /\ lock = Nobody /\ lock' = p
    /\ current \in Runs /\ ~Active(state[current])
    /\ run' = [run EXCEPT ![p] = current]
    /\ \E new \in Record :
          /\ mem' = [mem EXCEPT ![p] = new]
          /\ new.gen = state[current].gen /\ new.kids = state[current].kids
          /\ \/ pc' = [pc EXCEPT ![p] = "recheck"] /\ new = state[current] /\ new.status = "solved"
             \/ pc' = [pc EXCEPT ![p] = "unlink"]
    /\ \/ UNCHANGED <<child, trace>>
       \/ /\ child' = [child EXCEPT ![p] = TRUE]
          /\ trace' = [trace EXCEPT ![p] = "unsaved"]
    /\ UNCHANGED <<disk, resLock, sigterm, crashes>>

LEMMA Resumes ==
    ASSUME TypeOK, NEW p \in Procs, Resume(p)
    PROVE  ResumeDoes(p)
<1>1. current \in Runs /\ state[current] \in Record
  BY DEF Resume, TypeOK, Runs
<1> DEFINE new == [state[current] EXCEPT !.status = "running"]
<1>2. new \in Record /\ new.gen = state[current].gen /\ new.kids = state[current].kids
  BY <1>1, StatusEdit DEF Statuses
<1>3. /\ pc[p] = "idle" /\ lock = Nobody /\ lock' = p /\ ~Active(state[current])
      /\ run' = [run EXCEPT ![p] = current]
      /\ \/ /\ pc' = [pc EXCEPT ![p] = "recheck"] /\ mem' = [mem EXCEPT ![p] = state[current]]
            /\ state[current].status = "solved"
         \/ pc' = [pc EXCEPT ![p] = "unlink"] /\ mem' = [mem EXCEPT ![p] = new]
      /\ \/ UNCHANGED <<child, trace>>
         \/ /\ child' = [child EXCEPT ![p] = TRUE]
            /\ trace' = [trace EXCEPT ![p] = "unsaved"]
      /\ UNCHANGED <<disk, resLock, sigterm, crashes>>
  BY DEF Resume, Claim, Loads, Go
<1> HIDE DEF new
<1> QED
  BY <1>1, <1>2, <1>3 DEF ResumeDoes

\* An orchestrator that ends finds its run unfinished and its own.
TerminalReadDoes(p) ==
    /\ pc[p] \in {"stopping", "failing"} /\ pc' = [pc EXCEPT ![p] = "close"]
    /\ \E new \in Record :
          mem' = [mem EXCEPT ![p] = new] /\ new.gen = p /\ new.status \in Terminal
    /\ child' = [k \in Procs |-> child[k] /\ k \notin state[run[p]].kids]
    /\ UNCHANGED <<disk, locks, run, sigterm, trace, crashes>>

LEMMA TerminalReads ==
    ASSUME TypeOK, NotSuperseded, NEW p \in Procs, TerminalRead(p)
    PROVE  TerminalReadDoes(p)
<1> DEFINE rec == state[run[p]]
           how == IF pc[p] = "stopping" THEN "stopped" ELSE "error"
           new == Closed(rec, how)
<1>1. pc[p] \in {"stopping", "failing"} /\ rec \in Record /\ rec.gen = p /\ ~Finished(rec)
  BY DEF TerminalRead, TypeOK, NotSuperseded, Finished, Terminal
<1>2. new \in Record /\ new.gen = p /\ new.status \in Terminal
  BY <1>1, ClosedEdit
<1>3. /\ pc' = [pc EXCEPT ![p] = "close"] /\ mem' = [mem EXCEPT ![p] = new]
      /\ child' = [k \in Procs |-> child[k] /\ k \notin rec.kids]
      /\ UNCHANGED <<disk, locks, run, sigterm, trace, crashes>>
  BY <1>1 DEF TerminalRead, Go, Kill, locks
<1> HIDE DEF new
<1> QED
  BY <1>1, <1>2, <1>3 DEF TerminalReadDoes

StopClaimDoes(p) ==
    /\ pc[p] = "claim" /\ UNCHANGED <<disk, resLock, run, sigterm, child, trace, crashes>>
    /\ \/ pc' = [pc EXCEPT ![p] = "gone"] /\ lock' = Unlocked(p) /\ mem' = mem
       \/ /\ lock = Nobody /\ lock' = p /\ state[run[p]].gen = mem[p].gen
          /\ \E new \in Record :
                mem' = [mem EXCEPT ![p] = new] /\ new.gen = mem[p].gen /\ new.status \in Terminal
          /\ \/ pc' = [pc EXCEPT ![p] = "tell"]
             \/ pc' = [pc EXCEPT ![p] = "record"] /\ state[run[p]].status \notin Terminal

LEMMA StopClaims ==
    ASSUME TypeOK, NEW p \in Procs, StopClaim(p)
    PROVE  StopClaimDoes(p)
<1> DEFINE rec == state[run[p]]
           new == Closed(rec, "stopped")
<1>1. rec \in Record
  BY DEF TypeOK
<1>2. new \in Record /\ new.gen = rec.gen /\ new.status \in Terminal
  BY <1>1, ClosedEdit
<1>3. /\ pc[p] = "claim" /\ UNCHANGED <<disk, resLock, run, sigterm, child, trace, crashes>>
      /\ \/ pc' = [pc EXCEPT ![p] = "gone"] /\ lock' = Unlocked(p) /\ mem' = mem
         \/ /\ lock = Nobody /\ lock' = p /\ rec.gen = mem[p].gen /\ mem' = [mem EXCEPT ![p] = new]
            /\ \/ pc' = [pc EXCEPT ![p] = "tell"]
               \/ pc' = [pc EXCEPT ![p] = "record"] /\ rec.status \notin Terminal
  BY DEF StopClaim, Gone, Go, SameGeneration, Finished
<1> HIDE DEF new
<1> QED
  BY <1>1, <1>2, <1>3 DEF StopClaimDoes

(* The type of every variable *)

LEMMA TypeStep ==
    ASSUME TypeOK, Decided, NEW p \in Procs, Step(p)
    PROVE  TypeOK'
<1> USE NobodyAssumption, BoundsAssumption DEF Go, Gone, Save, Unlocked, LetGo, Kill, Claim,
    Loads, Alive, Finished, Active, SameGeneration, disk, locks, procs, vars, TypeOK, Labels,
    Runs
<1>1. CASE RunAgain(p)
  BY <1>1 DEF RunAgain, Record
<1>2. CASE RunNew(p)
  BY <1>2 DEF RunNew, Record, Created, Statuses
<1>3. CASE Resume(p)
  <2>1. current \in Runs /\ state[current] \in Record
    BY <1>3 DEF Resume
  <2>2. [state[current] EXCEPT !.status = "running"] \in Record
    BY <2>1, StatusEdit DEF Statuses
  <2>3. mem' \in [Procs -> Record]
    BY <1>3, <2>1, <2>2, ZenonT(30) DEF Resume
  <2>4. run' \in [Procs -> Runs]
    BY <1>3, <2>1, Zenon DEF Resume
  <2>5. lock' \in Procs \cup {Nobody}
    BY <1>3 DEF Resume
  <2>7. pc' = [pc EXCEPT ![p] = "recheck"] \/ pc' = [pc EXCEPT ![p] = "unlink"]
    BY <1>3 DEF Resume
  <2>8. pc' \in [Procs -> Labels]
    BY <2>7
  <2>6. /\ child' \in [Procs -> BOOLEAN] /\ trace' \in [Procs -> {"unsaved", "saved", "dropped"}]
        /\ UNCHANGED <<disk, resLock, sigterm, crashes>>
    BY <1>3 DEF Resume
  <2> QED
    BY <2>3, <2>4, <2>5, <2>6, <2>8
<1>4. CASE StopRead(p)
  BY <1>4 DEF StopRead, Record
<1>5. CASE StatusRead(p)
  BY <1>5 DEF StatusRead
<1>6. CASE ManualCheck(p)
  BY <1>6 DEF ManualCheck
<1>7. CASE RecheckPasses(p)
  BY <1>7 DEF RecheckPasses
<1>8. CASE RecheckFails(p)
  <2>0. mem[p] \in Record /\ mem[p].kids \in SUBSET Procs
    BY DEF Record
  <2>1. [mem[p] EXCEPT !.status = "running"] \in Record
    BY <2>0, StatusEdit DEF Statuses
  <2>2. mem' \in [Procs -> Record] /\ state' \in [Runs -> Record]
    BY <1>8, <2>1, SaveType DEF RecheckFails
  <2> HIDE DEF Save
  <2> QED
    BY <1>8, <2>2 DEF RecheckFails
<1>9. CASE Unlink(p)
  BY <1>9 DEF Unlink
<1>10. CASE Activate(p)
  <2>0. mem[p] \in Record /\ mem[p].kids \in SUBSET Procs
    BY DEF Record
  <2>1. [mem[p] EXCEPT !.gen = p, !.status = "running"] \in Record
    BY <2>0, OwnerEdit
  <2>2. mem' \in [Procs -> Record] /\ state' \in [Runs -> Record]
    BY <1>10, <2>1, SaveType DEF Activate
  <2> HIDE DEF Save
  <2> QED
    BY <1>10, <2>2 DEF Activate
<1>11. CASE Begin(p)
  BY <1>11 DEF Begin
<1>12. CASE Spawn(p)
  BY <1>12 DEF Spawn
<1>13. CASE Register(p)
  <2>0. mem[p] \in Record /\ ({k \in mem[p].kids : child[k]} \cup {p}) \in SUBSET Procs
    BY DEF Record
  <2>1. [mem[p] EXCEPT !.kids = {k \in mem[p].kids : child[k]} \cup {p}] \in Record
    BY <2>0, KidsEdit
  <2>2. mem' \in [Procs -> Record] /\ state' \in [Runs -> Record]
    BY <1>13, <2>1, SaveType DEF Register
  <2> HIDE DEF Save
  <2> QED
    BY <1>13, <2>2 DEF Register
<1>14. CASE ChildEnds(p)
  BY <1>14 DEF ChildEnds
<1>15. CASE Unregister(p)
  <2>0. mem[p] \in Record /\ mem[p].kids \in SUBSET Procs
    BY DEF Record
  <2>1. [mem[p] EXCEPT !.kids = mem[p].kids \ {p}] \in Record
    BY <2>0, KidsEdit
  <2>2. mem' \in [Procs -> Record] /\ state' \in [Runs -> Record]
    BY <1>15, <2>1, SaveType DEF Unregister
  <2> HIDE DEF Save
  <2> QED
    BY <1>15, <2>2 DEF Unregister
<1>16. CASE Stopped(p)
  <2>0. mem[p] \in Record /\ mem[p].kids \in SUBSET Procs
    BY DEF Record
  <2>1. [mem[p] EXCEPT !.kids = mem[p].kids \ {p}] \in Record
    BY <2>0, KidsEdit
  <2>2. mem' \in [Procs -> Record] /\ state' \in [Runs -> Record]
    BY <1>16, <2>1, SaveType DEF Stopped
  <2> HIDE DEF Save
  <2> QED
    BY <1>16, <2>2 DEF Stopped
<1>17. CASE Fail(p)
  BY <1>17 DEF Fail
<1>18. CASE Finish(p)
  <2> PICK how \in {"solved", "failed"} : Save(p, [mem[p] EXCEPT !.status = how, !.kids = {}])
    BY <1>18 DEF Finish
  <2>1. [mem[p] EXCEPT !.status = how, !.kids = {}] \in Record
    <3>1. mem[p] \in Record
      OBVIOUS
    <3> QED
      BY <3>1 DEF Record, Statuses, Terminal
  <2>2. mem' \in [Procs -> Record] /\ state' \in [Runs -> Record]
    BY <2>1, SaveType
  <2> HIDE DEF Save
  <2> QED
    BY <1>18, <2>2 DEF Finish
<1>19. CASE TerminalRead(p)
  <2> DEFINE rec == state[run[p]]
             how == IF pc[p] = "stopping" THEN "stopped" ELSE "error"
  <2>1. rec \in Record /\ Closed(rec, how) \in Record
    BY ClosedEdit
  <2>2. mem' \in [Procs -> Record]
    BY <1>19, <2>1, ZenonT(30) DEF TerminalRead
  <2> HIDE DEF Kill
  <2>3. child' \in [Procs -> BOOLEAN]
    BY <1>19, KillType, Zenon DEF TerminalRead
  <2>4. pc' \in [Procs -> Labels] /\ lock' \in Procs \cup {Nobody}
    BY <1>19 DEF TerminalRead
  <2> QED
    BY <1>19, <2>2, <2>3, <2>4 DEF TerminalRead
<1>20. CASE TerminalSave(p)
  BY <1>20 DEF TerminalSave
<1>21. CASE WriteResult(p)
  <2>1. mem[p].status \in Terminal
    BY <1>21 DEF WriteResult, Decided
  <2> QED
    BY <1>21, <2>1 DEF WriteResult
<1>22. CASE Signal(p)
  <2>1. sigterm' \in [Procs -> BOOLEAN]
    BY <1>22, Zenon DEF Signal
  <2> HIDE DEF Kill
  <2>2. child' \in [Procs -> BOOLEAN]
    BY <1>22, KillType, Zenon DEF Signal
  <2> QED
    BY <1>22, <2>1, <2>2 DEF Signal
<1>23. CASE Await(p)
  BY <1>23 DEF Await
<1>24. CASE HardKill(p)
  BY <1>24 DEF HardKill
<1>25. CASE Reap(p)
  BY <1>25 DEF Reap
<1>26. CASE StopClaim(p)
  <2>1. Closed(state[run[p]], "stopped") \in Record
    BY ClosedEdit
  <2>2. mem' \in [Procs -> Record]
    BY <1>26, <2>1, Zenon DEF StopClaim
  <2>3. pc' \in [Procs -> Labels] /\ lock' \in Procs \cup {Nobody}
    BY <1>26 DEF StopClaim
  <2> QED
    BY <1>26, <2>2, <2>3 DEF StopClaim
<1>27. CASE StopRecord(p)
  BY <1>27 DEF StopRecord
<1>28. CASE StatusLock(p)
  BY <1>28 DEF StatusLock
<1>29. CASE StatusWrite(p)
  BY <1>29 DEF StatusWrite
<1>30. CASE ManualCheckEnds(p)
  BY <1>30 DEF ManualCheckEnds
<1>31. CASE Crash(p)
  BY <1>31 DEF Crash
<1> QED
  BY <1>1, <1>2, <1>3, <1>4, <1>5, <1>6, <1>7, <1>8, <1>9, <1>10, <1>11, <1>12, <1>13, <1>14,
    <1>15, <1>16, <1>17, <1>18, <1>19, <1>20, <1>21, <1>22, <1>23, <1>24, <1>25, <1>26, <1>27,
    <1>28, <1>29, <1>30, <1>31 DEF Step, Starts, Works

\* The lock is let go only by steps that leave the preparing and the work.
LEMMA HeldStep ==
    ASSUME ~LateErrors, TypeOK, Held, NotSuperseded, NEW p \in Procs, Step(p)
    PROVE  Held'
<1>t. /\ pc \in [Procs -> Labels] /\ run \in [Procs -> Runs] /\ mem \in [Procs -> Record]
      /\ state \in [Runs -> Record] /\ child \in [Procs -> BOOLEAN]
      /\ trace \in [Procs -> {"unsaved", "saved", "dropped"}]
  BY DEF TypeOK
<1>1. CASE Resume(p)
  <2>1. ResumeDoes(p)
    BY <1>1, Resumes
  <2> QED
    BY <2>1, <1>t, NobodyAssumption, SMTT(20) DEF ResumeDoes, Held, Entering, Working
<1>2. CASE TerminalRead(p)
  <2>1. TerminalReadDoes(p)
    BY <1>2, TerminalReads
  <2> QED
    BY <2>1, <1>t, NobodyAssumption, SMTT(20) DEF TerminalReadDoes, Held, Entering, Working,
      locks, Labels
<1> USE NobodyAssumption, BoundsAssumption DEF Go, Gone, Save, Unlocked, LetGo, Kill, Claim,
    Loads, Alive, Finished, Active, SameGeneration, disk, locks, procs, vars, Created, Known,
    Entering, Working, Ending, Terminal, Statuses, Record, Runs, Labels, Closed, TypeOK, Held
<1>3. CASE RunAgain(p)
  BY <1>3 DEF RunAgain
<1>4. CASE RunNew(p)
  BY <1>4 DEF RunNew
<1>5. CASE StopRead(p)
  BY <1>5 DEF StopRead
<1>6. CASE StatusRead(p)
  BY <1>6 DEF StatusRead
<1>7. CASE ManualCheck(p)
  BY <1>7 DEF ManualCheck
<1>8. CASE RecheckPasses(p)
  BY <1>8 DEF RecheckPasses
<1>9. CASE RecheckFails(p)
  BY <1>9 DEF RecheckFails
<1>10. CASE Unlink(p)
  BY <1>10 DEF Unlink
<1>11. CASE Activate(p)
  BY <1>11 DEF Activate
<1>12. CASE Begin(p)
  BY <1>12 DEF Begin
<1>13. CASE Spawn(p)
  BY <1>13 DEF Spawn
<1>14. CASE Register(p)
  BY <1>14 DEF Register
<1>15. CASE ChildEnds(p)
  BY <1>15 DEF ChildEnds
<1>16. CASE Unregister(p)
  BY <1>16 DEF Unregister
<1>17. CASE Stopped(p)
  BY <1>17 DEF Stopped
<1>18. CASE Fail(p)
  BY <1>18 DEF Fail
<1>19. CASE Finish(p)
  BY <1>19 DEF Finish
<1>20. CASE TerminalSave(p)
  BY <1>20 DEF TerminalSave
<1>21. CASE WriteResult(p)
  BY <1>21 DEF WriteResult
<1>22. CASE Signal(p)
  BY <1>22 DEF Signal
<1>23. CASE Await(p)
  BY <1>23 DEF Await
<1>24. CASE HardKill(p)
  BY <1>24 DEF HardKill
<1>25. CASE Reap(p)
  BY <1>25 DEF Reap
<1>26. CASE StopClaim(p)
  BY <1>26 DEF StopClaim
<1>27. CASE StopRecord(p)
  BY <1>27 DEF StopRecord
<1>28. CASE StatusLock(p)
  BY <1>28 DEF StatusLock
<1>29. CASE StatusWrite(p)
  BY <1>29 DEF StatusWrite
<1>30. CASE ManualCheckEnds(p)
  BY <1>30 DEF ManualCheckEnds
<1>31. CASE Crash(p)
  BY <1>31 DEF Crash
<1> QED
  BY <1>1, <1>2, <1>3, <1>4, <1>5, <1>6, <1>7, <1>8, <1>9, <1>10, <1>11, <1>12, <1>13, <1>14,
    <1>15, <1>16, <1>17, <1>18, <1>19, <1>20, <1>21, <1>22, <1>23, <1>24, <1>25, <1>26, <1>27,
    <1>28, <1>29, <1>30, <1>31 DEF Step, Starts, Works

\* While one process prepares a run, nobody else writes it: the others that could hold no
\* lock, or have found it closed.
LEMMA PreparedStep ==
    ASSUME ~LateErrors, TypeOK, Held, Prepared, NotSuperseded, KnownToCurrent, NEW p \in Procs,
           Step(p)
    PROVE  Prepared'
<1>t. /\ pc \in [Procs -> Labels] /\ run \in [Procs -> Runs] /\ mem \in [Procs -> Record]
      /\ state \in [Runs -> Record] /\ child \in [Procs -> BOOLEAN]
      /\ trace \in [Procs -> {"unsaved", "saved", "dropped"}]
  BY DEF TypeOK
<1>1. CASE Resume(p)
  <2>1. ResumeDoes(p)
    BY <1>1, Resumes
  <2>2. \A q \in Procs : pc'[q] \notin Working \cup Ending
    BY <2>1, <1>t, NobodyAssumption DEF ResumeDoes, NotSuperseded, Held, Working, Ending,
      Active, Alive
  <2>3. \A q \in Procs : ~Known(q)'
    BY <2>1, <1>t, NobodyAssumption DEF ResumeDoes, KnownToCurrent, Known, Active
  <2>4. \A q \in Procs : pc'[q] \in Entering => q = p
    BY <2>1, <1>t, NobodyAssumption DEF ResumeDoes, Held, Entering
  <2>5. run'[p] = current' /\ mem'[p].kids = state'[run'[p]].kids /\ (pc'[p] = "recheck" => mem'[p] = state'[run'[p]])
    BY <2>1, <1>t, NobodyAssumption DEF ResumeDoes, disk
  <2> QED
    BY <2>2, <2>3, <2>4, <2>5 DEF Prepared
<1>2. CASE TerminalRead(p)
  <2>1. TerminalReadDoes(p)
    BY <1>2, TerminalReads
  <2> QED
    BY <2>1, <1>t, NobodyAssumption, SMTT(20) DEF TerminalReadDoes, Prepared, Held, Known,
      Entering, Working, Ending, disk, locks
<1> USE NobodyAssumption, BoundsAssumption DEF Go, Gone, Save, Unlocked, LetGo, Kill, Claim,
    Loads, Alive, Finished, Active, SameGeneration, disk, locks, procs, vars, Created, Known,
    Entering, Working, Ending, Terminal, Statuses, Record, Runs, Labels, Closed, TypeOK, Held,
    Prepared, NotSuperseded, KnownToCurrent
<1>3. CASE RunAgain(p)
  BY <1>3 DEF RunAgain
<1>4. CASE RunNew(p)
  BY <1>4 DEF RunNew
<1>5. CASE StopRead(p)
  BY <1>5 DEF StopRead
<1>6. CASE StatusRead(p)
  BY <1>6 DEF StatusRead
<1>7. CASE ManualCheck(p)
  BY <1>7 DEF ManualCheck
<1>8. CASE RecheckPasses(p)
  BY <1>8 DEF RecheckPasses
<1>9. CASE RecheckFails(p)
  BY <1>9 DEF RecheckFails
<1>10. CASE Unlink(p)
  BY <1>10 DEF Unlink
<1>11. CASE Activate(p)
  BY <1>11 DEF Activate
<1>12. CASE Begin(p)
  BY <1>12 DEF Begin
<1>13. CASE Spawn(p)
  BY <1>13 DEF Spawn
<1>14. CASE Register(p)
  BY <1>14 DEF Register
<1>15. CASE ChildEnds(p)
  BY <1>15 DEF ChildEnds
<1>16. CASE Unregister(p)
  BY <1>16 DEF Unregister
<1>17. CASE Stopped(p)
  BY <1>17 DEF Stopped
<1>18. CASE Fail(p)
  BY <1>18 DEF Fail
<1>19. CASE Finish(p)
  BY <1>19 DEF Finish
<1>20. CASE TerminalSave(p)
  BY <1>20 DEF TerminalSave
<1>21. CASE WriteResult(p)
  BY <1>21 DEF WriteResult
<1>22. CASE Signal(p)
  BY <1>22 DEF Signal
<1>23. CASE Await(p)
  BY <1>23 DEF Await
<1>24. CASE HardKill(p)
  BY <1>24 DEF HardKill
<1>25. CASE Reap(p)
  BY <1>25 DEF Reap
<1>26. CASE StopClaim(p)
  BY <1>26 DEF StopClaim
<1>27. CASE StopRecord(p)
  BY <1>27 DEF StopRecord
<1>28. CASE StatusLock(p)
  BY <1>28 DEF StatusLock
<1>29. CASE StatusWrite(p)
  BY <1>29 DEF StatusWrite
<1>30. CASE ManualCheckEnds(p)
  BY <1>30 DEF ManualCheckEnds
<1>31. CASE Crash(p)
  BY <1>31 DEF Crash
<1> QED
  BY <1>1, <1>2, <1>3, <1>4, <1>5, <1>6, <1>7, <1>8, <1>9, <1>10, <1>11, <1>12, <1>13, <1>14,
    <1>15, <1>16, <1>17, <1>18, <1>19, <1>20, <1>21, <1>22, <1>23, <1>24, <1>25, <1>26, <1>27,
    <1>28, <1>29, <1>30, <1>31 DEF Step, Starts, Works

\* The only writer of a run at work is its orchestrator, and a run is closed when the
\* children its state lists are ended.
LEMMA InMemoryStep ==
    ASSUME ~LateErrors, TypeOK, Held, Prepared, InMemory, KnownToCurrent, NotSuperseded,
           SeenDead, NEW p \in Procs, Step(p)
    PROVE  InMemory'
<1>t. /\ pc \in [Procs -> Labels] /\ run \in [Procs -> Runs] /\ mem \in [Procs -> Record]
      /\ state \in [Runs -> Record] /\ child \in [Procs -> BOOLEAN]
      /\ trace \in [Procs -> {"unsaved", "saved", "dropped"}]
  BY DEF TypeOK
<1>1. CASE TerminalRead(p)
  <2>1. TerminalReadDoes(p)
    BY <1>1, TerminalReads
  <2>2. \A q \in Procs : ~Known(q)'
    BY <2>1, <1>t, NobodyAssumption DEF TerminalReadDoes, NotSuperseded, KnownToCurrent, Known,
      disk
  <2>3. \A q \in Procs : pc'[q] \in Working => mem'[q] = state'[run'[q]]
    BY <2>1, <1>t, NobodyAssumption DEF TerminalReadDoes, InMemory, Working, disk
  <2> QED
    BY <2>2, <2>3 DEF InMemory
<1> USE NobodyAssumption, BoundsAssumption DEF Go, Gone, Save, Unlocked, LetGo, Kill, Claim,
    Loads, Alive, Finished, Active, SameGeneration, disk, locks, procs, vars, Created, Known,
    Entering, Working, Ending, Terminal, Statuses, Record, Runs, Labels, Closed, TypeOK, Held,
    Prepared, InMemory, KnownToCurrent, NotSuperseded, SeenDead
<1>2. CASE RunAgain(p)
  BY <1>2 DEF RunAgain
<1>3. CASE RunNew(p)
  BY <1>3 DEF RunNew
<1>4. CASE Resume(p)
  BY <1>4 DEF Resume
<1>5. CASE StopRead(p)
  BY <1>5 DEF StopRead
<1>6. CASE StatusRead(p)
  BY <1>6 DEF StatusRead
<1>7. CASE ManualCheck(p)
  BY <1>7 DEF ManualCheck
<1>8. CASE RecheckPasses(p)
  BY <1>8 DEF RecheckPasses
<1>9. CASE RecheckFails(p)
  BY <1>9 DEF RecheckFails
<1>10. CASE Unlink(p)
  BY <1>10 DEF Unlink
<1>11. CASE Activate(p)
  BY <1>11 DEF Activate
<1>12. CASE Begin(p)
  BY <1>12 DEF Begin
<1>13. CASE Spawn(p)
  BY <1>13 DEF Spawn
<1>14. CASE Register(p)
  BY <1>14 DEF Register
<1>15. CASE ChildEnds(p)
  BY <1>15 DEF ChildEnds
<1>16. CASE Unregister(p)
  BY <1>16 DEF Unregister
<1>17. CASE Stopped(p)
  BY <1>17 DEF Stopped
<1>18. CASE Fail(p)
  BY <1>18 DEF Fail
<1>19. CASE Finish(p)
  BY <1>19 DEF Finish
<1>20. CASE TerminalSave(p)
  BY <1>20 DEF TerminalSave
<1>21. CASE WriteResult(p)
  BY <1>21 DEF WriteResult
<1>22. CASE Signal(p)
  BY <1>22 DEF Signal
<1>23. CASE Await(p)
  BY <1>23 DEF Await
<1>24. CASE HardKill(p)
  BY <1>24 DEF HardKill
<1>25. CASE Reap(p)
  BY <1>25 DEF Reap
<1>26. CASE StopClaim(p)
  BY <1>26 DEF StopClaim
<1>27. CASE StopRecord(p)
  BY <1>27 DEF StopRecord
<1>28. CASE StatusLock(p)
  BY <1>28 DEF StatusLock
<1>29. CASE StatusWrite(p)
  BY <1>29 DEF StatusWrite
<1>30. CASE ManualCheckEnds(p)
  BY <1>30 DEF ManualCheckEnds
<1>31. CASE Crash(p)
  BY <1>31 DEF Crash
<1> QED
  BY <1>1, <1>2, <1>3, <1>4, <1>5, <1>6, <1>7, <1>8, <1>9, <1>10, <1>11, <1>12, <1>13, <1>14,
    <1>15, <1>16, <1>17, <1>18, <1>19, <1>20, <1>21, <1>22, <1>23, <1>24, <1>25, <1>26, <1>27,
    <1>28, <1>29, <1>30, <1>31 DEF Step, Starts, Works

\* A child that the state was told of stays in it until it is dead or dropped.
LEMMA KnownToCurrentStep ==
    ASSUME ~LateErrors, TypeOK, Held, Prepared, InMemory, KnownToCurrent, NotSuperseded,
           WorksAlone, NEW p \in Procs, Step(p)
    PROVE  KnownToCurrent'
<1>t. /\ pc \in [Procs -> Labels] /\ run \in [Procs -> Runs] /\ mem \in [Procs -> Record]
      /\ state \in [Runs -> Record] /\ child \in [Procs -> BOOLEAN]
      /\ trace \in [Procs -> {"unsaved", "saved", "dropped"}]
  BY DEF TypeOK
<1>1. CASE TerminalRead(p)
  <2>1. TerminalReadDoes(p)
    BY <1>1, TerminalReads
  <2> QED
    BY <2>1, <1>t, NobodyAssumption, SMTT(20) DEF TerminalReadDoes, KnownToCurrent, Known, disk
<1> USE NobodyAssumption, BoundsAssumption DEF Go, Gone, Save, Unlocked, LetGo, Kill, Claim,
    Loads, Alive, Finished, Active, SameGeneration, disk, locks, procs, vars, Created, Known,
    Entering, Working, Ending, Terminal, Statuses, Record, Runs, Labels, Closed, TypeOK, Held,
    Prepared, InMemory, KnownToCurrent, NotSuperseded, WorksAlone
<1>2. CASE RunAgain(p)
  BY <1>2 DEF RunAgain
<1>3. CASE RunNew(p)
  BY <1>3 DEF RunNew
<1>4. CASE Resume(p)
  BY <1>4 DEF Resume
<1>5. CASE StopRead(p)
  BY <1>5 DEF StopRead
<1>6. CASE StatusRead(p)
  BY <1>6 DEF StatusRead
<1>7. CASE ManualCheck(p)
  BY <1>7 DEF ManualCheck
<1>8. CASE RecheckPasses(p)
  BY <1>8 DEF RecheckPasses
<1>9. CASE RecheckFails(p)
  BY <1>9 DEF RecheckFails
<1>10. CASE Unlink(p)
  BY <1>10 DEF Unlink
<1>11. CASE Activate(p)
  BY <1>11 DEF Activate
<1>12. CASE Begin(p)
  BY <1>12 DEF Begin
<1>13. CASE Spawn(p)
  BY <1>13 DEF Spawn
<1>14. CASE Register(p)
  BY <1>14 DEF Register
<1>15. CASE ChildEnds(p)
  BY <1>15 DEF ChildEnds
<1>16. CASE Unregister(p)
  BY <1>16 DEF Unregister
<1>17. CASE Stopped(p)
  BY <1>17 DEF Stopped
<1>18. CASE Fail(p)
  BY <1>18 DEF Fail
<1>19. CASE Finish(p)
  BY <1>19 DEF Finish
<1>20. CASE TerminalSave(p)
  BY <1>20 DEF TerminalSave
<1>21. CASE WriteResult(p)
  BY <1>21 DEF WriteResult
<1>22. CASE Signal(p)
  BY <1>22 DEF Signal
<1>23. CASE Await(p)
  BY <1>23 DEF Await
<1>24. CASE HardKill(p)
  BY <1>24 DEF HardKill
<1>25. CASE Reap(p)
  BY <1>25 DEF Reap
<1>26. CASE StopClaim(p)
  BY <1>26 DEF StopClaim
<1>27. CASE StopRecord(p)
  BY <1>27 DEF StopRecord
<1>28. CASE StatusLock(p)
  BY <1>28 DEF StatusLock
<1>29. CASE StatusWrite(p)
  BY <1>29 DEF StatusWrite
<1>30. CASE ManualCheckEnds(p)
  BY <1>30 DEF ManualCheckEnds
<1>31. CASE Crash(p)
  BY <1>31 DEF Crash
<1> QED
  BY <1>1, <1>2, <1>3, <1>4, <1>5, <1>6, <1>7, <1>8, <1>9, <1>10, <1>11, <1>12, <1>13, <1>14,
    <1>15, <1>16, <1>17, <1>18, <1>19, <1>20, <1>21, <1>22, <1>23, <1>24, <1>25, <1>26, <1>27,
    <1>28, <1>29, <1>30, <1>31 DEF Step, Starts, Works

\* A process that is or was the owner of a run does not start again.
LEMMA ActivatedStep ==
    ASSUME ~LateErrors, TypeOK, Activated, NotSuperseded, NEW p \in Procs, Step(p)
    PROVE  Activated'
<1>t. /\ pc \in [Procs -> Labels] /\ run \in [Procs -> Runs] /\ mem \in [Procs -> Record]
      /\ state \in [Runs -> Record] /\ child \in [Procs -> BOOLEAN]
      /\ trace \in [Procs -> {"unsaved", "saved", "dropped"}]
  BY DEF TypeOK
<1>1. CASE Resume(p)
  <2>1. ResumeDoes(p)
    BY <1>1, Resumes
  <2> QED
    BY <2>1, <1>t, NobodyAssumption, SMTT(20) DEF ResumeDoes, Activated, disk
<1>2. CASE TerminalRead(p)
  <2>1. TerminalReadDoes(p)
    BY <1>2, TerminalReads
  <2> QED
    BY <2>1, <1>t, NobodyAssumption, SMTT(20) DEF TerminalReadDoes, Activated, disk
<1>3. CASE StopClaim(p)
  <2>1. StopClaimDoes(p)
    BY <1>3, StopClaims
  <2> QED
    BY <2>1, <1>t, NobodyAssumption, SMTT(20) DEF StopClaimDoes, Activated, disk
<1> USE NobodyAssumption, BoundsAssumption DEF Go, Gone, Save, Unlocked, LetGo, Kill, Claim,
    Loads, Alive, Finished, Active, SameGeneration, disk, locks, procs, vars, Created, Known,
    Entering, Working, Ending, Terminal, Statuses, Record, Runs, Labels, Closed, TypeOK,
    Activated, NotSuperseded
<1>4. CASE RunAgain(p)
  BY <1>4 DEF RunAgain
<1>5. CASE RunNew(p)
  BY <1>5 DEF RunNew
<1>6. CASE StopRead(p)
  BY <1>6 DEF StopRead
<1>7. CASE StatusRead(p)
  BY <1>7 DEF StatusRead
<1>8. CASE ManualCheck(p)
  BY <1>8 DEF ManualCheck
<1>9. CASE RecheckPasses(p)
  BY <1>9 DEF RecheckPasses
<1>10. CASE RecheckFails(p)
  BY <1>10 DEF RecheckFails
<1>11. CASE Unlink(p)
  BY <1>11 DEF Unlink
<1>12. CASE Activate(p)
  BY <1>12 DEF Activate
<1>13. CASE Begin(p)
  BY <1>13 DEF Begin
<1>14. CASE Spawn(p)
  BY <1>14 DEF Spawn
<1>15. CASE Register(p)
  BY <1>15 DEF Register
<1>16. CASE ChildEnds(p)
  BY <1>16 DEF ChildEnds
<1>17. CASE Unregister(p)
  BY <1>17 DEF Unregister
<1>18. CASE Stopped(p)
  BY <1>18 DEF Stopped
<1>19. CASE Fail(p)
  BY <1>19 DEF Fail
<1>20. CASE Finish(p)
  BY <1>20 DEF Finish
<1>21. CASE TerminalSave(p)
  BY <1>21 DEF TerminalSave
<1>22. CASE WriteResult(p)
  BY <1>22 DEF WriteResult
<1>23. CASE Signal(p)
  BY <1>23 DEF Signal
<1>24. CASE Await(p)
  BY <1>24 DEF Await
<1>25. CASE HardKill(p)
  BY <1>25 DEF HardKill
<1>26. CASE Reap(p)
  BY <1>26 DEF Reap
<1>27. CASE StopRecord(p)
  BY <1>27 DEF StopRecord
<1>28. CASE StatusLock(p)
  BY <1>28 DEF StatusLock
<1>29. CASE StatusWrite(p)
  BY <1>29 DEF StatusWrite
<1>30. CASE ManualCheckEnds(p)
  BY <1>30 DEF ManualCheckEnds
<1>31. CASE Crash(p)
  BY <1>31 DEF Crash
<1> QED
  BY <1>1, <1>2, <1>3, <1>4, <1>5, <1>6, <1>7, <1>8, <1>9, <1>10, <1>11, <1>12, <1>13, <1>14,
    <1>15, <1>16, <1>17, <1>18, <1>19, <1>20, <1>21, <1>22, <1>23, <1>24, <1>25, <1>26, <1>27,
    <1>28, <1>29, <1>30, <1>31 DEF Step, Starts, Works

\* A process seen dead stays dead, so the run a stop holds cannot be taken meanwhile.
LEMMA SeenDeadStep ==
    ASSUME ~LateErrors, TypeOK, Held, Activated, SeenDead, NotSuperseded, NEW p \in Procs, Step(p)
    PROVE  SeenDead'
<1>t. /\ pc \in [Procs -> Labels] /\ run \in [Procs -> Runs] /\ mem \in [Procs -> Record]
      /\ state \in [Runs -> Record] /\ child \in [Procs -> BOOLEAN]
      /\ trace \in [Procs -> {"unsaved", "saved", "dropped"}]
  BY DEF TypeOK
<1>1. CASE Resume(p)
  <2>1. ResumeDoes(p)
    BY <1>1, Resumes
  <2> QED
    BY <2>1, <1>t, NobodyAssumption, SMTT(20) DEF ResumeDoes, SeenDead, Activated, disk, Held
<1>2. CASE TerminalRead(p)
  <2>1. TerminalReadDoes(p)
    BY <1>2, TerminalReads
  <2> QED
    BY <2>1, <1>t, NobodyAssumption, SMTT(20) DEF TerminalReadDoes, SeenDead, Activated, disk
<1>3. CASE StopClaim(p)
  <2>1. StopClaimDoes(p)
    BY <1>3, StopClaims
  <2> QED
    BY <2>1, <1>t, NobodyAssumption, SMTT(20) DEF StopClaimDoes, SeenDead, disk
<1> USE NobodyAssumption, BoundsAssumption DEF Go, Gone, Save, Unlocked, LetGo, Kill, Claim,
    Loads, Alive, Finished, Active, SameGeneration, disk, locks, procs, vars, Created, Known,
    Entering, Working, Ending, Terminal, Statuses, Record, Runs, Labels, Closed, TypeOK, Held,
    Activated, SeenDead, NotSuperseded
<1>4. CASE RunAgain(p)
  BY <1>4 DEF RunAgain
<1>5. CASE RunNew(p)
  BY <1>5 DEF RunNew
<1>6. CASE StopRead(p)
  BY <1>6 DEF StopRead
<1>7. CASE StatusRead(p)
  BY <1>7 DEF StatusRead
<1>8. CASE ManualCheck(p)
  BY <1>8 DEF ManualCheck
<1>9. CASE RecheckPasses(p)
  BY <1>9 DEF RecheckPasses
<1>10. CASE RecheckFails(p)
  BY <1>10 DEF RecheckFails
<1>11. CASE Unlink(p)
  BY <1>11 DEF Unlink
<1>12. CASE Activate(p)
  BY <1>12 DEF Activate
<1>13. CASE Begin(p)
  BY <1>13, SMTT(60) DEF Begin
<1>14. CASE Spawn(p)
  BY <1>14 DEF Spawn
<1>15. CASE Register(p)
  BY <1>15 DEF Register
<1>16. CASE ChildEnds(p)
  BY <1>16 DEF ChildEnds
<1>17. CASE Unregister(p)
  BY <1>17 DEF Unregister
<1>18. CASE Stopped(p)
  BY <1>18 DEF Stopped
<1>19. CASE Fail(p)
  BY <1>19 DEF Fail
<1>20. CASE Finish(p)
  BY <1>20 DEF Finish
<1>21. CASE TerminalSave(p)
  BY <1>21 DEF TerminalSave
<1>22. CASE WriteResult(p)
  BY <1>22 DEF WriteResult
<1>23. CASE Signal(p)
  BY <1>23 DEF Signal
<1>24. CASE Await(p)
  BY <1>24 DEF Await
<1>25. CASE HardKill(p)
  BY <1>25 DEF HardKill
<1>26. CASE Reap(p)
  BY <1>26 DEF Reap
<1>27. CASE StopRecord(p)
  BY <1>27 DEF StopRecord
<1>28. CASE StatusLock(p)
  BY <1>28 DEF StatusLock
<1>29. CASE StatusWrite(p)
  BY <1>29 DEF StatusWrite
<1>30. CASE ManualCheckEnds(p)
  BY <1>30 DEF ManualCheckEnds
<1>31. CASE Crash(p)
  BY <1>31 DEF Crash
<1> QED
  BY <1>1, <1>2, <1>3, <1>4, <1>5, <1>6, <1>7, <1>8, <1>9, <1>10, <1>11, <1>12, <1>13, <1>14,
    <1>15, <1>16, <1>17, <1>18, <1>19, <1>20, <1>21, <1>22, <1>23, <1>24, <1>25, <1>26, <1>27,
    <1>28, <1>29, <1>30, <1>31 DEF Step, Starts, Works

\* What is told was decided.
LEMMA DecidedStep ==
    ASSUME ~LateErrors, TypeOK, Decided, NotSuperseded, NEW p \in Procs, Step(p)
    PROVE  Decided'
<1>t. /\ pc \in [Procs -> Labels] /\ run \in [Procs -> Runs] /\ mem \in [Procs -> Record]
      /\ state \in [Runs -> Record] /\ child \in [Procs -> BOOLEAN]
      /\ trace \in [Procs -> {"unsaved", "saved", "dropped"}]
  BY DEF TypeOK
<1>1. CASE Resume(p)
  <2>1. ResumeDoes(p)
    BY <1>1, Resumes
  <2> QED
    BY <2>1, <1>t, NobodyAssumption, SMTT(20) DEF ResumeDoes, Decided, Terminal
<1>2. CASE TerminalRead(p)
  <2>1. TerminalReadDoes(p)
    BY <1>2, TerminalReads
  <2> QED
    BY <2>1, <1>t, NobodyAssumption, SMTT(20) DEF TerminalReadDoes, Decided
<1>3. CASE StopClaim(p)
  <2>1. StopClaimDoes(p)
    BY <1>3, StopClaims
  <2> QED
    BY <2>1, <1>t, NobodyAssumption, SMTT(20) DEF StopClaimDoes, Decided
<1> USE NobodyAssumption, BoundsAssumption DEF Go, Gone, Save, Unlocked, LetGo, Kill, Claim,
    Loads, Alive, Finished, Active, SameGeneration, disk, locks, procs, vars, Created, Known,
    Entering, Working, Ending, Terminal, Statuses, Record, Runs, Labels, Closed, TypeOK,
    Decided, NotSuperseded
<1>4. CASE RunAgain(p)
  BY <1>4 DEF RunAgain
<1>5. CASE RunNew(p)
  BY <1>5 DEF RunNew
<1>6. CASE StopRead(p)
  BY <1>6 DEF StopRead
<1>7. CASE StatusRead(p)
  BY <1>7 DEF StatusRead
<1>8. CASE ManualCheck(p)
  BY <1>8 DEF ManualCheck
<1>9. CASE RecheckPasses(p)
  BY <1>9 DEF RecheckPasses
<1>10. CASE RecheckFails(p)
  BY <1>10 DEF RecheckFails
<1>11. CASE Unlink(p)
  BY <1>11 DEF Unlink
<1>12. CASE Activate(p)
  BY <1>12 DEF Activate
<1>13. CASE Begin(p)
  BY <1>13 DEF Begin
<1>14. CASE Spawn(p)
  BY <1>14 DEF Spawn
<1>15. CASE Register(p)
  BY <1>15 DEF Register
<1>16. CASE ChildEnds(p)
  BY <1>16 DEF ChildEnds
<1>17. CASE Unregister(p)
  BY <1>17 DEF Unregister
<1>18. CASE Stopped(p)
  BY <1>18 DEF Stopped
<1>19. CASE Fail(p)
  BY <1>19 DEF Fail
<1>20. CASE Finish(p)
  BY <1>20 DEF Finish
<1>21. CASE TerminalSave(p)
  BY <1>21 DEF TerminalSave
<1>22. CASE WriteResult(p)
  BY <1>22 DEF WriteResult
<1>23. CASE Signal(p)
  BY <1>23 DEF Signal
<1>24. CASE Await(p)
  BY <1>24 DEF Await
<1>25. CASE HardKill(p)
  BY <1>25 DEF HardKill
<1>26. CASE Reap(p)
  BY <1>26 DEF Reap
<1>27. CASE StopRecord(p)
  BY <1>27 DEF StopRecord
<1>28. CASE StatusLock(p)
  BY <1>28 DEF StatusLock
<1>29. CASE StatusWrite(p)
  BY <1>29 DEF StatusWrite
<1>30. CASE ManualCheckEnds(p)
  BY <1>30 DEF ManualCheckEnds
<1>31. CASE Crash(p)
  BY <1>31 DEF Crash
<1> QED
  BY <1>1, <1>2, <1>3, <1>4, <1>5, <1>6, <1>7, <1>8, <1>9, <1>10, <1>11, <1>12, <1>13, <1>14,
    <1>15, <1>16, <1>17, <1>18, <1>19, <1>20, <1>21, <1>22, <1>23, <1>24, <1>25, <1>26, <1>27,
    <1>28, <1>29, <1>30, <1>31 DEF Step, Starts, Works

\* The run of an orchestrator changes hands only when the orchestrator is dead or done.
LEMMA NotSupersededStep ==
    ASSUME ~LateErrors, TypeOK, Held, Prepared, InMemory, NotSuperseded, SeenDead, NEW p \in
           Procs, Step(p)
    PROVE  NotSuperseded'
<1>t. /\ pc \in [Procs -> Labels] /\ run \in [Procs -> Runs] /\ mem \in [Procs -> Record]
      /\ state \in [Runs -> Record] /\ child \in [Procs -> BOOLEAN]
      /\ trace \in [Procs -> {"unsaved", "saved", "dropped"}]
  BY DEF TypeOK
<1>1. CASE Resume(p)
  <2>1. ResumeDoes(p)
    BY <1>1, Resumes
  <2> QED
    BY <2>1, <1>t, NobodyAssumption, SMTT(20) DEF ResumeDoes, NotSuperseded, disk
<1>2. CASE TerminalRead(p)
  <2>1. TerminalReadDoes(p)
    BY <1>2, TerminalReads
  <2> QED
    BY <2>1, <1>t, NobodyAssumption, SMTT(20) DEF TerminalReadDoes, NotSuperseded, disk
<1>3. CASE StopClaim(p)
  <2>1. StopClaimDoes(p)
    BY <1>3, StopClaims
  <2> QED
    BY <2>1, <1>t, NobodyAssumption, SMTT(20) DEF StopClaimDoes, NotSuperseded, disk
<1> USE NobodyAssumption, BoundsAssumption DEF Go, Gone, Save, Unlocked, LetGo, Kill, Claim,
    Loads, Alive, Finished, Active, SameGeneration, disk, locks, procs, vars, Created, Known,
    Entering, Working, Ending, Terminal, Statuses, Record, Runs, Labels, Closed, TypeOK, Held,
    Prepared, InMemory, NotSuperseded, SeenDead
<1>4. CASE RunAgain(p)
  BY <1>4 DEF RunAgain
<1>5. CASE RunNew(p)
  BY <1>5 DEF RunNew
<1>6. CASE StopRead(p)
  BY <1>6 DEF StopRead
<1>7. CASE StatusRead(p)
  BY <1>7 DEF StatusRead
<1>8. CASE ManualCheck(p)
  BY <1>8 DEF ManualCheck
<1>9. CASE RecheckPasses(p)
  BY <1>9 DEF RecheckPasses
<1>10. CASE RecheckFails(p)
  BY <1>10 DEF RecheckFails
<1>11. CASE Unlink(p)
  BY <1>11 DEF Unlink
<1>12. CASE Activate(p)
  BY <1>12 DEF Activate
<1>13. CASE Begin(p)
  BY <1>13 DEF Begin
<1>14. CASE Spawn(p)
  BY <1>14 DEF Spawn
<1>15. CASE Register(p)
  BY <1>15 DEF Register
<1>16. CASE ChildEnds(p)
  BY <1>16 DEF ChildEnds
<1>17. CASE Unregister(p)
  BY <1>17 DEF Unregister
<1>18. CASE Stopped(p)
  BY <1>18 DEF Stopped
<1>19. CASE Fail(p)
  BY <1>19 DEF Fail
<1>20. CASE Finish(p)
  BY <1>20 DEF Finish
<1>21. CASE TerminalSave(p)
  BY <1>21 DEF TerminalSave
<1>22. CASE WriteResult(p)
  BY <1>22 DEF WriteResult
<1>23. CASE Signal(p)
  BY <1>23 DEF Signal
<1>24. CASE Await(p)
  BY <1>24 DEF Await
<1>25. CASE HardKill(p)
  BY <1>25 DEF HardKill
<1>26. CASE Reap(p)
  BY <1>26 DEF Reap
<1>27. CASE StopRecord(p)
  BY <1>27 DEF StopRecord
<1>28. CASE StatusLock(p)
  BY <1>28 DEF StatusLock
<1>29. CASE StatusWrite(p)
  BY <1>29 DEF StatusWrite
<1>30. CASE ManualCheckEnds(p)
  BY <1>30 DEF ManualCheckEnds
<1>31. CASE Crash(p)
  BY <1>31 DEF Crash
<1> QED
  BY <1>1, <1>2, <1>3, <1>4, <1>5, <1>6, <1>7, <1>8, <1>9, <1>10, <1>11, <1>12, <1>13, <1>14,
    <1>15, <1>16, <1>17, <1>18, <1>19, <1>20, <1>21, <1>22, <1>23, <1>24, <1>25, <1>26, <1>27,
    <1>28, <1>29, <1>30, <1>31 DEF Step, Starts, Works

\* A run is entered only when no known child is left, and known children are of the run.
LEMMA WorksAloneStep ==
    ASSUME ~LateErrors, TypeOK, Held, Prepared, WorksAlone, NotSuperseded, NEW p \in Procs,
           Step(p)
    PROVE  WorksAlone'
<1>t. /\ pc \in [Procs -> Labels] /\ run \in [Procs -> Runs] /\ mem \in [Procs -> Record]
      /\ state \in [Runs -> Record] /\ child \in [Procs -> BOOLEAN]
      /\ trace \in [Procs -> {"unsaved", "saved", "dropped"}]
  BY DEF TypeOK
<1>1. CASE TerminalRead(p)
  <2>1. TerminalReadDoes(p)
    BY <1>1, TerminalReads
  <2> QED
    BY <2>1, <1>t, NobodyAssumption, SMTT(20) DEF TerminalReadDoes, WorksAlone
<1> USE NobodyAssumption, BoundsAssumption DEF Go, Gone, Save, Unlocked, LetGo, Kill, Claim,
    Loads, Alive, Finished, Active, SameGeneration, disk, locks, procs, vars, Created, Known,
    Entering, Working, Ending, Terminal, Statuses, Record, Runs, Labels, Closed, TypeOK, Held,
    Prepared, WorksAlone, NotSuperseded
<1>2. CASE RunAgain(p)
  BY <1>2 DEF RunAgain
<1>3. CASE RunNew(p)
  BY <1>3 DEF RunNew
<1>4. CASE Resume(p)
  BY <1>4 DEF Resume
<1>5. CASE StopRead(p)
  BY <1>5 DEF StopRead
<1>6. CASE StatusRead(p)
  BY <1>6 DEF StatusRead
<1>7. CASE ManualCheck(p)
  BY <1>7 DEF ManualCheck
<1>8. CASE RecheckPasses(p)
  BY <1>8 DEF RecheckPasses
<1>9. CASE RecheckFails(p)
  BY <1>9 DEF RecheckFails
<1>10. CASE Unlink(p)
  BY <1>10 DEF Unlink
<1>11. CASE Activate(p)
  BY <1>11 DEF Activate
<1>12. CASE Begin(p)
  BY <1>12 DEF Begin
<1>13. CASE Spawn(p)
  BY <1>13 DEF Spawn
<1>14. CASE Register(p)
  BY <1>14 DEF Register
<1>15. CASE ChildEnds(p)
  BY <1>15 DEF ChildEnds
<1>16. CASE Unregister(p)
  BY <1>16 DEF Unregister
<1>17. CASE Stopped(p)
  BY <1>17 DEF Stopped
<1>18. CASE Fail(p)
  BY <1>18 DEF Fail
<1>19. CASE Finish(p)
  BY <1>19 DEF Finish
<1>20. CASE TerminalSave(p)
  BY <1>20 DEF TerminalSave
<1>21. CASE WriteResult(p)
  BY <1>21 DEF WriteResult
<1>22. CASE Signal(p)
  BY <1>22 DEF Signal
<1>23. CASE Await(p)
  BY <1>23 DEF Await
<1>24. CASE HardKill(p)
  BY <1>24 DEF HardKill
<1>25. CASE Reap(p)
  BY <1>25 DEF Reap
<1>26. CASE StopClaim(p)
  BY <1>26 DEF StopClaim
<1>27. CASE StopRecord(p)
  BY <1>27 DEF StopRecord
<1>28. CASE StatusLock(p)
  BY <1>28 DEF StatusLock
<1>29. CASE StatusWrite(p)
  BY <1>29 DEF StatusWrite
<1>30. CASE ManualCheckEnds(p)
  BY <1>30 DEF ManualCheckEnds
<1>31. CASE Crash(p)
  BY <1>31 DEF Crash
<1> QED
  BY <1>1, <1>2, <1>3, <1>4, <1>5, <1>6, <1>7, <1>8, <1>9, <1>10, <1>11, <1>12, <1>13, <1>14,
    <1>15, <1>16, <1>17, <1>18, <1>19, <1>20, <1>21, <1>22, <1>23, <1>24, <1>25, <1>26, <1>27,
    <1>28, <1>29, <1>30, <1>31 DEF Step, Starts, Works


-----------------------------------------------------------------------------
(* Runs that are not there yet *)

\* A process that is at work changes at most the state of its run, and starts nobody.
Moves(p) ==
    /\ pc[p] # "idle" /\ current' = current /\ run' = run
    /\ \A r \in Runs : r # run[p] => state'[r] = state[r]
    /\ \A q \in Procs : pc'[q] # "idle" => pc[q] # "idle"

LEMMA Saves ==
    ASSUME TypeOK, NEW p \in Procs, NEW rec, Save(p, rec)
    PROVE  state' = [state EXCEPT ![run[p]] = rec] /\ \A r \in Runs : r # run[p] => state'[r] =
        state[r]
  BY DEF TypeOK, Save

LEMMA AtWork ==
    ASSUME TypeOK, NEW p \in Procs, Works(p) \/ Spawn(p) \/ Finish(p) \/ Fail(p) \/ Crash(p)
    PROVE  Moves(p)
<1>t. pc \in [Procs -> Labels] /\ state \in [Runs -> Record] /\ run \in [Procs -> Runs]
  BY DEF TypeOK
<1> USE DEF Go, Gone, Alive, disk, locks, procs, Moves
<1>1. CASE RecheckPasses(p)
  <2>1. Save(p, mem[p]) /\ pc[p] # "idle" /\ current' = current /\ run' = run
        /\ \A q \in Procs : pc'[q] # "idle" => pc[q] # "idle"
    BY <1>1, <1>t DEF RecheckPasses
  <2> QED
    BY <2>1, Saves
<1>2. CASE RecheckFails(p)
  <2>1. Save(p, [mem[p] EXCEPT !.status = "running"]) /\ pc[p] # "idle" /\ current' = current /\ run' = run
        /\ \A q \in Procs : pc'[q] # "idle" => pc[q] # "idle"
    BY <1>2, <1>t DEF RecheckFails
  <2> QED
    BY <2>1, Saves
<1>3. CASE Unlink(p)
  BY <1>3, <1>t DEF Unlink
<1>4. CASE Activate(p)
  <2>1. Save(p, [mem[p] EXCEPT !.gen = p, !.status = "running"]) /\ pc[p] # "idle" /\ current' = current /\ run' = run
        /\ \A q \in Procs : pc'[q] # "idle" => pc[q] # "idle"
    BY <1>4, <1>t DEF Activate
  <2> QED
    BY <2>1, Saves
<1>5. CASE Begin(p)
  BY <1>5, <1>t DEF Begin
<1>6. CASE Register(p)
  <2>1. Save(p, [mem[p] EXCEPT !.kids = {k \in @ : child[k]} \cup {p}]) /\ pc[p] # "idle" /\ current' = current /\ run' = run
        /\ \A q \in Procs : pc'[q] # "idle" => pc[q] # "idle"
    BY <1>6, <1>t DEF Register
  <2> QED
    BY <2>1, Saves
<1>7. CASE Unregister(p)
  <2>1. Save(p, [mem[p] EXCEPT !.kids = @ \ {p}]) /\ pc[p] # "idle" /\ current' = current /\ run' = run
        /\ \A q \in Procs : pc'[q] # "idle" => pc[q] # "idle"
    BY <1>7, <1>t DEF Unregister
  <2> QED
    BY <2>1, Saves
<1>8. CASE Stopped(p)
  <2>1. Save(p, [mem[p] EXCEPT !.kids = @ \ {p}]) /\ pc[p] # "idle" /\ current' = current /\ run' = run
        /\ \A q \in Procs : pc'[q] # "idle" => pc[q] # "idle"
    BY <1>8, <1>t DEF Stopped
  <2> QED
    BY <2>1, Saves
<1>9. CASE TerminalRead(p)
  BY <1>9, <1>t DEF TerminalRead
<1>10. CASE TerminalSave(p)
  <2>1. Save(p, mem[p]) /\ pc[p] # "idle" /\ current' = current /\ run' = run
        /\ \A q \in Procs : pc'[q] # "idle" => pc[q] # "idle"
    BY <1>10, <1>t DEF TerminalSave
  <2> QED
    BY <2>1, Saves
<1>11. CASE WriteResult(p)
  BY <1>11, <1>t DEF WriteResult
<1>12. CASE Signal(p)
  BY <1>12, <1>t DEF Signal
<1>13. CASE Await(p)
  BY <1>13, <1>t DEF Await
<1>14. CASE HardKill(p)
  BY <1>14, <1>t DEF HardKill
<1>15. CASE Reap(p)
  BY <1>15, <1>t DEF Reap
<1>16. CASE StopClaim(p)
  BY <1>16, <1>t DEF StopClaim
<1>17. CASE StopRecord(p)
  <2>1. Save(p, mem[p]) /\ pc[p] # "idle" /\ current' = current /\ run' = run
        /\ \A q \in Procs : pc'[q] # "idle" => pc[q] # "idle"
    BY <1>17, <1>t DEF StopRecord
  <2> QED
    BY <2>1, Saves
<1>18. CASE StatusLock(p)
  BY <1>18, <1>t DEF StatusLock
<1>19. CASE StatusWrite(p)
  BY <1>19, <1>t DEF StatusWrite
<1>20. CASE ManualCheckEnds(p)
  BY <1>20, <1>t DEF ManualCheckEnds
<1>21. CASE Spawn(p)
  BY <1>21, <1>t DEF Spawn
<1>22. CASE Finish(p)
  <2>1. pc[p] # "idle" /\ current' = current /\ run' = run /\ \A q \in Procs : pc'[q] # "idle" => pc[q] # "idle"
    BY <1>22, <1>t DEF Finish
  <2>2. PICK how \in {"solved", "failed"} : Save(p, [mem[p] EXCEPT !.status = how, !.kids = {}])
    BY <1>22 DEF Finish
  <2> QED
    BY <2>1, <2>2, Saves
<1>23. CASE Fail(p)
  BY <1>23, <1>t DEF Fail
<1>24. CASE Crash(p)
  BY <1>24, <1>t DEF Crash
<1> QED
  BY <1>1, <1>2, <1>3, <1>4, <1>5, <1>6, <1>7, <1>8, <1>9, <1>10, <1>11, <1>12, <1>13, <1>14,
    <1>15, <1>16, <1>17, <1>18, <1>19, <1>20, <1>21, <1>22, <1>23, <1>24 DEF Works

LEMMA FreshStep ==
    ASSUME TypeOK, Fresh, NEW p \in Procs, Step(p)
    PROVE  Fresh'
<1>t. /\ current \in 0..MaxRuns /\ pc \in [Procs -> Labels] /\ run \in [Procs -> Runs]
      /\ state \in [Runs -> Record] /\ MaxRuns \in Nat
  BY BoundsAssumption DEF TypeOK
<1>1. CASE RunNew(p)
  <2>1. /\ current' = current + 1 /\ current < MaxRuns
        /\ state' = [state EXCEPT ![current + 1] = Created] /\ run' = [run EXCEPT ![p] = current + 1]
        /\ \A q \in Procs : q # p => pc'[q] = pc[q]
    BY <1>1, <1>t DEF RunNew, Loads, Go
  <2> QED
    BY <2>1, <1>t DEF Fresh, Runs
<1>2. CASE RunAgain(p) \/ Resume(p) \/ StopRead(p) \/ StatusRead(p) \/ ManualCheck(p)
  <2>1. /\ current' = current /\ state' = state /\ run' = [run EXCEPT ![p] = current]
        /\ \A q \in Procs : q # p => pc'[q] = pc[q]
    BY <1>2, <1>t DEF RunAgain, Resume, StopRead, StatusRead, ManualCheck, Loads, Go, disk
  <2> QED
    BY <2>1, <1>t DEF Fresh, Runs
<1>3. CASE ChildEnds(p)
  BY <1>3 DEF ChildEnds, Fresh, disk
<1>4. CASE Works(p) \/ Spawn(p) \/ Finish(p) \/ Fail(p) \/ Crash(p)
  <2>1. Moves(p)
    BY <1>4, AtWork
  <2>2. \A r \in Runs : r > current' => state'[r] = Created
    BY <2>1, <1>t DEF Moves, Fresh, Runs
  <2>3. \A q \in Procs : pc'[q] # "idle" => run'[q] <= current'
    BY <2>1 DEF Moves, Fresh
  <2> QED
    BY <2>2, <2>3 DEF Fresh
<1> QED
  BY <1>1, <1>2, <1>3, <1>4 DEF Step, Starts

-----------------------------------------------------------------------------
(* The invariant *)

LEMMA Initially == Init => IInv
<1> SUFFICES ASSUME Init PROVE IInv
  OBVIOUS
<1> USE NobodyAssumption, BoundsAssumption DEF Init
<1>1. TypeOK
  BY CreatedRecord DEF TypeOK, Runs, Labels
<1>2. Decided /\ Held /\ Prepared /\ InMemory /\ NotSuperseded /\ WorksAlone
  BY DEF Decided, Held, Prepared, InMemory, NotSuperseded, WorksAlone, Entering, Working
<1>3. KnownToCurrent /\ Activated /\ SeenDead
  BY DEF KnownToCurrent, Known, Activated, SeenDead, Created
<1>4. Fresh
  BY DEF Fresh
<1> QED
  BY <1>1, <1>2, <1>3, <1>4 DEF IInv

LEMMA Stuttering == IInv /\ UNCHANGED vars => IInv'
<1> SUFFICES ASSUME IInv, UNCHANGED vars PROVE IInv'
  OBVIOUS
<1> USE DEF vars, disk, locks, procs, IInv
<1>1. TypeOK'
  BY DEF TypeOK
<1>2. Decided' /\ Held' /\ InMemory' /\ NotSuperseded'
  BY DEF Decided, Held, InMemory, NotSuperseded, Known
<1>3. Prepared'
  BY DEF Prepared, Known
<1>4. KnownToCurrent' /\ Activated' /\ SeenDead'
  BY DEF KnownToCurrent, Known, Activated, SeenDead
<1>5. Fresh' /\ WorksAlone'
  BY DEF Fresh, WorksAlone
<1> QED
  BY <1>1, <1>2, <1>3, <1>4, <1>5

LEMMA Inductive == ASSUME ~LateErrors PROVE IInv /\ [Next]_vars => IInv'
<1> SUFFICES ASSUME IInv, [Next]_vars PROVE IInv'
  OBVIOUS
<1>1. CASE Next
  <2>1. PICK p \in Procs : Step(p)
    BY <1>1, Stepped
  <2>2. TypeOK /\ Decided /\ Held /\ Prepared /\ InMemory /\ KnownToCurrent /\ Activated /\ SeenDead /\ Fresh
        /\ NotSuperseded /\ WorksAlone
    BY DEF IInv
  <2>3. TypeOK' /\ Decided' /\ Held'
    BY <2>1, <2>2, TypeStep, DecidedStep, HeldStep
  <2>4. Prepared' /\ InMemory' /\ KnownToCurrent'
    BY <2>1, <2>2, PreparedStep, InMemoryStep, KnownToCurrentStep
  <2>5. Activated' /\ SeenDead' /\ Fresh'
    BY <2>1, <2>2, ActivatedStep, SeenDeadStep, FreshStep
  <2>6. NotSuperseded' /\ WorksAlone'
    BY <2>1, <2>2, NotSupersededStep, WorksAloneStep
  <2> QED
    BY <2>3, <2>4, <2>5, <2>6 DEF IInv
<1>2. CASE UNCHANGED vars
  BY <1>2, Stuttering
<1> QED
  BY <1>1, <1>2

\* The parts of the invariant hold together, from the first step on.
THEOREM Invariance == ASSUME ~LateErrors PROVE Spec => []IInv
  BY Initially, Inductive, PTL DEF Spec

\* A run belongs to one orchestrator at a time, and so does the workspace, whatever number
\* of operators run, resume, check and stop it, and whatever is killed when (claim_run_lock,
\* active_problem, terminalize_claimed_run, cmd_stop).
THEOREM Ownership == ASSUME ~LateErrors PROVE Spec => []RunIsItsOwn
<1>1. IInv => RunIsItsOwn
  BY DEF IInv, RunIsItsOwn
<1> QED
  BY Invariance, <1>1, PTL

-----------------------------------------------------------------------------
(* Verdicts *)

\* Only a resume changes the state of a run that has a verdict.
Stands == \A r \in Runs : state[r].status \in Terminal /\ state'[r] # state[r] => state'[r].status = "running"

LEMMA Written ==
    ASSUME TypeOK, NEW p \in Procs, NEW rec, Save(p, rec),
           rec = state[run[p]] \/ rec.status = "running" \/ state[run[p]].status \notin Terminal
    PROVE  Stands
  BY DEF TypeOK, Save, Stands

LEMMA VerdictStep ==
    ASSUME IInv, NEW p \in Procs, Step(p)
    PROVE  Stands
<1>t. /\ TypeOK /\ Decided /\ Prepared /\ SeenDead /\ Fresh /\ NotSuperseded
      /\ state \in [Runs -> Record] /\ mem[p] \in Record /\ run[p] \in Runs /\ "running" \notin Terminal
  BY DEF IInv, TypeOK, Terminal
<1>1. CASE RunNew(p)
  <2>1. /\ current \in 0..MaxRuns /\ MaxRuns \in Nat /\ current < MaxRuns
        /\ state' = [state EXCEPT ![current + 1] = Created]
    BY <1>1, <1>t, BoundsAssumption DEF RunNew, TypeOK
  <2>2. state[current + 1] = Created
    BY <2>1, <1>t DEF Fresh, Runs
  <2> QED
    BY <2>1, <2>2, <1>t DEF Stands
<1>2. CASE RecheckPasses(p)
  <2>1. Save(p, mem[p]) /\ mem[p] = state[run[p]]
    BY <1>2, <1>t DEF RecheckPasses, Prepared, Entering
  <2> QED
    BY <2>1, <1>t, Written
<1>3. CASE RecheckFails(p)
  <2>1. Save(p, [mem[p] EXCEPT !.status = "running"])
    BY <1>3 DEF RecheckFails
  <2>2. [mem[p] EXCEPT !.status = "running"].status = "running"
    BY <1>t, StatusEdit DEF Statuses
  <2> QED
    BY <2>1, <2>2, <1>t, Written
<1>4. CASE Activate(p)
  <2>1. Save(p, [mem[p] EXCEPT !.gen = p, !.status = "running"])
    BY <1>4 DEF Activate
  <2>2. [mem[p] EXCEPT !.gen = p, !.status = "running"].status = "running"
    BY <1>t, OwnerEdit
  <2> QED
    BY <2>1, <2>2, <1>t, Written
<1>5. CASE Register(p) \/ Unregister(p) \/ Stopped(p) \/ Finish(p) \/ TerminalSave(p)
  <2>1. state[run[p]].status \notin Terminal
    BY <1>5, <1>t DEF Register, Unregister, Stopped, Finish, TerminalSave, NotSuperseded
  <2>2. \E rec : Save(p, rec)
    BY <1>5 DEF Register, Unregister, Stopped, Finish, TerminalSave
  <2> QED
    BY <2>1, <2>2, <1>t, Written
<1>6. CASE StopRecord(p)
  <2>1. Save(p, mem[p]) /\ state[run[p]].status \notin Terminal
    BY <1>6, <1>t DEF StopRecord, SeenDead
  <2> QED
    BY <2>1, <1>t, Written
<1>7. CASE RunAgain(p) \/ Resume(p) \/ StopRead(p) \/ StatusRead(p) \/ ManualCheck(p) \/
            Unlink(p) \/ Begin(p) \/ Spawn(p) \/ ChildEnds(p) \/ Fail(p) \/ TerminalRead(p) \/
            WriteResult(p) \/ Signal(p) \/ Await(p) \/ HardKill(p) \/ Reap(p) \/ StopClaim(p) \/
            StatusLock(p) \/ StatusWrite(p) \/ ManualCheckEnds(p) \/ Crash(p)
  <2>1. state' = state
    BY <1>7 DEF RunAgain, Resume, StopRead, StatusRead, ManualCheck, Unlink, Begin, Spawn,
      ChildEnds, Fail, TerminalRead, WriteResult, Signal, Await, HardKill, Reap, StopClaim,
      StatusLock, StatusWrite, ManualCheckEnds, Crash, disk
  <2> QED
    BY <2>1 DEF Stands
<1> QED
  BY <1>1, <1>2, <1>3, <1>4, <1>5, <1>6, <1>7 DEF Step, Starts, Works

\* A verdict, an error and a stop stay until a resume reopens the run, for every number of
\* processes and kills (terminalize_claimed_run, cmd_stop, cmd_resume).
THEOREM VerdictsStand == ASSUME ~LateErrors PROVE Spec => VerdictStands
<1>1. IInv /\ [Next]_vars => [Stands]_vars
  <2> SUFFICES ASSUME IInv, Next PROVE Stands
    BY DEF Stands
  <2> QED
    BY Stepped, VerdictStep
<1> QED
  BY Invariance, <1>1, PTL DEF Spec, VerdictStands, Stands
=============================================================================
