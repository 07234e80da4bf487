-------------------------- MODULE BrowserServerProofs --------------------------
(***************************************************************************)
(* What holds of BrowserServer for every number of supervisors, commands,  *)
(* faults and restarts, and whether or not a server may hang.              *)
(***************************************************************************)
EXTENDS BrowserServer, FiniteSetTheorems, WellFoundedInduction, TLAPS

-----------------------------------------------------------------------------
(* The inductive invariant, by what each part is about *)

\* A supervisor that has given up is gone.
RestartsLeft == \A s \in Sups : sup[s] # "gone" => restarts[s] < MaxRestarts

\* Every command that may start a supervisor finds one unborn.
Room == Cardinality(ToSpawn) <= Cardinality(Unborn)
Kinded ==
    \A c \in Commands :
        /\ pc[c] \in {"probe", "spawn"} => kind[c] \in {"up", "restart"}
        /\ pc[c] \in {"reap", "reapkill"} => kind[c] = "reap"

\* Between two servers there is none; one that was just started does not hold the port.
Between ==
    \A s \in Sups :
        /\ sup[s] \in {"unborn", "spawn", "reap", "sleep"} => srv[s] = "none"
        /\ sup[s] = "gap" => srv[s] \in {"starting", "none"}

\* What is left of a dead supervisor was left by one that ended abruptly.
Owned == \A s \in Sups : Runs(s) \/ chrome[s] # "none" => Lives(s) \/ s \in abrupt

\* One server holds the port.
OnePort == \A r, s \in Sups : Holds(r) /\ Holds(s) => r = s

\* A command that ends a process ends one that there was.
Targets == \A c \in Commands : pc[c] \in {"signal", "await"} => target[c][2] \in Sups

\* The marked server holds the port, and the stop goes for it: it has found it hung, or ends
\* its supervisor or itself; a supervisor that is gone without it was killed while it waited.
Marked == \A c \in Commands : mark[c] # 0 => mark[c] \in Sups /\ Holds(mark[c])
Aimed ==
    \A c \in Commands : mark[c] # 0 =>
        /\ pc[c] = "read" => srv[mark[c]] = "hung"
        /\ pc[c] \in {"signal", "await"} =>
              /\ target[c] \in {<<"sup", mark[c]>>, <<"srv", mark[c]>>}
              /\ target[c][1] = "sup" /\ ~Lives(mark[c]) => srv[mark[c]] = "hung" \/ c \in forced

IInv ==
    /\ TypeOK /\ RestartsLeft /\ Room /\ Kinded /\ Between /\ Owned /\ OnePort /\ Targets
    /\ Marked /\ Aimed /\ StopStops
-----------------------------------------------------------------------------
(* Supervisors to come *)

LEMMA Less == IsWellFoundedOn({ss \in Nat \X Nat : ss[1] < ss[2]}, Nat)
  BY NatLessThanWellFounded DEF OpToRel

\* A set of numbers that is not empty has a least one.
LEMMA Least ==
    ASSUME NEW T, T \subseteq Nat, T # {}
    PROVE  \E x \in T : \A y \in T : x <= y
<1> DEFINE R == {ss \in Nat \X Nat : ss[1] < ss[2]}
<1>1. \A x, y \in Nat : y < x => <<y, x>> \in R
  OBVIOUS
<1>2. PICK x \in T : \A y \in T : ~(<<y, x>> \in R)
  BY Less, WFMin
<1>3. \A y \in T : ~(y < x)
  BY <1>1, <1>2
<1> QED
  BY <1>3

LEMMA Finite == IsFiniteSet(ToSpawn) /\ IsFiniteSet(Unborn)
<1>1. IsFiniteSet(Commands) /\ IsFiniteSet(Sups)
  BY FS_Interval, BoundsAssumption DEF Commands, Sups
<1> QED
  BY <1>1, FS_Subset DEF ToSpawn, Unborn

\* Who comes to start a supervisor starts one that was not started yet.
LEMMA Newborn ==
    ASSUME Room, NEW c \in Commands, UpSpawn(c), kind[c] \in {"up", "restart"}
    PROVE  NewSup \in Sups /\ sup[NewSup] = "unborn"
<1>1. c \in ToSpawn
  BY DEF UpSpawn, ToSpawn
<1>2. Cardinality(ToSpawn) \in Nat \ {0} /\ Cardinality(Unborn) \in Nat
  BY <1>1, Finite, FS_CardinalityType, FS_EmptySet
<1>3. Unborn # {}
  BY <1>2, FS_EmptySet DEF Room
<1>4. Unborn \subseteq Nat
  BY BoundsAssumption DEF Unborn, Sups
<1>5. \E s \in Unborn : \A r \in Unborn : s <= r
  BY <1>3, <1>4, Least
<1>6. NewSup \in Unborn
  BY <1>5, Zenon DEF NewSup
<1> QED
  BY <1>6 DEF Unborn

-----------------------------------------------------------------------------
(* What a stop finds to end *)

\* The only one there is when the mark is kept.
StopReadDoes(c) ==
    /\ pc[c] \in {"read", "readup"}
    /\ \/ mark' = mark /\ \A s \in Sups : s # mark[c] => ~Lives(s) /\ ~Runs(s)
       \/ mark' = [mark EXCEPT ![c] = 0]
    /\ \/ /\ pc' = [pc EXCEPT ![c] = AfterStop(c)] /\ target' = target
          /\ pc[c] = "readup" => \A s \in Sups : ~Runs(s)
       \/ /\ pc' = [pc EXCEPT ![c] = "signal"]
          /\ \E s \in Sups : \/ target' = [target EXCEPT ![c] = <<"sup", s>>] /\ Lives(s)
                             \/ target' = [target EXCEPT ![c] = <<"srv", s>>] /\ Runs(s)
    /\ UNCHANGED <<pidFile, procs, kind, reaped, mine, faults, abrupt, forced>>

LEMMA StopReads ==
    ASSUME TypeOK, NEW c \in Commands, StopRead(c)
    PROVE  StopReadDoes(c)
<1> DEFINE processes == ToStop(pc[c] = "readup")
<1>1. /\ pc[c] \in {"read", "readup"}
      /\ \/ mark' = mark /\ \A s \in Sups : s # mark[c] => ~Lives(s) /\ ~Runs(s)
         \/ mark' = [mark EXCEPT ![c] = 0]
      /\ UNCHANGED <<pidFile, procs, kind, reaped, mine, faults, abrupt, forced>>
  BY DEF StopRead, Set
<1>2. \/ processes = {} /\ pc' = [pc EXCEPT ![c] = AfterStop(c)] /\ target' = target
      \/ \E p \in processes : target' = [target EXCEPT ![c] = p] /\ pc' = [pc EXCEPT ![c] = "signal"]
  BY DEF StopRead, Set, Go
<1>3. ASSUME NEW p \in processes
      PROVE  \E s \in Sups : (p = <<"sup", s>> /\ Lives(s)) \/ (p = <<"srv", s>> /\ Runs(s))
  <2>1. CASE ReadPid # 0
    <3>1. p = <<"sup", ReadPid>>
      BY <1>3, <2>1 DEF ToStop
    <3>2. ReadPid \in Sups /\ Lives(ReadPid)
      BY <2>1, BoundsAssumption DEF ReadPid, TypeOK, Sups
    <3> QED
      BY <3>1, <3>2
  <2>2. CASE ReadPid = 0
    <3>1. p \in FindSupervisor
      BY <1>3, <2>2 DEF ToStop
    <3> QED
      BY <3>1 DEF FindSupervisor
  <2> QED
    BY <2>1, <2>2
<1>4. processes = {} /\ pc[c] = "readup" => \A s \in Sups : ~Runs(s)
  BY DEF ToStop, FindSupervisor
<1> HIDE DEF processes
<1> QED
  BY <1>1, <1>2, <1>3, <1>4 DEF StopReadDoes

-----------------------------------------------------------------------------
(* Steps *)

\* Only an up and a restart start one.
LEMMA KindedStep ==
    ASSUME TypeOK, Kinded, Next
    PROVE  Kinded'
<1> USE BoundsAssumption DEF Set, Goes, Go, Lives, Runs, Holds, Dead, procs, cmds, TypeOK, Kinded
<1>1. ASSUME NEW s \in Sups, Spawn(s) PROVE Kinded'
  BY <1>1 DEF Spawn
<1>2. ASSUME NEW s \in Sups, Assign(s) PROVE Kinded'
  BY <1>2 DEF Assign
<1>3. ASSUME NEW s \in Sups, SeesExit(s) PROVE Kinded'
  BY <1>3 DEF SeesExit
<1>4. ASSUME NEW s \in Sups, Looks(s) PROVE Kinded'
  BY <1>4 DEF Looks, Health
<1>5. ASSUME NEW s \in Sups, EndsServer(s) PROVE Kinded'
  BY <1>5 DEF EndsServer, Unmarked
<1>6. ASSUME NEW s \in Sups, Reap(s) PROVE Kinded'
  BY <1>6 DEF Reap, LoopsTo, GivesUp
<1>7. ASSUME NEW s \in Sups, Wakes(s) PROVE Kinded'
  BY <1>7 DEF Wakes
<1>8. ASSUME NEW s \in Sups, ExitsAtOnce(s) PROVE Kinded'
  BY <1>8 DEF ExitsAtOnce
<1>9. ASSUME NEW s \in Sups, Closes(s) PROVE Kinded'
  BY <1>9 DEF Closes
<1>10. ASSUME NEW s \in Sups, Closed(s) PROVE Kinded'
  BY <1>10 DEF Closed, ClosesChrome
<1>11. ASSUME NEW s \in Sups, Ended(s) PROVE Kinded'
  BY <1>11 DEF Ended, Unmarked, GroupAfter
<1>12. ASSUME NEW s \in Sups, Binds(s) PROVE Kinded'
  BY <1>12 DEF Binds, PortFree, Unmarked
<1>13. ASSUME NEW s \in Sups, OpensChrome(s) PROVE Kinded'
  BY <1>13 DEF OpensChrome
<1>14. ASSUME NEW s \in Sups, Crashes(s) PROVE Kinded'
  BY <1>14 DEF Crashes, Unmarked, Fault
<1>15. ASSUME NEW s \in Sups, Wedges(s) PROVE Kinded'
  BY <1>15 DEF Wedges, Fault
<1>16. ASSUME NEW s \in Sups, Unwedges(s) PROVE Kinded'
  BY <1>16 DEF Unwedges
<1>17. ASSUME NEW s \in Sups, HangsUp(s) PROVE Kinded'
  BY <1>17 DEF HangsUp, Fault
<1>18. ASSUME NEW s \in Sups, SupKilled(s) PROVE Kinded'
  BY <1>18 DEF SupKilled, Unmarked, Fault
<1>19. ASSUME NEW c \in Commands, StopProbe(c) PROVE Kinded'
  BY <1>19 DEF StopProbe, IsUp, PortFree
<1>20. ASSUME NEW c \in Commands, StopBrowser(c) PROVE Kinded'
  BY <1>20 DEF StopBrowser, ClosesChrome
<1>21. ASSUME NEW c \in Commands, StopRead(c) PROVE Kinded'
  BY <1>21 DEF StopRead, ToStop, ReadPid, FindSupervisor, AfterStop
<1>22. ASSUME NEW c \in Commands, StopSignal(c) PROVE Kinded'
  BY <1>22 DEF StopSignal, Alive, Unmarked
<1>23. ASSUME NEW c \in Commands, StopDone(c) PROVE Kinded'
  BY <1>23 DEF StopDone, Alive, AfterStop, Nobody
<1>24. ASSUME NEW c \in Commands, StopKills(c) PROVE Kinded'
  BY <1>24 DEF StopKills, StuckClosing, AfterStop, Nobody
<1>25. ASSUME NEW c \in Commands, UpProbe(c) PROVE Kinded'
  BY <1>25 DEF UpProbe, IsUp
<1>26. ASSUME NEW c \in Commands, UpSpawn(c) PROVE Kinded'
  BY <1>26 DEF UpSpawn
<1>27. ASSUME NEW c \in Commands, UpWrites(c) PROVE Kinded'
  BY <1>27 DEF UpWrites
<1>28. ASSUME NEW c \in Commands, UpWaits(c) PROVE Kinded'
  BY <1>28 DEF UpWaits, IsUp
<1>29. ASSUME NEW c \in Commands, ReapSignals(c) PROVE Kinded'
  BY <1>29 DEF ReapSignals, Unmarked
<1>30. ASSUME NEW c \in Commands, ReapKills(c) PROVE Kinded'
  BY <1>30 DEF ReapKills, Unmarked
<1>31. ASSUME NEW c \in Commands, NEW k \in Kinds, Issue(c, k) PROVE Kinded'
  BY <1>31 DEF Issue
<1> QED
  BY <1>1, <1>2, <1>3, <1>4, <1>5, <1>6, <1>7, <1>8, <1>9, <1>10, <1>11, <1>12, <1>13, <1>14,
    <1>15, <1>16, <1>17, <1>18, <1>19, <1>20, <1>21, <1>22, <1>23, <1>24, <1>25, <1>26, <1>27,
    <1>28, <1>29, <1>30, <1>31 DEF Next, SupStep, CommandStep, World

\* The restart that is one too many is the last.
LEMMA RestartsStep ==
    ASSUME TypeOK, RestartsLeft, Room, Kinded, Next
    PROVE  RestartsLeft'
<1> USE BoundsAssumption DEF Set, Goes, Go, Lives, Runs, Holds, Dead, procs, cmds, TypeOK,
    RestartsLeft, Kinded
<1>1. ASSUME NEW s \in Sups, Spawn(s) PROVE RestartsLeft'
  BY <1>1 DEF Spawn
<1>2. ASSUME NEW s \in Sups, Assign(s) PROVE RestartsLeft'
  BY <1>2 DEF Assign
<1>3. ASSUME NEW s \in Sups, SeesExit(s) PROVE RestartsLeft'
  BY <1>3 DEF SeesExit
<1>4. ASSUME NEW s \in Sups, Looks(s) PROVE RestartsLeft'
  BY <1>4 DEF Looks, Health
<1>5. ASSUME NEW s \in Sups, EndsServer(s) PROVE RestartsLeft'
  BY <1>5 DEF EndsServer, Unmarked
<1>6. ASSUME NEW s \in Sups, Reap(s) PROVE RestartsLeft'
  BY <1>6 DEF Reap, LoopsTo, GivesUp
<1>7. ASSUME NEW s \in Sups, Wakes(s) PROVE RestartsLeft'
  BY <1>7 DEF Wakes
<1>8. ASSUME NEW s \in Sups, ExitsAtOnce(s) PROVE RestartsLeft'
  BY <1>8 DEF ExitsAtOnce
<1>9. ASSUME NEW s \in Sups, Closes(s) PROVE RestartsLeft'
  BY <1>9 DEF Closes
<1>10. ASSUME NEW s \in Sups, Closed(s) PROVE RestartsLeft'
  BY <1>10 DEF Closed, ClosesChrome
<1>11. ASSUME NEW s \in Sups, Ended(s) PROVE RestartsLeft'
  BY <1>11 DEF Ended, Unmarked, GroupAfter
<1>12. ASSUME NEW s \in Sups, Binds(s) PROVE RestartsLeft'
  BY <1>12 DEF Binds, PortFree, Unmarked
<1>13. ASSUME NEW s \in Sups, OpensChrome(s) PROVE RestartsLeft'
  BY <1>13 DEF OpensChrome
<1>14. ASSUME NEW s \in Sups, Crashes(s) PROVE RestartsLeft'
  BY <1>14 DEF Crashes, Unmarked, Fault
<1>15. ASSUME NEW s \in Sups, Wedges(s) PROVE RestartsLeft'
  BY <1>15 DEF Wedges, Fault
<1>16. ASSUME NEW s \in Sups, Unwedges(s) PROVE RestartsLeft'
  BY <1>16 DEF Unwedges
<1>17. ASSUME NEW s \in Sups, HangsUp(s) PROVE RestartsLeft'
  BY <1>17 DEF HangsUp, Fault
<1>18. ASSUME NEW s \in Sups, SupKilled(s) PROVE RestartsLeft'
  BY <1>18 DEF SupKilled, Unmarked, Fault
<1>19. ASSUME NEW c \in Commands, StopProbe(c) PROVE RestartsLeft'
  BY <1>19 DEF StopProbe, IsUp, PortFree
<1>20. ASSUME NEW c \in Commands, StopBrowser(c) PROVE RestartsLeft'
  BY <1>20 DEF StopBrowser, ClosesChrome
<1>21. ASSUME NEW c \in Commands, StopRead(c) PROVE RestartsLeft'
  BY <1>21 DEF StopRead, ToStop, ReadPid, FindSupervisor, AfterStop
<1>22. ASSUME NEW c \in Commands, StopSignal(c) PROVE RestartsLeft'
  BY <1>22 DEF StopSignal, Alive, Unmarked
<1>23. ASSUME NEW c \in Commands, StopDone(c) PROVE RestartsLeft'
  BY <1>23 DEF StopDone, Alive, AfterStop, Nobody
<1>24. ASSUME NEW c \in Commands, StopKills(c) PROVE RestartsLeft'
  BY <1>24 DEF StopKills, StuckClosing, AfterStop, Nobody
<1>25. ASSUME NEW c \in Commands, UpProbe(c) PROVE RestartsLeft'
  BY <1>25 DEF UpProbe, IsUp
<1>26. ASSUME NEW c \in Commands, UpSpawn(c) PROVE RestartsLeft'
  <2>1. NewSup \in Sups /\ sup[NewSup] = "unborn"
    BY <1>26, Newborn DEF UpSpawn, Kinded
  <2> HIDE DEF NewSup
  <2> QED
    BY <1>26, <2>1 DEF UpSpawn
<1>27. ASSUME NEW c \in Commands, UpWrites(c) PROVE RestartsLeft'
  BY <1>27 DEF UpWrites
<1>28. ASSUME NEW c \in Commands, UpWaits(c) PROVE RestartsLeft'
  BY <1>28 DEF UpWaits, IsUp
<1>29. ASSUME NEW c \in Commands, ReapSignals(c) PROVE RestartsLeft'
  BY <1>29 DEF ReapSignals, Unmarked
<1>30. ASSUME NEW c \in Commands, ReapKills(c) PROVE RestartsLeft'
  BY <1>30 DEF ReapKills, Unmarked
<1>31. ASSUME NEW c \in Commands, NEW k \in Kinds, Issue(c, k) PROVE RestartsLeft'
  BY <1>31 DEF Issue
<1> QED
  BY <1>1, <1>2, <1>3, <1>4, <1>5, <1>6, <1>7, <1>8, <1>9, <1>10, <1>11, <1>12, <1>13, <1>14,
    <1>15, <1>16, <1>17, <1>18, <1>19, <1>20, <1>21, <1>22, <1>23, <1>24, <1>25, <1>26, <1>27,
    <1>28, <1>29, <1>30, <1>31 DEF Next, SupStep, CommandStep, World

\* A server is started by its supervisor only, and ended before the next.
LEMMA BetweenStep ==
    ASSUME TypeOK, Between, Room, Kinded, Next
    PROVE  Between'
<1> USE BoundsAssumption DEF Set, Goes, Go, Lives, Runs, Holds, Dead, procs, cmds, TypeOK,
    Between, Kinded
<1>1. ASSUME NEW s \in Sups, Spawn(s) PROVE Between'
  BY <1>1 DEF Spawn
<1>2. ASSUME NEW s \in Sups, Assign(s) PROVE Between'
  BY <1>2 DEF Assign
<1>3. ASSUME NEW s \in Sups, SeesExit(s) PROVE Between'
  BY <1>3 DEF SeesExit
<1>4. ASSUME NEW s \in Sups, Looks(s) PROVE Between'
  BY <1>4 DEF Looks, Health
<1>5. ASSUME NEW s \in Sups, EndsServer(s) PROVE Between'
  BY <1>5 DEF EndsServer, Unmarked
<1>6. ASSUME NEW s \in Sups, Reap(s) PROVE Between'
  BY <1>6 DEF Reap, LoopsTo, GivesUp
<1>7. ASSUME NEW s \in Sups, Wakes(s) PROVE Between'
  BY <1>7 DEF Wakes
<1>8. ASSUME NEW s \in Sups, ExitsAtOnce(s) PROVE Between'
  BY <1>8 DEF ExitsAtOnce
<1>9. ASSUME NEW s \in Sups, Closes(s) PROVE Between'
  BY <1>9 DEF Closes
<1>10. ASSUME NEW s \in Sups, Closed(s) PROVE Between'
  BY <1>10 DEF Closed, ClosesChrome
<1>11. ASSUME NEW s \in Sups, Ended(s) PROVE Between'
  BY <1>11 DEF Ended, Unmarked, GroupAfter
<1>12. ASSUME NEW s \in Sups, Binds(s) PROVE Between'
  BY <1>12 DEF Binds, PortFree, Unmarked
<1>13. ASSUME NEW s \in Sups, OpensChrome(s) PROVE Between'
  BY <1>13 DEF OpensChrome
<1>14. ASSUME NEW s \in Sups, Crashes(s) PROVE Between'
  BY <1>14 DEF Crashes, Unmarked, Fault
<1>15. ASSUME NEW s \in Sups, Wedges(s) PROVE Between'
  BY <1>15 DEF Wedges, Fault
<1>16. ASSUME NEW s \in Sups, Unwedges(s) PROVE Between'
  BY <1>16 DEF Unwedges
<1>17. ASSUME NEW s \in Sups, HangsUp(s) PROVE Between'
  BY <1>17 DEF HangsUp, Fault
<1>18. ASSUME NEW s \in Sups, SupKilled(s) PROVE Between'
  BY <1>18 DEF SupKilled, Unmarked, Fault
<1>19. ASSUME NEW c \in Commands, StopProbe(c) PROVE Between'
  BY <1>19 DEF StopProbe, IsUp, PortFree
<1>20. ASSUME NEW c \in Commands, StopBrowser(c) PROVE Between'
  BY <1>20 DEF StopBrowser, ClosesChrome
<1>21. ASSUME NEW c \in Commands, StopRead(c) PROVE Between'
  BY <1>21 DEF StopRead, ToStop, ReadPid, FindSupervisor, AfterStop
<1>22. ASSUME NEW c \in Commands, StopSignal(c) PROVE Between'
  BY <1>22 DEF StopSignal, Alive, Unmarked
<1>23. ASSUME NEW c \in Commands, StopDone(c) PROVE Between'
  BY <1>23 DEF StopDone, Alive, AfterStop, Nobody
<1>24. ASSUME NEW c \in Commands, StopKills(c) PROVE Between'
  BY <1>24 DEF StopKills, StuckClosing, AfterStop, Nobody
<1>25. ASSUME NEW c \in Commands, UpProbe(c) PROVE Between'
  BY <1>25 DEF UpProbe, IsUp
<1>26. ASSUME NEW c \in Commands, UpSpawn(c) PROVE Between'
  <2>1. NewSup \in Sups /\ sup[NewSup] = "unborn"
    BY <1>26, Newborn DEF UpSpawn, Kinded
  <2> HIDE DEF NewSup
  <2> QED
    BY <1>26, <2>1 DEF UpSpawn
<1>27. ASSUME NEW c \in Commands, UpWrites(c) PROVE Between'
  BY <1>27 DEF UpWrites
<1>28. ASSUME NEW c \in Commands, UpWaits(c) PROVE Between'
  BY <1>28 DEF UpWaits, IsUp
<1>29. ASSUME NEW c \in Commands, ReapSignals(c) PROVE Between'
  BY <1>29 DEF ReapSignals, Unmarked
<1>30. ASSUME NEW c \in Commands, ReapKills(c) PROVE Between'
  BY <1>30 DEF ReapKills, Unmarked
<1>31. ASSUME NEW c \in Commands, NEW k \in Kinds, Issue(c, k) PROVE Between'
  BY <1>31 DEF Issue
<1> QED
  BY <1>1, <1>2, <1>3, <1>4, <1>5, <1>6, <1>7, <1>8, <1>9, <1>10, <1>11, <1>12, <1>13, <1>14,
    <1>15, <1>16, <1>17, <1>18, <1>19, <1>20, <1>21, <1>22, <1>23, <1>24, <1>25, <1>26, <1>27,
    <1>28, <1>29, <1>30, <1>31 DEF Next, SupStep, CommandStep, World

\* A supervisor that ends in order has ended its server and reaped the group.
LEMMA OwnedStep ==
    ASSUME TypeOK, Between, Owned, Room, Kinded, Next
    PROVE  Owned'
<1> USE BoundsAssumption DEF Set, Goes, Go, Lives, Runs, Holds, Dead, procs, cmds, TypeOK,
    Between, Owned, Kinded
<1>1. ASSUME NEW s \in Sups, Spawn(s) PROVE Owned'
  BY <1>1 DEF Spawn
<1>2. ASSUME NEW s \in Sups, Assign(s) PROVE Owned'
  BY <1>2 DEF Assign
<1>3. ASSUME NEW s \in Sups, SeesExit(s) PROVE Owned'
  BY <1>3 DEF SeesExit
<1>4. ASSUME NEW s \in Sups, Looks(s) PROVE Owned'
  BY <1>4 DEF Looks, Health
<1>5. ASSUME NEW s \in Sups, EndsServer(s) PROVE Owned'
  BY <1>5 DEF EndsServer, Unmarked
<1>6. ASSUME NEW s \in Sups, Reap(s) PROVE Owned'
  BY <1>6 DEF Reap, LoopsTo, GivesUp
<1>7. ASSUME NEW s \in Sups, Wakes(s) PROVE Owned'
  BY <1>7 DEF Wakes
<1>8. ASSUME NEW s \in Sups, ExitsAtOnce(s) PROVE Owned'
  BY <1>8 DEF ExitsAtOnce
<1>9. ASSUME NEW s \in Sups, Closes(s) PROVE Owned'
  BY <1>9 DEF Closes
<1>10. ASSUME NEW s \in Sups, Closed(s) PROVE Owned'
  BY <1>10 DEF Closed, ClosesChrome
<1>11. ASSUME NEW s \in Sups, Ended(s) PROVE Owned'
  BY <1>11 DEF Ended, Unmarked, GroupAfter
<1>12. ASSUME NEW s \in Sups, Binds(s) PROVE Owned'
  BY <1>12 DEF Binds, PortFree, Unmarked
<1>13. ASSUME NEW s \in Sups, OpensChrome(s) PROVE Owned'
  BY <1>13 DEF OpensChrome
<1>14. ASSUME NEW s \in Sups, Crashes(s) PROVE Owned'
  BY <1>14 DEF Crashes, Unmarked, Fault
<1>15. ASSUME NEW s \in Sups, Wedges(s) PROVE Owned'
  BY <1>15 DEF Wedges, Fault
<1>16. ASSUME NEW s \in Sups, Unwedges(s) PROVE Owned'
  BY <1>16 DEF Unwedges
<1>17. ASSUME NEW s \in Sups, HangsUp(s) PROVE Owned'
  BY <1>17 DEF HangsUp, Fault
<1>18. ASSUME NEW s \in Sups, SupKilled(s) PROVE Owned'
  BY <1>18 DEF SupKilled, Unmarked, Fault
<1>19. ASSUME NEW c \in Commands, StopProbe(c) PROVE Owned'
  BY <1>19 DEF StopProbe, IsUp, PortFree
<1>20. ASSUME NEW c \in Commands, StopBrowser(c) PROVE Owned'
  BY <1>20 DEF StopBrowser, ClosesChrome
<1>21. ASSUME NEW c \in Commands, StopRead(c) PROVE Owned'
  BY <1>21 DEF StopRead, ToStop, ReadPid, FindSupervisor, AfterStop
<1>22. ASSUME NEW c \in Commands, StopSignal(c) PROVE Owned'
  BY <1>22 DEF StopSignal, Alive, Unmarked
<1>23. ASSUME NEW c \in Commands, StopDone(c) PROVE Owned'
  BY <1>23 DEF StopDone, Alive, AfterStop, Nobody
<1>24. ASSUME NEW c \in Commands, StopKills(c) PROVE Owned'
  BY <1>24 DEF StopKills, StuckClosing, AfterStop, Nobody
<1>25. ASSUME NEW c \in Commands, UpProbe(c) PROVE Owned'
  BY <1>25 DEF UpProbe, IsUp
<1>26. ASSUME NEW c \in Commands, UpSpawn(c) PROVE Owned'
  <2>1. NewSup \in Sups /\ sup[NewSup] = "unborn"
    BY <1>26, Newborn DEF UpSpawn, Kinded
  <2> HIDE DEF NewSup
  <2> QED
    BY <1>26, <2>1 DEF UpSpawn
<1>27. ASSUME NEW c \in Commands, UpWrites(c) PROVE Owned'
  BY <1>27 DEF UpWrites
<1>28. ASSUME NEW c \in Commands, UpWaits(c) PROVE Owned'
  BY <1>28 DEF UpWaits, IsUp
<1>29. ASSUME NEW c \in Commands, ReapSignals(c) PROVE Owned'
  BY <1>29 DEF ReapSignals, Unmarked
<1>30. ASSUME NEW c \in Commands, ReapKills(c) PROVE Owned'
  BY <1>30 DEF ReapKills, Unmarked
<1>31. ASSUME NEW c \in Commands, NEW k \in Kinds, Issue(c, k) PROVE Owned'
  BY <1>31 DEF Issue
<1> QED
  BY <1>1, <1>2, <1>3, <1>4, <1>5, <1>6, <1>7, <1>8, <1>9, <1>10, <1>11, <1>12, <1>13, <1>14,
    <1>15, <1>16, <1>17, <1>18, <1>19, <1>20, <1>21, <1>22, <1>23, <1>24, <1>25, <1>26, <1>27,
    <1>28, <1>29, <1>30, <1>31 DEF Next, SupStep, CommandStep, World

\* The port is taken when it is free.
LEMMA OnePortStep ==
    ASSUME TypeOK, OnePort, Next
    PROVE  OnePort'
<1> USE BoundsAssumption DEF Set, Goes, Go, Lives, Runs, Holds, Dead, procs, cmds, TypeOK, OnePort
<1>1. ASSUME NEW s \in Sups, Spawn(s) PROVE OnePort'
  BY <1>1 DEF Spawn
<1>2. ASSUME NEW s \in Sups, Assign(s) PROVE OnePort'
  BY <1>2 DEF Assign
<1>3. ASSUME NEW s \in Sups, SeesExit(s) PROVE OnePort'
  BY <1>3 DEF SeesExit
<1>4. ASSUME NEW s \in Sups, Looks(s) PROVE OnePort'
  BY <1>4 DEF Looks, Health
<1>5. ASSUME NEW s \in Sups, EndsServer(s) PROVE OnePort'
  BY <1>5 DEF EndsServer, Unmarked
<1>6. ASSUME NEW s \in Sups, Reap(s) PROVE OnePort'
  BY <1>6 DEF Reap, LoopsTo, GivesUp
<1>7. ASSUME NEW s \in Sups, Wakes(s) PROVE OnePort'
  BY <1>7 DEF Wakes
<1>8. ASSUME NEW s \in Sups, ExitsAtOnce(s) PROVE OnePort'
  BY <1>8 DEF ExitsAtOnce
<1>9. ASSUME NEW s \in Sups, Closes(s) PROVE OnePort'
  BY <1>9 DEF Closes
<1>10. ASSUME NEW s \in Sups, Closed(s) PROVE OnePort'
  BY <1>10 DEF Closed, ClosesChrome
<1>11. ASSUME NEW s \in Sups, Ended(s) PROVE OnePort'
  BY <1>11 DEF Ended, Unmarked, GroupAfter
<1>12. ASSUME NEW s \in Sups, Binds(s) PROVE OnePort'
  BY <1>12 DEF Binds, PortFree, Unmarked
<1>13. ASSUME NEW s \in Sups, OpensChrome(s) PROVE OnePort'
  BY <1>13 DEF OpensChrome
<1>14. ASSUME NEW s \in Sups, Crashes(s) PROVE OnePort'
  BY <1>14 DEF Crashes, Unmarked, Fault
<1>15. ASSUME NEW s \in Sups, Wedges(s) PROVE OnePort'
  BY <1>15 DEF Wedges, Fault
<1>16. ASSUME NEW s \in Sups, Unwedges(s) PROVE OnePort'
  BY <1>16 DEF Unwedges
<1>17. ASSUME NEW s \in Sups, HangsUp(s) PROVE OnePort'
  BY <1>17 DEF HangsUp, Fault
<1>18. ASSUME NEW s \in Sups, SupKilled(s) PROVE OnePort'
  BY <1>18 DEF SupKilled, Unmarked, Fault
<1>19. ASSUME NEW c \in Commands, StopProbe(c) PROVE OnePort'
  BY <1>19 DEF StopProbe, IsUp, PortFree
<1>20. ASSUME NEW c \in Commands, StopBrowser(c) PROVE OnePort'
  BY <1>20 DEF StopBrowser, ClosesChrome
<1>21. ASSUME NEW c \in Commands, StopRead(c) PROVE OnePort'
  BY <1>21 DEF StopRead, ToStop, ReadPid, FindSupervisor, AfterStop
<1>22. ASSUME NEW c \in Commands, StopSignal(c) PROVE OnePort'
  BY <1>22 DEF StopSignal, Alive, Unmarked
<1>23. ASSUME NEW c \in Commands, StopDone(c) PROVE OnePort'
  BY <1>23 DEF StopDone, Alive, AfterStop, Nobody
<1>24. ASSUME NEW c \in Commands, StopKills(c) PROVE OnePort'
  BY <1>24 DEF StopKills, StuckClosing, AfterStop, Nobody
<1>25. ASSUME NEW c \in Commands, UpProbe(c) PROVE OnePort'
  BY <1>25 DEF UpProbe, IsUp
<1>26. ASSUME NEW c \in Commands, UpSpawn(c) PROVE OnePort'
  BY <1>26 DEF UpSpawn
<1>27. ASSUME NEW c \in Commands, UpWrites(c) PROVE OnePort'
  BY <1>27 DEF UpWrites
<1>28. ASSUME NEW c \in Commands, UpWaits(c) PROVE OnePort'
  BY <1>28 DEF UpWaits, IsUp
<1>29. ASSUME NEW c \in Commands, ReapSignals(c) PROVE OnePort'
  BY <1>29 DEF ReapSignals, Unmarked
<1>30. ASSUME NEW c \in Commands, ReapKills(c) PROVE OnePort'
  BY <1>30 DEF ReapKills, Unmarked
<1>31. ASSUME NEW c \in Commands, NEW k \in Kinds, Issue(c, k) PROVE OnePort'
  BY <1>31 DEF Issue
<1> QED
  BY <1>1, <1>2, <1>3, <1>4, <1>5, <1>6, <1>7, <1>8, <1>9, <1>10, <1>11, <1>12, <1>13, <1>14,
    <1>15, <1>16, <1>17, <1>18, <1>19, <1>20, <1>21, <1>22, <1>23, <1>24, <1>25, <1>26, <1>27,
    <1>28, <1>29, <1>30, <1>31 DEF Next, SupStep, CommandStep, World

\* The pid file names a supervisor, or what holds the port is ended.
LEMMA TargetsStep ==
    ASSUME TypeOK, Targets, Next
    PROVE  Targets'
<1> USE BoundsAssumption DEF Set, Goes, Go, Lives, Runs, Holds, Dead, procs, cmds, TypeOK, Targets
<1>1. ASSUME NEW s \in Sups, Spawn(s) PROVE Targets'
  BY <1>1 DEF Spawn
<1>2. ASSUME NEW s \in Sups, Assign(s) PROVE Targets'
  BY <1>2 DEF Assign
<1>3. ASSUME NEW s \in Sups, SeesExit(s) PROVE Targets'
  BY <1>3 DEF SeesExit
<1>4. ASSUME NEW s \in Sups, Looks(s) PROVE Targets'
  BY <1>4 DEF Looks, Health
<1>5. ASSUME NEW s \in Sups, EndsServer(s) PROVE Targets'
  BY <1>5 DEF EndsServer, Unmarked
<1>6. ASSUME NEW s \in Sups, Reap(s) PROVE Targets'
  BY <1>6 DEF Reap, LoopsTo, GivesUp
<1>7. ASSUME NEW s \in Sups, Wakes(s) PROVE Targets'
  BY <1>7 DEF Wakes
<1>8. ASSUME NEW s \in Sups, ExitsAtOnce(s) PROVE Targets'
  BY <1>8 DEF ExitsAtOnce
<1>9. ASSUME NEW s \in Sups, Closes(s) PROVE Targets'
  BY <1>9 DEF Closes
<1>10. ASSUME NEW s \in Sups, Closed(s) PROVE Targets'
  BY <1>10 DEF Closed, ClosesChrome
<1>11. ASSUME NEW s \in Sups, Ended(s) PROVE Targets'
  BY <1>11 DEF Ended, Unmarked, GroupAfter
<1>12. ASSUME NEW s \in Sups, Binds(s) PROVE Targets'
  BY <1>12 DEF Binds, PortFree, Unmarked
<1>13. ASSUME NEW s \in Sups, OpensChrome(s) PROVE Targets'
  BY <1>13 DEF OpensChrome
<1>14. ASSUME NEW s \in Sups, Crashes(s) PROVE Targets'
  BY <1>14 DEF Crashes, Unmarked, Fault
<1>15. ASSUME NEW s \in Sups, Wedges(s) PROVE Targets'
  BY <1>15 DEF Wedges, Fault
<1>16. ASSUME NEW s \in Sups, Unwedges(s) PROVE Targets'
  BY <1>16 DEF Unwedges
<1>17. ASSUME NEW s \in Sups, HangsUp(s) PROVE Targets'
  BY <1>17 DEF HangsUp, Fault
<1>18. ASSUME NEW s \in Sups, SupKilled(s) PROVE Targets'
  BY <1>18 DEF SupKilled, Unmarked, Fault
<1>19. ASSUME NEW c \in Commands, StopProbe(c) PROVE Targets'
  BY <1>19 DEF StopProbe, IsUp, PortFree
<1>20. ASSUME NEW c \in Commands, StopBrowser(c) PROVE Targets'
  BY <1>20 DEF StopBrowser, ClosesChrome
<1>21. ASSUME NEW c \in Commands, StopRead(c) PROVE Targets'
  <2>1. StopReadDoes(c)
    BY <1>21, StopReads
  <2> QED
    BY <2>1 DEF StopReadDoes, AfterStop
<1>22. ASSUME NEW c \in Commands, StopSignal(c) PROVE Targets'
  BY <1>22 DEF StopSignal, Alive, Unmarked
<1>23. ASSUME NEW c \in Commands, StopDone(c) PROVE Targets'
  BY <1>23 DEF StopDone, Alive, AfterStop, Nobody
<1>24. ASSUME NEW c \in Commands, StopKills(c) PROVE Targets'
  BY <1>24 DEF StopKills, StuckClosing, AfterStop, Nobody
<1>25. ASSUME NEW c \in Commands, UpProbe(c) PROVE Targets'
  BY <1>25 DEF UpProbe, IsUp
<1>26. ASSUME NEW c \in Commands, UpSpawn(c) PROVE Targets'
  BY <1>26 DEF UpSpawn
<1>27. ASSUME NEW c \in Commands, UpWrites(c) PROVE Targets'
  BY <1>27 DEF UpWrites
<1>28. ASSUME NEW c \in Commands, UpWaits(c) PROVE Targets'
  BY <1>28 DEF UpWaits, IsUp
<1>29. ASSUME NEW c \in Commands, ReapSignals(c) PROVE Targets'
  BY <1>29 DEF ReapSignals, Unmarked
<1>30. ASSUME NEW c \in Commands, ReapKills(c) PROVE Targets'
  BY <1>30 DEF ReapKills, Unmarked
<1>31. ASSUME NEW c \in Commands, NEW k \in Kinds, Issue(c, k) PROVE Targets'
  BY <1>31 DEF Issue
<1> QED
  BY <1>1, <1>2, <1>3, <1>4, <1>5, <1>6, <1>7, <1>8, <1>9, <1>10, <1>11, <1>12, <1>13, <1>14,
    <1>15, <1>16, <1>17, <1>18, <1>19, <1>20, <1>21, <1>22, <1>23, <1>24, <1>25, <1>26, <1>27,
    <1>28, <1>29, <1>30, <1>31 DEF Next, SupStep, CommandStep, World

\* A mark goes with the server.
LEMMA MarkedStep ==
    ASSUME TypeOK, Between, Marked, Next
    PROVE  Marked'
<1> USE BoundsAssumption DEF Set, Goes, Go, Lives, Runs, Holds, Dead, procs, cmds, TypeOK,
    Between, Marked, Sups
<1>1. ASSUME NEW s \in Sups, Spawn(s) PROVE Marked'
  BY <1>1 DEF Spawn
<1>2. ASSUME NEW s \in Sups, Assign(s) PROVE Marked'
  BY <1>2 DEF Assign
<1>3. ASSUME NEW s \in Sups, SeesExit(s) PROVE Marked'
  BY <1>3 DEF SeesExit
<1>4. ASSUME NEW s \in Sups, Looks(s) PROVE Marked'
  BY <1>4 DEF Looks, Health
<1>5. ASSUME NEW s \in Sups, EndsServer(s) PROVE Marked'
  BY <1>5 DEF EndsServer, Unmarked
<1>6. ASSUME NEW s \in Sups, Reap(s) PROVE Marked'
  BY <1>6 DEF Reap, LoopsTo, GivesUp
<1>7. ASSUME NEW s \in Sups, Wakes(s) PROVE Marked'
  BY <1>7 DEF Wakes
<1>8. ASSUME NEW s \in Sups, ExitsAtOnce(s) PROVE Marked'
  BY <1>8 DEF ExitsAtOnce
<1>9. ASSUME NEW s \in Sups, Closes(s) PROVE Marked'
  BY <1>9 DEF Closes
<1>10. ASSUME NEW s \in Sups, Closed(s) PROVE Marked'
  BY <1>10 DEF Closed, ClosesChrome
<1>11. ASSUME NEW s \in Sups, Ended(s) PROVE Marked'
  BY <1>11 DEF Ended, Unmarked, GroupAfter
<1>12. ASSUME NEW s \in Sups, Binds(s) PROVE Marked'
  BY <1>12, SMTT(30) DEF Binds, PortFree, Unmarked
<1>13. ASSUME NEW s \in Sups, OpensChrome(s) PROVE Marked'
  BY <1>13 DEF OpensChrome
<1>14. ASSUME NEW s \in Sups, Crashes(s) PROVE Marked'
  BY <1>14 DEF Crashes, Unmarked, Fault
<1>15. ASSUME NEW s \in Sups, Wedges(s) PROVE Marked'
  BY <1>15 DEF Wedges, Fault
<1>16. ASSUME NEW s \in Sups, Unwedges(s) PROVE Marked'
  BY <1>16 DEF Unwedges
<1>17. ASSUME NEW s \in Sups, HangsUp(s) PROVE Marked'
  BY <1>17 DEF HangsUp, Fault
<1>18. ASSUME NEW s \in Sups, SupKilled(s) PROVE Marked'
  BY <1>18 DEF SupKilled, Unmarked, Fault
<1>19. ASSUME NEW c \in Commands, StopProbe(c) PROVE Marked'
  <2>1. mark' = Set(mark, c, IF PortFree THEN 0 ELSE CHOOSE s \in Sups : Holds(s)) /\ srv' = srv
    BY <1>19 DEF StopProbe
  <2>2. PortFree \/ (CHOOSE s \in Sups : Holds(s)) \in {s \in Sups : Holds(s)}
    BY DEF PortFree
  <2>3. mark'[c] # 0 => mark'[c] \in Sups /\ Holds(mark'[c])
    BY <2>1, <2>2
  <2>4. \A d \in Commands \ {c} : mark'[d] = mark[d]
    BY <2>1
  <2> QED
    BY <2>1, <2>3, <2>4
<1>20. ASSUME NEW c \in Commands, StopBrowser(c) PROVE Marked'
  BY <1>20 DEF StopBrowser, ClosesChrome
<1>21. ASSUME NEW c \in Commands, StopRead(c) PROVE Marked'
  BY <1>21 DEF StopRead, ToStop, ReadPid, FindSupervisor, AfterStop
<1>22. ASSUME NEW c \in Commands, StopSignal(c) PROVE Marked'
  BY <1>22, SMTT(30) DEF StopSignal, Alive, Unmarked
<1>23. ASSUME NEW c \in Commands, StopDone(c) PROVE Marked'
  BY <1>23 DEF StopDone, Alive, AfterStop, Nobody
<1>24. ASSUME NEW c \in Commands, StopKills(c) PROVE Marked'
  BY <1>24 DEF StopKills, StuckClosing, AfterStop, Nobody
<1>25. ASSUME NEW c \in Commands, UpProbe(c) PROVE Marked'
  BY <1>25 DEF UpProbe, IsUp
<1>26. ASSUME NEW c \in Commands, UpSpawn(c) PROVE Marked'
  BY <1>26 DEF UpSpawn
<1>27. ASSUME NEW c \in Commands, UpWrites(c) PROVE Marked'
  BY <1>27 DEF UpWrites
<1>28. ASSUME NEW c \in Commands, UpWaits(c) PROVE Marked'
  BY <1>28 DEF UpWaits, IsUp
<1>29. ASSUME NEW c \in Commands, ReapSignals(c) PROVE Marked'
  BY <1>29 DEF ReapSignals, Unmarked
<1>30. ASSUME NEW c \in Commands, ReapKills(c) PROVE Marked'
  BY <1>30 DEF ReapKills, Unmarked
<1>31. ASSUME NEW c \in Commands, NEW k \in Kinds, Issue(c, k) PROVE Marked'
  BY <1>31 DEF Issue
<1> QED
  BY <1>1, <1>2, <1>3, <1>4, <1>5, <1>6, <1>7, <1>8, <1>9, <1>10, <1>11, <1>12, <1>13, <1>14,
    <1>15, <1>16, <1>17, <1>18, <1>19, <1>20, <1>21, <1>22, <1>23, <1>24, <1>25, <1>26, <1>27,
    <1>28, <1>29, <1>30, <1>31 DEF Next, SupStep, CommandStep, World

\* A stop that found the port held ends who holds it.
LEMMA AimedStep ==
    ASSUME TypeOK, Between, OnePort, Targets, Marked, Aimed, Room, Kinded, Next
    PROVE  Aimed'
<1> USE BoundsAssumption DEF Set, Goes, Go, Lives, Runs, Holds, Dead, procs, cmds, TypeOK,
    Between, OnePort, Targets, Marked, Aimed, Kinded
<1>1. ASSUME NEW s \in Sups, Spawn(s) PROVE Aimed'
  BY <1>1 DEF Spawn
<1>2. ASSUME NEW s \in Sups, Assign(s) PROVE Aimed'
  BY <1>2 DEF Assign
<1>3. ASSUME NEW s \in Sups, SeesExit(s) PROVE Aimed'
  BY <1>3 DEF SeesExit
<1>4. ASSUME NEW s \in Sups, Looks(s) PROVE Aimed'
  BY <1>4 DEF Looks, Health
<1>5. ASSUME NEW s \in Sups, EndsServer(s) PROVE Aimed'
  BY <1>5 DEF EndsServer, Unmarked
<1>6. ASSUME NEW s \in Sups, Reap(s) PROVE Aimed'
  BY <1>6 DEF Reap, LoopsTo, GivesUp
<1>7. ASSUME NEW s \in Sups, Wakes(s) PROVE Aimed'
  BY <1>7 DEF Wakes
<1>8. ASSUME NEW s \in Sups, ExitsAtOnce(s) PROVE Aimed'
  BY <1>8 DEF ExitsAtOnce
<1>9. ASSUME NEW s \in Sups, Closes(s) PROVE Aimed'
  BY <1>9 DEF Closes
<1>10. ASSUME NEW s \in Sups, Closed(s) PROVE Aimed'
  BY <1>10 DEF Closed, ClosesChrome
<1>11. ASSUME NEW s \in Sups, Ended(s) PROVE Aimed'
  BY <1>11 DEF Ended, Unmarked, GroupAfter
<1>12. ASSUME NEW s \in Sups, Binds(s) PROVE Aimed'
  BY <1>12 DEF Binds, PortFree, Unmarked
<1>13. ASSUME NEW s \in Sups, OpensChrome(s) PROVE Aimed'
  BY <1>13 DEF OpensChrome
<1>14. ASSUME NEW s \in Sups, Crashes(s) PROVE Aimed'
  BY <1>14 DEF Crashes, Unmarked, Fault
<1>15. ASSUME NEW s \in Sups, Wedges(s) PROVE Aimed'
  BY <1>15 DEF Wedges, Fault
<1>16. ASSUME NEW s \in Sups, Unwedges(s) PROVE Aimed'
  BY <1>16 DEF Unwedges
<1>17. ASSUME NEW s \in Sups, HangsUp(s) PROVE Aimed'
  BY <1>17 DEF HangsUp, Fault
<1>18. ASSUME NEW s \in Sups, SupKilled(s) PROVE Aimed'
  BY <1>18 DEF SupKilled, Unmarked, Fault
<1>19. ASSUME NEW c \in Commands, StopProbe(c) PROVE Aimed'
  BY <1>19 DEF StopProbe, IsUp, PortFree
<1>20. ASSUME NEW c \in Commands, StopBrowser(c) PROVE Aimed'
  BY <1>20 DEF StopBrowser, ClosesChrome
<1>21. ASSUME NEW c \in Commands, StopRead(c) PROVE Aimed'
  <2>1. StopReadDoes(c)
    BY <1>21, StopReads
  <2> QED
    BY <2>1 DEF StopReadDoes, AfterStop
<1>22. ASSUME NEW c \in Commands, StopSignal(c) PROVE Aimed'
  BY <1>22 DEF StopSignal, Alive, Unmarked
<1>23. ASSUME NEW c \in Commands, StopDone(c) PROVE Aimed'
  BY <1>23 DEF StopDone, Alive, AfterStop, Nobody
<1>24. ASSUME NEW c \in Commands, StopKills(c) PROVE Aimed'
  BY <1>24 DEF StopKills, StuckClosing, AfterStop, Nobody
<1>25. ASSUME NEW c \in Commands, UpProbe(c) PROVE Aimed'
  BY <1>25 DEF UpProbe, IsUp
<1>26. ASSUME NEW c \in Commands, UpSpawn(c) PROVE Aimed'
  <2>1. NewSup \in Sups /\ sup[NewSup] = "unborn"
    BY <1>26, Newborn DEF UpSpawn, Kinded
  <2> HIDE DEF NewSup
  <2> QED
    BY <1>26, <2>1 DEF UpSpawn
<1>27. ASSUME NEW c \in Commands, UpWrites(c) PROVE Aimed'
  BY <1>27 DEF UpWrites
<1>28. ASSUME NEW c \in Commands, UpWaits(c) PROVE Aimed'
  BY <1>28 DEF UpWaits, IsUp
<1>29. ASSUME NEW c \in Commands, ReapSignals(c) PROVE Aimed'
  BY <1>29 DEF ReapSignals, Unmarked
<1>30. ASSUME NEW c \in Commands, ReapKills(c) PROVE Aimed'
  BY <1>30 DEF ReapKills, Unmarked
<1>31. ASSUME NEW c \in Commands, NEW k \in Kinds, Issue(c, k) PROVE Aimed'
  BY <1>31 DEF Issue
<1> QED
  BY <1>1, <1>2, <1>3, <1>4, <1>5, <1>6, <1>7, <1>8, <1>9, <1>10, <1>11, <1>12, <1>13, <1>14,
    <1>15, <1>16, <1>17, <1>18, <1>19, <1>20, <1>21, <1>22, <1>23, <1>24, <1>25, <1>26, <1>27,
    <1>28, <1>29, <1>30, <1>31 DEF Next, SupStep, CommandStep, World

\* A stop has ended its target when it reports success.
LEMMA StopStopsStep ==
    ASSUME TypeOK, Kinded, Between, OnePort, Targets, Marked, Aimed, StopStops, Next
    PROVE  StopStops'
<1> USE BoundsAssumption DEF Set, Goes, Go, Lives, Runs, Holds, Dead, procs, cmds, TypeOK,
    Kinded, Between, OnePort, Targets, Marked, Aimed, StopStops, Stopped
<1>1. ASSUME NEW s \in Sups, Spawn(s) PROVE StopStops'
  BY <1>1 DEF Spawn
<1>2. ASSUME NEW s \in Sups, Assign(s) PROVE StopStops'
  BY <1>2 DEF Assign
<1>3. ASSUME NEW s \in Sups, SeesExit(s) PROVE StopStops'
  BY <1>3 DEF SeesExit
<1>4. ASSUME NEW s \in Sups, Looks(s) PROVE StopStops'
  BY <1>4 DEF Looks, Health
<1>5. ASSUME NEW s \in Sups, EndsServer(s) PROVE StopStops'
  BY <1>5 DEF EndsServer, Unmarked
<1>6. ASSUME NEW s \in Sups, Reap(s) PROVE StopStops'
  BY <1>6 DEF Reap, LoopsTo, GivesUp
<1>7. ASSUME NEW s \in Sups, Wakes(s) PROVE StopStops'
  BY <1>7 DEF Wakes
<1>8. ASSUME NEW s \in Sups, ExitsAtOnce(s) PROVE StopStops'
  BY <1>8 DEF ExitsAtOnce
<1>9. ASSUME NEW s \in Sups, Closes(s) PROVE StopStops'
  BY <1>9 DEF Closes
<1>10. ASSUME NEW s \in Sups, Closed(s) PROVE StopStops'
  BY <1>10 DEF Closed, ClosesChrome
<1>11. ASSUME NEW s \in Sups, Ended(s) PROVE StopStops'
  BY <1>11 DEF Ended, Unmarked, GroupAfter
<1>12. ASSUME NEW s \in Sups, Binds(s) PROVE StopStops'
  BY <1>12 DEF Binds, PortFree, Unmarked
<1>13. ASSUME NEW s \in Sups, OpensChrome(s) PROVE StopStops'
  BY <1>13 DEF OpensChrome
<1>14. ASSUME NEW s \in Sups, Crashes(s) PROVE StopStops'
  BY <1>14 DEF Crashes, Unmarked, Fault
<1>15. ASSUME NEW s \in Sups, Wedges(s) PROVE StopStops'
  BY <1>15 DEF Wedges, Fault
<1>16. ASSUME NEW s \in Sups, Unwedges(s) PROVE StopStops'
  BY <1>16 DEF Unwedges
<1>17. ASSUME NEW s \in Sups, HangsUp(s) PROVE StopStops'
  BY <1>17 DEF HangsUp, Fault
<1>18. ASSUME NEW s \in Sups, SupKilled(s) PROVE StopStops'
  BY <1>18 DEF SupKilled, Unmarked, Fault
<1>19. ASSUME NEW c \in Commands, StopProbe(c) PROVE StopStops'
  BY <1>19 DEF StopProbe, IsUp, PortFree
<1>20. ASSUME NEW c \in Commands, StopBrowser(c) PROVE StopStops'
  BY <1>20 DEF StopBrowser, ClosesChrome
<1>21. ASSUME NEW c \in Commands, StopRead(c) PROVE StopStops'
  <2>1. StopReadDoes(c)
    BY <1>21, StopReads
  <2> QED
    BY <2>1 DEF StopReadDoes, AfterStop
<1>22. ASSUME NEW c \in Commands, StopSignal(c) PROVE StopStops'
  BY <1>22 DEF StopSignal, Alive, Unmarked
<1>23. ASSUME NEW c \in Commands, StopDone(c) PROVE StopStops'
  BY <1>23, SMTT(30) DEF StopDone, Alive, AfterStop, Nobody
<1>24. ASSUME NEW c \in Commands, StopKills(c) PROVE StopStops'
  BY <1>24 DEF StopKills, StuckClosing, AfterStop, Nobody
<1>25. ASSUME NEW c \in Commands, UpProbe(c) PROVE StopStops'
  BY <1>25 DEF UpProbe, IsUp
<1>26. ASSUME NEW c \in Commands, UpSpawn(c) PROVE StopStops'
  BY <1>26 DEF UpSpawn
<1>27. ASSUME NEW c \in Commands, UpWrites(c) PROVE StopStops'
  BY <1>27 DEF UpWrites
<1>28. ASSUME NEW c \in Commands, UpWaits(c) PROVE StopStops'
  BY <1>28 DEF UpWaits, IsUp
<1>29. ASSUME NEW c \in Commands, ReapSignals(c) PROVE StopStops'
  BY <1>29 DEF ReapSignals, Unmarked
<1>30. ASSUME NEW c \in Commands, ReapKills(c) PROVE StopStops'
  BY <1>30 DEF ReapKills, Unmarked
<1>31. ASSUME NEW c \in Commands, NEW k \in Kinds, Issue(c, k) PROVE StopStops'
  BY <1>31 DEF Issue
<1> QED
  BY <1>1, <1>2, <1>3, <1>4, <1>5, <1>6, <1>7, <1>8, <1>9, <1>10, <1>11, <1>12, <1>13, <1>14,
    <1>15, <1>16, <1>17, <1>18, <1>19, <1>20, <1>21, <1>22, <1>23, <1>24, <1>25, <1>26, <1>27,
    <1>28, <1>29, <1>30, <1>31 DEF Next, SupStep, CommandStep, World

\* Nobody comes, and nobody is born.
LEMMA RoomKept == ASSUME Room, Unborn' = Unborn, \A d \in Commands : d \in ToSpawn' => d \in ToSpawn PROVE Room'
<1>1. ToSpawn' \subseteq ToSpawn
  BY DEF ToSpawn
<1>2. Cardinality(ToSpawn') <= Cardinality(ToSpawn) /\ Cardinality(ToSpawn) \in Nat
      /\ Cardinality(ToSpawn') \in Nat /\ Cardinality(Unborn) \in Nat
  BY <1>1, Finite, FS_Subset, FS_CardinalityType
<1> QED
  BY <1>2 DEF Room

LEMMA SameRoom ==
    ASSUME Room, \A s \in Sups : sup'[s] = "unborn" <=> sup[s] = "unborn",
           \A d \in Commands : d \in ToSpawn' => d \in ToSpawn
    PROVE  Room'
<1>1. Unborn' = Unborn
  BY DEF Unborn
<1> QED
  BY <1>1, RoomKept

\* Who comes to start a supervisor is let in if there is one for it.
LEMMA RoomStep ==
    ASSUME TypeOK, Kinded, Room, Next
    PROVE  Room'
<1> USE BoundsAssumption DEF Set, Goes, Go, Lives, Runs, Holds, Dead, procs, cmds, TypeOK, Kinded
<1>1. ASSUME NEW s \in Sups, Spawn(s) PROVE Room'
  <2>1. (\A r \in Sups : sup'[r] = "unborn" <=> sup[r] = "unborn")
        /\ (\A d \in Commands : d \in ToSpawn' => d \in ToSpawn)
    BY <1>1 DEF Spawn, ToSpawn
  <2> QED
    BY <2>1, SameRoom
<1>2. ASSUME NEW s \in Sups, Assign(s) PROVE Room'
  <2>1. (\A r \in Sups : sup'[r] = "unborn" <=> sup[r] = "unborn")
        /\ (\A d \in Commands : d \in ToSpawn' => d \in ToSpawn)
    BY <1>2 DEF Assign, ToSpawn
  <2> QED
    BY <2>1, SameRoom
<1>3. ASSUME NEW s \in Sups, SeesExit(s) PROVE Room'
  <2>1. (\A r \in Sups : sup'[r] = "unborn" <=> sup[r] = "unborn")
        /\ (\A d \in Commands : d \in ToSpawn' => d \in ToSpawn)
    BY <1>3 DEF SeesExit, ToSpawn
  <2> QED
    BY <2>1, SameRoom
<1>4. ASSUME NEW s \in Sups, Looks(s) PROVE Room'
  <2>1. (\A r \in Sups : sup'[r] = "unborn" <=> sup[r] = "unborn")
        /\ (\A d \in Commands : d \in ToSpawn' => d \in ToSpawn)
    BY <1>4 DEF Looks, Health, ToSpawn
  <2> QED
    BY <2>1, SameRoom
<1>5. ASSUME NEW s \in Sups, EndsServer(s) PROVE Room'
  <2>1. (\A r \in Sups : sup'[r] = "unborn" <=> sup[r] = "unborn")
        /\ (\A d \in Commands : d \in ToSpawn' => d \in ToSpawn)
    BY <1>5 DEF EndsServer, Unmarked, ToSpawn
  <2> QED
    BY <2>1, SameRoom
<1>6. ASSUME NEW s \in Sups, Reap(s) PROVE Room'
  <2>1. (\A r \in Sups : sup'[r] = "unborn" <=> sup[r] = "unborn")
        /\ (\A d \in Commands : d \in ToSpawn' => d \in ToSpawn)
    BY <1>6 DEF Reap, LoopsTo, GivesUp, ToSpawn
  <2> QED
    BY <2>1, SameRoom
<1>7. ASSUME NEW s \in Sups, Wakes(s) PROVE Room'
  <2>1. (\A r \in Sups : sup'[r] = "unborn" <=> sup[r] = "unborn")
        /\ (\A d \in Commands : d \in ToSpawn' => d \in ToSpawn)
    BY <1>7 DEF Wakes, ToSpawn
  <2> QED
    BY <2>1, SameRoom
<1>8. ASSUME NEW s \in Sups, ExitsAtOnce(s) PROVE Room'
  <2>1. (\A r \in Sups : sup'[r] = "unborn" <=> sup[r] = "unborn")
        /\ (\A d \in Commands : d \in ToSpawn' => d \in ToSpawn)
    BY <1>8 DEF ExitsAtOnce, ToSpawn
  <2> QED
    BY <2>1, SameRoom
<1>9. ASSUME NEW s \in Sups, Closes(s) PROVE Room'
  <2>1. (\A r \in Sups : sup'[r] = "unborn" <=> sup[r] = "unborn")
        /\ (\A d \in Commands : d \in ToSpawn' => d \in ToSpawn)
    BY <1>9 DEF Closes, ToSpawn
  <2> QED
    BY <2>1, SameRoom
<1>10. ASSUME NEW s \in Sups, Closed(s) PROVE Room'
  <2>1. (\A r \in Sups : sup'[r] = "unborn" <=> sup[r] = "unborn")
        /\ (\A d \in Commands : d \in ToSpawn' => d \in ToSpawn)
    BY <1>10 DEF Closed, ClosesChrome, ToSpawn
  <2> QED
    BY <2>1, SameRoom
<1>11. ASSUME NEW s \in Sups, Ended(s) PROVE Room'
  <2>1. (\A r \in Sups : sup'[r] = "unborn" <=> sup[r] = "unborn")
        /\ (\A d \in Commands : d \in ToSpawn' => d \in ToSpawn)
    BY <1>11 DEF Ended, Unmarked, GroupAfter, ToSpawn
  <2> QED
    BY <2>1, SameRoom
<1>12. ASSUME NEW s \in Sups, Binds(s) PROVE Room'
  <2>1. (\A r \in Sups : sup'[r] = "unborn" <=> sup[r] = "unborn")
        /\ (\A d \in Commands : d \in ToSpawn' => d \in ToSpawn)
    BY <1>12 DEF Binds, PortFree, Unmarked, ToSpawn
  <2> QED
    BY <2>1, SameRoom
<1>13. ASSUME NEW s \in Sups, OpensChrome(s) PROVE Room'
  <2>1. (\A r \in Sups : sup'[r] = "unborn" <=> sup[r] = "unborn")
        /\ (\A d \in Commands : d \in ToSpawn' => d \in ToSpawn)
    BY <1>13 DEF OpensChrome, ToSpawn
  <2> QED
    BY <2>1, SameRoom
<1>14. ASSUME NEW s \in Sups, Crashes(s) PROVE Room'
  <2>1. (\A r \in Sups : sup'[r] = "unborn" <=> sup[r] = "unborn")
        /\ (\A d \in Commands : d \in ToSpawn' => d \in ToSpawn)
    BY <1>14 DEF Crashes, Unmarked, Fault, ToSpawn
  <2> QED
    BY <2>1, SameRoom
<1>15. ASSUME NEW s \in Sups, Wedges(s) PROVE Room'
  <2>1. (\A r \in Sups : sup'[r] = "unborn" <=> sup[r] = "unborn")
        /\ (\A d \in Commands : d \in ToSpawn' => d \in ToSpawn)
    BY <1>15 DEF Wedges, Fault, ToSpawn
  <2> QED
    BY <2>1, SameRoom
<1>16. ASSUME NEW s \in Sups, Unwedges(s) PROVE Room'
  <2>1. (\A r \in Sups : sup'[r] = "unborn" <=> sup[r] = "unborn")
        /\ (\A d \in Commands : d \in ToSpawn' => d \in ToSpawn)
    BY <1>16 DEF Unwedges, ToSpawn
  <2> QED
    BY <2>1, SameRoom
<1>17. ASSUME NEW s \in Sups, HangsUp(s) PROVE Room'
  <2>1. (\A r \in Sups : sup'[r] = "unborn" <=> sup[r] = "unborn")
        /\ (\A d \in Commands : d \in ToSpawn' => d \in ToSpawn)
    BY <1>17 DEF HangsUp, Fault, ToSpawn
  <2> QED
    BY <2>1, SameRoom
<1>18. ASSUME NEW s \in Sups, SupKilled(s) PROVE Room'
  <2>1. (\A r \in Sups : sup'[r] = "unborn" <=> sup[r] = "unborn")
        /\ (\A d \in Commands : d \in ToSpawn' => d \in ToSpawn)
    BY <1>18 DEF SupKilled, Unmarked, Fault, ToSpawn
  <2> QED
    BY <2>1, SameRoom
<1>19. ASSUME NEW c \in Commands, StopProbe(c) PROVE Room'
  <2>1. (\A r \in Sups : sup'[r] = "unborn" <=> sup[r] = "unborn")
        /\ (\A d \in Commands : d \in ToSpawn' => d \in ToSpawn)
    BY <1>19 DEF StopProbe, IsUp, PortFree, ToSpawn
  <2> QED
    BY <2>1, SameRoom
<1>20. ASSUME NEW c \in Commands, StopBrowser(c) PROVE Room'
  <2>1. (\A r \in Sups : sup'[r] = "unborn" <=> sup[r] = "unborn")
        /\ (\A d \in Commands : d \in ToSpawn' => d \in ToSpawn)
    BY <1>20 DEF StopBrowser, ClosesChrome, ToSpawn
  <2> QED
    BY <2>1, SameRoom
<1>21. ASSUME NEW c \in Commands, StopRead(c) PROVE Room'
  <2>1. StopReadDoes(c)
    BY <1>21, StopReads
  <2>2. (\A s \in Sups : sup'[s] = "unborn" <=> sup[s] = "unborn") /\ (\A d \in Commands : d \in ToSpawn' => d \in ToSpawn)
    BY <2>1 DEF StopReadDoes, AfterStop, ToSpawn
  <2> QED
    BY <2>2, SameRoom
<1>22. ASSUME NEW c \in Commands, StopSignal(c) PROVE Room'
  <2>1. (\A r \in Sups : sup'[r] = "unborn" <=> sup[r] = "unborn")
        /\ (\A d \in Commands : d \in ToSpawn' => d \in ToSpawn)
    BY <1>22 DEF StopSignal, Alive, Unmarked, ToSpawn
  <2> QED
    BY <2>1, SameRoom
<1>23. ASSUME NEW c \in Commands, StopDone(c) PROVE Room'
  <2>1. (\A r \in Sups : sup'[r] = "unborn" <=> sup[r] = "unborn")
        /\ (\A d \in Commands : d \in ToSpawn' => d \in ToSpawn)
    BY <1>23 DEF StopDone, Alive, AfterStop, Nobody, ToSpawn
  <2> QED
    BY <2>1, SameRoom
<1>24. ASSUME NEW c \in Commands, StopKills(c) PROVE Room'
  <2>1. (\A r \in Sups : sup'[r] = "unborn" <=> sup[r] = "unborn")
        /\ (\A d \in Commands : d \in ToSpawn' => d \in ToSpawn)
    BY <1>24 DEF StopKills, StuckClosing, AfterStop, Nobody, ToSpawn
  <2> QED
    BY <2>1, SameRoom
<1>25. ASSUME NEW c \in Commands, UpProbe(c) PROVE Room'
  <2>1. (\A r \in Sups : sup'[r] = "unborn" <=> sup[r] = "unborn")
        /\ (\A d \in Commands : d \in ToSpawn' => d \in ToSpawn)
    BY <1>25 DEF UpProbe, IsUp, ToSpawn
  <2> QED
    BY <2>1, SameRoom
<1>26. ASSUME NEW c \in Commands, UpSpawn(c) PROVE Room'
  <2> DEFINE new == NewSup
  <2>1. new \in Sups /\ sup[new] = "unborn" /\ kind[c] \in {"up", "restart"} /\ pc[c] = "spawn"
    BY <1>26, Newborn DEF UpSpawn, Kinded
  <2>2. sup' = [sup EXCEPT ![new] = "spawn"] /\ pc' = [pc EXCEPT ![c] = "write"] /\ kind' = kind
    BY <1>26 DEF UpSpawn
  <2> HIDE DEF new
  <2>3. Unborn' = Unborn \ {new} /\ new \in Unborn
    BY <2>1, <2>2 DEF Unborn
  <2>4. ToSpawn' = ToSpawn \ {c} /\ c \in ToSpawn
    BY <2>1, <2>2 DEF ToSpawn
  <2>5. Cardinality(Unborn') = Cardinality(Unborn) - 1 /\ Cardinality(ToSpawn') = Cardinality(ToSpawn) - 1
    BY <2>3, <2>4, Finite, FS_RemoveElement
  <2>6. Cardinality(ToSpawn) \in Nat /\ Cardinality(Unborn) \in Nat
    BY Finite, FS_CardinalityType
  <2> QED
    BY <2>5, <2>6 DEF Room
<1>27. ASSUME NEW c \in Commands, UpWrites(c) PROVE Room'
  <2>1. (\A r \in Sups : sup'[r] = "unborn" <=> sup[r] = "unborn")
        /\ (\A d \in Commands : d \in ToSpawn' => d \in ToSpawn)
    BY <1>27 DEF UpWrites, ToSpawn
  <2> QED
    BY <2>1, SameRoom
<1>28. ASSUME NEW c \in Commands, UpWaits(c) PROVE Room'
  <2>1. (\A r \in Sups : sup'[r] = "unborn" <=> sup[r] = "unborn")
        /\ (\A d \in Commands : d \in ToSpawn' => d \in ToSpawn)
    BY <1>28 DEF UpWaits, IsUp, ToSpawn
  <2> QED
    BY <2>1, SameRoom
<1>29. ASSUME NEW c \in Commands, ReapSignals(c) PROVE Room'
  <2>1. (\A r \in Sups : sup'[r] = "unborn" <=> sup[r] = "unborn")
        /\ (\A d \in Commands : d \in ToSpawn' => d \in ToSpawn)
    BY <1>29 DEF ReapSignals, Unmarked, ToSpawn
  <2> QED
    BY <2>1, SameRoom
<1>30. ASSUME NEW c \in Commands, ReapKills(c) PROVE Room'
  <2>1. (\A r \in Sups : sup'[r] = "unborn" <=> sup[r] = "unborn")
        /\ (\A d \in Commands : d \in ToSpawn' => d \in ToSpawn)
    BY <1>30 DEF ReapKills, Unmarked, ToSpawn
  <2> QED
    BY <2>1, SameRoom
<1>31. ASSUME NEW c \in Commands, NEW k \in Kinds, Issue(c, k) PROVE Room'
  <2>1. Unborn' = Unborn
    BY <1>31 DEF Issue, Unborn
  <2>2. CASE k \in {"up", "restart"}
    <3>1. ToSpawn' = ToSpawn \cup {c} /\ c \notin ToSpawn /\ Cardinality(ToSpawn) < Cardinality(Unborn)
      BY <1>31, <2>2 DEF Issue, ToSpawn
    <3>2. Cardinality(ToSpawn') = Cardinality(ToSpawn) + 1
      BY <3>1, Finite, FS_AddElement
    <3>3. Cardinality(ToSpawn) \in Nat /\ Cardinality(Unborn) \in Nat
      BY Finite, FS_CardinalityType
    <3> QED
      BY <2>1, <3>1, <3>2, <3>3 DEF Room
  <2>3. CASE k \notin {"up", "restart"}
    <3>1. \A d \in Commands : d \in ToSpawn' => d \in ToSpawn
      BY <1>31, <2>3 DEF Issue, ToSpawn
    <3> QED
      BY <2>1, <3>1, RoomKept
  <2> QED
    BY <2>2, <2>3
<1> QED
  BY <1>1, <1>2, <1>3, <1>4, <1>5, <1>6, <1>7, <1>8, <1>9, <1>10, <1>11, <1>12, <1>13, <1>14,
    <1>15, <1>16, <1>17, <1>18, <1>19, <1>20, <1>21, <1>22, <1>23, <1>24, <1>25, <1>26, <1>27,
    <1>28, <1>29, <1>30, <1>31 DEF Next, SupStep, CommandStep, World

\* The type of the variables, by groups.
SupType ==
    /\ sup \in [Sups -> {"unborn", "spawn", "gap", "watch", "kill", "reap", "sleep", "closing", "ending", "gone"}]
    /\ term \in [Sups -> BOOLEAN]
    /\ srv \in [Sups -> {"none", "starting", "up", "hung"}]
    /\ chrome \in [Sups -> {"none", "ok", "wedged"}]
CountType ==
    /\ strikes \in [Sups -> 0..(Strikes - 1)] /\ restarts \in [Sups -> 0..MaxRestarts] /\ faults \in 0..MaxFaults
MarkType == mark \in [Commands -> 0..MaxSups] /\ abrupt \subseteq Sups /\ forced \subseteq Commands
CmdType ==
    /\ pidFile \in 0..MaxSups
    /\ pc \in [Commands -> {"idle", "stop", "close", "read", "readup", "signal", "await", "probe", "spawn", "write", "wait",
                            "reap", "reapkill", "ok", "failed"}]
    /\ kind \in [Commands -> Kinds]
    /\ mine \in [Commands -> 0..MaxSups]
TargetType ==
    /\ target \in [Commands -> {"sup", "srv"} \X (0..MaxSups)]
    /\ reaped \in [Commands -> SUBSET ({"sup", "srv"} \X Sups)]

LEMMA TypeGroups == TypeOK <=> SupType /\ CountType /\ MarkType /\ CmdType /\ TargetType
  BY DEF TypeOK, SupType, CountType, MarkType, CmdType, TargetType

LEMMA UnmarkedType == ASSUME TypeOK, NEW dead PROVE Unmarked(dead) \in [Commands -> 0..MaxSups]
  BY BoundsAssumption DEF TypeOK, Unmarked

\* Each group keeps its type.
LEMMA SupTypeStep ==
    ASSUME SupType, TypeOK, Room, Kinded, Next
    PROVE  SupType'
<1> USE BoundsAssumption DEF Set, Goes, Go, Lives, Runs, Holds, Dead, procs, cmds, SupType
<1>1. ASSUME NEW s \in Sups, Spawn(s) PROVE SupType'
  BY <1>1 DEF Spawn
<1>2. ASSUME NEW s \in Sups, Assign(s) PROVE SupType'
  BY <1>2 DEF Assign
<1>3. ASSUME NEW s \in Sups, SeesExit(s) PROVE SupType'
  BY <1>3 DEF SeesExit
<1>4. ASSUME NEW s \in Sups, Looks(s) PROVE SupType'
  BY <1>4 DEF Looks, Health
<1>5. ASSUME NEW s \in Sups, EndsServer(s) PROVE SupType'
  BY <1>5 DEF EndsServer, Unmarked
<1>6. ASSUME NEW s \in Sups, Reap(s) PROVE SupType'
  BY <1>6 DEF Reap, LoopsTo, GivesUp
<1>7. ASSUME NEW s \in Sups, Wakes(s) PROVE SupType'
  BY <1>7 DEF Wakes
<1>8. ASSUME NEW s \in Sups, ExitsAtOnce(s) PROVE SupType'
  BY <1>8 DEF ExitsAtOnce
<1>9. ASSUME NEW s \in Sups, Closes(s) PROVE SupType'
  BY <1>9 DEF Closes
<1>10. ASSUME NEW s \in Sups, Closed(s) PROVE SupType'
  BY <1>10 DEF Closed, ClosesChrome
<1>11. ASSUME NEW s \in Sups, Ended(s) PROVE SupType'
  BY <1>11 DEF Ended, Unmarked, GroupAfter
<1>12. ASSUME NEW s \in Sups, Binds(s) PROVE SupType'
  BY <1>12 DEF Binds, PortFree, Unmarked
<1>13. ASSUME NEW s \in Sups, OpensChrome(s) PROVE SupType'
  BY <1>13 DEF OpensChrome
<1>14. ASSUME NEW s \in Sups, Crashes(s) PROVE SupType'
  BY <1>14 DEF Crashes, Unmarked, Fault
<1>15. ASSUME NEW s \in Sups, Wedges(s) PROVE SupType'
  BY <1>15 DEF Wedges, Fault
<1>16. ASSUME NEW s \in Sups, Unwedges(s) PROVE SupType'
  BY <1>16 DEF Unwedges
<1>17. ASSUME NEW s \in Sups, HangsUp(s) PROVE SupType'
  BY <1>17 DEF HangsUp, Fault
<1>18. ASSUME NEW s \in Sups, SupKilled(s) PROVE SupType'
  BY <1>18 DEF SupKilled, Unmarked, Fault
<1>19. ASSUME NEW c \in Commands, StopProbe(c) PROVE SupType'
  BY <1>19 DEF StopProbe, IsUp, PortFree
<1>20. ASSUME NEW c \in Commands, StopBrowser(c) PROVE SupType'
  BY <1>20 DEF StopBrowser, ClosesChrome
<1>21. ASSUME NEW c \in Commands, StopRead(c) PROVE SupType'
  BY <1>21 DEF StopRead, ToStop, ReadPid, FindSupervisor, AfterStop
<1>22. ASSUME NEW c \in Commands, StopSignal(c) PROVE SupType'
  BY <1>22 DEF StopSignal, Alive, Unmarked
<1>23. ASSUME NEW c \in Commands, StopDone(c) PROVE SupType'
  BY <1>23 DEF StopDone, Alive, AfterStop, Nobody
<1>24. ASSUME NEW c \in Commands, StopKills(c) PROVE SupType'
  BY <1>24 DEF StopKills, StuckClosing, AfterStop, Nobody
<1>25. ASSUME NEW c \in Commands, UpProbe(c) PROVE SupType'
  BY <1>25 DEF UpProbe, IsUp
<1>26. ASSUME NEW c \in Commands, UpSpawn(c) PROVE SupType'
  <2>1. NewSup \in Sups /\ sup[NewSup] = "unborn"
    BY <1>26, Newborn DEF UpSpawn, Kinded
  <2> HIDE DEF NewSup
  <2> QED
    BY <1>26, <2>1 DEF UpSpawn
<1>27. ASSUME NEW c \in Commands, UpWrites(c) PROVE SupType'
  BY <1>27 DEF UpWrites
<1>28. ASSUME NEW c \in Commands, UpWaits(c) PROVE SupType'
  BY <1>28 DEF UpWaits, IsUp
<1>29. ASSUME NEW c \in Commands, ReapSignals(c) PROVE SupType'
  BY <1>29 DEF ReapSignals, Unmarked
<1>30. ASSUME NEW c \in Commands, ReapKills(c) PROVE SupType'
  BY <1>30 DEF ReapKills, Unmarked
<1>31. ASSUME NEW c \in Commands, NEW k \in Kinds, Issue(c, k) PROVE SupType'
  BY <1>31 DEF Issue
<1> QED
  BY <1>1, <1>2, <1>3, <1>4, <1>5, <1>6, <1>7, <1>8, <1>9, <1>10, <1>11, <1>12, <1>13, <1>14,
    <1>15, <1>16, <1>17, <1>18, <1>19, <1>20, <1>21, <1>22, <1>23, <1>24, <1>25, <1>26, <1>27,
    <1>28, <1>29, <1>30, <1>31 DEF Next, SupStep, CommandStep, World

LEMMA CountTypeStep ==
    ASSUME CountType, SupType, RestartsLeft, TypeOK, Room, Kinded, Next
    PROVE  CountType'
<1> USE BoundsAssumption DEF Set, Goes, Go, Lives, Runs, Holds, Dead, procs, cmds, CountType,
    SupType, RestartsLeft
<1>1. ASSUME NEW s \in Sups, Spawn(s) PROVE CountType'
  BY <1>1 DEF Spawn
<1>2. ASSUME NEW s \in Sups, Assign(s) PROVE CountType'
  BY <1>2 DEF Assign
<1>3. ASSUME NEW s \in Sups, SeesExit(s) PROVE CountType'
  BY <1>3 DEF SeesExit
<1>4. ASSUME NEW s \in Sups, Looks(s) PROVE CountType'
  BY <1>4 DEF Looks, Health
<1>5. ASSUME NEW s \in Sups, EndsServer(s) PROVE CountType'
  BY <1>5 DEF EndsServer, Unmarked
<1>6. ASSUME NEW s \in Sups, Reap(s) PROVE CountType'
  BY <1>6 DEF Reap, LoopsTo, GivesUp
<1>7. ASSUME NEW s \in Sups, Wakes(s) PROVE CountType'
  BY <1>7 DEF Wakes
<1>8. ASSUME NEW s \in Sups, ExitsAtOnce(s) PROVE CountType'
  BY <1>8 DEF ExitsAtOnce
<1>9. ASSUME NEW s \in Sups, Closes(s) PROVE CountType'
  BY <1>9 DEF Closes
<1>10. ASSUME NEW s \in Sups, Closed(s) PROVE CountType'
  BY <1>10 DEF Closed, ClosesChrome
<1>11. ASSUME NEW s \in Sups, Ended(s) PROVE CountType'
  BY <1>11 DEF Ended, Unmarked, GroupAfter
<1>12. ASSUME NEW s \in Sups, Binds(s) PROVE CountType'
  BY <1>12 DEF Binds, PortFree, Unmarked
<1>13. ASSUME NEW s \in Sups, OpensChrome(s) PROVE CountType'
  BY <1>13 DEF OpensChrome
<1>14. ASSUME NEW s \in Sups, Crashes(s) PROVE CountType'
  BY <1>14 DEF Crashes, Unmarked, Fault
<1>15. ASSUME NEW s \in Sups, Wedges(s) PROVE CountType'
  BY <1>15 DEF Wedges, Fault
<1>16. ASSUME NEW s \in Sups, Unwedges(s) PROVE CountType'
  BY <1>16 DEF Unwedges
<1>17. ASSUME NEW s \in Sups, HangsUp(s) PROVE CountType'
  BY <1>17 DEF HangsUp, Fault
<1>18. ASSUME NEW s \in Sups, SupKilled(s) PROVE CountType'
  BY <1>18 DEF SupKilled, Unmarked, Fault
<1>19. ASSUME NEW c \in Commands, StopProbe(c) PROVE CountType'
  BY <1>19 DEF StopProbe, IsUp, PortFree
<1>20. ASSUME NEW c \in Commands, StopBrowser(c) PROVE CountType'
  BY <1>20 DEF StopBrowser, ClosesChrome
<1>21. ASSUME NEW c \in Commands, StopRead(c) PROVE CountType'
  BY <1>21 DEF StopRead, ToStop, ReadPid, FindSupervisor, AfterStop
<1>22. ASSUME NEW c \in Commands, StopSignal(c) PROVE CountType'
  BY <1>22 DEF StopSignal, Alive, Unmarked
<1>23. ASSUME NEW c \in Commands, StopDone(c) PROVE CountType'
  BY <1>23 DEF StopDone, Alive, AfterStop, Nobody
<1>24. ASSUME NEW c \in Commands, StopKills(c) PROVE CountType'
  BY <1>24 DEF StopKills, StuckClosing, AfterStop, Nobody
<1>25. ASSUME NEW c \in Commands, UpProbe(c) PROVE CountType'
  BY <1>25 DEF UpProbe, IsUp
<1>26. ASSUME NEW c \in Commands, UpSpawn(c) PROVE CountType'
  <2>1. NewSup \in Sups /\ sup[NewSup] = "unborn"
    BY <1>26, Newborn DEF UpSpawn, Kinded
  <2> HIDE DEF NewSup
  <2> QED
    BY <1>26, <2>1 DEF UpSpawn
<1>27. ASSUME NEW c \in Commands, UpWrites(c) PROVE CountType'
  BY <1>27 DEF UpWrites
<1>28. ASSUME NEW c \in Commands, UpWaits(c) PROVE CountType'
  BY <1>28 DEF UpWaits, IsUp
<1>29. ASSUME NEW c \in Commands, ReapSignals(c) PROVE CountType'
  BY <1>29 DEF ReapSignals, Unmarked
<1>30. ASSUME NEW c \in Commands, ReapKills(c) PROVE CountType'
  BY <1>30 DEF ReapKills, Unmarked
<1>31. ASSUME NEW c \in Commands, NEW k \in Kinds, Issue(c, k) PROVE CountType'
  BY <1>31 DEF Issue
<1> QED
  BY <1>1, <1>2, <1>3, <1>4, <1>5, <1>6, <1>7, <1>8, <1>9, <1>10, <1>11, <1>12, <1>13, <1>14,
    <1>15, <1>16, <1>17, <1>18, <1>19, <1>20, <1>21, <1>22, <1>23, <1>24, <1>25, <1>26, <1>27,
    <1>28, <1>29, <1>30, <1>31 DEF Next, SupStep, CommandStep, World

LEMMA MarkTypeStep ==
    ASSUME MarkType, SupType, Targets, TypeOK, Next
    PROVE  MarkType'
<1> USE BoundsAssumption DEF Set, Goes, Go, Lives, Runs, Holds, Dead, procs, cmds, MarkType,
    SupType, Targets, Sups
<1>1. ASSUME NEW s \in Sups, Spawn(s) PROVE MarkType'
  BY <1>1 DEF Spawn
<1>2. ASSUME NEW s \in Sups, Assign(s) PROVE MarkType'
  BY <1>2 DEF Assign
<1>3. ASSUME NEW s \in Sups, SeesExit(s) PROVE MarkType'
  BY <1>3 DEF SeesExit
<1>4. ASSUME NEW s \in Sups, Looks(s) PROVE MarkType'
  BY <1>4 DEF Looks, Health
<1>5. ASSUME NEW s \in Sups, EndsServer(s) PROVE MarkType'
  BY <1>5, UnmarkedType DEF EndsServer
<1>6. ASSUME NEW s \in Sups, Reap(s) PROVE MarkType'
  BY <1>6 DEF Reap, LoopsTo, GivesUp
<1>7. ASSUME NEW s \in Sups, Wakes(s) PROVE MarkType'
  BY <1>7 DEF Wakes
<1>8. ASSUME NEW s \in Sups, ExitsAtOnce(s) PROVE MarkType'
  BY <1>8 DEF ExitsAtOnce
<1>9. ASSUME NEW s \in Sups, Closes(s) PROVE MarkType'
  BY <1>9 DEF Closes
<1>10. ASSUME NEW s \in Sups, Closed(s) PROVE MarkType'
  BY <1>10 DEF Closed, ClosesChrome
<1>11. ASSUME NEW s \in Sups, Ended(s) PROVE MarkType'
  BY <1>11, UnmarkedType DEF Ended, GroupAfter
<1>12. ASSUME NEW s \in Sups, Binds(s) PROVE MarkType'
  BY <1>12, UnmarkedType DEF Binds, PortFree
<1>13. ASSUME NEW s \in Sups, OpensChrome(s) PROVE MarkType'
  BY <1>13 DEF OpensChrome
<1>14. ASSUME NEW s \in Sups, Crashes(s) PROVE MarkType'
  BY <1>14, UnmarkedType DEF Crashes, Fault
<1>15. ASSUME NEW s \in Sups, Wedges(s) PROVE MarkType'
  BY <1>15 DEF Wedges, Fault
<1>16. ASSUME NEW s \in Sups, Unwedges(s) PROVE MarkType'
  BY <1>16 DEF Unwedges
<1>17. ASSUME NEW s \in Sups, HangsUp(s) PROVE MarkType'
  BY <1>17 DEF HangsUp, Fault
<1>18. ASSUME NEW s \in Sups, SupKilled(s) PROVE MarkType'
  BY <1>18, UnmarkedType DEF SupKilled, Fault
<1>19. ASSUME NEW c \in Commands, StopProbe(c) PROVE MarkType'
  <2>1. ~PortFree => (CHOOSE s \in Sups : Holds(s)) \in Sups
    BY DEF PortFree
  <2>2. mark' = [mark EXCEPT ![c] = IF PortFree THEN 0 ELSE CHOOSE s \in Sups : Holds(s)]
      /\ abrupt' = abrupt /\ forced' = forced
    BY <1>19 DEF StopProbe
  <2> HIDE DEF Holds
  <2> QED
    BY <2>1, <2>2
<1>20. ASSUME NEW c \in Commands, StopBrowser(c) PROVE MarkType'
  BY <1>20 DEF StopBrowser, ClosesChrome
<1>21. ASSUME NEW c \in Commands, StopRead(c) PROVE MarkType'
  <2>1. StopReadDoes(c)
    BY <1>21, StopReads
  <2>2. /\ mark' = mark \/ mark' = [mark EXCEPT ![c] = 0]
        /\ abrupt' = abrupt /\ forced' = forced
    <3> USE <2>1
    <3> QED
      BY DEF StopReadDoes
  <2> QED
    BY <2>2
<1>22. ASSUME NEW c \in Commands, StopSignal(c) PROVE MarkType'
  BY <1>22, UnmarkedType DEF StopSignal, Alive
<1>23. ASSUME NEW c \in Commands, StopDone(c) PROVE MarkType'
  BY <1>23 DEF StopDone, Alive, AfterStop, Nobody
<1>24. ASSUME NEW c \in Commands, StopKills(c) PROVE MarkType'
  BY <1>24 DEF StopKills, StuckClosing, AfterStop, Nobody
<1>25. ASSUME NEW c \in Commands, UpProbe(c) PROVE MarkType'
  BY <1>25 DEF UpProbe, IsUp
<1>26. ASSUME NEW c \in Commands, UpSpawn(c) PROVE MarkType'
  BY <1>26 DEF UpSpawn
<1>27. ASSUME NEW c \in Commands, UpWrites(c) PROVE MarkType'
  BY <1>27 DEF UpWrites
<1>28. ASSUME NEW c \in Commands, UpWaits(c) PROVE MarkType'
  BY <1>28 DEF UpWaits, IsUp
<1>29. ASSUME NEW c \in Commands, ReapSignals(c) PROVE MarkType'
  BY <1>29, UnmarkedType DEF ReapSignals
<1>30. ASSUME NEW c \in Commands, ReapKills(c) PROVE MarkType'
  BY <1>30, UnmarkedType DEF ReapKills
<1>31. ASSUME NEW c \in Commands, NEW k \in Kinds, Issue(c, k) PROVE MarkType'
  BY <1>31 DEF Issue
<1> QED
  BY <1>1, <1>2, <1>3, <1>4, <1>5, <1>6, <1>7, <1>8, <1>9, <1>10, <1>11, <1>12, <1>13, <1>14,
    <1>15, <1>16, <1>17, <1>18, <1>19, <1>20, <1>21, <1>22, <1>23, <1>24, <1>25, <1>26, <1>27,
    <1>28, <1>29, <1>30, <1>31 DEF Next, SupStep, CommandStep, World

LEMMA CmdTypeStep ==
    ASSUME CmdType, TypeOK, Room, Kinded, Next
    PROVE  CmdType'
<1> USE BoundsAssumption DEF Set, Goes, Go, Lives, Runs, Holds, Dead, procs, cmds, CmdType, Sups
<1>1. ASSUME NEW s \in Sups, Spawn(s) PROVE CmdType'
  BY <1>1 DEF Spawn
<1>2. ASSUME NEW s \in Sups, Assign(s) PROVE CmdType'
  BY <1>2 DEF Assign
<1>3. ASSUME NEW s \in Sups, SeesExit(s) PROVE CmdType'
  BY <1>3 DEF SeesExit
<1>4. ASSUME NEW s \in Sups, Looks(s) PROVE CmdType'
  BY <1>4 DEF Looks, Health
<1>5. ASSUME NEW s \in Sups, EndsServer(s) PROVE CmdType'
  BY <1>5 DEF EndsServer, Unmarked
<1>6. ASSUME NEW s \in Sups, Reap(s) PROVE CmdType'
  BY <1>6 DEF Reap, LoopsTo, GivesUp
<1>7. ASSUME NEW s \in Sups, Wakes(s) PROVE CmdType'
  BY <1>7 DEF Wakes
<1>8. ASSUME NEW s \in Sups, ExitsAtOnce(s) PROVE CmdType'
  BY <1>8 DEF ExitsAtOnce
<1>9. ASSUME NEW s \in Sups, Closes(s) PROVE CmdType'
  BY <1>9 DEF Closes
<1>10. ASSUME NEW s \in Sups, Closed(s) PROVE CmdType'
  BY <1>10 DEF Closed, ClosesChrome
<1>11. ASSUME NEW s \in Sups, Ended(s) PROVE CmdType'
  BY <1>11 DEF Ended, Unmarked, GroupAfter
<1>12. ASSUME NEW s \in Sups, Binds(s) PROVE CmdType'
  BY <1>12 DEF Binds, PortFree, Unmarked
<1>13. ASSUME NEW s \in Sups, OpensChrome(s) PROVE CmdType'
  BY <1>13 DEF OpensChrome
<1>14. ASSUME NEW s \in Sups, Crashes(s) PROVE CmdType'
  BY <1>14 DEF Crashes, Unmarked, Fault
<1>15. ASSUME NEW s \in Sups, Wedges(s) PROVE CmdType'
  BY <1>15 DEF Wedges, Fault
<1>16. ASSUME NEW s \in Sups, Unwedges(s) PROVE CmdType'
  BY <1>16 DEF Unwedges
<1>17. ASSUME NEW s \in Sups, HangsUp(s) PROVE CmdType'
  BY <1>17 DEF HangsUp, Fault
<1>18. ASSUME NEW s \in Sups, SupKilled(s) PROVE CmdType'
  BY <1>18 DEF SupKilled, Unmarked, Fault
<1>19. ASSUME NEW c \in Commands, StopProbe(c) PROVE CmdType'
  BY <1>19 DEF StopProbe, IsUp, PortFree
<1>20. ASSUME NEW c \in Commands, StopBrowser(c) PROVE CmdType'
  BY <1>20 DEF StopBrowser, ClosesChrome
<1>21. ASSUME NEW c \in Commands, StopRead(c) PROVE CmdType'
  <2>1. StopReadDoes(c)
    BY <1>21, StopReads
  <2> QED
    BY <2>1 DEF StopReadDoes, AfterStop
<1>22. ASSUME NEW c \in Commands, StopSignal(c) PROVE CmdType'
  BY <1>22 DEF StopSignal, Alive, Unmarked
<1>23. ASSUME NEW c \in Commands, StopDone(c) PROVE CmdType'
  BY <1>23 DEF StopDone, Alive, AfterStop, Nobody
<1>24. ASSUME NEW c \in Commands, StopKills(c) PROVE CmdType'
  BY <1>24 DEF StopKills, StuckClosing, AfterStop, Nobody
<1>25. ASSUME NEW c \in Commands, UpProbe(c) PROVE CmdType'
  BY <1>25 DEF UpProbe, IsUp
<1>26. ASSUME NEW c \in Commands, UpSpawn(c) PROVE CmdType'
  <2>1. NewSup \in Sups /\ sup[NewSup] = "unborn"
    BY <1>26, Newborn DEF UpSpawn, Kinded
  <2> HIDE DEF NewSup
  <2> QED
    BY <1>26, <2>1 DEF UpSpawn
<1>27. ASSUME NEW c \in Commands, UpWrites(c) PROVE CmdType'
  BY <1>27 DEF UpWrites
<1>28. ASSUME NEW c \in Commands, UpWaits(c) PROVE CmdType'
  BY <1>28 DEF UpWaits, IsUp
<1>29. ASSUME NEW c \in Commands, ReapSignals(c) PROVE CmdType'
  BY <1>29 DEF ReapSignals, Unmarked
<1>30. ASSUME NEW c \in Commands, ReapKills(c) PROVE CmdType'
  BY <1>30 DEF ReapKills, Unmarked
<1>31. ASSUME NEW c \in Commands, NEW k \in Kinds, Issue(c, k) PROVE CmdType'
  BY <1>31 DEF Issue
<1> QED
  BY <1>1, <1>2, <1>3, <1>4, <1>5, <1>6, <1>7, <1>8, <1>9, <1>10, <1>11, <1>12, <1>13, <1>14,
    <1>15, <1>16, <1>17, <1>18, <1>19, <1>20, <1>21, <1>22, <1>23, <1>24, <1>25, <1>26, <1>27,
    <1>28, <1>29, <1>30, <1>31 DEF Next, SupStep, CommandStep, World

LEMMA TargetTypeStep ==
    ASSUME TargetType, CmdType, TypeOK, Next
    PROVE  TargetType'
<1> USE BoundsAssumption DEF Set, Goes, Go, Lives, Runs, Holds, Dead, procs, cmds, TargetType,
    CmdType, Sups
<1>1. ASSUME NEW s \in Sups, Spawn(s) PROVE TargetType'
  BY <1>1 DEF Spawn
<1>2. ASSUME NEW s \in Sups, Assign(s) PROVE TargetType'
  BY <1>2 DEF Assign
<1>3. ASSUME NEW s \in Sups, SeesExit(s) PROVE TargetType'
  BY <1>3 DEF SeesExit
<1>4. ASSUME NEW s \in Sups, Looks(s) PROVE TargetType'
  BY <1>4 DEF Looks, Health
<1>5. ASSUME NEW s \in Sups, EndsServer(s) PROVE TargetType'
  BY <1>5 DEF EndsServer, Unmarked
<1>6. ASSUME NEW s \in Sups, Reap(s) PROVE TargetType'
  BY <1>6 DEF Reap, LoopsTo, GivesUp
<1>7. ASSUME NEW s \in Sups, Wakes(s) PROVE TargetType'
  BY <1>7 DEF Wakes
<1>8. ASSUME NEW s \in Sups, ExitsAtOnce(s) PROVE TargetType'
  BY <1>8 DEF ExitsAtOnce
<1>9. ASSUME NEW s \in Sups, Closes(s) PROVE TargetType'
  BY <1>9 DEF Closes
<1>10. ASSUME NEW s \in Sups, Closed(s) PROVE TargetType'
  BY <1>10 DEF Closed, ClosesChrome
<1>11. ASSUME NEW s \in Sups, Ended(s) PROVE TargetType'
  BY <1>11 DEF Ended, Unmarked, GroupAfter
<1>12. ASSUME NEW s \in Sups, Binds(s) PROVE TargetType'
  BY <1>12 DEF Binds, PortFree, Unmarked
<1>13. ASSUME NEW s \in Sups, OpensChrome(s) PROVE TargetType'
  BY <1>13 DEF OpensChrome
<1>14. ASSUME NEW s \in Sups, Crashes(s) PROVE TargetType'
  BY <1>14 DEF Crashes, Unmarked, Fault
<1>15. ASSUME NEW s \in Sups, Wedges(s) PROVE TargetType'
  BY <1>15 DEF Wedges, Fault
<1>16. ASSUME NEW s \in Sups, Unwedges(s) PROVE TargetType'
  BY <1>16 DEF Unwedges
<1>17. ASSUME NEW s \in Sups, HangsUp(s) PROVE TargetType'
  BY <1>17 DEF HangsUp, Fault
<1>18. ASSUME NEW s \in Sups, SupKilled(s) PROVE TargetType'
  BY <1>18 DEF SupKilled, Unmarked, Fault
<1>19. ASSUME NEW c \in Commands, StopProbe(c) PROVE TargetType'
  BY <1>19 DEF StopProbe, IsUp, PortFree
<1>20. ASSUME NEW c \in Commands, StopBrowser(c) PROVE TargetType'
  BY <1>20 DEF StopBrowser, ClosesChrome
<1>21. ASSUME NEW c \in Commands, StopRead(c) PROVE TargetType'
  <2>1. StopReadDoes(c)
    BY <1>21, StopReads
  <2> QED
    BY <2>1 DEF StopReadDoes, AfterStop
<1>22. ASSUME NEW c \in Commands, StopSignal(c) PROVE TargetType'
  BY <1>22 DEF StopSignal, Alive, Unmarked
<1>23. ASSUME NEW c \in Commands, StopDone(c) PROVE TargetType'
  BY <1>23 DEF StopDone, Alive, AfterStop, Nobody
<1>24. ASSUME NEW c \in Commands, StopKills(c) PROVE TargetType'
  BY <1>24 DEF StopKills, StuckClosing, AfterStop, Nobody
<1>25. ASSUME NEW c \in Commands, UpProbe(c) PROVE TargetType'
  BY <1>25 DEF UpProbe, IsUp
<1>26. ASSUME NEW c \in Commands, UpSpawn(c) PROVE TargetType'
  BY <1>26 DEF UpSpawn
<1>27. ASSUME NEW c \in Commands, UpWrites(c) PROVE TargetType'
  BY <1>27 DEF UpWrites
<1>28. ASSUME NEW c \in Commands, UpWaits(c) PROVE TargetType'
  BY <1>28 DEF UpWaits, IsUp
<1>29. ASSUME NEW c \in Commands, ReapSignals(c) PROVE TargetType'
  <2>1. Parentless \in SUBSET ({"sup", "srv"} \X Sups)
    BY DEF Parentless
  <2>2. target' = target /\ reaped' = [reaped EXCEPT ![c] = Parentless \ {<<"sup", ReadPid>>}]
    BY <1>29 DEF ReapSignals
  <2> QED
    BY <2>1, <2>2
<1>30. ASSUME NEW c \in Commands, ReapKills(c) PROVE TargetType'
  BY <1>30 DEF ReapKills, Unmarked
<1>31. ASSUME NEW c \in Commands, NEW k \in Kinds, Issue(c, k) PROVE TargetType'
  BY <1>31 DEF Issue
<1> QED
  BY <1>1, <1>2, <1>3, <1>4, <1>5, <1>6, <1>7, <1>8, <1>9, <1>10, <1>11, <1>12, <1>13, <1>14,
    <1>15, <1>16, <1>17, <1>18, <1>19, <1>20, <1>21, <1>22, <1>23, <1>24, <1>25, <1>26, <1>27,
    <1>28, <1>29, <1>30, <1>31 DEF Next, SupStep, CommandStep, World

LEMMA TypeStep == ASSUME TypeOK, RestartsLeft, Room, Kinded, Targets, Next PROVE TypeOK'
<1>1. SupType /\ CountType /\ MarkType /\ CmdType /\ TargetType
  BY TypeGroups
<1>2. SupType' /\ CountType' /\ MarkType' /\ CmdType' /\ TargetType'
  BY <1>1, SupTypeStep, CountTypeStep, MarkTypeStep, CmdTypeStep, TargetTypeStep
<1> QED
  BY <1>2, TypeGroups DEF TypeOK, SupType, CountType, MarkType, CmdType, TargetType

-----------------------------------------------------------------------------
(* The invariant *)

LEMMA Initially == Init => IInv
<1> SUFFICES ASSUME Init PROVE IInv
  OBVIOUS
<1> USE BoundsAssumption, KindsAssumption DEF Init, Runs, Lives, Holds, Nobody
<1>1. TypeOK
  BY DEF TypeOK, Sups
<1>2. RestartsLeft /\ Kinded /\ Between /\ Owned /\ OnePort /\ Targets
  BY DEF RestartsLeft, Kinded, Between, Owned, OnePort, Targets, Sups
<1>3. Marked /\ Aimed /\ StopStops
  BY DEF Marked, Aimed, StopStops
<1>4. Room
  <2>1. ToSpawn = {}
    BY DEF ToSpawn
  <2>2. Cardinality(ToSpawn) = 0 /\ Cardinality(Unborn) \in Nat
    BY <2>1, Finite, FS_EmptySet, FS_CardinalityType
  <2> QED
    BY <2>2 DEF Room
<1> QED
  BY <1>1, <1>2, <1>3, <1>4 DEF IInv

LEMMA Inductive == IInv /\ [Next]_vars => IInv'
<1> SUFFICES ASSUME IInv, [Next]_vars PROVE IInv'
  OBVIOUS
<1>i. /\ TypeOK /\ RestartsLeft /\ Room /\ Kinded /\ Between /\ Owned /\ OnePort /\ Targets
      /\ Marked /\ Aimed /\ StopStops
  BY DEF IInv
<1>1. CASE Next
  <2>1. TypeOK' /\ RestartsLeft' /\ Room' /\ Kinded'
    BY <1>1, <1>i, TypeStep, RestartsStep, RoomStep, KindedStep
  <2>2. Between' /\ Owned' /\ OnePort' /\ Targets'
    BY <1>1, <1>i, BetweenStep, OwnedStep, OnePortStep, TargetsStep
  <2>3. Marked' /\ Aimed' /\ StopStops'
    BY <1>1, <1>i, MarkedStep, AimedStep, StopStopsStep
  <2> QED
    BY <2>1, <2>2, <2>3 DEF IInv
<1>2. CASE UNCHANGED vars
  <2> USE <1>2, <1>i DEF vars, procs, cmds
  <2>1. TypeOK' /\ RestartsLeft' /\ Kinded' /\ Between' /\ Targets'
    BY DEF TypeOK, RestartsLeft, Kinded, Between, Targets
  <2>2. Room'
    BY DEF Room, ToSpawn, Unborn
  <2>3. Owned' /\ OnePort'
    BY DEF Owned, OnePort, Runs, Lives, Holds
  <2>4. Marked' /\ Aimed' /\ StopStops'
    BY DEF Marked, Aimed, StopStops, Stopped, Holds, Lives
  <2> QED
    BY <2>1, <2>2, <2>3, <2>4 DEF IInv
<1> QED
  BY <1>1, <1>2

\* The parts of the invariant hold together, from the first step on.
THEOREM Invariance == Spec => []IInv
  BY Initially, Inductive, PTL DEF Spec

\* A stop or a restart that reports success has ended the server that held the port when it
\* began, or that server hangs, or its supervisor had to be killed while it waited for
\* stop_browser: for any number of commands, supervisors, crashes and wedges, and whichever of
\* them come in between (stop_server, find_supervisor).
THEOREM StopsStop == Spec => []StopStops
<1>1. IInv => StopStops
  BY DEF IInv
<1> QED
  BY Invariance, <1>1, PTL

\* Chrome is left behind only by a supervisor that was killed, or told to stop before it had
\* cleared away (reap_group, shutdown).
THEOREM ChromeIsOwned == Spec => []ChromeOwned
<1>1. IInv => ChromeOwned
  BY DEF IInv, ChromeOwned, Owned
<1> QED
  BY Invariance, <1>1, PTL
=============================================================================
