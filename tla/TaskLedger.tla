----------------------------- MODULE TaskLedger -----------------------------
(***************************************************************************)
(* What a team-solve run remembers of its task: the check settled in       *)
(* task.md, the ledger of tasks in tasks.json and the task chosen next,    *)
(* which is in state.json.  `mem` is the orchestrator's own copy of the    *)
(* state; what it did not save is lost when it is killed, and a resume     *)
(* begins again at the planner, in round 1.                                *)
(*                                                                         *)
(* A task's description stands for all its spellings (casefold).  The      *)
(* answers of roles are chosen from small sets; whether a round's work is  *)
(* accepted is chosen, as the model of the rounds is TeamSolve.            *)
(***************************************************************************)
EXTENDS Naturals, Sequences, FiniteSets

CONSTANTS
  Checks,         \* commands
  Plans,          \* what a planner may answer: a Check section and tasks
  ManagerAnswers, \* what a manager may answer: a status, a next task and tasks
  Ledgers,        \* how runs are started: --check, a Check in the prompt, --improve
  MaxTasks,       \* 20 in the code
  MaxRounds,
  MaxKills

VARIABLES
  ledger,         \* how the run was started
  mem, disk,      \* the state, and state.json
  plan,           \* plan.md and what the planner was told of the check
  taskMd,         \* the Check of task.md
  tasksJson,      \* tasks.json
  tasksBefore,    \* the tasks-before.json of the round
  step, round, kills

ledgerVars == <<ledger, mem, disk, plan, taskMd, tasksJson, tasksBefore, step, round, kills>>

Unset == "none"

\* A list of tasks is finite, and a task without a description is not in one.
TaskList(items) == items \in Seq({items[i] : i \in DOMAIN items})
                   /\ \A i \in DOMAIN items : items[i].description # Unset

ASSUME LedgerAssumption ==
  /\ MaxTasks \in Nat \ {0} /\ MaxRounds \in Nat /\ MaxKills \in Nat
  /\ Unset \notin Checks
  /\ \A p \in Plans : TaskList(p.tasks)
  /\ \A a \in ManagerAnswers : TaskList(a.tasks)
  /\ \A l \in Ledgers : l.check \in Checks \cup {Unset}

\* Tasks the orchestrator makes up itself.
Generic == "satisfy the check"
AfterFail == "fix or address"
AfterPass == "improve"

-----------------------------------------------------------------------------
(* settle and check_spec of taskspec.py: a Check section is a command, the *)
(* word "judge" or "samples", or names nothing.                            *)

\* The operator's check wins, then what the planner named, then the prompt.
SettledCheck(section) ==
  IF ledger.check # Unset THEN ledger.check
  ELSE IF section # Unset THEN section
  ELSE IF ledger.prompt # Unset THEN ledger.prompt ELSE "judge"

\* Samples have no runner here.
CheckSpec(section) == IF section \in Checks THEN section ELSE "judge"

-----------------------------------------------------------------------------
(* The ledger. *)

\* The how many-th of some places i is, and the place that is the k-th of them.
Rank(places, i) == Cardinality({j \in places : j <= i})
Nth(places, k) == CHOOSE i \in places : Rank(places, i) = k

\* parse_task_items: each description once, as many as the ledger holds.
ParsedItems(items) ==
  LET firsts == {i \in DOMAIN items :
                   \A j \in 1..(i - 1) : items[j].description # items[i].description}
      n == IF Cardinality(firsts) < MaxTasks THEN Cardinality(firsts) ELSE MaxTasks
  IN [k \in 1..n |-> items[Nth(firsts, k)]]

Descriptions(tasks) == {tasks[i].description : i \in DOMAIN tasks}
Ids(tasks) == {tasks[i].id : i \in DOMAIN tasks}
IdOf(tasks, d) == tasks[CHOOSE i \in DOMAIN tasks : tasks[i].description = d].id
LastOf(ids) == CHOOSE n \in {0} \cup ids : \A m \in {0} \cup ids : m <= n

Source(previous, curated, next) ==
  IF curated # <<>> THEN curated
  ELSE IF previous # <<>> THEN previous
  ELSE <<[description |-> IF next # Unset THEN next ELSE Generic, status |-> "todo"]>>

\* A task that is known keeps its number, the others get the next ones.
Numbered(previous, source) ==
  LET new == {i \in DOMAIN source : source[i].description \notin Descriptions(previous)}
  IN [i \in DOMAIN source |->
        [id |-> IF source[i].description \in Descriptions(previous)
                THEN IdOf(previous, source[i].description)
                ELSE LastOf(Ids(previous)) + Rank(new, i),
         description |-> source[i].description, status |-> source[i].status]]

\* The number after all that were given, to old tasks or to new ones.
NextId(previous, tasks) == LastOf(Ids(previous) \cup Ids(tasks)) + 1

ReconcileTasks(previous, curated, next) ==
  LET tasks == Numbered(previous, Source(previous, curated, next))
  IN IF next = Unset THEN tasks
     ELSE IF next \in Descriptions(tasks)
     THEN [i \in DOMAIN tasks |-> IF tasks[i].description = next
                                  THEN [tasks[i] EXCEPT !.status = "in-progress"] ELSE tasks[i]]
     ELSE IF Len(tasks) < MaxTasks
     THEN Append(tasks, [id |-> NextId(previous, tasks), description |-> next,
                         status |-> "in-progress"])
     ELSE tasks

-----------------------------------------------------------------------------
CheckLine == [check |-> mem.check, kind |-> mem.kind]
SaveState == disk' = mem'

LedgerInit ==
  /\ ledger \in Ledgers
  /\ mem = [check |-> ledger.check, kind |-> IF ledger.check = Unset THEN Unset ELSE "command",
            settled |-> FALSE, next |-> Unset]
  /\ disk = mem
  /\ plan = [section |-> Unset, tasks |-> <<>>, told |-> [check |-> Unset, kind |-> "unasked"]]
  /\ taskMd = Unset
  /\ tasksJson = <<>> /\ tasksBefore = <<>>
  /\ step = "plan" /\ round = 0 /\ kills = 0

\* A plan is used again when the planner would be told the same.
AnswerPlan ==
  /\ step = "plan" /\ step' = "settle"
  /\ \/ plan.told = CheckLine /\ UNCHANGED plan
     \/ /\ plan.told # CheckLine
        /\ \E p \in Plans : plan' = [section |-> p.section, tasks |-> p.tasks, told |-> CheckLine]
  /\ UNCHANGED mem /\ SaveState
  /\ UNCHANGED <<ledger, taskMd, tasksJson, tasksBefore, round, kills>>

\* Mutant: what was settled is settled again from a new plan.
SettleTaskAgain ==
  /\ step = "settle"
  /\ step' = "settled" /\ taskMd' = SettledCheck(plan.section)
  /\ UNCHANGED <<ledger, mem, disk, plan, tasksJson, tasksBefore, round, kills>>

SettleTask ==
  /\ step = "settle"
  /\ IF mem.settled THEN step' = "tasks" /\ UNCHANGED taskMd
     ELSE step' = "settled" /\ taskMd' = SettledCheck(plan.section)
  /\ UNCHANGED <<ledger, mem, disk, plan, tasksJson, tasksBefore, round, kills>>

SettleState ==
  /\ step = "settled" /\ step' = "tasks"
  /\ LET spec == CheckSpec(taskMd)
     IN mem' = [mem EXCEPT !.settled = TRUE,
                           !.kind = IF spec \in Checks THEN "command" ELSE "judge",
                           !.check = IF spec \in Checks /\ ledger.check = Unset THEN spec ELSE @]
  /\ SaveState
  /\ UNCHANGED <<ledger, plan, taskMd, tasksJson, tasksBefore, round, kills>>

\* The first task is next when none is.
FirstTasks ==
  /\ step = "tasks" /\ step' = "round" /\ round' = 1
  /\ tasksJson' = IF tasksJson # <<>> THEN tasksJson
                  ELSE ReconcileTasks(<<>>, ParsedItems(plan.tasks), Unset)
  /\ mem' = [mem EXCEPT !.next = IF @ = Unset THEN tasksJson'[1].description ELSE @]
  /\ disk' = mem
  /\ UNCHANGED <<ledger, plan, taskMd, tasksBefore, kills>>

BeginRound ==
  /\ step = "round" /\ step' = "work"
  /\ tasksJson' = ReconcileTasks(tasksJson, tasksJson, mem.next)
  /\ tasksBefore' = tasksJson'
  /\ UNCHANGED mem /\ SaveState
  /\ UNCHANGED <<ledger, plan, taskMd, round, kills>>

\* The worker, then triage, review and judge; a repair that changes nothing ends the rounds.
WorkRound ==
  /\ step = "work"
  /\ step' = "manage" \/ (round > 1 /\ step' = "over")
  /\ UNCHANGED mem /\ SaveState
  /\ UNCHANGED <<ledger, plan, taskMd, tasksJson, tasksBefore, round, kills>>

\* The chosen task is forgotten before the manager is asked for another.
AskManager ==
  /\ step = "manage" /\ step' = "managed"
  /\ mem' = [mem EXCEPT !.next = Unset] /\ SaveState
  /\ UNCHANGED <<ledger, plan, taskMd, tasksJson, tasksBefore, round, kills>>

Pending(tasks) == {i \in DOMAIN tasks : tasks[i].status # "done"}

\* The manager's answer, and what follows from it up to the next round.  The state is saved
\* with the ledger, before the chosen task is in it.
Managed ==
  /\ step = "managed"
  /\ \E a \in ManagerAnswers, accepted \in BOOLEAN :
       LET curated == ParsedItems(a.tasks)
           found   == ReconcileTasks(tasksJson, curated, a.next)
           next    == IF a.next # Unset THEN a.next
                      ELSE IF Pending(found) # {} THEN found[Nth(Pending(found), 1)].description
                      ELSE Unset
           tasks   == ReconcileTasks(tasksJson, curated, next)
           over    == \/ /\ accepted /\ (a.done \/ next = Unset)
                         /\ ~ledger.improve \/ round = MaxRounds
                      \/ round = MaxRounds
       IN \/ /\ over
             /\ tasksJson' = tasks /\ disk' = mem /\ mem' = [mem EXCEPT !.next = next]
             /\ step' = "over" /\ UNCHANGED round
          \/ /\ ~over /\ (next # Unset \/ accepted)
             /\ tasksJson' = tasks /\ disk' = mem
             /\ mem' = [mem EXCEPT !.next = IF next # Unset THEN next ELSE AfterPass]
             /\ step' = "round" /\ round' = round + 1
          \/ /\ ~over /\ next = Unset /\ ~accepted
             /\ tasksJson' = tasks /\ UNCHANGED mem /\ SaveState
             /\ step' = "default" /\ UNCHANGED round
  /\ UNCHANGED <<ledger, plan, taskMd, tasksBefore, kills>>

DefaultTask ==
  /\ step = "default" /\ step' = "round" /\ round' = round + 1
  /\ tasksJson' = ReconcileTasks(tasksJson, tasksJson, AfterFail)
  /\ mem' = [mem EXCEPT !.next = AfterFail] /\ SaveState
  /\ UNCHANGED <<ledger, plan, taskMd, tasksBefore, kills>>

\* The orchestrator is killed; a resume loads what it saved.
KillAndResume ==
  /\ step # "over" /\ kills < MaxKills /\ kills' = kills + 1
  /\ mem' = disk /\ step' = "plan" /\ round' = 0
  /\ UNCHANGED <<ledger, disk, plan, taskMd, tasksJson, tasksBefore>>

LedgerNext ==
  \/ AnswerPlan \/ SettleTask \/ SettleState \/ FirstTasks \/ BeginRound
  \/ WorkRound \/ AskManager \/ Managed \/ DefaultTask \/ KillAndResume

LedgerSpec == LedgerInit /\ [][LedgerNext]_ledgerVars

-----------------------------------------------------------------------------
\* The roles of a round work on a task, and the list they read says that it is in progress,
\* if it has room for it: whatever the manager answered, and wherever the run was killed.
NextIsListed ==
  step = "work" =>
    /\ mem.next # Unset
    /\ \/ Len(tasksBefore) = MaxTasks /\ mem.next \notin Descriptions(tasksBefore)
       \/ \E i \in DOMAIN tasksBefore :
            tasksBefore[i].description = mem.next /\ tasksBefore[i].status = "in-progress"

\* A number names one task of the ledger, and a task keeps it as long as it is there, but for
\* one the manager leaves out of its list and names as the next: it gets another.
NumbersAreOwn == Cardinality(Ids(tasksJson)) = Len(tasksJson)
TaskKeepsId ==
  \A d \in Descriptions(tasksJson) \cap Descriptions(tasksJson') :
    d # mem'.next => IdOf(tasksJson, d) = IdOf(tasksJson', d)

\* Once the check is settled, task.md names what the run checks: the operator's command if
\* there is one.  A later plan changes neither.
SettledIsInTask ==
  mem.settled =>
    /\ CheckSpec(taskMd) = IF mem.kind = "command" THEN mem.check ELSE "judge"
    /\ ledger.check # Unset => taskMd = ledger.check /\ mem.check = ledger.check

\* What a run remembers of its task agrees with what its roles are told, in every round and
\* over every resume (reconcile_tasks, settle, the manager's answer): after every step, and
\* nothing is there before the first.
LedgerIsKept == [][TaskKeepsId /\ NextIsListed' /\ NumbersAreOwn' /\ SettledIsInTask']_ledgerVars
=============================================================================
