----------------------------- MODULE RoleReuse -----------------------------
(***************************************************************************)
(* Which answers of roles a resumed run takes over instead of asking       *)
(* again.  A run that was killed begins again at the planner, in round 1;  *)
(* run_role skips a role whose record says done if its prompt and the      *)
(* files role_evidence_paths lists are as when it was asked.  The prompt   *)
(* also names files to read: the lists are kept by hand, apart from it.    *)
(*                                                                         *)
(* A file is the version of its text, Missing if there is none.  What a    *)
(* role answers and what a check shows are chosen; the version of a diff   *)
(* is when it was captured, which is written on its first line.            *)
(***************************************************************************)
EXTENDS Naturals, FiniteSets

CONSTANTS
  AnswerVersions,     \* what an answer may say; 1 is PASS and the tasks as they are
  CheckStatuses, \* how a check may end
  MaxRounds,
  MaxSittings,  \* times the run is started
  MaxChanges    \* answers and checks that are not the first of their kind

ASSUME RoleReuseAssumption ==
  /\ 1 \in AnswerVersions /\ AnswerVersions \subseteq Nat \ {0}
  /\ "pass" \in CheckStatuses /\ CheckStatuses \subseteq {"pass", "fail", "none"}
  /\ MaxRounds \in Nat \ {0}

VARIABLES
  operator,     \* the check was given with --check
  files,        \* versions of the files of the run's directory
  saved,        \* state.json
  records,      \* its "roles"
  stage, round, \* where the run is
  waiting,      \* roles the phase waits for
  sitting,
  changes

reuseVars == <<operator, files, saved, records, stage, round, waiting, sitting, changes>>

Missing == 0
Unset == "unset"
RoundNumbers == 1..MaxRounds
Roles == {"direct", "plan", "ideate-a", "ideate-b", "solve", "triage", "review",
          "judge", "manager", "repair", "audit"}
Keys == Roles \X RoundNumbers

\* Files of a round, and of the run (as round 0).
RoundNames == Roles \cup {"tasks-initial", "tasks-before", "check", "diff", "scope",
                          "direct-check", "direct-diff"}
RunNames == {"prompt", "task", "tasks", "final-check", "final-diff"}
Names == (RoundNames \X RoundNumbers) \cup (RunNames \X {0})
Prompt == <<"prompt", 0>>
Task == <<"task", 0>>
Tasks == <<"tasks", 0>>

-----------------------------------------------------------------------------
(* What a role is told, what it is to read, and what is compared. *)

Worker(r) == IF r > 1 THEN <<"repair", r>>
             ELSE IF saved.direct = "passed" THEN <<"direct", r>> ELSE <<"solve", r>>

\* The files common to the roles that look at the work of a round.
OfRound(r) == {Task} \cup ({"tasks-before", "plan", "ideate-a", "ideate-b"} \X {r})
Work(r) == {"check", "diff"} \X {r}

\* By the worker's file and whether the judge is shown the check.
EvidenceAs(role, r, worker, shown) ==
  CASE role \in {"direct", "plan"} -> {Prompt}
    [] role \in {"ideate-a", "ideate-b"} -> {Task, <<"tasks-initial", r>>, <<"plan", r>>}
    [] role = "solve" -> OfRound(r) \cup ({"direct-check", "direct-diff"} \X {1})
    [] role = "triage" -> OfRound(r) \cup Work(r)
    [] role = "review" -> OfRound(r) \cup Work(r) \cup {<<"triage", r>>}
    [] role = "judge" -> {Task, <<"diff", r>>} \cup (IF shown THEN {<<"check", r>>} ELSE {})
    [] role = "manager" -> OfRound(r) \cup Work(r)
                           \cup {<<"triage", r>>, <<"review", r>>, worker}
    [] role = "repair" -> {Task, <<"tasks-before", r>>, <<"plan", 1>>, <<"manager", r>>}
                          \cup ({"manager", "triage", "review", "diff", "check"} \X {r - 1})
    [] role = "audit" -> Names

EvidenceOf(role, r) == EvidenceAs(role, r, Worker(r), r \in saved.sees)

\* Mutant: the plan of the round is not compared.
EvidenceWithoutPlan(role, r) == [f \in EvidenceOf(role, r) \ {<<"plan", r>>} |-> files[f]]

Evidence(role, r) == [f \in EvidenceOf(role, r) |-> files[f]]

\* The files a prompt tells a role to read.  (The planner is also given the
\* path of task.md, which is settled from its plan afterwards.)
NamedAs(role, r, worker, shown) ==
  CASE role \in {"direct", "plan"} -> {}
    [] role \in {"ideate-a", "ideate-b"} -> {Task, <<"plan", r>>}
    [] role = "solve" -> {Task} \cup ({"plan", "ideate-a", "ideate-b"} \X {r})
                         \cup ({"direct-check", "direct-diff"} \X {1})
    [] role = "triage" -> {Task} \cup Work(r)
    [] role = "review" -> {Task, <<"scope", r>>, <<"triage", r>>} \cup Work(r)
    [] role = "judge" -> {Task, <<"diff", r>>} \cup (IF shown THEN {<<"check", r>>} ELSE {})
    [] role = "manager" -> {Task, worker} \cup Work(r)
                           \cup ({"plan", "triage", "review"} \X {r})
    [] role = "repair" -> {Task, <<"plan", 1>>}
                          \cup ({"judge", "manager", "review", "triage", "diff", "check"}
                                \X {r - 1})
    [] role = "audit" -> Names \ {Prompt, <<"audit", r>>}

Named(role, r) == NamedAs(role, r, Worker(r), r \in saved.sees)

CheckLine == IF operator THEN "operator" ELSE saved.check

\* What of the run's state is in the prompt itself.
Told(role, r) ==
  CASE role = "direct" -> <<>>
    [] role = "judge" -> <<r \in saved.sees>>
    [] role = "plan" -> <<CheckLine>>
    [] role \in {"ideate-a", "ideate-b"} -> <<CheckLine, saved.next, files[<<"tasks-initial", r>>]>>
    [] role \in {"triage", "review"} -> <<CheckLine, saved.next, files[<<"tasks-before", r>>], saved.last>>
    [] role = "manager" -> <<CheckLine, saved.next, files[<<"tasks-before", r>>], saved.entry[r]>>
    [] role = "repair" -> <<CheckLine, saved.next, files[<<"tasks-before", r>>],
                            files[<<"judge", r - 1>>] # Missing>>
    [] OTHER -> <<CheckLine, saved.next, files[<<"tasks-before", r>>]>>

\* prior_role: the record is of this prompt, and of the output that is there.
Cached(role, r) ==
  LET rec == records[<<role, r>>]
  IN  /\ rec.status = "done"
      /\ rec.told = Told(role, r) /\ rec.evidence = Evidence(role, r)
      /\ files[<<role, r>>] # Missing /\ files[<<role, r>>] = rec.answer

-----------------------------------------------------------------------------
(* Asking a role: `seen` is what the files it is to read hold then. *)

NoRecord == [status |-> "none", told |-> <<>>, evidence |-> <<>>, seen |-> <<>>, answer |-> Missing]

ReadNow(role, r) == [f \in Named(role, r) |-> files[f]]

Running(role, r) == records[<<role, r>>].status = "running"

Reuse(role) ==
  /\ role \in waiting /\ ~Running(role, round) /\ Cached(role, round)
  /\ waiting' = waiting \ {role}
  /\ UNCHANGED <<operator, files, saved, records, stage, round, sitting, changes>>

\* The manager is asked after the next task was taken out of the state.
Ask(role) ==
  /\ role \in waiting /\ ~Running(role, round) /\ ~Cached(role, round)
  /\ records' = [records EXCEPT ![<<role, round>>] =
       [status |-> "running", told |-> Told(role, round), evidence |-> Evidence(role, round),
        seen |-> ReadNow(role, round), answer |-> Missing]]
  /\ UNCHANGED <<operator, files, saved, stage, round, waiting, sitting, changes>>

Changed(c) == IF c = 1 THEN changes ELSE changes + 1

Reply(role, c) ==
  /\ role \in waiting /\ Running(role, round) /\ Changed(c) <= MaxChanges
  /\ files' = [files EXCEPT ![<<role, round>>] = c]
  /\ records' = [records EXCEPT ![<<role, round>>].status = "done", ![<<role, round>>].answer = c]
  /\ waiting' = waiting \ {role}
  /\ changes' = Changed(c)
  /\ UNCHANGED <<operator, saved, stage, round, sitting>>

-----------------------------------------------------------------------------
(* The orchestrator, from one phase to the next. *)

Stage(next, roles) == stage' = next /\ waiting' = roles

\* The check was settled from the first plan; the ledger of tasks is kept.
Settle ==
  /\ stage = "direct+plan" /\ waiting = {}
  /\ LET plan == files[<<"plan", 1>>]
         tasks == IF files[Tasks] = Missing THEN plan ELSE files[Tasks]
     IN  /\ saved' = [saved EXCEPT !.check = IF @ = Unset THEN "planner" ELSE @,
                               !.next = IF @ = Missing THEN tasks ELSE @]
         /\ files' = [files EXCEPT
              ![Task] = IF saved.check = Unset THEN 1 + plan ELSE @,
              ![Tasks] = tasks,
              ![<<"tasks-initial", 1>>] = IF @ = Missing THEN tasks ELSE @]
  /\ Stage("test-0", {})
  /\ UNCHANGED <<operator, records, round, sitting, changes>>

Version(status) == CASE status = "pass" -> 1 [] status = "fail" -> 2 [] status = "none" -> 3

TestZero(status, changed) ==
  /\ stage = "test-0" /\ saved.direct = Unset
  /\ Changed(Version(status)) <= MaxChanges /\ changes' = Changed(Version(status))
  /\ files' = [files EXCEPT ![<<"direct-check", 1>>] = Version(status),
                            ![<<"direct-diff", 1>>] = sitting]
  /\ saved' = [saved EXCEPT !.last = status,
                        !.direct = IF changed /\ status = "pass" THEN "passed" ELSE "failed"]
  /\ UNCHANGED <<operator, records, stage, round, waiting, sitting>>

Ideate ==
  /\ stage = "test-0" /\ saved.direct # Unset
  /\ Stage("ideate", IF saved.direct = "passed" THEN {} ELSE {"ideate-a", "ideate-b"})
  /\ UNCHANGED <<operator, files, saved, records, round, sitting, changes>>

\* The tasks before the round are saved, then the worker is asked.
StartRound(r) ==
  /\ files' = [files EXCEPT ![<<"tasks-before", r>>] = files[Tasks]]
  /\ round' = r
  /\ Stage("work", IF r > 1 THEN {"repair"} ELSE IF saved.direct = "passed" THEN {} ELSE {"solve"})

BeginRound ==
  /\ stage = "ideate" /\ waiting = {} /\ StartRound(1)
  /\ UNCHANGED <<operator, saved, records, sitting, changes>>

\* A repair that changed nothing ends the run.
NoProgress ==
  /\ stage = "work" /\ waiting = {} /\ round > 1
  /\ round' = round - 1 /\ Stage("final", {})
  /\ saved' = [saved EXCEPT !.repaired = TRUE]
  /\ UNCHANGED <<operator, files, records, sitting, changes>>

\* The check and the diff of the round are captured anew in every sitting.
Verify(status, scope) ==
  /\ stage = "work" /\ waiting = {}
  /\ Changed(Version(status)) + (IF scope = 1 THEN 0 ELSE 1) <= MaxChanges
  /\ changes' = Changed(Version(status)) + (IF scope = 1 THEN 0 ELSE 1)
  /\ files' = [files EXCEPT ![<<"check", round>>] = Version(status),
                            ![<<"diff", round>>] = sitting, ![<<"scope", round>>] = scope]
  /\ saved' = [saved EXCEPT !.last = status, !.repaired = @ \/ round > 1]
  /\ Stage("triage", {"triage"})
  /\ UNCHANGED <<operator, records, round, sitting>>

Review ==
  /\ stage = "triage" /\ waiting = {} /\ Stage("review", {"review"})
  /\ UNCHANGED <<operator, files, saved, records, round, sitting, changes>>

Passes(role) == files[<<role, round>>] = 1

\* The round is recorded with what was decided; the manager is asked next.
Decided(accepted) ==
  /\ saved' = [saved EXCEPT !.entry[round] = IF accepted THEN "accepted" ELSE "not accepted",
                        !.next = Missing]
  /\ Stage("manager", {"manager"})

ReviewDecides ==
  /\ stage = "review" /\ waiting = {}
  /\ \/ saved.last = "fail" /\ Decided(FALSE)
     \/ saved.last # "fail" /\ ~Passes("review") /\ Decided(FALSE)
     \/ saved.last = "pass" /\ Passes("review") /\ ~saved.repaired /\ Decided(TRUE)
  /\ UNCHANGED <<operator, files, records, round, sitting, changes>>

\* The judge is shown the log of a check that could not decide.
AskJudge ==
  /\ stage = "review" /\ waiting = {} /\ Passes("review")
  /\ saved.last = "none" \/ (saved.last = "pass" /\ saved.repaired)
  /\ saved' = [saved EXCEPT !.sees = IF saved.last = "none" THEN @ \cup {round} ELSE @]
  /\ Stage("judge", {"judge"})
  /\ UNCHANGED <<operator, files, records, round, sitting, changes>>

JudgeDecides ==
  /\ stage = "judge" /\ waiting = {} /\ Decided(Passes("judge"))
  /\ UNCHANGED <<operator, files, records, round, sitting, changes>>

\* The manager's answer 1 leaves the tasks and their order as they are.
Managed(done) ==
  /\ stage = "manager" /\ waiting = {}
  /\ LET c == files[<<"manager", round>>]
         tasks == IF c = 1 THEN files[Tasks] ELSE 10 + c
         ends == (done /\ saved.entry[round] = "accepted") \/ round = MaxRounds
     IN  /\ saved' = [saved EXCEPT !.next = tasks]
         /\ \/ /\ ends /\ Stage("final", {}) /\ round' = round
               /\ files' = [files EXCEPT ![Tasks] = tasks]
            \/ /\ ~ends /\ round' = round + 1 /\ Stage("work", {"repair"})
               /\ files' = [files EXCEPT ![Tasks] = tasks,
                                         ![<<"tasks-before", round + 1>>] = tasks]
  /\ UNCHANGED <<operator, records, sitting, changes>>

FinalCheck(status) ==
  /\ stage = "final"
  /\ Changed(Version(status)) <= MaxChanges /\ changes' = Changed(Version(status))
  /\ files' = [files EXCEPT ![<<"final-check", 0>>] = Version(status),
                            ![<<"final-diff", 0>>] = sitting]
  /\ Stage("audit", {"audit"})
  /\ UNCHANGED <<operator, saved, records, round, sitting>>

\* Killed anywhere before the run is finished, and started again.
ResumeRun ==
  /\ sitting < MaxSittings /\ sitting' = sitting + 1
  /\ records' = [k \in Keys |->
       IF records[k].status = "running" THEN NoRecord ELSE records[k]]
  /\ round' = 1 /\ Stage("direct+plan", {"direct", "plan"})
  /\ UNCHANGED <<operator, files, saved, changes>>

ReuseInit ==
  /\ operator \in BOOLEAN
  /\ files = [f \in Names |-> IF f \in {Prompt, Task} THEN 1 ELSE Missing]
  /\ saved = [check |-> Unset, next |-> Missing, last |-> Unset, direct |-> Unset,
            entry |-> [r \in RoundNumbers |-> Unset], sees |-> {}, repaired |-> FALSE]
  /\ records = [k \in Keys |-> NoRecord]
  /\ stage = "direct+plan" /\ round = 1 /\ waiting = {"direct", "plan"}
  /\ sitting = 1 /\ changes = 0

ReuseNext ==
  \/ \E role \in Roles : Reuse(role) \/ Ask(role) \/ \E c \in AnswerVersions : Reply(role, c)
  \/ Settle \/ Ideate \/ BeginRound \/ NoProgress \/ Review \/ ReviewDecides \/ AskJudge \/ JudgeDecides
  \/ \E s \in CheckStatuses : FinalCheck(s) \/ \E b \in BOOLEAN : TestZero(s, b)
  \/ \E s \in CheckStatuses, c \in AnswerVersions : Verify(s, c)
  \/ \E b \in BOOLEAN : Managed(b)
  \/ ResumeRun

ReuseSpec == ReuseInit /\ [][ReuseNext]_reuseVars

-----------------------------------------------------------------------------
\* An answer is taken over (prior_role) only if every file its prompt told the
\* role to read holds what it held when the role read it, the files that
\* role_evidence_paths leaves out (scope.txt, the last judge.md) included.
ReuseIsCurrent ==
  [][\A role \in Roles :
       sitting' = sitting /\ role \in waiting \ waiting' /\ records[<<role, round>>].status = "done"
       => records[<<role, round>>].seen = ReadNow(role, round)]_reuseVars
=============================================================================
