--------------------------- MODULE BaselineCheck ----------------------------
(***************************************************************************)
(* What a check that fails says of a run's work (evaluate_check and        *)
(* against_baseline of team_solve.py, parse of failures.py).  The check    *)
(* was also run on the workspace as found: if it failed there too, only    *)
(* failing tests that the work adds count.  The failing tests are read     *)
(* from the logs of pytest, unittest and go test, which a check may run    *)
(* one after another, and which a timeout may cut anywhere.                *)
(*                                                                         *)
(* A log is the sequence of its lines that matter; a test is a name in a   *)
(* unit (a file, a class, a package).  What tests do before and after the  *)
(* work is chosen.                                                         *)
(***************************************************************************)
EXTENDS Naturals, Sequences, FiniteSets, SequencesExt

CONSTANTS
  Checks,     \* checks: their steps, how they are joined, whether they may time out
  Outcomes    \* what a test may do: "ok", "failed", "error", "both" (then its teardown)

VARIABLES
  check,      \* the check, its tests and what pytest lists
  before, after,          \* outcomes of the tests as found, and of the work
  baseLog, baseExit,      \* baseline_check
  workLog, exit, timedOut,    \* the check of the work
  status,
  phase

checkVars == <<check, before, after, baseLog, baseExit, workLog, exit, timedOut, status, phase>>

NoExit == 99     \* no exit code

-----------------------------------------------------------------------------
(* The runners, as the logs the parser reads expect them. *)

Test(runner, unit, name) == [runner |-> runner, unit |-> unit, name |-> name]

LogLine(kind, test, n) == [kind |-> kind, test |-> test, n |-> n]
Plain(kind, n) == LogLine(kind, Test("", "", ""), n)

Failing(outcome, tests) == {t \in tests : outcome[t] # "ok"}

\* How often a test is counted: once more if its teardown fails too.
Counted(outcome, t) == IF outcome[t] = "both" THEN 2 ELSE 1

\* The lines that name failing tests; -rf lists no errors, -rN nothing.
Lines(kind, listing, outcome, tests) ==
  LET times(t) == CASE listing = "all" -> Counted(outcome, t)
                    [] listing = "failed" -> IF outcome[t] = "error" THEN 0 ELSE 1
                    [] listing = "none" -> 0
  IN  FoldLeft(LAMBDA s, t : s \o [i \in 1..times(t) |-> LogLine(kind, t, 0)],
               <<>>, SetToSeq(Failing(outcome, tests)))

TotalFailing(outcome, tests) ==
  FoldLeft(LAMBDA n, t : n + Counted(outcome, t), 0, SetToSeq(Failing(outcome, tests)))

Package(outcome, unit, tests) ==
  LET here == {t \in tests : t.unit = unit}
      bad == Failing(outcome, here) # {}
  IN  Lines("go fail", "all", outcome, here)
      \o <<LogLine(IF bad THEN "go package fail" ELSE "go package ok", Test("go", unit, ""), 0)>>

TestsOf(step) == {t \in check.tests : t.runner = step.runner /\ t.unit \in step.units}

\* What a step prints.
Prints(step, outcome) ==
  LET tests == TestsOf(step)
      n == TotalFailing(outcome, tests)
  IN  CASE step.runner = "pytest" ->
             Append(Lines("py fail", check.listing, outcome, tests), Plain("py done", n))
        [] step.runner = "unittest" ->
             Lines("ut fail", "all", outcome, tests)
             \o <<Plain("ut ran", 0), Plain(IF n = 0 THEN "ut ok" ELSE "ut failed", n)>>
        [] step.runner = "go" ->
             FoldLeft(LAMBDA s, u : s \o Package(outcome, u, tests), <<>>, SetToSeq(step.units))

StepFails(step, outcome) == Failing(outcome, TestsOf(step)) # {}

\* With "&&" the first step that fails is the last one run.
LastRun(outcome) ==
  LET bad == {i \in DOMAIN check.steps : StepFails(check.steps[i], outcome)}
  IN  IF check.and /\ bad # {} THEN CHOOSE i \in bad : \A j \in bad : i <= j
      ELSE Len(check.steps)

Log(outcome) ==
  FoldLeft(LAMBDA s, i : s \o Prints(check.steps[i], outcome), <<>>,
           [i \in 1..LastRun(outcome) |-> i])
Exit(outcome) == IF StepFails(check.steps[LastRun(outcome)], outcome) THEN 1 ELSE 0

-----------------------------------------------------------------------------
(* failures.parse *)

Count(lines, kind) == Cardinality({i \in DOMAIN lines : lines[i].kind = kind})
Has(lines, kind) == Count(lines, kind) > 0
\* The number on the last line of a kind, as each one overwrites the one before.
LastNumber(lines, kinds) ==
  LET at == {i \in DOMAIN lines : lines[i].kind \in kinds}
  IN  lines[CHOOSE i \in at : \A j \in at : j <= i].n

\* The name a line gives a test: go test prints it without its package.
Id(line) ==
  IF line.kind = "go fail" THEN Test("go", "", line.test.name) ELSE line.test
Ids(lines, kinds) == {Id(lines[i]) : i \in {k \in DOMAIN lines : lines[k].kind \in kinds}}

Unread == [known |-> FALSE, ids |-> {}]

\* Mutant: the number of failures a runner counts is not compared with its list.
ParseUncounted(lines) ==
  LET ids == (IF Has(lines, "py done") THEN Ids(lines, {"py fail"}) ELSE {})
             \cup (IF Has(lines, "ut ran") THEN Ids(lines, {"ut fail"}) ELSE {})
             \cup Ids(lines, {"go fail", "go package fail"})
  IN  IF ids = {} THEN Unread ELSE [known |-> TRUE, ids |-> ids]

Parse(lines) ==
  LET py == Has(lines, "py done")
      ut == Has(lines, "ut ran")
      go == Has(lines, "go package ok") \/ Has(lines, "go package fail")
      utDone == Has(lines, "ut ok") \/ Has(lines, "ut failed")
      ids == (IF py THEN Ids(lines, {"py fail"}) ELSE {})
             \cup (IF ut THEN Ids(lines, {"ut fail"}) ELSE {})
             \cup (IF go THEN Ids(lines, {"go fail", "go package fail"}) ELSE {})
  IN  IF \/ py /\ Count(lines, "py fail") # LastNumber(lines, {"py done"})
         \/ ut /\ ~utDone
         \/ ut /\ utDone /\ Count(lines, "ut fail") # LastNumber(lines, {"ut ok", "ut failed"})
         \/ ids = {}
      THEN Unread ELSE [known |-> TRUE, ids |-> ids]

\* failure_shape: the text without its numbers.
Shape(lines) == [i \in DOMAIN lines |-> [kind |-> lines[i].kind, test |-> lines[i].test]]

AgainstBaseline ==
  IF baseExit \in {NoExit, 0} THEN "fail"
  ELSE LET base == Parse(baseLog)
           now == Parse(workLog)
       IN  IF base.known /\ now.known
           THEN IF now.ids \subseteq base.ids THEN "pass" ELSE "fail"
           ELSE IF Shape(workLog) = Shape(baseLog) THEN "none" ELSE "fail"

-----------------------------------------------------------------------------
(* The run. *)

\* The baseline, on the workspace as found or on a copy of it; there may be none.
Baseline ==
  /\ phase = "baseline" /\ phase' = "work"
  /\ \/ baseLog' = Log(before) /\ baseExit' = Exit(before)
     \/ baseLog' = <<>> /\ baseExit' = NoExit
  /\ UNCHANGED <<check, before, after, workLog, exit, timedOut, status>>

\* run_check: to its end, or cut by the timeout (124), or not started (127).
RunCheck ==
  /\ phase = "work" /\ phase' = "checked"
  /\ \/ workLog' = Log(after) /\ exit' = Exit(after) /\ timedOut' = FALSE
     \/ /\ check.timeout
        /\ \E n \in 0..(Len(Log(after)) - 1) : workLog' = SubSeq(Log(after), 1, n)
        /\ exit' = 124 /\ timedOut' = TRUE
     \/ workLog' = <<Plain("could not start", 0)>> /\ exit' = 127 /\ timedOut' = FALSE
  /\ UNCHANGED <<check, before, after, baseLog, baseExit, status>>

EvaluateCheck ==
  /\ phase = "checked" /\ phase' = "evaluated"
  /\ status' = IF exit = 0 THEN "pass" ELSE AgainstBaseline
  /\ UNCHANGED <<check, before, after, baseLog, baseExit, workLog, exit, timedOut>>

CheckInit ==
  /\ check \in Checks
  /\ before \in [check.tests -> Outcomes] /\ after \in [check.tests -> Outcomes]
  /\ \A t \in check.tests : t.runner = "go" => {before[t], after[t]} \subseteq {"ok", "failed"}
  /\ baseLog = <<>> /\ baseExit = NoExit /\ workLog = <<>> /\ exit = NoExit /\ timedOut = FALSE
  /\ status = "none" /\ phase = "baseline"

CheckNext == Baseline \/ RunCheck \/ EvaluateCheck

CheckSpec == CheckInit /\ [][CheckNext]_checkVars

-----------------------------------------------------------------------------
\* The tests known to fail: those that were run, or listed before a timeout.
Broken ==
  IF timedOut
  THEN {workLog[i].test : i \in {k \in DOMAIN workLog : workLog[k].kind \in {"py fail", "ut fail", "go fail"}}}
  ELSE IF exit = 127 THEN {}
  ELSE UNION {Failing(after, TestsOf(check.steps[i])) : i \in 1..LastRun(after)}

\* A check that fails is counted as passed only if every test that failed in it
\* failed on the workspace as the run found it: "a change is judged by the
\* failing tests it ADDS", and this one adds none.
PassAddsNoFailure ==
  phase = "evaluated" /\ status = "pass" /\ exit # 0 =>
    \A t \in Broken : before[t] # "ok"
=============================================================================
