----------------------------- MODULE RoleAnswer -----------------------------
(***************************************************************************)
(* What run_role makes of a child's event log (parse_pi_events), and what  *)
(* route_profile makes of the router's answer.  pi writes one line per     *)
(* message, retry and settlement; it may fail, retry, compact, be aborted, *)
(* time out, die, or have a line torn.  An answer that is not whole fails  *)
(* its attempt; a worker cut off at its output limit is summarised by      *)
(* another role.  A killed run is resumed and takes over done answers.     *)
(*                                                                         *)
(* One role of one run.  A text is a model value; which texts name a       *)
(* profile is a constant; a log is forgotten once it was read; usage is    *)
(* left out.                                                               *)
(***************************************************************************)
EXTENDS Naturals, Sequences, FiniteSets, SequencesExt

CONSTANTS
  Texts,        \* what a message may say; "none" is no text
  Profiles,     \* the texts that name a profile
  StopReasons,  \* stop reasons, "none" without one
  RoleKinds,    \* "router", "worker" (may be cut off) or "reader"
  MaxMessages,
  MaxTries,     \* role_retries + 1
  MaxEntries    \* times the run is started

ASSUME RoleAnswerAssumption ==
  /\ "none" \in Texts /\ Profiles \subseteq Texts \ {"none"}
  /\ {"stop", "length"} \subseteq StopReasons
  /\ RoleKinds \subseteq {"router", "worker", "reader"}
  /\ MaxMessages \in Nat /\ MaxTries \in Nat \ {0} /\ MaxEntries \in Nat

VARIABLES
  role, profile,       \* the role, and resolved_profile
  place,               \* where run_role is
  tries, late,         \* attempts made; late: timed_out
  events, pi,   \* the attempt's log, and the child
  output, entry,   \* the role's file, and its record in state.json
  entries, stopping, used,   \* what the caller was given
  whole                \* history: the whole answers pi gave, the child's and the file's

answerVars == <<role, profile, place, tries, late, events, pi, output, entry, entries, stopping, used, whole>>

NoAnswer == [text |-> "none", cut |-> FALSE, is |-> FALSE]
Given(text, cut) == [text |-> text, cut |-> cut, is |-> TRUE]

-----------------------------------------------------------------------------
(* pi.  `clean`: every line was written whole. *)

Gone == [alive |-> FALSE, code |-> 1, said |-> 0, settled |-> FALSE, aborted |-> FALSE,
         gaveUp |-> FALSE, clean |-> TRUE, last |-> "none", stop |-> "none"]

\* The child is gone and its log read.
Forget == pi' = Gone /\ events' = <<>> /\ late' = FALSE

Fresh == [Gone EXCEPT !.alive = TRUE]

Event(what, text, stop) == [what |-> what, text |-> text, stop |-> stop]

\* A line is written, or one of a log is torn.
Writes(event, next) ==
  \/ events' = Append(events, event) /\ pi' = next
  \/ pi.clean /\ events' = Append(events, Event("torn", "none", "none")) /\ pi' = [next EXCEPT !.clean = FALSE]

PiRuns == place = "run" /\ pi.alive

PiSays(text, stop) ==
  /\ PiRuns /\ ~pi.settled /\ pi.said < MaxMessages
  /\ Writes(Event("message", text, stop),
            [pi EXCEPT !.said = @ + 1, !.last = text, !.stop = stop])
  /\ UNCHANGED <<role, profile, place, tries, late, output, entry, entries, stopping, used, whole>>

\* The provider failed once too often.
RetryFails ==
  /\ PiRuns /\ ~pi.settled /\ ~pi.gaveUp /\ pi.said > 0 /\ pi.stop # "stop"
  /\ Writes(Event("retry failed", "none", "none"), [pi EXCEPT !.gaveUp = TRUE])
  /\ UNCHANGED <<role, profile, place, tries, late, output, entry, entries, stopping, used, whole>>

Settles(aborted) ==
  /\ PiRuns /\ ~pi.settled
  /\ Writes(Event(IF aborted THEN "aborted" ELSE "settled", "none", "none"),
            [pi EXCEPT !.settled = TRUE, !.aborted = aborted])
  /\ UNCHANGED <<role, profile, place, tries, late, output, entry, entries, stopping, used, whole>>

\* The child ends by itself, with what it really gave.
PiExits(code) ==
  /\ PiRuns /\ pi' = [pi EXCEPT !.alive = FALSE, !.code = code]
  /\ whole' = whole \cup
       (IF code = 0 /\ pi.settled /\ ~pi.aborted /\ ~pi.gaveUp /\ pi.clean /\ pi.stop \in {"stop", "length"}
        THEN {Given(pi.last, pi.stop = "length")} ELSE {})
  /\ UNCHANGED <<role, profile, place, tries, late, events, output, entry, entries, stopping, used>>

-----------------------------------------------------------------------------
(* parse_pi_events *)

Read0 == [text |-> "none", stop |-> "none", settled |-> FALSE, aborted |-> FALSE, bad |-> FALSE]

\* Mutant: a message with no stop reason leaves the one before.
ReadLineKeepingStop(r, e) ==
  CASE e.what = "message" -> [r EXCEPT !.text = e.text,
                                       !.stop = IF e.stop = "none" THEN @ ELSE e.stop]
    [] e.what \in {"settled", "aborted"} -> [r EXCEPT !.settled = TRUE, !.aborted = e.what = "aborted"]
    [] OTHER -> [r EXCEPT !.bad = TRUE]

ReadLine(r, e) ==
  CASE e.what = "message" -> [r EXCEPT !.text = e.text, !.stop = e.stop]
    [] e.what \in {"settled", "aborted"} -> [r EXCEPT !.settled = TRUE, !.aborted = e.what = "aborted"]
    [] OTHER -> [r EXCEPT !.bad = TRUE]

LogRead == FoldLeft(ReadLine, Read0, events)

-----------------------------------------------------------------------------
(* run_role *)

\* The prompt names the profile resolved so far.
PriorRole ==
  /\ entry.status = "done" /\ entry.told = profile
  /\ output.is /\ output = entry.answer

TakeOver ==
  /\ place = "call" /\ PriorRole
  /\ used' = output /\ place' = "returned"
  /\ UNCHANGED <<role, profile, tries, late, events, pi, output, entry, entries, stopping,
                 whole>>

AskRole ==
  /\ place = "call" /\ ~PriorRole
  /\ entry' = [status |-> "running", told |-> profile, answer |-> NoAnswer]
  /\ tries' = 0 /\ place' = "attempt"
  /\ UNCHANGED <<role, profile, late, events, pi, output, entries, stopping, used, whole>>

\* A record of a new attempt, an empty log and a child.
StartAttempt ==
  /\ place = "attempt" /\ tries < MaxTries
  /\ tries' = tries + 1 /\ entry' = [entry EXCEPT !.status = "running"]
  /\ events' = <<>> /\ late' = FALSE /\ pi' = Fresh /\ place' = "run"
  /\ whole' = whole \cap {output}
  /\ UNCHANGED <<role, profile, output, entries, stopping, used>>

\* pi cannot be started: no retry.
NoPi ==
  /\ place = "attempt" /\ tries < MaxTries /\ place' = "gave up"
  /\ entry' = [entry EXCEPT !.status = "failed"]
  /\ UNCHANGED <<role, profile, tries, late, events, pi, output, entries, stopping, used, whole>>

GiveUp ==
  /\ place = "attempt" /\ tries = MaxTries /\ place' = "gave up"
  /\ entry' = [entry EXCEPT !.status = "failed"]
  /\ UNCHANGED <<role, profile, tries, late, events, pi, output, entries, stopping, used, whole>>

\* The budget is over when the role is called, or before an attempt.
OverBudget ==
  /\ place \in {"call", "attempt"} /\ place' = "raised"
  /\ UNCHANGED <<role, profile, tries, late, events, pi, output, entry, entries, stopping, used, whole>>

TimesOut ==
  /\ PiRuns /\ ~stopping /\ late' = TRUE /\ pi' = [pi EXCEPT !.alive = FALSE]
  /\ UNCHANGED <<role, profile, place, tries, events, output, entry, entries, stopping, used, whole>>

\* A stop is seen while the child runs, or after it, unless it timed out.
Stopped ==
  /\ place = "run" /\ stopping /\ (pi.alive \/ ~late)
  /\ Forget /\ place' = "raised"
  /\ UNCHANGED <<role, profile, tries, output, entry, entries, stopping, used, whole>>

CutOff == role = "worker" /\ LogRead.stop = "length"

\* The reasons for which an attempt fails, in the order they are looked at.
Fails ==
  \/ late \/ pi.code # 0 \/ LogRead.aborted \/ LogRead.bad \/ ~LogRead.settled
  \/ ~CutOff /\ (LogRead.stop # "stop" \/ LogRead.text = "none")

Ended == place = "run" /\ ~pi.alive /\ (late \/ ~stopping)

AttemptFails ==
  /\ Ended /\ Fails /\ Forget
  /\ entry' = [entry EXCEPT !.status = "failed"] /\ place' = "attempt"
  /\ UNCHANGED <<role, profile, tries, output, entries, stopping, used, whole>>

\* The cut-off role is asked; its own attempts may fail, or be stopped.
AskSummary ==
  /\ Ended /\ ~Fails /\ CutOff /\ place' = "summary"
  /\ UNCHANGED <<role, profile, tries, late, events, pi, output, entry, entries, stopping, used, whole>>

SummaryFails ==
  /\ place = "summary" /\ Forget /\ place' = "attempt" /\ entry' = [entry EXCEPT !.status = "failed"]
  /\ UNCHANGED <<role, profile, tries, output, entries, stopping, used, whole>>

SummaryStopped ==
  /\ place = "summary" /\ stopping /\ Forget /\ place' = "raised"
  /\ UNCHANGED <<role, profile, tries, output, entry, entries, stopping, used, whole>>

\* The file is written, then the record.
WriteAnswer ==
  /\ place = "summary" \/ (Ended /\ ~Fails /\ ~CutOff)
  /\ output' = Given(LogRead.text, CutOff) /\ place' = "written"
  /\ UNCHANGED <<role, profile, tries, late, events, pi, entry, entries, stopping, used, whole>>

RoleDone ==
  /\ place = "written" /\ Forget
  /\ entry' = [entry EXCEPT !.status = "done", !.answer = output]
  /\ used' = output /\ place' = "returned"
  /\ UNCHANGED <<role, profile, tries, output, entries, stopping, whole>>

-----------------------------------------------------------------------------
(* route_profile; the heuristics choose any profile. *)

Routed ==
  /\ role = "router" /\ place = "returned" /\ used.text \in Profiles
  /\ profile' = used.text /\ place' = "routed"
  /\ UNCHANGED <<role, tries, late, events, pi, output, entry, entries, stopping, used, whole>>

\* No valid answer; a failed router with the budget over ends the run.
Fallback(guess, over) ==
  /\ role = "router"
  /\ \/ place = "returned" /\ used.text \notin Profiles /\ ~over
     \/ place = "gave up"
  /\ IF over THEN place' = "raised" /\ UNCHANGED profile ELSE place' = "routed" /\ profile' = guess
  /\ UNCHANGED <<role, tries, late, events, pi, output, entry, entries, stopping, used, whole>>

StopRequested ==
  /\ place \notin {"raised", "routed"} /\ ~stopping /\ stopping' = TRUE
  /\ UNCHANGED <<role, profile, place, tries, late, events, pi, output, entry, entries,
                 used, whole>>

\* Killed anywhere, or ended, and started again: a running record counts as failed.
Restart ==
  /\ entries < MaxEntries /\ entries' = entries + 1
  /\ place' = "call" /\ Forget /\ tries' = 0 /\ stopping' = FALSE /\ used' = NoAnswer
  /\ entry' = [entry EXCEPT !.status = IF @ = "running" THEN "failed" ELSE @]
  /\ whole' = whole \cap {output}
  /\ UNCHANGED <<role, profile, output>>

AnswerInit ==
  /\ role \in RoleKinds /\ profile = "auto" /\ place = "call" /\ tries = 0 /\ late = FALSE
  /\ events = <<>> /\ pi = Gone /\ output = NoAnswer
  /\ entry = [status |-> "none", told |-> "none", answer |-> NoAnswer]
  /\ entries = 1 /\ stopping = FALSE /\ used = NoAnswer /\ whole = {}

AnswerNext ==
  \/ \E text \in Texts, stop \in StopReasons : PiSays(text, stop)
  \/ RetryFails \/ \E b \in BOOLEAN : Settles(b)
  \/ \E code \in {0, 1} : PiExits(code)
  \/ TakeOver \/ AskRole \/ StartAttempt \/ NoPi \/ GiveUp \/ OverBudget \/ TimesOut \/ Stopped
  \/ AttemptFails \/ AskSummary \/ SummaryFails \/ SummaryStopped \/ WriteAnswer \/ RoleDone
  \/ Routed \/ \E guess \in Profiles, b \in BOOLEAN : Fallback(guess, b)
  \/ StopRequested \/ Restart

AnswerSpec == AnswerInit /\ [][AnswerNext]_answerVars

-----------------------------------------------------------------------------
\* What run_role returns, now or after a resume, is the last message of a child
\* that finished: it settled, was not aborted, gave no provider up, lost no line,
\* and stopped by itself - or is a worker's, cut off at its output limit.
AnswerIsWhole ==
  used.is => /\ used \in whole
             /\ used.cut => role = "worker"
             /\ used.text # "none" \/ used.cut
=============================================================================
