----------------------------- MODULE BenchArms ------------------------------
(***************************************************************************)
(* bench_cross_engine.py: the same request is timed on several servers     *)
(* (arms).  A server that answers 400 to the warm-up is offered the        *)
(* request with fields changed, one at a time and then piled up, and the   *)
(* measured rounds keep what it accepted.  A prefill rate must not be of a *)
(* prompt the server had read before: every prompt begins with its own     *)
(* nonce, and a round whose server says it reused tokens gives no rate.    *)
(*                                                                         *)
(* A request is the set of its fields, a prompt the number of its nonce.   *)
(* Times, streams and the table are left out; a server is what it refuses, *)
(* what it requires, what its refusal names and whether it lists its model *)
(* and reports reuse.                                                      *)
(***************************************************************************)
EXTENDS Naturals, Sequences, FiniteSets, SequencesExt

CONSTANTS
  Arms,         \* 1..n, in the order of the command line
  Setups,       \* functions from arms to servers
  Options,      \* command lines: model, warmup, negotiate, control
  Repeat,
  MaxFaults     \* requests that fail with anything but 400

ASSUME BenchAssumption ==
  /\ Arms # {} /\ IsFiniteSet(Arms) /\ Arms = 1..Cardinality(Arms)
  /\ Repeat \in Nat \ {0} /\ MaxFaults \in Nat

VARIABLES
  servers, option,
  place, arm, lap,   \* where main is
  tried, piled,      \* the ladder: the rung, and whether rungs are piled up
  shape, note,       \* payload_adjustments and payload_notes
  rounds, verdict,   \* what is reported of an arm
  nonces, slot,      \* prompts built, and the last one each server read
  took,              \* history: the requests each server accepted
  faults

benchVars == <<servers, option, place, arm, lap, tried, piled, shape, note, rounds, verdict,
               nonces, slot, took, faults>>

-----------------------------------------------------------------------------
(* Requests and adjustments. *)

Full == {"max_tokens", "temperature", "stream_options", "timings_per_token"}
        \cup (IF option.model THEN {"asked model"} ELSE {})

Adjust(request, rung) ==
  CASE rung = "add-model" -> (request \ {"asked model"}) \cup {"served model"}
    [] rung = "no-timings-per-token" -> request \ {"timings_per_token"}
    [] rung = "no-stream-options" -> request \ {"stream_options"}
    [] rung = "max-completion-tokens" ->
         IF "max_tokens" \in request THEN (request \ {"max_tokens"}) \cup {"max_completion_tokens"}
         ELSE request
    [] rung = "no-temperature" -> request \ {"temperature"}
    [] rung = "no-model" -> request \ {"asked model", "served model"}

Adjusted(rungs) == FoldLeft(Adjust, Full, rungs)

AdjustmentLadder == <<"add-model", "no-timings-per-token", "no-stream-options",
                      "max-completion-tokens", "no-temperature", "no-model">>

\* Rungs named like a word of the refusal come first; a model can be added
\* only if the server lists one.
LadderOf(a) ==
  LET offered == SelectSeq(AdjustmentLadder, LAMBDA r : r # "add-model" \/ servers[a].lists)
  IN  SelectSeq(offered, LAMBDA r : r \in servers[a].names)
      \o SelectSeq(offered, LAMBDA r : r \notin servers[a].names)

Accepts(a, request) ==
  /\ request \cap servers[a].refuses = {}
  /\ servers[a].requires \subseteq request

\* The server's answer to a request, and what it then holds in its slot.
Post(a, request, prompt, outcome) ==
  \/ /\ outcome = "ok" /\ Accepts(a, request)
     /\ slot' = [slot EXCEPT ![a] = prompt]
     /\ took' = [took EXCEPT ![a] = @ \cup {request}]
     /\ UNCHANGED faults
  \/ outcome = "400" /\ ~Accepts(a, request) /\ UNCHANGED <<slot, took, faults>>
  \/ /\ outcome = "fault" /\ faults < MaxFaults /\ faults' = faults + 1
     /\ slot' \in {slot, [slot EXCEPT ![a] = prompt]}
     /\ UNCHANGED took

\* build_prompt: a nonce of its own.
NextPrompt == nonces + 1

-----------------------------------------------------------------------------
(* The warm-up, which is also the probe. *)

Place(next, a) == place' = next /\ arm' = a

\* On to the next arm, or to what follows the last one.
Onwards == IF arm < Len(servers) THEN Place(IF option.control THEN "first" ELSE "warmup", arm + 1)
           ELSE Place(IF option.control THEN "end" ELSE "measure", 1)

StartLadder == tried' = 1 /\ piled' = FALSE
StartPile == tried' = 1 /\ piled' = TRUE

Warmup(outcome) ==
  /\ place = "warmup"
  /\ Post(arm, Full, NextPrompt, outcome) /\ nonces' = NextPrompt
  /\ \/ /\ outcome = "400" /\ option.negotiate
        /\ Place("ask", arm) /\ StartLadder /\ UNCHANGED note
     \/ /\ outcome = "fault" /\ option.negotiate
        /\ note' = [note EXCEPT ![arm] = "not negotiable"]
        /\ Onwards /\ UNCHANGED <<tried, piled>>
     \/ /\ outcome = "ok" \/ ~option.negotiate
        /\ Onwards /\ UNCHANGED <<tried, piled, note>>
  /\ UNCHANGED <<servers, option, lap, shape, rounds, verdict>>

-----------------------------------------------------------------------------
(* negotiate_payload: its attempts share one prompt. *)

BuildProbe ==
  /\ place = "ask" /\ Place("negotiate", arm) /\ nonces' = NextPrompt
  /\ UNCHANGED <<servers, option, lap, tried, piled, shape, note, rounds, verdict, slot, took, faults>>

Rungs == IF piled THEN SubSeq(LadderOf(arm), 1, tried) ELSE <<LadderOf(arm)[tried]>>

\* Mutant: of the rungs piled up only the last is kept.
LastRung == <<LadderOf(arm)[tried]>>

Kept == Rungs

\* The next rung; after the last one the rungs are piled up; then nothing helped.
NextRung ==
  \/ /\ tried < Len(LadderOf(arm))
     /\ tried' = tried + 1 /\ UNCHANGED <<piled, note, place, arm>>
  \/ /\ tried = Len(LadderOf(arm)) /\ ~piled
     /\ StartPile /\ UNCHANGED <<note, place, arm>>
  \/ /\ tried = Len(LadderOf(arm)) /\ piled
     /\ note' = [note EXCEPT ![arm] = "no adjustment helped"]
     /\ IF option.control THEN Place("again", arm) ELSE Onwards
     /\ UNCHANGED <<tried, piled>>

\* A request that would be the refused one again is not sent.
SkipInert ==
  /\ place = "negotiate" /\ Adjusted(Rungs) = Full /\ NextRung
  /\ UNCHANGED <<servers, option, lap, shape, rounds, verdict, nonces, slot, took, faults>>

Attempt(outcome) ==
  /\ place = "negotiate" /\ Adjusted(Rungs) # Full
  /\ Post(arm, Adjusted(Rungs), nonces, outcome)
  /\ \/ /\ outcome = "ok"
        /\ shape' = [shape EXCEPT ![arm] = Kept]
        /\ note' = [note EXCEPT ![arm] = "accepted after"]
        /\ Place("again", arm) /\ UNCHANGED <<tried, piled>>
     \/ outcome # "ok" /\ NextRung /\ UNCHANGED shape
  /\ UNCHANGED <<servers, option, lap, rounds, verdict, nonces>>

\* The warm-up of the accepted request.
WarmAgain(outcome) ==
  /\ place = "again" /\ ~option.control
  /\ Post(arm, Adjusted(shape[arm]), NextPrompt, outcome) /\ nonces' = NextPrompt
  /\ Onwards
  /\ UNCHANGED <<servers, option, lap, tried, piled, shape, note, rounds, verdict>>

-----------------------------------------------------------------------------
(* The measured rounds, arm by arm, and --cache-control. *)

\* What usage says of reuse, if the server sends usage at all.
Reported(a, request, prompt) ==
  IF "stream_options" \notin request \/ servers[a].reports = "nothing" THEN "absent"
  ELSE IF servers[a].reports = "reuse" /\ slot[a] = prompt THEN "some" ELSE "zero"

\* A rate needs the number of prompt tokens, and no reuse reported.
Round(a, request, prompt, outcome) ==
  [ok |-> outcome = "ok",
   rate |-> /\ outcome = "ok" /\ "stream_options" \in request
            /\ Reported(a, request, prompt) # "some",
   reused |-> slot[a] = prompt]

Measure(outcome) ==
  /\ place = "measure"
  /\ LET request == Adjusted(shape[arm]) IN
       /\ Post(arm, request, NextPrompt, outcome) /\ nonces' = NextPrompt
       /\ rounds' = [rounds EXCEPT ![arm] = Append(@, Round(arm, request, NextPrompt, outcome))]
  /\ IF arm < Len(servers) THEN Place("measure", arm + 1) /\ UNCHANGED lap
     ELSE Place(IF lap < Repeat THEN "measure" ELSE "end", 1) /\ lap' = lap + 1
  /\ UNCHANGED <<servers, option, tried, piled, shape, note, verdict>>

\* cache_control builds one prompt for an arm: the numbers of the arms are theirs.
ControlPrompt == arm

\* The same prompt twice; a 400 to the first is negotiated, and it is sent again.
First(outcome) ==
  /\ place \in {"first", "again"} /\ option.control
  /\ Post(arm, Adjusted(shape[arm]), ControlPrompt, outcome)
  /\ \/ outcome = "ok" /\ Place("second", arm) /\ UNCHANGED <<tried, piled, verdict>>
     \/ outcome = "400" /\ place = "first" /\ Place("ask", arm) /\ StartLadder /\ UNCHANGED verdict
     \/ /\ outcome = "fault" \/ (outcome = "400" /\ place = "again")
        /\ verdict' = [verdict EXCEPT ![arm] = "inconclusive"]
        /\ Onwards /\ UNCHANGED <<tried, piled>>
  /\ UNCHANGED <<servers, option, lap, shape, note, rounds, nonces>>

Second(outcome) ==
  /\ place = "second"
  /\ Post(arm, Adjusted(shape[arm]), ControlPrompt, outcome)
  /\ LET seen == Reported(arm, Adjusted(shape[arm]), ControlPrompt) IN
       verdict' = [verdict EXCEPT ![arm] =
         CASE outcome # "ok" -> "inconclusive" [] seen = "some" /\ outcome = "ok" -> "works"
           [] OTHER -> seen]
  /\ Onwards
  /\ UNCHANGED <<servers, option, lap, tried, piled, shape, note, rounds, nonces>>

BenchInit ==
  /\ servers \in Setups /\ option \in Options
  /\ place = (IF option.control THEN "first" ELSE IF option.warmup THEN "warmup" ELSE "measure")
  /\ arm = 1 /\ lap = 1 /\ tried = 1 /\ piled = FALSE
  /\ shape = [a \in Arms |-> <<>>]
  /\ note = [a \in Arms |-> IF option.control \/ option.warmup \/ ~option.negotiate THEN ""
                            ELSE "not negotiated"]
  /\ rounds = [a \in Arms |-> <<>>] /\ verdict = [a \in Arms |-> "none"]
  /\ nonces = Cardinality(Arms) /\ slot = [a \in Arms |-> 0] /\ took = [a \in Arms |-> {}] /\ faults = 0

BenchNext ==
  \/ BuildProbe \/ SkipInert
  \/ \E outcome \in {"ok", "400", "fault"} :
       \/ Warmup(outcome) \/ Attempt(outcome) \/ WarmAgain(outcome)
       \/ Measure(outcome) \/ First(outcome) \/ Second(outcome)

BenchSpec == BenchInit /\ [][BenchNext]_benchVars

-----------------------------------------------------------------------------
\* The measured rounds of an arm are sent either as they are or in a form the
\* server accepted as a whole, whatever failed during the negotiation.
ShapeWasAccepted ==
  \A a \in Arms : shape[a] # <<>> => Adjusted(shape[a]) \in took[a]

\* No prefill rate is of a prompt the server had read before, even if it never
\* says so; and reuse is only called real of a server that does report it.
CacheGuard ==
  /\ \A a \in Arms : \A i \in DOMAIN rounds[a] : rounds[a][i].rate => ~rounds[a][i].reused
  /\ \A a \in Arms : verdict[a] = "works" => servers[a].reports = "reuse"

\* What an arm of the benchmark reports is what was measured of a request its server takes.
ArmIsMeasured == ShapeWasAccepted /\ CacheGuard
=============================================================================
