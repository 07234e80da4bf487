----------------------------- MODULE ForgeTurn -----------------------------
(***************************************************************************)
(* A conversation through the forge proxy as the image of this stack runs  *)
(* it: forge with the build-time patches of patches/forge_*.py.  The       *)
(* client sends its history, forge folds neighbouring messages, asks       *)
(* llama-server within two budgets, and answers on one of four wires       *)
(* (OpenAI or Anthropic, streamed or not); the client takes the answer     *)
(* into its history and asks again.                                        *)
(*                                                                         *)
(* What a turn is made of is told apart by where it came from: "said" is   *)
(* the model's text, "thought" its reasoning, "call" a tool call written   *)
(* out as text.  A set of those stands for a text.  The parts of forge the *)
(* patches do not touch (its validator, its error tracker, its send loop)  *)
(* are taken from what the patches and scripts/test_forge_patches.py say.  *)
(***************************************************************************)
EXTENDS Naturals, Sequences, SequencesExt

CONSTANTS
    MaxTurns,    \* bound: requests of the conversation
    Scenarios    \* how forge is set up and asked

ASSUME TurnsAssumption == MaxTurns \in Nat
ASSUME ScenariosAssumption ==
    Scenarios \subseteq
        [wire : {"openai", "anthropic"}, streamed : BOOLEAN, tools : BOOLEAN,
         maxRetries : Nat, maxToolErrors : Nat, replay : {"full", "keep-last", "none"},
         detail : BOOLEAN]

VARIABLES
    set,       \* the scenario
    history,   \* what the client holds of the conversation
    turn,      \* requests so far
    at,        \* "client", "forge", "answered"
    attempt,   \* attempts of this request, from 0
    retries,   \* attempts refused for anything but the arguments of a call
    toolErrors,\* attempts refused for the arguments of a call
    made,      \* what the backend did last
    answer,    \* status and frames of the answer
    prompt     \* what was sent to the backend first, for this request and for the last one
               \* that was answered

forgeVars == <<set, history, turn, at, attempt, retries, toolErrors, made, answer, prompt>>

-----------------------------------------------------------------------------
(* The backend *)

\* A generation: text, thinking the server has put aside, tool calls, and why it ended.
\* "tagged" text holds its thinking between tags, when the server has not put it aside.
Generations ==
    {g \in [kind : {"generation"}, text : {"none", "plain", "tagged"}, thought : BOOLEAN,
            calls : {"none", "good", "unknown", "cut"}, finish : {"stop", "length", "tool_calls"}] :
        /\ g.thought => g.text # "tagged"
        /\ g.calls = "none" => g.finish # "tool_calls"
        /\ (g.calls = "cut") <=> (g.calls # "none" /\ g.finish = "length")
        /\ g.calls \in {"good", "unknown"} => g.finish = "tool_calls"}

\* No generation: no answer in time, no connection, or an error with some body.
Failures ==
    [kind : {"timeout", "unreachable"}, body : {"none"}]
        \cup [kind : {"status"}, body : {"none", "html", "array", "unsaid", "envelope"}]

NotAsked == [kind |-> "not asked", body |-> "none"]

Raw(g)   == CASE g.text = "none" -> {} [] g.text = "plain" -> {"said"}
              [] g.text = "tagged" -> {"said", "thought"}
Clean(g) == Raw(g) \ {"thought"}
Tags(g)  == Raw(g) \cap {"thought"}
PutAside(g) == IF g.thought THEN {"thought"} ELSE {}

ResolveReasoning(aside, content) == IF aside # {} THEN aside ELSE content

\* The text that came with a tool call.  Mutant: the reasoning fills the hole.
ReasoningAsContent(g) == ResolveReasoning(PutAside(g), Raw(g))
ToolcallContent(g) ==
    IF PutAside(g) # {} THEN Raw(g) ELSE IF Tags(g) # {} THEN Clean(g) ELSE {}

\* What the client of the backend makes of a generation.
Parsed(g) ==
    IF g.calls = "none"
    THEN [content |-> Clean(g), reasoning |-> ResolveReasoning(PutAside(g), Tags(g)),
          calls |-> "none", finish |-> g.finish]
    ELSE [content |-> ToolcallContent(g),
          reasoning |-> ResolveReasoning(PutAside(g), IF Tags(g) # {} THEN Tags(g) ELSE Raw(g)),
          calls |-> g.calls, finish |-> "none"]

-----------------------------------------------------------------------------
(* The prompt *)

Visible(m) == m.role \in {"user", "assistant"} /\ ~m.calls

\* Two texts of one role become one; of two block lists, or a list and a text, a list.
MergeContent(a, b) ==
    [blocks |-> a.blocks \/ b.blocks, parts |-> a.parts \o b.parts]

\* Is a message folded into the last visible one?  Mutant: across a tool call and its result.
AcrossTools(out, m) ==
    /\ Visible(m)
    /\ \E i \in DOMAIN out : /\ Visible(out[i]) /\ out[i].role = m.role
                             /\ \A j \in (i + 1)..Len(out) : ~Visible(out[j])
Folds(out, m) ==
    /\ Visible(m) /\ out # <<>>
    /\ Visible(Last(out)) /\ Last(out).role = m.role

FoldMessage(out, m) ==
    IF ~Folds(out, m) THEN Append(out, m)
    ELSE LET i == CHOOSE i \in DOMAIN out :
                    Visible(out[i]) /\ \A j \in (i + 1)..Len(out) : ~Visible(out[j])
         IN [out EXCEPT ![i].content = MergeContent(@, m.content)]

MergeConsecutive(messages) == FoldLeft(FoldMessage, <<>>, messages)

\* Which messages keep their reasoning for the backend.
KeepsReasoning(messages, i) ==
    CASE set.replay = "full" -> TRUE
      [] set.replay = "none" -> FALSE
      [] OTHER -> \A j \in (i + 1)..Len(messages) : messages[j].role # "assistant"

FilterReasoning(messages) ==
    [i \in DOMAIN messages |->
        IF KeepsReasoning(messages, i) THEN messages[i] ELSE [messages[i] EXCEPT !.thinks = FALSE]]

Prompt(messages) == MergeConsecutive(FilterReasoning(messages))

Message(role, calls, thinks, content) ==
    [role |-> role, calls |-> calls, thinks |-> thinks, content |-> content]
Says(n, blocks) == [blocks |-> blocks, parts |-> <<n>>]

-----------------------------------------------------------------------------
(* Answers *)

Blank == [content |-> {}, thinking |-> {}, calls |-> FALSE, stop |-> "none", error |-> {}]

AnthropicStop(finish) ==
    CASE finish = "length" -> "max_tokens"
      [] finish \in {"tool_calls", "function_call"} -> "tool_use"
      [] finish = "content_filter" -> "refusal"
      [] OTHER -> "end_turn"

OpenAiStop(finish) == IF finish = "none" THEN "stop" ELSE finish

Stop(finish) == IF set.wire = "anthropic" THEN AnthropicStop(finish) ELSE OpenAiStop(finish)

Thinking(reasoning) ==
    IF reasoning = {} THEN <<>> ELSE <<[Blank EXCEPT !.thinking = reasoning]>>

\* _emit_text: reasoning beside the text, never in it, and the backend's reason to stop.
EmitText(content, reasoning, finish) ==
    CASE ~set.streamed ->
           <<[Blank EXCEPT !.content = content, !.thinking = reasoning, !.stop = Stop(finish)]>>
      [] set.streamed ->
           Thinking(reasoning) \o <<[Blank EXCEPT !.content = content],
                                    [Blank EXCEPT !.stop = Stop(finish)]>>

\* Tool calls: on the Anthropic wire the text that came with them has no block.
EmitCalls(r) ==
    LET replayed  == set.replay = "full" \/ (set.wire = "openai" /\ set.replay = "keep-last")
        reasoning == IF replayed THEN r.reasoning ELSE {}
        content   == IF set.wire = "openai" THEN r.content ELSE {}
        head      == [Blank EXCEPT !.thinking = reasoning, !.content = content]
        calls     == [Blank EXCEPT !.calls = TRUE]
        stop      == [Blank EXCEPT !.stop = Stop("tool_calls")]
    IN IF set.streamed THEN (IF head = Blank THEN <<>> ELSE <<head>>) \o <<calls, stop>>
       ELSE <<[head EXCEPT !.calls = TRUE, !.stop = Stop("tool_calls")]>>

Ok(frames) == [status |-> 200, frames |-> frames]

\* The backend's own sentence, out of an envelope that has one.
BackendDetail(f) ==
    IF set.detail /\ f.kind = "status" /\ f.body = "envelope" THEN {"sentence"} ELSE {}

\* What str(exc) says: a read timeout has become an error of forge's own; a refused connection
\* has no text.
Said(f) ==
    CASE f.kind = "timeout" -> {"read timeout"}
      [] f.kind = "status" -> {"status"}
      [] OTHER -> {}

ErrorMessage(f) ==
    (IF Said(f) # {} THEN Said(f) ELSE {"class"}) \cup BackendDetail(f)

\* A failure after the headers of a stream went out ends it, and not as a model that stops.
ErrorFrames(message) ==
    IF set.wire = "anthropic" THEN <<[Blank EXCEPT !.error = message]>>
    ELSE <<[Blank EXCEPT !.stop = "error"], [Blank EXCEPT !.error = message]>>

SendException(f) ==
    IF set.streamed THEN Ok(ErrorFrames(ErrorMessage(f)))
    ELSE [status |-> 502, frames |-> <<[Blank EXCEPT !.error = ErrorMessage(f)]>>]

-----------------------------------------------------------------------------
(* A request *)

ForgeInit ==
    /\ set \in Scenarios
    /\ history = <<>> /\ turn = 0 /\ at = "client"
    /\ attempt = 0 /\ retries = 0 /\ toolErrors = 0
    /\ made = NotAsked /\ answer = Ok(<<>>)
    /\ prompt = [now |-> <<>>, last |-> <<>>]

\* The next message of the user, or the result of the tool the model called.
Asks ==
    IF history # <<>> /\ Last(history).calls
    THEN {Message("tool", FALSE, FALSE, Says(turn', FALSE))}
    ELSE {Message("user", FALSE, FALSE, Says(turn', blocks)) : blocks \in BOOLEAN}

Ask ==
    /\ at = "client" /\ turn < MaxTurns /\ turn' = turn + 1
    /\ \E m \in Asks : history' = Append(history, m)
    /\ prompt' = [prompt EXCEPT !.now = Prompt(history')]
    /\ at' = "forge"
    /\ UNCHANGED <<set, attempt, retries, toolErrors, made, answer>>

\* The answer of an exhausted request: the last text, or the calls written out.
Exhausted(r) ==
    IF r.calls = "none" THEN EmitText(r.content, r.reasoning, r.finish)
    ELSE EmitText({"call"}, r.reasoning, r.finish)

Answer(frames) == answer' = frames /\ at' = "answered"

AttemptLimit == set.maxRetries + 1

\* The loop ends with the attempts, whatever the budget of the error.
MustGiveUp(exhausted) == exhausted \/ attempt = AttemptLimit - 1

\* A generation the validator refuses.
Refuse(r) ==
    LET bad == r.calls = "cut"
    IN /\ toolErrors' = IF bad THEN toolErrors + 1 ELSE toolErrors
       /\ retries'    = IF bad THEN retries ELSE retries + 1
       /\ IF MustGiveUp(IF bad THEN toolErrors' > set.maxToolErrors
                               ELSE retries' > set.maxRetries)
          THEN Answer(Ok(Exhausted(r))) /\ UNCHANGED attempt
          ELSE /\ attempt' = attempt + 1
               /\ IF attempt' = AttemptLimit THEN Answer(Ok(EmitText({}, {}, "none")))
                  ELSE UNCHANGED <<at, answer>>

\* With tools, only a good call is an answer: text is refused like a call that is not good.
Generate(g) ==
    /\ at = "forge" /\ (set.tools \/ g.calls = "none")
    /\ made' = g
    /\ LET r == Parsed(g)
       IN CASE ~set.tools       -> /\ Answer(Ok(EmitText(r.content, r.reasoning, r.finish)))
                                   /\ UNCHANGED <<attempt, retries, toolErrors>>
            [] r.calls = "good" /\ set.tools -> /\ Answer(Ok(EmitCalls(r)))
                                                /\ UNCHANGED <<attempt, retries, toolErrors>>
            [] OTHER            -> Refuse(r)
    /\ UNCHANGED <<set, history, turn, prompt>>

Fail(f) ==
    /\ at = "forge" /\ made' = f
    /\ Answer(SendException(f))
    /\ UNCHANGED <<set, history, turn, attempt, retries, toolErrors, prompt>>

Has(field) == UNION {answer.frames[i][field] : i \in DOMAIN answer.frames}
Calls == \E i \in DOMAIN answer.frames : answer.frames[i].calls
Stops == {answer.frames[i].stop : i \in DOMAIN answer.frames} \ {"none"}
Failed == answer.status # 200 \/ Has("error") # {} \/ "error" \in Stops

\* The client takes an answer into its history; after a failure there is none to take.
Take ==
    /\ at = "answered" /\ at' = "client"
    /\ history' = IF Failed THEN history
                  ELSE Append(history, Message("assistant", Calls, Has("thinking") # {},
                                               Says(turn, FALSE)))
    /\ prompt' = IF Failed THEN prompt ELSE [prompt EXCEPT !.last = prompt.now]
    /\ made' = NotAsked /\ answer' = Ok(<<>>) /\ attempt' = 0 /\ retries' = 0 /\ toolErrors' = 0
    /\ UNCHANGED <<set, turn>>

ForgeNext ==
    \/ Ask \/ Take
    \/ \E g \in Generations : Generate(g)
    \/ \E f \in Failures : Fail(f)

ForgeSpec == ForgeInit /\ [][ForgeNext]_forgeVars

-----------------------------------------------------------------------------
(* Properties *)

Answered == at = "answered"
Generated == made.kind = "generation"

\* The fields have values of their kind.
TypeOK ==
    /\ set \in Scenarios /\ turn \in 0..MaxTurns /\ at \in {"client", "forge", "answered"}
    /\ attempt \in 0..(AttemptLimit - 1)
    /\ made \in Generations \cup Failures \cup {NotAsked}
    /\ answer.status \in {200, 502}
    /\ \A i \in DOMAIN history : history[i].role \in {"user", "assistant", "tool"}

\* What the model thought is never in what a client takes for the model's words, on any wire
\* and on any of the ways an answer is made (the safety argument of
\* forge_reasoning_passthrough and forge_anthropic_reasoning).
ThoughtIsNotSaid == "thought" \notin Has("content")

\* A request for which the model generated anything is never answered with nothing
\* (forge_empty_turn), whichever budget ran out; and its thinking is not lost with a text.
NoSilentTurn ==
    Answered /\ Generated =>
        /\ (made.text # "none" \/ made.thought \/ made.calls # "none")
             => Has("content") # {} \/ Has("thinking") # {} \/ Calls
        /\ (made.calls = "none" /\ (made.thought \/ made.text = "tagged"))
             => "thought" \in Has("thinking")

\* A text the backend cut off is not reported as one the model chose to end, streamed or not.
CutTextIsCut ==
    Answered /\ Generated /\ made.calls = "none" /\ made.finish = "length"
        => Stops \cap {"stop", "end_turn"} = {}

\* A backend that failed is seen to have failed: there is a message, and the answer does not
\* end like one that is complete.
FailureIsSeen ==
    Answered /\ ~Generated =>
        /\ Has("error") # {}
        /\ Stops \subseteq {"error"}

\* What a client takes a turn to be is what the backend made: nothing thought is said, nothing
\* is swallowed, what was cut is cut and what failed has failed.
TurnIsTold == TypeOK /\ ThoughtIsNotSaid /\ NoSilentTurn /\ CutTextIsCut /\ FailureIsSeen

\* What the messages say, in order.
PartsAnd(all, m) == all \o m.content.parts
Parts(messages) == FoldLeft(PartsAnd, <<>>, messages)

\* With every reasoning replayed the prompt of a request begins with the one that was last
\* answered, which is what the backend's cache is keyed on (forge_merge_across_tools), and
\* nothing the user said is missing from it or out of its place.
PromptGrows ==
    at = "forge" /\ set.replay = "full" =>
        /\ IsPrefix(prompt.last, prompt.now)
        /\ Parts(prompt.now) = Parts(history)
=============================================================================
