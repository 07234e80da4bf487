----------------------------- MODULE PatchBuild -----------------------------
(***************************************************************************)
(* The build-time patches of forge (patches/forge_*.py, run by             *)
(* Dockerfile.forge).  Each rewrites one to four files of the installed    *)
(* package: it skips a file that holds its marker, refuses one whose       *)
(* blocks are not there as often as expected, and writes a file only when  *)
(* all of its edits fit.  A run that is refused at a later file has        *)
(* written the earlier ones.                                               *)
(*                                                                         *)
(* The text of a file is a bag of named fragments, told apart as far as    *)
(* the patches tell them apart: the blocks they look for, the markers, and *)
(* the names their own text needs.  Upstream may have changed one block,   *)
(* or written it twice; the patches are run in any order and more than     *)
(* once, as the list of Dockerfile.forge may drift, up to the first that   *)
(* is refused: the build ends there.                                       *)
(***************************************************************************)
EXTENDS Integers, Sequences, FiniteSets, SequencesExt

CONSTANT Upstreams    \* the texts upstream may ship: functions from files to bags

VARIABLES
    upstream,   \* what was installed
    text,       \* what the files hold now
    ok,         \* the places in the list of those that have exited with 0
    refused     \* one has not

patchVars == <<upstream, text, ok, refused>>

Files == {"workflow", "inference", "client", "convert", "anthropic", "handler", "server"}

-----------------------------------------------------------------------------
(* The shape of a patch *)

\* count blocks made of the fragments in old are replaced by those in new.
EditOf(old, new) == [old |-> old, count |-> 1, new |-> new]
EditAll(count, old, new) == [old |-> old, count |-> count, new |-> new]

\* One file: what must be there besides the blocks, what must not, and the edits.
Step(file, marker, edits) ==
    [file |-> file, marker |-> marker, needs |-> {}, lacks |-> {}, edits |-> edits]

Patch(requires, steps) == [requires |-> requires, steps |-> steps]
Always == {}

-----------------------------------------------------------------------------
(* The patches *)

merge_consecutive == Patch(Always, <<
    Step("client", "_forge_merge_content", <<EditOf({"concatenation"}, {"_forge_merge_content"})>>)>>)

cached_tokens == Patch(Always, <<
    Step("client", "cached_tokens", <<EditOf({"TokenUsage"}, {"cached_tokens"})>>),
    Step("convert", "_openai_usage", <<
        EditOf({"Inbound"}, {"Inbound", "_openai_usage"}),
        EditAll(2, {"response usage"}, {"response _openai_usage"}),
        EditAll(2, {"final usage"}, {"final _openai_usage"})>>)>>)

reasoning_passthrough == Patch(Always, <<
    Step("workflow", "TextResponse.finish_reason", <<
        EditOf({"TextResponse"}, {"TextResponse.reasoning", "TextResponse.finish_reason"})>>),
    Step("client", "stream_finish_reason", <<
        EditOf({"accumulated"}, {"stream_finish_reason"}),
        EditOf({"choice delta"}, {"choice finish_reason"}),
        EditOf({"final cleaned"}, {"final cleaned reasoning"}),
        EditOf({"final accumulated"}, {"final accumulated reasoning"}),
        EditOf({"chat TextResponse"}, {"chat TextResponse reasoning"}),
        EditOf({"prompt TextResponse"}, {"prompt TextResponse reasoning"})>>),
    Step("convert", "or stop", <<
        EditOf({"text_response_to_openai"}, {"or stop", "comes from the backend"})>>),
    Step("handler", "passes both", <<
        EditOf({"_emit_text", "stream call"}, {"_emit_text both", "stream call", "passes both"}),
        EditOf({"no-tools text"}, {"no-tools text both", "passes both"})>>)>>)

toolcall_content ==
    LET Marked(file, edits) == Step(file, "forge_toolcall_content.py", edits)
    IN Patch(Always, <<
        Marked("workflow", <<EditOf({"ToolCall"}, {"ToolCall", "forge_toolcall_content.py"})>>),
        Marked("client", <<
            EditOf({"_downgrade_messages"}, {"_downgrade_messages", "forge_toolcall_content.py"}),
            EditOf({"stream ToolCall"}, {"stream ToolCall content"}),
            EditOf({"whole ToolCall"}, {"whole ToolCall content"})>>),
        Marked("convert", <<
            EditOf({"tool_calls_to_openai"}, {"tool_calls_to_openai content", "forge_toolcall_content.py"}),
            EditOf({"tool_calls_to_sse"}, {"tool_calls_to_sse content", "forge_toolcall_content.py"})>>)>>)

\* The first edit is left out when os is imported already.
merge_across_tools == Patch(Always, <<
    Step("client", "forge_merge_across_tools.py", <<
        EditOf({"import json"}, {"import json", "import os"}),
        EditOf({"_merge_consecutive"}, {"_merge_consecutive", "forge_merge_across_tools.py"}),
        EditOf({"merge decision"}, {"merge decision adjacent"})>>)>>)

anthropic_reasoning == Patch(Always, <<
    Step("anthropic", "_anthropic_stop_reason", <<
        EditOf({"tool_calls_to_anthropic"}, {"_anthropic_stop_reason"}),
        EditOf({"text_to_anthropic"}, {"text_to_anthropic both"}),
        EditOf({"sse tools"}, {"sse tools reasoning"}),
        EditOf({"sse text"}, {"sse text reasoning"}),
        EditOf({"sse text stop"}, {"sse text stop reason"})>>),
    Step("handler", "forge_anthropic_reasoning.py", <<
        EditOf({"_emit_text both"},
             {"_emit_text anthropic", "forge_anthropic_reasoning.py", "passes both"})>>)>>)

\* Upstream's ToolCall has a reasoning too, so the first of the two fields is always there.
\* Mutant: with the marker that reasoning_passthrough has put into the same file.
SharedMarker  == "passes both"
HandlerMarker == "AGENT turn"
toolcall_passthrough == Patch({<<"workflow", "ToolCall">>, <<"workflow", "TextResponse.finish_reason">>}, <<
    Step("inference", "exhausted_finish_reason", <<
        EditOf({"_ToolCallExhausted"}, {"_ToolCallExhausted both"}),
        EditOf({"if exhausted", "raise"}, {"if exhausted", "raise both", "exhausted_finish_reason"})>>),
    Step("handler", HandlerMarker, <<
        EditOf({"except ToolCallError"}, {"AGENT turn", "except ToolCallError both", "passes both"})>>)>>)

empty_turn == Patch({<<"inference", "exhausted_finish_reason">>}, <<
    Step("inference", "whichever FIRST", <<
        EditOf({"budgets", "if exhausted"}, {"budgets", "whichever FIRST"})>>),
    Step("handler", "EMPTY RESPONSE", <<
        EditOf({"result is None"}, {"result is None", "EMPTY RESPONSE"}),
        EditOf({"empty tool_calls"}, {"empty tool_calls loud"})>>)>>)

\* The docstring it writes still names the patch whose docstring it replaces.
KeptDocstring == {"forge_anthropic_reasoning.py"}
text_sse_passthrough == Patch({<<"convert", "comes from the backend">>}, <<
    Step("convert", "forge_text_sse_passthrough.py", <<
        EditOf({"text_to_sse_events"}, {"text_to_sse_events both", "forge_text_sse_passthrough.py"}),
        EditOf({"final chunk"}, {"final chunk reason"})>>),
    Step("handler", "path pi takes", <<
        EditOf({"_emit_text anthropic", "forge_anthropic_reasoning.py"},
             {"path pi takes"} \cup KeptDocstring),
        EditOf({"stream call"}, {"stream call both", "passes both"})>>)>>)

llamafile_timeout == Patch(Always, <<
    [Step("client", "_forge_llamafile_send_inner", <<
        EditOf({"send"}, {"_forge_llamafile_send_inner", "httpx.ReadTimeout"}),
        EditOf({"send_stream"}, {"_forge_llamafile_send_stream_inner"})>>)
     EXCEPT !.needs = {"import httpx", "BackendError"}, !.lacks = {"httpx.ReadTimeout"}]>>)

sse_error_shape == Patch(Always, <<
    [Step("server", "_forge_stream_error_events", <<
        EditOf({"error_msg"}, {"error_msg never empty"}),
        EditOf({"send error"}, {"send error events"}),
        EditOf({"_status_text"}, {"_status_text", "_forge_stream_error_events"})>>)
     EXCEPT !.needs = {"typing Any", "import json"}]>>)

backend_error_detail == Patch(Always, <<
    [Step("server", "_forge_backend_detail", <<
        EditOf({"error_msg never empty"}, {"error_msg never empty", "error_msg detail"}),
        EditOf({"_status_text"}, {"_status_text", "_forge_backend_detail"})>>)
     EXCEPT !.needs = {"import json"}]>>)

tool_schema == Patch(Always, <<
    Step("workflow", "_forge_raw_schema", <<
        EditOf({"pydantic"}, {"pydantic PrivateAttr"}),
        EditOf({"type lookup"}, {"type lookup shapes"}),
        EditOf({"array items"}, {"array items dict"}),
        EditOf({"_json_schema_to_type"}, {"_json_schema_to_type", "_forge_union"}),
        EditOf({"ToolSpec fields"}, {"ToolSpec fields", "_forge_raw_schema"}),
        EditOf({"from_json_schema"}, {"from_json_schema raw"}),
        EditOf({"get_json_schema"}, {"get_json_schema raw"})>>)>>)

\* The list of Dockerfile.forge.
Shipped == <<merge_consecutive, cached_tokens, reasoning_passthrough, toolcall_content,
    merge_across_tools, anthropic_reasoning, toolcall_passthrough, empty_turn,
    text_sse_passthrough, llamafile_timeout, sse_error_shape, backend_error_detail, tool_schema>>

Patches == ToSet(Shipped)

\* The fragments of a file that a patch writes or looks for.
Fragments(file) ==
    UNION {{step.marker} \cup step.needs \cup step.lacks
              \cup UNION {e.old \cup e.new : e \in ToSet(step.edits)} :
           step \in {s \in UNION {ToSet(p.steps) : p \in Patches} : s.file = file}}

-----------------------------------------------------------------------------
(* Running one *)

Holds(bag, fragment) == bag[fragment] > 0

Fits(bag, edit) == \A old \in edit.old : bag[old] = edit.count

Change(edit, fragment) ==
    (IF fragment \in edit.new THEN edit.count ELSE 0) - (IF fragment \in edit.old THEN edit.count ELSE 0)

\* os is imported once.
Spared(bag, edit) == "import os" \in edit.new /\ Holds(bag, "import os")

\* A file whose edits all fit, with each of them made.
Refused == <<>>
Edited(bag, edits) ==
    FoldLeft(LAMBDA b, edit :
                CASE b = Refused     -> Refused
                  [] Spared(b, edit) -> b
                  [] Fits(b, edit)   -> [x \in edit.old \cup edit.new |-> b[x] + Change(edit, x)] @@ b
                  [] OTHER           -> Refused,
             bag, edits)

\* A file that holds the marker is done.
Done(bag, step) == Holds(bag, step.marker)

\* One file of a patch, unless an earlier one was refused.
Apply(state, step) ==
    LET bag    == state.text[step.file]
        edited == Edited(bag, step.edits)
        fits   == /\ edited # Refused
                  /\ \A name \in step.needs : Holds(bag, name)
                  /\ \A name \in step.lacks : ~Holds(bag, name)
    IN CASE ~state.ok \/ Done(bag, step) -> state
         [] OTHER -> IF fits THEN [state EXCEPT !.text[step.file] = edited]
                     ELSE [state EXCEPT !.ok = FALSE]

Result(texts, patch) ==
    FoldLeft(Apply, [text |-> texts,
                     ok   |-> \A r \in patch.requires : Holds(texts[r[1]], r[2])], patch.steps)

PatchInit ==
    /\ upstream \in Upstreams /\ text = upstream
    /\ ok = {} /\ refused = FALSE

Run(i) ==
    LET result == Result(text, Shipped[i])
    IN /\ ~refused
       /\ text' = result.text
       /\ ok' = IF result.ok THEN ok \cup {i} ELSE ok
       /\ refused' = ~result.ok
       /\ UNCHANGED upstream

PatchNext == \E i \in DOMAIN Shipped : Run(i)

PatchSpec == PatchInit /\ [][PatchNext]_patchVars

-----------------------------------------------------------------------------
(* Properties *)

\* No patch exits with 0 and leaves a block unpatched, nor writes it twice, whatever upstream
\* has changed, whatever ran before it and however often it ran: the text is upstream's with
\* every edit of every patch that exited with 0 made once ("quietly shipping unpatched").
EditsOf(patch, file) == {e \in UNION {ToSet(s.edits) : s \in {s \in ToSet(patch.steps) : s.file = file}} :
                            ~Spared(upstream[file], e)}
Copies(edits) == Cardinality(UNION {{e} \X (1..e.count) : e \in edits})
AppliedOnce ==
    ~refused =>
        \A file \in Files :
            LET edits == UNION {EditsOf(Shipped[i], file) : i \in ok}
            IN \A x \in DOMAIN text[file] :
                  text[file][x] + Copies({e \in edits : x \in e.old})
                      = upstream[file][x] + Copies({e \in edits : x \in e.new})

\* A patch that exited with 0 does so again at any later time, and changes nothing: no later
\* patch takes out the marker it looks for ("already patched").
RunAgain == ~refused => \A i \in ok : Result(text, Shipped[i]) = [text |-> text, ok |-> TRUE]

\* The image is the same whatever the order of the list, if the build does not fail; and the
\* list as it is does not fail where another order would not (Dockerfile.forge).
InOrder(texts) ==
    FoldLeft(LAMBDA state, patch : IF state.ok THEN Result(state.text, patch) ELSE state,
             [text |-> texts, ok |-> TRUE], Shipped)
OneResult == ok = DOMAIN Shipped /\ ~refused => [text |-> text, ok |-> TRUE] = InOrder(upstream)

\* A build that does not fail has every edit in it once, in whatever order the patches ran
\* and however often.
OnceInAnyOrder == ok # {} => AppliedOnce /\ RunAgain /\ OneResult
=============================================================================
