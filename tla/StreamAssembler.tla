-------------------------- MODULE StreamAssembler --------------------------
(***************************************************************************)
(* What scripts/capture_proxy.py makes of an answer of the model: of one   *)
(* that is streamed, delta by delta, and of the same one sent whole.       *)
(*                                                                         *)
(* The server streams the text, the reasoning and the calls of an answer   *)
(* in pieces, in any order between them, each call under its index; its    *)
(* last event says how the answer ended and what it cost.  A piece is a    *)
(* number; lines, chunks and what is cut off are in CaptureTape.           *)
(***************************************************************************)
EXTENDS Naturals, Sequences, FiniteSets, SequencesExt

CONSTANTS
    Answers     \* the answers the server may give

VARIABLES
    answer,     \* the answer being sent
    pieces,     \* how many pieces of each of its parts have been sent
    asm,        \* the StreamAssembler
    over        \* the last event has been sent

asmVars == <<answer, pieces, asm, over>>

NoneYet == <<>>
NewSlot == [id |-> NoneYet, name |-> NoneYet, arguments |-> <<>>]
NewAssembler ==
    [content |-> <<>>, reasoning |-> <<>>, toolCalls |-> <<>>,
     finish |-> NoneYet, usage |-> NoneYet, timings |-> NoneYet]

-----------------------------------------------------------------------------
(* What is read from the end of an answer. *)

\* What was evaluated of the prompt and what the cache had.
UsageFromTimings(timings) ==
    IF timings = NoneYet THEN NoneYet
    ELSE <<[prompt |-> timings[1].prompt_n + timings[1].cache_n,
            completion |-> timings[1].predicted_n]>>

\* What the server says an answer cost is what its timings say.
ASSUME AnswersAssumption ==
    \A a \in Answers :
      /\ a.content \in Seq(Nat) /\ a.reasoning \in Seq(Nat) /\ a.calls \in Seq(Seq(Nat))
      /\ a.native \in BOOLEAN
      /\ a.usage \in {NoneYet, UsageFromTimings(a.timings)}

Usage(usage, timings) == IF usage # NoneYet THEN usage ELSE UsageFromTimings(timings)

\* A body that is not streamed.  The native shape has neither calls nor a usage.
ParseWholeResponse(a) ==
    [content |-> a.content, reasoning |-> a.reasoning,
     calls |-> [i \in DOMAIN a.calls |->
                  [index |-> i, id |-> <<i>>, name |-> <<i>>, arguments |-> a.calls[i]]],
     finish |-> <<a.finish>>,
     usage |-> Usage(IF a.native THEN NoneYet ELSE a.usage, a.timings)]

-----------------------------------------------------------------------------
(* The assembler. *)

SlotOf(idx) == IF idx \in DOMAIN asm.toolCalls THEN asm.toolCalls[idx] ELSE NewSlot

\* Mutant: arguments go to the call begun last.
CallDeltaLast(tc) ==
    LET idx == IF tc.id = NoneYet THEN Max(DOMAIN asm.toolCalls) ELSE tc.index
        slot == SlotOf(idx)
        new == [id |-> IF tc.id # NoneYet THEN tc.id ELSE slot.id,
                name |-> IF tc.name # NoneYet THEN tc.name ELSE slot.name,
                arguments |-> slot.arguments \o tc.arguments]
    IN [asm EXCEPT !.toolCalls = [i \in DOMAIN @ \cup {idx} |-> IF i = idx THEN new ELSE @[i]]]

\* The slot of the call's index takes the id and the name if they are there, and the
\* arguments at the end of its own.
CallDelta(tc) ==
    LET slot == SlotOf(tc.index)
        new == [id |-> IF tc.id # NoneYet THEN tc.id ELSE slot.id,
                name |-> IF tc.name # NoneYet THEN tc.name ELSE slot.name,
                arguments |-> slot.arguments \o tc.arguments]
    IN [asm EXCEPT !.toolCalls =
          [i \in DOMAIN @ \cup {tc.index} |-> IF i = tc.index THEN new ELSE @[i]]]

\* The fields of an event that end an answer.
Event(a, e) ==
    [a EXCEPT !.usage = IF e.usage # NoneYet THEN e.usage ELSE @,
              !.timings = IF e.timings # NoneYet THEN e.timings ELSE @,
              !.finish = IF e.finish # NoneYet THEN e.finish ELSE @]

\* The calls in the order of their index.
Sorted(idxs) ==
    CHOOSE order \in [1..Cardinality(idxs) -> idxs] :
      \A i, j \in 1..Cardinality(idxs) : i < j => order[i] < order[j]
Result ==
    LET order == Sorted(DOMAIN asm.toolCalls)
    IN [content |-> asm.content, reasoning |-> asm.reasoning,
        calls |-> [i \in DOMAIN order |->
                     [index |-> order[i], id |-> asm.toolCalls[order[i]].id,
                      name |-> asm.toolCalls[order[i]].name,
                      arguments |-> asm.toolCalls[order[i]].arguments]],
        finish |-> asm.finish,
        usage |-> Usage(asm.usage, asm.timings)]

-----------------------------------------------------------------------------
(* The server. *)

AsmInit ==
    /\ answer \in Answers
    /\ pieces = [content |-> 0, reasoning |-> 0, calls |-> [i \in DOMAIN answer.calls |-> 0]]
    /\ asm = NewAssembler
    /\ over = FALSE

ContentDelta ==
    /\ ~over /\ pieces.content < Len(answer.content)
    /\ pieces' = [pieces EXCEPT !.content = @ + 1]
    /\ asm' = [asm EXCEPT !.content = Append(@, answer.content[pieces'.content])]
    /\ UNCHANGED <<answer, over>>

ReasoningDelta ==
    /\ ~over /\ pieces.reasoning < Len(answer.reasoning)
    /\ pieces' = [pieces EXCEPT !.reasoning = @ + 1]
    /\ asm' = [asm EXCEPT !.reasoning = Append(@, answer.reasoning[pieces'.reasoning])]
    /\ UNCHANGED <<answer, over>>

\* The first delta of a call has its id and its name, and may have the first arguments; one
\* with a lower index may begin later.
ToolCallDelta(i) ==
    /\ ~over
    /\ LET n == pieces.calls[i]
           first == n = 0
       IN \E upto \in (IF first THEN {1, 2} ELSE {n + 1}) :
            /\ upto <= Len(answer.calls[i]) + 1
            /\ pieces' = [pieces EXCEPT !.calls[i] = upto]
            /\ asm' = CallDelta([index |-> i,
                                 id |-> IF first THEN <<i>> ELSE NoneYet,
                                 name |-> IF first THEN <<i>> ELSE NoneYet,
                                 arguments |-> SubSeq(answer.calls[i], IF first THEN 1 ELSE n, upto - 1)])
    /\ UNCHANGED <<answer, over>>

\* The usage is there when the client asked for it.
LastEvent ==
    /\ ~over /\ over' = TRUE
    /\ pieces.content = Len(answer.content) /\ pieces.reasoning = Len(answer.reasoning)
    /\ \A i \in DOMAIN answer.calls : pieces.calls[i] = Len(answer.calls[i]) + 1
    /\ \E asked \in BOOLEAN :
         asm' = Event(asm, [usage |-> IF asked /\ ~answer.native THEN answer.usage ELSE NoneYet,
                            timings |-> answer.timings, finish |-> <<answer.finish>>])
    /\ UNCHANGED <<answer, pieces>>

AsmNext ==
    \/ ContentDelta \/ ReasoningDelta \/ LastEvent
    \/ \E i \in DOMAIN answer.calls : ToolCallDelta(i)

AsmSpec == AsmInit /\ [][AsmNext]_asmVars

-----------------------------------------------------------------------------
(* Properties *)

\* The record of an answer is the same whether it was streamed or sent whole: each call's
\* arguments are its own however the calls were interleaved, and the tokens are counted alike
\* with and without a usage.  Until it is over, each text is a prefix of the answer's.
StreamedAsWhole ==
    /\ IsPrefix(asm.content, answer.content) /\ IsPrefix(asm.reasoning, answer.reasoning)
    /\ \A i \in DOMAIN asm.toolCalls : IsPrefix(asm.toolCalls[i].arguments, answer.calls[i])
    /\ over => Result = ParseWholeResponse(answer)
=============================================================================
