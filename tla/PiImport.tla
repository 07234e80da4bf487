------------------------------ MODULE PiImport ------------------------------
(***************************************************************************)
(* `capture_sessions.py --import-pi` reads a transcript of pi into records *)
(* like those of a tape, and `--export` makes a corpus of the deepest.     *)
(*                                                                         *)
(* pi writes a log of entries, each the child of the one it was at; it may *)
(* rewind to an older entry and write on from there, and compact.  The     *)
(* import may read the log after any entry.  A message is its role and the *)
(* entry it comes from; a reply is rendered as its text and its calls.     *)
(***************************************************************************)
EXTENDS CaptureSessions, FiniteSets

CONSTANTS
    MaxEntries, MaxRewinds, MaxCompactions   \* bounds

VARIABLES
    log,     \* the entries pi wrote
    leaf,    \* the entry pi is at, 0 for none
    moved    \* rewinds and compactions so far

piVars == <<log, leaf, moved>>

Msg(role, id) == [role |-> role, id |-> id, calls |-> FALSE]
Reply(id) == [role |-> "assistant", id |-> id, calls |-> log[id].calls]

-----------------------------------------------------------------------------
(* What pi does. *)

Path[id \in 0..MaxEntries] == IF id = 0 THEN <<>> ELSE Append(Path[log[id].parent], id)

AsMessages(ids) ==
    FoldLeft(LAMBDA list, id :
               CASE log[id].type \in {"user", "custom_message"} -> Append(list, Msg("user", id))
                 [] log[id].type = "toolResult" -> Append(list, Msg("tool", id))
                 [] log[id].type = "assistant" -> Append(list, Reply(id))
                 [] OTHER -> list,
             <<>>, ids)

\* What pi sends: the summary of the last compaction, what it kept and what came after.
Context(id) ==
    LET path == Path[id]
        cuts == {i \in DOMAIN path : log[path[i]].type = "compaction"}
        last == CHOOSE i \in cuts : \A j \in cuts : j <= i
        keep(i) == log[path[last]].first = path[i]
        from == CHOOSE i \in DOMAIN path : keep(i)
    IN IF cuts = {} THEN AsMessages(path)
       ELSE <<Msg("user", path[last])>> \o AsMessages(SubSeq(path, from, Len(path)))

Entry(type) == [type |-> type, parent |-> leaf, calls |-> FALSE, first |-> 0,
                usage |-> [input |-> 0, cacheRead |-> 0], sent |-> <<>>]

Append1(entry) ==
    /\ Len(log) < MaxEntries
    /\ log' = Append(log, entry) /\ leaf' = Len(log) + 1

Says(type) == Append1(Entry(type)) /\ UNCHANGED moved

Asked == \E i \in DOMAIN log : log[i].type = "assistant"

\* The system prompt is a message of the request, and so is each of the others; what an
\* earlier request had too may come from the cache.
Replies ==
    /\ Context(leaf) # <<>> /\ UNCHANGED moved
    /\ \E calls \in BOOLEAN, cached \in IF Asked THEN {0, Len(Context(leaf))} ELSE {0} :
         Append1([Entry("assistant") EXCEPT
                    !.calls = calls, !.sent = Context(leaf),
                    !.usage = [input |-> Len(Context(leaf)) + 1 - cached, cacheRead |-> cached]])

Compacts ==
    /\ moved.compactions < MaxCompactions /\ leaf # 0
    /\ moved' = [moved EXCEPT !.compactions = @ + 1]
    /\ \E i \in DOMAIN Path[leaf] :
         Append1([Entry("compaction") EXCEPT !.first = Path[leaf][i]])

Rewinds ==
    /\ moved.rewinds < MaxRewinds
    /\ moved' = [moved EXCEPT !.rewinds = @ + 1]
    /\ \E id \in 0..Len(log) : id # leaf /\ leaf' = id
    /\ UNCHANGED log

PiInit == log = <<>> /\ leaf = 0 /\ moved = [rewinds |-> 0, compactions |-> 0]

PiNext ==
    \/ \E type \in {"user", "custom_message", "custom", "toolResult"} : Says(type)
    \/ Replies \/ Compacts \/ Rewinds

PiSpec == PiInit /\ [][PiNext]_piVars

-----------------------------------------------------------------------------
(* The import. *)

\* Mutant: the file in its order, with the branches that were abandoned.
ChainInFileOrder ==
    SelectSeq([i \in DOMAIN log |-> i],
              LAMBDA id : log[id].type \in {"user", "assistant", "toolResult",
                                            "custom_message", "compaction"})

\* From the last message back to the root.
Chain ==
    LET messages == {i \in DOMAIN log : log[i].type \in {"user", "assistant", "toolResult"}}
        last == CHOOSE i \in messages : \A j \in messages : j <= i
    IN IF messages = {} THEN <<>>
       ELSE SelectSeq(Path[last],
                      LAMBDA id : log[id].type \in {"user", "assistant", "toolResult",
                                                    "custom_message", "compaction"})

\* prompt_tokens: the input leaves out what came from the cache.
PiUsage(usage) == usage.input + usage.cacheRead

\* A reply with nothing before it is no request that can have happened.
ImportNode(state, id) ==
    LET messages == state.messages
        told == Append(messages, Reply(id))
        rec  == [ts |-> Len(state.recs) + 1, list |-> messages, from |-> id,
                 kind |-> "completion", gap |-> state.compacted, tokens |-> PiUsage(log[id].usage)]
    IN CASE log[id].type = "compaction" ->
              [state EXCEPT !.messages = <<Msg("user", id)>>, !.compacted = TRUE]
         [] log[id].type \in {"user", "custom_message"} ->
              [state EXCEPT !.messages = Append(@, Msg("user", id))]
         [] log[id].type = "toolResult" ->
              [state EXCEPT !.messages = Append(@, Msg("tool", id))]
         [] OTHER ->
              [state EXCEPT !.messages = told,
                            !.recs = IF messages = <<>> THEN @ ELSE Append(@, rec)]

ImportPi ==
    FoldLeft(ImportNode, [messages |-> <<>>, recs |-> <<>>, compacted |-> FALSE], Chain).recs

-----------------------------------------------------------------------------
(* The export. *)

\* A session holds the turns of the imported tape by their number.
Deepest(recs, session) ==
    LET tokens(i) == recs[session[i].ts].tokens
        i == CHOOSE i \in DOMAIN session :
               \A j \in DOMAIN session : tokens(j) < tokens(i) \/ (tokens(j) = tokens(i) /\ i <= j)
    IN recs[session[i].ts]

\* The chat template: it leaves out the calls of a reply that comes last, and its end.
Render(list) ==
    FlattenSeq([i \in DOMAIN list |->
        LET last == i = Len(list) /\ list[i].role = "assistant"
        IN <<<<"start">>, <<list[i].role, list[i].id>>>>
             \o (IF list[i].calls /\ ~last THEN <<<<"calls">>>> ELSE <<>>)
             \o (IF last THEN <<>> ELSE <<<<"end">>>>)])

\* A sentinel turn is rendered after the reply, and cut off from where it starts.
BuildCorpus(list) ==
    LET full == Render(Append(list, Msg("user", 0)))
        starts == {i \in DOMAIN full : full[i] = <<"start">>}
    IN SubSeq(full, 1, (CHOOSE i \in starts : \A j \in starts : j <= i) - 1)

Export(rec) == BuildCorpus(Append(rec.list, Reply(rec.from)))

-----------------------------------------------------------------------------
(* Properties *)

\* A record that does not declare that a compaction was reconstructed holds exactly what the
\* model was sent, whatever was rewound; without a compaction, all of them are one workstream
\* that was never rewritten.
ImportIsWhatWasSent ==
    LET recs == ImportPi
        sessions == BuildSessions(recs)
        sent(rec) == log[rec.from].sent
    IN /\ \A i \in DOMAIN recs : recs[i].gap \/ recs[i].list = sent(recs[i])
       /\ (\A i \in DOMAIN recs : ~recs[i].gap) =>
            \A s \in DOMAIN sessions : s = 1 /\ \A i \in DOMAIN sessions[s] :
              sessions[s][i].join \in {"new", "continuation"}

\* The corpus of a session without a compaction is the longest of its requests and the reply
\* to it, each turn whole and with its calls, the reply too.
ExportIsDeepest ==
    LET recs == ImportPi
        sessions == BuildSessions(recs)
    IN \A s \in DOMAIN sessions :
         LET deepest  == Deepest(recs, sessions[s])
             exchange == Append(log[deepest.from].sent, Reply(deepest.from))
             corpus   == Export(deepest)
             many(token) == Cardinality({i \in DOMAIN corpus : corpus[i] = <<token>>})
         IN deepest.gap \/
              /\ \A i \in DOMAIN sessions[s] : Len(sessions[s][i].list) < Len(exchange)
              /\ SelectSeq(corpus, LAMBDA token : Len(token) = 2)
                   = [i \in DOMAIN exchange |-> <<exchange[i].role, exchange[i].id>>]
              /\ many("calls") = Cardinality({i \in DOMAIN exchange : exchange[i].calls})
              /\ many("end") = Len(exchange)

\* What is read back of an imported session, record by record and as a corpus, is what the
\* model was sent (import_pi, export).
ImportIsFaithful == ImportIsWhatWasSent /\ ExportIsDeepest
=============================================================================
