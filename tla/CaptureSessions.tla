-------------------------- MODULE CaptureSessions --------------------------
(***************************************************************************)
(* How scripts/capture_sessions.py reads a tape back: which of its lines   *)
(* can be read, in which order the completions are taken, and how they are *)
(* chained into workstreams, as nothing on the wire names a session.  The  *)
(* hash of a message is the message; `position` is the same for the tape.  *)
(***************************************************************************)
EXTENDS Naturals, Sequences, SequencesExt

CONSTANT System   \* the system message, the same in every conversation of an agent

MinLcp == 2

\* A line cut short, between two characters or inside one.
CutShort(line) == line.kind \in {"torn", "split"}

\* The file is decoded as it is read, line by line but outside of what skips a line: half a
\* character anywhere raises, and there are no records at all.
Decodes(tape) == \A i \in DOMAIN tape : tape[i].kind # "split"

\* A line that does not end in a newline is one line with the one appended after it, and
\* neither can be parsed.
Parses(tape, i) == ~CutShort(tape[i]) /\ (i = 1 \/ ~CutShort(tape[i - 1]))

Readable(tape) == [i \in DOMAIN tape |-> Decodes(tape) /\ Parses(tape, i)]

\* The records, none if it raises.
LoadTape(tape) ==
    LET readable == Readable(tape)
    IN FoldLeft(LAMBDA recs, i : IF readable[i] THEN Append(recs, tape[i]) ELSE recs,
                <<>>, [i \in DOMAIN tape |-> i])

\* Mutant: in the order of the tape.
CompletionsAsWritten(tape) == SelectSeq(LoadTape(tape), LAMBDA rec : rec.kind = "completion")

\* The completions, by the time their request arrived.
Completions(tape) ==
    SortSeq(SelectSeq(LoadTape(tape), LAMBDA rec : rec.kind = "completion"),
            LAMBDA a, b : a.ts < b.ts)

Lcp(a, b) ==
    LET differ == {i \in DOMAIN a \cap DOMAIN b : a[i] # b[i]}
    IN IF differ = {} THEN IF Len(a) < Len(b) THEN Len(a) ELSE Len(b)
       ELSE (CHOOSE i \in differ : \A j \in differ : i <= j) - 1

PrefixIsOnlySystem(list, n) == n > 0 /\ \A i \in 1..n : list[i] = System

Hashes(session) == Last(session).list

\* May a request be the next turn of a session, of which it shares the first n messages?
Continues(session, list, n) ==
    /\ n > 0 /\ ~PrefixIsOnlySystem(list, n)
    /\ n = Len(Hashes(session)) \/ (n >= MinLcp /\ 2 * n >= Len(Hashes(session)))

Join(session, list, n) ==
    IF n < Len(Hashes(session)) THEN "rewrite"
    ELSE IF n = Len(list) THEN "retry" ELSE "continuation"

\* The session that shares most of the list, the oldest of those that share as much; 0 if none.
Best(sessions, list) ==
    LET shared == [i \in DOMAIN sessions |-> Lcp(Hashes(sessions[i]), list)]
        may    == {i \in DOMAIN sessions : Continues(sessions[i], list, shared[i])}
    IN IF may = {} THEN 0
       ELSE CHOOSE i \in may : \A j \in may :
                shared[j] < shared[i] \/ (shared[j] = shared[i] /\ i <= j)

AddRecord(sessions, rec) ==
    LET i == Best(sessions, rec.list)
        joined(how) == [ts |-> rec.ts, list |-> rec.list, from |-> rec.from, join |-> how]
    IN IF i = 0 THEN Append(sessions, <<joined("new")>>)
       ELSE LET n == Lcp(Hashes(sessions[i]), rec.list)
            IN [sessions EXCEPT ![i] = Append(@, joined(Join(@, rec.list, n)))]

BuildSessions(tape) == FoldLeft(AddRecord, <<>>, Completions(tape))
=============================================================================
