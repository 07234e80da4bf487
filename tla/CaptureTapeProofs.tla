--------------------------- MODULE CaptureTapeProofs ---------------------------
(***************************************************************************)
(* What holds of the tape (CaptureTape) for any clients, any number of     *)
(* requests, restarts and writes that fail, and every cap; and of streamed *)
(* answers (StreamAssembler) however many pieces and calls they have.      *)
(***************************************************************************)
EXTENDS CaptureTape, StreamAssembler, FiniteSetTheorems, SequenceTheorems, WellFoundedInduction,
        TLAPS

-----------------------------------------------------------------------------
(* The inductive invariant *)

Messages == {System} \cup (Clients \X Requests \X Nat)
Lists == Seq(Messages)
Senders == {<<>>} \cup (Clients \X (0..MaxRequests) \X BOOLEAN)

\* The lines of requests that were answered, and the others.
AnsweredLines == [kind : {"completion"}, late : BOOLEAN, ts : Requests, list : Lists, from : Senders,
                  events : 0..Events, cut : BOOLEAN, seen : 0..Pieces]
Lines == [kind : Kinds \ {"completion"}, late : BOOLEAN] \cup AnsweredLines

Threads == [at : {"none", "read", "relay", "record", "fail"}, from : Senders, list : Lists,
            fed : 0..Pieces, seen : 0..Pieces, cut : BOOLEAN]
States == [list : Lists, talk : 0..MaxRequests, rewound : BOOLEAN, waits : 0..MaxRequests]

TapeType == tape \in Seq(Lines) /\ held \in Seq(Lines) /\ size \in Nat /\ stopped \in BOOLEAN
ThreadType == handler \in [Requests -> Threads]
ClientType == client \in [Clients -> States] /\ \A c \in Clients : client[c].waits <= arrived
CountType ==
    /\ proxy \in {"up", "ending", "down"} /\ scenario \in Scenarios
    /\ arrived \in 0..scenario.requests
    /\ ends \in Nat /\ ends <= scenario.ends /\ failures \in Nat /\ failures <= scenario.failures

\* A thread has sent no more than it was fed, all of it unless it was cut; none outlives the proxy.
ThreadsAre == \A r \in Requests :
    /\ handler[r].seen <= handler[r].fed
    /\ handler[r].at = "record" /\ ~handler[r].cut => handler[r].fed = Pieces
    /\ proxy = "down" => handler[r].at = "none"

\* What RecordsWhatWasSent says of a line, of those still in the buffer too.
Truthful(line) == line.kind = "completion" =>
    2 * line.events + 1 >= line.seen /\ (~line.cut => line.events = Events)
TrueLines ==
    /\ \A i \in 1..Len(tape) : Truthful(tape[i])
    /\ \A i \in 1..Len(held) : Truthful(held[i])

\* A line that was cut short is the last one, of a process that is gone, or before the line of the
\* next process.
TornIs ==
    /\ \A i \in 1..Len(tape) : CutShort(tape[i]) =>
          IF i = Len(tape) THEN proxy = "down" ELSE tape[i + 1].kind = "session_start"
    /\ \A i \in 1..Len(held) : ~CutShort(held[i])

\* The lines the cap is about, as far as the recorder counts them.
OnTime(i) == {j \in 1..i : ~tape[j].late}
Below ==
    /\ proxy # "down" /\ ~stopped => size < scenario.cap /\ Cardinality(OnTime(Len(tape))) <= size
    /\ \A i \in 1..Len(tape) : tape[i].kind \in {"completion", "error"} /\ ~tape[i].late =>
          Cardinality(OnTime(i - 1)) < scenario.cap

IInv == TapeType /\ ThreadType /\ ClientType /\ CountType /\ ThreadsAre /\ TrueLines /\ TornIs /\ Below

-----------------------------------------------------------------------------
(* Lines *)

LEMMA Scenario ==
    ASSUME CountType
    PROVE  /\ scenario.cap \in Nat \ {0} /\ scenario.requests \in 0..MaxRequests /\ MaxRequests \in Nat
           /\ scenario.ends \in Nat /\ scenario.failures \in Nat /\ scenario.streams \in BOOLEAN
    BY ScenariosAssumption, BoundsAssumption DEF CountType

LEMMA LineType == ASSUME NEW kind \in Kinds \ {"completion"} PROVE Line(kind) \in Lines
    BY DEF Line, Lines

LEMMA LateLine ==
    ASSUME NEW l \in Lines
    PROVE  LET m == [l EXCEPT !.late = TRUE] IN
           m \in Lines /\ m.late /\ m.kind = l.kind /\ (Truthful(l) => Truthful(m))
<1> DEFINE m == [l EXCEPT !.late = TRUE]
<1>1. CASE l \in AnsweredLines
  <2>1. m \in AnsweredLines /\ m.late /\ m.kind = l.kind /\ m.events = l.events /\ m.seen = l.seen /\ m.cut = l.cut
    BY <1>1 DEF AnsweredLines
  <2> QED
    BY <2>1 DEF Lines, Truthful
<1>2. CASE l \in [kind : Kinds \ {"completion"}, late : BOOLEAN]
  <2>1. m \in [kind : Kinds \ {"completion"}, late : BOOLEAN] /\ m.late /\ m.kind = l.kind
    BY <1>2
  <2> QED
    BY <2>1 DEF Lines, Truthful
<1> QED
  BY <1>1, <1>2 DEF Lines

LEMMA LateLines ==
    ASSUME NEW s \in Seq(Lines)
    PROVE  /\ Late(s) \in Seq(Lines) /\ Len(Late(s)) = Len(s)
           /\ \A i \in 1..Len(s) : /\ Late(s)[i].late /\ Late(s)[i].kind = s[i].kind
                                   /\ Truthful(s[i]) => Truthful(Late(s)[i])
<1>1. Len(s) \in Nat /\ DOMAIN s = 1..Len(s) /\ \A i \in 1..Len(s) : s[i] \in Lines
  OBVIOUS
<1>2. Late(s) = [i \in 1..Len(s) |-> [s[i] EXCEPT !.late = TRUE]]
  BY <1>1 DEF Late
<1>3. \A i \in 1..Len(s) : [s[i] EXCEPT !.late = TRUE] \in Lines
  BY <1>1, LateLine
<1>4. Late(s) \in [1..Len(s) -> Lines]
  BY <1>2, <1>3
<1>5. Late(s) \in Seq(Lines) /\ Len(Late(s)) = Len(s)
  BY <1>1, <1>4, IsASeq
<1>6. ASSUME NEW i \in 1..Len(s)
      PROVE  Late(s)[i].late /\ Late(s)[i].kind = s[i].kind /\ (Truthful(s[i]) => Truthful(Late(s)[i]))
  <2>1. Late(s)[i] = [s[i] EXCEPT !.late = TRUE] /\ s[i] \in Lines
    BY <1>1, <1>2
  <2> QED
    BY <2>1, LateLine
<1> QED
  BY <1>5, <1>6

\* Two sequences one after the other.
LEMMA Joined ==
    ASSUME NEW s \in Seq(Lines), NEW t \in Seq(Lines)
    PROVE  /\ s \o t \in Seq(Lines) /\ Len(s \o t) = Len(s) + Len(t)
           /\ Len(s) \in Nat /\ Len(t) \in Nat
           /\ \A i \in 1..Len(s) : (s \o t)[i] = s[i]
           /\ \A i \in 1..Len(t) : (s \o t)[Len(s) + i] = t[i]
<1>1. /\ s \o t \in Seq(Lines) /\ Len(s \o t) = Len(s) + Len(t)
      /\ \A i \in 1..(Len(s) + Len(t)) : (s \o t)[i] = IF i <= Len(s) THEN s[i] ELSE t[i - Len(s)]
  BY ConcatProperties
<1>2. Len(s) \in Nat /\ Len(t) \in Nat
  OBVIOUS
<1>3. ASSUME NEW i \in 1..Len(s) PROVE (s \o t)[i] = s[i]
  <2>1. i \in 1..(Len(s) + Len(t)) /\ i <= Len(s)
    BY <1>2
  <2> QED
    BY <1>1, <2>1
<1>4. ASSUME NEW i \in 1..Len(t) PROVE (s \o t)[Len(s) + i] = t[i]
  <2>1. Len(s) + i \in 1..(Len(s) + Len(t)) /\ ~(Len(s) + i <= Len(s)) /\ Len(s) + i - Len(s) = i
    BY <1>2
  <2> QED
    BY <1>1, <2>1
<1> QED
  BY <1>1, <1>2, <1>3, <1>4

LEMMA JoinedOne ==
    ASSUME NEW s \in Seq(Lines), NEW l \in Lines
    PROVE  /\ s \o <<l>> \in Seq(Lines) /\ Len(s \o <<l>>) = Len(s) + 1 /\ Len(s) \in Nat
           /\ \A i \in 1..Len(s) : (s \o <<l>>)[i] = s[i]
           /\ (s \o <<l>>)[Len(s) + 1] = l
<1>1. <<l>> \in Seq(Lines) /\ Len(<<l>>) = 1 /\ <<l>>[1] = l
  OBVIOUS
<1>2. 1 \in 1..Len(<<l>>)
  BY <1>1
<1> QED
  BY <1>1, <1>2, Joined

\* What a write leaves on the tape.
Wrote(line) ==
    LET n == Len(tape) m == Len(held) IN
    /\ tape' \in Seq(Lines) /\ \A i \in 1..n : tape'[i] = tape[i]
    /\ \A i \in 1..m : /\ tape'[n + i].late /\ tape'[n + i].kind = held[i].kind
                       /\ Truthful(held[i]) => Truthful(tape'[n + i])
    /\ tape'[n + m + 1] = line
    /\ \/ Len(tape') = n + m + 1 /\ ~stopped'
       \/ Len(tape') = n + m + 2 /\ tape'[n + m + 2] = Line("recorder_stopped") /\ stopped'
    /\ size' = size + 1 /\ held' = <<>> /\ stopped' \in BOOLEAN
    /\ ~stopped' => size + 1 < scenario.cap

LEMMA Writes ==
    ASSUME TapeType, CountType, NEW line \in Lines, Appended(line)
    PROVE  Wrote(line)
<1> DEFINE n == Len(tape)
           m == Len(held)
           l == Late(held)
           a == tape \o l
           b == a \o <<line>>
           e == Line("recorder_stopped")
<1>1. /\ tape \in Seq(Lines) /\ l \in Seq(Lines) /\ Len(l) = m /\ e \in Lines /\ n \in Nat /\ m \in Nat
      /\ \A i \in 1..m : /\ l[i].late /\ l[i].kind = held[i].kind
                         /\ Truthful(held[i]) => Truthful(l[i])
  BY LateLines, LineType DEF TapeType, Kinds
<1>2. /\ size' = size + 1 /\ held' = <<>> /\ size \in Nat /\ scenario.cap \in Nat
      /\ stopped' = (size + 1 >= scenario.cap)
      /\ tape' = b \o (IF size + 1 >= scenario.cap THEN <<e>> ELSE <<>>)
  BY Scenario DEF Appended, TapeType
<1> HIDE DEF l, e
<1>3. /\ a \in Seq(Lines) /\ Len(a) = n + m
      /\ \A i \in 1..n : a[i] = tape[i]
      /\ \A i \in 1..m : a[n + i] = l[i]
  <2>1. /\ a \in Seq(Lines) /\ Len(a) = Len(tape) + Len(l)
        /\ \A i \in 1..Len(tape) : a[i] = tape[i]
        /\ \A i \in 1..Len(l) : a[Len(tape) + i] = l[i]
    BY <1>1, Joined
  <2>2. Len(l) = m /\ Len(tape) = n
    BY <1>1
  <2> QED
    BY <2>1, <2>2
<1> HIDE DEF a
<1>4. /\ b \in Seq(Lines) /\ Len(b) = n + m + 1 /\ b[n + m + 1] = line
      /\ \A i \in 1..(n + m) : b[i] = a[i]
  BY <1>3, JoinedOne
<1> HIDE DEF b
<1>5. /\ b \o <<e>> \in Seq(Lines) /\ Len(b \o <<e>>) = n + m + 1 + 1 /\ (b \o <<e>>)[n + m + 1 + 1] = e
      /\ \A i \in 1..(n + m + 1) : (b \o <<e>>)[i] = b[i]
  <2>1. /\ b \o <<e>> \in Seq(Lines) /\ Len(b \o <<e>>) = Len(b) + 1
        /\ (b \o <<e>>)[Len(b) + 1] = e
        /\ \A i \in 1..Len(b) : (b \o <<e>>)[i] = b[i]
    BY <1>1, <1>4, JoinedOne
  <2>2. Len(b) = n + m + 1
    BY <1>4
  <2> QED
    BY <2>1, <2>2
<1>6. b \o <<>> = b /\ n + m + 1 + 1 = n + m + 2
  BY <1>1, <1>4, ConcatEmptySeq
<1>7. /\ tape' \in Seq(Lines) /\ \A i \in 1..(n + m + 1) : tape'[i] = b[i]
      /\ \/ Len(tape') = n + m + 1 /\ ~stopped'
         \/ Len(tape') = n + m + 2 /\ tape'[n + m + 2] = e /\ stopped'
  <2>1. CASE size + 1 >= scenario.cap
    BY <1>2, <1>5, <1>6, <2>1
  <2>2. CASE ~(size + 1 >= scenario.cap)
    BY <1>2, <1>4, <1>6, <2>2
  <2> QED
    BY <2>1, <2>2
<1>8. ASSUME NEW i \in 1..n PROVE tape'[i] = tape[i]
  <2>1. i \in 1..(n + m) /\ i \in 1..(n + m + 1)
    BY <1>1
  <2> QED
    BY <1>3, <1>4, <1>7, <2>1
<1>9. ASSUME NEW i \in 1..m PROVE tape'[n + i] = l[i]
  <2>1. n + i \in 1..(n + m) /\ n + i \in 1..(n + m + 1)
    BY <1>1
  <2> QED
    BY <1>3, <1>4, <1>7, <2>1
<1>10. tape'[n + m + 1] = line
  <2>1. n + m + 1 \in 1..(n + m + 1)
    BY <1>1
  <2> QED
    BY <1>4, <1>7, <2>1
<1>11. ~stopped' => size + 1 < scenario.cap
  <2>1. ~stopped' => ~(size + 1 >= scenario.cap)
    BY <1>2, Zenon
  <2> QED
    BY <1>2, <2>1
<1>12. \A i \in 1..m : /\ tape'[n + i].late /\ tape'[n + i].kind = held[i].kind
                       /\ Truthful(held[i]) => Truthful(tape'[n + i])
  BY <1>1, <1>9
<1>13. size' = size + 1 /\ held' = <<>> /\ stopped' \in BOOLEAN
  BY <1>2
<1> QED
  <2>1. \/ Len(tape') = n + m + 1 /\ ~stopped'
        \/ Len(tape') = n + m + 2 /\ tape'[n + m + 2] = Line("recorder_stopped") /\ stopped'
    BY <1>7 DEF e
  <2>2. tape' \in Seq(Lines)
    BY <1>7
  <2>3. \A i \in 1..n : tape'[i] = tape[i]
    BY <1>8
  <2> QED
    BY <2>1, <2>2, <2>3, <1>10, <1>11, <1>12, <1>13 DEF Wrote

\* What a start leaves on the tape.
Began ==
    LET n == Len(tape) IN
    /\ tape' \in Seq(Lines) /\ \A i \in 1..n : tape'[i] = tape[i]
    /\ tape'[n + 1] = Line("session_start")
    /\ \/ Len(tape') = n + 1 /\ ~stopped'
       \/ Len(tape') = n + 2 /\ tape'[n + 2] = Line("recorder_stopped") /\ stopped'
    /\ size' = n + 1 /\ held' = <<>> /\ stopped' \in BOOLEAN
    /\ ~stopped' => n + 1 < scenario.cap

LEMMA Begins ==
    ASSUME TapeType, CountType, Start
    PROVE  Began
<1> DEFINE n == Len(tape)
           s == Line("session_start")
           b == tape \o <<s>>
           e == Line("recorder_stopped")
<1>1. tape \in Seq(Lines) /\ s \in Lines /\ e \in Lines /\ n \in Nat
  BY LineType DEF TapeType, Kinds
<1>2. /\ size' = n + 1 /\ held' = <<>> /\ scenario.cap \in Nat
      /\ stopped' = (n + 1 >= scenario.cap)
      /\ tape' = b \o (IF n + 1 >= scenario.cap THEN <<e>> ELSE <<>>)
  BY Scenario DEF Start, SizeAtStart
<1> HIDE DEF s, e
<1>3. /\ b \in Seq(Lines) /\ Len(b) = n + 1 /\ b[n + 1] = s
      /\ \A i \in 1..n : b[i] = tape[i]
  BY <1>1, JoinedOne
<1> HIDE DEF b
<1>4. /\ b \o <<e>> \in Seq(Lines) /\ Len(b \o <<e>>) = n + 1 + 1 /\ (b \o <<e>>)[n + 1 + 1] = e
      /\ \A i \in 1..(n + 1) : (b \o <<e>>)[i] = b[i]
  BY <1>1, <1>3, JoinedOne
<1>5. b \o <<>> = b /\ n + 1 + 1 = n + 2
  BY <1>1, <1>3, ConcatEmptySeq
<1>6. /\ tape' \in Seq(Lines) /\ \A i \in 1..(n + 1) : tape'[i] = b[i]
      /\ \/ Len(tape') = n + 1 /\ ~stopped'
         \/ Len(tape') = n + 2 /\ tape'[n + 2] = e /\ stopped'
  <2>1. CASE n + 1 >= scenario.cap
    BY <1>2, <1>4, <1>5, <2>1
  <2>2. CASE ~(n + 1 >= scenario.cap)
    BY <1>2, <1>3, <1>5, <2>2
  <2> QED
    BY <2>1, <2>2
<1>7. (\A i \in 1..n : i \in 1..(n + 1)) /\ n + 1 \in 1..(n + 1) /\ (~stopped' => n + 1 < scenario.cap)
  <2>1. ~stopped' => ~(n + 1 >= scenario.cap)
    BY <1>2, Zenon
  <2> QED
    BY <1>1, <1>2, <2>1
<1>8. (\A i \in 1..n : tape'[i] = tape[i]) /\ tape'[n + 1] = s
  BY <1>3, <1>6, <1>7
<1>9. size' = n + 1 /\ held' = <<>> /\ stopped' \in BOOLEAN
  BY <1>2
<1> QED
  BY <1>6, <1>7, <1>8, <1>9 DEF Began, s, e

\* What the end of the process leaves on the tape.
Ragged == {Line("torn"), Line("split")}

LEMMA Tears ==
    ASSUME TapeType, Gone
    PROVE  /\ tape' \in Seq(Lines) /\ \A i \in 1..Len(tape) : tape'[i] = tape[i]
           /\ tape' = tape \/ (Len(tape') = Len(tape) + 1 /\ tape'[Len(tape) + 1] \in Ragged)
<1>1. tape \in Seq(Lines) /\ Ragged \subseteq Lines
  BY LineType DEF TapeType, Kinds, Ragged
<1>2. tape' = tape \/ \E line \in Ragged : tape' = Append(tape, line)
  <2>1. Cuts \subseteq {"torn", "split"}
    BY DEF Cuts
  <2> QED
    BY <2>1 DEF Gone, Ragged
<1> QED
  BY <1>1, <1>2, AppendProperties

\* What a thread records is true.
LEMMA RecordType ==
    ASSUME ThreadType, ThreadsAre, NEW r \in Requests, handler[r].at = "record"
    PROVE  LET line == [kind |-> "completion", late |-> FALSE, ts |-> r, list |-> handler[r].list,
                        from |-> handler[r].from, events |-> Understood(r),
                        cut |-> handler[r].cut, seen |-> handler[r].seen] IN
           line \in Lines /\ Truthful(line) /\ line.kind = "completion" /\ ~line.late
<1>1. /\ handler[r] \in Threads /\ handler[r].fed \in {0, 1, 2, 3, 4} /\ handler[r].seen \in 0..4
      /\ handler[r].seen <= handler[r].fed /\ (~handler[r].cut => handler[r].fed = 4)
  BY DEF ThreadType, ThreadsAre, Threads, Pieces
<1>2. /\ Understood(r) \in 0..2 /\ 2 * Understood(r) + 1 >= handler[r].seen
      /\ handler[r].fed = 4 => Understood(r) = 2
  <2>1. 0 \div 2 = 0 /\ 1 \div 2 = 0 /\ 2 \div 2 = 1 /\ 3 \div 2 = 1 /\ 4 \div 2 = 2
    OBVIOUS
  <2> QED
    BY <1>1, <2>1 DEF Understood
<1> QED
  BY <1>1, <1>2 DEF Lines, AnsweredLines, Truthful, Events, Threads, Pieces

-----------------------------------------------------------------------------
(* What a step does to the tape *)

\* The lines that handlers and the end of the proxy write.
Fresh == {l \in Lines : l.kind \in {"completion", "error", "session_end"} /\ ~l.late /\ Truthful(l)}

Still == UNCHANGED recorder /\ (proxy' = proxy \/ (proxy # "down" /\ proxy' # "down"))
Written(line) ==
    /\ proxy # "down" /\ proxy' # "down"
    /\ \/ stopped /\ UNCHANGED recorder
       \/ ~stopped /\ (Wrote(line) \/ Refused(line))
Torn ==
    /\ proxy # "down" /\ proxy' = "down" /\ held' = <<>> /\ UNCHANGED <<size, stopped>>
    /\ tape' \in Seq(Lines) /\ \A i \in 1..Len(tape) : tape'[i] = tape[i]
    /\ tape' = tape \/ (Len(tape') = Len(tape) + 1 /\ tape'[Len(tape) + 1] \in Ragged)

LEMMA FreshLines == Line("error") \in Fresh /\ Line("session_end") \in Fresh
<1>1. Line("error") \in Lines /\ Line("session_end") \in Lines
  BY LineType DEF Kinds
<1> QED
  BY <1>1 DEF Fresh, Line, Truthful

LEMMA WriteIs ==
    ASSUME TapeType, CountType, NEW line \in Fresh, Write(line), proxy # "down", proxy' # "down"
    PROVE  Written(line)
<1>1. line \in Lines
  BY DEF Fresh
<1>2. CASE stopped /\ UNCHANGED recorder
  BY <1>2, Zenon DEF Written
<1>3. CASE ~stopped /\ Appended(line)
  <2>1. Wrote(line)
    BY <1>1, <1>3, Writes
  <2> QED
    BY <1>3, <2>1, Zenon DEF Written
<1>4. CASE ~stopped /\ Refused(line)
  BY <1>4, Zenon DEF Written
<1> QED
  BY <1>2, <1>3, <1>4, Zenon DEF Write

LEMMA Effects ==
    ASSUME TapeType, CountType, ThreadType, ThreadsAre, [Next]_vars
    PROVE  /\ scenario' = scenario
           /\ \/ Still \/ (proxy = "down" /\ proxy' = "up" /\ Began) \/ Torn
              \/ \E line \in Fresh : Written(line)
<1>1. CASE Start
  <2>1. Began
    BY <1>1, Begins
  <2> QED
    BY <1>1, <2>1 DEF Start
<1>2. CASE Shutdown
  <2>1. proxy # "down" /\ proxy' # "down" /\ Write(Line("session_end")) /\ scenario' = scenario
    BY <1>2 DEF Shutdown
  <2> QED
    BY <2>1, WriteIs, FreshLines
<1>3. CASE Gone
  <2>1. Torn
    BY <1>3, Tears DEF Gone, Torn
  <2> QED
    BY <1>3, <2>1 DEF Gone
<1>4. ASSUME NEW c \in Clients, Send(c) PROVE Still /\ scenario' = scenario
  BY <1>4 DEF Send, Still, recorder
<1>5. ASSUME NEW c \in Clients, GiveUp(c) PROVE Still /\ scenario' = scenario
  BY <1>5 DEF GiveUp, Still, recorder
<1>6. ASSUME NEW r \in Requests, NEW to, ToThread(r, to) PROVE Still /\ scenario' = scenario
  BY <1>6 DEF ToThread, Still, recorder
<1>7. ASSUME NEW r \in Requests, Unreachable(r) \/ Whole(r) \/ Streams(r) \/ Chunk(r) \/ StreamEnds(r)
                                   \/ UpstreamDies(r)
      PROVE  Still /\ scenario' = scenario
  <2>1. CASE Unreachable(r)
    BY <1>6, <2>1 DEF Unreachable
  <2>2. CASE Whole(r)
    BY <1>6, <2>2 DEF Whole
  <2>3. CASE Streams(r)
    BY <1>6, <2>3 DEF Streams
  <2>4. CASE Chunk(r)
    BY <1>6, <2>4 DEF Chunk
  <2>5. CASE StreamEnds(r)
    BY <1>6, <2>5 DEF StreamEnds
  <2>6. CASE UpstreamDies(r)
    BY <1>6, <2>6 DEF UpstreamDies
  <2> QED
    BY <1>7, <2>1, <2>2, <2>3, <2>4, <2>5, <2>6
<1>8. ASSUME NEW r \in Requests, Record(r)
      PROVE  scenario' = scenario /\ \E line \in Fresh : Written(line)
  <2>1. proxy # "down" /\ proxy' # "down" /\ scenario' = scenario
    BY <1>8 DEF Record, ThreadsAre
  <2>2. CASE handler[r].at = "fail"
    <3>1. Write(Line("error"))
      BY <1>8, <2>2 DEF Record
    <3> QED
      BY <2>1, <3>1, WriteIs, FreshLines
  <2>3. CASE handler[r].at # "fail"
    <3> DEFINE line == [kind |-> "completion", late |-> FALSE, ts |-> r, list |-> handler[r].list,
                        from |-> handler[r].from, events |-> Understood(r),
                        cut |-> handler[r].cut, seen |-> handler[r].seen]
    <3>1. handler[r].at = "record" /\ Write(line)
      BY <1>8, <2>3 DEF Record
    <3>2. line \in Lines /\ Truthful(line) /\ line.kind = "completion" /\ ~line.late
      BY <3>1, RecordType
    <3> HIDE DEF line
    <3>3. line \in Fresh
      BY <3>2 DEF Fresh
    <3> QED
      BY <2>1, <3>1, <3>3, WriteIs
  <2> QED
    BY <2>2, <2>3
<1>9. CASE UNCHANGED vars
  BY <1>9 DEF vars, Still, recorder
<1> QED
  BY <1>1, <1>2, <1>3, <1>4, <1>5, <1>7, <1>8, <1>9 DEF Next, Handle

\* The lines there are after a write.
LEMMA Entries ==
    ASSUME TapeType, NEW line, Wrote(line), NEW i \in 1..Len(tape')
    PROVE  \/ i \in 1..Len(tape) /\ tape'[i] = tape[i]
           \/ \E k \in 1..Len(held) :
                /\ i = Len(tape) + k /\ tape'[i].late /\ tape'[i].kind = held[k].kind
                /\ Truthful(held[k]) => Truthful(tape'[i])
           \/ i = Len(tape) + Len(held) + 1 /\ tape'[i] = line
           \/ i = Len(tape) + Len(held) + 2 /\ tape'[i] = Line("recorder_stopped") /\ stopped'
<1> DEFINE n == Len(tape)
           m == Len(held)
<1>1. n \in Nat /\ m \in Nat /\ Len(tape') \in {n + m + 1, n + m + 2}
  BY DEF TapeType, Wrote
<1>2. CASE i \in 1..n
  BY <1>2 DEF Wrote
<1>3. CASE i \in (n + 1)..(n + m)
  <2>1. i - n \in 1..m /\ i = n + (i - n)
    BY <1>1, <1>3
  <2> QED
    BY <2>1 DEF Wrote
<1>4. CASE i = n + m + 1
  BY <1>4 DEF Wrote
<1>5. CASE i = n + m + 2
  <2>1. Len(tape') # n + m + 1
    BY <1>1, <1>5
  <2> QED
    BY <1>5, <2>1 DEF Wrote
<1> QED
  BY <1>1, <1>2, <1>3, <1>4, <1>5

-----------------------------------------------------------------------------
(* The parts about the tape *)

LEMMA Fresher == ASSUME NEW line \in Fresh
                 PROVE  /\ line \in Lines /\ Truthful(line) /\ ~line.late
                        /\ ~CutShort(line) /\ line.kind # "recorder_stopped"
    BY DEF Fresh, CutShort

LEMMA Framed ==
    /\ Line("recorder_stopped").kind = "recorder_stopped" /\ Truthful(Line("recorder_stopped"))
    /\ Line("session_start").kind = "session_start" /\ Truthful(Line("session_start"))
    /\ ~CutShort(Line("recorder_stopped")) /\ ~CutShort(Line("session_start"))
    /\ \A line \in Ragged : Truthful(line) /\ line.kind \notin {"completion", "error"}
    BY DEF Line, Truthful, CutShort, Ragged

LEMMA RefusedType ==
    ASSUME TapeType, NEW line \in Lines, Refused(line)
    PROVE  /\ held' \in Seq(Lines) /\ Len(held') = Len(held) + 1 /\ held'[Len(held) + 1] = line
           /\ \A i \in 1..Len(held) : held'[i] = held[i]
           /\ tape' = tape /\ size' = size /\ stopped' = stopped /\ Len(held) \in Nat
<1>1. /\ held \in Seq(Lines) /\ held' = Append(held, line)
      /\ tape' = tape /\ size' = size /\ stopped' = stopped
  BY DEF Refused, TapeType
<1> QED
  BY <1>1, AppendProperties

LEMMA TapeTypeStep ==
    ASSUME TapeType, CountType, ThreadType, ThreadsAre, [Next]_vars
    PROVE  TapeType'
<1>0. <<>> \in Seq(Lines)
  OBVIOUS
<1>1. CASE Still
  BY <1>1 DEF Still, recorder, TapeType
<1>2. CASE Began
  <2>1. Len(tape) \in Nat
    BY DEF TapeType
  <2>2. tape' \in Seq(Lines) /\ size' = Len(tape) + 1 /\ held' = <<>> /\ stopped' \in BOOLEAN
    BY <1>2 DEF Began
  <2> QED
    BY <1>0, <2>1, <2>2 DEF TapeType
<1>3. CASE Torn
  BY <1>0, <1>3 DEF Torn, TapeType
<1>4. ASSUME NEW line \in Fresh, Written(line) PROVE TapeType'
  <2>1. CASE UNCHANGED recorder
    BY <2>1 DEF recorder, TapeType
  <2>2. CASE Wrote(line)
    <3>1. tape' \in Seq(Lines) /\ size' = size + 1 /\ held' = <<>> /\ stopped' \in BOOLEAN
      BY <2>2 DEF Wrote
    <3> QED
      BY <1>0, <3>1 DEF TapeType
  <2>3. CASE Refused(line)
    BY <2>3, RefusedType, Fresher DEF TapeType
  <2> QED
    BY <1>4, <2>1, <2>2, <2>3 DEF Written
<1> QED
  BY <1>1, <1>2, <1>3, <1>4, Effects

LEMMA TrueLinesStep ==
    ASSUME TapeType, CountType, ThreadType, ThreadsAre, TrueLines, [Next]_vars
    PROVE  TrueLines'
<1>0. Len(tape) \in Nat /\ Len(held) \in Nat /\ Len(<<>>) = 0
  BY DEF TapeType
<1>1. CASE Still
  BY <1>1 DEF Still, recorder, TrueLines
<1>2. CASE Began
  <2>1. ASSUME NEW i \in 1..Len(tape') PROVE Truthful(tape'[i])
    <3>1. i \in 1..Len(tape) \/ i = Len(tape) + 1 \/ (i = Len(tape) + 2 /\ tape'[i] = Line("recorder_stopped"))
      BY <1>0, <1>2 DEF Began
    <3> QED
      BY <1>2, <3>1, Framed DEF Began, TrueLines
  <2> QED
    BY <1>0, <1>2, <2>1 DEF Began, TrueLines
<1>3. CASE Torn
  <2>1. ASSUME NEW i \in 1..Len(tape') PROVE Truthful(tape'[i])
    <3>1. i \in 1..Len(tape) \/ (i = Len(tape) + 1 /\ tape'[i] \in Ragged)
      BY <1>0, <1>3 DEF Torn
    <3> QED
      BY <1>3, <3>1, Framed DEF Torn, TrueLines
  <2> QED
    BY <1>0, <1>3, <2>1 DEF Torn, TrueLines
<1>4. ASSUME NEW line \in Fresh, Written(line) PROVE TrueLines'
  <2>1. CASE UNCHANGED recorder
    BY <2>1 DEF recorder, TrueLines
  <2>2. CASE Wrote(line)
    <3>1. ASSUME NEW i \in 1..Len(tape') PROVE Truthful(tape'[i])
      <4>1. CASE i \in 1..Len(tape) /\ tape'[i] = tape[i]
        BY <4>1 DEF TrueLines
      <4>2. CASE \E k \in 1..Len(held) : Truthful(held[k]) => Truthful(tape'[i])
        BY <4>2 DEF TrueLines
      <4>3. CASE tape'[i] = line \/ tape'[i] = Line("recorder_stopped")
        BY <4>3, Framed, Fresher
      <4> QED
        BY <2>2, <4>1, <4>2, <4>3, Entries
    <3> QED
      BY <1>0, <2>2, <3>1 DEF Wrote, TrueLines
  <2>3. CASE Refused(line)
    <3>1. ASSUME NEW i \in 1..Len(held') PROVE Truthful(held'[i])
      <4>1. i \in 1..Len(held) \/ i = Len(held) + 1
        BY <2>3, RefusedType, Fresher
      <4> QED
        BY <2>3, <4>1, RefusedType, Fresher DEF TrueLines
    <3> QED
      BY <2>3, <3>1, RefusedType, Fresher DEF TrueLines
  <2> QED
    BY <1>4, <2>1, <2>2, <2>3 DEF Written
<1> QED
  BY <1>1, <1>2, <1>3, <1>4, Effects

LEMMA TornIsStep ==
    ASSUME TapeType, CountType, ThreadType, ThreadsAre, TornIs, [Next]_vars
    PROVE  TornIs'
<1> DEFINE n == Len(tape)
           m == Len(held)
<1>0. n \in Nat /\ m \in Nat /\ Len(<<>>) = 0
  BY DEF TapeType
<1>1. CASE Still
  BY <1>1 DEF Still, recorder, TornIs
<1>2. CASE Began /\ proxy = "down" /\ proxy' = "up"
  <2>1. n + 1 <= Len(tape') /\ tape'[n + 1].kind = "session_start" /\ ~CutShort(tape'[n + 1])
    BY <1>0, <1>2, Framed DEF Began
  <2>2. ASSUME NEW i \in 1..Len(tape'), CutShort(tape'[i])
        PROVE  i # Len(tape') /\ tape'[i + 1].kind = "session_start"
    <3>1. i \in 1..n
      <4>1. i \in 1..n \/ i = n + 1 \/ (i = n + 2 /\ tape'[i] = Line("recorder_stopped"))
        BY <1>0, <1>2 DEF Began
      <4> QED
        BY <2>1, <2>2, <4>1, Framed
    <3>2. CutShort(tape[i])
      BY <1>2, <2>2, <3>1 DEF Began
    <3>3. CASE i = n
      BY <1>0, <2>1, <3>3
    <3>4. CASE i # n
      <4>1. tape[i + 1].kind = "session_start" /\ i + 1 \in 1..n
        BY <1>0, <3>1, <3>2, <3>4 DEF TornIs
      <4> QED
        BY <1>0, <1>2, <2>1, <4>1 DEF Began
    <3> QED
      BY <3>3, <3>4
  <2> QED
    BY <1>0, <1>2, <2>2 DEF Began, TornIs
<1>3. CASE Torn
  <2>1. ASSUME NEW i \in 1..Len(tape'), CutShort(tape'[i]), i # Len(tape')
        PROVE  tape'[i + 1].kind = "session_start"
    <3>1. i \in 1..n /\ CutShort(tape[i])
      BY <1>0, <1>3, <2>1 DEF Torn
    <3>2. i # n /\ tape[i + 1].kind = "session_start" /\ i + 1 \in 1..n
      BY <1>0, <1>3, <3>1 DEF TornIs, Torn
    <3> QED
      BY <1>3, <3>2 DEF Torn
  <2> QED
    BY <1>0, <1>3, <2>1 DEF Torn, TornIs
<1>4. ASSUME NEW line \in Fresh, Written(line) PROVE TornIs'
  <2>1. CASE UNCHANGED recorder
    BY <1>4, <2>1 DEF recorder, TornIs, Written
  <2>2. CASE Wrote(line)
    <3>1. n + 1 <= Len(tape')
      BY <1>0, <2>2 DEF Wrote
    <3>2. ASSUME NEW i \in 1..Len(tape'), CutShort(tape'[i])
          PROVE  i # Len(tape') /\ tape'[i + 1].kind = "session_start"
      <4>1. i \in 1..n /\ CutShort(tape[i])
        <5>1. CASE i \in 1..Len(tape) /\ tape'[i] = tape[i]
          BY <3>2, <5>1
        <5>2. CASE \E k \in 1..Len(held) : tape'[i].kind = held[k].kind
          BY <3>2, <5>2 DEF TornIs, CutShort
        <5>3. CASE tape'[i] = line \/ tape'[i] = Line("recorder_stopped")
          BY <3>2, <5>3, Framed, Fresher
        <5> QED
          BY <2>2, <5>1, <5>2, <5>3, Entries
      <4>2. i # n /\ tape[i + 1].kind = "session_start" /\ i + 1 \in 1..n
        BY <1>0, <1>4, <4>1 DEF TornIs, Written
      <4> QED
        BY <1>0, <2>2, <3>1, <4>2 DEF Wrote
    <3> QED
      BY <1>0, <2>2, <3>2 DEF Wrote, TornIs
  <2>3. CASE Refused(line)
    <3>1. ASSUME NEW i \in 1..Len(held') PROVE ~CutShort(held'[i])
      <4>1. i \in 1..Len(held) \/ i = Len(held) + 1
        BY <2>3, RefusedType, Fresher
      <4> QED
        BY <2>3, <4>1, RefusedType, Fresher DEF TornIs
    <3>2. tape' = tape /\ proxy # "down"
      BY <1>4, <2>3, RefusedType, Fresher DEF Written
    <3> QED
      BY <3>1, <3>2 DEF TornIs
  <2> QED
    BY <1>4, <2>1, <2>2, <2>3 DEF Written
<1> QED
  BY <1>1, <1>2, <1>3, <1>4, Effects

-----------------------------------------------------------------------------
(* The cap *)

\* The lines counted up to a line the step leaves alone stay the same; they are no more than all.
LEMMA Counted ==
    ASSUME NEW i \in Nat
    PROVE  /\ IsFiniteSet(OnTime(i)) /\ Cardinality(OnTime(i)) \in Nat /\ Cardinality(OnTime(i)) <= i
           /\ (\A j \in 1..i : tape'[j] = tape[j]) => OnTime(i)' = OnTime(i)
<1>1. IsFiniteSet(1..i) /\ Cardinality(1..i) = i
  <2>1. IsFiniteSet(1..i) /\ Cardinality(1..i) = IF 1 > i THEN 0 ELSE i - 1 + 1
    BY FS_Interval
  <2> QED
    BY <2>1
<1>2. OnTime(i) \in SUBSET (1..i)
  BY DEF OnTime
<1>3. IsFiniteSet(OnTime(i)) /\ Cardinality(OnTime(i)) <= i
  BY <1>1, <1>2, FS_Subset
<1>4. Cardinality(OnTime(i)) \in Nat
  BY <1>3, FS_CardinalityType
<1>5. (\A j \in 1..i : tape'[j] = tape[j]) => OnTime(i)' = OnTime(i)
  BY DEF OnTime
<1> QED
  BY <1>3, <1>4, <1>5

LEMMA BelowStep ==
    ASSUME TapeType, CountType, ThreadType, ThreadsAre, Below, [Next]_vars
    PROVE  Below'
<1> SUFFICES ASSUME NEW n \in Nat, n = Len(tape), NEW m \in Nat, m = Len(held)
             PROVE  Below'
  BY DEF TapeType
<1> DEFINE Request(i) == tape[i].kind \in {"completion", "error"} /\ ~tape[i].late
           Room == proxy # "down" /\ ~stopped =>
                      size < scenario.cap /\ Cardinality(OnTime(Len(tape))) <= size
           Early == \A i \in 1..Len(tape) : Request(i) => Cardinality(OnTime(i - 1)) < scenario.cap
<1>0. /\ n \in Nat /\ n = Len(tape) /\ m \in Nat /\ m = Len(held) /\ size \in Nat
      /\ scenario.cap \in Nat /\ scenario' = scenario
  BY Scenario, Effects DEF TapeType
<1>1. Room /\ Early
  BY DEF Below
<1>2. Room' /\ Early' => Below'
  BY DEF Below
<1>3. ASSUME \A i \in 1..n : tape'[i] = tape[i], NEW i \in 1..n, Request(i)'
      PROVE  Cardinality(OnTime(i - 1))' < scenario.cap'
  <2>1. Request(i) /\ i - 1 \in Nat /\ \A j \in 1..(i - 1) : tape'[j] = tape[j]
    BY <1>0, <1>3
  <2>2. OnTime(i - 1)' = OnTime(i - 1)
    BY <2>1, Counted
  <2> QED
    BY <1>0, <1>1, <2>1, <2>2
<1>4. CASE Still
  <2>1. tape' = tape /\ size' = size /\ stopped' = stopped /\ (proxy' # "down" => proxy # "down")
    BY <1>4 DEF Still, recorder
  <2>2. OnTime(n)' = OnTime(n)
    BY <1>0, <2>1, Counted
  <2>3. Room'
    BY <1>0, <1>1, <2>1, <2>2
  <2>4. Early'
    BY <1>0, <1>3, <2>1
  <2> QED
    BY <1>2, <2>3, <2>4
<1>5. CASE Began
  <2>1. ASSUME ~stopped' PROVE size' < scenario.cap' /\ Cardinality(OnTime(Len(tape)))' <= size'
    <3>1. Len(tape') = n + 1 /\ size' = n + 1 /\ n + 1 < scenario.cap
      BY <1>5, <2>1 DEF Began
    <3>2. OnTime(n + 1)' \in SUBSET (1..(n + 1))
      BY DEF OnTime
    <3>3. IsFiniteSet(1..(n + 1)) /\ Cardinality(1..(n + 1)) = n + 1
      <4>1. IsFiniteSet(1..(n + 1)) /\ Cardinality(1..(n + 1)) = IF 1 > n + 1 THEN 0 ELSE n + 1 - 1 + 1
        BY <1>0, FS_Interval, SMTT(30)
      <4> QED
        BY <1>0, <4>1
    <3>4. Cardinality(OnTime(n + 1)') <= n + 1
      BY <3>2, <3>3, FS_Subset
    <3> QED
      BY <1>0, <3>1, <3>4
  <2>2. ASSUME NEW i \in 1..Len(tape'), Request(i)' PROVE Cardinality(OnTime(i - 1))' < scenario.cap'
    <3>1. i \in 1..n \/ i = n + 1 \/ (i = n + 2 /\ tape'[i] = Line("recorder_stopped"))
      BY <1>0, <1>5 DEF Began
    <3>2. i \in 1..n
      BY <1>5, <2>2, <3>1, Framed DEF Began
    <3> QED
      BY <1>3, <1>5, <2>2, <3>2 DEF Began
  <2> QED
    BY <1>2, <2>1, <2>2
<1>6. CASE Torn
  <2>1. ASSUME NEW i \in 1..Len(tape'), Request(i)' PROVE Cardinality(OnTime(i - 1))' < scenario.cap'
    <3>1. i \in 1..n \/ (i = n + 1 /\ tape'[i] \in Ragged)
      BY <1>0, <1>6 DEF Torn
    <3>2. i \in 1..n
      BY <2>1, <3>1, Framed
    <3> QED
      BY <1>3, <1>6, <2>1, <3>2 DEF Torn
  <2>2. Room'
    BY <1>6 DEF Torn
  <2> QED
    BY <1>2, <2>1, <2>2
<1>7. ASSUME NEW line \in Fresh, Written(line) PROVE Below'
  <2>1. CASE tape' = tape /\ size' = size /\ stopped' = stopped
    <3>1. proxy # "down" /\ proxy' # "down"
      BY <1>7 DEF Written
    <3>2. OnTime(n)' = OnTime(n)
      BY <1>0, <2>1, Counted
    <3>3. Room'
      BY <1>0, <1>1, <2>1, <3>1, <3>2
    <3>4. Early'
      BY <1>0, <1>3, <2>1
    <3> QED
      BY <1>2, <3>3, <3>4
  <2>2. CASE Wrote(line) /\ ~stopped
    <3>1. size < scenario.cap /\ Cardinality(OnTime(n)) <= size
      BY <1>1, <1>7, <2>2 DEF Written
    <3>2. OnTime(n)' = OnTime(n) /\ IsFiniteSet(OnTime(n)) /\ Cardinality(OnTime(n)) \in Nat
      BY <1>0, <2>2, Counted DEF Wrote
    <3>3. ASSUME NEW j \in (n + 1)..(n + m) PROVE tape'[j].late
      <4>1. j - n \in 1..m /\ n + (j - n) = j
        BY <1>0
      <4> QED
        BY <2>2, <4>1 DEF Wrote
    <3>4. OnTime(n + m)' = OnTime(n)
      <4>1. ASSUME NEW j \in 1..(n + m), ~tape'[j].late PROVE j \in 1..n
        BY <1>0, <3>3, <4>1
      <4>2. /\ OnTime(n + m)' = {j \in 1..(n + m) : ~tape'[j].late}
            /\ OnTime(n)' = {j \in 1..n : ~tape'[j].late}
        BY <1>0 DEF OnTime
      <4>3. \A j \in 1..n : j \in 1..(n + m)
        BY <1>0
      <4> QED
        BY <3>2, <4>1, <4>2, <4>3
    <3>5. OnTime(n + m + 1)' = OnTime(n + m)' \cup {n + m + 1}
      <4>1. tape'[n + m + 1] = line /\ ~line.late
        BY <2>2, Fresher DEF Wrote
      <4>2. /\ OnTime(n + m)' = {j \in 1..(n + m) : ~tape'[j].late}
            /\ OnTime(n + m + 1)' = {j \in 1..(n + m + 1) : ~tape'[j].late}
        BY DEF OnTime
      <4>3. \A j : j \in 1..(n + m + 1) <=> j \in 1..(n + m) \/ j = n + m + 1
        BY <1>0
      <4> QED
        BY <4>1, <4>2, <4>3
    <3>6. Cardinality(OnTime(n + m + 1)') = Cardinality(OnTime(n)) + 1
      <4>1. n + m + 1 \notin OnTime(n)
        BY <1>0 DEF OnTime
      <4> QED
        BY <3>2, <3>4, <3>5, <4>1, FS_AddElement
    <3>7. ASSUME ~stopped' PROVE size' < scenario.cap' /\ Cardinality(OnTime(Len(tape)))' <= size'
      <4>1. Len(tape') = n + m + 1 /\ size' = size + 1 /\ size + 1 < scenario.cap
        BY <2>2, <3>7 DEF Wrote
      <4> QED
        BY <1>0, <3>1, <3>2, <3>6, <4>1
    <3>8. ASSUME NEW i \in 1..Len(tape'), Request(i)' PROVE Cardinality(OnTime(i - 1))' < scenario.cap'
      <4>1. CASE i \in 1..n
        BY <1>3, <2>2, <3>8, <4>1 DEF Wrote
      <4>2. CASE i = n + m + 1
        <5>1. i - 1 = n + m
          BY <1>0, <4>2
        <5> QED
          BY <1>0, <3>1, <3>2, <3>4, <5>1
      <4>3. i \in 1..n \/ i = n + m + 1
        BY <2>2, <3>8, Entries, Framed
      <4> QED
        BY <4>1, <4>2, <4>3
    <3> QED
      BY <1>2, <3>7, <3>8
  <2> QED
    BY <1>7, <2>1, <2>2, RefusedType, Fresher DEF Written, recorder
<1> QED
  BY <1>4, <1>5, <1>6, <1>7, Effects

-----------------------------------------------------------------------------
(* Threads and clients *)

\* What a client may ask is a list of messages, whatever it rewinds to.
LEMMA SaidMore ==
    ASSUME NEW c \in Clients, NEW r \in Requests, NEW list \in Lists, NEW k \in 0..Len(list), NEW more \in Nat
    PROVE  Extended(c, r, list, k, more) \in Lists
<1>1. Len(list) \in Nat /\ \A i \in 1..k : list[i] \in Messages
  BY DEF Lists
<1>2. SubSeq(list, 1, k) \in Seq(Messages)
  BY <1>1, SubSeqProperties
<1>3. \A i \in 1..more : Message(c, r, i) \in Messages
  BY DEF Message, Messages
<1>4. [i \in 1..more |-> Message(c, r, i)] \in Seq(Messages)
  BY <1>3, IsASeq
<1> QED
  BY <1>2, <1>4, ConcatProperties DEF Extended, Lists

LEMMA AskType ==
    ASSUME ClientType, BoundsAssumption, NEW c \in Clients, NEW r \in Requests, NEW ask \in Asks(c, r)
    PROVE  ask \in States
<1> DEFINE now == client[c]
           same == Len(now.list)
<1>1. now \in States /\ now.list \in Lists /\ same \in Nat /\ <<>> \in Lists /\ Len(<<>>) = 0
  <2>1. now \in States
    BY DEF ClientType
  <2>2. now.list \in Lists
    BY <2>1 DEF States
  <2> QED
    BY <2>1, <2>2 DEF Lists
<1>2. r \in 0..MaxRequests
  BY DEF Requests, BoundsAssumption
<1>3. <<System>> \o Extended(c, r, <<>>, 0, 1) \in Lists
  <2>1. Extended(c, r, <<>>, 0, 1) \in Lists
    BY <1>1, SaidMore
  <2>2. <<System>> \in Seq(Messages)
    BY DEF Messages
  <2> QED
    BY <2>1, <2>2, ConcatProperties DEF Lists
<1>4. Extended(c, r, now.list, same, 2) \in Lists
  <2>1. same \in 0..Len(now.list)
    BY <1>1
  <2> QED
    BY <1>1, <2>1, SaidMore
<1>5. ASSUME NEW k \in MinLcp..(same - 1) PROVE Extended(c, r, now.list, k, 1) \in Lists
  <2>1. k \in 0..same
    BY <1>1 DEF MinLcp
  <2> QED
    BY <1>1, <2>1, SaidMore
<1>6. \/ ask = [now EXCEPT !.list = <<System>> \o Extended(c, r, <<>>, 0, 1), !.talk = r, !.rewound = FALSE]
      \/ ask = now
      \/ ask = [now EXCEPT !.list = Extended(c, r, now.list, same, 2)]
      \/ \E k \in MinLcp..(same - 1) :
            ask = [now EXCEPT !.list = Extended(c, r, now.list, k, 1), !.rewound = TRUE]
  BY DEF Asks
<1> HIDE DEF now, same
<1>7. ASSUME NEW list \in Lists
      PROVE  /\ [now EXCEPT !.list = list, !.talk = r, !.rewound = FALSE] \in States
             /\ [now EXCEPT !.list = list] \in States
             /\ [now EXCEPT !.list = list, !.rewound = TRUE] \in States
  BY <1>1, <1>2 DEF States
<1>8. CASE ask = [now EXCEPT !.list = <<System>> \o Extended(c, r, <<>>, 0, 1), !.talk = r, !.rewound = FALSE]
  BY <1>3, <1>7, <1>8
<1>9. CASE ask = [now EXCEPT !.list = Extended(c, r, now.list, same, 2)]
  BY <1>4, <1>7, <1>9
<1>10. CASE \E k \in MinLcp..(same - 1) :
               ask = [now EXCEPT !.list = Extended(c, r, now.list, k, 1), !.rewound = TRUE]
  BY <1>5, <1>7, <1>10
<1> QED
  BY <1>1, <1>6, <1>8, <1>9, <1>10

\* What a client asks is what its thread forwards.
LEMMA Sends ==
    ASSUME ClientType, CountType, NEW c \in Clients, Send(c)
    PROVE  /\ arrived' = arrived + 1 /\ arrived' \in Requests /\ arrived' \in 0..scenario.requests
           /\ \E ask \in States :
                /\ client' = [client EXCEPT ![c] = [ask EXCEPT !.waits = arrived']]
                /\ handler' = [handler EXCEPT ![arrived'] =
                     [None EXCEPT !.at = "read", !.list = ask.list, !.from = <<c, ask.talk, ask.rewound>>]]
<1>1. /\ arrived' = arrived + 1 /\ arrived \in 0..scenario.requests /\ arrived < scenario.requests
      /\ scenario.requests \in 0..MaxRequests /\ MaxRequests \in Nat
  BY Scenario DEF Send, CountType
<1>2. arrived' \in Requests /\ arrived' \in 0..scenario.requests
  BY <1>1 DEF Requests
<1>3. PICK ask \in Asks(c, arrived') :
        /\ client' = [client EXCEPT ![c] = [ask EXCEPT !.waits = arrived']]
        /\ handler' = [handler EXCEPT ![arrived'] =
             [None EXCEPT !.at = "read", !.list = ask.list, !.from = <<c, ask.talk, ask.rewound>>]]
  BY DEF Send
<1>4. \A r \in Requests : \A a \in Asks(c, r) : a \in States
  BY AskType, BoundsAssumption
<1> QED
  BY <1>1, <1>2, <1>3, <1>4

LEMMA NoThread == BoundsAssumption => None \in Threads
    BY DEF None, Threads, Lists, Senders, Pieces

\* A thread that a step moves.
LEMMA Moved ==
    ASSUME ThreadType, ThreadsAre, NEW r \in Requests, NEW to \in Threads,
           to.seen <= to.fed, to.at = "record" /\ ~to.cut => to.fed = Pieces,
           proxy # "down" \/ to.at = "none", proxy' = proxy,
           handler' = [handler EXCEPT ![r] = to]
    PROVE  ThreadType' /\ ThreadsAre'
<1>1. ThreadType'
  BY DEF ThreadType
<1>2. \A q \in Requests : handler'[q] = IF q = r THEN to ELSE handler[q]
  BY DEF ThreadType
<1> QED
  BY <1>1, <1>2 DEF ThreadsAre

LEMMA ThreadsStep ==
    ASSUME TapeType, ThreadType, ClientType, CountType, ThreadsAre, [Next]_vars
    PROVE  ThreadType' /\ ThreadsAre'
<1> USE DEF Pieces
<1>0. None \in Threads /\ None.at = "none" /\ None.seen = 0 /\ None.fed = 0 /\ ~None.cut
  BY NoThread, BoundsAssumption DEF None
<1>1. CASE Start \/ Shutdown
  <2>1. handler' = handler /\ proxy' # "down"
    BY <1>1 DEF Start, Shutdown
  <2> QED
    BY <2>1 DEF ThreadType, ThreadsAre
<1>2. CASE Gone
  <2>1. handler' = [r \in Requests |-> None]
    BY <1>2 DEF Gone
  <2> QED
    BY <1>0, <2>1 DEF ThreadType, ThreadsAre
<1>3. ASSUME NEW c \in Clients, Send(c) PROVE ThreadType' /\ ThreadsAre'
  <2>1. PICK ask \in States :
          handler' = [handler EXCEPT ![arrived'] =
             [None EXCEPT !.at = "read", !.list = ask.list, !.from = <<c, ask.talk, ask.rewound>>]]
    BY <1>3, Sends
  <2> DEFINE to == [None EXCEPT !.at = "read", !.list = ask.list, !.from = <<c, ask.talk, ask.rewound>>]
  <2>2. ask.list \in Lists /\ <<c, ask.talk, ask.rewound>> \in Senders
    BY DEF States, Senders
  <2>3. to \in Threads /\ to.at = "read" /\ to.seen = 0 /\ to.fed = 0
    BY <1>0, <2>2 DEF Threads, None
  <2>4. proxy' = proxy /\ proxy # "down" /\ arrived' \in Requests
    BY <1>3, Sends DEF Send
  <2> HIDE DEF to
  <2>5. PICK r \in Requests : r = arrived'
    BY <2>4
  <2>6. handler' = [handler EXCEPT ![r] = to]
    BY <2>1, <2>5 DEF to
  <2>7. to.seen <= to.fed /\ to.at # "record"
    BY <2>3
  <2> QED
    BY <2>3, <2>4, <2>6, <2>7, Moved
<1>4. ASSUME NEW c \in Clients, GiveUp(c) PROVE ThreadType' /\ ThreadsAre'
  BY <1>4 DEF GiveUp, ThreadType, ThreadsAre
<1>5. ASSUME NEW r \in Requests PROVE handler[r] \in Threads
  BY DEF ThreadType
<1>6. ASSUME NEW r \in Requests, Handle(r) PROVE ThreadType' /\ ThreadsAre'
  <2> DEFINE h == handler[r]
  <2>0. h \in Threads /\ h.fed \in 0..4 /\ h.seen \in 0..4 /\ h.cut \in BOOLEAN /\ h.seen <= h.fed
    BY <1>5 DEF Threads, ThreadsAre
  <2>1. h.at # "none" => proxy # "down"
    BY DEF ThreadsAre
  <2> HIDE DEF h
  <2>2. CASE Unreachable(r)
    <3> DEFINE to == [h EXCEPT !.at = "fail"]
    <3>1. to \in Threads /\ to.at = "fail" /\ to.seen = h.seen /\ to.fed = h.fed
      BY <2>0 DEF Threads
    <3>2. handler' = [handler EXCEPT ![r] = to] /\ proxy' = proxy /\ h.at = "read"
      BY <2>2 DEF Unreachable, ToThread, h
    <3> HIDE DEF to
    <3> QED
      BY <2>0, <2>1, <3>1, <3>2, Moved
  <2>3. CASE Whole(r)
    <3>1. PICK cut \in BOOLEAN :
            /\ handler' = [handler EXCEPT ![r] = [h EXCEPT !.at = "record", !.cut = cut, !.fed = 4,
                                                           !.seen = IF cut THEN 0 ELSE 4]]
            /\ proxy' = proxy /\ h.at = "read"
      BY <2>3 DEF Whole, ToThread, h
    <3> DEFINE some == IF cut THEN 0 ELSE 4
               to == [h EXCEPT !.at = "record", !.cut = cut, !.fed = 4, !.seen = some]
    <3>3. handler' = [handler EXCEPT ![r] = to]
      BY <3>1
    <3>4. some \in {0, 4}
      OBVIOUS
    <3> HIDE DEF some
    <3>2. to \in Threads /\ to.at = "record" /\ to.seen = some /\ to.fed = 4
      <4>1. cut \in BOOLEAN /\ some \in 0..4
        BY <3>1, <3>4
      <4>2. \A f \in 0..4 : LET t == [h EXCEPT !.at = "record", !.cut = cut, !.fed = f, !.seen = some] IN
                            t \in Threads /\ t.at = "record" /\ t.seen = some /\ t.fed = f
        BY <2>0, <4>1 DEF Threads
      <4> QED
        BY <4>2
    <3>5. to.seen <= to.fed
      BY <3>2, <3>4
    <3> HIDE DEF to
    <3> QED
      BY <2>1, <3>1, <3>2, <3>3, <3>5, Moved
  <2>4. CASE Streams(r)
    <3> DEFINE to == [h EXCEPT !.at = "relay"]
    <3>1. to \in Threads /\ to.at = "relay" /\ to.seen = h.seen /\ to.fed = h.fed
      BY <2>0 DEF Threads
    <3>2. handler' = [handler EXCEPT ![r] = to] /\ proxy' = proxy /\ h.at = "read"
      BY <2>4 DEF Streams, ToThread, h
    <3> HIDE DEF to
    <3> QED
      BY <2>0, <2>1, <3>1, <3>2, Moved
  <2>5. CASE Chunk(r)
    <3>1. PICK fed \in (h.fed + 1)..4, broken \in BOOLEAN :
            /\ handler' = [handler EXCEPT ![r] = [h EXCEPT !.fed = fed, !.cut = broken,
                                                     !.at = IF broken THEN "record" ELSE h.at,
                                                     !.seen = IF broken THEN h.seen ELSE fed]]
            /\ proxy' = proxy /\ h.at = "relay"
      BY <2>5 DEF Chunk, ToThread, h
    <3> DEFINE at == IF broken THEN "record" ELSE h.at
               some == IF broken THEN h.seen ELSE fed
               to == [h EXCEPT !.fed = fed, !.cut = broken, !.at = at, !.seen = some]
    <3>2. fed \in 0..4 /\ h.seen <= fed
      BY <2>0
    <3>3. handler' = [handler EXCEPT ![r] = to]
      BY <3>1
    <3>4. at \in {"record", "relay"} /\ (~broken => at = "relay") /\ some \in 0..4 /\ some <= fed
      BY <2>0, <3>1, <3>2
    <3> HIDE DEF at, some
    <3>5. to \in Threads /\ to.cut = broken /\ to.at = at /\ to.fed = fed /\ to.seen = some
      BY <2>0, <3>2, <3>4 DEF Threads
    <3> HIDE DEF to
    <3>6. to.seen <= to.fed /\ ~(to.at = "record" /\ ~to.cut) /\ proxy # "down"
      BY <2>1, <3>1, <3>4, <3>5
    <3> QED
      BY <3>1, <3>3, <3>5, <3>6, Moved
  <2>6. CASE StreamEnds(r)
    <3>1. PICK broken \in BOOLEAN :
            /\ handler' = [handler EXCEPT ![r] = [h EXCEPT !.at = "record", !.cut = broken]]
            /\ proxy' = proxy /\ h.at = "relay" /\ h.fed = 4
      BY <2>6 DEF StreamEnds, ToThread, h
    <3> DEFINE to == [h EXCEPT !.at = "record", !.cut = broken]
    <3>2. to \in Threads /\ to.at = "record" /\ to.seen = h.seen /\ to.fed = 4
      BY <2>0, <3>1 DEF Threads
    <3>3. handler' = [handler EXCEPT ![r] = to]
      BY <3>1
    <3> HIDE DEF to
    <3>4. to.seen <= to.fed /\ proxy # "down" /\ proxy' = proxy
      BY <2>0, <2>1, <3>1, <3>2
    <3> QED
      BY <3>2, <3>3, <3>4, Moved
  <2>7. CASE UpstreamDies(r) \/ Record(r)
    <3>1. handler' = [handler EXCEPT ![r] = None] /\ proxy' = proxy
      BY <2>7 DEF UpstreamDies, Record, ToThread
    <3>2. None.seen <= None.fed /\ None.at # "record"
      BY <1>0
    <3> QED
      BY <1>0, <3>1, <3>2, Moved
  <2> QED
    BY <1>6, <2>2, <2>3, <2>4, <2>5, <2>6, <2>7 DEF Handle
<1>7. CASE UNCHANGED vars
  BY <1>7 DEF vars, ThreadType, ThreadsAre
<1> QED
  BY <1>1, <1>2, <1>3, <1>4, <1>6, <1>7 DEF Next

LEMMA CountStep ==
    ASSUME TapeType, ThreadType, ClientType, CountType, ThreadsAre, [Next]_vars
    PROVE  CountType' /\ arrived' \in {arrived, arrived + 1}
<1>0. scenario' = scenario /\ arrived \in Nat /\ scenario.failures \in Nat /\ scenario.ends \in Nat
  BY Effects, Scenario DEF CountType
<1>1. ASSUME NEW line, Write(line) PROVE failures' \in Nat /\ failures' <= scenario.failures
  BY <1>0, <1>1 DEF Write, Appended, Refused, recorder, CountType
<1>2. CASE Start
  BY <1>0, <1>2 DEF Start, CountType
<1>3. CASE Shutdown
  BY <1>0, <1>1, <1>3 DEF Shutdown, CountType
<1>4. CASE Gone
  BY <1>0, <1>4 DEF Gone, CountType
<1>5. ASSUME NEW c \in Clients, Send(c) PROVE CountType' /\ arrived' = arrived + 1
  <2>1. arrived' = arrived + 1 /\ arrived' \in 0..scenario.requests
    BY <1>5, Sends
  <2> QED
    BY <1>0, <1>5, <2>1 DEF Send, recorder, CountType
<1>6. ASSUME NEW c \in Clients, GiveUp(c) PROVE CountType' /\ arrived' = arrived
  BY <1>6 DEF GiveUp, recorder, CountType
<1>7. ASSUME NEW r \in Requests, NEW to, ToThread(r, to) PROVE CountType' /\ arrived' = arrived
  BY <1>7 DEF ToThread, recorder, CountType
<1>8. ASSUME NEW r \in Requests, Handle(r), ~Record(r) PROVE CountType' /\ arrived' = arrived
  BY <1>7, <1>8 DEF Handle, Unreachable, Whole, Streams, Chunk, StreamEnds, UpstreamDies
<1>9. ASSUME NEW r \in Requests, Record(r) PROVE CountType' /\ arrived' = arrived
  BY <1>0, <1>1, <1>9 DEF Record, CountType
<1>10. CASE UNCHANGED vars
  BY <1>10 DEF vars, recorder, CountType
<1> QED
  BY <1>2, <1>3, <1>4, <1>5, <1>6, <1>8, <1>9, <1>10 DEF Next

LEMMA ClientStep ==
    ASSUME TapeType, ThreadType, ClientType, CountType, ThreadsAre, [Next]_vars
    PROVE  ClientType'
<1>0. arrived \in Nat /\ arrived' \in Nat /\ arrived <= arrived'
  <2>1. arrived' \in {arrived, arrived + 1} /\ arrived \in Nat
    BY CountStep, Scenario DEF CountType
  <2> QED
    BY <2>1
<1>1. \A c \in Clients : client[c] \in States /\ client[c].waits <= arrived'
  <2> SUFFICES ASSUME NEW c \in Clients PROVE client[c] \in States /\ client[c].waits <= arrived'
    OBVIOUS
  <2>1. client[c] \in States /\ client[c].waits <= arrived
    BY DEF ClientType
  <2>2. client[c].waits \in Nat
    BY <2>1 DEF States
  <2> QED
    BY <1>0, <2>1, <2>2
<1>10. \A s \in States : [s EXCEPT !.waits = 0] \in States /\ [s EXCEPT !.waits = 0].waits = 0
  BY BoundsAssumption DEF States
<1>2. ASSUME NEW x, client' = [client EXCEPT ![x].waits = 0] PROVE ClientType'
  <2>1. \A c \in Clients : client'[c] = client[c] \/ client'[c] = [client[c] EXCEPT !.waits = 0]
    BY <1>2 DEF ClientType
  <2>2. client' = [c \in Clients |-> client'[c]]
    BY <1>2 DEF ClientType
  <2>3. \A c \in Clients : client'[c] \in States /\ client'[c].waits <= arrived'
    <3> SUFFICES ASSUME NEW c \in Clients PROVE client'[c] \in States /\ client'[c].waits <= arrived'
      OBVIOUS
    <3>1. CASE client'[c] = client[c]
      BY <1>1, <3>1
    <3>2. CASE client'[c] = [client[c] EXCEPT !.waits = 0]
      BY <1>0, <1>1, <1>10, <3>2
    <3> QED
      BY <2>1, <3>1, <3>2
  <2> QED
    BY <2>2, <2>3 DEF ClientType
<1>3. CASE client' = client
  BY <1>1, <1>3 DEF ClientType
<1>4. ASSUME NEW r, Answered(r) PROVE ClientType'
  BY <1>2, <1>3, <1>4 DEF Answered
<1>5. CASE Gone
  <2>1. client' = [c \in Clients |-> [client[c] EXCEPT !.waits = 0]]
    BY <1>5 DEF Gone
  <2>2. \A c \in Clients : client'[c] \in States /\ client'[c].waits = 0
    BY <1>1, <1>10, <2>1
  <2> QED
    BY <1>0, <2>1, <2>2 DEF ClientType
<1>6. ASSUME NEW c \in Clients, Send(c) PROVE ClientType'
  <2>1. PICK ask \in States : client' = [client EXCEPT ![c] = [ask EXCEPT !.waits = arrived']]
    BY <1>6, Sends
  <2>2. arrived' \in 0..MaxRequests
    <3>1. arrived' \in Requests
      BY <1>6, Sends
    <3> QED
      BY <3>1, BoundsAssumption DEF Requests
  <2> DEFINE asks == [ask EXCEPT !.waits = arrived']
  <2>3. asks \in States /\ asks.waits = arrived'
    BY <2>2 DEF States
  <2> HIDE DEF asks
  <2>4. client' = [client EXCEPT ![c] = asks]
    BY <2>1 DEF asks
  <2>5. \A d \in Clients : client'[d] \in States /\ client'[d].waits <= arrived'
    <3> SUFFICES ASSUME NEW d \in Clients PROVE client'[d] \in States /\ client'[d].waits <= arrived'
      OBVIOUS
    <3>1. client'[d] = IF d = c THEN asks ELSE client[d]
      BY <2>4 DEF ClientType
    <3> QED
      BY <1>0, <1>1, <2>3, <3>1
  <2>6. client' = [d \in Clients |-> client'[d]]
    BY <2>4 DEF ClientType
  <2> QED
    BY <2>5, <2>6 DEF ClientType
<1>7. ASSUME NEW c \in Clients, GiveUp(c) PROVE ClientType'
  BY <1>2, <1>7 DEF GiveUp
<1>8. ASSUME NEW r \in Requests, Handle(r) PROVE ClientType'
  BY <1>3, <1>4, <1>8 DEF Handle, Unreachable, Whole, Streams, Chunk, StreamEnds, UpstreamDies, Record
<1>9. CASE Start \/ Shutdown \/ UNCHANGED vars
  BY <1>3, <1>9 DEF Start, Shutdown, vars
<1> QED
  BY <1>5, <1>6, <1>7, <1>8, <1>9 DEF Next

-----------------------------------------------------------------------------
(* The theorems *)

LEMMA Initially == ASSUME Init PROVE IInv
<1>0. <<>> \in Seq(Lines) /\ <<>> \in Lists /\ Len(<<>>) = 0
  BY DEF Lists
<1>1. CountType
  BY ScenariosAssumption, BoundsAssumption DEF Init, CountType
<1>2. ThreadType /\ ThreadsAre
  <2>1. None \in Threads /\ None.at = "none" /\ None.seen = 0 /\ None.fed = 0
    BY NoThread, BoundsAssumption DEF None
  <2> QED
    BY <2>1 DEF Init, ThreadType, ThreadsAre
<1>3. ClientType
  <2>1. Nothing \in States /\ Nothing.waits = 0
    BY <1>0, BoundsAssumption DEF Nothing, States
  <2> QED
    BY <2>1 DEF Init, ClientType
<1>4. tape = <<>> /\ held = <<>> /\ size = 0 /\ stopped = FALSE /\ proxy = "down"
  BY DEF Init
<1>5. TapeType
  BY <1>0, <1>4 DEF TapeType
<1>6. TrueLines /\ TornIs /\ Below
  BY <1>0, <1>4 DEF TrueLines, TornIs, Below
<1> QED
  BY <1>1, <1>2, <1>3, <1>5, <1>6 DEF IInv

\* The invariant holds in every state: no request, restart or failed write breaks a part of it.
THEOREM Invariance == Spec => []IInv
<1>1. Init => IInv
  BY Initially
<1>2. IInv /\ [Next]_vars => IInv'
  <2> SUFFICES ASSUME IInv, [Next]_vars PROVE IInv'
    OBVIOUS
  <2> USE DEF IInv
  <2>1. TapeType' /\ TrueLines' /\ TornIs' /\ Below'
    BY TapeTypeStep, TrueLinesStep, TornIsStep, BelowStep
  <2>2. ThreadType' /\ ThreadsAre' /\ ClientType' /\ CountType'
    BY ThreadsStep, ClientStep, CountStep
  <2> QED
    BY <2>1, <2>2
<1> QED
  BY <1>1, <1>2, PTL DEF Spec

\* What the tape says is true whatever died, failed or was cut: what a client was sent is on its
\* record, a line cut short leaves every record of a request a line that parses, and no restart lets
\* the tape past its cap (Recorder, scripts/capture_proxy.py).  Whether what parses is read
\* is for DecodedIsRead.
THEOREM TapeTrue == Spec => []TapeIsTrue
<1>1. IInv => TapeIsTrue
  <2> SUFFICES ASSUME IInv PROVE TapeIsTrue
    OBVIOUS
  <2> USE DEF IInv
  <2>1. /\ DOMAIN tape = 1..Len(tape) /\ DOMAIN held = 1..Len(held) /\ Len(tape) \in Nat
        /\ \A i \in 1..Len(tape) : tape[i] \in Lines
        /\ \A i \in 1..Len(held) : held[i] \in Lines
    BY DEF TapeType
  <2>2. \A l \in Lines : l.kind \in Kinds /\ l.late \in BOOLEAN
    BY DEF Lines, AnsweredLines, Kinds
  <2>3. TypeOK
    <3>1. \A i \in DOMAIN tape : tape[i].kind \in Kinds /\ tape[i].late \in BOOLEAN
      BY <2>1, <2>2
    <3>2. \A i \in DOMAIN held : held[i].kind \in Kinds
      BY <2>1, <2>2
    <3>3. /\ proxy \in {"up", "ending", "down"} /\ size \in Nat /\ stopped \in BOOLEAN
          /\ arrived \in 0..MaxRequests /\ ends <= scenario.ends /\ failures <= scenario.failures
      BY Scenario DEF CountType, TapeType
    <3>4. \A r \in Requests :
            /\ handler[r].at \in {"none", "read", "relay", "record", "fail"}
            /\ handler[r].seen <= handler[r].fed /\ handler[r].fed <= Pieces
      BY DEF ThreadType, ThreadsAre, Threads, Pieces
    <3>5. \A c \in Clients : client[c].waits \in 0..arrived
      <4>1. \A c \in Clients : client[c].waits \in 0..MaxRequests /\ client[c].waits <= arrived
        BY DEF ClientType, States
      <4> QED
        BY <3>3, <4>1, BoundsAssumption
    <3> QED
      BY <3>1, <3>2, <3>3, <3>4, <3>5 DEF TypeOK
  <2>4. RecordsWhatWasSent
    BY <2>1 DEF TrueLines, Truthful, RecordsWhatWasSent
  <2>5. TornEatsOnlyStart
    <3> SUFFICES ASSUME NEW i \in 1..Len(tape), ~Parses(tape, i)
                 PROVE  CutShort(tape[i]) \/ tape[i].kind = "session_start"
      BY <2>1 DEF TornEatsOnlyStart
    <3>1. CutShort(tape[i]) \/ (i # 1 /\ CutShort(tape[i - 1]))
      BY <2>1 DEF Parses
    <3>2. CASE i # 1 /\ CutShort(tape[i - 1])
      <4>1. i - 1 \in 1..Len(tape) /\ i - 1 # Len(tape) /\ i - 1 + 1 = i
        BY <2>1, <3>2
      <4> QED
        BY <3>2, <4>1 DEF TornIs
    <3> QED
      BY <3>1, <3>2
  <2>6. CapHolds
    BY <2>1 DEF Below, OnTime, CapHolds
  <2> QED
    BY <2>3, <2>4, <2>5, <2>6 DEF TapeIsTrue
<1> QED
  BY <1>1, Invariance, PTL

\* load_tape reads every record of a request from a tape that can be decoded.  The condition is
\* needed: of a tape on which a line was cut inside a character it reads none
\* (OnlyUnparseableSkipped is violated).
THEOREM DecodedIsRead == Spec => [](Decodes(tape) => OnlyUnparseableSkipped)
<1>1. TapeIsTrue => (Decodes(tape) => OnlyUnparseableSkipped)
  BY DEF TapeIsTrue, TornEatsOnlyStart, OnlyUnparseableSkipped, Readable
<1> QED
  BY <1>1, TapeTrue, PTL

-----------------------------------------------------------------------------
(* Streamed answers *)

\* A set of numbers that is not empty has a least one.
LEMMA LeastNumber ==
    ASSUME NEW T, T \subseteq Nat, T # {}
    PROVE  \E x \in T : \A y \in T : x <= y
<1> DEFINE R == {ss \in Nat \X Nat : ss[1] < ss[2]}
<1>1. \A x, y \in Nat : y < x => <<y, x>> \in R
  OBVIOUS
<1>2. IsWellFoundedOn(R, Nat)
  BY NatLessThanWellFounded DEF OpToRel
<1>3. PICK x \in T : \A y \in T : ~(<<y, x>> \in R)
  BY <1>2, WFMin
<1>4. \A y \in T : ~(y < x)
  BY <1>1, <1>3
<1> QED
  BY <1>4

\* Numbers that grow inside 1..n are all of them, in their order.
LEMMA GrowingIsIdentity ==
    ASSUME NEW n \in Nat, NEW f \in [1..n -> 1..n],
           \A i, j \in 1..n : i < j => f[i] < f[j]
    PROVE  f = [i \in 1..n |-> i]
<1>1. ASSUME NEW i \in 1..n, f[i] < i PROVE FALSE
  <2> DEFINE Low == {k \in Nat : k \in 1..n /\ f[k] < k}
  <2>1. Low \subseteq Nat /\ i \in Low
    BY <1>1
  <2>2. PICK k \in Low : \A m \in Low : k <= m
    BY <2>1, LeastNumber
  <2>3. k \in 1..n /\ f[k] < k /\ f[k] \in 1..n
    BY <2>2
  <2>4. f[k] \in Low
    BY <2>3
  <2> QED
    BY <2>2, <2>3, <2>4
<1>2. ASSUME NEW i \in 1..n, f[i] > i PROVE FALSE
  <2> DEFINE High == {k \in Nat : k \in 1..n /\ f[n + 1 - k] > n + 1 - k}
  <2>1. n + 1 - (n + 1 - i) = i /\ n + 1 - i \in 1..n
    OBVIOUS
  <2>2. High \subseteq Nat /\ n + 1 - i \in High
    BY <1>2, <2>1
  <2>3. PICK k \in High : \A m \in High : k <= m
    BY <2>2, LeastNumber
  <2> DEFINE at == n + 1 - k
             to == f[at]
  <2>4. k \in 1..n /\ at \in 1..n /\ to > at /\ to \in 1..n
    BY <2>3
  <2>5. f[to] > to
    BY <2>4
  <2>6. n + 1 - (n + 1 - to) = to /\ n + 1 - to \in 1..n /\ n + 1 - to < k
    <3> HIDE DEF to
    <3> QED
      BY <2>4
  <2>7. n + 1 - to \in High
    <3> DEFINE m == n + 1 - to
    <3>1. m \in Nat /\ n + 1 - m = to
      BY <2>4
    <3>2. f[n + 1 - m] > n + 1 - m
      BY <2>5, <3>1
    <3> QED
      BY <2>6, <3>1, <3>2
  <2> QED
    BY <2>3, <2>4, <2>6, <2>7
<1>3. \A i \in 1..n : f[i] = i
  BY <1>1, <1>2
<1> QED
  BY <1>3

LEMMA SortedIs ==
    ASSUME NEW n \in Nat
    PROVE  Sorted(1..n) = [i \in 1..n |-> i]
<1>1. Cardinality(1..n) = n
  BY FS_Interval
<1>2. [i \in 1..n |-> i] \in [1..n -> 1..n]
  OBVIOUS
<1>3. \E order \in [1..n -> 1..n] : \A i, j \in 1..n : i < j => order[i] < order[j]
  BY <1>2
<1>4. Sorted(1..n) \in [1..n -> 1..n]
      /\ \A i, j \in 1..n : i < j => Sorted(1..n)[i] < Sorted(1..n)[j]
  BY <1>1, <1>3 DEF Sorted
<1> QED
  BY <1>4, GrowingIsIdentity

\* The tables of calls the assembler may hold, and all it may hold.
Ids == {NoneYet} \cup {<<i>> : i \in Nat}
Slots == [id : Ids, name : Ids, arguments : Seq(Nat)]
Tables == UNION {[S -> Slots] : S \in SUBSET Nat}
Assemblers ==
    [content : Seq(Nat), reasoning : Seq(Nat), toolCalls : Tables,
     finish : {NoneYet} \cup {<<a.finish>> : a \in Answers},
     usage : {NoneYet} \cup {a.usage : a \in Answers},
     timings : {NoneYet} \cup {a.timings : a \in Answers}]

StreamType ==
    /\ answer \in Answers /\ over \in BOOLEAN /\ asm \in Assemblers
    /\ pieces \in [content : Nat, reasoning : Nat, calls : [DOMAIN answer.calls -> Nat]]
    /\ pieces.content <= Len(answer.content) /\ pieces.reasoning <= Len(answer.reasoning)
    /\ \A i \in DOMAIN answer.calls : pieces.calls[i] <= Len(answer.calls[i]) + 1

\* The assembler holds the pieces that were sent, each call under its index.
Assembled ==
    /\ asm.content = SubSeq(answer.content, 1, pieces.content)
    /\ asm.reasoning = SubSeq(answer.reasoning, 1, pieces.reasoning)
    /\ DOMAIN asm.toolCalls = {i \in DOMAIN answer.calls : pieces.calls[i] > 0}
    /\ \A i \in DOMAIN asm.toolCalls :
          asm.toolCalls[i] = [id |-> <<i>>, name |-> <<i>>,
                              arguments |-> SubSeq(answer.calls[i], 1, pieces.calls[i] - 1)]

\* The last event came after all pieces.
EndsWhole ==
    IF over THEN /\ pieces.content = Len(answer.content) /\ pieces.reasoning = Len(answer.reasoning)
                 /\ \A i \in DOMAIN answer.calls : pieces.calls[i] = Len(answer.calls[i]) + 1
                 /\ asm.finish = <<answer.finish>> /\ asm.timings = answer.timings
                 /\ asm.usage \in {NoneYet, IF answer.native THEN NoneYet ELSE answer.usage}
    ELSE asm.finish = NoneYet /\ asm.usage = NoneYet /\ asm.timings = NoneYet

StreamInv == StreamType /\ Assembled /\ EndsWhole

LEMMA AnswerIs ==
    ASSUME StreamType
    PROVE  /\ answer.content \in Seq(Nat) /\ answer.reasoning \in Seq(Nat)
           /\ DOMAIN answer.calls = 1..Len(answer.calls) /\ Len(answer.calls) \in Nat
           /\ Len(answer.content) \in Nat /\ Len(answer.reasoning) \in Nat
           /\ \A i \in DOMAIN answer.calls :
                 answer.calls[i] \in Seq(Nat) /\ Len(answer.calls[i]) \in Nat /\ i \in Nat
           /\ answer.native \in BOOLEAN /\ answer.usage \in {NoneYet, UsageFromTimings(answer.timings)}
<1>1. answer.calls \in Seq(Seq(Nat))
  BY AnswersAssumption DEF StreamType
<1>2. \A i \in DOMAIN answer.calls : answer.calls[i] \in Seq(Nat) /\ i \in Nat
  BY <1>1
<1>3. \A i \in DOMAIN answer.calls : Len(answer.calls[i]) \in Nat
  BY <1>2
<1>4. answer.content \in Seq(Nat) /\ answer.reasoning \in Seq(Nat)
  BY AnswersAssumption DEF StreamType
<1>5. Len(answer.content) \in Nat /\ Len(answer.reasoning) \in Nat
  BY <1>4
<1> QED
  BY <1>1, <1>2, <1>3, <1>4, <1>5, AnswersAssumption DEF StreamType

\* A prefix and the piece after it.
LEMMA OneMorePiece ==
    ASSUME NEW s \in Seq(Nat), NEW n \in Nat, n < Len(s)
    PROVE  Append(SubSeq(s, 1, n), s[n + 1]) = SubSeq(s, 1, n + 1)
<1>1. SubSeq(s, 1, n) \in Seq(Nat) /\ Len(SubSeq(s, 1, n)) = n /\ \A i \in 1..n : SubSeq(s, 1, n)[i] = s[i]
  OBVIOUS
<1>2. SubSeq(s, 1, n + 1) \in Seq(Nat) /\ Len(SubSeq(s, 1, n + 1)) = n + 1
      /\ \A i \in 1..(n + 1) : SubSeq(s, 1, n + 1)[i] = s[i]
  OBVIOUS
<1> DEFINE x == Append(SubSeq(s, 1, n), s[n + 1])
           y == SubSeq(s, 1, n + 1)
<1>3. s[n + 1] \in Nat
  OBVIOUS
<1>4. x \in Seq(Nat) /\ Len(x) = n + 1 /\ (\A i \in 1..n : x[i] = s[i]) /\ x[n + 1] = s[n + 1]
  BY <1>1, <1>3, AppendProperties
<1> HIDE DEF x, y
<1>5. y \in Seq(Nat) /\ Len(y) = n + 1 /\ \A i \in 1..(n + 1) : y[i] = s[i]
  BY <1>2 DEF y
<1>6. \A i \in 1..(n + 1) : x[i] = y[i]
  <2> TAKE i \in 1..(n + 1)
  <2>1. CASE i \in 1..n
    BY <1>4, <1>5, <2>1
  <2>2. CASE i = n + 1
    BY <1>4, <1>5, <2>2
  <2> QED
    BY <2>1, <2>2
<1>7. x = y
  BY <1>4, <1>5, <1>6, SeqEqual
<1> QED
  BY <1>7 DEF x, y

\* A prefix and the pieces after it.
LEMMA MorePieces ==
    ASSUME NEW s \in Seq(Nat), NEW m \in Nat, NEW n \in Nat, m <= n, n <= Len(s)
    PROVE  SubSeq(s, 1, m) \o SubSeq(s, m + 1, n) = SubSeq(s, 1, n)
<1>1. Len(s) \in Nat /\ 1 \in 1..(Len(s) + 1) /\ m \in (1 - 1)..Len(s) /\ n \in m..Len(s)
  OBVIOUS
<1> QED
  BY <1>1, ConcatAdjacentSubSeq

LEMMA StreamStarts == AsmInit => StreamInv
<1> SUFFICES ASSUME AsmInit PROVE StreamInv
  OBVIOUS
<1>1. asm \in Assemblers
  <2>1. <<>> \in [{} -> Slots] /\ {} \in SUBSET Nat
    OBVIOUS
  <2>2. <<>> \in Tables
    BY <2>1 DEF Tables
  <2> QED
    BY <2>2 DEF AsmInit, NewAssembler, Assemblers, NoneYet
<1>2. /\ answer \in Answers /\ over = FALSE /\ pieces.content = 0 /\ pieces.reasoning = 0
      /\ pieces \in [content : Nat, reasoning : Nat, calls : [DOMAIN answer.calls -> Nat]]
      /\ \A i \in DOMAIN answer.calls : pieces.calls[i] = 0
  BY DEF AsmInit
<1>3. /\ answer.content \in Seq(Nat) /\ answer.reasoning \in Seq(Nat)
      /\ answer.calls \in Seq(Seq(Nat))
  BY <1>2, AnswersAssumption
<1>4. \A i \in DOMAIN answer.calls : Len(answer.calls[i]) \in Nat
  BY <1>3
<1>5. \A i \in DOMAIN answer.calls : pieces.calls[i] <= Len(answer.calls[i]) + 1
  BY <1>2, <1>4
<1>5a. pieces.content <= Len(answer.content) /\ pieces.reasoning <= Len(answer.reasoning)
  BY <1>2, <1>3
<1>5b. StreamType
  BY <1>1, <1>2, <1>5, <1>5a DEF StreamType
<1>6. asm.content = <<>> /\ asm.reasoning = <<>> /\ asm.toolCalls = <<>>
      /\ asm.finish = NoneYet /\ asm.usage = NoneYet /\ asm.timings = NoneYet
  BY DEF AsmInit, NewAssembler
<1>7. DOMAIN asm.toolCalls = {}
  BY <1>6
<1>8. \A s \in Seq(Nat) : SubSeq(s, 1, 0) = <<>>
  BY SubSeqEmpty
<1>9. Assembled
  BY <1>2, <1>3, <1>6, <1>7, <1>8 DEF Assembled
<1>10. EndsWhole
  BY <1>2, <1>6 DEF EndsWhole
<1> QED
  BY <1>5b, <1>9, <1>10 DEF StreamInv

LEMMA ContentKept == ASSUME StreamInv, ContentDelta PROVE StreamInv'
<1> DEFINE n == pieces.content
<1>1. /\ ~over /\ n \in Nat /\ n < Len(answer.content) /\ Len(answer.content) \in Nat
      /\ answer' = answer /\ over' = over
      /\ answer.content \in Seq(Nat)
  BY AnswerIs DEF StreamInv, StreamType, ContentDelta
<1>2. /\ pieces' = [pieces EXCEPT !.content = n + 1] /\ pieces'.content = n + 1
      /\ pieces'.reasoning = pieces.reasoning /\ pieces'.calls = pieces.calls
      /\ pieces' \in [content : Nat, reasoning : Nat, calls : [DOMAIN answer.calls -> Nat]]
  <2>1. pieces' = [pieces EXCEPT !.content = n + 1] /\ n + 1 \in Nat
    BY <1>1 DEF ContentDelta
  <2> QED
    BY <2>1 DEF StreamInv, StreamType
<1>3. asm.content \in Seq(Nat) /\ answer.content[n + 1] \in Nat
  BY <1>1 DEF StreamInv, StreamType, Assemblers
<1>3a. Append(asm.content, answer.content[n + 1]) \in Seq(Nat)
  BY <1>3, AppendProperties
<1>4. asm' = [asm EXCEPT !.content = Append(asm.content, answer.content[n + 1])]
  BY <1>2 DEF ContentDelta
<1>5. /\ asm' \in Assemblers /\ asm'.content = Append(asm.content, answer.content[n + 1])
      /\ asm'.reasoning = asm.reasoning /\ asm'.toolCalls = asm.toolCalls
      /\ asm'.finish = asm.finish /\ asm'.usage = asm.usage /\ asm'.timings = asm.timings
  BY <1>3a, <1>4 DEF StreamInv, StreamType, Assemblers
<1>6. asm'.content = SubSeq(answer.content, 1, n + 1)
  BY <1>1, <1>5, OneMorePiece DEF StreamInv, Assembled
<1>7. StreamType'
  <2>1. pieces'.content <= Len(answer'.content) /\ pieces'.reasoning <= Len(answer'.reasoning)
    BY <1>1, <1>2 DEF StreamInv, StreamType
  <2>2. \A i \in DOMAIN answer'.calls : pieces'.calls[i] <= Len(answer'.calls[i]) + 1
    BY <1>1, <1>2 DEF StreamInv, StreamType
  <2>3. answer' \in Answers /\ over' \in BOOLEAN
    BY <1>1 DEF StreamInv, StreamType
  <2> QED
    BY <1>1, <1>2, <1>5, <2>1, <2>2, <2>3 DEF StreamType
<1>8. Assembled'
  BY <1>1, <1>2, <1>5, <1>6 DEF StreamInv, Assembled
<1>9. EndsWhole'
  BY <1>1, <1>5 DEF StreamInv, EndsWhole
<1> QED
  BY <1>7, <1>8, <1>9 DEF StreamInv

LEMMA ReasoningKept == ASSUME StreamInv, ReasoningDelta PROVE StreamInv'
<1> DEFINE n == pieces.reasoning
<1>1. /\ ~over /\ n \in Nat /\ n < Len(answer.reasoning) /\ Len(answer.reasoning) \in Nat
      /\ answer' = answer /\ over' = over
      /\ answer.reasoning \in Seq(Nat)
  BY AnswerIs DEF StreamInv, StreamType, ReasoningDelta
<1>2. /\ pieces' = [pieces EXCEPT !.reasoning = n + 1] /\ pieces'.reasoning = n + 1
      /\ pieces'.content = pieces.content /\ pieces'.calls = pieces.calls
      /\ pieces' \in [content : Nat, reasoning : Nat, calls : [DOMAIN answer.calls -> Nat]]
  <2>1. pieces' = [pieces EXCEPT !.reasoning = n + 1] /\ n + 1 \in Nat
    BY <1>1 DEF ReasoningDelta
  <2> QED
    BY <2>1 DEF StreamInv, StreamType
<1>3. asm.reasoning \in Seq(Nat) /\ answer.reasoning[n + 1] \in Nat
  BY <1>1 DEF StreamInv, StreamType, Assemblers
<1>3a. Append(asm.reasoning, answer.reasoning[n + 1]) \in Seq(Nat)
  BY <1>3, AppendProperties
<1>4. asm' = [asm EXCEPT !.reasoning = Append(asm.reasoning, answer.reasoning[n + 1])]
  BY <1>2 DEF ReasoningDelta
<1>5. /\ asm' \in Assemblers /\ asm'.reasoning = Append(asm.reasoning, answer.reasoning[n + 1])
      /\ asm'.content = asm.content /\ asm'.toolCalls = asm.toolCalls
      /\ asm'.finish = asm.finish /\ asm'.usage = asm.usage /\ asm'.timings = asm.timings
  BY <1>3a, <1>4 DEF StreamInv, StreamType, Assemblers
<1>6. asm'.reasoning = SubSeq(answer.reasoning, 1, n + 1)
  BY <1>1, <1>5, OneMorePiece DEF StreamInv, Assembled
<1>7. StreamType'
  <2>1. pieces'.reasoning <= Len(answer'.reasoning) /\ pieces'.content <= Len(answer'.content)
    BY <1>1, <1>2 DEF StreamInv, StreamType
  <2>2. \A i \in DOMAIN answer'.calls : pieces'.calls[i] <= Len(answer'.calls[i]) + 1
    BY <1>1, <1>2 DEF StreamInv, StreamType
  <2>3. answer' \in Answers /\ over' \in BOOLEAN
    BY <1>1 DEF StreamInv, StreamType
  <2> QED
    BY <1>1, <1>2, <1>5, <2>1, <2>2, <2>3 DEF StreamType
<1>8. Assembled'
  BY <1>1, <1>2, <1>5, <1>6 DEF StreamInv, Assembled
<1>9. EndsWhole'
  BY <1>1, <1>5 DEF StreamInv, EndsWhole
<1> QED
  BY <1>7, <1>8, <1>9 DEF StreamInv

\* A delta of a call changes the slot of its index only.
Filled(slot, tc) == [id |-> IF tc.id # NoneYet THEN tc.id ELSE slot.id,
                     name |-> IF tc.name # NoneYet THEN tc.name ELSE slot.name,
                     arguments |-> slot.arguments \o tc.arguments]
SlotPut(new, i, put) ==
    /\ new \in Assemblers /\ new.content = asm.content /\ new.reasoning = asm.reasoning
    /\ new.finish = asm.finish /\ new.usage = asm.usage /\ new.timings = asm.timings
    /\ DOMAIN new.toolCalls = DOMAIN asm.toolCalls \cup {i} /\ new.toolCalls[i] = put
    /\ \A j \in DOMAIN asm.toolCalls : j # i => new.toolCalls[j] = asm.toolCalls[j]
LEMMA CallDeltaIs ==
    ASSUME asm \in Assemblers, NEW tc, tc.index \in Nat, tc.id \in Ids, tc.name \in Ids,
           tc.arguments \in Seq(Nat), NEW slot, slot = SlotOf(tc.index), NEW new, new = CallDelta(tc)
    PROVE  SlotPut(new, tc.index, Filled(slot, tc))
<1> DEFINE put == Filled(slot, tc)
           table == [j \in DOMAIN asm.toolCalls \cup {tc.index} |-> IF j = tc.index THEN put ELSE asm.toolCalls[j]]
           made == [asm EXCEPT !.toolCalls = table]
<1>1. new = made
  BY DEF CallDelta, Filled
<1>2. PICK S \in SUBSET Nat : asm.toolCalls \in [S -> Slots]
  BY DEF Assemblers, Tables
<1>3. <<>> \in Seq(Nat)
  OBVIOUS
<1>4. NewSlot \in Slots
  BY <1>3 DEF NewSlot, Slots, Ids
<1>5. slot \in Slots
  BY <1>2, <1>4 DEF SlotOf
<1>6. slot.arguments \o tc.arguments \in Seq(Nat)
  BY <1>5, ConcatProperties DEF Slots
<1>7. put \in Slots
  BY <1>5, <1>6 DEF Slots, Filled
<1>8. S \cup {tc.index} \in SUBSET Nat /\ table \in [S \cup {tc.index} -> Slots]
  BY <1>2, <1>7
<1>9. table \in Tables
  BY <1>8 DEF Tables
<1>10. DOMAIN table = DOMAIN asm.toolCalls \cup {tc.index}
       /\ (\A j \in DOMAIN asm.toolCalls : j # tc.index => table[j] = asm.toolCalls[j]) /\ table[tc.index] = put
  OBVIOUS
<1> HIDE DEF table
<1>11. /\ new \in Assemblers /\ new.toolCalls = table
       /\ new.content = asm.content /\ new.reasoning = asm.reasoning
       /\ new.finish = asm.finish /\ new.usage = asm.usage /\ new.timings = asm.timings
  BY <1>1, <1>9 DEF Assemblers
<1> QED
  BY <1>10, <1>11 DEF SlotPut

LEMMA CallKept ==
    ASSUME StreamInv, NEW i \in DOMAIN answer.calls, ToolCallDelta(i)
    PROVE  StreamInv'
<1> DEFINE n == pieces.calls[i]
           whole == answer.calls[i]
           id == IF n = 0 THEN <<i>> ELSE NoneYet
<1>1. /\ i \in Nat /\ n \in Nat /\ n <= Len(whole) + 1 /\ whole \in Seq(Nat) /\ Len(whole) \in Nat
      /\ answer \in Answers /\ asm \in Assemblers
  BY AnswerIs DEF StreamInv, StreamType
<1>2. ~over /\ answer' = answer /\ over' = over
  BY DEF ToolCallDelta
<1>3. PICK upto \in (IF n = 0 THEN {1, 2} ELSE {n + 1}) :
         /\ upto <= Len(whole) + 1
         /\ pieces' = [pieces EXCEPT !.calls[i] = upto]
         /\ asm' = CallDelta([index |-> i, id |-> id, name |-> id,
                              arguments |-> SubSeq(whole, IF n = 0 THEN 1 ELSE n, upto - 1)])
  BY DEF ToolCallDelta
<1>4. upto \in Nat /\ upto >= 1 /\ upto > n /\ upto <= Len(whole) + 1 /\ (n # 0 => upto = n + 1)
  <2>1. CASE n = 0
    <3>1. upto \in {1, 2} /\ upto <= Len(whole) + 1
      BY <1>3, <2>1
    <3> QED
      BY <2>1, <3>1
  <2>2. CASE n # 0
    <3>1. upto = n + 1 /\ upto <= Len(whole) + 1
      BY <1>3, <2>2
    <3> QED
      BY <1>1, <3>1
  <2> QED
    BY <2>1, <2>2
<1>5. /\ pieces'.content = pieces.content /\ pieces'.reasoning = pieces.reasoning
      /\ pieces'.calls[i] = upto /\ \A j \in DOMAIN answer.calls : j # i => pieces'.calls[j] = pieces.calls[j]
      /\ pieces' \in [content : Nat, reasoning : Nat, calls : [DOMAIN answer.calls -> Nat]]
  BY <1>3, <1>4 DEF StreamInv, StreamType
<1> DEFINE more == SubSeq(whole, IF n = 0 THEN 1 ELSE n, upto - 1)
<1>6. more \in Seq(Nat)
  <2>1. \A k \in (IF n = 0 THEN 1 ELSE n)..(upto - 1) : whole[k] \in Nat
    <3>1. \A k \in 1..Len(whole) : whole[k] \in Nat
      BY <1>1
    <3>2. (IF n = 0 THEN 1 ELSE n)..(upto - 1) \subseteq 1..Len(whole)
      BY <1>1, <1>4
    <3> QED
      BY <3>1, <3>2
  <2>2. (IF n = 0 THEN 1 ELSE n) \in Int /\ upto - 1 \in Int
    BY <1>1, <1>4
  <2> QED
    BY <2>1, <2>2, SubSeqProperties
<1>7. id \in Ids
  BY <1>1 DEF Ids
<1> DEFINE slot == SlotOf(i)
<1> HIDE DEF more, id, slot
<1>8. SlotPut(asm', i, [id |-> IF id # NoneYet THEN id ELSE slot.id,
                        name |-> IF id # NoneYet THEN id ELSE slot.name,
                        arguments |-> slot.arguments \o more])
  <2>1. PICK tc, a, b : /\ tc = [index |-> i, id |-> id, name |-> id, arguments |-> more]
                        /\ a = slot /\ b = asm'
    OBVIOUS
  <2>2. tc.index = i /\ tc.id = id /\ tc.name = id /\ tc.arguments = more
    BY <2>1
  <2>3. a = SlotOf(tc.index) /\ b = CallDelta(tc)
    BY <1>3, <2>1, <2>2 DEF slot, id, more
  <2>4. tc.index \in Nat /\ tc.id \in Ids /\ tc.name \in Ids /\ tc.arguments \in Seq(Nat)
    BY <1>1, <1>6, <1>7, <2>2
  <2>5. SlotPut(b, tc.index, Filled(a, tc))
    BY <1>1, <2>3, <2>4, CallDeltaIs
  <2> QED
    BY <2>1, <2>2, <2>5 DEF Filled
<1>9. asm'.toolCalls[i] = [id |-> <<i>>, name |-> <<i>>, arguments |-> SubSeq(whole, 1, upto - 1)]
  <2>1. CASE n = 0
    <3>1. i \notin DOMAIN asm.toolCalls
      BY <2>1 DEF StreamInv, Assembled
    <3>2. slot.arguments = <<>>
      BY <3>1 DEF slot, SlotOf, NewSlot
    <3>3. more = SubSeq(whole, 1, upto - 1) /\ id = <<i>> /\ id # NoneYet
      BY <2>1 DEF more, id, NoneYet
    <3>4. slot.arguments \o more = more
      BY <1>6, <3>2, ConcatEmptySeq
    <3> QED
      BY <1>8, <3>3, <3>4 DEF SlotPut
  <2>2. CASE n # 0
    <3>1. i \in DOMAIN asm.toolCalls /\ upto = n + 1 /\ n >= 1
      BY <1>1, <1>4, <2>2 DEF StreamInv, Assembled
    <3>2. slot = [id |-> <<i>>, name |-> <<i>>, arguments |-> SubSeq(whole, 1, n - 1)]
      BY <3>1 DEF slot, SlotOf, StreamInv, Assembled
    <3>3. more = SubSeq(whole, n, n) /\ id = NoneYet
      <4>1. upto - 1 = n
        BY <1>1, <3>1
      <4> QED
        BY <2>2, <4>1 DEF more, id
    <3>4. n - 1 \in Nat /\ n <= Len(whole) /\ (n - 1) + 1 = n
      <4> HIDE DEF n, whole
      <4> QED
        BY <1>1, <1>4, <3>1
    <3>5. SubSeq(whole, 1, n - 1) \o SubSeq(whole, n, n) = SubSeq(whole, 1, n)
      <4> DEFINE m == n - 1
      <4>1. m \in Nat /\ m <= n /\ m + 1 = n
        BY <1>1, <3>4
      <4>2. SubSeq(whole, 1, m) \o SubSeq(whole, m + 1, n) = SubSeq(whole, 1, n)
        BY <1>1, <3>4, <4>1, MorePieces
      <4> QED
        BY <4>1, <4>2
    <3>6. upto - 1 = n
      BY <1>1, <3>1
    <3> QED
      BY <1>8, <3>2, <3>3, <3>5, <3>6 DEF SlotPut
  <2> QED
    BY <2>1, <2>2
<1>10. StreamType'
  BY <1>1, <1>2, <1>3, <1>4, <1>5, <1>8 DEF StreamInv, StreamType, SlotPut
<1>11. Assembled'
  <2>1. asm'.content = SubSeq(answer'.content, 1, pieces'.content)
        /\ asm'.reasoning = SubSeq(answer'.reasoning, 1, pieces'.reasoning)
    BY <1>2, <1>5, <1>8 DEF StreamInv, Assembled, SlotPut
  <2>2. DOMAIN asm'.toolCalls = {j \in DOMAIN answer'.calls : pieces'.calls[j] > 0}
    BY <1>2, <1>4, <1>5, <1>8 DEF StreamInv, Assembled, SlotPut
  <2>3. ASSUME NEW j \in DOMAIN asm'.toolCalls
        PROVE  asm'.toolCalls[j] = [id |-> <<j>>, name |-> <<j>>,
                                    arguments |-> SubSeq(answer'.calls[j], 1, pieces'.calls[j] - 1)]
    <3>1. CASE j = i
      BY <1>2, <1>5, <1>9, <3>1
    <3>2. CASE j # i
      <4>1. j \in DOMAIN asm.toolCalls /\ j \in DOMAIN answer.calls
        BY <1>8, <3>2 DEF StreamInv, Assembled, SlotPut
      <4> QED
        BY <1>2, <1>5, <1>8, <3>2, <4>1 DEF StreamInv, Assembled, SlotPut
    <3> QED
      BY <3>1, <3>2
  <2> QED
    BY <2>1, <2>2, <2>3 DEF Assembled
<1>12. EndsWhole'
  BY <1>2, <1>8 DEF StreamInv, EndsWhole, SlotPut
<1> QED
  BY <1>10, <1>11, <1>12 DEF StreamInv

LEMMA EndKept == ASSUME StreamInv, LastEvent PROVE StreamInv'
<1>1. /\ ~over /\ over' = TRUE /\ answer' = answer /\ pieces' = pieces /\ answer \in Answers
      /\ asm \in Assemblers
      /\ pieces.content = Len(answer.content) /\ pieces.reasoning = Len(answer.reasoning)
      /\ \A i \in DOMAIN answer.calls : pieces.calls[i] = Len(answer.calls[i]) + 1
      /\ asm.finish = NoneYet /\ asm.usage = NoneYet /\ asm.timings = NoneYet
  BY DEF StreamInv, StreamType, EndsWhole, LastEvent
<1>2. PICK asked \in BOOLEAN :
        asm' = Event(asm, [usage |-> IF asked /\ ~answer.native THEN answer.usage ELSE NoneYet,
                           timings |-> answer.timings, finish |-> <<answer.finish>>])
  BY DEF LastEvent
<1> DEFINE use == IF asked /\ ~answer.native THEN answer.usage ELSE NoneYet
<1>3. use \in {NoneYet, IF answer.native THEN NoneYet ELSE answer.usage}
  BY AnswerIs DEF StreamInv
<1>4. asm' = [asm EXCEPT !.usage = use, !.timings = answer.timings, !.finish = <<answer.finish>>]
  BY <1>1, <1>2 DEF Event, NoneYet
<1>5. use \in {NoneYet} \cup {a.usage : a \in Answers}
  BY <1>1
<1> HIDE DEF use
<1>6. /\ asm' \in Assemblers /\ asm'.content = asm.content /\ asm'.reasoning = asm.reasoning
      /\ asm'.toolCalls = asm.toolCalls
      /\ asm'.finish = <<answer.finish>> /\ asm'.usage = use /\ asm'.timings = answer.timings
  BY <1>1, <1>4, <1>5 DEF Assemblers
<1>7. StreamType'
  BY <1>1, <1>6 DEF StreamInv, StreamType
<1>8. Assembled'
  BY <1>1, <1>6 DEF StreamInv, Assembled
<1>9. EndsWhole'
  BY <1>1, <1>3, <1>6 DEF EndsWhole
<1> QED
  BY <1>7, <1>8, <1>9 DEF StreamInv

LEMMA StreamStep == StreamInv /\ [AsmNext]_asmVars => StreamInv'
<1> SUFFICES ASSUME StreamInv, [AsmNext]_asmVars PROVE StreamInv'
  OBVIOUS
<1>1. CASE UNCHANGED asmVars
  BY <1>1 DEF asmVars, StreamInv, StreamType, Assembled, EndsWhole
<1>2. CASE AsmNext
  BY <1>2, ContentKept, ReasoningKept, CallKept, EndKept DEF AsmNext
<1> QED
  BY <1>1, <1>2

\* What is left to say of an answer that is over.
LEMMA WholeResult ==
    ASSUME StreamInv, over
    PROVE  Result = ParseWholeResponse(answer)
<1> DEFINE n == Len(answer.calls)
<1>1. /\ n \in Nat /\ DOMAIN answer.calls = 1..n
      /\ answer.content \in Seq(Nat) /\ answer.reasoning \in Seq(Nat)
      /\ \A i \in 1..n : answer.calls[i] \in Seq(Nat) /\ Len(answer.calls[i]) \in Nat
      /\ answer.native \in BOOLEAN /\ answer.usage \in {NoneYet, UsageFromTimings(answer.timings)}
  BY AnswerIs DEF StreamInv
<1>2. \A i \in 1..n : pieces.calls[i] = Len(answer.calls[i]) + 1 /\ Len(answer.calls[i]) \in Nat
  BY <1>1 DEF StreamInv, EndsWhole
<1>3. DOMAIN asm.toolCalls = 1..n
  <2>1. \A i \in 1..n : pieces.calls[i] > 0
    BY <1>2
  <2>2. DOMAIN asm.toolCalls = {i \in 1..n : pieces.calls[i] > 0}
    BY <1>1 DEF StreamInv, Assembled
  <2> QED
    BY <2>1, <2>2
<1>4. \A i \in 1..n : asm.toolCalls[i] = [id |-> <<i>>, name |-> <<i>>, arguments |-> answer.calls[i]]
  <2> TAKE i \in 1..n
  <2>1. SubSeq(answer.calls[i], 1, pieces.calls[i] - 1) = answer.calls[i]
    <3> DEFINE last == pieces.calls[i] - 1
    <3>1. answer.calls[i] \in Seq(Nat)
      BY <1>1
    <3>2. pieces.calls[i] = Len(answer.calls[i]) + 1 /\ Len(answer.calls[i]) \in Nat
      BY <1>2, Zenon
    <3>3. last = Len(answer.calls[i])
      BY ONLY <3>2
    <3> HIDE DEF last
    <3>4. SubSeq(answer.calls[i], 1, last) = answer.calls[i]
      BY <3>1, <3>3, SubSeqFull
    <3> QED
      BY <3>4 DEF last
  <2> QED
    BY <1>3, <2>1 DEF StreamInv, Assembled
<1>5. asm.content = answer.content /\ asm.reasoning = answer.reasoning
  BY <1>1, SubSeqFull DEF StreamInv, Assembled, EndsWhole
<1>6. Sorted(DOMAIN asm.toolCalls) = [i \in 1..n |-> i]
  BY <1>1, <1>3, SortedIs
<1> DEFINE order == Sorted(DOMAIN asm.toolCalls)
           calls == [i \in DOMAIN order |->
                       [index |-> order[i], id |-> asm.toolCalls[order[i]].id,
                        name |-> asm.toolCalls[order[i]].name,
                        arguments |-> asm.toolCalls[order[i]].arguments]]
           whole == [i \in DOMAIN answer.calls |->
                       [index |-> i, id |-> <<i>>, name |-> <<i>>, arguments |-> answer.calls[i]]]
<1>7. calls = whole
  <2>1. DOMAIN order = 1..n /\ \A i \in 1..n : order[i] = i
    BY <1>6
  <2> HIDE DEF order
  <2>2. \A i \in 1..n : /\ asm.toolCalls[i].id = <<i>> /\ asm.toolCalls[i].name = <<i>>
                        /\ asm.toolCalls[i].arguments = answer.calls[i]
    <3> TAKE i \in 1..n
    <3>1. asm.toolCalls[i] = [id |-> <<i>>, name |-> <<i>>, arguments |-> answer.calls[i]]
      BY <1>4
    <3> QED
      BY <3>1
  <2>3. calls = [i \in 1..n |-> [index |-> i, id |-> asm.toolCalls[i].id, name |-> asm.toolCalls[i].name,
                                 arguments |-> asm.toolCalls[i].arguments]]
    BY <2>1
  <2> QED
    <3> DEFINE a(i) == [index |-> i, id |-> asm.toolCalls[i].id, name |-> asm.toolCalls[i].name,
                        arguments |-> asm.toolCalls[i].arguments]
               b(i) == [index |-> i, id |-> <<i>>, name |-> <<i>>, arguments |-> answer.calls[i]]
    <3>1. calls = [i \in 1..n |-> a(i)] /\ whole = [i \in 1..n |-> b(i)]
      BY <1>1, <2>3
    <3>2. \A i \in 1..n : a(i) = b(i)
      BY <2>2
    <3> HIDE DEF a, b, calls, whole
    <3> QED
      BY <3>1, <3>2
<1>8. Usage(asm.usage, asm.timings)
        = Usage(IF answer.native THEN NoneYet ELSE answer.usage, answer.timings)
  BY <1>1 DEF Usage, StreamInv, EndsWhole
<1>9. asm.finish = <<answer.finish>>
  BY DEF StreamInv, EndsWhole
<1>10. Result = [content |-> asm.content, reasoning |-> asm.reasoning, calls |-> calls,
                 finish |-> asm.finish, usage |-> Usage(asm.usage, asm.timings)]
  BY DEF Result
<1>11. ParseWholeResponse(answer)
         = [content |-> answer.content, reasoning |-> answer.reasoning, calls |-> whole,
            finish |-> <<answer.finish>>,
            usage |-> Usage(IF answer.native THEN NoneYet ELSE answer.usage, answer.timings)]
  BY DEF ParseWholeResponse
<1> QED
  BY <1>5, <1>7, <1>8, <1>9, <1>10, <1>11

LEMMA BeginIsPrefix ==
    ASSUME NEW s \in Seq(Nat), NEW n \in Nat, n <= Len(s)
    PROVE  IsPrefix(SubSeq(s, 1, n), s)
<1>1. SubSeq(s, 1, n) \in Seq(Nat) /\ Len(SubSeq(s, 1, n)) = n /\ \A i \in 1..n : SubSeq(s, 1, n)[i] = s[i]
  OBVIOUS
<1>2. SubSeq(s, 1, Len(SubSeq(s, 1, n))) = SubSeq(s, 1, n)
  BY <1>1
<1> QED
  BY <1>1, <1>2 DEF IsPrefix

LEMMA StreamSound == StreamInv => StreamedAsWhole
<1> SUFFICES ASSUME StreamInv PROVE StreamedAsWhole
  OBVIOUS
<1>1. IsPrefix(asm.content, answer.content) /\ IsPrefix(asm.reasoning, answer.reasoning)
  BY AnswerIs, BeginIsPrefix DEF StreamInv, StreamType, Assembled
<1>2. ASSUME NEW i \in DOMAIN asm.toolCalls
      PROVE  IsPrefix(asm.toolCalls[i].arguments, answer.calls[i])
  <2>1. i \in DOMAIN answer.calls /\ pieces.calls[i] > 0 /\ pieces.calls[i] <= Len(answer.calls[i]) + 1
        /\ pieces.calls[i] \in Nat /\ answer.calls[i] \in Seq(Nat)
        /\ asm.toolCalls[i].arguments = SubSeq(answer.calls[i], 1, pieces.calls[i] - 1)
    <3>1. i \in DOMAIN answer.calls /\ pieces.calls[i] > 0
          /\ asm.toolCalls[i] = [id |-> <<i>>, name |-> <<i>>,
                                 arguments |-> SubSeq(answer.calls[i], 1, pieces.calls[i] - 1)]
      BY DEF StreamInv, Assembled
    <3>2. pieces.calls \in [DOMAIN answer.calls -> Nat]
          /\ \A j \in DOMAIN answer.calls : pieces.calls[j] <= Len(answer.calls[j]) + 1
      BY DEF StreamInv, StreamType
    <3>3. answer.calls[i] \in Seq(Nat)
      BY <3>1, AnswerIs DEF StreamInv
    <3> QED
      BY <3>1, <3>2, <3>3
  <2>2. pieces.calls[i] - 1 \in Nat /\ pieces.calls[i] - 1 <= Len(answer.calls[i])
    BY <2>1
  <2> QED
    BY <2>1, <2>2, BeginIsPrefix
<1> QED
  BY <1>1, <1>2, WholeResult DEF StreamedAsWhole

\* The record of an answer is the same whether it was streamed or sent whole, however its calls
\* were interleaved (StreamAssembler, parse_whole_response).
THEOREM StreamedWhole == AsmSpec => []StreamedAsWhole
<1>1. AsmSpec => []StreamInv
  BY StreamStarts, StreamStep, PTL DEF AsmSpec
<1> QED
  BY <1>1, StreamSound, PTL
=============================================================================
