---------------------------- MODULE CaptureTape ----------------------------
(***************************************************************************)
(* The capture proxy of scripts/capture_proxy.py: a thread per request     *)
(* forwards it, relays the answer and appends a line to a tape that is     *)
(* capped, survives restarts and is read back into workstreams             *)
(* (CaptureSessions).  Clients ask one thing at a time but may give up and *)
(* ask again while the thread of their last request still runs.            *)
(*                                                                         *)
(* A line is one unit of the cap.  A request is named by the time it       *)
(* arrived, so no two arrive at the same millisecond.  A streamed answer   *)
(* is two events of two pieces each, cut into chunks anywhere, the last    *)
(* piece of which ends no line; what is recorded of it is how many events  *)
(* were understood.                                                        *)
(***************************************************************************)
EXTENDS CaptureSessions, FiniteSets

CONSTANTS
    Clients,
    MaxRequests, \* bound: requests that arrive
    Scenarios    \* --max-bytes in lines, bounds on the requests, the ends of the proxy and the
                 \* writes that fail, and whether answers are streamed

ASSUME BoundsAssumption == MaxRequests \in Nat
ASSUME ScenariosAssumption ==
    Scenarios \subseteq [cap : Nat \ {0}, requests : 0..MaxRequests, ends : Nat,
                         failures : Nat, streams : BOOLEAN]

VARIABLES
    tape,      \* the lines of the files, in order
    proxy,     \* "up", "ending", "down"
    size,      \* what the recorder counts
    stopped,   \* the cap was reached
    held,      \* lines whose write failed, still in the buffer of the file
    handler,   \* the thread of each request
    client,    \* what each client has said and waits for
    arrived,   \* requests so far, and the time of the last
    ends,      \* ends of the proxy so far
    failures,  \* failed writes so far
    scenario

recorder == <<tape, size, stopped, held, failures>>
vars == <<recorder, proxy, handler, client, arrived, ends, scenario>>

Requests == 1..MaxRequests
Events == 2
Pieces == 4

None    == [at |-> "none", from |-> <<>>, list |-> <<>>, fed |-> 0, seen |-> 0, cut |-> FALSE]
Nothing == [list |-> <<>>, talk |-> 0, rewound |-> FALSE, waits |-> 0]

Kinds == {"session_start", "session_end", "recorder_stopped", "completion", "error", "torn",
          "split"}

\* Lines have the fields of their kind, threads are at a known point, clients wait for a request.
TypeOK ==
    /\ \A i \in DOMAIN tape : tape[i].kind \in Kinds /\ tape[i].late \in BOOLEAN
    /\ proxy \in {"up", "ending", "down"} /\ size \in Nat /\ stopped \in BOOLEAN
    /\ \A i \in DOMAIN held : held[i].kind \in Kinds
    /\ \A r \in Requests :
         /\ handler[r].at \in {"none", "read", "relay", "record", "fail"}
         /\ handler[r].seen <= handler[r].fed /\ handler[r].fed <= Pieces
    /\ \A c \in Clients : client[c].waits \in 0..arrived
    /\ arrived \in 0..MaxRequests /\ ends <= scenario.ends /\ failures <= scenario.failures

-----------------------------------------------------------------------------
(* Recorder *)

Line(kind) == [kind |-> kind, late |-> FALSE]

\* Mutant: a restart forgets what is on the disk.
SizeForgotten(lines) == 0

SizeAtStart(lines) == Len(lines)

Late(lines) == [i \in DOMAIN lines |-> [lines[i] EXCEPT !.late = TRUE]]

\* The line, after what an earlier failure left in the buffer, which is not counted again.
Appended(line) ==
    /\ tape' = tape \o Late(held) \o <<line>>
                    \o (IF size + 1 >= scenario.cap THEN <<Line("recorder_stopped")>> ELSE <<>>)
    /\ size' = size + 1 /\ stopped' = (size + 1 >= scenario.cap) /\ held' = <<>>
    /\ UNCHANGED failures

\* The flush fails: the line is not counted, and stays in the buffer.
Refused(line) ==
    /\ failures < scenario.failures /\ failures' = failures + 1
    /\ held' = Append(held, line)
    /\ UNCHANGED <<tape, size, stopped>>

Write(line) ==
    \/ stopped /\ UNCHANGED recorder
    \/ ~stopped /\ (Appended(line) \/ Refused(line))

Init ==
    /\ tape = <<>> /\ proxy = "down" /\ size = 0 /\ stopped = FALSE /\ held = <<>>
    /\ handler = [r \in Requests |-> None] /\ client = [c \in Clients |-> Nothing]
    /\ arrived = 0 /\ ends = 0 /\ failures = 0 /\ scenario \in Scenarios

\* The recorder counts the files there are and begins with a line of its own; nobody else
\* writes to them.
Start ==
    /\ proxy = "down" /\ proxy' = "up"
    /\ LET found == SizeAtStart(tape)
           full  == found + 1 >= scenario.cap
       IN /\ tape' = tape \o <<Line("session_start")>>
                          \o (IF full THEN <<Line("recorder_stopped")>> ELSE <<>>)
          /\ size' = found + 1 /\ stopped' = full
    /\ held' = <<>>
    /\ UNCHANGED <<handler, client, arrived, ends, failures, scenario>>

-----------------------------------------------------------------------------
(* Clients *)

\* Message n of what client c says and is told, in conversation t.
Message(c, t, n) == <<c, t, n>>

\* The first k messages of a list, and some that were never said before.
Extended(c, r, list, k, more) ==
    SubSeq(list, 1, k) \o [i \in 1..more |-> Message(c, r, i)]

\* What a client may ask next: the same again, more of the same conversation, another
\* conversation, or a conversation rewound, once and not beyond its middle.
Asks(c, r) ==
    LET now  == client[c]
        same == Len(now.list)
    IN {[now EXCEPT !.list = <<System>> \o Extended(c, r, <<>>, 0, 1),
                    !.talk = r, !.rewound = FALSE]}
       \cup (IF same = 0 THEN {} ELSE {now, [now EXCEPT !.list = Extended(c, r, @, same, 2)]})
       \cup {[now EXCEPT !.list = Extended(c, r, @, k, 1), !.rewound = TRUE] :
               k \in {k \in MinLcp..(same - 1) : 2 * k >= same /\ ~now.rewound}}

\* The body of a request is read and its time taken.
Send(c) ==
    /\ proxy # "down" /\ client[c].waits = 0 /\ arrived < scenario.requests
    /\ arrived' = arrived + 1
    /\ \E ask \in Asks(c, arrived') :
         /\ client' = [client EXCEPT ![c] = [ask EXCEPT !.waits = arrived']]
         /\ handler' = [handler EXCEPT ![arrived'] =
              [None EXCEPT !.at = "read", !.list = ask.list, !.from = <<c, ask.talk, ask.rewound>>]]
    /\ UNCHANGED <<recorder, proxy, ends, scenario>>

\* A client that waits no longer goes away.
GiveUp(c) ==
    /\ client[c].waits # 0
    /\ client' = [client EXCEPT ![c].waits = 0]
    /\ UNCHANGED <<recorder, proxy, handler, arrived, ends, scenario>>

Sender(r) == handler[r].from[1]
Waited(r) == client[Sender(r)].waits = r

\* The client of a request has its answer, or learns that there is none.
Answered(r) ==
    client' = IF Waited(r) THEN [client EXCEPT ![Sender(r)].waits = 0] ELSE client

-----------------------------------------------------------------------------
(* Handlers *)

ToThread(r, to) ==
    /\ handler' = [handler EXCEPT ![r] = to]
    /\ UNCHANGED <<recorder, proxy, arrived, ends, scenario>>

\* There is no answer from upstream: 502, and a line that says so.
Unreachable(r) ==
    /\ handler[r].at = "read" /\ Answered(r)
    /\ ToThread(r, [handler[r] EXCEPT !.at = "fail"])

\* An answer that is not streamed is read whole before any of it is sent.
Whole(r) ==
    /\ handler[r].at = "read" /\ Answered(r)
    /\ \E cut \in IF Waited(r) THEN {FALSE} ELSE BOOLEAN :
         ToThread(r, [handler[r] EXCEPT !.at = "record", !.cut = cut, !.fed = Pieces,
                                        !.seen = IF cut THEN 0 ELSE Pieces])

Streams(r) ==
    /\ handler[r].at = "read" /\ scenario.streams /\ UNCHANGED client
    /\ ToThread(r, [handler[r] EXCEPT !.at = "relay"])

\* A chunk is understood, then sent on; a send to a client that went away may fail.
Chunk(r) ==
    /\ handler[r].at = "relay" /\ UNCHANGED client
    /\ \E fed \in (handler[r].fed + 1)..Pieces :
       \E broken \in IF Waited(r) THEN {FALSE} ELSE BOOLEAN :
         ToThread(r, [handler[r] EXCEPT !.fed = fed, !.cut = broken,
                                        !.at = IF broken THEN "record" ELSE @,
                                        !.seen = IF broken THEN @ ELSE fed])

\* The end of the stream, and of the answer.
StreamEnds(r) ==
    /\ handler[r].at = "relay" /\ handler[r].fed = Pieces /\ Answered(r)
    /\ \E broken \in IF Waited(r) THEN {FALSE} ELSE BOOLEAN :
         ToThread(r, [handler[r] EXCEPT !.at = "record", !.cut = broken])

\* Upstream fails in the middle: the exception leaves the handler, which records nothing.
UpstreamDies(r) ==
    /\ handler[r].at = "relay" /\ Answered(r)
    /\ ToThread(r, None)

\* What the assembler has understood when it is told to finish: a last line without a
\* newline counts if it is whole.
Understood(r) == handler[r].fed \div 2

Record(r) ==
    /\ handler[r].at \in {"record", "fail"}
    /\ Write(IF handler[r].at = "fail" THEN Line("error")
             ELSE [kind |-> "completion", late |-> FALSE, ts |-> r, list |-> handler[r].list,
                   from |-> handler[r].from, events |-> Understood(r),
                   cut |-> handler[r].cut, seen |-> handler[r].seen])
    /\ handler' = [handler EXCEPT ![r] = None]
    /\ UNCHANGED <<proxy, client, arrived, ends, scenario>>

-----------------------------------------------------------------------------
(* The end of the proxy *)

\* SIGTERM: a last line, and the file is closed; the threads run on, and would open it again.
Shutdown ==
    /\ proxy = "up" /\ proxy' = "ending" /\ ends < scenario.ends
    /\ Write(Line("session_end"))
    /\ UNCHANGED <<handler, client, arrived, ends, scenario>>

\* A line being written holds what a client said, in any language: all but the recorder's own.
SaidInFlight ==
    \/ \E r \in Requests : handler[r].at \in {"record", "fail"}
    \/ \E i \in DOMAIN held : held[i].kind # "session_end"

\* How the end of the process may cut the line it is writing short.
Cuts ==
    IF stopped THEN {}
    ELSE IF SaidInFlight THEN {"torn", "split"}
    ELSE IF held # <<>> THEN {"torn"} ELSE {}

\* The process is gone, with its threads and its buffer.
Gone ==
    /\ proxy # "down" /\ proxy' = "down" /\ ends < scenario.ends /\ ends' = ends + 1
    /\ tape' \in {tape} \cup {Append(tape, Line(cut)) : cut \in Cuts}
    /\ held' = <<>> /\ handler' = [r \in Requests |-> None]
    /\ client' = [c \in Clients |-> [client[c] EXCEPT !.waits = 0]]
    /\ UNCHANGED <<size, stopped, arrived, failures, scenario>>

Handle(r) ==
    \/ Unreachable(r) \/ Whole(r) \/ Streams(r) \/ Chunk(r) \/ StreamEnds(r)
    \/ UpstreamDies(r) \/ Record(r)

Next ==
    \/ Start \/ Shutdown \/ Gone
    \/ \E c \in Clients : Send(c) \/ GiveUp(c)
    \/ \E r \in Requests : Handle(r)

Spec == Init /\ [][Next]_vars

-----------------------------------------------------------------------------
(* Properties *)

\* The cap holds across restarts (Recorder: "a restart cannot walk past it"): a request is
\* recorded only while the tape, without the lines whose first write failed, is below it.
CapHolds ==
    \A i \in DOMAIN tape :
        tape[i].kind \in {"completion", "error"} /\ ~tape[i].late
          => Cardinality({j \in 1..(i - 1) : ~tape[j].late}) < scenario.cap

\* load_tape says "unparseable line skipped": whatever the tape, what cannot be read of it is
\* a line cut short and the line of the process that starts after it, never the record of a
\* request.
OnlyUnparseableSkipped ==
    \A i \in DOMAIN tape : ~Readable(tape)[i] => CutShort(tape[i]) \/ tape[i].kind = "session_start"

\* No other line is spoiled, on any tape; a tape that can be decoded is read but for these
\* (load_tape), one that cannot is not read at all.
TornEatsOnlyStart ==
    \A i \in DOMAIN tape : ~Parses(tape, i) => CutShort(tape[i]) \/ tape[i].kind = "session_start"

\* What a client was sent is on its record, and an answer that was not cut is there whole.
RecordsWhatWasSent ==
    \A i \in DOMAIN tape : tape[i].kind = "completion" =>
        /\ 2 * tape[i].events + 1 >= tape[i].seen
        /\ ~tape[i].cut => tape[i].events = Events

\* The tape says what happened, whatever died or was cut in between.
TapeIsTrue == TypeOK /\ RecordsWhatWasSent /\ TornEatsOnlyStart /\ CapHolds

\* Of a tape that can be decoded: the turns of a session are of one conversation of one client,
\* all that were recorded of a conversation are in one session, and a session has a rewrite only
\* where a client rewound, whatever was lost, retried, or recorded late and out of order.
Workstreams ==
    LET sessions == BuildSessions(tape)
        talk(rec) == <<rec.from[1], rec.from[2]>>
        of == [s \in DOMAIN sessions |-> {talk(sessions[s][i]) : i \in DOMAIN sessions[s]}]
    IN /\ \A s \in DOMAIN sessions :
            /\ Cardinality(of[s]) = 1
            /\ \A i \in DOMAIN sessions[s] :
                 sessions[s][i].join = "rewrite" => sessions[s][i].from[3]
       /\ Cardinality({of[s] : s \in DOMAIN sessions}) = Cardinality(DOMAIN sessions)
=============================================================================
