---------------------------- MODULE BrowserServer ----------------------------
(***************************************************************************)
(* The browser server of scripts/browser_cli.py: `up` starts a detached    *)
(* supervisor and names it in a pid file; the supervisor runs the server,  *)
(* which holds the port and opens Chrome, and puts it back when it dies or *)
(* when its Chrome stops answering; `down`, `restart` and `reap` end       *)
(* processes.  Every tool call begins with an `up` (ensure_up), so several *)
(* commands run at once.  The commands and the supervisors share the pid   *)
(* file, the port, the process table and signals, and no lock.             *)
(*                                                                         *)
(* A supervisor has at most one server; server s is the child of           *)
(* supervisor s, alive or not, and Chrome s is in the group of server s.   *)
(* Calls to a hung server are not answered within any time limit, nor is   *)
(* one that its Chrome has to answer while Chrome is wedged; all others    *)
(* are.                                                                    *)
(***************************************************************************)
EXTENDS Naturals, FiniteSets

CONSTANTS
    Kinds,       \* what they may be: "up", "down", "restart", "reap"
    MaxSups,     \* bound: supervisors started
    MaxCommands, \* bound: commands issued, numbered in the order they are
    MaxFaults,   \* bound: crashes, wedges, hangs and kills
    MaxRestarts, \* restarts within ten minutes before a supervisor gives up
    Strikes,     \* WEDGE_STRIKES
    Hangs        \* the server may stop answering while it holds the port

ASSUME BoundsAssumption ==
    /\ MaxSups \in Nat \ {0} /\ MaxCommands \in Nat /\ MaxFaults \in Nat
    /\ MaxRestarts \in Nat \ {0} /\ Strikes \in Nat \ {0} /\ Hangs \in BOOLEAN
ASSUME KindsAssumption == "up" \in Kinds /\ Kinds \subseteq {"up", "down", "restart", "reap"}

VARIABLES
    pidFile,   \* the supervisor named in the pid file, 0 without the file
    sup,       \* where each supervisor is
    term,      \* it has received SIGTERM
    strikes,   \* looks in a row that found Chrome not answering
    restarts,  \* restarts it remembers of the last ten minutes
    srv,       \* each server: "none", "starting", "up", "hung"
    chrome,    \* each Chrome: "none", "ok", "wedged"
    pc,        \* where each command is
    kind,      \* which command it is
    target,    \* the process it ends: <<"sup", s>>, <<"srv", s>>
    reaped,    \* the processes a reap has signalled
    mine,      \* the supervisor an `up` has started
    faults,
    \* --- history, read by properties only
    mark,      \* the server that held the port when the stop of a command began; 0 once it is dead,
               \* or once somebody else has killed its supervisor
    abrupt,    \* supervisors that ended between the death of their server and the end of its group
    forced     \* commands whose supervisor a stop has killed in the middle of its shutdown

procs == <<sup, term, strikes, restarts, srv, chrome>>
cmds  == <<pc, kind, target, reaped, mine>>
vars  == <<pidFile, procs, cmds, faults, mark, abrupt, forced>>

Sups     == 1..MaxSups
Commands == 1..MaxCommands
Nobody   == <<"sup", 0>>

TypeOK ==
    /\ pidFile \in 0..MaxSups
    /\ sup \in [Sups -> {"unborn", "spawn", "gap", "watch", "kill", "reap", "sleep", "closing", "ending", "gone"}]
    /\ term \in [Sups -> BOOLEAN]
    /\ strikes \in [Sups -> 0..(Strikes - 1)] /\ restarts \in [Sups -> 0..MaxRestarts]
    /\ srv \in [Sups -> {"none", "starting", "up", "hung"}]
    /\ chrome \in [Sups -> {"none", "ok", "wedged"}]
    /\ pc \in [Commands -> {"idle", "stop", "close", "read", "readup", "signal", "await", "probe", "spawn", "write", "wait",
                            "reap", "reapkill", "ok", "failed"}]
    /\ kind \in [Commands -> Kinds]
    /\ target \in [Commands -> {"sup", "srv"} \X (0..MaxSups)]
    /\ reaped \in [Commands -> SUBSET ({"sup", "srv"} \X Sups)]
    /\ mine \in [Commands -> 0..MaxSups]
    /\ faults \in 0..MaxFaults
    /\ mark \in [Commands -> 0..MaxSups] /\ abrupt \subseteq Sups /\ forced \subseteq Commands

-----------------------------------------------------------------------------
(* Helpers *)

Set(f, i, v) == [f EXCEPT ![i] = v]
Goes(s, label) == sup' = Set(sup, s, label)
Go(c, label) == pc' = Set(pc, c, label)

Lives(s) == sup[s] \notin {"unborn", "gone"}
Runs(s) == srv[s] # "none"
\* The server that holds the port, and the probe of it (probe_server, is_up).
Holds(s) == srv[s] \in {"up", "hung"}
PortFree == \A s \in Sups : ~Holds(s)
IsUp == \E s \in Sups : srv[s] = "up"

\* read_pid: a pid file that names no living process names nothing.
ReadPid == IF pidFile # 0 /\ Lives(pidFile) THEN pidFile ELSE 0

\* find_supervisor: some server of our port, through its supervisor if that lives.
FindSupervisor == {IF Lives(s) THEN <<"sup", s>> ELSE <<"srv", s>> : s \in {r \in Sups : Runs(r)}}

\* chrome_health: the Chrome below the pid file's supervisor; else the only one there is.
Browsers == {s \in Sups : chrome[s] # "none"}
Health ==
    IF ReadPid \in Browsers THEN chrome[ReadPid]
    ELSE IF Cardinality(Browsers) = 1 THEN chrome[CHOOSE s \in Browsers : TRUE] ELSE "none"

Dead(s, f) == Set(f, s, "none")
Unmarked(dead) == [c \in Commands |-> IF mark[c] \in dead THEN 0 ELSE mark[c]]

\* stop_browser, sent to whoever holds the port: it closes Chrome, but with a Chrome that does
\* not answer it is "exactly the call that hangs" (_wait_watching_chrome).
Answers(s) == srv[s] = "up" /\ chrome[s] # "wedged"
ClosesChrome == chrome' = [s \in Sups |-> IF Answers(s) THEN "none" ELSE chrome[s]]

-----------------------------------------------------------------------------
(* The supervisor: the handler of SIGTERM comes before its next step. *)

Spawn(s) ==
    /\ sup[s] = "spawn" /\ ~term[s] /\ Goes(s, "gap")
    /\ srv' = Set(srv, s, "starting")
    /\ UNCHANGED <<pidFile, term, strikes, restarts, chrome, cmds, faults, mark, abrupt, forced>>

\* Popen has returned and `child` is assigned: from here the signal handler knows the server.
Assign(s) ==
    /\ sup[s] = "gap" /\ ~term[s] /\ Goes(s, "watch")
    /\ UNCHANGED <<pidFile, term, strikes, restarts, srv, chrome, cmds, faults, mark, abrupt, forced>>

\* _wait_watching_chrome: the server has exited, or Chrome is looked at.  The looks are far
\* apart: a server is up, or has exited, before they fill the strikes.
SeesExit(s) ==
    /\ sup[s] = "watch" /\ ~term[s] /\ ~Runs(s) /\ Goes(s, "reap")
    /\ strikes' = Set(strikes, s, 0)
    /\ UNCHANGED <<pidFile, term, restarts, srv, chrome, cmds, faults, mark, abrupt, forced>>

Looks(s) ==
    /\ sup[s] = "watch" /\ ~term[s] /\ Runs(s)
    /\ LET n == IF Health = "wedged" THEN strikes[s] + 1 ELSE 0 IN
       /\ n # strikes[s] /\ (n < Strikes \/ Holds(s))
       /\ strikes' = Set(strikes, s, IF n < Strikes THEN n ELSE 0)
       /\ Goes(s, IF n < Strikes THEN "watch" ELSE "kill")
    /\ UNCHANGED <<pidFile, term, restarts, srv, chrome, cmds, faults, mark, abrupt, forced>>

EndsServer(s) ==
    /\ sup[s] = "kill" /\ ~term[s] /\ Goes(s, "reap") /\ srv' = Dead(s, srv) /\ mark' = Unmarked({s})
    /\ UNCHANGED <<pidFile, term, strikes, restarts, chrome, cmds, faults, abrupt, forced>>

\* Where the loop goes on after the group is gone.  Mutant: to the server that is dead.
LoopsToWatch == "watch"
LoopsTo == "sleep"

\* A crash loop must not become a fork bomb.
GivesUp(n) == n >= MaxRestarts

\* reap_group, then the count of restarts, of which some are older than ten minutes.
Reap(s) ==
    /\ sup[s] = "reap" /\ ~term[s] /\ chrome' = Dead(s, chrome)
    /\ \E recent \in 0..restarts[s] :
          restarts' = Set(restarts, s, recent + 1) /\ Goes(s, IF GivesUp(recent + 1) THEN "gone" ELSE LoopsTo)
    /\ UNCHANGED <<pidFile, term, strikes, srv, cmds, faults, mark, abrupt, forced>>

Wakes(s) ==
    /\ sup[s] = "sleep" /\ ~term[s] /\ Goes(s, "spawn")
    /\ UNCHANGED <<pidFile, term, strikes, restarts, srv, chrome, cmds, faults, mark, abrupt, forced>>

\* shutdown, the handler of SIGTERM.  Without a child it knows to be alive it exits at once:
\* what it was just starting, or had not yet cleared away, stays.
ExitsAtOnce(s) ==
    /\ term[s] /\ sup[s] \in {"spawn", "gap", "reap", "sleep"} \cup (IF Runs(s) THEN {} ELSE {"watch", "kill"})
    /\ Goes(s, "gone")
    /\ abrupt' = IF Runs(s) \/ chrome[s] # "none" THEN abrupt \cup {s} ELSE abrupt
    /\ UNCHANGED <<pidFile, term, strikes, restarts, srv, chrome, cmds, faults, mark, forced>>

Closes(s) ==
    /\ term[s] /\ sup[s] \in {"watch", "kill"} /\ Runs(s) /\ Goes(s, "closing")
    /\ UNCHANGED <<pidFile, term, strikes, restarts, srv, chrome, cmds, faults, mark, abrupt, forced>>

\* Its stop_browser goes to the port, not to its child.  If that hangs it takes 20 seconds, and
\* whoever has sent the signal kills the supervisor after 15 (stop_server) or 2 (reap).
StuckClosing(s) == sup[s] = "closing" /\ \E r \in Sups : Holds(r) /\ ~Answers(r)

Closed(s) ==
    /\ sup[s] = "closing" /\ ~StuckClosing(s) /\ Goes(s, "ending") /\ ClosesChrome
    /\ UNCHANGED <<pidFile, term, strikes, restarts, srv, cmds, faults, mark, abrupt, forced>>

\* What is left of the group when the server has ended.  Mutant: reap_group is not called.
GroupStays(s) == chrome
GroupAfter(s) == Dead(s, chrome)

Ended(s) ==
    /\ sup[s] = "ending" /\ Goes(s, "gone")
    /\ srv' = Dead(s, srv) /\ chrome' = GroupAfter(s) /\ mark' = Unmarked({s})
    /\ UNCHANGED <<pidFile, term, strikes, restarts, cmds, faults, abrupt, forced>>

SupStep(s) ==
    \/ Spawn(s) \/ Assign(s) \/ SeesExit(s) \/ Looks(s) \/ EndsServer(s) \/ Reap(s) \/ Wakes(s)
    \/ ExitsAtOnce(s) \/ Closes(s) \/ Closed(s) \/ Ended(s)

-----------------------------------------------------------------------------
(* The server and Chrome, external *)

\* A server that starts takes the port, or exits because another holds it.  It is not that far
\* before Popen has returned.
Binds(s) ==
    /\ srv[s] = "starting" /\ sup[s] # "gap"
    /\ srv' = Set(srv, s, IF PortFree THEN "up" ELSE "none") /\ mark' = IF PortFree THEN mark ELSE Unmarked({s})
    /\ UNCHANGED <<pidFile, sup, term, strikes, restarts, chrome, cmds, faults, abrupt, forced>>

\* The first tool call opens Chrome.
OpensChrome(s) ==
    /\ srv[s] = "up" /\ chrome[s] = "none" /\ chrome' = Set(chrome, s, "ok")
    /\ UNCHANGED <<pidFile, sup, term, strikes, restarts, srv, cmds, faults, mark, abrupt, forced>>

Fault == faults < MaxFaults /\ faults' = faults + 1

Crashes(s) ==
    /\ Fault /\ Runs(s) /\ srv' = Dead(s, srv) /\ mark' = Unmarked({s})
    /\ UNCHANGED <<pidFile, sup, term, strikes, restarts, chrome, cmds, abrupt, forced>>

Wedges(s) ==
    /\ Fault /\ chrome[s] = "ok" /\ chrome' = Set(chrome, s, "wedged")
    /\ UNCHANGED <<pidFile, sup, term, strikes, restarts, srv, cmds, mark, abrupt, forced>>

Unwedges(s) ==
    /\ chrome[s] = "wedged" /\ chrome' = Set(chrome, s, "ok")
    /\ UNCHANGED <<pidFile, sup, term, strikes, restarts, srv, cmds, faults, mark, abrupt, forced>>

HangsUp(s) ==
    /\ Hangs /\ Fault /\ srv[s] = "up" /\ srv' = Set(srv, s, "hung")
    /\ UNCHANGED <<pidFile, sup, term, strikes, restarts, chrome, cmds, mark, abrupt, forced>>

\* The supervisor is killed from outside (out of memory).
SupKilled(s) ==
    /\ Fault /\ Lives(s) /\ Goes(s, "gone") /\ abrupt' = abrupt \cup {s} /\ mark' = Unmarked({s})
    /\ UNCHANGED <<pidFile, term, strikes, restarts, srv, chrome, cmds, forced>>

-----------------------------------------------------------------------------
(* The commands *)

\* The bound on supervisors is kept here, so that a command once issued is never held up by it.
ToSpawn == {c \in Commands : kind[c] \in {"up", "restart"} /\ pc[c] \notin {"idle", "write", "wait", "ok", "failed"}}
Unborn == {s \in Sups : sup[s] = "unborn"}

Issue(c, k) ==
    /\ pc[c] = "idle" /\ \A d \in Commands : d < c => pc[d] # "idle"
    /\ k \in {"up", "restart"} => Cardinality(ToSpawn) < Cardinality(Unborn)
    /\ kind' = Set(kind, c, k)
    /\ Go(c, CASE k = "up" -> "probe" [] k = "reap" -> "reap" [] OTHER -> "stop")
    /\ UNCHANGED <<pidFile, procs, target, reaped, mine, faults, mark, abrupt, forced>>

\* stop_server: a server that is up is told to close Chrome first, for thirty seconds.
StopProbe(c) ==
    /\ pc[c] = "stop" /\ Go(c, IF IsUp THEN "close" ELSE "read")
    /\ mark' = Set(mark, c, IF PortFree THEN 0 ELSE CHOOSE s \in Sups : Holds(s))
    /\ UNCHANGED <<pidFile, procs, kind, target, reaped, mine, faults, abrupt, forced>>

StopBrowser(c) ==
    /\ pc[c] = "close" /\ Go(c, "readup") /\ ClosesChrome
    /\ UNCHANGED <<pidFile, sup, term, strikes, restarts, srv, kind, target, reaped, mine, faults, mark, abrupt, forced>>

AfterStop(c) == IF kind[c] = "restart" THEN "probe" ELSE "ok"

\* What a stop ends: the process of the pid file, or else the server that answered.  Mutant:
\* a stale pid file means that nothing runs.
PidFileOnly(answered) == IF ReadPid # 0 THEN {<<"sup", ReadPid>>} ELSE {}
ToStop(answered) ==
    IF ReadPid # 0 THEN {<<"sup", ReadPid>>} ELSE IF answered THEN FindSupervisor ELSE {}

\* The answer of the probe is old by now.  The mark is only kept while the server that held the
\* port is the only one and no other supervisor lives.
StopRead(c) ==
    /\ pc[c] \in {"read", "readup"}
    /\ mark' = IF \A s \in Sups \ {mark[c]} : ~Lives(s) /\ ~Runs(s) THEN mark ELSE Set(mark, c, 0)
    /\ LET processes == ToStop(pc[c] = "readup") IN
       IF processes = {}
       THEN Go(c, AfterStop(c)) /\ UNCHANGED target
       ELSE \E p \in processes : target' = Set(target, c, p) /\ Go(c, "signal")
    /\ UNCHANGED <<pidFile, procs, kind, reaped, mine, faults, abrupt, forced>>

Alive(p) == IF p[1] = "sup" THEN Lives(p[2]) ELSE Runs(p[2])

\* SIGTERM; a process that has ended meanwhile makes the command fail.
StopSignal(c) ==
    /\ pc[c] = "signal"
    /\ IF ~Alive(target[c])
       THEN Go(c, "failed") /\ UNCHANGED <<term, srv, mark>>
       ELSE /\ Go(c, "await")
            /\ IF target[c][1] = "sup"
               THEN term' = Set(term, target[c][2], TRUE) /\ UNCHANGED <<srv, mark>>
               ELSE srv' = Dead(target[c][2], srv) /\ mark' = Unmarked({target[c][2]}) /\ UNCHANGED term
    /\ UNCHANGED <<pidFile, sup, strikes, restarts, chrome, kind, target, reaped, mine, faults, abrupt, forced>>

StopDone(c) ==
    /\ pc[c] = "await" /\ ~Alive(target[c]) /\ pidFile' = 0 /\ Go(c, AfterStop(c))
    /\ target' = Set(target, c, Nobody)
    /\ UNCHANGED <<procs, kind, reaped, mine, faults, mark, abrupt, forced>>

\* Fifteen seconds are over and the supervisor still waits for stop_browser: SIGKILL.  Its
\* server stays, also for the others who wait for the supervisor to end.
StopKills(c) ==
    /\ pc[c] = "await" /\ target[c][1] = "sup" /\ StuckClosing(target[c][2])
    /\ Goes(target[c][2], "gone") /\ abrupt' = abrupt \cup {target[c][2]}
    /\ forced' = forced \cup {d \in Commands : target[d] = target[c]}
    /\ pidFile' = 0 /\ Go(c, AfterStop(c)) /\ target' = Set(target, c, Nobody)
    /\ UNCHANGED <<term, strikes, restarts, srv, chrome, kind, reaped, mine, faults, mark>>

\* start_server.
UpProbe(c) ==
    /\ pc[c] = "probe" /\ Go(c, IF IsUp THEN "ok" ELSE "spawn")
    /\ UNCHANGED <<pidFile, procs, kind, target, reaped, mine, faults, mark, abrupt, forced>>

NewSup == CHOOSE s \in Unborn : \A r \in Unborn : s <= r

UpSpawn(c) ==
    /\ pc[c] = "spawn"
    /\ Goes(NewSup, "spawn") /\ mine' = Set(mine, c, NewSup) /\ Go(c, "write")
    /\ UNCHANGED <<pidFile, term, strikes, restarts, srv, chrome, kind, target, reaped, faults, mark, abrupt, forced>>

UpWrites(c) ==
    /\ pc[c] = "write" /\ pidFile' = mine[c] /\ Go(c, "wait")
    /\ UNCHANGED <<procs, kind, target, reaped, mine, faults, mark, abrupt, forced>>

\* Its supervisor has ended, the port answers (whoever does), or START_TIMEOUT is over.
UpWaits(c) ==
    /\ pc[c] = "wait"
    /\ \/ ~Lives(mine[c]) /\ Go(c, "failed")
       \/ Lives(mine[c]) /\ IsUp /\ Go(c, "ok")
       \/ Lives(mine[c]) /\ ~IsUp /\ Go(c, "failed")
    /\ mine' = Set(mine, c, 0)
    /\ UNCHANGED <<pidFile, procs, kind, target, reaped, faults, mark, abrupt, forced>>

\* reap: what has no living parent and is not the pid file's supervisor.  The parent of a
\* supervisor is the command that started it, until that ends.
Parentless ==
    {<<"sup", s>> : s \in {r \in Sups : Lives(r) /\ \A c \in Commands : mine[c] # r}}
    \cup {<<"srv", s>> : s \in {r \in Sups : Runs(r) /\ ~Lives(r)}}
ReapSignals(c) ==
    /\ pc[c] = "reap" /\ Go(c, "reapkill")
    /\ reaped' = Set(reaped, c, Parentless \ {<<"sup", ReadPid>>})
    /\ LET dead == {s \in Sups : <<"srv", s>> \in reaped'[c]} IN
       /\ srv' = [s \in Sups |-> IF s \in dead THEN "none" ELSE srv[s]] /\ mark' = Unmarked(dead)
       /\ term' = [s \in Sups |-> term[s] \/ <<"sup", s>> \in reaped'[c]]
    /\ UNCHANGED <<pidFile, sup, strikes, restarts, chrome, kind, target, mine, faults, abrupt, forced>>

\* Two seconds later: SIGKILL, also to a supervisor in the middle of its shutdown.
ReapKills(c) ==
    /\ pc[c] = "reapkill" /\ Go(c, "ok")
    /\ LET dead == {s \in Sups : <<"sup", s>> \in reaped[c] /\ Lives(s)} IN
       /\ sup' = [s \in Sups |-> IF s \in dead THEN "gone" ELSE sup[s]] /\ abrupt' = abrupt \cup dead
       /\ mark' = Unmarked(dead)
    /\ reaped' = Set(reaped, c, {})
    /\ UNCHANGED <<pidFile, term, strikes, restarts, srv, chrome, kind, target, mine, faults, forced>>

CommandStep(c) ==
    \/ StopProbe(c) \/ StopBrowser(c) \/ StopRead(c) \/ StopSignal(c) \/ StopDone(c)
    \/ StopKills(c) \/ UpProbe(c) \/ UpSpawn(c) \/ UpWrites(c) \/ UpWaits(c) \/ ReapSignals(c) \/ ReapKills(c)

-----------------------------------------------------------------------------
\* Nothing was started yet, or an earlier `up` has brought up the first supervisor.
Init == \E earlier \in BOOLEAN :
    LET first(f, v) == [s \in Sups |-> IF earlier /\ s = 1 THEN v ELSE f] IN
    /\ pidFile = IF earlier THEN 1 ELSE 0
    /\ sup = first("unborn", "watch") /\ srv = first("none", "up") /\ chrome = first("none", "ok")
    /\ term = [s \in Sups |-> FALSE]
    /\ strikes = [s \in Sups |-> 0] /\ restarts = [s \in Sups |-> 0]
    /\ pc = [c \in Commands |-> "idle"] /\ kind = [c \in Commands |-> "up"]
    /\ target = [c \in Commands |-> Nobody] /\ reaped = [c \in Commands |-> {}]
    /\ mine = [c \in Commands |-> 0] /\ faults = 0
    /\ mark = [c \in Commands |-> 0] /\ abrupt = {} /\ forced = {}

World(s) == OpensChrome(s) \/ Crashes(s) \/ Wedges(s) \/ Unwedges(s) \/ HangsUp(s) \/ SupKilled(s)

Next ==
    \/ \E s \in Sups : SupStep(s) \/ Binds(s) \/ World(s)
    \/ \E c \in Commands : CommandStep(c) \/ \E k \in Kinds : Issue(c, k)

Spec == Init /\ [][Next]_vars

\* Every process runs and a server that starts gets on; nobody has to issue a command.
FairSpec ==
    Spec /\ (\A s \in Sups : WF_vars(SupStep(s)) /\ WF_vars(Binds(s))) /\ (\A c \in Commands : WF_vars(CommandStep(c)))

-----------------------------------------------------------------------------
(* Properties *)

Stopped(c) == kind[c] \in {"down", "restart"} /\ pc[c] \in {"probe", "spawn", "write", "wait", "ok"}

\* A stop that reports success has ended the server that held the port when it began, also
\* when the pid file is stale or its supervisor restarts the server meanwhile (stop_server,
\* find_supervisor: "`restart` reported success and changed nothing"): unless that server hangs,
\* or it came to killing its supervisor in the middle of closing a wedged Chrome.  A second
\* supervisor on the port is excluded, since the stop ends only one.
StopStops ==
    \A c \in Commands : Stopped(c) /\ mark[c] # 0 => srv[mark[c]] = "hung" \/ c \in forced

\* A stop that reports success has ended the server (docs/context-budget.md, `browser.sh down`:
\* "Stop Chrome and its server"; status, of a wedged Chrome: "Fix: ./scripts/browser.sh
\* restart").  Not so with a wedged Chrome: the supervisor waits twenty seconds for stop_browser
\* (shutdown) and is killed after fifteen (stop_server), and its server keeps serving.
StopEndsServer == \A c \in Commands : Stopped(c) => mark[c] = 0

\* Chrome does not outlive both its server and its supervisor, however the supervisor ends
\* the server: exit, wedge, crash loop or shutdown (reap_group); a supervisor that is killed,
\* or told to stop before it has cleared away, leaves it.
ChromeOwned == TypeOK /\ \A s \in Sups : chrome[s] # "none" => Runs(s) \/ Lives(s) \/ s \in abrupt

\* While a supervisor lives and is not told to stop, the port answers again or it gives up:
\* after a crash, a wedged Chrome, or a start beside another server (supervise).  A server that
\* hangs is not noticed: the supervisor looks at Chrome only.
Hung == \E s \in Sups : srv[s] = "hung"
PortAnswersAgain == \A s \in Sups : (Lives(s) /\ ~term[s]) ~> (IsUp \/ term[s] \/ ~Lives(s) \/ Hung)

\* Every command comes to an end, whatever the supervisors and the other commands do.
CommandsEnd == \A c \in Commands : pc[c] # "idle" ~> pc[c] \in {"ok", "failed"}

\* Nobody waits for ever: neither who uses the browser nor who starts and stops it.
Recovers == PortAnswersAgain /\ CommandsEnd
=============================================================================
