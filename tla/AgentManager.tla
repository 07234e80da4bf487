---------------------------- MODULE AgentManager ----------------------------
(***************************************************************************)
(* The subagents of pi-subagents-lite (agent-manager.ts): records that are *)
(* spawned, queued behind the concurrency limits, run, checked by a        *)
(* verifier, continued, stopped and cleared.  One thread runs all of it; a *)
(* step below is what happens between two awaits.                          *)
(*                                                                         *)
(* A run is in "setup" until its session exists, then in its "turn"; the   *)
(* verifier then asks a judge and, if the answer misses the task, the      *)
(* child itself for a repair, at most Rounds times.  An answer is a        *)
(* number: the attempts of a record are numbered through.  A subagent may  *)
(* spawn one of its own and waits for its completion gate.                 *)
(***************************************************************************)
EXTENDS SlotTable, Sequences, SequencesExt

CONSTANTS
    Agents,     \* the records
    Key,        \* the model of each
    Parent,     \* the agent that spawns it, or Operator
    Operator,
    Depth,      \* the nesting depth of each
    Rounds,     \* SUBAGENT_VERIFY_ROUNDS
    MaxRuns,    \* bound: runs of one record
    MaxContinued, \* bound: records that run more than once
    MaxChanges, \* bound: changes of the limits
    Configs,    \* limits the operator may set
    Scenarios   \* what callers may do, of "verify", "stop", "clear", "steer", "limits" and "dispose",
                \* and whose start throws: [acts |-> ..., broken |-> ...]

ASSUME AgentsAssumption ==
    /\ Key \in [Agents -> Models] /\ Parent \in [Agents -> Agents \cup {Operator}] /\ Operator \notin Agents
    /\ Depth \in [Agents -> Nat \ {0}]
    /\ \A a \in Agents : Depth[a] = IF Parent[a] = Operator THEN 1 ELSE Depth[Parent[a]] + 1
    /\ IsFiniteSet(Agents)
    /\ Rounds \in Nat /\ MaxRuns \in Nat \ {0} /\ MaxContinued \in Nat /\ MaxChanges \in Nat

Limit == Int \cup {Unreadable}
ASSUME ConfigsAssumption ==
    \A c \in Configs :
        /\ DOMAIN c = {"default", "providers", "models"} /\ c.default \in Limit
        /\ \A p \in DOMAIN c.providers : c.providers[p] \in Limit
        /\ \A m \in DOMAIN c.models : c.models[m] \in Limit
ASSUME ScenariosAssumption ==
    Scenarios \subseteq [acts : SUBSET {"verify", "stop", "clear", "steer", "limits", "dispose"},
                         broken : SUBSET Agents]

\* A record that is cleared while its stopped run still goes on is lost to a recount: no scenario
\* has all three acts that this takes.
ClearsNoHolder == \A s \in Scenarios : ~({"stop", "clear", "limits"} \subseteq s.acts)

VARIABLES
    rec,      \* the records
    agents,   \* those the manager still has
    queue,    \* those that wait for a slot, in order
    tables,   \* the table of limits of each depth that has been asked for
    config,   \* the limits in force
    changes,
    disposed,
    may       \* the scenario

vars == <<rec, agents, queue, tables, config, changes, disposed, may>>

\* One pool per nesting depth.  Mutant: one for all.
OneDepth(a) == 1
DepthOf(a) == Depth[a]

Answers == 0..(MaxRuns * (Rounds + 1))
Attempt(run, round) == (run - 1) * (Rounds + 1) + round + 1

New == [status |-> "new", started |-> FALSE, runs |-> 0, run |-> "none", round |-> 0, hold |-> FALSE, settled |-> FALSE,
        abort |-> FALSE, vstop |-> FALSE, bound |-> FALSE, session |-> FALSE, result |-> 0, verdict |-> "none",
        gate |-> <<>>, good |-> 0]   \* good: the answer a judge last approved (history)

TypeOK ==
    /\ \A a \in Agents :
          /\ DOMAIN rec[a] = DOMAIN New
          /\ rec[a].status \in {"new", "queued", "running", "stopped", "completed", "cutoff", "error"}
          /\ rec[a].run \in {"none", "setup", "turn", "judge", "repair"}
          /\ rec[a].runs \in 0..MaxRuns /\ rec[a].round \in 0..Rounds
          /\ rec[a].result \in Answers /\ rec[a].good \in Answers
          /\ rec[a].verdict \in {"none", "passed", "repaired", "unparsed", "failed", "errored", "skipped"}
          /\ rec[a].gate \in {<<>>} \cup {<<v>> : v \in Answers}
    /\ agents \subseteq Agents
    /\ queue \in Seq(Agents) /\ IsInjective(queue)
    /\ DOMAIN tables \subseteq {DepthOf(a) : a \in Agents}
    /\ \A d \in DOMAIN tables : \A s \in DOMAIN tables[d].limit : tables[d].limit[s] \in Nat \ {0}
    /\ config \in Configs /\ changes \in 0..MaxChanges /\ disposed \in BOOLEAN /\ may \in Scenarios

Queued(a)    == rec[a].status = "queued"
Checking(r)  == r.run \in {"judge", "repair"}
Verifying(a) == Checking(rec[a])
Children(a)  == {c \in Agents : Parent[c] = a}

-----------------------------------------------------------------------------
(* The synchronous parts, as functions of what they change: a record, or with it the queue and the tables *)

\* The gate is opened once; whoever awaits it resumes with the value.
Open(r, value) == IF r.gate = <<>> THEN [r EXCEPT !.gate = <<value>>] ELSE r

\* startAgent; what it may throw it throws before the run exists.
Start(r) == [r EXCEPT !.status = "running", !.started = TRUE, !.run = "setup", !.runs = 1]
Fail(r)  == Open([r EXCEPT !.status = "error", !.started = TRUE, !.bound = FALSE], 0)

\* stopAgent, when it does not return false.
Stoppable(r) == r.status \in {"queued", "running"} \/ Checking(r)
Halt(r) ==
    LET told == [r EXCEPT !.abort = IF r.status = "queued" THEN @ ELSE TRUE, !.status = "stopped", !.bound = FALSE] IN
    IF Checking(r) THEN [r EXCEPT !.vstop = TRUE] ELSE IF r.started THEN told ELSE Open(told, 0)

\* teardownRecord: the verifier, then the session.
TearDown(r) == [r EXCEPT !.vstop = Checking(r) \/ @, !.session = FALSE, !.bound = FALSE]

World == [rec |-> rec, queue |-> queue, tables |-> tables]
Becomes(W) == rec' = W.rec /\ queue' = W.queue /\ tables' = W.tables
Put(W, a, r) == [W EXCEPT !.rec[a] = r]

Table(W, a) == IF DepthOf(a) \in DOMAIN W.tables THEN W.tables[DepthOf(a)] ELSE NewTable(config)
WithTable(W, a, t) ==
    [W EXCEPT !.tables = [d \in DOMAIN @ \cup {DepthOf(a)} |-> IF d = DepthOf(a) THEN t ELSE @[d]]]

Reserved(W, a) ==
    Put(WithTable(W, a, Reserve(Table(W, a), Key[a])), a, [W.rec[a] EXCEPT !.hold = TRUE])

Released(W, a) ==
    IF W.rec[a].hold
    THEN Put(WithTable(W, a, Release(Table(W, a), Key[a])), a, [W.rec[a] EXCEPT !.hold = FALSE])
    ELSE W

Started(W, a) == LET V == Reserved(W, a) IN Put(V, a, Start(V.rec[a]))
FailedStart(W, a) == LET V == Released(Reserved(W, a), a) IN Put(V, a, Fail(V.rec[a]))

\* The queue without a record, which is there at most once.
Without(q, a) ==
    IF \E i \in DOMAIN q : q[i] = a THEN RemoveAt(q, CHOOSE i \in DOMAIN q : q[i] = a) ELSE q

\* drainQueue, in order, past those whose slot is full.
Drain(V, a) ==
    IF a \notin agents \/ V.rec[a].status # "queued" \/ IsFull(Table(V, a), Key[a]) THEN V
    ELSE [(IF a \in may.broken THEN FailedStart(V, a) ELSE Started(V, a)) EXCEPT !.queue = Without(@, a)]
Drained(W) ==
    LET after[n \in 0..Len(W.queue)] == IF n = 0 THEN W ELSE Drain(after[n - 1], W.queue[n])
    IN after[Len(W.queue)]

\* The `finally` of attachSettlementChain.
Settled(W, a) ==
    LET freed == Released(Put(W, a, [W.rec[a] EXCEPT !.run = "none", !.round = 0, !.vstop = FALSE]), a)
        drained == Drained(freed)
        r == drained.rec[a] IN
    Put(drained, a, [Open(r, r.result) EXCEPT !.bound = FALSE, !.settled = TRUE])

Stopped(W, a) ==
    [Put(W, a, Halt(W.rec[a])) EXCEPT !.queue = IF Queued(a) THEN Without(@, a) ELSE @]

-----------------------------------------------------------------------------
(* Callers *)

\* spawn.  A subagent spawns in the middle of its turn; only the first time is modelled.
Spawn(a, aborted) ==
    /\ rec[a].status = "new" /\ ~disposed
    /\ Parent[a] # Operator => rec[Parent[a]].run = "turn" /\ rec[Parent[a]].runs = 1 /\ ~rec[Parent[a]].abort
    /\ LET full == IsFull(Table(World, a), Key[a])
           noted == WithTable(World, a, SlotFor(Table(World, a), Key[a]))
           born == [rec[a] EXCEPT !.status = IF full THEN "queued" ELSE "running", !.bound = ~aborted]
           kept == Put(noted, a, born) IN
       Becomes(IF aborted THEN Put(noted, a, Open([born EXCEPT !.status = "stopped", !.abort = ~full], 0))
               ELSE IF full THEN [kept EXCEPT !.queue = Append(@, a)]
               ELSE IF a \in may.broken THEN FailedStart(kept, a) ELSE Started(kept, a))
    /\ agents' = IF rec'[a].status = "error" THEN agents ELSE agents \cup {a}
    /\ UNCHANGED <<config, changes, disposed, may>>

\* StopAgent, Esc, the watchdog.
Stop(a) ==
    /\ "stop" \in may.acts /\ a \in agents /\ Stoppable(rec[a])
    /\ Becomes(Stopped(World, a))
    /\ UNCHANGED <<agents, config, changes, disposed, may>>

\* The turn that spawned it is aborted: the handler of the interrupt binding.
ParentStops(a) ==
    /\ Parent[a] # Operator /\ rec[Parent[a]].abort /\ rec[a].bound
    /\ LET told == IF a \in agents /\ Stoppable(rec[a]) THEN Stopped(World, a) ELSE World IN
       Becomes(Put(told, a, [told.rec[a] EXCEPT !.bound = FALSE]))
    /\ UNCHANGED <<agents, config, changes, disposed, may>>

\* clear.  Mutant: a record whose status is terminal is cleared though it is being verified.
MayClearTerminal(a) == rec[a].status \notin {"new", "queued", "running"}
MayClear(a) == rec[a].status \notin {"new", "queued", "running"} /\ ~Verifying(a)

Clear(a) ==
    /\ "clear" \in may.acts /\ a \in agents /\ MayClear(a)
    /\ Becomes(Put(World, a, Open(TearDown(rec[a]), 0))) /\ agents' = agents \ {a}
    /\ UNCHANGED <<config, changes, disposed, may>>

\* continueSettledAgent.  A verdict describes one answer.  Mutant: it is kept.
SameVerdict(r) == r.verdict
FreshVerdict(r) == "none"

Steer(a) ==
    /\ "steer" \in may.acts /\ a \in agents /\ rec[a].settled /\ rec[a].session /\ rec[a].runs < MaxRuns
    /\ Cardinality({b \in Agents \ {a} : rec[b].runs > 1}) < MaxContinued
    /\ ~IsFull(Table(World, a), Key[a])
    /\ LET V == Reserved(World, a) IN
       Becomes(Put(V, a, [V.rec[a] EXCEPT !.status = "running", !.settled = FALSE, !.abort = FALSE, !.run = "turn",
                                          !.runs = @ + 1, !.result = 0, !.verdict = FreshVerdict(rec[a])]))
    /\ UNCHANGED <<agents, config, changes, disposed, may>>

Holders(d) == [a \in {b \in agents : rec[b].hold /\ DepthOf(b) = d} |-> Key[a]]

\* setConcurrency.
Limits(new) ==
    /\ "limits" \in may.acts /\ changes < MaxChanges /\ changes' = changes + 1 /\ config' = new
    /\ Becomes(Drained([World EXCEPT !.tables = [d \in DOMAIN @ |-> SetLimits(@[d], new, Holders(d))]]))
    /\ UNCHANGED <<agents, disposed, may>>

Discard(r) ==
    LET told == TearDown([r EXCEPT !.abort = TRUE]) IN
    IF r.status = "queued" THEN Open([told EXCEPT !.status = "error"], 0) ELSE told

Dispose ==
    /\ "dispose" \in may.acts /\ ~disposed /\ disposed' = TRUE /\ agents' = {} /\ queue' = <<>>
    /\ rec' = [a \in Agents |-> IF a \in agents THEN Discard(rec[a]) ELSE rec[a]]
    /\ UNCHANGED <<tables, config, changes, may>>

-----------------------------------------------------------------------------
(* The runs, external but for what their end does *)

\* A subagent that waits for its own cannot end.
Waits(a) == \E c \in Children(a) : rec[c].status # "new" /\ rec[c].gate = <<>>

\* The session is created; a run that was aborted before does not prompt it.
SessionReady(a) ==
    /\ rec[a].run = "setup" /\ ~rec[a].abort
    /\ Becomes(Put(World, a, [rec[a] EXCEPT !.run = "turn", !.session = TRUE]))
    /\ UNCHANGED <<agents, config, changes, disposed, may>>

Fails(a) ==
    /\ rec[a].run \in {"setup", "turn"} /\ ~Waits(a)
    /\ \E s \in {rec[a].session} \cup (IF rec[a].run = "setup" /\ ~disposed THEN {TRUE} ELSE {}) :
          Becomes(Settled(Put(World, a, [rec[a] EXCEPT !.status = IF @ = "stopped" THEN @ ELSE "error", !.result = 0,
                                                !.session = s]), a))
    /\ UNCHANGED <<agents, config, changes, disposed, may>>

\* An answer or none worth judging, from a run that went to its end, was cut off or was aborted.
\* The verifier's switch is read now; a continuation may have nothing to verify with.
TurnEnds(a, answered) ==
    /\ rec[a].run = "turn" /\ ~Waits(a)
    /\ LET stopped == rec[a].status = "stopped"
           ended == [rec[a] EXCEPT !.status = IF stopped THEN @ ELSE IF answered THEN "completed" ELSE "cutoff",
                                   !.result = Attempt(rec[a].runs, 0)] IN
       \E checks \in (IF "verify" \notin may.acts THEN {FALSE} ELSE IF rec[a].runs = 1 THEN {TRUE} ELSE BOOLEAN) :
          Becomes(IF checks /\ answered /\ ~stopped
                  THEN Put(World, a, [ended EXCEPT !.run = "judge"])
                  ELSE Settled(Put(World, a, [ended EXCEPT !.verdict = IF checks THEN "skipped" ELSE @, !.session = TRUE]), a))
    /\ UNCHANGED <<agents, config, changes, disposed, may>>

\* verifyAnswer returns: the answer that goes back, and what is said of it.
Verified(a, verdict, answer, good) ==
    Settled(Put(World, a, [rec[a] EXCEPT !.verdict = verdict, !.result = answer, !.good = good, !.session = TRUE]), a)

Original(a)  == Attempt(rec[a].runs, 0)
Candidate(a) == Attempt(rec[a].runs, rec[a].round)

\* What the judge says: "yes", "no", something unreadable, or nothing in time.
AsksAgain(a) == rec[a].round < Rounds

Judges(a, reply) ==
    /\ rec[a].run = "judge" /\ (rec[a].vstop => reply = "nothing")
    /\ Becomes(CASE reply = "nothing" -> Verified(a, "errored", Original(a), rec[a].good)
                 [] reply = "unreadable" -> Verified(a, "unparsed", Candidate(a), rec[a].good)
                 [] reply = "yes" -> Verified(a, IF rec[a].round = 0 THEN "passed" ELSE "repaired", Candidate(a), Candidate(a))
                 [] reply = "no" -> IF AsksAgain(a)
                                    THEN Put(World, a, [rec[a] EXCEPT !.run = "repair", !.round = @ + 1])
                                    ELSE Verified(a, "failed", Original(a), rec[a].good))
    /\ UNCHANGED <<agents, config, changes, disposed, may>>

\* The repair is a new answer, none that is worth judging, or did not come.  Mutant: a repair
\* is taken for the answer it was asked to be.
TakesRepair(a) == Verified(a, "repaired", Candidate(a), rec[a].good)
JudgesRepair(a) == Put(World, a, [rec[a] EXCEPT !.run = "judge"])

Repairs(a, reply) ==
    /\ rec[a].run = "repair" /\ (rec[a].vstop \/ ~rec[a].session => reply = "nothing")
    /\ Becomes(CASE reply = "nothing" -> Verified(a, "errored", Original(a), rec[a].good)
                 [] reply = "no answer" -> Verified(a, "failed", Original(a), rec[a].good)
                 [] reply = "answer" -> JudgesRepair(a))
    /\ UNCHANGED <<agents, config, changes, disposed, may>>

RunStep(a) ==
    \/ SessionReady(a) \/ Fails(a) \/ ParentStops(a)
    \/ \E answered \in BOOLEAN : TurnEnds(a, answered)
    \/ \E reply \in {"yes", "no", "unreadable", "nothing"} : Judges(a, reply)
    \/ \E reply \in {"answer", "no answer", "nothing"} : Repairs(a, reply)

Init ==
    /\ rec = [a \in Agents |-> New] /\ agents = {} /\ queue = <<>> /\ tables = <<>>
    /\ config \in Configs /\ changes = 0 /\ disposed = FALSE /\ may \in Scenarios

Next ==
    \/ \E a \in Agents : RunStep(a) \/ Stop(a) \/ Clear(a) \/ Steer(a) \/ \E aborted \in BOOLEAN : Spawn(a, aborted)
    \/ \E new \in Configs : Limits(new)
    \/ Dispose

Spec == Init /\ [][Next]_vars

-----------------------------------------------------------------------------
(* Properties *)

\* A record holds a slot exactly while a run of it goes on, verification included: given back
\* once on every path (done, error, stop, start that throws), and not before the judge is done
\* (attachSettlementChain).
HeldWhileRunning == \A a \in Agents : rec[a].hold <=> rec[a].run # "none"

\* "A `running` count is a fact about the world": every count is the number of holders it serves
\* now, also after the limits have changed under them (concurrency-slots.ts).
Counted ==
    ~disposed =>
        /\ \A d \in DOMAIN tables : \A s \in DOMAIN tables[d].running :
              tables[d].running[s] =
                  Cardinality({a \in Agents : rec[a].hold /\ DepthOf(a) = d /\ SlotOf(tables[d], Key[a]) = s})
        /\ \A a \in Agents : rec[a].hold =>
              DepthOf(a) \in DOMAIN tables /\ SlotOf(tables[DepthOf(a)], Key[a]) \in DOMAIN tables[DepthOf(a)].running

\* The books of the pool are right: a run holds one slot, and the counts count those.
BooksAreRight == TypeOK /\ HeldWhileRunning /\ Counted

\* Nobody starts, is drained from the queue or continued into a slot that is full of runs that
\* really go on; the limits are those in force (spawn, drainQueue, continueSettledAgent).
Slots == INSTANCE Admission WITH
    inside <- {a \in Agents : rec[a].run # "none"},
    place  <- [a \in Agents |-> <<DepthOf(a), SlotOf(Table(World, a), Key[a])>>],
    room   <- [a \in Agents |-> LimitOf(Table(World, a), Key[a])]
Admits == Slots!Spec

\* "Passed" and "repaired" are said of the very answer that the judge approved: not of a repair
\* nobody checked, nor of the answer of a later run (verifyAnswer, continueSettledAgent).
VouchedFor == \A a \in Agents : rec[a].verdict \in {"passed", "repaired"} => rec[a].result = rec[a].good

\* Whoever waits for a record resumes with its final answer, not while a run or the check of
\* its answer goes on, unless the record was stopped and then cleared (clear, openGate).
AnswerWaits ==
    [][\A a \in Agents : rec[a].gate = <<>> /\ rec'[a].gate # <<>> =>
          \/ rec'[a].run = "none" /\ rec'[a].gate = <<rec'[a].result>>
          \/ rec[a].status = "stopped"]_vars

\* While a record is waited for, some run goes on that itself waits for nobody: a queued record
\* is not forgotten when a slot is free, and a pool full of parents that wait for their own
\* subagents does not keep these from running (DepthSlotTables, drainQueue).
NeverAllWait ==
    (\E a \in Agents : rec[a].status # "new" /\ rec[a].gate = <<>>) =>
        \E a \in Agents : rec[a].run # "none" /\ ~Waits(a)
=============================================================================
