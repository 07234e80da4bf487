--------------------------- MODULE MCAgentManager ---------------------------
\* What is kept of work under way, in three independent parts, one of which moves in a behaviour:
\* the records of subagents (AgentManager), the ledger of a run's tasks (TaskLedger), and pi's
\* transcript as it is imported (PiImport).
EXTENDS AgentManager, TaskLedger, PiImport

VARIABLE part

\* AgentManager: two subagents of the operator, whose models share a provider, and one subagent
\* of the first.
CONSTANTS a1, a2, a3, m1, m2, p, op, nan

TheAgents  == {a1, a2, a3}
TheKeys    == a1 :> m1 @@ a2 :> m2 @@ a3 :> m1
TheParents == a1 :> op @@ a2 :> op @@ a3 :> a1
TheDepths  == a1 :> 1 @@ a2 :> 1 @@ a3 :> 2
TheModels  == m1 :> p @@ m2 :> p

One    == [default |-> 1, providers |-> <<>>, models |-> <<>>]
Shared == [default |-> nan, providers |-> p :> 1, models |-> <<>>]
Named0 == [default |-> 2, providers |-> p :> 2, models |-> m1 :> 0]
TheConfigs == {One, Shared, Named0}

Acts(acts) == [acts |-> acts, broken |-> {}]
TheScenarios ==
    {Acts({"verify", "stop", "clear"}), Acts({"verify", "steer"}), Acts({"limits", "steer", "stop"}),
     Acts({"verify", "dispose"}), [acts |-> {"limits"}, broken |-> {a2}]}

Task(d, s) == [description |-> d, status |-> s]

\* TaskLedger: no task, one, two, more than the ledger holds with one named twice, one that is done.
TheTasks ==
  {<<>>, <<Task("a", "done")>>, <<Task("a", "done"), Task("b", "todo")>>,
   <<Task("b", "in-progress"), Task("b", "todo"), Task("c", "todo"), Task("a", "done"),
     Task("d", "todo")>>}
ThePlans ==
  {[section |-> s, tasks |-> t] : s \in {"c1", "c2", "samples", "none"},
                                  t \in {<<>>, <<Task("a", "todo"), Task("b", "todo")>>}}
TheManagerAnswers == [done : BOOLEAN, next : {"none", "a", "d"}, tasks : TheTasks]
TheLedgers ==
  {[check |-> "c1", prompt |-> "c2", improve |-> FALSE],
   [check |-> "none", prompt |-> "c2", improve |-> FALSE],
   [check |-> "none", prompt |-> "none", improve |-> TRUE]}

MCInit ==
    /\ part \in {"agents", "ledger", "pi"}
    /\ Init /\ (part # "agents" => config = One /\ may = Acts({"limits", "steer", "stop"}))
    /\ LedgerInit /\ (part # "ledger" => ledger.improve)
    /\ PiInit

MCNext ==
    /\ UNCHANGED part
    /\ part # "agents" => UNCHANGED vars
    /\ part # "ledger" => UNCHANGED ledgerVars
    /\ part # "pi" => UNCHANGED piVars
    /\ \/ part = "agents" /\ Next
       \/ part = "ledger" /\ LedgerNext
       \/ part = "pi" /\ PiNext

MCSpec == MCInit /\ [][MCNext]_<<part, vars, ledgerVars, piVars>>
=============================================================================
