------------------------------ MODULE MCTurns ------------------------------
\* What becomes of a model's turn, in four independent parts, one of which moves in a behaviour:
\* forge as it is patched (ForgeTurn), the build that patches it (PatchBuild), the
\* orchestrator's reading of the turns of a role (RoleAnswer), and the states of the workspace a
\* run keeps of their work (WorkTree).
EXTENDS ForgeTurn, PatchBuild, RoleAnswer, WorkTree

VARIABLE part

\* ForgeTurn: every wire, without tools, with the budgets .env sets, and a setup with retries
\* that the errors of tools outlive.  Which reasoning is replayed matters to the prompt alone:
\* the other policies are met on each wire in a whole answer.
Setups ==
    [wire : {"openai", "anthropic"}, streamed : BOOLEAN, tools : BOOLEAN, maxRetries : {0, 2},
     maxToolErrors : {0, 2}, replay : {"full", "keep-last", "none"}, detail : BOOLEAN]
Budgets == {<<0, 2>>, <<2, 2>>}
TheScenarios ==
    {s \in Setups : /\ <<s.maxRetries, s.maxToolErrors>> \in Budgets
                    /\ ~s.tools => s.maxRetries = 0
                    /\ ~s.detail => s.maxRetries = 0
                    /\ s.replay # "full" => ~s.streamed /\ s.detail /\ (s.tools => s.maxRetries = 2)}

\* PatchBuild: the installed package as the patches know it, and with the last block of an edit
\* list or a needed name gone, or one of the blocks that stay beside what a patch adds written
\* twice.
EditsIn(file) == UNION {ToSet(s.edits) : s \in {s \in UNION {ToSet(p.steps) : p \in Patches} : s.file = file}}
Written(file) == UNION {e.new \ e.old : e \in EditsIn(file)}
Pristine == [file \in Files |->
    [x \in Fragments(file) |->
        CASE x \in Written(file) -> 0
          [] x \in UNION {e.old : e \in EditsIn(file)} -> (CHOOSE e \in EditsIn(file) : x \in e.old).count
          [] x \in UNION {s.needs : s \in UNION {ToSet(p.steps) : p \in Patches}} -> 1
          [] OTHER -> 0]]
Present == {<<file, x>> \in Files \X UNION {Fragments(file) : file \in Files} :
               x \in Fragments(file) /\ Pristine[file][x] > 0}
LastBlocks == UNION {{<<s.file, x>> : x \in Last(s.edits).old \cup s.needs} : s \in UNION {ToSet(p.steps) : p \in Patches}}
Anchors == {spot \in Present : \E e \in EditsIn(spot[1]) : spot[2] \in e.old \cap e.new}
TheUpstreams ==
    {Pristine} \cup {[Pristine EXCEPT !["client"]["import os"] = 1],
                     [Pristine EXCEPT !["client"]["httpx.ReadTimeout"] = 1]}
        \cup {[Pristine EXCEPT ![spot[1]][spot[2]] = 0] : spot \in Present \cap LastBlocks}
        \cup {[Pristine EXCEPT ![spot[1]][spot[2]] = 2] : spot \in Anchors}

\* WorkTree: a file; a directory with a file, an ignored and an excluded one in it; and
\* sensitive files, one excluded and one not.
MCPaths == {"a", "d", "d/a", "d/i", "d/__pycache__/a", "KEY", "SECRET"}
MCBelow == {<<"d/a", "d">>, <<"d/i", "d">>, <<"d/__pycache__/a", "d">>}

\* The first run finds two branches and an ignored file nobody tracks; the
\* second uncommitted work and a file where the other has a directory; the
\* third is in a plain folder.
At(c, ps) == [p \in MCPaths |-> IF p \in ps THEN c ELSE "none"]
Tracked == At("x", {"a", "d/a", "KEY", "d/__pycache__/a"})
Empty == At("x", {})
MCFound == {
  [real |-> TRUE, files |-> [Tracked EXCEPT !["d/i"] = "x"], index |-> Tracked,
   main |-> Tracked, side |-> [Tracked EXCEPT !["a"] = "y"]],
  [real |-> TRUE, files |-> At("x", {"d", "SECRET"}), index |-> At("x", {"a"}),
   main |-> At("x", {"a"}), side |-> At("x", {"a"})],
  [real |-> FALSE, files |-> At("x", {"a", "d/a", "d/i", "KEY"}), index |-> Empty,
   main |-> Empty, side |-> Empty]}

\* What does not move has one state; a build has no files then, and a workspace none.
NoBuild == upstream = <<>> /\ text = <<>> /\ ok = {} /\ refused = FALSE
NoTree ==
    /\ files = 0 /\ index = 0 /\ real = FALSE /\ head = "main" /\ commits = 0 /\ base = None
    /\ want = NoBranch /\ tree = [n \in Names |-> None] /\ ref = [n \in {"base"} |-> None]
    /\ store = {} /\ seen = None /\ op = Idle /\ found = None /\ stood = 0 /\ fault = {} /\ count = 0

MCInit ==
    /\ part \in {"forge", "build", "answer", "tree"}
    /\ ForgeInit /\ (part # "forge" => set = CHOOSE s \in Scenarios : TRUE)
    /\ IF part = "build" THEN PatchInit ELSE NoBuild
    /\ AnswerInit /\ (part # "answer" => role = "router")
    /\ IF part = "tree" THEN Init ELSE NoTree

MCNext ==
    /\ UNCHANGED part
    /\ part # "forge" => UNCHANGED forgeVars
    /\ part # "build" => UNCHANGED patchVars
    /\ part # "answer" => UNCHANGED answerVars
    /\ part # "tree" => UNCHANGED vars
    /\ \/ part = "forge" /\ ForgeNext
       \/ part = "build" /\ PatchNext
       \/ part = "answer" /\ AnswerNext
       \/ part = "tree" /\ Next

MCSpec == MCInit /\ [][MCNext]_<<part, forgeVars, patchVars, answerVars, vars>>
=============================================================================
