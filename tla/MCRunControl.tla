---------------------------- MODULE MCRunControl ----------------------------
\* What one invocation leaves for the next, in three independent parts, one of which moves in a
\* behaviour: who owns the run (RunControl), which answers of its roles may be used again
\* (RoleReuse), and the files of the models volume (Download).
EXTENDS RunControl, RoleReuse, Download, TLC

VARIABLE part

Invocations == Permutations(Procs)

\* Download: three versions, the third one larger, and a damaged copy.
TheSize == [v1 |-> 1, v2 |-> 1, v3 |-> 2, bad |-> 1]
AVolume(gguf, draft) ==
    [target |-> [gguf |-> gguf, mmproj |-> NoFile, draft |-> draft],
     hub |-> [gguf |-> "v1", mmproj |-> "v1", draft |-> "v1"]]
TheVolumes == {AVolume(g, NoFile) : g \in {NoFile, "v2", "v3", "bad"}} \cup {AVolume("v1", "v1")}
TheEnvs ==
    {e \in [pins : {{"gguf", "draft"}, {"gguf", "draft", "draft_repo"}}, redo : BOOLEAN, skip : BOOLEAN] :
       ~(e.redo /\ e.skip)}
    \cup {[pins |-> {"gguf", "mmproj"}, redo |-> FALSE, skip |-> FALSE]}

\* What does not move has one small state, of which nothing is asked.
NoReuse ==
    /\ operator = TRUE /\ files = <<>> /\ saved = <<>> /\ records = <<>>
    /\ stage = "none" /\ round = 0 /\ waiting = {} /\ sitting = 0 /\ changes = 0
NoDownload ==
    /\ doing = "off" /\ env = 0 /\ left = 0 /\ meta = 0 /\ attempt = 0 /\ said = 0
    /\ target = 0 /\ backup = 0 /\ cache = 0 /\ verified = 0 /\ hub = 0 /\ spent = 0
    /\ kept = {} /\ hadWhole = {} /\ harmed = {}

MCInit ==
    /\ part \in {"control", "reuse", "download"}
    /\ Init
    /\ IF part = "reuse" THEN ReuseInit ELSE NoReuse
    /\ IF part = "download" THEN DownloadInit ELSE NoDownload

MCNext ==
    /\ UNCHANGED part
    /\ part # "control" => UNCHANGED vars
    /\ part # "reuse" => UNCHANGED reuseVars
    /\ part # "download" => UNCHANGED downloadVars
    /\ \/ part = "control" /\ Next
       \/ part = "reuse" /\ ReuseNext
       \/ part = "download" /\ DownloadNext

MCSpec == MCInit /\ [][MCNext]_<<part, vars, reuseVars, downloadVars>>
=============================================================================
