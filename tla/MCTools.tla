------------------------------ MODULE MCTools -------------------------------
\* The tools beside the stack, in six independent parts, one of which moves in a behaviour:
\* those that measure and check (BenchArms, BaselineCheck, SweepVerdict, GgufPlacement), and of
\* the capture its tape (CaptureTape) and the streams on it (StreamAssembler).
EXTENDS BenchArms, BaselineCheck, SweepVerdict, GgufPlacement, MCCaptureTape, StreamAssembler

VARIABLE part

\* BenchArms: a server of any kind beside one that at most refuses a field.
ServerKinds ==
    [refuses : {{}, {"timings_per_token"}, {"stream_options", "timings_per_token"}, {"max_tokens"},
                {"asked model"}},
     requires : {{}, {"served model"}, {"max_completion_tokens"}},
     lists : BOOLEAN,
     names : {{}, {"add-model", "no-model"}, {"max-completion-tokens"}},
     reports : {"reuse", "zero", "nothing"}]
TheSetups ==
    {s \in [1..2 -> ServerKinds] :
       /\ s[2].requires = {} /\ s[2].names = {} /\ s[2].lists /\ s[2].reports = "reuse"
       /\ s[2].refuses \in {{}, {"timings_per_token"}}}
TheOptions ==
    {o \in [model : BOOLEAN, warmup : BOOLEAN, negotiate : BOOLEAN, control : BOOLEAN] :
       o.control => o.warmup /\ o.negotiate}

\* BaselineCheck: one runner, which may time out, and two of them, to their end.
OneStep(runner, units) == [runner |-> runner, units |-> units]
ACheck(tests, steps, and, listing, timeout) ==
    [tests |-> tests, steps |-> steps, and |-> and, listing |-> listing, timeout |-> timeout]
PyA == {Test("pytest", "a", "x")}
PyB == {Test("pytest", "b", "x")}
Classes == {Test("unittest", "c", "x"), Test("unittest", "c", "y")}
Packages == {Test("go", "p", "x"), Test("go", "q", "y")}
TheChecks ==
    {ACheck(PyA \cup PyB, <<OneStep("pytest", {"a", "b"})>>, TRUE, listing, TRUE) :
       listing \in {"all", "failed", "none"}}
    \cup {ACheck(PyA \cup PyB, <<OneStep("pytest", {"a"}), OneStep("pytest", {"b"})>>, and, "all", TRUE) :
            and \in BOOLEAN}
    \cup {ACheck(Classes, <<OneStep("unittest", {"c"})>>, TRUE, "all", TRUE),
          ACheck(Packages, <<OneStep("go", {"p", "q"})>>, TRUE, "all", TRUE)}
    \cup {ACheck(Classes \cup PyA, <<OneStep("unittest", {"c"}), OneStep("pytest", {"a"})>>,
                 and, "all", FALSE) : and \in BOOLEAN}
    \cup {ACheck(Packages \cup PyA, <<OneStep("pytest", {"a"}), OneStep("go", {"p", "q"})>>,
                 and, "all", FALSE) : and \in BOOLEAN}

\* SweepVerdict: slow and fast arms, one with a row that failed, on a machine that is
\* idle, becomes idle, or was not looked at when the arm began.
Good(tps) == [tps |-> tps, ok |-> TRUE]
TheRows == {<<Good(1), Good(1)>>, <<Good(4), Good(3)>>, <<Good(3), [tps |-> 1, ok |-> FALSE]>>}
TheLoads == {<<1, 2>>, <<20, 4>>, <<NoLoad, 9>>}

\* GgufPlacement: two blocks; the entries in several orders, with an alignment of its
\* own, with arrays that cannot be skipped, with the block counts of two architectures
\* or of another one only; the data in the table's order and in two others.
Keyed(key, type, value) == [key |-> key, of |-> "", type |-> type, value |-> value]
BlockCount(of, n) == [key |-> "block_count", of |-> of, type |-> "u32", value |-> n]
Tensor(of, il, bytes) == [name |-> [of |-> of, il |-> il], size |-> bytes]
Arch == Keyed("architecture", "string", "a")
TheEntries ==
    {<<Arch, BlockCount("a", 2), e>> :
       e \in {Keyed("alignment", "u32", 3), Keyed("tokens", "strings", 3), Keyed("tokens", "numbers", 3),
              Keyed("other", "arrays", 0), BlockCount("b", 1)}}
    \cup {<<BlockCount("b", 1), BlockCount("a", 2), Keyed("tokens", "strings", 3), Arch>>,
          <<BlockCount("b", 1), Arch>>}
TheFiles ==
    {[entries |-> e, header |-> 5, data |-> d,
      table |-> <<Tensor("input", 0, 3), Tensor("block", 0, 4), Tensor("block", 1, 5), Tensor("output", 0, 2)>>] :
       e \in TheEntries, d \in {<<1, 2, 3, 4>>, <<2, 1, 4, 3>>, <<4, 3, 1, 2>>}}

\* StreamAssembler: answers with up to three calls, and native ones.
AnAnswer(words, thought, calls) ==
    [content |-> words, reasoning |-> thought, calls |-> calls, finish |-> "stop", native |-> FALSE,
     timings |-> <<[prompt_n |-> 1, cache_n |-> 2, predicted_n |-> 4]>>,
     usage |-> <<[prompt |-> 3, completion |-> 4]>>]
TheAnswers ==
    {AnAnswer(words, thought, calls) :
       words \in {<<>>, <<1, 2>>}, thought \in {<<>>, <<3, 4>>},
       calls \in {<<>>, <<<<5, 6>>>>, <<<<5, 6>>, <<7, 8>>>>, <<<<>>, <<7>>, <<8, 9>>>>}}
    \cup {[AnAnswer(<<1, 2>>, thought, <<>>) EXCEPT !.native = TRUE, !.finish = "limit"] :
            thought \in {<<>>, <<3>>}}

Still(moving) ==
    /\ moving # "bench" => UNCHANGED benchVars
    /\ moving # "check" => UNCHANGED checkVars
    /\ moving # "sweep" => UNCHANGED sweepVars
    /\ moving # "gguf" => UNCHANGED ggufVars
    /\ moving # "tape" => UNCHANGED vars
    /\ moving # "answer" => UNCHANGED asmVars

\* What does not move has one small state, of which nothing is asked.
NoCheck ==
    /\ phase = "none" /\ check = 0 /\ before = 0 /\ after = 0 /\ baseLog = 0 /\ baseExit = 0
    /\ workLog = 0 /\ exit = 0 /\ timedOut = 0 /\ status = 0
NoGguf ==
    /\ step = "none" /\ file = 0 /\ written = 0 /\ argument = 0 /\ at = 0 /\ arch = 0
    /\ alignment = 0 /\ vocab = 0 /\ counts = 0 /\ tensors = 0 /\ reported = 0

MCInit ==
    /\ part \in {"bench", "check", "sweep", "gguf", "tape", "answer"}
    /\ part # "bench" => servers = (CHOOSE s \in Setups : TRUE) /\ option = (CHOOSE o \in Options : TRUE)
    /\ BenchInit
    /\ part # "sweep" => keepFirst = TRUE
    /\ SweepInit
    /\ part # "tape" => scenario = CHOOSE s \in Scenarios : TRUE
    /\ Init
    /\ part # "answer" => answer = CHOOSE a \in Answers : TRUE
    /\ AsmInit
    /\ IF part = "check" THEN CheckInit ELSE NoCheck
    /\ IF part = "gguf" THEN GgufInit ELSE NoGguf

MCNext ==
    /\ UNCHANGED part /\ Still(part)
    /\ \/ part = "bench" /\ BenchNext
       \/ part = "check" /\ CheckNext
       \/ part = "sweep" /\ SweepNext
       \/ part = "gguf" /\ GgufNext
       \/ part = "tape" /\ Next
       \/ part = "answer" /\ AsmNext

MCSpec ==
    MCInit /\ [][MCNext]_<<part, benchVars, checkVars, sweepVars, ggufVars, vars, asmVars>>
=============================================================================
