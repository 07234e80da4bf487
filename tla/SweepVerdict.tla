---------------------------- MODULE SweepVerdict ----------------------------
(***************************************************************************)
(* spec_sweep_compare.py: configurations were measured round by round,     *)
(* each round every configuration in turn, and the results are compared,   *)
(* maybe while the sweep still runs or after one of its arms failed.       *)
(* Rounds that are partial, cold, or in which the machine was busy for one *)
(* configuration only are dropped; the rest is pooled, and a permutation   *)
(* test says which differences are real.                                   *)
(*                                                                         *)
(* Rates are whole numbers; one workload; what is printed beside the       *)
(* verdict is left out, and so is the sampled test of larger pools.        *)
(***************************************************************************)
EXTENDS Naturals, Sequences, FiniteSets, SequencesExt, FiniteSetsExt

CONSTANTS
  Configs,      \* 1..n in the order of their names, the baseline first
  Rounds,
  Rows,         \* what an arm may measure: sequences of rows
  Loads,        \* pairs of load before and load after; NoLoad if not recorded
  NoLoad,
  LoadMax, LoadRatio,   \* the ratio in tenths
  Level,        \* a verdict is significant below 1/Level: 20 in the code
  MaxFailed     \* arms of which there is no result

ASSUME SweepAssumption ==
  /\ IsFiniteSet(Configs) /\ Configs = 1..Cardinality(Configs)
  /\ IsFiniteSet(Rounds) /\ Rounds = 1..Cardinality(Rounds)
  /\ Rows \subseteq Seq([tps : Nat, ok : BOOLEAN]) /\ Loads \subseteq Nat \X Nat
  /\ LoadMax \in Nat /\ LoadRatio \in Nat /\ Level \in Nat \ {0} /\ MaxFailed \in Nat

VARIABLES
  next,         \* the slot the sweep comes to next: its round and its place in the round
  failed,
  results,      \* the files: (round, configuration) -> rows and load
  keepFirst,    \* --keep-first-round
  report        \* the comparison of these results, if one was made

sweepVars == <<next, failed, results, keepFirst, report>>

NoReport == [rounds |-> {}, seen |-> {}, verdicts |-> <<>>]

-----------------------------------------------------------------------------
(* The sweep, which spec-sweep.sh runs. *)

Cells == Rounds \X Configs
After(slot) == IF slot[2] < Cardinality(Configs) THEN <<slot[1], slot[2] + 1>> ELSE <<slot[1] + 1, 1>>

\* The order is rotated from round to round, so that each configuration is in each place.
Arm(slot) == <<slot[1], ((slot[1] + slot[2] - 2) % Cardinality(Configs)) + 1>>

MeasureArm(rows, load) ==
  /\ next \in Cells /\ next' = After(next)
  /\ results' = [a \in DOMAIN results \cup {Arm(next)} |->
                   IF a = Arm(next) THEN [rows |-> rows, load |-> load] ELSE results[a]]
  /\ report' = NoReport
  /\ UNCHANGED <<failed, keepFirst>>

ArmFails ==
  /\ next \in Cells /\ next' = After(next)
  /\ failed < MaxFailed /\ failed' = failed + 1
  /\ report' = NoReport
  /\ UNCHANGED <<results, keepFirst>>

-----------------------------------------------------------------------------
(* load_results and the choice of rounds. *)

\* Rows that failed, were cached or never repeated are not samples.
Samples(arm) == {i \in DOMAIN results[arm].rows : results[arm].rows[i].ok}

Data == {a \in DOMAIN results : Samples(a) # {}}
Seen == {a[2] : a \in Data}
Measured == {a[1] : a \in Data}

\* Mutant: a round is used whichever arms it has.
NothingMissing(r) == TRUE

Complete(r) == \A c \in Seen : <<r, c>> \in Data

\* The loads of a round; an arm not stamped at its start has none.
LoadsOf(r) ==
  UNION {ToSet(results[a].load) \ {NoLoad} : a \in {x \in Data : x[1] = r /\ results[x].load[1] # NoLoad}}

\* One arm was busy and another was not.
Split(r) ==
  /\ LoadsOf(r) # {} /\ Max(LoadsOf(r)) > LoadMax
  /\ Min(LoadsOf(r)) > 0
  /\ 10 * Max(LoadsOf(r)) >= LoadRatio * Min(LoadsOf(r))

Cold(r) == r = Min(Measured) /\ Cardinality(Measured) > 1 /\ ~keepFirst

Usable == {r \in Measured : Complete(r) /\ ~Split(r) /\ ~Cold(r)}

\* The rates of both sides, each by its arm and its row.
Pool(rounds, configs) ==
  [x \in UNION {{a} \X Samples(a) : a \in Data \cap (rounds \X configs)} |->
     results[x[1]].rows[x[2]].tps]

-----------------------------------------------------------------------------
(* perm_p: the exact test.  The two means are compared as whole numbers,   *)
(* multiplied by the sizes of both sides.                                  *)

SumOf(pool, chosen) == FoldSet(LAMBDA i, n : n + pool[i], 0, chosen)

Distance(pool, chosen) ==
  LET rest == DOMAIN pool \ chosen
      x == Cardinality(rest) * SumOf(pool, chosen)
      y == Cardinality(chosen) * SumOf(pool, rest)
  IN  IF x >= y THEN x - y ELSE y - x

Splits(pool, k) == {chosen \in SUBSET DOMAIN pool : Cardinality(chosen) = k}

Hits(pool, chosen) ==
  LET observed == Distance(pool, chosen)
  IN  Cardinality({s \in Splits(pool, Cardinality(chosen)) : Distance(pool, s) >= observed})

\* p < 1/Level for this choice of the first side.
Significant(pool, chosen) ==
  Level * Hits(pool, chosen) < Cardinality(Splits(pool, Cardinality(chosen)))

Verdict(rounds, c) ==
  LET pool == Pool(rounds, {1, c})
      its == {x \in DOMAIN pool : x[1][2] = c}
  IN  [pool |-> pool, n |-> Cardinality(its), significant |-> Significant(pool, its)]

\* main, at any time.
Compare ==
  /\ Data # {} /\ 1 \in Seen
  /\ report' = [rounds |-> Usable, seen |-> Seen,
                verdicts |-> [c \in (IF Usable = {} THEN {} ELSE Seen \ {1}) |-> Verdict(Usable, c)]]
  /\ UNCHANGED <<next, failed, results, keepFirst>>

SweepInit ==
  /\ next = <<1, 1>> /\ failed = 0 /\ results = <<>> /\ report = NoReport
  /\ keepFirst \in BOOLEAN

SweepNext ==
  \/ \E rows \in Rows, load \in Loads : MeasureArm(rows, load)
  \/ ArmFails \/ Compare

SweepSpec == SweepInit /\ [][SweepNext]_sweepVars

-----------------------------------------------------------------------------
\* What is compared was measured alike: every configuration in every round that is
\* pooled, and no round in which the machine was busy for one of them and idle for
\* another - whenever the results are read, and whichever arms failed.  (A load of
\* exactly 0 keeps the code from dividing, and so from looking at the round.)
ComparedAlike ==
  \A r \in report.rounds :
    /\ \A c \in report.seen : <<r, c>> \in Data
    /\ \A a, b \in Data : a[1] = r /\ b[1] = r /\ 0 \notin LoadsOf(r) =>
         \A i, j \in 1..2 :
           results[a].load[1] # NoLoad /\ results[b].load[1] # NoLoad
             /\ results[a].load[i] # NoLoad /\ results[b].load[j] # NoLoad
             /\ results[a].load[i] > LoadMax
           => 10 * results[a].load[i] < LoadRatio * results[b].load[j]

\* A difference is called significant in fewer than one of Level ways to deal the
\* same samples out to the two configurations.
SignificantIsRare ==
  \A c \in DOMAIN report.verdicts :
    LET v == report.verdicts[c]
        splits == Splits(v.pool, v.n)
    IN  v.significant =>
          Level * Cardinality({s \in splits : Significant(v.pool, s)}) < Cardinality(splits)

\* A verdict of the sweep is one its measurements bear.
VerdictIsSound == ComparedAlike /\ SignificantIsRare
=============================================================================
