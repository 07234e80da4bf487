--------------------------- MODULE GgufPlacement ---------------------------
(***************************************************************************)
(* kld_budget.py: how much of a model stays in host memory under a given   *)
(* -ngl, read from the model file before the server is stopped: the        *)
(* metadata entry by entry, the tensor table, then the placement of every  *)
(* tensor and the largest -ngl that fits the card.  The file may be short, *)
(* its table in another order than its data, its entries in any order, and *)
(* some of a type that is not read.                                        *)
(*                                                                         *)
(* A unit is a byte; an entry's own length is part of `header`, where the  *)
(* table ends; versions and bad magic are left out.                        *)
(***************************************************************************)
EXTENDS Integers, Sequences, FiniteSets, SequencesExt

CONSTANTS
  GgufFiles,             \* what writers wrote: [entries, header, table, data]
  DefaultAlignment,
  Ngls, Contexts, Budgets,   \* the arguments --ngl, --n-ctx and --vram-mib
  Mib

ASSUME GgufAssumption ==
  /\ DefaultAlignment \in Nat \ {0} /\ Mib \in Nat \ {0}
  /\ Ngls \subseteq Nat /\ Contexts \subseteq Nat /\ Budgets \subseteq Nat

VARIABLES
  file, written,     \* what was written, and how much of it is there
  argument,          \* [ngl, ctx, vram]
  step,              \* "entries", "table", "reported" or "failed"
  at,                \* the entries read
  arch, alignment, vocab, counts, tensors,     \* what was read
  reported           \* what the tool printed

ggufVars == <<file, written, argument, step, at, arch, alignment, vocab, counts, tensors, reported>>

Padded(n, to) == ((n + to - 1) \div to) * to

Plus(a, b) == a + b
Total(s) == FoldLeft(Plus, 0, s)

-----------------------------------------------------------------------------
(* The file.  f.table lists the tensors, f.data their places in the data.  *)

AlignmentOf(f) ==
  LET given == SelectSeq(f.entries, LAMBDA e : e.key = "alignment" /\ e.type = "u32")
  IN IF given = <<>> THEN DefaultAlignment ELSE Last(given).value

OffsetOf(f, i) ==
  Total([p \in 1..f.data[i] - 1 |->
           Padded(f.table[CHOOSE j \in DOMAIN f.table : f.data[j] = p].size, AlignmentOf(f))])

DataLength(f) == Total([i \in DOMAIN f.table |-> Padded(f.table[i].size, AlignmentOf(f))])

Length(f) == Padded(f.header, AlignmentOf(f)) + DataLength(f)

-----------------------------------------------------------------------------
(* read_model *)

Reading == step = "entries" /\ written >= file.header

NextEntry == file.entries[at + 1]

\* Arrays that _skip cannot pass, and tokens that are no strings.
Unreadable(e) == e.type = "arrays" \/ (e.key = "tokens" /\ e.type = "numbers")

ReadEntry ==
  /\ Reading /\ at < Len(file.entries) /\ ~Unreadable(NextEntry)
  /\ at' = at + 1
  /\ arch' = IF NextEntry.key = "architecture" /\ NextEntry.type = "string" THEN NextEntry.value ELSE arch
  /\ alignment' = IF NextEntry.key = "alignment" /\ NextEntry.type = "u32" THEN NextEntry.value ELSE alignment
  /\ vocab' = IF NextEntry.key = "tokens" /\ NextEntry.type = "strings" THEN NextEntry.value ELSE vocab
  /\ counts' = IF NextEntry.key = "block_count" /\ NextEntry.type = "u32"
               THEN {c \in counts : c.of # NextEntry.of} \cup {[of |-> NextEntry.of, n |-> NextEntry.value]}
               ELSE counts
  /\ UNCHANGED <<file, written, argument, step, tensors, reported>>

\* An unreadable entry, a header cut short, or no block count of this architecture.
ReadFails ==
  /\ \/ step = "entries" /\ written < file.header
     \/ Reading /\ at < Len(file.entries) /\ Unreadable(NextEntry)
     \/ step = "table" /\ \A c \in counts : c.of # arch
  /\ step' = "failed"
  /\ UNCHANGED <<file, written, argument, at, arch, alignment, vocab, counts, tensors, reported>>

Raw == [i \in DOMAIN file.table |-> [name |-> file.table[i].name, off |-> OffsetOf(file, i)]]

\* Mutant: the table's order is taken for the order of the data.
InTableOrder(raw) == raw

ByOffset(raw) == SortSeq(raw, LAMBDA s, t : s.off < t.off)

\* A tensor ends where the next one begins, the last one with the file.
Sized(order, length) ==
  [i \in DOMAIN order |->
     [name |-> order[i].name,
      nbytes |-> (IF i < Len(order) THEN order[i + 1].off ELSE length) - order[i].off]]

ReadTable ==
  /\ Reading /\ at = Len(file.entries) /\ step' = "table"
  /\ tensors' = Sized(ByOffset(Raw), written - Padded(file.header, alignment))
  /\ UNCHANGED <<file, written, argument, at, arch, alignment, vocab, counts, reported>>

-----------------------------------------------------------------------------
(* place, max_ngl_for_vram and report *)

Blocks == (CHOOSE c \in counts : c.of = arch).n

LayerOnGpu(il, n, ngl) ==
  LET from == IF n + 1 - ngl > 0 THEN n + 1 - ngl ELSE 0
      layers == IF ngl < n + 1 THEN ngl ELSE n + 1
  IN ~(il < from \/ il - from >= layers)

\* A name belongs to a block, the input, the output, or no known class.
OnGpu(name, ngl) ==
  \/ name.of = "block" /\ LayerOnGpu(name.il, Blocks, ngl)
  \/ name.of = "output" /\ LayerOnGpu(Blocks, Blocks, ngl)

Gpu(ngl) == Total([i \in DOMAIN tensors |-> IF OnGpu(tensors[i].name, ngl) THEN tensors[i].nbytes ELSE 0])
Host(ngl) == Total([i \in DOMAIN tensors |-> IF OnGpu(tensors[i].name, ngl) THEN 0 ELSE tensors[i].nbytes])

MaxNgl(vram) ==
  FoldLeft(LAMBDA best, ngl : IF Gpu(ngl) <= vram THEN ngl ELSE best,
           0, [i \in 1..Blocks + 2 |-> i - 1])

LogitsBuffers(ctx, words) ==
  (ctx \div 2) * words * 4 + ctx * (2 * ((words + 1) \div 2) + 4) * 2

Report ==
  /\ step = "table" /\ (\E c \in counts : c.of = arch) /\ step' = "reported"
  /\ reported' = [host |-> Host(argument.ngl) \div Mib, gpu |-> Gpu(argument.ngl) \div Mib,
                  logits |-> LogitsBuffers(argument.ctx, vocab) \div Mib,
                  best |-> MaxNgl(argument.vram * Mib)]
  /\ UNCHANGED <<file, written, argument, at, arch, alignment, vocab, counts, tensors>>

GgufInit ==
  /\ file \in GgufFiles /\ written \in 0..Length(file)
  /\ argument \in [ngl : Ngls, ctx : Contexts, vram : Budgets]
  /\ step = "entries" /\ at = 0 /\ arch = "" /\ alignment = DefaultAlignment /\ vocab = 0 /\ counts = {}
  /\ tensors = <<>> /\ reported = [host |-> 0, gpu |-> 0, logits |-> 0, best |-> 0]

GgufNext == ReadEntry \/ ReadFails \/ ReadTable \/ Report

GgufSpec == GgufInit /\ [][GgufNext]_ggufVars

-----------------------------------------------------------------------------
(* What the server does with -ngl k, as the file's comment puts it: blocks *)
(* [n + 1 - k, n - 1] and the output go to the card, the input never.      *)

HeldBy(side, k) ==
  LET gpu(name) ==
        (name.of = "block" /\ name.il >= Blocks + 1 - k) \/ (name.of = "output" /\ k > 0)
  IN Total([i \in DOMAIN file.table |->
              IF gpu(file.table[i].name) = (side = "gpu") THEN file.table[i].size ELSE 0])

\* For a file that is all there, the preflight never reports less than the server will
\* need on either side, but for what rounding to MiB takes off; and the -ngl it offers
\* fits the card, while any larger one that fits puts no more on it.
PreflightCovers ==
  step = "reported" /\ written = Length(file) =>
    /\ (reported.host + 1) * Mib > HeldBy("host", argument.ngl)
    /\ (reported.gpu + 1) * Mib > HeldBy("gpu", argument.ngl)
    /\ (reported.host + reported.gpu) * Mib <= DataLength(file)
    /\ HeldBy("gpu", reported.best) <= argument.vram * Mib
    /\ \A k \in reported.best + 1..Blocks + 3 :
         Gpu(k) > argument.vram * Mib \/ Gpu(k) = Gpu(reported.best)
=============================================================================
