------------------------------ MODULE SlotTable ------------------------------
(***************************************************************************)
(* The arithmetic of the subagents' concurrency limits                     *)
(* (concurrency-slots.ts).  A table maps slots to limits and running       *)
(* counts: a slot for one model, or for a provider and all its models.  A  *)
(* model that no limit names gets a slot of its own when it is asked for.  *)
(* A configuration is [default, providers, models], the last two functions *)
(* from what they name to its limit.  The holders are a function from who  *)
(* holds a slot to its model.                                              *)
(***************************************************************************)
EXTENDS Integers, FiniteSets

CONSTANTS
    Provider,     \* the provider of each model
    Unreadable    \* what stands for a limit that is not a number

Models == DOMAIN Provider
ForModel(m)    == <<"model", m>>
ForProvider(p) == <<"provider", p>>

\* Math.max(1, n), which is no number if n is none.
AtLeastOne(n) == IF n = Unreadable THEN n ELSE IF n < 1 THEN 1 ELSE n
SafeLimit(limit, fallback) == AtLeastOne(IF limit = Unreadable THEN fallback ELSE limit)

\* slotFor: per model, per provider, default.
SlotOf(t, m) ==
    IF ForModel(m) \notin DOMAIN t.limit /\ ForProvider(Provider[m]) \in DOMAIN t.limit
    THEN ForProvider(Provider[m]) ELSE ForModel(m)

WithSlots(t, ms) ==
    LET old == DOMAIN t.limit
        all == old \cup {SlotOf(t, m) : m \in ms} IN
    [default |-> t.default,
     limit   |-> [s \in all |-> IF s \in old THEN t.limit[s] ELSE SafeLimit(t.default, 1)],
     running |-> [s \in all |-> IF s \in old THEN t.running[s] ELSE 0]]
SlotFor(t, m) == WithSlots(t, {m})

LimitOf(t, m) == SlotFor(t, m).limit[SlotOf(t, m)]

\* Mutant: one too many.
IsOver(t, m) == SlotFor(t, m).running[SlotOf(t, m)] > LimitOf(t, m)
IsFull(t, m) == SlotFor(t, m).running[SlotOf(t, m)] >= LimitOf(t, m)

Reserve(t, m) == [SlotFor(t, m) EXCEPT !.running[SlotOf(t, m)] = @ + 1]

\* On the slot that serves the model now.
Release(t, m) == [SlotFor(t, m) EXCEPT !.running[SlotOf(t, m)] = IF @ > 0 THEN @ - 1 ELSE 0]

\* The counts are rebuilt from the holders.  Mutant: the counts of slots that are gone go with them.
DropCounts(t, holders) == WithSlots(t, {holders[h] : h \in DOMAIN holders})
Recount(t, holders) ==
    LET u == WithSlots(t, {holders[h] : h \in DOMAIN holders}) IN
    [u EXCEPT !.running = [s \in DOMAIN @ |-> Cardinality({h \in DOMAIN holders : SlotOf(t, holders[h]) = s})]]

Named(config) == {ForProvider(p) : p \in DOMAIN config.providers} \cup {ForModel(m) : m \in DOMAIN config.models}
Configured(config, s) == IF s[1] = "provider" THEN config.providers[s[2]] ELSE config.models[s[2]]

\* Slots that the configuration does not name go, also those that were created for a model.
SetLimits(t, config, holders) ==
    LET kept == DOMAIN t.limit
        new == [default |-> SafeLimit(config.default, t.default),
                limit |-> [s \in Named(config) |->
                              SafeLimit(Configured(config, s), IF s \in kept THEN t.limit[s] ELSE 1)],
                running |-> [s \in Named(config) |-> IF s \in kept THEN t.running[s] ELSE 0]] IN
    Recount(new, holders)

NewTable(config) ==
    [default |-> config.default,
     limit |-> [s \in Named(config) |-> SafeLimit(Configured(config, s), 1)],
     running |-> [s \in Named(config) |-> 0]]
=============================================================================
