-------------------------- MODULE AgentManagerProofs --------------------------
(***************************************************************************)
(* What holds of the subagents (AgentManager) for any finite set of        *)
(* records, any limits and changes of them, any callers, and any number of *)
(* runs and rounds of verification.                                        *)
(***************************************************************************)
EXTENDS AgentManager, FiniteSetTheorems, SequenceTheorems, WellFoundedInduction, TLAPS

-----------------------------------------------------------------------------
(* Tables of limits *)

\* A table has a bound and a count for each of its slots.
IsTable(t) ==
    /\ t = [default |-> t.default, limit |-> t.limit, running |-> t.running] /\ t.default \in Limit
    /\ t.limit \in [DOMAIN t.limit -> Nat \ {0}] /\ t.running \in [DOMAIN t.limit -> Nat]

\* The counts of a table are those of a set of holders, each of which has its slot.
Serves(t, H, s) == {a \in H : SlotOf(t, Key[a]) = s}
Counts(t, H) ==
    /\ \A s \in DOMAIN t.limit : t.running[s] = Cardinality(Serves(t, H, s))
    /\ \A a \in H : SlotOf(t, Key[a]) \in DOMAIN t.limit

LEMMA LimitType ==
    ASSUME NEW limit \in Limit, NEW fallback \in Limit PROVE SafeLimit(limit, fallback) \in Limit
BY DEF SafeLimit, AtLeastOne, Limit

LEMMA Bounds ==
    ASSUME NEW limit \in Limit, NEW fallback \in Nat \ {0} PROVE SafeLimit(limit, fallback) \in Nat \ {0}
BY DEF SafeLimit, AtLeastOne, Limit

Depths == {DepthOf(a) : a \in Agents}

LEMMA KeyIs == ASSUME NEW a \in Agents PROVE Key[a] \in Models /\ DepthOf(a) \in Depths
BY AgentsAssumption DEF Depths

LEMMA Different == ASSUME NEW m, NEW p PROVE ForModel(m) # ForProvider(p)
BY DEF ForModel, ForProvider

LEMMA Same == ASSUME NEW m, NEW n, ForModel(m) = ForModel(n) PROVE m = n
BY DEF ForModel

\* The slots that models get when they ask: none changes the slot of another.
LEMMA SlotsGrow ==
    ASSUME NEW t, IsTable(t), NEW ms \in SUBSET Models
    PROVE  LET u == WithSlots(t, ms) IN
           /\ IsTable(u) /\ DOMAIN u.limit = DOMAIN t.limit \cup {SlotOf(t, m) : m \in ms}
           /\ \A s \in DOMAIN t.limit : u.limit[s] = t.limit[s] /\ u.running[s] = t.running[s]
           /\ \A s \in DOMAIN u.limit \ DOMAIN t.limit : u.running[s] = 0
           /\ \A m \in Models : SlotOf(u, m) = SlotOf(t, m)
<1> DEFINE u == WithSlots(t, ms)
           old == DOMAIN t.limit
           all == old \cup {SlotOf(t, m) : m \in ms}
           new == SafeLimit(t.default, 1)
<1>1. new \in Nat \ {0}
  BY DEF SafeLimit, AtLeastOne, IsTable, Limit
<1>2. /\ u.default = t.default /\ u = [default |-> u.default, limit |-> u.limit, running |-> u.running]
      /\ u.limit = [s \in all |-> IF s \in old THEN t.limit[s] ELSE new]
      /\ u.running = [s \in all |-> IF s \in old THEN t.running[s] ELSE 0]
  BY DEF WithSlots
<1> HIDE DEF u, new
<1>3. /\ DOMAIN u.limit = all
      /\ \A s \in all : /\ u.limit[s] = IF s \in old THEN t.limit[s] ELSE new
                        /\ u.running[s] = IF s \in old THEN t.running[s] ELSE 0
  BY <1>2
<1>4. \A s \in all : u.limit[s] \in Nat \ {0} /\ u.running[s] \in Nat
  BY <1>1, <1>3 DEF IsTable
<1>5. IsTable(u)
  <2>1. u.limit \in [all -> Nat \ {0}] /\ u.running \in [all -> Nat]
    BY <1>2, <1>4
  <2> QED
    BY <1>2, <1>3, <2>1 DEF IsTable
<1>6. ASSUME NEW m \in Models PROVE SlotOf(u, m) = SlotOf(t, m)
  <2>1. \A p : ForProvider(p) \in all <=> ForProvider(p) \in old
    <3>1. \A n \in ms : \A p : SlotOf(t, n) = ForProvider(p) => ForProvider(p) \in old
      BY Different DEF SlotOf
    <3> QED
      BY <3>1
  <2>2. CASE ForModel(m) \in old
    BY <1>3, <2>2 DEF SlotOf
  <2>3. CASE ForModel(m) \notin old /\ ForModel(m) \notin all
    BY <1>3, <2>1, <2>3 DEF SlotOf
  <2>4. CASE ForModel(m) \notin old /\ ForModel(m) \in all
    <3>1. PICK n \in ms : ForModel(m) = SlotOf(t, n)
      BY <2>4
    <3>2. SlotOf(t, n) = ForModel(n)
      BY <3>1, Different DEF SlotOf
    <3>3. n = m
      BY <3>1, <3>2, Same
    <3> QED
      BY <1>3, <2>4, <3>1, <3>3 DEF SlotOf
  <2> QED
    BY <2>2, <2>3, <2>4
<1> QED
  BY <1>3, <1>5, <1>6 DEF u

LEMMA SlotForIs ==
    ASSUME NEW t, IsTable(t), NEW m \in Models
    PROVE  LET u == SlotFor(t, m) IN
           /\ IsTable(u) /\ DOMAIN u.limit = DOMAIN t.limit \cup {SlotOf(t, m)}
           /\ \A s \in DOMAIN t.limit : u.limit[s] = t.limit[s] /\ u.running[s] = t.running[s]
           /\ \A s \in DOMAIN u.limit \ DOMAIN t.limit : u.running[s] = 0
           /\ \A n \in Models : SlotOf(u, n) = SlotOf(t, n)
<1>1. {m} \in SUBSET Models /\ {SlotOf(t, n) : n \in {m}} = {SlotOf(t, m)}
  OBVIOUS
<1> QED
  BY <1>1, SlotsGrow DEF SlotFor

LEMMA NoneServed ==
    ASSUME NEW t, NEW H, NEW s, \A a \in H : SlotOf(t, Key[a]) # s
    PROVE  Cardinality(Serves(t, H, s)) = 0
<1>1. Serves(t, H, s) = {}
  BY DEF Serves
<1> QED
  BY <1>1, FS_EmptySet

LEMMA SlotForCounts ==
    ASSUME NEW t, IsTable(t), NEW m \in Models, NEW H \in SUBSET Agents, Counts(t, H)
    PROVE  Counts(SlotFor(t, m), H)
<1> DEFINE u == SlotFor(t, m)
<1>1. /\ DOMAIN u.limit = DOMAIN t.limit \cup {SlotOf(t, m)}
      /\ \A s \in DOMAIN t.limit : u.running[s] = t.running[s]
      /\ \A s \in DOMAIN u.limit \ DOMAIN t.limit : u.running[s] = 0
      /\ \A n \in Models : SlotOf(u, n) = SlotOf(t, n)
  BY SlotForIs
<1> HIDE DEF u
<1>2. \A a \in H : SlotOf(u, Key[a]) = SlotOf(t, Key[a])
  BY <1>1, KeyIs
<1>3. \A s : Serves(u, H, s) = Serves(t, H, s)
  BY <1>2 DEF Serves
<1>4. ASSUME NEW s \in DOMAIN u.limit PROVE u.running[s] = Cardinality(Serves(u, H, s))
  <2>1. CASE s \in DOMAIN t.limit
    BY <1>1, <1>3, <2>1 DEF Counts
  <2>2. CASE s \notin DOMAIN t.limit
    BY <1>1, <1>3, <2>2, NoneServed DEF Counts
  <2> QED
    BY <2>1, <2>2
<1> QED
  BY <1>1, <1>2, <1>4 DEF Counts, u

\* A slot more, or less, of the one that serves a holder.
LEMMA ReserveIs ==
    ASSUME NEW t, IsTable(t), NEW a \in Agents
    PROVE  LET u == Reserve(t, Key[a]) IN
           /\ IsTable(u) /\ DOMAIN u.limit = DOMAIN t.limit \cup {SlotOf(t, Key[a])}
           /\ \A s \in DOMAIN t.limit : u.limit[s] = t.limit[s]
           /\ \A n \in Models : SlotOf(u, n) = SlotOf(t, n)
           /\ u.running = [SlotFor(t, Key[a]).running EXCEPT ![SlotOf(t, Key[a])] = @ + 1]
           /\ u.limit = SlotFor(t, Key[a]).limit
<1> DEFINE v == SlotFor(t, Key[a])
           u == Reserve(t, Key[a])
           s == SlotOf(t, Key[a])
<1>1. /\ IsTable(v) /\ DOMAIN v.limit = DOMAIN t.limit \cup {s}
      /\ \A x \in DOMAIN t.limit : v.limit[x] = t.limit[x]
      /\ \A n \in Models : SlotOf(v, n) = SlotOf(t, n)
  BY SlotForIs, KeyIs
<1>2. u = [v EXCEPT !.running[s] = @ + 1]
  BY DEF Reserve
<1> HIDE DEF u, v
<1>3. u.default = v.default /\ u.limit = v.limit /\ u.running = [v.running EXCEPT ![s] = @ + 1]
  BY <1>1, <1>2 DEF IsTable
<1>4. u = [default |-> u.default, limit |-> u.limit, running |-> u.running]
  BY <1>1, <1>2, <1>3 DEF IsTable
<1>5. s \in DOMAIN v.limit /\ v.running[s] \in Nat
  BY <1>1 DEF IsTable
<1>6. IsTable(u)
  BY <1>1, <1>3, <1>4, <1>5 DEF IsTable
<1>7. \A n \in Models : SlotOf(u, n) = SlotOf(t, n)
  BY <1>1, <1>3 DEF SlotOf
<1> QED
  BY <1>1, <1>3, <1>6, <1>7 DEF u, v

LEMMA Served ==
    ASSUME NEW t, NEW H \in SUBSET Agents, NEW s
    PROVE  IsFiniteSet(Serves(t, H, s)) /\ Cardinality(Serves(t, H, s)) \in Nat
<1>1. Serves(t, H, s) \in SUBSET Agents
  BY DEF Serves
<1> QED
  BY <1>1, FS_Subset, FS_CardinalityType, AgentsAssumption

LEMMA ReserveCounts ==
    ASSUME NEW t, IsTable(t), NEW H \in SUBSET Agents, NEW a \in Agents \ H, Counts(t, H)
    PROVE  Counts(Reserve(t, Key[a]), H \cup {a})
<1> DEFINE v == SlotFor(t, Key[a])
           u == Reserve(t, Key[a])
           k == SlotOf(t, Key[a])
           G == H \cup {a}
<1>1. /\ IsTable(v) /\ DOMAIN v.limit = DOMAIN t.limit \cup {k} /\ Counts(v, H)
      /\ \A n \in Models : SlotOf(v, n) = SlotOf(t, n)
  BY SlotForIs, SlotForCounts, KeyIs
<1>2. /\ u.limit = v.limit /\ u.running = [v.running EXCEPT ![k] = @ + 1]
      /\ \A n \in Models : SlotOf(u, n) = SlotOf(t, n)
  BY ReserveIs
<1> HIDE DEF u, v
<1>3. /\ \A s : Serves(v, H, s) = Serves(t, H, s)
      /\ \A s : Serves(u, G, s) = IF s = k THEN Serves(t, H, s) \cup {a} ELSE Serves(t, H, s)
      /\ a \notin Serves(t, H, k)
  BY <1>1, <1>2, KeyIs DEF Serves
<1>4. ASSUME NEW s \in DOMAIN u.limit PROVE u.running[s] = Cardinality(Serves(u, G, s))
  <2>1. v.running[s] = Cardinality(Serves(t, H, s)) /\ s \in DOMAIN v.running
    BY <1>1, <1>2, <1>3 DEF Counts, IsTable
  <2>2. CASE s = k
    <3>1. Cardinality(Serves(t, H, k) \cup {a}) = Cardinality(Serves(t, H, k)) + 1
      BY <1>3, Served, FS_AddElement
    <3> QED
      BY <1>2, <1>3, <2>1, <2>2, <3>1
  <2>3. CASE s # k
    BY <1>2, <1>3, <2>1, <2>3
  <2> QED
    BY <2>2, <2>3
<1>5. \A b \in G : SlotOf(u, Key[b]) \in DOMAIN u.limit
  <2>1. \A b \in H : SlotOf(v, Key[b]) \in DOMAIN v.limit
    BY <1>1 DEF Counts
  <2> QED
    BY <1>1, <1>2, <2>1, KeyIs
<1> QED
  BY <1>4, <1>5 DEF Counts, u

LEMMA ReleaseCounts ==
    ASSUME NEW t, IsTable(t), NEW H \in SUBSET Agents, NEW a \in H, Counts(t, H)
    PROVE  LET u == Release(t, Key[a]) IN
           /\ IsTable(u) /\ Counts(u, H \ {a})
           /\ DOMAIN u.limit = DOMAIN t.limit /\ \A n \in Models : SlotOf(u, n) = SlotOf(t, n)
           /\ \A s \in DOMAIN t.limit : u.limit[s] = t.limit[s] /\ u.running[s] <= t.running[s]
<1> DEFINE v == SlotFor(t, Key[a])
           u == Release(t, Key[a])
           k == SlotOf(t, Key[a])
           G == H \ {a}
           n1(n) == IF n > 0 THEN n - 1 ELSE 0
<1>0. a \in Agents /\ Key[a] \in Models /\ k \in DOMAIN t.limit
  BY KeyIs DEF Counts
<1>1. /\ IsTable(v) /\ DOMAIN v.limit = DOMAIN t.limit /\ Counts(v, H)
      /\ \A n \in Models : SlotOf(v, n) = SlotOf(t, n)
      /\ \A s \in DOMAIN t.limit : v.limit[s] = t.limit[s] /\ v.running[s] = t.running[s]
  <2>1. DOMAIN t.limit \cup {k} = DOMAIN t.limit
    BY <1>0
  <2>2. Counts(v, H)
    BY <1>0, SlotForCounts
  <2> QED
    BY <1>0, <2>1, <2>2, SlotForIs
<1>2. u = [v EXCEPT !.running[k] = n1(@)]
  BY DEF Release
<1> HIDE DEF u, v, k
<1>3. v.running[k] \in Nat /\ n1(v.running[k]) \in Nat /\ n1(v.running[k]) <= v.running[k]
  BY <1>0, <1>1 DEF IsTable
<1>4. /\ u.default = v.default /\ u.limit = v.limit /\ u.running = [v.running EXCEPT ![k] = n1(v.running[k])]
      /\ u = [default |-> u.default, limit |-> u.limit, running |-> u.running]
  BY <1>1, <1>2 DEF IsTable
<1>5. IsTable(u) /\ DOMAIN u.limit = DOMAIN t.limit
  BY <1>1, <1>3, <1>4, ZenonT(60) DEF IsTable
<1>6. \A n \in Models : SlotOf(u, n) = SlotOf(t, n)
  BY <1>1, <1>4 DEF SlotOf
<1>7. /\ \A s : Serves(v, H, s) = Serves(t, H, s)
      /\ \A s : Serves(u, G, s) = IF s = k THEN Serves(t, H, s) \ {a} ELSE Serves(t, H, s)
      /\ a \in Serves(t, H, k)
  BY <1>1, <1>6, KeyIs DEF Serves, k
<1>8. ASSUME NEW s \in DOMAIN u.limit
      PROVE  u.running[s] = Cardinality(Serves(u, G, s)) /\ u.running[s] <= t.running[s]
  <2>1. /\ v.running[s] = Cardinality(Serves(t, H, s)) /\ s \in DOMAIN v.running
        /\ t.running[s] = v.running[s] /\ v.running[s] \in Nat
    BY <1>1, <1>5, <1>7 DEF Counts, IsTable
  <2>2. CASE s = k
    <3>1. Cardinality(Serves(t, H, k) \ {a}) = Cardinality(Serves(t, H, k)) - 1
      BY <1>7, Served, FS_RemoveElement
    <3>2. Cardinality(Serves(t, H, k)) # 0
      <4>1. Serves(t, H, k) # {}
        BY <1>7
      <4> QED
        BY <4>1, Served, FS_EmptySet
    <3>3. v.running[k] > 0 /\ n1(v.running[k]) = v.running[k] - 1
      BY <1>3, <2>1, <2>2, <3>2
    <3>4. u.running[s] = v.running[k] - 1
      BY <1>4, <2>1, <2>2, <3>3
    <3>5. v.running[k] - 1 <= v.running[k]
      BY <1>3
    <3> QED
      BY <1>7, <2>1, <2>2, <3>1, <3>4, <3>5
  <2>3. CASE s # k
    <3>1. u.running[s] = v.running[s]
      BY <1>4, <2>1, <2>3
    <3>2. v.running[s] <= v.running[s]
      BY <2>1
    <3> QED
      BY <1>7, <2>1, <2>3, <3>1, <3>2
  <2> QED
    BY <2>2, <2>3
<1>9. \A b \in G : SlotOf(u, Key[b]) \in DOMAIN u.limit
  BY <1>5, <1>6, KeyIs DEF Counts
<1> QED
  BY <1>1, <1>4, <1>5, <1>6, <1>8, <1>9 DEF Counts, u

LEMMA ReleaseIs ==
    ASSUME NEW t, IsTable(t), NEW a \in Agents
    PROVE  LET u == Release(t, Key[a]) IN
           /\ IsTable(u) /\ DOMAIN u.limit = DOMAIN t.limit \cup {SlotOf(t, Key[a])}
           /\ \A s \in DOMAIN t.limit : u.limit[s] = t.limit[s] /\ u.running[s] <= t.running[s]
           /\ \A n \in Models : SlotOf(u, n) = SlotOf(t, n)
<1> DEFINE v == SlotFor(t, Key[a])
           u == Release(t, Key[a])
           k == SlotOf(t, Key[a])
           less == IF v.running[k] > 0 THEN v.running[k] - 1 ELSE 0
<1>1. /\ IsTable(v) /\ DOMAIN v.limit = DOMAIN t.limit \cup {k}
      /\ \A s \in DOMAIN t.limit : v.limit[s] = t.limit[s] /\ v.running[s] = t.running[s]
      /\ \A n \in Models : SlotOf(v, n) = SlotOf(t, n)
  BY SlotForIs, KeyIs
<1>2. u = [v EXCEPT !.running[k] = less]
  BY DEF Release
<1> HIDE DEF u, v, k
<1>3. less \in Nat /\ less <= v.running[k]
  BY <1>1 DEF IsTable
<1> HIDE DEF less
<1>4. /\ u.default = v.default /\ u.limit = v.limit /\ u.running = [v.running EXCEPT ![k] = less]
      /\ u = [default |-> u.default, limit |-> u.limit, running |-> u.running]
  BY <1>1, <1>2 DEF IsTable
<1>5. IsTable(u)
  BY <1>1, <1>3, <1>4 DEF IsTable
<1>6. \A n \in Models : SlotOf(u, n) = SlotOf(t, n)
  BY <1>1, <1>4 DEF SlotOf
<1>7. ASSUME NEW s \in DOMAIN t.limit PROVE u.running[s] <= t.running[s]
  <2>1. s \in DOMAIN v.running /\ v.running[s] \in Nat /\ v.running[s] = t.running[s]
    BY <1>1 DEF IsTable
  <2>2. CASE s = k
    BY <1>3, <1>4, <2>1, <2>2
  <2>3. CASE s # k
    BY <1>4, <2>1, <2>3
  <2> QED
    BY <2>2, <2>3
<1> QED
  BY <1>1, <1>4, <1>5, <1>6, <1>7 DEF u, k

\* What happens to a table while its limits are in force: slots are added, and none that is not
\* over its limit gets over it.
HasRoom(t, s) == s \in DOMAIN t.limit /\ t.running[s] <= t.limit[s]
Grows(t, u) ==
    /\ \A s : HasRoom(t, s) => HasRoom(u, s)
    /\ \A n \in Models : SlotOf(u, n) = SlotOf(t, n)

LEMMA SlotForGrows == ASSUME NEW t, IsTable(t), NEW a \in Agents PROVE Grows(t, SlotFor(t, Key[a]))
BY SlotForIs, KeyIs DEF Grows, HasRoom

LEMMA ReleaseGrows == ASSUME NEW t, IsTable(t), NEW a \in Agents PROVE Grows(t, Release(t, Key[a]))
<1> DEFINE u == Release(t, Key[a])
<1>1. /\ IsTable(u) /\ DOMAIN u.limit = DOMAIN t.limit \cup {SlotOf(t, Key[a])}
      /\ \A s \in DOMAIN t.limit : u.limit[s] = t.limit[s] /\ u.running[s] <= t.running[s]
      /\ \A n \in Models : SlotOf(u, n) = SlotOf(t, n)
  BY ReleaseIs
<1> HIDE DEF u
<1>2. ASSUME NEW s, HasRoom(t, s) PROVE HasRoom(u, s)
  <2>1. s \in DOMAIN t.limit /\ u.running[s] \in Nat /\ t.running[s] \in Nat /\ t.limit[s] \in Nat
    BY <1>1, <1>2 DEF IsTable, HasRoom
  <2> QED
    BY <1>1, <1>2, <2>1 DEF HasRoom
<1> QED
  BY <1>1, <1>2 DEF Grows, u

\* A slot is taken where there is room for one more.
LEMMA ReserveGrows ==
    ASSUME NEW t, IsTable(t), NEW a \in Agents, ~IsFull(t, Key[a])
    PROVE  /\ Grows(t, Reserve(t, Key[a]))
           /\ HasRoom(Reserve(t, Key[a]), SlotOf(t, Key[a]))
<1> DEFINE v == SlotFor(t, Key[a])
           u == Reserve(t, Key[a])
           k == SlotOf(t, Key[a])
<1>1. /\ IsTable(v) /\ DOMAIN v.limit = DOMAIN t.limit \cup {k}
      /\ \A s \in DOMAIN t.limit : v.limit[s] = t.limit[s] /\ v.running[s] = t.running[s]
  BY SlotForIs, KeyIs
<1>2. /\ DOMAIN u.limit = DOMAIN t.limit \cup {k} /\ u.limit = v.limit
      /\ u.running = [v.running EXCEPT ![k] = @ + 1]
      /\ \A n \in Models : SlotOf(u, n) = SlotOf(t, n)
  BY ReserveIs
<1>3. ~(v.running[k] >= v.limit[k])
  BY DEF IsFull, LimitOf
<1> HIDE DEF u, v, k
<1>4. k \in DOMAIN v.running /\ v.running[k] \in Nat /\ v.limit[k] \in Nat
  BY <1>1 DEF IsTable
<1>5. HasRoom(u, k)
  BY <1>1, <1>2, <1>3, <1>4 DEF HasRoom
<1>6. ASSUME NEW s, HasRoom(t, s) PROVE HasRoom(u, s)
  <2>1. CASE s = k
    BY <1>2, <1>5, <2>1
  <2>2. CASE s # k
    <3>1. s \in DOMAIN t.limit /\ s \in DOMAIN v.running
      BY <1>1, <1>6 DEF IsTable, HasRoom
    <3>2. u.running[s] = t.running[s] /\ u.limit[s] = t.limit[s]
      BY <1>1, <1>2, <2>2, <3>1
    <3> QED
      BY <1>2, <1>6, <3>2 DEF HasRoom
  <2> QED
    BY <2>1, <2>2
<1> QED
  BY <1>2, <1>5, <1>6 DEF Grows, u, k

LEMMA GrowsOn == ASSUME NEW t, NEW u, NEW v, Grows(t, u), Grows(u, v) PROVE Grows(t, v)
BY DEF Grows

LEMMA GrowsSame == ASSUME NEW t PROVE Grows(t, t)
BY DEF Grows

\* The table that a depth begins with, and the one that new limits make of another.
LEMMA ConfiguredIs ==
    ASSUME NEW c \in Configs, NEW s \in Named(c)
    PROVE  Configured(c, s) \in Limit
<1>1. CASE \E p \in DOMAIN c.providers : s = ForProvider(p)
  BY <1>1, ConfigsAssumption DEF Configured, ForProvider
<1>2. CASE \E m \in DOMAIN c.models : s = ForModel(m)
  BY <1>2, ConfigsAssumption DEF Configured, ForModel
<1> QED
  BY <1>1, <1>2 DEF Named

LEMMA NewTableIs ==
    ASSUME NEW c \in Configs
    PROVE  LET t == NewTable(c) IN IsTable(t) /\ Counts(t, {})
<1> DEFINE t == NewTable(c)
           L(s) == SafeLimit(Configured(c, s), 1)
<1>1. /\ t = [default |-> t.default, limit |-> t.limit, running |-> t.running] /\ t.default = c.default
      /\ t.limit = [s \in Named(c) |-> L(s)] /\ t.running = [s \in Named(c) |-> 0]
  BY DEF NewTable
<1>2. \A s \in Named(c) : L(s) \in Nat \ {0}
  BY ConfiguredIs, Bounds
<1> HIDE DEF t, L
<1>3. IsTable(t)
  <2>1. DOMAIN t.limit = Named(c) /\ c.default \in Limit
    BY <1>1, ConfigsAssumption
  <2> QED
    BY <1>1, <1>2, <2>1 DEF IsTable
<1>4. \A s \in DOMAIN t.limit : t.running[s] = Cardinality(Serves(t, {}, s))
  BY <1>1, NoneServed
<1> QED
  BY <1>3, <1>4 DEF Counts, t

LEMMA RecountIs ==
    ASSUME NEW t, IsTable(t), NEW H \in SUBSET Agents
    PROVE  LET u == Recount(t, [a \in H |-> Key[a]]) IN IsTable(u) /\ Counts(u, H)
<1> DEFINE K == [a \in H |-> Key[a]]
           ms == {K[h] : h \in DOMAIN K}
           v == WithSlots(t, ms)
           u == Recount(t, K)
           N(s) == Cardinality({h \in DOMAIN K : SlotOf(t, K[h]) = s})
<1>1. ms \in SUBSET Models /\ \A a \in H : Key[a] \in ms
  BY KeyIs
<1>2. /\ IsTable(v) /\ DOMAIN v.limit = DOMAIN t.limit \cup {SlotOf(t, m) : m \in ms}
      /\ \A m \in Models : SlotOf(v, m) = SlotOf(t, m)
  <2> HIDE DEF ms
  <2> QED
    BY <1>1, SlotsGrow
<1>3. u = [v EXCEPT !.running = [s \in DOMAIN @ |-> N(s)]]
  BY DEF Recount
<1>4. \A s : N(s) = Cardinality(Serves(t, H, s))
  <2>1. \A s : {h \in DOMAIN K : SlotOf(t, K[h]) = s} = Serves(t, H, s)
    BY DEF Serves
  <2> QED
    BY <2>1
<1> HIDE DEF u, v, N, ms, K
<1>5. /\ u.default = v.default /\ u.limit = v.limit /\ u.running = [s \in DOMAIN v.limit |-> N(s)]
      /\ u = [default |-> u.default, limit |-> u.limit, running |-> u.running]
  BY <1>2, <1>3 DEF IsTable
<1>6. \A s : N(s) \in Nat
  BY <1>4, Served
<1>7. IsTable(u)
  BY <1>2, <1>5, <1>6 DEF IsTable
<1>8. \A a \in H : SlotOf(u, Key[a]) = SlotOf(t, Key[a])
  BY <1>2, <1>5, KeyIs DEF SlotOf
<1>9. \A s \in DOMAIN u.limit : u.running[s] = Cardinality(Serves(u, H, s))
  <2>1. \A s : Serves(u, H, s) = Serves(t, H, s)
    BY <1>8 DEF Serves
  <2> QED
    BY <1>4, <1>5, <2>1
<1>10. \A a \in H : SlotOf(u, Key[a]) \in DOMAIN u.limit
  BY <1>1, <1>2, <1>5, <1>8
<1> QED
  BY <1>7, <1>9, <1>10 DEF Counts, u, K

LEMMA SetLimitsIs ==
    ASSUME NEW t, IsTable(t), NEW c \in Configs, NEW H \in SUBSET Agents
    PROVE  LET u == SetLimits(t, c, [a \in H |-> Key[a]]) IN IsTable(u) /\ Counts(u, H)
<1> DEFINE kept == DOMAIN t.limit
           fallback(s) == IF s \in kept THEN t.limit[s] ELSE 1
           new == [default |-> SafeLimit(c.default, t.default),
                   limit |-> [s \in Named(c) |-> SafeLimit(Configured(c, s), fallback(s))],
                   running |-> [s \in Named(c) |-> IF s \in kept THEN t.running[s] ELSE 0]]
<1>1. \A s \in Named(c) : fallback(s) \in Nat \ {0}
  BY DEF IsTable
<1>2. \A s \in Named(c) : (IF s \in kept THEN t.running[s] ELSE 0) \in Nat
  BY DEF IsTable
<1>3. SafeLimit(c.default, t.default) \in Limit
  BY LimitType, ConfigsAssumption DEF IsTable
<1>4. IsTable(new)
  <2> DEFINE L == [s \in Named(c) |-> SafeLimit(Configured(c, s), fallback(s))]
             R == [s \in Named(c) |-> IF s \in kept THEN t.running[s] ELSE 0]
             D == SafeLimit(c.default, t.default)
  <2>1. L \in [Named(c) -> Nat \ {0}]
    <3> HIDE DEF fallback
    <3> QED
      BY <1>1, ConfiguredIs, Bounds
  <2>2. R \in [Named(c) -> Nat]
    BY <1>2
  <2>3. DOMAIN L = Named(c) /\ D \in Limit /\ new = [default |-> D, limit |-> L, running |-> R]
    BY <1>3
  <2> HIDE DEF L, R, D, new
  <2> QED
    BY <2>1, <2>2, <2>3 DEF IsTable
<1> QED
  BY <1>4, RecountIs DEF SetLimits

\* What happens to a table while slots are only taken: none that is full gets room.
IsTight(t, s) == s \in DOMAIN t.limit /\ t.running[s] >= t.limit[s]
Fills(t, u) ==
    /\ \A s : IsTight(t, s) => IsTight(u, s)
    /\ \A n \in Models : SlotOf(u, n) = SlotOf(t, n)

LEMMA FullIs ==
    ASSUME NEW t, IsTable(t), NEW m \in Models
    PROVE  IsFull(t, m) <=> IsTight(t, SlotOf(t, m))
<1> DEFINE v == SlotFor(t, m)
           s == SlotOf(t, m)
<1>1. /\ IsTable(v) /\ DOMAIN v.limit = DOMAIN t.limit \cup {s}
      /\ \A x \in DOMAIN t.limit : v.limit[x] = t.limit[x] /\ v.running[x] = t.running[x]
      /\ \A x \in DOMAIN v.limit \ DOMAIN t.limit : v.running[x] = 0
  BY SlotForIs
<1>2. IsFull(t, m) <=> v.running[s] >= v.limit[s]
  BY DEF IsFull, LimitOf
<1> HIDE DEF v, s
<1>3. s \in DOMAIN v.limit /\ v.limit[s] \in Nat \ {0}
  BY <1>1 DEF IsTable
<1>4. CASE s \in DOMAIN t.limit
  BY <1>1, <1>2, <1>4 DEF IsTight, s
<1>5. CASE s \notin DOMAIN t.limit
  <2>1. v.running[s] = 0
    BY <1>1, <1>3, <1>5
  <2> QED
    BY <1>2, <1>3, <1>5, <2>1 DEF IsTight, s
<1> QED
  BY <1>4, <1>5

LEMMA SlotForFills == ASSUME NEW t, IsTable(t), NEW a \in Agents PROVE Fills(t, SlotFor(t, Key[a]))
BY SlotForIs, KeyIs DEF Fills, IsTight

LEMMA ReserveFills == ASSUME NEW t, IsTable(t), NEW a \in Agents PROVE Fills(t, Reserve(t, Key[a]))
<1> DEFINE v == SlotFor(t, Key[a])
           u == Reserve(t, Key[a])
           k == SlotOf(t, Key[a])
<1>1. /\ IsTable(v) /\ DOMAIN v.limit = DOMAIN t.limit \cup {k}
      /\ \A s \in DOMAIN t.limit : v.limit[s] = t.limit[s] /\ v.running[s] = t.running[s]
  BY SlotForIs, KeyIs
<1>2. /\ u.limit = v.limit /\ u.running = [v.running EXCEPT ![k] = @ + 1]
      /\ \A n \in Models : SlotOf(u, n) = SlotOf(t, n)
  BY ReserveIs
<1> HIDE DEF u, v, k
<1>3. ASSUME NEW s, IsTight(t, s) PROVE IsTight(u, s)
  <2>1. /\ s \in DOMAIN t.limit /\ s \in DOMAIN v.running /\ v.running[s] \in Nat /\ v.limit[s] \in Nat
        /\ v.running[s] >= v.limit[s]
    BY <1>1, <1>3 DEF IsTight, IsTable
  <2>2. u.running[s] = IF s = k THEN v.running[s] + 1 ELSE v.running[s]
    BY <1>2, <2>1
  <2>3. u.running[s] >= v.limit[s]
    BY <2>1, <2>2
  <2> QED
    BY <1>1, <1>2, <2>1, <2>3 DEF IsTight
<1> QED
  BY <1>2, <1>3 DEF Fills, u

\* A slot that is taken and given back.
LEMMA ReturnFills == ASSUME NEW t, IsTable(t), NEW a \in Agents PROVE Fills(t, Release(Reserve(t, Key[a]), Key[a]))
<1> DEFINE v == SlotFor(t, Key[a])
           u == Reserve(t, Key[a])
           x == SlotFor(u, Key[a])
           w == Release(u, Key[a])
           k == SlotOf(t, Key[a])
           less(n) == IF n > 0 THEN n - 1 ELSE 0
<1>1. /\ IsTable(v) /\ DOMAIN v.limit = DOMAIN t.limit \cup {k}
      /\ \A s \in DOMAIN t.limit : v.limit[s] = t.limit[s] /\ v.running[s] = t.running[s]
  BY SlotForIs, KeyIs
<1>2. /\ IsTable(u) /\ u.limit = v.limit /\ u.running = [v.running EXCEPT ![k] = @ + 1]
      /\ \A n \in Models : SlotOf(u, n) = SlotOf(t, n)
  BY ReserveIs
<1>3. SlotOf(u, Key[a]) = k /\ k \in DOMAIN u.limit
  BY <1>1, <1>2, KeyIs
<1>4. /\ IsTable(x) /\ DOMAIN x.limit = DOMAIN u.limit
      /\ \A s \in DOMAIN u.limit : x.limit[s] = u.limit[s] /\ x.running[s] = u.running[s]
      /\ \A n \in Models : SlotOf(x, n) = SlotOf(u, n)
  <2> HIDE DEF u, k
  <2>1. DOMAIN u.limit \cup {SlotOf(u, Key[a])} = DOMAIN u.limit
    BY <1>3
  <2>2. /\ IsTable(x) /\ DOMAIN x.limit = DOMAIN u.limit \cup {SlotOf(u, Key[a])}
        /\ \A s \in DOMAIN u.limit : x.limit[s] = u.limit[s] /\ x.running[s] = u.running[s]
        /\ \A n \in Models : SlotOf(x, n) = SlotOf(u, n)
    BY <1>2, SlotForIs, KeyIs
  <2> QED
    BY <2>1, <2>2
<1>5. w = [x EXCEPT !.running[k] = less(@)]
  BY <1>3 DEF Release
<1> HIDE DEF u, v, w, x, k
<1>6. w.limit = x.limit /\ w.running = [x.running EXCEPT ![k] = less(x.running[k])]
  BY <1>4, <1>5 DEF IsTable
<1>7. \A n \in Models : SlotOf(w, n) = SlotOf(t, n)
  BY <1>2, <1>4, <1>6 DEF SlotOf
<1>8. ASSUME NEW s, IsTight(t, s) PROVE IsTight(w, s)
  <2>1. /\ s \in DOMAIN t.limit /\ s \in DOMAIN v.limit /\ s \in DOMAIN v.running /\ v.running[s] \in Nat
        /\ v.limit[s] \in Nat /\ v.running[s] >= v.limit[s]
    BY <1>1, <1>8 DEF IsTight, IsTable
  <2>2. s \in DOMAIN u.limit /\ s \in DOMAIN x.running
    BY <1>2, <1>4, <2>1 DEF IsTable
  <2>3. w.running[s] = v.running[s]
    <3>1. CASE s = k
      <4>1. x.running[k] = v.running[k] + 1 /\ v.running[k] \in Nat
        BY <1>2, <1>4, <2>1, <2>2, <3>1
      <4>2. less(x.running[k]) = v.running[k]
        BY <4>1
      <4> QED
        BY <1>6, <2>2, <3>1, <4>2
    <3>2. CASE s # k
      BY <1>2, <1>4, <1>6, <2>1, <2>2, <3>2
    <3> QED
      BY <3>1, <3>2
  <2>4. s \in DOMAIN w.limit /\ w.limit[s] = v.limit[s]
    BY <1>2, <1>4, <1>6, <2>1, <2>2
  <2> QED
    BY <2>1, <2>3, <2>4 DEF IsTight
<1> QED
  BY <1>7, <1>8 DEF Fills, u, w

-----------------------------------------------------------------------------
(* Records *)

Recs == [status : {"new", "queued", "running", "stopped", "completed", "cutoff", "error"},
         started : BOOLEAN, runs : 0..MaxRuns, run : {"none", "setup", "turn", "judge", "repair"},
         round : 0..Rounds, hold : BOOLEAN, settled : BOOLEAN, abort : BOOLEAN, vstop : BOOLEAN,
         bound : BOOLEAN, session : BOOLEAN, result : Answers,
         verdict : {"none", "passed", "repaired", "unparsed", "failed", "errored", "skipped"},
         gate : {<<>>} \cup {<<v>> : v \in Answers}, good : Answers]

\* What becomes of a record that gets or loses a slot, ends or is told to stop.
Held(r, held) == [r EXCEPT !.hold = held]
Begun(r)      == Start(Held(r, TRUE))
Failed(r)     == Fail(Held(r, FALSE))
End(r)        == [r EXCEPT !.run = "none", !.round = 0, !.vstop = FALSE, !.hold = FALSE]
Settle(r)     == [Open(End(r), r.result) EXCEPT !.bound = FALSE, !.settled = TRUE]
Tell(r)       == [r EXCEPT !.abort = IF r.status = "queued" THEN @ ELSE TRUE, !.status = "stopped", !.bound = FALSE]
\* The queue may start a queued record, or try to.
MayDrain(r, q) == q = r \/ (r.status = "queued" /\ q \in {Begun(r), Failed(r)})

\* What goes together in one record.
RecOK(r) ==
    /\ r.hold <=> r.run # "none"
    /\ r.run # "none" => r.started /\ ~r.settled /\ r.verdict = "none" /\ r.runs \in 1..MaxRuns
    /\ r.run \in {"setup", "turn"} => r.status \in {"running", "stopped"}
    /\ r.run \in {"judge", "repair"} => r.status = "completed"
    /\ r.status = "running" => r.run \in {"setup", "turn"}
    /\ r.status \in {"new", "queued"} => ~r.started /\ r.gate = <<>>
    /\ ~r.started => r.run = "none" /\ r.result = 0 /\ r.verdict = "none" /\ ~r.settled
    /\ r.gate = <<>> => r.status \in {"new", "queued"} \/ r.run # "none"
    /\ r.verdict \in {"passed", "repaired"} => r.result = r.good
GoodRecs == {r \in Recs : RecOK(r)}

LEMMA ZeroAnswers == 0 \in Answers /\ 0 \in 0..Rounds /\ 1 \in 1..MaxRuns /\ 1 \in 0..MaxRuns
BY AgentsAssumption DEF Answers

LEMMA AttemptType ==
    ASSUME NEW run \in 1..MaxRuns, NEW round \in 0..Rounds
    PROVE  Attempt(run, round) \in Answers
<1> DEFINE k == Rounds + 1
<1>1. run \in Nat /\ MaxRuns \in Nat /\ k \in Nat /\ round \in Nat /\ MaxRuns - run \in Nat /\ run - 1 \in Nat
  BY AgentsAssumption
<1>2. round + 1 <= k
  BY AgentsAssumption
<1>3. (MaxRuns - run) * k \in Nat /\ (run - 1) * k \in Nat /\ MaxRuns * k \in Nat
  BY <1>1
<1>4. MaxRuns * k = (run - 1) * k + k + (MaxRuns - run) * k
  BY <1>1
<1>5. Attempt(run, round) = (run - 1) * k + round + 1
  BY DEF Attempt
<1> HIDE DEF k
<1>6. (run - 1) * k + round + 1 \in Nat /\ (run - 1) * k + round + 1 <= MaxRuns * k
  BY <1>1, <1>2, <1>3, <1>4
<1> QED
  BY <1>5, <1>6, <1>3 DEF Answers, k

LEMMA OpenIs ==
    ASSUME NEW r \in Recs, NEW value \in Answers
    PROVE  /\ Open(r, value) \in Recs
           /\ \A f \in DOMAIN r \ {"gate"} : Open(r, value)[f] = r[f]
           /\ Open(r, value).gate # <<>>
           /\ r.gate = <<>> => Open(r, value).gate = <<value>>
           /\ r.gate # <<>> => Open(r, value) = r
BY DEF Open, Recs

LEMMA HeldIs ==
    ASSUME NEW r \in Recs, NEW held \in BOOLEAN
    PROVE  Held(r, held) \in Recs /\ Held(r, held).hold = held /\ (r.hold = held => Held(r, held) = r)
<1>1. Held(r, held) \in Recs /\ Held(r, held).hold = held
  BY DEF Held, Recs
<1>2. r.hold = held => Held(r, held) = r
  BY DEF Held, Recs
<1> QED
  BY <1>1, <1>2

\* A record no run of which was started yet.
Fresh(r) == ~r.started /\ r.gate = <<>> /\ r.result = 0 /\ r.verdict = "none" /\ ~r.settled /\ r.run = "none" /\ ~r.hold

\* Whoever waits is told the final answer, but of a stopped record.
Told(r, q) == r.gate = <<>> /\ q.gate # <<>> => (q.run = "none" /\ q.gate = <<q.result>>) \/ r.status = "stopped"

\* Without a stop nothing is aborted but what was stillborn.
Undisturbed(r) == r.abort \/ r.status = "stopped" => ~r.started /\ r.status = "stopped"

\* What every step does to a record, and what every step does but a stop.
Goes(r, q)  == q \in GoodRecs /\ Told(r, q) /\ (r.started => q.started) /\ (q.status = "new" => r.status = "new")
Moves(r, q) == Goes(r, q) /\ (q.bound => r.bound)
Quiet(r, q) == Moves(r, q) /\ (Undisturbed(r) => Undisturbed(q))

LEMMA Unmoved == ASSUME NEW r \in GoodRecs PROVE Quiet(r, r)
BY DEF Quiet, Moves, Goes, Told, GoodRecs

LEMMA Newborn ==
    ASSUME NEW r \in GoodRecs, r.status \in {"new", "queued"}
    PROVE  Fresh(r) /\ (Undisturbed(r) => ~r.abort)
BY DEF GoodRecs, Recs, RecOK, Fresh, Undisturbed

LEMMA StartGood ==
    ASSUME NEW r \in Recs, Fresh(r)
    PROVE  /\ Moves(r, Begun(r)) /\ (~r.abort => Quiet(r, Begun(r)))
           /\ Begun(r).hold /\ Begun(r).run # "none" /\ Begun(r).bound = r.bound
<1> DEFINE q == Begun(r)
<1>1. /\ q.hold = TRUE /\ q.status = "running" /\ q.started = TRUE /\ q.run = "setup" /\ q.runs = 1
      /\ q.gate = r.gate /\ q.bound = r.bound /\ q.abort = r.abort /\ q.settled = r.settled /\ q.verdict = r.verdict
  BY DEF Begun, Start, Held, Recs
<1>2. q \in Recs
  BY ZeroAnswers DEF Begun, Start, Held, Recs
<1>3. RecOK(q)
  <2> HIDE DEF q
  <2> QED
    BY <1>1, ZeroAnswers DEF RecOK, Fresh
<1> HIDE DEF q
<1>4. q \in GoodRecs
  BY <1>2, <1>3 DEF GoodRecs
<1>5. Moves(r, q)
  BY <1>1, <1>4 DEF Moves, Goes, Told, Fresh
<1>6. ~r.abort => Undisturbed(q)
  BY <1>1 DEF Undisturbed
<1> QED
  BY <1>1, <1>5, <1>6 DEF Quiet, q

LEMMA FailGood ==
    ASSUME NEW r \in Recs, Fresh(r)
    PROVE  /\ Moves(r, Failed(r)) /\ (~r.abort => Quiet(r, Failed(r)))
           /\ ~Failed(r).hold /\ Failed(r).run = "none" /\ ~Failed(r).bound /\ Failed(r).status = "error"
<1> DEFINE p == [r EXCEPT !.hold = FALSE, !.status = "error", !.started = TRUE, !.bound = FALSE]
           q == Failed(r)
<1>1. /\ p.hold = FALSE /\ p.status = "error" /\ p.started = TRUE /\ p.bound = FALSE
      /\ p.run = r.run /\ p.gate = r.gate /\ p.abort = r.abort /\ p.settled = r.settled /\ p.verdict = r.verdict
      /\ p.result = r.result
  BY DEF Recs
<1>2. p \in Recs
  BY DEF Recs
<1>3. q = [p EXCEPT !.gate = <<0>>]
  BY <1>1 DEF Failed, Fail, Held, Open, Fresh, Recs
<1> HIDE DEF p, q
<1>4. /\ q \in Recs /\ q.gate = <<0>> /\ q.hold = p.hold /\ q.status = p.status /\ q.started = p.started
      /\ q.bound = p.bound /\ q.run = p.run /\ q.abort = p.abort /\ q.settled = p.settled /\ q.verdict = p.verdict
      /\ q.result = p.result
  BY <1>2, <1>3, ZeroAnswers DEF Recs
<1>5. RecOK(q)
  BY <1>1, <1>4 DEF RecOK, Fresh
<1>6. Moves(r, q)
  BY <1>1, <1>4, <1>5 DEF Moves, Goes, Told, Fresh, GoodRecs
<1>7. ~r.abort => Undisturbed(q)
  BY <1>1, <1>4 DEF Undisturbed
<1> QED
  BY <1>1, <1>4, <1>6, <1>7 DEF Quiet, Fresh, q

LEMMA DrainGood ==
    ASSUME NEW r \in GoodRecs, NEW q, MayDrain(r, q)
    PROVE  /\ Quiet(r, q) /\ (r.run # "none" => q = r)
           /\ q.hold # r.hold => q.run # "none"
<1>1. CASE q = r
  BY <1>1, Unmoved DEF Quiet, Moves, Goes
<1>2. CASE r.status = "queued" /\ q \in {Begun(r), Failed(r)}
  <2>1. Fresh(r) /\ r \in Recs /\ (Undisturbed(r) => ~r.abort) /\ r.run = "none" /\ r.hold = FALSE
    BY <1>2, Newborn DEF GoodRecs, Fresh, Recs
  <2>2. CASE q = Begun(r)
    BY <2>1, <2>2, StartGood DEF Quiet
  <2>3. CASE q = Failed(r)
    <3>1. Failed(r).hold = FALSE
      BY <2>1, FailGood DEF Moves, Goes, Quiet, GoodRecs, Recs
    <3> QED
      BY <2>1, <2>3, <3>1, FailGood DEF Quiet
  <2> QED
    BY <1>2, <2>2, <2>3
<1> QED
  BY <1>1, <1>2 DEF MayDrain

\* A run that has come to its end, with what is said of its answer.
LEMMA SettleGood ==
    ASSUME NEW r \in GoodRecs, NEW q \in Recs, r.run # "none", q.started, q.run = r.run, q.gate = r.gate,
           q.status \notin {"new", "queued", "running"}, q.bound = r.bound, q.abort = r.abort,
           q.status = "stopped" => r.status = "stopped",
           q.verdict \in {"passed", "repaired"} => q.result = q.good
    PROVE  /\ Quiet(r, Settle(q)) /\ ~Settle(q).hold /\ Settle(q).run = "none"
           /\ End(q) \in Recs /\ End(q).status = q.status /\ End(q).hold = FALSE /\ End(q).result = q.result
<1> DEFINE e == End(q)
           o == Open(e, q.result)
           p == Settle(q)
<1>1. /\ e \in Recs /\ e.status = q.status /\ e.hold = FALSE /\ e.result = q.result
      /\ e.run = "none" /\ e.gate = q.gate /\ e.started = q.started /\ e.abort = q.abort
      /\ e.verdict = q.verdict /\ e.good = q.good
  BY ZeroAnswers DEF End, Recs
<1>3. p = [o EXCEPT !.bound = FALSE, !.settled = TRUE]
  BY DEF Settle
<1>4. q.result \in Answers
  BY DEF Recs
<1> HIDE DEF e
<1>5. /\ o \in Recs /\ o.gate # <<>> /\ (q.gate = <<>> => o.gate = <<q.result>>)
      /\ o.status = q.status /\ o.hold = FALSE /\ o.result = q.result
      /\ o.run = "none" /\ o.started = q.started /\ o.abort = q.abort
      /\ o.verdict = q.verdict /\ o.good = q.good
  <2> HIDE DEF o
  <2>1. o = Open(e, q.result)
    BY DEF o
  <2> QED
    BY <1>1, <1>4, <2>1, ZenonT(60) DEF Open, Recs
<1> HIDE DEF o, p
<1>6. /\ p \in Recs /\ p.gate = o.gate /\ p.settled = TRUE
      /\ p.bound = FALSE /\ p.status = q.status /\ p.hold = FALSE /\ p.result = q.result
      /\ p.run = "none" /\ p.started = q.started /\ p.abort = q.abort
      /\ p.verdict = q.verdict /\ p.good = q.good
  BY <1>3, <1>5 DEF Recs
<1>7. RecOK(p)
  BY <1>5, <1>6 DEF RecOK
<1>8. Told(r, p)
  BY <1>5, <1>6 DEF Told
<1>9. Moves(r, p)
  BY <1>6, <1>7, <1>8 DEF Moves, Goes, GoodRecs
<1>10. Undisturbed(r) => Undisturbed(p)
  <2>1. r.started
    BY DEF GoodRecs, RecOK
  <2> QED
    BY <1>6, <2>1 DEF Undisturbed
<1> QED
  BY <1>1, <1>6, <1>9, <1>10 DEF Quiet, p, e

\* A record that is told to stop, that is cleared, continued or disposed of.
LEMMA TellIs ==
    ASSUME NEW r \in Recs
    PROVE  LET q == Tell(r) IN
           /\ q \in Recs /\ q.status = "stopped" /\ q.bound = FALSE /\ q.gate = r.gate /\ q.started = r.started
           /\ q.hold = r.hold /\ q.run = r.run /\ q.verdict = r.verdict /\ q.result = r.result /\ q.good = r.good
           /\ q.runs = r.runs /\ q.settled = r.settled
BY ZenonT(60) DEF Tell, Recs

LEMMA HaltGood ==
    ASSUME NEW r \in GoodRecs, r.status \in {"queued", "running"} \/ Checking(r)
    PROVE  Moves(r, Halt(r)) /\ Halt(r).hold = r.hold /\ Halt(r).run = r.run /\ Halt(r).status # "queued"
<1> USE DEF GoodRecs
<1>1. CASE Checking(r)
  <2>1. /\ [r EXCEPT !.vstop = TRUE] \in Recs
        /\ \A f \in DOMAIN r \ {"vstop"} : [r EXCEPT !.vstop = TRUE][f] = r[f]
        /\ DOMAIN r = DOMAIN New
    BY DEF Recs, New
  <2> DEFINE q == [r EXCEPT !.vstop = TRUE]
  <2>2. /\ q.status = r.status /\ q.bound = r.bound /\ q.gate = r.gate /\ q.started = r.started
        /\ q.hold = r.hold /\ q.run = r.run /\ q.verdict = r.verdict /\ q.result = r.result /\ q.good = r.good
        /\ q.runs = r.runs /\ q.settled = r.settled
    BY DEF Recs
  <2>3. Halt(r) = q
    BY <1>1 DEF Halt
  <2> HIDE DEF q
  <2>4. q \in Recs
    BY <2>1 DEF q
  <2> QED
    BY <1>1, <2>2, <2>3, <2>4 DEF Moves, Goes, Told, RecOK, Checking
<1>2. CASE ~Checking(r) /\ r.started
  <2>1. Halt(r) = Tell(r)
    BY <1>2 DEF Halt, Tell
  <2>2. r.run \in {"setup", "turn"}
    BY <1>2 DEF RecOK
  <2>3. RecOK(Tell(r))
    BY <1>2, <2>2, TellIs DEF RecOK
  <2> QED
    BY <2>1, <2>3, TellIs, ZenonT(60) DEF Moves, Goes, Told
<1>3. CASE ~Checking(r) /\ ~r.started
  <2> DEFINE p == Tell(r)
             q == Halt(r)
  <2>1. q = [p EXCEPT !.gate = <<0>>] /\ Fresh(r)
    <3>1. r.status = "queued"
      BY <1>3 DEF RecOK
    <3> QED
      BY <1>3, <3>1, Newborn, TellIs DEF Halt, Tell, Open, Fresh
  <2>2. /\ p \in Recs /\ p.status = "stopped" /\ p.bound = FALSE /\ p.gate = r.gate /\ p.started = r.started
        /\ p.hold = r.hold /\ p.run = r.run /\ p.verdict = r.verdict /\ p.result = r.result /\ p.good = r.good
        /\ p.settled = r.settled
    BY TellIs
  <2> HIDE DEF p, q
  <2>3. /\ q \in Recs /\ q.status = p.status /\ q.bound = p.bound /\ q.gate = <<0>> /\ q.started = p.started
        /\ q.hold = p.hold /\ q.run = p.run /\ q.verdict = p.verdict /\ q.result = p.result /\ q.good = p.good
        /\ q.settled = p.settled
    BY <2>1, <2>2, ZeroAnswers DEF Recs
  <2>4. RecOK(q)
    BY <2>1, <2>2, <2>3 DEF RecOK, Fresh
  <2> QED
    BY <2>1, <2>2, <2>3, <2>4 DEF Moves, Goes, Told, Fresh, q
<1> QED
  BY <1>1, <1>2, <1>3

LEMMA Unbound ==
    ASSUME NEW r \in GoodRecs, NEW q \in GoodRecs, Moves(r, q)
    PROVE  LET p == [q EXCEPT !.bound = FALSE] IN Moves(r, p) /\ p.hold = q.hold /\ p.run = q.run
<1> DEFINE p == [q EXCEPT !.bound = FALSE]
<1>1. /\ p \in Recs /\ p.status = q.status /\ p.bound = FALSE /\ p.gate = q.gate /\ p.started = q.started
      /\ p.hold = q.hold /\ p.run = q.run /\ p.verdict = q.verdict /\ p.result = q.result /\ p.good = q.good
      /\ p.runs = q.runs /\ p.settled = q.settled
  BY DEF GoodRecs, Recs
<1> HIDE DEF p
<1> QED
  BY <1>1, ZenonT(60) DEF Moves, Goes, Told, GoodRecs, RecOK, p

LEMMA TearIs ==
    ASSUME NEW r \in Recs
    PROVE  LET q == TearDown(r) IN
           /\ q \in Recs /\ q.status = r.status /\ q.bound = FALSE /\ q.gate = r.gate /\ q.started = r.started
           /\ q.hold = r.hold /\ q.run = r.run /\ q.verdict = r.verdict /\ q.result = r.result /\ q.good = r.good
           /\ q.runs = r.runs /\ q.settled = r.settled /\ q.abort = r.abort
<1> DEFINE b == Checking(r) \/ r.vstop
<1>1. b \in BOOLEAN
  OBVIOUS
<1>2. TearDown(r) = [r EXCEPT !.vstop = b, !.session = FALSE, !.bound = FALSE]
  BY DEF TearDown, Recs
<1> HIDE DEF b
<1> QED
  BY <1>1, <1>2 DEF Recs

LEMMA ClearGood ==
    ASSUME NEW r \in GoodRecs, r.status \notin {"new", "queued", "running"}, ~Checking(r)
    PROVE  LET q == Open(TearDown(r), 0) IN
           Quiet(r, q) /\ q.hold = r.hold /\ q.run = r.run /\ q.started = r.started /\ q.status = r.status
<1> DEFINE p == TearDown(r)
           q == Open(p, 0)
<1> USE DEF GoodRecs
<1>1. /\ p \in Recs /\ p.status = r.status /\ p.bound = FALSE /\ p.gate = r.gate /\ p.started = r.started
      /\ p.hold = r.hold /\ p.run = r.run /\ p.verdict = r.verdict /\ p.result = r.result /\ p.good = r.good
      /\ p.runs = r.runs /\ p.settled = r.settled /\ p.abort = r.abort
  BY TearIs
<1>2. r.gate = <<>> => r.status = "stopped"
  BY DEF RecOK, Checking, Recs
<1> HIDE DEF p
<1>3. /\ q \in Recs /\ q.gate # <<>> /\ (p.gate # <<>> => q.gate = p.gate)
      /\ q.status = p.status /\ q.bound = p.bound /\ q.started = p.started
      /\ q.hold = p.hold /\ q.run = p.run /\ q.verdict = p.verdict /\ q.result = p.result /\ q.good = p.good
      /\ q.runs = p.runs /\ q.settled = p.settled /\ q.abort = p.abort
  BY <1>1, ZeroAnswers DEF Open, Recs
<1> HIDE DEF q
<1>4. RecOK(q)
  BY <1>1, <1>3 DEF RecOK
<1>5. Moves(r, q)
  BY <1>1, <1>2, <1>3, <1>4 DEF Moves, Goes, Told
<1> QED
  BY <1>1, <1>3, <1>5 DEF Quiet, Undisturbed, p, q

Continue(r) == [r EXCEPT !.hold = TRUE, !.status = "running", !.settled = FALSE, !.abort = FALSE, !.run = "turn",
                         !.runs = @ + 1, !.result = 0, !.verdict = "none"]

LEMMA ContinueGood ==
    ASSUME NEW r \in GoodRecs, r.settled, r.runs < MaxRuns
    PROVE  LET q == Continue(r) IN Quiet(r, q) /\ q.hold /\ q.run # "none" /\ r.run = "none" /\ ~r.hold
<1> DEFINE q == Continue(r)
<1> USE DEF GoodRecs
<1>1. r.runs + 1 \in 0..MaxRuns /\ r.runs + 1 \in 1..MaxRuns
  BY AgentsAssumption DEF Recs
<1>2. r.started /\ r.run = "none" /\ ~r.hold /\ r.gate # <<>>
  <2>1. r.started /\ r.run = "none"
    BY DEF RecOK
  <2>2. r.status \notin {"new", "queued"}
    BY <2>1 DEF RecOK
  <2> QED
    BY <2>1, <2>2 DEF RecOK
<1>3. /\ q \in Recs /\ q.hold = TRUE /\ q.status = "running" /\ q.settled = FALSE /\ q.abort = FALSE
      /\ q.run = "turn" /\ q.runs = r.runs + 1 /\ q.result = 0 /\ q.verdict = "none"
      /\ q.gate = r.gate /\ q.started = r.started /\ q.bound = r.bound
  BY <1>1, ZeroAnswers, ZenonT(60) DEF Continue, Recs
<1> HIDE DEF q
<1>4. RecOK(q)
  BY <1>1, <1>2, <1>3 DEF RecOK
<1> QED
  BY <1>2, <1>3, <1>4 DEF Quiet, Moves, Goes, Told, Undisturbed, q

LEMMA DiscardGood ==
    ASSUME NEW r \in GoodRecs, r.status # "new"
    PROVE  Moves(r, Discard(r)) /\ Discard(r).hold = r.hold /\ Discard(r).run = r.run /\ Discard(r).status # "queued"
<1> USE DEF GoodRecs
<1> DEFINE o == [r EXCEPT !.abort = TRUE]
           p == TearDown(o)
           e == [p EXCEPT !.status = "error"]
           q == Open(e, 0)
<1>1. /\ o \in Recs /\ o.status = r.status /\ o.bound = r.bound /\ o.gate = r.gate /\ o.started = r.started
      /\ o.hold = r.hold /\ o.run = r.run /\ o.verdict = r.verdict /\ o.result = r.result /\ o.good = r.good
      /\ o.runs = r.runs /\ o.settled = r.settled
  BY DEF Recs
<1> HIDE DEF o
<1>2. /\ p \in Recs /\ p.status = r.status /\ p.bound = FALSE /\ p.gate = r.gate /\ p.started = r.started
      /\ p.hold = r.hold /\ p.run = r.run /\ p.verdict = r.verdict /\ p.result = r.result /\ p.good = r.good
      /\ p.runs = r.runs /\ p.settled = r.settled
  BY <1>1, TearIs
<1> HIDE DEF p
<1>3. Discard(r) = IF r.status = "queued" THEN q ELSE p
  BY DEF Discard, p, o
<1>4. CASE r.status # "queued"
  <2>1. RecOK(p)
    BY <1>2, <1>4 DEF RecOK
  <2> QED
    BY <1>2, <1>3, <1>4, <2>1 DEF Moves, Goes, Told
<1>5. CASE r.status = "queued"
  <2>1. Fresh(r)
    BY <1>5, Newborn
  <2>2. /\ e \in Recs /\ e.status = "error" /\ e.bound = FALSE /\ e.gate = r.gate /\ e.started = r.started
        /\ e.hold = r.hold /\ e.run = r.run /\ e.verdict = r.verdict /\ e.result = r.result /\ e.good = r.good
        /\ e.runs = r.runs /\ e.settled = r.settled
    BY <1>2 DEF Recs
  <2> HIDE DEF e
  <2>3. q = [e EXCEPT !.gate = <<0>>]
    BY <2>1, <2>2 DEF Open, Fresh
  <2> HIDE DEF q
  <2>4. /\ q \in Recs /\ q.status = "error" /\ q.bound = FALSE /\ q.gate = <<0>> /\ q.started = r.started
        /\ q.hold = r.hold /\ q.run = r.run /\ q.verdict = r.verdict /\ q.result = r.result /\ q.good = r.good
        /\ q.settled = r.settled
    BY <2>2, <2>3, ZeroAnswers DEF Recs
  <2>5. RecOK(q)
    BY <2>1, <2>4 DEF RecOK, Fresh
  <2> QED
    BY <1>3, <1>5, <2>1, <2>4, <2>5 DEF Moves, Goes, Told, Fresh
<1> QED
  BY <1>4, <1>5

\* A run goes on: to its turn, to the judge, to a repair and back to the judge.
LEMMA RunsOn ==
    ASSUME NEW r \in GoodRecs, NEW q \in Recs, r.run # "none", q.run # "none", q.hold = r.hold, q.started = r.started,
           q.settled = r.settled, q.gate = r.gate, q.verdict = r.verdict, q.runs = r.runs, q.bound = r.bound,
           q.abort = r.abort, q.status = "stopped" => r.status = "stopped",
           IF q.run \in {"setup", "turn"} THEN q.status \in {"running", "stopped"} ELSE q.status = "completed"
    PROVE  Quiet(r, q)
<1> USE DEF GoodRecs
<1>1. RecOK(q)
  BY DEF RecOK
<1>2. r.started
  BY DEF RecOK
<1> QED
  BY <1>1, <1>2 DEF Quiet, Moves, Goes, Told, Undisturbed

-----------------------------------------------------------------------------
(* Worlds: the records, the queue and the tables that a synchronous part works on *)

IsWorld(W) ==
    /\ W = [rec |-> W.rec, queue |-> W.queue, tables |-> W.tables]
    /\ W.rec \in [Agents -> Recs]
    /\ W.queue \in Seq(Agents) /\ IsInjective(W.queue)
    /\ DOMAIN W.tables \subseteq Depths /\ \A d \in DOMAIN W.tables : IsTable(W.tables[d])

\* The counts are those of the records that hold a slot.
HeldBy(W, d) == {a \in Agents : W.rec[a].hold /\ DepthOf(a) = d}
Books(W) ==
    /\ \A d \in DOMAIN W.tables : Counts(W.tables[d], HeldBy(W, d))
    /\ \A a \in Agents : W.rec[a].hold => DepthOf(a) \in DOMAIN W.tables

AllGrow(W, V) == \A d \in DOMAIN W.tables : d \in DOMAIN V.tables /\ Grows(W.tables[d], V.tables[d])

LEMMA TableIs ==
    ASSUME config \in Configs, NEW W, IsWorld(W), NEW a \in Agents
    PROVE  /\ IsTable(Table(W, a))
           /\ Books(W) => Counts(Table(W, a), HeldBy(W, DepthOf(a)))
<1>1. CASE DepthOf(a) \in DOMAIN W.tables
  BY <1>1 DEF Table, IsWorld, Books
<1>2. CASE DepthOf(a) \notin DOMAIN W.tables
  <2>1. Books(W) => HeldBy(W, DepthOf(a)) = {}
    BY <1>2 DEF Books, HeldBy
  <2>2. IsTable(NewTable(config)) /\ Counts(NewTable(config), {})
    BY NewTableIs
  <2> QED
    BY <1>2, <2>1, <2>2 DEF Table
<1> QED
  BY <1>1, <1>2

WithTables(W, a, t) == [d \in DOMAIN W.tables \cup {DepthOf(a)} |-> IF d = DepthOf(a) THEN t ELSE W.tables[d]]

LEMMA WithTableIs ==
    ASSUME NEW W, IsWorld(W), NEW a \in Agents, NEW t
    PROVE  WithTable(W, a, t) = [rec |-> W.rec, queue |-> W.queue, tables |-> WithTables(W, a, t)]
BY DEF WithTable, WithTables, IsWorld

LEMMA Account ==
    ASSUME NEW W, IsWorld(W), NEW a \in Agents, NEW t, IsTable(t), NEW V,
           V = [rec |-> V.rec, queue |-> W.queue, tables |-> WithTables(W, a, t)],
           V.rec \in [Agents -> Recs], \A b \in Agents \ {a} : V.rec[b].hold = W.rec[b].hold
    PROVE  /\ IsWorld(V)
           /\ Books(W) /\ Counts(t, HeldBy(V, DepthOf(a))) => Books(V)
           /\ Grows(Table(W, a), t) => AllGrow(W, V)
           /\ DepthOf(a) \in DOMAIN V.tables /\ Table(V, a) = t
<1> DEFINE d == DepthOf(a)
<1>0. V.queue = W.queue /\ V.tables = WithTables(W, a, t)
  OBVIOUS
<1>1. /\ DOMAIN V.tables = DOMAIN W.tables \cup {d} /\ V.tables[d] = t
      /\ \A e \in DOMAIN W.tables : e # d => V.tables[e] = W.tables[e]
  BY <1>0 DEF WithTables
<1>2. IsWorld(V)
  <2>1. DOMAIN V.tables \subseteq Depths
    BY <1>1, KeyIs DEF IsWorld
  <2>2. \A e \in DOMAIN V.tables : IsTable(V.tables[e])
    BY <1>1 DEF IsWorld
  <2> QED
    BY <1>0, <2>1, <2>2 DEF IsWorld
<1>3. ASSUME Books(W), Counts(t, HeldBy(V, d)) PROVE Books(V)
  <2>1. \A e : e # d => HeldBy(V, e) = HeldBy(W, e)
    BY DEF HeldBy
  <2>2. ASSUME NEW e \in DOMAIN V.tables PROVE Counts(V.tables[e], HeldBy(V, e))
    <3>1. CASE e = d
      BY <1>1, <1>3, <3>1
    <3>2. CASE e # d
      <4>1. e \in DOMAIN W.tables /\ V.tables[e] = W.tables[e] /\ HeldBy(V, e) = HeldBy(W, e)
        BY <1>1, <2>1, <3>2
      <4> QED
        BY <1>3, <4>1 DEF Books
    <3> QED
      BY <3>1, <3>2
  <2>3. \A b \in Agents : V.rec[b].hold => DepthOf(b) \in DOMAIN V.tables
    BY <1>1, <1>3 DEF Books
  <2> QED
    BY <2>2, <2>3 DEF Books
<1>4. ASSUME Grows(Table(W, a), t) PROVE AllGrow(W, V)
  <2> SUFFICES ASSUME NEW e \in DOMAIN W.tables PROVE e \in DOMAIN V.tables /\ Grows(W.tables[e], V.tables[e])
    BY DEF AllGrow
  <2>1. CASE e = d
    BY <1>1, <1>4, <2>1 DEF Table
  <2>2. CASE e # d
    BY <1>1, <2>2, GrowsSame
  <2> QED
    BY <2>1, <2>2
<1>5. Table(V, a) = t
  BY <1>1 DEF Table
<1> QED
  BY <1>1, <1>2, <1>3, <1>4, <1>5

\* Records change and keep their slots.
LEMMA Alike ==
    ASSUME NEW W, IsWorld(W), NEW V, V = [rec |-> V.rec, queue |-> V.queue, tables |-> W.tables],
           V.rec \in [Agents -> Recs], V.queue \in Seq(Agents), IsInjective(V.queue),
           \A b \in Agents : V.rec[b].hold = W.rec[b].hold
    PROVE  IsWorld(V) /\ (Books(W) => Books(V)) /\ AllGrow(W, V)
<1>1. V.tables = W.tables
  OBVIOUS
<1>2. \A d : HeldBy(V, d) = HeldBy(W, d)
  BY DEF HeldBy
<1>3. IsWorld(V)
  BY <1>1 DEF IsWorld
<1>4. Books(W) => Books(V)
  BY <1>1, <1>2 DEF Books
<1> QED
  BY <1>1, <1>3, <1>4, GrowsSame DEF AllGrow

LEMMA AllGrowOn == ASSUME NEW U, NEW V, NEW W, AllGrow(U, V), AllGrow(V, W) PROVE AllGrow(U, W)
BY GrowsOn DEF AllGrow

LEMMA PutIs ==
    ASSUME NEW W, W = [rec |-> W.rec, queue |-> W.queue, tables |-> W.tables], NEW a, NEW r
    PROVE  Put(W, a, r) = [rec |-> [W.rec EXCEPT ![a] = r], queue |-> W.queue, tables |-> W.tables]
BY DEF Put

LEMMA ReservedIs ==
    ASSUME config \in Configs, NEW W, IsWorld(W), NEW a \in Agents, ~W.rec[a].hold
    PROVE  LET V == Reserved(W, a) IN
           /\ V.rec = [W.rec EXCEPT ![a] = Held(@, TRUE)] /\ V.queue = W.queue
           /\ IsWorld(V) /\ V.rec[a].hold = TRUE /\ DepthOf(a) \in DOMAIN V.tables
           /\ Books(W) => Books(V)
           /\ ~IsFull(Table(W, a), Key[a]) =>
                 AllGrow(W, V) /\ HasRoom(V.tables[DepthOf(a)], SlotOf(V.tables[DepthOf(a)], Key[a]))
<1> DEFINE t == Table(W, a)
           u == Reserve(t, Key[a])
           V == Reserved(W, a)
           r == Held(W.rec[a], TRUE)
           d == DepthOf(a)
<1>1. IsTable(t) /\ (Books(W) => Counts(t, HeldBy(W, d)))
  BY TableIs
<1>2. /\ IsTable(u) /\ SlotOf(u, Key[a]) = SlotOf(t, Key[a])
      /\ ~IsFull(t, Key[a]) => Grows(t, u) /\ HasRoom(u, SlotOf(t, Key[a]))
  BY <1>1, ReserveIs, ReserveGrows, KeyIs
<1>3. r \in Recs /\ r.hold = TRUE
  BY HeldIs DEF IsWorld
<1>4. V = [rec |-> [W.rec EXCEPT ![a] = r], queue |-> W.queue, tables |-> WithTables(W, a, u)]
  <2> DEFINE X == WithTable(W, a, u)
  <2>1. X = [rec |-> W.rec, queue |-> W.queue, tables |-> WithTables(W, a, u)]
    BY WithTableIs
  <2>2. V = Put(X, a, r)
    BY DEF Reserved, Held
  <2> HIDE DEF X, V, u, r
  <2> QED
    BY <2>1, <2>2, PutIs
<1>5. /\ V.rec = [W.rec EXCEPT ![a] = r] /\ V.tables = WithTables(W, a, u)
      /\ V = [rec |-> V.rec, queue |-> W.queue, tables |-> WithTables(W, a, u)]
  <2> HIDE DEF V
  <2> QED
    BY <1>4
<1> HIDE DEF u, t, r, V
<1>6. V.rec \in [Agents -> Recs] /\ V.rec[a] = r /\ \A b \in Agents \ {a} : V.rec[b].hold = W.rec[b].hold
  BY <1>3, <1>5 DEF IsWorld
<1>7. /\ IsWorld(V) /\ (Books(W) /\ Counts(u, HeldBy(V, d)) => Books(V))
      /\ (Grows(t, u) => AllGrow(W, V)) /\ d \in DOMAIN V.tables /\ Table(V, a) = u
  <2> HIDE DEF d
  <2> QED
    BY <1>2, <1>5, <1>6, Account DEF t, d
<1>8. HeldBy(V, d) = HeldBy(W, d) \cup {a} /\ a \notin HeldBy(W, d) /\ HeldBy(W, d) \in SUBSET Agents
  BY <1>3, <1>6 DEF HeldBy
<1>9. Books(W) => Counts(u, HeldBy(V, d))
  BY <1>1, <1>8, ReserveCounts DEF u
<1>10. V.tables[d] = u
  BY <1>7 DEF Table
<1>11. V.rec = [W.rec EXCEPT ![a] = Held(@, TRUE)] /\ V.queue = W.queue
  BY <1>4 DEF r
<1> QED
  BY <1>2, <1>3, <1>6, <1>7, <1>9, <1>10, <1>11 DEF V, r, t

LEMMA ReleasedIs ==
    ASSUME config \in Configs, NEW W, IsWorld(W), NEW a \in Agents
    PROVE  LET V == Released(W, a) IN
           /\ V.rec = [W.rec EXCEPT ![a] = Held(@, FALSE)] /\ V.queue = W.queue
           /\ IsWorld(V) /\ (Books(W) => Books(V)) /\ AllGrow(W, V)
<1> DEFINE t == Table(W, a)
           u == Release(t, Key[a])
           V == Released(W, a)
           r == Held(W.rec[a], FALSE)
           d == DepthOf(a)
<1>a. r \in Recs /\ r.hold = FALSE
  BY HeldIs DEF IsWorld
<1>b. CASE ~W.rec[a].hold
  <2>1. V = W
    BY <1>b DEF Released
  <2>2. r = W.rec[a]
    <3>1. W.rec[a] \in Recs /\ W.rec[a].hold = FALSE
      BY <1>b DEF IsWorld, Recs
    <3> QED
      BY <3>1, HeldIs
  <2>3. W.rec = [W.rec EXCEPT ![a] = Held(@, FALSE)]
    <3> HIDE DEF r
    <3> QED
      BY <2>2 DEF r, IsWorld
  <2>4. AllGrow(W, W)
    BY GrowsSame DEF AllGrow
  <2> QED
    BY <2>1, <2>3, <2>4
<1>c. CASE W.rec[a].hold
  <2>1. IsTable(t) /\ (Books(W) => Counts(t, HeldBy(W, d)))
    BY TableIs
  <2>2. IsTable(u) /\ Grows(t, u)
    BY <2>1, ReleaseIs, ReleaseGrows
  <2>4. V = [rec |-> [W.rec EXCEPT ![a] = r], queue |-> W.queue, tables |-> WithTables(W, a, u)]
    <3> DEFINE X == WithTable(W, a, u)
    <3>1. X = [rec |-> W.rec, queue |-> W.queue, tables |-> WithTables(W, a, u)]
      BY WithTableIs
    <3>2. V = Put(X, a, r)
      BY <1>c DEF Released, Held
    <3> HIDE DEF X, V, u, r
    <3> QED
      BY <3>1, <3>2, PutIs
  <2>5. /\ V.rec = [W.rec EXCEPT ![a] = r]
        /\ V = [rec |-> V.rec, queue |-> W.queue, tables |-> WithTables(W, a, u)]
    <3> HIDE DEF V
    <3> QED
      BY <2>4
  <2> HIDE DEF u, t, r, V
  <2>6. V.rec \in [Agents -> Recs] /\ V.rec[a] = r /\ \A b \in Agents \ {a} : V.rec[b].hold = W.rec[b].hold
    BY <1>a, <2>5 DEF IsWorld
  <2>7. /\ IsWorld(V) /\ (Books(W) /\ Counts(u, HeldBy(V, d)) => Books(V))
        /\ (Grows(t, u) => AllGrow(W, V))
    <3> HIDE DEF d
    <3> QED
      BY <2>2, <2>5, <2>6, Account DEF t, d
  <2>8. HeldBy(V, d) = HeldBy(W, d) \ {a} /\ a \in HeldBy(W, d) /\ HeldBy(W, d) \in SUBSET Agents
    BY <1>a, <1>c, <2>6 DEF HeldBy
  <2>9. Books(W) => Counts(u, HeldBy(V, d))
    <3> DEFINE H == HeldBy(W, d)
    <3> HIDE DEF H
    <3>1. H \in SUBSET Agents /\ a \in H
      BY <2>8 DEF H
    <3>2. Counts(t, H) => Counts(u, H \ {a})
      BY <2>1, <3>1, ReleaseCounts DEF u
    <3> QED
      BY <2>1, <2>8, <3>2 DEF H
  <2>10. V.rec = [W.rec EXCEPT ![a] = Held(@, FALSE)] /\ V.queue = W.queue
    BY <2>4 DEF r
  <2> QED
    BY <2>2, <2>7, <2>9, <2>10 DEF V, r
<1> QED
  BY <1>b, <1>c

\* A record takes a slot and becomes another.
LEMMA SlotTaken ==
    ASSUME config \in Configs, NEW W, IsWorld(W), NEW a \in Agents, ~W.rec[a].hold, NEW q \in Recs, q.hold = TRUE
    PROVE  LET V == Put(Reserved(W, a), a, q) IN
           /\ V.rec = [W.rec EXCEPT ![a] = q] /\ V.queue = W.queue
           /\ IsWorld(V) /\ (Books(W) => Books(V))
           /\ ~IsFull(Table(W, a), Key[a]) =>
                 /\ AllGrow(W, V) /\ DepthOf(a) \in DOMAIN V.tables
                 /\ HasRoom(V.tables[DepthOf(a)], SlotOf(V.tables[DepthOf(a)], Key[a]))
<1> DEFINE U == Reserved(W, a)
           V == Put(U, a, q)
<1>1. /\ U.rec = [W.rec EXCEPT ![a] = Held(@, TRUE)] /\ U.queue = W.queue
      /\ IsWorld(U) /\ U.rec[a].hold = TRUE /\ DepthOf(a) \in DOMAIN U.tables /\ (Books(W) => Books(U))
      /\ ~IsFull(Table(W, a), Key[a]) =>
            AllGrow(W, U) /\ HasRoom(U.tables[DepthOf(a)], SlotOf(U.tables[DepthOf(a)], Key[a]))
  BY ReservedIs
<1>2. W.rec \in [Agents -> Recs]
  BY DEF IsWorld
<1>3. V = [rec |-> [U.rec EXCEPT ![a] = q], queue |-> U.queue, tables |-> U.tables]
  <2>1. U = [rec |-> U.rec, queue |-> U.queue, tables |-> U.tables]
    BY <1>1 DEF IsWorld
  <2> HIDE DEF U
  <2> QED
    BY <2>1, PutIs
<1> HIDE DEF U, V
<1>4. /\ V = [rec |-> V.rec, queue |-> V.queue, tables |-> U.tables] /\ V.rec = [U.rec EXCEPT ![a] = q]
      /\ V.queue = U.queue /\ V.tables = U.tables
  BY <1>3
<1>5. V.rec \in [Agents -> Recs] /\ V.rec = [W.rec EXCEPT ![a] = q] /\ \A b \in Agents : V.rec[b].hold = U.rec[b].hold
  BY <1>1, <1>2, <1>4 DEF IsWorld
<1>6. IsWorld(V) /\ (Books(U) => Books(V))
  BY <1>1, <1>4, <1>5, Alike DEF IsWorld
<1>7. AllGrow(W, U) => AllGrow(W, V)
  BY <1>4 DEF AllGrow
<1> QED
  BY <1>1, <1>4, <1>5, <1>6, <1>7 DEF V, U

LEMMA StartedIs ==
    ASSUME config \in Configs, NEW W, IsWorld(W), NEW a \in Agents, ~W.rec[a].hold
    PROVE  LET V == Started(W, a) IN
           /\ V.rec = [W.rec EXCEPT ![a] = Begun(@)] /\ V.queue = W.queue
           /\ IsWorld(V) /\ (Books(W) => Books(V))
           /\ ~IsFull(Table(W, a), Key[a]) =>
                 /\ AllGrow(W, V) /\ DepthOf(a) \in DOMAIN V.tables
                 /\ HasRoom(V.tables[DepthOf(a)], SlotOf(V.tables[DepthOf(a)], Key[a]))
<1> DEFINE q == Begun(W.rec[a])
<1>1. W.rec \in [Agents -> Recs] /\ W.rec[a] \in Recs /\ Held(W.rec[a], TRUE) \in Recs /\ Held(W.rec[a], TRUE).hold = TRUE
  BY HeldIs DEF IsWorld
<1>2. q \in Recs /\ q.hold = TRUE
  <2> DEFINE r == Held(W.rec[a], TRUE)
  <2>1. q = Start(r)
    BY DEF Begun
  <2> HIDE DEF q, r
  <2> QED
    BY <1>1, <2>1, ZeroAnswers DEF Start, Recs, r
<1>3. Started(W, a) = Put(Reserved(W, a), a, q)
  <2>1. Reserved(W, a).rec = [W.rec EXCEPT ![a] = Held(@, TRUE)]
    BY ReservedIs
  <2>2. Reserved(W, a).rec[a] = Held(W.rec[a], TRUE)
    BY <1>1, <2>1
  <2> QED
    BY <2>2 DEF Started, Begun
<1> DEFINE V == Put(Reserved(W, a), a, q)
<1> HIDE DEF q
<1>4. /\ V.rec = [W.rec EXCEPT ![a] = q] /\ V.queue = W.queue
      /\ IsWorld(V) /\ (Books(W) => Books(V))
      /\ ~IsFull(Table(W, a), Key[a]) =>
            /\ AllGrow(W, V) /\ DepthOf(a) \in DOMAIN V.tables
            /\ HasRoom(V.tables[DepthOf(a)], SlotOf(V.tables[DepthOf(a)], Key[a]))
  BY <1>2, SlotTaken
<1>5. V.rec = [W.rec EXCEPT ![a] = Begun(@)]
  BY <1>4 DEF q
<1> HIDE DEF V
<1> QED
  BY <1>3, <1>4, <1>5 DEF V

LEMMA FailedStartIs ==
    ASSUME config \in Configs, NEW W, IsWorld(W), NEW a \in Agents, ~W.rec[a].hold
    PROVE  LET V == FailedStart(W, a) IN
           /\ V.rec = [W.rec EXCEPT ![a] = Failed(@)] /\ V.queue = W.queue
           /\ IsWorld(V) /\ (Books(W) => Books(V))
           /\ ~IsFull(Table(W, a), Key[a]) => AllGrow(W, V)
<1> DEFINE T == Reserved(W, a)
           U == Released(T, a)
           V == FailedStart(W, a)
           r == Held(W.rec[a], FALSE)
           q == Fail(r)
<1>1. /\ T.rec = [W.rec EXCEPT ![a] = Held(@, TRUE)] /\ T.queue = W.queue
      /\ IsWorld(T) /\ (Books(W) => Books(T))
      /\ ~IsFull(Table(W, a), Key[a]) => AllGrow(W, T)
  BY ReservedIs
<1>2. /\ U.rec = [T.rec EXCEPT ![a] = Held(@, FALSE)] /\ U.queue = T.queue
      /\ IsWorld(U) /\ (Books(T) => Books(U)) /\ AllGrow(T, U)
  BY <1>1, ReleasedIs
<1>3. W.rec \in [Agents -> Recs] /\ W.rec[a] \in Recs /\ W.rec[a].hold = FALSE /\ r = W.rec[a]
  <2>1. W.rec \in [Agents -> Recs] /\ W.rec[a] \in Recs /\ W.rec[a].hold = FALSE
    BY DEF IsWorld, Recs
  <2> QED
    BY <2>1, HeldIs
<1>4. U.rec[a] = r /\ U.rec = [W.rec EXCEPT ![a] = r]
  <2>1. Held(Held(W.rec[a], TRUE), FALSE) = W.rec[a]
    BY <1>3 DEF Held, Recs
  <2> HIDE DEF U, T, r
  <2> QED
    BY <1>1, <1>2, <1>3, <2>1
<1>5. V = [rec |-> [U.rec EXCEPT ![a] = q], queue |-> U.queue, tables |-> U.tables]
  <2>1. V = Put(U, a, q)
    BY <1>4 DEF FailedStart
  <2>2. U = [rec |-> U.rec, queue |-> U.queue, tables |-> U.tables]
    BY <1>2 DEF IsWorld
  <2> HIDE DEF U, V, q
  <2> QED
    BY <2>1, <2>2, PutIs
<1>6. q \in Recs /\ q.hold = FALSE
  <2> DEFINE p == [r EXCEPT !.status = "error", !.started = TRUE, !.bound = FALSE]
  <2> HIDE DEF r
  <2>1. p \in Recs /\ p.hold = FALSE
    BY <1>3 DEF Recs
  <2>2. q = Open(p, 0)
    BY DEF Fail
  <2> HIDE DEF p, q
  <2> QED
    BY <2>1, <2>2, ZeroAnswers DEF Open, Recs
<1> HIDE DEF T, U, V, r, q
<1>7. /\ V = [rec |-> V.rec, queue |-> V.queue, tables |-> U.tables] /\ V.rec = [U.rec EXCEPT ![a] = q]
      /\ V.queue = U.queue /\ V.tables = U.tables
  BY <1>5
<1>8. V.rec \in [Agents -> Recs] /\ V.rec = [W.rec EXCEPT ![a] = q] /\ \A b \in Agents : V.rec[b].hold = U.rec[b].hold
  BY <1>2, <1>3, <1>4, <1>6, <1>7 DEF IsWorld
<1>9. IsWorld(V) /\ (Books(U) => Books(V))
  BY <1>2, <1>7, <1>8, Alike DEF IsWorld
<1>10. AllGrow(W, T) => AllGrow(W, V)
  <2>1. AllGrow(T, V)
    BY <1>2, <1>7 DEF AllGrow
  <2> QED
    BY <2>1, AllGrowOn
<1>11. V.rec = [W.rec EXCEPT ![a] = Failed(@)]
  BY <1>8 DEF q, r, Failed
<1> QED
  BY <1>1, <1>2, <1>7, <1>9, <1>10, <1>11 DEF V

\* The slot of a record is full.
Packed(V, a) ==
    LET t == V.tables[DepthOf(a)] IN DepthOf(a) \in DOMAIN V.tables /\ IsTight(t, SlotOf(t, Key[a]))
AllFill(W, V) == \A d \in DOMAIN W.tables : d \in DOMAIN V.tables /\ Fills(W.tables[d], V.tables[d])

LEMMA PackedIs ==
    ASSUME config \in Configs, NEW W, IsWorld(W), NEW a \in Agents
    PROVE  IsFull(Table(W, a), Key[a]) <=> Packed(W, a)
<1>1. IsTable(Table(W, a)) /\ (IsFull(Table(W, a), Key[a]) <=> IsTight(Table(W, a), SlotOf(Table(W, a), Key[a])))
  BY TableIs, FullIs, KeyIs
<1>2. CASE DepthOf(a) \in DOMAIN W.tables
  BY <1>1, <1>2 DEF Table, Packed
<1>3. CASE DepthOf(a) \notin DOMAIN W.tables
  <2> DEFINE t == NewTable(config)
  <2>1. IsTable(t) /\ Counts(t, {}) /\ Table(W, a) = t
    BY <1>3, NewTableIs DEF Table
  <2> HIDE DEF t
  <2>2. ASSUME NEW s \in DOMAIN t.limit PROVE t.running[s] = 0 /\ t.limit[s] \in Nat \ {0}
    <3>1. Cardinality(Serves(t, {}, s)) = 0
      BY NoneServed
    <3> QED
      BY <2>1, <3>1 DEF Counts, IsTable
  <2>3. ASSUME NEW s PROVE ~IsTight(t, s)
    <3> SUFFICES ASSUME s \in DOMAIN t.limit PROVE ~(t.running[s] >= t.limit[s])
      BY DEF IsTight
    <3> QED
      BY <2>2
  <2> QED
    BY <1>1, <1>3, <2>1, <2>3 DEF Packed
<1> QED
  BY <1>2, <1>3

LEMMA PackedOn ==
    ASSUME NEW U, NEW V, NEW a \in Agents, AllFill(U, V), Packed(U, a) PROVE Packed(V, a)
<1>1. Fills(U.tables[DepthOf(a)], V.tables[DepthOf(a)]) /\ DepthOf(a) \in DOMAIN V.tables
  BY DEF AllFill, Packed
<1> QED
  BY <1>1, KeyIs DEF Fills, Packed

LEMMA FillsSame == ASSUME NEW W, NEW V, V.tables = W.tables PROVE AllFill(W, V)
BY DEF AllFill, Fills

LEMMA AllFillOn == ASSUME NEW U, NEW V, NEW W, AllFill(U, V), AllFill(V, W) PROVE AllFill(U, W)
BY DEF AllFill, Fills

\* One table becomes another that is fuller.
LEMMA TableFills ==
    ASSUME NEW W, NEW a \in Agents, NEW t, Fills(Table(W, a), t), NEW V, V.tables = WithTables(W, a, t)
    PROVE  AllFill(W, V)
<1> SUFFICES ASSUME NEW e \in DOMAIN W.tables PROVE e \in DOMAIN V.tables /\ Fills(W.tables[e], V.tables[e])
  BY DEF AllFill
<1>1. /\ DOMAIN V.tables = DOMAIN W.tables \cup {DepthOf(a)} /\ V.tables[DepthOf(a)] = t
      /\ e # DepthOf(a) => V.tables[e] = W.tables[e]
  BY DEF WithTables
<1>2. CASE e = DepthOf(a)
  BY <1>1, <1>2 DEF Table
<1>3. CASE e # DepthOf(a)
  BY <1>1, <1>3 DEF Fills
<1> QED
  BY <1>2, <1>3

LEMMA ReservedFills ==
    ASSUME config \in Configs, NEW W, IsWorld(W), NEW a \in Agents
    PROVE  /\ Reserved(W, a).tables = WithTables(W, a, Reserve(Table(W, a), Key[a]))
           /\ AllFill(W, Reserved(W, a))
<1> DEFINE u == Reserve(Table(W, a), Key[a])
           X == WithTable(W, a, u)
           V == Reserved(W, a)
<1>1. Fills(Table(W, a), u)
  BY TableIs, ReserveFills
<1>2. X = [rec |-> W.rec, queue |-> W.queue, tables |-> WithTables(W, a, u)]
  BY WithTableIs
<1> DEFINE q == [W.rec[a] EXCEPT !.hold = TRUE]
<1>3. V = Put(X, a, q)
  BY DEF Reserved
<1> HIDE DEF X, V, u, q
<1>4. V.tables = WithTables(W, a, u)
  BY <1>2, <1>3, PutIs
<1>5. AllFill(W, V)
  BY <1>1, <1>4, TableFills
<1> QED
  BY <1>4, <1>5 DEF V, u

LEMMA StartedFills ==
    ASSUME config \in Configs, NEW W, IsWorld(W), NEW a \in Agents, NEW q
    PROVE  LET V == Put(Reserved(W, a), a, q) IN AllFill(W, V)
<1> DEFINE T == Reserved(W, a)
           V == Put(T, a, q)
<1>1. AllFill(W, T)
  BY ReservedFills
<1>2. V.tables = T.tables
  BY DEF Put
<1> HIDE DEF T, V
<1>3. AllFill(T, V)
  BY <1>2, FillsSame
<1> QED
  BY <1>1, <1>3, AllFillOn DEF V, T

LEMMA FailedStartFills ==
    ASSUME config \in Configs, NEW W, IsWorld(W), NEW a \in Agents, ~W.rec[a].hold
    PROVE  AllFill(W, FailedStart(W, a))
<1> DEFINE t == Table(W, a)
           u == Reserve(t, Key[a])
           w == Release(u, Key[a])
           T == Reserved(W, a)
           U == Released(T, a)
           V == FailedStart(W, a)
           d == DepthOf(a)
<1>1. IsWorld(T) /\ T.rec[a].hold = TRUE
  BY ReservedIs
<1>2. T.tables = WithTables(W, a, u)
  BY ReservedFills
<1>3. IsTable(t) /\ Fills(t, w)
  BY TableIs, ReturnFills
<1> HIDE DEF T, u, t
<1>4. Table(T, a) = u
  BY <1>2 DEF Table, WithTables
<1>5. U.tables = WithTables(T, a, w)
  <2> DEFINE X == WithTable(T, a, w)
             q == [T.rec[a] EXCEPT !.hold = FALSE]
  <2>1. X = [rec |-> T.rec, queue |-> T.queue, tables |-> WithTables(T, a, w)]
    BY <1>1, WithTableIs
  <2>2. U = Put(X, a, q)
    BY <1>1, <1>4 DEF Released
  <2> HIDE DEF X, U, q, w
  <2> QED
    BY <2>1, <2>2, PutIs
<1>6. V.tables = U.tables
  BY DEF FailedStart, Put, T
<1> HIDE DEF U, V, w, d
<1>7. V.tables = WithTables(W, a, w)
  BY <1>2, <1>5, <1>6 DEF WithTables
<1> QED
  BY <1>3, <1>7, TableFills DEF V, t

-----------------------------------------------------------------------------
(* The queue *)

LEMMA RemovedIs ==
    ASSUME NEW q \in Seq(Agents), NEW k \in 1..Len(q)
    PROVE  LET R == RemoveAt(q, k) IN
           /\ R \in Seq(Agents) /\ Len(R) = Len(q) - 1
           /\ \A j \in 1..Len(R) : R[j] = IF j < k THEN q[j] ELSE q[j + 1]
<1> DEFINE A == SubSeq(q, 1, k - 1)
           B == SubSeq(q, k + 1, Len(q))
           R == RemoveAt(q, k)
<1>1. Len(q) \in Nat /\ k \in Nat /\ k >= 1 /\ k <= Len(q)
  BY LenProperties
<1>2. A \in Seq(Agents) /\ Len(A) = k - 1 /\ \A j \in 1..Len(A) : A[j] = q[j]
  <2>1. \A i \in 1..(k - 1) : i \in 1..Len(q)
    BY <1>1
  <2> QED
    BY <1>1, <2>1, SubSeqProperties
<1>3. B \in Seq(Agents) /\ Len(B) = Len(q) - k /\ \A j \in 1..Len(B) : B[j] = q[j + k]
  <2>1. \A i \in (k + 1)..Len(q) : i \in 1..Len(q)
    BY <1>1
  <2> QED
    BY <1>1, <2>1, SubSeqProperties
<1>4. R = A \o B
  BY DEF RemoveAt
<1> HIDE DEF A, B, R
<1>5. R \in Seq(Agents) /\ Len(R) = Len(A) + Len(B)
  BY <1>2, <1>3, <1>4, ConcatProperties
<1>6. \A j \in 1..Len(R) : R[j] = IF j <= Len(A) THEN A[j] ELSE B[j - Len(A)]
  BY <1>2, <1>3, <1>4, ConcatProperties
<1>7. ASSUME NEW j \in 1..Len(R) PROVE R[j] = IF j < k THEN q[j] ELSE q[j + 1]
  <2>1. CASE j < k
    <3>1. j <= Len(A) /\ j \in 1..Len(A)
      BY <1>1, <1>2, <2>1
    <3> QED
      BY <1>2, <1>6, <2>1, <3>1
  <2>2. CASE ~(j < k)
    <3>1. ~(j <= Len(A)) /\ j - Len(A) \in 1..Len(B) /\ (j - Len(A)) + k = j + 1
      BY <1>1, <1>2, <1>3, <1>5, <2>2, SMTT(30)
    <3> QED
      BY <1>3, <1>6, <2>2, <3>1
  <2> QED
    BY <2>1, <2>2
<1> QED
  BY <1>1, <1>2, <1>3, <1>5, <1>7 DEF R

LEMMA WithoutIs ==
    ASSUME NEW q \in Seq(Agents), IsInjective(q), NEW a \in Agents
    PROVE  LET R == Without(q, a) IN
           /\ R \in Seq(Agents) /\ IsInjective(R)
           /\ \A j \in DOMAIN R : R[j] # a /\ \E i \in DOMAIN q : R[j] = q[i]
<1>1. CASE ~\E i \in DOMAIN q : q[i] = a
  BY <1>1 DEF Without
<1>2. CASE \E i \in DOMAIN q : q[i] = a
  <2> DEFINE k == CHOOSE i \in DOMAIN q : q[i] = a
             R == RemoveAt(q, k)
  <2>1. k \in DOMAIN q /\ q[k] = a
    BY <1>2
  <2>2. DOMAIN q = 1..Len(q) /\ Len(q) \in Nat
    BY LenProperties
  <2>3. Without(q, a) = R
    BY <1>2 DEF Without
  <2> HIDE DEF k, R
  <2>4. /\ R \in Seq(Agents) /\ Len(R) = Len(q) - 1
        /\ \A j \in 1..Len(R) : R[j] = IF j < k THEN q[j] ELSE q[j + 1]
    BY <2>1, <2>2, RemovedIs DEF R
  <2>5. DOMAIN R = 1..Len(R)
    BY <2>4, LenProperties
  <2> DEFINE at(j) == IF j < k THEN j ELSE j + 1
  <2>6. ASSUME NEW j \in DOMAIN R PROVE at(j) \in DOMAIN q /\ R[j] = q[at(j)] /\ at(j) # k /\ j \in Nat
    <3>1. j \in 1..Len(R) /\ k \in 1..Len(q)
      BY <2>1, <2>2, <2>5
    <3>2. at(j) \in 1..Len(q) /\ at(j) # k /\ j \in Nat
      BY <2>2, <2>4, <3>1
    <3> QED
      BY <2>2, <2>4, <3>1, <3>2
  <2>7. \A j, l \in DOMAIN R : at(j) = at(l) => j = l
    BY <2>1, <2>2, <2>6
  <2> HIDE DEF at
  <2>8. IsInjective(R)
    BY <2>6, <2>7 DEF IsInjective
  <2>9. \A j \in DOMAIN R : R[j] # a /\ \E i \in DOMAIN q : R[j] = q[i]
    BY <2>1, <2>6 DEF IsInjective
  <2> QED
    BY <2>3, <2>4, <2>8, <2>9
<1> QED
  BY <1>1, <1>2

\* Whoever is queued is in the queue, and the manager has its record.
Lined(W, A) == \A a \in Agents : W.rec[a].status = "queued" => a \in A /\ \E i \in DOMAIN W.queue : W.queue[i] = a

LEMMA WithoutKeeps ==
    ASSUME NEW q \in Seq(Agents), NEW a \in Agents, NEW i \in DOMAIN q, q[i] # a
    PROVE  \E j \in DOMAIN Without(q, a) : Without(q, a)[j] = q[i]
<1>1. CASE ~\E j \in DOMAIN q : q[j] = a
  BY <1>1 DEF Without
<1>2. CASE \E j \in DOMAIN q : q[j] = a
  <2> DEFINE k == CHOOSE j \in DOMAIN q : q[j] = a
             R == RemoveAt(q, k)
             l == IF i < k THEN i ELSE i - 1
  <2>1. k \in DOMAIN q /\ q[k] = a
    BY <1>2
  <2>2. DOMAIN q = 1..Len(q) /\ Len(q) \in Nat
    BY LenProperties
  <2>3. Without(q, a) = R
    BY <1>2 DEF Without
  <2> HIDE DEF k, R
  <2>4. /\ R \in Seq(Agents) /\ Len(R) = Len(q) - 1
        /\ \A j \in 1..Len(R) : R[j] = IF j < k THEN q[j] ELSE q[j + 1]
    BY <2>1, <2>2, RemovedIs DEF R
  <2>5. i \in 1..Len(q) /\ k \in 1..Len(q) /\ i # k
    BY <2>1, <2>2
  <2>6. l \in 1..Len(R) /\ (IF l < k THEN l ELSE l + 1) = i
    BY <2>2, <2>4, <2>5
  <2> HIDE DEF l
  <2>7. R[l] = q[i]
    BY <2>4, <2>6
  <2> QED
    BY <2>3, <2>4, <2>6, <2>7, LenProperties
<1> QED
  BY <1>1, <1>2

\* The slot of a record has room for those who hold it.
Seated(V, a) ==
    LET t == V.tables[DepthOf(a)] IN DepthOf(a) \in DOMAIN V.tables /\ HasRoom(t, SlotOf(t, Key[a]))

LEMMA SeatedOn ==
    ASSUME NEW U, NEW V, NEW a \in Agents, AllGrow(U, V), Seated(U, a) PROVE Seated(V, a)
<1>1. Grows(U.tables[DepthOf(a)], V.tables[DepthOf(a)]) /\ DepthOf(a) \in DOMAIN V.tables
  BY DEF AllGrow, Seated
<1> QED
  BY <1>1, KeyIs DEF Grows, Seated

\* What the queue, drained from W, has made of it.
QueueIs(V) == \A i \in DOMAIN V.queue : V.rec[V.queue[i]].status = "queued"
NewOnes(W) == \A a \in Agents : W.rec[a].status = "queued" => ~W.rec[a].hold
DrainsTo(W, V) ==
    /\ IsWorld(V) /\ QueueIs(V)
    /\ \A a \in Agents : MayDrain(W.rec[a], V.rec[a]) /\ (V.rec[a] # W.rec[a] => a \in agents)
    /\ Books(W) => Books(V)
    /\ AllGrow(W, V)
    /\ \A a \in Agents : V.rec[a].hold /\ ~W.rec[a].hold => Seated(V, a)

LEMMA StartedFields ==
    ASSUME NEW r \in Recs
    PROVE  /\ Begun(r).hold = TRUE /\ Begun(r).status = "running"
           /\ Failed(r).hold = FALSE /\ Failed(r).status = "error"
<1>1. Begun(r).hold = TRUE /\ Begun(r).status = "running"
  BY DEF Begun, Start, Held, Recs
<1>2. Failed(r).hold = FALSE /\ Failed(r).status = "error"
  <2> DEFINE p == [Held(r, FALSE) EXCEPT !.status = "error", !.started = TRUE, !.bound = FALSE]
  <2>1. p \in Recs /\ p.hold = FALSE /\ p.status = "error"
    BY DEF Held, Recs
  <2>2. Failed(r) = Open(p, 0)
    BY DEF Failed, Fail
  <2> HIDE DEF p
  <2> QED
    BY <2>1, <2>2 DEF Open, Recs
<1> QED
  BY <1>1, <1>2

LEMMA DrainIs ==
    ASSUME config \in Configs, NEW W, IsWorld(W), NewOnes(W), NEW V, DrainsTo(W, V), NEW a \in Agents
    PROVE  DrainsTo(W, Drain(V, a))
<1> DEFINE S == IF a \in may.broken THEN FailedStart(V, a) ELSE Started(V, a)
           U == Drain(V, a)
           Skips == a \notin agents \/ V.rec[a].status # "queued" \/ IsFull(Table(V, a), Key[a])
<1>1. CASE Skips
  <2>1. U = V
    BY <1>1 DEF Drain
  <2> QED
    BY <2>1
<1>2. CASE ~Skips
  <2>1. IsWorld(V) /\ W.rec \in [Agents -> Recs] /\ V.rec \in [Agents -> Recs]
    BY DEF DrainsTo, IsWorld
  <2>2. V.rec[a] = W.rec[a] /\ W.rec[a].status = "queued" /\ ~V.rec[a].hold /\ a \in agents
    BY <1>2, <2>1, StartedFields DEF DrainsTo, MayDrain, NewOnes
  <2> DEFINE q == IF a \in may.broken THEN Failed(V.rec[a]) ELSE Begun(V.rec[a])
  <2>3. /\ S.rec = [V.rec EXCEPT ![a] = q] /\ S.queue = V.queue
        /\ IsWorld(S) /\ (Books(V) => Books(S)) /\ AllGrow(V, S)
        /\ a \notin may.broken => Seated(S, a)
    <3> HIDE DEF Skips
    <3>1. CASE a \in may.broken
      BY <1>2, <2>1, <2>2, <3>1, FailedStartIs DEF Skips
    <3>2. CASE a \notin may.broken
      BY <1>2, <2>1, <2>2, <3>2, StartedIs DEF Skips, Seated
    <3> QED
      BY <3>1, <3>2
  <2>4. U = [S EXCEPT !.queue = Without(@, a)]
    BY <1>2 DEF Drain
  <2>5. /\ MayDrain(W.rec[a], q) /\ q \in Recs /\ q.status # "queued"
        /\ a \in may.broken => ~q.hold
    <3>1. q \in {Begun(W.rec[a]), Failed(W.rec[a])} /\ (a \in may.broken => q = Failed(W.rec[a]))
      BY <2>2
    <3>2. q \in Recs
      <4>1. S.rec[a] = q
        BY <2>1, <2>3
      <4> QED
        BY <2>3, <4>1 DEF IsWorld
    <3> QED
      BY <2>1, <2>2, <3>1, <3>2, StartedFields DEF MayDrain
  <2> HIDE DEF S, U, q, Skips
  <2>6. U = [rec |-> S.rec, queue |-> Without(V.queue, a), tables |-> S.tables]
    BY <2>3, <2>4 DEF IsWorld
  <2>7. /\ U.rec = S.rec /\ U.queue = Without(V.queue, a) /\ U.tables = S.tables
        /\ U = [rec |-> U.rec, queue |-> U.queue, tables |-> S.tables]
    BY <2>6
  <2>8. /\ Without(V.queue, a) \in Seq(Agents) /\ IsInjective(Without(V.queue, a))
        /\ \A j \in DOMAIN U.queue : U.queue[j] # a /\ \E i \in DOMAIN V.queue : U.queue[j] = V.queue[i]
    BY <2>1, <2>7, WithoutIs DEF IsWorld
  <2>9. IsWorld(U) /\ (Books(S) => Books(U))
    BY <2>3, <2>7, <2>8, Alike DEF IsWorld
  <2>10. QueueIs(U)
    <3>1. ASSUME NEW j \in DOMAIN U.queue PROVE U.rec[U.queue[j]].status = "queued"
      <4>1. PICK i \in DOMAIN V.queue : U.queue[j] = V.queue[i]
        BY <2>8
      <4>2. U.queue[j] \in Agents /\ U.queue[j] # a
        <5>1. V.queue[i] \in Agents
          BY <2>1, <4>1, ElementOfSeq, LenProperties DEF IsWorld
        <5> QED
          BY <2>8, <4>1, <5>1
      <4>3. U.rec[U.queue[j]] = V.rec[V.queue[i]]
        BY <2>1, <2>3, <2>7, <4>1, <4>2
      <4> QED
        BY <4>1, <4>3 DEF DrainsTo, QueueIs
    <3> QED
      BY <3>1 DEF QueueIs
  <2>11. ASSUME NEW b \in Agents PROVE MayDrain(W.rec[b], U.rec[b]) /\ (U.rec[b] # W.rec[b] => b \in agents)
    <3>1. CASE b = a
      BY <2>1, <2>2, <2>3, <2>5, <2>7, <3>1
    <3>2. CASE b # a
      BY <2>1, <2>3, <2>7, <3>2 DEF DrainsTo
    <3> QED
      BY <3>1, <3>2
  <2>12. AllGrow(W, U)
    <3>1. AllGrow(V, U)
      BY <2>3, <2>7 DEF AllGrow
    <3> QED
      BY <3>1, AllGrowOn DEF DrainsTo
  <2>13. ASSUME NEW b \in Agents, U.rec[b].hold, ~W.rec[b].hold PROVE Seated(U, b)
    <3>1. Seated(S, b)
      <4>1. CASE b = a
        BY <2>1, <2>3, <2>5, <2>7, <2>13, <4>1
      <4>2. CASE b # a
        BY <2>1, <2>3, <2>7, <2>13, <4>2, SeatedOn DEF DrainsTo
      <4> QED
        BY <4>1, <4>2
    <3> QED
      BY <2>7, <3>1 DEF Seated
  <2>14. Books(W) => Books(U)
    BY <2>3, <2>9 DEF DrainsTo
  <2> QED
    BY <2>9, <2>10, <2>11, <2>12, <2>13, <2>14 DEF DrainsTo, U
<1> QED
  BY <1>1, <1>2

\* Draining takes the records that are queued and have room, and fills their slots.
LEMMA DrainFills ==
    ASSUME config \in Configs, NEW W, IsWorld(W), NewOnes(W), NEW V, DrainsTo(W, V), Lined(V, agents), NEW a \in Agents
    PROVE  LET U == Drain(V, a) IN
           /\ Lined(U, agents) /\ AllFill(V, U)
           /\ U.rec[a].status = "queued" => Packed(U, a)
           /\ \A b \in Agents : U.rec[b].status = "queued" => V.rec[b].status = "queued"
<1> DEFINE S == IF a \in may.broken THEN FailedStart(V, a) ELSE Started(V, a)
           U == Drain(V, a)
           Skips == a \notin agents \/ V.rec[a].status # "queued" \/ IsFull(Table(V, a), Key[a])
<1>0. IsWorld(V) /\ V.rec \in [Agents -> Recs] /\ W.rec \in [Agents -> Recs]
  BY DEF DrainsTo, IsWorld
<1>1. CASE Skips
  <2>1. U = V
    BY <1>1 DEF Drain
  <2>2. V.rec[a].status = "queued" => Packed(V, a)
    BY <1>0, <1>1, PackedIs DEF Lined
  <2> QED
    BY <2>1, <2>2, FillsSame
<1>2. CASE ~Skips
  <2>1. ~V.rec[a].hold
    BY <1>0, <1>2, StartedFields DEF DrainsTo, MayDrain, NewOnes
  <2> DEFINE q == IF a \in may.broken THEN Failed(V.rec[a]) ELSE Begun(V.rec[a])
  <2>2. S.rec = [V.rec EXCEPT ![a] = q] /\ S.queue = V.queue /\ IsWorld(S) /\ AllFill(V, S)
    <3> HIDE DEF Skips
    <3>1. CASE a \in may.broken
      BY <1>0, <2>1, <3>1, FailedStartIs, FailedStartFills
    <3>2. CASE a \notin may.broken
      <4>1. AllFill(V, Started(V, a))
        BY <1>0, StartedFills DEF Started
      <4> QED
        BY <1>0, <2>1, <3>2, <4>1, StartedIs
    <3> QED
      BY <3>1, <3>2
  <2>3. U = [S EXCEPT !.queue = Without(@, a)]
    BY <1>2 DEF Drain
  <2>4. q.status # "queued"
    BY <1>0, StartedFields
  <2> HIDE DEF S, U, q, Skips
  <2>5. U = [rec |-> S.rec, queue |-> Without(V.queue, a), tables |-> S.tables]
    BY <2>2, <2>3 DEF IsWorld
  <2>6. U.rec = S.rec /\ U.queue = Without(V.queue, a) /\ U.tables = S.tables
    BY <2>5
  <2>7. \A b \in Agents : U.rec[b] = IF b = a THEN q ELSE V.rec[b]
    BY <1>0, <2>2, <2>6
  <2>8. ASSUME NEW b \in Agents, U.rec[b].status = "queued"
        PROVE  b \in agents /\ \E j \in DOMAIN U.queue : U.queue[j] = b
    <3>1. b # a /\ V.rec[b].status = "queued"
      BY <2>4, <2>7, <2>8
    <3>2. b \in agents
      BY <3>1 DEF Lined
    <3>3. PICK i \in DOMAIN V.queue : V.queue[i] = b
      BY <3>1 DEF Lined
    <3>4. V.queue \in Seq(Agents)
      BY <1>0 DEF IsWorld
    <3> QED
      BY <2>6, <3>1, <3>2, <3>3, <3>4, WithoutKeeps
  <2>9. AllFill(S, U)
    BY <2>6, FillsSame
  <2>10. AllFill(V, U)
    BY <2>2, <2>9, AllFillOn
  <2> QED
    BY <2>4, <2>7, <2>8, <2>10 DEF Lined, U
<1> QED
  BY <1>1, <1>2

LEMMA Less == IsWellFoundedOn({ss \in Nat \X Nat : ss[1] < ss[2]}, Nat)
  BY NatLessThanWellFounded DEF OpToRel

\* A set of numbers that is not empty has a least one.
LEMMA Least ==
    ASSUME NEW T, T \subseteq Nat, T # {}
    PROVE  \E x \in T : \A y \in T : x <= y
<1> DEFINE R == {ss \in Nat \X Nat : ss[1] < ss[2]}
<1>1. \A x, y \in Nat : y < x => <<y, x>> \in R
  OBVIOUS
<1>2. PICK x \in T : \A y \in T : ~(<<y, x>> \in R)
  BY Less, WFMin
<1>3. \A y \in T : ~(y < x)
  BY <1>1, <1>2
<1> QED
  BY <1>3

\* The worlds that draining passes through, from the first to the n-th record of the queue.
Passes(W, f, n) == f = [i \in 0..n |-> IF i = 0 THEN W ELSE Drain(f[i - 1], W.queue[i])]

LEMMA Passing ==
    ASSUME NEW W, NEW k \in Nat
    PROVE  \E f : Passes(W, f, k)
<1> DEFINE T == {n \in Nat : ~\E f : Passes(W, f, n)}
<1> SUFFICES ASSUME T # {} PROVE FALSE
  OBVIOUS
<1>1. PICK n \in T : \A m \in T : n <= m
  <2> HIDE DEF T
  <2>1. T \subseteq Nat
    BY DEF T
  <2> QED
    BY <2>1, Least
<1>2. n \in Nat /\ ~\E f : Passes(W, f, n)
  BY <1>1
<1>3. n # 0
  <2>1. Passes(W, [i \in 0..0 |-> W], 0)
    BY DEF Passes
  <2> QED
    BY <1>2, <2>1
<1>4. n - 1 \in Nat /\ ~(n <= n - 1)
  BY <1>2, <1>3
<1>5. PICK f : Passes(W, f, n - 1)
  BY <1>1, <1>4
<1> DEFINE g == [i \in 0..n |-> IF i = n THEN Drain(f[n - 1], W.queue[n]) ELSE f[i]]
<1>6. ASSUME NEW i \in 0..n PROVE g[i] = IF i = 0 THEN W ELSE Drain(g[i - 1], W.queue[i])
  <2>1. CASE i = n
    <3>1. g[n - 1] = f[n - 1]
      BY <1>2, <1>4
    <3> QED
      BY <1>3, <2>1, <3>1
  <2>2. CASE i # n
    <3>1. i \in 0..(n - 1) /\ g[i] = f[i]
      BY <1>2, <2>2
    <3>2. f[i] = IF i = 0 THEN W ELSE Drain(f[i - 1], W.queue[i])
      BY <1>5, <3>1 DEF Passes
    <3>3. i # 0 => g[i - 1] = f[i - 1]
      BY <1>2, <3>1
    <3> HIDE DEF g
    <3> QED
      BY <3>1, <3>2, <3>3
  <2> QED
    BY <2>1, <2>2
<1>7. g = [i \in 0..n |-> g[i]]
  OBVIOUS
<1> HIDE DEF g
<1>8. Passes(W, g, n)
  BY <1>6, <1>7 DEF Passes
<1> QED
  BY <1>2, <1>8

LEMMA DrainedIs ==
    ASSUME config \in Configs, NEW W, IsWorld(W), NewOnes(W), QueueIs(W)
    PROVE  DrainsTo(W, Drained(W))
<1> DEFINE L == Len(W.queue)
           after == CHOOSE f : f = [n \in 0..L |-> IF n = 0 THEN W ELSE Drain(f[n - 1], W.queue[n])]
<1>1. L \in Nat /\ \A n \in 1..L : W.queue[n] \in Agents
  BY LenProperties, ElementOfSeq DEF IsWorld
<1>2. Passes(W, after, L)
  <2>1. \E f : Passes(W, f, L)
    BY <1>1, Passing
  <2> QED
    BY <2>1 DEF Passes
<1>3. Drained(W) = after[L]
  BY DEF Drained
<1> HIDE DEF after, L
<1>4. \A n \in 0..L : after[n] = IF n = 0 THEN W ELSE Drain(after[n - 1], W.queue[n])
  BY <1>2 DEF Passes
<1>5. DrainsTo(W, W)
  BY GrowsSame DEF DrainsTo, MayDrain, AllGrow
<1> DEFINE T == {n \in 0..L : ~DrainsTo(W, after[n])}
<1>6. T = {}
  <2> SUFFICES ASSUME T # {} PROVE FALSE
    OBVIOUS
  <2>1. PICK n \in T : \A m \in T : n <= m
    <3>1. T \subseteq Nat
      BY <1>1
    <3> HIDE DEF T
    <3> QED
      BY <3>1, Least
  <2>2. n \in 0..L /\ ~DrainsTo(W, after[n])
    BY <2>1
  <2>3. n # 0
    BY <1>4, <1>5, <2>2
  <2>4. n - 1 \in 0..L /\ ~(n <= n - 1) /\ n \in 1..L
    BY <1>1, <2>2, <2>3
  <2>5. DrainsTo(W, after[n - 1])
    BY <2>1, <2>4
  <2>6. after[n] = Drain(after[n - 1], W.queue[n]) /\ W.queue[n] \in Agents
    BY <1>1, <1>4, <2>3, <2>4
  <2> QED
    BY <2>2, <2>5, <2>6, DrainIs
<1>7. L \in 0..L
  BY <1>1
<1> QED
  BY <1>3, <1>6, <1>7

\* Who is still queued then waits for a slot that is full.
Blocked(W) == \A a \in Agents : W.rec[a].status = "queued" => Packed(W, a)

LEMMA DrainedFull ==
    ASSUME config \in Configs, NEW W, IsWorld(W), NewOnes(W), QueueIs(W), Lined(W, agents)
    PROVE  Lined(Drained(W), agents) /\ Blocked(Drained(W))
<1> DEFINE L == Len(W.queue)
           after == CHOOSE f : f = [n \in 0..L |-> IF n = 0 THEN W ELSE Drain(f[n - 1], W.queue[n])]
<1>1. L \in Nat /\ DOMAIN W.queue = 1..L /\ \A n \in 1..L : W.queue[n] \in Agents
  BY LenProperties, ElementOfSeq DEF IsWorld
<1>2. Passes(W, after, L)
  <2>1. \E f : Passes(W, f, L)
    BY <1>1, Passing
  <2> QED
    BY <2>1 DEF Passes
<1>3. Drained(W) = after[L]
  BY DEF Drained
<1> HIDE DEF after, L
<1>4. \A n \in 0..L : after[n] = IF n = 0 THEN W ELSE Drain(after[n - 1], W.queue[n])
  BY <1>2 DEF Passes
<1> DEFINE Done(n) == \A i \in 1..n : after[n].rec[W.queue[i]].status = "queued" => Packed(after[n], W.queue[i])
           Tidy(n) == DrainsTo(W, after[n]) /\ Lined(after[n], agents) /\ Done(n)
           T == {n \in 0..L : ~Tidy(n)}
<1>5. T = {}
  <2> SUFFICES ASSUME T # {} PROVE FALSE
    OBVIOUS
  <2>1. PICK n \in T : \A m \in T : n <= m
    <3>1. T \subseteq Nat
      BY <1>1
    <3> HIDE DEF T
    <3> QED
      BY <3>1, Least
  <2>2. n \in 0..L /\ ~Tidy(n)
    BY <2>1
  <2>3. n # 0
    <3>1. after[0] = W
      BY <1>1, <1>4
    <3>2. DrainsTo(W, W)
      BY GrowsSame DEF DrainsTo, MayDrain, AllGrow
    <3>3. \A i \in 1..0 : FALSE
      OBVIOUS
    <3>4. Tidy(0)
      BY <3>1, <3>2, <3>3
    <3> HIDE DEF Tidy
    <3> QED
      BY <2>2, <3>4
  <2>4. n - 1 \in 0..L /\ ~(n <= n - 1) /\ n \in 1..L
    BY <1>1, <2>2, <2>3
  <2>5. Tidy(n - 1)
    <3> HIDE DEF Tidy
    <3> QED
      BY <2>1, <2>4
  <2> DEFINE a == W.queue[n]
             V == after[n - 1]
             U == after[n]
  <2>6. U = Drain(V, a) /\ a \in Agents
    BY <1>1, <1>4, <2>3, <2>4
  <2>7. DrainsTo(W, V) /\ Lined(V, agents) /\ Done(n - 1)
    BY <2>5
  <2>8. \A i \in 1..(n - 1) : V.rec[W.queue[i]].status = "queued" => Packed(V, W.queue[i])
    BY <2>7
  <2> HIDE DEF V, U, a, Done
  <2>9. /\ Lined(U, agents) /\ AllFill(V, U)
        /\ U.rec[a].status = "queued" => Packed(U, a)
        /\ \A b \in Agents : U.rec[b].status = "queued" => V.rec[b].status = "queued"
    BY <2>6, <2>7, DrainFills
  <2>10. DrainsTo(W, U)
    BY <2>6, <2>7, DrainIs
  <2>11. ASSUME NEW i \in 1..n, U.rec[W.queue[i]].status = "queued" PROVE Packed(U, W.queue[i])
    <3>1. W.queue[i] \in Agents
      BY <1>1, <2>2
    <3>2. CASE i = n
      BY <2>9, <2>11, <3>2 DEF a
    <3>3. CASE i # n
      <4>1. i \in 1..(n - 1)
        BY <2>4, <3>3
      <4>2. Packed(V, W.queue[i])
        BY <2>8, <2>9, <2>11, <3>1, <4>1
      <4> QED
        BY <2>9, <3>1, <4>2, PackedOn
    <3> QED
      BY <3>2, <3>3
  <2>12. Done(n)
    BY <2>11 DEF Done, U
  <2> QED
    BY <2>2, <2>9, <2>10, <2>12 DEF U
<1>6. Tidy(L)
  <2>1. L \in 0..L
    BY <1>1
  <2> HIDE DEF Tidy
  <2> QED
    BY <1>5, <2>1
<1> DEFINE D == after[L]
<1>7. DrainsTo(W, D) /\ Lined(D, agents) /\ \A i \in 1..L : D.rec[W.queue[i]].status = "queued" => Packed(D, W.queue[i])
  BY <1>6
<1> HIDE DEF D
<1>8. ASSUME NEW b \in Agents, D.rec[b].status = "queued" PROVE Packed(D, b)
  <2>1. W.rec[b].status = "queued"
    <3>1. MayDrain(W.rec[b], D.rec[b]) /\ W.rec[b] \in Recs
      BY <1>7 DEF DrainsTo, IsWorld
    <3> QED
      BY <1>8, <3>1, StartedFields DEF MayDrain
  <2>2. PICK i \in DOMAIN W.queue : W.queue[i] = b
    BY <2>1 DEF Lined
  <2> QED
    BY <1>1, <1>7, <1>8, <2>2
<1> QED
  BY <1>3, <1>7, <1>8 DEF Blocked, D

LEMMA SettledIs ==
    ASSUME config \in Configs, NEW W, IsWorld(W), NewOnes(W), QueueIs(W), NEW a \in Agents, W.rec[a].status # "queued"
    PROVE  LET V == Settled(W, a) IN
           /\ IsWorld(V) /\ QueueIs(V) /\ V.rec[a] = Settle(W.rec[a])
           /\ \A b \in Agents \ {a} : /\ MayDrain(W.rec[b], V.rec[b]) /\ (V.rec[b] # W.rec[b] => b \in agents)
                                      /\ V.rec[b].hold /\ ~W.rec[b].hold => Seated(V, b)
           /\ Books(W) => Books(V)
           /\ Lined(W, agents) => Lined(V, agents) /\ Blocked(V)
<1> DEFINE e == [W.rec[a] EXCEPT !.run = "none", !.round = 0, !.vstop = FALSE]
           P == Put(W, a, e)
           F == Released(P, a)
           D == Drained(F)
           r == D.rec[a]
           s == [Open(r, r.result) EXCEPT !.bound = FALSE, !.settled = TRUE]
           V == Settled(W, a)
<1>0. W.rec \in [Agents -> Recs] /\ W.rec[a] \in Recs /\ W = [rec |-> W.rec, queue |-> W.queue, tables |-> W.tables]
  BY DEF IsWorld
<1>1. e \in Recs /\ e.hold = W.rec[a].hold /\ e.status = W.rec[a].status
  BY <1>0, ZeroAnswers DEF Recs
<1>2. Held(e, FALSE) = End(W.rec[a]) /\ Held(e, FALSE).status = e.status
  BY <1>0 DEF Held, End, Recs
<1> HIDE DEF e
<1>3. /\ P = [rec |-> P.rec, queue |-> W.queue, tables |-> W.tables] /\ P.rec = [W.rec EXCEPT ![a] = e]
      /\ P.queue = W.queue
  <2>1. P = [rec |-> [W.rec EXCEPT ![a] = e], queue |-> W.queue, tables |-> W.tables]
    BY <1>0, PutIs
  <2> HIDE DEF P
  <2> QED
    BY <2>1
<1> HIDE DEF P
<1>4. P.rec \in [Agents -> Recs] /\ \A b \in Agents : P.rec[b].hold = W.rec[b].hold
  BY <1>0, <1>1, <1>3
<1>5. IsWorld(P) /\ (Books(W) => Books(P))
  BY <1>3, <1>4, Alike DEF IsWorld
<1>6. /\ F.rec = [P.rec EXCEPT ![a] = Held(@, FALSE)] /\ F.queue = P.queue
      /\ IsWorld(F) /\ (Books(P) => Books(F))
  BY <1>5, ReleasedIs
<1> HIDE DEF F
<1>7. F.rec[a] = End(W.rec[a]) /\ F.rec[a].status # "queued" /\ \A b \in Agents \ {a} : F.rec[b] = W.rec[b]
  BY <1>0, <1>1, <1>2, <1>3, <1>6
<1>8. QueueIs(F) /\ NewOnes(F)
  <2>1. \A i \in DOMAIN F.queue : F.queue[i] \in Agents
    BY <1>6, ElementOfSeq, LenProperties DEF IsWorld
  <2>2. ASSUME NEW i \in DOMAIN F.queue PROVE F.rec[F.queue[i]].status = "queued"
    <3>1. F.queue[i] = W.queue[i] /\ W.rec[W.queue[i]].status = "queued"
      BY <1>3, <1>6, <2>2 DEF QueueIs
    <3> QED
      BY <1>7, <2>1, <2>2, <3>1
  <2> QED
    BY <1>7, <2>2 DEF QueueIs, NewOnes
<1>9. DrainsTo(F, D)
  BY <1>6, <1>8, DrainedIs
<1>9a. Lined(W, agents) => Lined(D, agents) /\ Blocked(D)
  <2>1. F.queue = W.queue /\ \A b \in Agents : F.rec[b].status = "queued" => W.rec[b].status = "queued"
    BY <1>3, <1>6, <1>7
  <2>2. Lined(W, agents) => Lined(F, agents)
    BY <2>1 DEF Lined
  <2> QED
    BY <1>6, <1>8, <2>2, DrainedFull
<1> HIDE DEF D
<1>10. D.rec[a] = End(W.rec[a])
  BY <1>7, <1>9 DEF DrainsTo, MayDrain
<1>11. End(W.rec[a]).result = W.rec[a].result /\ End(W.rec[a]) \in Recs /\ End(W.rec[a]).hold = FALSE
  BY <1>0, ZeroAnswers DEF End, Recs
<1>12. s = Settle(W.rec[a]) /\ s \in Recs /\ s.hold = FALSE /\ s.status = r.status
  <2>1. s = Settle(W.rec[a])
    BY <1>10, <1>11 DEF Settle
  <2>2. r \in Recs /\ r.hold = FALSE /\ r.result \in Answers
    BY <1>10, <1>11 DEF Recs
  <2> HIDE DEF r
  <2>3. Open(r, r.result) \in Recs /\ Open(r, r.result).hold = FALSE /\ Open(r, r.result).status = r.status
    BY <2>2 DEF Open, Recs
  <2>4. s \in Recs /\ s.hold = FALSE /\ s.status = r.status
    <3> DEFINE o == Open(r, r.result)
    <3> HIDE DEF o
    <3>1. o \in Recs /\ o.hold = FALSE /\ o.status = r.status
      BY <2>3 DEF o
    <3>2. s = [o EXCEPT !.bound = FALSE, !.settled = TRUE]
      BY DEF o
    <3> HIDE DEF s
    <3> QED
      BY <3>1, <3>2 DEF Recs
  <2> QED
    BY <2>1, <2>4
<1>13. /\ V = [rec |-> V.rec, queue |-> V.queue, tables |-> D.tables] /\ V.rec = [D.rec EXCEPT ![a] = s]
       /\ V.queue = D.queue /\ V.tables = D.tables
  <2>1. V = Put(D, a, s)
    BY DEF Settled, D, F, P, e
  <2>2. D = [rec |-> D.rec, queue |-> D.queue, tables |-> D.tables]
    BY <1>9 DEF DrainsTo, IsWorld
  <2> HIDE DEF V, s
  <2>3. V = [rec |-> [D.rec EXCEPT ![a] = s], queue |-> D.queue, tables |-> D.tables]
    BY <2>1, <2>2, PutIs
  <2> QED
    BY <2>3
<1> HIDE DEF V, s, r
<1>14. IsWorld(D) /\ D.rec \in [Agents -> Recs] /\ D.queue \in Seq(Agents) /\ IsInjective(D.queue)
  BY <1>9 DEF DrainsTo, IsWorld
<1>15. /\ V.rec \in [Agents -> Recs] /\ V.rec[a] = s /\ \A b \in Agents \ {a} : V.rec[b] = D.rec[b]
       /\ \A b \in Agents : V.rec[b].hold = D.rec[b].hold
  BY <1>10, <1>11, <1>12, <1>13, <1>14
<1>16. IsWorld(V) /\ (Books(D) => Books(V))
  BY <1>13, <1>14, <1>15, Alike
<1>17. QueueIs(V)
  <2>1. ASSUME NEW i \in DOMAIN V.queue PROVE V.rec[V.queue[i]].status = "queued"
    <3>1. D.rec[D.queue[i]].status = "queued" /\ D.queue[i] \in Agents
      BY <1>9, <1>13, <1>14, <2>1, ElementOfSeq, LenProperties DEF DrainsTo, QueueIs
    <3>2. D.queue[i] # a
      BY <1>7, <1>9, <1>10, <3>1
    <3> QED
      BY <1>13, <1>15, <3>1, <3>2
  <2> QED
    BY <2>1 DEF QueueIs
<1>18. ASSUME NEW b \in Agents \ {a}
       PROVE  /\ MayDrain(W.rec[b], V.rec[b]) /\ (V.rec[b] # W.rec[b] => b \in agents)
              /\ V.rec[b].hold /\ ~W.rec[b].hold => Seated(V, b)
  <2>1. V.rec[b] = D.rec[b] /\ F.rec[b] = W.rec[b]
    BY <1>7, <1>15
  <2>2. Seated(D, b) => Seated(V, b)
    BY <1>13 DEF Seated
  <2> QED
    BY <1>9, <2>1, <2>2 DEF DrainsTo
<1>19. Books(W) => Books(V)
  BY <1>5, <1>6, <1>9, <1>16 DEF DrainsTo
<1>20. Lined(W, agents) => Lined(V, agents) /\ Blocked(V)
  <2>1. \A b \in Agents : V.rec[b].status = "queued" => D.rec[b].status = "queued"
    <3>1. V.rec[a].status # "queued"
      BY <1>7, <1>10, <1>12, <1>15 DEF r
    <3> QED
      BY <1>15, <3>1
  <2> QED
    BY <1>9a, <1>13, <2>1, FillsSame, PackedOn DEF Lined, Blocked
<1> QED
  BY <1>12, <1>15, <1>16, <1>17, <1>18, <1>19, <1>20 DEF V

-----------------------------------------------------------------------------
(* The inductive invariant *)

RecType   == rec \in [Agents -> GoodRecs]
QueueType == IsWorld(World) /\ QueueIs(World)
Setting   == agents \subseteq Agents /\ config \in Configs /\ changes \in 0..MaxChanges /\ disposed \in BOOLEAN
             /\ may \in Scenarios
Known     == \A a \in agents : rec[a].status # "new"
Emptied   == disposed => agents = {}

\* Without a stop, only what was spawned by an aborted turn is aborted, and a bound record has a
\* parent that was started.
NotStopped ==
    "stop" \notin may.acts /\ ~disposed =>
        \A a \in Agents : /\ Undisturbed(rec[a])
                          /\ rec[a].bound /\ Parent[a] # Operator => rec[Parent[a]].started

\* Where limits change, the manager knows every holder, unless a stopped one may be cleared.
LosesNone == {"stop", "clear"} \subseteq may.acts => "limits" \notin may.acts
Kept      == ~disposed /\ "limits" \in may.acts /\ LosesNone => \A a \in Agents : rec[a].hold => a \in agents
Booked    == ~disposed /\ LosesNone => Books(World)

\* Nobody is forgotten: who is queued is in the queue, and its slot is full.
Queues    == Lined(World, agents) /\ Blocked(World)

IInv == RecType /\ QueueType /\ Setting /\ Known /\ Emptied /\ NotStopped /\ Kept /\ Booked /\ Queues

\* What the steps do besides.
Tells    == \A a \in Agents : Told(rec[a], rec'[a])
Admitted == \A a \in Agents : rec'[a].hold /\ ~rec[a].hold => ~disposed' /\ Seated(World, a)'

-----------------------------------------------------------------------------
(* What every step has to show *)

LEMMA Here ==
    ASSUME IInv
    PROVE  /\ IsWorld(World) /\ QueueIs(World) /\ NewOnes(World)
           /\ World = [rec |-> rec, queue |-> queue, tables |-> tables]
           /\ World.rec = rec /\ World.queue = queue /\ World.tables = tables
           /\ config \in Configs
           /\ \A a \in Agents : rec[a] \in GoodRecs /\ rec[a] \in Recs /\ RecOK(rec[a])
<1>1. World = [rec |-> rec, queue |-> queue, tables |-> tables] /\ World.rec = rec /\ World.queue = queue
      /\ World.tables = tables
  BY DEF World
<1>2. \A a \in Agents : rec[a] \in GoodRecs /\ rec[a] \in Recs /\ RecOK(rec[a])
  BY DEF IInv, RecType, GoodRecs
<1>3. NewOnes(World)
  BY <1>1, <1>2, Newborn DEF NewOnes, Fresh
<1> QED
  BY <1>1, <1>2, <1>3 DEF IInv, QueueType, Setting

LEMMA Concludes ==
    ASSUME IInv, NEW V, Becomes(V), IsWorld(V), QueueIs(V), Setting', disposed' = disposed, may' = may,
           \A b \in Agents : /\ Goes(rec[b], V.rec[b])
                             /\ V.rec[b].bound => rec[b].bound \/ Parent[b] = Operator \/ rec[Parent[b]].started
                             /\ V.rec[b].hold /\ ~rec[b].hold => Seated(V, b) /\ b \in agents'
                             /\ b \in agents' => b \in agents \/ V.rec[b].status # "new"
           ,
           "stop" \in may.acts \/ disposed \/ \A b \in Agents : Undisturbed(rec[b]) => Undisturbed(V.rec[b]),
           disposed => agents' = {},
           \A b \in Agents : rec[b].hold /\ b \in agents /\ b \notin agents' => {"stop", "clear"} \subseteq may.acts,
           ~disposed /\ LosesNone => Books(V), Lined(V, agents'), Blocked(V)
    PROVE  IInv' /\ Tells /\ Admitted
<1>1. rec' = V.rec /\ World' = V
  <2>1. V = [rec |-> V.rec, queue |-> V.queue, tables |-> V.tables]
    BY DEF IsWorld
  <2> QED
    BY <2>1 DEF Becomes, World
<1>2. \A b \in Agents : V.rec[b] \in GoodRecs
  BY DEF Goes
<1>3. RecType'
  <2>1. V.rec \in [Agents -> Recs]
    BY DEF IsWorld
  <2> QED
    BY <1>1, <1>2, <2>1 DEF RecType
<1>4. QueueType'
  BY <1>1 DEF QueueType
<1>5. Known'
  BY <1>1 DEF Known, IInv, Goes, Setting
<1>6. Emptied'
  BY DEF Emptied
<1>7. NotStopped'
  <2> SUFFICES ASSUME "stop" \notin may.acts, ~disposed, NEW a \in Agents
               PROVE  /\ Undisturbed(rec'[a])
                      /\ rec'[a].bound /\ Parent[a] # Operator => rec'[Parent[a]].started
    BY DEF NotStopped
  <2>1. /\ Undisturbed(rec[a])
        /\ rec[a].bound /\ Parent[a] # Operator => rec[Parent[a]].started
    BY DEF IInv, NotStopped
  <2>2. Parent[a] # Operator => Parent[a] \in Agents
    BY AgentsAssumption
  <2>3. Undisturbed(V.rec[a])
    BY <2>1
  <2>4. \A b \in Agents : rec[b].started => V.rec[b].started
    BY DEF Goes
  <2> QED
    BY <1>1, <2>1, <2>2, <2>3, <2>4
<1>8. Kept'
  <2> SUFFICES ASSUME ~disposed, "limits" \in may.acts, LosesNone, NEW a \in Agents, V.rec[a].hold
               PROVE  a \in agents'
    BY <1>1 DEF Kept, LosesNone
  <2>1. rec[a].hold => a \in agents
    BY DEF IInv, Kept
  <2> QED
    BY <2>1 DEF LosesNone
<1>9. Booked'
  BY <1>1 DEF Booked, LosesNone
<1>10. Tells
  BY <1>1 DEF Tells, Goes
<1>11. Admitted
  <2> SUFFICES ASSUME NEW a \in Agents, rec'[a].hold, ~rec[a].hold PROVE ~disposed' /\ Seated(World, a)'
    BY DEF Admitted
  <2>1. Seated(V, a) /\ a \in agents'
    BY <1>1
  <2>2. ~disposed'
    BY <2>1
  <2>3. Seated(World, a)' <=> Seated(V, a)
    BY <1>1 DEF Seated
  <2> QED
    BY <2>1, <2>2, <2>3
<1>12. Queues'
  BY <1>1 DEF Queues
<1> QED
  BY <1>3, <1>4, <1>5, <1>6, <1>7, <1>8, <1>9, <1>10, <1>11, <1>12 DEF IInv

\* One record becomes another that keeps its slot.
LEMMA PutWorld ==
    ASSUME IInv, NEW a \in Agents, NEW q \in Recs, q.hold = rec[a].hold, rec[a].status # "queued"
    PROVE  LET V == Put(World, a, q) IN
           /\ V = [rec |-> [rec EXCEPT ![a] = q], queue |-> queue, tables |-> tables]
           /\ V.rec = [rec EXCEPT ![a] = q] /\ V.queue = queue /\ V.tables = tables
           /\ IsWorld(V) /\ QueueIs(V) /\ (Books(World) => Books(V))
           /\ q.status # "queued" => NewOnes(V)
<1> DEFINE V == Put(World, a, q)
<1>1. V = [rec |-> [rec EXCEPT ![a] = q], queue |-> queue, tables |-> tables]
  <2>1. World = [rec |-> World.rec, queue |-> World.queue, tables |-> World.tables] /\ World.rec = rec
        /\ World.queue = queue /\ World.tables = tables
    BY Here
  <2> HIDE DEF World
  <2> QED
    BY <2>1, PutIs
<1> HIDE DEF V
<1>2. V.rec = [rec EXCEPT ![a] = q] /\ V.queue = queue /\ V.tables = tables
  BY <1>1
<1>3. rec \in [Agents -> Recs] /\ queue \in Seq(Agents) /\ IsInjective(queue)
  BY Here DEF IsWorld
<1>4. V.rec \in [Agents -> Recs] /\ V.rec[a] = q /\ \A b \in Agents : V.rec[b].hold = rec[b].hold
  BY <1>2, <1>3
<1>5. IsWorld(V) /\ (Books(World) => Books(V))
  <2>1. V = [rec |-> V.rec, queue |-> V.queue, tables |-> World.tables]
    BY <1>1, <1>2, Here
  <2> QED
    BY <1>2, <1>3, <1>4, <2>1, Here, Alike
<1>6. QueueIs(V)
  <2>1. ASSUME NEW i \in DOMAIN V.queue PROVE V.rec[V.queue[i]].status = "queued"
    <3>1. rec[queue[i]].status = "queued" /\ queue[i] \in Agents
      BY <1>2, <1>3, <2>1, Here, ElementOfSeq, LenProperties DEF QueueIs
    <3> QED
      BY <1>2, <1>3, <3>1
  <2> QED
    BY <2>1 DEF QueueIs
<1>7. q.status # "queued" => NewOnes(V)
  BY <1>2, <1>3, <1>4, Here DEF NewOnes
<1> QED
  BY <1>1, <1>2, <1>5, <1>6, <1>7 DEF V

\* A record becomes another without a slot taken or given back.
LEMMA PutConcludes ==
    ASSUME IInv, NEW a \in Agents, NEW q \in Recs, q.hold = rec[a].hold, rec[a].status # "queued",
           Moves(rec[a], q), Becomes(Put(World, a, q)), UNCHANGED <<config, changes, disposed, may>>,
           agents' \subseteq agents,
           "stop" \in may.acts \/ disposed \/ (Undisturbed(rec[a]) => Undisturbed(q)),
           rec[a].hold /\ a \notin agents' => a \notin agents \/ {"stop", "clear"} \subseteq may.acts,
           \A b \in agents \ {a} : b \in agents', q.status # "queued"
    PROVE  IInv' /\ Tells /\ Admitted
<1> DEFINE V == Put(World, a, q)
<1>1. /\ V.rec = [rec EXCEPT ![a] = q] /\ IsWorld(V) /\ QueueIs(V) /\ (Books(World) => Books(V))
      /\ V.queue = queue /\ V.tables = tables
  BY PutWorld
<1> HIDE DEF V
<1>2. \A b \in Agents : V.rec[b] = IF b = a THEN q ELSE rec[b]
  BY <1>1, Here DEF IsWorld
<1>3. ASSUME NEW b \in Agents
      PROVE  /\ Moves(rec[b], V.rec[b]) /\ ~(V.rec[b].hold /\ ~rec[b].hold)
             /\ b # a => Undisturbed(V.rec[b]) <=> Undisturbed(rec[b])
  <2>1. Moves(rec[b], rec[b])
    BY Here, Unmoved DEF Quiet
  <2> QED
    BY <1>2, <2>1
<1>4. Setting'
  BY DEF IInv, Setting
<1>5. Becomes(V)
  BY DEF V
<1>6. disposed => agents' = {}
  BY DEF IInv, Emptied
<1>7. ~disposed /\ LosesNone => Books(V)
  BY <1>1 DEF IInv, Booked
<1>8. "stop" \in may.acts \/ disposed \/ \A b \in Agents : Undisturbed(rec[b]) => Undisturbed(V.rec[b])
  BY <1>2, <1>3
<1>9. \A b \in Agents : rec[b].hold /\ b \in agents /\ b \notin agents' => {"stop", "clear"} \subseteq may.acts
  OBVIOUS
<1>10. Lined(V, agents') /\ Blocked(V)
  <2>1. \A b \in Agents : V.rec[b].status = "queued" => b # a /\ rec[b].status = "queued"
    BY <1>2
  <2>2. Lined(World, agents) /\ Blocked(World) /\ World.rec = rec /\ World.queue = queue /\ AllFill(World, V)
    BY <1>1, Here, FillsSame DEF IInv, Queues
  <2> QED
    BY <1>1, <2>1, <2>2, PackedOn DEF Lined, Blocked
<1> QED
  BY <1>1, <1>3, <1>4, <1>5, <1>6, <1>7, <1>8, <1>9, <1>10, Concludes DEF Moves

\* A run ends, the slot is given back and the queue drained.
LEMMA SettledConcludes ==
    ASSUME IInv, NEW a \in Agents, NEW q \in Recs, rec[a].run # "none", q.started, q.run = rec[a].run, q.gate = rec[a].gate,
           q.status \notin {"new", "queued", "running"}, q.bound = rec[a].bound, q.abort = rec[a].abort,
           q.status = "stopped" => rec[a].status = "stopped", q.hold = rec[a].hold,
           q.verdict \in {"passed", "repaired"} => q.result = q.good,
           Becomes(Settled(Put(World, a, q), a)), UNCHANGED <<agents, config, changes, disposed, may>>
    PROVE  IInv' /\ Tells /\ Admitted
<1> DEFINE P == Put(World, a, q)
           V == Settled(P, a)
<1>1. rec[a].status # "queued" /\ rec[a] \in GoodRecs /\ rec \in [Agents -> Recs]
  <2>1. rec[a].status # "queued"
    BY Here DEF RecOK
  <2> QED
    BY <2>1, Here DEF IsWorld
<1>2. P.rec = [rec EXCEPT ![a] = q] /\ IsWorld(P) /\ QueueIs(P) /\ NewOnes(P) /\ (Books(World) => Books(P))
      /\ P.queue = queue
  BY <1>1, PutWorld
<1> HIDE DEF P
<1>3. P.rec[a] = q /\ \A b \in Agents \ {a} : P.rec[b] = rec[b]
  BY <1>1, <1>2
<1>4. /\ IsWorld(V) /\ QueueIs(V) /\ V.rec[a] = Settle(q)
      /\ \A b \in Agents \ {a} : /\ MayDrain(rec[b], V.rec[b]) /\ (V.rec[b] # rec[b] => b \in agents)
                                 /\ V.rec[b].hold /\ ~rec[b].hold => Seated(V, b)
      /\ Books(P) => Books(V)
      /\ Lined(P, agents) => Lined(V, agents) /\ Blocked(V)
  <2>1. /\ IsWorld(V) /\ QueueIs(V) /\ V.rec[a] = Settle(P.rec[a])
        /\ \A b \in Agents \ {a} : /\ MayDrain(P.rec[b], V.rec[b]) /\ (V.rec[b] # P.rec[b] => b \in agents)
                                   /\ V.rec[b].hold /\ ~P.rec[b].hold => Seated(V, b)
        /\ Books(P) => Books(V)
        /\ Lined(P, agents) => Lined(V, agents) /\ Blocked(V)
    BY <1>2, <1>3, Here, SettledIs
  <2> HIDE DEF V
  <2> QED
    BY <1>3, <2>1
<1>5. Becomes(V)
  BY DEF V, P
<1> HIDE DEF V
<1>6. ASSUME NEW b \in Agents
      PROVE  /\ Quiet(rec[b], V.rec[b])
             /\ V.rec[b].hold /\ ~rec[b].hold => Seated(V, b) /\ b \in agents
  <2>1. CASE b = a
    BY <1>1, <1>4, <2>1, SettleGood
  <2>2. CASE b # a
    BY <1>4, <2>2, Here, DrainGood
  <2> QED
    BY <2>1, <2>2
<1>7. Setting'
  BY DEF IInv, Setting
<1>8. disposed => agents' = {}
  BY DEF IInv, Emptied
<1>9. ~disposed /\ LosesNone => Books(V)
  BY <1>2, <1>4 DEF IInv, Booked
<1>10. Lined(V, agents') /\ Blocked(V)
  <2>1. Lined(World, agents) /\ World.rec = rec /\ World.queue = queue
    BY Here DEF IInv, Queues
  <2>2. Lined(P, agents)
    BY <1>2, <1>3, <2>1 DEF Lined
  <2> QED
    BY <1>4, <2>2
<1> QED
  BY <1>4, <1>5, <1>6, <1>7, <1>8, <1>9, <1>10, Concludes DEF Moves, Quiet

-----------------------------------------------------------------------------
(* The steps of a run *)

LEMMA SessionReadyConcludes == ASSUME IInv, NEW a \in Agents, SessionReady(a) PROVE IInv' /\ Tells /\ Admitted
<1> DEFINE q == [rec[a] EXCEPT !.run = "turn", !.session = TRUE]
<1>1. rec[a].run = "setup" /\ rec[a] \in GoodRecs /\ rec[a] \in Recs /\ rec[a].status \in {"running", "stopped"}
  BY Here DEF SessionReady, RecOK
<1>2. /\ q \in Recs /\ q.run = "turn" /\ q.hold = rec[a].hold /\ q.started = rec[a].started /\ q.settled = rec[a].settled
      /\ q.gate = rec[a].gate /\ q.verdict = rec[a].verdict /\ q.runs = rec[a].runs /\ q.bound = rec[a].bound
      /\ q.abort = rec[a].abort /\ q.status = rec[a].status
  BY <1>1 DEF Recs
<1>3. Becomes(Put(World, a, q)) /\ UNCHANGED <<agents, config, changes, disposed, may>>
  BY DEF SessionReady
<1> HIDE DEF q
<1>4. Quiet(rec[a], q)
  BY <1>1, <1>2, RunsOn
<1> QED
  BY <1>1, <1>2, <1>3, <1>4, PutConcludes DEF Quiet

LEMMA FailsConcludes == ASSUME IInv, NEW a \in Agents, Fails(a) PROVE IInv' /\ Tells /\ Admitted
<1>1. /\ rec[a].run \in {"setup", "turn"} /\ rec[a] \in GoodRecs /\ rec[a] \in Recs /\ rec[a].session \in BOOLEAN
      /\ rec[a].started /\ rec[a].verdict = "none"
  BY Here DEF Fails, RecOK, Recs
<1>2. PICK s \in {rec[a].session} \cup (IF rec[a].run = "setup" /\ ~disposed THEN {TRUE} ELSE {}) :
         Becomes(Settled(Put(World, a, [rec[a] EXCEPT !.status = IF @ = "stopped" THEN @ ELSE "error", !.result = 0,
                                                      !.session = s]), a))
  BY DEF Fails
<1>3. s \in BOOLEAN
  BY <1>1, <1>2
<1> DEFINE q == [rec[a] EXCEPT !.status = IF @ = "stopped" THEN @ ELSE "error", !.result = 0, !.session = s]
<1>4. /\ q \in Recs /\ q.run = rec[a].run /\ q.hold = rec[a].hold /\ q.started = rec[a].started
      /\ q.gate = rec[a].gate /\ q.verdict = rec[a].verdict /\ q.bound = rec[a].bound /\ q.abort = rec[a].abort
      /\ q.status = IF rec[a].status = "stopped" THEN "stopped" ELSE "error"
  <2> DEFINE status == IF rec[a].status = "stopped" THEN "stopped" ELSE "error"
  <2>1. q = [rec[a] EXCEPT !.status = status, !.result = 0, !.session = s]
    OBVIOUS
  <2>2. status \in {"stopped", "error"} /\ 0 \in Answers
    BY ZeroAnswers
  <2> HIDE DEF status, q
  <2>3. /\ q \in Recs /\ q.run = rec[a].run /\ q.hold = rec[a].hold /\ q.started = rec[a].started
        /\ q.gate = rec[a].gate /\ q.verdict = rec[a].verdict /\ q.bound = rec[a].bound /\ q.abort = rec[a].abort
        /\ q.status = status
    BY <1>1, <1>3, <2>1, <2>2 DEF Recs
  <2> QED
    BY <2>3 DEF status
<1>5. Becomes(Settled(Put(World, a, q), a)) /\ UNCHANGED <<agents, config, changes, disposed, may>>
  BY <1>2 DEF Fails
<1> HIDE DEF q
<1> QED
  BY <1>1, <1>4, <1>5, SettledConcludes

LEMMA TurnEndsConcludes ==
    ASSUME IInv, NEW a \in Agents, NEW answered \in BOOLEAN, TurnEnds(a, answered) PROVE IInv' /\ Tells /\ Admitted
<1> DEFINE stopped == rec[a].status = "stopped"
           ended == [rec[a] EXCEPT !.status = IF stopped THEN @ ELSE IF answered THEN "completed" ELSE "cutoff",
                                   !.result = Attempt(rec[a].runs, 0)]
<1>1. /\ rec[a].run = "turn" /\ rec[a] \in GoodRecs /\ rec[a] \in Recs /\ rec[a].started /\ rec[a].verdict = "none"
      /\ rec[a].runs \in 1..MaxRuns
  BY Here DEF TurnEnds, RecOK
<1>2. Attempt(rec[a].runs, 0) \in Answers
  BY <1>1, AttemptType, ZeroAnswers
<1>3. /\ ended \in Recs /\ ended.run = "turn" /\ ended.hold = rec[a].hold /\ ended.started = rec[a].started
      /\ ended.settled = rec[a].settled /\ ended.runs = rec[a].runs
      /\ ended.gate = rec[a].gate /\ ended.verdict = "none" /\ ended.bound = rec[a].bound /\ ended.abort = rec[a].abort
      /\ ended.status = IF stopped THEN "stopped" ELSE IF answered THEN "completed" ELSE "cutoff"
  BY <1>1, <1>2 DEF Recs
<1>4. PICK checks \in BOOLEAN :
         Becomes(IF checks /\ answered /\ ~stopped
                 THEN Put(World, a, [ended EXCEPT !.run = "judge"])
                 ELSE Settled(Put(World, a, [ended EXCEPT !.verdict = IF checks THEN "skipped" ELSE @, !.session = TRUE]), a))
  BY DEF TurnEnds
<1>5. UNCHANGED <<agents, config, changes, disposed, may>>
  BY DEF TurnEnds
<1> HIDE DEF ended
<1>6. CASE checks /\ answered /\ ~stopped
  <2> DEFINE q == [ended EXCEPT !.run = "judge"]
  <2>1. /\ q \in Recs /\ q.run = "judge" /\ q.hold = rec[a].hold /\ q.started = rec[a].started /\ q.settled = rec[a].settled
        /\ q.gate = rec[a].gate /\ q.verdict = "none" /\ q.runs = rec[a].runs /\ q.bound = rec[a].bound
        /\ q.abort = rec[a].abort /\ q.status = "completed"
    BY <1>3, <1>6 DEF Recs
  <2>2. Becomes(Put(World, a, q))
    BY <1>4, <1>6
  <2> HIDE DEF q
  <2>3. Quiet(rec[a], q)
    BY <1>1, <2>1, RunsOn
  <2>4. rec[a].status # "queued"
    BY <1>1, Here DEF RecOK
  <2> QED
    BY <1>5, <2>1, <2>2, <2>3, <2>4, PutConcludes DEF Quiet
<1>7. CASE ~(checks /\ answered /\ ~stopped)
  <2> DEFINE q == [ended EXCEPT !.verdict = IF checks THEN "skipped" ELSE @, !.session = TRUE]
  <2>1. /\ q \in Recs /\ q.run = "turn" /\ q.hold = rec[a].hold /\ q.started = rec[a].started
        /\ q.gate = rec[a].gate /\ q.verdict \in {"none", "skipped"} /\ q.bound = rec[a].bound
        /\ q.abort = rec[a].abort /\ q.status = ended.status
    BY <1>3 DEF Recs
  <2>2. Becomes(Settled(Put(World, a, q), a))
    BY <1>4, <1>7
  <2> HIDE DEF q
  <2> QED
    BY <1>1, <1>3, <1>5, <2>1, <2>2, SettledConcludes
<1> QED
  BY <1>6, <1>7

\* The verifier is done.
LEMMA VerifiedConcludes ==
    ASSUME IInv, NEW a \in Agents, rec[a].run \in {"judge", "repair"},
           NEW verdict \in {"passed", "repaired", "unparsed", "failed", "errored"}, NEW answer \in Answers, NEW good \in Answers,
           verdict \in {"passed", "repaired"} => answer = good,
           Becomes(Verified(a, verdict, answer, good)), UNCHANGED <<agents, config, changes, disposed, may>>
    PROVE  IInv' /\ Tells /\ Admitted
<1> DEFINE q == [rec[a] EXCEPT !.verdict = verdict, !.result = answer, !.good = good, !.session = TRUE]
<1>1. rec[a] \in GoodRecs /\ rec[a] \in Recs /\ rec[a].started /\ rec[a].status = "completed"
  BY Here DEF RecOK
<1>2. /\ q \in Recs /\ q.run = rec[a].run /\ q.hold = rec[a].hold /\ q.started = rec[a].started
      /\ q.gate = rec[a].gate /\ q.verdict = verdict /\ q.bound = rec[a].bound
      /\ q.abort = rec[a].abort /\ q.status = rec[a].status /\ q.result = answer /\ q.good = good
  BY <1>1 DEF Recs
<1>3. Becomes(Settled(Put(World, a, q), a))
  BY DEF Verified
<1> HIDE DEF q
<1> QED
  BY <1>1, <1>2, <1>3, SettledConcludes

LEMMA AttemptsAre ==
    ASSUME IInv, NEW a \in Agents, rec[a].run \in {"judge", "repair"}
    PROVE  Original(a) \in Answers /\ Candidate(a) \in Answers /\ rec[a].good \in Answers
<1>1. rec[a].runs \in 1..MaxRuns /\ rec[a].round \in 0..Rounds /\ rec[a].good \in Answers
  BY Here DEF RecOK, Recs
<1> QED
  BY <1>1, AttemptType, ZeroAnswers DEF Original, Candidate

LEMMA JudgesConcludes ==
    ASSUME IInv, NEW a \in Agents, NEW reply \in {"yes", "no", "unreadable", "nothing"}, Judges(a, reply)
    PROVE  IInv' /\ Tells /\ Admitted
<1>1. rec[a].run = "judge" /\ UNCHANGED <<agents, config, changes, disposed, may>>
  BY DEF Judges
<1>2. Original(a) \in Answers /\ Candidate(a) \in Answers /\ rec[a].good \in Answers
  BY <1>1, AttemptsAre
<1>3. CASE reply = "nothing"
  <2>1. Becomes(Verified(a, "errored", Original(a), rec[a].good))
    BY <1>3 DEF Judges
  <2> QED
    BY <1>1, <1>2, <2>1, VerifiedConcludes
<1>4. CASE reply = "unreadable"
  <2>1. Becomes(Verified(a, "unparsed", Candidate(a), rec[a].good))
    BY <1>4 DEF Judges
  <2> QED
    BY <1>1, <1>2, <2>1, VerifiedConcludes
<1>5. CASE reply = "yes"
  <2> DEFINE verdict == IF rec[a].round = 0 THEN "passed" ELSE "repaired"
  <2>1. Becomes(Verified(a, verdict, Candidate(a), Candidate(a)))
    BY <1>5 DEF Judges
  <2>2. verdict \in {"passed", "repaired"}
    OBVIOUS
  <2> HIDE DEF verdict
  <2> QED
    BY <1>1, <1>2, <2>1, <2>2, VerifiedConcludes
<1>6. CASE reply = "no" /\ ~AsksAgain(a)
  <2>1. Becomes(Verified(a, "failed", Original(a), rec[a].good))
    BY <1>6 DEF Judges
  <2> QED
    BY <1>1, <1>2, <2>1, VerifiedConcludes
<1>7. CASE reply = "no" /\ AsksAgain(a)
  <2> DEFINE q == [rec[a] EXCEPT !.run = "repair", !.round = @ + 1]
  <2>1. rec[a] \in GoodRecs /\ rec[a] \in Recs /\ rec[a].status = "completed"
    BY <1>1, Here DEF RecOK
  <2>2. rec[a].round + 1 \in 0..Rounds
    BY <1>7, <2>1, AgentsAssumption DEF AsksAgain, Recs
  <2>3. /\ q \in Recs /\ q.run = "repair" /\ q.hold = rec[a].hold /\ q.started = rec[a].started /\ q.settled = rec[a].settled
        /\ q.gate = rec[a].gate /\ q.verdict = rec[a].verdict /\ q.runs = rec[a].runs /\ q.bound = rec[a].bound
        /\ q.abort = rec[a].abort /\ q.status = "completed"
    BY <2>1, <2>2 DEF Recs
  <2>4. Becomes(Put(World, a, q))
    BY <1>7 DEF Judges
  <2> HIDE DEF q
  <2>5. Quiet(rec[a], q)
    BY <1>1, <2>1, <2>3, RunsOn
  <2> QED
    BY <1>1, <2>1, <2>3, <2>4, <2>5, PutConcludes DEF Quiet
<1> QED
  BY <1>3, <1>4, <1>5, <1>6, <1>7

LEMMA RepairsConcludes ==
    ASSUME IInv, NEW a \in Agents, NEW reply \in {"answer", "no answer", "nothing"}, Repairs(a, reply)
    PROVE  IInv' /\ Tells /\ Admitted
<1>1. rec[a].run = "repair" /\ UNCHANGED <<agents, config, changes, disposed, may>>
  BY DEF Repairs
<1>2. Original(a) \in Answers /\ rec[a].good \in Answers
  BY <1>1, AttemptsAre
<1>3. CASE reply = "nothing"
  <2>1. Becomes(Verified(a, "errored", Original(a), rec[a].good))
    BY <1>3 DEF Repairs
  <2> QED
    BY <1>1, <1>2, <2>1, VerifiedConcludes
<1>4. CASE reply = "no answer"
  <2>1. Becomes(Verified(a, "failed", Original(a), rec[a].good))
    BY <1>4 DEF Repairs
  <2> QED
    BY <1>1, <1>2, <2>1, VerifiedConcludes
<1>5. CASE reply = "answer"
  <2> DEFINE q == [rec[a] EXCEPT !.run = "judge"]
  <2>1. rec[a] \in GoodRecs /\ rec[a] \in Recs /\ rec[a].status = "completed"
    BY <1>1, Here DEF RecOK
  <2>2. /\ q \in Recs /\ q.run = "judge" /\ q.hold = rec[a].hold /\ q.started = rec[a].started /\ q.settled = rec[a].settled
        /\ q.gate = rec[a].gate /\ q.verdict = rec[a].verdict /\ q.runs = rec[a].runs /\ q.bound = rec[a].bound
        /\ q.abort = rec[a].abort /\ q.status = "completed"
    BY <2>1 DEF Recs
  <2>3. Becomes(Put(World, a, q))
    BY <1>5 DEF Repairs, JudgesRepair
  <2> HIDE DEF q
  <2>4. Quiet(rec[a], q)
    BY <1>1, <2>1, <2>2, RunsOn
  <2> QED
    BY <1>1, <2>1, <2>2, <2>3, <2>4, PutConcludes DEF Quiet
<1> QED
  BY <1>3, <1>4, <1>5

-----------------------------------------------------------------------------
(* The callers *)

\* A record that is told to stop leaves the queue.
LEMMA StoppedWorld ==
    ASSUME IInv, NEW a \in Agents, Stoppable(rec[a])
    PROVE  LET V == Stopped(World, a) IN
           /\ V = [rec |-> V.rec, queue |-> V.queue, tables |-> tables] /\ V.rec = [rec EXCEPT ![a] = Halt(@)]
           /\ Moves(rec[a], Halt(rec[a])) /\ Halt(rec[a]).hold = rec[a].hold
           /\ V.queue = IF Queued(a) THEN Without(queue, a) ELSE queue
           /\ IsWorld(V) /\ QueueIs(V) /\ (Books(World) => Books(V))
           /\ Lined(V, agents) /\ Blocked(V)
<1> DEFINE q == Halt(rec[a])
           V == Stopped(World, a)
           w == IF Queued(a) THEN Without(queue, a) ELSE queue
<1>1. rec \in [Agents -> Recs] /\ rec[a] \in GoodRecs /\ queue \in Seq(Agents) /\ IsInjective(queue)
  BY Here DEF IsWorld
<1>2. Moves(rec[a], q) /\ q.hold = rec[a].hold /\ q \in Recs /\ q.status # "queued"
  BY <1>1, HaltGood DEF Stoppable, Moves, Goes, GoodRecs
<1>3. V = [rec |-> [rec EXCEPT ![a] = q], queue |-> w, tables |-> tables]
  <2> DEFINE P == Put(World, a, q)
  <2>1. V = [P EXCEPT !.queue = IF Queued(a) THEN Without(@, a) ELSE @]
    BY Here DEF Stopped
  <2>2. P = [rec |-> [rec EXCEPT ![a] = q], queue |-> queue, tables |-> tables]
    <3>1. World = [rec |-> World.rec, queue |-> World.queue, tables |-> World.tables] /\ World.rec = rec
          /\ World.queue = queue /\ World.tables = tables
      BY Here
    <3> HIDE DEF World, q
    <3> QED
      BY <3>1, PutIs
  <2> HIDE DEF P, V, q
  <2> QED
    BY <2>1, <2>2
<1>4. /\ w \in Seq(Agents) /\ IsInjective(w)
      /\ \A j \in DOMAIN w : (Queued(a) => w[j] # a) /\ \E i \in DOMAIN queue : w[j] = queue[i]
      /\ \A i \in DOMAIN queue : queue[i] # a => \E j \in DOMAIN w : w[j] = queue[i]
  <2>1. CASE Queued(a)
    BY <1>1, <2>1, WithoutIs, WithoutKeeps
  <2>2. CASE ~Queued(a)
    BY <1>1, <2>2
  <2> QED
    BY <2>1, <2>2
<1> HIDE DEF V, q, w
<1>5. V.rec = [rec EXCEPT ![a] = q] /\ V.queue = w /\ V.tables = tables
  BY <1>3
<1>6. V.rec \in [Agents -> Recs] /\ V.rec[a] = q /\ (\A b \in Agents : V.rec[b].hold = rec[b].hold)
      /\ \A b \in Agents \ {a} : V.rec[b] = rec[b]
  BY <1>1, <1>2, <1>5
<1>7. IsWorld(V) /\ (Books(World) => Books(V))
  <2>1. V = [rec |-> V.rec, queue |-> V.queue, tables |-> World.tables]
    BY <1>3, <1>5, Here
  <2>2. V.queue \in Seq(Agents) /\ IsInjective(V.queue)
    BY <1>4, <1>5
  <2> QED
    BY <1>6, <2>1, <2>2, Here, Alike
<1>8. QueueIs(V)
  <2>1. ASSUME NEW j \in DOMAIN V.queue PROVE V.rec[V.queue[j]].status = "queued"
    <3>1. PICK i \in DOMAIN queue : w[j] = queue[i]
      BY <1>4, <1>5, <2>1
    <3>2. rec[queue[i]].status = "queued" /\ queue[i] \in Agents
      BY <1>1, <3>1, Here, ElementOfSeq, LenProperties DEF QueueIs
    <3>3. w[j] # a
      BY <1>4, <1>5, <2>1, <3>1, <3>2 DEF Queued
    <3> QED
      BY <1>5, <1>6, <3>1, <3>2, <3>3
  <2> QED
    BY <2>1 DEF QueueIs
<1>9. V = [rec |-> V.rec, queue |-> V.queue, tables |-> tables]
  BY <1>3, <1>5
<1>10. V.queue = IF Queued(a) THEN Without(queue, a) ELSE queue
  BY <1>5 DEF w
<1>11. Lined(V, agents) /\ Blocked(V)
  <2>1. \A b \in Agents : V.rec[b].status = "queued" => b # a /\ rec[b].status = "queued"
    BY <1>2, <1>6
  <2>2. Lined(World, agents) /\ Blocked(World) /\ World.rec = rec /\ World.queue = queue /\ AllFill(World, V)
    BY <1>5, Here, FillsSame DEF IInv, Queues
  <2> QED
    BY <1>4, <1>5, <2>1, <2>2, PackedOn DEF Lined, Blocked
<1> QED
  BY <1>2, <1>5, <1>7, <1>8, <1>9, <1>10, <1>11 DEF V, q

LEMMA StopConcludes == ASSUME IInv, NEW a \in Agents, Stop(a) PROVE IInv' /\ Tells /\ Admitted
<1> DEFINE V == Stopped(World, a)
<1>1. "stop" \in may.acts /\ Stoppable(rec[a]) /\ Becomes(V) /\ UNCHANGED <<agents, config, changes, disposed, may>>
  BY DEF Stop
<1>2. /\ V.rec = [rec EXCEPT ![a] = Halt(@)] /\ Moves(rec[a], Halt(rec[a])) /\ Halt(rec[a]).hold = rec[a].hold
      /\ IsWorld(V) /\ QueueIs(V) /\ (Books(World) => Books(V)) /\ Lined(V, agents) /\ Blocked(V)
  BY <1>1, StoppedWorld
<1> HIDE DEF V
<1>3. ASSUME NEW b \in Agents PROVE Moves(rec[b], V.rec[b]) /\ ~(V.rec[b].hold /\ ~rec[b].hold)
  <2>1. Moves(rec[b], rec[b])
    BY Here, Unmoved DEF Quiet
  <2>2. V.rec[b] = IF b = a THEN Halt(rec[b]) ELSE rec[b]
    BY <1>2, Here DEF IsWorld
  <2> QED
    BY <1>2, <2>1, <2>2
<1>4. Setting'
  BY <1>1 DEF IInv, Setting
<1>5. disposed => agents' = {}
  BY <1>1 DEF IInv, Emptied
<1>6. ~disposed /\ LosesNone => Books(V)
  BY <1>2 DEF IInv, Booked
<1> QED
  BY <1>1, <1>2, <1>3, <1>4, <1>5, <1>6, Concludes DEF Moves

LEMMA ParentStopsConcludes == ASSUME IInv, NEW a \in Agents, ParentStops(a) PROVE IInv' /\ Tells /\ Admitted
<1> DEFINE T == IF a \in agents /\ Stoppable(rec[a]) THEN Stopped(World, a) ELSE World
           q == [T.rec[a] EXCEPT !.bound = FALSE]
           V == Put(T, a, q)
<1>1. Parent[a] # Operator /\ rec[Parent[a]].abort /\ rec[a].bound /\ Becomes(V)
      /\ UNCHANGED <<agents, config, changes, disposed, may>>
  BY DEF ParentStops
<1>2. "stop" \in may.acts \/ disposed
  <2>1. Parent[a] \in Agents
    BY <1>1, AgentsAssumption
  <2> QED
    BY <1>1, <2>1 DEF IInv, NotStopped, Undisturbed
<1>3. /\ IsWorld(T) /\ QueueIs(T) /\ (Books(World) => Books(T)) /\ (\A b \in Agents \ {a} : T.rec[b] = rec[b])
      /\ Moves(rec[a], T.rec[a]) /\ T.rec[a].hold = rec[a].hold /\ Lined(T, agents) /\ Blocked(T)
  <2>1. CASE a \in agents /\ Stoppable(rec[a])
    <3>1. T = Stopped(World, a)
      BY <2>1
    <3> HIDE DEF T
    <3>2. /\ T.rec = [rec EXCEPT ![a] = Halt(@)] /\ Moves(rec[a], Halt(rec[a])) /\ Halt(rec[a]).hold = rec[a].hold
          /\ IsWorld(T) /\ QueueIs(T) /\ (Books(World) => Books(T)) /\ Lined(T, agents) /\ Blocked(T)
      BY <2>1, <3>1, StoppedWorld
    <3>3. rec \in [Agents -> Recs]
      BY Here DEF IsWorld
    <3> QED
      BY <3>2, <3>3
  <2>2. CASE ~(a \in agents /\ Stoppable(rec[a]))
    <3>1. T = World
      BY <2>2
    <3> HIDE DEF T
    <3> QED
      BY <3>1, Here, Unmoved DEF Quiet, IInv, Queues
  <2> QED
    BY <2>1, <2>2
<1> HIDE DEF T
<1>4. T = [rec |-> T.rec, queue |-> T.queue, tables |-> T.tables] /\ T.rec \in [Agents -> Recs] /\ T.rec[a] \in Recs
      /\ T.queue \in Seq(Agents) /\ IsInjective(T.queue)
  BY <1>3 DEF IsWorld
<1>5. /\ q \in Recs /\ q.hold = T.rec[a].hold /\ q.status = T.rec[a].status /\ Moves(rec[a], q)
  <2>1. q \in Recs /\ q.hold = T.rec[a].hold /\ q.status = T.rec[a].status
    BY <1>4 DEF Recs
  <2> QED
    BY <1>3, <2>1, Here, Unbound DEF Moves, Goes
<1> HIDE DEF q
<1>6. V = [rec |-> [T.rec EXCEPT ![a] = q], queue |-> T.queue, tables |-> T.tables]
  BY <1>4, PutIs
<1> HIDE DEF V
<1>7. V.rec = [T.rec EXCEPT ![a] = q] /\ V.queue = T.queue /\ V = [rec |-> V.rec, queue |-> V.queue, tables |-> T.tables]
  BY <1>6
<1>8. V.rec \in [Agents -> Recs] /\ V.rec[a] = q /\ (\A b \in Agents : V.rec[b].hold = T.rec[b].hold)
      /\ (\A b \in Agents \ {a} : V.rec[b] = T.rec[b]) /\ \A b \in Agents : V.rec[b].status = T.rec[b].status
  BY <1>4, <1>5, <1>7
<1>9. IsWorld(V) /\ (Books(T) => Books(V))
  BY <1>3, <1>4, <1>7, <1>8, Alike
<1>10. QueueIs(V)
  <2>1. \A i \in DOMAIN T.queue : T.queue[i] \in Agents
    BY <1>4, ElementOfSeq, LenProperties
  <2> QED
    BY <1>3, <1>7, <1>8, <2>1 DEF QueueIs
<1>11. ASSUME NEW b \in Agents PROVE Moves(rec[b], V.rec[b]) /\ ~(V.rec[b].hold /\ ~rec[b].hold)
  <2>1. CASE b = a
    BY <1>3, <1>5, <1>8, <2>1
  <2>2. CASE b # a
    BY <1>3, <1>8, <2>2, Here, Unmoved DEF Quiet
  <2> QED
    BY <2>1, <2>2
<1>12. Setting'
  BY <1>1 DEF IInv, Setting
<1>13. disposed => agents' = {}
  BY <1>1 DEF IInv, Emptied
<1>14. ~disposed /\ LosesNone => Books(V)
  BY <1>3, <1>9 DEF IInv, Booked
<1>15. Lined(V, agents') /\ Blocked(V)
  <2>1. AllFill(T, V)
    <3>1. V.tables = T.tables
      BY <1>6
    <3> QED
      BY <3>1, FillsSame
  <2> QED
    BY <1>1, <1>3, <1>7, <1>8, <2>1, PackedOn DEF Lined, Blocked
<1> QED
  BY <1>1, <1>2, <1>9, <1>10, <1>11, <1>12, <1>13, <1>14, <1>15, Concludes DEF Moves

LEMMA ClearConcludes == ASSUME IInv, NEW a \in Agents, Clear(a) PROVE IInv' /\ Tells /\ Admitted
<1> DEFINE q == Open(TearDown(rec[a]), 0)
<1>1. /\ "clear" \in may.acts /\ a \in agents /\ rec[a].status \notin {"new", "queued", "running"} /\ ~Checking(rec[a])
      /\ Becomes(Put(World, a, q)) /\ agents' = agents \ {a} /\ UNCHANGED <<config, changes, disposed, may>>
  BY DEF Clear, MayClear, Verifying
<1>2. rec[a] \in GoodRecs /\ rec[a] \in Recs /\ RecOK(rec[a])
  BY Here
<1>3. Quiet(rec[a], q) /\ q.hold = rec[a].hold /\ q.status = rec[a].status
  BY <1>1, <1>2, ClearGood
<1> HIDE DEF q
<1>4. q \in Recs /\ Moves(rec[a], q)
  BY <1>3 DEF Quiet, Moves, Goes, GoodRecs
<1>5. rec[a].hold => "stop" \in may.acts
  <2> SUFFICES ASSUME rec[a].hold, "stop" \notin may.acts PROVE FALSE
    OBVIOUS
  <2>1. rec[a].status = "stopped" /\ rec[a].started
    BY <1>1, <1>2 DEF RecOK, Checking, Recs
  <2>2. ~disposed
    BY <1>1 DEF IInv, Emptied
  <2> QED
    BY <2>1, <2>2 DEF IInv, NotStopped, Undisturbed
<1> QED
  BY <1>1, <1>3, <1>4, <1>5, PutConcludes DEF Quiet

LEMMA SteerConcludes == ASSUME IInv, NEW a \in Agents, Steer(a) PROVE IInv' /\ Tells /\ Admitted
<1> DEFINE q == Continue(rec[a])
           V == Put(Reserved(World, a), a, q)
<1>1. /\ a \in agents /\ rec[a].settled /\ rec[a].runs < MaxRuns /\ ~IsFull(Table(World, a), Key[a])
      /\ UNCHANGED <<agents, config, changes, disposed, may>>
  BY DEF Steer
<1>2. rec \in [Agents -> Recs] /\ rec[a] \in Recs /\ rec[a] \in GoodRecs
  BY Here DEF IsWorld
<1>3. Quiet(rec[a], q) /\ q.hold /\ q.run # "none" /\ ~rec[a].hold
  BY <1>1, <1>2, ContinueGood
<1>4. Becomes(V)
  <2>1. Reserved(World, a).rec[a] = Held(rec[a], TRUE)
    <3>1. World.rec = rec /\ ~World.rec[a].hold
      BY <1>3, Here
    <3>2. Reserved(World, a).rec = [World.rec EXCEPT ![a] = Held(@, TRUE)]
      BY <3>1, Here, ReservedIs
    <3> QED
      BY <1>2, <3>1, <3>2
  <2>2. q = [Held(rec[a], TRUE) EXCEPT !.status = "running", !.settled = FALSE, !.abort = FALSE, !.run = "turn",
                                       !.runs = @ + 1, !.result = 0, !.verdict = "none"]
    BY <1>2 DEF Continue, Held, Recs
  <2> QED
    BY <2>1, <2>2 DEF Steer, FreshVerdict
<1> HIDE DEF q
<1>5. q \in Recs /\ q.hold = TRUE
  BY <1>3 DEF Quiet, Moves, Goes, GoodRecs, Recs
<1>6. /\ V.rec = [rec EXCEPT ![a] = q] /\ V.queue = queue /\ IsWorld(V) /\ (Books(World) => Books(V)) /\ Seated(V, a)
  <2>1. World.rec = rec /\ ~World.rec[a].hold /\ World.queue = queue
    BY <1>3, Here
  <2>2. /\ V.rec = [World.rec EXCEPT ![a] = q] /\ V.queue = World.queue
        /\ IsWorld(V) /\ (Books(World) => Books(V)) /\ DepthOf(a) \in DOMAIN V.tables
        /\ HasRoom(V.tables[DepthOf(a)], SlotOf(V.tables[DepthOf(a)], Key[a]))
    <3> DEFINE W == World
    <3>1. IsWorld(W) /\ config \in Configs /\ ~W.rec[a].hold /\ ~IsFull(Table(W, a), Key[a])
      BY <1>1, <2>1, Here
    <3>2. V = Put(Reserved(W, a), a, q)
      OBVIOUS
    <3> HIDE DEF V, W
    <3>3. /\ V.rec = [W.rec EXCEPT ![a] = q] /\ V.queue = W.queue
          /\ IsWorld(V) /\ (Books(W) => Books(V)) /\ DepthOf(a) \in DOMAIN V.tables
          /\ HasRoom(V.tables[DepthOf(a)], SlotOf(V.tables[DepthOf(a)], Key[a]))
      <4> DEFINE U == Reserved(W, a)
      <4>0. U.rec = [W.rec EXCEPT ![a] = Held(@, TRUE)] /\ U.queue = W.queue /\ IsWorld(U)
        BY <3>1, ReservedIs
      <4>1. V = [rec |-> [U.rec EXCEPT ![a] = q], queue |-> U.queue, tables |-> U.tables]
        <5>1. U = [rec |-> U.rec, queue |-> U.queue, tables |-> U.tables]
          BY <4>0 DEF IsWorld
        <5>2. V = Put(U, a, q)
          BY <3>2
        <5> HIDE DEF U
        <5> QED
          BY <5>1, <5>2, PutIs
      <4>5. V.rec = [W.rec EXCEPT ![a] = q] /\ V.queue = W.queue
        <5>1. W.rec \in [Agents -> Recs]
          BY <3>1 DEF IsWorld
        <5> HIDE DEF U
        <5> QED
          BY <4>0, <4>1, <5>1
      <4>3. IsWorld(V)
        BY <1>5, <3>1, <3>2, SlotTaken
      <4>4. Books(W) => Books(V)
        BY <1>5, <3>1, <3>2, SlotTaken
      <4>2. DepthOf(a) \in DOMAIN V.tables /\ HasRoom(V.tables[DepthOf(a)], SlotOf(V.tables[DepthOf(a)], Key[a]))
        BY <1>5, <3>1, <3>2, SlotTaken
      <4> QED
        BY <4>2, <4>3, <4>4, <4>5
    <3> QED
      BY <3>3 DEF W
  <2> HIDE DEF V
  <2> QED
    BY <2>1, <2>2 DEF Seated
<1> HIDE DEF V
<1>7. \A b \in Agents : V.rec[b] = IF b = a THEN q ELSE rec[b]
  BY <1>2, <1>6
<1>8. QueueIs(V)
  <2>1. ASSUME NEW i \in DOMAIN V.queue PROVE V.rec[V.queue[i]].status = "queued"
    <3>1. rec[queue[i]].status = "queued" /\ queue[i] \in Agents
      BY <1>6, <2>1, Here, ElementOfSeq, LenProperties DEF QueueIs, IsWorld
    <3>2. rec[a].status # "queued"
      BY <1>1, Here DEF RecOK
    <3> QED
      BY <1>6, <1>7, <3>1, <3>2
  <2> QED
    BY <2>1 DEF QueueIs
<1>9. ASSUME NEW b \in Agents
      PROVE  Quiet(rec[b], V.rec[b]) /\ (V.rec[b].hold /\ ~rec[b].hold => Seated(V, b) /\ b \in agents)
  <2>1. CASE b = a
    BY <1>1, <1>3, <1>6, <1>7, <2>1
  <2>2. CASE b # a
    BY <1>7, <2>2, Here, Unmoved
  <2> QED
    BY <2>1, <2>2
<1>10. Setting'
  BY <1>1 DEF IInv, Setting
<1>11. disposed => agents' = {}
  BY <1>1 DEF IInv, Emptied
<1>12. ~disposed /\ LosesNone => Books(V)
  BY <1>6 DEF IInv, Booked
<1>13. Lined(V, agents') /\ Blocked(V)
  <2>1. \A b \in Agents : V.rec[b].status = "queued" => rec[b].status = "queued"
    <3>1. q.status # "queued"
      BY <1>3, <1>5 DEF Quiet, Moves, Goes, GoodRecs, RecOK
    <3> QED
      BY <1>7, <3>1
  <2>2. Lined(World, agents) /\ Blocked(World) /\ World.rec = rec /\ World.queue = queue /\ AllFill(World, V)
    BY Here, StartedFills DEF IInv, Queues, V
  <2> QED
    BY <1>1, <1>6, <2>1, <2>2, PackedOn DEF Lined, Blocked
<1> QED
  BY <1>1, <1>4, <1>6, <1>8, <1>9, <1>10, <1>11, <1>12, <1>13, Concludes DEF Moves, Quiet

LEMMA LimitsConcludes == ASSUME IInv, NEW new \in Configs, Limits(new) PROVE IInv' /\ Tells /\ Admitted
<1> DEFINE T(d) == SetLimits(tables[d], new, Holders(d))
           W == [World EXCEPT !.tables = [d \in DOMAIN @ |-> SetLimits(@[d], new, Holders(d))]]
           V == Drained(W)
           H(d) == {b \in agents : rec[b].hold /\ DepthOf(b) = d}
<1>1. /\ "limits" \in may.acts /\ changes < MaxChanges /\ changes' = changes + 1 /\ config' = new
      /\ Becomes(V) /\ UNCHANGED <<agents, disposed, may>>
  BY DEF Limits
<1>2. \A d \in DOMAIN tables : IsTable(T(d)) /\ Counts(T(d), H(d))
  <2> SUFFICES ASSUME NEW d \in DOMAIN tables PROVE IsTable(T(d)) /\ Counts(T(d), H(d))
    OBVIOUS
  <2>1. Holders(d) = [b \in H(d) |-> Key[b]]
    BY DEF Holders
  <2>2. H(d) \in SUBSET Agents
    BY DEF IInv, Setting
  <2>3. IsTable(tables[d])
    BY Here DEF IsWorld
  <2> HIDE DEF H
  <2> QED
    BY <2>1, <2>2, <2>3, SetLimitsIs
<1>3. W = [rec |-> rec, queue |-> queue, tables |-> [d \in DOMAIN tables |-> T(d)]]
  BY DEF World
<1> HIDE DEF W, T
<1>4. W.rec = rec /\ W.queue = queue /\ W.tables = [d \in DOMAIN tables |-> T(d)]
  BY <1>3
<1>5. IsWorld(W) /\ NewOnes(W) /\ QueueIs(W)
  <2>1. W = [rec |-> W.rec, queue |-> W.queue, tables |-> W.tables]
    BY <1>3
  <2>2. IsWorld(W)
    BY <1>2, <1>4, <2>1, Here DEF IsWorld
  <2> QED
    BY <1>4, <2>2, Here DEF NewOnes, QueueIs
<1>6. ~disposed /\ LosesNone => Books(W)
  <2> SUFFICES ASSUME ~disposed, LosesNone PROVE Books(W)
    OBVIOUS
  <2>1. \A b \in Agents : rec[b].hold => b \in agents
    BY <1>1 DEF IInv, Kept
  <2>2. \A d : HeldBy(W, d) = H(d)
    BY <1>4, <2>1 DEF HeldBy, IInv, Setting
  <2>3. \A b \in Agents : rec[b].hold => DepthOf(b) \in DOMAIN tables
    BY Here DEF IInv, Booked, Books
  <2> QED
    BY <1>2, <1>4, <2>2, <2>3 DEF Books
<1>7. DrainsTo(W, V)
  BY <1>5, Here, DrainedIs
<1>7a. Lined(V, agents) /\ Blocked(V)
  <2>1. Lined(W, agents)
    BY <1>4, Here DEF IInv, Queues, Lined
  <2> QED
    BY <1>5, <2>1, Here, DrainedFull
<1> HIDE DEF V
<1>8. ASSUME NEW b \in Agents
      PROVE  Quiet(rec[b], V.rec[b]) /\ (V.rec[b].hold /\ ~rec[b].hold => Seated(V, b) /\ b \in agents)
  BY <1>4, <1>7, Here, DrainGood DEF DrainsTo
<1>9. Setting'
  <2>1. changes' \in 0..MaxChanges
    BY <1>1, AgentsAssumption DEF IInv, Setting
  <2> QED
    BY <1>1, <2>1 DEF IInv, Setting
<1>10. disposed => agents' = {}
  BY <1>1 DEF IInv, Emptied
<1>11. IsWorld(V) /\ QueueIs(V) /\ (~disposed /\ LosesNone => Books(V))
  BY <1>6, <1>7 DEF DrainsTo
<1> QED
  BY <1>1, <1>7a, <1>8, <1>9, <1>10, <1>11, Concludes DEF Moves, Quiet

LEMMA DisposeConcludes == ASSUME IInv, Dispose PROVE IInv' /\ Tells /\ Admitted
<1>1. /\ disposed' = TRUE /\ agents' = {} /\ queue' = <<>> /\ UNCHANGED <<tables, config, changes, may>>
      /\ rec' = [a \in Agents |-> IF a \in agents THEN Discard(rec[a]) ELSE rec[a]]
  BY DEF Dispose
<1>2. ASSUME NEW a \in Agents
      PROVE  /\ rec'[a] \in GoodRecs /\ rec'[a] \in Recs /\ Told(rec[a], rec'[a]) /\ rec'[a].hold = rec[a].hold
             /\ rec'[a].status # "queued"
  <2>1. CASE a \in agents
    BY <1>1, <2>1, Here, DiscardGood DEF IInv, Known, Moves, Goes, GoodRecs
  <2>2. CASE a \notin agents
    <3>1. rec[a].status # "queued"
      BY <2>2, Here DEF IInv, Queues, Lined
    <3> QED
      BY <1>1, <2>2, <3>1, Here, Unmoved DEF Quiet, Moves, Goes
  <2> QED
    BY <2>1, <2>2
<1>3. RecType' /\ rec' \in [Agents -> Recs]
  BY <1>1, <1>2 DEF RecType
<1>4. QueueType'
  <2>1. World' = [rec |-> World'.rec, queue |-> World'.queue, tables |-> World.tables] /\ World'.rec = rec'
        /\ World'.queue = <<>>
    BY <1>1 DEF World
  <2>2. <<>> \in Seq(Agents) /\ IsInjective(<<>>) /\ DOMAIN <<>> = {}
    BY DEF IsInjective
  <2> DEFINE V == World'
  <2>3. V.rec \in [Agents -> Recs] /\ V.queue \in Seq(Agents) /\ IsInjective(V.queue) /\ DOMAIN V.queue = {}
        /\ \A b \in Agents : V.rec[b].hold = World.rec[b].hold
    BY <1>2, <1>3, <2>1, <2>2, Here
  <2>4. V = [rec |-> V.rec, queue |-> V.queue, tables |-> World.tables]
    BY <2>1
  <2> HIDE DEF V
  <2>5. IsWorld(V)
    BY <2>3, <2>4, Here, Alike
  <2>6. QueueIs(V)
    BY <2>3 DEF QueueIs
  <2> QED
    BY <2>5, <2>6 DEF QueueType, V
<1>5. Setting'
  BY <1>1 DEF IInv, Setting
<1>6. Known' /\ Emptied' /\ NotStopped' /\ Kept' /\ Booked'
  BY <1>1 DEF Known, Emptied, NotStopped, Kept, Booked
<1>7. Tells /\ Admitted
  BY <1>2 DEF Tells, Admitted
<1>8. Queues'
  <2>1. World'.rec = rec'
    BY DEF World
  <2> QED
    BY <1>2, <2>1 DEF Queues, Lined, Blocked
<1> QED
  BY <1>3, <1>4, <1>5, <1>6, <1>7, <1>8 DEF IInv

\* Asking again which slot serves a model changes nothing.
LEMMA AsksTwice ==
    ASSUME NEW t, IsTable(t), NEW m \in Models
    PROVE  IsFull(SlotFor(t, m), m) <=> IsFull(t, m)
<1> DEFINE u == SlotFor(t, m)
           v == SlotFor(u, m)
           s == SlotOf(t, m)
<1>1. IsTable(u) /\ s \in DOMAIN u.limit /\ SlotOf(u, m) = s
  BY SlotForIs
<1> HIDE DEF u
<1>2. v.limit[s] = u.limit[s] /\ v.running[s] = u.running[s]
  BY <1>1, SlotForIs
<1> QED
  BY <1>1, <1>2 DEF IsFull, LimitOf, u

\* A record is noted in the table of its depth, and becomes another.
LEMMA NotedWorld ==
    ASSUME IInv, NEW a \in Agents, NEW q \in Recs, q.hold = rec[a].hold, rec[a].status # "queued"
    PROVE  LET K == Put(WithTable(World, a, SlotFor(Table(World, a), Key[a])), a, q) IN
           /\ K.rec = [rec EXCEPT ![a] = q] /\ K.queue = queue /\ IsWorld(K) /\ QueueIs(K)
           /\ Books(World) => Books(K)
           /\ AllGrow(World, K) /\ AllFill(World, K)
           /\ IsFull(Table(K, a), Key[a]) <=> IsFull(Table(World, a), Key[a])
<1> DEFINE t == Table(World, a)
           u == SlotFor(t, Key[a])
           X == WithTable(World, a, u)
           K == Put(X, a, q)
           d == DepthOf(a)
<1>1. IsTable(t) /\ (Books(World) => Counts(t, HeldBy(World, d)))
  BY Here, TableIs
<1>2. IsTable(u) /\ Grows(t, u) /\ (IsFull(u, Key[a]) <=> IsFull(t, Key[a]))
  BY <1>1, SlotForIs, SlotForGrows, AsksTwice, KeyIs
<1>3. X = [rec |-> World.rec, queue |-> World.queue, tables |-> WithTables(World, a, u)]
  BY Here, WithTableIs
<1>4. K = [rec |-> [World.rec EXCEPT ![a] = q], queue |-> World.queue, tables |-> WithTables(World, a, u)]
  <2> HIDE DEF X, u
  <2> QED
    BY <1>3, PutIs
<1> HIDE DEF K, X, u, t
<1>5. /\ K = [rec |-> K.rec, queue |-> World.queue, tables |-> WithTables(World, a, u)]
      /\ K.rec = [World.rec EXCEPT ![a] = q] /\ K.queue = World.queue
  BY <1>4
<1>6. World.rec \in [Agents -> Recs] /\ World.rec = rec /\ World.queue = queue /\ queue \in Seq(Agents)
  BY Here DEF IsWorld
<1>7. /\ K.rec \in [Agents -> Recs] /\ \A b \in Agents \ {a} : K.rec[b].hold = World.rec[b].hold
      /\ \A b \in Agents : K.rec[b].hold = World.rec[b].hold
      /\ \A b \in Agents \ {a} : K.rec[b] = rec[b]
  BY <1>5, <1>6
<1>8. /\ IsWorld(K) /\ (Books(World) /\ Counts(u, HeldBy(K, d)) => Books(K))
      /\ (Grows(t, u) => AllGrow(World, K)) /\ Table(K, a) = u
  <2> HIDE DEF d
  <2> QED
    BY <1>2, <1>5, <1>7, Here, Account DEF t, d
<1>9. Books(World) => Counts(u, HeldBy(K, d))
  <2>1. HeldBy(K, d) = HeldBy(World, d) /\ HeldBy(World, d) \in SUBSET Agents
    BY <1>7 DEF HeldBy
  <2> HIDE DEF d
  <2> QED
    BY <1>1, <2>1, SlotForCounts, KeyIs DEF u
<1>10. QueueIs(K)
  <2>1. ASSUME NEW i \in DOMAIN K.queue PROVE K.rec[K.queue[i]].status = "queued"
    <3>1. rec[queue[i]].status = "queued" /\ queue[i] \in Agents
      BY <1>5, <1>6, <2>1, Here, ElementOfSeq, LenProperties DEF QueueIs
    <3> QED
      BY <1>5, <1>6, <1>7, <3>1
  <2> QED
    BY <2>1 DEF QueueIs
<1>11. K.rec = [rec EXCEPT ![a] = q] /\ K.queue = queue
  BY <1>5, <1>6
<1>12. AllFill(World, K)
  <2>1. Fills(t, u) /\ K.tables = WithTables(World, a, u)
    BY <1>1, <1>4, SlotForFills DEF u
  <2> QED
    BY <2>1, TableFills DEF t
<1> QED
  BY <1>2, <1>8, <1>9, <1>10, <1>11, <1>12 DEF K, X, u, t

\* Who is spawned by an aborted turn is stillborn.
LEMMA AbortedGood ==
    ASSUME NEW r \in Recs, Fresh(r), r.status \in {"queued", "running"}, NEW abort \in BOOLEAN
    PROVE  LET q == Open([r EXCEPT !.status = "stopped", !.abort = abort], 0) IN
           Moves(r, q) /\ Undisturbed(q) /\ q.hold = r.hold /\ q.status = "stopped"
<1> DEFINE p == [r EXCEPT !.status = "stopped", !.abort = abort]
           q == Open(p, 0)
<1>1. /\ p \in Recs /\ p.status = "stopped" /\ p.gate = <<>> /\ p.bound = r.bound /\ p.started = r.started
      /\ p.hold = r.hold /\ p.run = r.run /\ p.settled = r.settled /\ p.verdict = r.verdict /\ p.result = r.result
  BY ZenonT(60) DEF Recs, Fresh
<1> HIDE DEF p
<1>2. q = [p EXCEPT !.gate = <<0>>]
  BY <1>1 DEF Open
<1> HIDE DEF q
<1>3. /\ q \in Recs /\ q.status = "stopped" /\ q.gate = <<0>> /\ q.bound = p.bound /\ q.started = p.started
      /\ q.hold = p.hold /\ q.run = p.run /\ q.settled = p.settled /\ q.verdict = p.verdict /\ q.result = p.result
  BY <1>1, <1>2, ZeroAnswers DEF Recs
<1>4. RecOK(q)
  BY <1>1, <1>3 DEF RecOK, Fresh
<1> QED
  BY <1>1, <1>3, <1>4 DEF Moves, Goes, Told, GoodRecs, Undisturbed, Fresh, q, p

LEMMA SpawnConcludes ==
    ASSUME IInv, NEW a \in Agents, NEW aborted \in BOOLEAN, Spawn(a, aborted) PROVE IInv' /\ Tells /\ Admitted
<1> DEFINE full == IsFull(Table(World, a), Key[a])
           noted == WithTable(World, a, SlotFor(Table(World, a), Key[a]))
           born == [rec[a] EXCEPT !.status = IF full THEN "queued" ELSE "running", !.bound = ~aborted]
           kept == Put(noted, a, born)
           dead == Open([born EXCEPT !.status = "stopped", !.abort = ~full], 0)
           V == IF aborted THEN Put(noted, a, dead)
                ELSE IF full THEN [kept EXCEPT !.queue = Append(@, a)]
                ELSE IF a \in may.broken THEN FailedStart(kept, a) ELSE Started(kept, a)
<1>1. /\ rec[a].status = "new" /\ ~disposed
      /\ Parent[a] # Operator => rec[Parent[a]].run = "turn"
      /\ Becomes(V) /\ agents' = (IF rec'[a].status = "error" THEN agents ELSE agents \cup {a})
      /\ UNCHANGED <<config, changes, disposed, may>>
  BY DEF Spawn
<1>2. /\ rec \in [Agents -> Recs] /\ rec[a] \in Recs /\ rec[a] \in GoodRecs /\ Fresh(rec[a])
      /\ (Undisturbed(rec[a]) => ~rec[a].abort) /\ rec[a].hold = FALSE
  <2>1. rec \in [Agents -> Recs] /\ rec[a] \in Recs /\ rec[a] \in GoodRecs
    BY Here DEF IsWorld
  <2> QED
    BY <1>1, <2>1, Newborn DEF Fresh, Recs
<1>3. full \in BOOLEAN
  BY DEF IsFull
<1>4. /\ born \in Recs /\ born.status = (IF full THEN "queued" ELSE "running") /\ Fresh(born)
      /\ born.hold = FALSE /\ born.abort = rec[a].abort
  <2> DEFINE status == IF full THEN "queued" ELSE "running"
             bound == ~aborted
  <2>1. status \in {"queued", "running"} /\ bound \in BOOLEAN /\ born = [rec[a] EXCEPT !.status = status, !.bound = bound]
    OBVIOUS
  <2> HIDE DEF status, bound, born
  <2>2. born \in Recs /\ born.status = status /\ born.hold = rec[a].hold /\ born.abort = rec[a].abort
        /\ born.started = rec[a].started /\ born.gate = rec[a].gate /\ born.result = rec[a].result
        /\ born.verdict = rec[a].verdict /\ born.settled = rec[a].settled /\ born.run = rec[a].run
    BY <1>2, <2>1 DEF Recs
  <2> QED
    BY <1>2, <2>2 DEF Fresh, status
<1>5. /\ kept.rec = [rec EXCEPT ![a] = born] /\ kept.queue = queue /\ IsWorld(kept) /\ QueueIs(kept)
      /\ Books(World) => Books(kept)
      /\ IsFull(Table(kept, a), Key[a]) <=> full
      /\ AllFill(World, kept)
  <2> HIDE DEF born
  <2> QED
    BY <1>1, <1>2, <1>4, NotedWorld
<1> DEFINE q == IF aborted THEN dead
                ELSE IF full THEN born
                ELSE IF a \in may.broken THEN Failed(born) ELSE Begun(born)
<1>6. /\ Goes(rec[a], q) /\ q \in Recs /\ (Undisturbed(rec[a]) => Undisturbed(q))
      /\ q.status # "new"
      /\ q.hold => q = Begun(born) /\ q.status # "error" /\ ~aborted /\ ~full /\ a \notin may.broken
      /\ q.status = "queued" <=> ~aborted /\ full
  <2> HIDE DEF born, full
  <2>1. ASSUME NEW p, Moves(born, p), ~rec[a].abort => Undisturbed(p) /\ Fresh(rec[a]), p.status # "new",
               born.status = "queued" \/ born.status = "running"
        PROVE  Goes(rec[a], p) /\ p \in Recs /\ (Undisturbed(rec[a]) => Undisturbed(p))
    BY <1>2, <1>4, <2>1 DEF Moves, Goes, Told, Fresh, GoodRecs
  <2>2. CASE aborted
    <3>0. q = dead
      BY <2>2
    <3>1. (~full) \in BOOLEAN /\ q = Open([born EXCEPT !.status = "stopped", !.abort = ~full], 0)
      BY <3>0
    <3>2. Moves(born, q) /\ Undisturbed(q) /\ q.hold = FALSE /\ q.status = "stopped"
      BY <1>3, <1>4, <3>1, AbortedGood
    <3> HIDE DEF q
    <3> QED
      BY <1>2, <1>4, <2>1, <2>2, <3>2
  <2>3. CASE ~aborted /\ full
    <3>1. q = born /\ born.status = "queued"
      BY <1>4, <2>3
    <3>2. RecOK(born)
      BY <1>4, <3>1 DEF RecOK, Fresh
    <3>3. Goes(rec[a], born)
      BY <1>2, <1>4, <3>1, <3>2 DEF Goes, Told, GoodRecs, Fresh
    <3>4. Undisturbed(rec[a]) => Undisturbed(born)
      BY <1>2, <1>4, <3>1 DEF Undisturbed
    <3> HIDE DEF q
    <3> QED
      BY <1>4, <2>3, <3>1, <3>3, <3>4
  <2>4. CASE ~aborted /\ ~full /\ a \in may.broken
    <3>1. q = Failed(born)
      BY <2>4
    <3>2. /\ Moves(born, q) /\ (~born.abort => Quiet(born, q)) /\ ~q.hold /\ q.status = "error"
      BY <1>4, <3>1, FailGood
    <3>3. ~rec[a].abort => Undisturbed(q)
      BY <1>4, <2>4, <3>2 DEF Quiet, Undisturbed
    <3> HIDE DEF q
    <3> QED
      BY <1>2, <1>4, <2>1, <2>4, <3>2, <3>3
  <2>5. CASE ~aborted /\ ~full /\ a \notin may.broken
    <3>1. q = Begun(born)
      BY <2>5
    <3>2. /\ Moves(born, q) /\ (~born.abort => Quiet(born, q)) /\ q.status = "running"
      BY <1>4, <3>1, StartGood, StartedFields
    <3>3. ~rec[a].abort => Undisturbed(q)
      BY <1>4, <2>5, <3>2 DEF Quiet, Undisturbed
    <3> HIDE DEF q
    <3> QED
      BY <1>2, <1>4, <2>1, <2>5, <3>1, <3>2, <3>3
  <2> QED
    BY <2>2, <2>3, <2>4, <2>5
<1>7. /\ V.rec = [rec EXCEPT ![a] = q] /\ IsWorld(V) /\ QueueIs(V) /\ (Books(World) => Books(V))
      /\ q.hold => Seated(V, a)
      /\ AllFill(World, V) /\ \A i \in DOMAIN queue : i \in DOMAIN V.queue /\ V.queue[i] = queue[i]
      /\ q.status = "queued" => Packed(V, a) /\ \E i \in DOMAIN V.queue : V.queue[i] = a
  <2>0. rec[a].status # "queued"
    BY <1>1
  <2>1. CASE aborted
    <3>1. V = Put(noted, a, q) /\ q = dead
      BY <2>1
    <3>2. q \in Recs /\ q.hold = FALSE /\ q.status # "queued"
      BY <1>6, <2>1 DEF Recs
    <3> HIDE DEF V, q, dead, born
    <3> QED
      BY <1>2, <2>0, <3>1, <3>2, NotedWorld
  <2>2. CASE ~aborted /\ full
    <3>1. V = [kept EXCEPT !.queue = Append(@, a)] /\ q = born
      BY <2>2
    <3> HIDE DEF V, q, kept, born
    <3>2. kept = [rec |-> kept.rec, queue |-> kept.queue, tables |-> kept.tables] /\ kept.rec \in [Agents -> Recs]
          /\ kept.queue \in Seq(Agents) /\ IsInjective(kept.queue)
      BY <1>5 DEF IsWorld
    <3>3. V = [rec |-> kept.rec, queue |-> Append(queue, a), tables |-> kept.tables]
      BY <1>5, <3>1, <3>2
    <3>4. V.rec = kept.rec /\ V.queue = Append(queue, a) /\ V.tables = kept.tables
      BY <3>3
    <3>5. Len(queue) \in Nat /\ DOMAIN queue = 1..Len(queue) /\ \A i \in 1..Len(queue) : queue[i] \in Agents /\ queue[i] # a
      <4>1. \A i \in 1..Len(queue) : queue[i] \in Agents /\ rec[queue[i]].status = "queued"
        BY <1>5, <3>2, Here, ElementOfSeq, LenProperties DEF QueueIs
      <4> QED
        BY <1>5, <2>0, <3>2, <4>1, LenProperties
    <3>6. /\ Append(queue, a) \in Seq(Agents) /\ DOMAIN Append(queue, a) = 1..(Len(queue) + 1)
          /\ \A i \in 1..Len(queue) : Append(queue, a)[i] = queue[i]
          /\ Append(queue, a)[Len(queue) + 1] = a
      BY <1>5, <3>2, AppendProperties, LenProperties
    <3>7. \A i \in 1..(Len(queue) + 1) : i \in 1..Len(queue) \/ i = Len(queue) + 1
      BY <3>5
    <3>8. IsInjective(Append(queue, a))
      BY <1>5, <3>2, <3>5, <3>6, <3>7 DEF IsInjective
    <3>9. V = [rec |-> V.rec, queue |-> V.queue, tables |-> kept.tables]
      BY <3>3, <3>4
    <3>10. IsWorld(V) /\ (Books(kept) => Books(V))
      BY <1>5, <3>2, <3>4, <3>6, <3>8, <3>9, Alike
    <3>11. QueueIs(V)
      <4>1. \A i \in 1..Len(queue) : kept.rec[queue[i]].status = "queued"
        BY <1>5, <3>5 DEF QueueIs
      <4>2. kept.rec[a].status = "queued"
        BY <1>2, <1>4, <1>5, <2>2
      <4> QED
        BY <3>4, <3>6, <3>7, <4>1, <4>2 DEF QueueIs
    <3>12. AllFill(World, V) /\ Packed(V, a)
      <4>1. AllFill(kept, V)
        BY <3>4, FillsSame
      <4>2. Packed(kept, a)
        BY <1>5, <2>2, Here, PackedIs
      <4> QED
        BY <1>5, <4>1, <4>2, PackedOn, AllFillOn
    <3>13. Len(queue) + 1 \in DOMAIN V.queue /\ V.queue[Len(queue) + 1] = a
           /\ \A i \in DOMAIN queue : i \in DOMAIN V.queue /\ V.queue[i] = queue[i]
      BY <3>4, <3>5, <3>6
    <3> QED
      BY <1>4, <1>5, <3>1, <3>4, <3>10, <3>11, <3>12, <3>13
  <2>3. CASE ~aborted /\ ~full
    <3>1. V = IF a \in may.broken THEN FailedStart(kept, a) ELSE Started(kept, a)
      BY <2>3
    <3>2. q = IF a \in may.broken THEN Failed(born) ELSE Begun(born)
      BY <2>3
    <3> HIDE DEF V, kept, born, full, q
    <3>3. kept.rec[a] = born /\ ~kept.rec[a].hold /\ ~IsFull(Table(kept, a), Key[a])
      BY <1>2, <1>4, <1>5, <2>3
    <3>4. /\ V.rec = [kept.rec EXCEPT ![a] = q] /\ V.queue = kept.queue /\ IsWorld(V) /\ (Books(kept) => Books(V))
          /\ a \notin may.broken => Seated(V, a)
          /\ AllFill(kept, V)
      <4>1. CASE a \in may.broken
        BY <1>5, <3>1, <3>2, <3>3, <4>1, FailedStartIs, FailedStartFills, Here
      <4>2. CASE a \notin may.broken
        <5>1. AllFill(kept, Started(kept, a))
          BY <1>5, Here, StartedFills DEF Started
        <5> QED
          BY <1>5, <3>1, <3>2, <3>3, <4>2, <5>1, StartedIs, Here DEF Seated
      <4> QED
        BY <4>1, <4>2
    <3>5. V.rec = [rec EXCEPT ![a] = q]
      BY <1>5, <3>4
    <3>6. QueueIs(V)
      <4>1. ASSUME NEW i \in DOMAIN V.queue PROVE V.rec[V.queue[i]].status = "queued"
        <5>1. rec[queue[i]].status = "queued" /\ queue[i] \in Agents
          BY <1>5, <3>4, <4>1, Here, ElementOfSeq, LenProperties DEF QueueIs, IsWorld
        <5> QED
          BY <1>2, <1>5, <2>0, <3>4, <3>5, <5>1
      <4> QED
        BY <4>1 DEF QueueIs
    <3>7. AllFill(World, V)
      BY <1>5, <3>4, AllFillOn
    <3> QED
      BY <1>5, <1>6, <2>3, <3>4, <3>5, <3>6, <3>7
  <2> QED
    BY <2>1, <2>2, <2>3
<1> HIDE DEF V, q, born, kept, noted, dead, full
<1>8. \A b \in Agents : V.rec[b] = IF b = a THEN q ELSE rec[b]
  BY <1>2, <1>7
<1>9. rec'[a] = q
  BY <1>1, <1>8 DEF Becomes
<1>10. ASSUME NEW b \in Agents
       PROVE  /\ Goes(rec[b], V.rec[b])
              /\ V.rec[b].bound => rec[b].bound \/ Parent[b] = Operator \/ rec[Parent[b]].started
              /\ V.rec[b].hold /\ ~rec[b].hold => Seated(V, b) /\ b \in agents'
              /\ b \in agents' => b \in agents \/ V.rec[b].status # "new"
              /\ Undisturbed(rec[b]) => Undisturbed(V.rec[b])
  <2>1. CASE b = a
    <3>1. Parent[a] # Operator => rec[Parent[a]].started
      <4>1. Parent[a] # Operator => Parent[a] \in Agents
        BY AgentsAssumption
      <4> QED
        BY <1>1, <4>1, Here DEF RecOK
    <3>2. q.hold => a \in agents'
      BY <1>1, <1>6, <1>9
    <3> QED
      BY <1>6, <1>7, <1>8, <2>1, <3>1, <3>2
  <2>2. CASE b # a
    <3>1. V.rec[b] = rec[b] /\ (b \in agents' => b \in agents)
      BY <1>1, <1>8, <2>2
    <3> QED
      BY <3>1, Here, Unmoved DEF Quiet, Moves
  <2> QED
    BY <2>1, <2>2
<1>11. Setting'
  BY <1>1 DEF IInv, Setting
<1>12. ~disposed /\ LosesNone => Books(V)
  BY <1>7 DEF IInv, Booked
<1>13. Lined(V, agents') /\ Blocked(V)
  <2>1. Lined(World, agents) /\ Blocked(World) /\ World.rec = rec /\ World.queue = queue
    BY Here DEF IInv, Queues
  <2>2. ASSUME NEW b \in Agents, V.rec[b].status = "queued"
        PROVE  b \in agents' /\ (\E i \in DOMAIN V.queue : V.queue[i] = b) /\ Packed(V, b)
    <3>1. CASE b = a
      BY <1>1, <1>7, <1>8, <1>9, <2>2, <3>1
    <3>2. CASE b # a
      <4>1. rec[b].status = "queued"
        BY <1>8, <2>2, <3>2
      <4>2. b \in agents' /\ Packed(V, b)
        BY <1>1, <1>7, <2>1, <4>1, PackedOn DEF Lined, Blocked
      <4>3. PICK i \in DOMAIN queue : queue[i] = b
        BY <2>1, <4>1 DEF Lined
      <4> QED
        BY <1>7, <4>2, <4>3
    <3> QED
      BY <3>1, <3>2
  <2> QED
    BY <2>2 DEF Lined, Blocked
<1> QED
  BY <1>1, <1>7, <1>10, <1>11, <1>12, <1>13, Concludes

-----------------------------------------------------------------------------
(* The theorems *)

LEMMA Initially == Init => IInv
<1> SUFFICES ASSUME Init PROVE IInv
  OBVIOUS
<1>1. /\ rec = [a \in Agents |-> New] /\ agents = {} /\ queue = <<>> /\ tables = <<>>
      /\ config \in Configs /\ changes = 0 /\ disposed = FALSE /\ may \in Scenarios
  BY DEF Init
<1>2. New \in GoodRecs
  <2>1. New \in Recs
    <3>1. 0 \in 0..MaxRuns
      BY AgentsAssumption
    <3> QED
      BY <3>1, ZeroAnswers DEF New, Recs
  <2>2. RecOK(New)
    BY DEF New, RecOK
  <2> QED
    BY <2>1, <2>2 DEF GoodRecs
<1>3. \A a \in Agents : rec[a] = New
  BY <1>1
<1>4. RecType
  BY <1>1, <1>2 DEF RecType
<1>5. World = [rec |-> rec, queue |-> queue, tables |-> tables] /\ World.rec = rec /\ World.queue = queue
      /\ World.tables = tables
  BY DEF World
<1>6. <<>> \in Seq(Agents) /\ DOMAIN <<>> = {} /\ DOMAIN tables = {}
  BY <1>1
<1>7. IsWorld(World)
  BY <1>1, <1>4, <1>5, <1>6 DEF RecType, GoodRecs, IsWorld, IsInjective
<1>8. QueueIs(World)
  BY <1>1, <1>5, <1>6 DEF QueueIs
<1>9. Books(World)
  BY <1>3, <1>5, <1>6 DEF Books, New
<1>10. NotStopped /\ Kept
  BY <1>3 DEF NotStopped, Undisturbed, Kept, New
<1>11. Setting
  <2>1. 0 \in 0..MaxChanges
    BY AgentsAssumption
  <2> QED
    BY <1>1, <2>1 DEF Setting
<1>12. Known /\ Emptied
  BY <1>1 DEF Known, Emptied
<1>13. Queues
  <2>1. \A a \in Agents : World.rec[a].status # "queued"
    BY <1>3, <1>5 DEF New
  <2> QED
    BY <2>1 DEF Queues, Lined, Blocked
<1> QED
  BY <1>4, <1>7, <1>8, <1>9, <1>10, <1>11, <1>12, <1>13 DEF IInv, QueueType, Booked

LEMMA Stutters == ASSUME IInv, UNCHANGED vars PROVE IInv' /\ Tells /\ Admitted
<1>1. rec' = rec /\ agents' = agents /\ queue' = queue /\ tables' = tables /\ config' = config /\ changes' = changes
      /\ disposed' = disposed /\ may' = may
  BY DEF vars
<1>2. World' = World
  BY <1>1 DEF World
<1>3. RecType' /\ QueueType' /\ Setting' /\ Known' /\ Emptied'
  BY <1>1, <1>2 DEF IInv, RecType, QueueType, Setting, Known, Emptied
<1>4. NotStopped' /\ Kept' /\ Booked' /\ Queues'
  BY <1>1, <1>2 DEF IInv, NotStopped, Kept, Booked, LosesNone, Queues
<1> QED
  BY <1>1, <1>3, <1>4 DEF IInv, Tells, Admitted, Told

LEMMA Inductive == IInv /\ [Next]_vars => IInv' /\ Tells /\ Admitted
<1> SUFFICES ASSUME IInv, [Next]_vars PROVE IInv' /\ Tells /\ Admitted
  OBVIOUS
<1>1. CASE UNCHANGED vars
  BY <1>1, Stutters
<1>2. CASE Dispose
  BY <1>2, DisposeConcludes
<1>3. ASSUME NEW new \in Configs, Limits(new) PROVE IInv' /\ Tells /\ Admitted
  BY <1>3, LimitsConcludes
<1>4. ASSUME NEW a \in Agents, RunStep(a) PROVE IInv' /\ Tells /\ Admitted
  <2>1. CASE SessionReady(a)
    BY <2>1, SessionReadyConcludes
  <2>2. CASE Fails(a)
    BY <2>2, FailsConcludes
  <2>3. CASE ParentStops(a)
    BY <2>3, ParentStopsConcludes
  <2>4. ASSUME NEW answered \in BOOLEAN, TurnEnds(a, answered) PROVE IInv' /\ Tells /\ Admitted
    BY <2>4, TurnEndsConcludes
  <2>5. ASSUME NEW reply \in {"yes", "no", "unreadable", "nothing"}, Judges(a, reply) PROVE IInv' /\ Tells /\ Admitted
    BY <2>5, JudgesConcludes
  <2>6. ASSUME NEW reply \in {"answer", "no answer", "nothing"}, Repairs(a, reply) PROVE IInv' /\ Tells /\ Admitted
    BY <2>6, RepairsConcludes
  <2> QED
    BY <1>4, <2>1, <2>2, <2>3, <2>4, <2>5, <2>6 DEF RunStep
<1>5. ASSUME NEW a \in Agents, Stop(a) PROVE IInv' /\ Tells /\ Admitted
  BY <1>5, StopConcludes
<1>6. ASSUME NEW a \in Agents, Clear(a) PROVE IInv' /\ Tells /\ Admitted
  BY <1>6, ClearConcludes
<1>7. ASSUME NEW a \in Agents, Steer(a) PROVE IInv' /\ Tells /\ Admitted
  BY <1>7, SteerConcludes
<1>8. ASSUME NEW a \in Agents, NEW aborted \in BOOLEAN, Spawn(a, aborted) PROVE IInv' /\ Tells /\ Admitted
  BY <1>8, SpawnConcludes
<1> QED
  BY <1>1, <1>2, <1>3, <1>4, <1>5, <1>6, <1>7, <1>8 DEF Next

\* What is true of the records, the queue, the tables and what callers did so far holds at every
\* moment between two awaits of agent-manager.ts.
THEOREM Invariance == Spec => []IInv
<1>1. IInv /\ [Next]_vars => IInv'
  BY Inductive
<1> QED
  BY <1>1, Initially, PTL DEF Spec

\* Parents and no stopped holder cleared under changing limits: then nothing is lost in any scenario.
LEMMA AlwaysBooked ==
    ASSUME ClearsNoHolder, IInv PROVE LosesNone /\ (~disposed => Books(World))
<1>1. LosesNone
  BY DEF ClearsNoHolder, LosesNone, IInv, Setting
<1> QED
  BY <1>1 DEF IInv, Booked

LEMMA IInvTyped == ASSUME IInv PROVE TypeOK
<1>1. ASSUME NEW a \in Agents
      PROVE  /\ DOMAIN rec[a] = DOMAIN New
             /\ rec[a].status \in {"new", "queued", "running", "stopped", "completed", "cutoff", "error"}
             /\ rec[a].run \in {"none", "setup", "turn", "judge", "repair"}
             /\ rec[a].runs \in 0..MaxRuns /\ rec[a].round \in 0..Rounds
             /\ rec[a].result \in Answers /\ rec[a].good \in Answers
             /\ rec[a].verdict \in {"none", "passed", "repaired", "unparsed", "failed", "errored", "skipped"}
             /\ rec[a].gate \in {<<>>} \cup {<<v>> : v \in Answers}
  <2>1. rec[a] \in Recs
    BY Here
  <2>2. DOMAIN rec[a] = DOMAIN New
    BY <2>1 DEF Recs, New
  <2> QED
    BY <2>1, <2>2 DEF Recs
<1>2. queue \in Seq(Agents) /\ IsInjective(queue) /\ DOMAIN tables \subseteq Depths
      /\ \A d \in DOMAIN tables : IsTable(tables[d])
  BY Here DEF IsWorld
<1>3. ASSUME NEW d \in DOMAIN tables, NEW s \in DOMAIN tables[d].limit PROVE tables[d].limit[s] \in Nat \ {0}
  BY <1>2 DEF IsTable
<1> QED
  BY <1>1, <1>2, <1>3 DEF TypeOK, IInv, Setting, Depths

LEMMA IInvCounted == ASSUME ClearsNoHolder, IInv PROVE HeldWhileRunning /\ Counted
<1>1. HeldWhileRunning
  BY Here DEF HeldWhileRunning, RecOK
<1>2. Counted
  <2> SUFFICES ASSUME ~disposed
               PROVE  /\ \A d \in DOMAIN tables : \A s \in DOMAIN tables[d].running :
                            tables[d].running[s] =
                              Cardinality({a \in Agents : rec[a].hold /\ DepthOf(a) = d /\ SlotOf(tables[d], Key[a]) = s})
                      /\ \A a \in Agents : rec[a].hold =>
                            /\ DepthOf(a) \in DOMAIN tables
                            /\ SlotOf(tables[DepthOf(a)], Key[a]) \in DOMAIN tables[DepthOf(a)].running
    BY DEF Counted
  <2>1. Books(World)
    BY AlwaysBooked
  <2>2. /\ \A d \in DOMAIN tables : Counts(tables[d], HeldBy(World, d)) /\ IsTable(tables[d])
        /\ \A a \in Agents : rec[a].hold => DepthOf(a) \in DOMAIN tables
    BY <2>1, Here DEF Books, IsWorld
  <2>3. \A d \in DOMAIN tables : DOMAIN tables[d].running = DOMAIN tables[d].limit
    BY <2>2 DEF IsTable
  <2>4. \A d \in DOMAIN tables : HeldBy(World, d) = {a \in Agents : rec[a].hold /\ DepthOf(a) = d}
    BY Here DEF HeldBy
  <2>5. ASSUME NEW d \in DOMAIN tables, NEW s \in DOMAIN tables[d].running
        PROVE  tables[d].running[s] =
                 Cardinality({a \in Agents : rec[a].hold /\ DepthOf(a) = d /\ SlotOf(tables[d], Key[a]) = s})
    <3>1. Serves(tables[d], HeldBy(World, d), s)
            = {a \in Agents : rec[a].hold /\ DepthOf(a) = d /\ SlotOf(tables[d], Key[a]) = s}
      BY <2>4 DEF Serves
    <3> QED
      BY <2>2, <2>3, <3>1 DEF Counts
  <2>6. ASSUME NEW a \in Agents, rec[a].hold
        PROVE  /\ DepthOf(a) \in DOMAIN tables
               /\ SlotOf(tables[DepthOf(a)], Key[a]) \in DOMAIN tables[DepthOf(a)].running
    BY <2>2, <2>3, <2>4, <2>6 DEF Counts
  <2> QED
    BY <2>5, <2>6
<1> QED
  BY <1>1, <1>2

\* A record holds a slot exactly while a run of it goes on, verification included, and every count
\* of the tables is the number of the runs it serves now, however often the limits change under
\* them; unless a record whose stopped run still goes on may be cleared before that
\* (attachSettlementChain, concurrency-slots.ts).
THEOREM BooksRight == ASSUME ClearsNoHolder PROVE Spec => []BooksAreRight
<1>1. IInv => BooksAreRight
  BY IInvTyped, IInvCounted DEF BooksAreRight
<1> QED
  BY <1>1, Invariance, PTL

\* "Passed" and "repaired" are said only of the very answer that a judge approved, whoever stops,
\* clears or continues the record (verifyAnswer, continueSettledAgent).
THEOREM Vouched == Spec => []VouchedFor
<1>1. IInv => VouchedFor
  BY Here DEF VouchedFor, RecOK
<1> QED
  BY <1>1, Invariance, PTL

\* Whoever waits for a record resumes with its final answer and after its last check, unless the
\* record was stopped (openGate, clear).
THEOREM AnswersWait == Spec => AnswerWaits
<1>1. IInv /\ [Next]_vars =>
        [\A a \in Agents : rec[a].gate = <<>> /\ rec'[a].gate # <<>> =>
            \/ rec'[a].run = "none" /\ rec'[a].gate = <<rec'[a].result>>
            \/ rec[a].status = "stopped"]_vars
  BY Inductive DEF Tells, Told
<1> QED
  BY <1>1, Invariance, PTL DEF Spec, AnswerWaits

\* Who holds a seat shares it with no more runs than it has room for.
Inside == {a \in Agents : rec[a].run # "none"}
Place  == [a \in Agents |-> <<DepthOf(a), SlotOf(Table(World, a), Key[a])>>]
Room   == [a \in Agents |-> LimitOf(Table(World, a), Key[a])]
Roomy  == \A a \in Agents : ~disposed /\ rec[a].run # "none" /\ Seated(World, a) =>
              Cardinality({b \in Inside : Place[b] = Place[a]}) <= Room[a]

LEMMA SeatsAreRoomy == ASSUME ClearsNoHolder, IInv PROVE Roomy
<1> SUFFICES ASSUME NEW a \in Agents, ~disposed, rec[a].run # "none", Seated(World, a)
             PROVE  Cardinality({b \in Inside : Place[b] = Place[a]}) <= Room[a]
  BY DEF Roomy
<1> DEFINE d == DepthOf(a)
           t == tables[d]
           s == SlotOf(t, Key[a])
<1>1. d \in DOMAIN tables /\ HasRoom(t, s)
  BY Here DEF Seated
<1>2. \A b \in Agents : DepthOf(b) = d => Table(World, b) = t
  BY <1>1, Here DEF Table
<1>3. IsTable(t) /\ Counts(t, HeldBy(World, d))
  BY <1>1, AlwaysBooked, Here DEF Books, IsWorld
<1>4. Room[a] = t.limit[s]
  <2>1. Room[a] = LimitOf(t, Key[a])
    BY <1>2 DEF Room
  <2> HIDE DEF t
  <2> QED
    BY <1>1, <1>3, <2>1, SlotForIs, KeyIs DEF LimitOf, HasRoom
<1>5. {b \in Inside : Place[b] = Place[a]} = Serves(t, HeldBy(World, d), s)
  <2>1. \A b \in Agents : rec[b].run # "none" <=> rec[b].hold
    BY Here DEF RecOK
  <2>2. HeldBy(World, d) = {b \in Agents : rec[b].run # "none" /\ DepthOf(b) = d}
    BY <2>1, Here DEF HeldBy
  <2>3. \A b \in Agents : Place[b] = Place[a] <=> DepthOf(b) = d /\ SlotOf(t, Key[b]) = s
    BY <1>2 DEF Place
  <2> HIDE DEF d, t, s
  <2> QED
    BY <2>2, <2>3 DEF Inside, Serves
<1> HIDE DEF d, t, s
<1> QED
  BY <1>1, <1>3, <1>4, <1>5 DEF Counts, HasRoom

\* The manager implements Admission: whoever starts, leaves the queue or is continued does so in a
\* slot that has room for it beside all the runs that really go on, by the limits in force (spawn,
\* drainQueue, continueSettledAgent), in every scenario that cannot lose a stopped holder.
THEOREM AdmissionKept == ASSUME ClearsNoHolder PROVE Spec => Admits
<1>1. IInv => Roomy
  BY SeatsAreRoomy
<1>2. Init => Slots!Init
  BY DEF Init, Slots!Init, New
<1>3. IInv /\ IInv' /\ Roomy' /\ [Next]_vars => [Slots!Step]_<<Inside, Place, Room>>
  <2>0. Slots!Step <=> \A a \in Inside' \ Inside : Cardinality({b \in Inside' : Place'[b] = Place'[a]}) <= Room'[a]
    <3>1. \A S : Slots!Cardinality(S) = Cardinality(S)
      BY DEF Slots!Cardinality, Cardinality
    <3>2. Slots!Step <=>
            \A a \in Inside' \ Inside : Slots!Cardinality({b \in Inside' : Place'[b] = Place'[a]}) <= Room'[a]
      BY DEF Slots!Step, Slots!Crowd, Inside, Place, Room
    <3> QED
      BY <3>1, <3>2
  <2> SUFFICES ASSUME IInv, IInv', Roomy', [Next]_vars, NEW a \in Inside' \ Inside
               PROVE  Cardinality({b \in Inside' : Place'[b] = Place'[a]}) <= Room'[a]
    BY <2>0
  <2>1. a \in Agents /\ rec'[a].run # "none" /\ rec[a].run = "none"
    BY DEF Inside
  <2>2. rec'[a].hold /\ ~rec[a].hold
    BY <2>1 DEF IInv, RecType, GoodRecs, RecOK
  <2>3. ~disposed' /\ Seated(World, a)'
    BY <2>1, <2>2, Inductive DEF Admitted
  <2> QED
    BY <2>1, <2>3 DEF Roomy
<1> QED
  BY <1>1, <1>2, <1>3, Invariance, PTL DEF Spec, Admits, Slots!Spec, Inside, Place, Room

\* Of those who are waited for, one that is nested deepest.
Awaited == {a \in Agents : rec[a].status # "new" /\ rec[a].gate = <<>>}

LEMMA Deepest ==
    ASSUME NEW S \in SUBSET Agents, S # {}
    PROVE  \E a \in S : \A b \in S : ~(Depth[b] > Depth[a])
<1> DEFINE Below(a) == {b \in Agents : Depth[b] > Depth[a]}
           T == {Cardinality(Below(a)) : a \in S}
<1>1. \A a \in Agents : Depth[a] \in Nat
  BY AgentsAssumption
<1>2. \A a \in Agents : IsFiniteSet(Below(a)) /\ Cardinality(Below(a)) \in Nat
  BY FS_Subset, FS_CardinalityType, AgentsAssumption
<1>3. PICK a \in S : \A b \in S : Cardinality(Below(a)) <= Cardinality(Below(b))
  <2>1. T \subseteq Nat /\ T # {}
    BY <1>2
  <2>2. PICK x \in T : \A y \in T : x <= y
    <3> HIDE DEF T
    <3> QED
      BY <2>1, Least
  <2>3. PICK a \in S : x = Cardinality(Below(a))
    BY <2>2
  <2>4. \A b \in S : Cardinality(Below(b)) \in T
    OBVIOUS
  <2> HIDE DEF T, Below
  <2>5. \A b \in S : x <= Cardinality(Below(b))
    BY <2>2, <2>4
  <2> QED
    BY <2>3, <2>5
<1>4. ASSUME NEW b \in S, Depth[b] > Depth[a] PROVE FALSE
  <2>1. Below(b) \in SUBSET Below(a)
    BY <1>1, <1>4
  <2>2. b \in Below(a) /\ b \notin Below(b)
    BY <1>1, <1>4
  <2> HIDE DEF Below
  <2>3. Cardinality(Below(b)) <= Cardinality(Below(a)) /\ Cardinality(Below(a)) # Cardinality(Below(b))
    BY <1>2, <2>1, <2>2, FS_Subset
  <2> QED
    BY <1>2, <1>3, <2>3
<1> QED
  BY <1>4

\* Who waits is waited for by its parent, which is less deep.
LEMMA WaitsForDeeper ==
    ASSUME NEW a \in Agents, Waits(a) PROVE \E c \in Awaited : Depth[c] = Depth[a] + 1
<1>1. PICK c \in Agents : Parent[c] = a /\ rec[c].status # "new" /\ rec[c].gate = <<>>
  BY DEF Waits, Children
<1> QED
  BY <1>1, AgentsAssumption DEF Awaited

\* A slot that is full serves somebody.
LEMMA FullServes ==
    ASSUME ClearsNoHolder, IInv, NEW a \in Agents, rec[a].status = "queued"
    PROVE  \E b \in Agents : rec[b].run # "none" /\ Depth[b] = Depth[a]
<1> DEFINE d == DepthOf(a)
           t == tables[d]
           s == SlotOf(t, Key[a])
           H == HeldBy(World, d)
<1>1. Packed(World, a) /\ ~disposed
  BY Here DEF IInv, Queues, Blocked, Lined, Emptied
<1>2. d \in DOMAIN tables /\ s \in DOMAIN t.limit /\ t.running[s] >= t.limit[s]
  BY <1>1, Here DEF Packed, IsTight
<1>3. IsTable(t) /\ Counts(t, H)
  BY <1>1, <1>2, AlwaysBooked, Here DEF Books, IsWorld
<1>4. H = {b \in Agents : rec[b].hold /\ DepthOf(b) = d}
  BY Here DEF HeldBy
<1> HIDE DEF t, s, H, d
<1>5. t.running[s] = Cardinality(Serves(t, H, s)) /\ t.limit[s] \in Nat \ {0}
  BY <1>2, <1>3 DEF Counts, IsTable
<1>6. Serves(t, H, s) # {}
  <2>1. ASSUME Serves(t, H, s) = {} PROVE FALSE
    <3>1. Cardinality(Serves(t, H, s)) = 0
      BY <2>1, FS_EmptySet
    <3> QED
      BY <1>2, <1>5, <3>1
  <2> QED
    BY <2>1
<1>7. PICK b \in H : TRUE
  BY <1>6 DEF Serves
<1> QED
  BY <1>4, <1>7, Here DEF RecOK, DepthOf, d

LEMMA SomeRunGoesOn == ASSUME ClearsNoHolder, IInv PROVE NeverAllWait
<1> SUFFICES ASSUME Awaited # {} PROVE \E a \in Agents : rec[a].run # "none" /\ ~Waits(a)
  BY DEF NeverAllWait, Awaited
<1>1. PICK a \in Awaited : \A b \in Awaited : ~(Depth[b] > Depth[a])
  BY Deepest DEF Awaited
<1>2. a \in Agents /\ rec[a].status # "new" /\ rec[a].gate = <<>>
  BY <1>1 DEF Awaited
<1>3. ASSUME NEW b \in Agents, Depth[b] = Depth[a] PROVE ~Waits(b)
  <2>1. Depth[a] \in Nat /\ Depth[a] + 1 > Depth[a]
    BY <1>2, AgentsAssumption
  <2> QED
    BY <1>1, <1>3, <2>1, WaitsForDeeper
<1>4. CASE rec[a].run # "none"
  BY <1>2, <1>3, <1>4
<1>5. CASE rec[a].run = "none"
  <2>1. rec[a].status = "queued"
    BY <1>2, <1>5, Here DEF RecOK
  <2>2. PICK b \in Agents : rec[b].run # "none" /\ Depth[b] = Depth[a]
    BY <1>2, <2>1, FullServes
  <2> QED
    BY <1>3, <2>2
<1> QED
  BY <1>4, <1>5

\* As long as anybody waits for a record, some run goes on that waits for nobody, however deep the
\* subagents are nested and however small the limits: who is queued is in the queue and its slot
\* is full, so a run of its depth goes on, and a run waits only for deeper ones (DepthSlotTables,
\* drainQueue); in every scenario that cannot lose a stopped holder.
THEOREM SomebodyGoesOn == ASSUME ClearsNoHolder PROVE Spec => []NeverAllWait
<1>1. IInv => NeverAllWait
  BY SomeRunGoesOn
<1> QED
  BY <1>1, Invariance, PTL
=============================================================================
