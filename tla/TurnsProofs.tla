---------------------------- MODULE TurnsProofs ----------------------------
(***************************************************************************)
(* What becomes of a turn, for every setup and every value of the          *)
(* constants: what forge answers is what the backend made (TurnTold), the  *)
(* prompt of a request grows from the one answered last (PromptPreserved), *)
(* an answer a role's caller uses is whole (AnswerWhole), the diff a role  *)
(* is shown is of the work it was asked for (DiffShowsWork), the state a   *)
(* run puts back is the one it saved (SavedStateComesBack), and its task   *)
(* is the one its roles are told (RunKeepsItsLedger).                      *)
(*                                                                         *)
(* The first two parts fold over a sequence that only ever grows at its    *)
(* end - the client's history, a child's log - so an invariant can carry   *)
(* what the fold gives along: all that is needed of a fold is that one     *)
(* element more is one step more (FoldGrows).                              *)
(***************************************************************************)
EXTENDS ForgeTurn, RoleAnswer, WorkTree, TaskLedger, FiniteSetTheorems, SequenceTheorems,
        NaturalsInduction, WellFoundedInduction, TLAPS

-----------------------------------------------------------------------------
(* Folds over sequences *)

\* The numbers are well founded.
LEMMA Less == IsWellFoundedOn({ss \in Nat \X Nat : ss[1] < ss[2]}, Nat)
  BY NatLessThanWellFounded DEF OpToRel

\* A set of numbers that is not empty has a least one.
LEMMA Least ==
    ASSUME NEW T, T \subseteq Nat, T # {}
    PROVE  \E x \in T : \A y \in T : x <= y
<1> DEFINE R == {ss \in Nat \X Nat : ss[1] < ss[2]}
<1>1. \A x, y \in Nat : y < x => <<y, x>> \in R
  OBVIOUS
<1>2. PICK x \in T : \A y \in T : ~(<<y, x>> \in R)
  BY Less, WFMin
<1>3. \A y \in T : ~(y < x)
  BY <1>1, <1>2
<1> QED
  BY <1>3

\* What a fold from the left computes: a value for every set of places, from the one
\* without its last place.
Folded(g, n, zero, go, s) ==
  \A t \in SUBSET (1..n) : g[t] = IF t = {} THEN zero ELSE go[<<g[t \ {Max(t)}], s[Max(t)]>>]

\* The last of the places up to n.
LEMMA LastPlace ==
    ASSUME NEW n \in Nat, NEW t \in SUBSET (1..n), n \in t
    PROVE  Max(t) = n
<1>1. n \in t /\ \A y \in t : n >= y
  OBVIOUS
<1>2. \A x \in t : (\A y \in t : x >= y) => x = n
  <2>1. \A x \in t : x \in Nat /\ x <= n
    OBVIOUS
  <2> QED
    BY <2>1
<1> QED
  BY <1>1, <1>2 DEF Max

\* The largest of some places is one of them.
LEMMA MaxIsIn ==
    ASSUME NEW n \in Nat, NEW t \in SUBSET (1..n), t # {}
    PROVE  Max(t) \in t
<1> DEFINE T == {n - y : y \in t}
<1>1. T \subseteq Nat /\ T # {}
  <2>1. \A y \in t : n - y \in Nat
    OBVIOUS
  <2> QED
    BY <2>1
<1>2. PICK d \in T : \A e \in T : d <= e
  <2> HIDE DEF T
  <2> QED
    BY <1>1, Least
<1>3. PICK x \in t : d = n - x
  BY <1>2
<1>4. \A y \in t : x >= y
  <2>1. \A y \in t : d <= n - y
    BY <1>2
  <2> QED
    BY <1>3, <2>1
<1> QED
  BY <1>4 DEF Max

\* There is such a function, with values in the step's range.
LEMMA FoldExists ==
    ASSUME NEW A, NEW B, NEW zero \in A, NEW go \in [A \X B -> A], NEW m \in Nat,
           NEW s, \A i \in 1..m : s[i] \in B
    PROVE  \E g \in [SUBSET (1..m) -> A] : Folded(g, m, zero, go, s)
<1> DEFINE Good(n) == \E g \in [SUBSET (1..n) -> A] : Folded(g, n, zero, go, s)
           Bad == {n \in 0..m : ~Good(n)}
<1> HIDE DEF Good
<1>1. Bad = {}
  <2> SUFFICES ASSUME Bad # {} PROVE FALSE
    OBVIOUS
  <2>1. PICK n \in Bad : \A k \in Bad : n <= k
    <3>1. Bad \subseteq Nat
      OBVIOUS
    <3> HIDE DEF Bad
    <3> QED
      BY <3>1, Least
  <2>2. n \in Nat /\ n <= m /\ ~Good(n)
    BY <2>1
  <2>3. n # 0
    <3> SUFFICES ASSUME n = 0 PROVE Good(0)
      BY <2>2
    <3>1. SUBSET (1..0) = {{}}
      OBVIOUS
    <3> DEFINE g == [t \in {{}} |-> zero]
    <3>2. g \in [SUBSET (1..0) -> A] /\ Folded(g, 0, zero, go, s)
      BY <3>1 DEF Folded
    <3> QED
      BY <3>2 DEF Good
  <2>4. n - 1 \in 0..m /\ Good(n - 1)
    BY <2>1, <2>2, <2>3
  <2>5. PICK g \in [SUBSET (1..(n - 1)) -> A] : Folded(g, n - 1, zero, go, s)
    BY <2>4 DEF Good
  <2> DEFINE h == [t \in SUBSET (1..n) |-> IF n \in t THEN go[<<g[t \ {n}], s[n]>>] ELSE g[t]]
  <2>6. \A t \in SUBSET (1..n) : n \notin t => t \in SUBSET (1..(n - 1))
    BY <2>2
  <2>7. h \in [SUBSET (1..n) -> A]
    <3>1. \A t \in SUBSET (1..n) : t \ {n} \in SUBSET (1..(n - 1))
      BY <2>2
    <3>2. s[n] \in B
      BY <2>2, <2>3
    <3> QED
      BY <2>6, <3>1, <3>2
  <2>8. ASSUME NEW t \in SUBSET (1..n) PROVE h[t] = IF t = {} THEN zero ELSE go[<<h[t \ {Max(t)}], s[Max(t)]>>]
    <3>1. CASE n \in t
      <4>1. Max(t) = n
        BY <2>2, <3>1, LastPlace
      <4>2. h[t \ {n}] = g[t \ {n}] /\ h[t] = go[<<g[t \ {n}], s[n]>>]
        BY <3>1
      <4> QED
        BY <3>1, <4>1, <4>2
    <3>2. CASE n \notin t
      <4> DEFINE u == t \ {Max(t)}
      <4>1. t \in SUBSET (1..(n - 1)) /\ u \in SUBSET (1..n) /\ n \notin u
        BY <2>6, <3>2
      <4>2. h[t] = g[t] /\ h[u] = g[u]
        BY <3>2, <4>1
      <4> QED
        BY <2>5, <4>1, <4>2 DEF Folded
    <3> QED
      BY <3>1, <3>2
  <2>9. Folded(h, n, zero, go, s)
    <3> HIDE DEF h
    <3> QED
      BY <2>8 DEF Folded
  <2> QED
    BY <2>2, <2>7, <2>9 DEF Good
<1>2. Good(m)
  BY <1>1
<1> QED
  BY <1>2 DEF Good

\* Place after place, a function goes on from its last value, as long as that is in A.
GoesOn(g, m, A, zero, go, s) ==
  /\ g[{}] = zero
  /\ \A k \in 1..m : g[1..(k - 1)] \in A => g[1..k] = go[<<g[1..(k - 1)], s[k]>>]

\* A step takes the values in A, at each place of s, to values in A.
StaysIn(m, A, zero, go, s) ==
  m \in Nat /\ zero \in A /\ \A k \in 1..m, a \in A : go[<<a, s[k]>>] \in A

\* Two functions that go on alike from the same start agree.
LEMMA FoldsAgree ==
    ASSUME NEW A, NEW zero, NEW go, NEW m, NEW s, NEW g, NEW h, StaysIn(m, A, zero, go, s),
           GoesOn(g, m, A, zero, go, s), GoesOn(h, m, A, zero, go, s)
    PROVE  \A k \in 0..m : g[1..k] = h[1..k] /\ h[1..k] \in A
<1> DEFINE Bad == {k \in 0..m : ~(g[1..k] = h[1..k] /\ h[1..k] \in A)}
<1>1. Bad = {}
  <2> SUFFICES ASSUME Bad # {} PROVE FALSE
    OBVIOUS
  <2>1. PICK n \in Bad : \A k \in Bad : n <= k
    <3>1. Bad \subseteq Nat
      BY DEF StaysIn
    <3> HIDE DEF Bad
    <3> QED
      BY <3>1, Least
  <2>2. n # 0
    <3>1. 1..0 = {}
      OBVIOUS
    <3> QED
      BY <2>1, <3>1 DEF GoesOn, StaysIn
  <2>3. n \in 1..m /\ n - 1 \in 0..m /\ n - 1 \notin Bad
    BY <2>1, <2>2 DEF StaysIn
  <2>4. g[1..(n - 1)] = h[1..(n - 1)] /\ h[1..(n - 1)] \in A
    BY <2>3
  <2>5. g[1..n] = h[1..n] /\ h[1..n] \in A
    BY <2>3, <2>4 DEF GoesOn, StaysIn
  <2> QED
    BY <2>1, <2>5
<1> QED
  BY <1>1

\* g folds s from zero by a step that takes values in A to values in A.
FoldsBy(g, A, B, zero, go, s) ==
  zero \in A /\ go \in [A \X B -> A] /\ s \in Seq(B) /\ GoesOn(g, Len(s), A, zero, go, s)

\* The value of all of s.
ValueOf(g, s) == g[1..Len(s)]

\* The value b is one step on from a.
StepsOn(b, a, A, go, e) == a \in A /\ b = go[<<a, e>>]

\* A fold over one element more is one step more.
LEMMA FoldGrows ==
    ASSUME NEW A, NEW B, NEW zero, NEW go, NEW s, NEW e, NEW g, NEW h,
           e \in B,
           FoldsBy(g, A, B, zero, go, s), FoldsBy(h, A, B, zero, go, Append(s, e))
    PROVE  StepsOn(ValueOf(h, Append(s, e)), ValueOf(g, s), A, go, e)
<1> DEFINE n == Len(s)
           more == Append(s, e)
<1>1. n \in Nat /\ Len(more) = n + 1 /\ (\A k \in 1..n : more[k] = s[k] /\ s[k] \in B) /\ more[n + 1] = e
  BY AppendProperties, LenProperties, ElementOfSeq DEF FoldsBy
<1>2. /\ GoesOn(g, n, A, zero, go, s) /\ GoesOn(h, n + 1, A, zero, go, more)
      /\ zero \in A /\ go \in [A \X B -> A]
  BY <1>1 DEF FoldsBy
<1> HIDE DEF n, more
<1>3. StaysIn(n, A, zero, go, s)
  BY <1>1, <1>2 DEF StaysIn
<1>4. GoesOn(h, n, A, zero, go, s)
  <2>1. \A k \in 1..n : k \in 1..(n + 1)
    BY <1>1
  <2> QED
    BY <1>1, <1>2, <2>1 DEF GoesOn
<1>5. \A k \in 0..n : g[1..k] = h[1..k] /\ h[1..k] \in A
  BY <1>2, <1>3, <1>4, FoldsAgree
<1>6. g[1..n] = h[1..n] /\ h[1..n] \in A
  BY <1>1, <1>5
<1>7. h[1..(n + 1)] = go[<<h[1..n], e>>]
  BY <1>1, <1>2, <1>6 DEF GoesOn
<1> QED
  BY <1>1, <1>6, <1>7 DEF n, more, ValueOf, StepsOn

\* g takes each set of places from the one without the last.
TakesLast(g, A, zero, go, s) ==
  \A t \in SUBSET (1..Len(s)) :
     /\ t = {} => g[t] = zero
     /\ t # {} /\ g[t \ {Max(t)}] \in A => g[t] = go[<<g[t \ {Max(t)}], s[Max(t)]>>]

\* The function a fold chooses goes on by the step, if it is one that takes the last place.
LEMMA FoldGoesOn ==
    ASSUME NEW A, NEW B, NEW zero, NEW go, NEW s \in Seq(B), NEW g, TakesLast(g, A, zero, go, s)
    PROVE  GoesOn(g, Len(s), A, zero, go, s)
<1> DEFINE n == Len(s)
<1>1. n \in Nat
  BY LenProperties
<1>2. g[{}] = zero
  BY DEF TakesLast
<1>3. \A t \in SUBSET (1..n) : t # {} /\ g[t \ {Max(t)}] \in A => g[t] = go[<<g[t \ {Max(t)}], s[Max(t)]>>]
  BY DEF TakesLast
<1> HIDE DEF n
<1>4. ASSUME NEW k \in 1..n, g[1..(k - 1)] \in A
      PROVE  g[1..k] = go[<<g[1..(k - 1)], s[k]>>]
  <2> DEFINE t == 1..k
  <2>1. k \in Nat /\ k \in t /\ t \ {k} = 1..(k - 1)
    BY <1>1
  <2>2. t \in SUBSET (1..n) /\ t \in SUBSET (1..k)
    BY <1>1
  <2> HIDE DEF t
  <2>3. Max(t) = k
    BY <2>1, <2>2, LastPlace
  <2>4. g[t] = go[<<g[t \ {k}], s[k]>>]
    BY <1>3, <1>4, <2>1, <2>2, <2>3
  <2> QED
    BY <2>1, <2>4 DEF t
<1> QED
  BY <1>2, <1>4 DEF GoesOn, n

\* A function that folds s, with what its steps are made of.
Steps(f, A, B, zero, go, s) ==
  /\ f \in [SUBSET DOMAIN s -> A]
  /\ \A t \in SUBSET DOMAIN s :
        /\ t = {} => f[t] = zero
        /\ t # {} => /\ f[t \ {Max(t)}] \in A /\ s[Max(t)] \in B
                     /\ f[t] = go[<<f[t \ {Max(t)}], s[Max(t)]>>]

\* A step on values in A.
IsStep(A, B, zero, go) == zero \in A /\ go \in [A \X B -> A]

\* There is a function that folds a sequence.
LEMMA StepsExist ==
    ASSUME NEW A, NEW B, NEW zero, NEW go, IsStep(A, B, zero, go), NEW s \in Seq(B)
    PROVE  \E f : Steps(f, A, B, zero, go, s)
<1> DEFINE n == Len(s)
<1>1. n \in Nat /\ DOMAIN s = 1..n /\ \A i \in 1..n : s[i] \in B
  BY LenProperties, ElementOfSeq
<1>2. zero \in A /\ go \in [A \X B -> A]
  BY DEF IsStep
<1> HIDE DEF n
<1>3. PICK f \in [SUBSET (1..n) -> A] : Folded(f, n, zero, go, s)
  BY <1>1, <1>2, FoldExists
<1>4. \A t \in SUBSET (1..n) : t # {} => s[Max(t)] \in B
  BY <1>1, MaxIsIn
<1>5. \A t \in SUBSET (1..n) : t # {} => f[t \ {Max(t)}] \in A
  BY <1>3
<1> QED
  BY <1>1, <1>3, <1>4, <1>5 DEF Steps, Folded

\* A function that takes the last place folds.
LEMMA TakingLastFolds ==
    ASSUME NEW A, NEW B, NEW zero, NEW go, IsStep(A, B, zero, go), NEW s \in Seq(B), NEW g,
           TakesLast(g, A, zero, go, s)
    PROVE  FoldsBy(g, A, B, zero, go, s)
<1>1. zero \in A /\ go \in [A \X B -> A]
  BY DEF IsStep
<1>2. GoesOn(g, Len(s), A, zero, go, s)
  BY <1>1, FoldGoesOn
<1> QED
  BY <1>1, <1>2 DEF FoldsBy

\* Folding nothing gives the zero.
LEMMA FoldsNothing ==
    ASSUME NEW A, NEW B, NEW zero, NEW go, NEW g, FoldsBy(g, A, B, zero, go, <<>>)
    PROVE  ValueOf(g, <<>>) = zero
<1>1. Len(<<>>) = 0 /\ 1..0 = {}
  OBVIOUS
<1> QED
  BY <1>1 DEF ValueOf, FoldsBy, GoesOn

-----------------------------------------------------------------------------
(* ForgeTurn: what is answered *)

\* What the frames of an answer have in a field, whether they call a tool, and why they stop.
HasIn(frames, field) == UNION {frames[i][field] : i \in DOMAIN frames}
CallsIn(frames) == \E i \in DOMAIN frames : frames[i].calls
StopsIn(frames) == {frames[i].stop : i \in DOMAIN frames} \ {"none"}

\* An answer of one frame.
LEMMA OneFrame ==
    ASSUME NEW a
    PROVE  /\ \A field : HasIn(<<a>>, field) = a[field]
           /\ CallsIn(<<a>>) <=> a.calls
           /\ StopsIn(<<a>>) = {a.stop} \ {"none"}
<1>1. DOMAIN <<a>> = {1} /\ <<a>>[1] = a
  OBVIOUS
<1> QED
  BY <1>1 DEF HasIn, CallsIn, StopsIn

\* An answer of two.
LEMMA TwoFrames ==
    ASSUME NEW a, NEW b
    PROVE  /\ \A field : HasIn(<<a, b>>, field) = a[field] \cup b[field]
           /\ CallsIn(<<a, b>>) <=> a.calls \/ b.calls
           /\ StopsIn(<<a, b>>) = {a.stop, b.stop} \ {"none"}
<1>1. DOMAIN <<a, b>> = {1, 2} /\ <<a, b>>[1] = a /\ <<a, b>>[2] = b
  OBVIOUS
<1> QED
  BY <1>1 DEF HasIn, CallsIn, StopsIn

\* An answer of three.
LEMMA ThreeFrames ==
    ASSUME NEW a, NEW b, NEW c
    PROVE  /\ \A field : HasIn(<<a, b, c>>, field) = a[field] \cup b[field] \cup c[field]
           /\ CallsIn(<<a, b, c>>) <=> a.calls \/ b.calls \/ c.calls
           /\ StopsIn(<<a, b, c>>) = {a.stop, b.stop, c.stop} \ {"none"}
<1>1. DOMAIN <<a, b, c>> = {1, 2, 3} /\ <<a, b, c>>[1] = a /\ <<a, b, c>>[2] = b /\ <<a, b, c>>[3] = c
  OBVIOUS
<1> QED
  BY <1>1 DEF HasIn, CallsIn, StopsIn

\* A frame, or none, before two others.
LEMMA Heads ==
    ASSUME NEW a, NEW b, NEW c
    PROVE  <<>> \o <<b, c>> = <<b, c>> /\ <<a>> \o <<b, c>> = <<a, b, c>>
<1> DEFINE S == {a, b, c}
<1>1. <<a>> \in Seq(S) /\ <<b, c>> \in Seq(S) /\ <<a, b, c>> \in Seq(S)
  OBVIOUS
<1>2. <<>> \o <<b, c>> = <<b, c>>
  BY <1>1, ConcatEmptySeq
<1>3. Len(<<a>>) = 1 /\ Len(<<b, c>>) = 2 /\ Len(<<a, b, c>>) = 3
  OBVIOUS
<1>4. /\ <<a>> \o <<b, c>> \in Seq(S) /\ Len(<<a>> \o <<b, c>>) = 3
      /\ \A i \in 1..3 : (<<a>> \o <<b, c>>)[i] = IF i <= 1 THEN <<a>>[i] ELSE <<b, c>>[i - 1]
  BY <1>1, <1>3, ConcatProperties
<1>5. \A i \in 1..3 : <<a, b, c>>[i] = IF i <= 1 THEN <<a>>[i] ELSE <<b, c>>[i - 1]
  <2>1. \A i \in 1..3 : i = 1 \/ i = 2 \/ i = 3
    OBVIOUS
  <2> QED
    BY <2>1
<1> DEFINE x == <<a>> \o <<b, c>>
           y == <<a, b, c>>
<1>6. x \in Seq(S) /\ y \in Seq(S) /\ Len(x) = 3 /\ Len(y) = 3 /\ \A i \in 1..3 : x[i] = y[i]
  BY <1>1, <1>3, <1>4, <1>5
<1> HIDE DEF S, x, y
<1>7. x = y
  BY <1>6, SeqEqual
<1> QED
  BY <1>2, <1>7 DEF x, y

\* What a client makes of the frames.
Told(frames, content, thinking, calls, stops, error) ==
  /\ HasIn(frames, "content") = content
  /\ HasIn(frames, "thinking") = thinking
  /\ HasIn(frames, "error") = error
  /\ CallsIn(frames) <=> calls
  /\ StopsIn(frames) = stops

\* A text is told with its reasoning beside it and the reason it ended.
LEMMA TextTold ==
    ASSUME set \in Scenarios, NEW content, NEW reasoning, NEW finish, Stop(finish) # "none"
    PROVE  Told(EmitText(content, reasoning, finish), content, reasoning, FALSE, {Stop(finish)}, {})
<1> DEFINE a == [Blank EXCEPT !.thinking = reasoning]
           b == [Blank EXCEPT !.content = content]
           c == [Blank EXCEPT !.stop = Stop(finish)]
           d == [Blank EXCEPT !.content = content, !.thinking = reasoning, !.stop = Stop(finish)]
<1>1. /\ a["content"] = {} /\ a["thinking"] = reasoning /\ a["error"] = {} /\ a.calls = FALSE /\ a.stop = "none"
      /\ b["content"] = content /\ b["thinking"] = {} /\ b["error"] = {} /\ b.calls = FALSE /\ b.stop = "none"
      /\ c["content"] = {} /\ c["thinking"] = {} /\ c["error"] = {} /\ c.calls = FALSE /\ c.stop = Stop(finish)
      /\ d["content"] = content /\ d["thinking"] = reasoning /\ d["error"] = {}
      /\ d.calls = FALSE /\ d.stop = Stop(finish)
  BY DEF Blank
<1>2. set.streamed \in BOOLEAN
  BY ScenariosAssumption
<1>3. CASE ~set.streamed
  <2>1. EmitText(content, reasoning, finish) = <<d>>
    BY <1>3 DEF EmitText
  <2> HIDE DEF d
  <2> QED
    BY <1>1, <2>1, OneFrame DEF Told
<1>4. CASE set.streamed /\ reasoning = {}
  <2>1. EmitText(content, reasoning, finish) = <<b, c>>
    BY <1>4, Heads DEF EmitText, Thinking
  <2> HIDE DEF b, c
  <2> DEFINE F == EmitText(content, reasoning, finish)
  <2>2. HasIn(F, "content") = content /\ HasIn(F, "thinking") = {} /\ HasIn(F, "error") = {}
    <3>1. HasIn(F, "content") = content \cup {} /\ HasIn(F, "thinking") = {} \cup {} /\ HasIn(F, "error") = {} \cup {}
      <4>1. \A field : HasIn(F, field) = b[field] \cup c[field]
        BY <2>1, TwoFrames
      <4> HIDE DEF F, b, c
      <4> QED
        BY <1>1, <4>1
    <3> HIDE DEF F
    <3> QED
      BY <3>1
  <2>3. ~CallsIn(F) /\ StopsIn(F) = {Stop(finish)}
    BY <1>1, <2>1, TwoFrames
  <2> QED
    BY <1>4, <2>2, <2>3 DEF Told
<1>5. CASE set.streamed /\ reasoning # {}
  <2>1. EmitText(content, reasoning, finish) = <<a, b, c>>
    BY <1>5, Heads DEF EmitText, Thinking
  <2> HIDE DEF a, b, c
  <2> DEFINE F == EmitText(content, reasoning, finish)
  <2>2. HasIn(F, "content") = content /\ HasIn(F, "thinking") = reasoning /\ HasIn(F, "error") = {}
    <3>1. /\ HasIn(F, "content") = {} \cup content \cup {}
          /\ HasIn(F, "thinking") = reasoning \cup {} \cup {}
          /\ HasIn(F, "error") = {} \cup {} \cup {}
      <4>1. \A field : HasIn(F, field) = a[field] \cup b[field] \cup c[field]
        BY <2>1, ThreeFrames
      <4> HIDE DEF F, a, b, c
      <4> QED
        BY <1>1, <4>1
    <3> HIDE DEF F
    <3> QED
      BY <3>1
  <2>3. ~CallsIn(F) /\ StopsIn(F) = {Stop(finish)}
    BY <1>1, <2>1, ThreeFrames
  <2> QED
    BY <2>2, <2>3 DEF Told
<1> QED
  BY <1>2, <1>3, <1>4, <1>5

\* A tool call is told as one; the text that came with it may be left out.
LEMMA CallsTold ==
    ASSUME set \in Scenarios, NEW r
    PROVE  \E content, reasoning :
              /\ Told(EmitCalls(r), content, reasoning, TRUE, {Stop("tool_calls")}, {})
              /\ content \in {r.content, {}}
<1> DEFINE reasoning == IF set.replay = "full" \/ (set.wire = "openai" /\ set.replay = "keep-last")
                        THEN r.reasoning ELSE {}
           content == IF set.wire = "openai" THEN r.content ELSE {}
           begun == [Blank EXCEPT !.thinking = reasoning, !.content = content]
           calls == [Blank EXCEPT !.calls = TRUE]
           stop == [Blank EXCEPT !.stop = Stop("tool_calls")]
           all == [begun EXCEPT !.calls = TRUE, !.stop = Stop("tool_calls")]
           F == EmitCalls(r)
<1> HIDE DEF reasoning, content
<1>1. /\ begun["content"] = content /\ begun["thinking"] = reasoning /\ begun["error"] = {}
      /\ begun.calls = FALSE /\ begun.stop = "none"
      /\ calls["content"] = {} /\ calls["thinking"] = {} /\ calls["error"] = {}
      /\ calls.calls = TRUE /\ calls.stop = "none"
      /\ stop["content"] = {} /\ stop["thinking"] = {} /\ stop["error"] = {}
      /\ stop.calls = FALSE /\ stop.stop = Stop("tool_calls")
      /\ all["content"] = content /\ all["thinking"] = reasoning /\ all["error"] = {}
      /\ all.calls = TRUE /\ all.stop = Stop("tool_calls")
  BY DEF Blank
<1>2. set.streamed \in BOOLEAN /\ Stop("tool_calls") # "none"
  BY ScenariosAssumption DEF Stop, AnthropicStop, OpenAiStop
<1>3. EmitCalls(r) = IF set.streamed THEN (IF begun = Blank THEN <<>> ELSE <<begun>>) \o <<calls, stop>> ELSE <<all>>
  BY DEF EmitCalls, reasoning, content
<1>4. begun = Blank => content = {} /\ reasoning = {}
  BY <1>1 DEF Blank
<1> HIDE DEF begun, calls, stop, all, F
<1>5. Told(F, content, reasoning, TRUE, {Stop("tool_calls")}, {})
  <2>1. CASE ~set.streamed
    <3>1. F = <<all>>
      BY <1>3, <2>1 DEF F
    <3> QED
      BY <1>1, <1>2, <3>1, OneFrame DEF Told
  <2>2. CASE set.streamed /\ begun = Blank
    <3>1. F = <<calls, stop>>
      BY <1>3, <2>2, Heads DEF F
    <3>2. HasIn(F, "content") = {} \cup {} /\ HasIn(F, "thinking") = {} \cup {} /\ HasIn(F, "error") = {} \cup {}
      BY <1>1, <3>1, TwoFrames
    <3>3. CallsIn(F) /\ StopsIn(F) = {Stop("tool_calls")}
      BY <1>1, <1>2, <3>1, TwoFrames
    <3>4. HasIn(F, "content") = {} /\ HasIn(F, "thinking") = {} /\ HasIn(F, "error") = {}
      BY <3>2
    <3> QED
      BY <1>4, <2>2, <3>3, <3>4 DEF Told
  <2>3. CASE set.streamed /\ begun # Blank
    <3>1. F = <<begun, calls, stop>>
      BY <1>3, <2>3, Heads DEF F
    <3>2. /\ HasIn(F, "content") = content \cup {} \cup {}
          /\ HasIn(F, "thinking") = reasoning \cup {} \cup {}
          /\ HasIn(F, "error") = {} \cup {} \cup {}
      <4>1. \A field : HasIn(F, field) = begun[field] \cup calls[field] \cup stop[field]
        BY <3>1, ThreeFrames
      <4>2. HasIn(F, "content") = begun["content"] \cup calls["content"] \cup stop["content"]
        BY <4>1
      <4>3. HasIn(F, "thinking") = begun["thinking"] \cup calls["thinking"] \cup stop["thinking"]
        BY <4>1
      <4>4. HasIn(F, "error") = begun["error"] \cup calls["error"] \cup stop["error"]
        BY <4>1
      <4> QED
        BY <1>1, <4>2, <4>3, <4>4
    <3>3. CallsIn(F) /\ StopsIn(F) = {Stop("tool_calls")}
      BY <1>1, <1>2, <3>1, ThreeFrames
    <3>4. HasIn(F, "content") = content /\ HasIn(F, "thinking") = reasoning /\ HasIn(F, "error") = {}
      BY <3>2
    <3> QED
      BY <3>3, <3>4 DEF Told
  <2> QED
    BY <1>2, <2>1, <2>2, <2>3
<1>6. content \in {r.content, {}}
  BY DEF content
<1> QED
  BY <1>5, <1>6 DEF F

\* A failure is told with a message, and ends as an error or not at all.
LEMMA FailureTold ==
    ASSUME set \in Scenarios, NEW f \in Failures
    PROVE  /\ SendException(f).status \in {200, 502}
           /\ LET F == SendException(f).frames
              IN HasIn(F, "content") = {} /\ HasIn(F, "error") # {} /\ StopsIn(F) \subseteq {"error"}
<1> DEFINE m == ErrorMessage(f)
           a == [Blank EXCEPT !.error = m]
           b == [Blank EXCEPT !.stop = "error"]
<1>1. m # {}
  BY DEF ErrorMessage
<1> HIDE DEF m
<1>2. /\ a["content"] = {} /\ a["error"] = m /\ a.stop = "none"
      /\ b["content"] = {} /\ b["error"] = {} /\ b.stop = "error"
  BY DEF Blank
<1>3. \/ SendException(f) = [status |-> 200, frames |-> <<a>>]
      \/ SendException(f) = [status |-> 200, frames |-> <<b, a>>]
      \/ SendException(f) = [status |-> 502, frames |-> <<a>>]
  BY DEF SendException, Ok, ErrorFrames, m
<1> DEFINE F == SendException(f).frames
<1>4. SendException(f).status \in {200, 502} /\ F \in {<<a>>, <<b, a>>}
  BY <1>3
<1> HIDE DEF a, b, F
<1>5. CASE F = <<a>>
  BY <1>1, <1>2, <1>4, <1>5, OneFrame DEF F
<1>6. CASE F = <<b, a>>
  <2>1. \A field : HasIn(F, field) = b[field] \cup a[field]
    BY <1>6, TwoFrames
  <2>2. HasIn(F, "content") = {} /\ HasIn(F, "error") = m
    <3>1. HasIn(F, "content") = b["content"] \cup a["content"]
      BY <2>1
    <3>2. HasIn(F, "error") = b["error"] \cup a["error"]
      BY <2>1
    <3>3. HasIn(F, "content") = {} \cup {} /\ HasIn(F, "error") = {} \cup m
      BY <1>2, <3>1, <3>2
    <3> QED
      BY <3>3
  <2>3. StopsIn(F) \subseteq {"error"}
    BY <1>2, <1>6, TwoFrames
  <2> QED
    BY <1>1, <1>4, <2>2, <2>3 DEF F
<1> QED
  BY <1>4, <1>5, <1>6

\* The properties look at the frames.
LEMMA Seen ==
    /\ \A field : Has(field)' = HasIn(answer'.frames, field)
    /\ Calls' <=> CallsIn(answer'.frames)
    /\ Stops' = StopsIn(answer'.frames)
  BY DEF Has, HasIn, Calls, CallsIn, Stops, StopsIn

\* A generation without calls keeps its text, its thinking apart, and why it ended.
LEMMA TextParsed ==
    ASSUME NEW g \in Generations, g.calls = "none"
    PROVE  /\ Parsed(g).calls = "none" /\ Parsed(g).finish = g.finish /\ g.finish \in {"stop", "length"}
           /\ "thought" \notin Parsed(g).content
           /\ (g.text # "none" \/ g.thought) => Parsed(g).content # {} \/ Parsed(g).reasoning # {}
           /\ (g.thought \/ g.text = "tagged") => "thought" \in Parsed(g).reasoning
<1>1. /\ g.text \in {"none", "plain", "tagged"} /\ g.thought \in BOOLEAN
      /\ g.finish \in {"stop", "length"} /\ (g.thought => g.text # "tagged")
  BY DEF Generations
<1>2. Parsed(g) = [content |-> Clean(g), reasoning |-> ResolveReasoning(PutAside(g), Tags(g)),
                   calls |-> "none", finish |-> g.finish]
  BY DEF Parsed
<1>3. g.text = "plain" \/ g.text = "tagged" => "said" \in Clean(g)
  BY DEF Clean, Raw
<1>4. g.text = "tagged" => "thought" \in Tags(g)
  BY DEF Tags, Raw
<1>5. g.thought => ResolveReasoning(PutAside(g), Tags(g)) = {"thought"}
  BY DEF ResolveReasoning, PutAside
<1>6. ~g.thought => ResolveReasoning(PutAside(g), Tags(g)) = Tags(g)
  BY DEF ResolveReasoning, PutAside
<1>7. "thought" \notin Clean(g)
  BY DEF Clean
<1> QED
  BY <1>1, <1>2, <1>3, <1>4, <1>5, <1>6, <1>7

\* A generation with calls has no thinking in its text.
LEMMA CallsParsed ==
    ASSUME NEW g \in Generations, g.calls # "none"
    PROVE  Parsed(g).calls = g.calls /\ Parsed(g).finish = "none" /\ "thought" \notin Parsed(g).content
<1>1. /\ g.text \in {"none", "plain", "tagged"} /\ g.thought \in BOOLEAN /\ (g.thought => g.text # "tagged")
  BY DEF Generations
<1>2. Parsed(g) = [content |-> ToolcallContent(g),
          reasoning |-> ResolveReasoning(PutAside(g), IF Tags(g) # {} THEN Tags(g) ELSE Raw(g)),
          calls |-> g.calls, finish |-> "none"]
  BY DEF Parsed
<1>3. "thought" \notin ToolcallContent(g)
  <2>1. "thought" \notin Clean(g)
    BY DEF Clean
  <2>2. g.thought => "thought" \notin Raw(g)
    BY <1>1 DEF Raw
  <2>3. ~g.thought => PutAside(g) = {}
    BY DEF PutAside
  <2> QED
    BY <2>1, <2>2, <2>3 DEF ToolcallContent
<1> QED
  BY <1>2, <1>3

\* Every reason to stop has a name, and what was cut off does not end by itself.
LEMMA StopsTell ==
    ASSUME set \in Scenarios, NEW finish \in {"stop", "length", "none"}
    PROVE  Stop(finish) # "none" /\ (finish = "length" => {Stop(finish)} \cap {"stop", "end_turn"} = {})
  BY DEF Stop, AnthropicStop, OpenAiStop

\* An answer told like that has the properties.
LEMMA AnsweredWell ==
    ASSUME NEW g \in Generations, made' = g, at' = "answered", NEW content, NEW reasoning, NEW calls \in BOOLEAN,
           NEW stops,
           Told(answer'.frames, content, reasoning, calls, stops, {}), "thought" \notin content,
           (g.text # "none" \/ g.thought \/ g.calls # "none") => content # {} \/ reasoning # {} \/ calls,
           g.calls = "none" /\ (g.thought \/ g.text = "tagged") => "thought" \in reasoning,
           g.calls = "none" /\ g.finish = "length" => stops \cap {"stop", "end_turn"} = {}
    PROVE  ThoughtIsNotSaid' /\ NoSilentTurn' /\ CutTextIsCut' /\ FailureIsSeen'
<1>1. made'.kind = "generation"
  BY DEF Generations
<1>2. Has("content")' = content /\ Has("thinking")' = reasoning /\ (Calls' <=> calls) /\ Stops' = stops
  BY Seen DEF Told
<1>3. ThoughtIsNotSaid'
  BY <1>2 DEF ThoughtIsNotSaid
<1>4. NoSilentTurn'
  BY <1>2 DEF NoSilentTurn
<1>5. CutTextIsCut'
  BY <1>2 DEF CutTextIsCut
<1>6. FailureIsSeen'
  BY <1>1 DEF FailureIsSeen, Generated
<1> QED
  BY <1>3, <1>4, <1>5, <1>6

\* What a client holds.
Roles == {"user", "assistant", "tool"}
Bodies == [blocks : BOOLEAN, parts : Seq(Nat)]
Messages == [role : Roles, calls : BOOLEAN, thinks : BOOLEAN, content : Bodies]

\* TurnIsTold is inductive, with the type of what the client holds.
TurnInvariant == history \in Seq(Messages) /\ TurnIsTold

\* The invariant holds of what forge is started with.
LEMMA TurnStarts ==
    ASSUME ForgeInit
    PROVE  TurnInvariant
<1>1. HasIn(answer.frames, "content") = {}
  BY DEF ForgeInit, Ok, HasIn
<1>2. history \in Seq(Messages)
  BY DEF ForgeInit
<1>3. TypeOK
  BY TurnsAssumption, ScenariosAssumption DEF ForgeInit, TypeOK, Ok, AttemptLimit
<1>4. ThoughtIsNotSaid
  BY <1>1 DEF ThoughtIsNotSaid, Has, HasIn
<1> QED
  BY <1>2, <1>3, <1>4 DEF TurnInvariant, TurnIsTold, NoSilentTurn, CutTextIsCut, FailureIsSeen, Answered, ForgeInit

\* What the client asks and takes are messages.
LEMMA AsksMessages ==
    ASSUME TurnInvariant, turn' = turn + 1, NEW m \in Asks
    PROVE  m \in Messages /\ m.role \in {"user", "tool"}
<1>1. turn' \in Nat
  BY TurnsAssumption DEF TurnInvariant, TurnIsTold, TypeOK
<1>2. <<turn'>> \in Seq(Nat)
  BY <1>1
<1>3. \A b \in BOOLEAN : Says(turn', b) \in Bodies
  BY <1>2 DEF Says, Bodies
<1>4. /\ Message("tool", FALSE, FALSE, Says(turn', FALSE)) \in Messages
      /\ \A b \in BOOLEAN : Message("user", FALSE, FALSE, Says(turn', b)) \in Messages
  BY <1>3 DEF Message, Messages, Roles
<1>5. \/ m = Message("tool", FALSE, FALSE, Says(turn', FALSE))
      \/ \E b \in BOOLEAN : m = Message("user", FALSE, FALSE, Says(turn', b))
  BY DEF Asks
<1>6. \A c : Message("tool", FALSE, FALSE, c).role = "tool" /\ Message("user", FALSE, FALSE, c).role = "user"
  BY DEF Message
<1> QED
  BY <1>4, <1>5, <1>6

\* What the client takes is a message.
LEMMA TakesMessage ==
    ASSUME TurnInvariant, NEW c \in BOOLEAN, NEW t \in BOOLEAN
    PROVE  Message("assistant", c, t, Says(turn, FALSE)) \in Messages
<1>1. <<turn>> \in Seq(Nat)
  BY TurnsAssumption DEF TurnInvariant, TurnIsTold, TypeOK
<1>2. Says(turn, FALSE) \in Bodies
  BY <1>1 DEF Says, Bodies
<1> QED
  BY <1>2 DEF Message, Messages, Roles

\* A longer history is one of messages.
LEMMA HistoryGrows ==
    ASSUME history \in Seq(Messages), NEW m \in Messages, history' = Append(history, m)
    PROVE  history' \in Seq(Messages) /\ (\A i \in DOMAIN history' : history'[i].role \in Roles)
<1>1. Append(history, m) \in Seq(Messages)
  BY AppendProperties
<1>2. PICK h : h = history'
  OBVIOUS
<1>3. h \in Seq(Messages)
  BY <1>1, <1>2
<1>4. \A i \in DOMAIN h : h[i] \in Messages
  BY <1>3, LenProperties, ElementOfSeq
<1> QED
  BY <1>2, <1>3, <1>4 DEF Messages

\* The fields keep their kind.
LEMMA Typed ==
    ASSUME TurnInvariant, set' = set, turn' \in 0..MaxTurns, at' \in {"client", "forge", "answered"},
           attempt' \in 0..(AttemptLimit - 1), made' \in Generations \cup Failures \cup {NotAsked},
           answer'.status \in {200, 502},
           \/ history' = history
           \/ \E m \in Messages : history' = Append(history, m)
    PROVE  history' \in Seq(Messages) /\ TypeOK'
<1>1. set' \in Scenarios /\ AttemptLimit' = AttemptLimit
  BY DEF TurnInvariant, TurnIsTold, TypeOK, AttemptLimit
<1>2. history' \in Seq(Messages) /\ (\A i \in DOMAIN history' : history'[i].role \in Roles)
  BY HistoryGrows DEF TurnInvariant, TurnIsTold, TypeOK, Roles
<1> QED
  BY <1>1, <1>2 DEF TypeOK, Roles

\* A question tells nothing yet.
LEMMA AskTold ==
    ASSUME TurnInvariant, Ask
    PROVE  TurnInvariant'
<1>1. PICK m \in Asks : history' = Append(history, m)
  BY DEF Ask
<1>2. turn' = turn + 1 /\ turn' \in 0..MaxTurns
  BY TurnsAssumption DEF Ask, TurnInvariant, TurnIsTold, TypeOK
<1>3. m \in Messages
  BY <1>2, AsksMessages
<1>4. history' \in Seq(Messages) /\ TypeOK'
  BY <1>1, <1>2, <1>3, Typed DEF Ask, TurnInvariant, TurnIsTold, TypeOK
<1>5. Has("content")' = Has("content") /\ ~Answered'
  BY DEF Ask, Has, Answered
<1> QED
  BY <1>4, <1>5 DEF TurnInvariant, TurnIsTold, ThoughtIsNotSaid, NoSilentTurn, CutTextIsCut, FailureIsSeen

\* An answer taken is told no more.
LEMMA TakeTold ==
    ASSUME TurnInvariant, Take
    PROVE  TurnInvariant'
<1>1. history' = history \/ \E m \in Messages : history' = Append(history, m)
  <2> DEFINE c == Calls
             t == Has("thinking") # {}
  <2>1. c \in BOOLEAN /\ t \in BOOLEAN
    BY DEF Calls
  <2>2. history' = history \/ history' = Append(history, Message("assistant", c, t, Says(turn, FALSE)))
    BY DEF Take
  <2> HIDE DEF c, t
  <2> QED
    BY <2>1, <2>2, TakesMessage
<1>2. 0 \in 0..(AttemptLimit - 1)
  BY ScenariosAssumption DEF AttemptLimit, TurnInvariant, TurnIsTold, TypeOK
<1>3. history' \in Seq(Messages) /\ TypeOK'
  BY <1>1, <1>2, Typed DEF Take, Ok, TurnInvariant, TurnIsTold, TypeOK
<1>4. HasIn(answer'.frames, "content") = {}
  BY DEF Take, Ok, HasIn
<1>5. Has("content")' = {} /\ ~Answered'
  BY <1>4, Seen DEF Take, Answered
<1> QED
  BY <1>3, <1>5 DEF TurnInvariant, TurnIsTold, ThoughtIsNotSaid, NoSilentTurn, CutTextIsCut, FailureIsSeen

\* A failure is told.
LEMMA FailTold ==
    ASSUME TurnInvariant, NEW f \in Failures, Fail(f)
    PROVE  TurnInvariant'
<1>1. answer' = SendException(f) /\ at' = "answered" /\ made' = f /\ set \in Scenarios
  BY DEF Fail, Answer, TurnInvariant, TurnIsTold, TypeOK
<1>2. /\ SendException(f).status \in {200, 502}
      /\ HasIn(answer'.frames, "content") = {} /\ HasIn(answer'.frames, "error") # {}
      /\ StopsIn(answer'.frames) \subseteq {"error"}
  BY <1>1, FailureTold
<1>3. history' \in Seq(Messages) /\ TypeOK'
  BY <1>1, <1>2, Typed DEF Fail, TurnInvariant, TurnIsTold, TypeOK
<1>4. Has("content")' = {} /\ Has("error")' # {} /\ Stops' \subseteq {"error"}
  BY <1>2, Seen
<1>5. ~Generated'
  BY <1>1 DEF Generated, Failures
<1> QED
  BY <1>3, <1>4, <1>5 DEF TurnInvariant, TurnIsTold, ThoughtIsNotSaid, NoSilentTurn, CutTextIsCut, FailureIsSeen

\* A generation is told, refused or not; the attempts never run out before the answer.
LEMMA GenerateTold ==
    ASSUME TurnInvariant, NEW g \in Generations, Generate(g)
    PROVE  TurnInvariant'
<1> DEFINE r == Parsed(g)
<1>1. set \in Scenarios /\ made' = g /\ UNCHANGED <<set, history, turn>> /\ at = "forge" /\ set.tools \in BOOLEAN
      /\ (set.tools \/ g.calls = "none") /\ attempt \in 0..(AttemptLimit - 1) /\ set.maxRetries \in Nat
      /\ turn \in 0..MaxTurns
  BY ScenariosAssumption DEF Generate, TurnInvariant, TurnIsTold, TypeOK
<1>2. g.calls # "none" => Parsed(g).calls = g.calls /\ Parsed(g).finish = "none" /\ "thought" \notin Parsed(g).content
  BY CallsParsed
<1>3. ASSUME attempt' \in 0..(AttemptLimit - 1), at' = "answered",
             answer' = Ok(EmitText(r.content, r.reasoning, r.finish)), g.calls = "none"
      PROVE  TurnInvariant'
  <2>1. r.finish = g.finish /\ g.finish \in {"stop", "length"} /\ "thought" \notin r.content
        /\ ((g.text # "none" \/ g.thought) => r.content # {} \/ r.reasoning # {})
        /\ ((g.thought \/ g.text = "tagged") => "thought" \in r.reasoning)
    BY <1>3, TextParsed
  <2>2. Stop(r.finish) # "none" /\ (r.finish = "length" => {Stop(r.finish)} \cap {"stop", "end_turn"} = {})
    BY <1>1, <2>1, StopsTell
  <2>3. answer'.frames = EmitText(r.content, r.reasoning, r.finish) /\ answer'.status = 200
    BY <1>3 DEF Ok
  <2> HIDE DEF r
  <2>4. Told(answer'.frames, r.content, r.reasoning, FALSE, {Stop(r.finish)}, {})
    <3>1. Told(EmitText(r.content, r.reasoning, r.finish), r.content, r.reasoning, FALSE, {Stop(r.finish)}, {})
      BY <1>1, <2>2, TextTold
    <3> QED
      BY <2>3, <3>1
  <2>5. ThoughtIsNotSaid' /\ NoSilentTurn' /\ CutTextIsCut' /\ FailureIsSeen'
    BY <1>1, <1>3, <2>1, <2>2, <2>4, AnsweredWell
  <2>6. history' \in Seq(Messages) /\ TypeOK'
    BY <1>1, <1>3, <2>3, Typed
  <2> QED
    BY <2>5, <2>6 DEF TurnInvariant, TurnIsTold
<1>4. ASSUME attempt' \in 0..(AttemptLimit - 1), at' = "answered",
             answer' = Ok(EmitText({"call"}, r.reasoning, r.finish)), g.calls # "none"
      PROVE  TurnInvariant'
  <2>1. Stop(r.finish) # "none"
    BY <1>1, <1>2, <1>4, StopsTell
  <2>2. answer'.frames = EmitText({"call"}, r.reasoning, r.finish) /\ answer'.status = 200
    BY <1>4 DEF Ok
  <2> HIDE DEF r
  <2>3. Told(answer'.frames, {"call"}, r.reasoning, FALSE, {Stop(r.finish)}, {})
    <3>1. Told(EmitText({"call"}, r.reasoning, r.finish), {"call"}, r.reasoning, FALSE, {Stop(r.finish)}, {})
      BY <1>1, <2>1, TextTold
    <3> QED
      BY <2>2, <3>1
  <2>4. ThoughtIsNotSaid' /\ NoSilentTurn' /\ CutTextIsCut' /\ FailureIsSeen'
    BY <1>1, <1>4, <2>3, AnsweredWell
  <2>5. history' \in Seq(Messages) /\ TypeOK'
    BY <1>1, <1>4, <2>2, Typed
  <2> QED
    BY <2>4, <2>5 DEF TurnInvariant, TurnIsTold
<1>5. ASSUME attempt' \in 0..(AttemptLimit - 1), at' = "answered", answer' = Ok(EmitCalls(r)), g.calls # "none"
      PROVE  TurnInvariant'
  <2>1. answer'.frames = EmitCalls(r) /\ answer'.status = 200
    BY <1>5 DEF Ok
  <2>2. "thought" \notin r.content
    BY <1>2, <1>5
  <2> HIDE DEF r
  <2>3. PICK content, reasoning : /\ Told(EmitCalls(r), content, reasoning, TRUE, {Stop("tool_calls")}, {})
                                 /\ content \in {r.content, {}}
    BY <1>1, CallsTold
  <2>4. ThoughtIsNotSaid' /\ NoSilentTurn' /\ CutTextIsCut' /\ FailureIsSeen'
    <3>1. Told(answer'.frames, content, reasoning, TRUE, {Stop("tool_calls")}, {}) /\ "thought" \notin content
      BY <2>1, <2>2, <2>3
    <3> QED
      BY <1>1, <1>5, <3>1, AnsweredWell
  <2>5. history' \in Seq(Messages) /\ TypeOK'
    BY <1>1, <1>5, <2>1, Typed
  <2> QED
    BY <2>4, <2>5 DEF TurnInvariant, TurnIsTold
<1>6. ASSUME attempt' \in 0..(AttemptLimit - 1), at' = "forge", answer' = answer
      PROVE  TurnInvariant'
  <2>1. history' \in Seq(Messages) /\ TypeOK'
    BY <1>1, <1>6, Typed DEF TurnInvariant, TurnIsTold, TypeOK
  <2>2. Has("content")' = Has("content") /\ ~Answered'
    BY <1>6 DEF Has, Answered
  <2> QED
    BY <2>1, <2>2 DEF TurnInvariant, TurnIsTold, ThoughtIsNotSaid, NoSilentTurn, CutTextIsCut, FailureIsSeen
<1>7. CASE ~set.tools
  <2>1. attempt' = attempt /\ at' = "answered" /\ answer' = Ok(EmitText(r.content, r.reasoning, r.finish))
    BY <1>7 DEF Generate, Answer
  <2> QED
    BY <1>1, <1>3, <1>7, <2>1
<1>8. CASE set.tools /\ r.calls = "good"
  <2>1. attempt' = attempt /\ at' = "answered" /\ answer' = Ok(EmitCalls(r))
    BY <1>8 DEF Generate, Answer
  <2>2. g.calls # "none"
    BY <1>8, TextParsed
  <2> QED
    BY <1>1, <1>5, <2>1, <2>2
<1>9. CASE set.tools /\ r.calls # "good"
  <2>1. Refuse(r)
    BY <1>9 DEF Generate
  <2>2. CASE at' = "answered" /\ answer' = Ok(Exhausted(r)) /\ attempt' = attempt
    <3>1. CASE g.calls = "none"
      <4>1. Exhausted(r) = EmitText(r.content, r.reasoning, r.finish)
        BY <3>1, TextParsed DEF Exhausted
      <4> QED
        BY <1>1, <1>3, <2>2, <3>1, <4>1
    <3>2. CASE g.calls # "none"
      <4>1. Exhausted(r) = EmitText({"call"}, r.reasoning, r.finish)
        BY <1>2, <3>2 DEF Exhausted
      <4> QED
        BY <1>1, <1>4, <2>2, <3>2, <4>1
    <3> QED
      BY <3>1, <3>2
  <2>3. CASE attempt # AttemptLimit - 1 /\ attempt' = attempt + 1
             /\ (attempt' # AttemptLimit => UNCHANGED <<at, answer>>)
    <3>1. attempt' \in 0..(AttemptLimit - 1) /\ attempt' # AttemptLimit
      BY <1>1, <2>3 DEF AttemptLimit
    <3> QED
      BY <1>1, <1>6, <2>3, <3>1
  <2> QED
    BY <2>1, <2>2, <2>3 DEF Refuse, MustGiveUp, Answer
<1> QED
  BY <1>1, <1>7, <1>8, <1>9

\* Every step keeps the invariant.
LEMMA TurnSteps ==
    ASSUME TurnInvariant, [ForgeNext]_forgeVars
    PROVE  TurnInvariant'
<1>1. CASE Ask
  BY <1>1, AskTold
<1>2. CASE Take
  BY <1>2, TakeTold
<1>3. ASSUME NEW g \in Generations, Generate(g) PROVE TurnInvariant'
  BY <1>3, GenerateTold
<1>4. ASSUME NEW f \in Failures, Fail(f) PROVE TurnInvariant'
  BY <1>4, FailTold
<1>5. CASE UNCHANGED forgeVars
  <2>1. Has("content")' = Has("content") /\ Has("thinking")' = Has("thinking") /\ Has("error")' = Has("error")
        /\ (Calls' <=> Calls) /\ Stops' = Stops /\ AttemptLimit' = AttemptLimit
    BY <1>5 DEF forgeVars, AttemptLimit, Has, Calls, Stops
  <2>2. UNCHANGED <<set, history, turn, at, attempt, made, answer>>
    BY <1>5 DEF forgeVars
  <2>3. TypeOK' /\ history' \in Seq(Messages)
    BY <2>1, <2>2 DEF TurnInvariant, TurnIsTold, TypeOK
  <2> QED
    BY <2>1, <2>2, <2>3 DEF TurnInvariant, TurnIsTold, ThoughtIsNotSaid, NoSilentTurn,
         CutTextIsCut, FailureIsSeen, Answered, Generated
<1> QED
  BY <1>1, <1>2, <1>3, <1>4, <1>5 DEF ForgeNext

\* ForgeTurn, what forge answers (forge with patches/forge_*.py): for every setup, what the
\* client takes a turn to be is what the backend made.
THEOREM TurnTold == ForgeSpec => []TurnIsTold
<1>1. TurnInvariant /\ [ForgeNext]_forgeVars => TurnInvariant'
  BY TurnSteps
<1>2. TurnInvariant => TurnIsTold
  BY DEF TurnInvariant
<1>3. ForgeInit => TurnInvariant
  BY TurnStarts
<1> QED
  BY <1>1, <1>2, <1>3, PTL DEF ForgeSpec

-----------------------------------------------------------------------------
(* ForgeTurn: the prompt *)

\* The last of a sequence of messages, and what is before it.
LEMMA FrontAndLast ==
    ASSUME NEW S, NEW out \in Seq(S), out # <<>>
    PROVE  \E front \in Seq(S) : out = Append(front, out[Len(out)]) /\ out[Len(out)] \in S /\ Len(out) = Len(front) + 1
<1> DEFINE n == Len(out)
           front == SubSeq(out, 1, n - 1)
<1>1. n \in Nat \ {0} /\ \A i \in 1..n : out[i] \in S
  BY EmptySeq, LenProperties, ElementOfSeq
<1>2. front \in Seq(S) /\ Len(front) = n - 1 /\ (\A i \in 1..(n - 1) : front[i] = out[i])
  <2> HIDE DEF n
  <2>1. \A i \in 1..(n - 1) : out[i] \in S
    BY <1>1
  <2>2. 1 \in Int /\ n - 1 \in Int
    BY <1>1
  <2> QED
    BY <1>1, <2>1, <2>2, SubSeqProperties
<1>3. /\ Append(front, out[n]) \in Seq(S) /\ Len(Append(front, out[n])) = n
      /\ \A i \in 1..n : Append(front, out[n])[i] = out[i]
  <2> HIDE DEF n, front
  <2>1. out[n] \in S
    BY <1>1
  <2> QED
    BY <1>1, <1>2, <2>1, AppendProperties
<1>4. Append(front, out[n]) = out
  <2> HIDE DEF front
  <2> QED
    BY <1>3, SeqEqual
<1>5. out[n] \in S /\ n = Len(front) + 1
  BY <1>1, <1>2
<1> HIDE DEF front
<1> QED
  BY <1>2, <1>4, <1>5

\* Folding writes a message, or into the last one.
Joins(out, m, result) ==
  \/ result = Append(out, m) /\ ~Folds(out, m)
  \/ \E front \in Seq(Messages), last \in Messages, new \in Messages :
        /\ out = Append(front, last) /\ result = Append(front, new)
        /\ new.role = last.role /\ last.role = m.role
        /\ new.content.parts = last.content.parts \o m.content.parts

\* The last of a sequence is what was appended.
LEMMA LastIs ==
    ASSUME NEW front \in Seq(Messages), NEW e \in Messages
    PROVE  Last(Append(front, e)) = e /\ Append(front, e) # <<>>
  BY AppendProperties DEF Last

\* Those are the two cases of FoldMessage: the place it chooses is the last.
LEMMA FoldJoins ==
    ASSUME NEW out \in Seq(Messages), NEW m \in Messages
    PROVE  Joins(out, m, FoldMessage(out, m)) /\ FoldMessage(out, m) \in Seq(Messages)
<1>1. CASE ~Folds(out, m)
  <2>1. FoldMessage(out, m) = Append(out, m)
    BY <1>1 DEF FoldMessage
  <2>2. Append(out, m) \in Seq(Messages)
    BY AppendProperties
  <2> QED
    BY <1>1, <2>1, <2>2 DEF Joins
<1>2. CASE Folds(out, m)
  <2> DEFINE n == Len(out)
             last == out[n]
             new == [last EXCEPT !.content = MergeContent(last.content, m.content)]
  <2>1. out # <<>> /\ n \in Nat \ {0} /\ Last(out) = last /\ Visible(last) /\ last.role = m.role
    BY <1>2, EmptySeq DEF Folds, Last
  <2>2. PICK front \in Seq(Messages) : out = Append(front, last) /\ last \in Messages /\ n = Len(front) + 1
    BY <2>1, FrontAndLast
  <2> HIDE DEF n, last
  <2>3. new \in Messages /\ new.role = last.role /\ new.content.parts = last.content.parts \o m.content.parts
    <3>1. MergeContent(last.content, m.content) \in Bodies
      <4>1. last.content.parts \o m.content.parts \in Seq(Nat)
        BY <2>2, ConcatProperties DEF Messages, Bodies
      <4> QED
        BY <2>2, <4>1 DEF MergeContent, Messages, Bodies
    <3>2. MergeContent(last.content, m.content).parts = last.content.parts \o m.content.parts
      BY DEF MergeContent
    <3> QED
      BY <2>2, <3>1, <3>2 DEF Messages
  <2>4. (CHOOSE i \in DOMAIN out : Visible(out[i]) /\ \A j \in (i + 1)..Len(out) : ~Visible(out[j])) = n
    <3>1. DOMAIN out = 1..n /\ n \in 1..n
      BY <2>1, LenProperties DEF n
    <3>2. Visible(out[n]) /\ \A j \in (n + 1)..Len(out) : ~Visible(out[j])
      BY <2>1 DEF n, last
    <3>3. \A i \in 1..n : (\A j \in (i + 1)..Len(out) : ~Visible(out[j])) => i = n
      <4>1. Len(out) = n
        BY DEF n
      <4>2. \A i \in 1..n : i # n => n \in (i + 1)..n
        BY <2>1
      <4> QED
        BY <3>2, <4>1, <4>2
    <3> QED
      BY <3>1, <3>2, <3>3
  <2>5. FoldMessage(out, m) = [out EXCEPT ![n].content = MergeContent(@, m.content)]
    BY <1>2, <2>4 DEF FoldMessage
  <2>6. FoldMessage(out, m) = [out EXCEPT ![n] = new]
    BY <2>5 DEF last
  <2> HIDE DEF new
  <2>7. /\ [out EXCEPT ![n] = new] \in Seq(Messages) /\ Len([out EXCEPT ![n] = new]) = n
        /\ \A j \in 1..n : [out EXCEPT ![n] = new][j] = IF j = n THEN new ELSE out[j]
    <3>1. n \in 1..Len(out)
      BY <2>1 DEF n
    <3>2. Len(out) = n
      BY DEF n
    <3> QED
      BY <2>3, <3>1, <3>2, ExceptSeq
  <2>8. /\ Append(front, new) \in Seq(Messages) /\ Len(Append(front, new)) = n
        /\ \A j \in 1..n : Append(front, new)[j] = IF j = n THEN new ELSE out[j]
    <3>1. Len(front) \in Nat
      BY LenProperties
    <3>2. \A j \in 1..Len(front) : Append(front, new)[j] = front[j] /\ out[j] = front[j]
      BY <2>2, <2>3, AppendProperties
    <3>3. Append(front, new) \in Seq(Messages) /\ Len(Append(front, new)) = n /\ Append(front, new)[n] = new
      BY <2>2, <2>3, AppendProperties
    <3> QED
      BY <2>2, <3>1, <3>2, <3>3
  <2>9. FoldMessage(out, m) = Append(front, new)
    <3> DEFINE x == [out EXCEPT ![n] = new]
               y == Append(front, new)
    <3>1. x \in Seq(Messages) /\ y \in Seq(Messages) /\ Len(x) = n /\ Len(y) = n /\ \A j \in 1..n : x[j] = y[j]
      BY <2>7, <2>8
    <3> HIDE DEF x, y
    <3>2. x = y
      BY <3>1, SeqEqual
    <3> QED
      BY <2>6, <3>2 DEF x, y
  <2> QED
    BY <2>1, <2>2, <2>3, <2>6, <2>7, <2>9 DEF Joins
<1> QED
  BY <1>1, <1>2

\* FoldMessage as a function.
MergeStep == [x \in Seq(Messages) \X Messages |-> FoldMessage(x[1], x[2])]

\* It takes messages to messages.
LEMMA MergeIsStep == IsStep(Seq(Messages), Messages, <<>>, MergeStep)
<1>1. <<>> \in Seq(Messages)
  OBVIOUS
<1>2. \A x \in Seq(Messages) \X Messages : FoldMessage(x[1], x[2]) \in Seq(Messages)
  BY FoldJoins
<1> QED
  BY <1>1, <1>2 DEF IsStep, MergeStep

\* The function the fold over messages chooses.
MergeFold(g, s) ==
  g = [t \in SUBSET DOMAIN s |-> IF t = {} THEN <<>> ELSE FoldMessage(g[t \ {Max(t)}], s[Max(t)])]

\* What a history is folded to, by that function.
LEMMA MergeIs ==
    ASSUME NEW s
    PROVE  MergeConsecutive(s) = (CHOOSE g : MergeFold(g, s))[DOMAIN s]
  BY DEF MergeConsecutive, FoldLeft, MapThenFoldSet, MergeFold

\* Messages are folded one after another.
LEMMA MergeFolds ==
    ASSUME NEW s \in Seq(Messages)
    PROVE  \E g : /\ MergeConsecutive(s) = ValueOf(g, s)
                  /\ FoldsBy(g, Seq(Messages), Messages, <<>>, MergeStep, s)
<1>1. PICK f : Steps(f, Seq(Messages), Messages, <<>>, MergeStep, s)
  BY MergeIsStep, StepsExist
<1>2. \A a \in Seq(Messages), m \in Messages : MergeStep[<<a, m>>] = FoldMessage(a, m)
  BY DEF MergeStep
<1>3. MergeFold(f, s)
  BY <1>1, <1>2 DEF Steps, MergeFold
<1> DEFINE g == CHOOSE h : MergeFold(h, s)
<1>4. MergeFold(g, s)
  BY <1>3
<1> HIDE DEF g
<1>5. TakesLast(g, Seq(Messages), <<>>, MergeStep, s)
  <2>1. DOMAIN s = 1..Len(s)
    BY LenProperties
  <2>2. \A t \in SUBSET DOMAIN s : t # {} => s[Max(t)] \in Messages
    BY <1>1 DEF Steps
  <2>3. \A t \in SUBSET DOMAIN s : g[t] = IF t = {} THEN <<>> ELSE FoldMessage(g[t \ {Max(t)}], s[Max(t)])
    BY <1>4 DEF MergeFold
  <2> QED
    BY <1>2, <2>1, <2>2, <2>3 DEF TakesLast
<1>6. FoldsBy(g, Seq(Messages), Messages, <<>>, MergeStep, s)
  BY <1>5, MergeIsStep, TakingLastFolds
<1>7. MergeConsecutive(s) = ValueOf(g, s)
  <2>1. DOMAIN s = 1..Len(s)
    BY LenProperties
  <2> QED
    BY <2>1, MergeIs DEF g, ValueOf
<1> QED
  BY <1>6, <1>7

\* A message more is folded into what the others were.
LEMMA MergeGrows ==
    ASSUME NEW s \in Seq(Messages), NEW m \in Messages
    PROVE  /\ MergeConsecutive(s) \in Seq(Messages)
           /\ MergeConsecutive(Append(s, m)) = FoldMessage(MergeConsecutive(s), m)
<1>1. PICK g : MergeConsecutive(s) = ValueOf(g, s) /\ FoldsBy(g, Seq(Messages), Messages, <<>>, MergeStep, s)
  BY MergeFolds
<1>2. PICK h : /\ MergeConsecutive(Append(s, m)) = ValueOf(h, Append(s, m))
              /\ FoldsBy(h, Seq(Messages), Messages, <<>>, MergeStep, Append(s, m))
  <2>1. Append(s, m) \in Seq(Messages)
    BY AppendProperties
  <2> QED
    BY <2>1, MergeFolds
<1>3. StepsOn(ValueOf(h, Append(s, m)), ValueOf(g, s), Seq(Messages), MergeStep, m)
  BY <1>1, <1>2, FoldGrows
<1> QED
  BY <1>1, <1>2, <1>3 DEF MergeStep, StepsOn

\* A folded history is one of messages.
LEMMA MergeTypes ==
    ASSUME NEW s \in Seq(Messages)
    PROVE  MergeConsecutive(s) \in Seq(Messages)
<1>1. <<>> \in Seq(Nat)
  OBVIOUS
<1>2. Message("user", FALSE, FALSE, [blocks |-> FALSE, parts |-> <<>>]) \in Messages
  BY <1>1 DEF Message, Messages, Bodies, Roles
<1> QED
  BY <1>2, MergeGrows

\* No history, no prompt.
LEMMA MergeStarts == MergeConsecutive(<<>>) = <<>>
<1>1. <<>> \in Seq(Messages)
  OBVIOUS
<1>2. PICK g : MergeConsecutive(<<>>) = ValueOf(g, <<>>) /\ FoldsBy(g, Seq(Messages), Messages, <<>>, MergeStep, <<>>)
  BY <1>1, MergeFolds
<1> QED
  BY <1>2, FoldsNothing

\* PartsAnd as a function.
PartsStep == [x \in Seq(Nat) \X Messages |-> PartsAnd(x[1], x[2])]

\* It takes parts to parts.
LEMMA PartsIsStep == IsStep(Seq(Nat), Messages, <<>>, PartsStep)
<1>1. <<>> \in Seq(Nat)
  OBVIOUS
<1>2. ASSUME NEW all \in Seq(Nat), NEW m \in Messages PROVE PartsAnd(all, m) \in Seq(Nat)
  <2>1. m.content.parts \in Seq(Nat)
    BY DEF Messages, Bodies
  <2> QED
    BY <2>1, ConcatProperties DEF PartsAnd
<1>3. \A x \in Seq(Nat) \X Messages : PartsAnd(x[1], x[2]) \in Seq(Nat)
  BY <1>2
<1> QED
  BY <1>1, <1>3 DEF IsStep, PartsStep

\* The function the fold over their parts chooses.
PartsFold(g, s) ==
  g = [t \in SUBSET DOMAIN s |-> IF t = {} THEN <<>> ELSE PartsAnd(g[t \ {Max(t)}], s[Max(t)])]

\* What messages say, by that function.
LEMMA PartsIs ==
    ASSUME NEW s
    PROVE  Parts(s) = (CHOOSE g : PartsFold(g, s))[DOMAIN s]
  BY DEF Parts, FoldLeft, MapThenFoldSet, PartsFold

\* What messages say is one after another.
LEMMA PartsFolds ==
    ASSUME NEW s \in Seq(Messages)
    PROVE  \E g : /\ Parts(s) = ValueOf(g, s)
                  /\ FoldsBy(g, Seq(Nat), Messages, <<>>, PartsStep, s)
<1>1. PICK f : Steps(f, Seq(Nat), Messages, <<>>, PartsStep, s)
  BY PartsIsStep, StepsExist
<1>2. \A a \in Seq(Nat), m \in Messages : PartsStep[<<a, m>>] = PartsAnd(a, m)
  BY DEF PartsStep
<1>3. PartsFold(f, s)
  BY <1>1, <1>2 DEF Steps, PartsFold
<1> DEFINE g == CHOOSE h : PartsFold(h, s)
<1>4. PartsFold(g, s)
  BY <1>3
<1> HIDE DEF g
<1>5. TakesLast(g, Seq(Nat), <<>>, PartsStep, s)
  <2>1. DOMAIN s = 1..Len(s)
    BY LenProperties
  <2>2. \A t \in SUBSET DOMAIN s : t # {} => s[Max(t)] \in Messages
    BY <1>1 DEF Steps
  <2>3. \A t \in SUBSET DOMAIN s : g[t] = IF t = {} THEN <<>> ELSE PartsAnd(g[t \ {Max(t)}], s[Max(t)])
    BY <1>4 DEF PartsFold
  <2> QED
    BY <1>2, <2>1, <2>2, <2>3 DEF TakesLast
<1>6. FoldsBy(g, Seq(Nat), Messages, <<>>, PartsStep, s)
  BY <1>5, PartsIsStep, TakingLastFolds
<1>7. Parts(s) = ValueOf(g, s)
  <2>1. DOMAIN s = 1..Len(s)
    BY LenProperties
  <2> QED
    BY <2>1, PartsIs DEF g, ValueOf
<1> QED
  BY <1>6, <1>7

\* A message more says what it says after the others.
LEMMA PartsGrow ==
    ASSUME NEW s \in Seq(Messages), NEW m \in Messages
    PROVE  /\ Parts(s) \in Seq(Nat)
           /\ Parts(Append(s, m)) = PartsAnd(Parts(s), m)
<1>1. PICK g : Parts(s) = ValueOf(g, s) /\ FoldsBy(g, Seq(Nat), Messages, <<>>, PartsStep, s)
  BY PartsFolds
<1>2. PICK h : /\ Parts(Append(s, m)) = ValueOf(h, Append(s, m))
              /\ FoldsBy(h, Seq(Nat), Messages, <<>>, PartsStep, Append(s, m))
  <2>1. Append(s, m) \in Seq(Messages)
    BY AppendProperties
  <2> QED
    BY <2>1, PartsFolds
<1>3. StepsOn(ValueOf(h, Append(s, m)), ValueOf(g, s), Seq(Nat), PartsStep, m)
  BY <1>1, <1>2, FoldGrows
<1> QED
  BY <1>1, <1>2, <1>3 DEF PartsStep, StepsOn

\* A folded message says what was said, and the next message's words after it.
LEMMA FoldKeepsParts ==
    ASSUME NEW out \in Seq(Messages), NEW m \in Messages
    PROVE  Parts(FoldMessage(out, m)) = Parts(out) \o m.content.parts
<1>1. Joins(out, m, FoldMessage(out, m))
  BY FoldJoins
<1>2. CASE FoldMessage(out, m) = Append(out, m)
  BY <1>2, PartsGrow DEF PartsAnd
<1>3. ASSUME NEW front \in Seq(Messages), NEW last \in Messages, NEW new \in Messages,
             out = Append(front, last), FoldMessage(out, m) = Append(front, new),
             new.content.parts = last.content.parts \o m.content.parts
      PROVE  Parts(FoldMessage(out, m)) = Parts(out) \o m.content.parts
  <2>1. Parts(front) \in Seq(Nat) /\ last.content.parts \in Seq(Nat) /\ m.content.parts \in Seq(Nat)
    BY PartsGrow DEF Messages, Bodies
  <2>2. Parts(out) = Parts(front) \o last.content.parts
    BY <1>3, PartsGrow DEF PartsAnd
  <2>3. Parts(FoldMessage(out, m)) = Parts(front) \o new.content.parts
    BY <1>3, PartsGrow DEF PartsAnd
  <2>4. (Parts(front) \o last.content.parts) \o m.content.parts
          = Parts(front) \o (last.content.parts \o m.content.parts)
    <3> DEFINE a == Parts(front)
               b == last.content.parts
               c == m.content.parts
    <3>1. a \in Seq(Nat) /\ b \in Seq(Nat) /\ c \in Seq(Nat)
      BY <2>1
    <3> HIDE DEF a, b, c
    <3>2. (a \o b) \o c = a \o (b \o c)
      BY <3>1, ConcatAssociative, SMTT(30)
    <3> QED
      BY <3>2 DEF a, b, c
  <2> QED
    BY <1>3, <2>2, <2>3, <2>4
<1> QED
  BY <1>1, <1>2, <1>3 DEF Joins

\* p is less than the whole of s, and s begins with it.
Begins(p, s) == Len(p) < Len(s) /\ \A i \in 1..Len(p) : p[i] = s[i]

\* A message folded in leaves what is before the last one.
LEMMA FoldBegins ==
    ASSUME NEW p \in Seq(Messages), NEW out \in Seq(Messages), NEW m \in Messages, Begins(p, out)
    PROVE  Begins(p, FoldMessage(out, m))
<1>1. Joins(out, m, FoldMessage(out, m)) /\ Len(p) \in Nat /\ Len(out) \in Nat
  BY FoldJoins, LenProperties
<1>2. CASE FoldMessage(out, m) = Append(out, m)
  <2>1. Len(Append(out, m)) = Len(out) + 1 /\ \A i \in 1..Len(out) : Append(out, m)[i] = out[i]
    BY AppendProperties
  <2> QED
    BY <1>1, <1>2, <2>1 DEF Begins
<1>3. ASSUME NEW front \in Seq(Messages), NEW last \in Messages, NEW new \in Messages,
             out = Append(front, last), FoldMessage(out, m) = Append(front, new)
      PROVE  Begins(p, FoldMessage(out, m))
  <2>1. Len(front) \in Nat
    BY LenProperties
  <2>2. Len(Append(front, last)) = Len(front) + 1 /\ \A i \in 1..Len(front) : Append(front, last)[i] = front[i]
    BY AppendProperties
  <2>3. Len(Append(front, new)) = Len(front) + 1 /\ \A i \in 1..Len(front) : Append(front, new)[i] = front[i]
    BY AppendProperties
  <2>4. Len(p) <= Len(front)
    BY <1>1, <1>3, <2>1, <2>2 DEF Begins
  <2> QED
    BY <1>1, <1>3, <2>1, <2>2, <2>3, <2>4 DEF Begins
<1> QED
  BY <1>1, <1>2, <1>3 DEF Joins

\* The last message is of the role of the one that came last.
LEMMA FoldEnds ==
    ASSUME NEW out \in Seq(Messages), NEW m \in Messages
    PROVE  FoldMessage(out, m) # <<>> /\ Last(FoldMessage(out, m)).role = m.role
<1>1. Joins(out, m, FoldMessage(out, m))
  BY FoldJoins
<1>2. CASE FoldMessage(out, m) = Append(out, m)
  BY <1>2, LastIs
<1>3. ASSUME NEW front \in Seq(Messages), NEW new \in Messages, new.role = m.role,
             FoldMessage(out, m) = Append(front, new)
      PROVE  FoldMessage(out, m) # <<>> /\ Last(FoldMessage(out, m)).role = m.role
  BY <1>3, LastIs
<1> QED
  BY <1>1, <1>2, <1>3 DEF Joins

\* A sequence that another begins with is a prefix of it.
LEMMA BeginsIsPrefix ==
    ASSUME NEW p \in Seq(Messages), NEW s \in Seq(Messages), Begins(p, s)
    PROVE  IsPrefix(p, s)
<1> DEFINE n == Len(p)
           x == SubSeq(p, 1, n)
           y == SubSeq(s, 1, n)
<1>1. n \in Nat /\ n < Len(s) /\ Len(s) \in Nat
  BY LenProperties DEF Begins
<1>2. \A i \in 1..n : p[i] \in Messages /\ s[i] \in Messages /\ p[i] = s[i]
  BY <1>1, ElementOfSeq DEF Begins
<1>3. x \in Seq(Messages) /\ Len(x) = n /\ \A i \in 1..n : x[i] = p[i]
  <2> HIDE DEF n
  <2> QED
    BY <1>1, <1>2, SubSeqProperties
<1>4. y \in Seq(Messages) /\ Len(y) = n /\ \A i \in 1..n : y[i] = s[i]
  <2> HIDE DEF n
  <2> QED
    BY <1>1, <1>2, SubSeqProperties
<1>5. x = y
  <2> HIDE DEF x, y, n
  <2> QED
    BY <1>2, <1>3, <1>4, SeqEqual
<1> QED
  BY <1>1, <1>5 DEF IsPrefix

-----------------------------------------------------------------------------

\* With every reasoning replayed the prompt is the history, folded.
LEMMA FullPrompt ==
    ASSUME set.replay = "full", NEW h \in Seq(Messages)
    PROVE  Prompt(h) = MergeConsecutive(h)
<1>1. FilterReasoning(h) = [i \in DOMAIN h |-> h[i]]
  BY DEF FilterReasoning, KeepsReasoning
<1>2. [i \in DOMAIN h |-> h[i]] = h
  <2>1. h \in [1..Len(h) -> Messages] /\ DOMAIN h = 1..Len(h)
    BY LenProperties
  <2> QED
    BY <2>1
<1>3. FilterReasoning(h) = h
  BY <1>1, <1>2
<1> QED
  BY <1>3 DEF Prompt

\* What the client holds goes with what was last answered.
Together(h, last) ==
  LET merged == MergeConsecutive(h)
  IN /\ last \in Seq(Messages)
     /\ h # <<>> => merged # <<>> /\ Last(merged).role = Last(h).role /\ Begins(last, merged)
     /\ h = <<>> => last = <<>>
     /\ Parts(merged) = Parts(h)

\* The backend is asked what the client asked.
Asked(h, now) == now = MergeConsecutive(h) /\ h # <<>> /\ Last(h).role \in {"user", "tool"}

\* The prompt is the folded history; the one answered last is less than all of it.
PromptInvariant ==
  /\ prompt = [now |-> prompt.now, last |-> prompt.last]
  /\ set.replay = "full" => /\ Together(history, prompt.last)
                            /\ at \in {"forge", "answered"} => Asked(history, prompt.now)

\* A message asked.
LEMMA AskedTogether ==
    ASSUME NEW h \in Seq(Messages), NEW last, Together(h, last),
           NEW m \in Messages, m.role \in {"user", "tool"}
    PROVE  Together(Append(h, m), last) /\ Asked(Append(h, m), MergeConsecutive(Append(h, m)))
<1> DEFINE merged == MergeConsecutive(h)
           more == MergeConsecutive(Append(h, m))
<1>1. merged \in Seq(Messages) /\ more = FoldMessage(merged, m)
  BY MergeGrows
<1>2. Append(h, m) # <<>> /\ Last(Append(h, m)) = m
  BY LastIs
<1>3. more # <<>> /\ Last(more).role = m.role
  BY <1>1, FoldEnds
<1>4. Parts(merged) = Parts(h) /\ last \in Seq(Messages)
  BY DEF Together
<1>5. Parts(more) = Parts(Append(h, m))
  <2>1. Parts(more) = Parts(merged) \o m.content.parts
    BY <1>1, FoldKeepsParts
  <2>2. Parts(Append(h, m)) = Parts(h) \o m.content.parts
    BY PartsGrow DEF PartsAnd
  <2> QED
    BY <1>4, <2>1, <2>2
<1>6. Begins(last, more)
  <2>1. CASE h # <<>>
    <3>1. Begins(last, merged)
      BY <2>1 DEF Together
    <3> HIDE DEF merged
    <3> QED
      BY <1>1, <1>4, <3>1, FoldBegins
  <2>2. CASE h = <<>>
    <3>1. last = <<>> /\ merged = <<>>
      BY <2>2, MergeStarts DEF Together
    <3>2. more \in Seq(Messages)
      BY <1>1, FoldJoins
    <3>3. Len(more) \in Nat \ {0} /\ Len(last) = 0
      BY <1>3, <3>1, <3>2, EmptySeq
    <3> QED
      BY <3>3 DEF Begins
  <2> QED
    BY <2>1, <2>2
<1> QED
  BY <1>2, <1>3, <1>4, <1>5, <1>6 DEF Together, Asked

\* An answer taken.
LEMMA TakenTogether ==
    ASSUME NEW h \in Seq(Messages), NEW now, NEW last, Together(h, last), Asked(h, now),
           NEW m \in Messages, m.role = "assistant"
    PROVE  Together(Append(h, m), now)
<1> DEFINE merged == MergeConsecutive(h)
           more == MergeConsecutive(Append(h, m))
<1>1. merged \in Seq(Messages) /\ more = FoldMessage(merged, m)
  BY MergeGrows
<1>2. Append(h, m) # <<>> /\ Last(Append(h, m)) = m
  BY LastIs
<1>3. more # <<>> /\ Last(more).role = m.role
  BY <1>1, FoldEnds
<1>4. Parts(merged) = Parts(h) /\ now = merged /\ h # <<>> /\ Last(h).role \in {"user", "tool"}
      /\ Last(merged).role = Last(h).role
  BY DEF Together, Asked
<1>5. Parts(more) = Parts(Append(h, m))
  <2>1. Parts(more) = Parts(merged) \o m.content.parts
    BY <1>1, FoldKeepsParts
  <2>2. Parts(Append(h, m)) = Parts(h) \o m.content.parts
    BY PartsGrow DEF PartsAnd
  <2> QED
    BY <1>4, <2>1, <2>2
<1>6. more = Append(merged, m)
  <2>1. ~Folds(merged, m)
    BY <1>4 DEF Folds
  <2> QED
    BY <1>1, <2>1 DEF FoldMessage
<1>7. Begins(merged, more)
  <2> HIDE DEF merged
  <2>1. Len(merged) \in Nat /\ Len(Append(merged, m)) = Len(merged) + 1
        /\ \A i \in 1..Len(merged) : Append(merged, m)[i] = merged[i]
    BY <1>1, LenProperties, AppendProperties
  <2> QED
    BY <1>6, <2>1 DEF Begins
<1> QED
  BY <1>1, <1>2, <1>3, <1>4, <1>5, <1>7 DEF Together

\* A request changes nothing the client holds.
LEMMA StillTogether ==
    ASSUME PromptInvariant, UNCHANGED <<set, history, prompt>>,
           at' \in {"forge", "answered"} => at \in {"forge", "answered"}
    PROVE  PromptInvariant'
<1>1. /\ Together(history, prompt.last)' <=> Together(history, prompt.last)
      /\ Asked(history, prompt.now)' <=> Asked(history, prompt.now)
  BY DEF Together, Asked
<1> QED
  BY <1>1 DEF PromptInvariant

\* A question makes the prompt longer, or its last message.
LEMMA AskGrows ==
    ASSUME TurnInvariant, PromptInvariant, Ask
    PROVE  PromptInvariant'
<1>1. PICK m \in Asks : history' = Append(history, m)
  BY DEF Ask
<1>2. m \in Messages /\ m.role \in {"user", "tool"} /\ set' = set /\ at' = "forge"
  BY AsksMessages DEF Ask
<1>3. PICK now : now = Prompt(history')
  OBVIOUS
<1>4. prompt' = [prompt EXCEPT !.now = now] /\ prompt = [now |-> prompt.now, last |-> prompt.last]
  BY <1>3 DEF Ask, PromptInvariant
<1>5. prompt'.last = prompt.last /\ prompt'.now = now /\ prompt' = [now |-> now, last |-> prompt.last]
  BY <1>4
<1>6. ASSUME set.replay = "full"
      PROVE  Together(history', prompt'.last) /\ Asked(history', prompt'.now)
  <2>1. PICK h, last, k : h = history /\ last = prompt.last /\ k = history'
    OBVIOUS
  <2>2. h \in Seq(Messages) /\ Together(h, last) /\ k = Append(h, m)
    BY <1>1, <1>6, <2>1 DEF TurnInvariant, PromptInvariant
  <2>3. Together(k, last) /\ Asked(k, MergeConsecutive(k))
    BY <1>2, <2>2, AskedTogether
  <2>4. now = MergeConsecutive(k)
    <3>1. k \in Seq(Messages)
      BY <1>2, <2>2, AppendProperties
    <3>2. Prompt(k) = MergeConsecutive(k)
      BY <1>6, <3>1, FullPrompt
    <3>3. now = Prompt(k)
      BY <1>3, <2>1
    <3> QED
      BY <3>2, <3>3
  <2> QED
    BY <1>5, <2>1, <2>3, <2>4
<1>7. prompt' = [now |-> prompt'.now, last |-> prompt'.last]
  BY <1>5
<1> QED
  BY <1>2, <1>6, <1>7 DEF PromptInvariant

\* An answer is not folded into what was asked.
LEMMA TakeGrows ==
    ASSUME TurnInvariant, PromptInvariant, Take
    PROVE  PromptInvariant'
<1>1. set' = set /\ at = "answered" /\ at' = "client" /\ prompt = [now |-> prompt.now, last |-> prompt.last]
  BY DEF Take, PromptInvariant
<1>2. CASE Failed
  <2>1. history' = history /\ prompt' = prompt
    BY <1>2 DEF Take
  <2> QED
    BY <1>1, <2>1, StillTogether
<1>3. CASE ~Failed
  <2> DEFINE c == Calls
             t == Has("thinking") # {}
  <2>1. c \in BOOLEAN /\ t \in BOOLEAN
    BY DEF Calls
  <2>2. PICK m : m = Message("assistant", c, t, Says(turn, FALSE))
    OBVIOUS
  <2>3. history' = Append(history, m) /\ prompt' = [prompt EXCEPT !.last = prompt.now]
    BY <1>3, <2>2 DEF Take
  <2> HIDE DEF c, t
  <2>4. m \in Messages /\ m.role = "assistant"
    <3>1. m.role = "assistant"
      BY <2>2 DEF Message
    <3> QED
      BY <2>1, <2>2, <3>1, TakesMessage
  <2>5. PICK h, last, now, k : h = history /\ last = prompt.last /\ now = prompt.now /\ k = history'
    OBVIOUS
  <2>6. prompt' = [now |-> now, last |-> now]
    BY <1>1, <2>3, <2>5
  <2>7. ASSUME set.replay = "full"
        PROVE  Together(k, now)
    <3>1. Together(h, last) /\ Asked(h, now) /\ h \in Seq(Messages) /\ k = Append(h, m)
      BY <1>1, <2>3, <2>5, <2>7 DEF PromptInvariant, TurnInvariant
    <3> QED
      BY <2>4, <3>1, TakenTogether
  <2>8. Together(history, prompt.last)' <=> Together(k, now)
    BY <2>5, <2>6 DEF Together
  <2> QED
    BY <1>1, <2>6, <2>7, <2>8 DEF PromptInvariant
<1> QED
  BY <1>2, <1>3

\* Nothing was asked.
LEMMA PromptStarts ==
    ASSUME ForgeInit
    PROVE  PromptInvariant
<1>1. history = <<>> /\ prompt = [now |-> <<>>, last |-> <<>>] /\ at = "client"
  BY DEF ForgeInit
<1>2. <<>> \in Seq(Messages)
  OBVIOUS
<1>3. Together(<<>>, <<>>)
  BY <1>2, MergeStarts DEF Together
<1>4. prompt = [now |-> prompt.now, last |-> prompt.last] /\ Together(history, prompt.last)
  BY <1>1, <1>3
<1> QED
  BY <1>1, <1>4 DEF PromptInvariant

\* Every step keeps the invariant.
LEMMA PromptSteps ==
    ASSUME TurnInvariant, PromptInvariant, ForgeNext
    PROVE  PromptInvariant'
<1>1. CASE Ask
  BY <1>1, AskGrows
<1>2. CASE Take
  BY <1>2, TakeGrows
<1>3. ASSUME NEW g \in Generations, Generate(g) PROVE PromptInvariant'
  BY <1>3, StillTogether DEF Generate
<1>4. ASSUME NEW f \in Failures, Fail(f) PROVE PromptInvariant'
  BY <1>4, StillTogether DEF Fail
<1> QED
  BY <1>1, <1>2, <1>3, <1>4 DEF ForgeNext

\* The invariant is strong enough.
LEMMA PromptFollows ==
    ASSUME TurnInvariant, PromptInvariant
    PROVE  PromptGrows
<1> SUFFICES ASSUME at = "forge", set.replay = "full"
             PROVE  IsPrefix(prompt.last, prompt.now) /\ Parts(prompt.now) = Parts(history)
  BY DEF PromptGrows
<1>1. PICK merged : merged = MergeConsecutive(history)
  OBVIOUS
<1>2. /\ prompt.last \in Seq(Messages) /\ prompt.now = merged /\ Begins(prompt.last, merged)
      /\ Parts(merged) = Parts(history)
  BY <1>1 DEF PromptInvariant, Together, Asked
<1>3. merged \in Seq(Messages)
  <2>1. \A h \in Seq(Messages) : MergeConsecutive(h) \in Seq(Messages)
    BY MergeTypes
  <2> QED
    BY <1>1, <2>1 DEF TurnInvariant
<1> QED
  BY <1>2, <1>3, BeginsIsPrefix

\* ForgeTurn, what the backend is sent (MergeConsecutive, FilterReasoning): with all reasoning
\* replayed every prompt begins with the one answered last, and says what the client said.
THEOREM PromptPreserved == ForgeSpec => []PromptGrows
<1>1. TurnInvariant /\ PromptInvariant /\ [ForgeNext]_forgeVars => PromptInvariant'
  BY PromptSteps, StillTogether DEF forgeVars
<1>2. TurnInvariant /\ PromptInvariant => PromptGrows
  BY PromptFollows
<1>3. ForgeInit => PromptInvariant
  BY PromptStarts
<1>4. TurnInvariant /\ [ForgeNext]_forgeVars => TurnInvariant'
  BY TurnSteps
<1>5. ForgeInit => TurnInvariant
  BY TurnStarts
<1> QED
  BY <1>1, <1>2, <1>3, <1>4, <1>5, PTL DEF ForgeSpec

-----------------------------------------------------------------------------
(* RoleAnswer: the log *)

\* What a line of a log is, and what is read of a log.
Words == {"message", "settled", "aborted", "retry failed", "torn"}
Stops0 == StopReasons \cup {"none"}
Events == [what : Words, text : Texts, stop : Stops0]
Readings == [text : Texts, stop : Stops0, settled : BOOLEAN, aborted : BOOLEAN, bad : BOOLEAN]

\* The function the fold over a log chooses.
LogFold(g, s) ==
  g = [t \in SUBSET DOMAIN s |-> IF t = {} THEN Read0 ELSE ReadLine(g[t \ {Max(t)}], s[Max(t)])]

\* What is read of a log, by that function.
LEMMA ReadIs ==
    ASSUME NEW s
    PROVE  FoldLeft(ReadLine, Read0, s) = (CHOOSE g : LogFold(g, s))[DOMAIN s]
  BY DEF FoldLeft, MapThenFoldSet, LogFold

\* A line read gives a reading.
LEMMA ReadTypes == Read0 \in Readings /\ \A r \in Readings, e \in Events : ReadLine(r, e) \in Readings
  BY RoleAnswerAssumption DEF Read0, Readings, Events, ReadLine, Stops0

\* A reading is its fields.
LEMMA SameReading ==
    ASSUME NEW x \in Readings, NEW y \in Readings, x.text = y.text, x.stop = y.stop,
           x.settled = y.settled, x.aborted = y.aborted, x.bad = y.bad
    PROVE  x = y
  BY DEF Readings

\* ReadLine as a function.
ReadStep == [x \in Readings \X Events |-> ReadLine(x[1], x[2])]

\* It takes readings to readings.
LEMMA ReadIsStep == IsStep(Readings, Events, Read0, ReadStep)
  BY ReadTypes DEF IsStep, ReadStep

\* The lines of a log are read one after another.
LEMMA LogFolds ==
    ASSUME NEW s \in Seq(Events)
    PROVE  \E g : /\ FoldLeft(ReadLine, Read0, s) = ValueOf(g, s)
                  /\ FoldsBy(g, Readings, Events, Read0, ReadStep, s)
<1>1. PICK f : Steps(f, Readings, Events, Read0, ReadStep, s)
  BY ReadIsStep, StepsExist
<1>2. \A r \in Readings, e \in Events : ReadStep[<<r, e>>] = ReadLine(r, e)
  BY DEF ReadStep
<1>3. LogFold(f, s)
  BY <1>1, <1>2 DEF Steps, LogFold
<1> DEFINE g == CHOOSE h : LogFold(h, s)
<1>4. LogFold(g, s)
  BY <1>3
<1> HIDE DEF g
<1>5. TakesLast(g, Readings, Read0, ReadStep, s)
  <2>1. DOMAIN s = 1..Len(s)
    BY LenProperties
  <2>2. \A t \in SUBSET DOMAIN s : t # {} => s[Max(t)] \in Events
    BY <1>1 DEF Steps
  <2>3. \A t \in SUBSET DOMAIN s : g[t] = IF t = {} THEN Read0 ELSE ReadLine(g[t \ {Max(t)}], s[Max(t)])
    BY <1>4 DEF LogFold
  <2> QED
    BY <1>2, <2>1, <2>2, <2>3 DEF TakesLast
<1>6. FoldsBy(g, Readings, Events, Read0, ReadStep, s)
  BY <1>5, ReadIsStep, TakingLastFolds
<1>7. FoldLeft(ReadLine, Read0, s) = ValueOf(g, s)
  <2>1. DOMAIN s = 1..Len(s)
    BY LenProperties
  <2> QED
    BY <2>1, ReadIs DEF g, ValueOf
<1> QED
  BY <1>6, <1>7

\* A line more of a log is read after the others.
LEMMA LogGrows ==
    ASSUME NEW s \in Seq(Events), NEW e \in Events
    PROVE  /\ FoldLeft(ReadLine, Read0, s) \in Readings
           /\ FoldLeft(ReadLine, Read0, Append(s, e)) = ReadLine(FoldLeft(ReadLine, Read0, s), e)
<1>1. PICK g : /\ FoldLeft(ReadLine, Read0, s) = ValueOf(g, s)
              /\ FoldsBy(g, Readings, Events, Read0, ReadStep, s)
  BY LogFolds
<1>2. PICK h : /\ FoldLeft(ReadLine, Read0, Append(s, e)) = ValueOf(h, Append(s, e))
              /\ FoldsBy(h, Readings, Events, Read0, ReadStep, Append(s, e))
  <2>1. Append(s, e) \in Seq(Events)
    BY AppendProperties
  <2> QED
    BY <2>1, LogFolds
<1>3. StepsOn(ValueOf(h, Append(s, e)), ValueOf(g, s), Readings, ReadStep, e)
  BY <1>1, <1>2, FoldGrows
<1> QED
  BY <1>1, <1>2, <1>3 DEF ReadStep, StepsOn


-----------------------------------------------------------------------------
(* RoleAnswer: an answer that is used is whole *)

\* The states of a child, and of an answer.
Pis == [alive : BOOLEAN, code : {0, 1}, said : Nat, settled : BOOLEAN, aborted : BOOLEAN,
        gaveUp : BOOLEAN, clean : BOOLEAN, last : Texts, stop : Stops0]
Answers == [text : Texts, cut : BOOLEAN, is : BOOLEAN]

AnswerTypes == events \in Seq(Events) /\ pi \in Pis /\ output \in Answers /\ used \in Answers

\* What the log says is what the child did, unless a line was torn.
LogIsTrue ==
  IF pi.clean
  THEN LogRead = [text |-> pi.last, stop |-> pi.stop, settled |-> pi.settled,
                  aborted |-> pi.aborted, bad |-> pi.gaveUp]
  ELSE LogRead.bad

\* The child of an attempt ended well.
EndedWell ==
  /\ place \in {"run", "summary", "written"} /\ ~pi.alive /\ pi.code = 0 /\ pi.clean
  /\ pi.settled /\ ~pi.aborted /\ ~pi.gaveUp /\ pi.stop \in {"stop", "length"}

\* A child that ended well has its answer among the whole ones, until the next is started.
WholeIsKept ==
  /\ pi.alive => pi.code = 1
  /\ EndedWell => Given(pi.last, pi.stop = "length") \in whole

\* A summary is only asked of an answer that was cut off.
SummaryIsDue == place = "summary" => ~pi.alive /\ ~Fails /\ CutOff

\* The file of a role holds a whole answer.
OutputIsWhole ==
  output.is => /\ output \in whole
               /\ output.cut => role = "worker"
               /\ output.text # "none" \/ output.cut

\* What the caller was given is in the file.
UsedIsOutput ==
  /\ place \in {"call", "attempt", "run", "summary", "written", "gave up"} => used = NoAnswer
  /\ used.is => used = output

\* The inductive invariant.
AnswerInvariant ==
  AnswerTypes /\ LogIsTrue /\ WholeIsKept /\ SummaryIsDue /\ OutputIsWhole /\ UsedIsOutput

\* An empty log says nothing.
LEMMA LogStarts == FoldLeft(ReadLine, Read0, <<>>) = Read0
<1>1. <<>> \in Seq(Events)
  OBVIOUS
<1>2. PICK g : FoldLeft(ReadLine, Read0, <<>>) = ValueOf(g, <<>>) /\ FoldsBy(g, Readings, Events, Read0, ReadStep, <<>>)
  BY <1>1, LogFolds
<1> QED
  BY <1>2, FoldsNothing

\* A line is written and read.
LEMMA LineIsRead ==
    ASSUME AnswerTypes, NEW e \in Events, events' = Append(events, e)
    PROVE  events' \in Seq(Events) /\ LogRead \in Readings /\ LogRead' = ReadLine(LogRead, e)
<1>1. PICK s : s = events
  OBVIOUS
<1>2. s \in Seq(Events)
  BY <1>1 DEF AnswerTypes
<1>3. FoldLeft(ReadLine, Read0, s) \in Readings
      /\ FoldLeft(ReadLine, Read0, Append(s, e)) = ReadLine(FoldLeft(ReadLine, Read0, s), e)
  BY <1>2, LogGrows
<1>4. Append(s, e) \in Seq(Events)
  BY <1>2, AppendProperties
<1>5. events' = Append(s, e)
  BY <1>1
<1>6. LogRead = FoldLeft(ReadLine, Read0, s) /\ LogRead' = FoldLeft(ReadLine, Read0, Append(s, e))
  BY <1>1, <1>5 DEF LogRead
<1> QED
  BY <1>3, <1>4, <1>5, <1>6

\* A log that nothing is written to reads as it did.
LEMMA LogStays ==
    ASSUME events' = events
    PROVE  LogRead' = LogRead
  BY DEF LogRead

\* The types of a reading.
LEMMA ReadingTypes ==
    ASSUME AnswerTypes
    PROVE  LogRead \in Readings
<1>1. PICK s : s = events
  OBVIOUS
<1>2. s \in Seq(Events) /\ Event("torn", "none", "none") \in Events
  BY <1>1, RoleAnswerAssumption DEF AnswerTypes, Event, Events, Words, Stops0
<1>3. FoldLeft(ReadLine, Read0, s) \in Readings
  BY <1>2, LogGrows
<1> QED
  BY <1>1, <1>3 DEF LogRead

\* After a log is forgotten.
LEMMA Forgotten ==
    ASSUME pi' \in {Gone, Fresh}, events' = <<>>
    PROVE  /\ events' \in Seq(Events) /\ pi' \in Pis /\ LogIsTrue'
           /\ pi'.code = 1 /\ pi'.code # 0
<1>1. LogRead' = Read0
  BY LogStarts DEF LogRead
<1>2. events' \in Seq(Events)
  OBVIOUS
<1>3. /\ pi' \in Pis /\ pi'.clean = TRUE /\ pi'.last = "none" /\ pi'.stop = "none" /\ pi'.settled = FALSE
      /\ pi'.aborted = FALSE /\ pi'.gaveUp = FALSE /\ pi'.code = 1
  <2>1. "none" \in Texts /\ "none" \in Stops0
    BY RoleAnswerAssumption DEF Stops0
  <2>2. CASE pi' = Gone
    BY <2>1, <2>2 DEF Gone, Pis
  <2>3. CASE pi' = Fresh
    BY <2>1, <2>3 DEF Gone, Fresh, Pis
  <2> QED
    BY <2>2, <2>3
<1>4. LogIsTrue'
  BY <1>1, <1>3 DEF LogIsTrue, Read0
<1>5. pi'.code # 0
  BY <1>3
<1> QED
  BY <1>2, <1>3, <1>4, <1>5

\* It holds of a run that starts.
LEMMA AnswerStarts ==
    ASSUME AnswerInit
    PROVE  AnswerInvariant
<1>1. LogRead = Read0
  BY LogStarts DEF AnswerInit, LogRead
<1>2. events \in Seq(Events)
  BY DEF AnswerInit
<1>3. pi \in Pis /\ output \in Answers /\ used \in Answers
  BY RoleAnswerAssumption DEF AnswerInit, Gone, NoAnswer, Pis, Answers, Stops0
<1>4. pi.clean = TRUE /\ pi.last = "none" /\ pi.stop = "none" /\ pi.settled = FALSE /\ pi.aborted = FALSE
      /\ pi.gaveUp = FALSE /\ pi.code = 1
  BY DEF AnswerInit, Gone
<1>5. LogIsTrue
  BY <1>1, <1>4 DEF LogIsTrue, Read0
<1>6. place = "call" /\ output.is = FALSE /\ used = NoAnswer /\ used.is = FALSE
  BY DEF AnswerInit, NoAnswer
<1> QED
  BY <1>2, <1>3, <1>4, <1>5, <1>6 DEF AnswerInvariant, AnswerTypes, WholeIsKept, EndedWell, SummaryIsDue,
       OutputIsWhole, UsedIsOutput

\* A child writes a line that says what it does.
LEMMA ChildWrites ==
    ASSUME AnswerInvariant, PiRuns, NEW e \in Events, NEW next \in Pis, Writes(e, next),
           next.clean = pi.clean, next.alive = pi.alive, next.code = pi.code,
           pi.clean => [text |-> next.last, stop |-> next.stop, settled |-> next.settled,
                        aborted |-> next.aborted, bad |-> next.gaveUp] = ReadLine(LogRead, e),
           UNCHANGED <<role, profile, place, tries, late, output, entry, entries, stopping, used, whole>>
    PROVE  AnswerInvariant'
<1>1. pi.alive /\ place = "run"
  BY DEF PiRuns
<1>2. \A r \in Readings, x \in Events : r.bad => ReadLine(r, x).bad
  BY DEF Readings, Events, ReadLine
<1>3. \A r \in Readings : ReadLine(r, Event("torn", "none", "none")).bad
  BY DEF Readings, ReadLine, Event
<1>4. Event("torn", "none", "none") \in Events
  BY RoleAnswerAssumption DEF Event, Events, Words, Stops0
<1>5. events' \in Seq(Events) /\ pi' \in Pis /\ LogIsTrue' /\ pi'.alive = TRUE /\ pi'.code = pi.code
  <2>1. CASE events' = Append(events, e) /\ pi' = next
    <3>1. events' \in Seq(Events) /\ LogRead \in Readings /\ LogRead' = ReadLine(LogRead, e)
      BY <2>1, LineIsRead DEF AnswerInvariant
    <3>2. LogIsTrue'
      BY <1>2, <2>1, <3>1 DEF AnswerInvariant, LogIsTrue
    <3> QED
      BY <1>1, <2>1, <3>1, <3>2 DEF Pis
  <2>2. CASE events' = Append(events, Event("torn", "none", "none")) /\ pi' = [next EXCEPT !.clean = FALSE]
    <3>1. events' \in Seq(Events) /\ LogRead \in Readings
          /\ LogRead' = ReadLine(LogRead, Event("torn", "none", "none"))
      BY <1>4, <2>2, LineIsRead DEF AnswerInvariant
    <3>2. pi' \in Pis /\ pi'.clean = FALSE /\ pi'.alive = next.alive /\ pi'.code = next.code
      BY <2>2 DEF Pis
    <3>3. LogIsTrue'
      BY <1>3, <3>1, <3>2 DEF LogIsTrue
    <3> QED
      BY <1>1, <3>1, <3>2, <3>3 DEF Pis
  <2> QED
    BY <2>1, <2>2 DEF Writes
<1>6. AnswerTypes'
  BY <1>5 DEF AnswerInvariant, AnswerTypes
<1>7. WholeIsKept' /\ SummaryIsDue'
  BY <1>1, <1>5 DEF AnswerInvariant, WholeIsKept, EndedWell, SummaryIsDue
<1>8. OutputIsWhole' /\ UsedIsOutput'
  BY DEF AnswerInvariant, OutputIsWhole, UsedIsOutput
<1> QED
  BY <1>5, <1>6, <1>7, <1>8 DEF AnswerInvariant

\* A child that says nothing: its log reads as it did.
LEMMA ChildIsQuiet ==
    ASSUME AnswerInvariant, events' = events, pi' \in Pis, pi'.clean = pi.clean, pi'.last = pi.last,
           pi'.stop = pi.stop, pi'.settled = pi.settled, pi'.aborted = pi.aborted, pi'.gaveUp = pi.gaveUp
    PROVE  events' \in Seq(Events) /\ LogIsTrue' /\ LogRead' = LogRead
<1>1. LogRead' = LogRead
  BY LogStays
<1> QED
  BY <1>1 DEF AnswerInvariant, AnswerTypes, LogIsTrue

\* The log, the child and what was given stay; the caller goes on.
LEMMA CallerMoves ==
    ASSUME AnswerInvariant, UNCHANGED <<role, events, pi, output, whole>>,
           place' \in {"call", "attempt", "gave up", "returned", "raised", "routed"},
           \/ used' = used /\ (place' \in {"call", "attempt", "gave up"} => place \in {"call", "attempt", "gave up"})
           \/ used' = output /\ place' \in {"returned", "raised", "routed"}
    PROVE  AnswerInvariant'
<1>1. events' \in Seq(Events) /\ LogIsTrue' /\ LogRead' = LogRead
  BY ChildIsQuiet DEF AnswerInvariant, AnswerTypes
<1>2. AnswerTypes' /\ WholeIsKept' /\ SummaryIsDue' /\ OutputIsWhole' /\ UsedIsOutput'
  BY <1>1 DEF AnswerInvariant, AnswerTypes, WholeIsKept, EndedWell, SummaryIsDue, OutputIsWhole, UsedIsOutput
<1> QED
  BY <1>1, <1>2 DEF AnswerInvariant

\* The child and its log are gone, or another is there.
LEMMA ChildForgotten ==
    ASSUME AnswerInvariant, pi' \in {Gone, Fresh}, events' = <<>>, UNCHANGED <<role, output>>,
           place' # "summary", pi' = Gone => place' \notin {"run", "written"},
           whole \cap {output} \subseteq whole',
           \/ used' = NoAnswer
           \/ used' = used /\ place' \notin {"call", "run", "written"}
              /\ (place' \in {"attempt", "gave up"} => used = NoAnswer)
           \/ used' = output /\ place' = "returned"
    PROVE  AnswerInvariant'
<1>1. events' \in Seq(Events) /\ pi' \in Pis /\ LogIsTrue' /\ pi'.code = 1 /\ pi'.code # 0
  BY Forgotten
<1>2. NoAnswer \in Answers
  BY RoleAnswerAssumption DEF NoAnswer, Answers
<1>3. AnswerTypes' /\ WholeIsKept' /\ SummaryIsDue'
  <2>1. AnswerTypes'
    BY <1>1, <1>2 DEF AnswerInvariant, AnswerTypes
  <2>2. WholeIsKept'
    <3>1. ~EndedWell'
      BY <1>1 DEF EndedWell
    <3> QED
      BY <1>1, <3>1 DEF WholeIsKept
  <2>3. SummaryIsDue'
    BY DEF SummaryIsDue
  <2> QED
    BY <2>1, <2>2, <2>3
<1>4. OutputIsWhole'
  BY DEF AnswerInvariant, OutputIsWhole
<1>5. UsedIsOutput'
  <2>1. NoAnswer.is = FALSE
    BY DEF NoAnswer
  <2> QED
    BY <2>1 DEF AnswerInvariant, UsedIsOutput
<1> QED
  BY <1>1, <1>3, <1>4, <1>5 DEF AnswerInvariant

\* An answer that an attempt does not fail for is one the child gave whole.
LEMMA GoodAnswer ==
    ASSUME AnswerInvariant, place \in {"run", "summary"}, ~pi.alive, ~Fails
    PROVE  /\ Given(LogRead.text, CutOff) \in whole
           /\ CutOff => role = "worker"
           /\ LogRead.text # "none" \/ CutOff
<1>1. LogRead \in Readings /\ pi \in Pis
  BY ReadingTypes DEF AnswerInvariant, AnswerTypes
<1>2. pi.code = 0 /\ ~LogRead.aborted /\ ~LogRead.bad /\ LogRead.settled
      /\ (CutOff \/ (LogRead.stop = "stop" /\ LogRead.text # "none"))
  BY DEF Fails
<1>3. pi.clean /\ LogRead.text = pi.last /\ LogRead.stop = pi.stop /\ ~pi.aborted /\ ~pi.gaveUp /\ pi.settled
  BY <1>1, <1>2 DEF AnswerInvariant, LogIsTrue, Pis
<1>4. EndedWell
  BY <1>2, <1>3 DEF EndedWell, CutOff
<1>5. CutOff <=> pi.stop = "length"
  BY <1>2, <1>3 DEF CutOff
<1>6. Given(pi.last, pi.stop = "length") = Given(LogRead.text, CutOff)
  BY <1>3, <1>5 DEF Given, CutOff
<1> QED
  BY <1>2, <1>4, <1>6 DEF AnswerInvariant, WholeIsKept, CutOff

\* What the invariant does not speak of may change.
LEMMA AnswerStays ==
    ASSUME AnswerInvariant, UNCHANGED <<role, place, late, events, pi, output, used, whole>>
    PROVE  AnswerInvariant'
<1>1. LogRead' = LogRead
  BY LogStays
<1> QED
  BY <1>1 DEF AnswerInvariant, AnswerTypes, LogIsTrue, WholeIsKept, EndedWell, SummaryIsDue, Fails, CutOff,
       OutputIsWhole, UsedIsOutput

\* Every step keeps the invariant.
LEMMA AnswerSteps ==
    ASSUME AnswerInvariant, AnswerNext
    PROVE  AnswerInvariant'
<1>1. ASSUME NEW words \in Texts, NEW stop \in StopReasons, PiSays(words, stop) PROVE AnswerInvariant'
  <2> DEFINE e == Event("message", words, stop)
             next == [pi EXCEPT !.said = @ + 1, !.last = words, !.stop = stop]
  <2>1. PiRuns /\ Writes(e, next)
        /\ UNCHANGED <<role, profile, place, tries, late, output, entry, entries, stopping, used, whole>>
    BY <1>1 DEF PiSays
  <2>2. pi \in Pis /\ e \in Events
    BY DEF AnswerInvariant, AnswerTypes, Event, Events, Words, Stops0
  <2>3. next \in Pis /\ next.clean = pi.clean /\ next.alive = pi.alive /\ next.code = pi.code
    <3>1. pi.said + 1 \in Nat /\ stop \in Stops0
      BY <2>2 DEF Pis, Stops0
    <3> QED
      BY <2>2, <3>1 DEF Pis
  <2>4. ASSUME pi.clean
        PROVE  [text |-> next.last, stop |-> next.stop, settled |-> next.settled,
                aborted |-> next.aborted, bad |-> next.gaveUp] = ReadLine(LogRead, e)
    <3>1. LogRead = [text |-> pi.last, stop |-> pi.stop, settled |-> pi.settled,
                     aborted |-> pi.aborted, bad |-> pi.gaveUp]
      BY <2>4 DEF AnswerInvariant, LogIsTrue
    <3>2. ReadLine(LogRead, e) = [LogRead EXCEPT !.text = words, !.stop = stop]
      BY DEF ReadLine, Event
    <3>3. /\ next.last = words /\ next.stop = stop /\ next.settled = pi.settled
          /\ next.aborted = pi.aborted /\ next.gaveUp = pi.gaveUp
      BY <2>2 DEF Pis
    <3> HIDE DEF e, next
    <3>4. [LogRead EXCEPT !.text = words, !.stop = stop]
            = [text |-> words, stop |-> stop, settled |-> pi.settled, aborted |-> pi.aborted, bad |-> pi.gaveUp]
      <4> DEFINE x == [LogRead EXCEPT !.text = words, !.stop = stop]
                 y == [text |-> words, stop |-> stop, settled |-> pi.settled, aborted |-> pi.aborted, bad |-> pi.gaveUp]
      <4>1. LogRead \in Readings
        BY ReadingTypes DEF AnswerInvariant
      <4>2. x \in Readings /\ y \in Readings
        BY <2>2, <4>1 DEF Readings, Pis, Stops0
      <4>3. x.text = y.text /\ x.stop = y.stop /\ x.settled = y.settled /\ x.aborted = y.aborted /\ x.bad = y.bad
        BY <3>1, <4>1 DEF Readings
      <4> HIDE DEF x, y
      <4>4. x = y
        BY <4>2, <4>3, SameReading
      <4> QED
        BY <4>4 DEF x, y
    <3> QED
      BY <3>2, <3>3, <3>4
  <2> HIDE DEF e, next
  <2> QED
    BY <2>1, <2>2, <2>3, <2>4, ChildWrites
<1>2. CASE RetryFails
  <2> DEFINE e == Event("retry failed", "none", "none")
             next == [pi EXCEPT !.gaveUp = TRUE]
  <2>1. PiRuns /\ Writes(e, next)
        /\ UNCHANGED <<role, profile, place, tries, late, output, entry, entries, stopping, used, whole>>
    BY <1>2 DEF RetryFails
  <2>2. pi \in Pis /\ e \in Events
    BY RoleAnswerAssumption DEF AnswerInvariant, AnswerTypes, Event, Events, Words, Stops0
  <2>3. next \in Pis /\ next.clean = pi.clean /\ next.alive = pi.alive /\ next.code = pi.code
    BY <2>2 DEF Pis
  <2>4. ASSUME pi.clean
        PROVE  [text |-> next.last, stop |-> next.stop, settled |-> next.settled,
                aborted |-> next.aborted, bad |-> next.gaveUp] = ReadLine(LogRead, e)
    <3>1. LogRead = [text |-> pi.last, stop |-> pi.stop, settled |-> pi.settled,
                     aborted |-> pi.aborted, bad |-> pi.gaveUp]
      BY <2>4 DEF AnswerInvariant, LogIsTrue
    <3>2. ReadLine(LogRead, e) = [LogRead EXCEPT !.bad = TRUE]
      BY DEF ReadLine, Event
    <3>3. /\ next.last = pi.last /\ next.stop = pi.stop /\ next.settled = pi.settled
          /\ next.aborted = pi.aborted /\ next.gaveUp = TRUE
      BY <2>2 DEF Pis
    <3> HIDE DEF e, next
    <3>4. [LogRead EXCEPT !.bad = TRUE]
            = [text |-> pi.last, stop |-> pi.stop, settled |-> pi.settled, aborted |-> pi.aborted, bad |-> TRUE]
      <4> DEFINE x == [LogRead EXCEPT !.bad = TRUE]
                 y == [text |-> pi.last, stop |-> pi.stop, settled |-> pi.settled, aborted |-> pi.aborted, bad |-> TRUE]
      <4>1. LogRead \in Readings
        BY ReadingTypes DEF AnswerInvariant
      <4>2. x \in Readings /\ y \in Readings
        BY <2>2, <4>1 DEF Readings, Pis, Stops0
      <4>3. x.text = y.text /\ x.stop = y.stop /\ x.settled = y.settled /\ x.aborted = y.aborted /\ x.bad = y.bad
        BY <3>1, <4>1 DEF Readings
      <4> HIDE DEF x, y
      <4>4. x = y
        BY <4>2, <4>3, SameReading
      <4> QED
        BY <4>4 DEF x, y
    <3> QED
      BY <3>2, <3>3, <3>4
  <2> HIDE DEF e, next
  <2> QED
    BY <2>1, <2>2, <2>3, <2>4, ChildWrites
<1>3. ASSUME NEW b \in BOOLEAN, Settles(b) PROVE AnswerInvariant'
  <2> DEFINE e == Event(IF b THEN "aborted" ELSE "settled", "none", "none")
             next == [pi EXCEPT !.settled = TRUE, !.aborted = b]
  <2>1. PiRuns /\ Writes(e, next)
        /\ UNCHANGED <<role, profile, place, tries, late, output, entry, entries, stopping, used, whole>>
    BY <1>3 DEF Settles
  <2>2. pi \in Pis /\ e \in Events
    BY RoleAnswerAssumption DEF AnswerInvariant, AnswerTypes, Event, Events, Words, Stops0
  <2>3. next \in Pis /\ next.clean = pi.clean /\ next.alive = pi.alive /\ next.code = pi.code
    BY <2>2 DEF Pis
  <2>4. ASSUME pi.clean
        PROVE  [text |-> next.last, stop |-> next.stop, settled |-> next.settled,
                aborted |-> next.aborted, bad |-> next.gaveUp] = ReadLine(LogRead, e)
    <3>1. LogRead = [text |-> pi.last, stop |-> pi.stop, settled |-> pi.settled,
                     aborted |-> pi.aborted, bad |-> pi.gaveUp]
      BY <2>4 DEF AnswerInvariant, LogIsTrue
    <3>2. ReadLine(LogRead, e) = [LogRead EXCEPT !.settled = TRUE, !.aborted = b]
      BY DEF ReadLine, Event
    <3>3. /\ next.last = pi.last /\ next.stop = pi.stop /\ next.settled = TRUE
          /\ next.aborted = b /\ next.gaveUp = pi.gaveUp
      BY <2>2 DEF Pis
    <3> HIDE DEF e, next
    <3>4. [LogRead EXCEPT !.settled = TRUE, !.aborted = b]
            = [text |-> pi.last, stop |-> pi.stop, settled |-> TRUE, aborted |-> b, bad |-> pi.gaveUp]
      <4> DEFINE x == [LogRead EXCEPT !.settled = TRUE, !.aborted = b]
                 y == [text |-> pi.last, stop |-> pi.stop, settled |-> TRUE, aborted |-> b, bad |-> pi.gaveUp]
      <4>1. LogRead \in Readings
        BY ReadingTypes DEF AnswerInvariant
      <4>2. x \in Readings /\ y \in Readings
        BY <2>2, <4>1 DEF Readings, Pis
      <4>3. x.text = y.text /\ x.stop = y.stop /\ x.settled = y.settled /\ x.aborted = y.aborted /\ x.bad = y.bad
        BY <3>1, <4>1 DEF Readings
      <4> HIDE DEF x, y
      <4>4. x = y
        BY <4>2, <4>3, SameReading
      <4> QED
        BY <4>4 DEF x, y
    <3> QED
      BY <3>2, <3>3, <3>4
  <2> HIDE DEF e, next
  <2> QED
    BY <2>1, <2>2, <2>3, <2>4, ChildWrites
<1>4. ASSUME NEW code \in {0, 1}, PiExits(code) PROVE AnswerInvariant'
  <2>1. pi \in Pis /\ pi' = [pi EXCEPT !.alive = FALSE, !.code = code] /\ place = "run" /\ place' = place
        /\ UNCHANGED <<role, events, output, used>>
    BY <1>4 DEF PiExits, PiRuns, AnswerInvariant, AnswerTypes
  <2>2. pi' \in Pis /\ pi'.clean = pi.clean /\ pi'.last = pi.last /\ pi'.stop = pi.stop
        /\ pi'.settled = pi.settled /\ pi'.aborted = pi.aborted /\ pi'.gaveUp = pi.gaveUp
        /\ pi'.alive = FALSE /\ pi'.code = code
    BY <2>1 DEF Pis
  <2>3. events' \in Seq(Events) /\ LogIsTrue'
    BY <2>1, <2>2, ChildIsQuiet
  <2>4. whole \subseteq whole' /\ (EndedWell' => Given(pi'.last, pi'.stop = "length") \in whole')
    BY <1>4, <2>1, <2>2 DEF PiExits, EndedWell
  <2>5. AnswerTypes' /\ WholeIsKept' /\ SummaryIsDue'
    BY <2>1, <2>2, <2>3, <2>4 DEF AnswerInvariant, AnswerTypes, WholeIsKept, SummaryIsDue
  <2>6. OutputIsWhole' /\ UsedIsOutput'
    BY <2>1, <2>4 DEF AnswerInvariant, OutputIsWhole, UsedIsOutput
  <2> QED
    BY <2>3, <2>5, <2>6 DEF AnswerInvariant
<1>5. CASE TimesOut
  <2>1. pi \in Pis /\ pi' = [pi EXCEPT !.alive = FALSE] /\ place = "run" /\ place' = place /\ pi.code = 1
        /\ UNCHANGED <<role, events, output, used, whole>>
    BY <1>5 DEF TimesOut, PiRuns, AnswerInvariant, AnswerTypes, WholeIsKept
  <2>2. pi' \in Pis /\ pi'.clean = pi.clean /\ pi'.last = pi.last /\ pi'.stop = pi.stop
        /\ pi'.settled = pi.settled /\ pi'.aborted = pi.aborted /\ pi'.gaveUp = pi.gaveUp
        /\ pi'.alive = FALSE /\ pi'.code = 1
    BY <2>1 DEF Pis
  <2>3. events' \in Seq(Events) /\ LogIsTrue'
    BY <2>1, <2>2, ChildIsQuiet
  <2>4. AnswerTypes' /\ WholeIsKept' /\ SummaryIsDue' /\ OutputIsWhole' /\ UsedIsOutput'
    BY <2>1, <2>2, <2>3 DEF AnswerInvariant, AnswerTypes, WholeIsKept, EndedWell, SummaryIsDue,
         OutputIsWhole, UsedIsOutput
  <2> QED
    BY <2>3, <2>4 DEF AnswerInvariant
<1>6. CASE TakeOver \/ AskRole \/ NoPi \/ GiveUp \/ OverBudget \/ Routed
          \/ \E guess \in Profiles, b \in BOOLEAN : Fallback(guess, b)
  <2>1. CASE TakeOver
    BY <2>1, CallerMoves DEF TakeOver
  <2>2. CASE AskRole
    BY <2>2, CallerMoves DEF AskRole
  <2>3. CASE NoPi \/ GiveUp
    BY <2>3, CallerMoves DEF NoPi, GiveUp
  <2>4. CASE OverBudget
    BY <2>4, CallerMoves DEF OverBudget
  <2>5. CASE Routed
    BY <2>5, CallerMoves DEF Routed
  <2>6. ASSUME NEW guess \in Profiles, NEW b \in BOOLEAN, Fallback(guess, b) PROVE AnswerInvariant'
    <3>1. place' \in {"raised", "routed"} /\ UNCHANGED <<role, events, pi, output, whole, used>>
      BY <2>6 DEF Fallback
    <3> QED
      BY <3>1, CallerMoves
  <2> QED
    BY <1>6, <2>1, <2>2, <2>3, <2>4, <2>5, <2>6
<1>7. CASE StartAttempt
  <2>1. used' = NoAnswer
    BY <1>7 DEF StartAttempt, AnswerInvariant, UsedIsOutput
  <2>2. /\ pi' = Fresh /\ events' = <<>> /\ role' = role /\ output' = output
        /\ place' = "run" /\ whole' = whole \cap {output} /\ Gone # Fresh
    BY <1>7 DEF StartAttempt, Gone, Fresh
  <2> QED
    BY <2>1, <2>2, ChildForgotten
<1>8. CASE Stopped \/ SummaryStopped
  BY <1>8, ChildForgotten DEF Stopped, SummaryStopped, Forget
<1>9. CASE AttemptFails \/ SummaryFails
  BY <1>9, ChildForgotten DEF AttemptFails, Ended, SummaryFails, Forget, AnswerInvariant, UsedIsOutput
<1>10. CASE RoleDone
  BY <1>10, ChildForgotten DEF RoleDone, Forget
<1>11. CASE Restart
  BY <1>11, ChildForgotten DEF Restart, Forget
<1>12. CASE AskSummary
  <2>1. /\ place = "run" /\ place' = "summary" /\ ~pi.alive /\ ~Fails /\ CutOff
        /\ UNCHANGED <<role, events, pi, output, used, whole, late>>
    BY <1>12 DEF AskSummary, Ended
  <2>2. events' \in Seq(Events) /\ LogIsTrue' /\ LogRead' = LogRead
    BY <2>1, ChildIsQuiet DEF AnswerInvariant, AnswerTypes
  <2>3. SummaryIsDue'
    BY <2>1, <2>2 DEF SummaryIsDue, Fails, CutOff
  <2>4. AnswerTypes' /\ WholeIsKept' /\ OutputIsWhole' /\ UsedIsOutput'
    BY <2>1, <2>2 DEF AnswerInvariant, AnswerTypes, WholeIsKept, EndedWell, OutputIsWhole, UsedIsOutput
  <2> QED
    BY <2>2, <2>3, <2>4 DEF AnswerInvariant
<1>13. CASE WriteAnswer
  <2>1. /\ place \in {"run", "summary"} /\ ~pi.alive /\ ~Fails /\ place' = "written"
        /\ output' = Given(LogRead.text, CutOff) /\ UNCHANGED <<role, events, pi, used, whole>>
    BY <1>13 DEF WriteAnswer, Ended, AnswerInvariant, SummaryIsDue
  <2>2. events' \in Seq(Events) /\ LogIsTrue'
    BY <2>1, ChildIsQuiet DEF AnswerInvariant, AnswerTypes
  <2>3. /\ Given(LogRead.text, CutOff) \in whole /\ (CutOff => role = "worker")
        /\ (LogRead.text # "none" \/ CutOff)
    BY <2>1, GoodAnswer
  <2>4. LogRead \in Readings /\ CutOff \in BOOLEAN
    BY ReadingTypes DEF AnswerInvariant, CutOff
  <2>5. output' \in Answers /\ OutputIsWhole'
    BY <2>1, <2>3, <2>4 DEF Given, Answers, Readings, OutputIsWhole
  <2>6. UsedIsOutput'
    <3>1. used' = NoAnswer /\ ~NoAnswer.is
      BY <2>1 DEF AnswerInvariant, UsedIsOutput, NoAnswer
    <3> QED
      BY <3>1 DEF UsedIsOutput
  <2>7. AnswerTypes' /\ WholeIsKept' /\ SummaryIsDue'
    BY <2>1, <2>2, <2>5 DEF AnswerInvariant, AnswerTypes, WholeIsKept, EndedWell, SummaryIsDue
  <2> QED
    BY <2>2, <2>5, <2>6, <2>7 DEF AnswerInvariant
<1>14. CASE StopRequested
  <2>1. UNCHANGED <<role, place, late, events, pi, output, used, whole>>
    BY <1>14 DEF StopRequested
  <2> QED
    BY <2>1, AnswerStays
<1> QED
  BY <1>1, <1>2, <1>3, <1>4, <1>5, <1>6, <1>7, <1>8, <1>9, <1>10, <1>11, <1>12, <1>13, <1>14 DEF AnswerNext

\* RoleAnswer, what a role's caller is given (run_role, parse_pi_events): whatever a child
\* says, retries, tears or is cut off at, however often the run is killed and resumed, a used
\* answer is the last message of a child that finished, or a worker's cut off at its limit.
THEOREM AnswerWhole == AnswerSpec => []AnswerIsWhole
<1>1. AnswerInvariant /\ [AnswerNext]_answerVars => AnswerInvariant'
  <2> SUFFICES ASSUME AnswerInvariant, [AnswerNext]_answerVars PROVE AnswerInvariant'
    OBVIOUS
  <2>1. CASE AnswerNext
    BY <2>1, AnswerSteps
  <2>2. CASE UNCHANGED answerVars
    BY <2>2, AnswerStays DEF answerVars
  <2> QED
    BY <2>1, <2>2
<1>2. AnswerInvariant => AnswerIsWhole
  BY DEF AnswerInvariant, UsedIsOutput, OutputIsWhole, AnswerIsWhole
<1>3. AnswerInit => AnswerInvariant
  BY AnswerStarts
<1> QED
  BY <1>1, <1>2, <1>3, PTL DEF AnswerSpec

-----------------------------------------------------------------------------
(* WorkTree: the states of the workspace *)

MaybeTrees == Trees \cup {None}
Shown == [do : {"start", "scope", "captured"}, tree : Trees, touched : BOOLEAN]
Saving == [do : {"name"}, name : Names, tree : Trees, index : Trees, touched : BOOLEAN]
Restores == [do : {"delete", "write", "restored", "failed"}, name : Names, before : Trees,
             touched : BOOLEAN, delete : SUBSET Paths, write : SUBSET Paths]
Ops == {Idle} \cup Shown \cup Saving \cup Restores

GitType ==
  /\ files \in Trees /\ index \in Trees /\ real \in BOOLEAN
  /\ head \in Branches /\ want \in Branches \cup {NoBranch} /\ commits \in [Branches -> Trees]
RunType ==
  /\ base \in MaybeTrees /\ found \in MaybeTrees
  /\ tree \in [Names -> MaybeTrees] /\ stood \in [Names -> MaybeTrees]
  /\ ref \in [Names \cup {"base"} -> MaybeTrees]
  /\ fault \subseteq Names /\ op \in Ops

\* A name's ref keeps what its file names, but for the two faults.
RefsKeep ==
  /\ \A n \in Names : \/ tree[n] = None \/ ref[n] = tree[n]
                      \/ n \in fault \/ (op.do = "name" /\ op.name = n)
  /\ \A n \in DOMAIN ref : ref[n] = None \/ ref[n] \in store
  /\ op.do = "name" => ref[op.name] = op.tree
  /\ op.do = "start" => ref["base"] = op.tree /\ base = None
  /\ base = None \/ ref["base"] = None \/ base \in store

\* A state of the workspace holds no sensitive path, and the base the plain ones as found.
NoSecret(t) == \A p \in Sensitive : t[p] = Absent
AsFound(t) == NoSecret(t) /\ \A p \in Plain : t[p] = found[p]
BaseIs ==
  /\ base # None => AsFound(base)
  /\ op.do = "start" => AsFound(op.tree)
  /\ op.do \in {"scope", "captured"} => base # None

\* A saved state is that of a workspace beside the index it was saved with.
SavedWith(t, i) == i \in Trees /\ \E f \in Trees : t = Snapshot(f, i)
Target == tree[op.name]
SavedIs ==
  /\ \A n \in Names : tree[n] # None => SavedWith(tree[n], stood[n])
  /\ op.do = "name" => SavedWith(op.tree, op.index)
  /\ op.do \in {"delete", "write", "restored", "failed"} => Target # None

\* Nobody has edited under a diff that is of the workspace.
ShownIs ==
  /\ op.do = "scope" /\ ~op.touched => op.tree = Now
  /\ op.do = "captured" /\ ~op.touched /\ ~seen.back => seen.tree = Now

\* How far a restore has come that nobody disturbs.  What it has to do is what differs.
Undisturbed(steps) == op.do \in steps /\ ~op.touched
\* The paths a snapshot takes as they are.
Taken(p) == p \notin Excluded \cup Sensitive /\ (p \in Ignored => index[p] # Absent)
Lists ==
  Undisturbed({"delete", "write"}) =>
    /\ \A p \in op.delete : Target[p] = Absent
    /\ \A p \in op.write : Target[p] # Absent
    /\ op.do = "write" => op.delete = {}
    /\ \A p \in Paths : Taken(p) =>
         files[p] = Target[p] \/ p \in (IF Target[p] = Absent THEN op.delete ELSE op.write)
\* Every other path is as it was, as it is in the saved state, or below one of its files.
Rest ==
  Undisturbed({"delete", "write", "restored"}) =>
    \A p \in Paths \ Plain : files[p] \in {op.before[p], Target[p]} \/ \E d \in Parents(p) : Target[d] # Absent
\* No directory stands where a file is to be deleted.
Deletable == Undisturbed({"delete"}) => \A p \in op.delete : \A q \in Children(p) : files[q] = Absent
Outcome ==
  /\ Undisturbed({"restored"}) => Now = Target
  /\ Undisturbed({"failed"}) => \E p \in Ignored \cup Excluded : index[p] # stood[op.name][p]

Restoring == Lists /\ Rest /\ Deletable /\ Outcome

-----------------------------------------------------------------------------
(* What git makes of consistent states. *)

LEMMA TreeIs ==
  ASSUME NEW f
  PROVE  f \in Trees <=> /\ f \in [Paths -> Contents \cup {Absent}]
                         /\ \A p, d \in Paths : p \in Children(d) => f[p] = Absent \/ f[d] = Absent
<1>1. ASSUME f \in Trees, NEW p \in Paths, NEW d \in Paths, p \in Children(d)
      PROVE  f[p] = Absent \/ f[d] = Absent
  BY <1>1 DEF Trees, Children
<1>2. ASSUME f \in [Paths -> Contents \cup {Absent}],
             \A p, d \in Paths : p \in Children(d) => f[p] = Absent \/ f[d] = Absent,
             NEW b \in Below
      PROVE  f[b[1]] = Absent \/ f[b[2]] = Absent
  <2>1. b[1] \in Paths /\ b[2] \in Paths /\ b = <<b[1], b[2]>>
    BY PathsAssumption
  <2>2. b[1] \in Children(b[2])
    BY <2>1 DEF Children
  <2> QED
    BY <1>2, <2>1, <2>2
<1> QED
  BY <1>1, <1>2 DEF Trees

LEMMA Relatives ==
  ASSUME NEW p \in Paths, NEW d \in Paths
  PROVE  /\ p \in Children(d) <=> d \in Parents(p)
         /\ p \notin Children(p) /\ p \notin Parents(p)
BY PathsAssumption DEF Children, Parents

LEMMA AbsentIsTree == [p \in Paths |-> Absent] \in Trees
<1> DEFINE f == [p \in Paths |-> Absent]
<1>1. f \in [Paths -> Contents \cup {Absent}] /\ \A p \in Paths : f[p] = Absent
  OBVIOUS
<1> HIDE DEF f
<1> QED
  BY <1>1, TreeIs DEF f

LEMMA PutKeeps ==
  ASSUME NEW f \in Trees, NEW p \in Paths, NEW c \in Contents \cup {Absent}
  PROVE  Put(f, p, c) \in Trees
<1> DEFINE g == Put(f, p, c)
<1>1. f \in [Paths -> Contents \cup {Absent}]
      /\ \A q, d \in Paths : q \in Children(d) => f[q] = Absent \/ f[d] = Absent
  BY TreeIs
<1>2. /\ g \in [Paths -> Contents \cup {Absent}]
      /\ g[p] = c
      /\ \A q \in Paths : q # p /\ c # Absent /\ q \in Children(p) \cup Parents(p) => g[q] = Absent
      /\ \A q \in Paths : q # p => g[q] \in {f[q], Absent}
  BY <1>1 DEF Put
<1> HIDE DEF g
<1>3. ASSUME NEW q \in Paths, NEW d \in Paths, q \in Children(d) PROVE g[q] = Absent \/ g[d] = Absent
  <2>1. CASE q = p
    BY <1>2, <1>3, <2>1, Relatives
  <2>2. CASE d = p
    BY <1>2, <1>3, <2>2, Relatives
  <2>3. CASE q # p /\ d # p
    BY <1>1, <1>2, <1>3, <2>3
  <2> QED
    BY <2>1, <2>2, <2>3
<1>4. g \in Trees
  BY <1>2, <1>3, TreeIs
<1> QED
  BY <1>4 DEF g

LEMMA CoverKeeps ==
  ASSUME NEW f \in Trees, NEW moved, NEW b, commits[b] \in Trees
  PROVE  Cover(f, moved, b) \in Trees
<1> DEFINE g == Cover(f, moved, b)
           c == commits[b]
<1>1. /\ f \in [Paths -> Contents \cup {Absent}]
      /\ \A q, d \in Paths : q \in Children(d) => f[q] = Absent \/ f[d] = Absent
      /\ c \in [Paths -> Contents \cup {Absent}]
      /\ \A q, d \in Paths : q \in Children(d) => c[q] = Absent \/ c[d] = Absent
  BY TreeIs
<1>2. /\ g \in [Paths -> Contents \cup {Absent}]
      /\ \A q \in Paths : q \in moved => g[q] = c[q]
      /\ \A q, d \in Paths : q \notin moved /\ d \in moved /\ c[d] # Absent /\ q \in Children(d) \cup Parents(d)
                               => g[q] = Absent
      /\ \A q \in Paths : q \notin moved => g[q] \in {f[q], Absent}
  <2> HIDE DEF c
  <2>1. g = [p \in Paths |->
               IF p \in moved THEN c[p]
               ELSE IF \E q \in moved : c[q] # Absent /\ p \in Children(q) \cup Parents(q) THEN Absent
               ELSE f[p]]
    BY DEF Cover, c
  <2> HIDE DEF g
  <2> QED
    BY <1>1, <2>1
<1> HIDE DEF g, c
<1>3. ASSUME NEW q \in Paths, NEW d \in Paths, q \in Children(d) PROVE g[q] = Absent \/ g[d] = Absent
  <2>1. d \in Parents(q)
    BY <1>3, Relatives
  <2> QED
    BY <1>1, <1>2, <1>3, <2>1
<1>4. g \in Trees
  BY <1>2, <1>3, TreeIs
<1> QED
  BY <1>4 DEF g

\* A snapshot by the kinds of paths.
LEMMA SnapshotIs ==
  ASSUME NEW f \in Trees, NEW i \in Trees
  PROVE  /\ Snapshot(f, i) \in Trees
         /\ \A p \in Sensitive : Snapshot(f, i)[p] = Absent
         /\ \A p \in Paths \ (Excluded \cup Sensitive) :
              Snapshot(f, i)[p] = IF p \in Ignored /\ i[p] = Absent THEN Absent ELSE f[p]
         /\ \A p \in Excluded \ Sensitive :
              Snapshot(f, i)[p] = IF (Children(p) \cup Parents(p)) \cap ToAdd(f, i) = {} THEN i[p] ELSE Absent
<1> DEFINE s == Snapshot(f, i)
           add == ToAdd(f, i)
           a == Added(f, i)
<1>1. /\ f \in [Paths -> Contents \cup {Absent}] /\ i \in [Paths -> Contents \cup {Absent}]
      /\ \A q, d \in Paths : q \in Children(d) => f[q] = Absent \/ f[d] = Absent
      /\ \A q, d \in Paths : q \in Children(d) => i[q] = Absent \/ i[d] = Absent
  BY TreeIs
<1>2. add \subseteq Paths /\ \A p \in add : p \notin Excluded /\ f[p] # Absent
  BY DEF ToAdd
<1>3. \A p \in Paths \ Excluded : p \in add <=> f[p] # Absent /\ (p \in Ignored => i[p] # Absent)
  BY DEF ToAdd
<1>4. Excluded \subseteq Paths /\ Sensitive \subseteq Paths /\ Ignored \subseteq Paths
  BY PathsAssumption
<1>5. /\ a \in [Paths -> Contents \cup {Absent}]
      /\ \A p \in Paths : a[p] = IF p \in add THEN f[p]
                                 ELSE IF p \in Excluded /\ (Children(p) \cup Parents(p)) \cap add = {} THEN i[p]
                                 ELSE Absent
  <2>1. a = [p \in Paths |-> IF p \in add THEN f[p]
                             ELSE IF p \in Excluded /\ (Children(p) \cup Parents(p)) \cap add = {} THEN i[p]
                             ELSE Absent]
    BY DEF Added
  <2> HIDE DEF a, add
  <2> QED
    BY <1>1, <2>1
<1>6. s = [p \in Paths |-> IF p \in Sensitive THEN Absent ELSE a[p]]
  BY DEF Snapshot
<1> HIDE DEF s, add, a
<1>7. s \in [Paths -> Contents \cup {Absent}]
      /\ \A p \in Paths : s[p] = IF p \in Sensitive THEN Absent ELSE a[p]
  BY <1>5, <1>6
<1>8. ASSUME NEW q \in Paths, NEW d \in Paths, q \in Children(d) PROVE a[q] = Absent \/ a[d] = Absent
  <2>1. d \in Parents(q)
    BY <1>8, Relatives
  <2> QED
    BY <1>1, <1>5, <1>8, <2>1
<1>9. s \in Trees
  BY <1>7, <1>8, TreeIs
<1>10. \A p \in Sensitive : s[p] = Absent
  BY <1>4, <1>7
<1>11. \A p \in Paths \ (Excluded \cup Sensitive) : s[p] = IF p \in Ignored /\ i[p] = Absent THEN Absent ELSE f[p]
  BY <1>3, <1>5, <1>7
<1>12. \A p \in Excluded \ Sensitive :
         s[p] = IF (Children(p) \cup Parents(p)) \cap add = {} THEN i[p] ELSE Absent
  BY <1>2, <1>4, <1>5, <1>7
<1> QED
  BY <1>9, <1>10, <1>11, <1>12 DEF s, add

-----------------------------------------------------------------------------
(* What a step makes of the operation under way. *)

LEMMA Shapes ==
  ASSUME NEW o \in Ops
  PROVE  /\ o.do = "idle" <=> o = Idle
         /\ o.do \in {"start", "scope", "captured"} => o \in Shown
         /\ o.do = "name" => o \in Saving
         /\ o.do \in {"delete", "write", "restored", "failed"} => o \in Restores
         /\ o.do \in {"idle", "start", "scope", "captured", "name", "delete", "write", "restored", "failed"}
<1>1. CASE o = Idle
  BY <1>1 DEF Idle
<1>2. CASE o \in Shown
  BY <1>2 DEF Idle, Shown
<1>3. CASE o \in Saving
  BY <1>3 DEF Idle, Saving
<1>4. CASE o \in Restores
  BY <1>4 DEF Idle, Restores
<1> QED
  BY <1>1, <1>2, <1>3, <1>4 DEF Ops

\* An operation under which somebody edits.
LEMMA TouchIs ==
  ASSUME NEW o \in Ops, o.do # "idle"
  PROVE  /\ [o EXCEPT !.touched = TRUE] \in Ops
         /\ [o EXCEPT !.touched = TRUE].touched
         /\ [o EXCEPT !.touched = TRUE].do = o.do
         /\ o.do \in {"start", "scope", "captured", "name"} => [o EXCEPT !.touched = TRUE].tree = o.tree
         /\ o.do = "name" => [o EXCEPT !.touched = TRUE].index = o.index
         /\ o.do \in {"name", "delete", "write", "restored", "failed"} => [o EXCEPT !.touched = TRUE].name = o.name
<1> DEFINE r == [o EXCEPT !.touched = TRUE]
<1>1. CASE o \in Shown
  <2>1. r \in Shown /\ r.touched /\ r.do = o.do /\ r.tree = o.tree
    BY <1>1 DEF Shown
  <2>2. o.do \in {"start", "scope", "captured"}
    BY <1>1 DEF Shown
  <2> QED
    BY <2>1, <2>2 DEF Ops
<1>2. CASE o \in Saving
  <2>1. r \in Saving /\ r.touched /\ r.do = o.do /\ r.tree = o.tree /\ r.index = o.index /\ r.name = o.name
    BY <1>2 DEF Saving
  <2> QED
    BY <2>1 DEF Ops
<1>3. CASE o \in Restores
  <2>1. r \in Restores /\ r.touched /\ r.do = o.do /\ r.name = o.name
    BY <1>3 DEF Restores
  <2>2. o.do \in {"delete", "write", "restored", "failed"}
    BY <1>3 DEF Restores
  <2> QED
    BY <2>1, <2>2 DEF Ops
<1> QED
  BY <1>1, <1>2, <1>3, Shapes DEF Ops

OthersStep == Write \/ Stage \/ Commit \/ CheckOut

\* What others do is to the workspace and to git; it marks the operation under way.
LEMMA OthersDo ==
  ASSUME GitType, RunType, OthersStep
  PROVE  /\ GitType' /\ RunType'
         /\ UNCHANGED <<saved, seen, found, stood, fault>>
         /\ op'.do = op.do
         /\ op.do # "idle" => op'.touched
         /\ op.do \in {"start", "scope", "captured", "name"} => op'.tree = op.tree
         /\ op.do = "name" => op'.index = op.index
         /\ op.do \in {"name", "delete", "write", "restored", "failed"} => op'.name = op.name
<1>1. Others
  BY DEF OthersStep, Write, Stage, Commit, CheckOut
<1>2. UNCHANGED <<saved, seen, found, stood, fault>>
  BY <1>1 DEF Others
<1>3. op' = IF op.do = "idle" THEN op ELSE [op EXCEPT !.touched = TRUE]
  BY <1>1 DEF Others, Touch
<1>4. op \in Ops
  BY DEF RunType
<1>5. RunType'
  <2>1. op' \in Ops
    BY <1>3, <1>4, TouchIs
  <2> QED
    BY <1>2, <2>1 DEF RunType, saved
<1>6. GitType'
  <2>1. files' \in Trees
    <3>1. CASE Write
      BY <3>1, PutKeeps DEF Write, GitType
    <3>2. CASE Stage \/ Commit
      BY <3>2 DEF Stage, Commit, GitType
    <3>3. CASE CheckOut
      <4>1. PICK b \in Branches : files' = Cover(files, {p \in Moving(b) : index[p] # commits[b][p]}, b)
        BY <3>3 DEF CheckOut, CheckedOut
      <4>2. files \in Trees /\ commits[b] \in Trees
        BY DEF GitType
      <4> QED
        BY <4>1, <4>2, CoverKeeps
    <3> QED
      BY <3>1, <3>2, <3>3 DEF OthersStep
  <2>2. index' \in Trees
    <3>1. CASE Write \/ Commit
      BY <3>1 DEF Write, Commit, GitType, git
    <3>2. CASE Stage
      <4>1. PICK p \in Paths : \E c \in {files[p], Absent} : index' = Put(index, p, c)
        BY <3>2 DEF Stage
      <4>2. files[p] \in Contents \cup {Absent} /\ index \in Trees
        BY TreeIs DEF GitType
      <4>3. PICK c \in Contents \cup {Absent} : index' = Put(index, p, c)
        BY <4>1, <4>2
      <4> QED
        BY <4>2, <4>3, PutKeeps
    <3>3. CASE CheckOut
      <4>1. PICK b \in Branches : index' = Cover(index, Moving(b), b)
        BY <3>3 DEF CheckOut, IndexAt
      <4>2. index \in Trees /\ commits[b] \in Trees
        BY DEF GitType
      <4> QED
        BY <4>1, <4>2, CoverKeeps
    <3> QED
      BY <3>1, <3>2, <3>3 DEF OthersStep
  <2>3. real' = real /\ want' = want
    BY <1>2 DEF OthersStep, Write, Stage, Commit, CheckOut, git, saved
  <2>4. head' \in Branches /\ commits' \in [Branches -> Trees]
    <3>1. CASE Write \/ Stage
      BY <3>1 DEF Write, Stage, GitType, git
    <3>2. CASE Commit
      BY <3>2 DEF Commit, GitType
    <3>3. CASE CheckOut
      BY <3>3 DEF CheckOut, GitType
    <3> QED
      BY <3>1, <3>2, <3>3 DEF OthersStep
  <2> QED
    BY <2>1, <2>2, <2>3, <2>4 DEF GitType
<1>7. op.do # "idle" \/ op' = op
  BY <1>3
<1>8. op.do = "idle" => op'.do = op.do
  BY <1>3
<1> QED
  BY <1>2, <1>3, <1>4, <1>5, <1>6, <1>8, TouchIs

Secured == SecretsAreFiles => Restoring
Known == RefsKeep /\ BaseIs /\ SavedIs /\ ShownIs /\ Secured
WorkInv == GitType /\ RunType /\ Known

LEMMA OthersKeep ==
  ASSUME WorkInv, OthersStep
  PROVE  WorkInv'
<1>1. /\ GitType' /\ RunType'
      /\ UNCHANGED <<saved, seen, found, stood, fault>>
      /\ op'.do = op.do
      /\ op.do # "idle" => op'.touched
      /\ op.do \in {"start", "scope", "captured", "name"} => op'.tree = op.tree
      /\ op.do = "name" => op'.index = op.index
      /\ op.do \in {"name", "delete", "write", "restored", "failed"} => op'.name = op.name
  BY OthersDo DEF WorkInv
<1>2. RefsKeep'
  BY <1>1 DEF WorkInv, Known, RefsKeep, saved
<1>3. BaseIs'
  BY <1>1 DEF WorkInv, Known, BaseIs, AsFound, NoSecret, saved
<1>4. SavedIs'
  BY <1>1 DEF WorkInv, Known, SavedIs, Target, saved
<1>5. ShownIs'
  BY <1>1 DEF ShownIs
<1>6. Secured'
  BY <1>1 DEF Secured, Restoring, Lists, Rest, Deletable, Outcome, Undisturbed
<1> QED
  BY <1>1, <1>2, <1>3, <1>4, <1>5, <1>6 DEF WorkInv, Known


LEMMA NowIs ==
  ASSUME GitType
  PROVE  Now \in Trees /\ NoSecret(Now) /\ \A p \in Plain : Now[p] = files[p]
<1>1. files \in Trees /\ index \in Trees
  BY DEF GitType
<1> QED
  BY <1>1, SnapshotIs DEF Now, NoSecret, Plain

LEMMA NotRestoring ==
  ASSUME op'.do \notin {"delete", "write", "restored", "failed"}
  PROVE  Secured'
BY DEF Secured, Restoring, Lists, Rest, Deletable, Outcome, Undisturbed

LEMMA CollectKeeps ==
  ASSUME WorkInv, Collect
  PROVE  WorkInv'
<1>1. /\ UNCHANGED <<files, git, base, want, tree, ref, seen, op, found, stood, fault, count>>
      /\ store' = Reachable
  BY DEF Collect
<1>2. GitType' /\ RunType' /\ BaseIs' /\ SavedIs' /\ ShownIs' /\ Secured'
  BY <1>1 DEF WorkInv, Known, GitType, RunType, BaseIs, AsFound, SavedIs, ShownIs, Now, Secured, Restoring, Lists,
    Rest, Deletable, Outcome, Undisturbed, Target, Taken, git
<1>3. RefsKeep'
  <2>1. \A n \in DOMAIN ref : ref[n] = None \/ ref[n] \in Reachable
    BY DEF Reachable
  <2>2. "base" \in DOMAIN ref
    BY DEF WorkInv, RunType
  <2>3. ref["base"] = None \/ base \in Reachable
    BY <2>2 DEF Reachable
  <2> HIDE DEF Reachable
  <2> QED
    BY <1>1, <2>1, <2>3 DEF WorkInv, Known, RefsKeep
<1> QED
  BY <1>2, <1>3 DEF WorkInv, Known

\* The base is taken from the workspace the run finds.
LEMMA StartKeepKeeps ==
  ASSUME WorkInv, StartKeep
  PROVE  WorkInv'
<1>1. /\ op = Idle /\ op' = [do |-> "start", tree |-> Now, touched |-> FALSE]
      /\ base = None /\ base' = None /\ tree' = tree /\ stood' = stood /\ fault' = fault
      /\ ref' = [ref EXCEPT !["base"] = Now] /\ store' = store \cup {Now}
      /\ want' = (IF real THEN head ELSE NoBranch) /\ found' = files
      /\ UNCHANGED <<files, git>>
  BY DEF StartKeep, Begin
<1>2. Now \in Trees /\ NoSecret(Now) /\ \A p \in Plain : Now[p] = files[p]
  BY NowIs DEF WorkInv
<1>3. /\ op.do = "idle" /\ op'.do = "start" /\ op'.tree = Now /\ op' \in Shown
  BY <1>1, <1>2 DEF Idle, Shown
<1>4. GitType'
  BY <1>1 DEF WorkInv, GitType, git
<1>5. ref \in [Names \cup {"base"} -> MaybeTrees] /\ "base" \notin Names
  BY PathsAssumption DEF WorkInv, RunType
<1>6. RunType'
  BY <1>1, <1>2, <1>3, <1>5 DEF WorkInv, RunType, MaybeTrees, Ops, GitType
<1>7. ref'["base"] = Now /\ \A n \in Names : ref'[n] = ref[n]
  BY <1>1, <1>5
<1>8. RefsKeep'
  <2>1. \A n \in Names : tree'[n] = None \/ ref'[n] = tree'[n] \/ n \in fault'
    BY <1>1, <1>3, <1>7 DEF WorkInv, Known, RefsKeep
  <2>2. \A n \in Names \cup {"base"} : ref'[n] = None \/ ref'[n] \in store'
    BY <1>1, <1>5, <1>7 DEF WorkInv, Known, RefsKeep
  <2> QED
    BY <1>1, <1>3, <1>5, <1>7, <2>1, <2>2 DEF RefsKeep
<1>9. BaseIs'
  BY <1>1, <1>2, <1>3 DEF BaseIs, AsFound, NoSecret
<1>10. SavedIs' /\ ShownIs'
  BY <1>1, <1>3 DEF WorkInv, Known, SavedIs, ShownIs
<1> QED
  BY <1>3, <1>4, <1>6, <1>8, <1>9, <1>10, NotRestoring DEF WorkInv, Known

LEMMA StartNameKeeps ==
  ASSUME WorkInv, StartName
  PROVE  WorkInv'
<1>1. /\ op.do = "start" /\ op' = Idle /\ base' = op.tree
      /\ UNCHANGED <<files, git, want, tree, ref, store, seen, found, stood, fault>>
  BY DEF StartName, Goes, Ends
<1>2. op \in Shown /\ op' \in Ops /\ op'.do = "idle"
  BY <1>1, Shapes DEF WorkInv, RunType, Ops, Idle
<1>3. GitType' /\ RunType'
  BY <1>1, <1>2 DEF WorkInv, GitType, RunType, Shown, MaybeTrees, git
<1>4. RefsKeep' /\ BaseIs' /\ SavedIs' /\ ShownIs'
  <2>1. ref["base"] = None \/ ref["base"] \in store
    BY DEF WorkInv, Known, RefsKeep, RunType
  <2> QED
    BY <1>1, <1>2, <2>1 DEF WorkInv, Known, RefsKeep, BaseIs, AsFound, SavedIs, ShownIs
<1> QED
  BY <1>2, <1>3, <1>4, NotRestoring DEF WorkInv, Known

\* A save keeps the state before it names it.
LEMMA SaveKeepKeeps ==
  ASSUME WorkInv, NEW n \in Names, SaveKeep(n)
  PROVE  WorkInv'
<1>1. /\ op = Idle
      /\ op' = [do |-> "name", name |-> n, tree |-> Now, index |-> index, touched |-> FALSE]
      /\ ref' = [ref EXCEPT ![n] = Now] /\ store' = store \cup {Now}
      /\ UNCHANGED <<files, git, base, want, tree, seen, found, stood, fault>>
  BY DEF SaveKeep, Begin
<1>2. Now \in Trees /\ files \in Trees /\ index \in Trees
  BY NowIs DEF WorkInv, GitType
<1>3. /\ op.do = "idle" /\ op'.do = "name" /\ op'.name = n /\ op'.tree = Now /\ op'.index = index
      /\ op' \in Saving
  BY <1>1, <1>2 DEF Idle, Saving
<1>4. ref \in [Names \cup {"base"} -> MaybeTrees] /\ "base" \notin Names
  BY PathsAssumption DEF WorkInv, RunType
<1>5. GitType' /\ RunType'
  BY <1>1, <1>2, <1>3, <1>4 DEF WorkInv, GitType, RunType, MaybeTrees, Ops, git
<1>6. ref'[n] = Now /\ \A m \in Names \cup {"base"} : m # n => ref'[m] = ref[m]
  BY <1>1, <1>4
<1>7. RefsKeep'
  <2>1. \A m \in Names : tree'[m] = None \/ ref'[m] = tree'[m] \/ m \in fault' \/ m = n
    BY <1>1, <1>3, <1>6 DEF WorkInv, Known, RefsKeep
  <2>2. \A m \in Names \cup {"base"} : ref'[m] = None \/ ref'[m] \in store'
    BY <1>1, <1>4, <1>6 DEF WorkInv, Known, RefsKeep
  <2>3. DOMAIN ref' = Names \cup {"base"} /\ ref'["base"] = ref["base"]
    BY <1>1, <1>4, <1>6
  <2>4. base' = None \/ ref'["base"] = None \/ base' \in store'
    BY <1>1, <2>3 DEF WorkInv, Known, RefsKeep
  <2> QED
    BY <1>3, <1>6, <2>1, <2>2, <2>3, <2>4 DEF RefsKeep
<1>8. BaseIs' /\ ShownIs'
  BY <1>1, <1>3 DEF WorkInv, Known, BaseIs, AsFound, ShownIs
<1>9. SavedIs'
  <2>1. SavedWith(Now, index)
    BY <1>2 DEF SavedWith, Now
  <2> QED
    BY <1>1, <1>3, <2>1 DEF WorkInv, Known, SavedIs
<1> QED
  BY <1>3, <1>5, <1>7, <1>8, <1>9, NotRestoring DEF WorkInv, Known

LEMMA SaveNameKeeps ==
  ASSUME WorkInv, SaveName
  PROVE  WorkInv'
<1>1. /\ op.do = "name" /\ op' = Idle
      /\ tree' = [tree EXCEPT ![op.name] = op.tree] /\ stood' = [stood EXCEPT ![op.name] = op.index]
      /\ fault' = fault \ {op.name}
      /\ UNCHANGED <<files, git, base, want, ref, store, seen, found>>
  BY DEF SaveName, Goes, Ends
<1>2. op \in Saving /\ op' \in Ops /\ op'.do = "idle"
  BY <1>1, Shapes DEF WorkInv, RunType, Ops, Idle
<1>3. op.name \in Names /\ op.tree \in Trees /\ op.index \in Trees
  BY <1>2 DEF Saving
<1>4. GitType' /\ RunType'
  BY <1>1, <1>2, <1>3 DEF WorkInv, GitType, RunType, MaybeTrees, git
<1>5. /\ tree'[op.name] = op.tree /\ \A n \in Names : n # op.name => tree'[n] = tree[n]
      /\ stood'[op.name] = op.index /\ \A n \in Names : n # op.name => stood'[n] = stood[n]
  BY <1>1, <1>3 DEF WorkInv, RunType
<1>6. RefsKeep'
  <2>1. \A n \in Names : tree'[n] = None \/ ref'[n] = tree'[n] \/ n \in fault'
    BY <1>1, <1>5 DEF WorkInv, Known, RefsKeep
  <2> QED
    BY <1>1, <1>2, <2>1 DEF WorkInv, Known, RefsKeep
<1>7. BaseIs' /\ SavedIs' /\ ShownIs'
  BY <1>1, <1>2, <1>5 DEF WorkInv, Known, BaseIs, AsFound, SavedIs, ShownIs
<1> QED
  BY <1>2, <1>4, <1>6, <1>7, NotRestoring DEF WorkInv, Known


\* The steps that leave what is saved alone.
LEMMA SavedStays ==
  ASSUME WorkInv, UNCHANGED <<saved, found, stood, fault>>, op.do # "name",
         op'.do \in {"idle", "delete", "write", "restored", "failed"}, op'.do = "idle" \/ Target' # None
  PROVE  RefsKeep' /\ BaseIs' /\ SavedIs' /\ ShownIs'
BY DEF WorkInv, Known, RefsKeep, BaseIs, AsFound, SavedIs, ShownIs, saved

-----------------------------------------------------------------------------
(* A restore. *)

\* The state a restore puts back, and its place in the type.
LEMMA TargetIs ==
  ASSUME WorkInv, op.do \in {"delete", "write", "restored", "failed"}
  PROVE  /\ op \in Restores /\ op.name \in Names
         /\ Target \in Trees /\ SavedWith(Target, stood[op.name])
<1>1. op \in Restores /\ op.name \in Names
  BY Shapes DEF WorkInv, RunType, Restores
<1>2. Target # None
  BY DEF WorkInv, Known, SavedIs
<1> QED
  BY <1>1, <1>2 DEF WorkInv, Known, RunType, MaybeTrees, SavedIs, Target

LEMMA RestoreKeeps ==
  ASSUME WorkInv, NEW n \in Names, Restore(n)
  PROVE  WorkInv'
<1> DEFINE t == tree[n]
           gone == {p \in Paths : Now[p] # Absent /\ t[p] = Absent}
           put == {p \in Paths : t[p] # Absent /\ t[p] # Now[p]}
<1>1. /\ op = Idle /\ t # None
      /\ op' = [do |-> "delete", name |-> n, before |-> files, touched |-> FALSE, delete |-> gone, write |-> put]
      /\ UNCHANGED <<files, git, saved, seen, found, stood, fault>>
  BY DEF Restore, Begin
<1>2. files \in Trees /\ index \in Trees
  BY DEF WorkInv, GitType
<1>3. gone \subseteq Paths /\ put \subseteq Paths
  OBVIOUS
<1>4. \A p \in Paths : /\ p \in gone => Now[p] # Absent /\ t[p] = Absent
                       /\ p \in put => t[p] # Absent
                       /\ Now[p] = t[p] \/ p \in (IF t[p] = Absent THEN gone ELSE put)
  OBVIOUS
<1> HIDE DEF gone, put
<1>5. /\ op' \in Restores /\ op'.do = "delete" /\ op'.name = n /\ op'.before = files
      /\ op'.delete = gone /\ op'.write = put /\ op.do = "idle"
  BY <1>1, <1>2, <1>3 DEF Restores, Idle
<1>6. GitType' /\ RunType'
  BY <1>1, <1>5 DEF WorkInv, GitType, RunType, Ops, git, saved
<1>7. Target' = t /\ files' = files /\ index' = index
  BY <1>1, <1>5 DEF Target, git, saved
<1>8. RefsKeep' /\ BaseIs' /\ SavedIs' /\ ShownIs'
  BY <1>1, <1>5, <1>7, SavedStays
<1> HIDE DEF t
<1>9. Lists'
  <2>1. \A p \in Paths : Taken(p) => Now[p] = files[p]
    BY <1>2, SnapshotIs DEF Now, Taken
  <2>2. \A p \in Paths : Taken(p) => files[p] = t[p] \/ p \in (IF t[p] = Absent THEN gone ELSE put)
    BY <1>4, <2>1
  <2> QED
    BY <1>1, <1>3, <1>4, <1>5, <1>7, <2>2 DEF Lists, Undisturbed, Taken
<1>10. Rest'
  BY <1>5, <1>7 DEF Rest
<1>11. SecretsAreFiles => Deletable'
  <2> SUFFICES ASSUME SecretsAreFiles PROVE Deletable'
    OBVIOUS
  <2>1. ASSUME NEW p \in gone, NEW q \in Children(p) PROVE files[q] = Absent
    <3>1. p \notin Excluded \cup Sensitive
      BY <2>1 DEF SecretsAreFiles
    <3>2. files[p] # Absent
      BY <1>2, <1>3, <1>4, <3>1, SnapshotIs DEF Now
    <3>3. q \in Paths
      BY DEF Children
    <3> QED
      BY <1>2, <1>3, <3>2, <3>3, TreeIs
  <2> QED
    BY <1>5, <1>7, <2>1 DEF Deletable, Undisturbed
<1>12. Outcome'
  BY <1>5 DEF Outcome, Undisturbed
<1>13. Secured'
  BY <1>9, <1>10, <1>11, <1>12 DEF Secured, Restoring
<1> QED
  BY <1>6, <1>8, <1>13 DEF WorkInv, Known


\* The restore goes on with less to do.
Onward(do, gone, put) ==
  /\ op' \in Restores
  /\ op'.do = do /\ op'.name = op.name /\ op'.before = op.before /\ op'.touched = op.touched
  /\ op'.delete = gone /\ op'.write = put

LEMMA OnwardIs ==
  ASSUME op \in Restores
  PROVE  /\ Then([op EXCEPT !.do = "failed"]) => Onward("failed", op.delete, op.write)
         /\ Then([op EXCEPT !.do = "restored"]) => Onward("restored", op.delete, op.write)
         /\ Then([op EXCEPT !.do = "write"]) => Onward("write", op.delete, op.write)
         /\ \A p : Then([op EXCEPT !.delete = @ \ {p}]) => Onward(op.do, op.delete \ {p}, op.write)
         /\ \A p : Then([op EXCEPT !.write = @ \ {p}]) => Onward(op.do, op.delete, op.write \ {p})
<1>1. ASSUME NEW do \in {"failed", "restored", "write"}, Then([op EXCEPT !.do = do])
      PROVE  Onward(do, op.delete, op.write)
  BY <1>1 DEF Restores, Then, Onward
<1>2. ASSUME NEW p, Then([op EXCEPT !.delete = @ \ {p}]) PROVE Onward(op.do, op.delete \ {p}, op.write)
  BY <1>2 DEF Restores, Then, Onward
<1>3. ASSUME NEW p, Then([op EXCEPT !.write = @ \ {p}]) PROVE Onward(op.do, op.delete, op.write \ {p})
  BY <1>3 DEF Restores, Then, Onward
<1> QED
  BY <1>1, <1>2, <1>3

\* What a step of a restore leaves as it is.
LEMMA RestoreGoesOn ==
  ASSUME WorkInv, op.do \in {"delete", "write"}, NEW do, NEW gone, NEW put, Onward(do, gone, put),
         UNCHANGED <<git, saved, seen, found, stood, fault>>, files' \in Trees
  PROVE  /\ GitType' /\ RunType' /\ RefsKeep' /\ BaseIs' /\ SavedIs' /\ ShownIs'
         /\ Target' = Target /\ Target' # None /\ \A p : Taken(p)' = Taken(p)
<1>1. op' \in Ops /\ op'.do \in {"delete", "write", "restored", "failed"}
  BY DEF Onward, Ops, Restores
<1>2. GitType' /\ RunType'
  BY <1>1 DEF WorkInv, GitType, RunType, git, saved
<1>3. Target' = Target /\ Target # None
  BY DEF Onward, Target, saved, WorkInv, Known, SavedIs
<1>4. RefsKeep' /\ BaseIs' /\ SavedIs' /\ ShownIs'
  BY <1>1, <1>3, SavedStays
<1>5. \A p : Taken(p)' = Taken(p)
  BY DEF Taken, git
<1> QED
  BY <1>2, <1>3, <1>4, <1>5

LEMMA RestoreDeleteKeeps ==
  ASSUME WorkInv, NEW p \in Paths, RestoreDelete(p)
  PROVE  WorkInv'
<1>1. /\ op.do = "delete" /\ p \in op.delete /\ files' = [files EXCEPT ![p] = Absent]
      /\ UNCHANGED <<git, saved, seen, found, stood, fault>>
  BY DEF RestoreDelete, Goes
<1>2. op \in Restores /\ Target \in Trees
  BY <1>1, TargetIs
<1>3. files \in Trees /\ files \in [Paths -> Contents \cup {Absent}]
  BY TreeIs DEF WorkInv, GitType
<1>4. files'[p] = Absent /\ \A q \in Paths : q # p => files'[q] = files[q]
  BY <1>1, <1>3
<1>5. files' \in Trees
  <2>1. files' \in [Paths -> Contents \cup {Absent}]
    BY <1>1, <1>3
  <2>2. \A q, d \in Paths : q \in Children(d) => files'[q] = Absent \/ files'[d] = Absent
    BY <1>3, <1>4, TreeIs
  <2> QED
    BY <2>1, <2>2, TreeIs
<1>6. CASE \E q \in Children(p) : files[q] # Absent
  <2>1. Onward("failed", op.delete, op.write)
    BY <1>2, <1>6, OnwardIs DEF RestoreDelete
  <2>2. op'.do = "failed" /\ op'.touched = op.touched
    BY <2>1 DEF Onward
  <2>3. /\ GitType' /\ RunType' /\ RefsKeep' /\ BaseIs' /\ SavedIs' /\ ShownIs'
    BY <1>1, <1>5, <2>1, RestoreGoesOn
  <2>4. Secured'
    <3>1. SecretsAreFiles => op.touched
      BY <1>1, <1>6 DEF WorkInv, Known, Secured, Restoring, Deletable, Undisturbed
    <3> QED
      BY <2>2, <3>1 DEF Secured, Restoring, Lists, Rest, Deletable, Outcome, Undisturbed
  <2> QED
    BY <2>3, <2>4 DEF WorkInv, Known
<1>7. CASE \A q \in Children(p) : files[q] = Absent
  <2>1. Onward("delete", op.delete \ {p}, op.write)
    BY <1>1, <1>2, <1>7, OnwardIs DEF RestoreDelete
  <2>2. /\ GitType' /\ RunType' /\ RefsKeep' /\ BaseIs' /\ SavedIs' /\ ShownIs'
        /\ Target' = Target /\ Target' # None /\ \A q : Taken(q)' = Taken(q)
    BY <1>1, <1>5, <2>1, RestoreGoesOn
  <2>3. /\ op'.do = "delete" /\ op'.touched = op.touched /\ op'.before = op.before
        /\ op'.delete = op.delete \ {p} /\ op'.write = op.write
    BY <2>1 DEF Onward
  <2>4. CASE op.touched \/ ~SecretsAreFiles
    BY <2>2, <2>3, <2>4 DEF WorkInv, Known, Secured, Restoring, Lists, Rest, Deletable, Outcome, Undisturbed
  <2>5. CASE ~op.touched /\ SecretsAreFiles
    <3>1. /\ \A q \in op.delete : Target[q] = Absent
          /\ \A q \in op.write : Target[q] # Absent
          /\ \A q \in Paths : Taken(q) =>
               files[q] = Target[q] \/ q \in (IF Target[q] = Absent THEN op.delete ELSE op.write)
      BY <1>1, <2>5 DEF WorkInv, Known, Secured, Restoring, Lists, Undisturbed
    <3>2. Lists'
      <4>1. \A q \in Paths : Taken(q) =>
              files'[q] = Target[q] \/ q \in (IF Target[q] = Absent THEN op.delete \ {p} ELSE op.write)
        BY <1>1, <1>4, <3>1
      <4> QED
        BY <2>2, <2>3, <3>1, <4>1 DEF Lists, Undisturbed
    <3>3. Rest'
      <4>1. \A q \in Paths \ Plain :
              files[q] \in {op.before[q], Target[q]} \/ \E d \in Parents(q) : Target[d] # Absent
        BY <1>1, <2>5 DEF WorkInv, Known, Secured, Restoring, Rest, Undisturbed
      <4>2. \A q \in Paths \ Plain :
              files'[q] \in {op.before[q], Target[q]} \/ \E d \in Parents(q) : Target[d] # Absent
        BY <1>1, <1>4, <3>1, <4>1
      <4> QED
        BY <2>2, <2>3, <4>2 DEF Rest
    <3>4. Deletable'
      <4>1. \A q \in op.delete : \A d \in Children(q) : files[d] = Absent
        BY <1>1, <2>5 DEF WorkInv, Known, Secured, Restoring, Deletable, Undisturbed
      <4>2. \A q \in op.delete : \A d \in Children(q) : files'[d] = Absent
        BY <1>4, <4>1 DEF Children
      <4> QED
        BY <2>3, <4>2 DEF Deletable
    <3>5. Outcome'
      BY <2>3 DEF Outcome, Undisturbed
    <3> QED
      BY <2>2, <3>2, <3>3, <3>4, <3>5 DEF WorkInv, Known, Secured, Restoring
  <2> QED
    BY <2>4, <2>5
<1> QED
  BY <1>6, <1>7


\* A state with a file at a path has none below it and none above it.
LEMMA FileStands ==
  ASSUME NEW t \in Trees, NEW p \in Paths, t[p] # Absent, NEW q \in Children(p) \cup Parents(p)
  PROVE  t[q] = Absent
<1>1. q \in Paths /\ (q \in Children(p) \/ p \in Children(q))
  BY Relatives DEF Children, Parents
<1> QED
  BY <1>1, TreeIs

LEMMA RestoreClearKeeps ==
  ASSUME WorkInv, RestoreClear
  PROVE  WorkInv'
<1>1. /\ op.do = "delete" /\ op.delete = {} /\ files' = Cleared(files, op.write)
      /\ Then([op EXCEPT !.do = "write"])
      /\ UNCHANGED <<git, saved, seen, found, stood, fault>>
  BY DEF RestoreClear, Goes
<1>2. op \in Restores /\ Target \in Trees
  BY <1>1, TargetIs
<1>3. files \in Trees /\ files \in [Paths -> Contents \cup {Absent}]
  BY TreeIs DEF WorkInv, GitType
<1>4. /\ files' \in [Paths -> Contents \cup {Absent}]
      /\ \A q \in Paths : files'[q] = IF Parents(q) \cap op.write # {} THEN Absent ELSE files[q]
  BY <1>1, <1>3 DEF Cleared
<1>5. files' \in Trees
  BY <1>3, <1>4, TreeIs
<1>6. Onward("write", {}, op.write)
  BY <1>1, <1>2, OnwardIs
<1>7. /\ GitType' /\ RunType' /\ RefsKeep' /\ BaseIs' /\ SavedIs' /\ ShownIs'
      /\ Target' = Target /\ Target' # None /\ \A q : Taken(q)' = Taken(q)
  BY <1>1, <1>5, <1>6, RestoreGoesOn
<1>8. /\ op'.do = "write" /\ op'.touched = op.touched /\ op'.before = op.before
      /\ op'.delete = {} /\ op'.write = op.write
  BY <1>6 DEF Onward
<1>9. CASE op.touched \/ ~SecretsAreFiles
  BY <1>7, <1>8, <1>9 DEF WorkInv, Known, Secured, Restoring, Lists, Rest, Deletable, Outcome, Undisturbed
<1>10. CASE ~op.touched /\ SecretsAreFiles
  <2>1. /\ \A q \in op.write : Target[q] # Absent
        /\ \A q \in Paths : Taken(q) => files[q] = Target[q] \/ (Target[q] # Absent /\ q \in op.write)
    BY <1>1, <1>10 DEF WorkInv, Known, Secured, Restoring, Lists, Undisturbed
  <2>2. op.write \subseteq Paths
    BY <1>2 DEF Restores
  <2>3. \A q \in Paths : Parents(q) \cap op.write # {} => Target[q] = Absent
    <3>1. ASSUME NEW q \in Paths, NEW d \in Parents(q) \cap op.write PROVE Target[q] = Absent
      <4>1. d \in Paths /\ Target[d] # Absent /\ q \in Children(d)
        BY <2>1, <2>2, <3>1, Relatives
      <4> QED
        BY <1>2, <4>1, FileStands
    <3> QED
      BY <3>1
  <2>4. Lists'
    <3>1. \A q \in Paths : Taken(q) => files'[q] = Target[q] \/ (Target[q] # Absent /\ q \in op.write)
      BY <1>4, <2>1, <2>3
    <3> QED
      BY <1>7, <1>8, <2>1, <3>1 DEF Lists, Undisturbed
  <2>5. Rest'
    <3>1. \A q \in Paths \ Plain :
            files[q] \in {op.before[q], Target[q]} \/ \E d \in Parents(q) : Target[d] # Absent
      BY <1>1, <1>10 DEF WorkInv, Known, Secured, Restoring, Rest, Undisturbed
    <3>2. \A q \in Paths \ Plain :
            files'[q] \in {op.before[q], Target[q]} \/ \E d \in Parents(q) : Target[d] # Absent
      BY <1>4, <2>1, <3>1
    <3> QED
      BY <1>7, <1>8, <3>2 DEF Rest
  <2>6. Deletable' /\ Outcome'
    BY <1>8 DEF Deletable, Outcome, Undisturbed
  <2> QED
    BY <1>7, <2>4, <2>5, <2>6 DEF WorkInv, Known, Secured, Restoring
<1> QED
  BY <1>9, <1>10

LEMMA RestoreWriteKeeps ==
  ASSUME WorkInv, NEW p \in Paths, RestoreWrite(p)
  PROVE  WorkInv'
<1>1. /\ op.do = "write" /\ p \in op.write /\ files' = Put(files, p, Target[p])
      /\ Then([op EXCEPT !.write = @ \ {p}])
      /\ UNCHANGED <<git, saved, seen, found, stood, fault>>
  BY DEF RestoreWrite, Goes, Target
<1>2. op \in Restores /\ Target \in Trees
  BY <1>1, TargetIs
<1>3. /\ files \in Trees /\ files \in [Paths -> Contents \cup {Absent}]
      /\ Target[p] \in Contents \cup {Absent}
  BY <1>2, TreeIs DEF WorkInv, GitType
<1>4. /\ files'[p] = Target[p]
      /\ \A q \in Paths : q # p => files'[q] = IF Target[p] # Absent /\ q \in Children(p) \cup Parents(p)
                                               THEN Absent ELSE files[q]
  BY <1>1, <1>3 DEF Put
<1>5. files' \in Trees
  BY <1>1, <1>3, PutKeeps
<1>6. Onward("write", op.delete, op.write \ {p})
  BY <1>1, <1>2, OnwardIs
<1>7. /\ GitType' /\ RunType' /\ RefsKeep' /\ BaseIs' /\ SavedIs' /\ ShownIs'
      /\ Target' = Target /\ Target' # None /\ \A q : Taken(q)' = Taken(q)
  BY <1>1, <1>5, <1>6, RestoreGoesOn
<1>8. /\ op'.do = "write" /\ op'.touched = op.touched /\ op'.before = op.before
      /\ op'.delete = op.delete /\ op'.write = op.write \ {p}
  BY <1>6 DEF Onward
<1>9. CASE op.touched \/ ~SecretsAreFiles
  BY <1>7, <1>8, <1>9 DEF WorkInv, Known, Secured, Restoring, Lists, Rest, Deletable, Outcome, Undisturbed
<1>10. CASE ~op.touched /\ SecretsAreFiles
  <2>1. /\ op.delete = {} /\ \A q \in op.write : Target[q] # Absent
        /\ \A q \in Paths : Taken(q) => files[q] = Target[q] \/ (Target[q] # Absent /\ q \in op.write)
    BY <1>1, <1>10 DEF WorkInv, Known, Secured, Restoring, Lists, Undisturbed
  <2>2. \A q \in Children(p) \cup Parents(p) : Target[q] = Absent
    BY <1>1, <1>2, <2>1, FileStands
  <2>3. Lists'
    <3>1. \A q \in Paths : Taken(q) => files'[q] = Target[q] \/ (Target[q] # Absent /\ q \in op.write \ {p})
      BY <1>4, <2>1, <2>2
    <3> QED
      BY <1>7, <1>8, <2>1, <3>1 DEF Lists, Undisturbed
  <2>4. Rest'
    <3>1. \A q \in Paths \ Plain :
            files[q] \in {op.before[q], Target[q]} \/ \E d \in Parents(q) : Target[d] # Absent
      BY <1>1, <1>10 DEF WorkInv, Known, Secured, Restoring, Rest, Undisturbed
    <3>2. \A q \in Paths \ Plain :
            files'[q] \in {op.before[q], Target[q]} \/ \E d \in Parents(q) : Target[d] # Absent
      BY <1>4, <2>2, <3>1
    <3> QED
      BY <1>7, <1>8, <3>2 DEF Rest
  <2>5. Deletable' /\ Outcome'
    BY <1>8 DEF Deletable, Outcome, Undisturbed
  <2> QED
    BY <1>7, <2>3, <2>4, <2>5 DEF WorkInv, Known, Secured, Restoring
<1> QED
  BY <1>9, <1>10

\* Two states that agree on what is taken as it is, beside indexes that agree on the rest.
LEMMA SameSnapshot ==
  ASSUME SecretsAreFiles, NEW f \in Trees, NEW i \in Trees, NEW g \in Trees, NEW j \in Trees,
         \A p \in Ignored \cup Excluded : i[p] = j[p],
         \A p \in Paths \ (Excluded \cup Sensitive) :
           (p \in Ignored => i[p] # Absent) => f[p] = Snapshot(g, j)[p]
  PROVE  Snapshot(f, i) = Snapshot(g, j)
<1> DEFINE s == Snapshot(f, i)
           t == Snapshot(g, j)
<1>1. /\ s \in Trees /\ t \in Trees
      /\ \A p \in Sensitive : s[p] = Absent /\ t[p] = Absent
      /\ \A p \in Paths \ (Excluded \cup Sensitive) :
           /\ s[p] = IF p \in Ignored /\ i[p] = Absent THEN Absent ELSE f[p]
           /\ t[p] = IF p \in Ignored /\ j[p] = Absent THEN Absent ELSE g[p]
      /\ \A p \in Excluded \ Sensitive :
           /\ s[p] = IF (Children(p) \cup Parents(p)) \cap ToAdd(f, i) = {} THEN i[p] ELSE Absent
           /\ t[p] = IF (Children(p) \cup Parents(p)) \cap ToAdd(g, j) = {} THEN j[p] ELSE Absent
  BY SnapshotIs
<1>2. \A p \in Paths \ (Excluded \cup Sensitive) : f[p] = t[p] \/ (p \in Ignored /\ i[p] = Absent)
  OBVIOUS
<1> HIDE DEF s, t
<1>3. \A p \in Paths \ (Excluded \cup Sensitive) : s[p] = t[p]
  BY <1>1, <1>2
<1>4. \A p \in Paths \ (Excluded \cup Sensitive) :
        (p \in ToAdd(f, i) <=> s[p] # Absent) /\ (p \in ToAdd(g, j) <=> t[p] # Absent)
  BY <1>1 DEF ToAdd
<1>5. ASSUME NEW p \in Excluded \ Sensitive PROVE s[p] = t[p]
  <2>1. Children(p) = {} /\ p \in Paths
    BY PathsAssumption DEF SecretsAreFiles
  <2>2. \A d \in Parents(p) : d \in Paths \ (Excluded \cup Sensitive)
    BY <2>1, Relatives DEF SecretsAreFiles, Parents
  <2>3. (Children(p) \cup Parents(p)) \cap ToAdd(f, i) = (Children(p) \cup Parents(p)) \cap ToAdd(g, j)
    BY <1>3, <1>4, <2>1, <2>2
  <2> QED
    BY <1>1, <2>3
<1>6. \A p \in Paths : s[p] = t[p]
  BY <1>1, <1>3, <1>5
<1>7. s \in [Paths -> Contents \cup {Absent}] /\ t \in [Paths -> Contents \cup {Absent}]
  BY <1>1, TreeIs
<1>8. s = t
  BY <1>6, <1>7
<1> QED
  BY <1>8 DEF s, t

LEMMA RestoreEndsKeeps ==
  ASSUME WorkInv, RestoreEnds
  PROVE  WorkInv'
<1> DEFINE do == IF Now = Target THEN "restored" ELSE "failed"
<1>1. /\ op.do = "write" /\ op.write = {} /\ Then([op EXCEPT !.do = do])
      /\ UNCHANGED <<files, git, saved, seen, found, stood, fault>>
  BY DEF RestoreEnds, Goes, Target
<1>2. op \in Restores /\ op.name \in Names /\ Target \in Trees /\ SavedWith(Target, stood[op.name])
  BY <1>1, TargetIs
<1>3. Onward(do, op.delete, op.write) /\ do \in {"restored", "failed"}
  BY <1>1, <1>2, OnwardIs
<1>4. files \in Trees /\ index \in Trees /\ files' \in Trees
  BY <1>1 DEF WorkInv, GitType
<1>5. /\ GitType' /\ RunType' /\ RefsKeep' /\ BaseIs' /\ SavedIs' /\ ShownIs'
      /\ Target' = Target /\ Target' # None
  <2> HIDE DEF do
  <2> QED
    BY <1>1, <1>3, <1>4, RestoreGoesOn
<1>6. Now' = Now /\ files' = files /\ index' = index /\ stood' = stood
  BY <1>1 DEF Now, git
<1>7. op'.do = do /\ op'.touched = op.touched /\ op'.before = op.before /\ op'.name = op.name
  BY <1>3 DEF Onward
<1>8. Lists' /\ Deletable'
  BY <1>3, <1>5, <1>7 DEF Lists, Deletable, Undisturbed
<1>9. SecretsAreFiles => Rest'
  BY <1>1, <1>5, <1>6, <1>7 DEF WorkInv, Known, Secured, Restoring, Rest, Undisturbed
<1>10. SecretsAreFiles => Outcome'
  <2> SUFFICES ASSUME SecretsAreFiles PROVE Outcome'
    OBVIOUS
  <2>1. ASSUME ~op.touched, \A p \in Ignored \cup Excluded : index[p] = stood[op.name][p]
        PROVE  Now = Target
    <3>1. \A p \in Paths : Taken(p) => files[p] = Target[p]
      BY <1>1, <2>1 DEF WorkInv, Known, Secured, Restoring, Lists, Undisturbed
    <3>2. PICK f \in Trees : Target = Snapshot(f, stood[op.name])
      BY <1>2 DEF SavedWith
    <3>3. stood[op.name] \in Trees
      BY <1>2 DEF SavedWith
    <3>4. \A p \in Paths \ (Excluded \cup Sensitive) :
            (p \in Ignored => index[p] # Absent) => files[p] = Snapshot(f, stood[op.name])[p]
      BY <3>1, <3>2 DEF Taken
    <3>5. Snapshot(files, index) = Snapshot(f, stood[op.name])
      BY <1>4, <2>1, <3>3, <3>4, SameSnapshot
    <3> QED
      BY <3>2, <3>5 DEF Now
  <2>2. do = "failed" /\ ~op.touched => \E p \in Ignored \cup Excluded : index[p] # stood[op.name][p]
    BY <2>1
  <2>3. do = "restored" => Now = Target
    OBVIOUS
  <2> HIDE DEF do
  <2> QED
    BY <1>5, <1>6, <1>7, <2>2, <2>3 DEF Outcome, Undisturbed
<1> QED
  BY <1>5, <1>8, <1>9, <1>10 DEF WorkInv, Known, Secured, Restoring


LEMMA ReturnsKeep ==
  ASSUME WorkInv, Returns
  PROVE  WorkInv'
<1>1. /\ op.do \in {"restored", "failed", "captured"} /\ op' = Idle
      /\ UNCHANGED <<files, git, saved, seen, found, stood, fault>>
  BY DEF Returns, Ends
<1>2. op' \in Ops /\ op'.do = "idle"
  BY <1>1 DEF Ops, Idle
<1>3. GitType' /\ RunType'
  BY <1>1, <1>2 DEF WorkInv, GitType, RunType, git, saved
<1>4. RefsKeep' /\ BaseIs' /\ SavedIs' /\ ShownIs'
  BY <1>1, <1>2, SavedStays
<1> QED
  BY <1>2, <1>3, <1>4, NotRestoring DEF WorkInv, Known

-----------------------------------------------------------------------------
(* A diff, and the end. *)

LEMMA CaptureKeeps ==
  ASSUME WorkInv, Capture
  PROVE  WorkInv'
<1>1. /\ op = Idle /\ op' = [do |-> "scope", tree |-> Now, touched |-> FALSE]
      /\ base # None /\ store' = store \cup {Now}
      /\ UNCHANGED <<files, git, base, want, tree, ref, seen, found, stood, fault>>
  BY DEF Capture, Begin
<1>2. Now \in Trees
  BY NowIs DEF WorkInv
<1>3. op' \in Shown /\ op'.do = "scope" /\ op'.tree = Now /\ op.do = "idle"
  BY <1>1, <1>2 DEF Shown, Idle
<1>4. GitType' /\ RunType'
  BY <1>1, <1>3 DEF WorkInv, GitType, RunType, Ops, git
<1>5. RefsKeep' /\ BaseIs' /\ SavedIs'
  BY <1>1, <1>3 DEF WorkInv, Known, RefsKeep, BaseIs, AsFound, SavedIs
<1>6. ShownIs'
  BY <1>1, <1>3 DEF ShownIs, Now, git
<1> QED
  BY <1>3, <1>4, <1>5, <1>6, NotRestoring DEF WorkInv, Known

LEMMA CaptureScopeKeeps ==
  ASSUME WorkInv, CaptureScope
  PROVE  WorkInv'
<1>1. /\ op.do = "scope" /\ Then([op EXCEPT !.do = "captured"])
      /\ UNCHANGED <<saved, found, stood, fault>>
      /\ seen'.tree = op.tree /\ seen'.back = PutBack
      /\ ~PutBack => UNCHANGED <<files, git>>
  BY DEF CaptureScope, Goes
<1>2. op \in Shown
  BY <1>1, Shapes DEF WorkInv, RunType
<1>3. op' \in Shown /\ op'.do = "captured" /\ op'.touched = op.touched /\ op'.tree = op.tree
  BY <1>1, <1>2 DEF Shown, Then
<1>4. GitType'
  <2>1. CASE PutBack
    <3>1. /\ files' = CheckedOut(want) /\ index' = IndexAt(want) /\ head' = want
          /\ UNCHANGED <<real, commits>> /\ want' = want
      BY <1>1, <2>1 DEF CaptureScope, saved
    <3>2. want \in Branches /\ commits[want] \in Trees /\ files \in Trees /\ index \in Trees
      BY <2>1 DEF PutBack, HeadMoved, WorkInv, GitType
    <3>3. files' \in Trees /\ index' \in Trees
      BY <3>1, <3>2, CoverKeeps DEF CheckedOut, IndexAt
    <3> QED
      BY <3>1, <3>2, <3>3 DEF WorkInv, GitType
  <2>2. CASE ~PutBack
    BY <1>1, <2>2 DEF WorkInv, GitType, git, saved
  <2> QED
    BY <2>1, <2>2
<1>5. RunType'
  BY <1>1, <1>3 DEF WorkInv, RunType, Ops, saved
<1>6. RefsKeep' /\ BaseIs' /\ SavedIs'
  BY <1>1, <1>3 DEF WorkInv, Known, RefsKeep, BaseIs, AsFound, SavedIs, saved
<1>7. ShownIs'
  BY <1>1, <1>3 DEF WorkInv, Known, ShownIs, Now, git
<1> QED
  BY <1>3, <1>4, <1>5, <1>6, <1>7, NotRestoring DEF WorkInv, Known

LEMMA DropRefsKeep ==
  ASSUME WorkInv, DropRefs
  PROVE  WorkInv'
<1>1. /\ op = Idle /\ op' = op /\ ref' = [n \in DOMAIN ref |-> None] /\ fault' = Names
      /\ UNCHANGED <<files, git, base, want, tree, store, seen, found, stood>>
  BY DEF DropRefs, Begin
<1>2. op.do = "idle" /\ op'.do = "idle"
  BY <1>1 DEF Idle
<1>3. GitType' /\ RunType'
  BY <1>1 DEF WorkInv, GitType, RunType, MaybeTrees, git
<1>4. RefsKeep'
  <2>1. DOMAIN ref = Names \cup {"base"}
    BY DEF WorkInv, RunType
  <2>2. \A n \in Names \cup {"base"} : ref'[n] = None
    BY <1>1, <2>1
  <2> QED
    BY <1>1, <1>2, <2>1, <2>2 DEF RefsKeep
<1>5. BaseIs' /\ SavedIs' /\ ShownIs'
  BY <1>1, <1>2 DEF WorkInv, Known, BaseIs, AsFound, SavedIs, ShownIs
<1> QED
  BY <1>2, <1>3, <1>4, <1>5, NotRestoring DEF WorkInv, Known

LEMMA CrashKeeps ==
  ASSUME WorkInv, Crash
  PROVE  WorkInv'
<1>1. /\ op' = Idle /\ fault' = (IF op.do = "name" THEN fault \cup {op.name} ELSE fault)
      /\ UNCHANGED <<files, git, saved, seen, found, stood>>
  BY DEF Crash, Ends
<1>2. op' \in Ops /\ op'.do = "idle"
  BY <1>1 DEF Ops, Idle
<1>3. op.do = "name" => op.name \in Names
  BY Shapes DEF WorkInv, RunType, Saving
<1>4. GitType' /\ RunType'
  BY <1>1, <1>2, <1>3 DEF WorkInv, GitType, RunType, git, saved
<1>5. RefsKeep' /\ BaseIs' /\ SavedIs' /\ ShownIs'
  BY <1>1, <1>2 DEF WorkInv, Known, RefsKeep, BaseIs, AsFound, SavedIs, ShownIs, saved
<1> QED
  BY <1>2, <1>4, <1>5, NotRestoring DEF WorkInv, Known

-----------------------------------------------------------------------------
(* The theorems about the workspace. *)

LEMMA WorkStarts == Init => WorkInv
<1> SUFFICES ASSUME Init PROVE WorkInv
  OBVIOUS
<1>1. PICK w \in Found : /\ files = w.files /\ index = w.index
                         /\ commits = [main |-> w.main, side |-> w.side] /\ real = w.real
  BY DEF Init
<1>2. /\ head = "main" /\ want = NoBranch /\ base = None
      /\ tree = [n \in Names |-> None] /\ ref = [n \in Names \cup {"base"} |-> None]
      /\ op = Idle /\ found = None /\ stood = [n \in Names |-> None] /\ fault = {}
  BY DEF Init
<1>3. w.real \in BOOLEAN /\ w.files \in Trees /\ w.index \in Trees /\ w.main \in Trees /\ w.side \in Trees
  BY FoundAssumption
<1>4. commits \in [Branches -> Trees]
  BY <1>1, <1>3 DEF Branches
<1>5. op.do = "idle" /\ op \in Ops
  BY <1>2 DEF Idle, Ops
<1>6. GitType
  BY <1>1, <1>2, <1>3, <1>4 DEF GitType, Branches
<1>7. RunType
  BY <1>2, <1>5 DEF RunType, MaybeTrees
<1>8. RefsKeep /\ BaseIs /\ SavedIs /\ ShownIs
  BY <1>2, <1>5 DEF RefsKeep, BaseIs, SavedIs, ShownIs
<1>9. Secured
  BY <1>5 DEF Secured, Restoring, Lists, Rest, Deletable, Outcome, Undisturbed
<1> QED
  BY <1>6, <1>7, <1>8, <1>9 DEF WorkInv, Known

LEMMA WorkStep == WorkInv /\ [Next]_vars => WorkInv'
<1> SUFFICES ASSUME WorkInv, [Next]_vars PROVE WorkInv'
  OBVIOUS
<1>1. CASE Write \/ Stage \/ Commit \/ CheckOut
  BY <1>1, OthersKeep DEF OthersStep
<1>2. CASE Collect
  BY <1>2, CollectKeeps
<1>3. CASE StartKeep \/ StartName \/ SaveName
  BY <1>3, StartKeepKeeps, StartNameKeeps, SaveNameKeeps
<1>4. CASE \E n \in Names : SaveKeep(n) \/ Restore(n)
  BY <1>4, SaveKeepKeeps, RestoreKeeps
<1>5. CASE \E p \in Paths : RestoreDelete(p) \/ RestoreWrite(p)
  BY <1>5, RestoreDeleteKeeps, RestoreWriteKeeps
<1>6. CASE RestoreClear \/ RestoreEnds \/ Returns
  BY <1>6, RestoreClearKeeps, RestoreEndsKeeps, ReturnsKeep
<1>7. CASE Capture \/ CaptureScope \/ DropRefs \/ Crash
  BY <1>7, CaptureKeeps, CaptureScopeKeeps, DropRefsKeep, CrashKeeps
<1>8. CASE UNCHANGED vars
  BY <1>8 DEF vars, git, saved, WorkInv, Known, GitType, RunType, RefsKeep, BaseIs, AsFound, SavedIs, ShownIs, Now,
    Secured, Restoring, Lists, Rest, Deletable, Outcome, Undisturbed, Target, Taken
<1> QED
  BY <1>1, <1>2, <1>3, <1>4, <1>5, <1>6, <1>7, <1>8 DEF Next

LEMMA WorkInvariance == Spec => []WorkInv
  BY WorkStarts, WorkStep, PTL DEF Spec

\* A diff a role is shown is of the workspace it is left with and names the plain paths that differ
\* from what the run found, whoever staged, committed or checked out in between; no state holds
\* a sensitive path (capture_diff, Tree.snapshot).
THEOREM DiffShowsWork == Spec => []DiffIsTheWork
<1>1. WorkInv => DiffIsTheWork
  <2> SUFFICES ASSUME WorkInv PROVE DiffIsTheWork
    OBVIOUS
  <2>1. ASSUME op.do = "captured", ~op.touched, ~seen.back
        PROVE  /\ seen.tree = Now
               /\ Changed(base, seen.tree) \cap Plain = {p \in Plain : files[p] # found[p]}
    <3>1. seen.tree = Now /\ base # None
      BY <2>1 DEF WorkInv, Known, ShownIs, BaseIs
    <3>2. \A p \in Plain : base[p] = found[p] /\ Now[p] = files[p]
      BY <3>1, NowIs DEF WorkInv, Known, BaseIs, AsFound
    <3>3. Plain \subseteq Paths
      BY DEF Plain
    <3> QED
      BY <3>1, <3>2, <3>3 DEF Changed
  <2>2. ASSUME NEW n \in Names, tree[n] # None, NEW p \in Sensitive PROVE tree[n][p] = Absent
    BY <2>2, SnapshotIs DEF WorkInv, Known, SavedIs, SavedWith
  <2>3. base # None => \A p \in Sensitive : base[p] = Absent
    BY DEF WorkInv, Known, BaseIs, AsFound, NoSecret
  <2> QED
    BY <2>1, <2>2, <2>3 DEF DiffIsTheWork
<1> QED
  BY <1>1, WorkInvariance, PTL

\* The states a run may put back are not pruned, but for a save cut off and a run that dropped its
\* refs (Tree._keep).
LEMMA KeptIsThere == WorkInv => SavedIsKept
BY DEF WorkInv, Known, RunType, RefsKeep, SavedIsKept

\* A state a run may put back is there to be put back, and putting it back is exact: a restore
\* raises only when somebody interferes (save_tree, restore_tree).  No path with a name that is
\* excluded or sensitive is a file at one time and a directory at another.
THEOREM SavedStateComesBack ==
  ASSUME SecretsAreFiles
  PROVE  Spec => []SavedComesBack
<1>1. WorkInv => SavedComesBack
  <2> SUFFICES ASSUME WorkInv PROVE RestoreIsExact
    BY KeptIsThere DEF SavedComesBack
  <2>1. ASSUME op.do = "restored", ~op.touched, NEW p \in Paths
        PROVE  \/ p \in Plain /\ files[p] = Target[p]
               \/ p \notin Plain /\ files[p] \in {op.before[p], Target[p]}
               \/ p \notin Plain /\ \E d \in Parents(p) : Target[d] # Absent
    <3>1. CASE p \in Plain
      <4>1. Now = Target
        BY <2>1 DEF WorkInv, Known, Secured, Restoring, Outcome, Undisturbed
      <4> QED
        BY <3>1, <4>1, NowIs DEF WorkInv
    <3>2. CASE p \notin Plain
      BY <2>1, <3>2 DEF WorkInv, Known, Secured, Restoring, Rest, Undisturbed
    <3> QED
      BY <3>1, <3>2
  <2>2. op.do = "failed" => op.touched \/ \E p \in Ignored \cup Excluded : index[p] # stood[op.name][p]
    BY DEF WorkInv, Known, Secured, Restoring, Outcome, Undisturbed
  <2> QED
    BY <2>1, <2>2 DEF RestoreIsExact, Target
<1> QED
  BY <1>1, WorkInvariance, PTL

-----------------------------------------------------------------------------
(* What a run remembers of its task *)

\* The places of a finite set of numbers have the ranks from one to its size, in their order.
LEMMA RankIs ==
    ASSUME NEW S, S \subseteq Nat, IsFiniteSet(S)
    PROVE  /\ Cardinality(S) \in Nat
           /\ \A i \in S : Rank(S, i) \in 1..Cardinality(S)
           /\ \A i, j \in S : i < j => Rank(S, i) < Rank(S, j)
<1> DEFINE Upto(i) == {j \in S : j <= i}
<1>0. Cardinality(S) \in Nat
  BY FS_CardinalityType
<1>1. ASSUME NEW i \in S
      PROVE  /\ IsFiniteSet(Upto(i)) /\ Rank(S, i) = Cardinality(Upto(i))
             /\ Rank(S, i) \in Nat /\ Rank(S, i) <= Cardinality(S) /\ Rank(S, i) # 0
  <2>1. Upto(i) \in SUBSET S /\ i \in Upto(i)
    OBVIOUS
  <2>2. IsFiniteSet(Upto(i)) /\ Cardinality(Upto(i)) <= Cardinality(S)
    BY <2>1, FS_Subset
  <2>3. Cardinality(Upto(i)) \in Nat /\ Cardinality(Upto(i)) # 0
    BY <2>1, <2>2, FS_CardinalityType, FS_EmptySet
  <2>4. Rank(S, i) = Cardinality(Upto(i))
    BY DEF Rank
  <2> QED
    BY <2>2, <2>3, <2>4
<1>2. ASSUME NEW i \in S, NEW j \in S, i < j PROVE Rank(S, i) < Rank(S, j)
  <2>0. \A m \in S : m \in Nat /\ i \in Nat /\ j \in Nat
    OBVIOUS
  <2>1. Upto(i) \in SUBSET Upto(j) /\ j \in Upto(j) /\ j \notin Upto(i)
    <3>1. \A m \in S : m <= i => m <= j
      BY <1>2, <2>0
    <3>2. j <= j /\ ~(j <= i)
      BY <1>2, <2>0
    <3> QED
      BY <3>1, <3>2
  <2>2. Cardinality(Upto(i)) <= Cardinality(Upto(j)) /\ Cardinality(Upto(i)) # Cardinality(Upto(j))
    BY <1>1, <2>1, FS_Subset
  <2> QED
    BY <1>1, <2>2
<1>3. \A i \in S : Rank(S, i) \in 1..Cardinality(S)
  <2> SUFFICES ASSUME NEW i \in S PROVE Rank(S, i) \in 1..Cardinality(S)
    OBVIOUS
  <2>1. Rank(S, i) \in Nat /\ Rank(S, i) <= Cardinality(S) /\ Rank(S, i) # 0
    BY <1>1
  <2> QED
    BY <1>0, <2>1
<1> QED
  BY <1>0, <1>2, <1>3

\* Each of those ranks is the rank of a place.
LEMMA NthIs ==
    ASSUME NEW S, S \subseteq Nat, IsFiniteSet(S), NEW k \in 1..Cardinality(S)
    PROVE  Nth(S, k) \in S /\ Rank(S, Nth(S, k)) = k
<1> DEFINE n == Cardinality(S)
           f == [i \in S |-> Rank(S, i)]
<1>0. n \in Nat
  BY RankIs
<1>1. IsFiniteSet(1..n) /\ Cardinality(1..n) = n
  <2>1. n \in Int /\ 1 \in Int
    BY <1>0
  <2>2. /\ IsFiniteSet(1..n)
        /\ Cardinality(1..n) = IF 1 > n THEN 0 ELSE n - 1 + 1
    BY <2>1, FS_Interval
  <2> QED
    BY <1>0, <2>2
<1>2. f \in [S -> 1..n]
  BY RankIs
<1>3. \A i, j \in S : f[i] = f[j] => i = j
  <2> SUFFICES ASSUME NEW i \in S, NEW j \in S, Rank(S, i) = Rank(S, j) PROVE i = j
    OBVIOUS
  <2>0. \A m \in S : Rank(S, m) \in 1..Cardinality(S)
    BY RankIs
  <2>1. i \in Nat /\ j \in Nat /\ Rank(S, i) \in Nat
    BY <1>0, <2>0
  <2>2. (i < j => Rank(S, i) < Rank(S, j)) /\ (j < i => Rank(S, j) < Rank(S, i))
    BY RankIs
  <2> QED
    BY <2>1, <2>2
<1>4. f \in Injection(S, 1..n)
  BY <1>2, <1>3 DEF Injection, IsInjective
<1>5. f \in Surjection(S, 1..n)
  BY <1>1, <1>4, FS_Injection
<1>6. \E i \in S : Rank(S, i) = k
  BY <1>5 DEF Surjection
<1> QED
  BY <1>6 DEF Nth

\* The number after the last is greater than all.
LEMMA LastOfIs ==
    ASSUME NEW ids, ids \subseteq Nat, IsFiniteSet(ids)
    PROVE  LastOf(ids) \in Nat /\ \A m \in ids : m <= LastOf(ids)
<1> DEFINE S == {0} \cup ids
<1>1. S \subseteq Nat /\ IsFiniteSet(S) /\ S # {}
  BY FS_AddElement
<1>2. Cardinality(S) \in 1..Cardinality(S)
  BY <1>1, FS_CardinalityType, FS_EmptySet
<1> DEFINE x == Nth(S, Cardinality(S))
<1>3. x \in S /\ Rank(S, x) = Cardinality(S)
  BY <1>1, <1>2, NthIs
<1>4. ASSUME NEW m \in S PROVE m <= x
  <2>1. Rank(S, m) \in 1..Cardinality(S) /\ Cardinality(S) \in Nat
    BY <1>1, RankIs
  <2>2. x < m => Rank(S, x) < Rank(S, m)
    BY <1>1, <1>3, RankIs
  <2>3. x \in Nat /\ m \in Nat
    BY <1>1, <1>3
  <2> HIDE DEF S, x
  <2> QED
    BY <1>3, <2>1, <2>2, <2>3
<1>5. \E y \in S : \A m \in S : m <= y
  BY <1>3, <1>4
<1>6. LastOf(ids) \in S /\ \A m \in S : m <= LastOf(ids)
  BY <1>5 DEF LastOf
<1> QED
  BY <1>1, <1>6

\* A list of tasks with no description twice, as long as the ledger at most.
Once(items) ==
  /\ TaskList(items)
  /\ Len(items) <= MaxTasks
  /\ \A i, j \in DOMAIN items : items[i].description = items[j].description => i = j

LEMMA ListIs ==
    ASSUME NEW items, TaskList(items)
    PROVE  /\ Len(items) \in Nat /\ DOMAIN items = 1..Len(items)
           /\ DOMAIN items \subseteq Nat /\ IsFiniteSet(DOMAIN items)
           /\ \A S \in SUBSET DOMAIN items : IsFiniteSet(S)
<1>1. Len(items) \in Nat /\ DOMAIN items = 1..Len(items)
  BY DEF TaskList
<1>2. IsFiniteSet(1..Len(items))
  <2>1. Len(items) \in Int /\ 1 \in Int
    BY <1>1
  <2> QED
    BY <2>1, FS_Interval
<1> QED
  BY <1>1, <1>2, FS_Subset

LEMMA ParsedIs ==
    ASSUME NEW items, TaskList(items)
    PROVE  Once(ParsedItems(items))
<1> DEFINE firsts == {i \in DOMAIN items :
                        \A j \in 1..(i - 1) : items[j].description # items[i].description}
           n == IF Cardinality(firsts) < MaxTasks THEN Cardinality(firsts) ELSE MaxTasks
           p == ParsedItems(items)
<1>1. p = [k \in 1..n |-> items[Nth(firsts, k)]]
  BY DEF ParsedItems
<1>2. firsts \subseteq DOMAIN items /\ firsts \subseteq Nat /\ IsFiniteSet(firsts)
  BY ListIs
<1>3. n \in Nat /\ n <= MaxTasks /\ n <= Cardinality(firsts)
  BY <1>2, RankIs, LedgerAssumption
<1>4. ASSUME NEW k \in 1..n PROVE Nth(firsts, k) \in firsts /\ Rank(firsts, Nth(firsts, k)) = k
  <2>1. k \in 1..Cardinality(firsts)
    BY <1>2, <1>3, RankIs
  <2> QED
    BY <1>2, <2>1, NthIs
<1>5. ASSUME NEW i \in firsts, NEW j \in firsts, items[i].description = items[j].description PROVE i = j
  <2>1. i \in 1..Len(items) /\ j \in 1..Len(items) /\ Len(items) \in Nat
    BY ListIs
  <2>2. ~(i \in 1..(j - 1)) /\ ~(j \in 1..(i - 1))
    BY <1>5
  <2> QED
    BY ONLY <2>1, <2>2
<1> HIDE DEF firsts, n
<1>6. p \in Seq({p[k] : k \in DOMAIN p}) /\ DOMAIN p = 1..n
  BY <1>1, <1>3
<1>7. Len(p) = n
  BY <1>1, <1>3
<1>8. \A k \in 1..n : p[k] = items[Nth(firsts, k)] /\ p[k].description # Unset
  BY <1>1, <1>2, <1>4 DEF TaskList
<1>9. ASSUME NEW k \in 1..n, NEW l \in 1..n, p[k].description = p[l].description PROVE k = l
  <2>1. Nth(firsts, k) = Nth(firsts, l)
    BY <1>4, <1>5, <1>8, <1>9
  <2> QED
    BY <1>4, <2>1
<1> QED
  BY <1>3, <1>6, <1>7, <1>8, <1>9 DEF Once, TaskList

\* A ledger: no number twice either, and all fields are there.
IsTask(t) == t = [id |-> t.id, description |-> t.description, status |-> t.status] /\ t.id \in Nat \ {0}
Ledger(tasks) ==
  /\ Once(tasks)
  /\ \A i \in DOMAIN tasks : IsTask(tasks[i])
  /\ \A i, j \in DOMAIN tasks : tasks[i].id = tasks[j].id => i = j

LEMMA IdsAre ==
    ASSUME NEW tasks, Ledger(tasks)
    PROVE  /\ Ids(tasks) \subseteq Nat /\ IsFiniteSet(Ids(tasks))
           /\ Cardinality(Ids(tasks)) = Len(tasks)
<1> DEFINE f == [i \in 1..Len(tasks) |-> tasks[i].id]
<1>1. TaskList(tasks) /\ Len(tasks) \in Nat /\ DOMAIN tasks = 1..Len(tasks)
  BY ListIs DEF Ledger, Once
<1>2. Ids(tasks) \subseteq Nat
  BY DEF Ids, Ledger, IsTask
<1>3. IsFiniteSet(1..Len(tasks)) /\ Cardinality(1..Len(tasks)) = Len(tasks)
  <2>1. Len(tasks) \in Int /\ 1 \in Int
    BY <1>1
  <2>2. /\ IsFiniteSet(1..Len(tasks))
        /\ Cardinality(1..Len(tasks)) = IF 1 > Len(tasks) THEN 0 ELSE Len(tasks) - 1 + 1
    BY <2>1, FS_Interval
  <2> QED
    BY <1>1, <2>2
<1>4. f \in [1..Len(tasks) -> Ids(tasks)] /\ \A m \in Ids(tasks) : \E i \in 1..Len(tasks) : f[i] = m
  BY <1>1 DEF Ids
<1>5. \A i, j \in 1..Len(tasks) : f[i] = f[j] => i = j
  BY <1>1 DEF Ledger
<1>6. f \in Bijection(1..Len(tasks), Ids(tasks))
  BY <1>4, <1>5 DEF Bijection, Injection, Surjection, IsInjective
<1>7. ExistsBijection(1..Len(tasks), Ids(tasks))
  BY <1>6 DEF ExistsBijection
<1> QED
  BY <1>2, <1>3, <1>7, FS_Bijection

\* The number of a task is the one at its place.
LEMMA IdOfIs ==
    ASSUME NEW tasks, Once(tasks), NEW i \in DOMAIN tasks
    PROVE  IdOf(tasks, tasks[i].description) = tasks[i].id
<1>1. \A k \in DOMAIN tasks : tasks[k].description = tasks[i].description => k = i
  BY DEF Once
<1> QED
  BY <1>1 DEF IdOf

LEMMA IdOfIn ==
    ASSUME NEW tasks, Ledger(tasks), NEW d \in Descriptions(tasks)
    PROVE  IdOf(tasks, d) \in Ids(tasks)
<1>1. PICK i \in DOMAIN tasks : d = tasks[i].description
  BY DEF Descriptions
<1> QED
  BY <1>1, IdOfIs DEF Ledger, Ids

LEMMA IdOfOwn ==
    ASSUME NEW tasks, Ledger(tasks), NEW c \in Descriptions(tasks), NEW d \in Descriptions(tasks),
           IdOf(tasks, c) = IdOf(tasks, d)
    PROVE  c = d
<1>1. PICK i \in DOMAIN tasks : c = tasks[i].description
  BY DEF Descriptions
<1>2. PICK j \in DOMAIN tasks : d = tasks[j].description
  BY DEF Descriptions
<1>3. tasks[i].id = tasks[j].id
  BY <1>1, <1>2, IdOfIs DEF Ledger
<1> QED
  BY <1>1, <1>2, <1>3 DEF Ledger

\* A task that is known keeps its number, the others get numbers nobody had.
LEMMA NumberedIs ==
    ASSUME NEW previous, Ledger(previous), NEW source, Once(source)
    PROVE  LET tasks == Numbered(previous, source)
           IN  /\ Ledger(tasks) /\ Len(tasks) = Len(source) /\ DOMAIN tasks = DOMAIN source
               /\ \A i \in DOMAIN source :
                    /\ tasks[i].description = source[i].description
                    /\ source[i].description \in Descriptions(previous)
                         => tasks[i].id = IdOf(previous, source[i].description)
<1> DEFINE tasks == Numbered(previous, source)
           new == {i \in DOMAIN source : source[i].description \notin Descriptions(previous)}
           last == LastOf(Ids(previous))
           num(i) == IF source[i].description \in Descriptions(previous)
                     THEN IdOf(previous, source[i].description) ELSE last + Rank(new, i)
<1>1. tasks = [i \in DOMAIN source |->
                [id |-> num(i), description |-> source[i].description, status |-> source[i].status]]
  BY DEF Numbered
<1>2. /\ TaskList(source) /\ Len(source) \in Nat /\ DOMAIN source = 1..Len(source)
      /\ new \subseteq Nat /\ IsFiniteSet(new)
  <2>1. TaskList(source)
    BY DEF Once
  <2>2. new \in SUBSET DOMAIN source
    OBVIOUS
  <2> QED
    BY <2>1, <2>2, ListIs
<1>3. /\ last \in Nat /\ Ids(previous) \subseteq Nat
      /\ \A d \in Descriptions(previous) :
           IdOf(previous, d) \in Nat /\ IdOf(previous, d) <= last
  BY IdsAre, IdOfIn, LastOfIs
<1>4. \A d \in Descriptions(previous) : IdOf(previous, d) # 0
  <2> SUFFICES ASSUME NEW d \in Descriptions(previous) PROVE IdOf(previous, d) # 0
    OBVIOUS
  <2>1. PICK i \in DOMAIN previous : IdOf(previous, d) = previous[i].id
    BY IdOfIn DEF Ids
  <2> QED
    BY <2>1 DEF Ledger, IsTask
<1>5. \A i \in new : Rank(new, i) \in Nat /\ Rank(new, i) # 0
  <2>1. \A i \in new : Rank(new, i) \in 1..Cardinality(new)
    BY <1>2, RankIs
  <2>2. Cardinality(new) \in Nat
    BY <1>2, RankIs
  <2> HIDE DEF new
  <2> QED
    BY <2>1, <2>2
<1>6. \A i \in DOMAIN source : num(i) \in Nat \ {0}
  BY <1>3, <1>4, <1>5
<1>7. ASSUME NEW i \in DOMAIN source, NEW j \in DOMAIN source, num(i) = num(j) PROVE i = j
  <2>1. CASE i \notin new /\ j \notin new
    <3>1. source[i].description = source[j].description
      BY <1>7, <2>1, IdOfOwn
    <3> QED
      BY <3>1 DEF Once
  <2>2. CASE i \in new /\ j \notin new
    BY <1>3, <1>5, <1>7, <2>2
  <2>3. CASE i \notin new /\ j \in new
    BY <1>3, <1>5, <1>7, <2>3
  <2>4. CASE i \in new /\ j \in new
    <3>1. Rank(new, i) = Rank(new, j) /\ i \in Nat /\ j \in Nat /\ Rank(new, i) \in Nat
      BY <1>2, <1>3, <1>5, <1>7, <2>4
    <3>2. (i < j => Rank(new, i) < Rank(new, j)) /\ (j < i => Rank(new, j) < Rank(new, i))
      BY <1>2, <2>4, RankIs
    <3> HIDE DEF new
    <3> QED
      BY <3>1, <3>2
  <2> QED
    BY <2>1, <2>2, <2>3, <2>4
<1> HIDE DEF num, tasks
<1>8. /\ DOMAIN tasks = DOMAIN source /\ Len(tasks) = Len(source)
      /\ tasks \in Seq({tasks[i] : i \in DOMAIN tasks})
  BY <1>1, <1>2
<1>9. \A i \in DOMAIN source : /\ tasks[i].id = num(i) /\ tasks[i].description = source[i].description
                              /\ IsTask(tasks[i])
  BY <1>1, <1>6 DEF IsTask
<1>10. Ledger(tasks)
  <2>1. TaskList(tasks)
    BY <1>2, <1>8, <1>9 DEF TaskList
  <2>2. \A i, j \in DOMAIN tasks : tasks[i].description = tasks[j].description => i = j
    BY <1>8, <1>9 DEF Once
  <2>3. Once(tasks)
    BY <1>8, <2>1, <2>2 DEF Once
  <2>4. \A i, j \in DOMAIN tasks : tasks[i].id = tasks[j].id => i = j
    BY <1>7, <1>8, <1>9
  <2> QED
    BY <1>8, <1>9, <2>3, <2>4 DEF Ledger
<1>11. \A i \in DOMAIN source : source[i].description \in Descriptions(previous)
                                  => tasks[i].id = IdOf(previous, source[i].description)
  BY <1>9 DEF num
<1> QED
  BY <1>8, <1>9, <1>10, <1>11 DEF tasks

\* What a ledger is made from has a task at least.
LEMMA SourceIs ==
    ASSUME NEW previous, Ledger(previous), NEW curated, Once(curated), NEW next
    PROVE  Once(Source(previous, curated, next)) /\ Source(previous, curated, next) # <<>>
<1>1. CASE curated # <<>>
  BY <1>1 DEF Source
<1>2. CASE curated = <<>> /\ previous # <<>>
  BY <1>2 DEF Source, Ledger
<1>3. CASE curated = <<>> /\ previous = <<>>
  <2> DEFINE t == [description |-> IF next # Unset THEN next ELSE Generic, status |-> "todo"]
             one == <<t>>
  <2>1. Source(previous, curated, next) = one
    BY <1>3 DEF Source
  <2>2. t.description # Unset
    BY DEF Unset, Generic
  <2> HIDE DEF t
  <2>3. /\ one \in Seq({t}) /\ Len(one) = 1 /\ DOMAIN one = {1} /\ one[1] = t
        /\ {one[i] : i \in DOMAIN one} = {t} /\ one # <<>>
    OBVIOUS
  <2>4. TaskList(one)
    BY <2>2, <2>3 DEF TaskList
  <2>5. Once(one)
    BY <2>3, <2>4, LedgerAssumption DEF Once
  <2> QED
    BY <2>1, <2>3, <2>5
<1> QED
  BY <1>1, <1>2, <1>3

\* The list says that the next task is in progress, if it has room for it.
Listed(tasks, next) ==
  \/ Len(tasks) = MaxTasks /\ next \notin Descriptions(tasks)
  \/ \E i \in DOMAIN tasks : tasks[i].description = next /\ tasks[i].status = "in-progress"

\* Tasks are a ledger with the numbers of the ledger before, but for the next task's.
Follows(tasks, previous, next) ==
  /\ Ledger(tasks) /\ tasks # <<>>
  /\ \A d \in Descriptions(previous) \cap Descriptions(tasks) :
       d # next => IdOf(previous, d) = IdOf(tasks, d)

LEMMA MarkedIs ==
    ASSUME NEW tasks, Ledger(tasks), tasks # <<>>, NEW next \in Descriptions(tasks), NEW marked,
           marked = [i \in DOMAIN tasks |-> IF tasks[i].description = next
                                           THEN [tasks[i] EXCEPT !.status = "in-progress"] ELSE tasks[i]]
    PROVE  /\ Ledger(marked) /\ marked # <<>> /\ DOMAIN marked = DOMAIN tasks
           /\ \A i \in DOMAIN tasks :
                marked[i].id = tasks[i].id /\ marked[i].description = tasks[i].description
           /\ Listed(marked, next)
<1>1. TaskList(tasks) /\ Len(tasks) \in Nat /\ DOMAIN tasks = 1..Len(tasks)
  BY ListIs DEF Ledger, Once
<1>2. ASSUME NEW i \in DOMAIN tasks
      PROVE  /\ IsTask(marked[i]) /\ marked[i].id = tasks[i].id
             /\ marked[i].description = tasks[i].description
             /\ tasks[i].description = next => marked[i].status = "in-progress"
  <2> DEFINE t == tasks[i]
  <2>1. t = [id |-> t.id, description |-> t.description, status |-> t.status] /\ t.id \in Nat \ {0}
    BY DEF Ledger, IsTask
  <2>2. marked[i] = IF t.description = next THEN [t EXCEPT !.status = "in-progress"] ELSE t
    OBVIOUS
  <2> HIDE DEF t
  <2>3. [t EXCEPT !.status = "in-progress"]
          = [id |-> t.id, description |-> t.description, status |-> "in-progress"]
    BY <2>1
  <2>4. /\ IsTask(marked[i]) /\ marked[i].id = t.id /\ marked[i].description = t.description
        /\ t.description = next => marked[i].status = "in-progress"
    BY <2>1, <2>2, <2>3 DEF IsTask
  <2> QED
    BY <2>4 DEF t
<1>3. /\ DOMAIN marked = DOMAIN tasks /\ Len(marked) = Len(tasks) /\ marked # <<>>
      /\ marked \in Seq({marked[i] : i \in DOMAIN marked})
  <2>1. DOMAIN marked = 1..Len(tasks)
    BY <1>1
  <2>2. marked \in [1..Len(tasks) -> {marked[i] : i \in DOMAIN marked}]
    BY <2>1
  <2>3. marked \in Seq({marked[i] : i \in DOMAIN marked})
    BY <1>1, <2>2
  <2>4. Len(marked) = Len(tasks)
    BY <1>1, <2>1, <2>3
  <2>5. Len(tasks) # 0
    BY <1>1 DEF TaskList
  <2> QED
    BY <1>1, <2>1, <2>3, <2>4, <2>5
<1>4. TaskList(marked)
  <2>1. \A i \in DOMAIN tasks : tasks[i].description # Unset
    BY <1>1 DEF TaskList
  <2> QED
    BY <1>2, <1>3, <2>1 DEF TaskList
<1>5. \A i, j \in DOMAIN marked : marked[i].description = marked[j].description => i = j
  BY <1>2, <1>3 DEF Ledger, Once
<1>6. Once(marked)
  BY <1>3, <1>4, <1>5 DEF Ledger, Once
<1>7. Ledger(marked)
  BY <1>2, <1>3, <1>6 DEF Ledger
<1>8. Listed(marked, next)
  <2>1. PICK i \in DOMAIN tasks : tasks[i].description = next
    BY DEF Descriptions
  <2> QED
    BY <1>2, <1>3, <2>1 DEF Listed
<1> QED
  BY <1>2, <1>3, <1>7, <1>8

LEMMA AppendedIs ==
    ASSUME NEW tasks, Ledger(tasks), Len(tasks) < MaxTasks, NEW next, next \notin Descriptions(tasks),
           next # Unset, NEW n \in Nat \ {0}, \A m \in Ids(tasks) : m < n, NEW longer,
           longer = Append(tasks, [id |-> n, description |-> next, status |-> "in-progress"])
    PROVE  /\ Ledger(longer) /\ longer # <<>>
           /\ \A i \in DOMAIN tasks : i \in DOMAIN longer /\ longer[i] = tasks[i]
           /\ \A i \in DOMAIN longer : i \in DOMAIN tasks \/ longer[i].description = next
           /\ Listed(longer, next)
<1> DEFINE e == [id |-> n, description |-> next, status |-> "in-progress"]
           m == Len(tasks)
           S == {tasks[i] : i \in DOMAIN tasks} \cup {e}
<1>1. TaskList(tasks) /\ m \in Nat /\ DOMAIN tasks = 1..m
  BY ListIs DEF Ledger, Once
<1>2. tasks \in Seq(S) /\ e \in S
  BY <1>1 DEF TaskList
<1>3. /\ longer \in Seq(S) /\ longer # <<>> /\ Len(longer) = m + 1 /\ DOMAIN longer = 1..(m + 1)
      /\ \A i \in 1..m : longer[i] = tasks[i]
      /\ longer[m + 1] = e
  <2>1. longer = Append(tasks, e)
    OBVIOUS
  <2> HIDE DEF e, S
  <2> QED
    BY <1>1, <1>2, <2>1, AppendProperties
<1>4. e.id = n /\ e.description = next /\ e.status = "in-progress" /\ IsTask(e)
  BY DEF IsTask
<1> HIDE DEF e, S
<1>5. \A i \in 1..(m + 1) : i \in 1..m \/ i = m + 1
  BY <1>1
<1>6. \A i \in 1..m : tasks[i].id # n /\ tasks[i].description # next
  <2>1. \A i \in 1..m : tasks[i].id \in Ids(tasks) /\ tasks[i].description \in Descriptions(tasks)
    BY <1>1 DEF Ids, Descriptions
  <2>2. n \notin Ids(tasks)
    <3> SUFFICES ASSUME n \in Ids(tasks) PROVE FALSE
      OBVIOUS
    <3> QED
      OBVIOUS
  <2> QED
    BY <2>1, <2>2
<1>7. TaskList(longer)
  <2>1. longer \in [1..(m + 1) -> S]
    BY <1>3, LenProperties
  <2>2. longer \in Seq({longer[i] : i \in DOMAIN longer})
    <3> DEFINE T == {longer[i] : i \in DOMAIN longer}
    <3>1. longer \in [1..(m + 1) -> T]
      BY <2>1
    <3>2. m + 1 \in Nat
      BY <1>1
    <3> HIDE DEF T, m
    <3>3. longer \in Seq(T)
      BY <3>1, <3>2, SeqDef
    <3> QED
      BY <3>3 DEF T
  <2>3. \A i \in DOMAIN longer : longer[i].description # Unset
    BY <1>1, <1>3, <1>4, <1>5 DEF TaskList
  <2> QED
    BY <2>2, <2>3 DEF TaskList
<1>8. \A i, j \in DOMAIN longer : longer[i].description = longer[j].description => i = j
  BY <1>1, <1>3, <1>4, <1>5, <1>6 DEF Ledger, Once
<1>9. Once(longer)
  <2>1. m + 1 <= MaxTasks
    BY <1>1, LedgerAssumption
  <2> QED
    BY <1>3, <1>7, <1>8, <2>1 DEF Once
<1>10. \A i, j \in DOMAIN longer : longer[i].id = longer[j].id => i = j
  BY <1>1, <1>3, <1>4, <1>5, <1>6 DEF Ledger
<1>11. \A i \in DOMAIN longer : IsTask(longer[i])
  BY <1>1, <1>3, <1>4, <1>5 DEF Ledger
<1>12. \A i \in DOMAIN tasks : i \in DOMAIN longer
  BY <1>1, <1>3
<1>13. Listed(longer, next)
  <2>1. m + 1 \in DOMAIN longer
    BY <1>1, <1>3
  <2> QED
    BY <1>3, <1>4, <2>1 DEF Listed
<1> QED
  BY <1>1, <1>3, <1>4, <1>5, <1>9, <1>10, <1>11, <1>12, <1>13 DEF Ledger

\* What follows of a ledger made from the numbered tasks.
LEMMA StillFollows ==
    ASSUME NEW previous, NEW tasks, NEW after, NEW next, Follows(tasks, previous, next),
           Ledger(after), after # <<>>,
           \A i \in DOMAIN tasks : /\ i \in DOMAIN after
                                  /\ after[i].id = tasks[i].id /\ after[i].description = tasks[i].description,
           \A i \in DOMAIN after : i \in DOMAIN tasks \/ after[i].description = next
    PROVE  Follows(after, previous, next)
<1>1. ASSUME NEW d \in Descriptions(previous) \cap Descriptions(after), d # next
      PROVE  IdOf(previous, d) = IdOf(after, d)
  <2>1. PICK i \in DOMAIN after : d = after[i].description
    BY DEF Descriptions
  <2>2. i \in DOMAIN tasks /\ after[i].id = tasks[i].id /\ after[i].description = tasks[i].description
    BY <1>1, <2>1
  <2>3. IdOf(after, d) = after[i].id
    BY <2>1, IdOfIs DEF Ledger
  <2>4. IdOf(tasks, d) = tasks[i].id /\ d \in Descriptions(tasks)
    BY <2>1, <2>2, IdOfIs DEF Ledger, Follows, Descriptions
  <2> QED
    BY <1>1, <2>2, <2>3, <2>4 DEF Follows
<1> QED
  BY <1>1 DEF Follows

LEMMA NumberedFollows ==
    ASSUME NEW previous, Ledger(previous), NEW source, Once(source), source # <<>>, NEW next
    PROVE  Follows(Numbered(previous, source), previous, next)
<1> DEFINE tasks == Numbered(previous, source)
<1>1. /\ Ledger(tasks) /\ Len(tasks) = Len(source) /\ DOMAIN tasks = DOMAIN source
      /\ \A i \in DOMAIN source :
           /\ tasks[i].description = source[i].description
           /\ source[i].description \in Descriptions(previous)
                => tasks[i].id = IdOf(previous, source[i].description)
  BY NumberedIs
<1> HIDE DEF tasks
<1>2. tasks # <<>>
  BY <1>1 DEF Once, TaskList
<1>3. ASSUME NEW d \in Descriptions(previous) \cap Descriptions(tasks)
      PROVE  IdOf(previous, d) = IdOf(tasks, d)
  <2>1. PICK i \in DOMAIN tasks : d = tasks[i].description
    BY DEF Descriptions
  <2>2. IdOf(tasks, d) = tasks[i].id
    BY <1>1, <2>1, IdOfIs DEF Ledger
  <2> QED
    BY <1>1, <2>1, <2>2
<1>4. Follows(tasks, previous, next)
  BY <1>1, <1>2, <1>3 DEF Follows
<1> QED
  BY <1>4 DEF tasks

\* A number after those of two ledgers.
LEMMA NextIdIs ==
    ASSUME NEW previous, Ledger(previous), NEW tasks, Ledger(tasks)
    PROVE  NextId(previous, tasks) \in Nat \ {0} /\ \A m \in Ids(tasks) : m < NextId(previous, tasks)
<1> DEFINE ids == Ids(previous) \cup Ids(tasks)
<1>1. ids \subseteq Nat /\ IsFiniteSet(ids)
  BY IdsAre, FS_Union
<1>2. LastOf(ids) \in Nat /\ \A m \in ids : m <= LastOf(ids)
  BY <1>1, LastOfIs
<1>3. NextId(previous, tasks) = LastOf(ids) + 1
  BY DEF NextId
<1>4. \A m \in Ids(tasks) : m \in Nat /\ m <= LastOf(ids)
  BY <1>1, <1>2
<1> HIDE DEF ids
<1> QED
  BY <1>2, <1>3, <1>4

LEMMA ReconciledIs ==
    ASSUME NEW previous, Ledger(previous), NEW curated, Once(curated), NEW next
    PROVE  /\ Follows(ReconcileTasks(previous, curated, next), previous, next)
           /\ next # Unset => Listed(ReconcileTasks(previous, curated, next), next)
<1> DEFINE tasks == Numbered(previous, Source(previous, curated, next))
           after == ReconcileTasks(previous, curated, next)
           marked == [i \in DOMAIN tasks |-> IF tasks[i].description = next
                                           THEN [tasks[i] EXCEPT !.status = "in-progress"] ELSE tasks[i]]
           longer == Append(tasks, [id |-> NextId(previous, tasks), description |-> next,
                                    status |-> "in-progress"])
<1>1. Follows(tasks, previous, next)
  BY SourceIs, NumberedFollows
<1>2. Ledger(tasks) /\ tasks # <<>>
  BY <1>1 DEF Follows
<1>3. after = IF next = Unset THEN tasks
              ELSE IF next \in Descriptions(tasks) THEN marked
              ELSE IF Len(tasks) < MaxTasks THEN longer ELSE tasks
  BY DEF ReconcileTasks
<1> SUFFICES Follows(after, previous, next) /\ (next # Unset => Listed(after, next))
  OBVIOUS
<1> HIDE DEF tasks, after, marked, longer
<1>4. CASE next = Unset
  BY <1>1, <1>3, <1>4
<1>5. CASE next # Unset /\ next \in Descriptions(tasks)
  <2>1. /\ Ledger(marked) /\ marked # <<>> /\ DOMAIN marked = DOMAIN tasks
        /\ \A i \in DOMAIN tasks :
             marked[i].id = tasks[i].id /\ marked[i].description = tasks[i].description
        /\ Listed(marked, next)
    BY <1>2, <1>5, MarkedIs DEF marked
  <2>2. Follows(marked, previous, next)
    BY <1>1, <2>1, StillFollows
  <2> QED
    BY <1>3, <1>5, <2>1, <2>2
<1>6. CASE next # Unset /\ next \notin Descriptions(tasks) /\ Len(tasks) < MaxTasks
  <2>1. /\ Ledger(longer) /\ longer # <<>>
        /\ \A i \in DOMAIN tasks : i \in DOMAIN longer /\ longer[i] = tasks[i]
        /\ \A i \in DOMAIN longer : i \in DOMAIN tasks \/ longer[i].description = next
        /\ Listed(longer, next)
    <3>1. /\ NextId(previous, tasks) \in Nat \ {0}
          /\ \A m \in Ids(tasks) : m < NextId(previous, tasks)
      BY <1>2, NextIdIs
    <3> QED
      BY <1>2, <1>6, <3>1, AppendedIs DEF longer
  <2>2. Follows(longer, previous, next)
    BY <1>1, <2>1, StillFollows
  <2> QED
    BY <1>3, <1>6, <2>1, <2>2
<1>7. CASE next # Unset /\ next \notin Descriptions(tasks) /\ ~(Len(tasks) < MaxTasks)
  <2>1. Len(tasks) = MaxTasks
    <3>1. Len(tasks) \in Nat /\ Len(tasks) <= MaxTasks
      BY <1>2, ListIs DEF Ledger, Once
    <3> QED
      BY <1>7, <3>1, LedgerAssumption
  <2>2. Listed(tasks, next)
    BY <1>7, <2>1 DEF Listed
  <2> QED
    BY <1>1, <1>3, <1>7, <2>2
<1> QED
  BY <1>4, <1>5, <1>6, <1>7

\* A state of the run: the check is the operator's until one is settled; then it is the one
\* of task.md.
SettledIn(s) ==
  /\ s = [check |-> s.check, kind |-> s.kind, settled |-> s.settled, next |-> s.next]
  /\ s.settled \in BOOLEAN
  /\ IF s.settled
     THEN /\ CheckSpec(taskMd) = IF s.kind = "command" THEN s.check ELSE "judge"
          /\ ledger.check # Unset => taskMd = ledger.check /\ s.check = ledger.check
     ELSE s.check = ledger.check

LedgerInv ==
  /\ ledger \in Ledgers
  /\ SettledIn(mem) /\ SettledIn(disk) /\ (disk.settled => mem.settled)
  /\ step = "settled" => ~mem.settled /\ taskMd = SettledCheck(plan.section)
  /\ TaskList(plan.tasks)
  /\ Ledger(tasksJson)
  /\ step \in {"round", "work"} => mem.next # Unset
  /\ step = "work" => Listed(tasksBefore, mem.next)

LEMMA LedgerStarts == LedgerInit => LedgerInv
<1> SUFFICES ASSUME LedgerInit PROVE LedgerInv
  OBVIOUS
<1>1. SettledIn(mem) /\ SettledIn(disk) /\ ~disk.settled
  BY DEF LedgerInit, SettledIn
<1>2. TaskList(<<>>)
  BY DEF TaskList
<1>3. Ledger(<<>>)
  BY <1>2, LedgerAssumption DEF Ledger, Once
<1> QED
  BY <1>1, <1>2, <1>3 DEF LedgerInit, LedgerInv

\* What a step must not do to the tasks: a task that stays keeps its number, but for the next one.
LedgerStays == LedgerInv' /\ TaskKeepsId

LEMMA SameTasks == tasksJson' = tasksJson => TaskKeepsId
  BY DEF TaskKeepsId, IdOf

LEMMA TasksFollow ==
    ASSUME NEW next, Follows(tasksJson', tasksJson, next), next = mem'.next \/ next = Unset, LedgerInv
    PROVE  TaskKeepsId /\ Ledger(tasksJson')
<1>1. \A d \in Descriptions(tasksJson) : d # Unset
  BY DEF LedgerInv, Ledger, Once, TaskList, Descriptions
<1> QED
  BY <1>1 DEF TaskKeepsId, Follows

LEMMA AnswerPlanKeeps == LedgerInv /\ AnswerPlan => LedgerStays
<1> SUFFICES ASSUME LedgerInv, AnswerPlan PROVE LedgerStays
  OBVIOUS
<1>1. /\ step' = "settle" /\ mem' = mem /\ disk' = mem
      /\ UNCHANGED <<ledger, taskMd, tasksJson, tasksBefore>>
  BY DEF AnswerPlan, SaveState
<1>2. TaskList(plan.tasks')
  <2>1. CASE UNCHANGED plan
    BY <2>1 DEF LedgerInv
  <2>2. CASE \E p \in Plans : plan' = [section |-> p.section, tasks |-> p.tasks, told |-> CheckLine]
    BY <2>2, LedgerAssumption
  <2> QED
    BY <2>1, <2>2 DEF AnswerPlan
<1>3. SettledIn(mem)' /\ SettledIn(disk)'
  BY <1>1 DEF LedgerInv, SettledIn
<1> QED
  BY <1>1, <1>2, <1>3, SameTasks DEF LedgerInv, LedgerStays

LEMMA SettleTaskKeeps == LedgerInv /\ SettleTask => LedgerStays
<1> SUFFICES ASSUME LedgerInv, SettleTask PROVE LedgerStays
  OBVIOUS
<1>1. UNCHANGED <<ledger, mem, disk, plan, tasksJson, tasksBefore>>
  BY DEF SettleTask
<1>2. SettledIn(mem)' /\ SettledIn(disk)'
  BY <1>1 DEF LedgerInv, SettledIn, SettleTask
<1>3. step' = "settled" => ~mem.settled /\ taskMd' = SettledCheck(plan.section)
  BY DEF SettleTask
<1>4. step' \in {"settled", "tasks"}
  BY DEF SettleTask
<1> QED
  BY <1>1, <1>2, <1>3, <1>4, SameTasks DEF LedgerInv, LedgerStays, SettledCheck

LEMMA SettleStateKeeps == LedgerInv /\ SettleState => LedgerStays
<1> SUFFICES ASSUME LedgerInv, SettleState PROVE LedgerStays
  OBVIOUS
<1> DEFINE spec == CheckSpec(taskMd)
           commands == spec \in Checks
<1>1. /\ UNCHANGED <<ledger, plan, taskMd, tasksJson, tasksBefore>> /\ step' = "tasks" /\ disk' = mem'
      /\ ~mem.settled /\ taskMd = SettledCheck(plan.section)
  BY DEF LedgerInv, SettleState, SaveState
<1>2. mem = [check |-> mem.check, kind |-> mem.kind, settled |-> mem.settled, next |-> mem.next]
      /\ mem.check = ledger.check
  BY <1>1 DEF LedgerInv, SettledIn
<1>3. mem' = [check |-> IF commands /\ ledger.check = Unset THEN spec ELSE mem.check,
              kind |-> IF commands THEN "command" ELSE "judge", settled |-> TRUE, next |-> mem.next]
  BY <1>2 DEF SettleState
<1>4. ledger.check # Unset => taskMd = ledger.check /\ commands /\ spec = ledger.check
  BY <1>1, LedgerAssumption DEF LedgerInv, SettledCheck, CheckSpec
<1>5. ~commands => spec = "judge"
  BY DEF CheckSpec
<1> HIDE DEF spec, commands
<1>6. SettledIn(mem)'
  <2>1. spec = CheckSpec(taskMd)'
    BY <1>1 DEF spec, CheckSpec
  <2>2. /\ mem'.settled = TRUE
        /\ mem'.kind = IF commands THEN "command" ELSE "judge"
        /\ mem'.check = IF commands /\ ledger.check = Unset THEN spec ELSE mem.check
        /\ mem' = [check |-> mem'.check, kind |-> mem'.kind, settled |-> mem'.settled, next |-> mem'.next]
    BY <1>3
  <2>3. CheckSpec(taskMd)' = IF mem'.kind = "command" THEN mem'.check ELSE "judge"
    BY <1>2, <1>4, <1>5, <2>1, <2>2
  <2>4. ledger'.check # Unset => taskMd' = ledger'.check /\ mem'.check = ledger'.check
    BY <1>1, <1>2, <1>4, <2>2
  <2> QED
    BY <2>2, <2>3, <2>4 DEF SettledIn
<1>7. SettledIn(disk)'
  BY <1>1, <1>6 DEF SettledIn
<1> QED
  BY <1>1, <1>6, <1>7, SameTasks DEF LedgerInv, LedgerStays

\* A state that differs in the next task alone.
LEMMA NextIsSet ==
    ASSUME NEW s, SettledIn(s), NEW d
    PROVE  /\ SettledIn([s EXCEPT !.next = d]) /\ [s EXCEPT !.next = d].next = d
           /\ [s EXCEPT !.next = d].settled = s.settled
<1> DEFINE t == [s EXCEPT !.next = d]
<1>1. t = [check |-> s.check, kind |-> s.kind, settled |-> s.settled, next |-> d]
  BY DEF SettledIn
<1> HIDE DEF t
<1>2. SettledIn(t) /\ t.next = d /\ t.settled = s.settled
  BY <1>1 DEF SettledIn
<1> QED
  BY <1>2 DEF t

LEMMA FirstIs ==
    ASSUME NEW tasks, Ledger(tasks), tasks # <<>>
    PROVE  tasks[1].description # Unset
<1>1. Len(tasks) \in Nat /\ Len(tasks) # 0 /\ DOMAIN tasks = 1..Len(tasks)
  BY ListIs DEF Ledger, Once, TaskList
<1>2. 1 \in DOMAIN tasks
  BY <1>1
<1> QED
  BY <1>2 DEF Ledger, Once, TaskList

LEMMA FirstTasksKeep == LedgerInv /\ FirstTasks => LedgerStays
<1> SUFFICES ASSUME LedgerInv, FirstTasks PROVE LedgerStays
  OBVIOUS
<1> DEFINE next == IF mem.next = Unset THEN tasksJson'[1].description ELSE mem.next
<1>1. /\ UNCHANGED <<ledger, plan, taskMd, tasksBefore>> /\ step' = "round" /\ disk' = mem
      /\ mem' = [mem EXCEPT !.next = next]
  <2>1. mem' = [mem EXCEPT !.next = IF mem.next = Unset THEN tasksJson'[1].description ELSE mem.next]
    BY DEF FirstTasks, LedgerInv, SettledIn
  <2> QED
    BY <2>1 DEF FirstTasks
<1>2. Ledger(tasksJson') /\ tasksJson' # <<>> /\ TaskKeepsId
  <2>1. CASE tasksJson # <<>>
    BY <2>1, SameTasks DEF LedgerInv, FirstTasks
  <2>2. CASE tasksJson = <<>>
    <3>1. tasksJson' = ReconcileTasks(tasksJson, ParsedItems(plan.tasks), Unset)
      BY <2>2 DEF FirstTasks
    <3>2. Follows(tasksJson', tasksJson, Unset)
      BY <3>1, ParsedIs, ReconciledIs DEF LedgerInv
    <3> QED
      BY <3>2, TasksFollow DEF Follows
  <2> QED
    BY <2>1, <2>2
<1>3. next # Unset
  BY <1>2, FirstIs
<1> HIDE DEF next
<1>4. /\ SettledIn([mem EXCEPT !.next = next]) /\ [mem EXCEPT !.next = next].next = next
      /\ [mem EXCEPT !.next = next].settled = mem.settled
  BY NextIsSet DEF LedgerInv
<1>5. mem'.next = next /\ mem'.settled = mem.settled
  BY <1>1, <1>4
<1>6. SettledIn(mem)' /\ SettledIn(disk)'
  BY <1>1, <1>4 DEF LedgerInv, SettledIn
<1> QED
  BY <1>1, <1>2, <1>3, <1>5, <1>6 DEF LedgerInv, LedgerStays

LEMMA BeginRoundKeeps == LedgerInv /\ BeginRound => LedgerStays
<1> SUFFICES ASSUME LedgerInv, BeginRound PROVE LedgerStays
  OBVIOUS
<1>1. /\ UNCHANGED <<ledger, plan, taskMd, mem>> /\ step' = "work" /\ disk' = mem
      /\ tasksJson' = ReconcileTasks(tasksJson, tasksJson, mem.next) /\ tasksBefore' = tasksJson'
      /\ mem.next # Unset
  BY DEF LedgerInv, BeginRound, SaveState
<1>2. Follows(tasksJson', tasksJson, mem.next) /\ Listed(tasksBefore', mem.next)
  BY <1>1, ReconciledIs DEF LedgerInv, Ledger
<1>3. TaskKeepsId /\ Ledger(tasksJson')
  BY <1>1, <1>2, TasksFollow
<1>4. SettledIn(mem)' /\ SettledIn(disk)'
  BY <1>1 DEF LedgerInv, SettledIn
<1> QED
  BY <1>1, <1>2, <1>3, <1>4 DEF LedgerInv, LedgerStays

LEMMA WorkRoundKeeps == LedgerInv /\ WorkRound => LedgerStays
<1> SUFFICES ASSUME LedgerInv, WorkRound PROVE LedgerStays
  OBVIOUS
<1>1. /\ UNCHANGED <<ledger, plan, taskMd, mem, tasksJson, tasksBefore>> /\ disk' = mem
      /\ step' \in {"manage", "over"}
  BY DEF WorkRound, SaveState
<1>2. SettledIn(mem)' /\ SettledIn(disk)'
  BY <1>1 DEF LedgerInv, SettledIn
<1> QED
  BY <1>1, <1>2, SameTasks DEF LedgerInv, LedgerStays

LEMMA AskManagerKeeps == LedgerInv /\ AskManager => LedgerStays
<1> SUFFICES ASSUME LedgerInv, AskManager PROVE LedgerStays
  OBVIOUS
<1>1. /\ UNCHANGED <<ledger, plan, taskMd, tasksJson, tasksBefore>> /\ disk' = mem'
      /\ step' = "managed" /\ mem' = [mem EXCEPT !.next = Unset]
  BY DEF AskManager, SaveState
<1>2. SettledIn([mem EXCEPT !.next = Unset]) /\ [mem EXCEPT !.next = Unset].settled = mem.settled
  BY NextIsSet DEF LedgerInv
<1>3. SettledIn(mem)' /\ SettledIn(disk)' /\ mem'.settled = disk'.settled
  BY <1>1, <1>2 DEF SettledIn
<1> QED
  BY <1>1, <1>3, SameTasks DEF LedgerInv, LedgerStays

LEMMA DefaultTaskKeeps == LedgerInv /\ DefaultTask => LedgerStays
<1> SUFFICES ASSUME LedgerInv, DefaultTask PROVE LedgerStays
  OBVIOUS
<1>1. /\ UNCHANGED <<ledger, plan, taskMd, tasksBefore>> /\ disk' = mem' /\ step' = "round"
      /\ mem' = [mem EXCEPT !.next = AfterFail]
      /\ tasksJson' = ReconcileTasks(tasksJson, tasksJson, AfterFail)
  BY DEF DefaultTask, SaveState
<1>2. /\ SettledIn([mem EXCEPT !.next = AfterFail]) /\ [mem EXCEPT !.next = AfterFail].next = AfterFail
      /\ [mem EXCEPT !.next = AfterFail].settled = mem.settled
  BY NextIsSet DEF LedgerInv
<1>3. SettledIn(mem)' /\ SettledIn(disk)' /\ mem'.settled = disk'.settled
  BY <1>1, <1>2 DEF SettledIn
<1>4. Follows(tasksJson', tasksJson, AfterFail)
  BY <1>1, ReconciledIs DEF LedgerInv, Ledger
<1>5. TaskKeepsId /\ Ledger(tasksJson')
  BY <1>1, <1>2, <1>4, TasksFollow
<1>6. AfterFail # Unset
  BY DEF AfterFail, Unset
<1> QED
  BY <1>1, <1>2, <1>3, <1>5, <1>6 DEF LedgerInv, LedgerStays

LEMMA KillAndResumeKeeps == LedgerInv /\ KillAndResume => LedgerStays
<1> SUFFICES ASSUME LedgerInv, KillAndResume PROVE LedgerStays
  OBVIOUS
<1>1. /\ UNCHANGED <<ledger, disk, plan, taskMd, tasksJson, tasksBefore>> /\ mem' = disk
      /\ step' = "plan"
  BY DEF KillAndResume
<1>2. SettledIn(mem)' /\ SettledIn(disk)'
  BY <1>1 DEF LedgerInv, SettledIn
<1> QED
  BY <1>1, <1>2, SameTasks DEF LedgerInv, LedgerStays

\* The manager's answer makes a ledger of its list and the next task, the one it names or another.
LEMMA ManagedIs ==
    ASSUME Managed
    PROVE  \E a \in ManagerAnswers : \E next :
             /\ tasksJson' = ReconcileTasks(tasksJson, ParsedItems(a.tasks), next)
             /\ \/ step' = "over" /\ disk' = mem /\ mem' = [mem EXCEPT !.next = next]
                \/ /\ step' = "round" /\ disk' = mem
                   /\ mem' = [mem EXCEPT !.next = IF next # Unset THEN next ELSE AfterPass]
                \/ step' = "default" /\ disk' = mem /\ mem' = mem /\ next = Unset
<1> DEFINE Listing(a) == ReconcileTasks(tasksJson, ParsedItems(a.tasks), a.next)
           Next0(a) == IF a.next # Unset THEN a.next
                       ELSE IF Pending(Listing(a)) # {} THEN Listing(a)[Nth(Pending(Listing(a)), 1)].description
                       ELSE Unset
<1>1. \E a \in ManagerAnswers :
        /\ tasksJson' = ReconcileTasks(tasksJson, ParsedItems(a.tasks), Next0(a))
        /\ \/ step' = "over" /\ disk' = mem /\ mem' = [mem EXCEPT !.next = Next0(a)]
           \/ /\ step' = "round" /\ disk' = mem
              /\ mem' = [mem EXCEPT !.next = IF Next0(a) # Unset THEN Next0(a) ELSE AfterPass]
           \/ step' = "default" /\ disk' = mem /\ mem' = mem /\ Next0(a) = Unset
  BY Zenon DEF Managed, SaveState
<1> QED
  BY <1>1

LEMMA ManagedKeeps == LedgerInv /\ Managed => LedgerStays
<1> SUFFICES ASSUME LedgerInv, Managed PROVE LedgerStays
  OBVIOUS
<1>1. PICK a \in ManagerAnswers :
        \E next :
          /\ tasksJson' = ReconcileTasks(tasksJson, ParsedItems(a.tasks), next)
          /\ \/ step' = "over" /\ disk' = mem /\ mem' = [mem EXCEPT !.next = next]
             \/ /\ step' = "round" /\ disk' = mem
                /\ mem' = [mem EXCEPT !.next = IF next # Unset THEN next ELSE AfterPass]
             \/ step' = "default" /\ disk' = mem /\ mem' = mem /\ next = Unset
  BY ManagedIs
<1>2. PICK next :
        /\ tasksJson' = ReconcileTasks(tasksJson, ParsedItems(a.tasks), next)
        /\ \/ step' = "over" /\ disk' = mem /\ mem' = [mem EXCEPT !.next = next]
           \/ /\ step' = "round" /\ disk' = mem
              /\ mem' = [mem EXCEPT !.next = IF next # Unset THEN next ELSE AfterPass]
           \/ step' = "default" /\ disk' = mem /\ mem' = mem /\ next = Unset
  BY <1>1
<1>3. UNCHANGED <<ledger, plan, taskMd, tasksBefore>>
  BY DEF Managed
<1>4. Follows(tasksJson', tasksJson, next)
  <2>1. Once(ParsedItems(a.tasks))
    BY ParsedIs, LedgerAssumption
  <2> QED
    BY <1>2, <2>1, ReconciledIs DEF LedgerInv
<1>5. SettledIn(mem) /\ SettledIn(disk) /\ (disk.settled => mem.settled)
  BY DEF LedgerInv
<1>6. CASE step' = "default" /\ disk' = mem /\ mem' = mem /\ next = Unset
  <2>1. SettledIn(mem)' /\ SettledIn(disk)'
    BY <1>3, <1>5, <1>6 DEF SettledIn
  <2> QED
    BY <1>3, <1>4, <1>6, <2>1, TasksFollow DEF LedgerInv, LedgerStays
<1>7. ASSUME NEW d, disk' = mem, mem' = [mem EXCEPT !.next = d], d = next \/ next = Unset,
             \/ step' = "over"
             \/ step' = "round" /\ d # Unset
      PROVE  LedgerStays
  <2>1. /\ SettledIn([mem EXCEPT !.next = d]) /\ [mem EXCEPT !.next = d].next = d
        /\ [mem EXCEPT !.next = d].settled = mem.settled
    BY <1>5, NextIsSet
  <2>2. SettledIn(mem)' /\ SettledIn(disk)' /\ mem'.next = d /\ mem'.settled = mem.settled
    BY <1>3, <1>5, <1>7, <2>1 DEF SettledIn
  <2>3. TaskKeepsId /\ Ledger(tasksJson')
    BY <1>4, <1>7, <2>2, TasksFollow
  <2> QED
    BY <1>3, <1>7, <2>2, <2>3 DEF LedgerInv, LedgerStays
<1>8. AfterPass # Unset
  BY DEF AfterPass, Unset
<1> QED
  BY <1>2, <1>6, <1>7, <1>8

LEMMA LedgerStep == LedgerInv /\ [LedgerNext]_ledgerVars => LedgerInv' /\ TaskKeepsId
<1> SUFFICES ASSUME LedgerInv, [LedgerNext]_ledgerVars PROVE LedgerStays
  BY DEF LedgerStays
<1>1. CASE UNCHANGED ledgerVars
  <2>1. SettledIn(mem)' /\ SettledIn(disk)'
    BY <1>1 DEF LedgerInv, SettledIn, ledgerVars
  <2>2. UNCHANGED <<ledger, mem, disk, plan, taskMd, tasksJson, tasksBefore, step>>
    BY <1>1 DEF ledgerVars
  <2> QED
    BY <2>1, <2>2, SameTasks DEF LedgerInv, LedgerStays, SettledCheck
<1> QED
  BY <1>1, AnswerPlanKeeps, SettleTaskKeeps, SettleStateKeeps, FirstTasksKeep, BeginRoundKeeps,
     WorkRoundKeeps, AskManagerKeeps, ManagedKeeps, DefaultTaskKeeps, KillAndResumeKeeps DEF LedgerNext

\* What a run remembers of its task agrees with what its roles are told, in every round and over
\* every resume: the next task is in the list they read, a number names one task and a task keeps
\* its number, and task.md names what the run checks (reconcile_tasks, settle, Orchestrator.execute).
THEOREM RunKeepsItsLedger == LedgerSpec => LedgerIsKept
<1>1. LedgerInv => NextIsListed /\ NumbersAreOwn /\ SettledIsInTask
  <2> SUFFICES ASSUME LedgerInv PROVE NextIsListed /\ NumbersAreOwn /\ SettledIsInTask
    OBVIOUS
  <2>1. NextIsListed
    BY DEF LedgerInv, NextIsListed, Listed
  <2>2. NumbersAreOwn
    BY IdsAre DEF LedgerInv, NumbersAreOwn
  <2>3. SettledIsInTask
    BY DEF LedgerInv, SettledIn, SettledIsInTask
  <2> QED
    BY <2>1, <2>2, <2>3
<1>2. LedgerInv /\ [LedgerNext]_ledgerVars
        => LedgerInv' /\ [TaskKeepsId /\ NextIsListed' /\ NumbersAreOwn' /\ SettledIsInTask']_ledgerVars
  <2>1. LedgerInv' => NextIsListed' /\ NumbersAreOwn' /\ SettledIsInTask'
    BY <1>1, PTL
  <2> QED
    BY <2>1, LedgerStep
<1> QED
  BY <1>2, LedgerStarts, PTL DEF LedgerSpec, LedgerIsKept
=============================================================================
