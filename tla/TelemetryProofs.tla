---------------------------- MODULE TelemetryProofs ----------------------------
(***************************************************************************)
(* Theorems about LineTrace, for any number of requests, contexts and      *)
(* lines and any budget, and about SpanBuffer, for any capacities, batch   *)
(* sizes and number of items.                                              *)
(*                                                                         *)
(* The inductive invariant of LineTrace says what the epoch is for: a      *)
(* recorder whose epoch is the current one has lived with no line disabled.*)
(* That of SpanBuffer says where the items are: a task that is not writing *)
(* holds none, what the loop writes is older than what waits, and db-v3    *)
(* has nothing newer than what it has yet to get.                          *)
(***************************************************************************)
EXTENDS LineTrace, SpanBuffer, FiniteSetTheorems, SequenceTheorems, TLAPS

-----------------------------------------------------------------------------
(* LineTrace.                                                              *)

\* No epoch comes back.
EpochsPast == \A r \in Recs : since[r] <= epoch

\* A recorder not begun has nothing; one in the current epoch missed nothing.
LiveComplete ==
    /\ \A r \in Recs : stage[r] = "unused" => lines[r] = {} /\ ran[r] = {}
    /\ \A r \in Recs : stage[r] = "live" /\ since[r] = epoch => disabled = {} /\ lines[r] = ran[r]

IInv == TypeOK /\ EpochsPast /\ DisabledIsDirty /\ LiveComplete /\ CompleteUnlessPartial

LEMMA InitIInv == Init => IInv
<1> SUFFICES ASSUME Init PROVE IInv
    OBVIOUS
<1>1. home \in [Recs -> Contexts]
    BY DEF Init
<1>2. TypeOK
  <2>1. /\ stage \in [Recs -> {"unused", "live", "done"}] /\ lines \in [Recs -> SUBSET Lines]
        /\ ran \in [Recs -> SUBSET Lines] /\ cut \in [Recs -> BOOLEAN] /\ partial \in [Recs -> BOOLEAN]
    BY DEF Init
  <2>2. events \in [Recs -> Nat] /\ since \in [Recs -> 0..MaxEpoch] /\ epoch \in 0..MaxEpoch
    BY BoundAssumption DEF Init
  <2>3. outer \in [Recs -> Recs \cup {NoRec}] /\ cur \in [Contexts -> Recs \cup {NoRec}]
    BY DEF Init
  <2> QED
    BY <1>1, <2>1, <2>2, <2>3 DEF Init, TypeOK
<1>3. EpochsPast /\ DisabledIsDirty /\ LiveComplete /\ CompleteUnlessPartial
    BY DEF Init, EpochsPast, DisabledIsDirty, LiveComplete, CompleteUnlessPartial
<1> QED
    BY <1>2, <1>3 DEF IInv

LEMMA RearmEffect ==
    ASSUME IInv, Rearm
    PROVE  /\ disabled' = {} /\ dirty' = FALSE
           /\ epoch' \in 0..MaxEpoch
           /\ epoch' = epoch \/ epoch' = epoch + 1
  BY BoundAssumption DEF Rearm, IInv, TypeOK, DisabledIsDirty, monitor

LEMMA TypeStep == IInv /\ [Next]_vars => TypeOK'
<1> SUFFICES ASSUME IInv, [Next]_vars PROVE TypeOK'
    OBVIOUS
<1> USE BoundAssumption DEF TypeOK
<1>0. TypeOK
    BY DEF IInv
<1>1. ASSUME NEW x \in Contexts, NEW l \in Lines, LineUnseen(x, l) PROVE TypeOK'
    BY <1>0, <1>1 DEF LineUnseen, Recording, Reached, monitor
<1>2. ASSUME NEW x \in Contexts, NEW l \in Lines, LineRecorded(x, l) PROVE TypeOK'
    BY <1>0, <1>2 DEF LineRecorded, Recording, Reached, monitor
<1>3. ASSUME NEW x \in Contexts, NEW l \in Lines, LineCut(x, l) PROVE TypeOK'
    BY <1>0, <1>3 DEF LineCut, Recording, Reached, Disable
<1>4. ASSUME NEW x \in Contexts, NEW r \in Recs, begin(x, r) PROVE TypeOK'
    BY <1>0, <1>4, RearmEffect DEF begin
<1>5. ASSUME NEW x \in Contexts, NEW r \in Recs, end(x, r) PROVE TypeOK'
    BY <1>0, <1>5 DEF end, Partial, monitor
<1>6. ASSUME NEW x \in Contexts, NEW y \in Contexts, Spawn(x, y) PROVE TypeOK'
    BY <1>0, <1>6 DEF Spawn, monitor
<1>7. CASE UNCHANGED vars
    BY <1>0, <1>7 DEF vars
<1> QED
    BY <1>1, <1>2, <1>3, <1>4, <1>5, <1>6, <1>7 DEF Next

LEMMA RestStep ==
    IInv /\ [Next]_vars =>
        EpochsPast' /\ DisabledIsDirty' /\ LiveComplete' /\ CompleteUnlessPartial'
<1> SUFFICES ASSUME IInv, [Next]_vars
             PROVE  EpochsPast' /\ DisabledIsDirty' /\ LiveComplete' /\ CompleteUnlessPartial'
    OBVIOUS
<1> USE BoundAssumption
    DEF IInv, TypeOK, EpochsPast, DisabledIsDirty, LiveComplete, CompleteUnlessPartial
<1> DEFINE Others == EpochsPast /\ DisabledIsDirty /\ LiveComplete /\ CompleteUnlessPartial
<1>1. ASSUME NEW x \in Contexts, NEW l \in Lines, LineUnseen(x, l) PROVE Others'
    BY <1>1 DEF LineUnseen, Recording, Reached, monitor
<1>2. ASSUME NEW x \in Contexts, NEW l \in Lines, LineRecorded(x, l) PROVE Others'
    BY <1>2 DEF LineRecorded, Recording, Reached, monitor
<1>3. ASSUME NEW x \in Contexts, NEW l \in Lines, LineCut(x, l) PROVE Others'
  \* The epoch moves: no live recorder is in the current one any more.
  <2>1. dirty' /\ \A r \in Recs : since'[r] < epoch'
    BY <1>3 DEF LineCut, Disable
  <2>2. \A r \in Recs : /\ stage'[r] = stage[r] /\ partial'[r] = partial[r] /\ lines'[r] = lines[r]
                        /\ stage[r] # "live" => ran'[r] = ran[r]
    BY <1>3 DEF LineCut, Recording, Reached
  <2>3. EpochsPast' /\ DisabledIsDirty' /\ CompleteUnlessPartial'
    BY <1>3, <2>1, <2>2 DEF LineCut, Disable
  <2>4. \A r \in Recs : since'[r] # epoch'
    BY <1>3, <2>1 DEF LineCut, Disable
  <2> QED
    BY <2>2, <2>3, <2>4
<1>4. ASSUME NEW x \in Contexts, NEW r \in Recs, begin(x, r) PROVE Others'
  <2>1. disabled' = {} /\ epoch' \in Int /\ (epoch' = epoch \/ epoch' = epoch + 1)
    <3>1. Rearm
      BY <1>4 DEF begin
    <3> HIDE DEF IInv
    <3> QED
      BY <3>1, RearmEffect
  <2>2. \A q \in Recs : /\ stage'[q] = IF q = r THEN "live" ELSE stage[q]
                        /\ since'[q] = IF q = r THEN epoch' ELSE since[q]
    BY <1>4 DEF begin
  <2>3. stage[r] = "unused" /\ UNCHANGED <<lines, partial, ran>>
    BY <1>4 DEF begin
  <2>4. EpochsPast'
    BY <2>1, <2>2
  <2>5. DisabledIsDirty' /\ CompleteUnlessPartial'
    BY <2>1, <2>2, <2>3
  <2>6. ASSUME NEW q \in Recs, stage'[q] = "live", since'[q] = epoch' PROVE lines[q] = ran[q]
    <3>1. CASE q = r
      BY <2>3, <3>1
    <3>2. CASE q # r
      BY <2>1, <2>2, <2>6, <3>2
    <3> QED
      BY <3>1, <3>2
  <2> QED
    BY <2>1, <2>2, <2>3, <2>4, <2>5, <2>6
<1>5. ASSUME NEW x \in Contexts, NEW r \in Recs, end(x, r) PROVE Others'
    BY <1>5 DEF end, Partial, monitor
<1>6. ASSUME NEW x \in Contexts, NEW y \in Contexts, Spawn(x, y) PROVE Others'
    BY <1>6 DEF Spawn, monitor
<1>7. CASE UNCHANGED vars
    BY <1>7 DEF vars
<1> QED
    BY <1>1, <1>2, <1>3, <1>4, <1>5, <1>6, <1>7 DEF Next

LEMMA Inductive == Spec => []IInv
<1>1. IInv /\ [Next]_vars => IInv'
    BY TypeStep, RestStep DEF IInv
<1> QED
    BY <1>1, InitIInv, PTL DEF Spec

\* The monitoring state and the recorders stay well formed (_on_line, begin, end).
THEOREM TypeCorrect == Spec => []TypeOK
<1>1. IInv => TypeOK
    BY DEF IInv
<1> QED
    BY <1>1, Inductive, PTL

\* Each line in a record was counted when it was recorded, below the budget.
Costs ==
    /\ \A r \in Recs : IsFiniteSet(lines[r]) /\ Cardinality(lines[r]) <= events[r]
    /\ BudgetKept

LEMMA CostsStep == TypeOK /\ Costs /\ [Next]_vars => Costs'
<1> SUFFICES ASSUME TypeOK, Costs, [Next]_vars PROVE Costs'
    OBVIOUS
<1>1. ASSUME UNCHANGED <<events, lines, cut>> PROVE Costs'
    BY <1>1 DEF Costs, BudgetKept
<1>2. ASSUME NEW x \in Contexts, NEW l \in Lines, LineRecorded(x, l) PROVE Costs'
  <2> DEFINE q == cur[x]
  <2>1. /\ q \in Recs /\ events[q] \in Nat /\ events[q] < Budget /\ cut' = cut
        /\ \A r \in Recs : /\ events'[r] = IF r = q THEN events[r] + 1 ELSE events[r]
                          /\ lines'[r] = IF r = q THEN lines[r] \cup {l} ELSE lines[r]
    BY <1>2 DEF LineRecorded, Recording, TypeOK
  <2> HIDE DEF q
  <2>2. /\ IsFiniteSet(lines[q] \cup {l})
        /\ Cardinality(lines[q] \cup {l}) \in Nat
        /\ Cardinality(lines[q] \cup {l}) <= events[q] + 1
    <3>1. IsFiniteSet(lines[q]) /\ Cardinality(lines[q]) <= events[q]
      BY <2>1 DEF Costs
    <3>2. Cardinality(lines[q]) \in Nat
      BY <3>1, FS_CardinalityType
    <3>3. /\ IsFiniteSet(lines[q] \cup {l})
          /\ \/ Cardinality(lines[q] \cup {l}) = Cardinality(lines[q])
             \/ Cardinality(lines[q] \cup {l}) = Cardinality(lines[q]) + 1
      BY <3>1, FS_AddElement
    <3> QED
      BY <2>1, <3>1, <3>2, <3>3
  <2>3. ASSUME NEW r \in Recs
        PROVE  /\ IsFiniteSet(lines'[r]) /\ Cardinality(lines'[r]) <= events'[r]
               /\ Cardinality(lines'[r]) <= Budget
               /\ cut'[r] <=> events'[r] > Budget
    <3>1. CASE r = q
      BY <2>1, <2>2, <3>1, BoundAssumption DEF Costs, BudgetKept
    <3>2. CASE r # q
      BY <2>1, <3>2 DEF Costs, BudgetKept
    <3> QED
      BY <3>1, <3>2
  <2> QED
    BY <2>3 DEF Costs, BudgetKept
<1>3. ASSUME NEW x \in Contexts, NEW l \in Lines, LineCut(x, l) PROVE Costs'
  <2> DEFINE q == cur[x]
  <2>1. /\ q \in Recs /\ events[q] \in Nat /\ events[q] >= Budget /\ lines' = lines
        /\ \A r \in Recs : /\ events'[r] = IF r = q THEN events[r] + 1 ELSE events[r]
                          /\ cut'[r] = IF r = q THEN TRUE ELSE cut[r]
    BY <1>3 DEF LineCut, Recording, TypeOK
  <2> HIDE DEF q
  <2>2. ASSUME NEW r \in Recs
        PROVE  /\ IsFiniteSet(lines'[r]) /\ Cardinality(lines'[r]) <= events'[r]
               /\ Cardinality(lines'[r]) <= Budget
               /\ cut'[r] <=> events'[r] > Budget
    <3>1. Cardinality(lines[r]) \in Nat
      BY <2>2, FS_CardinalityType DEF Costs
    <3>2. CASE r = q
      <4>1. /\ IsFiniteSet(lines[r]) /\ Cardinality(lines[r]) <= events[r]
            /\ Cardinality(lines[r]) <= Budget
        BY <2>2 DEF Costs, BudgetKept
      <4>2. /\ events[r] \in Nat /\ events[r] >= Budget
            /\ events'[r] = events[r] + 1 /\ cut'[r] = TRUE /\ lines'[r] = lines[r]
        BY <2>1, <2>2, <3>2
      <4>3. events'[r] > Budget /\ Cardinality(lines[r]) <= events'[r]
        BY <3>1, <4>1, <4>2, BoundAssumption
      <4> QED
        BY <4>1, <4>2, <4>3
    <3>3. CASE r # q
      BY <2>1, <3>3 DEF Costs, BudgetKept
    <3> QED
      BY <3>2, <3>3
  <2> QED
    BY <2>2 DEF Costs, BudgetKept
<1> QED
    BY <1>1, <1>2, <1>3 DEF Next, LineUnseen, begin, end, Spawn, vars

\* A record never holds more lines than the budget, and is marked cut exactly when the
\* budget was exceeded (_on_line).
THEOREM BudgetHolds == Spec => []BudgetKept
<1>1. Init => Costs
    BY FS_EmptySet, BoundAssumption DEF Init, Costs, BudgetKept
<1>2. IInv => TypeOK
    BY DEF IInv
<1>3. Costs => BudgetKept
    BY DEF Costs
<1> QED
    BY <1>1, <1>2, <1>3, CostsStep, Inductive, PTL DEF Spec

\* A line record that end() does not mark partial is complete.
THEOREM SummariesComplete == Spec => []CompleteUnlessPartial
<1>1. IInv => CompleteUnlessPartial
    BY DEF IInv
<1> QED
    BY <1>1, Inductive, PTL

\* Every line a cut disabled is re-armed by the next begin().
THEOREM DisabledIsRearmed == Spec => []DisabledIsDirty
<1>1. IInv => DisabledIsDirty
    BY DEF IInv
<1> QED
    BY <1>1, Inductive, PTL

\* Nothing is added to a summary after end() has returned it.
THEOREM SummariesFinal == Spec => SummaryIsFinal
<1> DEFINE Final == \A r \in Recs : stage[r] = "done" =>
                        lines'[r] = lines[r] /\ partial'[r] = partial[r] /\ stage'[r] = "done"
<1>1. IInv /\ [Next]_vars => [Final]_vars
  <2> SUFFICES ASSUME IInv, Next PROVE Final
    BY DEF Next
  <2> USE DEF IInv, TypeOK
  <2>1. ASSUME NEW x \in Contexts, NEW l \in Lines,
               LineUnseen(x, l) \/ LineRecorded(x, l) \/ LineCut(x, l)
        PROVE  Final
    BY <2>1 DEF LineUnseen, LineRecorded, LineCut, Recording
  <2>2. ASSUME NEW x \in Contexts, NEW r \in Recs, begin(x, r) \/ end(x, r) PROVE Final
    BY <2>2 DEF begin, end
  <2>3. ASSUME NEW x \in Contexts, NEW y \in Contexts, Spawn(x, y) PROVE Final
    BY <2>3 DEF Spawn
  <2> QED
    BY <2>1, <2>2, <2>3 DEF Next
<1> QED
    BY <1>1, Inductive, PTL DEF Spec, SummaryIsFinal

-----------------------------------------------------------------------------
(* SpanBuffer: the sequences.                                              *)

\* Python's q[:n] and what it leaves.
LEMMA FirstOf ==
    ASSUME NEW S, NEW q \in Seq(S), NEW n \in Nat
    PROVE  /\ First(q, n) \in Seq(S)
           /\ Len(First(q, n)) = IF n < Len(q) THEN n ELSE Len(q)
           /\ \A i \in 1..Len(First(q, n)) : First(q, n)[i] = q[i]
<1> DEFINE m == IF n < Len(q) THEN n ELSE Len(q)
<1>1. m \in Nat /\ m <= Len(q)
  BY LenProperties
<1>2. \A i \in 1..m : q[i] \in S
  BY <1>1, LenProperties
<1> HIDE DEF m
<1>3. First(q, n) = SubSeq(q, 1, m)
  BY DEF First, m
<1>4. /\ SubSeq(q, 1, m) \in Seq(S)
      /\ Len(SubSeq(q, 1, m)) = IF 1 <= m THEN m - 1 + 1 ELSE 0
      /\ \A i \in 1..(m - 1 + 1) : SubSeq(q, 1, m)[i] = q[1 + i - 1]
  BY <1>1, <1>2, SubSeqProperties
<1>5. Len(SubSeq(q, 1, m)) = m
  BY <1>1, <1>4
<1>6. QED
  BY <1>1, <1>3, <1>4, <1>5 DEF m

LEMMA RestOf ==
    ASSUME NEW S, NEW q \in Seq(S), NEW m \in 0..Len(q)
    PROVE  /\ SubSeq(q, m + 1, Len(q)) \in Seq(S)
           /\ Len(SubSeq(q, m + 1, Len(q))) = Len(q) - m
           /\ \A i \in 1..(Len(q) - m) : SubSeq(q, m + 1, Len(q))[i] = q[m + i]
<1>1. Len(q) \in Nat /\ \A i \in (m + 1)..Len(q) : q[i] \in S
  BY LenProperties
<1>2. /\ SubSeq(q, m + 1, Len(q)) \in Seq(S)
      /\ Len(SubSeq(q, m + 1, Len(q))) = IF m + 1 <= Len(q) THEN Len(q) - (m + 1) + 1 ELSE 0
      /\ \A i \in 1..(Len(q) - (m + 1) + 1) : SubSeq(q, m + 1, Len(q))[i] = q[m + 1 + i - 1]
  BY <1>1, SubSeqProperties
<1>3. QED
  BY <1>1, <1>2

LEMMA PushedOf ==
    ASSUME NEW S, NEW q \in Seq(S), NEW k, Capacity[k] \in Nat \ {0}, NEW item \in S
    PROVE  LET p    == Pushed(q, k, item)
               gone == IF Len(q) >= Capacity[k] THEN 1 ELSE 0
           IN  /\ p \in Seq(S)
               /\ Len(p) = Len(q) - gone + 1
               /\ \A i \in 1..(Len(q) - gone) : p[i] = q[gone + i]
               /\ p[Len(p)] = item
<1>1. CASE Len(q) >= Capacity[k]
  <2>1. q # <<>> /\ Len(q) \in Nat
    BY <1>1, EmptySeq, LenProperties
  <2>2. /\ Tail(q) \in Seq(S) /\ Len(Tail(q)) = Len(q) - 1
        /\ \A i \in 1..Len(Tail(q)) : Tail(q)[i] = q[i + 1]
    BY <2>1, HeadTailProperties
  <2>3. Pushed(q, k, item) = Append(Tail(q), item)
    BY <1>1 DEF Pushed
  <2> DEFINE p == Append(Tail(q), item)
  <2>4. /\ p \in Seq(S) /\ Len(p) = Len(Tail(q)) + 1
        /\ \A i \in 1..Len(Tail(q)) : p[i] = Tail(q)[i]
        /\ p[Len(Tail(q)) + 1] = item
    BY <2>2, AppendProperties
  <2> HIDE DEF p
  <2>5. Len(p) = Len(q) - 1 + 1 /\ p[Len(p)] = item /\ \A i \in 1..(Len(q) - 1) : p[i] = q[1 + i]
    BY <2>1, <2>2, <2>4
  <2>6. QED
    BY <1>1, <2>3, <2>4, <2>5 DEF p
<1>2. CASE ~(Len(q) >= Capacity[k])
  BY <1>2, LenProperties, AppendProperties DEF Pushed
<1>3. QED
  BY <1>1, <1>2

LEMMA ToSetOf ==
    ASSUME NEW S, NEW q \in Seq(S)
    PROVE  /\ ToSet(q) \subseteq S
           /\ \A x : x \in ToSet(q) <=> \E i \in 1..Len(q) : q[i] = x
BY LenProperties DEF ToSet

Increasing(q) == \A i, j \in 1..Len(q) : i < j => q[i] < q[j]

\* b before q, each in order.
Ordered(b, q) ==
    /\ Increasing(b) /\ Increasing(q)
    /\ \A i \in 1..Len(b), j \in 1..Len(q) : b[i] < q[j]

LEMMA ConcatOrdered ==
    ASSUME NEW b \in Seq(Nat), NEW q \in Seq(Nat)
    PROVE  Increasing(b \o q) <=> Ordered(b, q)
<1> DEFINE s == b \o q
<1>1. /\ Len(b) \in Nat /\ Len(q) \in Nat /\ Len(s) = Len(b) + Len(q)
      /\ \A i \in 1..Len(s) : s[i] = IF i <= Len(b) THEN b[i] ELSE q[i - Len(b)]
  BY ConcatProperties, LenProperties
<1>2a. ASSUME NEW i \in 1..Len(b) PROVE i \in 1..Len(s) /\ s[i] = b[i]
  BY <1>1
<1>2b. ASSUME NEW i \in 1..Len(q) PROVE Len(b) + i \in 1..Len(s) /\ s[Len(b) + i] = q[i]
  BY <1>1
<1> HIDE DEF s
<1>2. ASSUME Increasing(s) PROVE Ordered(b, q)
  <2>1. Increasing(b)
    BY <1>1, <1>2a, <1>2 DEF Increasing
  <2>2. ASSUME NEW i \in 1..Len(q), NEW j \in 1..Len(q), i < j PROVE q[i] < q[j]
    <3>1. Len(b) + i \in 1..Len(s) /\ Len(b) + j \in 1..Len(s) /\ Len(b) + i < Len(b) + j
      BY <1>1, <1>2b, <2>2
    <3>2. s[Len(b) + i] < s[Len(b) + j]
      BY <3>1, <1>2 DEF Increasing
    <3>3. QED
      BY <3>2, <1>2b
  <2>3. ASSUME NEW i \in 1..Len(b), NEW j \in 1..Len(q) PROVE b[i] < q[j]
    <3>1. i \in 1..Len(s) /\ Len(b) + j \in 1..Len(s) /\ i < Len(b) + j
      BY <1>1, <1>2a, <1>2b
    <3>2. s[i] < s[Len(b) + j]
      BY <3>1, <1>2 DEF Increasing
    <3>3. QED
      BY <3>2, <1>2a, <1>2b
  <2>4. QED
    BY <2>1, <2>2, <2>3 DEF Ordered, Increasing
<1>3. ASSUME Ordered(b, q) PROVE Increasing(s)
  <2> SUFFICES ASSUME NEW i \in 1..Len(s), NEW j \in 1..Len(s), i < j PROVE s[i] < s[j]
    BY DEF Increasing
  <2>0. /\ i \in Nat /\ j \in Nat /\ i >= 1 /\ j <= Len(b) + Len(q)
        /\ s[i] = (IF i <= Len(b) THEN b[i] ELSE q[i - Len(b)])
        /\ s[j] = (IF j <= Len(b) THEN b[j] ELSE q[j - Len(b)])
    BY <1>1
  <2>1. CASE j <= Len(b)
    BY <2>0, <1>1, <1>3, <2>1 DEF Ordered, Increasing
  <2>2. CASE i <= Len(b) /\ j > Len(b)
    <3>1. j - Len(b) \in 1..Len(q) /\ s[j] = q[j - Len(b)]
      BY <2>0, <1>1, <2>2
    <3>2. QED
      BY <2>0, <1>1, <1>3, <2>2, <3>1 DEF Ordered
  <2>3. CASE i > Len(b)
    <3>1. /\ j - Len(b) \in 1..Len(q) /\ s[j] = q[j - Len(b)]
          /\ i - Len(b) \in 1..Len(q) /\ s[i] = q[i - Len(b)]
          /\ i - Len(b) < j - Len(b)
      BY <2>0, <1>1, <2>3
    <3>2. QED
      BY <2>0, <1>1, <1>3, <3>1 DEF Ordered, Increasing
  <2>4. QED
    BY <2>0, <1>1, <2>1, <2>2, <2>3
<1>4. QED
  BY <1>2, <1>3 DEF s

-----------------------------------------------------------------------------
(* What the operations of the buffers do to the items and their order.     *)

LEMMA TakeFacts ==
    ASSUME NEW S, NEW q \in Seq(S), NEW n \in Nat
    PROVE  LET p == First(q, n)
               r == SubSeq(q, Len(p) + 1, Len(q))
           IN  /\ p \in Seq(S) /\ r \in Seq(S) /\ Len(p) <= n /\ Len(r) <= Len(q)
               /\ ToSet(p) \cup ToSet(r) = ToSet(q)
               /\ S \subseteq Nat /\ Increasing(q) => Ordered(p, r)
<1> DEFINE p == First(q, n)
           m == Len(p)
           r == SubSeq(q, m + 1, Len(q))
<1>1. /\ Len(q) \in Nat /\ p \in Seq(S) /\ m \in Nat /\ m <= n /\ m <= Len(q)
      /\ \A i \in 1..m : p[i] = q[i]
  BY FirstOf, LenProperties
<1>2. m \in 0..Len(q)
  BY <1>1
<1>3. /\ r \in Seq(S) /\ Len(r) = Len(q) - m
      /\ \A i \in 1..(Len(q) - m) : r[i] = q[m + i]
  BY <1>2, RestOf
<1> HIDE DEF p, r, m
<1>4. ToSet(p) \cup ToSet(r) = ToSet(q)
  <2>1. ASSUME NEW x \in ToSet(p) \cup ToSet(r) PROVE x \in ToSet(q)
    <3>1. CASE x \in ToSet(p)
      <4>1. PICK i \in 1..m : p[i] = x
        BY <3>1, <1>1, ToSetOf DEF m
      <4>2. i \in 1..Len(q) /\ q[i] = x
        BY <4>1, <1>1
      <4>3. QED
        BY <4>2, ToSetOf
    <3>2. CASE x \in ToSet(r)
      <4>1. PICK i \in 1..(Len(q) - m) : r[i] = x
        BY <3>2, <1>3, ToSetOf
      <4>2. m + i \in 1..Len(q) /\ q[m + i] = x
        BY <4>1, <1>1, <1>3
      <4>3. QED
        BY <4>2, ToSetOf
    <3>3. QED
      BY <2>1, <3>1, <3>2
  <2>2. ASSUME NEW x \in ToSet(q) PROVE x \in ToSet(p) \cup ToSet(r)
    <3>1. PICK i \in 1..Len(q) : q[i] = x
      BY <2>2, ToSetOf
    <3>2. CASE i <= m
      <4>1. i \in 1..Len(p) /\ p[i] = x
        BY <3>1, <3>2, <1>1 DEF m
      <4>2. QED
        BY <4>1, <1>1, ToSetOf
    <3>3. CASE i > m
      <4>1. i - m \in 1..Len(r) /\ i - m \in 1..(Len(q) - m) /\ m + (i - m) = i
        BY <3>1, <3>3, <1>1, <1>3
      <4>2. r[i - m] = q[m + (i - m)]
        BY <4>1, <1>3
      <4>3. QED
        BY <3>1, <4>1, <4>2, <1>3, ToSetOf
    <3>4. QED
      BY <3>1, <3>2, <3>3, <1>1
  <2>3. QED
    BY <2>1, <2>2
<1>5. ASSUME S \subseteq Nat, Increasing(q) PROVE Ordered(p, r)
  <2>1. Increasing(p)
    BY <1>1, <1>5 DEF Increasing, m
  <2>2. Increasing(r)
    <3> SUFFICES ASSUME NEW i \in 1..(Len(q) - m), NEW j \in 1..(Len(q) - m), i < j
                 PROVE  r[i] < r[j]
      BY <1>3 DEF Increasing
    <3>1. m + i \in 1..Len(q) /\ m + j \in 1..Len(q) /\ m + i < m + j
      BY <1>1
    <3>2. q[m + i] < q[m + j]
      BY <3>1, <1>5 DEF Increasing
    <3>3. QED
      BY <3>2, <1>3
  <2>3. ASSUME NEW i \in 1..m, NEW j \in 1..(Len(q) - m) PROVE p[i] < r[j]
    <3>1. i \in 1..Len(q) /\ m + j \in 1..Len(q) /\ i < m + j
      BY <1>1
    <3>2. q[i] < q[m + j]
      BY <3>1, <1>5 DEF Increasing
    <3>3. QED
      BY <3>2, <1>1, <1>3
  <2>4. QED
    BY <2>1, <2>2, <2>3, <1>3 DEF Ordered, m
<1>6. QED
  BY <1>1, <1>3, <1>4, <1>5 DEF p, r, m

LEMMA ReturnFacts ==
    ASSUME NEW S, NEW b \in Seq(S), NEW q \in Seq(S), NEW n \in Nat
    PROVE  LET s == First(b, n) \o q
           IN  /\ s \in Seq(S)
               /\ Len(s) = (IF n < Len(b) THEN n ELSE Len(b)) + Len(q)
               /\ ToSet(s) \subseteq ToSet(b) \cup ToSet(q)
               /\ Len(b) <= n => ToSet(s) = ToSet(b) \cup ToSet(q)
               /\ S \subseteq Nat /\ Ordered(b, q) => Increasing(s)
<1> DEFINE p == First(b, n)
           s == p \o q
<1>1. /\ Len(b) \in Nat /\ Len(q) \in Nat /\ p \in Seq(S)
      /\ Len(p) = IF n < Len(b) THEN n ELSE Len(b)
      /\ \A i \in 1..Len(p) : p[i] = b[i]
  BY FirstOf, LenProperties
<1> HIDE DEF p
<1>2. /\ s \in Seq(S) /\ Len(s) = Len(p) + Len(q)
      /\ \A i \in 1..(Len(p) + Len(q)) : s[i] = IF i <= Len(p) THEN p[i] ELSE q[i - Len(p)]
  BY <1>1, ConcatProperties
<1>3. ToSet(s) = ToSet(p) \cup ToSet(q)
  <2> HIDE DEF s
  <2>1. ASSUME NEW x \in ToSet(s) PROVE x \in ToSet(p) \cup ToSet(q)
    <3>1. PICK i \in 1..(Len(p) + Len(q)) : s[i] = x
      BY <2>1, <1>2, ToSetOf
    <3>2. CASE i <= Len(p)
      <4>0. s[i] = IF i <= Len(p) THEN p[i] ELSE q[i - Len(p)]
        BY <3>1, <1>2
      <4>1. i \in 1..Len(p) /\ p[i] = x
        BY <4>0, <3>1, <3>2, <1>1
      <4>2. QED
        BY <4>1, <1>1, ToSetOf
    <3>3. CASE i > Len(p)
      <4>0. s[i] = IF i <= Len(p) THEN p[i] ELSE q[i - Len(p)]
        BY <3>1, <1>2
      <4>1. i - Len(p) \in 1..Len(q) /\ q[i - Len(p)] = x
        BY <4>0, <3>1, <3>3, <1>1
      <4>2. \E j \in 1..Len(q) : q[j] = x
        BY <4>1
      <4>3. QED
        BY <4>2, ToSetOf
    <3>4. QED
      BY <3>1, <3>2, <3>3, <1>1
  <2>2. ASSUME NEW x \in ToSet(p) PROVE x \in ToSet(s)
    <3>1. PICK i \in 1..Len(p) : p[i] = x
      BY <2>2, <1>1, ToSetOf
    <3>2. i \in 1..Len(s) /\ s[i] = x
      BY <3>1, <1>1, <1>2
    <3>3. QED
      BY <3>2, <1>2, ToSetOf
  <2>3. ASSUME NEW x \in ToSet(q) PROVE x \in ToSet(s)
    <3>1. PICK i \in 1..Len(q) : q[i] = x
      BY <2>3, ToSetOf
    <3>2. /\ Len(p) + i \in 1..(Len(p) + Len(q)) /\ ~(Len(p) + i <= Len(p))
          /\ (Len(p) + i) - Len(p) = i
      BY <3>1, <1>1
    <3>3. Len(p) + i \in 1..Len(s) /\ s[Len(p) + i] = x
      BY <3>1, <3>2, <1>2
    <3>4. QED
      BY <3>3, <1>2, ToSetOf
  <2>4. QED
    BY <2>1, <2>2, <2>3
<1>4. ToSet(p) \subseteq ToSet(b)
  <2> SUFFICES ASSUME NEW x \in ToSet(p) PROVE x \in ToSet(b)
    OBVIOUS
  <2>1. PICK i \in 1..Len(p) : p[i] = x
    BY <1>1, ToSetOf
  <2>2. i \in 1..Len(b) /\ b[i] = x
    BY <2>1, <1>1
  <2>3. QED
    BY <2>2, ToSetOf
<1>5. ASSUME Len(b) <= n PROVE ToSet(b) \subseteq ToSet(p)
  <2> SUFFICES ASSUME NEW x \in ToSet(b) PROVE x \in ToSet(p)
    OBVIOUS
  <2>1. PICK i \in 1..Len(b) : b[i] = x
    BY ToSetOf
  <2>2. i \in 1..Len(p) /\ p[i] = x
    BY <2>1, <1>1, <1>5
  <2>3. QED
    BY <2>2, <1>1, ToSetOf
<1>6. ASSUME S \subseteq Nat, Ordered(b, q) PROVE Increasing(s)
  <2>1. Ordered(p, q)
    BY <1>1, <1>6 DEF Ordered, Increasing
  <2>2. p \in Seq(Nat) /\ q \in Seq(Nat)
    BY <1>1, <1>6, SeqMonotonic
  <2>3. QED
    BY <2>1, <2>2, ConcatOrdered
<1>7. QED
  BY <1>1, <1>2, <1>3, <1>4, <1>5, <1>6 DEF p

LEMMA PushFacts ==
    ASSUME NEW S, NEW q \in Seq(S), NEW k, Capacity[k] \in Nat \ {0}, NEW item \in S
    PROVE  LET p == Pushed(q, k, item)
           IN  /\ p \in Seq(S)
               /\ Len(p) = IF Len(q) >= Capacity[k] THEN Len(q) ELSE Len(q) + 1
               /\ ToSet(p) \subseteq ToSet(q) \cup {item}
               /\ Len(q) < Capacity[k] => ToSet(p) = ToSet(q) \cup {item}
               /\ S \subseteq Nat => \A b \in Seq(S) :
                      /\ Ordered(b, q)
                      /\ \A i \in 1..Len(q) : q[i] < item
                      /\ \A i \in 1..Len(b) : b[i] < item
                      => Ordered(b, p)
<1> DEFINE p == Pushed(q, k, item)
           g == IF Len(q) >= Capacity[k] THEN 1 ELSE 0
<1>1. /\ Len(q) \in Nat /\ p \in Seq(S) /\ Len(p) = Len(q) - g + 1
      /\ \A i \in 1..(Len(q) - g) : p[i] = q[g + i]
      /\ p[Len(p)] = item
  BY PushedOf, LenProperties
<1>2. g \in 0..1 /\ g <= Len(q) /\ (Len(q) < Capacity[k] => g = 0)
  BY <1>1
<1>3. Len(p) = IF Len(q) >= Capacity[k] THEN Len(q) ELSE Len(q) + 1
  BY <1>1
<1> HIDE DEF p, g
<1>4. ASSUME NEW i \in 1..Len(p)
      PROVE  \/ i = Len(p) /\ p[i] = item
             \/ i \in 1..(Len(q) - g) /\ g + i \in 1..Len(q) /\ p[i] = q[g + i]
  BY <1>1, <1>2
<1>5. ToSet(p) \subseteq ToSet(q) \cup {item}
  <2> SUFFICES ASSUME NEW x \in ToSet(p) PROVE x \in ToSet(q) \cup {item}
    OBVIOUS
  <2>1. PICK i \in 1..Len(p) : p[i] = x
    BY <1>1, ToSetOf
  <2>2. QED
    BY <2>1, <1>4, ToSetOf
<1>6. ASSUME Len(q) < Capacity[k] PROVE ToSet(q) \cup {item} \subseteq ToSet(p)
  <2>1. Len(p) \in 1..Len(p)
    BY <1>1, <1>2
  <2>2. item \in ToSet(p)
    BY <1>1, <2>1, ToSetOf
  <2>3. ASSUME NEW x \in ToSet(q) PROVE x \in ToSet(p)
    <3>1. PICK i \in 1..Len(q) : q[i] = x
      BY <2>3, ToSetOf
    <3>2. i \in 1..Len(p) /\ p[i] = x
      BY <3>1, <1>1, <1>2, <1>6
    <3>3. QED
      BY <3>2, <1>1, ToSetOf
  <2>4. QED
    BY <2>2, <2>3
<1>7. ASSUME S \subseteq Nat, NEW b \in Seq(S), Ordered(b, q),
             \A i \in 1..Len(q) : q[i] < item, \A i \in 1..Len(b) : b[i] < item
      PROVE  Ordered(b, p)
  <2>1. ASSUME NEW i \in 1..Len(p), NEW j \in 1..Len(p), i < j PROVE p[i] < p[j]
    <3>1. i \in 1..(Len(q) - g) /\ g + i \in 1..Len(q) /\ p[i] = q[g + i]
      BY <1>1, <1>4, <2>1
    <3>2. CASE p[j] = item
      BY <3>1, <3>2, <1>7
    <3>3. CASE j \in 1..(Len(q) - g) /\ g + j \in 1..Len(q) /\ p[j] = q[g + j]
      <4>1. g + i < g + j
        BY <2>1, <1>2
      <4>2. QED
        BY <3>1, <3>3, <4>1, <1>7 DEF Ordered, Increasing
    <3>4. QED
      BY <3>2, <3>3, <1>4
  <2>2. ASSUME NEW i \in 1..Len(b), NEW j \in 1..Len(p) PROVE b[i] < p[j]
    BY <1>4, <1>7 DEF Ordered
  <2>3. QED
    BY <2>1, <2>2, <1>7 DEF Ordered, Increasing
<1>8. QED
  BY <1>1, <1>3, <1>5, <1>6, <1>7 DEF p

-----------------------------------------------------------------------------
(* The invariant.                                                          *)

\* Tasks that are not writing hold nothing; the final flush waits for the shutdown.
Resting ==
    /\ \A f \in Tasks : pc[f] # "writing" => batch[f] = Nothing /\ met[f] = {} /\ ~applied[f]
    /\ running => pc["final"] = "idle"

\* Items are numbered as they are added; drops are items.
Numbered ==
    /\ \A k \in Kinds : Held(k) \cup stored[k] \subseteq 1..added[k]
    /\ dropped + reported <= added["spans"]

\* db-v3 has what it took.
TakenIsStored == \A f \in Tasks : applied[f] => \A k \in Kinds : ToSet(batch[f][k]) \subseteq stored[k]

\* Queue and batches are functions, which BufferTypeOK leaves open.
Shapes == queue \in [Kinds -> Seq(Items)] /\ batch \in [Tasks -> [Kinds -> Seq(Items)]]

\* InOrder, for the one batch and the queue apart.
InLine == running => \A k \in Kinds : Ordered(batch["loop"][k], queue[k])

BufferInv == /\ BufferTypeOK /\ Shapes
             /\ Resting /\ Numbered /\ TakenIsStored
             /\ InLine /\ OldestFirst

LEMMA KindFacts ==
    ASSUME NEW k \in Kinds
    PROVE  Capacity[k] \in Nat \ {0} /\ BatchSize[k] \in Nat \ {0} /\ Nothing[k] = <<>>
BY SizeAssumption DEF Kinds, Capacity, BatchSize, Nothing

LEMMA ItemFacts == MaxAdded \in Nat /\ Items \subseteq Nat
BY SizeAssumption DEF Items

LEMMA EmptyItems == ToSet(<<>>) = {}
<1>1. <<>> \in Seq(Nat) /\ Len(<<>>) = 0
  BY EmptySeq
<1>2. \A x : x \in ToSet(<<>>) <=> \E i \in 1..Len(<<>>) : <<>>[i] = x
  BY <1>1, ToSetOf
<1>3. 1..Len(<<>>) = {}
  BY <1>1
<1>4. QED
  BY <1>2, <1>3

LEMMA EmptyOrdered ==
    /\ Ordered(<<>>, <<>>)
    /\ \A q \in Seq(Nat) : Increasing(q) => Ordered(<<>>, q)
BY EmptySeq DEF Ordered, Increasing

LEMMA InitBufferInv == BufferInit => BufferInv
<1> SUFFICES ASSUME BufferInit PROVE BufferInv
  OBVIOUS
<1>1. Shapes
  BY EmptySeq DEF BufferInit, Shapes, Nothing
<1>2. \A k \in Kinds : queue[k] = <<>> /\ \A f \in Tasks : batch[f][k] = <<>>
  BY DEF BufferInit, Nothing
<1>3. BufferTypeOK
  BY <1>1, <1>2, EmptySeq, KindFacts, ItemFacts DEF BufferInit, BufferTypeOK, Shapes
<1>4. \A k \in Kinds : Held(k) = {}
  BY <1>2, EmptyItems DEF Held
<1>5. Resting /\ TakenIsStored
  BY DEF BufferInit, Resting, TakenIsStored, Tasks
<1>6. Numbered /\ OldestFirst
  BY <1>4 DEF BufferInit, Numbered, OldestFirst, Kinds
<1>7. InLine
  BY <1>2, EmptyOrdered DEF InLine, Tasks
<1>8. QED
  BY <1>1, <1>3, <1>5, <1>6, <1>7 DEF BufferInv

\* Only new items come to be held: what db-v3 has stays the oldest.
LEMMA HeldShrinks ==
    ASSUME BufferInv, stored' = stored, running' => running,
           \A k \in Kinds : added'[k] \in 0..MaxAdded /\ added[k] <= added'[k],
           \A k \in Kinds : Held(k)' \subseteq Held(k) \cup ((added[k] + 1)..added'[k]),
           dropped' + reported' <= added'["spans"]
    PROVE  Numbered' /\ OldestFirst'
<1>1. \A k \in Kinds : added[k] \in Nat
  BY ItemFacts DEF BufferInv, BufferTypeOK
<1>2. ASSUME NEW k \in Kinds PROVE Held(k)' \cup stored'[k] \subseteq 1..added'[k]
  BY <1>1, <1>2, ItemFacts DEF BufferInv, Numbered
<1>3. ASSUME running', NEW k \in Kinds, NEW n \in Held(k)', NEW m \in stored[k], n < m
      PROVE  n \in stored[k]
  <2>1. m \in 1..added[k]
    BY DEF BufferInv, Numbered
  <2>2. n \in Held(k)
    BY <1>1, <1>3, <2>1
  <2>3. QED
    BY <1>3, <2>2 DEF BufferInv, OldestFirst
<1>4. QED
  BY <1>2, <1>3 DEF Numbered, OldestFirst

\* A task takes its next batch; the one it had, if any, is with db-v3.
LEMMA TakeStep ==
    ASSUME BufferInv, NEW f \in Tasks, running => f = "loop", f = "final" => ~running, NextBatch(f),
           applied' = [applied EXCEPT ![f] = FALSE], UNCHANGED <<running, db, stored>>
    PROVE  BufferInv'
<1> USE DEF BufferInv
<1>1. ASSUME NEW k \in Kinds
      PROVE  /\ queue'[k] = Rest(k) /\ batch'[f][k] = Prefix(k)
             /\ Rest(k) \in Seq(Items) /\ Prefix(k) \in Seq(Items)
             /\ Len(Prefix(k)) <= BatchSize[k] /\ Len(Rest(k)) <= Capacity[k]
             /\ ToSet(Prefix(k)) \cup ToSet(Rest(k)) = ToSet(queue[k])
             /\ Increasing(queue[k]) => Ordered(Prefix(k), Rest(k))
  <2>1. queue[k] \in Seq(Items) /\ BatchSize[k] \in Nat /\ Len(queue[k]) <= Capacity[k]
    BY KindFacts DEF Shapes, BufferTypeOK
  <2>2. /\ Prefix(k) \in Seq(Items) /\ Rest(k) \in Seq(Items) /\ Len(Prefix(k)) <= BatchSize[k]
        /\ Len(Rest(k)) <= Len(queue[k])
        /\ ToSet(Prefix(k)) \cup ToSet(Rest(k)) = ToSet(queue[k])
        /\ Increasing(queue[k]) => Ordered(Prefix(k), Rest(k))
    BY <2>1, ItemFacts, TakeFacts DEF Prefix, Rest
  <2>3. Len(Rest(k)) \in Nat /\ Len(queue[k]) \in Nat /\ Capacity[k] \in Nat
    BY <2>1, <2>2, LenProperties, KindFacts
  <2>4. queue'[k] = Rest(k) /\ batch'[f][k] = Prefix(k)
    BY DEF NextBatch, Shapes
  <2>5. QED
    BY <2>1, <2>2, <2>3, <2>4
<1>2. \A g \in Tasks \ {f} : batch'[g] = batch[g] /\ met'[g] = met[g] /\ pc'[g] = pc[g] /\ applied'[g] = applied[g]
  BY DEF NextBatch, Shapes, BufferTypeOK
<1>3. pc'[f] = "writing" /\ applied'[f] = FALSE
  BY DEF NextBatch, BufferTypeOK
<1>4. Shapes'
  <2>1. queue' \in [Kinds -> Seq(Items)]
    BY <1>1 DEF NextBatch
  <2>2. [k \in Kinds |-> Prefix(k)] \in [Kinds -> Seq(Items)]
    BY <1>1
  <2>3. batch' \in [Tasks -> [Kinds -> Seq(Items)]]
    BY <2>2 DEF NextBatch, Shapes
  <2>4. QED
    BY <2>1, <2>3 DEF Shapes
<1>5. BufferTypeOK'
  <2>1. \A g \in Tasks, k \in Kinds : batch'[g][k] \in Seq(Items) /\ Len(batch'[g][k]) <= BatchSize[k]
    BY <1>1, <1>2 DEF BufferTypeOK
  <2>2. met' \in [Tasks -> SUBSET {"up", "down"}] /\ pc' \in [Tasks -> {"idle", "writing", "done"}]
    BY DEF NextBatch, BufferTypeOK
  <2>3. applied' \in [Tasks -> BOOLEAN]
    BY DEF BufferTypeOK
  <2>4. \A k \in Kinds : queue'[k] \in Seq(Items) /\ Len(queue'[k]) <= Capacity[k]
    BY <1>1
  <2>5. UNCHANGED <<dropped, running, db, added, stored, reported>>
    BY DEF NextBatch
  <2>6. QED
    BY <2>1, <2>2, <2>3, <2>4, <2>5 DEF BufferTypeOK
<1>6. Resting'
  BY <1>2, <1>3 DEF Resting, Tasks
<1>7. TakenIsStored'
  BY <1>2, <1>3 DEF TakenIsStored
<1>8. Numbered' /\ OldestFirst'
  <2>1. \A k \in Kinds : Held(k)' \subseteq Held(k)
    BY <1>1, <1>2 DEF Held
  <2>2. \A k \in Kinds : added'[k] = added[k] /\ added[k] \in 0..MaxAdded
    BY DEF NextBatch, BufferTypeOK
  <2>3. dropped' + reported' <= added'["spans"]
    BY DEF NextBatch, Numbered
  <2>4. \A k \in Kinds : added[k] <= added'[k] /\ added'[k] \in 0..MaxAdded
    BY <2>2, ItemFacts
  <2>5. QED
    BY <2>1, <2>3, <2>4, HeldShrinks
<1>9. InLine'
  BY <1>1 DEF InLine, Ordered
<1>10. QED
  BY <1>4, <1>5, <1>6, <1>7, <1>8, <1>9

\* A task has nothing to write any more; what it had is with db-v3, lost, or back in the queue.
LEMMA LeaveStep ==
    ASSUME BufferInv, NEW f \in Tasks, running => f = "loop", Leave(f),
           applied' = [applied EXCEPT ![f] = FALSE], UNCHANGED <<running, db, stored>>,
           queue' \in [Kinds -> Seq(Items)], added' \in [Kinds -> 0..MaxAdded],
           \A k \in Kinds :
              /\ Len(queue'[k]) <= Capacity[k]
              /\ added[k] <= added'[k]
              /\ ToSet(queue'[k]) \subseteq
                     ToSet(queue[k]) \cup ToSet(batch[f][k]) \cup ((added[k] + 1)..added'[k])
              /\ running => Increasing(queue'[k])
    PROVE  BufferInv'
<1> USE DEF BufferInv
<1>1. \A g \in Tasks \ {f} : batch'[g] = batch[g] /\ met'[g] = met[g] /\ pc'[g] = pc[g] /\ applied'[g] = applied[g]
  BY DEF Leave, Shapes, BufferTypeOK
<1>2. batch'[f] = Nothing /\ met'[f] = {} /\ applied'[f] = FALSE /\ (f = "loop" => pc'[f] = "idle")
  BY DEF Leave, Shapes, BufferTypeOK
<1>3. Nothing \in [Kinds -> Seq(Items)] /\ \A k \in Kinds : Nothing[k] = <<>> /\ Len(<<>>) <= BatchSize[k]
  BY EmptySeq, KindFacts DEF Nothing
<1>4. Shapes'
  BY <1>3 DEF Leave, Shapes
<1>5. BufferTypeOK'
  <2>1. \A g \in Tasks, k \in Kinds : batch'[g][k] \in Seq(Items) /\ Len(batch'[g][k]) <= BatchSize[k]
    BY <1>1, <1>2, <1>3, EmptySeq DEF BufferTypeOK
  <2>2. met' \in [Tasks -> SUBSET {"up", "down"}] /\ pc' \in [Tasks -> {"idle", "writing", "done"}]
    BY DEF Leave, BufferTypeOK
  <2>3. applied' \in [Tasks -> BOOLEAN]
    BY DEF BufferTypeOK
  <2>4. dropped' = 0 /\ reported' \in 0..MaxAdded
    BY ItemFacts DEF Leave, BufferTypeOK, Numbered, Kinds
  <2>5. QED
    BY <2>1, <2>2, <2>3, <2>4, ItemFacts DEF BufferTypeOK
<1>6. Resting'
  BY <1>1, <1>2 DEF Resting, Tasks
<1>7. TakenIsStored'
  BY <1>1, <1>2 DEF TakenIsStored
<1>8. Numbered' /\ OldestFirst'
  <2>1. \A k \in Kinds : Held(k)' \subseteq Held(k) \cup ((added[k] + 1)..added'[k])
    BY <1>1, <1>2, <1>3, EmptyItems DEF Held
  <2>2. dropped' + reported' <= added'["spans"]
    BY ItemFacts DEF Leave, BufferTypeOK, Numbered, Kinds
  <2>3. QED
    BY <2>1, <2>2, HeldShrinks
<1>9. InLine'
  <2> SUFFICES ASSUME running, NEW k \in Kinds PROVE Ordered(batch'["loop"][k], queue'[k])
    BY DEF InLine
  <2>1. batch'["loop"][k] = <<>>
    BY <1>2, <1>3
  <2>2. queue'[k] \in Seq(Nat) /\ Increasing(queue'[k])
    BY ItemFacts, SeqMonotonic
  <2>3. QED
    BY <2>1, <2>2, EmptyOrdered
<1>10. QED
  BY <1>4, <1>5, <1>6, <1>7, <1>8, <1>9

LEMMA AddStep ==
    ASSUME BufferInv, NEW k0 \in Kinds, Add(k0)
    PROVE  BufferInv'
<1> USE DEF BufferInv
<1> DEFINE item == added[k0] + 1
<1>1. item \in Items /\ item \in Nat /\ added[k0] \in Nat /\ added'[k0] = item
  BY ItemFacts DEF Add, BufferTypeOK, Items
<1>2. /\ queue'[k0] = Pushed(queue[k0], k0, item)
      /\ \A k \in Kinds \ {k0} : queue'[k] = queue[k] /\ added'[k] = added[k]
      /\ \A k \in Kinds : added'[k] \in 0..MaxAdded /\ added[k] <= added'[k]
      /\ added' \in [Kinds -> 0..MaxAdded]
  BY <1>1, ItemFacts DEF Add, Shapes, BufferTypeOK
<1>3. queue[k0] \in Seq(Items) /\ Len(queue[k0]) \in Nat /\ Len(queue[k0]) <= Capacity[k0] /\ Capacity[k0] \in Nat \ {0}
  BY KindFacts, LenProperties DEF Shapes, BufferTypeOK
<1> HIDE DEF item
<1>4. /\ queue'[k0] \in Seq(Items) /\ Len(queue'[k0]) <= Capacity[k0]
      /\ ToSet(queue'[k0]) \subseteq ToSet(queue[k0]) \cup {item}
      /\ \A b \in Seq(Items) :
             /\ Ordered(b, queue[k0])
             /\ \A i \in 1..Len(queue[k0]) : queue[k0][i] < item
             /\ \A i \in 1..Len(b) : b[i] < item
             => Ordered(b, queue'[k0])
  <2> DEFINE q == queue[k0]
             p == Pushed(q, k0, item)
  <2>1. q \in Seq(Items) /\ Capacity[k0] \in Nat \ {0}
    BY <1>3
  <2> HIDE DEF q
  <2>a. p \in Seq(Items)
    BY <2>1, <1>1, PushFacts
  <2>b. Len(p) = IF Len(q) >= Capacity[k0] THEN Len(q) ELSE Len(q) + 1
    BY <2>1, <1>1, PushFacts
  <2>c. ToSet(p) \subseteq ToSet(q) \cup {item}
    BY <2>1, <1>1, PushFacts
  <2>d. ASSUME NEW b \in Seq(Items), Ordered(b, q),
               \A i \in 1..Len(q) : q[i] < item, \A i \in 1..Len(b) : b[i] < item
        PROVE  Ordered(b, p)
    BY <2>1, <1>1, <2>d, ItemFacts, PushFacts
  <2> HIDE DEF p
  <2>3. Len(p) <= Capacity[k0]
    BY <2>b, <1>3 DEF q
  <2>4. queue'[k0] = p
    BY <1>2 DEF p, q
  <2>5. QED
    BY <2>a, <2>c, <2>d, <2>3, <2>4 DEF q
<1>5. Shapes'
  BY <1>4 DEF Shapes, Add
<1>6. dropped' + reported' <= added'["spans"] /\ dropped' \in 0..MaxAdded
  BY <1>1, <1>2, ItemFacts DEF Add, Numbered, BufferTypeOK, Kinds
<1>7. BufferTypeOK'
  <2>1. \A k \in Kinds : queue'[k] \in Seq(Items) /\ Len(queue'[k]) <= Capacity[k]
    BY <1>2, <1>4 DEF BufferTypeOK
  <2>2. QED
    BY <2>1, <1>2, <1>6 DEF BufferTypeOK, Add
<1>8. Resting' /\ TakenIsStored'
  BY DEF Add, Resting, TakenIsStored
<1>9. Numbered' /\ OldestFirst'
  <2>1. \A k \in Kinds : ToSet(queue'[k]) \subseteq ToSet(queue[k]) \cup ((added[k] + 1)..added'[k])
    BY <1>1, <1>2, <1>4 DEF item
  <2>2. \A k \in Kinds : Held(k)' \subseteq Held(k) \cup ((added[k] + 1)..added'[k])
    BY <2>1 DEF Held, Add
  <2>3. stored' = stored /\ running' = running
    BY DEF Add
  <2>4. QED
    BY <1>2, <1>6, <2>2, <2>3, HeldShrinks
<1>10. InLine'
  <2> SUFFICES ASSUME running, NEW k \in Kinds PROVE Ordered(batch["loop"][k], queue'[k])
    BY DEF InLine, Add
  <2>1. CASE k # k0
    BY <2>1, <1>2 DEF InLine
  <2>2. CASE k = k0
    <3>1. batch["loop"][k0] \in Seq(Items) /\ Ordered(batch["loop"][k0], queue[k0])
      BY <2>2 DEF InLine, Shapes, Tasks
    <3>2. \A x \in Held(k0) : x < item
      BY <1>1 DEF Numbered, item
    <3>3. ToSet(queue[k0]) \subseteq Held(k0) /\ ToSet(batch["loop"][k0]) \subseteq Held(k0)
      BY DEF Held, Tasks
    <3>4. \A i \in 1..Len(queue[k0]) : queue[k0][i] < item
      BY <1>3, <3>2, <3>3, ToSetOf
    <3>5. \A i \in 1..Len(batch["loop"][k0]) : batch["loop"][k0][i] < item
      BY <3>1, <3>2, <3>3, ToSetOf
    <3>6. QED
      BY <1>4, <2>2, <3>1, <3>4, <3>5
  <2>3. QED
    BY <2>1, <2>2
<1>11. QED
  BY <1>5, <1>7, <1>8, <1>9, <1>10

\* The test of the loop, by a task that has written nothing or what db-v3 has taken.
LEMMA RoundStep ==
    ASSUME BufferInv, NEW f \in Tasks, f = "final" => ~running, Round(f),
           applied' = [applied EXCEPT ![f] = FALSE], UNCHANGED <<running, db, stored>>
    PROVE  BufferInv'
<1>1. running => f = "loop"
  BY DEF Tasks
<1>2. CASE NextBatch(f)
  BY <1>1, <1>2, TakeStep
<1>3. CASE queue = Nothing /\ Leave(f) /\ UNCHANGED <<queue, added>>
  <2>1. queue' \in [Kinds -> Seq(Items)] /\ added' \in [Kinds -> 0..MaxAdded]
    BY <1>3 DEF BufferInv, Shapes, BufferTypeOK
  <2>2. \A k \in Kinds : queue'[k] = <<>> /\ queue[k] = <<>> /\ added'[k] = added[k] /\ added[k] \in Nat
    BY <1>3, ItemFacts DEF Nothing, BufferInv, BufferTypeOK
  <2>3. \A k \in Kinds : /\ Len(queue'[k]) <= Capacity[k] /\ added[k] <= added'[k]
                         /\ ToSet(queue'[k]) \subseteq
                                ToSet(queue[k]) \cup ToSet(batch[f][k]) \cup ((added[k] + 1)..added'[k])
                         /\ Increasing(queue'[k])
    BY <2>2, EmptySeq, KindFacts DEF Increasing
  <2>4. QED
    BY <1>1, <1>3, <2>1, <2>3, LeaveStep
<1>4. QED
  BY <1>2, <1>3 DEF Round

LEMMA FlushStep ==
    ASSUME BufferInv, NEW f \in Tasks, Flush(f)
    PROVE  BufferInv'
<1>1. applied' = [applied EXCEPT ![f] = FALSE]
  BY DEF Flush, BufferInv, Resting, BufferTypeOK
<1>2. QED
  BY <1>1, RoundStep DEF Flush

LEMMA AcknowledgedStep ==
    ASSUME BufferInv, NEW f \in Tasks, Acknowledged(f)
    PROVE  BufferInv'
<1>1. f = "final" => ~running
  BY DEF Acknowledged, BufferInv, Resting, Tasks
<1>2. QED
  BY <1>1, RoundStep DEF Acknowledged

\* db-v3 takes a batch: the oldest items that the gateway holds.
LEMMA ApplyStep ==
    ASSUME BufferInv, NEW f \in Tasks, Apply(f)
    PROVE  BufferInv'
<1> USE DEF BufferInv
<1>1. \A k \in Kinds : stored'[k] = stored[k] \cup ToSet(batch[f][k])
  BY DEF Apply
<1>2. running => f = "loop" /\ batch["final"] = Nothing
  BY DEF Apply, Resting, Tasks
<1>3. \A k \in Kinds : ToSet(batch[f][k]) \subseteq Items /\ ToSet(batch[f][k]) \subseteq Held(k)
  BY ToSetOf DEF Shapes, Held
<1>4. stored' \in [Kinds -> SUBSET Items]
  BY <1>3 DEF Apply, BufferTypeOK
<1>5. BufferTypeOK' /\ Shapes'
  BY <1>4 DEF Apply, BufferTypeOK, Shapes
<1>6. Resting' /\ TakenIsStored'
  BY <1>1 DEF Apply, Resting, TakenIsStored, BufferTypeOK
<1>7. \A k \in Kinds : Held(k)' = Held(k)
  BY DEF Apply, Held
<1>8. Numbered'
  BY <1>1, <1>3, <1>7 DEF Apply, Numbered
<1>9. InLine'
  BY DEF Apply, InLine
<1>10. ASSUME running, NEW k \in Kinds, NEW n \in Held(k), NEW m \in stored'[k], n < m
       PROVE  n \in stored'[k]
  <2>1. CASE m \in stored[k]
    BY <1>1, <1>10, <2>1 DEF OldestFirst
  <2>2. CASE m \in ToSet(batch["loop"][k])
    <3>1. batch["loop"][k] \in Seq(Items) /\ queue[k] \in Seq(Items)
      BY DEF Shapes, Tasks
    <3>2. PICK i \in 1..Len(batch["loop"][k]) : batch["loop"][k][i] = m
      BY <2>2, <3>1, ToSetOf
    <3>3. n \notin ToSet(queue[k])
      <4> SUFFICES ASSUME NEW j \in 1..Len(queue[k]), queue[k][j] = n PROVE FALSE
        BY <3>1, ToSetOf
      <4>1. batch["loop"][k][i] < queue[k][j]
        BY <1>10 DEF InLine, Ordered
      <4>2. m \in Nat /\ n \in Nat
        BY <3>1, <3>2, ItemFacts, ElementOfSeq
      <4>3. QED
        BY <4>1, <4>2, <3>2, <1>10
    <3>4. n \in ToSet(batch["loop"][k])
      BY <1>2, <1>10, <3>3, EmptyItems, KindFacts DEF Held, Tasks
    <3>5. QED
      BY <1>1, <1>2, <1>10, <3>4
  <2>3. QED
    BY <1>1, <1>2, <1>10, <2>1, <2>2
<1>11. OldestFirst'
  BY <1>7, <1>10 DEF OldestFirst, Apply
<1>12. QED
  BY <1>5, <1>6, <1>8, <1>9, <1>11

\* What a failed write leaves in the buffers.
LEMMA FailsFacts ==
    ASSUME BufferInv, NEW f \in Tasks, Fails(f), NEW k \in Kinds
    PROVE  /\ queue'[k] \in Seq(Items) /\ Len(queue'[k]) <= Capacity[k]
           /\ added'[k] \in 0..MaxAdded /\ added[k] <= added'[k]
           /\ ToSet(queue'[k]) \subseteq
                  ToSet(queue[k]) \cup ToSet(batch[f][k]) \cup ((added[k] + 1)..added'[k])
           /\ Ordered(batch[f][k], queue[k]) => Increasing(queue'[k])
           /\ \/ Len(queue'[k]) = Capacity[k]
              \/ ToSet(queue[k]) \cup ToSet(batch[f][k]) \subseteq ToSet(queue'[k])
<1> USE DEF BufferInv
<1> DEFINE b == batch[f][k]
           q == queue[k]
           n == Capacity[k] - Len(q)
           r == Returned(f, k)
<1>1. /\ b \in Seq(Items) /\ q \in Seq(Items) /\ Capacity[k] \in Nat \ {0}
      /\ Len(b) \in Nat /\ Len(q) \in Nat /\ Len(q) <= Capacity[k]
  BY KindFacts, LenProperties DEF Shapes, BufferTypeOK
<1>2. n \in Nat /\ added[k] \in 0..MaxAdded /\ added[k] \in Nat
  BY <1>1, ItemFacts DEF BufferTypeOK
<1>3. r = First(b, n) \o q
  BY DEF Returned
<1> HIDE DEF b, q, n, r
<1>4. /\ r \in Seq(Items)
      /\ Len(r) = (IF n < Len(b) THEN n ELSE Len(b)) + Len(q)
      /\ ToSet(r) \subseteq ToSet(b) \cup ToSet(q)
      /\ Len(b) <= n => ToSet(r) = ToSet(b) \cup ToSet(q)
      /\ Ordered(b, q) => Increasing(r)
  <2>1. b \in Seq(Items) /\ q \in Seq(Items) /\ n \in Nat
    BY <1>1, <1>2
  <2> DEFINE t == First(b, n) \o q
  <2>2. t \in Seq(Items)
    BY <2>1, ReturnFacts
  <2>3. Len(t) = (IF n < Len(b) THEN n ELSE Len(b)) + Len(q)
    BY <2>1, ReturnFacts
  <2>4. ToSet(t) \subseteq ToSet(b) \cup ToSet(q)
    BY <2>1, ReturnFacts
  <2>5. Len(b) <= n => ToSet(t) = ToSet(b) \cup ToSet(q)
    BY <2>1, ReturnFacts
  <2>6. Ordered(b, q) => Increasing(t)
    BY <2>1, ItemFacts, ReturnFacts
  <2>7. r = t
    BY <1>3
  <2> HIDE DEF t
  <2>8. QED
    BY <2>2, <2>3, <2>4, <2>5, <2>6, <2>7
<1>5. Len(r) \in Nat /\ Len(r) <= Capacity[k] /\ (Len(r) = Capacity[k] \/ Len(b) <= n)
  <2>1. n + Len(q) = Capacity[k]
    BY <1>1 DEF n
  <2>2. QED
    BY <1>1, <1>2, <1>4, <2>1
<1>6. CASE queue'[k] = r /\ added'[k] = added[k]
  BY <1>2, <1>4, <1>5, <1>6 DEF b, q
<1>7. CASE /\ k = "errors" /\ added[k] < MaxAdded /\ added'[k] = added[k] + 1
           /\ queue'[k] = Pushed(r, k, added'[k])
  <2> DEFINE item == added[k] + 1
             p    == Pushed(r, k, item)
  <2>1. item \in Items /\ Capacity[k] \in Nat \ {0} /\ r \in Seq(Items)
    BY <1>1, <1>2, <1>4, <1>7, ItemFacts DEF Items
  <2>0. item \in Nat /\ added'[k] = item
    BY <1>2, <1>7
  <2>2. queue'[k] = p
    BY <1>7
  <2> HIDE DEF item
  <2>3. p \in Seq(Items)
    BY <2>1, PushFacts
  <2>4. Len(p) = IF Len(r) >= Capacity[k] THEN Len(r) ELSE Len(r) + 1
    BY <2>1, PushFacts
  <2>5. ToSet(p) \subseteq ToSet(r) \cup {item}
    BY <2>1, PushFacts
  <2>6. Len(r) < Capacity[k] => ToSet(p) = ToSet(r) \cup {item}
    BY <2>1, PushFacts
  <2>7. ASSUME Ordered(b, q) PROVE Increasing(p)
    <3>1. <<>> \in Seq(Items) /\ Len(<<>>) = 0
      BY EmptySeq
    <3>2. Ordered(<<>>, r)
      BY <1>4, <2>7, <3>1 DEF Ordered, Increasing
    <3>3. ToSet(r) \subseteq Held(k)
      BY <1>4 DEF Held, b, q
    <3>4. \A x \in ToSet(r) : x < item
      BY <3>3, <1>2 DEF Numbered, item
    <3>5. \A i \in 1..Len(r) : r[i] < item
      BY <1>4, <3>4, ToSetOf
    <3>6. \A i \in 1..Len(<<>>) : <<>>[i] < item
      BY <3>1
    <3>7. Ordered(<<>>, p)
      BY <2>1, <3>1, <3>2, <3>5, <3>6, ItemFacts, PushFacts
    <3>8. QED
      BY <3>7 DEF Ordered
  <2> HIDE DEF p
  <2>8. /\ Len(p) <= Capacity[k]
        /\ Len(p) = Capacity[k] \/ ToSet(p) = ToSet(q) \cup ToSet(b) \cup {item}
    BY <1>1, <1>4, <1>5, <2>4, <2>6
  <2>9. item \in (added[k] + 1)..added'[k]
    BY <2>0 DEF item
  <2>10. added'[k] \in 0..MaxAdded /\ added[k] <= added'[k]
    BY <1>2, <1>7, ItemFacts
  <2>11. ToSet(p) \subseteq ToSet(q) \cup ToSet(b) \cup ((added[k] + 1)..added'[k])
    BY <1>4, <2>5, <2>9
  <2>12. QED
    BY <2>2, <2>3, <2>7, <2>8, <2>10, <2>11 DEF b, q
<1>8. \/ queue'[k] = r /\ added'[k] = added[k]
      \/ /\ k = "errors" /\ added[k] < MaxAdded /\ added'[k] = added[k] + 1
         /\ queue'[k] = Pushed(r, k, added'[k])
  BY DEF Fails, r, Kinds, BufferTypeOK
<1>9. QED
  BY <1>6, <1>7, <1>8

LEMMA FailsStep ==
    ASSUME BufferInv, NEW f \in Tasks, Fails(f)
    PROVE  BufferInv'
<1>1. running => f = "loop"
  BY DEF Fails, BufferInv, Resting, Tasks
<1>2. queue' \in [Kinds -> Seq(Items)]
  <2>1. \A k \in Kinds : queue'[k] \in Seq(Items)
    BY FailsFacts
  <2>2. queue' = [k \in Kinds |-> queue'[k]]
    BY DEF Fails, Kinds
  <2>3. QED
    BY <2>1, <2>2
<1>3. added' \in [Kinds -> 0..MaxAdded]
  <2>1. \A k \in Kinds : added'[k] \in 0..MaxAdded
    BY FailsFacts
  <2>2. added' = [k \in Kinds |-> added'[k]]
    BY DEF Fails, BufferInv, BufferTypeOK
  <2>3. QED
    BY <2>1, <2>2
<1>4. \A k \in Kinds :
         /\ Len(queue'[k]) <= Capacity[k] /\ added[k] <= added'[k]
         /\ ToSet(queue'[k]) \subseteq
                ToSet(queue[k]) \cup ToSet(batch[f][k]) \cup ((added[k] + 1)..added'[k])
         /\ running => Increasing(queue'[k])
  BY <1>1, FailsFacts DEF BufferInv, InLine
<1>5. QED
  BY <1>1, <1>2, <1>3, <1>4, LeaveStep DEF Fails

\* The final flush is cancelled: only what it was writing is gone.
LEMMA CancelledStep ==
    ASSUME BufferInv, Cancelled
    PROVE  BufferInv'
<1> USE DEF BufferInv
<1>1. Nothing \in [Kinds -> Seq(Items)] /\ \A k \in Kinds : Nothing[k] = <<>> /\ Len(<<>>) <= BatchSize[k]
  BY EmptySeq, KindFacts DEF Nothing
<1>2. ~running
  BY DEF Cancelled, Resting
<1>3. batch'["final"] = Nothing /\ batch'["loop"] = batch["loop"]
  BY DEF Cancelled, Shapes, Tasks
<1>4. Shapes'
  BY <1>1 DEF Cancelled, Shapes
<1>5. BufferTypeOK'
  <2>1. \A g \in Tasks, k \in Kinds : batch'[g][k] \in Seq(Items) /\ Len(batch'[g][k]) <= BatchSize[k]
    BY <1>1, <1>3, EmptySeq DEF BufferTypeOK, Tasks
  <2>2. QED
    BY <2>1 DEF Cancelled, BufferTypeOK
<1>6. Resting' /\ TakenIsStored'
  BY <1>2, <1>3 DEF Cancelled, Resting, TakenIsStored, Tasks, BufferTypeOK
<1>7. \A k \in Kinds : Held(k)' \subseteq Held(k)
  BY <1>1, <1>3, EmptyItems DEF Cancelled, Held, Tasks
<1>8. Numbered' /\ OldestFirst' /\ InLine'
  BY <1>2, <1>7 DEF Cancelled, Numbered, OldestFirst, InLine
<1>9. QED
  BY <1>4, <1>5, <1>6, <1>8

LEMMA QuietStep ==
    ASSUME BufferInv, Shutdown \/ DbChange \/ UNCHANGED buffers
    PROVE  BufferInv'
<1> USE DEF BufferInv
<1>1. UNCHANGED <<queue, batch, applied, pc, dropped, added, stored, reported>> /\ (running' => running)
  BY DEF Shutdown, DbChange, buffers
<1>2. met' \in [Tasks -> SUBSET {"up", "down"}] /\ \A f \in Tasks : met[f] = {} => met'[f] = {}
  <2>1. CASE DbChange
    <3>1. db' \in {"up", "down"} /\ \A f \in Tasks : met'[f] = IF met[f] = {} THEN {} ELSE met[f] \cup {db'}
      BY <2>1 DEF DbChange
    <3>2. ASSUME NEW f \in Tasks PROVE met'[f] \in SUBSET {"up", "down"}
      <4>1. met[f] \subseteq {"up", "down"}
        BY DEF BufferTypeOK
      <4>2. met'[f] \subseteq {"up", "down"}
        BY <3>1, <4>1
      <4>3. QED
        BY <4>2
    <3>3. met' = [f \in Tasks |-> met'[f]]
      BY <2>1 DEF DbChange
    <3>4. QED
      BY <3>1, <3>2, <3>3
  <2>2. CASE Shutdown \/ UNCHANGED buffers
    BY <2>2 DEF Shutdown, buffers, BufferTypeOK
  <2>3. QED
    BY <2>1, <2>2
<1>3. running' \in BOOLEAN /\ db' \in {"up", "down"}
  BY DEF Shutdown, DbChange, buffers, BufferTypeOK
<1>4. BufferTypeOK' /\ Shapes'
  BY <1>1, <1>2, <1>3 DEF BufferTypeOK, Shapes
<1>5. \A k \in Kinds : Held(k)' = Held(k)
  BY <1>1 DEF Held
<1>6. Resting' /\ Numbered' /\ TakenIsStored' /\ InLine' /\ OldestFirst'
  BY <1>1, <1>2, <1>5 DEF Resting, Numbered, TakenIsStored, InLine, OldestFirst
<1>7. QED
  BY <1>4, <1>6

LEMMA BufferInvStep == BufferInv /\ [BufferNext]_buffers => BufferInv'
BY AddStep, FlushStep, ApplyStep, AcknowledgedStep, FailsStep, CancelledStep, QuietStep
   DEF BufferNext, Step

\* The two buffers keep their bounds and their shape.
THEOREM BufferTypeCorrect == BufferSpec => []BufferTypeOK
<1>1. BufferInv => BufferTypeOK
  BY DEF BufferInv
<1>2. QED
  BY <1>1, InitBufferInv, BufferInvStep, PTL DEF BufferSpec

\* What waits stays in the order in which it was added.
THEOREM BuffersInOrder == BufferSpec => []InOrder
<1>1. ASSUME BufferInv PROVE InOrder
  <2> SUFFICES ASSUME running, NEW k \in Kinds
               PROVE  \A i, j \in DOMAIN (batch["loop"][k] \o queue[k]) :
                          i < j => (batch["loop"][k] \o queue[k])[i] < (batch["loop"][k] \o queue[k])[j]
    BY DEF InOrder
  <2>1. batch["loop"][k] \in Seq(Nat) /\ queue[k] \in Seq(Nat)
    BY <1>1, ItemFacts, SeqMonotonic DEF BufferInv, Shapes, Tasks
  <2>2. Increasing(batch["loop"][k] \o queue[k])
    BY <1>1, <2>1, ConcatOrdered DEF BufferInv, InLine
  <2>3. batch["loop"][k] \o queue[k] \in Seq(Nat)
    BY <2>1, ConcatProperties
  <2>4. DOMAIN (batch["loop"][k] \o queue[k]) = 1..Len(batch["loop"][k] \o queue[k])
    BY <2>3, LenProperties
  <2>5. QED
    BY <2>2, <2>4 DEF Increasing
<1>2. QED
  BY <1>1, InitBufferInv, BufferInvStep, PTL DEF BufferSpec

\* db-v3 has nothing newer than what it has yet to get, whatever was sent again.
THEOREM BuffersOldestFirst == BufferSpec => []OldestFirst
<1>1. BufferInv => OldestFirst
  BY DEF BufferInv
<1>2. QED
  BY <1>1, InitBufferInv, BufferInvStep, PTL DEF BufferSpec

\* A step loses nothing that the gateway held and db-v3 has not, unless it fills the buffer.
THEOREM BuffersLoseOnlyWhenFull == BufferSpec => LosesOnlyWhenFull
<1>1. ASSUME BufferInv, [BufferNext]_buffers, running, NEW k \in Kinds
      PROVE  Held(k) \subseteq Held(k)' \cup stored[k]' \/ Len(queue'[k]) = Capacity[k]
  <2> USE <1>1 DEF BufferInv
  <2> DEFINE Goal == Held(k) \subseteq Held(k)' \cup stored[k]' \/ Len(queue'[k]) = Capacity[k]
  <2>0. Held(k) = ToSet(queue[k]) \cup ToSet(batch["loop"][k])
    BY EmptyItems, KindFacts DEF Held, Resting, Tasks
  <2>1. ASSUME NEW k0 \in Kinds, Add(k0) PROVE Goal
    <3>1. CASE k # k0
      BY <2>1, <3>1 DEF Add, Held, Shapes
    <3>2. CASE k = k0
      <4> DEFINE item == added[k] + 1
                 q    == queue[k]
                 p    == Pushed(q, k, item)
      <4>1. item \in Items /\ Capacity[k] \in Nat \ {0} /\ q \in Seq(Items)
        BY <2>1, <3>2, KindFacts, ItemFacts DEF Add, BufferTypeOK, Items
      <4>2. queue'[k] = p /\ batch' = batch
        BY <2>1, <3>2 DEF Add, Shapes, BufferTypeOK
      <4>3. Len(q) \in Nat /\ Len(q) <= Capacity[k]
        BY <4>1, LenProperties DEF BufferTypeOK
      <4> HIDE DEF item, q
      <4>4. Len(p) = IF Len(q) >= Capacity[k] THEN Len(q) ELSE Len(q) + 1
        BY <4>1, PushFacts
      <4>5. Len(q) < Capacity[k] => ToSet(p) = ToSet(q) \cup {item}
        BY <4>1, PushFacts
      <4> HIDE DEF p
      <4>6. Len(p) = Capacity[k] \/ ToSet(q) \subseteq ToSet(p)
        BY <4>1, <4>3, <4>4, <4>5
      <4>7. QED
        BY <4>2, <4>6 DEF Held, q
    <3>3. QED
      BY <3>1, <3>2
  <2>2. ASSUME NEW f \in Tasks, Round(f), \A x \in ToSet(batch[f][k]) : x \in stored[k]', f = "loop"
        PROVE  Goal
    <3>1. CASE NextBatch(f)
      <4>1. queue[k] \in Seq(Items) /\ BatchSize[k] \in Nat
        BY KindFacts DEF Shapes
      <4>2. ToSet(Prefix(k)) \cup ToSet(Rest(k)) = ToSet(queue[k])
        BY <4>1, TakeFacts DEF Prefix, Rest
      <4>3. queue'[k] = Rest(k) /\ batch'["loop"][k] = Prefix(k)
        BY <2>2, <3>1 DEF NextBatch, Shapes
      <4>4. ToSet(queue[k]) \subseteq Held(k)'
        BY <4>2, <4>3 DEF Held, Tasks
      <4>5. QED
        BY <2>0, <2>2, <4>4
    <3>2. CASE queue = Nothing
      BY <2>0, <2>2, <3>2, EmptyItems, KindFacts
    <3>3. QED
      BY <2>2, <3>1, <3>2 DEF Round
  <2>3. ASSUME NEW f \in Tasks, Flush(f) PROVE Goal
    <3>1. f = "loop" /\ batch[f][k] = <<>>
      BY <2>3, KindFacts DEF Flush, Resting, Tasks
    <3>2. QED
      BY <2>2, <2>3, <3>1, EmptyItems DEF Flush
  <2>4. ASSUME NEW f \in Tasks, Apply(f) PROVE Goal
    BY <2>4 DEF Apply, Held
  <2>5. ASSUME NEW f \in Tasks, Acknowledged(f) PROVE Goal
    BY <2>2, <2>5 DEF Acknowledged, Resting, TakenIsStored, Tasks
  <2>6. ASSUME NEW f \in Tasks, Fails(f) PROVE Goal
    <3>1. f = "loop"
      BY <2>6 DEF Fails, Resting, Tasks
    <3>2. Len(queue'[k]) = Capacity[k] \/ ToSet(queue[k]) \cup ToSet(batch[f][k]) \subseteq ToSet(queue'[k])
      BY <2>6, FailsFacts
    <3>3. QED
      BY <2>0, <3>1, <3>2 DEF Held
  <2>7. ~Cancelled
    BY DEF Cancelled, Resting
  <2>8. ASSUME Shutdown \/ DbChange \/ UNCHANGED buffers PROVE Goal
    BY <2>8 DEF Shutdown, DbChange, buffers, Held
  <2>9. QED
    BY <2>1, <2>3, <2>4, <2>5, <2>6, <2>7, <2>8 DEF BufferNext, Step
<1>2. BufferInv /\ [BufferNext]_buffers =>
      [running => \A k \in Kinds :
          Held(k) \subseteq Held(k)' \cup stored[k]' \/ Len(queue'[k]) = Capacity[k]]_buffers
  BY <1>1
<1>3. QED
  BY <1>2, InitBufferInv, BufferInvStep, PTL DEF BufferSpec, LosesOnlyWhenFull
=============================================================================
