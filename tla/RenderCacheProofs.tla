------------------------- MODULE RenderCacheProofs -------------------------
(***************************************************************************)
(* Proofs about RenderCache.  The bound needs the count of the dict's keys *)
(* before and after an insertion.  What a hit shows is bounded by three    *)
(* facts about other steps, perhaps of other requests and long ago: a tool *)
(* ends within MaxRender of its read and its metrics are written within    *)
(* MaxLog, so a page enters the dict with data that old at most; it stays  *)
(* for its time to live; and no step brings that end nearer or moves it    *)
(* away.                                                                   *)
(***************************************************************************)
EXTENDS RenderCache, FiniteSetTheorems, TLAPS

\* The page in a dict at time t is no older, and lives no longer, than this.
TimedEntry(dict, t, k) ==
    dict[k] # NoEntry =>
        dict[k].asOf <= t /\ dict[k].expires <= dict[k].asOf + MaxRender + MaxLog + MaxTTL

EntriesTimed == \A k \in Keys : TimedEntry(entry, now, k)

RendersTimed ==
    \A s \in Requests :
        pc[s] \in {"rendered", "logging"} => asOf[s] <= now /\ now - asOf[s] <= Bound(s)

IInv == TypeOK /\ Bounded /\ EntriesTimed /\ RendersTimed /\ ShowsRecentData

USE DEF Stages

\* The keys of a dict.
StoredIn(dict) == {k \in Keys : dict[k] # NoEntry}

-----------------------------------------------------------------------------
(* The dict.                                                               *)

\* Deleting keys loses just those of them that were there.
LEMMA DeleteLoses ==
  ASSUME TypeOK, NEW keys \in SUBSET Keys, Delete(keys)
  PROVE  /\ entry' \in [Keys -> Entries \cup {NoEntry}]
         /\ older' \in [Keys -> SUBSET Keys]
         /\ Stored' = Stored \ keys
         /\ \A k \in Stored' : entry'[k] = entry[k]
<1>1. entry \in [Keys -> Entries \cup {NoEntry}] /\ older \in [Keys -> SUBSET Keys]
  BY DEF TypeOK
<1>2. entry' = [k \in Keys |-> IF k \in keys THEN NoEntry ELSE entry[k]]
  BY DEF Delete, Deleted
<1>3. older' = [k \in Keys |-> IF k \in keys THEN {} ELSE older[k] \ keys]
  BY DEF Delete, Unranked
<1>4. older' \in [Keys -> SUBSET Keys]
  BY <1>1, <1>3
<1>5. entry' \in [Keys -> Entries \cup {NoEntry}] /\ \A k \in Keys \ keys : entry'[k] = entry[k]
  BY <1>1, <1>2
<1>6. Stored' = Stored \ keys
  BY <1>2 DEF Stored
<1> QED BY <1>4, <1>5, <1>6 DEF Stored

\* An insertion keeps the bound, adds one entry, and drops an entry only if the dict is full.
LEMMA SetBounded ==
  ASSUME TypeOK, Bounded, NEW x \in Keys, NEW e \in Entries, set(x, e)
  PROVE  /\ entry' \in [Keys -> Entries \cup {NoEntry}]
         /\ older' \in [Keys -> SUBSET Keys]
         /\ Bounded'
         /\ \A k \in Stored' : (k = x /\ entry'[k] = e) \/ (k \in Stored /\ entry'[k] = entry[k])
         /\ \A k \in Stored : entry'[k] = NoEntry => Cardinality(Stored) = MaxSize
<1> DEFINE dict == [entry EXCEPT ![x] = e]
<1>1. Ranked(x) \in [Keys -> SUBSET Keys]
  BY DEF Ranked, Stored, TypeOK
<1>2. dict \in [Keys -> Entries \cup {NoEntry}] /\ StoredIn(dict) = Stored \cup {x}
  BY EntryAssumption DEF StoredIn, Stored, TypeOK, Entries
<1>3. IsFiniteSet(Stored) /\ Cardinality(Stored) \in Nat /\ IsFiniteSet(Stored \cup {x})
  BY KeysAssumption, FS_Subset, FS_CardinalityType, FS_AddElement DEF Stored
<1>4. Cardinality(Stored \cup {x}) = IF x \in Stored THEN Cardinality(Stored) ELSE Cardinality(Stored) + 1
  BY <1>3, FS_AddElement
<1>5. CASE Cardinality(Stored \cup {x}) <= MaxSize
  <2>1. entry' = dict /\ older' = Ranked(x)
    BY <1>5 DEF set
  <2>2. Stored' = Stored \cup {x}
    BY <2>1, <1>2 DEF Stored, StoredIn
  <2>3. \A k \in Stored' : (k = x /\ entry'[k] = e) \/ (k \in Stored /\ entry'[k] = entry[k])
    BY <2>1, <2>2 DEF TypeOK, Stored
  <2>4. \A k \in Stored : entry'[k] # NoEntry
    BY <2>2 DEF Stored
  <2> QED BY <2>1, <2>2, <2>3, <2>4, <1>1, <1>2, <1>5 DEF Bounded
<1>6. CASE ~(Cardinality(Stored \cup {x}) <= MaxSize)
  <2>1. PICK oldest \in Stored \cup {x} :
           entry' = Deleted(dict, {oldest}) /\ older' = Unranked(Ranked(x), {oldest})
    BY <1>6 DEF set
  <2>2. oldest \in Keys
    BY DEF Stored
  <2>3. entry' \in [Keys -> Entries \cup {NoEntry}] /\ older' \in [Keys -> SUBSET Keys]
    BY <2>1, <1>1, <1>2 DEF Deleted, Unranked
  <2>4. Stored' = (Stored \cup {x}) \ {oldest}
    BY <2>1, <1>2 DEF Deleted, Stored, StoredIn
  <2>5. x \notin Stored /\ Cardinality(Stored) = MaxSize
    BY <1>3, <1>4, <1>6, SizeAssumption DEF Bounded
  <2>6. Cardinality(Stored') = Cardinality(Stored \cup {x}) - 1
    BY <2>1, <2>4, <1>3, FS_RemoveElement
  <2>7. Bounded'
    BY <2>5, <2>6, <1>3, <1>4, SizeAssumption DEF Bounded
  <2>8. \A k \in Stored' : (k = x /\ entry'[k] = e) \/ (k \in Stored /\ entry'[k] = entry[k])
    BY <2>1, <2>4 DEF Deleted, TypeOK, Stored
  <2> QED BY <2>3, <2>5, <2>7, <2>8
<1> QED BY <1>5, <1>6

-----------------------------------------------------------------------------
(* The invariant.                                                          *)

LEMMA InitInvariant == Init => IInv
<1> SUFFICES ASSUME Init PROVE IInv
  OBVIOUS
<1>1. Stored = {}
  BY DEF Init, Stored
<1>2. TypeOK
  BY SizeAssumption DEF Init, TypeOK
<1>3. Bounded
  BY <1>1, FS_EmptySet, SizeAssumption DEF Bounded
<1>4. EntriesTimed
  BY DEF Init, EntriesTimed, TimedEntry
<1>5. RendersTimed /\ ShowsRecentData
  BY TimeAssumption DEF Init, RendersTimed, ShowsRecentData
<1> QED BY <1>2, <1>3, <1>4, <1>5 DEF IInv

\* Deletions keep what is said of the dict.
LEMMA DeleteKeeps ==
  ASSUME TypeOK, Bounded, EntriesTimed, NEW keys \in SUBSET Keys, Delete(keys), now' = now
  PROVE  /\ entry' \in [Keys -> Entries \cup {NoEntry}] /\ older' \in [Keys -> SUBSET Keys]
         /\ Bounded' /\ EntriesTimed'
<1>1. Stored' = Stored \ keys /\ \A k \in Stored' : entry'[k] = entry[k]
  BY DeleteLoses
<1>2. IsFiniteSet(Stored) /\ Cardinality(Stored) \in Nat
  BY KeysAssumption, FS_Subset, FS_CardinalityType DEF Stored
<1>3. Cardinality(Stored') <= Cardinality(Stored) /\ Cardinality(Stored') \in Nat
  BY <1>1, <1>2, FS_Subset, FS_CardinalityType
<1>4. Bounded'
  BY <1>2, <1>3, SizeAssumption DEF Bounded
<1>5. EntriesTimed'
  BY <1>1 DEF EntriesTimed, TimedEntry, Stored
<1> QED BY <1>4, <1>5, DeleteLoses

\* A request that is over shows nothing too old and leaves the others alone.
LEMMA AnswerKeeps ==
  ASSUME TypeOK, RendersTimed, NEW s \in Requests, NEW t \in Nat,
         t <= now, now - t <= MaxRender + MaxLog + MaxTTL, Answer(s, t), now' = now
  PROVE  /\ pc' \in [Requests -> Stages]
         /\ key' \in [Requests -> Keys \cup {NoKey}]
         /\ asOf' \in [Requests -> Nat]
         /\ shown' \in Nat /\ ShowsRecentData' /\ RendersTimed'
BY TimeAssumption DEF Answer, Leave, TypeOK, RendersTimed, Bound, ShowsRecentData

LEMMA HitKeeps == ASSUME IInv, NEW s \in Requests, Hit(s) PROVE IInv'
<1> DEFINE e == entry[key[s]]
<1>1. TypeOK /\ Bounded /\ EntriesTimed /\ RendersTimed
  BY DEF IInv
<1>2. key[s] \in Keys /\ e \in Entries /\ now < e.expires
  BY <1>1 DEF Hit, Stored, Expired, TypeOK, Entries
<1>3. e.asOf \in Nat /\ e.asOf <= now /\ now - e.asOf <= MaxRender + MaxLog + MaxTTL
  BY <1>1, <1>2, TimeAssumption DEF EntriesTimed, TimedEntry, TypeOK, Entries, Hit, Stored
<1>4. Answer(s, e.asOf) /\ now' = now
  BY DEF Hit
<1>5. reads' \in 0..(SweepEvery - 1)
  BY <1>1, SizeAssumption DEF Hit, TypeOK
<1>6. /\ entry' \in [Keys -> Entries \cup {NoEntry}] /\ older' \in [Keys -> SUBSET Keys]
      /\ Bounded' /\ EntriesTimed'
  <2>1. CASE sweep
    <3>1. {k \in Stored : Expired(k)} \in SUBSET Keys
      BY DEF Stored
    <3> QED BY <2>1, <3>1, <1>1, <1>4, DeleteKeeps DEF sweep
  <2>2. CASE UNCHANGED cache
    BY <2>2, <1>1, <1>4 DEF cache, TypeOK, Bounded, Stored, EntriesTimed, TimedEntry
  <2> QED BY <2>1, <2>2 DEF Hit
<1>7. /\ pc' \in [Requests -> Stages]
      /\ key' \in [Requests -> Keys \cup {NoKey}]
      /\ asOf' \in [Requests -> Nat]
      /\ shown' \in Nat /\ ShowsRecentData' /\ RendersTimed'
  BY <1>1, <1>3, <1>4, AnswerKeeps
<1> QED BY <1>1, <1>4, <1>5, <1>6, <1>7 DEF IInv, TypeOK

LEMMA MissKeeps == ASSUME IInv, NEW s \in Requests, Miss(s) PROVE IInv'
<1>1. TypeOK /\ Bounded /\ EntriesTimed /\ RendersTimed /\ ShowsRecentData
  BY DEF IInv
<1>2. {key[s]} \cap Stored \in SUBSET Keys
  BY DEF Stored
<1>3. /\ entry' \in [Keys -> Entries \cup {NoEntry}] /\ older' \in [Keys -> SUBSET Keys]
      /\ Bounded' /\ EntriesTimed'
  BY <1>1, <1>2, DeleteKeeps DEF Miss
<1>4. RendersTimed' /\ ShowsRecentData'
  BY <1>1 DEF Miss, TypeOK, RendersTimed, Bound, ShowsRecentData
<1>5. TypeOK'
  BY <1>1, <1>3 DEF Miss, TypeOK
<1> QED BY <1>3, <1>4, <1>5 DEF IInv

LEMMA FinishCachedKeeps == ASSUME IInv, NEW s \in Requests, FinishCached(s) PROVE IInv'
<1>1. TypeOK /\ Bounded /\ EntriesTimed /\ RendersTimed
  BY DEF IInv
<1>2. asOf[s] \in Nat /\ asOf[s] <= now /\ now - asOf[s] <= MaxRender + MaxLog /\ now \in Nat
  BY <1>1 DEF FinishCached, RendersTimed, Bound, TypeOK
<1>3. PICK ttl \in 1..MaxTTL : set(key[s], [expires |-> now + ttl, asOf |-> asOf[s]])
  BY DEF FinishCached
<1> DEFINE e == [expires |-> now + ttl, asOf |-> asOf[s]]
<1>4. e \in Entries /\ key[s] \in Keys
  BY <1>2, TimeAssumption DEF Entries, FinishCached
<1>5. e.asOf <= now /\ e.expires <= e.asOf + MaxRender + MaxLog + MaxTTL
  BY <1>2, TimeAssumption
<1>6. /\ entry' \in [Keys -> Entries \cup {NoEntry}] /\ older' \in [Keys -> SUBSET Keys]
      /\ Bounded'
      /\ \A k \in Stored' : (k = key[s] /\ entry'[k] = e) \/ (k \in Stored /\ entry'[k] = entry[k])
  BY <1>1, <1>3, <1>4, SetBounded
<1>7. now' = now /\ reads' = reads /\ Answer(s, asOf[s])
  BY DEF FinishCached
<1>8. EntriesTimed'
  BY <1>1, <1>5, <1>6, <1>7 DEF EntriesTimed, TimedEntry, Stored
<1>9. /\ pc' \in [Requests -> Stages]
      /\ key' \in [Requests -> Keys \cup {NoKey}]
      /\ asOf' \in [Requests -> Nat]
      /\ shown' \in Nat /\ ShowsRecentData' /\ RendersTimed'
  BY <1>1, <1>2, <1>7, TimeAssumption, AnswerKeeps
<1>10. TypeOK'
  BY <1>1, <1>6, <1>7, <1>9 DEF TypeOK
<1> QED BY <1>6, <1>8, <1>9, <1>10 DEF IInv

\* The steps that leave the dict alone.
LEMMA OthersKeep ==
  ASSUME IInv,
         (\E s \in Requests : Arrive(s) \/ Read(s) \/ ToolEnds(s) \/ Finish(s) \/ Fail(s)) \/ Tick \/ UNCHANGED vars
  PROVE  IInv'
<1>1. TypeOK /\ Bounded /\ EntriesTimed /\ RendersTimed /\ ShowsRecentData
  BY DEF IInv
<1>2. entry' = entry /\ older' = older /\ now' \in Nat /\ now <= now'
  BY <1>1 DEF TypeOK, Arrive, Read, ToolEnds, Finish, Fail, Tick, vars, cache
<1>3. Bounded' /\ EntriesTimed'
  BY <1>1, <1>2 DEF Bounded, EntriesTimed, TimedEntry, Stored, TypeOK, Entries
<1>4. TypeOK' /\ RendersTimed' /\ ShowsRecentData'
  <2>1. ASSUME NEW s \in Requests, Arrive(s) PROVE TypeOK' /\ RendersTimed' /\ ShowsRecentData'
    BY <2>1, <1>1 DEF Arrive, cache, TypeOK, RendersTimed, Bound, ShowsRecentData
  <2>2. ASSUME NEW s \in Requests, Read(s) PROVE TypeOK' /\ RendersTimed' /\ ShowsRecentData'
    BY <2>2, <1>1, TimeAssumption DEF Read, cache, TypeOK, RendersTimed, Bound, ShowsRecentData
  <2>7. ASSUME NEW s \in Requests, ToolEnds(s) PROVE TypeOK' /\ RendersTimed' /\ ShowsRecentData'
    BY <2>7, <1>1, TimeAssumption DEF ToolEnds, cache, TypeOK, RendersTimed, Bound, ShowsRecentData
  <2>3. ASSUME NEW s \in Requests, Finish(s) PROVE TypeOK' /\ RendersTimed' /\ ShowsRecentData'
    <3>1. asOf[s] \in Nat /\ asOf[s] <= now /\ now - asOf[s] <= MaxRender + MaxLog + MaxTTL
      BY <2>3, <1>1, TimeAssumption DEF Finish, RendersTimed, Bound, TypeOK
    <3>2. /\ pc' \in [Requests -> Stages]
          /\ key' \in [Requests -> Keys \cup {NoKey}]
          /\ asOf' \in [Requests -> Nat]
          /\ shown' \in Nat /\ ShowsRecentData' /\ RendersTimed'
      BY <2>3, <3>1, <1>1, AnswerKeeps DEF Finish
    <3> QED BY <2>3, <3>2, <1>1 DEF Finish, cache, TypeOK
  <2>4. ASSUME NEW s \in Requests, Fail(s) PROVE TypeOK' /\ RendersTimed' /\ ShowsRecentData'
    BY <2>4, <1>1 DEF Fail, Leave, cache, TypeOK, RendersTimed, Bound, ShowsRecentData
  <2>5. CASE Tick
    BY <2>5, <1>1, TimeAssumption DEF Tick, cache, TypeOK, RendersTimed, Bound, ShowsRecentData
  <2>6. CASE UNCHANGED vars
    BY <2>6, <1>1 DEF vars, cache, TypeOK, RendersTimed, Bound, ShowsRecentData
  <2> QED BY <2>1, <2>2, <2>3, <2>4, <2>5, <2>6, <2>7
<1> QED BY <1>3, <1>4 DEF IInv

LEMMA RestartKeeps == ASSUME IInv, Restart PROVE IInv'
<1>1. TypeOK /\ ShowsRecentData
  BY DEF IInv
<1>2. Stored' = {}
  BY DEF Restart, Stored
<1>3. Bounded'
  BY <1>2, FS_EmptySet, SizeAssumption DEF Bounded
<1>4. TypeOK'
  BY <1>1, SizeAssumption DEF Restart, TypeOK
<1>5. EntriesTimed' /\ RendersTimed' /\ ShowsRecentData'
  BY <1>1 DEF Restart, EntriesTimed, TimedEntry, RendersTimed, ShowsRecentData
<1> QED BY <1>3, <1>4, <1>5 DEF IInv

THEOREM Invariance == Spec => []IInv
<1>1. IInv /\ [Next]_vars => IInv'
  BY HitKeeps, MissKeeps, FinishCachedKeeps, OthersKeep, RestartKeeps DEF Next
<1> QED BY <1>1, InitInvariant, PTL DEF Spec

-----------------------------------------------------------------------------
(* What follows.                                                           *)

\* The types of _BoundedTTLCache's dict and of the requests.
THEOREM TypeCorrect == Spec => []TypeOK
BY Invariance, PTL DEF IInv

\* "bounded with TTL": the dict never has more than maxsize entries.
THEOREM CacheBounded == Spec => []Bounded
BY Invariance, PTL DEF IInv

\* An answer of _iq_dispatch shows data no older than a render, the write of the metrics
\* that _dispatch awaits after it, and a time to live.
THEOREM AnswersRecent == Spec => []ShowsRecentData
BY Invariance, PTL DEF IInv

\* A step takes a page out of the dict only when it expired, when the dict is full, or
\* with the process.
LEMMA EvictionStep ==
  ASSUME IInv, [Next]_vars
  PROVE  \A k \in Stored : entry'[k] = NoEntry => Expired(k) \/ Cardinality(Stored) = MaxSize \/ Cleared
<1> SUFFICES ASSUME NEW k \in Stored, entry'[k] = NoEntry
             PROVE  Expired(k) \/ Cardinality(Stored) = MaxSize \/ Cleared
  OBVIOUS
<1>1. TypeOK /\ Bounded /\ RendersTimed /\ k \in Keys /\ entry[k] # NoEntry
  BY DEF IInv, Stored
<1>2. entry' # entry
  BY <1>1
<1>3. ASSUME NEW s \in Requests, Hit(s) PROVE Expired(k)
  <2>1. {q \in Stored : Expired(q)} \in SUBSET Keys /\ Delete({q \in Stored : Expired(q)})
    BY <1>2, <1>3 DEF Hit, sweep, cache, Stored
  <2>2. Stored' = Stored \ {q \in Stored : Expired(q)}
    BY <2>1, <1>1, DeleteLoses
  <2> QED BY <2>2, <1>1 DEF Stored
<1>4. ASSUME NEW s \in Requests, Miss(s) PROVE Expired(k)
  <2>1. {key[s]} \cap Stored \in SUBSET Keys /\ Delete({key[s]} \cap Stored)
    BY <1>4 DEF Miss, Stored
  <2>2. Stored' = Stored \ ({key[s]} \cap Stored)
    BY <2>1, <1>1, DeleteLoses
  <2>3. k = key[s]
    BY <2>2, <1>1 DEF Stored
  <2> QED BY <2>3, <1>4 DEF Miss
<1>5. ASSUME NEW s \in Requests, FinishCached(s) PROVE Cardinality(Stored) = MaxSize
  <2>1. PICK ttl \in 1..MaxTTL : set(key[s], [expires |-> now + ttl, asOf |-> asOf[s]])
    BY <1>5 DEF FinishCached
  <2>2. [expires |-> now + ttl, asOf |-> asOf[s]] \in Entries /\ key[s] \in Keys
    BY <1>1, <1>5, TimeAssumption DEF Entries, FinishCached, TypeOK
  <2> QED BY <2>1, <2>2, <1>1, SetBounded
<1>6. CASE Restart
  BY <1>6 DEF Restart, Cleared
<1>7. CASE (\E s \in Requests : Arrive(s) \/ Read(s) \/ ToolEnds(s) \/ Finish(s) \/ Fail(s)) \/ Tick \/ UNCHANGED vars
  BY <1>7, <1>2 DEF Arrive, Read, ToolEnds, Finish, Fail, Tick, vars, cache
<1> QED BY <1>3, <1>4, <1>5, <1>6, <1>7 DEF Next

\* _BoundedTTLCache.set and sweep, in every interleaving of requests.
THEOREM EvictsOnlyWhenNeeded == Spec => EvictsOnlyWhenFull
<1>1. IInv /\ [Next]_vars =>
        [\A k \in Stored : entry'[k] = NoEntry => Expired(k) \/ Cardinality(Stored) = MaxSize \/ Cleared]_vars
  BY EvictionStep
<1> QED BY <1>1, Invariance, PTL DEF Spec, EvictsOnlyWhenFull
=============================================================================
