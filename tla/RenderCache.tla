---------------------------- MODULE RenderCache ----------------------------
(***************************************************************************)
(* Pages of the IQ apps: src/main.py, _BoundedTTLCache with the routes and *)
(* _iq_dispatch that use it, for one app and one replica.                  *)
(*                                                                         *)
(* A request is suspended when it asks whether the app is there, while its *)
(* page is rendered, and while _dispatch writes its metrics after that;    *)
(* other requests get, sweep and set meanwhile.  No write of the data      *)
(* behind a page touches the cache: what a reader sees is bounded by time  *)
(* only.                                                                   *)
(***************************************************************************)
EXTENDS Integers, FiniteSets

CONSTANTS
    Requests,    \* slots for concurrent requests
    Keys,        \* cache keys: slug and query string of a GET
    NoKey,       \* the request is no GET
    NoEntry,     \* the key is not in the dict
    MaxSize,     \* _RENDER_CACHE_MAX, 512 in the code
    SweepEvery,  \* _RENDER_CACHE_SWEEP_EVERY, 64 in the code
    MaxTTL,      \* longest cache_ttl_seconds a tool asks for
    MaxRender,   \* longest time from a tool's first read to its end (its timeout)
    MaxLog,      \* longest write of the metrics: the two seconds of acquire(), then
                 \* the lock of the pool and BigQuery, by httpx's timeouts
    MaxTime      \* bound: the clock

ASSUME KeysAssumption == IsFiniteSet(Keys) /\ NoKey \notin Keys
ASSUME SizeAssumption == MaxSize \in Nat \ {0} /\ SweepEvery \in Nat \ {0}
ASSUME TimeAssumption ==
    MaxTTL \in Nat /\ MaxRender \in Nat /\ MaxLog \in Nat /\ MaxTime \in Nat
ASSUME EntryAssumption == NoEntry \notin [expires : Nat, asOf : Nat]

VARIABLES
    entry,    \* _RENDER_CACHE._data, with the time the page's data was read
    older,    \* the dict's order: the keys that were inserted before this one
    reads,    \* _render_cache_reads % _RENDER_CACHE_SWEEP_EVERY
    now,      \* time.monotonic()
    pc,       \* per request: idle, arrived; its tool has not read the data yet
              \* (rendering), has read it (rendered), has ended (logging)
    key,      \* per request: _cache_key
    asOf,     \* per request: when its tool read the data
    shown     \* age of the data in the last answer

cache == <<entry, older>>
vars == <<cache, reads, now, pc, key, asOf, shown>>

Stages == {"idle", "arrived", "rendering", "rendered", "logging"}

Entries == [expires : Nat, asOf : Nat]
Stored  == {k \in Keys : entry[k] # NoEntry}
Expired(k) == now >= entry[k].expires

TypeOK ==
    /\ entry \in [Keys -> Entries \cup {NoEntry}]
    /\ older \in [Keys -> SUBSET Keys]
    /\ reads \in 0..(SweepEvery - 1)
    /\ now \in Nat
    /\ pc \in [Requests -> Stages]
    /\ key \in [Requests -> Keys \cup {NoKey}]
    /\ asOf \in [Requests -> Nat]
    /\ shown \in Nat

Init ==
    /\ entry = [k \in Keys |-> NoEntry]
    /\ older = [k \in Keys |-> {}]
    /\ reads = 0
    /\ now = 0
    /\ pc = [s \in Requests |-> "idle"]
    /\ key = [s \in Requests |-> NoKey]
    /\ asOf = [s \in Requests |-> 0]
    /\ shown = 0

-----------------------------------------------------------------------------
(* _BoundedTTLCache.                                                       *)

\* The dict without these keys.
Deleted(dict, keys) == [k \in Keys |-> IF k \in keys THEN NoEntry ELSE dict[k]]
Unranked(order, keys) == [k \in Keys |-> IF k \in keys THEN {} ELSE order[k] \ keys]

Delete(keys) ==
    /\ entry' = Deleted(entry, keys)
    /\ older' = Unranked(older, keys)

\* A key that is in the dict keeps its place in the order.
Ranked(k) == IF k \in Stored THEN older ELSE [older EXCEPT ![k] = Stored]

\* Mutation: the bound is checked before the entry is made.
set_ChecksFirst(k, e) ==
    LET dict == [entry EXCEPT ![k] = e]
    IN  IF Cardinality(Stored) <= MaxSize
        THEN entry' = dict /\ older' = Ranked(k)
        ELSE \E oldest \in Stored : older[oldest] = {} /\ entry' = Deleted(dict, {oldest})
                                    /\ older' = Unranked(Ranked(k), {oldest})

\* Mutation: room is kept for one more.
set_Early(k, e) ==
    LET dict == [entry EXCEPT ![k] = e]
    IN  IF Cardinality(Stored \cup {k}) < MaxSize
        THEN entry' = dict /\ older' = Ranked(k)
        ELSE \E oldest \in Stored \cup {k} : Ranked(k)[oldest] = {} /\ entry' = Deleted(dict, {oldest})
                                             /\ older' = Unranked(Ranked(k), {oldest})

set(k, e) ==
    LET dict == [entry EXCEPT ![k] = e]
    IN  IF Cardinality(Stored \cup {k}) <= MaxSize
        THEN entry' = dict /\ older' = Ranked(k)
        ELSE \E oldest \in Stored \cup {k} :
                /\ Ranked(k)[oldest] = {}
                /\ entry' = Deleted(dict, {oldest})
                /\ older' = Unranked(Ranked(k), {oldest})

sweep == Delete({k \in Stored : Expired(k)})

-----------------------------------------------------------------------------
(* iq_app_root, iq_app_slug and _iq_dispatch.                              *)

\* The app is found; its absence is answered with 404 and changes nothing.
Arrive(s) ==
    /\ pc[s] = "idle"
    /\ pc' = [pc EXCEPT ![s] = "arrived"]
    /\ \E k \in Keys \cup {NoKey} : key' = [key EXCEPT ![s] = k]
    /\ UNCHANGED <<cache, reads, now, asOf, shown>>

\* The request is over.
Leave(s) ==
    /\ pc' = [pc EXCEPT ![s] = "idle"]
    /\ key' = [key EXCEPT ![s] = NoKey]
    /\ asOf' = [asOf EXCEPT ![s] = 0]

Answer(s, since) == Leave(s) /\ shown' = now - since

\* Mutation: any entry will do.
Hit_Expired(s) ==
    /\ pc[s] = "arrived"
    /\ key[s] \in Stored
    /\ reads' = (reads + 1) % SweepEvery
    /\ IF reads' = 0 THEN sweep ELSE UNCHANGED cache
    /\ Answer(s, entry[key[s]].asOf)
    /\ UNCHANGED now

Hit(s) ==
    /\ pc[s] = "arrived"
    /\ key[s] \in Stored /\ ~Expired(key[s])
    /\ reads' = (reads + 1) % SweepEvery
    /\ IF reads' = 0 THEN sweep ELSE UNCHANGED cache
    /\ Answer(s, entry[key[s]].asOf)
    /\ UNCHANGED now

\* No entry, an expired one, which is deleted, or no GET.
Miss(s) ==
    /\ pc[s] = "arrived"
    /\ key[s] \in Stored => Expired(key[s])
    /\ Delete({key[s]} \cap Stored)
    /\ pc' = [pc EXCEPT ![s] = "rendering"]
    /\ UNCHANGED <<reads, now, key, asOf, shown>>

\* The tool reads the data of the page.
Read(s) ==
    /\ pc[s] = "rendering"
    /\ pc' = [pc EXCEPT ![s] = "rendered"]
    /\ asOf' = [asOf EXCEPT ![s] = now]
    /\ UNCHANGED <<cache, reads, now, key, shown>>

\* The tool ends in time; the write of the metrics begins.
ToolEnds(s) ==
    /\ pc[s] = "rendered"
    /\ pc' = [pc EXCEPT ![s] = "logging"]
    /\ UNCHANGED <<cache, reads, now, key, asOf, shown>>

\* The metrics are written, or not.  HTML of a GET with status 200 and a
\* cache_ttl_seconds: the time to live begins now.
FinishCached(s) ==
    /\ pc[s] = "logging"
    /\ key[s] \in Keys
    /\ \E ttl \in 1..MaxTTL : set(key[s], [expires |-> now + ttl, asOf |-> asOf[s]])
    /\ Answer(s, asOf[s])
    /\ UNCHANGED <<reads, now>>

\* Any other result.
Finish(s) ==
    /\ pc[s] = "logging"
    /\ Answer(s, asOf[s])
    /\ UNCHANGED <<cache, reads, now>>

\* An exception is answered with an error page.
Fail(s) ==
    /\ pc[s] # "idle"
    /\ Leave(s)
    /\ UNCHANGED <<cache, reads, now, shown>>

-----------------------------------------------------------------------------
(* The environment.                                                        *)

\* How old the data a request has read may become: asyncio.wait_for ends a tool
\* after its timeout, and the write of the metrics follows.
Bound(s) == IF pc[s] = "rendered" THEN MaxRender ELSE MaxRender + MaxLog

Tick ==
    /\ now < MaxTime
    /\ \A s \in Requests : pc[s] \in {"rendered", "logging"} => now - asOf[s] < Bound(s)
    /\ now' = now + 1
    /\ UNCHANGED <<cache, reads, pc, key, asOf, shown>>

\* The end of lifespan clears the cache and a new process starts.
Restart ==
    /\ entry' = [k \in Keys |-> NoEntry]
    /\ older' = [k \in Keys |-> {}]
    /\ reads' = 0
    /\ pc' = [s \in Requests |-> "idle"]
    /\ key' = [s \in Requests |-> NoKey]
    /\ asOf' = [s \in Requests |-> 0]
    /\ UNCHANGED <<now, shown>>

Next ==
    \/ \E s \in Requests :
          Arrive(s) \/ Hit(s) \/ Miss(s) \/ Read(s) \/ ToolEnds(s) \/ FinishCached(s) \/ Finish(s) \/ Fail(s)
    \/ Tick \/ Restart

Spec == Init /\ [][Next]_vars

-----------------------------------------------------------------------------
(* Properties.                                                             *)

\* "bounded with TTL, prevents unbounded memory growth": whatever requests insert,
\* replace, find expired and sweep in between, the dict never holds more than its bound.
Bounded == Cardinality(Stored) <= MaxSize

\* No answer shows data read longer ago than a render, the write of its metrics and a
\* time to live, though nothing invalidates an entry, the time to live is counted from
\* the insertion only, and a slow render puts its older page over a newer one.
ShowsRecentData == shown <= MaxRender + MaxLog + MaxTTL

\* A page that has not expired is thrown out only for want of room, or with the process;
\* neither a sweep nor the expiry of another page takes it.
Cleared == pc' = [s \in Requests |-> "idle"] /\ \A k \in Keys : entry'[k] = NoEntry
EvictsOnlyWhenFull ==
    [][\A k \in Stored :
          entry'[k] = NoEntry => Expired(k) \/ Cardinality(Stored) = MaxSize \/ Cleared]_vars
=============================================================================
