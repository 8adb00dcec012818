----------------------------- MODULE CodeCache -----------------------------
(***************************************************************************)
(* Which code a dispatch of db-v3 runs: src/main.py, _dispatch with        *)
(* _CODE_CACHE, _restore_registry_from_history and the end of the          *)
(* lifespan, for one tool and one replica.                                 *)
(*                                                                         *)
(* A dispatch reads the tool's row through SmartPool, is suspended, and    *)
(* then looks for compiled code of the row's version in the cache, while   *)
(* other dispatches do the same with rows they read earlier or later.      *)
(* The registry lives in AlloyDB and has a copy in BigQuery, which serves  *)
(* reads and writes in degraded mode: a write there appends a row, and a   *)
(* read takes any row of the tool.                                         *)
(***************************************************************************)
EXTENDS Naturals, FiniteSets

CONSTANTS
    Dispatches,   \* slots for concurrent dispatches of the tool
    Codes,        \* bodies the tool has had
    Broken,       \* those that do not compile
    FirstCode,    \* the one it has at first
    None,         \* no code
    HistoryLags,  \* the newest row of tool_registry_history may be an older one
    MaxVersion,   \* bound: version numbers followed
    MaxRows       \* bound: rows of the tool in BigQuery

ASSUME CodesAssumption ==
    /\ Broken \subseteq Codes
    /\ FirstCode \in Codes \ Broken
    /\ None \notin Codes
    /\ HistoryLags \in BOOLEAN
ASSUME BoundAssumption == MaxVersion \in Nat \ {0} /\ MaxRows \in Nat \ {0}

VARIABLES
    alloydb,    \* external: the row in AlloyDB's tool_registry
    previous,   \* external: the row before the last change of it
    bigquery,   \* external: the rows of the tool in BigQuery's tool_registry
    unreplayed, \* external: those of them with _degraded_replayed = FALSE
    degraded,   \* SmartPool._degraded
    cache,      \* _CODE_CACHE[tool_name]
    pc,         \* per dispatch: idle, reading, loaded, running
    source,     \* per dispatch: it is reading from BigQuery
    row,        \* per dispatch: the row it read
    ran,        \* per dispatch: the code it runs
    named       \* history: the bodies each version number has named

registry == <<alloydb, previous, bigquery, unreplayed, named>>
vars == <<registry, degraded, cache, pc, source, row, ran>>

Versions == 1..MaxVersion
Rows     == [version : Versions, code : Codes]
Compiled == [version : Versions, code : Codes \ Broken]
NoRow    == [version |-> 0, code |-> None]

TypeOK ==
    /\ alloydb \in Rows
    /\ previous \in Rows
    /\ bigquery \subseteq Rows
    /\ unreplayed \subseteq bigquery
    /\ degraded \in BOOLEAN
    /\ cache \in Compiled \cup {NoRow}
    /\ pc \in [Dispatches -> {"idle", "reading", "loaded", "running"}]
    /\ source \in [Dispatches -> BOOLEAN]
    /\ row \in [Dispatches -> Rows \cup {NoRow}]
    /\ ran \in [Dispatches -> Codes \cup {None}]
    /\ named \in [Versions -> SUBSET Codes]

Names(r) == [v \in Versions |-> IF v = r.version THEN {r.code} ELSE {}]

Init ==
    /\ alloydb = [version |-> 1, code |-> FirstCode]
    /\ previous = alloydb
    /\ bigquery = {alloydb}
    /\ unreplayed = {}
    /\ degraded = FALSE
    /\ cache = NoRow
    /\ pc = [d \in Dispatches |-> "idle"]
    /\ source = [d \in Dispatches |-> FALSE]
    /\ row = [d \in Dispatches |-> NoRow]
    /\ ran = [d \in Dispatches |-> None]
    /\ named = Names(alloydb)

-----------------------------------------------------------------------------
(* _dispatch.                                                              *)

\* The pool decides on acquire which store the connection belongs to.
Begin(d) ==
    /\ pc[d] = "idle"
    /\ pc' = [pc EXCEPT ![d] = "reading"]
    /\ source' = [source EXCEPT ![d] = degraded]
    /\ UNCHANGED <<registry, degraded, cache, row, ran>>

\* A connection of AlloyDB that fails is made good by BigQuery if the replica
\* has failed over by then.
Readable(d) ==
    (IF source[d] THEN {} ELSE {alloydb}) \cup (IF source[d] \/ degraded THEN bigquery ELSE {})

ReadRow(d) ==
    /\ pc[d] = "reading"
    /\ pc' = [pc EXCEPT ![d] = "loaded"]
    /\ \E r \in Readable(d) : row' = [row EXCEPT ![d] = r]
    /\ source' = [source EXCEPT ![d] = FALSE]
    /\ UNCHANGED <<registry, degraded, cache, ran>>

\* The dispatch is over, with its result or with an exception.
End(d) ==
    /\ pc' = [pc EXCEPT ![d] = "idle"]
    /\ source' = [source EXCEPT ![d] = FALSE]
    /\ row' = [row EXCEPT ![d] = NoRow]
    /\ ran' = [ran EXCEPT ![d] = None]
    /\ UNCHANGED <<registry, degraded, cache>>

\* Rate limited, no row that is enabled, or no answer from the store.
Refused(d) == pc[d] = "reading" /\ End(d)

\* Mutation: any entry will do.
Hit_AnyVersion(d) == cache # NoRow

Hit(d) == cache # NoRow /\ cache.version = row[d].version

Runs(d, code) ==
    /\ pc' = [pc EXCEPT ![d] = "running"]
    /\ ran' = [ran EXCEPT ![d] = code]
    /\ UNCHANGED <<registry, degraded, source, row>>

RunCached(d) ==
    /\ pc[d] = "loaded"
    /\ Hit(d)
    /\ Runs(d, cache.code)
    /\ UNCHANGED cache

\* Mutation: the entry is made before the code is compiled.
RunCompiled_StoresFirst(d) ==
    /\ pc[d] = "loaded"
    /\ ~Hit(d)
    /\ Runs(d, row[d].code)
    /\ cache' = row[d]

\* Mutation: an entry is made once and never replaced.
RunCompiled_KeepsEntry(d) ==
    /\ pc[d] = "loaded"
    /\ ~Hit(d)
    /\ row[d].code \notin Broken
    /\ Runs(d, row[d].code)
    /\ cache' = IF cache = NoRow THEN row[d] ELSE cache

RunCompiled(d) ==
    /\ pc[d] = "loaded"
    /\ ~Hit(d)
    /\ row[d].code \notin Broken
    /\ Runs(d, row[d].code)
    /\ cache' = row[d]

\* SyntaxError: the old entry stays.
CompileFails(d) ==
    /\ pc[d] = "loaded"
    /\ ~Hit(d)
    /\ row[d].code \in Broken
    /\ End(d)

\* `run` returns, raises or times out; or the code has no async `run`.
Return(d) == pc[d] = "running" /\ End(d)

-----------------------------------------------------------------------------
(* The registry and its copy, written by the tools of every replica, each  *)
(* in normal or in degraded mode.                                          *)

Successors(r) == {s \in Rows : s.version = r.version + 1}

Named(r) == named' = [named EXCEPT ![r.version] = @ \cup {r.code}]

\* A tool writes the registry: the version is bumped.
Update ==
    /\ \E r \in Successors(alloydb) : alloydb' = r /\ Named(r)
    /\ previous' = alloydb
    /\ UNCHANGED <<bigquery, unreplayed, degraded, cache, pc, source, row, ran>>

\* In a degraded replica the write is an insertAll, tagged for replay: ON CONFLICT
\* is cut off and the rows before it stay.
DegradedUpdate ==
    /\ Cardinality(bigquery) < MaxRows
    /\ \E old \in bigquery : \E r \in Successors(old) :
          /\ bigquery' = bigquery \cup {r}
          /\ unreplayed' = unreplayed \cup {r}
          /\ Named(r)
    /\ UNCHANGED <<alloydb, previous, degraded, cache, pc, source, row, ran>>

\* The newest row of tool_registry_history comes back.  Who writes the history
\* is not in the repository: it may or may not have the registry's own row.
Restore ==
    /\ alloydb' \in (IF HistoryLags THEN {alloydb, previous} ELSE {alloydb})
    /\ previous' = alloydb
    /\ UNCHANGED <<bigquery, unreplayed, degraded, cache, pc, source, row, ran, named>>

\* bq_replay takes a row of the degraded time to AlloyDB.
Replay ==
    /\ \E r \in unreplayed : alloydb' = r /\ unreplayed' = unreplayed \ {r}
    /\ previous' = alloydb
    /\ UNCHANGED <<bigquery, degraded, cache, pc, source, row, ran, named>>

\* The DR synchronisation loads AlloyDB's row with WRITE_TRUNCATE.
Synchronise ==
    /\ bigquery' = {alloydb}
    /\ unreplayed' = {}
    /\ UNCHANGED <<alloydb, previous, degraded, cache, pc, source, row, ran, named>>

\* SmartPool changes its mode.
SwitchMode ==
    /\ degraded' = ~degraded
    /\ UNCHANGED <<registry, cache, pc, source, row, ran>>

\* The replica drains for eight seconds, clears its caches and ends; a new one
\* starts with an empty cache.
Restart ==
    /\ cache' = NoRow
    /\ degraded' \in BOOLEAN
    /\ pc' = [d \in Dispatches |-> "idle"]
    /\ source' = [d \in Dispatches |-> FALSE]
    /\ row' = [d \in Dispatches |-> NoRow]
    /\ ran' = [d \in Dispatches |-> None]
    /\ UNCHANGED registry

-----------------------------------------------------------------------------

Proceed(d) == ReadRow(d) \/ Refused(d) \/ RunCached(d) \/ RunCompiled(d) \/ CompileFails(d) \/ Return(d)

Next ==
    \/ \E d \in Dispatches : Begin(d) \/ Proceed(d)
    \/ Update \/ DegradedUpdate \/ Restore \/ Replay \/ Synchronise \/ SwitchMode \/ Restart

Spec == Init /\ [][Next]_vars

\* Every await of a dispatch ends, a tool after its timeout.  Callers keep
\* calling, and not every call is refused.
Fairness ==
    /\ \A d \in Dispatches : WF_vars(Proceed(d)) /\ WF_vars(Begin(d))
    /\ SF_vars(\E d \in Dispatches : ReadRow(d))

FairSpec == Spec /\ Fairness

-----------------------------------------------------------------------------
(* Properties.                                                             *)

\* While a version number names one body only, a dispatch runs the code of the
\* row it read, whatever older or newer rows concurrent dispatches put in the
\* cache between its read and its run.
RunsItsRow ==
    \A d \in Dispatches :
        pc[d] = "running" /\ (\E c \in Codes : named[row[d].version] = {c}) => ran[d] = row[d].code

\* What new dispatches read in mode m.
Served(m) == IF m THEN bigquery ELSE {alloydb}

\* "Evicts on version bump": once the replica stays in a mode, and the version
\* registered in that mode's store stays the same and compiles, the cache ends
\* up with that version or with nothing; a slow dispatch that began in another
\* mode or read an old row does not bring the old version back for good.
EvictsOnBump ==
    \A v \in Versions, m \in BOOLEAN :
        <>[](degraded = m /\ \A r \in Served(m) : r.version = v /\ r.code \notin Broken)
            => <>[](cache = NoRow \/ cache.version = v)

\* "Every call reads fresh from tool_registry -- no in-memory cache"
\* (main.py:352): a dispatch runs the code of the row it read.
FreshCode == \A d \in Dispatches : pc[d] = "running" => ran[d] = row[d].code
=============================================================================
