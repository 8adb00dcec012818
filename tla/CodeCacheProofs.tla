-------------------------- MODULE CodeCacheProofs --------------------------
(***************************************************************************)
(* Proofs about CodeCache.  RunsItsRow is not inductive: what a dispatch   *)
(* runs may come from the cache, whose entry was made from a row some      *)
(* other dispatch read, from either store and before any number of         *)
(* updates, restores, replays and synchronisations.  All that holds of     *)
(* such a row is that its version number has named its code at some time,  *)
(* and that is the strengthening: every row, wherever it is, is a named    *)
(* one, and so is what runs.                                               *)
(***************************************************************************)
EXTENDS CodeCache, TLAPS

IsNamed(r) == r.code \in named[r.version]

RowsAreNamed ==
    /\ IsNamed(alloydb)
    /\ IsNamed(previous)
    /\ \A r \in bigquery : IsNamed(r)
    /\ cache # NoRow => IsNamed(cache)
    /\ \A d \in Dispatches : pc[d] \in {"loaded", "running"} => row[d] \in Rows /\ IsNamed(row[d])

RunsNamed == \A d \in Dispatches : pc[d] = "running" => ran[d] \in named[row[d].version]

IInv == TypeOK /\ RowsAreNamed /\ RunsNamed

-----------------------------------------------------------------------------

LEMMA InitInvariant == Init => IInv
<1> SUFFICES ASSUME Init PROVE IInv
  OBVIOUS
<1>1. 1 \in Versions /\ FirstCode \in Codes
  BY CodesAssumption, BoundAssumption DEF Versions
<1>2. alloydb \in Rows /\ alloydb.version = 1 /\ alloydb.code = FirstCode
  BY <1>1 DEF Init, Rows
<1>3. named \in [Versions -> SUBSET Codes] /\ IsNamed(alloydb)
  BY <1>1, <1>2 DEF Init, Names, IsNamed
<1>4. TypeOK
  BY <1>2, <1>3 DEF Init, TypeOK
<1>5. RowsAreNamed /\ RunsNamed
  BY <1>2, <1>3 DEF Init, RowsAreNamed, RunsNamed
<1> QED
  BY <1>4, <1>5 DEF IInv

\* What is named stays named, so a step that leaves the dispatches and the
\* cache alone need only look at the rows it writes.
LEMMA RegistryStep ==
  ASSUME IInv,
         alloydb' \in Rows, previous' = alloydb \/ previous' = previous,
         bigquery' \subseteq Rows, unreplayed' \subseteq bigquery',
         named' \in [Versions -> SUBSET Codes],
         \A v \in Versions : named[v] \subseteq named'[v],
         IsNamed(alloydb)', \A r \in bigquery' : r.code \in named'[r.version],
         UNCHANGED <<degraded, cache, pc, source, row, ran>>
  PROVE  IInv'
<1>1. TypeOK'
  BY DEF IInv, TypeOK
<1>2. \A r \in Rows : r.version \in Versions
  BY DEF Rows
<1>3. cache # NoRow => cache.version \in Versions
  BY DEF IInv, TypeOK, Compiled
<1>4. RowsAreNamed'
  <2>1. IsNamed(previous)'
    BY <1>2 DEF IInv, TypeOK, RowsAreNamed, IsNamed
  <2>2. (cache # NoRow => IsNamed(cache))'
    BY <1>3 DEF IInv, RowsAreNamed, IsNamed
  <2>3. ASSUME NEW d \in Dispatches, pc[d] \in {"loaded", "running"}
        PROVE  row[d] \in Rows /\ row[d].code \in named'[row[d].version]
    BY <1>2, <2>3 DEF IInv, RowsAreNamed, IsNamed
  <2> QED
    BY <2>1, <2>2, <2>3 DEF RowsAreNamed, IsNamed
<1>5. RunsNamed'
  BY <1>2 DEF IInv, RowsAreNamed, RunsNamed
<1> QED
  BY <1>1, <1>4, <1>5 DEF IInv

LEMMA NextInvariant == IInv /\ [Next]_vars => IInv'
<1> SUFFICES ASSUME IInv, [Next]_vars PROVE IInv'
  OBVIOUS
<1> USE DEF registry
<1>1. ASSUME NEW d \in Dispatches, Begin(d) PROVE IInv'
  BY <1>1 DEF Begin, IInv, TypeOK, RowsAreNamed, RunsNamed, IsNamed
<1>2. ASSUME NEW d \in Dispatches, ReadRow(d) PROVE IInv'
  <2>1. PICK r \in Readable(d) : row' = [row EXCEPT ![d] = r]
    BY <1>2 DEF ReadRow
  <2>2. r \in Rows /\ IsNamed(r)
    BY <2>1 DEF Readable, IInv, TypeOK, RowsAreNamed
  <2>3. TypeOK'
    BY <1>2, <2>1, <2>2 DEF ReadRow, IInv, TypeOK
  <2>4. RowsAreNamed' /\ RunsNamed'
    BY <1>2, <2>1, <2>2 DEF ReadRow, IInv, TypeOK, RowsAreNamed, RunsNamed, IsNamed
  <2> QED
    BY <2>3, <2>4 DEF IInv
<1>3. ASSUME NEW d \in Dispatches, End(d) PROVE IInv'
  BY <1>3 DEF End, IInv, TypeOK, RowsAreNamed, RunsNamed, IsNamed
<1>4. ASSUME NEW d \in Dispatches, RunCached(d) PROVE IInv'
  <2>1. cache \in Compiled /\ cache.code \in named[row[d].version]
    BY <1>4 DEF RunCached, Hit, IInv, TypeOK, RowsAreNamed, IsNamed
  <2>2. TypeOK'
    BY <1>4, <2>1 DEF RunCached, Runs, IInv, TypeOK, Compiled
  <2>3. RowsAreNamed' /\ RunsNamed'
    BY <1>4, <2>1 DEF RunCached, Runs, IInv, TypeOK, RowsAreNamed, RunsNamed, IsNamed
  <2> QED
    BY <2>2, <2>3 DEF IInv
<1>5. ASSUME NEW d \in Dispatches, RunCompiled(d) PROVE IInv'
  <2>1. row[d] \in Rows /\ IsNamed(row[d]) /\ row[d] \in Compiled
    BY <1>5 DEF RunCompiled, IInv, RowsAreNamed, Rows, Compiled
  <2>2. TypeOK'
    BY <1>5, <2>1 DEF RunCompiled, Runs, IInv, TypeOK, Rows
  <2>3. RowsAreNamed' /\ RunsNamed'
    BY <1>5, <2>1 DEF RunCompiled, Runs, IInv, TypeOK, RowsAreNamed, RunsNamed, IsNamed
  <2> QED
    BY <2>2, <2>3 DEF IInv
<1>6. CASE Update
  <2>1. PICK r \in Rows : alloydb' = r /\ Named(r)
    BY <1>6 DEF Update, Successors
  <2> QED
    BY <1>6, <2>1, RegistryStep
       DEF Update, Named, IInv, TypeOK, RowsAreNamed, IsNamed, Rows
<1>7. CASE DegradedUpdate
  <2>1. PICK r \in Rows : /\ bigquery' = bigquery \cup {r}
                          /\ unreplayed' = unreplayed \cup {r}
                          /\ Named(r)
    BY <1>7 DEF DegradedUpdate, Successors
  <2> QED
    BY <1>7, <2>1, RegistryStep
       DEF DegradedUpdate, Named, IInv, TypeOK, RowsAreNamed, IsNamed, Rows
<1>8. CASE Restore
  BY <1>8, RegistryStep DEF Restore, IInv, TypeOK, RowsAreNamed, IsNamed
<1>9. CASE Replay
  BY <1>9, RegistryStep DEF Replay, IInv, TypeOK, RowsAreNamed, IsNamed
<1>10. CASE Synchronise
  BY <1>10, RegistryStep DEF Synchronise, IInv, TypeOK, RowsAreNamed, IsNamed
<1>11. CASE SwitchMode
  BY <1>11 DEF SwitchMode, IInv, TypeOK, RowsAreNamed, RunsNamed, IsNamed
<1>12. CASE Restart
  BY <1>12 DEF Restart, IInv, TypeOK, RowsAreNamed, RunsNamed, IsNamed
<1>13. CASE UNCHANGED vars
  BY <1>13 DEF vars, IInv, TypeOK, RowsAreNamed, RunsNamed, IsNamed
<1> QED
  BY <1>1, <1>2, <1>3, <1>4, <1>5, <1>6, <1>7, <1>8, <1>9, <1>10, <1>11, <1>12, <1>13
     DEF Next, Proceed, Refused, CompileFails, Return

-----------------------------------------------------------------------------

\* The invariant holds throughout.
THEOREM Invariant == Spec => []IInv
  BY InitInvariant, NextInvariant, PTL DEF Spec

\* Types: in particular the cache never holds code that does not compile,
\* and nothing waits for replay that is not in the table.
THEOREM TypeCorrect == Spec => []TypeOK
<1>1. IInv => TypeOK
  BY DEF IInv
<1> QED
  BY <1>1, Invariant, PTL

\* For any number of dispatches, versions and bodies: a dispatch runs the code
\* of its row as long as the row's version number has named no other.
THEOREM RunsItsRowAlways == Spec => []RunsItsRow
<1>1. IInv => RunsItsRow
  <2> SUFFICES ASSUME IInv, NEW d \in Dispatches, pc[d] = "running",
                      NEW c \in Codes, named[row[d].version] = {c}
               PROVE  ran[d] = row[d].code
    BY DEF RunsItsRow
  <2> QED
    BY DEF IInv, RowsAreNamed, RunsNamed, IsNamed
<1> QED
  BY <1>1, Invariant, PTL
=============================================================================
