----------------------------- MODULE WorkTicket -----------------------------
(***************************************************************************)
(* The work-ticket ledger of the gateway: src/work_ticket.py (grant,       *)
(* _drain, flush_with, flush_loop_with) and, of src/server.py, the writer  *)
(* _wt_write, the final flush of _wt_shutdown and the canary               *)
(* _canary_wt_flush.                                                       *)
(*                                                                         *)
(* Three tasks run flush_with: the minute loop, the final flush, and the   *)
(* canary, whose writer fails without suspending.  Grants come from worker *)
(* threads too, so they fall between any two steps; _lock makes each       *)
(* access to _counts one step.  The total and the miss count of a row move *)
(* together and are modelled as one number.                                *)
(***************************************************************************)
EXTENDS Integers

CONSTANTS
    Keys,        \* (grant point, site) pairs of real work
    CanaryKey,   \* the row the canary seeds
    MaxGrants,   \* bound: grants per key
    MaxDoubts    \* bound: failures after the write was applied

ASSUME CanaryAssumption == CanaryKey \notin Keys
ASSUME BoundAssumption  == MaxGrants \in Nat /\ MaxDoubts \in Nat

VARIABLES
    counts,    \* _counts
    rows,      \* per task: the rows it drained and has not disposed of
    pc,        \* per task: where it is in flush_with
    applied,   \* per task: db-v3 has added its rows
    written,   \* external: sums of platform_work_ticket_grants
    running,   \* FALSE from the shutdown event on
    granted,   \* history: grants made
    doubts     \* history: failures after the write was applied

vars == <<counts, rows, pc, applied, written, running, granted, doubts>>

AllKeys == Keys \cup {CanaryKey}
Tasks   == {"loop", "final", "canary"}
Zero    == [k \in AllKeys |-> 0]
Plus(f, g) == [k \in AllKeys |-> f[k] + g[k]]

TypeOK ==
    /\ counts \in [AllKeys -> Nat]
    /\ rows \in [Tasks -> [AllKeys -> Nat]]
    /\ pc \in [Tasks -> {"idle", "seeded", "writing", "restored", "done"}]
    /\ applied \in [Tasks -> BOOLEAN]
    /\ written \in [AllKeys -> Nat]
    /\ running \in BOOLEAN
    /\ granted \in [Keys -> Nat]
    /\ doubts \in 0..MaxDoubts

Init ==
    /\ counts = Zero
    /\ rows = [f \in Tasks |-> Zero]
    /\ pc = [f \in Tasks |-> "idle"]
    /\ applied = [f \in Tasks |-> FALSE]
    /\ written = Zero
    /\ running = TRUE
    /\ granted = [k \in Keys |-> 0]
    /\ doubts = 0

-----------------------------------------------------------------------------

\* Mutation: the count is read before the lock and written back after it, so
\* a grant that meets another one can be overwritten.
Grant_Unlocked(k) ==
    /\ running
    /\ granted[k] < MaxGrants
    /\ granted' = [granted EXCEPT ![k] = @ + 1]
    /\ \/ counts' = [counts EXCEPT ![k] = @ + 1]
       \/ UNCHANGED counts
    /\ UNCHANGED <<rows, pc, applied, written, running, doubts>>

Grant(k) ==
    /\ running
    /\ granted[k] < MaxGrants
    /\ granted' = [granted EXCEPT ![k] = @ + 1]
    /\ counts' = [counts EXCEPT ![k] = @ + 1]
    /\ UNCHANGED <<rows, pc, applied, written, running, doubts>>

\* The event loop is inside the canary, which suspends nowhere: until it is
\* through, only threads run.
LoopFree == pc["canary"] = "idle"

\* _drain: the rows are taken over and the shared counts start again at zero.
Take(f) ==
    /\ rows' = [rows EXCEPT ![f] = counts]
    /\ counts' = Zero
    /\ pc' = [pc EXCEPT ![f] = "writing"]

\* The minute loop, or the final flush after the shutdown event, has rows.
Drain(f) ==
    /\ LoopFree
    /\ f = "loop" \/ (f = "final" /\ ~running)
    /\ pc[f] = "idle"
    /\ counts # Zero
    /\ Take(f)
    /\ UNCHANGED <<applied, written, running, granted, doubts>>

\* db-v3 adds the rows; the answer is still to come.
Apply(f) ==
    /\ f \in {"loop", "final"}
    /\ pc[f] = "writing"
    /\ ~applied[f]
    /\ applied' = [applied EXCEPT ![f] = TRUE]
    /\ written' = Plus(written, rows[f])
    /\ UNCHANGED <<counts, rows, pc, running, granted, doubts>>

\* The task is through with its rows.
Dispose(f) ==
    /\ rows' = [rows EXCEPT ![f] = Zero]
    /\ applied' = [applied EXCEPT ![f] = FALSE]
    /\ pc' = [pc EXCEPT ![f] = IF f = "final" THEN "done" ELSE "idle"]

Acknowledged(f) ==
    /\ LoopFree
    /\ applied[f]
    /\ Dispose(f)
    /\ UNCHANGED <<counts, written, running, granted, doubts>>

\* Mutation: the rows are put back in place of what was counted meanwhile.
PutBack_Overwrites(f) == counts' = [k \in AllKeys |-> IF rows[f][k] > 0 THEN rows[f][k] ELSE counts[k]]

PutBack(f) == counts' = Plus(counts, rows[f])

\* The write raises: refused, timed out, or the answer was lost.
Fails(f) ==
    /\ LoopFree
    /\ f \in {"loop", "final"}
    /\ pc[f] = "writing"
    /\ applied[f] => doubts < MaxDoubts
    /\ doubts' = IF applied[f] THEN doubts + 1 ELSE doubts
    /\ PutBack(f)
    /\ Dispose(f)
    /\ UNCHANGED <<written, running, granted>>

-----------------------------------------------------------------------------
(* The canary: seed, drain, fail, put back, remove the seed.               *)

CanarySeed ==
    /\ LoopFree
    /\ running
    /\ counts' = [counts EXCEPT ![CanaryKey] = @ + 1]
    /\ pc' = [pc EXCEPT !["canary"] = "seeded"]
    /\ UNCHANGED <<rows, applied, written, running, granted, doubts>>

CanaryDrain ==
    /\ pc["canary"] = "seeded"
    /\ Take("canary")
    /\ UNCHANGED <<applied, written, running, granted, doubts>>

CanaryFails ==
    /\ pc["canary"] = "writing"
    /\ PutBack("canary")
    /\ rows' = [rows EXCEPT !["canary"] = Zero]
    /\ pc' = [pc EXCEPT !["canary"] = "restored"]
    /\ UNCHANGED <<applied, written, running, granted, doubts>>

\* Mutation: the seeded row is left behind.
CanaryRemove_KeepsSeed ==
    /\ pc["canary"] = "restored"
    /\ pc' = [pc EXCEPT !["canary"] = "idle"]
    /\ UNCHANGED <<counts, rows, applied, written, running, granted, doubts>>

CanaryRemove ==
    /\ pc["canary"] = "restored"
    /\ counts' = [counts EXCEPT ![CanaryKey] = 0]
    /\ pc' = [pc EXCEPT !["canary"] = "idle"]
    /\ UNCHANGED <<rows, applied, written, running, granted, doubts>>

-----------------------------------------------------------------------------
(* Shutdown.  Requests have ended; the minute loop may be in the middle of *)
(* a write.                                                                *)

Shutdown ==
    /\ LoopFree
    /\ running
    /\ running' = FALSE
    /\ UNCHANGED <<counts, rows, pc, applied, written, granted, doubts>>

\* wait_for cancels the final flush after 5 s; CancelledError is no Exception,
\* so nothing is put back.
Cancelled ==
    /\ pc["final"] = "writing"
    /\ Dispose("final")
    /\ UNCHANGED <<counts, written, running, granted, doubts>>

\* flush_with returns at once: there is nothing to write.
NothingToFlush ==
    /\ ~running
    /\ pc["final"] = "idle"
    /\ counts = Zero
    /\ pc' = [pc EXCEPT !["final"] = "done"]
    /\ UNCHANGED <<counts, rows, applied, written, running, granted, doubts>>

-----------------------------------------------------------------------------

Canary == CanarySeed \/ CanaryDrain \/ CanaryFails \/ CanaryRemove

Next ==
    \/ \E k \in Keys : Grant(k)
    \/ \E f \in Tasks : Drain(f) \/ Apply(f) \/ Acknowledged(f) \/ Fails(f)
    \/ Canary \/ Shutdown \/ Cancelled \/ NothingToFlush

Spec == Init /\ [][Next]_vars

-----------------------------------------------------------------------------
(* Properties.                                                             *)

Waiting(f, k) == IF applied[f] THEN 0 ELSE rows[f][k]
InBooks(f, k) == IF applied[f] THEN rows[f][k] ELSE 0

\* The ledger keeps the promise of GrantBooks until the shutdown event: what
\* is owed is counted or drained and not yet applied.
Books == INSTANCE GrantBooks WITH
    owed <- [k \in Keys |-> counts[k] + Waiting("loop", k) + Waiting("final", k) + rows["canary"][k]],
    posted <- [k \in Keys |-> InBooks("loop", k) + InBooks("final", k)],
    settled <- [k \in Keys |-> written[k] - InBooks("loop", k) - InBooks("final", k)],
    open <- running

KeepsBooks == Books!BSpec

\* Up to failures whose write had been applied, the books are exact: no flush
\* overlapping another one, a grant or the canary counts a grant twice.
Exact ==
    running /\ doubts = 0 =>
        \A k \in Keys : granted[k] =
            written[k] + counts[k] + Waiting("loop", k) + Waiting("final", k) + rows["canary"][k]

\* The row the canary seeds is never written, whatever flushes meanwhile ("so
\* nothing is written to the grants table and no real count is lost").
CanaryNeverWritten ==
    /\ written[CanaryKey] = 0
    /\ \A f \in {"loop", "final"} : rows[f][CanaryKey] = 0

\* "last flush before the instance goes away, so its final minute of counts is
\* not lost" (server.py:1745): when the final flush is over and the loop's is
\* not under way, what was granted is in the books or at least still counted.
FinalMinuteNotLost ==
    pc["final"] = "done" /\ pc["loop"] = "idle" =>
        \A k \in Keys : written[k] + counts[k] + rows["canary"][k] >= granted[k]
=============================================================================
