----------------------------- MODULE SpanBuffer -----------------------------
(***************************************************************************)
(* The span and error-record buffers of the gateway: src/server.py,        *)
(* _wt_span_add, _tl_error, _wt_span_flush, _wt_span_loop and the final    *)
(* flush of _wt_shutdown.                                                  *)
(*                                                                         *)
(* Two tasks run _wt_span_flush: the five-second loop and the final flush. *)
(* It suspends only while a batch is being written, and spans and error    *)
(* records are added meanwhile.  Both buffers drop their oldest item when  *)
(* they are full.  A failed write is itself an error that is recorded,     *)
(* unless it was recorded within the last minute.                          *)
(***************************************************************************)
EXTENDS Integers, FiniteSets, Sequences, SequencesExt

CONSTANTS
    MaxSpans, SpanBatch,     \* _WT_SPANS_MAX, _WT_SPAN_BATCH
    MaxErrors, ErrorBatch,   \* _TL_ERRORS_MAX, _TL_FLUSH_MAX
    MaxAdded                 \* bound: items added to each buffer

ASSUME SizeAssumption ==
    /\ MaxSpans \in Nat \ {0} /\ SpanBatch \in Nat \ {0}
    /\ MaxErrors \in Nat \ {0} /\ ErrorBatch \in Nat \ {0}
    /\ MaxAdded \in Nat

VARIABLES
    queue,     \* _WT_SPANS and _TL_ERRORS: the numbers of the items, in order
    batch,     \* per task: what it is writing
    met,       \* per task: the conditions of db-v3 met since it began to write
    applied,   \* per task: db-v3 has taken its batch
    pc,        \* per task: idle, writing, done
    dropped,   \* _WT_SPANS_DROPPED
    running,   \* FALSE from the shutdown event on
    db,        \* external: db-v3 answers (up) or fails (down)
    added,     \* history: items added
    stored,    \* history: items db-v3 has taken
    reported   \* history: drops logged

buffers == <<queue, batch, met, applied, pc, dropped, running, db, added, stored, reported>>

Kinds == {"spans", "errors"}
Tasks == {"loop", "final"}
Capacity  == [spans |-> MaxSpans, errors |-> MaxErrors]
BatchSize == [spans |-> SpanBatch, errors |-> ErrorBatch]
Nothing   == [k \in Kinds |-> <<>>]
Items     == 1..MaxAdded

BufferTypeOK ==
    /\ \A k \in Kinds : queue[k] \in Seq(Items) /\ Len(queue[k]) <= Capacity[k]
    /\ \A f \in Tasks, k \in Kinds : batch[f][k] \in Seq(Items) /\ Len(batch[f][k]) <= BatchSize[k]
    /\ met \in [Tasks -> SUBSET {"up", "down"}]
    /\ applied \in [Tasks -> BOOLEAN]
    /\ pc \in [Tasks -> {"idle", "writing", "done"}]
    /\ dropped \in 0..MaxAdded
    /\ running \in BOOLEAN
    /\ db \in {"up", "down"}
    /\ added \in [Kinds -> 0..MaxAdded]
    /\ stored \in [Kinds -> SUBSET Items]
    /\ reported \in 0..MaxAdded

BufferInit ==
    /\ queue = Nothing
    /\ batch = [f \in Tasks |-> Nothing]
    /\ met = [f \in Tasks |-> {}]
    /\ applied = [f \in Tasks |-> FALSE]
    /\ pc = [f \in Tasks |-> "idle"]
    /\ dropped = 0
    /\ running = TRUE
    /\ db = "up"
    /\ added = [k \in Kinds |-> 0]
    /\ stored = [k \in Kinds |-> {}]
    /\ reported = 0

-----------------------------------------------------------------------------

\* Python's q[:n].
First(q, n) == SubSeq(q, 1, IF n < Len(q) THEN n ELSE Len(q))

Full(k) == Len(queue[k]) >= Capacity[k]

\* A new item at the end; the oldest one makes room.
Pushed(q, k, item) == Append(IF Len(q) >= Capacity[k] THEN Tail(q) ELSE q, item)

\* _wt_span_add counts what it drops; _tl_error does not.
Add(k) ==
    /\ added[k] < MaxAdded
    /\ added' = [added EXCEPT ![k] = @ + 1]
    /\ queue' = [queue EXCEPT ![k] = Pushed(@, k, added'[k])]
    /\ dropped' = IF k = "spans" /\ Full(k) THEN dropped + 1 ELSE dropped
    /\ UNCHANGED <<batch, met, applied, pc, running, db, stored, reported>>

-----------------------------------------------------------------------------
(* _wt_span_flush.                                                         *)

Prefix(k) == First(queue[k], BatchSize[k])
Rest(k)   == SubSeq(queue[k], Len(Prefix(k)) + 1, Len(queue[k]))

\* The next batch is taken and its write begins.
NextBatch(f) ==
    /\ queue # Nothing
    /\ batch' = [batch EXCEPT ![f] = [k \in Kinds |-> Prefix(k)]]
    /\ queue' = [k \in Kinds |-> Rest(k)]
    /\ met' = [met EXCEPT ![f] = {db}]
    /\ pc' = [pc EXCEPT ![f] = "writing"]
    /\ UNCHANGED <<dropped, reported, added>>

\* The flush ends: drops are logged.
Leave(f) ==
    /\ batch' = [batch EXCEPT ![f] = Nothing]
    /\ met' = [met EXCEPT ![f] = {}]
    /\ pc' = [pc EXCEPT ![f] = IF f = "final" THEN "done" ELSE "idle"]
    /\ reported' = reported + dropped
    /\ dropped' = 0

\* Mutation: the loop looks at the spans only.
Round_SpansOnly(f) ==
    \/ queue["spans"] # <<>> /\ NextBatch(f)
    \/ queue["spans"] = <<>> /\ Leave(f) /\ UNCHANGED <<queue, added>>

\* The test of the loop: another batch, or the end.
Round(f) == NextBatch(f) \/ (queue = Nothing /\ Leave(f) /\ UNCHANGED <<queue, added>>)

Flush(f) ==
    /\ pc[f] = "idle"
    /\ f = "final" => ~running
    /\ Round(f)
    /\ UNCHANGED <<applied, running, db, stored>>

\* db-v3 takes the batch; the answer is still to come.
Apply(f) ==
    /\ "up" \in met[f]
    /\ ~applied[f]
    /\ applied' = [applied EXCEPT ![f] = TRUE]
    /\ stored' = [k \in Kinds |-> stored[k] \cup ToSet(batch[f][k])]
    /\ UNCHANGED <<queue, batch, met, pc, dropped, running, db, added, reported>>

Acknowledged(f) ==
    /\ applied[f]
    /\ Round(f)
    /\ applied' = [applied EXCEPT ![f] = FALSE]
    /\ UNCHANGED <<running, db, stored>>

\* Mutation: the batch goes to the end of the buffer.
Returned_AtEnd(f, k) ==
    queue[k] \o First(batch[f][k], Capacity[k] - Len(queue[k]))

\* Mutation: the bound of the buffer is forgotten.
Returned_Unbounded(f, k) == batch[f][k] \o queue[k]

\* Mutation: nothing goes back into a buffer that has filled up to one place.
Returned_OffByOne(f, k) ==
    First(batch[f][k], Capacity[k] - Len(queue[k]) - 1) \o queue[k]

\* What is left of a batch goes back to the front of its buffer: as much of it
\* as there is room for.
Returned(f, k) ==
    First(batch[f][k], Capacity[k] - Len(queue[k])) \o queue[k]

\* The write raises.  The warning is logged inside the except block, so that
\* the failure becomes an error record, once a minute.
Fails(f) ==
    /\ "down" \in met[f]
    /\ \/ /\ queue' = [k \in Kinds |-> Returned(f, k)]
          /\ UNCHANGED added
       \/ /\ added["errors"] < MaxAdded
          /\ added' = [added EXCEPT !["errors"] = @ + 1]
          /\ queue' = [spans  |-> Returned(f, "spans"),
                       errors |-> Pushed(Returned(f, "errors"), "errors", added'["errors"])]
    /\ Leave(f)
    /\ applied' = [applied EXCEPT ![f] = FALSE]
    /\ UNCHANGED <<running, db, stored>>

-----------------------------------------------------------------------------

Shutdown ==
    /\ running
    /\ running' = FALSE
    /\ UNCHANGED <<queue, batch, met, applied, pc, dropped, db, added, stored, reported>>

\* wait_for gives the final flush five seconds and cancels it: what it was
\* writing is not put back.
Cancelled ==
    /\ pc["final"] = "writing"
    /\ batch' = [batch EXCEPT !["final"] = Nothing]
    /\ met' = [met EXCEPT !["final"] = {}]
    /\ applied' = [applied EXCEPT !["final"] = FALSE]
    /\ pc' = [pc EXCEPT !["final"] = "done"]
    /\ UNCHANGED <<queue, dropped, running, db, added, stored, reported>>

DbChange ==
    /\ db' \in {"up", "down"} \ {db}
    /\ met' = [f \in Tasks |-> IF met[f] = {} THEN {} ELSE met[f] \cup {db'}]
    /\ UNCHANGED <<queue, batch, applied, pc, dropped, running, added, stored, reported>>

-----------------------------------------------------------------------------

Step(f) == Flush(f) \/ Apply(f) \/ Acknowledged(f) \/ Fails(f)

BufferNext == (\E k \in Kinds : Add(k)) \/ (\E f \in Tasks : Step(f)) \/ Shutdown \/ Cancelled \/ DbChange

BufferSpec == BufferInit /\ [][BufferNext]_buffers

\* The loop wakes every five seconds; httpx ends every write (10 s), wait_for
\* the final flush (5 s).
BufferFairSpec == BufferSpec /\ WF_buffers(Step("loop")) /\ WF_buffers(Step("final") \/ Cancelled)

-----------------------------------------------------------------------------
(* Properties.                                                             *)

Held(k) == ToSet(queue[k]) \cup UNION {ToSet(batch[f][k]) : f \in Tasks}

\* Before shutdown, what waits and what is being written are in the order in
\* which it was added, whatever was put back: db-v3 gets the oldest first.
InOrder ==
    running => \A k \in Kinds :
        LET all == batch["loop"][k] \o queue[k]
        IN  \A i, j \in DOMAIN all : i < j => all[i] < all[j]

\* Before shutdown db-v3 has nothing newer than what it has yet to get, although a batch
\* that it took and whose answer was lost is put back and sent again.
OldestFirst ==
    running => \A k \in Kinds : \A n \in Held(k), m \in stored[k] : n < m => n \in stored[k]

\* "A db-v3 blip loses nothing that fits": an item the gateway holds goes to
\* db-v3, or is lost in a step that leaves its buffer full.
LosesOnlyWhenFull ==
    [][running => \A k \in Kinds :
          Held(k) \subseteq Held(k)' \cup stored[k]' \/ Len(queue'[k]) = Capacity[k]]_buffers

\* Once db-v3 answers for good nothing stays in the gateway for ever, although
\* every failed write puts its batch back and adds an error record: when no more
\* is added (the bound), both buffers end up empty.
AllIsSent ==
    <>[](db = "up") => <>[](\A k \in Kinds : Held(k) = {})

\* "Spans are buffered (bounded, oldest dropped and counted)" (server.py:219):
\* a span that is neither held nor taken by db-v3 was counted as dropped.
DropsCounted ==
    running => Cardinality((1..added["spans"]) \ (Held("spans") \cup stored["spans"])) = dropped + reported
=============================================================================
