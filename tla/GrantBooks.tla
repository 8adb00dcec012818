----------------------------- MODULE GrantBooks -----------------------------
(***************************************************************************)
(* What the work-ticket ledger promises (src/work_ticket.py, flush_with:   *)
(* "On any failure the counts are put back, so the next flush retries and  *)
(* nothing is lost"): while the books are open every grant is owed or in   *)
(* the books.  An amount whose posting was not acknowledged may be owed    *)
(* and in the books at once, so it can be counted twice, never dropped.    *)
(***************************************************************************)
EXTENDS Integers

CONSTANT Keys   \* (grant point, site) pairs

VARIABLES
    granted,   \* grants made
    owed,      \* grants not yet in the books
    posted,    \* in the books, the posting not yet acknowledged
    settled,   \* in the books, or left there by a posting given up
    open       \* the promise holds while the books are open

bvars == <<granted, owed, posted, settled, open>>

BTypeOK ==
    /\ granted \in [Keys -> Nat]
    /\ owed \in [Keys -> Nat]
    /\ posted \in [Keys -> Nat]
    /\ settled \in [Keys -> Nat]
    /\ open \in BOOLEAN

BInit ==
    /\ granted = [k \in Keys |-> 0]
    /\ owed = granted
    /\ posted = granted
    /\ settled = granted
    /\ open = TRUE

Record(k) ==
    /\ granted' = [granted EXCEPT ![k] = @ + 1]
    /\ owed' = [owed EXCEPT ![k] = @ + 1]
    /\ UNCHANGED <<posted, settled>>

\* Some of what is owed enters the books.
Post ==
    /\ \A k \in Keys : owed'[k] <= owed[k] /\ posted'[k] - posted[k] = owed[k] - owed'[k]
    /\ UNCHANGED <<granted, settled>>

\* A posting is acknowledged.
Settle ==
    /\ \A k \in Keys : posted'[k] <= posted[k] /\ settled'[k] - settled[k] = posted[k] - posted'[k]
    /\ UNCHANGED <<granted, owed>>

\* A posting that did enter the books looks failed: it is owed once more.
Doubt ==
    /\ \A k \in Keys :
          /\ posted'[k] <= posted[k]
          /\ settled'[k] - settled[k] = posted[k] - posted'[k]
          /\ owed'[k] - owed[k] = posted[k] - posted'[k]
    /\ UNCHANGED granted

Work == (\E k \in Keys : Record(k)) \/ Post \/ Settle \/ Doubt

\* Closing ends the promise.
BNext == \/ open /\ open' = TRUE /\ Work
         \/ open' = FALSE

BSpec == BInit /\ [][BNext /\ BTypeOK']_bvars

\* While the books are open no grant is missing from them.
NothingLost ==
    open => \A k \in Keys : granted[k] <= owed[k] + posted[k] + settled[k]
=============================================================================
