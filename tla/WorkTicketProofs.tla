-------------------------- MODULE WorkTicketProofs --------------------------
(***************************************************************************)
(* Theorems about WorkTicket, for every set of grant keys and every bound. *)
(*                                                                         *)
(* The inductive invariant says which task holds rows: only one that is    *)
(* writing, the final flush only after the shutdown event, and the row of  *)
(* the canary only while the canary runs.                                  *)
(***************************************************************************)
EXTENDS WorkTicket, TLAPS

\* Rows are held while writing, and applied only then.
RowsHeld ==
    /\ pc["loop"] \in {"idle", "writing"}
    /\ pc["final"] \in {"idle", "writing", "done"}
    /\ pc["canary"] \in {"idle", "seeded", "writing", "restored"}
    /\ running => pc["final"] = "idle"
    /\ \A f \in Tasks : pc[f] # "writing" => rows[f] = Zero /\ ~applied[f]
    /\ ~applied["canary"]

\* The seeded row is counted or drained only while the canary runs.
SeedContained ==
    /\ pc["canary"] = "idle" => counts[CanaryKey] = 0
    /\ CanaryNeverWritten

\* What a writing task has applied is in the table.
AppliedIsWritten ==
    \A k \in Keys : InBooks("loop", k) + InBooks("final", k) <= written[k]

IInv == TypeOK /\ RowsHeld /\ SeedContained /\ AppliedIsWritten /\ Exact

LEMMA InitIInv == Init => IInv
  BY BoundAssumption DEF Init, IInv, TypeOK, RowsHeld, SeedContained, CanaryNeverWritten,
     AppliedIsWritten, Exact, InBooks, Waiting, Tasks, AllKeys, Zero

LEMMA ZeroType == Zero \in [AllKeys -> Nat] /\ \A k \in AllKeys : Zero[k] = 0
  BY DEF Zero

LEMMA PlusType ==
    ASSUME NEW g \in [AllKeys -> Nat], NEW h \in [AllKeys -> Nat]
    PROVE  Plus(g, h) \in [AllKeys -> Nat] /\ \A k \in AllKeys : Plus(g, h)[k] = g[k] + h[k]
  BY DEF Plus

LEMMA TypeStep == TypeOK /\ [Next]_vars => TypeOK'
<1> SUFFICES ASSUME TypeOK, [Next]_vars PROVE TypeOK'
    OBVIOUS
<1> USE ZeroType, PlusType, BoundAssumption DEF TypeOK, Tasks
<1>1. ASSUME NEW k \in Keys, Grant(k) PROVE TypeOK'
    BY <1>1 DEF Grant, AllKeys
<1>2. ASSUME NEW f \in Tasks, Drain(f) PROVE TypeOK'
    BY <1>2 DEF Drain, Take
<1>3. ASSUME NEW f \in Tasks, Apply(f) PROVE TypeOK'
    BY <1>3 DEF Apply
<1>4. ASSUME NEW f \in Tasks, Acknowledged(f) PROVE TypeOK'
    BY <1>4 DEF Acknowledged, Dispose
<1>5. ASSUME NEW f \in Tasks, Fails(f) PROVE TypeOK'
    BY <1>5 DEF Fails, PutBack, Dispose
<1>6. CASE CanarySeed
    BY <1>6 DEF CanarySeed, AllKeys
<1>7. CASE CanaryDrain
    BY <1>7 DEF CanaryDrain, Take
<1>8. CASE CanaryFails
    BY <1>8 DEF CanaryFails, PutBack
<1>9. CASE CanaryRemove
    BY <1>9 DEF CanaryRemove
<1>10. CASE Shutdown
    BY <1>10 DEF Shutdown
<1>11. CASE Cancelled
    BY <1>11 DEF Cancelled, Dispose
<1>12. CASE NothingToFlush
    BY <1>12 DEF NothingToFlush
<1>13. CASE UNCHANGED vars
    BY <1>13 DEF vars
<1> QED
    BY <1>1, <1>2, <1>3, <1>4, <1>5, <1>6, <1>7, <1>8, <1>9, <1>10, <1>11, <1>12, <1>13
    DEF Next, Canary
-----------------------------------------------------------------------------
(* Each step keeps the strengthening.                                      *)

LEMMA HeldStep == TypeOK /\ RowsHeld /\ [Next]_vars => RowsHeld'
<1> SUFFICES ASSUME TypeOK, RowsHeld, [Next]_vars PROVE RowsHeld'
    OBVIOUS
<1> USE DEF TypeOK, RowsHeld, Tasks
<1>1. ASSUME NEW k \in Keys, Grant(k) PROVE RowsHeld'
    BY <1>1 DEF Grant
<1>2. ASSUME NEW f \in Tasks, Drain(f) PROVE RowsHeld'
    BY <1>2 DEF Drain, Take
<1>3. ASSUME NEW f \in Tasks, Apply(f) PROVE RowsHeld'
    BY <1>3 DEF Apply
<1>4. ASSUME NEW f \in Tasks, Acknowledged(f) PROVE RowsHeld'
    BY <1>4 DEF Acknowledged, Dispose
<1>5. ASSUME NEW f \in Tasks, Fails(f) PROVE RowsHeld'
    BY <1>5 DEF Fails, PutBack, Dispose
<1>6. CASE Canary
  <2>1. CASE CanarySeed
    BY <2>1 DEF CanarySeed, LoopFree
  <2>2. CASE CanaryDrain
    BY <2>2 DEF CanaryDrain, Take
  <2>3. CASE CanaryFails
    BY <2>3 DEF CanaryFails
  <2>4. CASE CanaryRemove
    BY <2>4 DEF CanaryRemove
  <2> QED
    BY <1>6, <2>1, <2>2, <2>3, <2>4 DEF Canary
<1>7. CASE Shutdown
    BY <1>7 DEF Shutdown
<1>8. CASE Cancelled
    BY <1>8 DEF Cancelled, Dispose
<1>9. CASE NothingToFlush
    BY <1>9 DEF NothingToFlush
<1>10. CASE UNCHANGED vars
    BY <1>10 DEF vars
<1> QED
    BY <1>1, <1>2, <1>3, <1>4, <1>5, <1>6, <1>7, <1>8, <1>9, <1>10 DEF Next

LEMMA SeedStep == IInv /\ [Next]_vars => SeedContained'
<1> SUFFICES ASSUME IInv, [Next]_vars PROVE SeedContained'
    OBVIOUS
<1> USE ZeroType, PlusType, CanaryAssumption
    DEF IInv, TypeOK, RowsHeld, SeedContained, CanaryNeverWritten, Tasks
<1>0. CanaryKey \in AllKeys
    BY DEF AllKeys
<1>1. ASSUME NEW k \in Keys, Grant(k) PROVE SeedContained'
    BY <1>0, <1>1 DEF Grant, AllKeys
<1>2. ASSUME NEW f \in Tasks, Drain(f) PROVE SeedContained'
    BY <1>0, <1>2 DEF Drain, Take, LoopFree
<1>3. ASSUME NEW f \in Tasks, Apply(f) PROVE SeedContained'
    BY <1>0, <1>3 DEF Apply
<1>4. ASSUME NEW f \in Tasks, Acknowledged(f) PROVE SeedContained'
    BY <1>0, <1>4 DEF Acknowledged, Dispose
<1>5. ASSUME NEW f \in Tasks, Fails(f) PROVE SeedContained'
    BY <1>0, <1>5 DEF Fails, PutBack, Dispose
<1>6. CASE Canary
    BY <1>0, <1>6 DEF Canary, CanarySeed, CanaryDrain, Take, CanaryFails, PutBack, CanaryRemove
<1>7. CASE Shutdown
    BY <1>7 DEF Shutdown
<1>8. CASE Cancelled
    BY <1>0, <1>8 DEF Cancelled, Dispose
<1>9. CASE NothingToFlush
    BY <1>9 DEF NothingToFlush
<1>10. CASE UNCHANGED vars
    BY <1>10 DEF vars
<1> QED
    BY <1>1, <1>2, <1>3, <1>4, <1>5, <1>6, <1>7, <1>8, <1>9, <1>10 DEF Next

\* The numbers of one key, in the terms of GrantBooks.
Owed(k) == counts[k] + Waiting("loop", k) + Waiting("final", k) + rows["canary"][k]
Posted(k) == InBooks("loop", k) + InBooks("final", k)
Settled(k) == written[k] - InBooks("loop", k) - InBooks("final", k)

LEMMA NumbersType ==
    ASSUME IInv, NEW k \in Keys
    PROVE  Owed(k) \in Nat /\ Posted(k) \in Nat /\ Settled(k) \in Nat /\ granted[k] \in Nat
  BY DEF IInv, TypeOK, AppliedIsWritten, Owed, Posted, Settled, Waiting, InBooks, AllKeys, Tasks

LEMMA PutBackAt ==
    ASSUME TypeOK, NEW f \in Tasks, PutBack(f), NEW k \in Keys
    PROVE  counts'[k] = counts[k] + rows[f][k]
  BY DEF PutBack, Plus, AllKeys

LEMMA ApplyAt ==
    ASSUME TypeOK, NEW f \in Tasks, Apply(f), NEW k \in Keys
    PROVE  written'[k] = written[k] + rows[f][k]
  BY DEF Apply, Plus, AllKeys

\* A drain, a failed write that was not applied, the canary and the shutdown
\* event move nothing; an application posts; an acknowledgement or a
\* cancellation settles; a failure of an applied write puts it in doubt.
Still(k) == Owed(k)' = Owed(k) /\ Posted(k)' = Posted(k) /\ Settled(k)' = Settled(k)

LEMMA GrantMoves ==
    ASSUME IInv, NEW g \in Keys, Grant(g), NEW k \in Keys
    PROVE  /\ Posted(k)' = Posted(k) /\ Settled(k)' = Settled(k)
           /\ Owed(k)' = IF k = g THEN Owed(k) + 1 ELSE Owed(k)
           /\ granted'[k] = IF k = g THEN granted[k] + 1 ELSE granted[k]
  BY DEF Grant, IInv, TypeOK, Owed, Posted, Settled, Waiting, InBooks, AllKeys, Tasks

LEMMA DrainMoves ==
    ASSUME IInv, NEW f \in Tasks, Drain(f), NEW k \in Keys
    PROVE  Still(k)
<1>1. CASE f = "loop"
    BY <1>1, ZeroType DEF Drain, Take, IInv, TypeOK, RowsHeld, Still, Owed, Posted, Settled,
       Waiting, InBooks, AllKeys, Tasks
<1>2. CASE f = "final"
    BY <1>2, ZeroType DEF Drain, Take, IInv, TypeOK, RowsHeld, Still, Owed, Posted, Settled,
       Waiting, InBooks, AllKeys, Tasks
<1> QED
    BY <1>1, <1>2 DEF Drain

LEMMA ApplyMoves ==
    ASSUME IInv, NEW f \in Tasks, Apply(f), NEW k \in Keys
    PROVE  /\ Owed(k)' = Owed(k) - rows[f][k] /\ rows[f][k] \in Nat
           /\ Posted(k)' = Posted(k) + rows[f][k]
           /\ Settled(k)' = Settled(k)
           /\ written'[k] = written[k] + rows[f][k]
<1>1. CASE f = "loop"
    BY <1>1, ApplyAt DEF Apply, IInv, TypeOK, Owed, Posted, Settled, Waiting, InBooks, AllKeys, Tasks
<1>2. CASE f = "final"
    BY <1>2, ApplyAt DEF Apply, IInv, TypeOK, Owed, Posted, Settled, Waiting, InBooks, AllKeys, Tasks
<1> QED
    BY <1>1, <1>2 DEF Apply

LEMMA AcknowledgedMoves ==
    ASSUME IInv, NEW f \in Tasks, Acknowledged(f), NEW k \in Keys
    PROVE  /\ Owed(k)' = Owed(k) /\ Posted(k)' <= Posted(k)
           /\ Settled(k)' - Settled(k) = Posted(k) - Posted(k)'
<1>1. CASE f = "loop"
    BY <1>1, ZeroType DEF Acknowledged, Dispose, IInv, TypeOK, Owed, Posted, Settled, Waiting,
       InBooks, AllKeys, Tasks
<1>2. CASE f = "final"
    BY <1>2, ZeroType DEF Acknowledged, Dispose, IInv, TypeOK, Owed, Posted, Settled, Waiting,
       InBooks, AllKeys, Tasks
<1> QED
    BY <1>1, <1>2 DEF Acknowledged, IInv, RowsHeld, Tasks

LEMMA FailsMoves ==
    ASSUME IInv, NEW f \in Tasks, Fails(f), NEW k \in Keys
    PROVE  /\ ~applied[f] => Still(k)
           /\ Posted(k)' <= Posted(k)
           /\ Settled(k)' - Settled(k) = Posted(k) - Posted(k)'
           /\ Owed(k)' - Owed(k) = Posted(k) - Posted(k)'
<1>0. counts'[k] = counts[k] + rows[f][k]
    BY PutBackAt DEF Fails, IInv
<1>1. CASE f = "loop"
    BY <1>1, <1>0, ZeroType DEF Fails, Dispose, IInv, TypeOK, Still, Owed, Posted,
       Settled, Waiting, InBooks, AllKeys, Tasks
<1>2. CASE f = "final"
    BY <1>2, <1>0, ZeroType DEF Fails, Dispose, IInv, TypeOK, Still, Owed, Posted,
       Settled, Waiting, InBooks, AllKeys, Tasks
<1> QED
    BY <1>1, <1>2 DEF Fails

LEMMA CanaryMoves ==
    ASSUME IInv, Canary, NEW k \in Keys
    PROVE  Still(k)
<1> USE DEF IInv, TypeOK, RowsHeld, Still, Owed, Posted, Settled, Waiting, InBooks, AllKeys, Tasks
<1>1. CASE CanarySeed
    BY <1>1, CanaryAssumption DEF CanarySeed
<1>2. CASE CanaryDrain
    BY <1>2, ZeroType DEF CanaryDrain, Take
<1>3. CASE CanaryFails
  <2>1. counts'[k] = counts[k] + rows["canary"][k]
    BY <1>3, PutBackAt DEF CanaryFails
  <2> QED
    BY <1>3, <2>1, ZeroType DEF CanaryFails
<1>4. CASE CanaryRemove
    BY <1>4, CanaryAssumption DEF CanaryRemove
<1> QED
    BY <1>1, <1>2, <1>3, <1>4 DEF Canary
-----------------------------------------------------------------------------
(* Every step of the ledger is a step of the abstract books, or none.      *)

LEMMA BooksInit == Init => Books!BInit
  BY DEF Init, Books!BInit, Waiting, InBooks, Zero, AllKeys, Tasks

LEMMA BooksType == IInv => Books!BTypeOK
<1> SUFFICES ASSUME IInv PROVE Books!BTypeOK
    OBVIOUS
<1>1. \A k \in Keys : Owed(k) \in Nat /\ Posted(k) \in Nat /\ Settled(k) \in Nat
    BY NumbersType
<1>2. granted \in [Keys -> Nat] /\ running \in BOOLEAN
    BY DEF IInv, TypeOK
<1> QED
    BY <1>1, <1>2 DEF Books!BTypeOK, Owed, Posted, Settled

\* What each abstract step asks of the numbers of the keys.
LEMMA StillIsPost ==
    ASSUME IInv, IInv', \A k \in Keys : Still(k), UNCHANGED granted
    PROVE  Books!Post
<1>1. \A k \in Keys : Owed(k) \in Nat /\ Posted(k) \in Nat /\ Settled(k) \in Nat
    BY NumbersType
<1> QED
    BY <1>1 DEF Still, Books!Post, Owed, Posted, Settled

LEMMA BooksStep == IInv /\ IInv' /\ [Next]_vars => [Books!BNext]_Books!bvars
<1> SUFFICES ASSUME IInv, IInv', [Next]_vars PROVE [Books!BNext]_Books!bvars
    OBVIOUS
<1>0. CASE ~running'
    BY <1>0 DEF IInv, TypeOK, Books!BNext
<1>1. ASSUME running', NEW g \in Keys, Grant(g) PROVE Books!BNext
  <2>0. \A k \in Keys : /\ Posted(k)' = Posted(k) /\ Settled(k)' = Settled(k)
                        /\ Owed(k)' = IF k = g THEN Owed(k) + 1 ELSE Owed(k)
    BY <1>1, GrantMoves
  <2>1. Books!Record(g)
    BY <1>1, <2>0 DEF Books!Record, Owed, Posted, Settled, Grant
  <2> QED
    BY <1>1, <2>1 DEF Books!BNext, Books!Work, Grant
<1>2. ASSUME running', NEW f \in Tasks, Drain(f) PROVE Books!BNext
  <2>1. Books!Post
    BY <1>2, DrainMoves, StillIsPost DEF Drain
  <2> QED
    BY <1>2, <2>1 DEF Books!BNext, Books!Work, Drain
<1>3. ASSUME running', NEW f \in Tasks, Apply(f) PROVE Books!BNext
  <2>1. \A k \in Keys : /\ Owed(k)' = Owed(k) - rows[f][k] /\ rows[f][k] \in Nat
                        /\ Posted(k)' = Posted(k) + rows[f][k] /\ Settled(k)' = Settled(k)
                        /\ Owed(k) \in Nat /\ Posted(k) \in Nat
    BY <1>3, ApplyMoves, NumbersType
  <2>2. Books!Post
    BY <1>3, <2>1 DEF Apply, Books!Post, Owed, Posted, Settled
  <2> QED
    BY <1>3, <2>2 DEF Books!BNext, Books!Work, Apply
<1>4. ASSUME running', NEW f \in Tasks, Acknowledged(f) PROVE Books!BNext
  <2>1. \A k \in Keys : /\ Owed(k)' = Owed(k) /\ Posted(k)' <= Posted(k)
                        /\ Settled(k)' - Settled(k) = Posted(k) - Posted(k)'
    BY <1>4, AcknowledgedMoves
  <2>2. Books!Settle
    BY <1>4, <2>1 DEF Acknowledged, Books!Settle, Owed, Posted, Settled
  <2> QED
    BY <1>4, <2>2 DEF Books!BNext, Books!Work, Acknowledged
<1>5. ASSUME running', NEW f \in Tasks, Fails(f) PROVE Books!BNext
  <2>1. \A k \in Keys : /\ Posted(k)' <= Posted(k)
                        /\ Settled(k)' - Settled(k) = Posted(k) - Posted(k)'
                        /\ Owed(k)' - Owed(k) = Posted(k) - Posted(k)'
    BY <1>5, FailsMoves
  <2>2. Books!Doubt
    BY <1>5, <2>1 DEF Fails, Books!Doubt, Owed, Posted, Settled
  <2> QED
    BY <1>5, <2>2 DEF Books!BNext, Books!Work, Fails
<1>6. ASSUME running', Canary PROVE Books!BNext
  <2>1. UNCHANGED <<granted, running>>
    BY <1>6 DEF Canary, CanarySeed, CanaryDrain, CanaryFails, CanaryRemove
  <2>2. Books!Post
    BY <1>6, <2>1, CanaryMoves, StillIsPost
  <2> QED
    BY <1>6, <2>1, <2>2 DEF Books!BNext, Books!Work
<1>7. CASE Shutdown
    BY <1>0, <1>7 DEF Shutdown
<1>8. ASSUME running' PROVE ~Cancelled /\ ~NothingToFlush
    BY <1>8 DEF Cancelled, NothingToFlush, IInv, RowsHeld
<1>9. CASE UNCHANGED vars
    BY <1>9 DEF vars, Books!bvars, Waiting, InBooks
<1> QED
    BY <1>0, <1>1, <1>2, <1>3, <1>4, <1>5, <1>6, <1>7, <1>8, <1>9 DEF Next

-----------------------------------------------------------------------------
(* The rest of the inductive invariant.                                    *)

LEMMA CancelledMoves ==
    ASSUME IInv, Cancelled, NEW k \in Keys
    PROVE  Settled(k)' >= Settled(k)
  BY ZeroType DEF Cancelled, Dispose, IInv, TypeOK, Settled, InBooks, AllKeys, Tasks

LEMMA SettledGrows ==
    ASSUME IInv, [Next]_vars, NEW k \in Keys
    PROVE  Settled(k)' >= Settled(k)
<1>0. Owed(k) \in Nat /\ Posted(k) \in Nat /\ Settled(k) \in Nat
    BY NumbersType
<1>1. ASSUME NEW g \in Keys, Grant(g) PROVE Settled(k)' >= Settled(k)
    BY <1>0, <1>1, GrantMoves
<1>2. ASSUME NEW f \in Tasks, Drain(f) PROVE Settled(k)' >= Settled(k)
    BY <1>0, <1>2, DrainMoves DEF Still
<1>3. ASSUME NEW f \in Tasks, Apply(f) PROVE Settled(k)' >= Settled(k)
    BY <1>0, <1>3, ApplyMoves
<1>4. ASSUME NEW f \in Tasks, Acknowledged(f) PROVE Settled(k)' >= Settled(k)
  <2>1. Posted(k)' \in Int /\ Settled(k)' \in Int
    BY <1>4, TypeStep DEF IInv, TypeOK, Posted, Settled, InBooks, AllKeys, Tasks
  <2> QED
    BY <1>0, <1>4, <2>1, AcknowledgedMoves
<1>5. ASSUME NEW f \in Tasks, Fails(f) PROVE Settled(k)' >= Settled(k)
  <2>1. Posted(k)' \in Int /\ Settled(k)' \in Int
    BY <1>5, TypeStep DEF IInv, TypeOK, Posted, Settled, InBooks, AllKeys, Tasks
  <2> QED
    BY <1>0, <1>5, <2>1, FailsMoves
<1>6. CASE Canary
    BY <1>0, <1>6, CanaryMoves DEF Still
<1>7. CASE Cancelled
    BY <1>7, CancelledMoves
<1>8. CASE Shutdown \/ NothingToFlush \/ UNCHANGED vars
    BY <1>0, <1>8 DEF Shutdown, NothingToFlush, vars, Settled, InBooks
<1> QED
    BY <1>1, <1>2, <1>3, <1>4, <1>5, <1>6, <1>7, <1>8 DEF Next

LEMMA AppliedStep == IInv /\ [Next]_vars => AppliedIsWritten'
<1> SUFFICES ASSUME IInv, [Next]_vars, NEW k \in Keys
             PROVE  InBooks("loop", k)' + InBooks("final", k)' <= written'[k]
    BY DEF AppliedIsWritten, InBooks
<1>1. Settled(k)' >= Settled(k) /\ Settled(k) \in Nat
    BY SettledGrows, NumbersType
<1>2. written'[k] \in Nat /\ InBooks("loop", k)' \in Nat /\ InBooks("final", k)' \in Nat
    BY TypeStep DEF IInv, TypeOK, InBooks, AllKeys, Tasks
<1> QED
    BY <1>1, <1>2 DEF Settled

\* The sum of the numbers of a key moves with its grants alone.
LEMMA ExactStep == IInv /\ [Next]_vars => Exact'
<1> SUFFICES ASSUME IInv, [Next]_vars, running', doubts' = 0, NEW k \in Keys
             PROVE  granted'[k] = written'[k] + counts'[k] + Waiting("loop", k)'
                                  + Waiting("final", k)' + rows'["canary"][k]
    BY DEF Exact, Waiting
<1> DEFINE Total == Owed(k) + Posted(k) + Settled(k)
<1>1. /\ Owed(k) \in Nat /\ Posted(k) \in Nat /\ Settled(k) \in Nat /\ granted[k] \in Nat
      /\ Owed(k)' \in Int /\ Posted(k)' \in Int /\ Settled(k)' \in Int /\ granted'[k] \in Int
  <2>1. TypeOK'
    BY TypeStep DEF IInv
  <2> QED
    BY <2>1, NumbersType DEF Owed, Posted, Settled, Waiting, InBooks, TypeOK, AllKeys, Tasks
<1>2. running /\ doubts = 0 => granted[k] = Total
    BY DEF IInv, Exact, Owed, Posted, Settled, Waiting, InBooks, TypeOK, AllKeys, Tasks
<1>3. SUFFICES granted'[k] = Total'
  <2>1. TypeOK'
    BY TypeStep DEF IInv
  <2> QED
    BY <2>1 DEF Owed, Posted, Settled, Waiting, InBooks, TypeOK, AllKeys, Tasks
<1>4. ASSUME NEW g \in Keys, Grant(g) PROVE granted'[k] = Total'
  <2>1. UNCHANGED <<running, doubts>>
    BY <1>4 DEF Grant
  <2>2. granted[k] = Total
    BY <1>2, <2>1
  <2> QED
    BY <1>1, <1>4, <2>2, GrantMoves
<1>5. ASSUME NEW f \in Tasks, Drain(f) PROVE granted'[k] = Total'
  <2>1. UNCHANGED <<running, doubts, granted>>
    BY <1>5 DEF Drain
  <2>2. granted[k] = Total
    BY <1>2, <2>1
  <2> QED
    BY <1>1, <1>5, <2>1, <2>2, DrainMoves DEF Still
<1>6. ASSUME NEW f \in Tasks, Apply(f) PROVE granted'[k] = Total'
  <2>1. UNCHANGED <<running, doubts, granted>>
    BY <1>6 DEF Apply
  <2>2. granted[k] = Total
    BY <1>2, <2>1
  <2> QED
    BY <1>1, <1>6, <2>1, <2>2, ApplyMoves
<1>7. ASSUME NEW f \in Tasks, Acknowledged(f) PROVE granted'[k] = Total'
  <2>1. UNCHANGED <<running, doubts, granted>>
    BY <1>7 DEF Acknowledged
  <2>2. granted[k] = Total
    BY <1>2, <2>1
  <2> QED
    BY <1>1, <1>7, <2>1, <2>2, AcknowledgedMoves
<1>8. ASSUME NEW f \in Tasks, Fails(f) PROVE granted'[k] = Total'
  <2>1. ~applied[f]
    BY <1>8, BoundAssumption DEF Fails, IInv, TypeOK
  <2>2. UNCHANGED <<running, doubts, granted>>
    BY <1>8, <2>1 DEF Fails
  <2>3. granted[k] = Total
    BY <1>2, <2>2
  <2> QED
    BY <1>1, <1>8, <2>1, <2>2, <2>3, FailsMoves DEF Still
<1>9. ASSUME Canary PROVE granted'[k] = Total'
  <2>1. UNCHANGED <<running, doubts, granted>>
    BY <1>9 DEF Canary, CanarySeed, CanaryDrain, CanaryFails, CanaryRemove
  <2>2. granted[k] = Total
    BY <1>2, <2>1
  <2> QED
    BY <1>1, <1>9, <2>1, <2>2, CanaryMoves DEF Still
<1>10. ~Shutdown /\ ~Cancelled /\ ~NothingToFlush
    BY DEF Shutdown, Cancelled, NothingToFlush, IInv, RowsHeld
<1>11. ASSUME UNCHANGED vars PROVE granted'[k] = Total'
  <2>1. granted[k] = Total
    BY <1>2, <1>11 DEF vars
  <2> QED
    BY <2>1, <1>11 DEF vars, Owed, Posted, Settled, Waiting, InBooks
<1> QED
    BY <1>4, <1>5, <1>6, <1>7, <1>8, <1>9, <1>10, <1>11 DEF Next

LEMMA StepIInv == IInv /\ [Next]_vars => IInv'
<1> SUFFICES ASSUME IInv, [Next]_vars PROVE IInv'
    OBVIOUS
<1> QED
    BY TypeStep, HeldStep, SeedStep, AppliedStep, ExactStep DEF IInv

-----------------------------------------------------------------------------

LEMMA Inductive == Spec => []IInv
<1> QED
    BY InitIInv, StepIInv, PTL DEF Spec

\* The counts, the drained rows and the table stay sums of grants (_counts,
\* flush_with and _wt_write).
THEOREM TypeCorrect == Spec => []TypeOK
<1>1. IInv => TypeOK
    BY DEF IInv
<1> QED
    BY <1>1, Inductive, PTL

\* While the gateway runs and no write fails after it was applied, every grant
\* is counted, in a task's hands or in the table, exactly once.
THEOREM CountsAreExact == Spec => []Exact
<1>1. IInv => Exact
    BY DEF IInv
<1> QED
    BY <1>1, Inductive, PTL

\* The row seeded by _canary_wt_flush never reaches the grants table.
THEOREM CanaryStaysOut == Spec => []CanaryNeverWritten
<1>1. IInv => CanaryNeverWritten
    BY DEF IInv, SeedContained
<1> QED
    BY <1>1, Inductive, PTL

\* flush_with implements the abstract books: each of its steps is one of theirs.
THEOREM LedgerKeepsBooks == Spec => KeepsBooks
<1>1. IInv /\ IInv' /\ [Next]_vars => [Books!BNext /\ Books!BTypeOK']_Books!bvars
  <2> SUFFICES ASSUME IInv, IInv', [Next]_vars
               PROVE  [Books!BNext /\ Books!BTypeOK']_Books!bvars
    OBVIOUS
  <2>1. [Books!BNext]_Books!bvars
    BY BooksStep
  <2>2. Books!BTypeOK'
    BY BooksType, PTL
  <2> QED
    BY <2>1, <2>2
<1> QED
    BY <1>1, BooksInit, Inductive, PTL DEF Spec, KeepsBooks, Books!BSpec

\* The abstract books drop no grant, and so neither does the ledger while the
\* gateway runs ("nothing is lost").
THEOREM GrantsAreNotLost == Spec => []Books!NothingLost
<1> DEFINE Covered == \A k \in Keys : granted[k] <= Owed(k) + Posted(k) + Settled(k)
<1>1. Books!NothingLost <=> (running => Covered)
    BY DEF Books!NothingLost, Owed, Posted, Settled
<1>2. Init => Books!NothingLost
    BY <1>1, InitIInv, NumbersType DEF Init, Owed, Posted, Settled, Waiting, InBooks, AllKeys, Tasks, Zero
<1>3. IInv /\ IInv' /\ [Next]_vars /\ Books!NothingLost => Books!NothingLost'
  <2> SUFFICES ASSUME IInv, IInv', [Next]_vars, Books!NothingLost PROVE Books!NothingLost'
    OBVIOUS
  <2>1. [Books!BNext]_Books!bvars
    BY BooksStep
  <2>2. Books!BTypeOK'
    BY BooksType, PTL
  <2>3. \A k \in Keys : /\ granted'[k] \in Nat /\ Owed(k)' \in Nat /\ Posted(k)' \in Nat
                        /\ Settled(k)' \in Nat
    BY <2>2 DEF Books!BTypeOK, Owed, Posted, Settled
  <2>4. \A k \in Keys : granted[k] \in Nat /\ Owed(k) \in Nat /\ Posted(k) \in Nat /\ Settled(k) \in Nat
    BY NumbersType
  <2>5. SUFFICES ASSUME running', NEW k \in Keys
                 PROVE  granted'[k] <= Owed(k)' + Posted(k)' + Settled(k)'
    BY DEF Books!NothingLost, Owed, Posted, Settled
  <2>6. CASE UNCHANGED Books!bvars
    BY <1>1, <2>5, <2>6 DEF Books!bvars, Owed, Posted, Settled
  <2>7. CASE running /\ Books!Work
    <3>1. granted[k] <= Owed(k) + Posted(k) + Settled(k)
      BY <1>1, <2>7
    <3>2. ASSUME NEW g \in Keys, Books!Record(g)
          PROVE  granted'[k] <= Owed(k)' + Posted(k)' + Settled(k)'
      <4>1. /\ Posted(k)' = Posted(k) /\ Settled(k)' = Settled(k)
            /\ Owed(k)' = IF k = g THEN Owed(k) + 1 ELSE Owed(k)
        BY <3>2 DEF Books!Record, Owed, Posted, Settled
      <4>2. granted'[k] = IF k = g THEN granted[k] + 1 ELSE granted[k]
        BY <3>2 DEF Books!Record, IInv, TypeOK
      <4> QED
        BY <2>3, <2>4, <3>1, <4>1, <4>2
    <3>3. CASE Books!Post \/ Books!Settle \/ Books!Doubt
      BY <2>3, <2>4, <3>1, <3>3 DEF Books!Post, Books!Settle, Books!Doubt, Owed, Posted, Settled
    <3> QED
      BY <2>7, <3>2, <3>3 DEF Books!Work
  <2> QED
    BY <2>1, <2>5, <2>6, <2>7 DEF Books!BNext
<1> QED
    BY <1>2, <1>3, Inductive, PTL DEF Spec
=============================================================================
