--------------------------- MODULE SmartPoolProofs ---------------------------
(***************************************************************************)
(* What holds of SmartPool for any number of replicas and tasks and any    *)
(* threshold.                                                              *)
(***************************************************************************)
EXTENDS SmartPool, TLAPS

\* No request is served and no failure counted before a replica serves: a
\* replica that finds the flag on start becomes degraded with a count of zero,
\* and no task of a former life is in the middle of a flag write.
QuietUntilServing ==
    \A r \in Replicas :
        phase[r] # "serving" => /\ failcount[r] = 0
                                /\ \A s \in Slots : pc[r][s] = "idle"

\* The inductive invariant.
IInv == TypeOK /\ NoLeftoverFailures /\ FlagWriteInEpisode /\ QuietUntilServing

USE ThresholdAssumption DEF Phases, Points

LEMMA InitIInv == Init => IInv
<1> SUFFICES ASSUME Init
             PROVE  IInv
  OBVIOUS
<1>1. TypeOK
  <2>1. /\ alloydb \in {"up", "strained", "down"} /\ flag \in BOOLEAN /\ signal \in BOOLEAN
        /\ phase \in [Replicas -> Phases]
    BY DEF Init
  <2>2. degraded \in [Replicas -> BOOLEAN] /\ failcount \in [Replicas -> 0..(Threshold - 1)]
    BY DEF Init
  <2>3. pc \in [Replicas -> [Slots -> Points]]
    BY DEF Init
  <2>4. QED
    BY <2>1, <2>2, <2>3 DEF TypeOK
<1>2. NoLeftoverFailures /\ FlagWriteInEpisode /\ QuietUntilServing
  BY DEF Init, NoLeftoverFailures, FlagWriteInEpisode, QuietUntilServing
<1>3. QED
  BY <1>1, <1>2 DEF IInv

\* The environment does not disturb the pools.
LEMMA EnvironmentIInv ==
    ASSUME IInv, UNCHANGED <<phase, degraded, failcount, pc>>,
           alloydb' \in {"up", "strained", "down"}, flag' \in BOOLEAN, signal' \in BOOLEAN
    PROVE  IInv'
<1>1. TypeOK'
  BY DEF IInv, TypeOK
<1>2. NoLeftoverFailures' /\ FlagWriteInEpisode' /\ QuietUntilServing'
  BY DEF IInv, NoLeftoverFailures, FlagWriteInEpisode, QuietUntilServing
<1>3. QED
  BY <1>1, <1>2 DEF IInv

\* A task that moves on without touching the pool and does not begin to write
\* the flag disturbs nothing; environment variables may change meanwhile.
LEMMA MoveIInv ==
    ASSUME IInv, NEW r \in Replicas, NEW s \in Slots, NEW from \in Points,
           NEW to \in Points \ {"flagging"},
           phase[r] = "serving", Goto(r, s, from, to),
           UNCHANGED <<phase, pool>>,
           alloydb' \in {"up", "strained", "down"}, flag' \in BOOLEAN, signal' \in BOOLEAN
    PROVE  IInv'
<1> USE DEF IInv, Goto, pool
<1>1. pc' \in [Replicas -> [Slots -> Points]]
  BY DEF TypeOK
<1>2. \A q \in Replicas, t \in Slots :
         pc'[q][t] = IF q = r /\ t = s THEN to ELSE pc[q][t]
  BY DEF TypeOK
<1>3. TypeOK'
  BY <1>1 DEF TypeOK
<1>4. NoLeftoverFailures'
  BY DEF NoLeftoverFailures
<1>5. FlagWriteInEpisode'
  BY <1>2 DEF FlagWriteInEpisode
<1>6. QuietUntilServing'
  BY <1>2 DEF QuietUntilServing
<1>7. QED
  BY <1>3, <1>4, <1>5, <1>6

\* A task that is somewhere is the task of a replica that serves.
LEMMA BusyServes ==
    ASSUME IInv, NEW r \in Replicas, NEW s \in Slots, pc[r][s] # "idle"
    PROVE  phase[r] = "serving"
BY DEF IInv, QuietUntilServing

LEMMA AwaitIInv ==
    ASSUME IInv, NEW r \in Replicas, NEW s \in Slots, NEW from \in Points,
           NEW to \in Points \ {"flagging"},
           phase[r] = "serving", Await(r, s, from, to)
    PROVE  IInv'
<1>1. /\ Goto(r, s, from, to)
      /\ UNCHANGED <<phase, pool>>
      /\ alloydb' \in {"up", "strained", "down"} /\ flag' \in BOOLEAN /\ signal' \in BOOLEAN
  BY DEF Await, IInv, TypeOK
<1>2. QED
  BY <1>1, MoveIInv

\* Calls that come, proceed, end or fail.
LEMMA CallIInv ==
    ASSUME IInv, NEW r \in Replicas, NEW s \in Slots,
           Acquire(r, s) \/ Query(r, s) \/ CallOk(r, s) \/ CallFails(r, s)
               \/ ProbeOk(r, s) \/ ProbeFails(r, s) \/ RecoverySignal(r, s)
    PROVE  IInv'
<1>1. PICK from \in Points, to \in Points \ {"flagging"} :
         phase[r] = "serving" /\ Await(r, s, from, to)
  <2>1. CASE Acquire(r, s) \/ Query(r, s) \/ RecoverySignal(r, s)
    BY <2>1 DEF Acquire, Query, RecoverySignal, Normal
  <2>2. CASE CallOk(r, s)
    BY <2>2, BusyServes DEF CallOk, Await, Goto
  <2>3. CASE CallFails(r, s)
    BY <2>3, BusyServes DEF CallFails, Await, Goto
  <2>4. CASE ProbeOk(r, s) \/ ProbeFails(r, s)
    BY <2>4, BusyServes DEF ProbeOk, ProbeFails, Await, Goto
  <2>5. QED
    BY <2>1, <2>2, <2>3, <2>4
<1>2. QED
  BY <1>1, AwaitIInv

\* Steps that end an external request, and change the flag or the signal.
LEMMA AnswerIInv ==
    ASSUME IInv, NEW r \in Replicas, NEW s \in Slots,
           FlagWritten(r, s) \/ FlagDeleted(r, s) \/ ReplayFired(r, s) \/ AlreadyNormal(r, s)
    PROVE  IInv'
<1>1. PICK from \in Points, to \in Points \ {"flagging"} :
         /\ phase[r] = "serving"
         /\ Goto(r, s, from, to)
         /\ UNCHANGED <<phase, pool>>
         /\ alloydb' \in {"up", "strained", "down"} /\ flag' \in BOOLEAN /\ signal' \in BOOLEAN
  <2> USE BusyServes DEF Goto, IInv, TypeOK
  <2>1. CASE FlagWritten(r, s) \/ FlagDeleted(r, s)
    BY <2>1 DEF FlagWritten, FlagDeleted
  <2>2. CASE ReplayFired(r, s) \/ AlreadyNormal(r, s)
    BY <2>2 DEF ReplayFired, AlreadyNormal
  <2>3. QED
    BY <2>1, <2>2
<1>2. QED
  BY <1>1, MoveIInv

\* A clean acquire resets the count of a serving replica, degraded or not.
LEMMA CleanAcquireIInv ==
    ASSUME IInv, NEW r \in Replicas, NEW s \in Slots, CleanAcquire(r, s)
    PROVE  IInv'
<1> USE DEF IInv
<1>1. phase[r] = "serving"
  BY BusyServes DEF CleanAcquire, Goto
<1>2. \A q \in Replicas, t \in Slots :
         pc'[q][t] = IF q = r /\ t = s THEN "body" ELSE pc[q][t]
  BY DEF CleanAcquire, Goto, TypeOK
<1>3. TypeOK'
  BY DEF CleanAcquire, Goto, TypeOK
<1>4. NoLeftoverFailures'
  BY DEF CleanAcquire, TypeOK, NoLeftoverFailures
<1>5. FlagWriteInEpisode'
  BY <1>2 DEF CleanAcquire, FlagWriteInEpisode
<1>6. QuietUntilServing'
  BY <1>1, <1>2 DEF CleanAcquire, TypeOK, QuietUntilServing
<1>7. QED
  BY <1>3, <1>4, <1>5, <1>6

\* _maybe_failover: return, count, or enter degraded mode and begin to write.
LEMMA FailoverIInv ==
    ASSUME IInv, NEW r \in Replicas, NEW s \in Slots, Failover(r, s)
    PROVE  IInv'
<1>0. phase[r] = "serving" /\ pc[r][s] = "failed"
  BY BusyServes DEF Failover, AlreadyDegraded, CountFailure, EnterDegraded, Await, Goto
<1>1. CASE AlreadyDegraded(r, s)
  BY <1>0, <1>1, AwaitIInv DEF AlreadyDegraded
<1>2. CASE CountFailure(r, s)
  <2> USE DEF IInv
  <2>1. \A q \in Replicas, t \in Slots :
           pc'[q][t] = IF q = r /\ t = s THEN "idle" ELSE pc[q][t]
    BY <1>2 DEF CountFailure, Goto, TypeOK
  <2>2. \A q \in Replicas :
           failcount'[q] = IF q = r THEN failcount[q] + 1 ELSE failcount[q]
    BY <1>2 DEF CountFailure, TypeOK
  <2>3. TypeOK'
    BY <1>2 DEF CountFailure, Goto, TypeOK
  <2>4. NoLeftoverFailures'
    BY <1>2, <2>2 DEF CountFailure, NoLeftoverFailures
  <2>5. FlagWriteInEpisode' /\ QuietUntilServing'
    BY <1>0, <1>2, <2>1, <2>2 DEF CountFailure, FlagWriteInEpisode, QuietUntilServing
  <2>6. QED
    BY <2>3, <2>4, <2>5
<1>3. CASE EnterDegraded(r, s)
  <2> USE DEF IInv
  <2>1. \A q \in Replicas, t \in Slots :
           pc'[q][t] = IF q = r /\ t = s THEN "flagging" ELSE pc[q][t]
    BY <1>3 DEF EnterDegraded, Goto, TypeOK
  <2>2. /\ failcount'[r] = 0
        /\ degraded'[r]
        /\ \A q \in Replicas \ {r} : failcount'[q] = failcount[q] /\ degraded'[q] = degraded[q]
    BY <1>3 DEF EnterDegraded, TypeOK
  <2>3. TypeOK'
    BY <1>3 DEF EnterDegraded, Goto, TypeOK
  <2>4. NoLeftoverFailures' /\ QuietUntilServing'
    BY <1>0, <1>3, <2>1, <2>2 DEF EnterDegraded, NoLeftoverFailures, QuietUntilServing
  <2>5. FlagWriteInEpisode'
    BY <1>0, <1>3, <2>1, <2>2 DEF EnterDegraded, Locked, FlagWriteInEpisode
  <2>6. QED
    BY <2>3, <2>4, <2>5
<1>4. QED
  BY <1>1, <1>2, <1>3 DEF Failover

\* _exit_degraded waits for the lock, so no flag write is under way.
LEMMA ExitIInv ==
    ASSUME IInv, NEW r \in Replicas, NEW s \in Slots, ExitDegraded(r, s)
    PROVE  IInv'
<1> USE DEF IInv
<1>0. phase[r] = "serving"
  BY BusyServes DEF ExitDegraded, Goto
<1>1. \A q \in Replicas, t \in Slots :
         pc'[q][t] = IF q = r /\ t = s THEN "deleting" ELSE pc[q][t]
  BY DEF ExitDegraded, Goto, TypeOK
<1>2. /\ failcount'[r] = 0
      /\ ~degraded'[r]
      /\ \A q \in Replicas \ {r} : failcount'[q] = failcount[q] /\ degraded'[q] = degraded[q]
  BY DEF ExitDegraded, TypeOK
<1>3. TypeOK'
  BY DEF ExitDegraded, Goto, TypeOK
<1>4. NoLeftoverFailures' /\ QuietUntilServing'
  BY <1>0, <1>1, <1>2 DEF ExitDegraded, NoLeftoverFailures, QuietUntilServing
<1>5. FlagWriteInEpisode'
  BY <1>1, <1>2 DEF ExitDegraded, Locked, FlagWriteInEpisode
<1>6. QED
  BY <1>3, <1>4, <1>5

\* Starting: the flag is looked at, the probe answers, the flag is cleared,
\* bq_replay is fired, the tools are loaded.
LEMMA StartIInv ==
    ASSUME IInv, NEW r \in Replicas, Start(r) \/ Boot(r)
    PROVE  IInv'
<1> USE DEF IInv
<1>1. /\ phase[r] # "serving"
      /\ \A q \in Replicas : q # r => phase'[q] = phase[q] /\ degraded'[q] = degraded[q]
      /\ UNCHANGED <<failcount, pc, alloydb, signal>>
      /\ phase' \in [Replicas -> Phases] /\ degraded' \in [Replicas -> BOOLEAN]
      /\ flag' \in BOOLEAN
  BY DEF Start, Boot, BootRecovers, BootStaysDegraded, BootClears, BootReplays,
         LoadTools, Enter, TypeOK, pool
<1>2. TypeOK'
  BY <1>1 DEF TypeOK
<1>3. NoLeftoverFailures' /\ QuietUntilServing'
  BY <1>1 DEF NoLeftoverFailures, QuietUntilServing
<1>4. FlagWriteInEpisode'
  BY <1>1 DEF FlagWriteInEpisode, QuietUntilServing
<1>5. QED
  BY <1>2, <1>3, <1>4

LEMMA StopIInv ==
    ASSUME IInv, NEW r \in Replicas, Stop(r)
    PROVE  IInv'
<1> USE DEF IInv
<1>1. /\ \A t \in Slots : pc'[r][t] = "idle"
      /\ \A q \in Replicas \ {r}, t \in Slots : pc'[q][t] = pc[q][t]
      /\ failcount'[r] = 0 /\ ~degraded'[r]
      /\ \A q \in Replicas \ {r} :
            failcount'[q] = failcount[q] /\ degraded'[q] = degraded[q] /\ phase'[q] = phase[q]
  BY DEF Stop, Enter, TypeOK
<1>2. TypeOK'
  <2>1. /\ phase' \in [Replicas -> Phases]
        /\ alloydb' \in {"up", "strained", "down"} /\ flag' \in BOOLEAN /\ signal' \in BOOLEAN
    BY DEF Stop, Enter, TypeOK
  <2>2. degraded' \in [Replicas -> BOOLEAN]
    BY DEF Stop, TypeOK
  <2>3. failcount' \in [Replicas -> 0..(Threshold - 1)]
    BY DEF Stop, TypeOK
  <2>4. pc' \in [Replicas -> [Slots -> Points]]
    BY DEF Stop, TypeOK
  <2>5. QED
    BY <2>1, <2>2, <2>3, <2>4 DEF TypeOK
<1>3. NoLeftoverFailures' /\ QuietUntilServing'
  BY <1>1 DEF NoLeftoverFailures, QuietUntilServing
<1>4. FlagWriteInEpisode'
  BY <1>1 DEF FlagWriteInEpisode
<1>5. QED
  BY <1>2, <1>3, <1>4

LEMMA StepIInv == IInv /\ [Next]_vars => IInv'
<1> SUFFICES ASSUME IInv, [Next]_vars
             PROVE  IInv'
  OBVIOUS
<1>1. ASSUME NEW r \in Replicas, NEW s \in Slots,
             \/ Acquire(r, s) \/ Query(r, s) \/ CallEnds(r, s) \/ Failover(r, s)
             \/ RecoverySignal(r, s) \/ Bounded(r, s) \/ Exit(r, s) \/ ReplayFired(r, s)
      PROVE  IInv'
  BY <1>1, CallIInv, AnswerIInv, CleanAcquireIInv, FailoverIInv, ExitIInv
     DEF CallEnds, Bounded, Exit
<1>2. ASSUME NEW r \in Replicas, NothingToDo(r)
      PROVE  IInv'
  BY <1>2, EnvironmentIInv DEF NothingToDo, pool, IInv, TypeOK
<1>3. ASSUME NEW r \in Replicas, Start(r) \/ Boot(r) \/ Stop(r)
      PROVE  IInv'
  BY <1>3, StartIInv, StopIInv
<1>4. CASE AlloyDBChange
  BY <1>4, EnvironmentIInv DEF AlloyDBChange, pool, IInv, TypeOK
<1>5. CASE UNCHANGED vars
  BY <1>5, EnvironmentIInv DEF vars, IInv, TypeOK
<1>6. QED
  BY <1>1, <1>2, <1>3, <1>4, <1>5 DEF Next

\* Every variable keeps its type; the count stays below the threshold.
THEOREM TypeCorrect == Spec => []TypeOK
<1>1. IInv => TypeOK
  BY DEF IInv
<1>2. QED
  BY <1>1, InitIInv, StepIInv, PTL DEF Spec

\* A degraded pool has no failures left over.
THEOREM FreshCountAfterRecovery == Spec => []NoLeftoverFailures
<1>1. IInv => NoLeftoverFailures
  BY DEF IInv
<1>2. QED
  BY <1>1, InitIInv, StepIInv, PTL DEF Spec

\* A flag write begins and ends within one degraded episode of its replica,
\* and no two writes of a replica overlap.
THEOREM FlagWritesAreOrdered == Spec => []FlagWriteInEpisode
<1>1. IInv => FlagWriteInEpisode
  BY DEF IInv
<1>2. QED
  BY <1>1, InitIInv, StepIInv, PTL DEF Spec
=============================================================================
