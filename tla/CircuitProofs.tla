---------------------------- MODULE CircuitProofs ----------------------------
(***************************************************************************)
(* What holds of the breaker for any number of calls, probes and persist   *)
(* tasks, any threshold and any recovery time: first of CircuitBreaker,    *)
(* within one process; then of CircuitPersistence, across lost and         *)
(* reordered records and restarts, from the lemmas of the first part.      *)
(***************************************************************************)
EXTENDS CircuitPersistence, TLAPS

USE DEF Never, Idle

\* The counter grows by at most one.  (That it is not followed beyond
\* FailureCap is nowhere used: the proofs hold of any larger bound.)
LEMMA CountedRange ==
    ASSUME NEW n \in Nat
    PROVE  Counted(n) \in Nat /\ Counted(n) >= n /\ Counted(n) <= n + 1
BY CapAssumption DEF Counted

\* The methods of the breaker keep the agreement of its fields, wherever they
\* are called from.
BreakerFields == /\ state \in {"closed", "open", "half-open"}
                 /\ failures \in Nat
                 /\ openedAge \in {Never} \cup 0..Recovery
                 /\ state = "closed" <=> openedAge = Never
                 /\ state = "closed" => failures < Threshold
                 /\ state = "half-open" => openedAge = Recovery

LEMMA SuccessKeepsFields == BreakerFields /\ record_success => BreakerFields'
BY ThresholdAssumption, CapAssumption DEF BreakerFields, record_success

LEMMA FailureKeepsFields == BreakerFields /\ record_failure => BreakerFields'
<1> SUFFICES ASSUME BreakerFields, record_failure
             PROVE  BreakerFields'
  OBVIOUS
<1>1. failures' \in Nat /\ failures' <= failures + 1
  BY CountedRange DEF BreakerFields, record_failure
<1>2. CASE Opens
  BY <1>1, <1>2, RecoveryAssumption DEF BreakerFields, record_failure
<1>3. CASE ~Opens
  BY <1>1, <1>3, ThresholdAssumption DEF BreakerFields, record_failure, Opens
<1>4. QED
  BY <1>2, <1>3

LEMMA LeaveKeepsFields == BreakerFields /\ allow_request => BreakerFields'
BY RecoveryAssumption DEF BreakerFields, allow_request, RecoveryOver

LEMMA TickKeepsFields == BreakerFields /\ Tick => BreakerFields'
BY RecoveryAssumption DEF BreakerFields, Tick

LEMMA UnchangedKeepsFields == BreakerFields /\ UNCHANGED breaker => BreakerFields'
BY DEF BreakerFields, breaker

\* The rest of the invariant: what is in flight.
FlightOK == /\ inflight \in [Calls -> SUBSET Conditions]
            /\ probing \in [Probes -> SUBSET Conditions]
            /\ trials \subseteq Calls
            /\ db \in Conditions
            /\ \A c \in trials : inflight[c] # Idle

\* The inductive invariant: types, and the agreement of the fields.  Neither
\* half is inductive alone: the range of openedAge is needed to know that the
\* age at which half-open begins is exactly Recovery, and the agreement keeps
\* the count of a closed breaker below the threshold.
IInv == BreakerFields /\ FlightOK

LEMMA InitIInv == Init => IInv
BY ThresholdAssumption, CapAssumption, ConditionsAssumption
   DEF Init, IInv, BreakerFields, FlightOK

LEMMA IInvImplies == IInv => TypeOK /\ BreakerConsistent
BY DEF IInv, TypeOK, BreakerConsistent, BreakerFields, FlightOK

LEMMA FinishKeepsFlight ==
    ASSUME FlightOK, NEW c \in Calls, Finish(c)
    PROVE  FlightOK'
BY DEF FlightOK, Finish

LEMMA StepIInv == IInv /\ [Next]_vars => IInv'
<1> SUFFICES ASSUME IInv, [Next]_vars
             PROVE  IInv'
  OBVIOUS
<1> USE DEF IInv
<1>1. ASSUME NEW c \in Calls, Send(c)
      PROVE  IInv'
  <2>1. BreakerFields'
    BY <1>1, LeaveKeepsFields DEF Send
  <2>2. FlightOK'
    BY <1>1 DEF Send, FlightOK
  <2>3. QED
    BY <2>1, <2>2
<1>2. ASSUME NEW c \in Calls, Answer(c)
      PROVE  IInv'
  <2>1. FlightOK'
    BY <1>2, FinishKeepsFlight DEF Answer, AnswerOk, AnswerFailed, AnswerUnauthorized
  <2>2. CASE AnswerOk(c)
    BY <2>1, <2>2, SuccessKeepsFields DEF AnswerOk
  <2>3. CASE AnswerFailed(c)
    BY <2>1, <2>3, FailureKeepsFields DEF AnswerFailed
  <2>4. CASE AnswerUnauthorized(c)
    BY <2>1, <2>4, UnchangedKeepsFields DEF AnswerUnauthorized
  <2>5. QED
    BY <1>2, <2>2, <2>3, <2>4 DEF Answer
<1>3. CASE Canary
  BY <1>3, LeaveKeepsFields DEF Canary, FlightOK
<1>4. ASSUME NEW p \in Probes, ProbeSend(p)
      PROVE  IInv'
  <2>1. FlightOK'
    BY <1>4 DEF ProbeSend, FlightOK
  <2>2. QED
    BY <1>4, <2>1, UnchangedKeepsFields DEF ProbeSend
<1>5. ASSUME NEW p \in Probes, ProbeEnd(p)
      PROVE  IInv'
  <2>1. FlightOK'
    BY <1>5 DEF ProbeEnd, ProbeTimeout, ProbeAnswer, FlightOK
  <2>2. CASE ProbeTimeout(p)
    BY <2>1, <2>2, FailureKeepsFields DEF ProbeTimeout
  <2>3. CASE ProbeAnswer(p)
    BY <2>1, <2>3, UnchangedKeepsFields DEF ProbeAnswer
  <2>4. QED
    BY <1>5, <2>2, <2>3 DEF ProbeEnd
<1>6. CASE DbChange
  <2>1. db' \in Conditions
    BY <1>6 DEF DbChange
  <2>2. inflight' \in [Calls -> SUBSET Conditions] /\ probing' \in [Probes -> SUBSET Conditions]
    BY <1>6, <2>1 DEF DbChange, Meet, FlightOK
  <2>3. \A c \in trials' : inflight'[c] # Idle
    BY <1>6, <2>1 DEF DbChange, Meet, FlightOK
  <2>4. FlightOK'
    BY <1>6, <2>1, <2>2, <2>3 DEF DbChange, FlightOK
  <2>5. QED
    BY <1>6, <2>4, UnchangedKeepsFields DEF DbChange
<1>7. CASE Tick
  BY <1>7, TickKeepsFields DEF Tick, FlightOK
<1>8. CASE UNCHANGED vars
  BY <1>8, UnchangedKeepsFields DEF vars, breaker, FlightOK
<1>9. QED
  BY <1>1, <1>2, <1>3, <1>4, <1>5, <1>6, <1>7, <1>8 DEF Next, Handler

\* Every variable keeps its type.
THEOREM TypeCorrect == Spec => []TypeOK
<1>1. IInv => TypeOK
  BY IInvImplies
<1>2. QED
  BY <1>1, InitIInv, StepIInv, PTL DEF Spec

\* The state, the count and the opening time of the breaker agree in every
\* interleaving of calls, answers and probes.
THEOREM Consistent == Spec => []BreakerConsistent
<1>1. IInv => BreakerConsistent
  BY IInvImplies
<1>2. QED
  BY <1>1, InitIInv, StepIInv, PTL DEF Spec

-----------------------------------------------------------------------------
(* Across restarts.                                                        *)

Records ==
    /\ persist \in [Posters -> Snapshots \cup {NoSnapshot, Scheduled}]
    /\ stored \in Snapshots \cup {NoSnapshot}
    /\ sinceOpening \in 0..Recovery

\* The inductive invariant.  NoForgedOpening speaks of the record and of the
\* posts as well as of the breaker because a restart turns the one into the
\* other; with sinceOpening >= 0 it also says that a record of an opening has
\* an opening time, without which the seeded breaker would never leave open.
PInv == IInv /\ Records /\ NoForgedOpening

USE DEF Never, Snapshots, NoSnapshot, Scheduled

LEMMA InitPInv == PInit => PInv
<1> SUFFICES ASSUME PInit
             PROVE  PInv
  OBVIOUS
<1>1. IInv
  BY InitIInv DEF PInit
<1>2. Records /\ NoForgedOpening
  BY RecoveryAssumption DEF PInit, Init, Records, NoForgedOpening
<1>3. QED
  BY <1>1, <1>2 DEF PInv

\* No handler moves the opening time of a breaker that stays open.
LEMMA OpenKeepsAge ==
    ASSUME Handler, state = "open", state' = "open"
    PROVE  openedAge' = openedAge
BY DEF Handler, Send, allow_request, Answer, AnswerOk, AnswerFailed, AnswerUnauthorized,
       record_success, record_failure, Opens, Canary, ProbeSend, ProbeEnd, ProbeTimeout,
       ProbeAnswer, DbChange, breaker

LEMMA HandlerPInv == PInv /\ Handler /\ Bookkeeping => PInv'
<1> SUFFICES ASSUME PInv, Handler, Bookkeeping
             PROVE  PInv'
  OBVIOUS
<1>1. IInv'
  BY StepIInv DEF PInv, Next
<1>2. Records'
  BY RecoveryAssumption DEF PInv, Records, Bookkeeping, Schedule
<1>3. sinceOpening' <= sinceOpening
  BY DEF PInv, Records, Bookkeeping
<1>4. \A s \in Posters : persist'[s].state = "open" => persist'[s] = persist[s]
  BY DEF PInv, Records, Bookkeeping, Schedule
<1>5. state' = "open" => openedAge' >= sinceOpening'
  <2> SUFFICES ASSUME state' = "open"
               PROVE  openedAge' >= sinceOpening'
    OBVIOUS
  <2>1. CASE state = "open"
    BY <2>1, OpenKeepsAge DEF PInv, NoForgedOpening, Bookkeeping, Announced
  <2>2. CASE state # "open"
    BY <2>2, <1>1 DEF Bookkeeping, Announced, IInv, BreakerFields
  <2>3. QED
    BY <2>1, <2>2
<1>6. stored'.state = "open" => stored'.age >= sinceOpening'
  BY <1>2, <1>3 DEF PInv, Records, NoForgedOpening, Bookkeeping
<1>7. \A s \in Posters : persist'[s].state = "open" => persist'[s].age >= sinceOpening'
  BY <1>2, <1>3, <1>4 DEF PInv, Records, NoForgedOpening
<1>8. QED
  BY <1>1, <1>2, <1>5, <1>6, <1>7 DEF PInv, NoForgedOpening

LEMMA PersistPInv ==
    ASSUME PInv, NEW s \in Posters, PersistStep(s)
    PROVE  PInv'
<1>1. IInv'
  BY StepIInv DEF PInv, PersistStep, RunPersist, Land, Lose
<1>2. CASE RunPersist(s)
  <2>1. Records'
    BY <1>2, <1>1 DEF PInv, Records, RunPersist, IInv, BreakerFields, vars
  <2>2. NoForgedOpening'
    BY <1>2 DEF PInv, Records, NoForgedOpening, RunPersist, vars
  <2>3. QED
    BY <1>1, <2>1, <2>2 DEF PInv
<1>3. CASE Land(s) \/ Lose(s)
  <2>1. Records' /\ NoForgedOpening'
    BY <1>3 DEF PInv, Records, NoForgedOpening, Land, Lose, vars
  <2>2. QED
    BY <1>1, <2>1 DEF PInv
<1>4. QED
  BY <1>2, <1>3 DEF PersistStep

LEMMA RestartPInv == PInv /\ Restart => PInv'
<1> SUFFICES ASSUME PInv, Restart
             PROVE  PInv'
  OBVIOUS
<1>1. BreakerFields' /\ (state' = "open" => openedAge' >= sinceOpening')
  <2>1. CASE Unseeded
    BY <2>1, ThresholdAssumption, CapAssumption DEF Unseeded, BreakerFields
  <2>2. CASE stored.state = "open" /\ SeedOpen
    BY <2>2 DEF SeedOpen, BreakerFields, PInv, Records, NoForgedOpening, Restart
  <2>3. CASE stored.state = "open" /\ SeedHalfOpen
    BY <2>3, RecoveryAssumption, CapAssumption DEF SeedHalfOpen, BreakerFields
  <2>4. QED
    BY <2>1, <2>2, <2>3 DEF Restart, SeedBreaker
<1>2. FlightOK'
  BY DEF Restart, PInv, IInv, FlightOK, Idle
<1>3. Records'
  BY DEF Restart, PInv, Records
<1>4. \A s \in Posters : persist'[s].state = "open" => persist'[s].age >= sinceOpening'
  BY DEF Restart, PInv, Records, NoForgedOpening
<1>5. stored'.state = "open" => stored'.age >= sinceOpening'
  BY DEF Restart, PInv, Records, NoForgedOpening
<1>6. QED
  BY <1>1, <1>2, <1>3, <1>4, <1>5 DEF PInv, IInv, NoForgedOpening

\* Time keeps the order of two ages and the range of each.
LEMMA OlderMonotone ==
    ASSUME NEW a \in {Never} \cup 0..Recovery, NEW b \in 0..Recovery
    PROVE  /\ Older(a) \in {Never} \cup 0..Recovery
           /\ Older(b) \in 0..Recovery
           /\ a >= b => Older(a) >= Older(b)
           /\ a = Never <=> Older(a) = Never
           /\ a = Recovery => Older(a) = Recovery
BY RecoveryAssumption DEF Older

LEMMA ClockPInv == PInv /\ Clock => PInv'
<1> SUFFICES ASSUME PInv, Clock
             PROVE  PInv'
  OBVIOUS
<1>1. BreakerFields' /\ FlightOK'
  BY OlderMonotone, RecoveryAssumption DEF Clock, PInv, IInv, BreakerFields, FlightOK, Records
<1>2. sinceOpening' \in 0..Recovery
  BY OlderMonotone DEF Clock, PInv, Records
<1>3. /\ stored' \in Snapshots \cup {NoSnapshot}
      /\ stored'.state = "open" => stored'.age >= sinceOpening'
  <2>1. stored'.state = stored.state /\ stored'.failures = stored.failures
        /\ stored'.age = Older(stored.age)
    BY DEF Clock, PInv, Records
  <2>2. CASE stored = NoSnapshot
    BY <2>2, <2>1 DEF Clock, Older
  <2>3. CASE stored \in Snapshots
    BY <2>3, <2>1, OlderMonotone DEF Clock, PInv, Records, NoForgedOpening
  <2>4. QED
    BY <2>2, <2>3 DEF PInv, Records
<1>4. ASSUME NEW s \in Posters
      PROVE  /\ persist'[s] \in Snapshots \cup {NoSnapshot, Scheduled}
             /\ persist'[s].state = "open" => persist'[s].age >= sinceOpening'
  <2>1. persist'[s] = [persist[s] EXCEPT !.age = Older(@)]
    BY DEF Clock
  <2>2. CASE persist[s] \in {NoSnapshot, Scheduled}
    BY <2>2, <2>1 DEF Older
  <2>3. CASE persist[s] \in Snapshots
    BY <2>3, <2>1, OlderMonotone DEF Clock, PInv, Records, NoForgedOpening
  <2>4. QED
    BY <2>2, <2>3 DEF PInv, Records
<1>5. persist' \in [Posters -> Snapshots \cup {NoSnapshot, Scheduled}]
  BY <1>4 DEF Clock
<1>6. state' = "open" => openedAge' >= sinceOpening'
  BY OlderMonotone DEF Clock, PInv, IInv, BreakerFields, Records, NoForgedOpening
<1>7. QED
  BY <1>1, <1>2, <1>3, <1>4, <1>5, <1>6 DEF PInv, IInv, Records, NoForgedOpening

LEMMA StepPInv == PInv /\ [PNext]_pvars => PInv'
<1> SUFFICES ASSUME PInv, [PNext]_pvars
             PROVE  PInv'
  OBVIOUS
<1>1. CASE UNCHANGED pvars
  <2>1. IInv'
    BY <1>1, StepIInv DEF PInv, pvars
  <2>2. QED
    BY <1>1, <2>1 DEF PInv, pvars, vars, Records, NoForgedOpening
<1>2. QED
  BY <1>1, HandlerPInv, PersistPInv, RestartPInv, ClockPInv DEF PNext

\* No restart, loss or reordering of records makes a recovery window start
\* again: every opening is a real one with its real age or an older one's.
THEOREM OpeningsAreReal == PSpec => []NoForgedOpening
<1>1. PInv => NoForgedOpening
  BY DEF PInv
<1>2. QED
  BY <1>1, InitPInv, StepPInv, PTL DEF PSpec

\* The breaker's fields agree after a restart seeded from any record too.
THEOREM ConsistentAcrossRestarts == PSpec => []BreakerConsistent
<1>1. PInv => BreakerConsistent
  BY IInvImplies DEF PInv
<1>2. QED
  BY <1>1, InitPInv, StepPInv, PTL DEF PSpec

LEMMA RestartsCounted == PSpec => [](restarts \in 0..MaxRestarts)
<1>1. PInit => restarts \in 0..MaxRestarts
  BY RestartsAssumption DEF PInit
<1>2. restarts \in 0..MaxRestarts /\ [PNext]_pvars => (restarts \in 0..MaxRestarts)'
  BY RestartsAssumption
     DEF PNext, pvars, Bookkeeping, PersistStep, RunPersist, Land, Lose, Restart, Clock
<1>3. QED
  BY <1>1, <1>2, PTL DEF PSpec

\* The breaker, its record, the posts on their way and the history keep their types.
THEOREM TypesAcrossRestarts == PSpec => []PTypeOK
<1>1. PInv /\ restarts \in 0..MaxRestarts => PTypeOK
  BY IInvImplies DEF PInv, Records, PTypeOK
<1>2. QED
  BY <1>1, InitPInv, StepPInv, RestartsCounted, PTL DEF PSpec
=============================================================================
