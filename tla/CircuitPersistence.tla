------------------------ MODULE CircuitPersistence ------------------------
(***************************************************************************)
(* The circuit breaker of CircuitBreaker together with its record in       *)
(* db-v3 (tool gateway_circuit_state) and with restarts of the gateway:    *)
(* src/server.py, _schedule_persist, _persist_circuit_state, _startup.     *)
(*                                                                         *)
(* Every opening and every closing schedules a background task.  The task  *)
(* reads the breaker when it first runs, not when it was scheduled, and    *)
(* posts what it read; posts overtake each other and get lost, and one     *)
(* already sent survives the process that sent it.  A starting gateway     *)
(* seeds its breaker from the record, if db-v3 gives it one.               *)
(***************************************************************************)
EXTENDS CircuitBreaker

CONSTANTS
    Posters,      \* bound: persist tasks alive at once
    MaxRestarts   \* bound: restarts followed

ASSUME RestartsAssumption == MaxRestarts \in Nat

VARIABLES
    persist,   \* per persist task: NoSnapshot, Scheduled, or what it posted
    stored,    \* external: the record in db-v3, NoSnapshot when not found
    restarts,  \* restarts so far
    sinceOpening  \* history: ticks since a breaker last opened, up to Recovery

pvars == <<vars, persist, stored, restarts, sinceOpening>>

Snapshots == [state : {"closed", "open", "half-open"},
              failures : Nat, age : {Never} \cup 0..Recovery]
NoSnapshot == [state |-> "none", failures |-> 0, age |-> Never]
Scheduled  == [NoSnapshot EXCEPT !.state = "scheduled"]

PTypeOK ==
    /\ TypeOK
    /\ persist \in [Posters -> Snapshots \cup {NoSnapshot, Scheduled}]
    /\ stored \in Snapshots \cup {NoSnapshot}
    /\ restarts \in 0..MaxRestarts
    /\ sinceOpening \in 0..Recovery

PInit ==
    /\ Init
    /\ persist = [s \in Posters |-> NoSnapshot]
    /\ stored = NoSnapshot
    /\ restarts = 0
    /\ sinceOpening = Recovery

-----------------------------------------------------------------------------

\* _schedule_persist, called by record_success when the breaker was not closed
\* and by record_failure when it opens; leaving open for half-open is silent.
Announced == state' # state /\ state' \in {"closed", "open"}

Schedule ==
    IF Announced
    THEN \E s \in Posters :
            /\ persist[s] = NoSnapshot
            /\ persist' = [persist EXCEPT ![s] = Scheduled]
    ELSE UNCHANGED persist

Bookkeeping ==
    /\ Schedule
    /\ sinceOpening' = IF Announced /\ state' = "open" THEN 0 ELSE sinceOpening
    /\ UNCHANGED <<stored, restarts>>

\* The task runs: it reads the breaker as it is now and posts it.
RunPersist(s) ==
    /\ persist[s] = Scheduled
    /\ persist' = [persist EXCEPT ![s] = [state |-> state, failures |-> failures, age |-> openedAge]]
    /\ UNCHANGED <<vars, stored, restarts, sinceOpening>>

\* The post reaches db-v3 and its tool writes the record.
Land(s) ==
    /\ persist[s] \in Snapshots
    /\ db = "up"
    /\ stored' = persist[s]
    /\ persist' = [persist EXCEPT ![s] = NoSnapshot]
    /\ UNCHANGED <<vars, restarts, sinceOpening>>

\* The post fails: _persist_circuit_state swallows every error.
Lose(s) ==
    /\ persist[s] \in Snapshots
    /\ persist' = [persist EXCEPT ![s] = NoSnapshot]
    /\ UNCHANGED <<vars, stored, restarts, sinceOpening>>

-----------------------------------------------------------------------------

\* Mutation: the opening time is taken to be the time of the restart.
SeedOpen_Now ==
    /\ stored.age < Recovery
    /\ state' = "open"
    /\ failures' = stored.failures
    /\ openedAge' = 0

\* Mutation: the seeded breaker is given no opening time.
SeedOpen_NoTime ==
    /\ stored.age < Recovery
    /\ state' = "open"
    /\ failures' = stored.failures
    /\ openedAge' = Never

\* Mutation: the half-open seed does not set the opening time.
SeedHalfOpen_NoTime ==
    /\ stored.age >= Recovery
    /\ state' = "half-open"
    /\ failures' = 0
    /\ openedAge' = Never

\* opened_at is moved onto this process's clock, so the age goes on.
SeedOpen ==
    /\ stored.age < Recovery
    /\ state' = "open"
    /\ failures' = stored.failures
    /\ openedAge' = stored.age

SeedHalfOpen ==
    /\ stored.age >= Recovery
    /\ state' = "half-open"
    /\ failures' = 0
    /\ openedAge' = Recovery

\* A new CircuitBreaker is closed.
Unseeded ==
    /\ state' = "closed"
    /\ failures' = 0
    /\ openedAge' = Never

SeedBreaker ==
    IF stored.state = "open" THEN SeedOpen \/ SeedHalfOpen ELSE Unseeded

\* The process dies with its calls and its tasks; posts on their way remain.
\* _startup ends before the first request, so death and start are one step.
\* The record is read through db-v3 itself; any error leaves the breaker closed.
Restart ==
    /\ restarts < MaxRestarts
    /\ restarts' = restarts + 1
    /\ \/ db = "up" /\ SeedBreaker
       \/ Unseeded
    /\ inflight' = [c \in Calls |-> Idle]
    /\ probing' = [p \in Probes |-> Idle]
    /\ trials' = {}
    /\ persist' = [s \in Posters |-> IF persist[s] = Scheduled THEN NoSnapshot ELSE persist[s]]
    /\ UNCHANGED <<stored, db, sinceOpening>>

-----------------------------------------------------------------------------

Older(age) == IF age \in 0..(Recovery - 1) THEN age + 1 ELSE age

\* Time passes for the breaker, for the record and for what is on its way.
Clock ==
    /\ openedAge' = Older(openedAge)
    /\ persist' = [s \in Posters |-> [persist[s] EXCEPT !.age = Older(@)]]
    /\ stored' = [stored EXCEPT !.age = Older(@)]
    /\ sinceOpening' = Older(sinceOpening)
    /\ <<openedAge, persist, stored, sinceOpening>>' # <<openedAge, persist, stored, sinceOpening>>
    /\ UNCHANGED <<state, failures, inflight, probing, trials, db, restarts>>

PersistStep(s) == RunPersist(s) \/ Land(s) \/ Lose(s)

PNext == (Handler /\ Bookkeeping) \/ (\E s \in Posters : PersistStep(s)) \/ Restart \/ Clock

PSpec == PInit /\ [][PNext]_pvars

\* As in CircuitBreaker, and every persist task ends (3 s timeout).
PFairSpec ==
    /\ PSpec
    /\ WF_pvars(Clock)
    /\ \A c \in Calls : WF_pvars(Answer(c) /\ Bookkeeping)
    /\ \A p \in Probes : WF_pvars(ProbeEnd(p) /\ Bookkeeping)
    /\ WF_pvars((\E c \in Calls : Send(c)) /\ Bookkeeping)
    /\ \A s \in Posters : WF_pvars(PersistStep(s))

-----------------------------------------------------------------------------
(* Properties.                                                             *)

\* Every opening on record, on its way there, or seeded from there, is a real
\* one with its real age or an older one's: whatever was lost or reordered and
\* however often the gateway restarts, no restart makes a recovery window start
\* again, and an open breaker is within recovery_s of failures that were seen.
NoForgedOpening ==
    /\ state = "open" => openedAge >= sinceOpening
    /\ stored.state = "open" => stored.age >= sinceOpening
    /\ \A s \in Posters : persist[s].state = "open" => persist[s].age >= sinceOpening

\* With restarts and stale records too, the breaker ends up closed when db-v3
\* is back for good ("prevents it staying falsely OPEN forever").
StillRecoversWhenUp == <>[](db = "up") => <>[](state = "closed")
=============================================================================
