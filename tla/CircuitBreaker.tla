--------------------------- MODULE CircuitBreaker ---------------------------
(***************************************************************************)
(* The gateway's circuit breaker and the calls that go through it:         *)
(* src/server.py, class CircuitBreaker, _proxy and _probe_dispatch.        *)
(*                                                                         *)
(* A call runs _proxy: it asks the breaker for leave, posts to db-v3 and   *)
(* is suspended until the answer comes, so many calls are in flight at     *)
(* once and their answers reach the breaker in any order.  A probe runs    *)
(* _probe_dispatch (gateway_status): it never asks for leave.  The event   *)
(* loop runs the code between two awaits as one step.                      *)
(*                                                                         *)
(* Time: the code compares monotonic() - _opened_at with recovery_s only,  *)
(* so the model keeps the age of the opening, in ticks, up to Recovery.    *)
(***************************************************************************)
EXTENDS Integers, FiniteSets

CONSTANTS
    Calls,        \* slots for concurrent _proxy calls
    Probes,       \* slots for concurrent _probe_dispatch calls
    Threshold,    \* consecutive failures that open the breaker (5 in the code)
    Recovery,     \* recovery_s, in ticks of the clock
    FailureCap,   \* bound: the counter is not followed beyond this value, for
                  \* TLC's sake; at Threshold or above, only a reset matters
    Conditions    \* conditions of db-v3: it answers ("up"); times out, refuses
                  \* or answers 5xx ("down"); or answers 401 ("badkey")

ASSUME ThresholdAssumption  == Threshold \in Nat \ {0}
ASSUME RecoveryAssumption   == Recovery \in Nat \ {0}
ASSUME ConditionsAssumption == "up" \in Conditions
ASSUME CapAssumption        == FailureCap \in Nat /\ FailureCap >= Threshold

VARIABLES
    state,      \* _state
    failures,   \* _failures, not followed beyond FailureCap
    openedAge,  \* ticks since _opened_at, up to Recovery; Never for None
    inflight,   \* per call: the conditions of db-v3 met since it was posted
    probing,    \* per probe: the same
    trials,     \* history: in-flight calls the half-open breaker let through
    db          \* external: the condition of db-v3

breaker == <<state, failures, openedAge>>
vars == <<state, failures, openedAge, inflight, probing, trials, db>>

\* _opened_at is None.
Never == -1

Idle == {}

TypeOK ==
    /\ state \in {"closed", "open", "half-open"}
    /\ failures \in Nat
    /\ openedAge \in {Never} \cup 0..Recovery
    /\ inflight \in [Calls -> SUBSET Conditions]
    /\ probing \in [Probes -> SUBSET Conditions]
    /\ trials \subseteq Calls
    /\ db \in Conditions

Init ==
    /\ state = "closed"
    /\ failures = 0
    /\ openedAge = Never
    /\ inflight = [c \in Calls |-> Idle]
    /\ probing = [p \in Probes |-> Idle]
    /\ trials = {}
    /\ db = "up"

-----------------------------------------------------------------------------
(* The breaker's methods.                                                  *)

Counted(n) == IF n < FailureCap THEN n + 1 ELSE n

\* Mutation: the failure count survives a success.
record_success_KeepsCount ==
    /\ state' = "closed"
    /\ openedAge' = Never
    /\ UNCHANGED failures

\* Mutation: the state is not reset with the count.
record_success_KeepsState ==
    /\ failures' = 0
    /\ UNCHANGED <<state, openedAge>>

record_success ==
    /\ state' = "closed"
    /\ failures' = 0
    /\ openedAge' = Never

\* Opening again while half-open does not look at the counter; a failure that
\* comes in while the breaker is open is counted and changes nothing else.
Opens == \/ state = "closed" /\ failures + 1 >= Threshold
         \/ state = "half-open"

record_failure ==
    /\ failures' = Counted(failures)
    /\ state' = IF Opens THEN "open" ELSE state
    /\ openedAge' = IF Opens THEN 0 ELSE openedAge

RecoveryOver == openedAge >= Recovery

\* Mutation: the state is misspelt, so that no failure opens it again.
allow_request_Misspelt ==
    /\ state = "open" => RecoveryOver
    /\ state' = IF state = "open" THEN "half_open" ELSE state
    /\ UNCHANGED <<failures, openedAge>>

\* allow_request returning True.  When it returns False (open, recovery_s not
\* over) nothing changes: the caller is refused at once.
allow_request ==
    /\ state = "open" => RecoveryOver
    /\ state' = IF state = "open" THEN "half-open" ELSE state
    /\ UNCHANGED <<failures, openedAge>>

-----------------------------------------------------------------------------
(* _proxy: leave, post, answer.                                            *)

Send(c) ==
    /\ inflight[c] = Idle
    /\ allow_request
    /\ inflight' = [inflight EXCEPT ![c] = {db}]
    /\ trials' = IF state' = "half-open" THEN trials \cup {c} ELSE trials
    /\ UNCHANGED <<probing, db>>

\* The call ends: its slot is free again.
Finish(c) ==
    /\ inflight' = [inflight EXCEPT ![c] = Idle]
    /\ trials' = trials \ {c}
    /\ UNCHANGED <<probing, db>>

\* Any answer below 500 other than 401, an error of the tool included.
AnswerOk(c)     == "up" \in inflight[c] /\ record_success /\ Finish(c)

\* Mutation: a failed call is not reported to the breaker.
AnswerFailed_Unrecorded(c) == "down" \in inflight[c] /\ UNCHANGED breaker /\ Finish(c)

\* 5xx, timeout, connection error.
AnswerFailed(c) == "down" \in inflight[c] /\ record_failure /\ Finish(c)

\* Mutation: a 401 is taken for a failure of db-v3.
AnswerUnauthorized_Counted(c) == "badkey" \in inflight[c] /\ record_failure /\ Finish(c)

\* 401 is neither a success nor a failure.
AnswerUnauthorized(c) == "badkey" \in inflight[c] /\ UNCHANGED breaker /\ Finish(c)

\* The call for gateway_canary_upstream: leave is asked for, then it raises.
Canary ==
    /\ allow_request
    /\ UNCHANGED <<inflight, probing, trials, db>>

-----------------------------------------------------------------------------
(* _probe_dispatch.                                                        *)

ProbeSend(p) ==
    /\ probing[p] = Idle
    /\ probing' = [probing EXCEPT ![p] = {db}]
    /\ UNCHANGED <<breaker, inflight, trials, db>>

\* Only a timeout is recorded.
ProbeTimeout(p) ==
    /\ "down" \in probing[p]
    /\ record_failure
    /\ probing' = [probing EXCEPT ![p] = Idle]
    /\ UNCHANGED <<inflight, trials, db>>

\* Any answer, a 5xx included, and a connection that fails at once.
ProbeAnswer(p) ==
    /\ probing[p] # Idle
    /\ probing' = [probing EXCEPT ![p] = Idle]
    /\ UNCHANGED <<breaker, inflight, trials, db>>

-----------------------------------------------------------------------------
(* The environment.                                                        *)

Tick ==
    /\ openedAge \in 0..(Recovery - 1)
    /\ openedAge' = openedAge + 1
    /\ UNCHANGED <<state, failures, inflight, probing, trials, db>>

\* Everything in flight meets the new condition of db-v3.
Meet(f, d) == [x \in DOMAIN f |-> IF f[x] = Idle THEN Idle ELSE f[x] \cup {d}]

DbChange ==
    /\ db' \in Conditions \ {db}
    /\ inflight' = Meet(inflight, db')
    /\ probing' = Meet(probing, db')
    /\ UNCHANGED <<breaker, trials>>

-----------------------------------------------------------------------------

Answer(c) == AnswerOk(c) \/ AnswerFailed(c) \/ AnswerUnauthorized(c)
ProbeEnd(p) == ProbeTimeout(p) \/ ProbeAnswer(p)

Handler ==
    \/ \E c \in Calls : Send(c) \/ Answer(c)
    \/ Canary
    \/ \E p \in Probes : ProbeSend(p) \/ ProbeEnd(p)
    \/ DbChange

Next == Handler \/ Tick

Spec == Init /\ [][Next]_vars

\* The clock advances; httpx ends every call (120 s) and every probe (8 s);
\* clients keep asking.  Nothing is assumed of db-v3.
Fairness ==
    /\ WF_vars(Tick)
    /\ \A c \in Calls : WF_vars(Answer(c))
    /\ \A p \in Probes : WF_vars(ProbeEnd(p))
    /\ WF_vars(\E c \in Calls : Send(c))

FairSpec == Spec /\ Fairness

-----------------------------------------------------------------------------
(* Properties.                                                             *)

\* The three fields of the breaker agree after any interleaving of answers:
\* a closed breaker has no opening time and a count below the threshold (a
\* count left over from an outage would open it again on the first failure);
\* a half-open breaker has waited the whole of recovery_s; a trial call
\* exists only in flight.
BreakerConsistent ==
    /\ state = "closed" <=> openedAge = Never
    /\ state = "closed" => failures < Threshold
    /\ state = "half-open" => openedAge = Recovery
    /\ \A c \in trials : inflight[c] # Idle

\* Once db-v3 is back for good and clients keep calling, the breaker closes
\* and stays closed, whatever was still in flight from the outage.
RecoversWhenUp == <>[](db = "up") => <>[](state = "closed")

\* Once db-v3 is down for good and clients keep calling, the breaker is never
\* again closed, and it keeps coming back to open: traffic is cut to trials.
FailsFastWhenDown ==
    <>[](db = "down") => <>[](state # "closed") /\ []<>(state = "open")

\* "Auth failures (401) do NOT penalize the circuit" (server.py:626): while
\* db-v3 answers with nothing but 401, the breaker cannot stay open nor come
\* back to open, whatever answers and probes from an outage before are late
\* and although no success ever resets the count: each call reports the key.
BadKeyNeverCutsOff == <>[](db = "badkey") => <>[](state # "open")

\* "half-open: one probe allowed" (server.py:625, 635, 687): at most one call
\* let through by the half-open breaker is waiting for its answer.
OneTrial == Cardinality(trials) <= 1
=============================================================================
