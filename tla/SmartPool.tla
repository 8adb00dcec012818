------------------------------ MODULE SmartPool ------------------------------
(***************************************************************************)
(* Failover of db-v3 between AlloyDB and BigQuery: src/smart_pool.py,      *)
(* class SmartPool, with the parts of src/main.py that drive it: the       *)
(* lifespan of a replica and POST /api/alloydb-recovered.                  *)
(*                                                                         *)
(* Every replica has a pool of its own; they share AlloyDB, the degraded   *)
(* flag in GCS and the recovery signal, which Pub/Sub pushes to one        *)
(* replica and repeats until that replica answers 200.  A slot is a task   *)
(* of the replica's event loop; a step is what runs between two awaits.    *)
(* Slots come in three kinds, so that tasks of one kind that hang do not   *)
(* use up the model's slots for the others.                                *)
(*                                                                         *)
(* SmartPool._lock is held across an await only while the flag is written, *)
(* so it is held exactly when a slot of the replica is "flagging".  Work   *)
(* done on BigQuery touches none of this state and is left out.            *)
(***************************************************************************)
EXTENDS Integers

CONSTANTS
    Replicas,   \* replicas of db-v3
    Acquirers,  \* tasks a replica runs at once that use acquire()
    Direct,     \* tasks that use fetchval, fetchrow, fetch or execute
    Handlers,   \* requests of Pub/Sub
    Threshold   \* FAILOVER_THRESHOLD (3 in the code)

Slots == Acquirers \cup Direct \cup Handlers

\* One failure is no outage: a replica that fails on start does not fail over.
ASSUME ThresholdAssumption == Threshold \in Nat \ {0, 1}

VARIABLES
    alloydb,    \* external: up; strained: some connections are to be had, be it
                \* idle ones of an AlloyDB that is gone, some statements are
                \* answered; down: neither
    flag,       \* external: degraded_mode.json exists in the bucket
    signal,     \* external: a recovery message waits for a 200
    phase,      \* per replica: where it is in its lifespan
    degraded,   \* _degraded
    failcount,  \* _failcount
    pc          \* per replica and slot: what the task awaits

pool == <<degraded, failcount>>
vars == <<alloydb, flag, signal, phase, degraded, failcount, pc>>

Phases == {"stopped", "checking", "clearing", "replaying", "loading", "serving"}

Points == {"idle", "acquiring", "body", "query", "failed", "flagging",
           "probing", "exiting", "deleting", "replaying"}

TypeOK ==
    /\ alloydb \in {"up", "strained", "down"}
    /\ flag \in BOOLEAN
    /\ signal \in BOOLEAN
    /\ phase \in [Replicas -> Phases]
    /\ degraded \in [Replicas -> BOOLEAN]
    /\ failcount \in [Replicas -> 0..(Threshold - 1)]
    /\ pc \in [Replicas -> [Slots -> Points]]

Init ==
    /\ alloydb = "up"
    /\ flag = FALSE
    /\ signal = FALSE
    /\ phase = [r \in Replicas |-> "stopped"]
    /\ degraded = [r \in Replicas |-> FALSE]
    /\ failcount = [r \in Replicas |-> 0]
    /\ pc = [r \in Replicas |-> [s \in Slots |-> "idle"]]

-----------------------------------------------------------------------------

Reachable == alloydb # "down"
MayFail   == alloydb # "up"

\* SmartPool._lock of replica r.
Locked(r) == \E s \in Slots : pc[r][s] = "flagging"

Goto(r, s, from, to) ==
    /\ pc[r][s] = from
    /\ pc' = [pc EXCEPT ![r][s] = to]

\* A task awaits something and comes back with the pool as it was.
Await(r, s, from, to) ==
    /\ Goto(r, s, from, to)
    /\ UNCHANGED <<alloydb, flag, signal, phase, pool>>

-----------------------------------------------------------------------------
(* acquire() and fetchval/fetchrow/fetch/execute in normal mode.           *)

Normal(r) == phase[r] = "serving" /\ ~degraded[r]

Acquire(r, s) == s \in Acquirers /\ Normal(r) /\ Await(r, s, "idle", "acquiring")
Query(r, s)   == s \in Direct /\ Normal(r) /\ Await(r, s, "idle", "query")

\* The count is reset on a clean acquire, under no lock, and only there.
CleanAcquire(r, s) ==
    /\ Reachable
    /\ Goto(r, s, "acquiring", "body")
    /\ failcount' = [failcount EXCEPT ![r] = 0]
    /\ UNCHANGED <<alloydb, flag, signal, phase, degraded>>

\* The body of `async with acquire()` and a direct statement end well.
CallOk(r, s) ==
    /\ Reachable
    /\ \E at \in {"body", "query"} : Await(r, s, at, "idle")

\* Mutation: what the timeout of acquire() raises is not counted.
CallFails_TimeoutUncounted(r, s) ==
    \/ \E at \in {"body", "query"} : Await(r, s, at, "failed")
    \/ Await(r, s, "acquiring", "idle")

\* No connection, within two seconds or at all; a statement or the body raises,
\* for whatever reason, also with AlloyDB up; or the body, which the timeout
\* covers as well, takes too long.
CallFails(r, s) ==
    \E at \in {"acquiring", "body", "query"} : Await(r, s, at, "failed")

-----------------------------------------------------------------------------
(* _maybe_failover and _enter_degraded.                                    *)

\* Another task has failed over since this one failed.
AlreadyDegraded(r, s) ==
    /\ ~Locked(r)
    /\ degraded[r]
    /\ Await(r, s, "failed", "idle")

\* Mutation: failures are counted and never lead to a failover.
CountFailure_NoThreshold(r, s) ==
    /\ ~Locked(r)
    /\ ~degraded[r]
    /\ Goto(r, s, "failed", "idle")
    /\ failcount' = [failcount EXCEPT ![r] = @ + 1]
    /\ UNCHANGED <<alloydb, flag, signal, phase, degraded>>

CountFailure(r, s) ==
    /\ ~Locked(r)
    /\ ~degraded[r]
    /\ failcount[r] + 1 < Threshold
    /\ Goto(r, s, "failed", "idle")
    /\ failcount' = [failcount EXCEPT ![r] = @ + 1]
    /\ UNCHANGED <<alloydb, flag, signal, phase, degraded>>

\* Mutation: the count is left at the threshold.
EnterDegraded_KeepsCount(r, s) ==
    /\ ~Locked(r)
    /\ ~degraded[r]
    /\ failcount[r] + 1 >= Threshold
    /\ Goto(r, s, "failed", "flagging")
    /\ degraded' = [degraded EXCEPT ![r] = TRUE]
    /\ UNCHANGED <<alloydb, flag, signal, phase, failcount>>

\* The mode changes at once; the flag is written with the lock held.
EnterDegraded(r, s) ==
    /\ ~Locked(r)
    /\ ~degraded[r]
    /\ failcount[r] + 1 >= Threshold
    /\ Goto(r, s, "failed", "flagging")
    /\ degraded' = [degraded EXCEPT ![r] = TRUE]
    /\ failcount' = [failcount EXCEPT ![r] = 0]
    /\ UNCHANGED <<alloydb, flag, signal, phase>>

\* Mutation: the lock is asked for once more; asyncio.Lock is not reentrant.
FlagWritten_Relocks(r, s) ==
    /\ ~Locked(r)
    /\ Goto(r, s, "flagging", "idle")
    /\ flag' \in {flag, TRUE}
    /\ UNCHANGED <<alloydb, signal, phase, pool>>

\* The write to GCS ends, well or not: errors are swallowed.
FlagWritten(r, s) ==
    /\ Goto(r, s, "flagging", "idle")
    /\ flag' \in {flag, TRUE}
    /\ UNCHANGED <<alloydb, signal, phase, pool>>

-----------------------------------------------------------------------------
(* POST /api/alloydb-recovered and _exit_degraded.                         *)

\* Mutation: a replica that is not degraded refuses the message.
NothingToDo_Refused(r) == signal /\ Normal(r) /\ UNCHANGED vars

\* A replica that is not degraded answers 200 at once.
NothingToDo(r) ==
    /\ signal
    /\ Normal(r)
    /\ signal' = FALSE
    /\ UNCHANGED <<alloydb, flag, phase, pool, pc>>

RecoverySignal(r, s) ==
    /\ s \in Handlers
    /\ signal
    /\ phase[r] = "serving"
    /\ degraded[r]
    /\ Await(r, s, "idle", "probing")

\* SELECT 1 answers within five seconds, or the handler answers 503.
ProbeOk(r, s)    == Reachable /\ Await(r, s, "probing", "exiting")
ProbeFails(r, s) == MayFail /\ Await(r, s, "probing", "idle")

\* Mutation: the mode is changed without the lock.
ExitDegraded_NoLock(r, s) ==
    /\ degraded[r]
    /\ Goto(r, s, "exiting", "deleting")
    /\ degraded' = [degraded EXCEPT ![r] = FALSE]
    /\ failcount' = [failcount EXCEPT ![r] = 0]
    /\ UNCHANGED <<alloydb, flag, signal, phase>>

\* The lock is taken and released in one step: nothing is awaited under it.
ExitDegraded(r, s) ==
    /\ ~Locked(r)
    /\ degraded[r]
    /\ Goto(r, s, "exiting", "deleting")
    /\ degraded' = [degraded EXCEPT ![r] = FALSE]
    /\ failcount' = [failcount EXCEPT ![r] = 0]
    /\ UNCHANGED <<alloydb, flag, signal, phase>>

\* Another signal's handler was first: _exit_degraded returns, answer 200.
AlreadyNormal(r, s) ==
    /\ ~Locked(r)
    /\ ~degraded[r]
    /\ Goto(r, s, "exiting", "idle")
    /\ signal' = FALSE
    /\ UNCHANGED <<alloydb, flag, phase, pool>>

\* The deletion ends, well or not: errors are swallowed.
FlagDeleted(r, s) ==
    /\ Goto(r, s, "deleting", "replaying")
    /\ flag' \in {flag, FALSE}
    /\ UNCHANGED <<alloydb, signal, phase, pool>>

\* bq_replay is fired, with a key that is read from AlloyDB, or not: errors are
\* swallowed; answer 200.
ReplayFired(r, s) ==
    /\ Goto(r, s, "replaying", "idle")
    /\ signal' = FALSE
    /\ UNCHANGED <<alloydb, flag, phase, pool>>

-----------------------------------------------------------------------------
(* The lifespan of a replica.                                              *)

Enter(r, p) == phase' = [phase EXCEPT ![r] = p]

\* _create_pool and _ensure_schema need AlloyDB; then check_degraded_flag,
\* which takes a flag it cannot read for no flag.
Start(r) ==
    /\ phase[r] = "stopped"
    /\ Reachable
    /\ \/ flag /\ Enter(r, "checking") /\ degraded' = [degraded EXCEPT ![r] = TRUE]
       \/ Enter(r, "loading") /\ UNCHANGED degraded
    /\ UNCHANGED <<alloydb, flag, signal, failcount, pc>>

\* The probe of the lifespan answers: _exit_degraded.
BootRecovers(r) ==
    /\ phase[r] = "checking"
    /\ Reachable
    /\ Enter(r, "clearing")
    /\ degraded' = [degraded EXCEPT ![r] = FALSE]
    /\ UNCHANGED <<alloydb, flag, signal, failcount, pc>>

BootStaysDegraded(r) ==
    /\ phase[r] = "checking"
    /\ MayFail
    /\ Enter(r, "loading")
    /\ UNCHANGED <<alloydb, flag, signal, pool, pc>>

BootClears(r) ==
    /\ phase[r] = "clearing"
    /\ Enter(r, "replaying")
    /\ flag' \in {flag, FALSE}
    /\ UNCHANGED <<alloydb, signal, pool, pc>>

BootReplays(r) ==
    /\ phase[r] = "replaying"
    /\ Enter(r, "loading")
    /\ UNCHANGED <<alloydb, flag, signal, pool, pc>>

\* The statements that count the tools, through the pool: a failure, of AlloyDB
\* (the first one of this process) or of BigQuery, ends it.  The loads of crons
\* and triggers that follow swallow their errors: they are tasks like any
\* other, so the replica counts as serving from here on.
LoadTools(r) ==
    /\ phase[r] = "loading"
    /\ \/ (degraded[r] \/ Reachable) /\ Enter(r, "serving") /\ UNCHANGED degraded
       \/ Enter(r, "stopped") /\ degraded' = [degraded EXCEPT ![r] = FALSE]
    /\ UNCHANGED <<alloydb, flag, signal, failcount, pc>>

\* The replica is killed or scaled in.  What it was writing to GCS may or may
\* not have been done.
Stop(r) ==
    /\ phase[r] # "stopped"
    /\ Enter(r, "stopped")
    /\ degraded' = [degraded EXCEPT ![r] = FALSE]
    /\ failcount' = [failcount EXCEPT ![r] = 0]
    /\ pc' = [pc EXCEPT ![r] = [s \in Slots |-> "idle"]]
    /\ \/ flag' = flag
       \/ flag' = TRUE /\ Locked(r)
       \/ flag' = FALSE /\ (phase[r] = "clearing" \/ \E s \in Slots : pc[r][s] = "deleting")
    /\ UNCHANGED <<alloydb, signal>>

\* AlloyDB comes and goes; its recovery is announced on Pub/Sub.
AlloyDBChange ==
    /\ alloydb' \in {"up", "strained", "down"} \ {alloydb}
    /\ signal' = (signal \/ alloydb = "down")
    /\ UNCHANGED <<flag, phase, pool, pc>>

-----------------------------------------------------------------------------

Failover(r, s) == AlreadyDegraded(r, s) \/ CountFailure(r, s) \/ EnterDegraded(r, s)

CallEnds(r, s) == CleanAcquire(r, s) \/ CallOk(r, s) \/ CallFails(r, s)

\* What ends by a timeout: of httpx, or the probe's own.
Bounded(r, s) == FlagWritten(r, s) \/ ProbeOk(r, s) \/ ProbeFails(r, s) \/ FlagDeleted(r, s)

Exit(r, s) == ExitDegraded(r, s) \/ AlreadyNormal(r, s)

Boot(r) ==
    \/ BootRecovers(r) \/ BootStaysDegraded(r)
    \/ BootClears(r) \/ BootReplays(r) \/ LoadTools(r)

Next ==
    \/ \E r \in Replicas, s \in Slots :
          \/ Acquire(r, s) \/ Query(r, s) \/ CallEnds(r, s) \/ Failover(r, s)
          \/ RecoverySignal(r, s) \/ Bounded(r, s) \/ Exit(r, s) \/ ReplayFired(r, s)
    \/ \E r \in Replicas : NothingToDo(r) \/ Start(r) \/ Boot(r) \/ Stop(r)
    \/ AlloyDBChange

Spec == Init /\ [][Next]_vars

\* acquire() and the probe have timeouts, and so has httpx.  A direct statement
\* and the read of bq_replay's key have none: they end if AlloyDB is up, and may
\* hang for ever if it is not.  asyncio.Lock serves its waiters in turn, hence
\* strong fairness of what waits for it.  Requests that use acquire() keep
\* coming to a replica that serves, and Pub/Sub repeats the signal.
Fairness ==
    \A r \in Replicas :
        /\ \A s \in Acquirers : WF_vars(CallEnds(r, s))
        /\ \A s \in Direct : WF_vars(alloydb = "up" /\ CallEnds(r, s))
        /\ \A s \in Handlers : /\ WF_vars(alloydb = "up" /\ ReplayFired(r, s))
                              /\ SF_vars(Exit(r, s))
        /\ \A s \in Acquirers \cup Direct : SF_vars(Failover(r, s))
        /\ \A s \in Slots : WF_vars(Bounded(r, s))
        /\ WF_vars(\E s \in Acquirers : Acquire(r, s))
        /\ WF_vars(NothingToDo(r) \/ \E s \in Handlers : RecoverySignal(r, s))

FairSpec == Spec /\ Fairness

-----------------------------------------------------------------------------
(* Properties.                                                             *)

\* A degraded pool has no failures left over: when it recovers it takes a
\* whole Threshold of them to fail over again, although late failures of the
\* outage and resets under no lock go on while it is degraded.
NoLeftoverFailures ==
    \A r \in Replicas : degraded[r] => failcount[r] = 0

\* While a replica writes the degraded flag it stays degraded and no other
\* task of it writes: recovery waits for the lock, so the flag of an episode
\* is deleted after it was written, never overtaken by its own write.
FlagWriteInEpisode ==
    \A r \in Replicas, s \in Slots :
        pc[r][s] = "flagging" =>
            /\ phase[r] = "serving"
            /\ degraded[r]
            /\ \A t \in Slots : pc[r][t] = "flagging" => t = s

\* With AlloyDB down for good, idle connections included, and requests coming,
\* every replica that serves ends up on BigQuery, and stays there, although
\* direct statements may hang and never be counted.
CutsOver ==
    <>[](alloydb = "down") =>
        <>[](\A r \in Replicas : phase[r] = "serving" => degraded[r])

\* No task waits for ever for the lock, which is held across a slow write to
\* GCS and wanted by every failing task and by recovery: a call of acquire()
\* ends whatever AlloyDB does and however many others hang in it, and every
\* task ends when AlloyDB is back for good.
EveryTaskEnds ==
    /\ \A r \in Replicas, s \in Acquirers : (pc[r][s] # "idle") ~> (pc[r][s] = "idle")
    /\ <>[](alloydb = "up") =>
           \A r \in Replicas, s \in Slots : (pc[r][s] # "idle") ~> (pc[r][s] = "idle")

\* With AlloyDB up for good, a replica that stays in service gets the recovery
\* message answered with a 200: Pub/Sub does not repeat it for ever.
SignalAnswered ==
    \A r \in Replicas :
        <>[](alloydb = "up" /\ phase[r] = "serving") => <>[]~signal

\* "Recovery: POST /api/alloydb-recovered verifies AlloyDB and switches back"
\* (smart_pool.py:7): all replicas are degraded, the recovery message is out,
\* AlloyDB stays up and the replicas stay in service.  Then all switch back.
AllServing == \A r \in Replicas : phase[r] = "serving"

EveryReplicaRecovers ==
    (/\ signal
     /\ \A r \in Replicas : degraded[r]
     /\ [](alloydb = "up" /\ AllServing))
    ~> \A r \in Replicas : ~degraded[r]
=============================================================================
