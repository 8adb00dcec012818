----------------------------- MODULE InngestRuns -----------------------------
(***************************************************************************)
(* The durable functions of db-v3: src/routers/inngest_engine.py.          *)
(*                                                                         *)
(* Inngest (external) runs a function by requests.  Each request executes  *)
(* the body from its top: a step whose result is memoised is skipped, the  *)
(* first other one is executed and its result is the answer, and what the  *)
(* body does outside of its steps is done again by every request.  A       *)
(* request whose answer does not arrive is sent again, some times.         *)
(* When the run is over, the lifecycle event starts a handler, which is    *)
(* such a function itself.                                                 *)
(***************************************************************************)
EXTENDS Naturals, FiniteSets, SequencesExt

CONSTANTS
    MaxTables,  \* bound: tables with triggers
    BatchSize,  \* _TRIGGER_BATCH_SIZE, 50 in the code
    MaxFaults,  \* bound: crashes, lost answers and failed statements
    MaxRows     \* bound: rows of the table that bq_dr_sync_table copies

ASSUME SizesAssumption ==
    MaxTables \in Nat /\ BatchSize \in Nat \ {0} /\ MaxFaults \in Nat /\ MaxRows \in Nat

VARIABLES
    fn,       \* which function runs as "main"
    event,    \* its event: the required fields are there; job_id or callback_tool is given
    memo,     \* external: the results Inngest has memoised, per run
    todo,     \* what the request under way still has to do, per run
    pc,       \* external: absent, queued, requested, returned or failed, per run
    attempt,  \* external: failed requests since the last memoised step, per run
    faults,   \* the faults so far
    job,      \* the statuses of the run's rows in background_jobs
    sched,    \* the function's status in scheduled_jobs
    applied,  \* external: the tables whose triggers are as the operation wants
    execs,    \* history: executions of the tool that came to their end
    table,    \* external: rows of the table to copy
    latest,   \* external: rows in the table's latest.ndjson on GCS
    loads,    \* external: BigQuery's load jobs of this run
    drjobs    \* status of each of them in bq_dr_jobs

bq == <<table, latest, loads, drjobs>>
world == <<job, sched, applied, execs, bq>>
vars == <<fn, event, memo, todo, pc, attempt, faults, world>>

Runs      == {"main", "handler"}
Functions == {"db", "tool", "cron", "vertex", "driver", "trigger", "bq"}
Open      == {"pending", "running"}
Closed    == {"done", "error"}

\* retries=
Retries == [db |-> 1, tool |-> 2, cron |-> 1, vertex |-> 1, driver |-> 0, trigger |-> 1, bq |-> 2,
            lifecycle |-> 1]

Function(r) == IF r = "main" THEN fn ELSE "lifecycle"

-----------------------------------------------------------------------------
(* What a request does, given the memoised results m.                      *)

Op(kind, arg)  == [op |-> kind, arg |-> arg]
Insert(status) == Op("insert", status)      \* background_jobs, without ON CONFLICT
Update(status) == Op("update", status)      \* background_jobs
Sched(status)  == Op("sched", status)       \* _update_scheduled_job
Step(id)       == Op(id[1], id[2])          \* ctx.step.run
Return         == Op("return", 0)
Raise          == Op("raise", 0)

Tables       == <<"get-table-list", 0>>
Batch(i)     == <<"batch", i>>
RunTool      == <<"run-tool", 0>>
Poll         == <<"poll", 0>>
LogStarted   == <<"log-started", 0>>
LogPoll      == <<"log-poll", 0>>
LogFailed    == <<"log-failed", 0>>
LogCompleted == <<"log-completed", 0>>
Submit       == <<"submit-load-job", 0>>
WaitForBq    == <<"wait-for-bq", 0>>
Harvest      == <<"harvest", 0>>

\* The next of these steps, or what follows them.
Durably(steps, m, after) ==
    LET left == {i \in DOMAIN steps : steps[i] \notin DOMAIN m}
    IN  IF left = {} THEN after ELSE <<Step(steps[Min(left)])>>

\* Mutation: the last batch is cut off.
NumBatches_Floor(n) == n \div BatchSize
NumBatches(n) == (n + BatchSize - 1) \div BatchSize
TablesOf(i, n) == {t \in 1..n : (t - 1) \div BatchSize = i - 1}

\* Tables left as they were, by the memoised answers of the batches.
Errors(m) == UNION {m[Batch(i)] : i \in 1..NumBatches(m[Tables])}

DbOperations(m) ==
    <<Sched("RUNNING")>> \o
    IF ~event.valid THEN <<Raise>>
    ELSE LET batches == IF Tables \in DOMAIN m THEN [i \in 1..NumBatches(m[Tables]) |-> Batch(i)] ELSE <<>>
         IN  Durably(<<Tables>> \o batches, m,
                     <<Sched(IF Errors(m) = {} THEN "SUCCESS" ELSE "UNKNOWN"), Return>>)

\* Mutation: the word that scheduled_jobs uses.
Verdict_Success(result) == IF result = "error" THEN "error" ELSE "success"

\* Mutation: the outcome is not looked at.
Verdict_Done(result) == "done"

\* job_ok: a tool that reports no error is done.
Verdict(result) == IF result = "error" THEN "error" ELSE "done"

IqEventDispatcher(m) ==
    IF ~event.valid THEN <<Raise>>
    ELSE (IF event.given THEN <<Update("running")>> ELSE <<Insert("pending"), Update("running")>>)
         \o Durably(<<RunTool>>, m, <<Update(Verdict(m[RunTool])), Return>>)

\* Mutation: the outcome is not written.
DynamicCron_NoOutcome(m) == <<Insert("running")>> \o Durably(<<RunTool>>, m, <<Return>>)

\* The stamp on cron_schedules and the INSERT share one try block; the stamp, which
\* nothing here reads, and the heartbeat of the step's background task are left out.
DynamicCron(m) ==
    <<Insert("running")>> \o Durably(<<RunTool>>, m, <<Update(Verdict(m[RunTool])), Return>>)

\* At the first sleep the name datetime is not bound: the body raises NameError
\* unless the first poll is a terminal one, and no second poll is ever made.
VertexMonitor(m) ==
    LET callback == IF event.given THEN <<RunTool, LogCompleted>> ELSE <<LogCompleted>>
        finale == CASE m[Poll] = "RUNNING"   -> <<Raise>>
                    [] m[Poll] = "FAILED"    -> Durably(<<LogFailed>>, m, <<Return>>)
                    [] m[Poll] = "SUCCEEDED" -> Durably(callback, m, <<Return>>)
    IN  IF ~event.valid THEN <<Raise>>
        ELSE Durably(<<LogStarted, Poll>>, m,
                     IF m[Poll] = "not a dict" THEN <<Raise>> ELSE Durably(<<LogPoll>>, m, finale))

\* Mutation: the batch is fired by the body itself.
PlatformCronDriver_NoStep(m) == <<Op("dispatch", 0)>> \o Durably(<<LogStarted>>, m, <<Return>>)

PlatformCronDriver(m) == Durably(<<RunTool>>, m, <<Return>>)

\* No step: the body itself dispatches the tool.
DynamicEventTrigger(m) == <<Op("dispatch", 0), Return>>

BqDrSyncTable(m) ==
    IF ~event.valid THEN <<Raise>> ELSE Durably(<<Submit, WaitForBq, Harvest>>, m, <<Return>>)

\* iq_job_finished_handler and iq_job_failed_handler.
Lifecycle(m) == <<Op("reconcile", 0), Return>>

Body(r) ==
    CASE Function(r) = "db"        -> DbOperations(memo[r])
      [] Function(r) = "tool"      -> IqEventDispatcher(memo[r])
      [] Function(r) = "cron"      -> DynamicCron(memo[r])
      [] Function(r) = "vertex"    -> VertexMonitor(memo[r])
      [] Function(r) = "driver"    -> PlatformCronDriver(memo[r])
      [] Function(r) = "trigger"   -> DynamicEventTrigger(memo[r])
      [] Function(r) = "bq"        -> BqDrSyncTable(memo[r])
      [] Function(r) = "lifecycle" -> Lifecycle(memo[r])

-----------------------------------------------------------------------------

TypeOK ==
    /\ fn \in Functions
    /\ event \in [valid : BOOLEAN, given : BOOLEAN]
    /\ \A r \in Runs : attempt[r] \in 0..Retries[Function(r)]
    /\ pc \in [Runs -> {"absent", "queued", "requested", "returned", "failed"}]
    /\ \A r \in Runs : (todo[r] # <<>>) <=> (pc[r] = "requested")
    /\ faults \in 0..MaxFaults
    /\ job \subseteq Open \cup Closed
    /\ sched \in {"IDLE", "RUNNING", "SUCCESS", "UNKNOWN", "FAILURE"}
    /\ applied \subseteq 1..MaxTables
    /\ execs \in Nat
    /\ table \in 0..MaxRows /\ latest \in 0..MaxRows
    /\ \A j \in DOMAIN loads : loads[j] \in [exported : 0..MaxRows, state : {"RUNNING", "DONE", "ERROR"}, loaded : 0..MaxRows]
    /\ drjobs \in [DOMAIN loads -> {"no row", "pending", "ok", "row_mismatch", "failed"}]

Init ==
    /\ fn \in Functions
    /\ event \in [valid : BOOLEAN, given : BOOLEAN]
    /\ memo = [r \in Runs |-> <<>>]
    /\ todo = [r \in Runs |-> <<>>]
    /\ pc = [r \in Runs |-> IF r = "main" THEN "queued" ELSE "absent"]
    /\ attempt = [r \in Runs |-> 0]
    /\ faults = 0
    /\ job = IF fn = "tool" /\ event.given THEN {"pending"} ELSE {}
    /\ sched = "IDLE"
    /\ applied = {}
    /\ execs = 0
    /\ table \in (IF fn = "bq" THEN 0..MaxRows ELSE {0})
    /\ latest = table
    /\ loads = <<>>
    /\ drjobs = <<>>

Current(r) == Head(todo[r])
Doing(r, kinds) == pc[r] = "requested" /\ Current(r).op \in kinds

\* The function is called with what has been memoised.
Request(r) ==
    /\ pc[r] = "queued"
    /\ pc' = [pc EXCEPT ![r] = "requested"]
    /\ todo' = [todo EXCEPT ![r] = Body(r)]
    /\ UNCHANGED <<fn, event, memo, attempt, faults, world>>

\* The lifecycle event of the main run starts its handler.
Over(r, how) ==
    pc' = [q \in Runs |-> IF q = r THEN how ELSE IF r = "main" THEN "queued" ELSE pc[q]]

\* The request failed, leaving status s in scheduled_jobs; on_failure, whose code is
\* not in the repository, may leave a mark.
RequestFails(r, s) ==
    /\ todo' = [todo EXCEPT ![r] = <<>>]
    /\ UNCHANGED <<fn, event, memo>>
    /\ IF attempt[r] < Retries[Function(r)]
       THEN /\ attempt' = [attempt EXCEPT ![r] = @ + 1]
            /\ pc' = [pc EXCEPT ![r] = "queued"]
            /\ sched' = s
            /\ UNCHANGED job
       ELSE /\ Over(r, "failed")
            /\ sched' \in (IF r = "main" /\ fn \in {"db", "vertex"} THEN {s, "FAILURE"} ELSE {s})
            /\ job' \in (IF r = "main" /\ fn = "tool" /\ job # {} THEN {job, {"error"}} ELSE {job})
            /\ UNCHANGED attempt

Fault == faults < MaxFaults /\ faults' = faults + 1

\* The body goes on to its next operation.
GoOn(r) ==
    /\ todo' = [todo EXCEPT ![r] = Tail(@)]
    /\ UNCHANGED <<fn, event, memo, pc, attempt, applied, bq>>

\* Whether job_id is a key is not in the repository: a second row is refused or not.
WriteRow(r) ==
    /\ Doing(r, {"insert", "update", "sched"})
    /\ CASE Current(r).op = "insert" -> job' \in {job \cup {Current(r).arg}, IF job = {} THEN {Current(r).arg} ELSE job}
         [] Current(r).op = "update" -> job' = IF job = {} THEN {} ELSE {Current(r).arg}
         [] OTHER -> UNCHANGED job
    /\ sched' = IF Current(r).op = "sched" THEN Current(r).arg ELSE sched
    /\ GoOn(r)
    /\ UNCHANGED <<faults, execs>>

\* INSERT is in a try block, and so is every write of a dynamic cron; the helpers of
\* the other functions are not in the repository: they raise or they do not.
WriteFails(r) ==
    /\ Doing(r, {"insert", "update", "sched"})
    /\ Fault
    /\ UNCHANGED execs
    /\ \/ GoOn(r) /\ UNCHANGED <<job, sched>>
       \/ Current(r).op # "insert" /\ fn # "cron" /\ RequestFails(r, sched) /\ UNCHANGED <<applied, bq>>

Logs  == {"log-started", "log-poll", "log-failed", "log-completed"}
Steps == {"get-table-list", "batch", "run-tool", "poll", "submit-load-job", "wait-for-bq", "harvest"} \cup Logs

\* Mutation: the job is looked up by the run's id.
Submitted_ByRun(r) == loads[1]

\* The load job that harvest asks for.
Submitted(r) == loads[memo[r][Submit]]

\* integrity and final_status.
HarvestVerdict(load) ==
    CASE load.state = "ERROR"         -> "failed"
      [] load.loaded = load.exported -> "ok"
      [] OTHER                       -> "row_mismatch"

\* _fetch_trigger_tables, _apply_trigger_batch, _dispatch and the _log_ helpers,
\* _submit and _harvest: what they may answer.
Answers(r) ==
    CASE Current(r).op = "get-table-list"  -> 0..MaxTables
      [] Current(r).op = "batch"           -> SUBSET TablesOf(Current(r).arg, memo[r][Tables])
      [] Current(r).op = "run-tool"        -> {"ok", "error"}
      [] Current(r).op = "poll"            -> {"not a dict", "RUNNING", "FAILED", "SUCCEEDED"}
      [] Current(r).op = "submit-load-job" -> {Len(loads) + 1}
      [] Current(r).op = "harvest"         -> {HarvestVerdict(Submitted(r))}
      [] OTHER                             -> {"nothing"}

Perform(r, answer) ==
    /\ applied' = IF Current(r).op = "batch"
                  THEN applied \cup (TablesOf(Current(r).arg, memo[r][Tables]) \ answer)
                  ELSE applied
    /\ execs' = execs + (IF Current(r).op = "run-tool" THEN 1 ELSE 0)
    /\ latest' = IF Current(r).op = "submit-load-job" THEN table ELSE latest
    /\ loads' = IF Current(r).op = "submit-load-job"
                THEN Append(loads, [exported |-> table, state |-> "RUNNING", loaded |-> 0])
                ELSE loads
    /\ drjobs' = CASE Current(r).op = "submit-load-job" -> Append(drjobs, "pending")
                   [] Current(r).op = "harvest"         -> [drjobs EXCEPT ![memo[r][Submit]] = answer]
                   [] OTHER                             -> drjobs
    /\ UNCHANGED table

\* The job is not DONE: harvest raises, and Inngest retries it.
TooEarly(r) == Current(r).op = "harvest" /\ Submitted(r).state = "RUNNING"

\* scheduled_jobs after the step.
Logged(r) ==
    CASE Current(r).op = "log-started"   -> "RUNNING"
      [] Current(r).op = "log-failed"    -> "FAILURE"
      [] Current(r).op = "log-completed" -> "SUCCESS"
      [] OTHER                           -> sched

Memoised(m, id, answer) == [s \in DOMAIN m \cup {id} |-> IF s = id THEN answer ELSE m[s]]

\* The step is executed and Inngest memoises its result.
StepAnswers(r) ==
    /\ Doing(r, Steps)
    /\ ~TooEarly(r)
    /\ \E a \in Answers(r) :
          /\ Perform(r, a)
          /\ sched' = Logged(r)
          /\ memo' = [memo EXCEPT ![r] = Memoised(@, <<Current(r).op, Current(r).arg>>, a)]
    /\ attempt' = [attempt EXCEPT ![r] = 0]
    /\ pc' = [pc EXCEPT ![r] = "queued"]
    /\ todo' = [todo EXCEPT ![r] = <<>>]
    /\ UNCHANGED <<fn, event, faults, job>>

\* The step is executed and its answer is lost, or it raises at its end; a batch may
\* have got to any of its tables.
AnswerLost(r) ==
    /\ Doing(r, Steps)
    /\ ~TooEarly(r)
    /\ Fault
    /\ \E a \in Answers(r) : Perform(r, a)
    /\ RequestFails(r, Logged(r))

\* The process ends, or the operation raises before it has done anything.
Crash(r) ==
    /\ pc[r] = "requested"
    /\ Fault
    /\ RequestFails(r, sched)
    /\ UNCHANGED <<applied, execs, bq>>

\* _submit raises after the upload, or after BigQuery has taken the job.
SubmitFails(r) ==
    /\ Doing(r, {"submit-load-job"})
    /\ Fault
    /\ latest' = table
    /\ \/ UNCHANGED <<loads, drjobs>>
       \/ /\ loads' = Append(loads, [exported |-> table, state |-> "RUNNING", loaded |-> 0])
          /\ drjobs' = Append(drjobs, "no row")
    /\ RequestFails(r, sched)
    /\ UNCHANGED <<applied, execs, table>>

\* The body of a dynamic event trigger dispatches its tool.
Dispatch(r) ==
    /\ Doing(r, {"dispatch"})
    /\ execs' = execs + 1
    /\ GoOn(r)
    /\ UNCHANGED <<faults, job, sched>>

\* inngest_job_reconciler closes the rows the main run left open.
Reconcile(r) ==
    /\ Doing(r, {"reconcile"})
    /\ job' = IF job \cap Open = {} THEN job
              ELSE {IF pc["main"] = "failed" THEN "error" ELSE Verdict(memo["main"][RunTool])}
    /\ GoOn(r)
    /\ UNCHANGED <<faults, sched, execs>>

Returns(r) ==
    /\ Doing(r, {"return"})
    /\ Over(r, "returned")
    /\ todo' = [todo EXCEPT ![r] = <<>>]
    /\ UNCHANGED <<fn, event, memo, attempt, faults, world>>

\* Whatever the tool raises passes through _dispatch, the reconciler included.
Raises(r) ==
    /\ Doing(r, {"raise", "run-tool", "dispatch", "reconcile"}) \/ (Doing(r, {"harvest"}) /\ TooEarly(r))
    /\ RequestFails(r, sched)
    /\ UNCHANGED <<faults, applied, execs, bq>>

\* BigQuery runs a load job, on the file as it is by then.
LoadRuns(j) ==
    /\ loads[j].state = "RUNNING"
    /\ \/ loads' = [loads EXCEPT ![j].state = "DONE", ![j].loaded = latest]
       \/ loads' = [loads EXCEPT ![j].state = "ERROR"]
    /\ UNCHANGED <<fn, event, memo, todo, pc, attempt, faults, job, sched, applied, execs, table, latest, drjobs>>

\* The table changes; another run for the same table uploads what it read.
OthersWrite ==
    /\ fn = "bq" /\ pc["main"] \in {"queued", "requested"}
    /\ table' \in 0..MaxRows
    /\ latest' \in {latest, table}
    /\ UNCHANGED <<fn, event, memo, todo, pc, attempt, faults, job, sched, applied, execs, loads, drjobs>>

Proceed(r) ==
    Request(r) \/ WriteRow(r) \/ StepAnswers(r) \/ Dispatch(r) \/ Reconcile(r) \/ Returns(r) \/ Raises(r)

Next ==
    \/ \E r \in Runs : Proceed(r) \/ WriteFails(r) \/ AnswerLost(r) \/ Crash(r) \/ SubmitFails(r)
    \/ \E j \in DOMAIN loads : LoadRuns(j)
    \/ OthersWrite

\* Inngest sends every request that is due, and a request ends.
Spec == Init /\ [][Next]_vars /\ \A r \in Runs : WF_vars(Proceed(r))

-----------------------------------------------------------------------------
(* Properties.                                                             *)

\* "Every tool execution gets a background_jobs row": whatever is retried, replayed or
\* lost, the row is in the end closed for good, by the function or by the lifecycle
\* handler, though the body sets it back to running in every request.  It is left open
\* only if both go wrong: the handler runs out of attempts, which the reconciler's own
\* exceptions are enough for, and the function did too, or a fault took its last write.
LeftOpen ==
    /\ pc["handler"] = "failed"
    /\ pc["main"] = "failed" \/ faults > 0
EveryJobCloses == event.valid => <>[](job \subseteq Closed \/ LeftOpen)

\* A row says done only when the memoised execution of the tool said so, and error only
\* when that one did or the run failed: the answer of an execution that was lost, or a
\* write made before the replay, does not count.
RowTellsOutcome ==
    /\ "done" \in job => RunTool \in DOMAIN memo["main"] /\ memo["main"][RunTool] = "ok"
    /\ "error" \in job =>
          \/ RunTool \in DOMAIN memo["main"] /\ memo["main"][RunTool] = "error"
          \/ pc["main"] = "failed"

\* The functions that are to run a tool whatever happens, and those that return.
RunsTool == fn \in {"tool", "cron", "driver", "trigger"} \/ (fn = "vertex" /\ sched = "SUCCESS" /\ event.given)

\* Replays alone never run the tool again, and no run is over, and no Vertex job a
\* success, without it: each execution too many is owed to a fault of its own.
ToolRunsOnce ==
    /\ execs <= 1 + faults
    /\ RunsTool /\ pc["main"] = "returned" => execs >= 1

\* db-operations is a SUCCESS only if every table it listed was altered, by the
\* execution of its batch that was memoised or by an earlier one.
SuccessIsComplete ==
    fn = "db" /\ sched = "SUCCESS" =>
        Tables \in DOMAIN memo["main"] /\ 1..memo["main"][Tables] \subseteq applied

\* "submit + sleep are memoised -- no double-submit" as far as it holds: a second load
\* job of a run is owed to a fault, only the memoised job's row ever gets a verdict, and
\* when the run returns it is the job's own.  The rows of the others stay pending.
HarvestsItsJob ==
    /\ Len(loads) <= 1 + faults
    /\ \A j \in DOMAIN drjobs : drjobs[j] \notin {"no row", "pending"} =>
          Submit \in DOMAIN memo["main"] /\ j = memo["main"][Submit] /\ drjobs[j] = HarvestVerdict(loads[j])
    /\ fn = "bq" /\ pc["main"] = "returned" => drjobs[memo["main"][Submit]] \notin {"no row", "pending"}

\* "Polls via ctx.step.sleep()... Runs durably up to 60 minutes": a monitor that meets
\* no fault does not fail while its Vertex job is running.
MonitorWaits ==
    fn = "vertex" /\ faults = 0 /\ Poll \in DOMAIN memo["main"] /\ memo["main"][Poll] = "RUNNING"
        => pc["main"] # "failed"
=============================================================================
