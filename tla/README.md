# TLA+ models of the Miller MCP gateway and its database service

The repository holds two services. The **gateway** (`server.py`, shipped with
`work_ticket.py`, `line_trace.py`, `culprit.py`, `arg_parse.py`,
`smart_pool.py`) is a stateless MCP and REST front. It forwards tool calls over
HTTP to **db-v3** (`main.py`, `smart_pool.py`, `routers/inngest_engine.py`),
which loads tool code from AlloyDB, runs it, and fails over to BigQuery when
AlloyDB is down. Both are single-threaded asyncio programs: the code between
two awaits runs as one step, and everything hard happens between those steps.

## Inventory

| Component | State | Operations | Talks to | What is hard | What makes it correct |
|---|---|---|---|---|---|
| Circuit breaker, `_proxy`, `_probe_dispatch` (server.py 622-708, 848-887, 1153-1232) | `_state`, `_failures`, `_opened_at` | `allow_request`, `record_success`, `record_failure`; a proxied call; a dispatch probe | db-v3 `/execute` | many calls in flight, late answers from before an outage | the fields agree; it recovers; it cuts off, and never for a 401 |
| Breaker persistence (718-759, 1245-1306) | the record in db-v3, tasks in flight | post on open/close; seed on startup | db-v3 tool `gateway_circuit_state` | posts lost, late, reordered, outliving the process; restarts | no invented or prolonged opening |
| SmartPool (smart_pool.py 282-464; main.py 586-642, 847-876) | `_degraded`, `_failcount`, `_lock` per replica; the GCS flag | `acquire`, `fetch*`, `execute`; enter and exit degraded mode; boot | AlloyDB, BigQuery, GCS, Pub/Sub | a lock held over a slow write, resets outside it, a flag shared by replicas, a signal that reaches one of them | fresh count per episode, ordered flag writes, cut-over, no task stuck at the lock |
| Work-ticket ledger (work_ticket.py; server.py 395-414, 1061-1086, 1743-1750) | `_counts` | `grant`, drain, write, put back; canary; final flush | db-v3 tool `work_ticket_ingest` | threads, failed writes, writes applied and not acknowledged, cancellation | nothing lost, nothing counted twice, the canary's row never written |
| Line trace (line_trace.py; server.py 274-309) | recorder per request, `_state`, lines disabled in the interpreter | `begin`, `end`, `_on_line` | `sys.monitoring` | one callback for all requests; one request's budget blinds the others; tasks that outlive their request | a summary is complete or marked partial; a record keeps its budget |
| Span and error buffers (server.py 158-237, 423-482, 1751-1754) | `_WT_SPANS`, `_TL_ERRORS`, `_WT_SPANS_DROPPED` | add; flush a batch; put it back | db-v3 tool `gateway_span_ingest` | a bounded buffer that fills while a batch is away; a flush whose failure adds a record | order, no loss of what fits, the buffers drain |
| Door and outbound hook (server.py 268-392) | context variables of a request | ticket, span per request and per outbound call | the two buffers | context inheritance | each request has its own ticket |
| Dispatch and code cache (main.py 349-538, 718-776) | `_CODE_CACHE`, the registry | `_dispatch`, registry restore | AlloyDB through SmartPool | version read before an await and used after it; version numbers that come back with other code | the code run is the code registered |
| Execution graph (main.py 119-224, 374-384, 431-436, 467-525, 879-910) | the ContextVar `_current_tool`; edges on their way | capture, set and reset around each tool; header, event argument; `_record_call_edge` | Inngest, `/execute` | nested calls, cancellation, tasks that inherit the context, events that run later | an edge names the tool that made the call; no call goes unseen |
| Render cache (main.py 919-1062) | `_RENDER_CACHE` | get, set, sweep | dispatch | a result from before a write is cached after it; expiry, sweep and eviction of one dict | bounded; no answer older than a render, the write of its metrics and its TTL; a live page goes only for want of room |
| Inngest engine (routers/inngest_engine.py) | rows in `background_jobs`, `scheduled_jobs`, `bq_dr_jobs`; the function list | event dispatch, dynamic crons and triggers, trigger batches, DR sync, batch monitor, lifecycle handlers | Inngest, BigQuery, GCS, dispatch | steps executed again, bodies replayed from the top, lost answers, retries that run out | every job row closes with the outcome that counts; nothing is repeated but for a fault; a success is complete |
| Culprit records (culprit.py) | bounded registries | frames to a culprit | - | pure | names the failing tool frame |
| Argument parsing, routes, auth gate (arg_parse.py, server.py) | none across requests | parse, frame, authorise | - | text processing | covered by unit tests |
| JWT gateway, build and deployment | - | - | - | not part of the running image | - |

## Modules

| Module | Models | Kind |
|---|---|---|
| `CircuitBreaker` | breaker, `_proxy`, `_probe_dispatch` | component |
| `CircuitPersistence` | composes `CircuitBreaker` with persist tasks, the record and restarts | composition |
| `SmartPool` | replicas, AlloyDB, GCS flag, recovery signal | component |
| `GrantBooks` | what the ledger promises | abstract specification |
| `WorkTicket` | the ledger, shown to implement `GrantBooks` | component, refinement |
| `LineTrace`, `MCLineTrace` | recorders over one callback; symmetry for TLC | component, model |
| `SpanBuffer` | the two bounded buffers and their two flushers | component |
| `CodeCache` | one tool's dispatches, `_CODE_CACHE`, the registry and its BigQuery copy | component |
| `CallGraph`, `MCCallGraph` | who is recorded to have called whom, over tasks, nested dispatches and events; symmetry for TLC | component, model |
| `RenderCache`, `MCRenderCache` | `_BoundedTTLCache` and the requests that use it; symmetry for TLC | component, model |
| `InngestRuns` | one run of any durable function with its lifecycle handler, executed by Inngest's requests | component over an external executor |
| `CircuitProofs` | theorems about `CircuitBreaker` and `CircuitPersistence` | proofs |
| `TelemetryProofs` | theorems about `LineTrace` and `SpanBuffer` | proofs |
| the other `*Proofs` | theorems about the module of the same name | proofs |

### How the models correspond to the code

**Steps.** An action is what the event loop runs between two awaits: the guard
is the condition the code tests there. A call that is awaiting is a slot (a
`c \in Calls`, a task `s` of replica `r`, a flush `f`) with a value that says
what it awaits. An await ends by an action for each outcome: answered, failed,
timed out, cancelled. What the other side does meanwhile is kept as the set of
*conditions met* (`inflight`, `probing`, `met`): a call posted while db-v3 was
up and answered after it went down may end either way.

**CircuitBreaker.** `Send` is `allow_request` returning True and the post;
`AnswerOk`, `AnswerFailed`, `AnswerUnauthorized` are the three ends of `_proxy`.
A refused call changes nothing and is no action. `_opened_at` is kept as the age
of the opening in ticks, since the code only compares `monotonic() - _opened_at`
with `recovery_s`. The code counts failures without end; TLC follows the count to
`FailureCap >= Threshold`, above which only a reset matters, and no property or type
speaks of that cap.
`Canary` is the call for `gateway_canary_upstream`, which asks the breaker for
leave and then raises. `trials` is history: in-flight calls let through
half-open.

**CircuitPersistence.** Every step of the breaker that opens or closes it
schedules a persist task (`Bookkeeping` is conjoined to the step). The task
reads the breaker when it runs (`RunPersist`), the post lands (`Land`, external)
or is lost (`Lose`). `Restart` is death and `_startup` in one step, since no
request is served in between; posts already sent survive it. `sinceOpening` is
history: the time since the last real opening.

**SmartPool.** `pc[r][s]` says what a task awaits. `_lock` is not a variable:
it is held over an await only while the flag is written, so `Locked(r)` is
"some task of `r` is flagging". A task is one
of three kinds: a call of `acquire()` (`Acquirers`), a direct statement (`Direct`) or
a recovery request (`Handlers`). `alloydb` is *up*, *strained* (some connections are to
be had, be it idle ones of an AlloyDB that is gone, and some statements are answered)
or *down* (neither). A call may fail in each of them, since any exception counts, that
of a bad statement too. `replaying` is `_exit_degraded` firing `bq_replay`. GCS writes and deletes end
well or not, both swallowed. `Stop` kills a replica anywhere; what it was writing
to GCS may or may not have happened.

**WorkTicket.** A row's total and miss count move together and are one number.
`applied` separates db-v3 adding the rows from the gateway learning of it. The
canary's four steps exclude the other tasks of the event loop (its writer
raises without suspending) but not the threads that grant. The refinement mapping
`Books` reads *owed* as counted, or drained and not applied; *posted* as applied
and not acknowledged; *settled* as the rest of what db-v3 wrote.

**LineTrace.** A location is a line; the set `disabled` is the interpreter's.
`events` counts on after the cut, as the code does. `ran` is history: every line reached on behalf of a live recorder, seen or not.
A recorder belongs to the context that began it and is inherited by `Spawn`.

**SpanBuffer.** Items are numbered in the order they are added, so a buffer's
content and its order are one sequence. Its specification is `BufferSpec`, so that it
can be read next to that of `LineTrace`. The error record of a failed flush is
part of `Fails`, with and without (it is deduplicated for a minute).
`reported` and `stored` are history.

**CodeCache.** A dispatch is suspended while its connection reads the row, while
that connection is released (`loaded`), and while its tool runs. What
tools write to the registry is external: `Update` bumps AlloyDB's version, and
`DegradedUpdate` appends to BigQuery as `_write_dml` does, so a read there may
get any row of the tool. Both stores can be written at any time, since each
replica has its own mode. `named` is history: the bodies a version number has
named.

**CallGraph.** A task is one asyncio context; `current` is `_current_tool` there,
`stack` the dispatches under way, each with the `caller` it captured and its reset
`token`. `by` and `origin` are history: the tool whose code did make the call, and
the tool a task runs for. `Fails(t, i)` ends the i-th call and, as `wait_for` cancels
what it waits for, all calls nested in it. A request makes one outermost call; a
task that a tool created may make several and outlive the tool. Events and edges
under way are sets, since Inngest may run an event more than once.

**RenderCache.** Time is in ticks. `asOf` is history: when the tool read the data of
a page, between the start and the end of its render (`Read`). The dict's order is
`older`, the keys inserted before each key, because `set` on a key that is there
keeps its place. `shown` is the age of the data in the last answer. When the tool
has ended, `_dispatch` still awaits the write of its metrics before the time to live is
stamped (`logging`). `Tick` respects two bounds: `MaxRender`, the tool's timeout, and
`MaxLog`, the longest such write: the two seconds of `acquire()`, the pool's lock and
httpx's timeouts on BigQuery. That a write ends within some bound is assumed, not shown.

**InngestRuns.** The executor is external and modelled as the SDK's contract: a
request runs the body from its top, skips memoised steps, and ends at the first other
step, whose result is memoised. A body is therefore a function from the memoised
results to the list of what the request does (`DbOperations(memo)` and so on), which
is taken off operation by operation, so that a crash or a failing write can come
between any two. Answers get lost (`AnswerLost`: executed, not memoised), statements
fail (`WriteFails`), a submit fails after the upload or after BigQuery took the job
(`SubmitFails`). `_update_background_job`, `_update_scheduled_job` and the
`on_failure` handlers are imported from modules that are not in the repository: they
raise or not, and leave their mark or not. A tool may raise whenever it is executed
(`Raises`), the reconciler in the lifecycle handlers like any other: that is no fault
and not bounded. The poll loop of `vertex_batch_monitor` is
one poll, because the code never gets to a second one (see the disagreements).

## Runs

| Run | Asks | Answer |
|---|---|---|
| `CircuitBreaker` (3 calls, 1 probe, threshold 3, recovery 2 ticks) | do the breaker's fields agree in every interleaving (`BreakerConsistent`); does it recover (`RecoversWhenUp`), cut off (`FailsFastWhenDown`), and stay passable while db-v3 answers 401 (`BadKeyNeverCutsOff`) | holds |
| `CircuitPersistence` (2 calls, threshold 2, 2 persist tasks, 1 restart) | does a lost, late or stale record ever invent or prolong an opening (`NoForgedOpening`), and do agreement and recovery survive restarts (`StillRecoversWhenUp`) | holds |
| `SmartPool` (1 replica with 1 call of `acquire()`, 1 direct statement and 2 recovery requests; threshold 2) | `NoLeftoverFailures`, `FlagWriteInEpisode`, `CutsOver`, `EveryTaskEnds`, `SignalAnswered` | holds |
| `WorkTicket` (2 rows and the canary's, 2 grants each, 2 doubtful failures) | `Exact`, `CanaryNeverWritten`, and the refinement `KeepsBooks` | holds |
| `WorkTicketShutdown` | "its final minute of counts is not lost" (`FinalMinuteNotLost`) | violated: a cancelled final flush loses the rows it drained, with no other flush under way |
| `LineTrace` (3 recorders, 2 contexts, 2 lines, budget 1) | `BudgetKept`, `CompleteUnlessPartial`, `DisabledIsDirty`, `SummaryIsFinal` | holds |
| `SpanBuffer` (2 spans and 2 errors held, batches of 2 and 1, 3 added to each) | is what waits in order (`InOrder`) and never overtaken (`OldestFirst`); what is lost, and when (`LosesOnlyWhenFull`); do the buffers drain (`AllIsSent`) | holds |
| `CodeCache` (2 dispatches, 3 bodies of which one does not compile, 2 versions) | does a dispatch run its row's code (`RunsItsRow`); does a bump evict (`EvictsOnBump`) | holds |
| `InngestRuns` (every function; up to 5 tables in batches of 2, 1 row to copy, 2 faults) | does every job row close (`EveryJobCloses`) with the outcome that counts (`RowTellsOutcome`); are tools and load jobs repeated for a fault only (`ToolRunsOnce`, `HarvestsItsJob`); is a SUCCESS complete (`SuccessIsComplete`) | holds |
| `VertexMonitorWaits` | "Polls via ctx.step.sleep() ... up to 60 minutes" (`MonitorWaits`) | violated: the first sleep raises NameError |
| `RenderCache` (2 requests, 3 keys, room for 2, sweep every second hit, TTL up to 2, render 1, metrics 1, 5 ticks) | `Bounded`, `ShowsRecentData`, `EvictsOnlyWhenFull` | holds |
| `CallGraph` (2 tasks, 4 tools, 2 nested calls, 1 event and 1 edge at a time) | does an edge name the caller (`EdgesAreReal`); is a call of a tool ever missed (`EveryCallIsSeen`) | holds |

Four more configurations reproduce disagreements listed below and end in a
counterexample: `tlc -config CircuitOneTrial.cfg CircuitBreaker` (`OneTrial`),
`SmartPoolAllRecover.cfg` of `SmartPool` (`EveryReplicaRecovers`), `SpanDrops.cfg` of
`SpanBuffer` (`DropsCounted`) and `CodeCacheFresh.cfg` of `CodeCache` (`FreshCode`).

### Bounds, and why they suffice

*Circuit breaker.* Three calls allow one to open the breaker and two to be late,
or three half-open trials with different answers. Threshold 3 has counts below,
at and above it with calls in flight. Two ticks of recovery separate "open",
"not yet" and "over". *Persistence.* Two persist tasks are enough for one post
to overtake another; one restart leaves room for the posts of a dead process.
*SmartPool.* Four tasks are one that writes the flag, one that waits for the
lock to count and two that wait for it to exit, the second of which finds the pool
back to normal; the direct statement may hang meanwhile. Two replicas with one
recovery request and one call of `acquire()` each show the recovery signal missing one. *WorkTicket.* Two rows tell the canary's
from others and let a put-back meet new grants in one row and not the other.
*LineTrace.* Three recorders are a nested pair and a concurrent one; budget 1
makes the second event a cut; the bound on epochs admits two cuts and two
re-arms. *SpanBuffer.* Buffers of two with three added overflow while a batch is away;
spans go in one batch and errors one by one, so that what is left is overtaken if a
batch comes back to the wrong end. *CodeCache.* Two dispatches are one with an old row and one with a new
one; two versions are one bump; two rows in BigQuery are the copy and one
degraded write. *InngestRuns.* Batches of two over up to five tables have none, one,
a full last and a short last batch. Two faults hit one operation twice, or an
operation and its repetition, or the function and its handler; the retries (0 to 2)
run out within them, or by a tool that raises each time. `EveryJobCloses` leaves out
one outcome (`LeftOpen`): the lifecycle handler runs out of attempts, for which a
reconciler that raises is enough, and the function failed too or lost its last write by
a fault; nothing in the repository closes the row then. It holds with three faults as
well, in a longer run. *RenderCache.* Two
requests let a slow render overwrite a newer page; a third key makes a cache of two
evict; five ticks cover a render, the write of its metrics, a time to live and a hit
after it. *CallGraph.* Two
tasks are a parent and the child that outlives it, or a tool and its `/execute` call;
two nested calls make a caller, and a third of none; one event may run while its
firing tool goes on. Runs that switch deadlock checking off (`WorkTicket`, `LineTrace`,
`SpanBuffer`, `InngestRuns`) bound the number of inputs, so they do come to rest.

### Fairness

*CircuitBreaker*: the clock ticks; httpx ends each call (120 s) and each probe
(8 s) by its timeout; clients keep calling. Nothing is assumed about db-v3: the
liveness properties say what follows if it is up, or down, for good.
*CircuitPersistence*: besides, each persist task ends (3 s timeout).
*SmartPool*: what has a timeout in the repository ends: `acquire()` with its body (2 s),
the probe (5 s), httpx (10 s). The direct statements (smart_pool.py:426, 436, 446, 456)
and the read of the key of `bq_replay` (354-357) have none, and `ASYNCPG_POOL_CONFIG` is
not in the repository: they end if AlloyDB is up and may hang for ever otherwise. So
`EveryTaskEnds` promises an end to `acquire()` whatever AlloyDB does, and to the others
only when AlloyDB is back for good; `CutsOver` has to hold by the calls of `acquire()`
alone. That asyncpg gives a connection back promptly when its `acquire()` is cancelled
is assumed. `asyncio.Lock` wakes its waiters in order,
hence strong fairness for what waits on it; requests that use `acquire()` keep coming,
and Pub/Sub repeats an unacknowledged message. *SpanBuffer*: the loop wakes every five
seconds, httpx ends each write (10 s), and `wait_for` the final flush (5 s).
*CodeCache*: every await of a dispatch ends (acquire and tools have timeouts),
callers keep calling, and not every call is refused. *InngestRuns*: Inngest sends
every request that is due, and a request goes on to its end or meets a fault (weak
fairness on `Proceed`); nothing is assumed of BigQuery, whose load may run for ever,
since harvest then runs out of attempts. `WorkTicket`, `LineTrace`, `RenderCache` and
`CallGraph` make no liveness claims.

## Proofs

TLAPS checks the theorems for every value of the constants that satisfies the
named assumptions (thresholds and recovery times positive; at least two failures
before a failover; `NoRec` no recorder; the canary's row no real one).

* **CircuitProofs.** `IInv` is the agreement of the breaker's fields with
  their types (`BreakerFields`) and the types of what is in flight (`FlightOK`).
  Types alone are not inductive: that a half-open breaker is exactly
  `Recovery` old needs the range of the age. One lemma per method of the class,
  used by every action that calls it. From it: `TypeCorrect` and `Consistent`. For the composition, `PInv` adds that open records
  carry an age and that every record is at least as old as the last real opening:
  `OpeningsAreReal`, `ConsistentAcrossRestarts`, `TypesAcrossRestarts`.
* **SmartPoolProofs.** `IInv` adds `QuietUntilServing` (no task runs before the
  replica serves) to the two invariants, without which boot could change the mode
  under a task that writes the flag. `TypeCorrect`, `FreshCountAfterRecovery`,
  `FlagWritesAreOrdered`.
* **WorkTicketProofs.** `IInv` adds that a task not writing holds no rows
  (`RowsHeld`), that the canary's row is confined to the canary (`SeedContained`)
  and that applied rows are in the books (`AppliedIsWritten`). One lemma per action
  says what it moves between owed, posted and settled; `LedgerKeepsBooks` maps every
  step to a step of `GrantBooks` or a stutter, and `GrantsAreNotLost` carries the
  promise over. `CountsAreExact`, `CanaryStaysOut`, `TypeCorrect`.
* **TelemetryProofs.** For `LineTrace`, `IInv` adds that epochs lie in the past and that a live
  recorder which would not be marked partial is complete (`LiveComplete`): the
  reason a finished one is. That a record keeps its budget needs the count of its lines
  to be at most its events (`Costs`), for a line is recorded more than once.
  `TypeCorrect`, `BudgetHolds`, `SummariesComplete`, `DisabledIsRearmed`,
  `SummariesFinal`.
  For `SpanBuffer`, `InOrder` alone is not inductive: a batch that comes back is in
  front of the buffer only because it was taken from there and what was added since
  has higher numbers. `BufferInv` adds that no item held or stored has a number that
  was not given yet (`Numbered`), that a task which is not writing holds no batch
  (`Resting`), that until shutdown the loop's batch and the buffer are one ordered
  sequence (`InLine`), and that an applied batch is stored (`TakenIsStored`), which is
  what `OldestFirst` needs when a batch is put back that db-v3 did take. The lemmas on
  `First`, `Rest`, `Pushed` and `Returned` say which items each keeps and in which
  order. `BufferTypeCorrect`, `BuffersInOrder`, `BuffersOldestFirst`, and the action
  property `BuffersLoseOnlyWhenFull`.
* **CodeCacheProofs.** `RunsItsRow` is not inductive, as what runs may come from an
  entry another dispatch made. `IInv` adds that every row, in a store, in the cache or
  held by a dispatch, has a body its number has named (`RowsAreNamed`).
  `TypeCorrect`, `RunsItsRowAlways`.

* **RenderCacheProofs.** What a hit shows depends on steps of other requests, long
  ago: `IInv` adds that a page in the dict has data at most `MaxRender + MaxLog` older than
  its insertion (`EntriesTimed`), which holds because neither a render nor the write of
  its metrics has outlived its bound (`RendersTimed`). The bound needs the count of the keys before and after
  an insertion (`SetBounded`). `TypeCorrect`, `CacheBounded`, `AnswersRecent`,
  `EvictsOnlyWhenNeeded`.
* **CallGraphProofs.** `IInv` ties the context variable to a stack it knows nothing of
  (`TaskInv`): while calls are under way it holds the innermost tool, each reset token
  is the tool below, and between calls the variable or the threaded argument names the
  tool the task runs for; events name the tool that had them fired. From
  `CapturedIsCaller` both properties follow, also when a timeout takes several nested
  calls down at once. `TypeCorrect`, `EdgesReal`, `CallsSeen`.

* **InngestRunsProofs.** The argument has two halves. The first is about the bodies
  alone: whatever is memoised, every operation in the list a body returns is *due*
  (`Due`: a step is not memoised and what it follows is; a write says what is
  memoised; a return comes after the steps that must precede it), and the last
  operation ends the request. `BodyPlan` puts this together from one lemma per
  function; `Batches` has the arithmetic of cutting a table list into batches. The
  second half is `RunsInv`: what a request has yet to do is due (`Plans`), answers are
  answers and in order (`MemoisedAnswers`, `Ordering`), an execution too many or an
  unmemoised one is covered by the faults (`Executions`), the tables not named by the
  memoised errors are altered (`Altered`), and each load job's row is its own
  (`LoadBooks`). `RowTellsOutcome` and `SuccessIsComplete` are conjuncts of it, for a
  row is written by an operation that is due. `RunsTypeCorrect`, `RowsTellOutcome`,
  `ToolsRunOnce`, `SuccessesComplete`, `JobsHarvested`.

Every invariant and every action property that a passing run checks, and the refinement
of `GrantBooks`, is a theorem. Only model-checked: the liveness properties
(`RecoversWhenUp`, `FailsFastWhenDown`, `BadKeyNeverCutsOff`, `StillRecoversWhenUp`, `CutsOver`, `EveryTaskEnds`,
`SignalAnswered`, `AllIsSent`, `EvictsOnBump`, `EveryJobCloses`), since liveness under
fairness and ENABLED are beyond the prover.

## Where the code and its documents disagree

1. *One trial* (server.py:624, 635, 687): a half-open breaker admits everybody.
2. *Switches back* (smart_pool.py:7): only the replica that gets the message does.
3. *The final minute* (server.py:1745): the last flush is cancelled after 5 s, although its
   writer may take 10 s, and the rows it drained are then neither put back nor written.
4. *Counted drops* (server.py:219): what a put-back cannot fit is not counted, and
   it is the newest of the batch that goes.
5. *Reads fresh* (main.py:352): compiled code is cached by version number, and an
   outage lets the two stores give one number to two bodies.
6. *Polls for up to 60 minutes* (inngest_engine.py:223): `datetime` is not imported, so
   `vertex_batch_monitor` fails at its first sleep, unless the first poll is terminal;
   `_write_failure_intel`, which the timeout branch calls, is not imported either.
7. *No double-submit* (inngest_engine.py:598): memoised steps are not executed again,
   but a submit whose answer is lost is: a second load job of the same run, over the
   same `latest.ndjson`, whose row in `bq_dr_jobs` stays pending (`HarvestsItsJob` says
   what does hold).

The third and the sixth are runs of this project; the first two, four and five have the
configurations named above.

## Not modelled, and why

What a tool or a statement does to the data; SQL translation to BigQuery;
headers, JSON framing, authentication and argument parsing (text, no state across
requests); culprit extraction; several gateways sharing the breaker's record; the
60-second dedupe of error records (a free choice in `SpanBuffer`); the
classification of file names in the line trace; deployment. Of db-v3: a pool call that is
cancelled from outside by the timeout of the tool around it (CancelledError is not an
Exception, so it is not counted); the rate limiter,
the learning hook, and the row of metrics a dispatch writes (a dispatch that is
cancelled by the timeout of the call around it is recorded there as a success, since
CancelledError is not an Exception). Of the Inngest engine:
`load_dynamic_crons` and `load_dynamic_event_triggers`, which take the old functions
out of the list, await the database and append, so that two syncs at once register a
function twice and a failed read leaves none; concurrency limits and priorities, which
Inngest enforces; and a request that Inngest gave up on while it is still running.

## Plan

1. `FunctionList`: startup and concurrent syncs over one list of functions and the
   tables behind it; that a sync that runs alone leaves each enabled row registered once.
2. The door and the outbound hook: one ticket per request under context inheritance,
   composed with `LineTrace` and `SpanBuffer`.
3. `Culprit`: the pure choice of the culprit frame against a reference definition.
