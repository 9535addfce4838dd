# A TLA+ model of the batch inference engine

The engine takes a file of prompts, sends them to an inference provider under a
shared request quota, and appends one result per row to a JSONL file. It is one
Python process on one asyncio event loop: what a coroutine does between two
`await`s that can suspend is atomic, everything else interleaves. This directory
models the engine's core, model-checks it with TLC, and proves the most important
properties with TLAPS for every value of the constants.

Source paths below are relative to `src/src/batchengine/`; the line-by-line
correspondence is the `map` of `PROJECT.json`.

## The system

| Part | State it keeps | Operations | What makes it correct |
|---|---|---|---|
| `core/scheduler.py` `JobRunner` | `JobRecord` (status, counters, errors by class), work queue, cancel and abort events | `run`: save, start the workers, ingest and dispatch, sentinels, gather, close the sink, final status, save, webhook; `on_spend_check`; `cancel` | no row lost or doubled; a terminal status only over a complete file; the job ends; the caps hold |
| `core/worker.py` pool | the row each worker holds, its attempt, single-slot abort reason and class | `worker_loop`, `process_item`, `_emit_error` | every row resolved once; no new attempt after a stop; retries within caps and budget |
| `core/retry.py` | `RetryBudget._used`; `CircuitBreaker` state, window, opening time, probe flag | `classify`, `try_consume`, `allow_request`, `record`, jitter | load not amplified; nobody but the probe passes early; nobody is denied for ever |
| `core/sink.py` `ResultSink` | submit queue, file object, flush clock | `submit`, writer task, `close`; `replay` | one line per result in order; closed means on disk; bounded loss in a crash |
| `core/ratelimit.py` | tokens, rate, success streak, time of the last decrease | `acquire`, `record_success`, `record_throttle`, `honor_reset_header` | rate within its limits, one decrease per cooldown |
| `core/ingest.py` | bridge queue (64), stop flag, error box, parser thread | `iter_items_sync`, `stream_items` | every row once and in order; the thread ends when the consumer leaves |
| `api/routes.py`, `main.py`, `app_state.py` | runners and tasks by job id | submit, status, cancel, download, metrics, settle, lifespan | a job's status is true; nothing runs past the shutdown |
| `store/` | job records in SQLite or memory | `create`, `get`, `save`, `list_ids` | the last saved record survives a restart |
| `core/spend_ledger.py` | the total in a JSON file | `load_total_spend`, `record_spend` | the total cap over all live jobs |
| `extensions/webhook.py` | none | `deliver_webhook`, three tries | delivered after the final save |
| `extensions/spaces.py` | upload id, parts | never called by the program | not wired in |
| `providers/` | the mock's chaos settings | `complete` | outcomes are data for `classify` |

How they interact: the route handler creates a record and a runner and starts
`run()` as a task. `run()` starts the sink's writer and the workers, and reads rows
from `stream_items` into the bounded work queue. A worker takes a row, asks the
cancel event, the abort event and the breaker, waits for a token, calls the
provider, records the outcome with the breaker, and then submits a result, aborts
the job, or takes a retry from the budget and backs off. When ingest ends, `run()`
puts one `SHUTDOWN` per worker, gathers them, closes the sink and sets the final
status. Cancel comes from another request at any moment.

What is hard: several workers and the dispatcher interleave at every await; events
are read before waits and not after them; an abort must drain rows that sit in the
queue, in a backoff or behind the breaker; the breaker receives answers of calls
made before it tripped; ingest, a write or the process may fail halfway; several
counters are tested only at certain multiples. The `hazards` of `PROJECT.json` list
these with their lines, the ones no module covers yet included.

## The modules

`RetryPolicy` is the pure part of retries: outcomes, `ClassOf` and `MaxAttempts`
(`classify` and its status table; statuses with the same class and cap share one
outcome), `BreakerFailure`, `RetryLimit`. It has no state and nothing recursive.

`JobRunner` composes `run()`, the worker pool, the retry budget and the writer task
of the sink. `sched` is where `run()` is suspended; `pc[w]` where worker `w` is:
`idle` (in `queue.get`), `denied` (the 0.25 s sleep), `acquire` (the token bucket),
`calling`, `paused` (`honor_reset_header`), `backoff`, `exited`. One action stands
for what happens between two suspensions: `Succeed`, for example, is everything from
the provider's answer to the return of `process_item`, the breaker, the sink, the
counters and the spend check included. `Yield` is one turn of the ingest loop,
`Put` the end of a `queue.put` that had to wait, `Persist` the save every 25 rows.
`Cancelled`, `Aborted`, `Denied` and `Admitted` are the four ways on from the top of
`process_item`'s loop, reached with a fresh row, after a denial and after a backoff.

`BreakerGate` is what the pool sees of the breaker: states and the probe flag, with
time and the window of outcomes as free choices. `CircuitBreaker` has the clock, the
window, the workers that poll it and the calls whose outcome is recorded late or
never; it implements `BreakerGate` (`ImplementsGate`, checked and proved), which is
why `JobRunner` may use the gate.

`JobContract` is the abstract specification of a job for the client who reads status
and file: rows are accepted in order, each gets one result, and the status becomes
terminal only when every accepted row has its result and the status says what the
file holds. `JobRunner` implements it (`KeepsContract`) with the refinement
`accepted <- ingested`, `result <-` the class on the row's written line.

`ResultSink` is the sink in detail: the writer's batches and two-second waits, the
file object that passes text on when it likes, fsync, a write error that kills the
writer, `close()`, a crash at any moment, and the lines `replay()` then finds.
Positions in the file are half-lines, so that a file can be cut inside a line.

`InputFile` says what `iter_items_sync` makes of a file: a file is an array or lines,
and a sequence of pieces, each a prompt, JSON of another kind, text that is not JSON,
an empty line or bytes that do not decode; `Parsed` gives the row, the row error, the
exception or nothing that comes of each. `RowStream` is the abstract stream the ingest
loop relies on: rows in order and once, complete only when none is left, failed only
when the file is, left by its reader at any moment. `StreamItems` is `stream_items`:
the parser thread (`producer`), the bridge queue, the stop event and the generator
(`consumer`), which may be closed at a yield, cancelled in `queue.get`, and cancelled
again while it drains. It implements `RowStream` (`ImplementsStream`), and what
`JobRunner` takes ingest to be (`Yield`, `StopIngest`, `IngestFail`) is that stream.

`Limiter` is the token bucket with the AIMD controller and the workers that use them.
A turn of the loop in `acquire()` is one step (`Granted`, `TooEarly`); `Success`,
`Throttled` and `OtherFailure` are what a worker reports, `SetRate` is `set_rate` with
its refill. Time is a tick and tokens are counted in parts; the ages of the last refill
and the last decrease are variables that stop where more time changes nothing. One
observer, `win`, opens a window of time at any moment and counts in it.

`JobService` is what lies around the jobs: the requests, the task of
`_run_and_settle`, the store and the ledger, the webhook, and the ends of a process. A
job is the sequence of places where `run()` can be suspended, fail or be cancelled
(`task`), which is the outline of `JobRunner`'s `sched`; its rows are not repeated.
Each save may fail; `sink.close()` may raise; a shutdown cancels every task where it
is (`hit`) and `Struck` says where the `CancelledError` comes up; a crash may come
between any two steps, and inside the rewriting of the ledger (`CrashInSettle`).
`up`, `store`, `file` and `ledger` are what a restart finds.

`RunPhases` is what joins the two: `run()` as the service sees it, the places where it
is suspended and what it does between them to the status, the stored record and the
result file. `JobRunner` implements it (`FollowsPhases`: a row or a line is a
stuttering step), and every job of `JobService` does (`RunsFollowPhases`), with `Leave`,
`MaySave` and `Die` for the exceptions, cancelled tasks and crashes that `JobRunner`
does not have. So what `JobService` supposes of a run is no more than what `JobRunner`
shows of one: among others that a status is set only by a run in which nothing was
raised, over a complete file.

`MCJobRunner` and `MCCircuitBreaker` give the specifications instances for TLC. Sums
over results or jobs are stated as sizes of sets: the calls beyond a row's first are
the pairs of a row and a number (`ExtraCalls`), a cost of `c` is `c` charges
(`Charges`), and a sum is the cardinality of the union, which needs no recursion and
can be reasoned about. The modules named `_proofs` hold the proofs
about the module they extend. A definition whose
name ends in `Slip` is the definition after it with a plausible bug; nothing uses
it, and putting it in place of the definition it shadows breaks a property.

## The runs

| Run | Configuration | What it shows |
|---|---|---|
| `pool` | 5 rows (one malformed), item cap 4, 3 workers, queue 2, saves every 2 rows, outcomes 200, 429 with a reset header, 401; ingest and the sink may fail, cancel at any time | Every row in exactly one place, so none lost or answered twice; the order of draining; counters agree with the file; the assertion in `run()` never fails; a finished job's file is complete; no attempt after a stop; the item cap |
| `retry` | 5 rows, 2 workers, queue 1, nothing but 5xx and malformed answers, a budget of one retry per row | Attempt caps under outcomes that change class; the shared retry budget pays for every extra call |
| `spend` | 8 rows, item cap 7, 2 workers, queue 1, calls cost 1 or 2, check every 3, cap 6 | The overrun of the per-job cap is one interval plus the calls in flight; ingest stays within its read-ahead and its item cap |
| `live` | 3 rows (one malformed), 2 workers, queue 1, outcomes 200, 5xx, 402, spend cap 2; ingest and the sink may fail | `JobContract` and `RunPhases` are implemented; every job ends and every row taken in reaches the file, unless the sink fails |
| `breaker` | 3 workers with 2 calls each, window 3, cooldown 1, probe timeout 1 | Window, probe and gate; a denied worker gets through |
| `sink` | 6 results, batches of 3, interval 2 | Closed means on disk; loss bounds in lines and time; `close()` always answers |
| `stream` | every file of up to 4 pieces, bridge queue 2; the reader may leave or be cancelled anywhere | Rows in order and once, an error behind them; one row more at most after a stop; the thread always leaves |
| `limiter` | 2 workers with 3 calls each, capacity 1½ tokens, rates ½ to 1½ tokens a tick, streak 2, cooldown 2, window 3 | What the bucket gives over a window; how fast the rate moves; every waiter is served |
| `service` | 2 jobs of cost up to 2, total cap 2, 2 webhook attempts, 2 crashes or shutdowns | What clients were told stays true; downloads are complete; cancels are honoured; the ledger holds what settled jobs cost; each job stays a run of `RunPhases`; every job settles |
| `spend_skipped` | as the code, with a row that fails | violated: see findings |
| `bad_input` | the file stops parsing | violated: see findings |
| `ledger` | 2 jobs, one whose `run()` raises | violated: see findings |

Bounds. `NumRows`, `MaxCalls`, `NumResults`, `NumPieces`, `MaxCost` and `MaxStops`
bound a run; nothing else is cut off. The numbers of the code (25, 50, 64, 100,
concurrency times 4) are constants, small
enough that each case happens: the queue fills and `put` blocks, a worker leaves
while others still work, saves come in the middle of ingest, the item cap is
reached before the end of the file, rows use up all their attempts, the budget runs
out first, batches fill and time out. With two workers every pair of steps
interleaves; `pool` has three so that two can differ while a third has left. `spend`
needs seven rows because `ingested - done` can be four and the cap is met at the
second check, and an eighth that the item cap keeps out. In `stream` four pieces fill
the queue of two, the thread's hand and leave one to read after the stop; the bridge
needs a bound of two at least, since one place would let a row and the sentinel block
each other when the drain itself is cancelled. In `limiter` a sleeper, a newcomer and a
change of rate meet while a token is due; the capacity is not a whole number of tokens, as in the
code. In `service` two jobs share an allowance that one of them can use up, and two
stops allow a crash after a restart. Clocks stop counting beyond the largest threshold the code compares
with. Symmetry over workers is used only where no liveness property is checked.

Fairness. `FairSpec` of `JobRunner` is weak fairness for `run()`, the writer and each
worker: the event loop runs every ready task, sleeps end, the HTTP client times a
call out after 60 seconds (`main.py`), the token rate is never zero. Nobody has to cancel, and
neither ingest nor a write has to fail. A worker at an open breaker may be denied again and again, but a
denial changes nothing, so fairness asks that it gets through in the end; that is
`DeniedGetsThrough` of `CircuitBreaker`, which assumes that time passes and a denied
worker polls again and assumes nothing of a call ever being recorded. `ResultSink`
assumes that the writer and whoever awaits `close()` are run; neither crashes nor
errors are fair. `StreamItems` assumes that the thread and the generator run, and
nothing of the reader, who may never ask again. `Limiter` assumes that time passes and
that each worker goes on when it can; how a call ends is free. `JobService` assumes
that each task runs, and that `lifespan` goes on once they are done; that the phases of
a job end is `JobEnds` of `JobRunner`. Requests, cancels, shutdowns, crashes and
restarts are never assumed.

## What is proved

For any number of rows and workers, any queue, batch, window, timeout and set of
outcomes, under the assumptions named in the modules (sizes are natural numbers,
the workers are finite, a provider has at least one outcome):

- `JobRunner`: `TypeOK`, `NoRowLost`, `AnsweredOnce`, `FinishedFileComplete`,
  `ConservationHolds`, `RowsAccounted` and `StopIsFinal`. None of the first ones is
  inductive alone. The inductive invariant is `IInv`: the types and `RowsAccounted`,
  which is `RowsPlacedOnce` and `DrainedInTurn`. `RowsPlacedOnce` says that the queue
  holds rows in file order with sentinels behind them, that every row held by a worker
  or already in the results comes before every row still in the queue, and that no two
  workers hold the same row and no worker holds an answered one. The order is what
  rules out that a row is in two places. `DrainedInTurn` says that sentinels appear
  only after ingest, that the first worker to leave leaves no row in the queue, and
  that the sink is closed when all have left; with it, all rows are answered when the
  status is set, and since the counters count lines, the assertion in `run()` holds.
- `JobRunner`'s limits (`JobLimits_proofs`), each with an invariant on top of `IInv`:
  - `CountersAgree`. `Tallies` gives each counter the set it counts (lines by class,
    rows taken in and not answered); that `in_flight` is the number of workers in a call
    is `InFlight`.
  - `IngestBounded`. `RoomInv` keeps the queue within its size and the place of the loop
    within the item cap. The read-ahead is then a count: a row taken in and not answered
    is in the queue, with a worker or in the dispatcher's hand.
  - `AttemptsCapped`. `TriesInv` says that the attempt a worker is in, or backs off for, is one
    that some outcome the provider may give still allows.
  - `RetriesPaidFor`. `BudgetInv` says that what was taken from the budget is at least
    the number of `PaidCalls`, those beyond the first of rows answered or still held,
    and never more than the limit, which only grows.
  - `SpendBounded`, where every completed row is looked at (`EveryRowChecked`: a row
    either succeeds or stops the job, and no row is malformed), the cap is positive and
    the cost of a call has a bound. Without the first it is false, which is the finding
    of `spend_skipped`; a cap of zero is overrun by the whole first interval, before the
    first check, and the bound, which is strict, then fails. `SpendInv` says
    that until the job stops its use is below the cap and the calls completed since the last check, and
    afterwards below the cap, one interval and the calls that have landed since.
- `KeepsContract` (`JobContract_proofs`): with `StatusInTurn`, which ties the status to
  the place of `run()`, each step of `JobRunner` is `Begin`, `Accept`, `Resolve` or
  `Finish` of `JobContract` or changes none of its variables. `Tallies` makes the final
  status say what the file holds.
- `FollowsPhases` (same module): with `StoredInTurn`, which ties the stored status to the
  place of `run()` and says that the writer is done once `run()` is past the close, each
  step is one of `RunPhases` or changes none of its variables.
- `CircuitBreaker`: `TypeOK`, `ClosedMeansHealthy`, `OneProbeBeforeTimeout` (from the
  invariant that a half-open breaker in time has its probe flag set) and
  `ImplementsGate`.
- `ResultSink`: `TypeOK`, `ClosedMeansSynced`, `LossBounded`, `SyncedInTime`. The
  invariant relates the writer's own count to the file (`synced = 2 * (written -
  unflushed)`) and says that the last line came within the interval
  (`sinceFlush - waited < FlushTime`), so the wait after it ends within two.
- `StreamItems`: `TypeOK`, `OneMoreRow` and `ImplementsStream`. The invariant says that
  the rows in the queue are consecutive, from the last one handed on to the last one
  parsed, with the sentinel behind them if the thread is done, so that the generator
  meets the sentinel only after every row; the error flag is set before it.
- `Limiter`: `TypeOK`, `GrantsBounded`, `RateMovesSlowly`, for any number of workers and
  any rates in order. Every step is either a tick or *steady*: what it gives comes out
  of what the bucket holds after a refill, it lowers the rate only a cooldown after the
  last time and raises it only at the end of a streak (`Steady`). The invariant adds to
  each bound what is still to come: the contents of the bucket, the age of the last
  decrease, the length of the streak.
- `JobService`: `TypeOK`, `ToldIsTrue`, `DownloadComplete`, `CancelHonoured`,
  `RefusalIsDurable`, `LedgerCoversSettled`, `RunsFollowPhases`, for any number of jobs,
  crashes and shutdowns. The invariant ties the record in memory to the place of the
  task (`Follows`), what was promised to the store and the file (`Promises`), and an
  accepted job to the store (`Known`); the spending check refuses for ever because the
  ledger only grows while it is not torn.
  For the ledger, `LedgerInv` adds that it is the number of charges of the settled jobs:
  a settlement adds the charges of one job, disjoint from all others. A job is a run
  because one without a task leaves no cancel, exception or open file behind (`Rests`),
  and because a cancelled task is, at each of the places where the cancellation can come
  up, one of the ways in which `RunPhases` leaves that place.

Only model-checked are the liveness properties `JobEnds`, `EveryRowAnswered`,
`DeniedGetsThrough`, `CloseEnds`, `ThreadLeaves`, `EveryoneServed` and
`EveryJobSettles`: fairness and `ENABLED` are out of the prover's reach. The properties
of the violated runs are false as they stand; `SpendBounded` is proved where it holds.

## Findings

- `core/scheduler.py:109`: the spend guard looks only when a success makes the number
  of completed rows a multiple of 50. If the row that completes the interval fails,
  that check is skipped (`spend_skipped`). `SpendBounded` therefore holds in `spend`,
  where every call succeeds, and not in general.
- `core/scheduler.py:153`: an error raised by ingest leaves the record and the store
  at `running` (`bad_input`).
- `api/routes.py:166`: when `run()` raises, the ledger records nothing for the calls
  that were charged (`ledger`). `LedgerCoversSettled` says what does hold: the ledger
  is the sum over the jobs that ran to their end.

Also seen, and not kept as runs:

- A worker that waits for a token when the job aborts still makes its call, where
  `docs/design.md:331` speaks of a single request (`StopIsFinal` states what does hold).
- Rows drained after a spend abort are reported as `fatal_auth`
  (`core/worker.py:121`), which the repository's `README.md:185` keeps for 401 and 403.
- After a stale probe the half-open breaker admits every caller
  (`core/retry.py:175`), where its docstring promises one probe; the probe timeout is
  measured from the moment the breaker opened, not from the departure of the probe.
- A written line can wait almost two intervals for its fsync (`core/sink.py:120`),
  where `docs/design.md:484` promises two seconds; and `sink.submit` only queues the
  line, so counters run ahead of the file until the writer's turn.
- A crash while the ledger is rewritten leaves it empty, which reads as zero
  (`core/spend_ledger.py:26`), although it is "never reset automatically"
  (`docs/decisions.md:145`). `torn` marks these behaviours.
- A terminal status is shown before the save that makes it durable; a crash in between
  takes it back, and the job then reads as running for ever: no process resumes it.
- A job task that is cancelled before its first step never settles and keeps the status
  `queued`; cancelled later, its workers go on calling until the process ends.
- Each job has a token bucket of its own, so jobs that run together exceed the shared
  quota by their number; below 3 requests a minute the least rate of the controller is
  above the configured one, which `RateAssumption` excludes.

## Abstractions and limits

- The token bucket and the reset pause are waits of any length in `JobRunner`. Costs
  are numbers per successful call.
- When the writer task of the sink dies, `submit` goes on queueing and counting and
  `close()` raises, and `run()` with it (`SinkFail`, `Finish`). A file that cannot be
  opened at the start has no action. What has reached the disk is `ResultSink`'s.
- The safety net of `worker_loop` (an exception that escapes `process_item`) has no
  action: nothing in the modelled code raises there.
- Python 3.11's `wait_for` may lose an item that arrives with the timeout; the
  writer's wait is modelled by its documented behaviour.

- In `StreamItems` the parser may meet an error that is still some rows away, since it
  reads a buffer ahead. What `_row_to_item` puts into a row is not kept.
- In `Limiter` waits are rounded up to whole ticks and rates down to whole parts; a
  pause may take any length of `Pauses`. Latencies are left out.
- In `JobService` all jobs are live (the mock provider never reaches the ledger). SQLite
  is a status per job, written in one step: saves of one job never overlap, since `run()`
  awaits each. A request in progress at a shutdown is answered first, as the server does.
- A save that is cancelled may or may not have been committed. The saves every 25 rows
  repeat the status `running` and are part of `EndIngest`'s phase.

Not modelled: HTTP, JSON parsing, providers' wire formats, metrics, logging,
configuration, scripts, Spaces (never called), the name lookup and the signature of
webhooks, `list_ids` (no caller in the service), the memory store (tests only).

## Plan

1. `JobRunner`'s sink as a user of `ResultSink`: an abstract sink that both implement,
   so that no worker submits after the close is stated and not only argued.
2. `JobRunner`'s ingest as the reader of a `RowStream`. The model leaves open whether
   the file breaks until ingest meets the break, so the mapping needs the file chosen
   at the start, as `StreamItems` has it.
3. Several jobs with a bucket each against one quota, once the code bounds their sum.
