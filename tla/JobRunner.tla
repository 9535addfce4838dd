----------------------------- MODULE JobRunner -----------------------------
(***************************************************************************)
(* One batch job: JobRunner.run of core/scheduler.py, the worker pool of   *)
(* core/worker.py it starts, and the writer task of its ResultSink.  All   *)
(* run on one asyncio event loop, so what the code does between two awaits *)
(* that can suspend is one step here.                                      *)
(*                                                                         *)
(* Rows are numbered in file order and are the items of the work queue.    *)
(* Rate limiting (TokenBucket, AdaptiveController) is a wait of unknown    *)
(* length; the circuit breaker is what BreakerGate promises.               *)
(***************************************************************************)
EXTENDS Integers, Sequences, FiniteSets, RetryPolicy

CONSTANTS
  NumRows,        \* rows in the input file
  Workers,        \* the worker tasks; as many as the job's concurrency
  QueueCap,       \* maxsize of the work queue (concurrency * 4)
  InvalidRows,    \* rows that ingest turns into a RowError
  Responses,      \* the outcomes the provider may give
  MaxItems,       \* config.max_items; above NumRows when it is None
  PersistEvery,   \* _STATUS_PERSIST_EVERY (25)
  SpendEvery,     \* completions between two spend checks (50)
  SpendCap,       \* config.max_job_spend_usd
  Costs,          \* what one successful call may cost
  BudgetDivisor,  \* the retry budget is 1/BudgetDivisor of the items (5)
  IngestMayFail,  \* whether the input file may stop parsing
  SinkMayFail     \* whether a write to the result file may fail

ASSUME RowsAssumption == NumRows \in Nat /\ InvalidRows \subseteq 1..NumRows
ASSUME PoolAssumption == /\ IsFiniteSet(Workers) /\ Workers # {}
                         /\ QueueCap \in Nat \ {0}
ASSUME ResponsesAssumption == Responses \subseteq Outcomes /\ Responses # {}
ASSUME LimitsAssumption == /\ MaxItems \in Nat \ {0}
                           /\ PersistEvery \in Nat \ {0}
                           /\ SpendEvery \in Nat \ {0}
                           /\ SpendCap \in Nat
                           /\ Costs \subseteq Nat
                           /\ BudgetDivisor \in Nat \ {0}
ASSUME FaultsAssumption == IngestMayFail \in BOOLEAN /\ SinkMayFail \in BOOLEAN

Rows == 1..NumRows
SHUTDOWN == 0          \* the sentinel object: no row has this number
NoItem == 0

VARIABLES
  sched,        \* where run() is
  ingestError,  \* stream_items raised into run()
  sentinels,    \* SHUTDOWNs put so far
  status,       \* record.status
  stored,       \* the status of the last JobStore.save
  ingested, succeeded, failed, pending, inFlight,   \* record.counts
  errors,       \* record.errors_by_class
  usage,        \* what the tokens used so far cost
  queue,        \* the work queue: rows and SHUTDOWNs
  pc,           \* where each worker is suspended
  item,         \* the row each worker holds, or NoItem
  attempt,      \* `attempt` of each worker's process_item, 0 outside it
  cancel,       \* cancel_event
  abort,        \* abort_event
  abortReason,  \* first entry of abort_reason, or "none"
  abortClass,   \* first entry of abort_class, or "none"
  used,         \* RetryBudget._used
  breaker, probe,  \* the circuit breaker
  lines,        \* results submitted to the sink, in order
  written,      \* how many of them the writer task has written
  sinkFailed    \* the writer task or the last flush of close() has raised

schedVars   == <<sched, ingestError, sentinels, status, stored>>
countVars   == <<ingested, succeeded, failed, pending, errors>>
workerVars  == <<pc, item, attempt>>
abortVars   == <<abort, abortReason, abortClass>>
breakerVars == <<breaker, probe>>
vars == <<schedVars, countVars, inFlight, usage, queue, workerVars, cancel,
          abortVars, used, breakerVars, lines, written, sinkFailed>>

Gate == INSTANCE BreakerGate

Terminal == {"succeeded", "partial", "failed", "cancelled"}
Statuses == {"queued", "running"} \cup Terminal
Done == succeeded + failed

Init ==
  /\ sched = "queued" /\ ingestError = FALSE /\ sentinels = 0
  /\ status = "queued" /\ stored = "queued"
  /\ ingested = 0 /\ succeeded = 0 /\ failed = 0 /\ pending = 0 /\ inFlight = 0
  /\ errors = [c \in ErrorClasses |-> 0]
  /\ usage = 0
  /\ queue = <<>>
  /\ pc = [w \in Workers |-> "idle"]
  /\ item = [w \in Workers |-> NoItem]
  /\ attempt = [w \in Workers |-> 0]
  /\ cancel = FALSE
  /\ abort = FALSE /\ abortReason = "none" /\ abortClass = "none"
  /\ used = 0
  /\ Gate!Init
  /\ lines = <<>> /\ written = 0 /\ sinkFailed = FALSE

-----------------------------------------------------------------------------
(* run() and _ingest_and_dispatch                                          *)

Start ==   \* run() marks the job RUNNING and awaits the first save
  /\ sched = "queued"
  /\ sched' = "starting" /\ status' = "running"
  /\ UNCHANGED <<ingestError, sentinels, stored, countVars, inFlight, usage, queue,
                 workerVars, cancel, abortVars, used, breakerVars, lines, written,
                 sinkFailed>>

Started ==
  /\ sched = "starting"
  /\ sched' = "ingest" /\ stored' = status
  /\ UNCHANGED <<ingestError, sentinels, status, countVars, inFlight, usage, queue,
                 workerVars, cancel, abortVars, used, breakerVars, lines, written,
                 sinkFailed>>

(* A definition called a slip is a plausible bug in the one that follows   *)
(* it: no action uses it, and the properties tell the two apart.           *)

(* Where the ingest loop goes once the n-th row is in the queue.           *)
AfterCap(n) == IF n >= MaxItems THEN "shutdown" ELSE "ingest"
AfterPut(n) == IF n % PersistEvery = 0 THEN "persist" ELSE AfterCap(n)

HasRoomSlip == Len(queue) <= QueueCap   \* one item too many

HasRoom == Len(queue) < QueueCap

Yield ==   \* stream_items yields the next row; put() may find the queue full
  /\ sched = "ingest" /\ ingested < NumRows /\ ~cancel /\ ~abort
  /\ ingested' = ingested + 1 /\ pending' = pending + 1
  /\ IF HasRoom THEN /\ queue' = Append(queue, ingested + 1)
                     /\ sched' = AfterPut(ingested + 1)
                ELSE UNCHANGED queue /\ sched' = "putting"
  /\ UNCHANGED <<ingestError, sentinels, status, stored, succeeded, failed, errors,
                 inFlight, usage, workerVars, cancel, abortVars, used, breakerVars,
                 lines, written, sinkFailed>>

PutSlip ==   \* gives the row up when the job stops
  /\ sched = "putting" /\ HasRoom
  /\ queue' = IF cancel \/ abort THEN queue ELSE Append(queue, ingested)
  /\ sched' = AfterPut(ingested)
  /\ UNCHANGED <<ingestError, sentinels, status, stored, countVars, inFlight, usage,
                 workerVars, cancel, abortVars, used, breakerVars, lines, written,
                 sinkFailed>>

Put ==   \* the blocked put() finds room
  /\ sched = "putting" /\ HasRoom
  /\ queue' = Append(queue, ingested)
  /\ sched' = AfterPut(ingested)
  /\ UNCHANGED <<ingestError, sentinels, status, stored, countVars, inFlight, usage,
                 workerVars, cancel, abortVars, used, breakerVars, lines, written,
                 sinkFailed>>

Persist ==
  /\ sched = "persist"
  /\ stored' = status /\ sched' = AfterCap(ingested)
  /\ UNCHANGED <<ingestError, sentinels, status, countVars, inFlight, usage, queue,
                 workerVars, cancel, abortVars, used, breakerVars, lines, written,
                 sinkFailed>>

StopIngest ==   \* the file ends, or the loop sees a cancel or an abort
  /\ sched = "ingest" /\ (ingested = NumRows \/ cancel \/ abort)
  /\ sched' = "shutdown"
  /\ UNCHANGED <<ingestError, sentinels, status, stored, countVars, inFlight, usage,
                 queue, workerVars, cancel, abortVars, used, breakerVars, lines,
                 written, sinkFailed>>

IngestFail ==   \* the parser's error is raised out of the async for
  /\ sched = "ingest" /\ IngestMayFail
  /\ sched' = "shutdown" /\ ingestError' = TRUE
  /\ UNCHANGED <<sentinels, status, stored, countVars, inFlight, usage, queue,
                 workerVars, cancel, abortVars, used, breakerVars, lines, written,
                 sinkFailed>>

PutShutdown ==
  /\ sched = "shutdown" /\ HasRoom
  /\ queue' = Append(queue, SHUTDOWN)
  /\ sentinels' = sentinels + 1
  /\ sched' = IF sentinels + 1 = Cardinality(Workers) THEN "gather" ELSE sched
  /\ UNCHANGED <<ingestError, status, stored, countVars, inFlight, usage, workerVars,
                 cancel, abortVars, used, breakerVars, lines, written, sinkFailed>>

GatherSlip ==   \* waits for the first worker only
  /\ sched = "gather" /\ \E w \in Workers : pc[w] = "exited"
  /\ sched' = "close"
  /\ UNCHANGED <<ingestError, sentinels, status, stored, countVars, inFlight, usage,
                 queue, workerVars, cancel, abortVars, used, breakerVars, lines,
                 written, sinkFailed>>

Gather ==
  /\ sched = "gather" /\ \A w \in Workers : pc[w] = "exited"
  /\ sched' = "close"
  /\ UNCHANGED <<ingestError, sentinels, status, stored, countVars, inFlight, usage,
                 queue, workerVars, cancel, abortVars, used, breakerVars, lines,
                 written, sinkFailed>>

FinalStatusSlip ==   \* forgets that nothing succeeded
  IF cancel THEN "cancelled"
  ELSE IF abort THEN "failed"
  ELSE IF failed = 0 THEN "succeeded" ELSE "partial"

FinalStatus ==
  IF cancel THEN "cancelled"
  ELSE IF abort THEN "failed"
  ELSE IF failed = 0 THEN "succeeded"
  ELSE IF succeeded = 0 THEN "failed" ELSE "partial"

FinishSlip ==   \* does not wait for the sink to drain
  /\ sched = "close"
  /\ IF ingestError \/ sinkFailed
     THEN sched' = "raised" /\ UNCHANGED status
     ELSE /\ status' = FinalStatus
          /\ sched' = IF Done = ingested THEN "save" ELSE "raised"
  /\ UNCHANGED <<ingestError, sentinels, stored, countVars, inFlight, usage, queue,
                 workerVars, cancel, abortVars, used, breakerVars, lines, written,
                 sinkFailed>>

Finish ==   \* sink.close() ends: an error goes on up, else the epilogue
  /\ sched = "close" /\ (written = Len(lines) \/ sinkFailed)
  /\ IF ingestError \/ sinkFailed
     THEN sched' = "raised" /\ UNCHANGED status
     ELSE /\ status' = FinalStatus
          /\ sched' = IF Done = ingested THEN "save" ELSE "raised"
  /\ UNCHANGED <<ingestError, sentinels, stored, countVars, inFlight, usage, queue,
                 workerVars, cancel, abortVars, used, breakerVars, lines, written,
                 sinkFailed>>

Save ==
  /\ sched = "save"
  /\ sched' = "done" /\ stored' = status
  /\ UNCHANGED <<ingestError, sentinels, status, countVars, inFlight, usage, queue,
                 workerVars, cancel, abortVars, used, breakerVars, lines, written,
                 sinkFailed>>

Cancel ==   \* POST /job/{id}/cancel, at any moment
  /\ ~cancel /\ cancel' = TRUE
  /\ UNCHANGED <<schedVars, countVars, inFlight, usage, queue, workerVars, abortVars,
                 used, breakerVars, lines, written, sinkFailed>>

WriteSlip ==   \* pops once more than was pushed
  /\ ~sinkFailed
  /\ written <= Len(lines) /\ written' = written + 1
  /\ UNCHANGED <<schedVars, countVars, inFlight, usage, queue, workerVars, cancel,
                 abortVars, used, breakerVars, lines, sinkFailed>>

Write ==   \* the sink's writer task writes its next line
  /\ ~sinkFailed
  /\ written < Len(lines) /\ written' = written + 1
  /\ UNCHANGED <<schedVars, countVars, inFlight, usage, queue, workerVars, cancel,
                 abortVars, used, breakerVars, lines, sinkFailed>>

SinkFail ==   \* a write, flush or fsync raises; submit() never notices
  /\ SinkMayFail /\ ~sinkFailed
  /\ \/ sched = "close"
     \/ lines # <<>> /\ sched \notin {"save", "done", "raised"}
  /\ sinkFailed' = TRUE
  /\ UNCHANGED <<schedVars, countVars, inFlight, usage, queue, workerVars, cancel,
                 abortVars, used, breakerVars, lines, written>>

-----------------------------------------------------------------------------
(* worker_loop and process_item                                            *)

(* The loop of process_item is at its top: with a row just taken from the  *)
(* queue, or again after a breaker denial or a backoff.                    *)
AtTop(w) ==
  \/ pc[w] = "idle" /\ queue # <<>> /\ Head(queue) \in Rows \ InvalidRows
  \/ pc[w] \in {"denied", "backoff"}

RowAt(w) == IF pc[w] = "idle" THEN Head(queue) ELSE item[w]
Dequeue(w) == queue' = IF pc[w] = "idle" THEN Tail(queue) ELSE queue

EmitSlip(r, class, tries) ==   \* an error line leaves `pending` as it was
  /\ lines' = Append(lines, [row |-> r, class |-> class, attempt |-> tries])
  /\ IF class = "success"
     THEN pending' = pending - 1 /\ succeeded' = succeeded + 1 /\ UNCHANGED <<failed, errors>>
     ELSE /\ failed' = failed + 1
          /\ errors' = [errors EXCEPT ![class] = @ + 1]
          /\ UNCHANGED <<succeeded, pending>>
  /\ UNCHANGED ingested

(* The result of row r goes to the sink and is counted.                    *)
Emit(r, class, tries) ==
  /\ lines' = Append(lines, [row |-> r, class |-> class, attempt |-> tries])
  /\ pending' = pending - 1
  /\ IF class = "success"
     THEN succeeded' = succeeded + 1 /\ UNCHANGED <<failed, errors>>
     ELSE /\ failed' = failed + 1
          /\ errors' = [errors EXCEPT ![class] = @ + 1]
          /\ UNCHANGED succeeded
  /\ UNCHANGED ingested

Release(w) ==   \* process_item returns; worker_loop waits on the queue again
  /\ pc' = [pc EXCEPT ![w] = "idle"]
  /\ item' = [item EXCEPT ![w] = NoItem]
  /\ attempt' = [attempt EXCEPT ![w] = 0]

(* A row resolved without a call keeps the attempts made, 1 if there are   *)
(* none; an abort that recorded no class is reported as fatal_auth.        *)
Tries(w) == IF attempt[w] = 0 THEN 1 ELSE attempt[w]
DrainClass == IF abortClass = "none" THEN "fatal_auth" ELSE abortClass

Cancelled(w) ==
  /\ AtTop(w) /\ cancel
  /\ Dequeue(w) /\ Emit(RowAt(w), "cancelled", Tries(w)) /\ Release(w)
  /\ UNCHANGED <<schedVars, inFlight, usage, cancel, abortVars, used, breakerVars,
                 written, sinkFailed>>

Aborted(w) ==
  /\ AtTop(w) /\ ~cancel /\ abort
  /\ Dequeue(w) /\ Emit(RowAt(w), DrainClass, Tries(w)) /\ Release(w)
  /\ UNCHANGED <<schedVars, inFlight, usage, cancel, abortVars, used, breakerVars,
                 written, sinkFailed>>

DeniedSlip(w) ==   \* puts the row back instead of holding it
  /\ AtTop(w) /\ ~cancel /\ ~abort /\ Gate!Deny
  /\ pc[w] = "idle" /\ queue' = Append(Tail(queue), Head(queue))
  /\ UNCHANGED <<schedVars, countVars, inFlight, usage, workerVars, cancel, abortVars,
                 used, lines, written, sinkFailed>>

Denied(w) ==   \* allow_request() is False: sleep 0.25s and look again
  /\ AtTop(w) /\ ~cancel /\ ~abort /\ Gate!Deny
  /\ Dequeue(w)
  /\ pc' = [pc EXCEPT ![w] = "denied"]
  /\ item' = [item EXCEPT ![w] = RowAt(w)]
  /\ UNCHANGED <<schedVars, countVars, inFlight, usage, attempt, cancel, abortVars,
                 used, lines, written, sinkFailed>>

AdmittedSlip(w) ==   \* does not look at the events again after a backoff
  /\ AtTop(w) /\ (pc[w] = "backoff" \/ (~cancel /\ ~abort)) /\ Gate!Admit
  /\ Dequeue(w)
  /\ pc' = [pc EXCEPT ![w] = "acquire"]
  /\ item' = [item EXCEPT ![w] = RowAt(w)]
  /\ attempt' = [attempt EXCEPT ![w] = @ + 1]
  /\ UNCHANGED <<schedVars, countVars, inFlight, usage, cancel, abortVars, used, lines,
                 written, sinkFailed>>

Admitted(w) ==   \* on to the token bucket
  /\ AtTop(w) /\ ~cancel /\ ~abort /\ Gate!Admit
  /\ Dequeue(w)
  /\ pc' = [pc EXCEPT ![w] = "acquire"]
  /\ item' = [item EXCEPT ![w] = RowAt(w)]
  /\ attempt' = [attempt EXCEPT ![w] = @ + 1]
  /\ UNCHANGED <<schedVars, countVars, inFlight, usage, cancel, abortVars, used, lines,
                 written, sinkFailed>>

Dispatch(w) ==   \* acquire() returns and the provider call starts
  /\ pc[w] = "acquire"
  /\ pc' = [pc EXCEPT ![w] = "calling"]
  /\ inFlight' = inFlight + 1
  /\ UNCHANGED <<schedVars, countVars, usage, queue, item, attempt, cancel, abortVars,
                 used, breakerVars, lines, written, sinkFailed>>

Resolve(w, class) == Emit(item[w], class, attempt[w]) /\ Release(w)

OverCapSlip(done, cost) ==   \* compares with > where the code has >=
  LET estimate == IF ingested > done THEN ingested ELSE done IN
  /\ done % SpendEvery = 0
  /\ cost > SpendCap \/ cost * estimate > SpendCap * done

(* on_spend_check once `done` items are finished and `cost` is spent.      *)
OverCap(done, cost) ==
  LET estimate == IF ingested > done THEN ingested ELSE done IN
  /\ done % SpendEvery = 0
  /\ cost >= SpendCap \/ cost * estimate >= SpendCap * done

Succeed(w) ==
  /\ pc[w] = "calling" /\ "200" \in Responses
  /\ inFlight' = inFlight - 1
  /\ Gate!Record(FALSE)
  /\ Resolve(w, "success")
  /\ \E c \in Costs : usage' = usage + c
  /\ LET over == OverCap(Done + 1, usage') IN
     /\ abort' = (abort \/ over)
     /\ abortReason' = IF over /\ ~abort /\ abortReason = "none" THEN "spend" ELSE abortReason
  /\ UNCHANGED <<schedVars, queue, cancel, abortClass, used, written, sinkFailed>>

Fatal(w, o) ==   \* 401, 402: the whole job aborts
  /\ pc[w] = "calling" /\ IsFatal(o)
  /\ inFlight' = inFlight - 1
  /\ Gate!Record(TRUE)
  /\ Resolve(w, ClassOf(o))
  /\ abort' = TRUE
  /\ abortReason' = IF abortReason = "none" THEN ClassOf(o) ELSE abortReason
  /\ abortClass' = IF abortClass = "none" THEN ClassOf(o) ELSE abortClass
  /\ UNCHANGED <<schedVars, usage, queue, cancel, used, written, sinkFailed>>

Pause(w) ==   \* a 429 that names its reset time: honor_reset_header sleeps
  /\ pc[w] = "calling" /\ "429_reset" \in Responses
  /\ inFlight' = inFlight - 1
  /\ Gate!Record(FALSE)
  /\ pc' = [pc EXCEPT ![w] = "paused"]
  /\ UNCHANGED <<schedVars, countVars, usage, queue, item, attempt, cancel, abortVars,
                 used, lines, written, sinkFailed>>

SettleSlip(w, o) ==   \* one retry more than the attempts and the budget allow
  \/ /\ attempt[w] > MaxAttempts(o)
     /\ Resolve(w, ExhaustedClass(o))
     /\ UNCHANGED used
  \/ /\ attempt[w] <= MaxAttempts(o) /\ used > RetryLimit(ingested, BudgetDivisor)
     /\ Resolve(w, "transient_exhausted")
     /\ UNCHANGED used
  \/ /\ attempt[w] <= MaxAttempts(o) /\ used <= RetryLimit(ingested, BudgetDivisor)
     /\ used' = used + 1
     /\ pc' = [pc EXCEPT ![w] = "backoff"]
     /\ UNCHANGED <<item, attempt, lines, countVars>>

(* What becomes of a row after an outcome that is neither success nor      *)
(* fatal: its attempts are used up, or the job's retries are, or it backs  *)
(* off and tries again.                                                    *)
Settle(w, o) ==
  \/ /\ attempt[w] >= MaxAttempts(o)
     /\ Resolve(w, ExhaustedClass(o))
     /\ UNCHANGED used
  \/ /\ attempt[w] < MaxAttempts(o) /\ used >= RetryLimit(ingested, BudgetDivisor)
     /\ Resolve(w, "transient_exhausted")
     /\ UNCHANGED used
  \/ /\ attempt[w] < MaxAttempts(o) /\ used < RetryLimit(ingested, BudgetDivisor)
     /\ used' = used + 1
     /\ pc' = [pc EXCEPT ![w] = "backoff"]
     /\ UNCHANGED <<item, attempt, lines, countVars>>

Reject(w, o) ==
  /\ pc[w] = "calling" /\ ~IsFatal(o) /\ o \notin {"200", "429_reset"}
  /\ inFlight' = inFlight - 1
  /\ Gate!Record(BreakerFailure(o))
  /\ Settle(w, o)
  /\ UNCHANGED <<schedVars, usage, queue, cancel, abortVars, written, sinkFailed>>

Resume(w) ==
  /\ pc[w] = "paused"
  /\ Settle(w, "429_reset")
  /\ UNCHANGED <<schedVars, inFlight, usage, queue, cancel, abortVars, breakerVars,
                 written, sinkFailed>>

TakeInvalidSlip(w) ==   \* forgets to count the row it passes through
  /\ pc[w] = "idle" /\ queue # <<>> /\ Head(queue) \in InvalidRows
  /\ queue' = Tail(queue)
  /\ lines' = Append(lines, [row |-> Head(queue), class |-> "invalid_input", attempt |-> 1])
  /\ UNCHANGED <<schedVars, countVars, inFlight, usage, workerVars, cancel, abortVars,
                 used, breakerVars, written, sinkFailed>>

TakeInvalid(w) ==   \* a RowError from ingest passes through
  /\ pc[w] = "idle" /\ queue # <<>> /\ Head(queue) \in InvalidRows
  /\ queue' = Tail(queue)
  /\ Emit(Head(queue), "invalid_input", 1)
  /\ UNCHANGED <<schedVars, inFlight, usage, workerVars, cancel, abortVars, used,
                 breakerVars, written, sinkFailed>>

TakeShutdown(w) ==
  /\ pc[w] = "idle" /\ queue # <<>> /\ Head(queue) = SHUTDOWN
  /\ queue' = Tail(queue)
  /\ pc' = [pc EXCEPT ![w] = "exited"]
  /\ UNCHANGED <<schedVars, countVars, inFlight, usage, item, attempt, cancel,
                 abortVars, used, breakerVars, lines, written, sinkFailed>>

WorkerStep(w) ==
  \/ Cancelled(w) \/ Aborted(w) \/ Denied(w) \/ Admitted(w)
  \/ Dispatch(w) \/ Succeed(w) \/ Pause(w) \/ Resume(w)
  \/ \E o \in Responses : Fatal(w, o) \/ Reject(w, o)
  \/ TakeInvalid(w) \/ TakeShutdown(w)

RunStep ==
  \/ Start \/ Started \/ Yield \/ Put \/ Persist \/ StopIngest
  \/ PutShutdown \/ Gather \/ Finish \/ Save

Ended == sched \in {"done", "raised"}
Terminated == Ended /\ UNCHANGED vars

Next == RunStep \/ IngestFail \/ Cancel \/ Write \/ SinkFail \/ Terminated
        \/ \E w \in Workers : WorkerStep(w)

Spec == Init /\ [][Next]_vars

(* The event loop runs every ready task, sleeps expire, the HTTP client    *)
(* gives a call 60 seconds, and the breaker does not deny for ever (that   *)
(* is CircuitBreaker's to show).  Nobody has to cancel, no file has to be  *)
(* bad and no write has to fail.                                           *)
Fairness == /\ WF_vars(RunStep)
            /\ WF_vars(Write)
            /\ \A w \in Workers : WF_vars(WorkerStep(w))

FairSpec == Spec /\ Fairness

-----------------------------------------------------------------------------
(* Properties                                                              *)

Line == [row : Rows, class : FailureClasses, attempt : Nat \ {0}]

(* Every variable keeps the type the code gives it.                        *)
TypeOK ==
  /\ sched \in {"queued", "starting", "ingest", "putting", "persist", "shutdown",
                "gather", "close", "save", "done", "raised"}
  /\ ingestError \in BOOLEAN /\ sentinels \in Nat
  /\ status \in Statuses /\ stored \in Statuses
  /\ ingested \in 0..NumRows
  /\ succeeded \in Nat /\ failed \in Nat /\ pending \in Int /\ inFlight \in Int
  /\ errors \in [ErrorClasses -> Nat]
  /\ usage \in Nat
  /\ queue \in Seq(Rows \cup {SHUTDOWN})
  /\ pc \in [Workers -> {"idle", "denied", "acquire", "calling", "paused", "backoff",
                         "exited"}]
  /\ item \in [Workers -> Rows \cup {NoItem}]
  /\ attempt \in [Workers -> Nat]
  /\ cancel \in BOOLEAN /\ abort \in BOOLEAN
  /\ abortReason \in {"none", "spend", "fatal_auth", "fatal_billing"}
  /\ abortClass \in {"none", "fatal_auth", "fatal_billing"}
  /\ used \in Nat
  /\ Gate!TypeOK
  /\ lines \in Seq(Line) /\ written \in 0..Len(lines) /\ sinkFailed \in BOOLEAN

InLines(r)  == \E i \in 1..Len(lines) : lines[i].row = r
InQueue(r)  == \E i \in 1..Len(queue) : queue[i] = r
Held(r)     == \E w \in Workers : item[w] = r
InHand(r)   == sched = "putting" /\ r = ingested   \* blocked in queue.put

(* No row that was counted as ingested is ever lost: it has its result, or *)
(* waits in the queue, or a worker holds it, or run() is still putting it. *)
NoRowLost == \A r \in 1..ingested : InLines(r) \/ InQueue(r) \/ Held(r) \/ InHand(r)

(* No row is answered twice, whatever was retried, drained or cancelled.   *)
AnsweredOnce ==
  \A i, j \in 1..Len(lines) : lines[i].row = lines[j].row => i = j

(* Once the job reads as finished - in memory, and a fortiori in the store *)
(* - its result file is closed with every line written, one for each row   *)
(* that was ingested; `download` refuses only jobs that read as running.   *)
FinishedFileComplete ==
  status \in Terminal \/ stored \in Terminal =>
    /\ written = Len(lines)
    /\ {lines[i].row : i \in 1..Len(lines)} = 1..ingested
    /\ Len(lines) = ingested

(* "succeeded + failed == ingested": the assertion run() makes before the  *)
(* final save never fails: run() raises only if ingest or the sink did.    *)
ConservationHolds == sched = "raised" => ingestError \/ sinkFailed

(* The inductive strengthening of the four above.  Rows 1..LastPut have    *)
(* been put in the queue; the queue is in file order, with the sentinels   *)
(* behind every row, and everything that left it comes before what is      *)
(* still in it - which is why no row can be in two places.                 *)
LastPut == IF sched = "putting" THEN ingested - 1 ELSE ingested

QueueInOrder ==
  /\ \A i, j \in 1..Len(queue) : i < j =>
       \/ queue[j] = SHUTDOWN
       \/ queue[i] # SHUTDOWN /\ queue[i] < queue[j]
  /\ \A i \in 1..Len(queue) : queue[i] <= LastPut

HeldBeforeQueue ==
  \A w \in Workers :
    /\ item[w] <= LastPut
    /\ \A i \in 1..Len(queue) : queue[i] # SHUTDOWN => item[w] < queue[i]

LinesBeforeQueue ==
  \A k \in 1..Len(lines) :
    /\ lines[k].row <= LastPut
    /\ \A i \in 1..Len(queue) : queue[i] # SHUTDOWN => lines[k].row < queue[i]

HeldOnce ==
  \A w \in Workers :
    /\ \A v \in Workers : item[w] = item[v] /\ item[w] # NoItem => w = v
    /\ \A k \in 1..Len(lines) : lines[k].row # item[w]

AllPlaced == \A r \in 1..LastPut : InLines(r) \/ InQueue(r) \/ Held(r)

(* Every row is in exactly one place.                                      *)
RowsPlacedOnce == /\ QueueInOrder /\ HeldBeforeQueue /\ LinesBeforeQueue
                  /\ HeldOnce /\ AnsweredOnce /\ AllPlaced

(* No worker leaves, and nothing finishes, while a row may still come.     *)
DrainedInTurn ==
  /\ sched \in {"queued", "starting", "ingest", "putting", "persist"} =>
       /\ \A w \in Workers : pc[w] # "exited"
       /\ \A i \in 1..Len(queue) : queue[i] # SHUTDOWN
  /\ (\E w \in Workers : pc[w] = "exited") =>
       \A i \in 1..Len(queue) : queue[i] = SHUTDOWN
  /\ sched \in {"close", "save", "done", "raised"} =>
       \A w \in Workers : pc[w] = "exited"
  /\ status \in Terminal \/ stored \in Terminal =>
       sched \in {"save", "done", "raised"} /\ written = Len(lines)
  /\ sched = "putting" => ingested # 0
  /\ Done = Len(lines)

(* Wherever ingest, the workers, the sentinels and a stop meet, every row  *)
(* is in exactly one place, and the pool drains before the job finishes;   *)
(* so none is lost (NoRowLost) and none answered twice (AnsweredOnce).     *)
RowsAccounted == RowsPlacedOnce /\ DrainedInTurn

CountOf(class) == Cardinality({i \in 1..Len(lines) : lines[i].class = class})
Calling == {w \in Workers : pc[w] = "calling"}

(* The counters the status endpoint shows agree with each other and with   *)
(* the results: pending is what is unanswered, in_flight the calls in      *)
(* progress, and errors_by_class tallies the error lines.                  *)
CountersAgree ==
  /\ pending = ingested - Done
  /\ inFlight = Cardinality(Calling)
  /\ succeeded = CountOf("success")
  /\ Done = Len(lines)
  /\ \A c \in ErrorClasses : errors[c] = CountOf(c)

(* Backpressure: however slow the provider, run() never reads further      *)
(* ahead of the results than the queue, the workers and its own hand hold; *)
(* and a live job takes in no more than config.max_items rows.             *)
IngestBounded ==
  /\ ingested - Done <= QueueCap + Cardinality(Workers) + 1
  /\ ingested <= MaxItems

Stopping == cancel \/ abort
Busy == {w \in Workers : pc[w] \in {"acquire", "calling"}}

(* Once the job is cancelled or aborted no worker sets out on another      *)
(* provider call, not from a retry, a breaker denial or a queued row: only *)
(* the attempts already past the gate finish.                              *)
StopIsFinal == [][Stopping => Busy' \subseteq Busy]_vars

(* No row is sent more often than the most patient of the outcomes it can  *)
(* meet allows, in whatever order it meets them.                           *)
AttemptsCapped ==
  \A w \in Workers : pc[w] = "calling" =>
    \E o \in Responses : attempt[w] <= MaxAttempts(o)

(* The calls of the rows beyond each row's first one: the n-th call of a   *)
(* row, for n > 1, that its result or the worker that holds it knows of.   *)
ExtraCalls ==
  (UNION {{lines[i].row} \X (2..lines[i].attempt) : i \in 1..Len(lines)})
    \cup (UNION {{item[w]} \X (2..attempt[w]) : w \in Workers})

(* Every call beyond a row's first one was paid for from the retry budget, *)
(* and the budget is never overdrawn, so the load on a struggling provider *)
(* is amplified by at most 1/BudgetDivisor.                                *)
RetriesPaidFor ==
  /\ Cardinality(ExtraCalls) <= used
  /\ used <= RetryLimit(ingested, BudgetDivisor)

MaxCost == CHOOSE c \in Costs : \A d \in Costs : d <= c

(* What scheduler.py:101 says of the spend guard, "recomputed every 50     *)
(* completed items": the cap is overrun by no more than one interval and   *)
(* the calls then in flight can cost.                                      *)
SpendBounded ==
  usage < SpendCap + (SpendEvery + Cardinality(Workers) - 1) * MaxCost

WrittenResult ==
  [r \in Rows |->
     IF \E i \in 1..written : lines[i].row = r
     THEN lines[CHOOSE i \in 1..written : lines[i].row = r].class
     ELSE "none"]

Contract == INSTANCE JobContract WITH accepted <- ingested, result <- WrittenResult

(* The job keeps its contract with the client, read off the counters, the  *)
(* status and the lines that reached the file.                             *)
KeepsContract == Contract!Spec

(* What the service sees of run(): where it is, what the status comes to,  *)
(* and what has become of the result file.                                 *)
PhaseOf ==
  CASE sched = "queued" -> "begun"
    [] sched = "starting" -> "entering"
    [] sched \in {"ingest", "putting", "persist"} -> "ingesting"
    [] sched \in {"shutdown", "gather"} -> "draining"
    [] sched = "close" -> "closing"
    [] sched = "save" -> "saving"
    [] sched \in {"done", "raised"} -> "left"

Outline(s) == IF s \in {"succeeded", "partial", "failed"} THEN "finished" ELSE s

FileState ==
  IF sched \in {"queued", "starting"} THEN "none"
  ELSE IF sched \notin {"save", "done", "raised"} THEN "open"
  ELSE IF written = Len(lines) /\ ~sinkFailed THEN "complete" ELSE "cut"

Phases == INSTANCE RunPhases WITH phase <- PhaseOf, status <- Outline(status),
                                  stored <- Outline(stored), file <- FileState,
                                  raising <- (ingestError /\ ~Ended)

(* A run is what the service takes it for: its phases come in turn, and it *)
(* sets a terminal status only when nothing was raised and every line is   *)
(* written, and the one that a cancel asks for.                            *)
FollowsPhases == Phases!Spec

(* Every job ends.                                                         *)
JobEnds == <>Ended

(* Every row taken in gets its line in the file, however the job ends,     *)
(* unless the file itself cannot be written.                               *)
EveryRowAnswered ==
  \A r \in Rows : (ingested >= r) ~> (WrittenResult[r] # "none" \/ sinkFailed)

-----------------------------------------------------------------------------
(* What the documents say of the job and the code does not do              *)

(* docs/diagrams/lifecycle.mmd: whatever the input, the job leaves         *)
(* `running` for one of the four terminal statuses.                        *)
ReachesTerminalStatus == <>(status \in Terminal)
=============================================================================
