----------------------------- MODULE ResultSink -----------------------------
(***************************************************************************)
(* The result file of one job, core/sink.py: results are submitted to the  *)
(* queue of a single writer task, which writes them as lines, flushes and  *)
(* fsyncs in batches, and is stopped by close(); a write may fail, and the *)
(* process or the machine may crash at any moment, leaving what replay()   *)
(* then reads.                                                             *)
(*                                                                         *)
(* Results are numbered in the order of submission, which is the order of  *)
(* the file.  A position in the file is a number of half-lines: 2 * k is   *)
(* the end of line k and 2 * k - 1 a place inside it, where the file can   *)
(* be cut and line k not be parsed.                                        *)
(***************************************************************************)
EXTENDS Integers

CONSTANTS
  NumResults,  \* bound: results the workers submit
  FlushRows,   \* _FLUSH_EVERY_ROWS (100)
  FlushTime    \* _FLUSH_EVERY_SECONDS (2)

ASSUME SinkAssumption == /\ NumResults \in Nat
                         /\ FlushRows \in Nat \ {0}
                         /\ FlushTime \in Nat \ {0}

VARIABLES
  submitted,   \* results put on the queue; each is counted as it is put
  closer,      \* the caller of close(): open, closing, closed or raised
  task,        \* the writer task: waiting (in queue.get), returned, failed
  written,     \* lines given to the file object
  unflushed,   \* the writer's own count of lines since the last flush
  handed,      \* position up to which the file object passed on its text
  synced,      \* position up to which fsync has returned
  sinceFlush,  \* now - last_flush, up to TimeCap
  waited,      \* time in the current queue.get
  oldest,      \* age of the oldest line written and not synced, up to TimeCap
  alive,       \* the process has not crashed
  left         \* position at which a crash cut the file

fileVars == <<written, unflushed, handed, synced>>
timeVars == <<sinceFlush, waited, oldest>>
vars == <<submitted, closer, task, fileVars, timeVars, alive, left>>

TimeCap == 2 * FlushTime
Older(t) == IF t < TimeCap THEN t + 1 ELSE t

Init ==
  /\ submitted = 0 /\ closer = "open" /\ task = "waiting"
  /\ written = 0 /\ unflushed = 0 /\ handed = 0 /\ synced = 0
  /\ sinceFlush = 0 /\ waited = 0 /\ oldest = 0
  /\ alive = TRUE /\ left = 0

Submit ==
  /\ alive /\ closer = "open" /\ submitted < NumResults
  /\ submitted' = submitted + 1
  /\ UNCHANGED <<closer, task, fileVars, timeVars, alive, left>>

(* A definition called a slip is a plausible bug in the one that follows   *)
(* it: no action uses it, and the properties tell the two apart.           *)

FlushSlip(n) ==   \* fsyncs without flushing the file object
  /\ synced' = handed /\ UNCHANGED handed
  /\ oldest' = 0

(* The file object's buffer is flushed and fsynced with n lines in it.     *)
Flush(n) ==
  /\ handed' = 2 * n /\ synced' = 2 * n
  /\ oldest' = 0

TakeLineSlip ==   \* looks at the batch only, and one line too late
  /\ alive /\ task = "waiting" /\ written < submitted
  /\ written' = written + 1
  /\ waited' = 0
  /\ IF unflushed + 1 > FlushRows
     THEN Flush(written + 1) /\ unflushed' = 0 /\ sinceFlush' = 0
     ELSE /\ unflushed' = unflushed + 1
          /\ handed' \in handed..(2 * (written + 1))
          /\ UNCHANGED <<synced, sinceFlush, oldest>>
  /\ UNCHANGED <<submitted, closer, task, alive, left>>

(* The writer takes a line: it flushes when the batch is full or its time  *)
(* is over, else the file object passes on as much of the text as it likes.*)
TakeLine ==
  /\ alive /\ task = "waiting" /\ written < submitted
  /\ written' = written + 1
  /\ waited' = 0
  /\ IF unflushed + 1 >= FlushRows \/ sinceFlush >= FlushTime
     THEN Flush(written + 1) /\ unflushed' = 0 /\ sinceFlush' = 0
     ELSE /\ unflushed' = unflushed + 1
          /\ handed' \in handed..(2 * (written + 1))
          /\ UNCHANGED <<synced, sinceFlush, oldest>>
  /\ UNCHANGED <<submitted, closer, task, alive, left>>

Idle == task = "waiting" /\ written = submitted /\ closer = "open"

TimeoutSlip ==   \* writes a line for the timeout too
  /\ alive /\ Idle /\ waited >= FlushTime
  /\ waited' = 0
  /\ written' = written + 1
  /\ unflushed' = unflushed + 1
  /\ UNCHANGED <<submitted, closer, task, handed, synced, oldest, sinceFlush, alive, left>>

Timeout ==   \* queue.get has waited _FLUSH_EVERY_SECONDS for nothing
  /\ alive /\ Idle /\ waited >= FlushTime
  /\ waited' = 0
  /\ IF unflushed > 0 /\ sinceFlush >= FlushTime
     THEN Flush(written) /\ unflushed' = 0 /\ sinceFlush' = 0
     ELSE UNCHANGED <<handed, synced, oldest, unflushed, sinceFlush>>
  /\ UNCHANGED <<submitted, closer, task, written, alive, left>>

TakeNone ==   \* the writer reaches the None that close() put
  /\ alive /\ task = "waiting" /\ closer = "closing" /\ written = submitted
  /\ Flush(written)
  /\ task' = "returned"
  /\ UNCHANGED <<submitted, closer, written, unflushed, sinceFlush, waited, alive, left>>

(* A write, flush or fsync of the writer raises: the line it was taking is *)
(* gone, unless the file object had it already.                            *)
Fail ==
  /\ alive /\ task = "waiting"
  /\ \/ written < submitted /\ written' \in {written, written + 1}
     \/ closer = "closing" /\ UNCHANGED written
     \/ unflushed > 0 /\ waited >= FlushTime /\ UNCHANGED written
  /\ handed' \in handed..(2 * written')
  /\ task' = "failed"
  /\ UNCHANGED <<submitted, closer, unflushed, synced, timeVars, alive, left>>

Close ==   \* close() puts None and awaits the task
  /\ alive /\ closer = "open"
  /\ closer' = "closing"
  /\ UNCHANGED <<submitted, task, fileVars, timeVars, alive, left>>

CloseReturns ==   \* flushes and fsyncs once more, and closes the file
  /\ alive /\ closer = "closing" /\ task = "returned"
  /\ Flush(written)
  /\ closer' = "closed"
  /\ UNCHANGED <<submitted, task, written, unflushed, sinceFlush, waited, alive, left>>

CloseRaisesSlip ==   \* waits for the dead task to empty the queue
  /\ alive /\ closer = "closing" /\ task = "failed" /\ written = submitted
  /\ closer' = "raised"
  /\ UNCHANGED <<submitted, task, fileVars, timeVars, alive, left>>

CloseRaises ==   \* awaiting the dead task raises its error
  /\ alive /\ closer = "closing" /\ task = "failed"
  /\ closer' = "raised"
  /\ UNCHANGED <<submitted, task, fileVars, timeVars, alive, left>>

(* The loop is not stalled: a line or a None on the queue is taken, and an *)
(* expired wait ends, before time goes on.                                 *)
Tick ==
  /\ alive /\ (task = "waiting" => Idle /\ waited < FlushTime)
  /\ sinceFlush' = Older(sinceFlush)
  /\ waited' = IF waited < FlushTime THEN waited + 1 ELSE waited
  /\ oldest' = IF synced < 2 * written THEN Older(oldest) ELSE 0
  /\ UNCHANGED <<submitted, closer, task, fileVars, alive, left>>

Crash ==   \* of the process (the cut is at `handed`) or of the machine
  /\ alive
  /\ alive' = FALSE /\ left' \in synced..handed
  /\ UNCHANGED <<submitted, closer, task, fileVars, timeVars>>

Dead == ~alive /\ UNCHANGED vars

Next == \/ Submit \/ TakeLine \/ Timeout \/ TakeNone \/ Fail
        \/ Close \/ CloseReturns \/ CloseRaises \/ Tick \/ Crash \/ Dead

Spec == Init /\ [][Next]_vars

(* The event loop runs the writer and whoever awaits close().              *)
Fairness == /\ WF_vars(TakeLine \/ TakeNone)
            /\ WF_vars(CloseReturns \/ CloseRaises)
FairSpec == Spec /\ Fairness

-----------------------------------------------------------------------------

(* Every variable keeps its type, and the file its order: what fsync has   *)
(* covered was handed on, what was handed on was written, what was written *)
(* was submitted.                                                          *)
TypeOK ==
  /\ submitted \in 0..NumResults
  /\ closer \in {"open", "closing", "closed", "raised"}
  /\ task \in {"waiting", "returned", "failed"}
  /\ written \in 0..submitted /\ unflushed \in 0..written
  /\ handed \in 0..(2 * written) /\ synced \in 0..handed
  /\ sinceFlush \in 0..TimeCap /\ waited \in 0..FlushTime /\ oldest \in 0..TimeCap
  /\ alive \in BOOLEAN /\ left \in 0..handed

(* When close() returns, every result ever submitted is on the disk: none  *)
(* is left on the queue, in the file object or in the system's cache, and  *)
(* close() never returns normally over a writer that died.                 *)
ClosedMeansSynced == closer = "closed" => synced = 2 * submitted

(* What replay() finds after a crash: the lines that parse.                *)
Replayed == 1..(left \div 2)

(* A crash costs less than one batch of the lines the writer had written.  *)
LossBounded ==
  ~alive /\ task # "failed" =>
    \A n \in 1..written : n + FlushRows <= written + 1 => n \in Replayed

(* No written line waits twice the flush interval for its fsync, whatever  *)
(* the rhythm in which lines come.                                         *)
SyncedInTime == task # "failed" => oldest < 2 * FlushTime

(* Whoever closes the sink gets an answer, even from a writer that died.   *)
CloseEnds == closer = "closing" ~> (closer \in {"closed", "raised"} \/ ~alive)
=============================================================================
