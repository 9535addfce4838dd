---------------------------- MODULE StreamItems ----------------------------
(***************************************************************************)
(* stream_items of core/ingest.py: a thread of the executor parses the     *)
(* file and puts the rows on a bounded queue, one round trip to the event  *)
(* loop at a time; an asynchronous generator takes them off and hands them *)
(* on.  The generator may be closed at a yield or cancelled while it       *)
(* waits, and must then see the thread off.                                *)
(***************************************************************************)
EXTENDS InputFile

CONSTANTS
  NumPieces,  \* bound: pieces of the input file
  Bound       \* maxsize of the queue (64)

(* One place is not enough: see ThreadLeaves.                              *)
ASSUME StreamAssumption == NumPieces \in Nat /\ Bound \in Nat /\ Bound >= 2

VARIABLES
  file,      \* the input file
  queue,     \* rows, and END
  producer,  \* the thread: pulling, checking (stop), putting, ending, done
  pulled,    \* the last row the parser yielded, or 0
  error,     \* error_box is not empty
  stop,      \* the stop event
  extra,     \* rows the parser yielded while stop was set
  consumer,  \* the generator: getting, yielded, draining, ended
  pos,       \* the last row it yielded, or 0
  why        \* what ended its loop: "-", end, closed, cancelled

threadVars == <<producer, pulled, error, extra>>
readerVars == <<consumer, pos, why, stop>>
vars == <<file, queue, threadVars, readerVars>>

END == 0   \* `sentinel`; a row is never 0

Init ==
  /\ file \in Files(NumPieces)
  /\ queue = <<>> /\ producer = "pulling" /\ pulled = 0 /\ error = FALSE
  /\ extra = 0 /\ stop = FALSE
  /\ consumer = "getting" /\ pos = 0 /\ why = "-"

-----------------------------------------------------------------------------
(* The parser thread.                                                      *)

HasRoom == Len(queue) < Bound

PullRow ==
  /\ producer = "pulling"
  /\ \E q \in Places(file) : Follows(file, pulled, q) /\ pulled' = q
  /\ producer' = "checking"
  /\ extra' = IF stop THEN extra + 1 ELSE extra
  /\ UNCHANGED <<file, queue, error, readerVars>>

PullNothing ==
  /\ producer = "pulling" /\ NoMore(file, pulled)
  /\ producer' = "ending"
  /\ UNCHANGED <<file, queue, pulled, error, extra, readerVars>>

(* A definition called a slip is a plausible bug in the one that follows   *)
(* it: no action uses it, and the properties tell the two apart.           *)

PullRaisesSlip ==   \* the thread swallows the error
  /\ producer = "pulling" /\ BreaksAfter(file, pulled)
  /\ producer' = "ending"
  /\ UNCHANGED <<file, queue, pulled, error, extra, readerVars>>

(* The parser reads a buffer ahead, so it may stumble over what is still   *)
(* some rows away; the rows in between are never seen.                     *)
PullRaises ==
  /\ producer = "pulling" /\ BreaksAfter(file, pulled)
  /\ error' = TRUE /\ producer' = "ending"
  /\ UNCHANGED <<file, queue, pulled, extra, readerVars>>

CheckStopSlip ==   \* never looks at the event
  /\ producer = "checking"
  /\ producer' = "putting"
  /\ UNCHANGED <<file, queue, pulled, error, extra, readerVars>>

CheckStop ==
  /\ producer = "checking"
  /\ producer' = IF stop THEN "ending" ELSE "putting"
  /\ UNCHANGED <<file, queue, pulled, error, extra, readerVars>>

PutRowSlip ==   \* put_nowait on a queue without a bound
  /\ producer = "putting"
  /\ queue' = Append(queue, pulled)
  /\ producer' = "pulling"
  /\ UNCHANGED <<file, pulled, error, extra, readerVars>>

(* The event loop runs the put the thread waits for.                       *)
PutRow ==
  /\ producer = "putting" /\ HasRoom
  /\ queue' = Append(queue, pulled)
  /\ producer' = "pulling"
  /\ UNCHANGED <<file, pulled, error, extra, readerVars>>

PutEnd ==
  /\ producer = "ending" /\ HasRoom
  /\ queue' = Append(queue, END)
  /\ producer' = "done"
  /\ UNCHANGED <<file, pulled, error, extra, readerVars>>

Producer == PullRow \/ PullNothing \/ PullRaises \/ CheckStop \/ PutRow \/ PutEnd

-----------------------------------------------------------------------------
(* The generator, and the loop that reads from it.                         *)

Get ==
  /\ consumer = "getting" /\ queue # <<>> /\ Head(queue) # END
  /\ queue' = Tail(queue) /\ pos' = Head(queue)
  /\ consumer' = "yielded"
  /\ UNCHANGED <<file, threadVars, why, stop>>

Ask ==   \* the loop comes back for the next row
  /\ consumer = "yielded" /\ consumer' = "getting"
  /\ UNCHANGED <<file, queue, threadVars, pos, why, stop>>

(* The finally clause: stop is set, and what the thread still puts is      *)
(* thrown away until the thread is done.                                   *)
LeaveLoop(w) ==
  /\ consumer' = "draining" /\ why' = w /\ stop' = TRUE
  /\ UNCHANGED <<file, threadVars, pos>>

GetEnd ==
  /\ consumer = "getting" /\ queue # <<>> /\ Head(queue) = END
  /\ queue' = Tail(queue) /\ LeaveLoop("end")

Close ==   \* aclose(): the job was cancelled or aborted, or has its rows
  consumer = "yielded" /\ UNCHANGED queue /\ LeaveLoop("closed")

CancelGet ==   \* the task is cancelled in queue.get()
  consumer = "getting" /\ UNCHANGED queue /\ LeaveLoop("cancelled")

DrainSlip ==   \* waits for the thread without making room
  FALSE /\ UNCHANGED vars

Drain ==
  /\ consumer = "draining" /\ producer # "done" /\ queue # <<>>
  /\ queue' = Tail(queue)
  /\ UNCHANGED <<file, threadVars, readerVars>>

CancelDrain ==   \* the task is cancelled, perhaps again, in sleep(0)
  /\ consumer = "draining" /\ producer # "done" /\ queue = <<>>
  /\ consumer' = "ended" /\ why' = "cancelled"
  /\ UNCHANGED <<file, queue, threadVars, pos, stop>>

Finish ==
  /\ consumer = "draining" /\ producer = "done"
  /\ consumer' = "ended"
  /\ UNCHANGED <<file, queue, threadVars, pos, why, stop>>

Consumer == Get \/ GetEnd \/ Drain \/ Finish
Reader == Ask \/ Close \/ CancelGet \/ CancelDrain

Next == Producer \/ Consumer \/ Reader

Spec == Init /\ [][Next]_vars

(* The thread and the event loop run; nobody must ask for another row.     *)
FairSpec == Spec /\ WF_vars(Producer) /\ WF_vars(Consumer)

-----------------------------------------------------------------------------
(* Properties                                                              *)

(* Every variable keeps its type and the queue its bound.                  *)
TypeOK ==
  /\ file \in Files(NumPieces)
  /\ queue \in Seq(0..NumPieces) /\ Len(queue) <= Bound
  /\ producer \in {"pulling", "checking", "putting", "ending", "done"}
  /\ pulled \in 0..NumPieces /\ pos \in 0..NumPieces /\ extra \in Nat
  /\ error \in BOOLEAN /\ stop \in BOOLEAN
  /\ consumer \in {"getting", "yielded", "draining", "ended"}
  /\ why \in {"-", "end", "closed", "cancelled"}

(* However the reader turns away, the thread reads at most one more row:   *)
(* what the comment in stream_items says of the stop event.                *)
OneMoreRow == extra <= 1

(* How the generator ended: error_box is raised only behind the last row.  *)
Ending ==
  CASE consumer # "ended" -> "open"
    [] consumer = "ended" /\ why = "end" -> IF error THEN "failed" ELSE "complete"
    [] consumer = "ended" /\ why # "end" -> "left"

Stream == INSTANCE RowStream WITH ending <- Ending

(* The thread, the queue and the generator together are a stream of rows:  *)
(* no row is lost, doubled or overtaken on its way through the bridge, and *)
(* a parse error reaches the reader behind the rows that were parsed.      *)
ImplementsStream == Stream!Spec

(* Once the reader turns away, the generator ends and the thread leaves:   *)
(* it is never stuck in a put that nobody will make room for, not even     *)
(* when the draining is itself cancelled.                                  *)
ThreadLeaves == stop ~> consumer = "ended" /\ producer = "done"
=============================================================================
