------------------------- MODULE ResultSink_proofs -------------------------
(***************************************************************************)
(* Proofs about ResultSink, for any number of results, any batch and any   *)
(* flush interval: the order of the file, what close() guarantees, and     *)
(* what a crash can cost in lines and in time.                             *)
(***************************************************************************)
EXTENDS ResultSink, TLAPS

(* While the writer runs, exactly its unflushed lines are not synced, and  *)
(* they are less than a batch; it returns with everything synced.          *)
Batched ==
  /\ task = "waiting" => synced = 2 * (written - unflushed) /\ unflushed < FlushRows
  /\ task = "returned" => /\ closer \in {"closing", "closed"}
                          /\ written = submitted /\ synced = 2 * written
  /\ closer = "closed" => task = "returned"
  /\ ~alive => synced <= left

(* The last line came before the interval was over, so one more wait for   *)
(* the next line ends before two intervals are.                            *)
InTime ==
  /\ task = "waiting" => /\ oldest <= sinceFlush
                         /\ unflushed = 0 => oldest = 0
                         /\ waited <= sinceFlush
                         /\ unflushed > 0 => sinceFlush - waited < FlushTime
  /\ task = "returned" => oldest = 0

IInv == TypeOK /\ Batched /\ InTime

LEMMA SinkInit == Init => IInv
BY SinkAssumption, SMT DEF Init, IInv, TypeOK, Batched, InTime, TimeCap

LEMMA TakeLineStep == IInv /\ TakeLine => IInv'
<1> SUFFICES ASSUME IInv, TakeLine PROVE IInv'
  OBVIOUS
<1> USE SinkAssumption DEF IInv, TimeCap
<1>1. CASE unflushed + 1 >= FlushRows \/ sinceFlush >= FlushTime
  <2>1. Flush(written + 1) /\ unflushed' = 0 /\ sinceFlush' = 0
    BY <1>1 DEF TakeLine
  <2>2. TypeOK'
    BY <2>1 DEF TypeOK, TakeLine, Flush
  <2>3. Batched' /\ InTime'
    BY <2>1 DEF TypeOK, Batched, InTime, TakeLine, Flush
  <2> QED
    BY <2>2, <2>3
<1>2. CASE ~(unflushed + 1 >= FlushRows \/ sinceFlush >= FlushTime)
  <2>1. /\ unflushed' = unflushed + 1
        /\ handed' \in handed..(2 * (written + 1))
        /\ UNCHANGED <<synced, sinceFlush, oldest>>
    BY <1>2 DEF TakeLine
  <2>2. TypeOK'
    BY <2>1 DEF TypeOK, TakeLine
  <2>3. Batched' /\ InTime'
    BY <1>2, <2>1 DEF TypeOK, Batched, InTime, TakeLine
  <2> QED
    BY <2>2, <2>3
<1> QED
  BY <1>1, <1>2

LEMMA TimeoutStep == IInv /\ Timeout => IInv'
<1> SUFFICES ASSUME IInv, Timeout PROVE IInv'
  OBVIOUS
<1> USE SinkAssumption DEF IInv, TimeCap
<1>1. CASE unflushed > 0 /\ sinceFlush >= FlushTime
  <2>1. Flush(written) /\ unflushed' = 0 /\ sinceFlush' = 0
    BY <1>1 DEF Timeout
  <2>2. TypeOK'
    BY <2>1 DEF TypeOK, Timeout, Flush
  <2>3. Batched' /\ InTime'
    BY <2>1 DEF TypeOK, Batched, InTime, Timeout, Flush, Idle
  <2> QED
    BY <2>2, <2>3
<1>2. CASE ~(unflushed > 0 /\ sinceFlush >= FlushTime)
  <2>1. UNCHANGED <<handed, synced, oldest, unflushed, sinceFlush>>
    BY <1>2 DEF Timeout
  <2>2. TypeOK'
    BY <2>1 DEF TypeOK, Timeout
  <2>3. Batched' /\ InTime'
    BY <1>2, <2>1 DEF TypeOK, Batched, InTime, Timeout, Idle
  <2> QED
    BY <2>2, <2>3
<1> QED
  BY <1>1, <1>2

LEMMA TickStep == IInv /\ Tick => IInv'
<1> SUFFICES ASSUME IInv, Tick PROVE IInv'
  OBVIOUS
<1> USE SinkAssumption DEF IInv, TimeCap, Older
<1>1. TypeOK'
  BY DEF TypeOK, Tick, fileVars
<1>2. Batched'
  BY DEF TypeOK, Batched, Tick, fileVars
<1>3. InTime'
  BY DEF TypeOK, Batched, InTime, Tick, fileVars, Idle
<1> QED
  BY <1>1, <1>2, <1>3

LEMMA SinkStep == IInv /\ [Next]_vars => IInv'
<1> SUFFICES ASSUME IInv, [Next]_vars PROVE IInv'
  OBVIOUS
<1> USE SinkAssumption DEF IInv, TypeOK, Batched, InTime, TimeCap
<1>1. CASE Submit
  BY <1>1 DEF Submit, fileVars, timeVars
<1>2. CASE TakeNone
  BY <1>2 DEF TakeNone, Flush
<1>3. CASE Fail
  BY <1>3 DEF Fail, timeVars
<1>4. CASE Close
  BY <1>4 DEF Close, fileVars, timeVars
<1>5. CASE CloseReturns
  BY <1>5 DEF CloseReturns, Flush
<1>6. CASE CloseRaises
  BY <1>6 DEF CloseRaises, fileVars, timeVars
<1>7. CASE Crash
  <2>1. left' \in 0..handed /\ synced <= left'
    BY <1>7 DEF Crash
  <2>2. alive' \in BOOLEAN
    BY <1>7, Zenon DEF Crash
  <2> QED
    BY <1>7, <2>1, <2>2 DEF Crash, fileVars, timeVars
<1>8. CASE UNCHANGED vars
  BY <1>8 DEF vars, fileVars, timeVars
<1> QED
  BY <1>1, <1>2, <1>3, <1>4, <1>5, <1>6, <1>7, <1>8, TakeLineStep, TimeoutStep, TickStep
     DEF Next, Dead

LEMMA SinkInvariant == Spec => []IInv
BY SinkInit, SinkStep, PTL DEF Spec

(* The file is always in order, and every variable of its type.            *)
THEOREM SinkTyped == Spec => []TypeOK
BY SinkInvariant, PTL DEF IInv

(* close() returns only over a file that holds every submitted result.     *)
THEOREM CloseIsDurable == Spec => []ClosedMeansSynced
<1>1. IInv => ClosedMeansSynced
  BY DEF IInv, Batched, ClosedMeansSynced
<1> QED
  BY <1>1, SinkInvariant, PTL

(* A crash costs less than one batch of written lines.                     *)
THEOREM CrashCostsABatch == Spec => []LossBounded
<1>1. IInv => LossBounded
  <2> SUFFICES ASSUME IInv, ~alive, task # "failed",
                      NEW n \in 1..written, n + FlushRows <= written + 1
               PROVE  n \in Replayed
    BY DEF LossBounded
  <2>1. 2 * n <= synced
    BY SinkAssumption DEF IInv, TypeOK, Batched
  <2>2. 2 * n <= left /\ left \in Nat /\ n \in Nat \ {0}
    BY <2>1 DEF IInv, TypeOK, Batched
  <2>3. n <= left \div 2
    BY <2>2, SMT
  <2> QED
    BY <2>2, <2>3 DEF Replayed
<1> QED
  BY <1>1, SinkInvariant, PTL

(* No written line is unsynced for two flush intervals.                    *)
THEOREM SyncIsTimely == Spec => []SyncedInTime
<1>1. IInv => SyncedInTime
  BY SinkAssumption DEF IInv, TypeOK, Batched, InTime, SyncedInTime, TimeCap
<1> QED
  BY <1>1, SinkInvariant, PTL
=============================================================================
