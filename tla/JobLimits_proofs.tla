-------------------------- MODULE JobLimits_proofs --------------------------
(***************************************************************************)
(* The numbers of JobRunner, for every input size, pool size and bound:    *)
(* the counters agree with the results and the calls in progress; ingest   *)
(* stays within its read-ahead and its item cap; no row is tried more      *)
(* often than an outcome allows; every retry was paid for; and, where no   *)
(* row can fail without stopping the job, the spend cap is overrun by no   *)
(* more than one interval and the calls then in flight.                    *)
(***************************************************************************)
EXTENDS JobRunner_proofs

(* A finite set has no more images than members.                           *)
LEMMA ImageBound ==
  ASSUME NEW S, IsFiniteSet(S), NEW T, NEW f \in [S -> T], \A t \in T : \E s \in S : f[s] = t
  PROVE  IsFiniteSet(T) /\ Cardinality(T) <= Cardinality(S)
<1>1. f \in Surjection(S, T)
  BY DEF Surjection
<1> QED
  BY <1>1, FS_Surjection

LEMMA UpTo ==
  ASSUME NEW n \in Nat PROVE IsFiniteSet(1..n) /\ Cardinality(1..n) = n
<1>1. IsFiniteSet(1..n) /\ Cardinality(1..n) = IF 1 > n THEN 0 ELSE n - 1 + 1
  BY FS_Interval
<1> QED
  BY <1>1

LEMMA UnionBound ==
  ASSUME NEW S, NEW T, IsFiniteSet(S), IsFiniteSet(T)
  PROVE  /\ IsFiniteSet(S \cup T)
         /\ Cardinality(S \cup T) <= Cardinality(S) + Cardinality(T)
<1>1. /\ IsFiniteSet(S \cup T)
      /\ Cardinality(S \cup T) = Cardinality(S) + Cardinality(T) - Cardinality(S \cap T)
  BY FS_Union
<1>2. Cardinality(S) \in Nat /\ Cardinality(T) \in Nat /\ Cardinality(S \cap T) \in Nat
  BY FS_Intersection, FS_CardinalityType
<1> QED
  BY <1>1, <1>2

-----------------------------------------------------------------------------
(* Ingest.  The work queue is the only place where rows pile up.           *)

RoomInv ==
  /\ Len(queue) <= QueueCap
  /\ ingested <= MaxItems
  /\ sched \in {"queued", "starting", "ingest"} => ingested < MaxItems

LEMMA RoomInit == Init => RoomInv
BY PoolAssumption, LimitsAssumption DEF Init, RoomInv

LEMMA RunRoom ==
  ASSUME TypeOK, RoomInv, RunStep \/ IngestFail \/ Cancel \/ Write \/ SinkFail
  PROVE  RoomInv'
<1>0. /\ ingested \in Nat /\ Len(queue) \in Nat /\ QueueCap \in Nat /\ MaxItems \in Nat
      /\ \A x : Len(Append(queue, x)) = Len(queue) + 1
  BY PoolAssumption, LimitsAssumption DEF TypeOK
<1>1. CASE Yield
  <2>1. ingested' = ingested + 1 /\ ingested + 1 <= MaxItems
    BY <1>0, <1>1 DEF Yield, RoomInv
  <2>2. Len(queue') <= QueueCap
    BY <1>0, <1>1 DEF Yield, HasRoom, RoomInv
  <2>3. sched' \in {"queued", "starting", "ingest"} => ingested + 1 < MaxItems
    BY <1>0, <1>1 DEF Yield, AfterPut, AfterCap
  <2> QED
    BY <2>1, <2>2, <2>3 DEF RoomInv
<1>2. CASE Put
  BY <1>0, <1>2 DEF Put, HasRoom, RoomInv, countVars, AfterPut, AfterCap
<1>3. CASE PutShutdown
  BY <1>0, <1>3 DEF PutShutdown, HasRoom, RoomInv, countVars
<1>4. CASE Persist
  BY <1>0, <1>4 DEF Persist, RoomInv, countVars, AfterCap
<1>5. CASE Start \/ Started \/ StopIngest \/ IngestFail \/ Gather \/ Finish \/ Save
           \/ Cancel \/ Write \/ SinkFail
  BY <1>5 DEF Start, Started, StopIngest, IngestFail, Gather, Finish, Save, Cancel, Write,
              SinkFail, RoomInv, countVars, schedVars
<1> QED
  BY <1>1, <1>2, <1>3, <1>4, <1>5 DEF RunStep

LEMMA WorkerRoom ==
  ASSUME TypeOK, RoomInv, NEW w \in Workers, WorkerStep(w) PROVE RoomInv'
<1>1. UNCHANGED schedVars /\ ingested' = ingested
  BY WorkerKeepsPut
<1>2. queue' = queue \/ (queue # <<>> /\ queue' = Tail(queue))
  BY DEF WorkerStep, AtTop, Dequeue, Cancelled, Aborted, Denied, Admitted, Dispatch,
         Succeed, Pause, Resume, Fatal, Reject, TakeInvalid, TakeShutdown
<1>3. Len(queue') <= Len(queue) /\ Len(queue') \in Nat /\ Len(queue) \in Nat
  BY <1>2 DEF TypeOK
<1> QED
  BY <1>1, <1>3, PoolAssumption DEF RoomInv, schedVars

LEMMA RoomStep == TypeOK /\ RoomInv /\ [Next]_vars => RoomInv'
<1>1. RoomInv /\ UNCHANGED vars => RoomInv'
  BY DEF RoomInv, vars, schedVars, countVars
<1> QED
  BY <1>1, RunRoom, WorkerRoom DEF Next, Terminated

(* Of the rows run() has put, each is answered, queued or held.            *)
LEMMA ReadAhead ==
  ASSUME IInv, Len(queue) <= QueueCap
  PROVE  ingested - Done <= QueueCap + Cardinality(Workers) + 1
<1> DEFINE answered == {lines[i].row : i \in 1..Len(lines)}
           queued == {queue[i] : i \in 1..Len(queue)}
           held == {item[w] : w \in Workers}
<1>0. /\ Len(lines) \in Nat /\ Len(queue) \in Nat /\ ingested \in Nat /\ QueueCap \in Nat
      /\ LastPut \in Int /\ ingested <= LastPut + 1 /\ Done = Len(lines)
  BY PoolAssumption DEF IInv, TypeInv, TypeOK, LastPut, DrainedInTurn
<1>1. IsFiniteSet(answered) /\ Cardinality(answered) <= Len(lines)
  <2> DEFINE f == [i \in 1..Len(lines) |-> lines[i].row]
  <2>1. f \in [1..Len(lines) -> answered] /\ \A t \in answered : \E i \in 1..Len(lines) : f[i] = t
    OBVIOUS
  <2>2. IsFiniteSet(1..Len(lines)) /\ Cardinality(1..Len(lines)) = Len(lines)
    BY <1>0, UpTo
  <2> HIDE DEF f, answered
  <2> QED
    BY <2>1, <2>2, ImageBound
<1>2. IsFiniteSet(queued) /\ Cardinality(queued) <= Len(queue)
  <2> DEFINE f == [i \in 1..Len(queue) |-> queue[i]]
  <2>1. f \in [1..Len(queue) -> queued] /\ \A t \in queued : \E i \in 1..Len(queue) : f[i] = t
    OBVIOUS
  <2>2. IsFiniteSet(1..Len(queue)) /\ Cardinality(1..Len(queue)) = Len(queue)
    BY <1>0, UpTo
  <2> HIDE DEF f, queued
  <2> QED
    BY <2>1, <2>2, ImageBound
<1>3. IsFiniteSet(held) /\ Cardinality(held) <= Cardinality(Workers)
  <2> DEFINE f == [w \in Workers |-> item[w]]
  <2>1. f \in [Workers -> held] /\ \A t \in held : \E w \in Workers : f[w] = t
    OBVIOUS
  <2> HIDE DEF f, held
  <2> QED
    BY <2>1, PoolAssumption, ImageBound
<1>4. 1..LastPut \subseteq answered \cup (queued \cup held)
  BY DEF IInv, RowsPlacedOnce, AllPlaced, InLines, InQueue, Held
<1> HIDE DEF answered, queued, held
<1>5. /\ IsFiniteSet(answered \cup (queued \cup held))
      /\ Cardinality(answered \cup (queued \cup held))
           <= Cardinality(answered) + (Cardinality(queued) + Cardinality(held))
  <2>1. /\ IsFiniteSet(queued \cup held)
        /\ Cardinality(queued \cup held) <= Cardinality(queued) + Cardinality(held)
    BY <1>2, <1>3, UnionBound
  <2>2. /\ IsFiniteSet(answered \cup (queued \cup held))
        /\ Cardinality(answered \cup (queued \cup held))
             <= Cardinality(answered) + Cardinality(queued \cup held)
    BY <1>1, <2>1, UnionBound
  <2>3. /\ Cardinality(answered) \in Nat /\ Cardinality(queued) \in Nat
        /\ Cardinality(held) \in Nat /\ Cardinality(queued \cup held) \in Nat
        /\ Cardinality(answered \cup (queued \cup held)) \in Nat
    BY <1>1, <1>2, <1>3, <2>1, <2>2, FS_CardinalityType
  <2> QED
    BY <2>1, <2>2, <2>3
<1>6. /\ Cardinality(answered) \in Nat /\ Cardinality(queued) \in Nat
      /\ Cardinality(held) \in Nat /\ Cardinality(Workers) \in Nat
      /\ Cardinality(answered \cup (queued \cup held)) \in Nat
  BY <1>1, <1>2, <1>3, <1>5, PoolAssumption, FS_CardinalityType
<1>7. CASE LastPut < 1
  BY <1>0, <1>6, <1>7
<1>8. CASE LastPut >= 1
  <2>1. Cardinality(1..LastPut) = LastPut
    BY <1>0, <1>8, UpTo
  <2>2. LastPut <= Cardinality(answered \cup (queued \cup held))
    <3>1. 1..LastPut \in SUBSET (answered \cup (queued \cup held))
      BY <1>4
    <3>2. Cardinality(1..LastPut) <= Cardinality(answered \cup (queued \cup held))
      BY <1>5, <3>1, FS_Subset, Zenon
    <3> QED
      BY <2>1, <3>2
  <2> QED
    BY <1>0, <1>1, <1>2, <1>3, <1>5, <1>6, <2>2
<1> QED
  BY <1>0, <1>7, <1>8

(* Backpressure and the item cap.                                          *)
THEOREM IngestStaysBounded == Spec => []IngestBounded
<1>1. IInv /\ RoomInv => IngestBounded
  BY ReadAhead DEF RoomInv, IngestBounded
<1>2. IInv => TypeOK
  BY DEF IInv, TypeInv
<1> QED
  BY <1>1, <1>2, RoomInit, RoomStep, Invariance, PTL DEF Spec

-----------------------------------------------------------------------------
(* The counters.  A step of a worker answers at most one row.              *)

RowAnswers == \E r \in Rows, class \in FailureClasses, tries \in Nat \ {0} :
                Emit(r, class, tries)

LEMMA ResolveAnswers ==
  ASSUME TypeInv, NEW w \in Workers, pc[w] \in {"calling", "paused"},
         NEW class \in FailureClasses, Resolve(w, class)
  PROVE  RowAnswers
<1>1. item[w] \in Rows /\ attempt[w] \in Nat \ {0}
  BY DEF TypeInv, TypeOK, Attempted, Holding
<1> QED
  BY <1>1 DEF Resolve, RowAnswers

LEMMA SettleAnswers ==
  ASSUME TypeInv, NEW w \in Workers, pc[w] \in {"calling", "paused"},
         NEW o \in Outcomes, Settle(w, o)
  PROVE  UNCHANGED <<lines, countVars>> \/ RowAnswers
<1>1. ExhaustedClass(o) \in FailureClasses /\ "transient_exhausted" \in FailureClasses
  BY DEF ExhaustedClass, ClassOf, FailureClasses, Outcomes
<1> QED
  BY <1>1, ResolveAnswers DEF Settle

LEMMA WorkerAnswers ==
  ASSUME TypeInv, NEW w \in Workers, WorkerStep(w)
  PROVE  UNCHANGED <<lines, countVars>> \/ RowAnswers
<1>1. CASE Cancelled(w) \/ Aborted(w)
  <2>1. RowAt(w) \in Rows /\ Tries(w) \in Nat \ {0}
    BY <1>1, TopRow DEF Cancelled, Aborted
  <2>2. DrainClass \in FailureClasses /\ "cancelled" \in FailureClasses
    BY DEF DrainClass, TypeInv, TypeOK, FailureClasses
  <2> QED
    BY <1>1, <2>1, <2>2 DEF Cancelled, Aborted, RowAnswers
<1>2. CASE Denied(w) \/ Admitted(w) \/ Dispatch(w) \/ Pause(w) \/ TakeShutdown(w)
  BY <1>2 DEF Denied, Admitted, Dispatch, Pause, TakeShutdown
<1>3. CASE Succeed(w)
  BY <1>3, ResolveAnswers DEF Succeed, FailureClasses
<1>4. ASSUME NEW o \in Responses, Fatal(w, o) PROVE RowAnswers
  <2>1. ClassOf(o) \in FailureClasses
    BY <1>4 DEF Fatal, IsFatal, FailureClasses
  <2> QED
    BY <1>4, <2>1, ResolveAnswers DEF Fatal
<1>5. CASE Resume(w)
  BY <1>5, SettleAnswers DEF Resume, Outcomes
<1>6. ASSUME NEW o \in Responses, Reject(w, o)
      PROVE  UNCHANGED <<lines, countVars>> \/ RowAnswers
  BY <1>6, SettleAnswers, ResponsesAssumption DEF Reject
<1>7. CASE TakeInvalid(w)
  <2>1. Head(queue) \in Rows
    BY <1>7, RowsAssumption DEF TakeInvalid, Rows
  <2> QED
    BY <1>7, <2>1 DEF TakeInvalid, RowAnswers, FailureClasses
<1> QED
  BY <1>1, <1>2, <1>3, <1>4, <1>5, <1>6, <1>7 DEF WorkerStep

(* run(), the writer and the caller answer none; run() takes rows in.      *)
LEMMA RunCounts ==
  ASSUME RunStep \/ IngestFail \/ Cancel \/ Write \/ SinkFail
  PROVE  /\ UNCHANGED <<lines, succeeded, failed, errors, inFlight, pc>>
         /\ \/ UNCHANGED <<ingested, pending>>
            \/ ingested' = ingested + 1 /\ pending' = pending + 1
BY DEF RunStep, Start, Started, Yield, Put, Persist, StopIngest, IngestFail, PutShutdown,
       Gather, Finish, Save, Cancel, Write, SinkFail, countVars, workerVars

(* One more line is one more of its class, and of no other.                *)
LEMMA CountGrows ==
  ASSUME TypeOK, NEW r, NEW class, NEW tries,
         lines' = Append(lines, [row |-> r, class |-> class, attempt |-> tries]), NEW c
  PROVE  CountOf(c)' = IF c = class THEN CountOf(c) + 1 ELSE CountOf(c)
<1> DEFINE old == {i \in 1..Len(lines) : lines[i].class = c}
<1>1. /\ Len(lines) \in Nat /\ Len(lines') = Len(lines) + 1
      /\ \A i \in 1..Len(lines) : lines'[i] = lines[i]
      /\ lines'[Len(lines) + 1].class = class
  BY DEF TypeOK
<1>2. IsFiniteSet(1..Len(lines)) /\ old \in SUBSET (1..Len(lines))
  BY <1>1, UpTo
<1>3. IsFiniteSet(old)
  BY <1>2, FS_Subset
<1>4. CountOf(c) = Cardinality(old)
  BY DEF CountOf
<1>5. CASE c = class
  <2>1. {i \in 1..Len(lines') : lines'[i].class = c} = old \cup {Len(lines) + 1}
    BY <1>1, <1>5
  <2>2. Len(lines) + 1 \notin old
    BY <1>1
  <2>3. Cardinality(old \cup {Len(lines) + 1}) = Cardinality(old) + 1
    BY <1>3, <2>2, FS_AddElement
  <2> QED
    BY <1>4, <1>5, <2>1, <2>3 DEF CountOf
<1>6. CASE c # class
  <2>1. {i \in 1..Len(lines') : lines'[i].class = c} = old
    BY <1>1, <1>6
  <2> QED
    BY <1>4, <1>6, <2>1 DEF CountOf
<1> QED
  BY <1>5, <1>6

Tallies == /\ pending = ingested - Done
           /\ succeeded = CountOf("success")
           /\ \A c \in ErrorClasses : errors[c] = CountOf(c)

LEMMA TalliesAnswer ==
  ASSUME TypeOK, Tallies, RowAnswers PROVE Tallies'
<1>1. PICK r \in Rows, class \in FailureClasses, tries \in Nat \ {0} : Emit(r, class, tries)
  BY DEF RowAnswers
<1>2. \A c : CountOf(c)' = IF c = class THEN CountOf(c) + 1 ELSE CountOf(c)
  BY <1>1, CountGrows DEF Emit
<1>3. /\ ingested' = ingested /\ pending' = pending - 1
      /\ ingested \in Int /\ pending \in Int /\ succeeded \in Nat /\ failed \in Nat
  BY <1>1 DEF Emit, TypeOK
<1>4. CASE class = "success"
  <2>1. succeeded' = succeeded + 1 /\ failed' = failed /\ errors' = errors
    BY <1>1, <1>4 DEF Emit
  <2>2. \A c \in ErrorClasses : CountOf(c)' = CountOf(c)
    BY <1>2, <1>4 DEF ErrorClasses
  <2>3. CountOf("success")' = CountOf("success") + 1
    BY <1>2, <1>4
  <2> QED
    BY <1>3, <2>1, <2>2, <2>3 DEF Tallies, Done
<1>5. CASE class # "success"
  <2>1. succeeded' = succeeded /\ failed' = failed + 1
        /\ errors' = [errors EXCEPT ![class] = errors[class] + 1]
    BY <1>1, <1>5 DEF Emit
  <2>2. CountOf("success")' = CountOf("success")
    BY <1>2, <1>5
  <2>3. \A c \in ErrorClasses : errors'[c] = CountOf(c)'
    BY <1>2, <2>1 DEF Tallies, TypeOK
  <2> QED
    BY <1>3, <2>1, <2>2, <2>3 DEF Tallies, Done
<1> QED
  BY <1>4, <1>5

LEMMA CountKept == ASSUME UNCHANGED lines, NEW c PROVE CountOf(c)' = CountOf(c)
BY DEF CountOf

LEMMA TalliesStep == TypeInv /\ Tallies /\ [Next]_vars => Tallies'
<1> SUFFICES ASSUME TypeInv, Tallies, [Next]_vars PROVE Tallies'
  OBVIOUS
<1>0. TypeOK
  BY DEF TypeInv
<1>1. CASE UNCHANGED <<lines, countVars>>
  BY <1>1, CountKept DEF Tallies, countVars, Done
<1>2. CASE RunStep \/ IngestFail \/ Cancel \/ Write \/ SinkFail
  BY <1>0, <1>2, RunCounts, CountKept DEF Tallies, Done, TypeOK
<1>3. ASSUME NEW w \in Workers, WorkerStep(w) PROVE Tallies'
  BY <1>0, <1>1, <1>3, WorkerAnswers, TalliesAnswer
<1> QED
  BY <1>1, <1>2, <1>3 DEF Next, Terminated, vars

(* The calls in progress.                                                  *)
InFlight == inFlight = Cardinality(Calling)

LEMMA CallsStep ==
  ASSUME TypeInv, NEW w \in Workers, WorkerStep(w)
  PROVE  \/ inFlight' = inFlight /\ Calling' = Calling
         \/ inFlight' = inFlight + 1 /\ w \notin Calling /\ Calling' = Calling \cup {w}
         \/ inFlight' = inFlight - 1 /\ w \in Calling /\ Calling' = Calling \ {w}
<1> USE DEF Calling
<1>0. pc \in [Workers -> {"idle", "denied", "acquire", "calling", "paused", "backoff",
                          "exited"}]
  BY DEF TypeInv, TypeOK
<1>1. CASE Cancelled(w) \/ Aborted(w) \/ Denied(w) \/ Admitted(w)
  BY <1>0, <1>1 DEF Cancelled, Aborted, Denied, Admitted, AtTop, Release
<1>2. CASE Dispatch(w)
  BY <1>0, <1>2 DEF Dispatch
<1>3. ASSUME NEW p \in {"idle", "paused", "backoff"}, pc[w] = "calling",
             pc' = [pc EXCEPT ![w] = p], inFlight' = inFlight - 1
      PROVE  inFlight' = inFlight - 1 /\ w \in Calling /\ Calling' = Calling \ {w}
  BY <1>0, <1>3
<1>4. CASE Succeed(w) \/ Pause(w)
  BY <1>3, <1>4 DEF Succeed, Pause, Resolve, Release
<1>5. ASSUME NEW o \in Responses, Fatal(w, o) \/ Reject(w, o)
      PROVE  inFlight' = inFlight - 1 /\ w \in Calling /\ Calling' = Calling \ {w}
  BY <1>3, <1>5 DEF Fatal, Reject, Settle, Resolve, Release
<1>6. CASE Resume(w)
  BY <1>0, <1>6 DEF Resume, Settle, Resolve, Release
<1>7. CASE TakeInvalid(w) \/ TakeShutdown(w)
  BY <1>0, <1>7 DEF TakeInvalid, TakeShutdown, workerVars
<1> QED
  BY <1>1, <1>2, <1>4, <1>5, <1>6, <1>7 DEF WorkerStep

LEMMA InFlightStep == TypeInv /\ InFlight /\ [Next]_vars => InFlight'
<1> SUFFICES ASSUME TypeInv, InFlight, [Next]_vars PROVE InFlight'
  OBVIOUS
<1>0. IsFiniteSet(Calling)
  BY PoolAssumption, FS_Subset DEF Calling
<1>1. CASE UNCHANGED <<inFlight, pc>>
  BY <1>1 DEF InFlight, Calling
<1>2. ASSUME NEW w \in Workers, WorkerStep(w) PROVE InFlight'
  <2>1. /\ w \notin Calling => Cardinality(Calling \cup {w}) = Cardinality(Calling) + 1
        /\ w \in Calling => Cardinality(Calling \ {w}) = Cardinality(Calling) - 1
    BY <1>0, FS_AddElement, FS_RemoveElement
  <2> QED
    BY <1>2, <2>1, CallsStep DEF InFlight
<1> QED
  BY <1>1, <1>2, RunCounts DEF Next, Terminated, vars, workerVars

LEMMA CountersInit == Init => Tallies /\ InFlight
<1> SUFFICES ASSUME Init PROVE Tallies /\ InFlight
  OBVIOUS
<1>1. lines = <<>> /\ Len(lines) = 0
  BY DEF Init
<1>2. \A c : CountOf(c) = 0
  <2>1. \A c : {i \in 1..Len(lines) : lines[i].class = c} = {}
    BY <1>1
  <2> QED
    BY <2>1, FS_EmptySet DEF CountOf
<1>3. Calling = {}
  BY DEF Init, Calling
<1>4. Cardinality(Calling) = 0
  BY <1>3, FS_EmptySet
<1> QED
  BY <1>2, <1>4 DEF Init, Tallies, InFlight, Done

LEMMA CountersInvariant == Spec => [](Tallies /\ InFlight)
BY CountersInit, TalliesStep, InFlightStep, TypeInvariant, PTL DEF Spec

(* The counters agree with each other, with the results and with the calls *)
(* in progress.                                                            *)
THEOREM CountersAlwaysAgree == Spec => []CountersAgree
<1>1. IInv /\ Tallies /\ InFlight => CountersAgree
  BY DEF IInv, DrainedInTurn, Tallies, InFlight, CountersAgree
<1> QED
  BY <1>1, Invariance, CountersInvariant, PTL

-----------------------------------------------------------------------------
(* Attempts.  What a row may still do depends on the outcome that was last *)
(* asked for it, so some outcome allows the attempt a worker is at, and    *)
(* before a further one some outcome allows that.                          *)

Allowed(n) == \E o \in Responses : n <= MaxAttempts(o)

TriesInv == \A w \in Workers :
  /\ pc[w] \in {"acquire", "calling", "paused"} => Allowed(attempt[w])
  /\ pc[w] \in {"backoff", "denied"} => Allowed(attempt[w] + 1)
  /\ pc[w] = "paused" => "429_reset" \in Responses
  /\ pc[w] \in {"idle", "exited"} => attempt[w] = 0

LEMMA CapType == \A o : MaxAttempts(o) \in Nat \ {0}
BY DEF MaxAttempts

(* Every row may be tried once.                                            *)
LEMMA FirstAllowed == Allowed(1)
<1>1. PICK o \in Responses : TRUE
  BY ResponsesAssumption
<1>2. 1 <= MaxAttempts(o)
  BY CapType
<1> QED
  BY <1>2 DEF Allowed

LEMMA SettleTries ==
  ASSUME TypeInv, TriesInv, NEW w \in Workers, pc[w] \in {"calling", "paused"},
         NEW o \in Responses, Settle(w, o)
  PROVE  TriesInv'
<1>0. /\ pc \in [Workers -> {"idle", "denied", "acquire", "calling", "paused", "backoff",
                             "exited"}]
      /\ attempt \in [Workers -> Nat] /\ MaxAttempts(o) \in Nat
  BY CapType DEF TypeInv, TypeOK
<1>1. ASSUME NEW class, Resolve(w, class) PROVE TriesInv'
  BY <1>0, <1>1 DEF Resolve, Release, TriesInv, Allowed
<1>2. ASSUME attempt[w] < MaxAttempts(o), pc' = [pc EXCEPT ![w] = "backoff"],
             UNCHANGED attempt
      PROVE  TriesInv'
  <2>1. Allowed(attempt[w] + 1)
    BY <1>0, <1>2 DEF Allowed
  <2> QED
    BY <1>0, <1>2, <2>1 DEF TriesInv, Allowed
<1> QED
  BY <1>1, <1>2 DEF Settle

LEMMA WorkerTries ==
  ASSUME TypeInv, TriesInv, NEW w \in Workers, WorkerStep(w) PROVE TriesInv'
<1>0. /\ pc \in [Workers -> {"idle", "denied", "acquire", "calling", "paused", "backoff",
                             "exited"}]
      /\ attempt \in [Workers -> Nat]
  BY DEF TypeInv, TypeOK
<1>1. CASE Cancelled(w) \/ Aborted(w)
  BY <1>0, <1>1 DEF Cancelled, Aborted, Release, TriesInv, Allowed
<1>2. AtTop(w) => Allowed(attempt[w] + 1)
  BY <1>0, FirstAllowed DEF AtTop, TriesInv
<1>3. CASE Denied(w)
  BY <1>0, <1>2, <1>3 DEF Denied, TriesInv, Allowed
<1>4. CASE Admitted(w)
  BY <1>0, <1>2, <1>4 DEF Admitted, TriesInv, Allowed
<1>5. CASE Dispatch(w)
  BY <1>0, <1>5 DEF Dispatch, TriesInv, Allowed
<1>6. CASE Succeed(w)
  BY <1>0, <1>6 DEF Succeed, Resolve, Release, TriesInv, Allowed
<1>7. CASE Pause(w)
  BY <1>0, <1>7 DEF Pause, TriesInv, Allowed
<1>8. CASE Resume(w)
  BY <1>8, SettleTries DEF Resume, TriesInv
<1>9. ASSUME NEW o \in Responses, Fatal(w, o) \/ Reject(w, o) PROVE TriesInv'
  <2>1. CASE Fatal(w, o)
    BY <1>0, <2>1 DEF Fatal, Resolve, Release, TriesInv, Allowed
  <2> QED
    BY <1>9, <2>1, SettleTries DEF Reject
<1>10. CASE TakeInvalid(w) \/ TakeShutdown(w)
  BY <1>0, <1>10 DEF TakeInvalid, TakeShutdown, workerVars, TriesInv, Allowed
<1> QED
  BY <1>1, <1>3, <1>4, <1>5, <1>6, <1>7, <1>8, <1>9, <1>10 DEF WorkerStep

LEMMA RunKeepsWorkers ==
  ASSUME RunStep \/ IngestFail \/ Cancel \/ Write \/ SinkFail
  PROVE  UNCHANGED workerVars /\ UNCHANGED <<lines, used, usage>>
BY DEF RunStep, Start, Started, Yield, Put, Persist, StopIngest, IngestFail, PutShutdown,
       Gather, Finish, Save, Cancel, Write, SinkFail

LEMMA TriesInit == Init => TriesInv
BY DEF Init, TriesInv

LEMMA TriesStep == TypeInv /\ TriesInv /\ [Next]_vars => TriesInv'
<1>1. TriesInv /\ UNCHANGED workerVars => TriesInv'
  BY DEF TriesInv, Allowed, workerVars
<1> QED
  BY <1>1, WorkerTries, RunKeepsWorkers DEF Next, Terminated, vars

(* No row is sent more often than an outcome it may meet allows.           *)
THEOREM AttemptsStayCapped == Spec => []AttemptsCapped
<1>1. TriesInv => AttemptsCapped
  BY DEF TriesInv, Allowed, AttemptsCapped
<1> QED
  BY <1>1, TypeInvariant, TriesInit, TriesStep, PTL DEF Spec

-----------------------------------------------------------------------------
(* Retries.  A retry is paid for before it is made: while its row backs    *)
(* off, or is denied after that, the budget has it and the row has not.    *)

Granted(w) == IF pc[w] \in {"backoff", "denied"} THEN attempt[w] + 1 ELSE attempt[w]

Paid(r, n) ==
  \/ \E i \in 1..Len(lines) : r = lines[i].row /\ n \in 2..lines[i].attempt
  \/ \E w \in Workers : r = item[w] /\ n \in 2..Granted(w)

PaidCalls == {c \in (Rows \cup {NoItem}) \X Nat : Paid(c[1], c[2])}

BudgetInv ==
  /\ IsFiniteSet(PaidCalls) /\ Cardinality(PaidCalls) <= used
  /\ used <= RetryLimit(ingested, BudgetDivisor)

(* A retry made is a retry granted.                                        *)
LEMMA ExtraArePaid == ASSUME TypeOK PROVE ExtraCalls \subseteq PaidCalls
<1>0. /\ attempt \in [Workers -> Nat] /\ item \in [Workers -> Rows \cup {NoItem}]
      /\ \A i \in 1..Len(lines) : lines[i].row \in Rows /\ lines[i].attempt \in Nat
  <2>1. \A i \in 1..Len(lines) : lines[i] \in Line
    BY DEF TypeOK
  <2> QED
    BY <2>1 DEF TypeOK, Line
<1>1. ASSUME NEW i \in 1..Len(lines), NEW x \in {lines[i].row} \X (2..lines[i].attempt)
      PROVE  x \in PaidCalls
  <2>1. /\ x = <<x[1], x[2]>> /\ x[1] = lines[i].row /\ x[2] \in 2..lines[i].attempt
        /\ x[2] \in Nat
    BY <1>0
  <2>2. x \in (Rows \cup {NoItem}) \X Nat
    BY <1>0, <2>1
  <2> QED
    BY <2>1, <2>2 DEF PaidCalls, Paid
<1>2. ASSUME NEW w \in Workers, NEW x \in {item[w]} \X (2..attempt[w]) PROVE x \in PaidCalls
  <2>1. /\ x = <<x[1], x[2]>> /\ x[1] = item[w] /\ x[2] \in 2..attempt[w]
        /\ x[2] \in Nat
    BY <1>0
  <2>2. x \in (Rows \cup {NoItem}) \X Nat
    BY <1>0, <2>1
  <2>3. x[2] \in 2..Granted(w)
    BY <1>0, <2>1 DEF Granted
  <2> QED
    BY <2>1, <2>2, <2>3 DEF PaidCalls, Paid
<1> QED
  <2> SUFFICES ASSUME NEW x \in ExtraCalls PROVE x \in PaidCalls
    OBVIOUS
  <2>1. \/ \E i \in 1..Len(lines) : x \in {lines[i].row} \X (2..lines[i].attempt)
        \/ \E w \in Workers : x \in {item[w]} \X (2..attempt[w])
    <3>1. CASE x \in UNION {{lines[i].row} \X (2..lines[i].attempt) : i \in 1..Len(lines)}
      BY <3>1, Zenon
    <3>2. CASE x \in UNION {{item[w]} \X (2..attempt[w]) : w \in Workers}
      BY <3>2, Zenon
    <3> QED
      BY <3>1, <3>2, Zenon DEF ExtraCalls
  <2> QED
    BY <1>1, <1>2, <2>1, Zenon

(* A row that is resolved takes with it to its line no more than the       *)
(* attempts it has made, or the one that a row never tried is said to have *)
(* taken.                                                                  *)
LEMMA EmitPays ==
  ASSUME TypeOK, NEW w \in Workers, NEW r, NEW class, NEW tries \in Nat,
         Emit(r, class, tries), Release(w), tries <= 1 \/ (r = item[w] /\ tries <= attempt[w]),
         NEW s, NEW n, Paid(s, n)'
  PROVE  Paid(s, n)
<1>0. /\ attempt \in [Workers -> Nat] /\ item \in [Workers -> Rows \cup {NoItem}]
      /\ pc \in [Workers -> {"idle", "denied", "acquire", "calling", "paused", "backoff",
                             "exited"}]
      /\ Len(lines) \in Nat /\ Len(lines') = Len(lines) + 1
      /\ \A i \in 1..Len(lines) : lines'[i] = lines[i]
      /\ lines'[Len(lines) + 1].row = r /\ lines'[Len(lines) + 1].attempt = tries
  BY DEF TypeOK, Emit
<1>1. ASSUME NEW i \in 1..Len(lines'), s = lines'[i].row, n \in 2..lines'[i].attempt
      PROVE  Paid(s, n)
  <2>1. CASE i \in 1..Len(lines)
    BY <1>0, <1>1, <2>1 DEF Paid
  <2>2. CASE i = Len(lines) + 1
    <3>1. s = item[w] /\ n \in 2..attempt[w]
      BY <1>0, <1>1, <2>2
    <3>2. n \in 2..Granted(w)
      BY <1>0, <3>1 DEF Granted
    <3> QED
      BY <3>1, <3>2 DEF Paid
  <2> QED
    BY <1>0, <2>1, <2>2
<1>2. ASSUME NEW v \in Workers, s = item'[v], n \in 2..Granted(v)' PROVE Paid(s, n)
  <2>1. v # w
    BY <1>0, <1>2 DEF Release, Granted
  <2>2. item'[v] = item[v] /\ Granted(v)' = Granted(v)
    BY <1>0, <2>1 DEF Release, Granted
  <2> QED
    BY <1>2, <2>2 DEF Paid
<1> QED
  BY <1>1, <1>2 DEF Paid

(* A worker that takes up, holds or sends a row without resolving it is    *)
(* granted no more than before.                                            *)
LEMMA HoldPays ==
  ASSUME TypeInv, NEW w \in Workers, UNCHANGED lines,
         pc' = [pc EXCEPT ![w] = pc'[w]],
         item' = [item EXCEPT ![w] = item'[w]],
         attempt' = [attempt EXCEPT ![w] = attempt'[w]],
         attempt'[w] \in Nat, Granted(w)' <= 1 \/ (item'[w] = item[w] /\ Granted(w)' <= Granted(w)),
         NEW s, NEW n, Paid(s, n)'
  PROVE  Paid(s, n)
<1>0. /\ attempt \in [Workers -> Nat] /\ item \in [Workers -> Rows \cup {NoItem}]
      /\ pc \in [Workers -> {"idle", "denied", "acquire", "calling", "paused", "backoff",
                             "exited"}]
  BY DEF TypeInv, TypeOK
<1> QED
  BY <1>0 DEF Paid, Granted

LEMMA SettlePays ==
  ASSUME TypeInv, NEW w \in Workers, pc[w] \in {"calling", "paused"},
         NEW o \in Outcomes, Settle(w, o), NEW s, NEW n, Paid(s, n)'
  PROVE  \/ Paid(s, n) /\ used' = used
         \/ /\ Paid(s, n) \/ (s = item[w] /\ n = attempt[w] + 1)
            /\ used' = used + 1 /\ used < RetryLimit(ingested, BudgetDivisor)
<1>0. /\ TypeOK /\ attempt \in [Workers -> Nat]
      /\ pc \in [Workers -> {"idle", "denied", "acquire", "calling", "paused", "backoff",
                             "exited"}]
  BY DEF TypeInv, TypeOK
<1>1. ASSUME NEW class, Resolve(w, class) PROVE Paid(s, n)
  BY <1>0, <1>1, EmitPays DEF Resolve
<1>2. ASSUME pc' = [pc EXCEPT ![w] = "backoff"], UNCHANGED <<item, attempt, lines>>
      PROVE  Paid(s, n) \/ (s = item[w] /\ n = attempt[w] + 1)
  <2>1. Granted(w)' = attempt[w] + 1 /\ Granted(w) = attempt[w]
    BY <1>0, <1>2 DEF Granted
  <2>2. \A v \in Workers : v # w => Granted(v)' = Granted(v)
    BY <1>0, <1>2 DEF Granted
  <2>0. lines' = lines /\ item' = item
    BY <1>2
  <2>3. CASE \E i \in 1..Len(lines') : s = lines'[i].row /\ n \in 2..lines'[i].attempt
    <3>1. \E i \in 1..Len(lines) : s = lines[i].row /\ n \in 2..lines[i].attempt
      BY <2>0, <2>3
    <3> QED
      BY <3>1 DEF Paid
  <2>4. ASSUME NEW v \in Workers, s = item'[v], n \in 2..Granted(v)'
        PROVE  Paid(s, n) \/ (s = item[w] /\ n = attempt[w] + 1)
    <3>1. CASE v = w
      <4>1. s = item[w] /\ n \in 2..(attempt[w] + 1) /\ attempt[w] \in Nat
        BY <1>0, <2>0, <2>1, <2>4, <3>1
      <4>2. n \in 2..Granted(w) \/ n = attempt[w] + 1
        BY <2>1, <4>1
      <4> QED
        BY <4>1, <4>2 DEF Paid
    <3>2. CASE v # w
      <4>1. s = item[v] /\ n \in 2..Granted(v)
        BY <2>0, <2>2, <2>4, <3>2
      <4> QED
        BY <4>1 DEF Paid
    <3> QED
      BY <3>1, <3>2
  <2> QED
    BY <2>3, <2>4 DEF Paid
<1> QED
  BY <1>1, <1>2 DEF Settle

LEMMA WorkerPays ==
  ASSUME TypeInv, TriesInv, NEW w \in Workers, WorkerStep(w), NEW s, NEW n, Paid(s, n)'
  PROVE  \/ Paid(s, n) /\ used' = used
         \/ /\ Paid(s, n) \/ (s = item[w] /\ n = attempt[w] + 1)
            /\ used' = used + 1 /\ used < RetryLimit(ingested, BudgetDivisor)
<1>0. /\ TypeOK /\ attempt \in [Workers -> Nat] /\ item \in [Workers -> Rows \cup {NoItem}]
      /\ pc \in [Workers -> {"idle", "denied", "acquire", "calling", "paused", "backoff",
                             "exited"}]
      /\ pc[w] \in {"idle", "exited"} => attempt[w] = 0
  BY DEF TypeInv, TypeOK, TriesInv
<1>1. CASE Cancelled(w) \/ Aborted(w)
  <2>1. Tries(w) \in Nat /\ (Tries(w) <= 1 \/ (RowAt(w) = item[w] /\ Tries(w) <= attempt[w]))
    BY <1>0 DEF Tries, RowAt
  <2>2. ASSUME NEW class, Emit(RowAt(w), class, Tries(w)), Release(w) PROVE Paid(s, n)
    BY <1>0, <2>1, <2>2, EmitPays
  <2> QED
    BY <1>1, <2>2 DEF Cancelled, Aborted
<1>2. CASE Denied(w)
  <2>1. pc' = [pc EXCEPT ![w] = "denied"] /\ item' = [item EXCEPT ![w] = RowAt(w)]
        /\ attempt' = attempt /\ lines' = lines /\ used' = used /\ AtTop(w)
    BY <1>2 DEF Denied
  <2>2. Granted(w)' = attempt[w] + 1
    BY <1>0, <2>1 DEF Granted
  <2>3. Granted(w)' <= 1 \/ (item'[w] = item[w] /\ Granted(w)' <= Granted(w))
    BY <1>0, <2>1, <2>2 DEF AtTop, RowAt, Granted
  <2> QED
    BY <1>0, <2>1, <2>3, HoldPays
<1>3. CASE Admitted(w)
  <2>1. pc' = [pc EXCEPT ![w] = "acquire"] /\ item' = [item EXCEPT ![w] = RowAt(w)]
        /\ attempt' = [attempt EXCEPT ![w] = attempt[w] + 1]
        /\ lines' = lines /\ used' = used /\ AtTop(w)
    BY <1>3 DEF Admitted
  <2>2. Granted(w)' = attempt[w] + 1 /\ attempt'[w] = attempt[w] + 1
    BY <1>0, <2>1 DEF Granted
  <2>3. Granted(w)' <= 1 \/ (item'[w] = item[w] /\ Granted(w)' <= Granted(w))
    BY <1>0, <2>1, <2>2 DEF AtTop, RowAt, Granted
  <2>4. /\ pc' = [pc EXCEPT ![w] = pc'[w]] /\ item' = [item EXCEPT ![w] = item'[w]]
        /\ attempt' = [attempt EXCEPT ![w] = attempt'[w]] /\ attempt'[w] \in Nat
    BY <1>0, <2>1, <2>2
  <2> QED
    BY <2>1, <2>3, <2>4, HoldPays
<1>4. CASE Dispatch(w) \/ Pause(w) \/ TakeShutdown(w)
  <2>1. /\ pc' = [pc EXCEPT ![w] = pc'[w]] /\ pc'[w] \in {"calling", "paused", "exited"}
        /\ item' = item /\ attempt' = attempt /\ lines' = lines /\ used' = used
    BY <1>0, <1>4 DEF Dispatch, Pause, TakeShutdown, countVars
  <2>2. item'[w] = item[w] /\ Granted(w)' <= Granted(w)
    BY <1>0, <2>1 DEF Granted
  <2>3. item' = [item EXCEPT ![w] = item'[w]] /\ attempt' = [attempt EXCEPT ![w] = attempt'[w]]
        /\ attempt'[w] \in Nat
    BY <1>0, <2>1
  <2> QED
    BY <2>1, <2>2, <2>3, HoldPays
<1>5. ASSUME NEW class, pc[w] = "calling", Resolve(w, class) PROVE Paid(s, n)
  BY <1>0, <1>5, EmitPays DEF Resolve
<1>6. CASE Succeed(w) \/ \E o \in Responses : Fatal(w, o)
  BY <1>5, <1>6 DEF Succeed, Fatal
<1>7. CASE Resume(w) \/ \E o \in Responses : Reject(w, o)
  BY <1>7, SettlePays, ResponsesAssumption DEF Resume, Reject, Outcomes
<1>8. CASE TakeInvalid(w)
  <2>1. Emit(Head(queue), "invalid_input", 1) /\ used' = used
    BY <1>8 DEF TakeInvalid
  <2>2. Release(w)
    BY <1>0, <1>8 DEF TakeInvalid, workerVars, Release, TypeInv, Holding
  <2> QED
    BY <1>0, <2>1, <2>2, EmitPays
<1> QED
  BY <1>1, <1>2, <1>3, <1>4, <1>6, <1>7, <1>8 DEF WorkerStep

(* An admitted row, or one more, never lowers the limit of retries.        *)
LEMMA LimitGrows ==
  ASSUME NEW n \in Nat, NEW d \in Nat \ {0}
  PROVE  /\ RetryLimit(n, d) \in Nat \ {0}
         /\ RetryLimit(n, d) <= RetryLimit(n + 1, d)
<1>1. n \div d \in Nat /\ (n + 1) \div d \in Nat /\ n \div d <= (n + 1) \div d
  OBVIOUS
<1> QED
  BY <1>1 DEF RetryLimit

LEMMA BudgetWorker ==
  ASSUME TypeInv, TriesInv, BudgetInv, NEW w \in Workers, WorkerStep(w) PROVE BudgetInv'
<1> DEFINE retry == <<item[w], attempt[w] + 1>>
<1>0. used \in Nat /\ ingested \in Nat /\ ingested' = ingested
  BY WorkerKeepsPut DEF TypeInv, TypeOK
<1>1. Cardinality(PaidCalls) \in Nat
  BY FS_CardinalityType DEF BudgetInv
<1>2. \A x \in PaidCalls' : x = <<x[1], x[2]>> /\ x \in (Rows \cup {NoItem}) \X Nat /\ Paid(x[1], x[2])'
  BY DEF PaidCalls
<1>3. CASE PaidCalls' \subseteq PaidCalls /\ used' = used
  <2>1. PaidCalls' \in SUBSET PaidCalls
    BY <1>3
  <2>2. IsFiniteSet(PaidCalls') /\ Cardinality(PaidCalls') <= Cardinality(PaidCalls)
    BY <2>1, FS_Subset DEF BudgetInv
  <2>3. Cardinality(PaidCalls') \in Nat
    BY <2>2, FS_CardinalityType
  <2> QED
    BY <1>0, <1>1, <1>3, <2>2, <2>3 DEF BudgetInv
<1>4. CASE /\ PaidCalls' \subseteq PaidCalls \cup {retry}
           /\ used' = used + 1 /\ used < RetryLimit(ingested, BudgetDivisor)
  <2>1. /\ IsFiniteSet(PaidCalls \cup {retry})
        /\ Cardinality(PaidCalls \cup {retry}) <= Cardinality(PaidCalls) + 1
    <3> HIDE DEF retry
    <3>1. /\ IsFiniteSet(PaidCalls \cup {retry})
          /\ Cardinality(PaidCalls \cup {retry}) =
               IF retry \in PaidCalls THEN Cardinality(PaidCalls) ELSE Cardinality(PaidCalls) + 1
      BY FS_AddElement DEF BudgetInv
    <3> QED
      BY <1>1, <3>1
  <2>2. PaidCalls' \in SUBSET (PaidCalls \cup {retry})
    BY <1>4
  <2>3. IsFiniteSet(PaidCalls') /\ Cardinality(PaidCalls') <= Cardinality(PaidCalls \cup {retry})
    BY <2>1, <2>2, FS_Subset
  <2>4. Cardinality(PaidCalls') \in Nat /\ Cardinality(PaidCalls \cup {retry}) \in Nat
    BY <2>1, <2>3, FS_CardinalityType
  <2>5. RetryLimit(ingested, BudgetDivisor) \in Nat
    BY <1>0, LimitGrows, LimitsAssumption
  <2> QED
    BY <1>0, <1>1, <1>4, <2>1, <2>3, <2>4, <2>5 DEF BudgetInv
<1>5. ASSUME NEW x \in PaidCalls'
      PROVE  \/ x \in PaidCalls /\ used' = used
             \/ /\ x \in PaidCalls \cup {retry}
                /\ used' = used + 1 /\ used < RetryLimit(ingested, BudgetDivisor)
  <2>1. x = <<x[1], x[2]>> /\ x \in (Rows \cup {NoItem}) \X Nat /\ Paid(x[1], x[2])'
    BY <1>2, <1>5
  <2>2. \/ Paid(x[1], x[2]) /\ used' = used
        \/ /\ Paid(x[1], x[2]) \/ (x[1] = item[w] /\ x[2] = attempt[w] + 1)
           /\ used' = used + 1 /\ used < RetryLimit(ingested, BudgetDivisor)
    BY <2>1, WorkerPays
  <2> QED
    BY <2>1, <2>2 DEF PaidCalls
<1>6. used' = used \/ (used' = used + 1 /\ used < RetryLimit(ingested, BudgetDivisor))
  BY ResponsesAssumption
     DEF WorkerStep, Cancelled, Aborted, Denied, Admitted, Dispatch, Succeed, Pause, Resume,
         Fatal, Reject, TakeInvalid, TakeShutdown, Settle
<1> QED
  BY <1>0, <1>3, <1>4, <1>5, <1>6

LEMMA BudgetInit == Init => BudgetInv
<1> SUFFICES ASSUME Init PROVE BudgetInv
  OBVIOUS
<1>1. PaidCalls = {}
  BY DEF Init, PaidCalls, Paid, Granted
<1>2. IsFiniteSet({}) /\ Cardinality({}) = 0
  BY FS_EmptySet
<1>3. RetryLimit(0, BudgetDivisor) \in Nat
  BY LimitGrows, LimitsAssumption
<1> QED
  BY <1>1, <1>2, <1>3 DEF Init, BudgetInv

LEMMA BudgetStep == TypeInv /\ TriesInv /\ BudgetInv /\ [Next]_vars => BudgetInv'
<1> SUFFICES ASSUME TypeInv, TriesInv, BudgetInv, [Next]_vars PROVE BudgetInv'
  OBVIOUS
<1>1. CASE UNCHANGED <<lines, workerVars, used>> /\ ingested' \in {ingested, ingested + 1}
  <2>1. PaidCalls' = PaidCalls
    BY <1>1 DEF PaidCalls, Paid, Granted, workerVars
  <2>2. /\ RetryLimit(ingested, BudgetDivisor) <= RetryLimit(ingested', BudgetDivisor)
        /\ RetryLimit(ingested, BudgetDivisor) \in Nat
        /\ RetryLimit(ingested', BudgetDivisor) \in Nat
    <3>1. ingested \in Nat /\ ingested + 1 \in Nat /\ BudgetDivisor \in Nat \ {0}
      BY LimitsAssumption DEF TypeInv, TypeOK
    <3>2. /\ RetryLimit(ingested, BudgetDivisor) \in Nat
          /\ RetryLimit(ingested + 1, BudgetDivisor) \in Nat
          /\ RetryLimit(ingested, BudgetDivisor) <= RetryLimit(ingested + 1, BudgetDivisor)
      BY <3>1, LimitGrows
    <3> QED
      BY <1>1, <3>2
  <2>3. used' = used /\ used \in Nat
    BY <1>1 DEF TypeInv, TypeOK
  <2> QED
    BY <2>1, <2>2, <2>3 DEF BudgetInv
<1> QED
  BY <1>1, BudgetWorker, RunKeepsWorkers, RunCounts DEF Next, Terminated, vars, countVars

(* Every retry made was paid for, and the budget is never overdrawn.       *)
THEOREM RetriesArePaidFor == Spec => []RetriesPaidFor
<1>1. ASSUME TypeInv, BudgetInv PROVE RetriesPaidFor
  <2>1. ExtraCalls \in SUBSET PaidCalls
    BY <1>1, ExtraArePaid DEF TypeInv
  <2>2. IsFiniteSet(ExtraCalls) /\ Cardinality(ExtraCalls) <= Cardinality(PaidCalls)
    BY <1>1, <2>1, FS_Subset DEF BudgetInv
  <2>3. Cardinality(ExtraCalls) \in Nat /\ Cardinality(PaidCalls) \in Nat /\ used \in Nat
    BY <1>1, <2>2, FS_CardinalityType DEF BudgetInv, TypeInv, TypeOK
  <2> QED
    BY <1>1, <2>2, <2>3 DEF BudgetInv, RetriesPaidFor
<1> QED
  BY <1>1, TypeInvariant, TriesInit, TriesStep, BudgetInit, BudgetStep, PTL DEF Spec

-----------------------------------------------------------------------------
(* Spending.                                                               *)

LEMMA NextMod ==
  ASSUME NEW n \in Nat, NEW d \in Nat \ {0}
  PROVE  /\ n % d \in 0..(d - 1)
         /\ (n + 1) % d = 0 \/ (n + 1) % d = (n % d) + 1
  OBVIOUS

LEMMA Multiples ==
  ASSUME NEW a \in Nat, NEW b \in Nat, NEW m \in Nat
  PROVE  /\ a * m \in Nat /\ (a + 1) * m = a * m + m
         /\ a <= b => a * m <= b * m
<1>1. a * m \in Nat /\ (a + 1) * m = a * m + m
  OBVIOUS
<1>2. ASSUME a <= b PROVE a * m <= b * m
  <2>1. PICK k \in Nat : b = a + k
    BY <1>2
  <2>2. b * m = a * m + k * m /\ k * m \in Nat /\ a * m \in Nat
    BY <2>1
  <2> QED
    BY <2>2
<1> QED
  BY <1>1, <1>2

LEMMA Within ==
  ASSUME NEW u \in Nat, NEW cap \in Nat, NEW a \in Nat, NEW b \in Nat, NEW m \in Nat,
         a <= b, u < cap + a * m
  PROVE  u < cap + b * m
<1>1. a * m <= b * m /\ a * m \in Nat /\ b * m \in Nat
  BY Multiples
<1> QED
  BY <1>1

(* No row can fail without stopping the job: every row ends in a success,  *)
(* which looks at the spending, or in an abort or a cancel.                *)
EveryRowChecked ==
  InvalidRows = {} /\ \A o \in Responses : o = "200" \/ IsFatal(o)

(* Some call costs the most.                                               *)
CostsBounded == \E c \in Costs : \A d \in Costs : d <= c

(* What a stopped job may still spend, in calls: a job that stops has      *)
(* overrun the cap by at most one interval, and what is in flight of it    *)
(* may only land.                                                          *)
Overrun == SpendEvery + Cardinality(Workers) - 1 - Cardinality(Busy)

SpendInv ==
  /\ \A w \in Workers : pc[w] # "paused"
  /\ ~Stopping => usage < SpendCap + (Done % SpendEvery) * MaxCost
  /\ Stopping => usage < SpendCap + Overrun * MaxCost

LEMMA Dearest ==
  ASSUME CostsBounded PROVE MaxCost \in Nat /\ \A c \in Costs : c \in Nat /\ c <= MaxCost
<1>1. MaxCost \in Costs /\ \A c \in Costs : c <= MaxCost
  BY DEF CostsBounded, MaxCost
<1> QED
  BY <1>1, LimitsAssumption

LEMMA OverrunBound ==
  /\ IsFiniteSet(Busy) /\ Cardinality(Busy) \in Nat /\ Cardinality(Workers) \in Nat
  /\ Overrun \in Nat /\ SpendEvery - 1 <= Overrun
  /\ Overrun <= SpendEvery + Cardinality(Workers) - 1
<1>1. Busy \in SUBSET Workers
  BY DEF Busy
<1>2. IsFiniteSet(Busy) /\ Cardinality(Busy) <= Cardinality(Workers)
  BY <1>1, FS_Subset, PoolAssumption
<1>3. Cardinality(Busy) \in Nat /\ Cardinality(Workers) \in Nat
  BY <1>2, FS_CardinalityType, PoolAssumption
<1> QED
  BY <1>2, <1>3, LimitsAssumption DEF Overrun

(* The same of the next state.                                             *)
LEMMA OverrunBoundNext ==
  /\ IsFiniteSet(Busy') /\ Cardinality(Busy') \in Nat
  /\ Overrun' \in Nat /\ SpendEvery - 1 <= Overrun'
<1>1. Busy' \in SUBSET Workers
  BY DEF Busy
<1>2. IsFiniteSet(Busy') /\ Cardinality(Busy') <= Cardinality(Workers)
  BY <1>1, FS_Subset, PoolAssumption
<1>3. Cardinality(Busy') \in Nat /\ Cardinality(Workers) \in Nat
  BY <1>2, FS_CardinalityType, PoolAssumption
<1> QED
  BY <1>2, <1>3, LimitsAssumption DEF Overrun

(* The three ways a bound on the spending is handed on.                    *)
LEMMA SpendRests ==
  ASSUME TypeOK, CostsBounded, SpendInv, \A w \in Workers : pc'[w] # "paused",
         usage' = usage, Stopping => Stopping' /\ Busy' \subseteq Busy,
         ~Stopping' => Done' = Done
  PROVE  SpendInv'
<1>0. /\ usage \in Nat /\ SpendCap \in Nat /\ MaxCost \in Nat /\ Done \in Nat
      /\ SpendEvery \in Nat \ {0} /\ Done % SpendEvery \in 0..(SpendEvery - 1)
  <2>1. Done \in Nat
    BY DEF TypeOK, Done
  <2>2. Done % SpendEvery \in 0..(SpendEvery - 1)
    BY <2>1, NextMod, LimitsAssumption
  <2> QED
    BY <2>1, <2>2, Dearest, LimitsAssumption DEF TypeOK
<1>1. CASE ~Stopping'
  <2>1. ~Stopping /\ Done' = Done
    BY <1>1
  <2>2. usage' < SpendCap + (Done' % SpendEvery) * MaxCost
    BY <2>1, Zenon DEF SpendInv
  <2> QED
    BY <1>1, <2>2 DEF SpendInv
<1>2. CASE Stopping' /\ ~Stopping
  <2>1. usage < SpendCap + (Done % SpendEvery) * MaxCost
    BY <1>2 DEF SpendInv
  <2>2. Done % SpendEvery \in Nat /\ Overrun' \in Nat /\ Done % SpendEvery <= Overrun'
    BY <1>0, OverrunBoundNext
  <2>3. usage < SpendCap + Overrun' * MaxCost
    BY <1>0, <2>1, <2>2, Within
  <2> QED
    BY <1>2, <2>3 DEF SpendInv
<1>3. CASE Stopping
  <2>1. usage < SpendCap + Overrun * MaxCost
    BY <1>3 DEF SpendInv
  <2>2. Busy' \in SUBSET Busy
    BY <1>3
  <2>3. Cardinality(Busy') <= Cardinality(Busy)
    BY <2>2, OverrunBound, FS_Subset
  <2>4. Overrun \in Nat /\ Overrun' \in Nat /\ Overrun <= Overrun'
    BY <1>0, <2>3, OverrunBound, OverrunBoundNext DEF Overrun
  <2>5. usage < SpendCap + Overrun' * MaxCost
    BY <1>0, <2>1, <2>4, Within
  <2> QED
    BY <1>3, <2>5 DEF SpendInv
<1> QED
  BY <1>1, <1>2, <1>3

(* A success under a job that is not stopped looks at the spending.        *)
LEMMA SpendChecked ==
  ASSUME TypeInv, CostsBounded, SpendInv, ~Stopping, NEW w \in Workers, Succeed(w)
  PROVE  SpendInv'
<1>0. /\ usage \in Nat /\ SpendCap \in Nat /\ MaxCost \in Nat /\ Done \in Nat
      /\ succeeded \in Nat /\ failed \in Nat /\ SpendEvery \in Nat \ {0}
  BY Dearest, LimitsAssumption DEF TypeInv, TypeOK, Done
<1>1. PICK c \in Costs : usage' = usage + c
  BY DEF Succeed
<1>2. c \in Nat /\ c <= MaxCost /\ usage' \in Nat
  BY <1>0, <1>1, Dearest
<1>3. Done' = Done + 1
  BY <1>0 DEF Succeed, Resolve, Emit, Done
<1>4. pc' = [pc EXCEPT ![w] = "idle"] /\ w \in Busy /\ Busy' = Busy \ {w}
  BY DEF Succeed, Resolve, Release, Busy, TypeInv, TypeOK
<1>5. \A v \in Workers : pc'[v] # "paused"
  BY <1>4 DEF SpendInv, TypeInv, TypeOK
<1> DEFINE k == Done % SpendEvery
<1>6. k \in Nat /\ k + 1 <= SpendEvery
      /\ ((Done + 1) % SpendEvery = 0 \/ (Done + 1) % SpendEvery = k + 1)
  <2>1. /\ Done % SpendEvery \in 0..(SpendEvery - 1)
        /\ (Done + 1) % SpendEvery = 0 \/ (Done + 1) % SpendEvery = (Done % SpendEvery) + 1
    BY <1>0, NextMod
  <2> HIDE DEF k
  <2>2. k \in 0..(SpendEvery - 1)
        /\ ((Done + 1) % SpendEvery = 0 \/ (Done + 1) % SpendEvery = k + 1)
    BY <2>1, Zenon DEF k
  <2> QED
    BY <1>0, <2>2
<1> HIDE DEF k
<1>7. usage < SpendCap + k * MaxCost
  BY DEF SpendInv, k
<1>8. usage' < SpendCap + (k + 1) * MaxCost
  <2>1. /\ (k + 1) * MaxCost = k * MaxCost + MaxCost
        /\ k * MaxCost \in Nat /\ (k + 1) * MaxCost \in Nat
    BY <1>0, <1>6, Multiples
  <2>2. ASSUME NEW p \in Nat, NEW q \in Nat, q = p + MaxCost, usage < SpendCap + p
        PROVE  usage' < SpendCap + q
    BY <1>0, <1>1, <1>2, <2>2
  <2> QED
    BY <1>7, <2>1, <2>2, Zenon
<1>9. CASE Stopping'
  <2>1. SpendEvery <= Overrun' /\ Overrun' \in Nat
    <3>1. Cardinality(Busy') = Cardinality(Busy) - 1
      BY <1>4, OverrunBound, FS_RemoveElement
    <3>2. Overrun' = Overrun + 1
      BY <1>0, <3>1, OverrunBound, OverrunBoundNext DEF Overrun
    <3> QED
      BY <1>0, <3>2, OverrunBound
  <2>2. k + 1 \in Nat /\ k + 1 <= Overrun'
    BY <1>0, <1>6, <2>1
  <2>3. usage' < SpendCap + Overrun' * MaxCost
    BY <1>0, <1>2, <1>8, <2>1, <2>2, Within
  <2> QED
    BY <1>5, <1>9, <2>3 DEF SpendInv
<1>10. CASE ~Stopping'
  <2>1. ~OverCap(Done + 1, usage')
    BY <1>10 DEF Succeed, Stopping
  <2>2. CASE (Done + 1) % SpendEvery = 0
    <3>1. usage' < SpendCap
      BY <1>0, <1>2, <2>1, <2>2 DEF OverCap
    <3>2. Done' % SpendEvery = 0
      BY <1>3, <2>2
    <3>3. (Done' % SpendEvery) * MaxCost = 0
      BY <1>0, <3>2
    <3>4. usage' < SpendCap + (Done' % SpendEvery) * MaxCost
      BY <1>0, <1>2, <3>1, <3>3
    <3> QED
      BY <1>5, <1>10, <3>4 DEF SpendInv
  <2>3. CASE (Done + 1) % SpendEvery = k + 1
    <3>1. Done' % SpendEvery = k + 1
      BY <1>3, <2>3
    <3>2. usage' < SpendCap + (Done' % SpendEvery) * MaxCost
      BY <1>8, <3>1
    <3> QED
      BY <1>5, <1>10, <3>2 DEF SpendInv
  <2> QED
    BY <1>6, <2>2, <2>3
<1> QED
  BY <1>9, <1>10

(* Under a job that is stopped it lands one of the calls in flight.        *)
LEMMA SpendLands ==
  ASSUME TypeInv, CostsBounded, SpendInv, Stopping, NEW w \in Workers, Succeed(w)
  PROVE  SpendInv'
<1>0. /\ usage \in Nat /\ SpendCap \in Nat /\ MaxCost \in Nat
      /\ Cardinality(Workers) \in Nat /\ SpendEvery \in Nat \ {0}
      /\ Overrun \in Nat /\ Overrun' \in Nat
  BY Dearest, OverrunBound, OverrunBoundNext, LimitsAssumption DEF TypeInv, TypeOK
<1>1. PICK c \in Costs : usage' = usage + c
  BY DEF Succeed
<1>2. c \in Nat /\ c <= MaxCost
  BY Dearest
<1>3. pc' = [pc EXCEPT ![w] = "idle"] /\ w \in Busy /\ Busy' = Busy \ {w}
  BY DEF Succeed, Resolve, Release, Busy, TypeInv, TypeOK
<1>4. \A v \in Workers : pc'[v] # "paused"
  BY <1>3 DEF SpendInv, TypeInv, TypeOK
<1>5. Overrun' = Overrun + 1
  <2>1. Cardinality(Busy') = Cardinality(Busy) - 1
    BY <1>3, OverrunBound, FS_RemoveElement
  <2> QED
    BY <1>0, <2>1, OverrunBound, OverrunBoundNext DEF Overrun
<1>6. /\ Overrun' * MaxCost = Overrun * MaxCost + MaxCost
      /\ Overrun * MaxCost \in Nat /\ Overrun' * MaxCost \in Nat
  BY <1>0, <1>5, Multiples
<1>7. usage < SpendCap + Overrun * MaxCost
  BY DEF SpendInv
<1>8. usage' < SpendCap + Overrun' * MaxCost
  <2>1. ASSUME NEW p \in Nat, NEW q \in Nat, q = p + MaxCost, usage < SpendCap + p
        PROVE  usage' < SpendCap + q
    BY <1>0, <1>1, <1>2, <2>1
  <2> QED
    BY <1>6, <1>7, <2>1, Zenon
<1>9. Stopping'
  BY DEF Stopping, Succeed
<1> QED
  BY <1>4, <1>8, <1>9 DEF SpendInv

(* With no paused worker and every row checked, the other steps of a       *)
(* worker answer a row only in a job that stops.                           *)
LEMMA SpendUnchecked ==
  ASSUME EveryRowChecked, TypeInv, SpendInv, NEW w \in Workers, WorkerStep(w), ~Succeed(w)
  PROVE  /\ usage' = usage
         /\ \A v \in Workers : pc'[v] # "paused"
         /\ ~Stopping' => Done' = Done
         /\ Stopping => Stopping'
<1>0. /\ pc \in [Workers -> {"idle", "denied", "acquire", "calling", "paused", "backoff",
                             "exited"}]
      /\ \A v \in Workers : pc[v] # "paused"
  BY DEF TypeInv, TypeOK, SpendInv
<1>1. CASE Cancelled(w) \/ Aborted(w)
  BY <1>0, <1>1 DEF Cancelled, Aborted, Release, Stopping, abortVars
<1>2. CASE Denied(w) \/ Admitted(w) \/ Dispatch(w) \/ TakeShutdown(w)
  BY <1>0, <1>2 DEF Denied, Admitted, Dispatch, TakeShutdown, Stopping, Done, abortVars, countVars
<1>3. ASSUME NEW o \in Responses, Fatal(w, o) \/ Reject(w, o)
      PROVE  Fatal(w, o)
  BY <1>3 DEF EveryRowChecked, Reject
<1>4. ASSUME NEW o \in Responses, Fatal(w, o)
      PROVE  usage' = usage /\ Stopping' /\ \A v \in Workers : pc'[v] # "paused"
  BY <1>0, <1>4 DEF Fatal, Resolve, Release, Stopping
<1>5. ~Pause(w) /\ ~Resume(w) /\ ~TakeInvalid(w)
  BY <1>0 DEF EveryRowChecked, Pause, Resume, TakeInvalid, IsFatal, ClassOf
<1> QED
  BY <1>1, <1>2, <1>3, <1>4, <1>5 DEF WorkerStep

LEMMA SpendStep ==
  ASSUME EveryRowChecked, CostsBounded, TypeInv, SpendInv, [Next]_vars PROVE SpendInv'
<1>0. TypeOK /\ (Stopping => Busy' \subseteq Busy)
  <2>1. CASE UNCHANGED vars
    BY <2>1 DEF vars, workerVars, Busy, TypeInv
  <2> QED
    BY <2>1, StoppedStep DEF TypeInv
<1>1. CASE UNCHANGED <<pc, usage, succeeded, failed, abort>> /\ (cancel => cancel')
  <2>1. /\ \A w \in Workers : pc'[w] # "paused"
        /\ Stopping => Stopping'
        /\ Done' = Done
    BY <1>1 DEF SpendInv, Stopping, Done
  <2> QED
    BY <1>0, <1>1, <2>1, SpendRests
<1>2. ASSUME NEW w \in Workers, WorkerStep(w) PROVE SpendInv'
  <2>1. CASE Succeed(w)
    BY <2>1, SpendChecked, SpendLands
  <2>2. CASE ~Succeed(w)
    BY <1>0, <1>2, <2>2, SpendUnchecked, SpendRests
  <2> QED
    BY <2>1, <2>2
<1>3. CASE RunStep \/ IngestFail \/ Cancel \/ Write \/ SinkFail
  <2>1. abort' = abort /\ (cancel => cancel')
    BY <1>3 DEF RunStep, Start, Started, Yield, Put, Persist, StopIngest, IngestFail, PutShutdown,
                Gather, Finish, Save, Cancel, Write, SinkFail, abortVars
  <2> QED
    BY <1>1, <1>3, <2>1, RunCounts, RunKeepsWorkers
<1> QED
  BY <1>1, <1>2, <1>3 DEF Next, Terminated, vars, workerVars, countVars, abortVars

LEMMA SpendInit == ASSUME SpendCap # 0, CostsBounded, Init PROVE SpendInv
<1>1. usage = 0 /\ Done = 0 /\ ~Stopping /\ \A w \in Workers : pc[w] # "paused"
  BY DEF Init, Done, Stopping
<1>2. Done % SpendEvery = 0
  BY <1>1, NextMod, LimitsAssumption
<1>3. (Done % SpendEvery) * MaxCost = 0
  BY <1>2, Dearest
<1> QED
  BY <1>1, <1>3, LimitsAssumption DEF SpendInv

(* What scheduler.py:101 says of the spend guard, for a job none of whose  *)
(* rows can fail without stopping it: whatever the cap, the costs, the     *)
(* interval and the size of the pool.                                      *)
THEOREM SpendStaysBounded ==
  ASSUME EveryRowChecked, SpendCap # 0, CostsBounded
  PROVE  Spec => []SpendBounded
<1>1. ASSUME TypeInv, SpendInv PROVE SpendBounded
  <2>1. /\ usage \in Nat /\ SpendCap \in Nat /\ MaxCost \in Nat /\ Overrun \in Nat
        /\ SpendEvery + Cardinality(Workers) - 1 \in Nat
        /\ Overrun <= SpendEvery + Cardinality(Workers) - 1
    BY <1>1, Dearest, OverrunBound, LimitsAssumption DEF TypeInv, TypeOK
  <2>2. usage < SpendCap + Overrun * MaxCost
    <3>1. Done % SpendEvery \in Nat /\ Done % SpendEvery <= Overrun
      <4>1. Done \in Nat
        BY <1>1 DEF TypeInv, TypeOK, Done
      <4> QED
        BY <2>1, <4>1, NextMod, OverrunBound, LimitsAssumption
    <3> QED
      BY <1>1, <2>1, <3>1, Within DEF SpendInv
  <2> QED
    BY <2>1, <2>2, Within DEF SpendBounded
<1>2. Init => SpendInv
  BY SpendInit
<1>3. TypeInv /\ SpendInv /\ [Next]_vars => SpendInv'
  BY SpendStep
<1> QED
  BY <1>1, <1>2, <1>3, TypeInvariant, PTL DEF Spec
=============================================================================
