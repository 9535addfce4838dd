-------------------------- MODULE JobRunner_proofs --------------------------
(***************************************************************************)
(* What JobRunner guarantees for every input size, pool size, queue bound  *)
(* and provider: its types; that no row is lost and none answered twice;   *)
(* that a job that reads as finished has a complete result file; that the  *)
(* conservation assertion of run() never fails; and that a stopped job     *)
(* starts no further attempt.                                              *)
(***************************************************************************)
EXTENDS JobRunner, TLAPS, FiniteSetTheorems

-----------------------------------------------------------------------------
(* Types.  TypeOK is not inductive: a result line has a row and at least   *)
(* one attempt, so what a worker holds at each of its suspension points    *)
(* has to be known too.                                                    *)

Attempted == \A w \in Workers :
  pc[w] \in {"acquire", "calling", "paused", "backoff"} => attempt[w] # 0

Holding == \A w \in Workers : item[w] = NoItem <=> pc[w] \in {"idle", "exited"}

TypeInv == TypeOK /\ Attempted /\ Holding

WorkerTypes ==
  /\ pc \in [Workers -> {"idle", "denied", "acquire", "calling", "paused", "backoff",
                         "exited"}]
  /\ item \in [Workers -> Rows \cup {NoItem}]
  /\ attempt \in [Workers -> Nat]
  /\ Attempted /\ Holding

CountTypes ==
  /\ ingested \in 0..NumRows
  /\ succeeded \in Nat /\ failed \in Nat /\ pending \in Int
  /\ errors \in [ErrorClasses -> Nat]

(* Emitting a result appends one line and counts it once.                  *)
LEMMA EmitType ==
  ASSUME TypeOK, NEW r \in Rows, NEW class \in FailureClasses,
         NEW tries \in Nat \ {0}, Emit(r, class, tries)
  PROVE  /\ lines' \in Seq(Line) /\ Len(lines') = Len(lines) + 1
         /\ CountTypes'
         /\ Done' = Done + 1
<1>1. [row |-> r, class |-> class, attempt |-> tries] \in Line
  BY DEF Line
<1>2. lines' \in Seq(Line) /\ Len(lines') = Len(lines) + 1
  BY <1>1 DEF Emit, TypeOK
<1>3. CASE class = "success"
  BY <1>2, <1>3 DEF Emit, TypeOK, CountTypes, Done
<1>4. CASE class # "success"
  <2>1. class \in ErrorClasses
    BY <1>4 DEF ErrorClasses
  <2>2. errors' \in [ErrorClasses -> Nat]
    <3>1. errors \in [ErrorClasses -> Nat]
      BY DEF TypeOK
    <3>2. errors' = [errors EXCEPT ![class] = errors[class] + 1]
      BY <1>4 DEF Emit
    <3> QED
      BY <2>1, <3>1, <3>2
  <2>3. /\ failed \in Nat /\ succeeded \in Nat /\ pending \in Int
        /\ ingested \in 0..NumRows
    BY DEF TypeOK
  <2>4. /\ failed' = failed + 1 /\ succeeded' = succeeded
        /\ pending' = pending - 1 /\ ingested' = ingested
    BY <1>4 DEF Emit
  <2> QED
    BY <1>2, <2>2, <2>3, <2>4 DEF CountTypes, Done
<1> QED
  BY <1>3, <1>4

LEMMA ReleaseType ==
  ASSUME TypeInv, NEW w \in Workers, Release(w) PROVE WorkerTypes'
BY DEF TypeInv, TypeOK, Attempted, Holding, Release, WorkerTypes, Rows, NoItem

(* A worker at the top of the loop has a row of the file.                  *)
LEMMA TopRow ==
  ASSUME TypeInv, NEW w \in Workers, AtTop(w)
  PROVE  /\ RowAt(w) \in Rows
         /\ Dequeue(w) => queue' \in Seq(Rows \cup {SHUTDOWN})
         /\ Tries(w) \in Nat \ {0}
<1>1. CASE pc[w] = "idle"
  <2>1. queue \in Seq(Rows \cup {SHUTDOWN}) /\ attempt[w] \in Nat
    BY DEF TypeInv, TypeOK
  <2>2. queue # <<>> /\ Head(queue) \in Rows
    BY <1>1 DEF AtTop
  <2>3. Tail(queue) \in Seq(Rows \cup {SHUTDOWN})
    BY <2>1, <2>2
  <2> QED
    BY <1>1, <2>1, <2>2, <2>3 DEF RowAt, Dequeue, Tries
<1>2. CASE pc[w] \in {"denied", "backoff"}
  BY <1>2 DEF TypeInv, TypeOK, Holding, AtTop, RowAt, Dequeue, Tries
<1> QED
  BY <1>1, <1>2 DEF AtTop

(* What settles a row keeps the types, whatever the outcome was.           *)
LEMMA SettleType ==
  ASSUME TypeInv, NEW w \in Workers, pc[w] \in {"calling", "paused"},
         NEW o \in Outcomes, ~IsFatal(o), o # "200", Settle(w, o)
  PROVE  /\ WorkerTypes' /\ CountTypes' /\ used' \in Nat
         /\ lines' \in Seq(Line) /\ Len(lines) <= Len(lines')
<1>1. item[w] \in Rows /\ attempt[w] \in Nat \ {0}
  BY DEF TypeInv, TypeOK, Attempted, Holding
<1>2. ExhaustedClass(o) \in FailureClasses
  BY DEF ExhaustedClass, ClassOf, FailureClasses, Outcomes
<1>3. ASSUME NEW class \in FailureClasses, Resolve(w, class), UNCHANGED used
      PROVE  /\ WorkerTypes' /\ CountTypes' /\ used' \in Nat
             /\ lines' \in Seq(Line) /\ Len(lines) <= Len(lines')
  <2>1. Emit(item[w], class, attempt[w]) /\ Release(w)
    BY <1>3 DEF Resolve
  <2>2. Len(lines) \in Nat
    BY DEF TypeInv, TypeOK
  <2> QED
    BY <1>1, <1>3, <2>1, <2>2, EmitType, ReleaseType DEF TypeInv, TypeOK
<1>4. ASSUME used' = used + 1, pc' = [pc EXCEPT ![w] = "backoff"],
             UNCHANGED <<item, attempt, lines, countVars>>
      PROVE  /\ WorkerTypes' /\ CountTypes' /\ used' \in Nat
             /\ lines' \in Seq(Line) /\ Len(lines) <= Len(lines')
  BY <1>1, <1>4
     DEF TypeInv, TypeOK, Attempted, Holding, WorkerTypes, CountTypes, countVars
<1>5. "transient_exhausted" \in FailureClasses
  BY DEF FailureClasses
<1> QED
  BY <1>2, <1>3, <1>4, <1>5 DEF Settle

LEMMA GateType ==
  ASSUME Gate!TypeOK
  PROVE  /\ Gate!Admit => Gate!TypeOK'
         /\ Gate!Deny => Gate!TypeOK'
         /\ \A f \in BOOLEAN : Gate!Record(f) => Gate!TypeOK'
         /\ UNCHANGED breakerVars => Gate!TypeOK'
BY DEF Gate!TypeOK, Gate!Admit, Gate!Deny, Gate!Record, breakerVars

LEMMA FinalType == FinalStatus \in Terminal
BY DEF FinalStatus, Terminal

(* The steps of run(), the sink's writer and the caller who cancels.       *)
LEMMA RunType ==
  ASSUME TypeInv, RunStep \/ IngestFail \/ Cancel \/ Write \/ SinkFail PROVE TypeInv'
<1> USE DEF TypeInv
<1>0. /\ UNCHANGED workerVars => WorkerTypes'
      /\ UNCHANGED breakerVars => Gate!TypeOK'
      /\ \A n : AfterCap(n) \in {"shutdown", "ingest"}
      /\ \A n : AfterPut(n) \in {"persist", "shutdown", "ingest"}
  BY GateType DEF TypeOK, WorkerTypes, Attempted, Holding, workerVars,
                  AfterCap, AfterPut
<1>1. CASE Start
  BY <1>0, <1>1 DEF Start, TypeOK, WorkerTypes, Statuses, countVars, abortVars
<1>2. CASE Started
  BY <1>0, <1>2 DEF Started, TypeOK, WorkerTypes, countVars, abortVars
<1>3. CASE Yield
  <2>1. /\ ingested' \in 0..NumRows /\ ingested + 1 \in Rows
        /\ pending' \in Int
    BY <1>3, RowsAssumption DEF Yield, TypeOK, Rows
  <2>2. queue' \in Seq(Rows \cup {SHUTDOWN})
    <3>1. queue' \in {queue, Append(queue, ingested + 1)}
      BY <1>3 DEF Yield
    <3>2. queue \in Seq(Rows \cup {SHUTDOWN})
      BY DEF TypeOK
    <3> QED
      BY <2>1, <3>1, <3>2
  <2>3. sched' \in {"persist", "shutdown", "ingest", "putting"}
    BY <1>0, <1>3 DEF Yield
  <2> QED
    BY <1>0, <1>3, <2>1, <2>2, <2>3 DEF Yield, TypeOK, WorkerTypes, abortVars
<1>4. CASE Put
  <2>1. ingested # 0 => ingested \in Rows
    BY DEF TypeOK, Rows
  <2>2. queue' \in Seq(Rows \cup {SHUTDOWN})
    BY <1>4, <2>1 DEF Put, TypeOK, SHUTDOWN
  <2> QED
    BY <1>0, <1>4, <2>2 DEF Put, TypeOK, WorkerTypes, countVars, abortVars
<1>5. CASE Persist
  BY <1>0, <1>5 DEF Persist, TypeOK, WorkerTypes, countVars, abortVars
<1>6. CASE StopIngest
  BY <1>0, <1>6 DEF StopIngest, TypeOK, WorkerTypes, countVars, abortVars
<1>7. CASE IngestFail
  BY <1>0, <1>7 DEF IngestFail, TypeOK, WorkerTypes, countVars, abortVars
<1>8. CASE PutShutdown
  <2>1. queue' \in Seq(Rows \cup {SHUTDOWN})
    BY <1>8 DEF PutShutdown, TypeOK
  <2> QED
    BY <1>0, <1>8, <2>1 DEF PutShutdown, TypeOK, WorkerTypes, countVars, abortVars
<1>9. CASE Gather
  BY <1>0, <1>9 DEF Gather, TypeOK, WorkerTypes, countVars, abortVars
<1>10. CASE Finish
  BY <1>0, <1>10, FinalType
     DEF Finish, TypeOK, WorkerTypes, Statuses, countVars, abortVars
<1>11. CASE Save
  BY <1>0, <1>11 DEF Save, TypeOK, WorkerTypes, countVars, abortVars
<1>12. CASE Cancel
  BY <1>0, <1>12 DEF Cancel, TypeOK, WorkerTypes, schedVars, countVars, abortVars
<1>13. CASE Write
  <2>1. written' \in 0..Len(lines')
    BY <1>13 DEF Write, TypeOK
  <2> QED
    BY <1>0, <1>13, <2>1 DEF Write, TypeOK, WorkerTypes, schedVars, countVars, abortVars
<1>14. CASE SinkFail
  BY <1>0, <1>14 DEF SinkFail, TypeOK, WorkerTypes, schedVars, countVars, abortVars
<1> QED
  BY <1>1, <1>2, <1>3, <1>4, <1>5, <1>6, <1>7, <1>8, <1>9, <1>10, <1>11, <1>12,
     <1>13, <1>14 DEF RunStep

(* The steps of a worker.                                                  *)
LEMMA WorkerType ==
  ASSUME TypeInv, NEW w \in Workers, WorkerStep(w) PROVE TypeInv'
<1>0. /\ Len(lines) \in Nat
      /\ \A m \in Nat : Len(lines) <= m => written \in 0..m
      /\ Gate!TypeOK
      /\ UNCHANGED breakerVars => Gate!TypeOK'
  BY GateType DEF TypeInv, TypeOK
(* a row at the top of the loop is answered without a call                 *)
<1>1. ASSUME NEW class \in FailureClasses, AtTop(w), Dequeue(w),
             Emit(RowAt(w), class, Tries(w)), Release(w),
             UNCHANGED <<schedVars, inFlight, usage, cancel, abortVars, used,
                         breakerVars, written, sinkFailed>>
      PROVE  TypeInv'
  <2>1. /\ RowAt(w) \in Rows /\ Tries(w) \in Nat \ {0}
        /\ queue' \in Seq(Rows \cup {SHUTDOWN})
    BY <1>1, TopRow
  <2>2. lines' \in Seq(Line) /\ Len(lines') = Len(lines) + 1 /\ CountTypes'
    BY <1>1, <2>1, EmitType DEF TypeInv
  <2>3. WorkerTypes'
    BY <1>1, ReleaseType
  <2> QED
    BY <1>0, <1>1, <2>1, <2>2, <2>3
       DEF TypeInv, TypeOK, CountTypes, WorkerTypes, schedVars, abortVars
<1>2. CASE Cancelled(w)
  BY <1>1, <1>2 DEF Cancelled, FailureClasses
<1>3. CASE Aborted(w)
  <2>1. DrainClass \in FailureClasses
    BY DEF DrainClass, TypeInv, TypeOK, FailureClasses
  <2> QED
    BY <1>1, <1>3, <2>1 DEF Aborted
<1>4. CASE Denied(w)
  <2>1. RowAt(w) \in Rows /\ queue' \in Seq(Rows \cup {SHUTDOWN})
    BY <1>4, TopRow DEF Denied
  <2>2. WorkerTypes'
    BY <1>4, <2>1 DEF Denied, WorkerTypes, TypeInv, TypeOK, Attempted, Holding, Rows, NoItem
  <2>3. Gate!TypeOK'
    BY <1>0, <1>4, GateType DEF Denied
  <2> QED
    BY <1>4, <2>1, <2>2, <2>3
       DEF Denied, TypeInv, TypeOK, WorkerTypes, schedVars, countVars, abortVars
<1>5. CASE Admitted(w)
  <2>1. RowAt(w) \in Rows /\ queue' \in Seq(Rows \cup {SHUTDOWN})
    BY <1>5, TopRow DEF Admitted
  <2>2. WorkerTypes'
    BY <1>5, <2>1 DEF Admitted, WorkerTypes, TypeInv, TypeOK, Attempted, Holding, Rows, NoItem
  <2>3. Gate!TypeOK'
    BY <1>0, <1>5, GateType DEF Admitted
  <2> QED
    BY <1>5, <2>1, <2>2, <2>3
       DEF Admitted, TypeInv, TypeOK, WorkerTypes, schedVars, countVars, abortVars
<1>6. CASE Dispatch(w)
  <2>1. WorkerTypes'
    BY <1>6 DEF Dispatch, WorkerTypes, TypeInv, TypeOK, Attempted, Holding
  <2> QED
    BY <1>0, <1>6, <2>1
       DEF Dispatch, TypeInv, TypeOK, WorkerTypes, schedVars, countVars, abortVars
(* a call comes back: the breaker records it, the row is answered          *)
<1>7. ASSUME NEW class \in FailureClasses, NEW f \in BOOLEAN, pc[w] = "calling",
             Resolve(w, class), Gate!Record(f)
      PROVE  /\ WorkerTypes' /\ CountTypes' /\ Gate!TypeOK'
             /\ lines' \in Seq(Line) /\ Len(lines') = Len(lines) + 1
  <2>1. item[w] \in Rows /\ attempt[w] \in Nat \ {0}
    BY <1>7 DEF TypeInv, TypeOK, Attempted, Holding
  <2>2. Emit(item[w], class, attempt[w]) /\ Release(w)
    BY <1>7 DEF Resolve
  <2>3. Gate!TypeOK'
    BY <1>0, <1>7, GateType
  <2> QED
    BY <2>1, <2>2, <2>3, EmitType, ReleaseType DEF TypeInv
<1>8. CASE Succeed(w)
  <2>1. /\ WorkerTypes' /\ CountTypes' /\ Gate!TypeOK'
        /\ lines' \in Seq(Line) /\ Len(lines') = Len(lines) + 1
    BY <1>7, <1>8 DEF Succeed, FailureClasses
  <2>2. usage' \in Nat
    BY <1>8, LimitsAssumption DEF Succeed, TypeInv, TypeOK
  <2>3. abort' \in BOOLEAN
    BY <1>8 DEF Succeed, OverCap
  <2>4. abortReason' \in {"none", "spend", "fatal_auth", "fatal_billing"}
    <3>1. abortReason' \in {"spend", abortReason}
      BY <1>8 DEF Succeed
    <3> QED
      BY <3>1 DEF TypeInv, TypeOK
  <2>5. /\ inFlight' = inFlight - 1
        /\ UNCHANGED <<schedVars, queue, cancel, abortClass, used, written,
                      sinkFailed>>
    BY <1>8 DEF Succeed
  <2> QED
    BY <1>0, <2>1, <2>2, <2>3, <2>4, <2>5
       DEF TypeInv, TypeOK, CountTypes, WorkerTypes, schedVars
<1>9. ASSUME NEW o \in Outcomes, Fatal(w, o) PROVE TypeInv'
  <2>1. ClassOf(o) \in {"fatal_auth", "fatal_billing"}
    BY <1>9 DEF Fatal, IsFatal
  <2>2. /\ WorkerTypes' /\ CountTypes' /\ Gate!TypeOK'
        /\ lines' \in Seq(Line) /\ Len(lines') = Len(lines) + 1
    BY <1>7, <1>9, <2>1 DEF Fatal, FailureClasses
  <2> QED
    BY <1>0, <1>9, <2>1, <2>2
       DEF Fatal, TypeInv, TypeOK, CountTypes, WorkerTypes, schedVars
<1>10. CASE Pause(w)
  <2>1. WorkerTypes'
    BY <1>10 DEF Pause, WorkerTypes, TypeInv, TypeOK, Attempted, Holding
  <2>2. Gate!TypeOK'
    BY <1>0, <1>10, GateType DEF Pause
  <2> QED
    BY <1>10, <2>1, <2>2
       DEF Pause, TypeInv, TypeOK, WorkerTypes, schedVars, countVars, abortVars
<1>11. CASE Resume(w)
  <2>1. /\ WorkerTypes' /\ CountTypes' /\ used' \in Nat
        /\ lines' \in Seq(Line) /\ Len(lines) <= Len(lines')
    BY <1>11, SettleType DEF Resume, Outcomes, IsFatal, ClassOf
  <2>2. Len(lines') \in Nat
    BY <2>1
  <2> QED
    BY <1>0, <1>11, <2>1, <2>2
       DEF Resume, TypeInv, TypeOK, CountTypes, WorkerTypes, schedVars, abortVars
<1>12. ASSUME NEW o \in Outcomes, Reject(w, o) PROVE TypeInv'
  <2>1. /\ WorkerTypes' /\ CountTypes' /\ used' \in Nat
        /\ lines' \in Seq(Line) /\ Len(lines) <= Len(lines')
    BY <1>12, SettleType DEF Reject
  <2>2. Gate!TypeOK'
    <3>1. BreakerFailure(o) \in BOOLEAN
      BY DEF BreakerFailure
    <3> QED
      BY <1>0, <1>12, <3>1, GateType DEF Reject
  <2>3. Len(lines') \in Nat
    BY <2>1
  <2> QED
    BY <1>0, <1>12, <2>1, <2>2, <2>3
       DEF Reject, TypeInv, TypeOK, CountTypes, WorkerTypes, schedVars, abortVars
<1>13. CASE TakeInvalid(w)
  <2>1. Head(queue) \in Rows /\ queue # <<>>
    BY <1>13, RowsAssumption DEF TakeInvalid, Rows
  <2>2. queue' \in Seq(Rows \cup {SHUTDOWN})
    BY <1>13, <2>1 DEF TakeInvalid, TypeInv, TypeOK
  <2>3. lines' \in Seq(Line) /\ Len(lines') = Len(lines) + 1 /\ CountTypes'
    BY <1>13, <2>1, EmitType DEF TakeInvalid, FailureClasses, TypeInv
  <2>4. WorkerTypes'
    BY <1>13 DEF TakeInvalid, TypeInv, TypeOK, WorkerTypes, Attempted, Holding, workerVars
  <2> QED
    BY <1>0, <1>13, <2>2, <2>3, <2>4
       DEF TakeInvalid, TypeInv, TypeOK, CountTypes, WorkerTypes, schedVars, abortVars
<1>14. CASE TakeShutdown(w)
  <2>1. queue' \in Seq(Rows \cup {SHUTDOWN})
    BY <1>14 DEF TakeShutdown, TypeInv, TypeOK
  <2>2. WorkerTypes'
    BY <1>14 DEF TakeShutdown, TypeInv, TypeOK, WorkerTypes, Attempted, Holding
  <2> QED
    BY <1>0, <1>14, <2>1, <2>2
       DEF TakeShutdown, TypeInv, TypeOK, WorkerTypes, schedVars, countVars, abortVars
<1> QED
  BY <1>2, <1>3, <1>4, <1>5, <1>6, <1>8, <1>9, <1>10, <1>11, <1>12, <1>13, <1>14,
     ResponsesAssumption DEF WorkerStep

LEMMA TypeStep == TypeInv /\ [Next]_vars => TypeInv'
<1> SUFFICES ASSUME TypeInv, [Next]_vars PROVE TypeInv'
  OBVIOUS
<1>1. CASE UNCHANGED vars
  BY <1>1, GateType
     DEF TypeInv, TypeOK, Attempted, Holding, vars, schedVars, countVars, workerVars,
         abortVars
<1>2. CASE Next
  BY <1>1, <1>2, RunType, WorkerType DEF Next, Terminated
<1> QED
  BY <1>1, <1>2

LEMMA TypeInit == Init => TypeInv
<1> SUFFICES ASSUME Init PROVE TypeInv
  OBVIOUS
<1>1. queue \in Seq(Rows \cup {SHUTDOWN}) /\ lines \in Seq(Line)
  BY DEF Init
<1>2. written \in 0..Len(lines)
  BY DEF Init
<1>3. Gate!TypeOK
  BY DEF Init, Gate!Init, Gate!TypeOK
<1>4. ingested \in 0..NumRows
  BY RowsAssumption DEF Init
<1>5. WorkerTypes
  BY DEF Init, WorkerTypes, Attempted, Holding, NoItem
<1>6. errors \in [ErrorClasses -> Nat]
  BY DEF Init
<1>7. /\ succeeded \in Nat /\ failed \in Nat /\ pending \in Int /\ inFlight \in Int
      /\ usage \in Nat /\ used \in Nat /\ sentinels \in Nat
  BY DEF Init
<1>8. /\ sched = "queued" /\ status \in Statuses /\ stored \in Statuses
      /\ abortReason = "none" /\ abortClass = "none"
  BY DEF Init, Statuses
<1>9. /\ ingestError \in BOOLEAN /\ cancel \in BOOLEAN /\ abort \in BOOLEAN
      /\ sinkFailed \in BOOLEAN
  BY DEF Init
<1>10. TypeOK
  BY <1>1, <1>2, <1>3, <1>4, <1>5, <1>6, <1>7, <1>8, <1>9 DEF TypeOK, WorkerTypes
<1> QED
  BY <1>5, <1>10 DEF TypeInv, WorkerTypes

LEMMA TypeInvariant == Spec => []TypeInv
BY TypeInit, TypeStep, PTL DEF Spec

(* Every reachable state is well typed.                                    *)
THEOREM TypeCorrect == Spec => []TypeOK
BY TypeInvariant, PTL DEF TypeInv

-----------------------------------------------------------------------------
(* The ways a row moves: what each does to RowsPlacedOnce.                 *)

PlaceTypes == /\ queue \in Seq(Rows \cup {SHUTDOWN}) /\ lines \in Seq(Line)
              /\ item \in [Workers -> Rows \cup {NoItem}]
              /\ LastPut \in Int

LEMMA PlacesTyped == TypeInv => PlaceTypes
BY RowsAssumption DEF TypeInv, TypeOK, PlaceTypes, LastPut

LEMMA LineRows ==
  ASSUME PlaceTypes PROVE \A k \in 1..Len(lines) : lines[k].row \in Rows
<1>1. ASSUME NEW k \in 1..Len(lines) PROVE lines[k].row \in Rows
  <2>1. lines[k] \in Line
    BY DEF PlaceTypes
  <2> QED
    BY <2>1 DEF Line
<1> QED
  BY <1>1

LEMMA StayPut ==
  ASSUME RowsPlacedOnce, UNCHANGED <<queue, item, lines>>, LastPut' = LastPut
  PROVE  RowsPlacedOnce'
BY DEF RowsPlacedOnce, QueueInOrder, HeldBeforeQueue, LinesBeforeQueue, HeldOnce,
       AnsweredOnce, AllPlaced, InLines, InQueue, Held

(* run() puts the next row of the file                                     *)
LEMMA RowPut ==
  ASSUME RowsPlacedOnce, PlaceTypes, UNCHANGED <<item, lines>>,
         \A i \in 1..Len(queue) : queue[i] # SHUTDOWN,
         LastPut + 1 \in Rows,
         queue' = Append(queue, LastPut + 1), LastPut' = LastPut + 1
  PROVE  RowsPlacedOnce'
<1>1. /\ Len(queue) \in Nat /\ Len(queue') = Len(queue) + 1
      /\ \A i \in 1..Len(queue) : queue'[i] = queue[i] /\ queue[i] \in Nat
      /\ queue'[Len(queue) + 1] = LastPut + 1
  BY DEF PlaceTypes, Rows, SHUTDOWN
<1>2. \A w \in Workers : item[w] \in Nat
  BY DEF PlaceTypes, Rows, NoItem
<1>3. \A k \in 1..Len(lines) : lines[k].row \in Nat
  BY LineRows DEF Rows
<1>4. LastPut \in Int
  BY DEF PlaceTypes
<1>5. QueueInOrder'
  BY <1>1, <1>4 DEF RowsPlacedOnce, QueueInOrder
<1>6. HeldBeforeQueue'
  BY <1>1, <1>2, <1>4 DEF RowsPlacedOnce, HeldBeforeQueue
<1>7. LinesBeforeQueue'
  BY <1>1, <1>3, <1>4 DEF RowsPlacedOnce, LinesBeforeQueue
<1>8. AllPlaced'
  <2> SUFFICES ASSUME NEW r \in 1..LastPut' PROVE (InLines(r) \/ InQueue(r) \/ Held(r))'
    BY DEF AllPlaced
  <2>1. CASE r = LastPut + 1
    BY <1>1, <2>1 DEF InQueue
  <2>2. CASE r \in 1..LastPut
    <3>1. InLines(r) \/ InQueue(r) \/ Held(r)
      BY <2>2 DEF RowsPlacedOnce, AllPlaced
    <3>2. InQueue(r) => InQueue(r)'
      BY <1>1 DEF InQueue
    <3> QED
      BY <3>1, <3>2 DEF InLines, Held
  <2> QED
    BY <1>4, <2>1, <2>2
<1> QED
  BY <1>5, <1>6, <1>7, <1>8 DEF RowsPlacedOnce, HeldOnce, AnsweredOnce

(* a sentinel is put                                                       *)
LEMMA SentinelPut ==
  ASSUME RowsPlacedOnce, PlaceTypes, UNCHANGED <<item, lines>>,
         queue' = Append(queue, SHUTDOWN), LastPut' = LastPut, SHUTDOWN <= LastPut
  PROVE  RowsPlacedOnce'
<1>1. /\ Len(queue) \in Nat /\ Len(queue') = Len(queue) + 1
      /\ \A i \in 1..Len(queue) : queue'[i] = queue[i]
      /\ queue'[Len(queue) + 1] = SHUTDOWN
  BY DEF PlaceTypes
<1>2. QueueInOrder'
  BY <1>1 DEF RowsPlacedOnce, QueueInOrder
<1>3. HeldBeforeQueue' /\ LinesBeforeQueue'
  BY <1>1 DEF RowsPlacedOnce, HeldBeforeQueue, LinesBeforeQueue
<1>4. \A r : InQueue(r) => InQueue(r)'
  BY <1>1 DEF InQueue
<1>5. AllPlaced'
  BY <1>4 DEF RowsPlacedOnce, AllPlaced, InLines, Held
<1> QED
  BY <1>2, <1>3, <1>5 DEF RowsPlacedOnce, HeldOnce, AnsweredOnce

(* What is left of the queue after its head is taken.                      *)
LEMMA TailQueue ==
  ASSUME PlaceTypes, queue # <<>>, queue' = Tail(queue)
  PROVE  /\ Len(queue) \in Nat \ {0} /\ Len(queue') = Len(queue) - 1
         /\ \A i \in 1..Len(queue') : queue'[i] = queue[i + 1]
         /\ Head(queue) = queue[1]
         /\ \A i \in 1..Len(queue) : queue[i] \in Nat
BY DEF PlaceTypes, Rows, SHUTDOWN

LEMMA TailOrdered ==
  ASSUME PlaceTypes, RowsPlacedOnce, queue # <<>>, queue' = Tail(queue), LastPut' = LastPut
  PROVE  /\ QueueInOrder'
         /\ Head(queue) <= LastPut
         /\ Head(queue) # SHUTDOWN =>
              \A i \in 1..Len(queue') : queue'[i] # SHUTDOWN => Head(queue) < queue'[i]
         /\ \A r : InQueue(r) => r = Head(queue) \/ InQueue(r)'
<1>1. QueueInOrder'
  BY TailQueue DEF RowsPlacedOnce, QueueInOrder
<1>2. /\ Head(queue) <= LastPut
      /\ Head(queue) # SHUTDOWN =>
           \A i \in 1..Len(queue') : queue'[i] # SHUTDOWN => Head(queue) < queue'[i]
  BY TailQueue DEF RowsPlacedOnce, QueueInOrder
<1>3. ASSUME NEW r, InQueue(r) PROVE r = Head(queue) \/ InQueue(r)'
  <2>1. PICK i \in 1..Len(queue) : queue[i] = r
    BY <1>3 DEF InQueue
  <2>2. CASE i = 1
    BY <2>1, <2>2, TailQueue
  <2>3. CASE i # 1
    <3>1. i - 1 \in 1..Len(queue') /\ queue'[i - 1] = r
      BY <2>1, <2>3, TailQueue
    <3> QED
      BY <3>1 DEF InQueue
  <2> QED
    BY <2>2, <2>3
<1> QED
  BY <1>1, <1>2, <1>3

(* a worker takes the sentinel                                             *)
LEMMA SentinelTaken ==
  ASSUME RowsPlacedOnce, PlaceTypes, UNCHANGED <<item, lines>>, LastPut' = LastPut,
         queue # <<>>, Head(queue) = SHUTDOWN, queue' = Tail(queue)
  PROVE  RowsPlacedOnce'
<1>1. HeldBeforeQueue' /\ LinesBeforeQueue'
  BY TailQueue DEF RowsPlacedOnce, HeldBeforeQueue, LinesBeforeQueue
<1>2. AllPlaced'
  BY TailOrdered DEF RowsPlacedOnce, AllPlaced, InLines, Held, SHUTDOWN
<1> QED
  BY <1>1, <1>2, TailOrdered DEF RowsPlacedOnce, HeldOnce, AnsweredOnce

(* a free worker takes the row at the head of the queue                    *)
LEMMA RowTaken ==
  ASSUME RowsPlacedOnce, PlaceTypes, UNCHANGED lines, LastPut' = LastPut,
         queue # <<>>, Head(queue) \in Rows, queue' = Tail(queue),
         NEW w \in Workers, item[w] = NoItem,
         item' = [item EXCEPT ![w] = Head(queue)]
  PROVE  RowsPlacedOnce'
<1>0. Head(queue) # SHUTDOWN /\ Head(queue) # NoItem
  BY DEF Rows, SHUTDOWN, NoItem
<1>1. /\ item'[w] = Head(queue)
      /\ \A v \in Workers : v # w => item'[v] = item[v]
  BY DEF PlaceTypes
<1>2. /\ \A v \in Workers : item[v] < Head(queue)
      /\ \A k \in 1..Len(lines) : lines[k].row < Head(queue)
  BY <1>0, TailQueue DEF RowsPlacedOnce, HeldBeforeQueue, LinesBeforeQueue
<1>3. HeldBeforeQueue'
  BY <1>0, <1>1, TailQueue, TailOrdered DEF RowsPlacedOnce, HeldBeforeQueue
<1>4. LinesBeforeQueue'
  BY TailQueue DEF RowsPlacedOnce, LinesBeforeQueue
<1>5. HeldOnce'
  <2>1. Head(queue) \in Nat /\ \A v \in Workers : item[v] \in Nat
    BY DEF PlaceTypes, Rows, NoItem
  <2>2. \A k \in 1..Len(lines) : lines[k].row \in Nat
    BY LineRows DEF Rows
  <2>3. \A v \in Workers : item[v] # Head(queue)
    BY <1>2, <2>1
  <2>4. \A k \in 1..Len(lines) : lines[k].row # Head(queue)
    BY <1>2, <2>1, <2>2
  <2> QED
    BY <1>0, <1>1, <2>3, <2>4 DEF RowsPlacedOnce, HeldOnce
<1>6. AllPlaced'
  <2> SUFFICES ASSUME NEW r \in 1..LastPut PROVE (InLines(r) \/ InQueue(r) \/ Held(r))'
    BY DEF AllPlaced
  <2>1. InLines(r) \/ InQueue(r) \/ Held(r)
    BY DEF RowsPlacedOnce, AllPlaced
  <2>2. Held(r) => Held(r)'
    <3>1. r # NoItem
      BY DEF NoItem
    <3> QED
      BY <1>1, <3>1 DEF Held
  <2>3. r = Head(queue) => Held(r)'
    BY <1>1 DEF Held
  <2> QED
    BY <2>1, <2>2, <2>3, TailOrdered DEF InLines
<1> QED
  BY <1>3, <1>4, <1>5, <1>6, TailOrdered DEF RowsPlacedOnce, AnsweredOnce

(* What appending the line of row r does to the lines.                     *)
LEMMA LinesGrow ==
  ASSUME PlaceTypes, NEW r, NEW class, NEW tries,
         lines' = Append(lines, [row |-> r, class |-> class, attempt |-> tries])
  PROVE  /\ Len(lines) \in Nat /\ Len(lines') = Len(lines) + 1
         /\ \A k \in 1..Len(lines) : lines'[k] = lines[k]
         /\ lines'[Len(lines) + 1].row = r
         /\ \A q : InLines(q) => InLines(q)'
         /\ InLines(r)'
<1>1. /\ Len(lines) \in Nat /\ Len(lines') = Len(lines) + 1
      /\ \A k \in 1..Len(lines) : lines'[k] = lines[k]
      /\ lines'[Len(lines) + 1] = [row |-> r, class |-> class, attempt |-> tries]
  BY DEF PlaceTypes
<1>2. lines'[Len(lines) + 1].row = r
  BY <1>1
<1> QED
  BY <1>1, <1>2 DEF InLines

(* the worker that holds a row answers it                                  *)
LEMMA RowAnswered ==
  ASSUME RowsPlacedOnce, PlaceTypes, UNCHANGED queue, LastPut' = LastPut,
         NEW w \in Workers, item[w] \in Rows, NEW class, NEW tries,
         lines' = Append(lines, [row |-> item[w], class |-> class, attempt |-> tries]),
         item' = [item EXCEPT ![w] = NoItem]
  PROVE  RowsPlacedOnce'
<1>0. item[w] # NoItem /\ \A r \in Rows : r # NoItem
  BY DEF Rows, NoItem
<1>1. /\ item'[w] = NoItem
      /\ \A v \in Workers : v # w => item'[v] = item[v]
  BY DEF PlaceTypes
<1>2. HeldBeforeQueue'
  <2>1. \A i \in 1..Len(queue) : queue[i] # SHUTDOWN => NoItem < queue[i]
    BY DEF PlaceTypes, Rows, SHUTDOWN, NoItem
  <2>2. NoItem <= LastPut
    BY DEF RowsPlacedOnce, HeldBeforeQueue, PlaceTypes, Rows, NoItem
  <2> QED
    BY <1>1, <2>1, <2>2 DEF RowsPlacedOnce, HeldBeforeQueue
<1>3. LinesBeforeQueue'
  BY LinesGrow DEF RowsPlacedOnce, HeldBeforeQueue, LinesBeforeQueue
<1>4. HeldOnce'
  BY <1>0, <1>1, LinesGrow, LineRows DEF RowsPlacedOnce, HeldOnce
<1>5. AnsweredOnce'
  BY LinesGrow DEF RowsPlacedOnce, HeldOnce, AnsweredOnce
<1>6. AllPlaced'
  <2> SUFFICES ASSUME NEW r \in 1..LastPut PROVE (InLines(r) \/ InQueue(r) \/ Held(r))'
    BY DEF AllPlaced
  <2>1. InLines(r) \/ InQueue(r) \/ Held(r)
    BY DEF RowsPlacedOnce, AllPlaced
  <2>2. Held(r) => Held(r)' \/ r = item[w]
    BY <1>1 DEF Held
  <2> QED
    BY <2>1, <2>2, LinesGrow DEF InQueue
<1> QED
  BY <1>2, <1>3, <1>4, <1>5, <1>6 DEF RowsPlacedOnce, QueueInOrder

(* a row is answered straight from the head of the queue                   *)
LEMMA RowPassed ==
  ASSUME RowsPlacedOnce, PlaceTypes, UNCHANGED item, LastPut' = LastPut,
         queue # <<>>, Head(queue) \in Rows, queue' = Tail(queue),
         NEW class, NEW tries,
         lines' = Append(lines, [row |-> Head(queue), class |-> class, attempt |-> tries])
  PROVE  RowsPlacedOnce'
<1>0. Head(queue) # SHUTDOWN /\ Head(queue) # NoItem
  BY DEF Rows, SHUTDOWN, NoItem
<1>1. /\ \A v \in Workers : item[v] < Head(queue)
      /\ \A k \in 1..Len(lines) : lines[k].row < Head(queue)
  BY <1>0, TailQueue DEF RowsPlacedOnce, HeldBeforeQueue, LinesBeforeQueue
<1>2. /\ \A v \in Workers : item[v] # Head(queue)
      /\ \A k \in 1..Len(lines) : lines[k].row # Head(queue)
  <2>1. Head(queue) \in Nat /\ \A v \in Workers : item[v] \in Nat
    BY DEF PlaceTypes, Rows, NoItem
  <2>2. \A k \in 1..Len(lines) : lines[k].row \in Nat
    BY LineRows DEF Rows
  <2> QED
    BY <1>1, <2>1, <2>2
<1>3. HeldBeforeQueue'
  BY TailQueue DEF RowsPlacedOnce, HeldBeforeQueue
<1>4. LinesBeforeQueue'
  BY <1>0, LinesGrow, TailQueue, TailOrdered DEF RowsPlacedOnce, LinesBeforeQueue
<1>5. HeldOnce'
  BY <1>2, LinesGrow DEF RowsPlacedOnce, HeldOnce
<1>6. AnsweredOnce'
  BY <1>2, LinesGrow DEF RowsPlacedOnce, AnsweredOnce
<1>7. AllPlaced'
  <2> SUFFICES ASSUME NEW r \in 1..LastPut PROVE (InLines(r) \/ InQueue(r) \/ Held(r))'
    BY DEF AllPlaced
  <2>1. InLines(r) \/ InQueue(r) \/ Held(r)
    BY DEF RowsPlacedOnce, AllPlaced
  <2> QED
    BY <2>1, LinesGrow, TailOrdered DEF Held
<1> QED
  BY <1>3, <1>4, <1>5, <1>6, <1>7, TailOrdered DEF RowsPlacedOnce

-----------------------------------------------------------------------------
(* Which way each step moves a row.                                        *)

IInv == TypeInv /\ RowsPlacedOnce /\ DrainedInTurn

LEMMA AfterPutRest ==
  /\ \A n : AfterPut(n) # "putting"
  /\ \A n : AfterPut(n) \in {"persist", "ingest", "shutdown"}
  /\ \A n : AfterCap(n) \in {"ingest", "shutdown"}
BY DEF AfterPut, AfterCap

LEMMA RunPlaced ==
  ASSUME IInv, RunStep \/ IngestFail \/ Cancel \/ Write \/ SinkFail PROVE RowsPlacedOnce'
<1>0. PlaceTypes /\ RowsPlacedOnce /\ ingested \in Nat
  BY PlacesTyped DEF IInv, TypeInv, TypeOK
<1>1. CASE Yield
  <2>1. LastPut = ingested /\ ingested + 1 \in Rows
    BY <1>1, <1>0, RowsAssumption DEF Yield, LastPut, Rows, IInv, TypeInv, TypeOK
  <2>2. UNCHANGED <<item, lines>>
    BY <1>1 DEF Yield, workerVars
  <2>3. CASE HasRoom
    <3>1. queue' = Append(queue, LastPut + 1) /\ LastPut' = LastPut + 1
      BY <1>1, <2>1, <2>3, AfterPutRest DEF Yield, LastPut
    <3>2. \A i \in 1..Len(queue) : queue[i] # SHUTDOWN
      BY <1>1 DEF Yield, IInv, DrainedInTurn
    <3> QED
      BY <1>0, <2>1, <2>2, <3>1, <3>2, RowPut
  <2>4. CASE ~HasRoom
    <3>1. UNCHANGED queue /\ LastPut' = LastPut
      BY <1>0, <1>1, <2>1, <2>4 DEF Yield, LastPut
    <3> QED
      BY <1>0, <2>2, <3>1, StayPut
  <2> QED
    BY <2>3, <2>4
<1>2. CASE Put
  <2>1. LastPut = ingested - 1 /\ ingested \in Rows
    BY <1>2, RowsAssumption
       DEF Put, LastPut, Rows, IInv, TypeInv, TypeOK, DrainedInTurn
  <2>2. UNCHANGED <<item, lines>>
    BY <1>2 DEF Put, workerVars
  <2>3. queue' = Append(queue, LastPut + 1) /\ LastPut' = LastPut + 1
    BY <1>0, <1>2, <2>1, AfterPutRest DEF Put, LastPut, countVars
  <2>4. \A i \in 1..Len(queue) : queue[i] # SHUTDOWN
    BY <1>2 DEF Put, IInv, DrainedInTurn
  <2>5. LastPut + 1 \in Rows
    BY <1>0, <2>1
  <2> QED
    BY <1>0, <2>2, <2>3, <2>4, <2>5, RowPut
<1>3. CASE PutShutdown
  <2>1. /\ UNCHANGED <<item, lines>> /\ LastPut' = LastPut /\ SHUTDOWN <= LastPut
        /\ queue' = Append(queue, SHUTDOWN)
    BY <1>0, <1>3 DEF PutShutdown, LastPut, workerVars, countVars, SHUTDOWN
  <2> QED
    BY <1>0, <2>1, SentinelPut
<1>4. CASE Start \/ Started \/ Persist \/ StopIngest \/ IngestFail \/ Gather
           \/ Finish \/ Save \/ Cancel \/ Write \/ SinkFail
  <2>1. UNCHANGED <<queue, item, lines>>
    BY <1>4 DEF Start, Started, Persist, StopIngest, IngestFail, Gather, Finish, Save,
                Cancel, Write, SinkFail, workerVars
  <2>2. LastPut' = LastPut
    BY <1>4, AfterPutRest
       DEF Start, Started, Persist, StopIngest, IngestFail, Gather, Finish, Save,
           Cancel, Write, SinkFail, countVars, schedVars, LastPut
  <2> QED
    BY <1>0, <2>1, <2>2, StayPut
<1> QED
  BY <1>1, <1>2, <1>3, <1>4 DEF RunStep

(* A row that is answered at the top of the loop leaves the queue's head   *)
(* or the worker's hand for the lines.                                     *)
LEMMA TopAnswered ==
  ASSUME IInv, NEW w \in Workers, AtTop(w), Dequeue(w), NEW class, NEW tries,
         Emit(RowAt(w), class, tries), Release(w), LastPut' = LastPut
  PROVE  RowsPlacedOnce'
<1>0. PlaceTypes /\ RowsPlacedOnce /\ TypeInv
  BY PlacesTyped DEF IInv
<1>1. CASE pc[w] = "idle"
  <2>1. item[w] = NoItem
    BY <1>0, <1>1 DEF TypeInv, Holding
  <2>2. UNCHANGED item
    BY <1>0, <2>1 DEF Release, PlaceTypes
  <2>3. queue # <<>> /\ Head(queue) \in Rows /\ queue' = Tail(queue)
    BY <1>1 DEF AtTop, Dequeue
  <2>4. lines' = Append(lines, [row |-> Head(queue), class |-> class, attempt |-> tries])
    BY <1>1 DEF Emit, RowAt
  <2> QED
    BY <1>0, <2>2, <2>3, <2>4, RowPassed
<1>2. CASE pc[w] # "idle"
  <2>1. item[w] \in Rows
    BY <1>0, <1>2 DEF AtTop, TypeInv, TypeOK, Holding
  <2>2. UNCHANGED queue /\ item' = [item EXCEPT ![w] = NoItem]
    BY <1>2 DEF Dequeue, Release
  <2>3. lines' = Append(lines, [row |-> item[w], class |-> class, attempt |-> tries])
    BY <1>2 DEF Emit, RowAt
  <2> QED
    BY <1>0, <2>1, <2>2, <2>3, RowAnswered
<1> QED
  BY <1>1, <1>2

(* A worker that goes on with a row takes it from the queue's head, or     *)
(* keeps the one it holds.                                                 *)
LEMMA TopTaken ==
  ASSUME IInv, NEW w \in Workers, AtTop(w), Dequeue(w),
         item' = [item EXCEPT ![w] = RowAt(w)], UNCHANGED lines, LastPut' = LastPut
  PROVE  RowsPlacedOnce'
<1>0. PlaceTypes /\ RowsPlacedOnce /\ TypeInv
  BY PlacesTyped DEF IInv
<1>1. CASE pc[w] = "idle"
  <2>1. item[w] = NoItem
    BY <1>0, <1>1 DEF TypeInv, Holding
  <2>2. /\ queue # <<>> /\ Head(queue) \in Rows /\ queue' = Tail(queue)
        /\ item' = [item EXCEPT ![w] = Head(queue)]
    BY <1>1 DEF AtTop, Dequeue, RowAt
  <2> QED
    BY <1>0, <2>1, <2>2, RowTaken
<1>2. CASE pc[w] # "idle"
  <2>1. UNCHANGED <<queue, item>>
    BY <1>0, <1>2 DEF Dequeue, RowAt, PlaceTypes
  <2> QED
    BY <1>0, <2>1, StayPut
<1> QED
  BY <1>1, <1>2

LEMMA ResolvePlaced ==
  ASSUME IInv, NEW w \in Workers, pc[w] \in {"calling", "paused"},
         NEW class, Resolve(w, class), UNCHANGED queue, LastPut' = LastPut
  PROVE  RowsPlacedOnce'
<1>1. PlaceTypes /\ RowsPlacedOnce
  BY PlacesTyped DEF IInv
<1>2. item[w] \in Rows
  BY DEF IInv, TypeInv, TypeOK, Holding
<1>3. /\ lines' = Append(lines, [row |-> item[w], class |-> class, attempt |-> attempt[w]])
      /\ item' = [item EXCEPT ![w] = NoItem]
  BY DEF Resolve, Emit, Release
<1> QED
  BY <1>1, <1>2, <1>3, RowAnswered

LEMMA SettlePlaced ==
  ASSUME IInv, NEW w \in Workers, pc[w] \in {"calling", "paused"},
         NEW o, Settle(w, o), UNCHANGED queue, LastPut' = LastPut
  PROVE  RowsPlacedOnce'
<1>1. ASSUME NEW class, Resolve(w, class) PROVE RowsPlacedOnce'
  BY <1>1, ResolvePlaced
<1>2. ASSUME UNCHANGED <<item, lines>> PROVE RowsPlacedOnce'
  BY <1>2, StayPut DEF IInv
<1> QED
  BY <1>1, <1>2 DEF Settle

(* No step of a worker changes how far run() has put the rows.             *)
LEMMA WorkerKeepsPut ==
  ASSUME NEW w \in Workers, WorkerStep(w)
  PROVE  UNCHANGED schedVars /\ ingested' = ingested /\ LastPut' = LastPut
<1>1. UNCHANGED schedVars
  BY DEF WorkerStep, Cancelled, Aborted, Denied, Admitted, Dispatch, Succeed, Pause,
         Resume, Fatal, Reject, TakeInvalid, TakeShutdown
<1>2. ingested' = ingested
  BY DEF WorkerStep, Cancelled, Aborted, Denied, Admitted, Dispatch, Succeed, Pause,
         Resume, Fatal, Reject, TakeInvalid, TakeShutdown, Settle, Resolve, Emit, countVars
<1> QED
  BY <1>1, <1>2 DEF schedVars, LastPut

LEMMA WorkerPlaced ==
  ASSUME IInv, NEW w \in Workers, WorkerStep(w) PROVE RowsPlacedOnce'
<1>0. PlaceTypes /\ RowsPlacedOnce /\ LastPut' = LastPut
  BY PlacesTyped, WorkerKeepsPut DEF IInv
<1>1. CASE Cancelled(w) \/ Aborted(w)
  BY <1>0, <1>1, TopAnswered DEF Cancelled, Aborted
<1>2. CASE Denied(w) \/ Admitted(w)
  BY <1>0, <1>2, TopTaken DEF Denied, Admitted
<1>3. CASE Dispatch(w) \/ Pause(w)
  BY <1>0, <1>3, StayPut DEF Dispatch, Pause
<1>4. CASE Succeed(w)
  BY <1>0, <1>4, ResolvePlaced DEF Succeed
<1>5. ASSUME NEW o \in Responses, Fatal(w, o) PROVE RowsPlacedOnce'
  BY <1>0, <1>5, ResolvePlaced DEF Fatal
<1>6. CASE Resume(w)
  BY <1>0, <1>6, SettlePlaced DEF Resume
<1>7. ASSUME NEW o \in Responses, Reject(w, o) PROVE RowsPlacedOnce'
  BY <1>0, <1>7, SettlePlaced DEF Reject
<1>8. CASE TakeInvalid(w)
  <2>1. /\ UNCHANGED item /\ queue # <<>> /\ Head(queue) \in Rows /\ queue' = Tail(queue)
        /\ lines' = Append(lines, [row |-> Head(queue), class |-> "invalid_input",
                                   attempt |-> 1])
    BY <1>8, RowsAssumption DEF TakeInvalid, Emit, workerVars, Rows
  <2> QED
    BY <1>0, <2>1, RowPassed
<1>9. CASE TakeShutdown(w)
  BY <1>0, <1>9, SentinelTaken DEF TakeShutdown
<1> QED
  BY <1>1, <1>2, <1>3, <1>4, <1>5, <1>6, <1>7, <1>8, <1>9 DEF WorkerStep

-----------------------------------------------------------------------------
(* The order in which the job drains.                                      *)

LEMMA SettleCounts ==
  ASSUME TypeInv, Done = Len(lines), NEW w \in Workers,
         pc[w] \in {"calling", "paused"}, NEW o \in Outcomes, Settle(w, o)
  PROVE  Done' = Len(lines')
<1>1. item[w] \in Rows /\ attempt[w] \in Nat \ {0}
  BY DEF TypeInv, TypeOK, Attempted, Holding
<1>2. ASSUME NEW class \in FailureClasses, Resolve(w, class) PROVE Done' = Len(lines')
  BY <1>1, <1>2, EmitType DEF Resolve, TypeInv
<1>3. ASSUME UNCHANGED <<lines, countVars>> PROVE Done' = Len(lines')
  BY <1>3 DEF countVars, Done
<1>4. ExhaustedClass(o) \in FailureClasses /\ "transient_exhausted" \in FailureClasses
  BY DEF ExhaustedClass, ClassOf, FailureClasses, Outcomes
<1> QED
  BY <1>2, <1>3, <1>4 DEF Settle

LEMMA WorkerCounts ==
  ASSUME TypeInv, Done = Len(lines), NEW w \in Workers, WorkerStep(w)
  PROVE  Done' = Len(lines')
<1>1. CASE Cancelled(w) \/ Aborted(w)
  <2>1. RowAt(w) \in Rows /\ Tries(w) \in Nat \ {0}
    BY <1>1, TopRow DEF Cancelled, Aborted
  <2>2. DrainClass \in FailureClasses /\ "cancelled" \in FailureClasses
    BY DEF DrainClass, TypeInv, TypeOK, FailureClasses
  <2> QED
    BY <1>1, <2>1, <2>2, EmitType DEF Cancelled, Aborted, TypeInv
<1>2. CASE Denied(w) \/ Admitted(w) \/ Dispatch(w) \/ Pause(w) \/ TakeShutdown(w)
  BY <1>2 DEF Denied, Admitted, Dispatch, Pause, TakeShutdown, countVars, Done
<1>3. ASSUME pc[w] = "calling", NEW class \in FailureClasses, Resolve(w, class)
      PROVE  Done' = Len(lines')
  <2>1. item[w] \in Rows /\ attempt[w] \in Nat \ {0}
    BY <1>3 DEF TypeInv, TypeOK, Attempted, Holding
  <2> QED
    BY <1>3, <2>1, EmitType DEF Resolve, TypeInv
<1>4. CASE Succeed(w)
  BY <1>3, <1>4 DEF Succeed, FailureClasses
<1>5. ASSUME NEW o \in Responses, Fatal(w, o) PROVE Done' = Len(lines')
  <2>1. ClassOf(o) \in FailureClasses
    BY <1>5 DEF Fatal, IsFatal, FailureClasses
  <2> QED
    BY <1>3, <1>5, <2>1 DEF Fatal
<1>6. CASE Resume(w)
  BY <1>6, SettleCounts DEF Resume, Outcomes
<1>7. ASSUME NEW o \in Responses, Reject(w, o) PROVE Done' = Len(lines')
  BY <1>7, SettleCounts, ResponsesAssumption DEF Reject
<1>8. CASE TakeInvalid(w)
  <2>1. Head(queue) \in Rows
    BY <1>8, RowsAssumption DEF TakeInvalid, Rows
  <2> QED
    BY <1>8, <2>1, EmitType DEF TakeInvalid, FailureClasses, TypeInv
<1> QED
  BY <1>1, <1>2, <1>4, <1>5, <1>6, <1>7, <1>8 DEF WorkerStep

LEMMA WorkerDrains ==
  ASSUME IInv, NEW w \in Workers, WorkerStep(w) PROVE DrainedInTurn'
<1>0. PlaceTypes /\ RowsPlacedOnce /\ TypeInv /\ UNCHANGED schedVars
      /\ pc \in [Workers -> {"idle", "denied", "acquire", "calling", "paused", "backoff",
                             "exited"}]
  BY PlacesTyped, WorkerKeepsPut DEF IInv, TypeInv, TypeOK
<1>1. pc[w] # "exited"
  BY DEF WorkerStep, AtTop, Cancelled, Aborted, Denied, Admitted, Dispatch, Succeed,
         Pause, Resume, Fatal, Reject, TakeInvalid, TakeShutdown
<1>2. /\ sched \notin {"close", "save", "done", "raised"}
      /\ status \notin Terminal /\ stored \notin Terminal
  BY <1>1 DEF IInv, DrainedInTurn
<1>3. queue' = queue \/ (queue # <<>> /\ queue' = Tail(queue))
  BY DEF WorkerStep, AtTop, Dequeue, Cancelled, Aborted, Denied, Admitted, Dispatch,
         Succeed, Pause, Resume, Fatal, Reject, TakeInvalid, TakeShutdown
<1>4. \A i \in 1..Len(queue') : \E j \in 1..Len(queue) : queue'[i] = queue[j]
  BY <1>0, <1>3, TailQueue
<1>5. CASE TakeShutdown(w)
  <2>1. queue # <<>> /\ queue[1] = SHUTDOWN /\ 1 \in 1..Len(queue)
    BY <1>0, <1>5, TailQueue DEF TakeShutdown
  <2>2. \A i \in 1..Len(queue) : queue[i] = SHUTDOWN
    BY <1>0, <2>1 DEF RowsPlacedOnce, QueueInOrder
  <2>3. sched \notin {"queued", "starting", "ingest", "putting", "persist"}
    BY <2>1 DEF IInv, DrainedInTurn
  <2>4. \A i \in 1..Len(queue') : queue'[i] = SHUTDOWN
    BY <1>4, <2>2
  <2>5. Done' = Len(lines')
    BY <1>0, WorkerCounts DEF IInv, DrainedInTurn
  <2> QED
    BY <1>0, <1>2, <2>3, <2>4, <2>5 DEF DrainedInTurn, schedVars
<1>6. CASE ~TakeShutdown(w)
  <2>1. \A v \in Workers : pc'[v] = "exited" => pc[v] = "exited"
    BY <1>0, <1>6
       DEF WorkerStep, Cancelled, Aborted, Denied, Admitted, Dispatch, Succeed, Pause,
           Resume, Fatal, Reject, TakeInvalid, Settle, Resolve, Release, workerVars
  <2>2. Done' = Len(lines')
    BY <1>0, WorkerCounts DEF IInv, DrainedInTurn
  <2>3. ingested' = ingested
    BY WorkerKeepsPut
  <2> QED
    BY <1>0, <1>2, <1>4, <2>1, <2>2, <2>3 DEF IInv, DrainedInTurn, schedVars
<1> QED
  BY <1>5, <1>6

LEMMA RunDrains ==
  ASSUME IInv, RunStep \/ IngestFail \/ Cancel \/ Write \/ SinkFail PROVE DrainedInTurn'
<1>0. DrainedInTurn /\ TypeOK
  BY DEF IInv, TypeInv
<1> USE DEF DrainedInTurn
<1>1. CASE Start
  BY <1>0, <1>1 DEF Start, workerVars, countVars, Terminal, Done
<1>2. CASE Started
  BY <1>0, <1>2 DEF Started, workerVars, countVars, Terminal, Done
<1>3. CASE Yield
  <2>1. CASE HasRoom
    <3>1. \A i \in 1..Len(queue') : queue'[i] # SHUTDOWN
      <4>1. queue \in Seq(Rows \cup {SHUTDOWN}) /\ queue' = Append(queue, ingested + 1)
        BY <1>0, <1>3, <2>1 DEF Yield, TypeOK
      <4>2. ingested + 1 # SHUTDOWN
        BY <1>0 DEF TypeOK, SHUTDOWN
      <4>3. \A i \in 1..Len(queue) : queue[i] # SHUTDOWN
        BY <1>0, <1>3 DEF Yield
      <4> QED
        BY <4>1, <4>2, <4>3
    <3> QED
      BY <1>0, <1>3, <2>1, <3>1, AfterPutRest DEF Yield, workerVars, Done
  <2>2. CASE ~HasRoom
    BY <1>0, <1>3, <2>2 DEF Yield, workerVars, Done, TypeOK
  <2> QED
    BY <2>1, <2>2
<1>4. CASE Put
  <2>1. \A i \in 1..Len(queue') : queue'[i] # SHUTDOWN
    <3>1. queue \in Seq(Rows \cup {SHUTDOWN}) /\ queue' = Append(queue, ingested)
      BY <1>0, <1>4 DEF Put, TypeOK
    <3>2. ingested # SHUTDOWN /\ \A i \in 1..Len(queue) : queue[i] # SHUTDOWN
      BY <1>0, <1>4 DEF Put, SHUTDOWN
    <3> QED
      BY <3>1, <3>2
  <2> QED
    BY <1>0, <1>4, <2>1, AfterPutRest DEF Put, workerVars, countVars, Done
<1>5. CASE Persist
  BY <1>0, <1>5, AfterPutRest DEF Persist, workerVars, countVars, Done
<1>6. CASE StopIngest
  BY <1>0, <1>6 DEF StopIngest, workerVars, countVars, Done
<1>7. CASE IngestFail
  BY <1>0, <1>7 DEF IngestFail, workerVars, countVars, Done
<1>8. CASE PutShutdown
  <2>1. (\A i \in 1..Len(queue) : queue[i] = SHUTDOWN) =>
          (\A i \in 1..Len(queue') : queue'[i] = SHUTDOWN)
    <3>1. queue \in Seq(Rows \cup {SHUTDOWN}) /\ queue' = Append(queue, SHUTDOWN)
      BY <1>0, <1>8 DEF PutShutdown, TypeOK
    <3> QED
      BY <3>1
  <2> QED
    BY <1>0, <1>8, <2>1 DEF PutShutdown, workerVars, countVars, Done
<1>9. CASE Gather
  BY <1>0, <1>9 DEF Gather, workerVars, countVars, Done
<1>10. CASE Finish
  BY <1>0, <1>10 DEF Finish, workerVars, countVars, Done
<1>11. CASE Save
  BY <1>0, <1>11 DEF Save, workerVars, countVars, Done
<1>12. CASE Cancel
  BY <1>0, <1>12 DEF Cancel, schedVars, workerVars, countVars, Done
<1>13. CASE Write
  BY <1>0, <1>13 DEF Write, schedVars, workerVars, countVars, Done, TypeOK
<1>14. CASE SinkFail
  BY <1>0, <1>14 DEF SinkFail, schedVars, workerVars, countVars, Done
<1> QED
  BY <1>1, <1>2, <1>3, <1>4, <1>5, <1>6, <1>7, <1>8, <1>9, <1>10, <1>11, <1>12,
     <1>13, <1>14 DEF RunStep

LEMMA InvInit == Init => IInv
<1> SUFFICES ASSUME Init PROVE IInv
  OBVIOUS
<1>1. TypeInv
  BY TypeInit
<1>2. /\ Len(queue) = 0 /\ Len(lines) = 0 /\ LastPut = 0
      /\ \A w \in Workers : item[w] = NoItem /\ pc[w] = "idle"
  BY DEF Init, LastPut
<1>3. RowsPlacedOnce
  BY <1>2 DEF RowsPlacedOnce, QueueInOrder, HeldBeforeQueue, LinesBeforeQueue,
              HeldOnce, AnsweredOnce, AllPlaced, NoItem
<1>4. DrainedInTurn
  <2>1. Done = 0 /\ sched = "queued" /\ status = "queued" /\ stored = "queued"
    BY DEF Init, Done
  <2> QED
    BY <1>2, <2>1 DEF DrainedInTurn, Terminal
<1> QED
  BY <1>1, <1>3, <1>4 DEF IInv

LEMMA InvStep == IInv /\ [Next]_vars => IInv'
<1> SUFFICES ASSUME IInv, [Next]_vars PROVE IInv'
  OBVIOUS
<1>1. TypeInv'
  BY TypeStep DEF IInv
<1>2. CASE UNCHANGED vars
  <2>1. RowsPlacedOnce'
    BY <1>2, StayPut DEF IInv, vars, schedVars, countVars, workerVars, LastPut
  <2>2. DrainedInTurn'
    BY <1>2 DEF IInv, DrainedInTurn, Done, vars, schedVars, countVars, workerVars
  <2> QED
    BY <1>1, <2>1, <2>2 DEF IInv
<1>3. CASE RunStep \/ IngestFail \/ Cancel \/ Write \/ SinkFail
  BY <1>1, <1>3, RunPlaced, RunDrains DEF IInv
<1>4. ASSUME NEW w \in Workers, WorkerStep(w) PROVE IInv'
  BY <1>1, <1>4, WorkerPlaced, WorkerDrains DEF IInv
<1> QED
  BY <1>2, <1>3, <1>4 DEF Next, Terminated

LEMMA Invariance == Spec => []IInv
BY InvInit, InvStep, PTL DEF Spec

(* Every row is always in exactly one place.                               *)
THEOREM RowsAccountedFor == Spec => []RowsAccounted
<1>1. IInv => RowsAccounted
  BY DEF IInv, RowsAccounted
<1> QED
  BY <1>1, Invariance, PTL

(* No row that was counted as ingested is ever lost.                       *)
THEOREM NothingLost == Spec => []NoRowLost
<1>1. ASSUME IInv PROVE NoRowLost
  <2> SUFFICES ASSUME NEW r \in 1..ingested
               PROVE  InLines(r) \/ InQueue(r) \/ Held(r) \/ InHand(r)
    BY DEF NoRowLost
  <2>1. ingested \in Nat
    BY <1>1 DEF IInv, TypeInv, TypeOK
  <2>2. r \in 1..LastPut \/ InHand(r)
    BY <2>1 DEF LastPut, InHand
  <2> QED
    BY <1>1, <2>2 DEF IInv, RowsPlacedOnce, AllPlaced
<1> QED
  BY <1>1, Invariance, PTL

(* No row is ever answered twice.                                          *)
THEOREM NoneTwice == Spec => []AnsweredOnce
<1>1. IInv => AnsweredOnce
  BY DEF IInv, RowsPlacedOnce
<1> QED
  BY <1>1, Invariance, PTL

(* Once all workers have left, every ingested row has its line: nothing is *)
(* in a worker's hand, and the workers leave no row in the queue.          *)
LEMMA AllAnswered ==
  ASSUME IInv, sched \in {"close", "save", "done", "raised"}
  PROVE  /\ {lines[i].row : i \in 1..Len(lines)} = 1..ingested
         /\ Len(lines) = ingested
<1>0. PlaceTypes /\ ingested \in Nat /\ Len(lines) \in Nat
  BY PlacesTyped DEF IInv, TypeInv, TypeOK
<1>1. \A w \in Workers : pc[w] = "exited" /\ item[w] = NoItem
  BY DEF IInv, DrainedInTurn, TypeInv, Holding
<1>2. \A i \in 1..Len(queue) : queue[i] = SHUTDOWN
  BY <1>1, PoolAssumption DEF IInv, DrainedInTurn
<1>3. LastPut = ingested
  BY DEF LastPut
<1>4. ASSUME NEW r \in 1..ingested PROVE InLines(r)
  <2>1. r # SHUTDOWN /\ r # NoItem
    BY DEF SHUTDOWN, NoItem
  <2>2. ~InQueue(r) /\ ~Held(r)
    BY <1>1, <1>2, <2>1 DEF InQueue, Held
  <2> QED
    BY <1>3, <2>2 DEF IInv, RowsPlacedOnce, AllPlaced
<1>5. \A i \in 1..Len(lines) : lines[i].row \in 1..ingested
  BY <1>0, <1>3, LineRows DEF IInv, RowsPlacedOnce, LinesBeforeQueue, Rows
<1>6. {lines[i].row : i \in 1..Len(lines)} = 1..ingested
  BY <1>4, <1>5 DEF InLines
<1>7. Len(lines) = ingested
  <2> DEFINE f == [i \in 1..Len(lines) |-> lines[i].row]
  <2>1. f \in Bijection(1..Len(lines), 1..ingested)
    <3>1. f \in [1..Len(lines) -> 1..ingested]
      BY <1>5
    <3>2. \A i, j \in 1..Len(lines) : f[i] = f[j] => i = j
      BY DEF IInv, RowsPlacedOnce, AnsweredOnce
    <3>3. \A r \in 1..ingested : \E i \in 1..Len(lines) : f[i] = r
      BY <1>4 DEF InLines
    <3> QED
      BY <3>1, <3>2, <3>3 DEF Bijection, Injection, Surjection, IsInjective
  <2>2. /\ IsFiniteSet(1..Len(lines)) /\ Cardinality(1..Len(lines)) = Len(lines)
        /\ Cardinality(1..ingested) = ingested
    <3>1. \A n \in Nat : IsFiniteSet(1..n) /\ Cardinality(1..n) = n
      <4> TAKE n \in Nat
      <4>1. /\ IsFiniteSet(1..n)
            /\ Cardinality(1..n) = IF 1 > n THEN 0 ELSE n - 1 + 1
        BY FS_Interval
      <4> QED
        BY <4>1
    <3> QED
      BY <1>0, <3>1
  <2> HIDE DEF f
  <2>3. Cardinality(1..ingested) = Cardinality(1..Len(lines))
    BY <2>1, <2>2, FS_Bijection DEF ExistsBijection
  <2> QED
    BY <2>2, <2>3
<1> QED
  BY <1>6, <1>7

(* A job that reads as finished has a complete result file.                *)
THEOREM FinishedIsComplete == Spec => []FinishedFileComplete
<1>1. IInv => FinishedFileComplete
  BY AllAnswered DEF FinishedFileComplete, IInv, DrainedInTurn
<1> QED
  BY <1>1, Invariance, PTL

(* A sink that has failed stays failed.                                    *)
LEMMA SinkStaysFailed ==
  ASSUME [Next]_vars, sinkFailed PROVE sinkFailed'
<1>1. CASE UNCHANGED vars
  BY <1>1 DEF vars
<1>2. CASE RunStep \/ IngestFail \/ Cancel \/ Write \/ SinkFail
  BY <1>2 DEF RunStep, Start, Started, Yield, Put, Persist, StopIngest, IngestFail,
              PutShutdown, Gather, Finish, Save, Cancel, Write, SinkFail
<1>3. ASSUME NEW w \in Workers, WorkerStep(w) PROVE sinkFailed'
  BY <1>3 DEF WorkerStep, Cancelled, Aborted, Denied, Admitted, Dispatch, Succeed,
              Fatal, Pause, Reject, Resume, TakeInvalid, TakeShutdown
<1> QED
  BY <1>1, <1>2, <1>3 DEF Next, Terminated

(* The conservation assertion of run() never fails.                        *)
THEOREM AssertionHolds == Spec => []ConservationHolds
<1>1. Init => ConservationHolds
  BY DEF Init, ConservationHolds
<1>2. ASSUME IInv, ConservationHolds, [Next]_vars PROVE ConservationHolds'
  <2>1. CASE Finish
    <3>1. Done = ingested
      BY <1>2, <2>1, AllAnswered DEF Finish, IInv, DrainedInTurn
    <3> QED
      BY <2>1, <3>1 DEF Finish, ConservationHolds
  <2>2. CASE UNCHANGED schedVars
    BY <1>2, <2>2, SinkStaysFailed DEF ConservationHolds, schedVars
  <2>3. CASE Next /\ ~Finish /\ ~UNCHANGED schedVars
    <3>1. RunStep \/ IngestFail
      BY <2>3, WorkerKeepsPut
         DEF Next, Terminated, Cancel, Write, SinkFail, schedVars, vars
    <3>2. sched' # "raised"
      BY <2>3, <3>1, AfterPutRest
         DEF RunStep, Start, Started, Yield, Put, Persist, StopIngest, IngestFail,
             PutShutdown, Gather, Save
    <3> QED
      BY <3>2 DEF ConservationHolds
  <2> QED
    BY <1>2, <2>1, <2>2, <2>3 DEF vars
<1> QED
  BY <1>1, <1>2, Invariance, PTL DEF Spec

LEMMA StoppedStep ==
  ASSUME TypeInv, [Next]_vars PROVE [Stopping => Busy' \subseteq Busy]_vars
<1> SUFFICES ASSUME Next, Stopping, NEW w \in Workers, pc'[w] \in {"acquire", "calling"}
             PROVE  pc[w] \in {"acquire", "calling"}
  BY DEF Busy
<1>1. CASE pc' = pc
  BY <1>1
<1>2. CASE pc' # pc
  <2>1. PICK v \in Workers : WorkerStep(v)
    BY <1>2 DEF Next, RunStep, Start, Started, Yield, Put, Persist, StopIngest,
                PutShutdown, Gather, Finish, Save, IngestFail, Cancel, Write,
                SinkFail, Terminated, vars, workerVars
  <2>2. ~Admitted(v)
    BY DEF Admitted, Stopping
  <2> QED
    BY <2>1, <2>2
       DEF TypeInv, TypeOK, WorkerStep, Cancelled, Aborted, Denied, Dispatch, Succeed,
           Pause, Resume, Fatal, Reject, TakeInvalid, TakeShutdown, Settle, Resolve,
           Release, workerVars
<1> QED
  BY <1>1, <1>2

(* A cancelled or aborted job sets out on no further attempt.              *)
THEOREM StoppedStaysStopped == Spec => StopIsFinal
BY StoppedStep, TypeInvariant, PTL DEF Spec, StopIsFinal
=============================================================================
