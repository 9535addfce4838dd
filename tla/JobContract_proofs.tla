------------------------- MODULE JobContract_proofs -------------------------
(***************************************************************************)
(* The job implements the contract it has with its client, JobContract,    *)
(* and is the run that the service around it relies on, RunPhases, for any *)
(* file, pool, bound and fault: a step of JobRunner is a step of these or  *)
(* leaves what they see as it was.                                         *)
(*                                                                         *)
(*                              of JobContract      of RunPhases           *)
(*   run() starts               Begin               Begin                  *)
(*   run() has its workers      -                   Enter                  *)
(*   ingest takes a row in      Accept              -                      *)
(*   ingest ends                -                   EndIngest              *)
(*   the workers have left      -                   Drain                  *)
(*   the writer writes a line   Resolve(its row)    -                      *)
(*   run() sets the status      Finish(the status)  Close                  *)
(*   the last save              -                   Save                   *)
(***************************************************************************)
EXTENDS JobLimits_proofs

-----------------------------------------------------------------------------
(* Where the status stands while run() is where it is.                     *)

StatusInTurn ==
  /\ status = "queued" => sched = "queued" /\ ingested = 0
  /\ sched = "queued" => status = "queued"
  /\ sched \in {"starting", "ingest", "putting", "persist", "shutdown", "gather", "close"} =>
       status = "running"

LEMMA StatusInit == Init => StatusInTurn
BY DEF Init, StatusInTurn

LEMMA StatusStep == TypeOK /\ StatusInTurn /\ [Next]_vars => StatusInTurn'
<1> SUFFICES ASSUME TypeOK, StatusInTurn, [Next]_vars PROVE StatusInTurn'
  OBVIOUS
<1>1. CASE UNCHANGED <<sched, status, ingested>>
  BY <1>1 DEF StatusInTurn
<1>2. CASE Start \/ Started \/ Persist \/ StopIngest \/ IngestFail \/ PutShutdown \/ Gather
           \/ Put \/ Yield
  BY <1>2, AfterPutRest
     DEF Start, Started, Persist, StopIngest, IngestFail, PutShutdown, Gather, Put, Yield,
         countVars, StatusInTurn
<1>3. CASE Finish
  BY <1>3 DEF Finish, FinalStatus, StatusInTurn, countVars
<1>4. CASE Save
  BY <1>4 DEF Save, StatusInTurn, countVars
<1>5. CASE Cancel \/ Write \/ SinkFail
  BY <1>1, <1>5 DEF Cancel, Write, SinkFail, schedVars, countVars
<1>6. ASSUME NEW w \in Workers, WorkerStep(w) PROVE StatusInTurn'
  BY <1>1, <1>6, WorkerKeepsPut DEF schedVars
<1> QED
  BY <1>1, <1>2, <1>3, <1>4, <1>5, <1>6 DEF Next, RunStep, Terminated, vars, schedVars, countVars

CInv == IInv /\ Tallies /\ StatusInTurn

LEMMA ContractInvariance == Spec => []CInv
<1>1. IInv => TypeOK
  BY DEF IInv, TypeInv
<1> QED
  BY <1>1, Invariance, CountersInvariant, StatusInit, StatusStep, PTL DEF Spec, CInv

-----------------------------------------------------------------------------
(* What the first n lines ls of a file say of each row.                    *)

ResultOf(ls, n) ==
  [r \in Rows |->
     IF \E i \in 1..n : ls[i].row = r
     THEN ls[CHOOSE i \in 1..n : ls[i].row = r].class
     ELSE "none"]

LEMMA WrittenIs == WrittenResult = ResultOf(lines, written)
BY DEF WrittenResult, ResultOf

LEMMA WrittenIsNext == WrittenResult' = ResultOf(lines', written')
BY DEF WrittenResult, ResultOf

LEMMA ResultOfLine ==
  ASSUME NEW ls, NEW n \in Nat, NEW k \in 1..n, ls[k].row \in Rows,
         \A i, j \in 1..n : ls[i].row = ls[j].row => i = j
  PROVE  ResultOf(ls, n)[ls[k].row] = ls[k].class
<1>1. (CHOOSE i \in 1..n : ls[i].row = ls[k].row) = k
  OBVIOUS
<1> QED
  BY <1>1 DEF ResultOf

LEMMA ResultOfNone ==
  ASSUME NEW ls, NEW n, NEW r \in Rows, \A i \in 1..n : ls[i].row # r
  PROVE  ResultOf(ls, n)[r] = "none"
BY DEF ResultOf

(* Lines that are not written yet do not show.                             *)
LEMMA UnwrittenHidden ==
  ASSUME TypeOK, written' = written, UNCHANGED lines \/ RowAnswers
  PROVE  WrittenResult' = WrittenResult
<1>1. \A i \in 1..written : lines'[i] = lines[i]
  <2>1. written \in 0..Len(lines) /\ Len(lines) \in Nat
    BY DEF TypeOK
  <2>2. CASE RowAnswers
    <3>1. PICK x : lines' = Append(lines, x)
      BY <2>2 DEF RowAnswers, Emit
    <3> QED
      BY <2>1, <3>1 DEF TypeOK
  <2> QED
    BY <2>2
<1>2. \A r : \A i \in 1..written : lines'[i].row = r <=> lines[i].row = r
  BY <1>1
<1>3. ASSUME NEW r \in Rows PROVE ResultOf(lines', written)[r] = ResultOf(lines, written)[r]
  <2>1. CASE \A i \in 1..written : lines[i].row # r
    BY <1>2, <2>1, ResultOfNone
  <2>2. CASE \E i \in 1..written : lines[i].row = r
    <3> DEFINE old == CHOOSE i \in 1..written : lines[i].row = r
               new == CHOOSE i \in 1..written : lines'[i].row = r
    <3>1. old = new
      BY <1>2
    <3>2. new \in 1..written
      BY <1>2, <2>2
    <3> QED
      BY <1>1, <1>2, <2>2, <3>1, <3>2 DEF ResultOf
  <2> QED
    BY <2>1, <2>2
<1>4. \A ls, n : ResultOf(ls, n) = [r \in Rows |-> ResultOf(ls, n)[r]]
  BY DEF ResultOf
<1>5. ResultOf(lines', written) = ResultOf(lines, written)
  BY <1>3, <1>4
<1> QED
  BY <1>5, WrittenIs, WrittenIsNext, Zenon

-----------------------------------------------------------------------------
(* The steps the client sees.                                              *)

contractVars == <<ingested, WrittenResult, status>>

(* A line that is written answers a row taken in and not yet answered, in  *)
(* a job that is running.                                                  *)
LEMMA WriteResolves ==
  ASSUME CInv, Write
  PROVE  \E r \in Contract!Rows, c \in Contract!FailureClasses : Contract!Resolve(r, c)
<1> DEFINE k == written + 1
           r == lines[k].row
           c == lines[k].class
<1>0. /\ Len(lines) \in Nat /\ written \in Nat /\ k \in 1..Len(lines) /\ ingested \in Nat
      /\ lines' = lines /\ written' = k /\ ingested' = ingested /\ status' = status
  BY DEF Write, CInv, IInv, TypeInv, TypeOK, countVars, schedVars
<1>1. \A i \in 1..Len(lines) : lines[i].row \in Rows /\ lines[i].class \in FailureClasses
  <2>1. \A i \in 1..Len(lines) : lines[i] \in Line
    BY DEF CInv, IInv, TypeInv, TypeOK
  <2> QED
    BY <2>1 DEF Line
<1>2. \A i, j \in 1..Len(lines) : lines[i].row = lines[j].row => i = j
  BY DEF CInv, IInv, RowsPlacedOnce, AnsweredOnce
<1>3. r \in Rows /\ c \in FailureClasses /\ r <= ingested
  <2>1. r <= LastPut /\ LastPut \in Int /\ LastPut <= ingested
    BY <1>0 DEF CInv, IInv, RowsPlacedOnce, LinesBeforeQueue, LastPut
  <2> QED
    BY <1>0, <1>1, <2>1 DEF Rows
<1>4. status = "running"
  <2>1. status \notin Terminal
    BY <1>0 DEF CInv, IInv, DrainedInTurn, Write
  <2>2. ingested # 0
    BY <1>3, RowsAssumption DEF Rows
  <2> QED
    BY <2>1, <2>2 DEF CInv, StatusInTurn, IInv, TypeInv, TypeOK, Statuses
<1>5. WrittenResult[r] = "none"
  <2>1. \A i \in 1..written : lines[i].row # r
    BY <1>0, <1>2
  <2> QED
    BY <1>3, <2>1, ResultOfNone, WrittenIs
<1> HIDE DEF r, c
<1>6. WrittenResult' = [WrittenResult EXCEPT ![r] = c]
  <2>1. WrittenResult'[r] = c
    BY <1>0, <1>1, <1>2, ResultOfLine, WrittenIsNext DEF r, c
  <2>2. ASSUME NEW s \in Rows, s # r PROVE WrittenResult'[s] = WrittenResult[s]
    <3>1. CASE \A i \in 1..written : lines[i].row # s
      <4>1. \A i \in 1..k : lines[i].row # s
        BY <1>0, <2>2, <3>1 DEF r
      <4> QED
        BY <1>0, <3>1, <4>1, ResultOfNone, WrittenIs, WrittenIsNext
    <3>2. ASSUME NEW i \in 1..written, lines[i].row = s PROVE WrittenResult'[s] = WrittenResult[s]
      <4>1. ResultOf(lines, written)[lines[i].row] = lines[i].class
        BY <1>0, <1>1, <1>2, ResultOfLine
      <4>2. ResultOf(lines, k)[lines[i].row] = lines[i].class
        BY <1>0, <1>1, <1>2, ResultOfLine
      <4> QED
        BY <1>0, <3>2, <4>1, <4>2, WrittenIs, WrittenIsNext
    <3> QED
      BY <3>1, <3>2
  <2>3. /\ WrittenResult = [s \in Rows |-> WrittenResult[s]]
        /\ WrittenResult' = [s \in Rows |-> WrittenResult'[s]]
    BY WrittenIs, WrittenIsNext DEF ResultOf
  <2> QED
    BY <1>3, <2>1, <2>2, <2>3
<1>7. Contract!Resolve(r, c)
  BY <1>0, <1>3, <1>4, <1>5, <1>6 DEF Contract!Resolve
<1> QED
  BY <1>3, <1>7 DEF Contract!Rows, Rows, Contract!FailureClasses, FailureClasses

(* A job that sets its final status has an answer for every row, and the   *)
(* status says of them what it should.                                     *)
LEMMA FinishFinishes ==
  ASSUME CInv, Finish PROVE UNCHANGED contractVars \/ \E s \in Contract!Terminal : Contract!Finish(s)
<1>0. /\ Len(lines) \in Nat /\ written \in Nat /\ ingested \in Nat
      /\ lines' = lines /\ written' = written /\ ingested' = ingested
      /\ sched = "close" /\ status = "running"
      /\ succeeded \in Nat /\ failed \in Nat /\ succeeded + failed = Len(lines)
  BY DEF Finish, CInv, StatusInTurn, IInv, TypeInv, TypeOK, countVars, DrainedInTurn, Done
<1>1. WrittenResult' = WrittenResult
  BY <1>0, WrittenIs, WrittenIsNext
<1>2. CASE ingestError \/ sinkFailed
  BY <1>0, <1>1, <1>2 DEF Finish, contractVars
<1>3. CASE ~(ingestError \/ sinkFailed)
  <2>1. written = Len(lines) /\ status' = FinalStatus
    BY <1>3 DEF Finish
  <2>2. {lines[i].row : i \in 1..Len(lines)} = 1..ingested
    BY <1>0, AllAnswered DEF CInv
  <2>3. \A i \in 1..Len(lines) : lines[i].row \in Rows /\ lines[i].class \in FailureClasses
    <3>1. \A i \in 1..Len(lines) : lines[i] \in Line
      BY DEF CInv, IInv, TypeInv, TypeOK
    <3> QED
      BY <3>1 DEF Line
  <2>4. \A i \in 1..Len(lines) : WrittenResult[lines[i].row] = lines[i].class
    <3>1. \A i, j \in 1..Len(lines) : lines[i].row = lines[j].row => i = j
      BY DEF CInv, IInv, RowsPlacedOnce, AnsweredOnce
    <3> QED
      BY <1>0, <2>1, <2>3, <3>1, ResultOfLine, WrittenIs
  <2>5. \A r \in 1..ingested : \E i \in 1..Len(lines) : r = lines[i].row /\ WrittenResult[r] = lines[i].class
    BY <2>2, <2>4
  <2> DEFINE good == {i \in 1..Len(lines) : lines[i].class = "success"}
  <2>6. good \in SUBSET (1..Len(lines)) /\ Cardinality(good) = succeeded
    BY DEF CInv, Tallies, CountOf
  <2>7. IsFiniteSet(1..Len(lines)) /\ Cardinality(1..Len(lines)) = Len(lines)
    BY <1>0, UpTo
  <2>8. failed = 0 <=> good = 1..Len(lines)
    <3> HIDE DEF good
    <3>1. Cardinality(1..Len(lines)) = Cardinality(good) => good = 1..Len(lines)
      BY <2>6, <2>7, FS_Subset, Zenon
    <3> QED
      BY <1>0, <2>6, <2>7, <3>1
  <2>9. succeeded = 0 <=> good = {}
    <3> HIDE DEF good
    <3>1. IsFiniteSet(good)
      BY <2>6, <2>7, FS_Subset
    <3> QED
      BY <2>6, <3>1, FS_EmptySet
  <2>10. \A r \in 1..ingested : WrittenResult[r] # "none"
    BY <2>3, <2>5 DEF FailureClasses
  <2>11. failed = 0 => \A r \in 1..ingested : WrittenResult[r] = "success"
    BY <2>5, <2>8
  <2>12. failed # 0 => \E r \in 1..ingested : WrittenResult[r] # "success"
    BY <2>2, <2>4, <2>8
  <2>13. succeeded # 0 => \E r \in 1..ingested : WrittenResult[r] = "success"
    BY <2>2, <2>4, <2>9
  <2>14. /\ FinalStatus \in Contract!Terminal
         /\ FinalStatus = "succeeded" => failed = 0
         /\ FinalStatus = "partial" => failed # 0 /\ succeeded # 0
    BY DEF FinalStatus, Contract!Terminal
  <2>15. Contract!Finish(FinalStatus)
    BY <1>0, <1>1, <2>1, <2>10, <2>11, <2>12, <2>13, <2>14 DEF Contract!Finish
  <2> QED
    BY <2>14, <2>15
<1> QED
  BY <1>2, <1>3

-----------------------------------------------------------------------------
(* The refinement.                                                         *)

LEMMA ContractInit == Init => Contract!Init
<1> SUFFICES ASSUME Init PROVE Contract!Init
  OBVIOUS
<1>1. written = 0
  BY DEF Init
<1>2. WrittenResult = [r \in Contract!Rows |-> "none"]
  BY <1>1 DEF WrittenResult, Contract!Rows, Rows
<1> QED
  BY <1>2 DEF Init, Contract!Init

LEMMA ContractStep == CInv /\ [Next]_vars => [Contract!Next]_contractVars
<1> SUFFICES ASSUME CInv, [Next]_vars PROVE Contract!Next \/ UNCHANGED contractVars
  OBVIOUS
<1>0. TypeInv /\ TypeOK
  BY DEF CInv, IInv, TypeInv
<1>1. CASE UNCHANGED <<ingested, status, lines, written>>
  BY <1>0, <1>1, UnwrittenHidden DEF contractVars
<1>2. CASE Start
  <2>1. WrittenResult' = WrittenResult
    BY <1>0, <1>2, UnwrittenHidden DEF Start
  <2> QED
    BY <1>2, <2>1 DEF Start, CInv, StatusInTurn, Contract!Next, Contract!Begin, countVars
<1>3. CASE Yield
  <2>1. WrittenResult' = WrittenResult
    BY <1>0, <1>3, UnwrittenHidden DEF Yield
  <2> QED
    BY <1>3, <2>1 DEF Yield, CInv, StatusInTurn, Contract!Next, Contract!Accept
<1>4. CASE Write
  BY <1>4, WriteResolves DEF Contract!Next
<1>5. CASE Finish
  BY <1>5, FinishFinishes DEF Contract!Next
<1>6. CASE Started \/ Put \/ Persist \/ StopIngest \/ PutShutdown \/ Gather \/ Save
           \/ IngestFail \/ Cancel \/ SinkFail
  BY <1>1, <1>6 DEF Started, Put, Persist, StopIngest, PutShutdown, Gather, Save, IngestFail,
                    Cancel, SinkFail, countVars, schedVars
<1>7. ASSUME NEW w \in Workers, WorkerStep(w) PROVE UNCHANGED contractVars
  <2>1. UNCHANGED <<ingested, status, written>>
    BY <1>7, WorkerKeepsPut
       DEF schedVars, WorkerStep, Cancelled, Aborted, Denied, Admitted, Dispatch, Succeed,
           Pause, Resume, Fatal, Reject, TakeInvalid, TakeShutdown
  <2>2. UNCHANGED lines \/ RowAnswers
    BY <1>0, <1>7, WorkerAnswers
  <2> QED
    BY <1>0, <2>1, <2>2, UnwrittenHidden DEF contractVars
<1> QED
  BY <1>1, <1>2, <1>3, <1>4, <1>5, <1>6, <1>7
     DEF Next, RunStep, Terminated, vars, schedVars, countVars

(* The job keeps its contract with the client.                             *)
THEOREM ContractKept == Spec => KeepsContract
BY ContractInit, ContractStep, ContractInvariance, PTL
   DEF Spec, KeepsContract, Contract!Spec, contractVars

-----------------------------------------------------------------------------
(* What the service sees of a run.                                         *)

Running == {"ingest", "putting", "persist", "shutdown", "gather", "close"}
Over == {"save", "done", "raised"}

StoredInTurn ==
  /\ sched \in {"queued", "starting"} => stored = "queued"
  /\ sched \in Running => stored = "running"
  /\ sched \in Over => written = Len(lines) \/ sinkFailed

LEMMA StoredInit == Init => StoredInTurn
BY DEF Init, StoredInTurn, Running, Over

LEMMA NoneWorks ==
  ASSUME IInv, NEW w \in Workers, WorkerStep(w) PROVE sched \notin Over
<1>1. pc[w] # "exited"
  BY DEF WorkerStep, AtTop, Cancelled, Aborted, Denied, Admitted, Dispatch, Succeed,
         Pause, Resume, Fatal, Reject, TakeInvalid, TakeShutdown
<1> QED
  BY <1>1 DEF IInv, DrainedInTurn, Over

LEMMA StoredStep == IInv /\ StatusInTurn /\ StoredInTurn /\ [Next]_vars => StoredInTurn'
<1> SUFFICES ASSUME IInv, StatusInTurn, StoredInTurn, [Next]_vars PROVE StoredInTurn'
  OBVIOUS
<1> USE DEF Running, Over
<1>1. CASE UNCHANGED vars
  BY <1>1 DEF vars, schedVars, StoredInTurn
<1>2. CASE Start \/ Started \/ Persist \/ StopIngest \/ IngestFail \/ PutShutdown \/ Gather
           \/ Put \/ Yield
  BY <1>2, AfterPutRest
     DEF Start, Started, Persist, StopIngest, IngestFail, PutShutdown, Gather, Put, Yield,
         StoredInTurn, StatusInTurn
<1>3. CASE Finish
  BY <1>3 DEF Finish, StoredInTurn
<1>4. CASE Save
  BY <1>4 DEF Save, StoredInTurn
<1>5. CASE Write
  <2>1. sched \notin Over
    BY <1>5 DEF Write, StoredInTurn, IInv, TypeInv, TypeOK
  <2> QED
    BY <1>5, <2>1 DEF Write, schedVars, StoredInTurn
<1>6. CASE Cancel \/ SinkFail
  BY <1>6 DEF Cancel, SinkFail, schedVars, StoredInTurn
<1>7. ASSUME NEW w \in Workers, WorkerStep(w) PROVE StoredInTurn'
  BY <1>7, NoneWorks, WorkerKeepsPut DEF schedVars, StoredInTurn
<1> QED
  BY <1>1, <1>2, <1>3, <1>4, <1>5, <1>6, <1>7 DEF Next, RunStep, Terminated

runVars == <<PhaseOf, Outline(status), Outline(stored), FileState, cancel,
             ingestError /\ ~Ended>>

LEMMA PhasesInit == Init => Phases!Init
BY DEF Init, Phases!Init, PhaseOf, Outline, FileState

(* The file is complete when the status is set, and whatever was raised    *)
(* keeps the status from being set.                                        *)
LEMMA FinishCloses ==
  ASSUME CInv, StoredInTurn, Finish PROVE Phases!Close
<1>0. /\ sched = "close" /\ UNCHANGED <<stored, cancel, written, lines, sinkFailed, ingestError>>
      /\ ingestError \in BOOLEAN /\ sinkFailed \in BOOLEAN /\ cancel \in BOOLEAN
      /\ PhaseOf = "closing"
  BY DEF Finish, PhaseOf, CInv, IInv, TypeInv, TypeOK
<1>1. CASE ingestError \/ sinkFailed
  <2>1. sched' = "raised" /\ status' = status /\ PhaseOf' = "left" /\ Ended' /\ ~Ended
    BY <1>0, <1>1 DEF Finish, PhaseOf, Ended
  <2>2. FileState' = IF sinkFailed THEN "cut" ELSE "complete"
    BY <1>0, <2>1 DEF Finish, FileState
  <2> QED
    BY <1>0, <1>1, <2>1, <2>2 DEF Phases!Close, Phases!Leave
<1>2. CASE ~(ingestError \/ sinkFailed)
  <2>1. Done = ingested
    BY <1>0, AllAnswered DEF CInv, IInv, DrainedInTurn
  <2>2. /\ sched' = "save" /\ status' = FinalStatus /\ written = Len(lines)
        /\ PhaseOf' = "saving" /\ ~Ended' /\ ~Ended
    BY <1>0, <1>2, <2>1 DEF Finish, PhaseOf, Ended
  <2>3. FileState' = "complete"
    BY <1>0, <1>2, <2>2 DEF FileState
  <2>4. Outline(FinalStatus) = IF cancel THEN "cancelled" ELSE "finished"
    BY DEF FinalStatus, Outline
  <2> QED
    BY <1>0, <1>2, <2>2, <2>3, <2>4 DEF Phases!Close, Phases!GoTo
<1> QED
  BY <1>1, <1>2

LEMMA PhasesStep == CInv /\ StoredInTurn /\ [Next]_vars => [Phases!Next]_runVars
<1> SUFFICES ASSUME CInv, StoredInTurn, [Next]_vars PROVE Phases!Next \/ UNCHANGED runVars
  OBVIOUS
<1>0. IInv /\ StatusInTurn /\ ingestError \in BOOLEAN /\ cancel \in BOOLEAN
  BY DEF CInv, IInv, TypeInv, TypeOK
<1>1. CASE UNCHANGED <<sched, status, stored, cancel, ingestError>>
           /\ (sched \in Over => UNCHANGED <<written, lines, sinkFailed>>)
  BY <1>1 DEF runVars, PhaseOf, FileState, Ended, Outline, Over
<1>2. CASE Start
  BY <1>0, <1>2 DEF Start, StatusInTurn, StoredInTurn, Phases!Next, Phases!Begin, Phases!GoTo,
                    PhaseOf, Outline, FileState, Ended
<1>3. CASE Started
  BY <1>0, <1>3 DEF Started, StatusInTurn, StoredInTurn, Phases!Next, Phases!Enter,
                    Phases!GoTo, PhaseOf, Outline, FileState, Ended
<1>4. ASSUME sched \in {"ingest", "putting", "persist"},
             sched' \in {"ingest", "putting", "persist", "shutdown"},
             UNCHANGED <<status, cancel>>, ingestError' \in BOOLEAN,
             ingestError' = ingestError \/ sched' = "shutdown", stored' \in {stored, status}
      PROVE  Phases!Next \/ UNCHANGED runVars
  <2>1. stored' = stored /\ FileState' = "open" /\ FileState = "open" /\ ~Ended /\ ~Ended'
        /\ PhaseOf = "ingesting"
    BY <1>0, <1>4 DEF StatusInTurn, StoredInTurn, Running, FileState, Ended, PhaseOf
  <2>2. CASE sched' = "shutdown"
    BY <1>4, <2>1, <2>2 DEF Phases!Next, Phases!EndIngest, PhaseOf
  <2>3. CASE sched' # "shutdown"
    BY <1>4, <2>1, <2>3 DEF runVars, PhaseOf
  <2> QED
    BY <2>2, <2>3
<1>5. CASE Yield \/ Put \/ Persist \/ StopIngest \/ IngestFail
  BY <1>0, <1>4, <1>5, AfterPutRest DEF Yield, Put, Persist, StopIngest, IngestFail
<1>6. CASE PutShutdown
  BY <1>6 DEF PutShutdown, runVars, PhaseOf, FileState, Ended, Outline
<1>7. CASE Gather
  BY <1>7 DEF Gather, Phases!Next, Phases!Drain, Phases!GoTo, PhaseOf, FileState, Ended, Outline
<1>8. CASE Finish
  BY <1>8, FinishCloses DEF Phases!Next
<1>9. CASE Save
  <2>1. /\ PhaseOf = "saving" /\ PhaseOf' = "left" /\ FileState' = FileState /\ Ended'
        /\ UNCHANGED <<status, cancel>> /\ stored' = status
    BY <1>9 DEF Save, PhaseOf, FileState, Ended
  <2> QED
    BY <2>1 DEF Phases!Next, Phases!Save, Phases!Leave, Phases!MaySave
<1>10. CASE Cancel
  <2>1. UNCHANGED <<PhaseOf, status, stored, FileState, ingestError, Ended>> /\ cancel'
    BY <1>10 DEF Cancel, schedVars, PhaseOf, FileState, Ended
  <2>2. PhaseOf # "gone"
    BY <1>0 DEF PhaseOf, IInv, TypeInv, TypeOK
  <2> QED
    BY <1>10, <2>1, <2>2 DEF Cancel, Phases!Next, Phases!Cancel
<1>11. CASE Write
  <2>1. sched \notin Over
    BY <1>0, <1>11 DEF Write, StoredInTurn, IInv, TypeInv, TypeOK
  <2> QED
    BY <1>1, <1>11, <2>1 DEF Write, schedVars
<1>12. CASE SinkFail
  BY <1>1, <1>12 DEF SinkFail, schedVars, Over
<1>13. ASSUME NEW w \in Workers, WorkerStep(w) PROVE UNCHANGED runVars
  <2>1. cancel' = cancel /\ UNCHANGED schedVars /\ sched \notin Over
    BY <1>0, <1>13, NoneWorks, WorkerKeepsPut
       DEF WorkerStep, Cancelled, Aborted, Denied, Admitted, Dispatch, Succeed,
           Pause, Resume, Fatal, Reject, TakeInvalid, TakeShutdown
  <2> QED
    BY <1>1, <2>1 DEF schedVars, runVars, PhaseOf, FileState, Ended, Outline, Over
<1> QED
  BY <1>1, <1>2, <1>3, <1>5, <1>6, <1>7, <1>8, <1>9, <1>10, <1>11, <1>12, <1>13
     DEF Next, RunStep, Terminated, vars, schedVars

(* A run is what the service takes it for.                                 *)
THEOREM PhasesFollowed == Spec => FollowsPhases
<1>1. CInv => IInv /\ StatusInTurn
  BY DEF CInv
<1> QED
  BY <1>1, PhasesInit, PhasesStep, StoredInit, StoredStep, ContractInvariance, PTL
     DEF Spec, FollowsPhases, Phases!Spec, Phases!vars, runVars
=============================================================================
