------------------------- MODULE JobService_proofs -------------------------
(***************************************************************************)
(* Proofs about JobService, for any number of jobs, crashes and shutdowns: *)
(* what a client was told stays true, a download is of a complete file, a  *)
(* cancel is honoured, the ledger holds what the settled jobs cost, the    *)
(* spending check that refused once refuses for ever, and a job is a run   *)
(* as RunPhases has it.                                                    *)
(***************************************************************************)
EXTENDS JobService, TLAPS, FiniteSetTheorems

(* Where the job's result is not settled yet.                              *)
Early == {"begun", "entering", "ingesting", "draining", "closing"}
Unsaved == Early \cup {"saving"}
Hittable == Unsaved \cup {"telling"}

(* Who has a runner has a task and was accepted; an accepted job is in the *)
(* store, and nothing but an accepted one is terminal there.               *)
Known(j) ==
  /\ mem[j] # "none" <=> task[j] # "none"
  /\ mem[j] # "none" => req[j] = "accepted"
  /\ req[j] = "accepted" => store[j] # "none"
  /\ req[j] = "created" => store[j] = "queued"
  /\ req[j] # "accepted" => store[j] \notin Terminal /\ tries[j] = 0 /\ ~asked[j]

(* The record in memory follows the task; the store follows the record.    *)
Follows(j) ==
  /\ task[j] = "begun" => mem[j] = "queued"
  /\ task[j] \in Early \ {"begun"} => mem[j] = "running"
  /\ task[j] \in {"saving", "telling"} => mem[j] \in Terminal
  /\ task[j] \in Unsaved => store[j] \notin Terminal /\ tries[j] = 0
  /\ task[j] = "telling" => store[j] = mem[j] /\ tries[j] < MaxTries
  /\ store[j] \in Terminal => mem[j] \in {"none", store[j]}

Promises(j) ==
  /\ mem[j] \in Terminal \/ store[j] \in Terminal => file[j] = "complete"
  /\ told[j] # "none" => told[j] \in Terminal /\ store[j] = told[j]
  /\ asked[j] => /\ mem[j] \in Terminal => mem[j] = "cancelled"
                 /\ store[j] \in Terminal => store[j] = "cancelled"
                 /\ task[j] \in Early => cancel[j]

Gone == up = "down" => \A j \in Jobs : mem[j] = "none" /\ req[j] \notin {"creating", "created"}

IInv ==
  /\ TypeOK
  /\ \A j \in Jobs : Known(j) /\ Follows(j) /\ Promises(j)
  /\ \A j \in Jobs : hit[j] => task[j] \in Hittable
  /\ Gone
  /\ refused /\ ~torn => ledger >= Cap

LEMMA ServiceInit == Init => IInv
<1> SUFFICES ASSUME Init PROVE IInv
  OBVIOUS
<1>1. TypeOK
  <2>1. \A S : \A x \in S : All(x) \in [Jobs -> S]
    BY Zenon DEF All
  <2>2. /\ cancel \in [Jobs -> BOOLEAN] /\ raising \in [Jobs -> BOOLEAN]
        /\ hit \in [Jobs -> BOOLEAN] /\ asked \in [Jobs -> BOOLEAN]
    BY <2>1, Zenon DEF Init
  <2>3. /\ req \in [Jobs -> {"none", "creating", "created", "accepted", "refused", "dropped"}]
        /\ store \in [Jobs -> Statuses \cup {"none"}] /\ mem \in [Jobs -> Statuses \cup {"none"}]
        /\ file \in [Jobs -> {"none", "open", "complete", "cut"}] /\ task \in [Jobs -> Phases]
        /\ told \in [Jobs -> Statuses \cup {"none"}]
        /\ settled \in [Jobs -> {"no", "finished", "raised"}]
    BY <2>1, Zenon DEF Init, Statuses, Phases
  <2>4. 0 \in 0..MaxCost /\ 0 \in 0..MaxTries
    BY ServiceAssumption
  <2>5. /\ cost \in [Jobs -> 0..MaxCost] /\ estimate \in [Jobs -> 0..MaxCost]
        /\ tries \in [Jobs -> 0..MaxTries]
    BY <2>1, <2>4, Zenon DEF Init
  <2> QED
    BY <2>2, <2>3, <2>5 DEF Init, TypeOK
<1>2. ASSUME NEW j \in Jobs
      PROVE  /\ req[j] = "none" /\ store[j] = "none" /\ mem[j] = "none" /\ task[j] = "none"
             /\ told[j] = "none" /\ tries[j] = 0 /\ ~asked[j] /\ ~hit[j]
  BY <1>2 DEF Init, All
<1>3. \A j \in Jobs : Known(j) /\ Follows(j) /\ Promises(j)
  BY <1>2 DEF Known, Follows, Promises, Unsaved, Early, Terminal
<1>4. Gone /\ ~refused
  BY DEF Init, Gone
<1> QED
  BY <1>1, <1>2, <1>3, <1>4 DEF IInv

-----------------------------------------------------------------------------
(* Requests.                                                               *)

LEMMA RequestStep ==
  ASSUME IInv, NEW j \in Jobs, Request(j) PROVE IInv'
<1> USE DEF IInv, TypeOK, Gone, Statuses, Phases
<1>1. CASE Submit(j)
  <2>1. /\ UNCHANGED <<up, stops, ledger, store, file, task, raising, hit, mem, cancel, cost,
                      estimate, tries, told, torn, asked, settled>>
        /\ req[j] \in {"none", "refused"} /\ up = "up"
        /\ \/ req' = [req EXCEPT ![j] = "refused"] /\ refused' = TRUE /\ ledger >= Cap
           \/ req' = [req EXCEPT ![j] = "creating"] /\ refused' = refused
    BY <1>1 DEF Submit, procVars, durable, run, money, hook, seen
  <2>2. TypeOK'
    BY <2>1
  <2>3. \A i \in Jobs \ {j} : req'[i] = req[i]
    BY <2>1
  <2>4. \A i \in Jobs : Known(i)' /\ Follows(i)' /\ Promises(i)'
    BY <2>1, <2>3 DEF Known, Follows, Promises
  <2>5. (\A i \in Jobs : hit[i] => task[i] \in Hittable)' /\ Gone'
    BY <2>1
  <2>6. (refused /\ ~torn => ledger >= Cap)'
    BY <2>1
  <2> QED
    BY <2>2, <2>4, <2>5, <2>6
<1>2. CASE Create(j)
  BY <1>2 DEF Create, procVars, run, money, hook, seen, Known, Follows, Promises, Terminal
<1>3. CASE Accept(j)
  BY <1>3 DEF Accept, procVars, durable, money, hook, seen, Known, Follows, Promises,
     Terminal, Early, Unsaved, Hittable
<1>4. CASE Cancel(j)
  BY <1>4 DEF Cancel, procVars, durable, request, run, money, hook, Known, Follows, Promises,
     Terminal
<1> QED
  BY <1>1, <1>2, <1>3, <1>4 DEF Request

-----------------------------------------------------------------------------
(* The task of a job.                                                      *)

LEMMA RunStep ==
  ASSUME IInv, NEW j \in Jobs,
         Begin(j) \/ Enter(j) \/ Call(j) \/ EndIngest(j) \/ Drained(j)
  PROVE  IInv'
<1> USE DEF IInv, TypeOK, Gone, Statuses, Phases, At, GoTo, procVars, durable, request,
            money, hook, seen, Terminal, Early, Unsaved, Hittable
<1>1. CASE Begin(j)
  BY <1>1 DEF Begin, Known, Follows, Promises
<1>2. CASE Enter(j)
  <2>1. /\ UNCHANGED <<up, stops, ledger, req, refused, raising, hit, mem, cancel, cost,
                      estimate, tries, told, torn, asked, settled>>
        /\ task[j] = "entering" /\ ~hit[j]
    BY <1>2 DEF Enter
  <2>2. \E s \in {store[j], mem[j]} : store' = [store EXCEPT ![j] = s]
    BY <1>2 DEF Enter
  <2>3. \/ task' = [task EXCEPT ![j] = "ingesting"] /\ file' = [file EXCEPT ![j] = "open"]
        \/ task' = [task EXCEPT ![j] = "settling"] /\ file' = file
    BY <1>2, Zenon DEF Enter
  <2>4. mem[j] = "running" /\ store[j] \notin Terminal
    BY <2>1 DEF Follows
  <2>5. TypeOK'
    BY <2>1, <2>2, <2>3
  <2>6. \A i \in Jobs \ {j} :
          store'[i] = store[i] /\ file'[i] = file[i] /\ task'[i] = task[i]
    BY <2>2, <2>3
  <2>7. \A i \in Jobs : Known(i)'
    BY <2>1, <2>2, <2>3, <2>4, <2>6 DEF Known
  <2>8. \A i \in Jobs : Follows(i)'
    BY <2>1, <2>2, <2>3, <2>4, <2>6 DEF Follows
  <2>9. \A i \in Jobs : Promises(i)'
    BY <2>1, <2>2, <2>3, <2>4, <2>6 DEF Promises
  <2> QED
    BY <2>1, <2>3, <2>5, <2>7, <2>8, <2>9
<1>3. CASE Call(j)
  BY <1>3, ServiceAssumption DEF Call, run, Known, Follows, Promises
<1>4. CASE EndIngest(j)
  BY <1>4 DEF EndIngest, Known, Follows, Promises
<1>5. CASE Drained(j)
  BY <1>5 DEF Drained, Known, Follows, Promises
<1> QED
  BY <1>1, <1>2, <1>3, <1>4, <1>5

LEMMA FinishStep ==
  ASSUME IInv, NEW j \in Jobs,
         Closed(j) \/ CloseRaises(j) \/ Save(j) \/ NoHook(j) \/ Post(j) \/ Settle(j)
  PROVE  IInv'
<1> USE DEF IInv, TypeOK, Gone, Statuses, Phases, At, GoTo, procVars, durable, request,
            money, hook, seen, Terminal, Early, Unsaved, Hittable
<1>1. CASE Closed(j)
  <2>1. /\ UNCHANGED <<up, stops, ledger, req, refused, raising, hit, store, cancel, cost,
                      tries, told, torn, asked, settled>>
        /\ task[j] = "closing" /\ ~hit[j] /\ file' = [file EXCEPT ![j] = "complete"]
    BY <1>1 DEF Closed
  <2>2. \/ /\ task' = [task EXCEPT ![j] = "saving"]
           /\ estimate' = [estimate EXCEPT ![j] = cost[j]]
           /\ mem' = [mem EXCEPT ![j] = IF cancel[j] THEN "cancelled" ELSE "finished"]
        \/ task' = [task EXCEPT ![j] = "settling"] /\ estimate' = estimate /\ mem' = mem
    BY <1>1, Zenon DEF Closed, Finish
  <2>3. /\ mem[j] = "running" /\ store[j] \notin Terminal /\ tries[j] = 0
        /\ asked[j] => cancel[j]
    BY <2>1 DEF Follows, Promises
  <2>4. TypeOK'
    BY <2>1, <2>2
  <2>5. \A i \in Jobs \ {j} : mem'[i] = mem[i] /\ file'[i] = file[i] /\ task'[i] = task[i]
    BY <2>1, <2>2
  <2>6. \A i \in Jobs : Known(i)'
    BY <2>1, <2>2, <2>3, <2>5 DEF Known
  <2>7. \A i \in Jobs : Follows(i)'
    BY <2>1, <2>2, <2>3, <2>5 DEF Follows
  <2>8. \A i \in Jobs : Promises(i)'
    BY <2>1, <2>2, <2>3, <2>5 DEF Promises
  <2>9. (\A i \in Jobs : hit[i] => task[i] \in Hittable)' /\ Gone'
    BY <2>1, <2>2, <2>3
  <2> QED
    BY <2>1, <2>4, <2>6, <2>7, <2>8, <2>9
<1>2. CASE CloseRaises(j)
  BY <1>2 DEF CloseRaises, Known, Follows, Promises
<1>3. CASE Save(j)
  BY <1>3, ServiceAssumption DEF Save, Known, Follows, Promises
<1>4. CASE NoHook(j)
  BY <1>4 DEF NoHook, Known, Follows, Promises
<1>5. CASE Post(j)
  BY <1>5, ServiceAssumption DEF Post, Known, Follows, Promises
<1>6. CASE Settle(j)
  BY <1>6, ServiceAssumption DEF Settle, RecordSpend, Known, Follows, Promises
<1> QED
  BY <1>1, <1>2, <1>3, <1>4, <1>5, <1>6

LEMMA StruckStep ==
  ASSUME IInv, NEW j \in Jobs, Struck(j) PROVE IInv'
BY DEF Struck, AfterHit, IInv, TypeOK, Gone, Statuses, Phases, GoTo, procVars, request,
       money, hook, seen, Terminal, Early, Unsaved, Hittable, Known, Follows, Promises

-----------------------------------------------------------------------------
(* The end of a process.                                                   *)

LEMMA DownStep ==
  ASSUME IInv, Down, ledger' \in Nat, torn' \in BOOLEAN,
         refused /\ ~torn' => ~torn /\ ledger' = ledger
  PROVE  IInv'
BY DEF Down, All, IInv, TypeOK, Gone, Statuses, Phases, money, hook, Terminal, Early,
       Unsaved, Hittable, Known, Follows, Promises

LEMMA ServiceStep == IInv /\ [Next]_vars => IInv'
<1> SUFFICES ASSUME IInv, [Next]_vars PROVE IInv'
  OBVIOUS
<1>1. ASSUME NEW j \in Jobs, Request(j) \/ TaskStep(j) \/ Call(j) PROVE IInv'
  BY <1>1, RequestStep, RunStep, FinishStep, StruckStep DEF TaskStep
<1>2. ASSUME NEW j \in Jobs, CrashInSettle(j) PROVE IInv'
  BY <1>2, DownStep DEF CrashInSettle
<1>3. CASE Stop \/ Crash
  BY <1>3, DownStep DEF Stop, Crash, IInv, TypeOK
<1>4. CASE Shutdown
  BY <1>4 DEF Shutdown, IInv, TypeOK, Gone, Statuses, Phases, durable, request, money, hook,
     seen, Terminal, Early, Unsaved, Hittable, Known, Follows, Promises
<1>5. CASE Restart
  BY <1>5 DEF Restart, IInv, TypeOK, Gone, durable, request, run, money, hook, seen,
     Known, Follows, Promises
<1>6. CASE UNCHANGED vars
  BY <1>6 DEF vars, IInv, TypeOK, Gone, procVars, durable, request, run, money, hook, seen,
     Known, Follows, Promises
<1> QED
  BY <1>1, <1>2, <1>3, <1>4, <1>5, <1>6 DEF Next

LEMMA ServiceInvariant == Spec => []IInv
BY ServiceInit, ServiceStep, PTL DEF Spec

(* Every variable keeps its type, and no webhook is posted too often.      *)
THEOREM ServiceTyped == Spec => []TypeOK
BY ServiceInvariant, PTL DEF IInv

(* What a client was told stays so, through every crash and restart.       *)
THEOREM NothingTakenBack == Spec => []ToldIsTrue
<1>1. IInv => ToldIsTrue
  BY DEF IInv, Known, Follows, Promises, ToldIsTrue, Shown
<1> QED
  BY <1>1, ServiceInvariant, PTL

(* A download that is not refused reads a complete file.                   *)
THEOREM DownloadsComplete == Spec => []DownloadComplete
<1>1. IInv => DownloadComplete
  BY DEF IInv, Promises, DownloadComplete, Shown
<1> QED
  BY <1>1, ServiceInvariant, PTL

(* A cancel that was accepted in time is what the job ends with.           *)
THEOREM CancelsHonoured == Spec => []CancelHonoured
<1>1. IInv => CancelHonoured
  BY DEF IInv, Promises, CancelHonoured, Shown
<1> QED
  BY <1>1, ServiceInvariant, PTL

-----------------------------------------------------------------------------
(* The ledger.  A job is settled once, at the end of its task; by then no  *)
(* call of it can be charged any more if it ran to its end, and if it did  *)
(* not nothing was ever computed to record.                                *)

Finished == {j \in Jobs : settled[j] = "finished"}

Accounted(j) ==
  /\ settled[j] # "no" => task[j] \in {"none", "done"} /\ req[j] = "accepted"
  /\ settled[j] = "finished" => file[j] = "complete"
  /\ mem[j] \in Terminal => estimate[j] = cost[j]
  /\ req[j] # "accepted" \/ mem[j] \in {"queued", "running"} => estimate[j] = 0

LedgerInv ==
  /\ \A j \in Jobs : Accounted(j)
  /\ IsFiniteSet(Charges(Finished))
  /\ LedgerCoversSettled

(* What one more job adds to the charges.                                  *)
LEMMA ChargesAdded ==
  ASSUME NEW S, IsFiniteSet(Charges(S)), NEW j, j \notin S, cost[j] \in Nat
  PROVE  /\ IsFiniteSet(Charges(S \cup {j}))
         /\ CostOf(S \cup {j}) = CostOf(S) + cost[j]
<1> DEFINE mine == {j} \X (1..cost[j])
<1>1. IsFiniteSet(1..cost[j]) /\ Cardinality(1..cost[j]) = cost[j]
  <2>1. /\ IsFiniteSet(1..cost[j])
        /\ Cardinality(1..cost[j]) = IF 1 > cost[j] THEN 0 ELSE cost[j] - 1 + 1
    BY FS_Interval
  <2> QED
    BY <2>1
<1>2. IsFiniteSet({j}) /\ Cardinality({j}) = 1
  BY FS_Singleton
<1>3. IsFiniteSet(mine) /\ Cardinality(mine) = cost[j]
  <2>1. IsFiniteSet(mine) /\ Cardinality(mine) = Cardinality({j}) * Cardinality(1..cost[j])
    BY <1>1, <1>2, FS_Product
  <2> QED
    BY <1>1, <1>2, <2>1
<1>4. Charges(S \cup {j}) = Charges(S) \cup mine
  BY DEF Charges
<1>5. Charges(S) \cap mine = {}
  BY DEF Charges
<1>6. Cardinality(Charges(S) \cap mine) = 0
  BY <1>5, FS_EmptySet
<1>7. Cardinality(Charges(S)) \in Nat
  BY FS_CardinalityType
<1> HIDE DEF mine
<1>8. /\ IsFiniteSet(Charges(S) \cup mine)
      /\ Cardinality(Charges(S) \cup mine) =
           Cardinality(Charges(S)) + Cardinality(mine) - Cardinality(Charges(S) \cap mine)
  BY <1>3, FS_Union
<1>9. Cardinality(Charges(S) \cup mine) = Cardinality(Charges(S)) + cost[j]
  BY <1>3, <1>6, <1>7, <1>8
<1> QED
  BY <1>4, <1>8, <1>9, Zenon DEF CostOf

(* The charges of jobs that are charged no more stay as they are.          *)
LEMMA ChargesKept ==
  ASSUME settled' = settled, \A j \in Finished : cost'[j] = cost[j]
  PROVE  Finished' = Finished /\ Charges(Finished)' = Charges(Finished)
<1>1. Finished' = Finished
  BY DEF Finished
<1>2. Charges(Finished)' = UNION {{j} \X (1..cost'[j]) : j \in Finished}
  BY <1>1 DEF Charges
<1>3. Charges(Finished) = UNION {{j} \X (1..cost[j]) : j \in Finished}
  BY DEF Charges
<1> QED
  BY <1>1, <1>2, <1>3

LEMMA LedgerKept ==
  ASSUME LedgerInv, settled' = settled, \A j \in Finished : cost'[j] = cost[j],
         ~torn' => ~torn /\ ledger' = ledger
  PROVE  IsFiniteSet(Charges(Finished)') /\ LedgerCoversSettled'
<1>1. Finished' = Finished /\ Charges(Finished)' = Charges(Finished)
  BY ChargesKept DEF LedgerInv
<1>2. LedgerCoversSettled <=> (~torn => ledger = Cardinality(Charges(Finished)))
  BY DEF LedgerCoversSettled, CostOf, Finished
<1>3. LedgerCoversSettled' <=> (~torn' => ledger' = Cardinality(Charges(Finished)'))
  BY DEF LedgerCoversSettled, CostOf, Finished
<1> QED
  BY <1>1, <1>2, <1>3 DEF LedgerInv

LEMMA SettleLedger ==
  ASSUME IInv, LedgerInv, NEW j \in Jobs, Settle(j) PROVE LedgerInv'
<1> USE DEF IInv, TypeOK, Statuses, Phases
<1>1. /\ task[j] = "settling" /\ task' = [task EXCEPT ![j] = "done"]
      /\ ledger' = ledger + estimate[j]
      /\ settled' = [settled EXCEPT ![j] =
                       IF mem[j] \in Terminal THEN "finished" ELSE "raised"]
      /\ UNCHANGED <<req, file, mem, cost, estimate, torn>>
  BY DEF Settle, GoTo, RecordSpend, request, money, seen
<1>2. settled[j] = "no" /\ mem[j] # "none" /\ req[j] = "accepted"
  BY <1>1 DEF LedgerInv, Accounted, Known
<1>3. \A i \in Jobs : Accounted(i)'
  BY <1>1, <1>2 DEF LedgerInv, Accounted, Promises
<1>4. cost[j] \in Nat /\ j \notin Finished
  BY <1>2, ServiceAssumption DEF Finished
<1>5. ASSUME NEW S PROVE Charges(S)' = Charges(S)
  BY <1>1 DEF Charges
<1>6. CASE mem[j] \in Terminal
  <2>1. Finished' = Finished \cup {j}
    BY <1>1, <1>6 DEF Finished
  <2>2. estimate[j] = cost[j]
    BY <1>6 DEF LedgerInv, Accounted
  <2>3. /\ IsFiniteSet(Charges(Finished \cup {j}))
        /\ CostOf(Finished \cup {j}) = CostOf(Finished) + cost[j]
    BY <1>4, ChargesAdded DEF LedgerInv
  <2>4. Charges(Finished)' = Charges(Finished \cup {j})
    BY <1>1, <2>1 DEF Charges
  <2>5. LedgerCoversSettled'
    BY <1>1, <2>2, <2>3, <2>4 DEF LedgerInv, LedgerCoversSettled, CostOf, Finished
  <2> QED
    BY <1>3, <2>3, <2>4, <2>5 DEF LedgerInv
<1>7. CASE mem[j] \notin Terminal
  <2>1. Finished' = Finished
    BY <1>1, <1>2, <1>7 DEF Finished
  <2>2. estimate[j] = 0
    BY <1>2, <1>7 DEF LedgerInv, Accounted, Terminal
  <2>3. Charges(Finished)' = Charges(Finished)
    BY <1>1, <2>1 DEF Charges
  <2>4. LedgerCoversSettled'
    BY <1>1, <2>2, <2>3 DEF LedgerInv, LedgerCoversSettled, CostOf, Finished
  <2> QED
    BY <1>3, <2>3, <2>4 DEF LedgerInv
<1> QED
  BY <1>6, <1>7

LEMMA LedgerInit == Init => LedgerInv
<1> SUFFICES ASSUME Init PROVE LedgerInv
  OBVIOUS
<1>1. \A j \in Jobs : Accounted(j) /\ settled[j] = "no"
  BY DEF Init, All, Accounted, Terminal
<1>2. Finished = {}
  BY <1>1 DEF Finished
<1>3. Charges(Finished) = {}
  BY <1>2 DEF Charges
<1>4. IsFiniteSet(Charges(Finished)) /\ Cardinality(Charges(Finished)) = 0
  BY <1>3, FS_EmptySet
<1>5. ledger = 0
  BY DEF Init
<1> QED
  BY <1>1, <1>4, <1>5 DEF LedgerInv, LedgerCoversSettled, CostOf, Finished

LEMMA LedgerStep == IInv /\ LedgerInv /\ [Next]_vars => LedgerInv'
<1> SUFFICES ASSUME IInv, LedgerInv, [Next]_vars PROVE LedgerInv'
  OBVIOUS
<1> USE DEF IInv, TypeOK, Statuses, Phases, Terminal, LedgerInv
<1> DEFINE Kept == /\ settled' = settled /\ \A j \in Finished : cost'[j] = cost[j]
                   /\ ~torn' => ~torn /\ ledger' = ledger
<1>1. ASSUME \A i \in Jobs : Accounted(i)', Kept PROVE LedgerInv'
  BY <1>1, LedgerKept
<1>2. ASSUME NEW j \in Jobs, Request(j) PROVE LedgerInv'
  <2>1. Kept
    BY <1>2 DEF Request, Submit, Create, Accept, Cancel, durable, money, seen
  <2>2. \A i \in Jobs : Accounted(i)'
    BY <1>2 DEF Accounted, Known, Request, Submit, Create, Accept, Cancel, durable, request,
                run, money, seen
  <2> QED
    BY <1>1, <2>1, <2>2
<1>3. ASSUME NEW j \in Jobs, Call(j) PROVE LedgerInv'
  <2>1. /\ file[j] = "open" /\ cost' = [cost EXCEPT ![j] = @ + 1]
        /\ UNCHANGED <<ledger, torn, settled, task, req, file, mem, estimate>>
    BY <1>3 DEF Call, durable, request, run, seen
  <2>2. Kept
    BY <2>1 DEF Accounted, Finished
  <2>3. \A i \in Jobs : Accounted(i)'
    BY <2>1 DEF Accounted, Promises
  <2> QED
    BY <1>1, <2>2, <2>3
<1>4. ASSUME NEW j \in Jobs, TaskStep(j) PROVE LedgerInv'
  <2>1. CASE Settle(j)
    BY <2>1, SettleLedger
  <2>2. CASE ~Settle(j)
    <3>1. Kept
      BY <1>4, <2>2 DEF TaskStep, Begin, Enter, EndIngest, Drained, Closed, Finish,
         CloseRaises, Save, NoHook, Post, Struck, durable, money, seen
    <3>2. \A i \in Jobs : Accounted(i)'
      <4> USE DEF Accounted, Known, Follows, At, GoTo, durable, request, money, seen, Early,
                  Unsaved
      <4>1. CASE Begin(j) \/ EndIngest(j) \/ Drained(j)
        BY <4>1 DEF Begin, EndIngest, Drained
      <4>2. CASE Enter(j)
        BY <4>2 DEF Enter
      <4>3. CASE Closed(j) \/ CloseRaises(j)
        BY <4>3 DEF Closed, Finish, CloseRaises
      <4>4. CASE Save(j) \/ NoHook(j) \/ Post(j)
        BY <4>4 DEF Save, NoHook, Post
      <4>5. CASE Struck(j)
        <5>1. /\ task[j] \in Hittable
              /\ task' = [task EXCEPT ![j] = AfterHit[task[j]]]
              /\ file' = [file EXCEPT ![j] = IF task[j] = "closing" THEN "cut" ELSE @]
              /\ UNCHANGED <<req, mem, cost, estimate, settled>>
          BY <4>5 DEF Struck
        <5>2. settled[j] = "no"
          BY <5>1 DEF Hittable
        <5> QED
          BY <5>1, <5>2
      <4> QED
        BY <1>4, <2>2, <4>1, <4>2, <4>3, <4>4, <4>5 DEF TaskStep
    <3> QED
      BY <1>1, <3>1, <3>2
  <2> QED
    BY <2>1, <2>2
<1>5. CASE Down /\ (~torn' => ~torn /\ ledger' = ledger)
  <2>1. Kept
    BY <1>5 DEF Down, money
  <2>2. \A i \in Jobs : Accounted(i)'
    BY <1>5 DEF Accounted, Down, All, money
  <2> QED
    BY <1>1, <2>1, <2>2
<1>6. CASE Shutdown \/ Restart \/ UNCHANGED vars
  <2>1. Kept
    BY <1>6 DEF Shutdown, Restart, vars, durable, money, seen
  <2>2. \A i \in Jobs : Accounted(i)'
    BY <1>6 DEF Accounted, Shutdown, Restart, vars, durable, request, run, money, seen
  <2> QED
    BY <1>1, <2>1, <2>2
<1>7. ASSUME NEW j \in Jobs, CrashInSettle(j) PROVE LedgerInv'
  BY <1>5, <1>7 DEF CrashInSettle
<1>8. CASE Stop \/ Crash
  BY <1>5, <1>8 DEF Stop, Crash
<1> QED
  BY <1>2, <1>3, <1>4, <1>6, <1>7, <1>8 DEF Next

(* The ledger is the sum over the jobs that ran to their end.              *)
THEOREM LedgerIsComplete == Spec => []LedgerCoversSettled
<1>1. LedgerInv => LedgerCoversSettled
  BY DEF LedgerInv
<1> QED
  BY <1>1, ServiceInvariant, LedgerInit, LedgerStep, PTL DEF Spec

-----------------------------------------------------------------------------
(* Once refused, always refused, as long as the ledger is not torn.        *)
THEOREM RefusedForEver == Spec => RefusalIsDurable
<1>1. IInv /\ [Next]_vars =>
        [refused /\ ~torn' =>
           \A j \in Jobs : req'[j] = "creating" => req[j] = "creating"]_vars
  <2> SUFFICES ASSUME IInv, [Next]_vars, refused, ~torn',
                      NEW j \in Jobs, req'[j] = "creating", req[j] # "creating"
               PROVE  FALSE
    OBVIOUS
  <2>1. ~(UNCHANGED vars \/ Shutdown \/ Stop \/ Crash \/ Restart)
    BY DEF vars, Shutdown, Stop, Crash, Restart, Down, request
  <2>2. PICK i \in Jobs : Request(i) \/ TaskStep(i) \/ Call(i) \/ CrashInSettle(i)
    BY <2>1 DEF Next
  <2>3. ~(TaskStep(i) \/ Call(i) \/ CrashInSettle(i))
    BY DEF TaskStep, Begin, Enter, Call, EndIngest, Drained, Closed, CloseRaises, Save,
           NoHook, Post, Settle, Struck, CrashInSettle, Down, request
  <2>4. Submit(i)
    BY <2>2, <2>3 DEF Request, Create, Accept, Cancel, request, IInv, TypeOK
  <2>5. ~torn /\ ledger >= Cap
    BY <2>4 DEF Submit, seen, IInv
  <2> QED
    BY <2>4, <2>5 DEF Submit, IInv, TypeOK
<1> QED
  BY <1>1, ServiceInvariant, PTL DEF Spec, RefusalIsDurable

-----------------------------------------------------------------------------
(* The jobs are runs.  A job without a task leaves nothing of one behind.  *)

Rests(j) == task[j] = "none" => ~cancel[j] /\ ~raising[j] /\ file[j] # "open"

LEMMA RestsInit == Init => \A j \in Jobs : Rests(j)
BY DEF Init, All, Rests

LEMMA RestsStep ==
  ASSUME IInv, [Next]_vars, \A j \in Jobs : Rests(j), NEW i \in Jobs PROVE Rests(i)'
<1> USE DEF IInv, TypeOK, Rests, procVars, durable, request, run, money, hook, seen
<1>1. CASE UNCHANGED <<file, task, cancel, raising>>
  BY <1>1
<1>2. ASSUME NEW j \in Jobs, Request(j) PROVE Rests(i)'
  BY <1>2 DEF Request, Submit, Create, Accept, Cancel, Known
<1>3. ASSUME NEW j \in Jobs, TaskStep(j) PROVE Rests(i)'
  <2>1. task[j] # "none" /\ task'[j] # "none"
    BY <1>3 DEF TaskStep, Begin, Enter, EndIngest, Drained, Closed, CloseRaises, Finish, Save,
                NoHook, Post, Settle, Struck, AfterHit, At, GoTo, Hittable, Unsaved, Early
  <2>2. \A k \in Jobs \ {j} : /\ task'[k] = task[k] /\ cancel'[k] = cancel[k]
                             /\ raising'[k] = raising[k] /\ file'[k] = file[k]
    BY <1>3 DEF TaskStep, Begin, Enter, EndIngest, Drained, Closed, CloseRaises, Finish, Save,
                NoHook, Post, Settle, Struck, At, GoTo
  <2> QED
    BY <2>1, <2>2
<1>4. ASSUME NEW j \in Jobs, Call(j) PROVE Rests(i)'
  BY <1>1, <1>4 DEF Call
<1>5. CASE Down
  BY <1>5 DEF Down, All
<1>6. CASE Shutdown \/ Restart
  BY <1>1, <1>6 DEF Shutdown, Restart
<1> QED
  BY <1>1, <1>2, <1>3, <1>4, <1>5, <1>6 DEF Next, vars, Stop, Crash, CrashInSettle

LEMMA RunsInit == ASSUME Init, NEW j \in Jobs PROVE Run(j)!Init
BY DEF Init, All, Run!Init, PhaseOf, Before

Steps(j) == Run(j)!Next \/ UNCHANGED Run(j)!vars

(* Another job's step is none of this one.                                 *)
LEMMA RunKept ==
  ASSUME NEW i \in Jobs, req'[i] = req[i], task'[i] = task[i], mem'[i] = mem[i],
         store'[i] = store[i], file'[i] = file[i], cancel'[i] = cancel[i],
         raising'[i] = raising[i]
  PROVE  Steps(i)
BY DEF Steps, Run!vars, PhaseOf, Before

LEMMA RunsRequest ==
  ASSUME IInv, NEW j \in Jobs, Request(j), NEW i \in Jobs PROVE Steps(i)
<1> USE DEF IInv, TypeOK, procVars, durable, request, run, money, hook, seen
<1>1. CASE i # j
  BY <1>1, RunKept DEF Request, Submit, Create, Accept, Cancel
<1>2. CASE i = j
  <2>1. CASE Submit(j) \/ Create(j)
    BY <1>2, <2>1 DEF Submit, Create, Steps, Run!vars, PhaseOf, Before
  <2>2. CASE Accept(j)
    BY <1>2, <2>2 DEF Accept, Known, Steps, Run!vars, PhaseOf, Before
  <2>3. CASE Cancel(j)
    <3>1. Run(j)!Cancel
      BY <1>2, <2>3 DEF Cancel, Known, Phases, Run!Cancel, PhaseOf, Before
    <3> QED
      BY <1>2, <3>1 DEF Steps, Run!Next
  <2> QED
    BY <2>1, <2>2, <2>3 DEF Request
<1> QED
  BY <1>1, <1>2

(* A job that has a task is in the phase the task is in, until run() is    *)
(* left.                                                                   *)
LEMMA RunView ==
  ASSUME IInv, NEW j \in Jobs, task[j] # "none"
  PROVE  /\ req[j] = "accepted"
         /\ task[j] \in Unsaved => PhaseOf(j) = task[j]
         /\ task[j] \notin Unsaved => PhaseOf(j) = "left"
         /\ \A q, v : Before(j, q, v) = v
BY DEF IInv, TypeOK, Known, PhaseOf, Before, Unsaved, Early, Phases

LEMMA RunViewNext ==
  ASSUME NEW j \in Jobs, req'[j] = "accepted", task'[j] \in Phases \ {"none"}
  PROVE  /\ task'[j] \in Unsaved => PhaseOf(j)' = task'[j]
         /\ task'[j] \notin Unsaved => PhaseOf(j)' = "left"
         /\ Before(j, "queued", mem[j])' = mem'[j]
         /\ Before(j, "queued", store[j])' = store'[j]
BY DEF PhaseOf, Before, Unsaved, Early, Phases

LEMMA RunsTask ==
  ASSUME IInv, NEW j \in Jobs, TaskStep(j) PROVE Steps(j)
<1> USE DEF IInv, TypeOK, procVars, durable, request, run, money, hook, seen
<1>1. /\ task[j] # "none" /\ task'[j] \in Phases \ {"none"} /\ req' = req
      /\ cancel' = cancel
  BY DEF TaskStep, Begin, Enter, EndIngest, Drained, Closed, CloseRaises, Finish, Save,
         NoHook, Post, Settle, Struck, AfterHit, At, GoTo, Hittable, Unsaved, Early, Phases
<1>2. /\ task[j] \in Unsaved => PhaseOf(j) = task[j]
      /\ task[j] \notin Unsaved => PhaseOf(j) = "left"
      /\ Before(j, "queued", mem[j]) = mem[j] /\ Before(j, "queued", store[j]) = store[j]
      /\ task'[j] \in Unsaved => PhaseOf(j)' = task'[j]
      /\ task'[j] \notin Unsaved => PhaseOf(j)' = "left"
      /\ Before(j, "queued", mem[j])' = mem'[j]
      /\ Before(j, "queued", store[j])' = store'[j]
  BY <1>1, RunView, RunViewNext
<1> USE DEF Unsaved, Early, At, GoTo
<1>3. CASE Begin(j)
  BY <1>1, <1>2, <1>3 DEF Begin, Follows, Steps, Run!Next, Run!Begin, Run!GoTo
<1>4. CASE Enter(j)
  BY <1>1, <1>2, <1>4 DEF Enter, Steps, Run!Next, Run!Enter, Run!GoTo, Run!Leave, Run!MaySave
<1>5. CASE EndIngest(j)
  BY <1>1, <1>2, <1>5 DEF EndIngest, Steps, Run!Next, Run!EndIngest
<1>6. CASE Drained(j)
  BY <1>1, <1>2, <1>6 DEF Drained, Steps, Run!Next, Run!Drain, Run!GoTo
<1>7. CASE Closed(j)
  BY <1>1, <1>2, <1>7 DEF Closed, Finish, Steps, Run!Next, Run!Close, Run!GoTo, Run!Leave
<1>8. CASE CloseRaises(j)
  BY <1>1, <1>2, <1>8 DEF CloseRaises, Steps, Run!Next, Run!Close, Run!Leave
<1>9. CASE Save(j)
  BY <1>1, <1>2, <1>9 DEF Save, Steps, Run!Next, Run!Save, Run!Leave, Run!MaySave
<1>10. CASE NoHook(j) \/ Post(j) \/ Settle(j)
  BY <1>1, <1>2, <1>10 DEF NoHook, Post, Settle, Steps, Run!vars
<1>11. CASE Struck(j)
  <2>1. /\ hit[j] /\ task[j] \in Hittable /\ mem' = mem
        /\ task'[j] = AfterHit[task[j]] /\ raising'[j] = TRUE
        /\ IF task[j] \in {"entering", "saving"} THEN store'[j] \in {store[j], mem[j]}
           ELSE store' = store
        /\ file'[j] = IF task[j] = "closing" THEN "cut" ELSE file[j]
    BY <1>11 DEF Struck
  <2>2. CASE task[j] = "begun"
    BY <1>1, <1>2, <2>1, <2>2 DEF AfterHit, Steps, Run!Next, Run!Begin, Run!Leave
  <2>3. CASE task[j] = "entering"
    BY <1>1, <1>2, <2>1, <2>3 DEF AfterHit, Steps, Run!Next, Run!Enter, Run!Leave, Run!MaySave
  <2>4. CASE task[j] = "ingesting"
    BY <1>1, <1>2, <2>1, <2>4 DEF AfterHit, Steps, Run!Next, Run!EndIngest
  <2>5. CASE task[j] = "draining"
    BY <1>1, <1>2, <2>1, <2>5 DEF AfterHit, Steps, Run!Next, Run!Drain, Run!Leave
  <2>6. CASE task[j] = "closing"
    BY <1>1, <1>2, <2>1, <2>6 DEF AfterHit, Steps, Run!Next, Run!Close, Run!Leave
  <2>7. CASE task[j] = "saving"
    BY <1>1, <1>2, <2>1, <2>7 DEF AfterHit, Steps, Run!Next, Run!Save, Run!Leave, Run!MaySave
  <2>8. CASE task[j] = "telling"
    BY <1>1, <1>2, <2>1, <2>8 DEF AfterHit, Steps, Run!vars
  <2> QED
    BY <2>1, <2>2, <2>3, <2>4, <2>5, <2>6, <2>7, <2>8 DEF Hittable
<1> QED
  BY <1>3, <1>4, <1>5, <1>6, <1>7, <1>8, <1>9, <1>10, <1>11 DEF TaskStep

LEMMA RunsDown ==
  ASSUME IInv, NEW j \in Jobs, Rests(j), Down PROVE Steps(j)
<1> USE DEF IInv, TypeOK, Down, All, Rests
<1>1. CASE req[j] # "accepted"
  <2>1. task[j] = "none"
    BY <1>1 DEF Known
  <2> QED
    BY <1>1, <2>1 DEF Steps, Run!vars, PhaseOf, Before
<1>2. CASE req[j] = "accepted" /\ task[j] = "none"
  BY <1>2 DEF Known, Steps, Run!vars, PhaseOf, Before
<1>3. CASE req[j] = "accepted" /\ task[j] # "none"
  <2>1. Run(j)!Die
    BY <1>3 DEF Phases, Run!Die, PhaseOf, Before
  <2> QED
    BY <2>1 DEF Steps, Run!Next
<1> QED
  BY <1>1, <1>2, <1>3

LEMMA RunsStep ==
  ASSUME IInv, [Next]_vars, NEW i \in Jobs, Rests(i) PROVE Steps(i)
<1> USE DEF procVars, durable, request, run, money, hook, seen
<1>1. CASE UNCHANGED <<req, task, mem, store, file, cancel, raising>>
  BY <1>1, RunKept
<1>2. ASSUME NEW j \in Jobs, Request(j) PROVE Steps(i)
  BY <1>2, RunsRequest
<1>3. ASSUME NEW j \in Jobs, TaskStep(j) PROVE Steps(i)
  <2>1. CASE i # j
    BY <1>3, <2>1, RunKept
       DEF IInv, TypeOK, TaskStep, Begin, Enter, EndIngest, Drained, Closed, CloseRaises,
           Finish, Save, NoHook, Post, Settle, Struck, At, GoTo
  <2> QED
    BY <1>3, <2>1, RunsTask
<1>4. ASSUME NEW j \in Jobs, Call(j) PROVE Steps(i)
  BY <1>1, <1>4 DEF Call
<1>5. CASE Down
  BY <1>5, RunsDown
<1>6. CASE Shutdown \/ Restart
  BY <1>1, <1>6 DEF Shutdown, Restart
<1> QED
  BY <1>1, <1>2, <1>3, <1>4, <1>5, <1>6 DEF Next, vars, Stop, Crash, CrashInSettle

(* Whatever the service does with its jobs, each is a run as RunPhases     *)
(* describes it, which is what JobRunner is shown to be.                   *)
THEOREM JobsAreRuns == Spec => RunsFollowPhases
<1>1. Init => \A j \in Jobs : Run(j)!Init
  BY RunsInit
<1>2. /\ IInv /\ (\A j \in Jobs : Rests(j)) /\ [Next]_vars => (\A j \in Jobs : Rests(j))'
      /\ IInv /\ (\A j \in Jobs : Rests(j)) /\ [Next]_vars =>
           [\A j \in Jobs : [Run(j)!Next]_(Run(j)!vars)]_vars
  BY RestsStep, RunsStep DEF Steps
<1> QED
  BY <1>1, <1>2, RestsInit, ServiceInvariant, PTL DEF Spec, RunsFollowPhases
=============================================================================
