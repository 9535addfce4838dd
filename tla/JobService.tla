----------------------------- MODULE JobService -----------------------------
(***************************************************************************)
(* The service around the jobs: submit, cancel, status and download of     *)
(* api/routes.py, the task that runs a job and settles its spending, the   *)
(* store and the ledger that outlive the process, the completion webhook,  *)
(* and the ends of a process: shutdown (main.py) and crash.                *)
(*                                                                         *)
(* A job here is the sequence of places where JobRunner.run() can be       *)
(* suspended, fail or be cancelled; what happens to its rows in between is *)
(* the subject of JobRunner.  All jobs are live: the mock provider's never *)
(* reach the ledger.                                                       *)
(***************************************************************************)
EXTENDS Integers, FiniteSets

CONSTANTS
  Jobs,
  Cap,       \* MAX_TOTAL_SPEND_USD
  MaxCost,   \* bound: what the calls of one job may cost
  MaxTries,  \* _MAX_ATTEMPTS of the webhook (3)
  MaxStops   \* bound: crashes and shutdowns

ASSUME ServiceAssumption ==
  /\ IsFiniteSet(Jobs) /\ Cap \in Nat \ {0} /\ MaxCost \in Nat
  /\ MaxTries \in Nat \ {0} /\ MaxStops \in Nat

VARIABLES
  up,        \* the process: up, stopping (lifespan's finally), down
  stops,     \* times it went down
  ledger,    \* the ledger file
  torn,      \* observer: a crash hit the ledger while it was rewritten
  refused,   \* observer: a submit was answered 402
  req,       \* POST /job: none, creating, created, accepted, refused, dropped
  store,     \* store[j]: the status SQLite holds for j, or none
  file,      \* the result file: none, open, complete, or cut short
  mem,       \* the status in the runner's record, or none: no runner
  cancel,    \* cancel_event
  task,      \* where the job's task is, see Phases
  raising,   \* it is on its way out of run() with an exception
  hit,       \* it was cancelled and has not run since
  cost,      \* what the provider has charged for the job
  estimate,  \* usage.estimated_cost_usd
  tries,     \* webhook attempts made
  told,      \* the status a webhook reported, or none
  asked,     \* observer: cancel was answered 202 before the job had ended
  settled    \* observer: no, or how run() ended: finished, raised

(* Not begun; saving "running"; in _ingest_and_dispatch; waiting for the   *)
(* workers; in sink.close(); in the last save; at the webhook; in the      *)
(* finally clause of _run_and_settle.                                      *)
Phases == {"none", "begun", "entering", "ingesting", "draining", "closing",
           "saving", "telling", "settling", "done"}
Statuses == {"queued", "running", "finished", "cancelled"}
Terminal == {"finished", "cancelled"}   \* "finished": by its rows, or aborted

durable == <<ledger, store, file>>
request == <<req, refused>>
run == <<task, raising, hit, mem>>
money == <<cost, estimate>>
hook == <<tries, told>>
procVars == <<up, stops>>
seen == <<torn, asked, settled>>
vars == <<procVars, durable, request, run, cancel, money, hook, seen>>

All(x) == [j \in Jobs |-> x]

Init ==
  /\ up = "up" /\ stops = 0 /\ ledger = 0 /\ torn = FALSE /\ refused = FALSE
  /\ req = All("none") /\ store = All("none") /\ file = All("none")
  /\ mem = All("none") /\ cancel = All(FALSE) /\ task = All("none")
  /\ raising = All(FALSE) /\ hit = All(FALSE)
  /\ cost = All(0) /\ estimate = All(0) /\ tries = All(0) /\ told = All("none")
  /\ asked = All(FALSE) /\ settled = All("no")

-----------------------------------------------------------------------------
(* Requests.                                                               *)

(* submit_job reads the ledger; a client that was refused may ask again.   *)
Submit(j) ==
  /\ up = "up" /\ req[j] \in {"none", "refused"}
  /\ IF ledger >= Cap
     THEN req' = [req EXCEPT ![j] = "refused"] /\ refused' = TRUE
     ELSE req' = [req EXCEPT ![j] = "creating"] /\ UNCHANGED refused
  /\ UNCHANGED <<procVars, durable, run, cancel, money, hook, seen>>

Create(j) ==   \* store.create returns, or raises: a 500
  /\ up = "up" /\ req[j] = "creating"
  /\ \/ /\ req' = [req EXCEPT ![j] = "created"]
        /\ store' = [store EXCEPT ![j] = "queued"]
     \/ req' = [req EXCEPT ![j] = "dropped"] /\ UNCHANGED store
  /\ UNCHANGED <<procVars, ledger, file, refused, run, cancel, money, hook, seen>>

Accept(j) ==   \* the runner, its task and the 202
  /\ up = "up" /\ req[j] = "created"
  /\ req' = [req EXCEPT ![j] = "accepted"]
  /\ mem' = [mem EXCEPT ![j] = "queued"] /\ task' = [task EXCEPT ![j] = "begun"]
  /\ UNCHANGED <<procVars, durable, refused, raising, hit, cancel, money, hook, seen>>

Cancel(j) ==   \* without a runner the answer is 409
  /\ up = "up" /\ mem[j] # "none"
  /\ cancel' = [cancel EXCEPT ![j] = TRUE]
  /\ asked' = [asked EXCEPT ![j] = @ \/ mem[j] \notin Terminal]
  /\ UNCHANGED <<procVars, durable, request, run, money, hook, torn, settled>>

(* The status a client is shown: the runner's record, else the store's.    *)
Shown(j) == IF mem[j] # "none" THEN mem[j] ELSE store[j]

-----------------------------------------------------------------------------
(* The task of a job.                                                      *)

At(j, phase) == task[j] = phase /\ ~hit[j]
GoTo(j, phase) == task' = [task EXCEPT ![j] = phase]

Begin(j) ==
  /\ At(j, "begun") /\ GoTo(j, "entering")
  /\ mem' = [mem EXCEPT ![j] = "running"]
  /\ UNCHANGED <<procVars, durable, request, raising, hit, cancel, money, hook, seen>>

(* The first save returns and the sink opens the file, or one of them      *)
(* raises.                                                                 *)
Enter(j) ==
  /\ At(j, "entering")
  /\ \/ /\ GoTo(j, "ingesting")
        /\ store' = [store EXCEPT ![j] = mem[j]]
        /\ file' = [file EXCEPT ![j] = "open"]
     \/ /\ GoTo(j, "settling") /\ UNCHANGED file
        /\ \E s \in {store[j], mem[j]} : store' = [store EXCEPT ![j] = s]
  /\ UNCHANGED <<procVars, ledger, request, raising, hit, mem, cancel, money, hook, seen>>

(* A worker's call is charged; workers left behind by a cancelled task go  *)
(* on as long as the process does.                                         *)
Call(j) ==
  /\ up # "down" /\ file[j] = "open" /\ task[j] # "closing" /\ cost[j] < MaxCost
  /\ cost' = [cost EXCEPT ![j] = @ + 1]
  /\ UNCHANGED <<procVars, durable, request, run, cancel, estimate, hook, seen>>

(* The file is read, or ingest stopped, or it raised: on a file that does  *)
(* not parse, or a save that failed.                                       *)
EndIngest(j) ==
  /\ At(j, "ingesting") /\ GoTo(j, "draining")
  /\ \E e \in BOOLEAN : raising' = [raising EXCEPT ![j] = e]
  /\ UNCHANGED <<procVars, durable, request, hit, mem, cancel, money, hook, seen>>

Drained(j) ==
  /\ At(j, "draining") /\ GoTo(j, "closing")
  /\ UNCHANGED <<procVars, durable, request, raising, hit, mem, cancel, money, hook, seen>>

(* A definition called a slip is a plausible bug in the one that follows   *)
(* it: no action uses it, and the properties tell the two apart.           *)

FinishSlip(j) ==   \* forgets the cancel of a job whose rows were all done
  /\ GoTo(j, "saving")
  /\ estimate' = [estimate EXCEPT ![j] = cost[j]]
  /\ mem' = [mem EXCEPT ![j] = "finished"]

Finish(j) ==   \* what run() does between sink.close() and the last save
  /\ GoTo(j, "saving")
  /\ estimate' = [estimate EXCEPT ![j] = cost[j]]
  /\ mem' = [mem EXCEPT ![j] = IF cancel[j] THEN "cancelled" ELSE "finished"]

Closed(j) ==
  /\ At(j, "closing")
  /\ file' = [file EXCEPT ![j] = "complete"]
  /\ \/ ~raising[j] /\ Finish(j)
     \/ raising[j] /\ GoTo(j, "settling") /\ UNCHANGED <<estimate, mem>>
  /\ UNCHANGED <<procVars, ledger, store, request, raising, hit, cancel, cost, hook, seen>>

CloseRaisesSlip(j) ==   \* the writer's error is logged and the job goes on
  /\ At(j, "closing") /\ Finish(j)
  /\ file' = [file EXCEPT ![j] = "cut"]
  /\ UNCHANGED <<procVars, ledger, store, request, raising, hit, cancel, cost, hook, seen>>

CloseRaises(j) ==   \* the writer had died
  /\ At(j, "closing") /\ GoTo(j, "settling")
  /\ file' = [file EXCEPT ![j] = "cut"]
  /\ UNCHANGED <<procVars, ledger, store, request, raising, hit, mem, cancel, money, hook, seen>>

SaveSlip(j) ==   \* a save that fails is logged, and the webhook goes out
  /\ At(j, "saving") /\ GoTo(j, "telling")
  /\ \/ store' = [store EXCEPT ![j] = mem[j]]
     \/ UNCHANGED store
  /\ UNCHANGED <<procVars, ledger, file, request, raising, hit, mem, cancel, money, hook, seen>>

Save(j) ==
  /\ At(j, "saving")
  /\ \/ GoTo(j, "telling") /\ store' = [store EXCEPT ![j] = mem[j]]
     \/ GoTo(j, "settling") /\ UNCHANGED store
  /\ UNCHANGED <<procVars, ledger, file, request, raising, hit, mem, cancel, money, hook, seen>>

NoHook(j) ==   \* no webhook was asked for, or its address is not allowed
  /\ At(j, "telling") /\ tries[j] = 0 /\ GoTo(j, "settling")
  /\ UNCHANGED <<procVars, durable, request, raising, hit, mem, cancel, money, hook, seen>>

PostSlip(j) ==   \* goes on until it gets an answer it likes
  /\ At(j, "telling")
  /\ tries' = [tries EXCEPT ![j] = @ + 1]
  /\ \E t \in {told[j], mem[j]} : told' = [told EXCEPT ![j] = t]
  /\ GoTo(j, "telling") \/ GoTo(j, "settling")
  /\ UNCHANGED <<procVars, durable, request, raising, hit, mem, cancel, money, seen>>

PostForever(j) ==   \* the same, and counts the tries of each round
  /\ At(j, "telling")
  /\ tries' = [tries EXCEPT ![j] = (@ + 1) % MaxTries]
  /\ \E t \in {told[j], mem[j]} : told' = [told EXCEPT ![j] = t]
  /\ GoTo(j, "telling") \/ GoTo(j, "settling")
  /\ UNCHANGED <<procVars, durable, request, raising, hit, mem, cancel, money, seen>>

(* An attempt; it may have been received whatever the answer is.           *)
Post(j) ==
  /\ At(j, "telling")
  /\ tries' = [tries EXCEPT ![j] = @ + 1]
  /\ \E t \in {told[j], mem[j]} : told' = [told EXCEPT ![j] = t]
  /\ \/ tries[j] + 1 < MaxTries /\ GoTo(j, "telling")
     \/ GoTo(j, "settling")
  /\ UNCHANGED <<procVars, durable, request, raising, hit, mem, cancel, money, seen>>

RecordSpendSlip(j) == ledger' = estimate[j]   \* the file is rewritten, not added to

RecordSpend(j) == ledger' = ledger + estimate[j]

(* The finally clause of _run_and_settle, which does not suspend.          *)
Settle(j) ==
  /\ task[j] = "settling" /\ GoTo(j, "done")
  /\ RecordSpend(j)
  /\ settled' = [settled EXCEPT ![j] = IF mem[j] \in Terminal THEN "finished" ELSE "raised"]
  /\ UNCHANGED <<procVars, store, file, request, raising, hit, mem, cancel, money, hook, torn, asked>>

-----------------------------------------------------------------------------
(* The end of a process, and the next one.                                 *)

(* The server has answered its requests; every task is cancelled.          *)
Shutdown ==
  /\ up = "up" /\ stops < MaxStops
  /\ \A j \in Jobs : req[j] \notin {"creating", "created"}
  /\ up' = "stopping"
  /\ hit' = [j \in Jobs |-> task[j] \notin {"none", "settling", "done"}]
  /\ UNCHANGED <<stops, durable, request, task, raising, mem, cancel, money, hook, seen>>

(* Where the CancelledError comes up.  A task that never ran does not even *)
(* enter its try; ingest stops and the workers drain the queue; whoever    *)
(* waits for the workers or for the writer leaves the sink unclosed.  A    *)
(* save that is cancelled may have been committed.                         *)
AfterHit == [begun |-> "done", entering |-> "settling", ingesting |-> "draining",
             draining |-> "settling", closing |-> "settling", saving |-> "settling",
             telling |-> "settling"]

Struck(j) ==
  /\ hit[j] /\ hit' = [hit EXCEPT ![j] = FALSE]
  /\ GoTo(j, AfterHit[task[j]])
  /\ raising' = [raising EXCEPT ![j] = TRUE]
  /\ IF task[j] \in {"entering", "saving"}
     THEN \E s \in {store[j], mem[j]} : store' = [store EXCEPT ![j] = s]
     ELSE UNCHANGED store
  /\ file' = [file EXCEPT ![j] = IF task[j] = "closing" THEN "cut" ELSE @]
  /\ UNCHANGED <<procVars, ledger, request, mem, cancel, money, hook, seen>>

Down ==   \* what is left of a process that ended
  /\ up' = "down" /\ stops' = stops + 1
  /\ file' = [j \in Jobs |-> IF file[j] = "open" THEN "cut" ELSE file[j]]
  /\ req' = [j \in Jobs |-> IF req[j] \in {"creating", "created"} THEN "dropped" ELSE req[j]]
  /\ mem' = All("none") /\ task' = All("none") /\ cancel' = All(FALSE)
  /\ raising' = All(FALSE) /\ hit' = All(FALSE)
  /\ UNCHANGED <<store, refused, money, hook, asked, settled>>

Stop ==   \* lifespan has gathered the tasks
  /\ up = "stopping" /\ \A j \in Jobs : task[j] \in {"none", "done"}
  /\ Down /\ UNCHANGED <<ledger, torn>>

Crash ==
  /\ up # "down" /\ stops < MaxStops
  /\ Down /\ UNCHANGED <<ledger, torn>>

(* write_text empties the file before it writes, and an empty ledger reads *)
(* as zero.                                                                *)
CrashInSettle(j) ==
  /\ task[j] = "settling" /\ stops < MaxStops
  /\ Down /\ ledger' = 0 /\ torn' = TRUE

RestartSlip ==   \* a ledger that starts anew with the process
  /\ up = "down" /\ up' = "up" /\ ledger' = 0
  /\ UNCHANGED <<stops, store, file, request, run, cancel, money, hook, seen>>

Restart ==   \* nothing is resumed
  /\ up = "down" /\ up' = "up"
  /\ UNCHANGED <<stops, durable, request, run, cancel, money, hook, seen>>

-----------------------------------------------------------------------------

Request(j) == Submit(j) \/ Create(j) \/ Accept(j) \/ Cancel(j)

TaskStep(j) ==
  \/ Begin(j) \/ Enter(j) \/ EndIngest(j) \/ Drained(j) \/ Closed(j) \/ CloseRaises(j)
  \/ Save(j) \/ NoHook(j) \/ Post(j) \/ Settle(j) \/ Struck(j)

Next ==
  \/ \E j \in Jobs : Request(j) \/ TaskStep(j) \/ Call(j) \/ CrashInSettle(j)
  \/ Shutdown \/ Stop \/ Crash \/ Restart

Spec == Init /\ [][Next]_vars

(* The event loop runs every task, and lifespan once they are done; that   *)
(* the phases of a job end is what JobRunner shows (JobEnds).              *)
FairSpec == Spec /\ WF_vars(Stop) /\ \A j \in Jobs : WF_vars(TaskStep(j))

-----------------------------------------------------------------------------
(* Properties                                                              *)

(* Every variable keeps its type, and no webhook is posted too often.      *)
TypeOK ==
  /\ up \in {"up", "stopping", "down"} /\ stops \in Nat /\ ledger \in Nat
  /\ torn \in BOOLEAN /\ refused \in BOOLEAN
  /\ req \in [Jobs -> {"none", "creating", "created", "accepted", "refused", "dropped"}]
  /\ store \in [Jobs -> Statuses \cup {"none"}] /\ mem \in [Jobs -> Statuses \cup {"none"}]
  /\ file \in [Jobs -> {"none", "open", "complete", "cut"}]
  /\ task \in [Jobs -> Phases]
  /\ cancel \in [Jobs -> BOOLEAN] /\ raising \in [Jobs -> BOOLEAN] /\ hit \in [Jobs -> BOOLEAN]
  /\ cost \in [Jobs -> 0..MaxCost] /\ estimate \in [Jobs -> 0..MaxCost]
  /\ tries \in [Jobs -> 0..MaxTries] /\ told \in [Jobs -> Statuses \cup {"none"}]
  /\ asked \in [Jobs -> BOOLEAN] /\ settled \in [Jobs -> {"no", "finished", "raised"}]

(* What a client was told stays so, through every crash and restart: an    *)
(* accepted job is never unknown again, and the status a webhook reported  *)
(* is the one every later read of the job shows.                           *)
ToldIsTrue ==
  \A j \in Jobs : /\ req[j] = "accepted" => Shown(j) # "none"
                  /\ told[j] # "none" => Shown(j) = told[j] /\ told[j] \in Terminal

(* A download that is not refused with 409 reads a complete file, whether  *)
(* this process ran the job or an earlier one.                             *)
DownloadComplete == \A j \in Jobs : Shown(j) \in Terminal => file[j] = "complete"

(* Who was promised a cancel while the job was running never finds it      *)
(* ended in another way.                                                   *)
CancelHonoured ==
  \A j \in Jobs : asked[j] /\ Shown(j) \in Terminal => Shown(j) = "cancelled"

(* What the provider has charged for the jobs of a set: a charge is the    *)
(* n-th unit a job cost.                                                   *)
Charges(S) == UNION {{j} \X (1..cost[j]) : j \in S}
CostOf(S) == Cardinality(Charges(S))

(* As long as no crash tore it, the ledger holds exactly what the settled  *)
(* jobs that ran to their end were charged for: none is left out, none     *)
(* counted twice, and no call is made behind the settlement.               *)
LedgerCoversSettled ==
  ~torn => ledger = CostOf({j \in Jobs : settled[j] = "finished"})

(* What core/spend_ledger.py:1-3 says of the ledger, "it accumulates cost  *)
(* across every live run": with no job running it covers every charge.     *)
LedgerAccumulates ==
  (\A j \in Jobs : task[j] \in {"none", "done"}) => ledger = CostOf(Jobs)

(* Once a submit is refused for the spending, no job is let past the check *)
(* again, in this process or a later one, unless a crash tore the ledger.  *)
RefusalIsDurable ==
  [][refused /\ ~torn' =>
       \A j \in Jobs : req'[j] = "creating" => req[j] = "creating"]_vars

(* A job before it is accepted is a run that has not begun; one whose      *)
(* process ended is gone; the webhook and the settling are behind run().   *)
PhaseOf(j) ==
  IF req[j] # "accepted" THEN "begun"
  ELSE IF task[j] = "none" THEN "gone"
  ELSE IF task[j] \in {"telling", "settling", "done"} THEN "left" ELSE task[j]
Before(j, queued, now) == IF req[j] = "accepted" THEN now ELSE queued

Run(j) == INSTANCE RunPhases WITH
            phase <- PhaseOf(j), status <- Before(j, "queued", mem[j]),
            stored <- Before(j, "queued", store[j]), file <- file[j],
            cancel <- cancel[j], raising <- (raising[j] /\ PhaseOf(j) # "left")

(* What the service does with its jobs - cancels, saves that fail, tasks   *)
(* cancelled by a shutdown, a crash at any moment - leaves of each a run,  *)
(* as JobRunner goes through one.                                          *)
RunsFollowPhases ==
  /\ \A j \in Jobs : Run(j)!Init
  /\ [][\A j \in Jobs : [Run(j)!Next]_(Run(j)!vars)]_vars

(* Every job is settled while the process lives, whatever fails in it; and *)
(* a process that is told to stop stops, whatever its jobs are doing.      *)
EveryJobSettles ==
  /\ \A j \in Jobs : mem[j] = "queued" ~> settled[j] # "no" \/ up # "up"
  /\ up = "stopping" ~> up = "down"
=============================================================================
