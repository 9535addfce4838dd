----------------------------- MODULE RunPhases -----------------------------
(***************************************************************************)
(* JobRunner.run() as the service around it sees it: the places where it   *)
(* can be suspended, and what it does between them to the status, to the   *)
(* job's record in the store and to the result file.  JobRunner implements *)
(* it, and the jobs of JobService do, crashes and cancelled tasks          *)
(* included; what the one shows of a run may be relied on in the other.    *)
(***************************************************************************)
VARIABLES
  phase,    \* begun, entering, ingesting, draining, closing, saving, left, gone
  status,   \* record.status: queued, running, finished, cancelled; none: no record
  stored,   \* the status in the store
  file,     \* the result file: none, open, complete, cut
  cancel,   \* cancel_event
  raising   \* run() is on its way out with an exception

vars == <<phase, status, stored, file, cancel, raising>>

Init ==
  /\ phase = "begun" /\ status = "queued" /\ stored = "queued" /\ file = "none"
  /\ cancel = FALSE /\ raising = FALSE

GoTo(p) == phase' = p /\ UNCHANGED raising
Leave == phase' = "left" /\ raising' = FALSE
MaySave == stored' \in {stored, status}   \* a save that raises may have been committed

Begin ==
  /\ phase = "begun"
  /\ \/ GoTo("entering") /\ status' = "running"
     \/ Leave /\ UNCHANGED status   \* cancelled before its first step
  /\ UNCHANGED <<stored, file, cancel>>

Enter ==
  /\ phase = "entering"
  /\ \/ GoTo("ingesting") /\ stored' = status /\ file' = "open"
     \/ Leave /\ MaySave /\ UNCHANGED file
  /\ UNCHANGED <<status, cancel>>

EndIngest ==
  /\ phase = "ingesting" /\ phase' = "draining" /\ raising' \in BOOLEAN
  /\ UNCHANGED <<status, stored, file, cancel>>

Drain ==
  /\ phase = "draining"
  /\ GoTo("closing") \/ Leave
  /\ UNCHANGED <<status, stored, file, cancel>>

(* A status is set only over a complete file, and only by a run in which   *)
(* nothing was raised; it says whether the job was cancelled.              *)
Close ==
  /\ phase = "closing"
  /\ \/ /\ ~raising /\ file' = "complete" /\ GoTo("saving")
        /\ status' = IF cancel THEN "cancelled" ELSE "finished"
     \/ file' = "complete" /\ raising /\ Leave /\ UNCHANGED status
     \/ file' = "cut" /\ Leave /\ UNCHANGED status
  /\ UNCHANGED <<stored, cancel>>

Save ==
  /\ phase = "saving"
  /\ Leave /\ MaySave
  /\ UNCHANGED <<status, file, cancel>>

Cancel == phase # "gone" /\ cancel' = TRUE /\ UNCHANGED <<phase, status, stored, file, raising>>

Die ==   \* the process ends
  /\ phase # "gone" /\ phase' = "gone" /\ status' = "none"
  /\ file' = IF file = "open" THEN "cut" ELSE file
  /\ cancel' = FALSE /\ raising' = FALSE
  /\ UNCHANGED stored

Next == Begin \/ Enter \/ EndIngest \/ Drain \/ Close \/ Save \/ Cancel \/ Die

Spec == Init /\ [][Next]_vars
=============================================================================
