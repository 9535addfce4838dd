---------------------------- MODULE JobContract ----------------------------
(***************************************************************************)
(* What a batch job promises the client that submitted it, in terms of     *)
(* what the client can read: how many rows were taken in, the row results  *)
(* in the result file, and the job status.  Every accepted row gets one    *)
(* result, written once; the status becomes terminal only when the file is *)
(* complete, and then neither changes again.                               *)
(***************************************************************************)
EXTENDS Naturals, RetryPolicy

CONSTANT NumRows   \* rows in the input file

VARIABLES
  accepted,  \* rows 1..accepted have been taken in
  result,    \* result[r]: the class written for row r, or "none"
  status     \* JobRecord.status as the API shows it

Rows == 1..NumRows
Terminal == {"succeeded", "partial", "failed", "cancelled"}

Init == accepted = 0 /\ result = [r \in Rows |-> "none"] /\ status = "queued"

Begin == status = "queued" /\ status' = "running" /\ UNCHANGED <<accepted, result>>

Accept == /\ status = "running"
          /\ accepted < NumRows
          /\ accepted' = accepted + 1
          /\ UNCHANGED <<result, status>>

Resolve(r, c) == /\ status = "running"
                 /\ r <= accepted
                 /\ result[r] = "none"
                 /\ result' = [result EXCEPT ![r] = c]
                 /\ UNCHANGED <<accepted, status>>

(* "succeeded" and "partial" say what the file holds; a cancelled or an    *)
(* aborted job promises only that every accepted row has its result.       *)
Finish(s) ==
  LET Accepted == 1..accepted IN
  /\ status = "running"
  /\ \A r \in Accepted : result[r] # "none"
  /\ s = "succeeded" => \A r \in Accepted : result[r] = "success"
  /\ s = "partial" => /\ \E r \in Accepted : result[r] = "success"
                      /\ \E r \in Accepted : result[r] # "success"
  /\ status' = s
  /\ UNCHANGED <<accepted, result>>

Next == \/ Begin
        \/ Accept
        \/ \E r \in Rows, c \in FailureClasses : Resolve(r, c)
        \/ \E s \in Terminal : Finish(s)

Spec == Init /\ [][Next]_<<accepted, result, status>>
=============================================================================
