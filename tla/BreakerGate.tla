---------------------------- MODULE BreakerGate ----------------------------
(***************************************************************************)
(* What the circuit breaker of core/retry.py promises its callers, with    *)
(* the clock and the outcome window abstracted away: whether a cooldown or *)
(* a probe timeout has elapsed, and whether the window holds a majority of *)
(* failures, are free choices.  JobRunner drives the worker pool with      *)
(* these actions; CircuitBreaker, which has the clock and the window,      *)
(* implements Spec.                                                        *)
(***************************************************************************)
VARIABLES
  breaker,  \* CircuitBreaker._state
  probe     \* CircuitBreaker._probe_in_flight

TypeOK == /\ breaker \in {"closed", "open", "half_open"}
          /\ probe \in BOOLEAN

Init == breaker = "closed" /\ probe = FALSE

AdmitSlip ==   \* an open breaker stays open whatever the cooldown
  \/ breaker = "closed" /\ UNCHANGED <<breaker, probe>>
  \/ breaker = "half_open" /\ probe' = FALSE /\ UNCHANGED breaker

(* allow_request() returns True.  A half-open breaker whose probe went     *)
(* stale forgets that probe and admits the caller.                         *)
Admit ==
  \/ breaker = "closed" /\ UNCHANGED <<breaker, probe>>
  \/ breaker = "open" /\ breaker' = "half_open" /\ probe' = TRUE
  \/ breaker = "half_open" /\ probe' = FALSE /\ UNCHANGED breaker

(* allow_request() returns False.                                          *)
Deny == /\ breaker = "open" \/ (breaker = "half_open" /\ probe)
        /\ UNCHANGED <<breaker, probe>>

(* record(isFailure): any record ends a half-open episode, whichever call  *)
(* it belongs to; a closed breaker may find its window over the threshold. *)
Record(isFailure) ==
  \/ /\ breaker = "half_open"
     /\ probe' = FALSE
     /\ breaker' = IF isFailure THEN "open" ELSE "closed"
  \/ breaker = "closed" /\ breaker' \in {"closed", "open"} /\ UNCHANGED probe
  \/ breaker = "open" /\ UNCHANGED <<breaker, probe>>

Next == Admit \/ Deny \/ \E isFailure \in BOOLEAN : Record(isFailure)

Spec == Init /\ [][Next]_<<breaker, probe>>
=============================================================================
