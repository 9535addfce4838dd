---------------------------- MODULE RetryPolicy ----------------------------
(***************************************************************************)
(* The pure part of core/retry.py and core/models.py: what one provider    *)
(* call can come back with, the failure class and attempt cap `classify`   *)
(* gives it, what counts against the circuit breaker, and the retry        *)
(* budget's limit.  HTTP statuses that share a class and an attempt cap    *)
(* share one outcome.                                                      *)
(***************************************************************************)
EXTENDS Naturals

(* What `provider.complete` yields.  "no_response" stands for a transport  *)
(* error and for any other exception, which the worker wraps as one;       *)
(* "429_reset" is a 429 carrying a positive x-ratelimit-reset-requests.    *)
Outcomes == {"200", "200_malformed", "429", "429_reset", "5xx", "400",
             "401", "402", "no_response"}

FailureClasses == {"success", "throttled", "transient", "invalid_input",
                   "fatal_auth", "fatal_billing", "transient_exhausted",
                   "cancelled"}

ErrorClasses == FailureClasses \ {"success"}

ClassOf(o) ==
  CASE o = "200"                  -> "success"
    [] o \in {"429", "429_reset"} -> "throttled"
    [] o = "400"                  -> "invalid_input"
    [] o = "401"                  -> "fatal_auth"
    [] o = "402"                  -> "fatal_billing"
    [] OTHER                      -> "transient"

(* Total tries, the first included, that an item ending in outcome o gets. *)
MaxAttempts(o) ==
  CASE o = "200_malformed"             -> 2
    [] o \in {"429", "429_reset"}      -> 8
    [] o \in {"5xx", "no_response"}    -> 5
    [] OTHER                           -> 1

IsFatal(o) == ClassOf(o) \in {"fatal_auth", "fatal_billing"}

BreakerFailure(o) == ClassOf(o) \in {"transient", "fatal_auth", "fatal_billing"}

(* The class a row reports when its attempts are used up by outcome o.     *)
ExhaustedClass(o) ==
  IF ClassOf(o) \in {"throttled", "transient"} THEN "transient_exhausted"
                                               ELSE ClassOf(o)

(* RetryBudget.limit with fraction = 1/divisor: never below one retry.     *)
RetryLimit(total, divisor) ==
  IF total \div divisor > 1 THEN total \div divisor ELSE 1
=============================================================================
