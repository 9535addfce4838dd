--------------------------- MODULE CircuitBreaker ---------------------------
(***************************************************************************)
(* The circuit breaker of core/retry.py with its clock and its window of   *)
(* outcomes, and the workers that call it: process_item polls              *)
(* allow_request until it is True, then waits for a token and the provider *)
(* for as long as they take, then calls record - or never does.            *)
(*                                                                         *)
(* The code compares `now - _opened_at` with the cooldown and with the     *)
(* cooldown plus the probe timeout only, so one clock that stops beyond    *)
(* their sum stands for both.                                              *)
(***************************************************************************)
EXTENDS Integers, Sequences, FiniteSets

CONSTANTS
  Callers,       \* the workers of the pool
  Window,        \* outcomes the breaker remembers (100)
  MinSamples,    \* outcomes it wants before it judges (10)
  Cooldown,      \* cooldown_s
  ProbeTimeout,  \* probe_timeout_s
  MaxCalls       \* bound: calls each worker has to make

ASSUME BreakerAssumption ==
  /\ IsFiniteSet(Callers)
  /\ Window \in Nat \ {0} /\ MinSamples \in Nat \ {0}
  /\ Cooldown \in Nat /\ ProbeTimeout \in Nat
  /\ MaxCalls \in Nat

VARIABLES
  state,          \* _state
  outcomes,       \* _outcomes: TRUE is a failure
  age,            \* now - _opened_at, up to AgeCap
  probeInFlight,  \* _probe_in_flight
  pc,             \* idle; waiting (denied, polls again); out (a call admitted
                  \*   by a closed breaker); probe (admitted by any other)
  since,          \* time since each worker was last admitted, up to AgeCap
  left            \* calls each worker has yet to make

breakerVars == <<state, outcomes, age, probeInFlight>>
callerVars == <<pc, since, left>>
vars == <<breakerVars, callerVars>>

AgeCap == Cooldown + ProbeTimeout + 1
Out == {c \in Callers : pc[c] \in {"out", "probe"}}

Init == /\ state = "closed" /\ outcomes = <<>> /\ age = AgeCap
        /\ probeInFlight = FALSE
        /\ pc = [c \in Callers |-> "idle"]
        /\ since = [c \in Callers |-> 0]
        /\ left = [c \in Callers |-> MaxCalls]

StaleSlip == FALSE   \* a probe is never given up

Stale == age > Cooldown + ProbeTimeout

(* allow_request() would return True.                                      *)
Allows == \/ state = "closed"
          \/ state = "open" /\ age >= Cooldown
          \/ state = "half_open" /\ (~probeInFlight \/ Stale)

Asking(c) == pc[c] \in {"idle", "waiting"} /\ left[c] > 0

AllowSlip(c) ==   \* the caller that ends the cooldown is not marked as the probe
  /\ Asking(c) /\ Allows
  /\ state' = IF state = "open" THEN "half_open" ELSE state
  /\ probeInFlight' = FALSE
  /\ pc' = [pc EXCEPT ![c] = IF state = "closed" THEN "out" ELSE "probe"]
  /\ since' = [since EXCEPT ![c] = 0]
  /\ left' = [left EXCEPT ![c] = @ - 1]
  /\ UNCHANGED <<outcomes, age>>

Allow(c) ==
  /\ Asking(c) /\ Allows
  /\ state' = IF state = "open" THEN "half_open" ELSE state
  /\ probeInFlight' = IF state = "half_open" THEN FALSE
                      ELSE IF state = "open" THEN TRUE ELSE probeInFlight
  /\ pc' = [pc EXCEPT ![c] = IF state = "closed" THEN "out" ELSE "probe"]
  /\ since' = [since EXCEPT ![c] = 0]
  /\ left' = [left EXCEPT ![c] = @ - 1]
  /\ UNCHANGED <<outcomes, age>>

Refuse(c) ==
  /\ Asking(c) /\ ~Allows
  /\ pc' = [pc EXCEPT ![c] = "waiting"]
  /\ UNCHANGED <<breakerVars, since, left>>

PushSlip(s, x) == Append(s, x)   \* nothing is dropped

(* deque(maxlen = window): appending to a full window drops the oldest.    *)
Push(s, x) == Append(IF Len(s) < Window THEN s ELSE Tail(s), x)

Failures(s) == Cardinality({i \in 1..Len(s) : s[i]})
Tripping(s) ==
  /\ Len(s) >= IF Window < MinSamples THEN Window ELSE MinSamples
  /\ 2 * Failures(s) > Len(s)

Open == state' = "open" /\ age' = 0

recordSlip(failed) ==   \* closes with the old window kept, from any state
  LET seen == Push(outcomes, failed) IN
  \/ /\ state \in {"half_open", "open"}
     /\ probeInFlight' = FALSE
     /\ outcomes' = seen
     /\ IF failed THEN Open ELSE state' = "closed" /\ UNCHANGED age
  \/ /\ state = "closed"
     /\ outcomes' = seen
     /\ IF Tripping(seen) THEN Open ELSE UNCHANGED <<state, age>>
     /\ UNCHANGED probeInFlight

record(failed) ==
  LET seen == Push(outcomes, failed) IN
  \/ /\ state = "half_open"
     /\ probeInFlight' = FALSE
     /\ IF failed THEN Open /\ outcomes' = seen
                  ELSE state' = "closed" /\ outcomes' = <<>> /\ UNCHANGED age
  \/ /\ state = "closed"
     /\ outcomes' = seen
     /\ IF Tripping(seen) THEN Open ELSE UNCHANGED <<state, age>>
     /\ UNCHANGED probeInFlight
  \/ /\ state = "open"
     /\ outcomes' = seen
     /\ UNCHANGED <<state, age, probeInFlight>>

Answer(c) ==   \* the call is over and its outcome is recorded
  /\ c \in Out
  /\ \E failed \in BOOLEAN : record(failed)
  /\ pc' = [pc EXCEPT ![c] = "idle"]
  /\ UNCHANGED <<since, left>>

Tick ==
  /\ age' = IF age < AgeCap THEN age + 1 ELSE age
  /\ since' = [c \in Callers |->
                 IF c \in Out /\ since[c] < AgeCap THEN since[c] + 1 ELSE since[c]]
  /\ UNCHANGED <<state, outcomes, probeInFlight, pc, left>>

Next == Tick \/ \E c \in Callers : Allow(c) \/ Refuse(c) \/ Answer(c)

Spec == Init /\ [][Next]_vars

(* Time passes and a denied worker polls again every 0.25 seconds.  No     *)
(* fairness for Answer: a call may never be recorded.                      *)
Fairness == WF_vars(Tick) /\ \A c \in Callers : WF_vars(Allow(c))
FairSpec == Spec /\ Fairness

-----------------------------------------------------------------------------

(* Every variable keeps the type the code gives it.                        *)
TypeOK == /\ state \in {"closed", "open", "half_open"}
          /\ outcomes \in Seq(BOOLEAN) /\ Len(outcomes) <= Window
          /\ age \in 0..AgeCap
          /\ probeInFlight \in BOOLEAN
          /\ pc \in [Callers -> {"idle", "waiting", "out", "probe"}]
          /\ since \in [Callers -> 0..AgeCap]
          /\ left \in [Callers -> 0..MaxCalls]

(* A closed breaker never sits on a window that should have tripped it:    *)
(* not after it reopens on a probe's success, and whatever outcomes of old *)
(* calls arrived while it was open.                                        *)
ClosedMeansHealthy == state = "closed" => ~Tripping(outcomes)

(* While the breaker is open and cooling, and while its probe has not run  *)
(* out of time, no further worker is let through.                          *)
Shielding == \/ state = "open" /\ age < Cooldown
             \/ state = "half_open" /\ ~Stale
OneProbeBeforeTimeout == [][Shielding => Out' \subseteq Out]_vars

(* A worker that is denied gets through in the end, even when the probe it *)
(* is waiting for never reports (the deadlock of retry.py:125-131).        *)
DeniedGetsThrough ==
  \A c \in Callers : (pc[c] = "waiting") ~> (pc[c] \in {"out", "probe"})

(* The breaker is what JobRunner takes it for.                             *)
Gate == INSTANCE BreakerGate WITH breaker <- state, probe <- probeInFlight
ImplementsGate == Gate!Spec
=============================================================================
