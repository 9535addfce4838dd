----------------------- MODULE CircuitBreaker_proofs -----------------------
(***************************************************************************)
(* What CircuitBreaker guarantees for every set of callers, window and     *)
(* timeout: its types, that it is never closed on a tripping window, that  *)
(* it shields the provider while open and while its probe is in time, and  *)
(* that it implements BreakerGate.                                         *)
(***************************************************************************)
EXTENDS CircuitBreaker, TLAPS

(* Pushing an outcome keeps the window's type and its bound.               *)
LEMMA PushType ==
  ASSUME NEW s \in Seq(BOOLEAN), Len(s) <= Window, NEW x \in BOOLEAN
  PROVE  Push(s, x) \in Seq(BOOLEAN) /\ Len(Push(s, x)) <= Window
<1>1. CASE Len(s) < Window
  BY <1>1, BreakerAssumption DEF Push
<1>2. CASE ~(Len(s) < Window)
  <2>1. s # <<>>
    BY <1>2, BreakerAssumption
  <2>2. Tail(s) \in Seq(BOOLEAN) /\ Len(Tail(s)) = Len(s) - 1
    BY <2>1
  <2> QED
    BY <1>2, <2>2, BreakerAssumption DEF Push
<1> QED
  BY <1>1, <1>2

(* record() keeps the types of the breaker's own state.                    *)
LEMMA RecordType ==
  ASSUME TypeOK, NEW failed \in BOOLEAN, record(failed)
  PROVE  /\ state' \in {"closed", "open", "half_open"}
         /\ outcomes' \in Seq(BOOLEAN) /\ Len(outcomes') <= Window
         /\ age' \in 0..AgeCap
         /\ probeInFlight' \in BOOLEAN
<1>1. /\ Push(outcomes, failed) \in Seq(BOOLEAN)
      /\ Len(Push(outcomes, failed)) <= Window
  BY PushType DEF TypeOK
<1>2. <<>> \in Seq(BOOLEAN) /\ Len(<<>>) <= Window /\ 0 \in 0..AgeCap
  BY BreakerAssumption DEF AgeCap
<1>3. outcomes' \in {Push(outcomes, failed), <<>>}
  BY DEF record
<1>4. age' \in {age, 0}
  BY DEF record, Open
<1>5. state' \in {"closed", "open", "half_open"} /\ probeInFlight' \in BOOLEAN
  BY DEF record, Open, TypeOK
<1> QED
  BY <1>1, <1>2, <1>3, <1>4, <1>5 DEF TypeOK

(* Every step keeps every type.                                            *)
LEMMA TypeStep == TypeOK /\ [Next]_vars => TypeOK'
<1> SUFFICES ASSUME TypeOK, [Next]_vars PROVE TypeOK'
  OBVIOUS
<1>a. AgeCap \in Nat
  BY BreakerAssumption DEF AgeCap
<1>1. ASSUME NEW c \in Callers, Allow(c) PROVE TypeOK'
  <2>1. left' \in [Callers -> 0..MaxCalls]
    BY <1>1, BreakerAssumption DEF TypeOK, Allow, Asking
  <2>2. since' \in [Callers -> 0..AgeCap]
    BY <1>1, <1>a DEF TypeOK, Allow
  <2>3. pc' \in [Callers -> {"idle", "waiting", "out", "probe"}]
    BY <1>1 DEF TypeOK, Allow
  <2> QED
    BY <1>1, <2>1, <2>2, <2>3 DEF TypeOK, Allow
<1>2. ASSUME NEW c \in Callers, Refuse(c) PROVE TypeOK'
  BY <1>2 DEF TypeOK, Refuse, breakerVars
<1>3. ASSUME NEW c \in Callers, Answer(c) PROVE TypeOK'
  <2>1. PICK failed \in BOOLEAN : record(failed)
    BY <1>3 DEF Answer
  <2>2. pc' \in [Callers -> {"idle", "waiting", "out", "probe"}]
    BY <1>3 DEF TypeOK, Answer
  <2> QED
    BY <1>3, <2>1, <2>2, RecordType DEF TypeOK, Answer
<1>4. CASE Tick
  <2>1. age' \in 0..AgeCap
    BY <1>4, <1>a DEF TypeOK, Tick
  <2>2. since' \in [Callers -> 0..AgeCap]
    BY <1>4, <1>a DEF TypeOK, Tick
  <2> QED
    BY <1>4, <2>1, <2>2 DEF TypeOK, Tick
<1>5. CASE UNCHANGED vars
  BY <1>5 DEF TypeOK, vars, breakerVars, callerVars
<1> QED
  BY <1>1, <1>2, <1>3, <1>4, <1>5 DEF Next

(* Every reachable state is well typed.                                    *)
THEOREM TypeCorrect == Spec => []TypeOK
<1>1. Init => TypeOK
  <2>1. <<>> \in Seq(BOOLEAN) /\ Len(<<>>) = 0
    OBVIOUS
  <2>2. AgeCap \in 0..AgeCap /\ 0 \in 0..AgeCap
    BY BreakerAssumption DEF AgeCap
  <2>3. MaxCalls \in 0..MaxCalls
    BY BreakerAssumption
  <2> SUFFICES ASSUME Init PROVE TypeOK
    OBVIOUS
  <2>4. Len(outcomes) <= Window
    BY <2>1, BreakerAssumption DEF Init
  <2> QED
    BY <2>1, <2>2, <2>3, <2>4 DEF Init, TypeOK
<1> QED
  BY <1>1, TypeStep, PTL DEF Spec

(* A closed breaker never holds a window that should have tripped it.      *)
THEOREM ClosedIsHealthy == Spec => []ClosedMeansHealthy
<1>1. ~Tripping(<<>>)
  BY BreakerAssumption DEF Tripping
<1>2. Init => ClosedMeansHealthy
  BY <1>1 DEF Init, ClosedMeansHealthy
<1>3. ClosedMeansHealthy /\ [Next]_vars => ClosedMeansHealthy'
  <2> SUFFICES ASSUME ClosedMeansHealthy, [Next]_vars PROVE ClosedMeansHealthy'
    OBVIOUS
  <2>1. ASSUME state' = state, outcomes' = outcomes PROVE ClosedMeansHealthy'
    BY <2>1 DEF ClosedMeansHealthy, Tripping, Failures
  <2>2. ASSUME NEW c \in Callers, Allow(c) PROVE ClosedMeansHealthy'
    <3>1. CASE state = "open"
      BY <2>2, <3>1 DEF Allow, ClosedMeansHealthy
    <3>2. CASE state # "open"
      BY <2>1, <2>2, <3>2 DEF Allow
    <3> QED
      BY <3>1, <3>2
  <2>3. ASSUME NEW c \in Callers, Refuse(c) PROVE ClosedMeansHealthy'
    BY <2>1, <2>3 DEF Refuse, breakerVars
  <2>4. ASSUME NEW c \in Callers, Answer(c) PROVE ClosedMeansHealthy'
    <3>1. PICK failed \in BOOLEAN : record(failed)
      BY <2>4 DEF Answer
    <3>2. SUFFICES ASSUME state' = "closed" PROVE ~Tripping(outcomes')
      BY DEF ClosedMeansHealthy, Tripping, Failures
    <3>3. outcomes' = <<>> \/ ~Tripping(outcomes')
      BY <3>1, <3>2 DEF record, Open
    <3> QED
      BY <3>3, <1>1
  <2>5. CASE Tick
    BY <2>1, <2>5 DEF Tick
  <2>6. CASE UNCHANGED vars
    BY <2>1, <2>6 DEF vars, breakerVars
  <2> QED
    BY <2>2, <2>3, <2>4, <2>5, <2>6 DEF Next
<1> QED
  BY <1>2, <1>3, PTL DEF Spec

(* Open or half-open with its probe in time, the breaker lets nobody in:   *)
(* it needs that a half-open breaker in time has its probe flag set.       *)
ProbeFlagged == state = "half_open" /\ ~Stale => probeInFlight

LEMMA ProbeFlaggedStep ==
  ASSUME TypeOK, ProbeFlagged, [Next]_vars PROVE ProbeFlagged'
<1>1. ASSUME state' = state, age' = age, probeInFlight' = probeInFlight
      PROVE  ProbeFlagged'
  BY <1>1 DEF ProbeFlagged, Stale
<1>2. ASSUME NEW c \in Callers, Allow(c) PROVE ProbeFlagged'
  BY <1>2 DEF Allow, Allows, ProbeFlagged, Stale
<1>3. ASSUME NEW c \in Callers, Refuse(c) PROVE ProbeFlagged'
  BY <1>1, <1>3 DEF Refuse, breakerVars
<1>4. ASSUME NEW c \in Callers, Answer(c) PROVE ProbeFlagged'
  BY <1>4 DEF Answer, record, Open, ProbeFlagged
<1>5. CASE Tick
  BY <1>5, BreakerAssumption DEF Tick, ProbeFlagged, Stale, TypeOK, AgeCap
<1>6. CASE UNCHANGED vars
  BY <1>1, <1>6 DEF vars, breakerVars
<1> QED
  BY <1>2, <1>3, <1>4, <1>5, <1>6 DEF Next

THEOREM OneProbe == Spec => OneProbeBeforeTimeout
<1>1. Init => ProbeFlagged
  BY DEF Init, ProbeFlagged
<1>2. ASSUME TypeOK, ProbeFlagged, [Next]_vars
      PROVE  [Shielding => Out' \subseteq Out]_vars
  <2>1. SUFFICES ASSUME Next, Shielding PROVE Out' \subseteq Out
    BY <1>2
  <2>2. ASSUME NEW c \in Callers, Allow(c) PROVE FALSE
    BY <1>2, <2>1, <2>2, BreakerAssumption
       DEF Allow, Allows, Shielding, ProbeFlagged, TypeOK
  <2>3. ASSUME NEW c \in Callers, Refuse(c) PROVE Out' \subseteq Out
    BY <1>2, <2>3 DEF Refuse, Out, TypeOK
  <2>4. ASSUME NEW c \in Callers, Answer(c) PROVE Out' \subseteq Out
    BY <1>2, <2>4 DEF Answer, Out, TypeOK
  <2>5. CASE Tick
    BY <2>5 DEF Tick, Out
  <2> QED
    BY <2>1, <2>2, <2>3, <2>4, <2>5 DEF Next
<1> QED
  BY <1>1, <1>2, ProbeFlaggedStep, TypeCorrect, PTL DEF Spec, OneProbeBeforeTimeout

(* Every step of the breaker is a step of BreakerGate, or leaves it alone. *)
THEOREM BreakerImplementsGate == Spec => ImplementsGate
<1>1. Init => Gate!Init
  BY DEF Init, Gate!Init
<1>2. TypeOK /\ [Next]_vars => [Gate!Next]_<<state, probeInFlight>>
  <2> SUFFICES ASSUME TypeOK, [Next]_vars
               PROVE  [Gate!Next]_<<state, probeInFlight>>
    OBVIOUS
  <2>1. ASSUME NEW c \in Callers, Allow(c) PROVE Gate!Next
    <3>1. Gate!Admit
      BY <2>1 DEF Allow, Allows, Gate!Admit
    <3> QED
      BY <3>1 DEF Gate!Next
  <2>2. ASSUME NEW c \in Callers, Refuse(c) PROVE UNCHANGED <<state, probeInFlight>>
    BY <2>2 DEF Refuse, breakerVars
  <2>3. ASSUME NEW c \in Callers, Answer(c) PROVE Gate!Next
    <3>1. PICK failed \in BOOLEAN : record(failed)
      BY <2>3 DEF Answer
    <3>2. Gate!Record(failed)
      BY <3>1 DEF record, Open, Gate!Record
    <3> QED
      BY <3>2 DEF Gate!Next
  <2>4. CASE Tick
    BY <2>4 DEF Tick
  <2>5. CASE UNCHANGED vars
    BY <2>5 DEF vars, breakerVars
  <2> QED
    BY <2>1, <2>2, <2>3, <2>4, <2>5 DEF Next
<1> QED
  BY <1>1, <1>2, TypeCorrect, PTL DEF Spec, ImplementsGate, Gate!Spec
=============================================================================
