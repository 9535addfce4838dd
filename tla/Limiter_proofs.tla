--------------------------- MODULE Limiter_proofs ---------------------------
(***************************************************************************)
(* Proofs about Limiter, for any number of workers, any limits and any     *)
(* rates: what the bucket gives is bounded by what it earned, across every *)
(* change of its rate, and the rate moves no faster than the cooldown and  *)
(* the streak allow.                                                       *)
(***************************************************************************)
EXTENDS Limiter, TLAPS

USE RateAssumption, LimiterAssumption

(* The bucket of the window, while it is open, and once it has closed.     *)
Grants ==
  win.on => win.grants * Unit + (IF win.age < WindowLength THEN Refilled ELSE 0)
              <= Capacity + win.credit

(* The last decrease is as old as sinceDecrease says, so the next one      *)
(* comes a cooldown later than the one before.                             *)
Drops ==
  win.on /\ win.drops > 0 =>
    (win.drops - 1) * Cooldown + (IF win.age < WindowLength THEN sinceDecrease ELSE 0)
      <= win.age

(* A streak is made of successes of its own.                               *)
Raises ==
  win.on => win.raises * Streak + (IF win.age < WindowLength THEN streak ELSE 0)
              <= win.start + win.successes

IInv == TypeOK /\ Grants /\ Drops /\ Raises

-----------------------------------------------------------------------------
(* The operators of the bucket.                                            *)

LEMMA RefilledFits == TypeOK => Refilled \in 0..Capacity /\ Refilled >= tokens
<1> SUFFICES ASSUME TypeOK PROVE Refilled \in 0..Capacity /\ Refilled >= tokens
  OBVIOUS
<1>1. sinceRefill * rate \in Nat
  BY DEF TypeOK, FullAfter
<1> QED
  BY <1>1 DEF TypeOK, Refilled, AtMost

LEMMA RefilledFitsNext == (TypeOK => Refilled \in 0..Capacity /\ Refilled >= tokens)'
BY RefilledFits, PTL

LEMMA GivenFits ==
  ASSUME NEW G \in Nat, NEW T \in Nat, NEW R \in Nat, NEW R2 \in Nat, NEW C \in Nat,
         G + R <= Capacity + C, R2 + T <= R
  PROVE  (G + T) + R2 <= Capacity + C
OBVIOUS

(* Right after a refill the bucket holds what tokens says, at any rate.    *)
LEMMA JustRefilled ==
  ASSUME tokens' \in 0..Capacity, sinceRefill' = 0, rate' \in Nat
  PROVE  Refilled' = tokens'
<1>1. \A t \in Int, r \in Nat : t + 0 * r = t
  OBVIOUS
<1>2. tokens' \in Int /\ tokens' <= Capacity
  OBVIOUS
<1>3. tokens' + sinceRefill' * rate' = tokens'
  BY <1>1, <1>2, Zenon
<1>4. AtMost(Capacity, tokens') = tokens'
  BY <1>2 DEF AtMost
<1> QED
  BY <1>3, <1>4, Zenon DEF Refilled

LEMMA SetRateKeeps ==
  ASSUME TypeOK, NEW r \in MinRate..MaxRate, SetRate(r)
  PROVE  /\ rate' = r /\ Refilled' = Refilled
         /\ tokens' \in 0..Capacity /\ sinceRefill' \in 0..FullAfter
<1>1. tokens' \in 0..Capacity /\ sinceRefill' = 0 /\ rate' \in Nat
  BY RefilledFits DEF SetRate
<1> QED
  BY <1>1, JustRefilled DEF SetRate, FullAfter

(* A tick earns at most rate parts.                                        *)
LEMMA TickEarns ==
  ASSUME TypeOK, Tick PROVE Refilled' <= Refilled + rate
<1>1. /\ rate' = rate /\ tokens' = tokens /\ rate \in Nat /\ sinceRefill \in Nat
      /\ tokens \in Nat
  BY DEF TypeOK, Tick, FullAfter
<1>2. (sinceRefill + 1) * rate = sinceRefill * rate + rate
  BY <1>1
<1>3. sinceRefill * rate \in Nat
  BY <1>1
<1>4. sinceRefill' * rate <= sinceRefill * rate + rate
  <2>1. CASE sinceRefill' = sinceRefill
    BY <2>1, <1>1, <1>3
  <2>2. CASE sinceRefill' = sinceRefill + 1
    <3>1. sinceRefill' * rate = (sinceRefill + 1) * rate
      BY <2>2
    <3> QED
      BY <3>1, <1>2, <1>3, <1>1
  <2> QED
    BY <2>1, <2>2 DEF TypeOK, Tick, AtMost, FullAfter
<1>5. sinceRefill' * rate \in Nat
  BY <1>1 DEF Tick, AtMost, FullAfter
<1> QED
  BY <1>1, <1>3, <1>4, <1>5 DEF Refilled, AtMost

(* The two ways the rate moves.                                            *)
LEMMA RaisedFits == TypeOK => Raised \in MinRate..MaxRate /\ Raised >= rate
BY DEF TypeOK, Raised, AtMost

LEMMA LowerKeeps ==
  ASSUME TypeOK, Lower
  PROVE  /\ rate' \in MinRate..MaxRate /\ rate' <= rate /\ Refilled' = Refilled
         /\ tokens' \in 0..Capacity /\ sinceRefill' \in 0..FullAfter
         /\ \/ sinceDecrease >= Cooldown /\ sinceDecrease' = 0
            \/ rate' = rate /\ sinceDecrease' = sinceDecrease
<1>1. AtLeast(MinRate, (3 * rate) \div 4) \in MinRate..MaxRate
  BY DEF AtLeast, TypeOK
<1>2. AtLeast(MinRate, (3 * rate) \div 4) <= rate
  BY DEF AtLeast, TypeOK
<1>3. CASE sinceDecrease >= Cooldown
  BY <1>1, <1>2, <1>3, SetRateKeeps DEF Lower
<1>4. CASE ~(sinceDecrease >= Cooldown)
  BY <1>4 DEF Lower, bucketVars, TypeOK, Refilled
<1> QED
  BY <1>3, <1>4

-----------------------------------------------------------------------------
(* What one step means to the window: it gives g tokens, it passes t       *)
(* ticks, s of its calls succeed.                                          *)

LEMMA ObserveType ==
  ASSUME TypeOK, rate' \in MinRate..MaxRate, NEW t \in Nat, NEW g \in Nat, NEW s \in Nat,
         Observe(t, g, s)
  PROVE  win' \in Window
<1>1. t * rate \in Nat
  BY DEF TypeOK
<1>2. win \in Window
  BY DEF TypeOK
<1>3. CASE ~(win.on /\ win.age < WindowLength)
  BY <1>2, <1>3 DEF Observe
<1>4. CASE win.on /\ win.age < WindowLength
  <2>1. PICK e \in Nat, d \in {0, 1}, r \in {0, 1} :
          win' = [win EXCEPT !.age = @ + t, !.credit = @ + e, !.grants = @ + g,
                             !.drops = @ + d, !.raises = @ + r, !.successes = @ + s]
    <3>1. Count(rate' < rate) \in {0, 1} /\ Count(rate' > rate) \in {0, 1}
      BY DEF Count
    <3> QED
      BY <1>1, <1>4, <3>1, Zenon DEF Observe
  <2>2. /\ win.age + t \in Nat /\ win.credit + e \in Nat /\ win.grants + g \in Nat
        /\ win.drops + d \in Nat /\ win.raises + r \in Nat /\ win.successes + s \in Nat
    BY <2>1, <1>2 DEF Window
  <2> QED
    BY <2>1, <2>2, <1>2, Zenon DEF Window
<1> QED
  BY <1>3, <1>4

(* A step that takes no time: of what the bucket holds it gives g tokens,  *)
(* it lowers the rate only after a cooldown, and raises it only for a      *)
(* streak of successes.                                                    *)
Steady(g, s) ==
  /\ Refilled' + g * Unit <= Refilled
  /\ \/ rate' >= rate /\ sinceDecrease' = sinceDecrease
     \/ sinceDecrease >= Cooldown /\ sinceDecrease' = 0
  /\ \/ rate' <= rate /\ streak' <= streak + s
     \/ streak + s >= Streak /\ streak' = 0

LEMMA SteadyStep ==
  ASSUME IInv, TypeOK', NEW g \in {0, 1}, NEW s \in {0, 1},
         Observe(0, g, s), Steady(g, s)
  PROVE  IInv'
<1>0. /\ win \in Window /\ win' \in Window /\ rate \in Nat /\ rate' \in Nat
      /\ Refilled \in Nat /\ Refilled' \in Nat /\ streak \in Nat /\ streak' \in Nat
      /\ sinceDecrease \in Nat /\ sinceDecrease' \in Nat
  BY RefilledFits, RefilledFitsNext DEF IInv, TypeOK
<1>1. CASE ~(win.on /\ win.age < WindowLength)
  BY <1>1, <1>0 DEF IInv, Observe, Grants, Drops, Raises, Window
<1>2. CASE win.on /\ win.age < WindowLength
  <2>1. /\ win'.on /\ win'.age = win.age /\ win'.start = win.start
        /\ win'.credit = win.credit /\ win'.grants = win.grants + g
        /\ win'.drops = IF rate' < rate THEN win.drops + 1 ELSE win.drops
        /\ win'.raises = IF rate' > rate THEN win.raises + 1 ELSE win.raises
        /\ win'.successes = win.successes + s
    <3>1. win.credit + 0 * rate = win.credit /\ win.age + 0 = win.age
      BY <1>0 DEF Window
    <3>2. win' = [win EXCEPT !.age = @ + 0, !.credit = @ + 0 * rate, !.grants = @ + g,
                             !.drops = @ + Count(rate' < rate),
                             !.raises = @ + Count(rate' > rate), !.successes = @ + s]
      BY <1>2, Zenon DEF Observe
    <3>3. /\ Count(rate' < rate) = IF rate' < rate THEN 1 ELSE 0
          /\ Count(rate' > rate) = IF rate' > rate THEN 1 ELSE 0
      BY Zenon DEF Count
    <3>4. /\ win'.on = win.on /\ win'.age = win.age /\ win'.start = win.start
          /\ win'.credit = win.credit /\ win'.grants = win.grants + g
          /\ win'.successes = win.successes + s
      BY <1>0, <3>1, <3>2 DEF Window
    <3>5. /\ win'.drops = IF rate' < rate THEN win.drops + 1 ELSE win.drops
          /\ win'.raises = IF rate' > rate THEN win.raises + 1 ELSE win.raises
      BY <1>0, <3>2, <3>3 DEF Window
    <3> QED
      BY <1>2, <3>4, <3>5
  <2>2. Grants'
    <3>1. /\ (win.grants + g) * Unit = win.grants * Unit + g * Unit
          /\ win.grants * Unit \in Nat /\ g * Unit \in Nat
      BY <1>0 DEF Window
    <3>2. win'.grants * Unit = win.grants * Unit + g * Unit
      BY <3>1, <2>1
    <3>3. win.grants * Unit + Refilled <= Capacity + win.credit
      BY <1>2 DEF Grants, IInv
    <3>4. win'.grants * Unit + Refilled' <= Capacity + win'.credit
      <4>1. Refilled' + g * Unit <= Refilled
        BY DEF Steady
      <4>2. win'.credit = win.credit /\ win.credit \in Nat
        BY <2>1, <1>0 DEF Window
      <4>3. (win.grants * Unit + g * Unit) + Refilled' <= Capacity + win.credit
        BY <3>1, <3>3, <4>1, <4>2, <1>0, GivenFits
      <4> QED
        BY <3>2, <4>2, <4>3, Zenon
    <3> QED
      BY <3>4, <2>1, <1>2 DEF Grants
  <2>3. Drops'
    <3>1. (win.drops - 1 + 1) * Cooldown = (win.drops - 1) * Cooldown + Cooldown
      BY <1>0 DEF Window
    <3>2. CASE rate' < rate
      BY <3>1, <3>2, <2>1, <1>2, <1>0 DEF Drops, IInv, Steady, Window
    <3>3. CASE ~(rate' < rate)
      BY <3>3, <2>1, <1>2, <1>0 DEF Drops, IInv, Steady, Window
    <3> QED
      BY <3>2, <3>3
  <2>4. Raises'
    <3>1. (win.raises + 1) * Streak = win.raises * Streak + Streak
      BY <1>0 DEF Window
    <3>2. CASE rate' > rate
      BY <3>1, <3>2, <2>1, <1>2, <1>0 DEF Raises, IInv, Steady, Window
    <3>3. CASE ~(rate' > rate)
      BY <3>3, <2>1, <1>2, <1>0 DEF Raises, IInv, Steady, Window
    <3> QED
      BY <3>2, <3>3
  <2> QED
    BY <2>2, <2>3, <2>4 DEF IInv
<1> QED
  BY <1>1, <1>2

(* A tick earns what the rate says and ages the last decrease by one.      *)
LEMMA TimeStep == ASSUME IInv, TypeOK', Time PROVE IInv'
<1>0. /\ win \in Window /\ win' \in Window /\ rate \in Nat /\ rate' = rate
      /\ Refilled \in Nat /\ Refilled' \in Nat /\ streak \in Nat /\ streak' = streak
      /\ sinceDecrease \in Nat /\ sinceDecrease' \in Nat
      /\ sinceDecrease' <= sinceDecrease + 1 /\ Refilled' <= Refilled + rate
  BY RefilledFits, RefilledFitsNext, TickEarns DEF IInv, TypeOK, Time, Tick, AtMost
<1>1. CASE ~(win.on /\ win.age < WindowLength)
  BY <1>1, <1>0 DEF IInv, Time, Observe, Grants, Drops, Raises, Window
<1>2. CASE win.on /\ win.age < WindowLength
  <2>1. /\ win'.on /\ win'.age = win.age + 1 /\ win'.start = win.start
        /\ win'.credit = win.credit + rate /\ win'.grants = win.grants
        /\ win'.drops = win.drops /\ win'.raises = win.raises
        /\ win'.successes = win.successes
    <3>1. win.credit + 1 * rate = win.credit + rate /\ win.age + 1 \in Nat
      BY <1>0 DEF Window
    <3>2. win' = [win EXCEPT !.age = @ + 1, !.credit = @ + 1 * rate, !.grants = @ + 0,
                             !.drops = @ + Count(rate' < rate),
                             !.raises = @ + Count(rate' > rate), !.successes = @ + 0]
      BY <1>2, Zenon DEF Time, Observe
    <3>3. Count(rate' < rate) = 0 /\ Count(rate' > rate) = 0
      <4>1. ~(rate' < rate) /\ ~(rate' > rate)
        BY <1>0
      <4> QED
        BY <4>1, Zenon DEF Count
    <3> QED
      BY <1>0, <1>2, <3>1, <3>2, <3>3 DEF Window
  <2>2. Grants'
    BY <2>1, <1>2, <1>0 DEF Grants, IInv, Window
  <2>3. Drops'
    BY <2>1, <1>2, <1>0 DEF Drops, IInv, Window
  <2>4. Raises'
    BY <2>1, <1>2, <1>0 DEF Raises, IInv, Window
  <2> QED
    BY <2>2, <2>3, <2>4 DEF IInv
<1> QED
  BY <1>1, <1>2

-----------------------------------------------------------------------------
(* The operations.                                                         *)

(* Only 1 / rate rounded up is asked of the wait.                          *)
LEMMA WaitType == ASSUME NEW d \in Nat, NEW r \in Nat \ {0} PROVE (d + r - 1) \div r \in Nat
OBVIOUS

LEMMA GrantedStep ==
  ASSUME IInv, NEW c \in Callers, Granted(c), Observe(0, 1, 0) PROVE IInv'
<1>1. /\ tokens' = Refilled - Unit /\ sinceRefill' = 0 /\ rate' = rate
      /\ streak' = streak /\ sinceDecrease' = sinceDecrease
      /\ tokens' \in 0..Capacity /\ rate \in Nat
  BY RefilledFits DEF Granted, controlVars, IInv, TypeOK
<1>2. Refilled' = Refilled - Unit
  BY <1>1, JustRefilled
<1>3. TypeOK'
  <2>1. win' \in Window
    BY <1>1, ObserveType DEF IInv, TypeOK
  <2> QED
    BY <1>1, <2>1 DEF Granted, controlVars, IInv, TypeOK, FullAfter
<1>4. Steady(1, 0)
  <2>1. Refilled' + 1 * Unit <= Refilled
    BY <1>2, RefilledFits DEF IInv
  <2> QED
    BY <1>1, <2>1 DEF Steady, IInv, TypeOK
<1> QED
  BY <1>3, <1>4, SteadyStep

LEMMA TooEarlyStep ==
  ASSUME IInv, NEW c \in Callers, TooEarly(c), Observe(0, 0, 0) PROVE IInv'
<1>1. /\ tokens' = Refilled /\ sinceRefill' = 0 /\ rate' = rate
      /\ streak' = streak /\ sinceDecrease' = sinceDecrease
      /\ tokens' \in 0..Capacity /\ rate \in Nat \ {0}
  BY RefilledFits DEF TooEarly, controlVars, IInv, TypeOK
<1>2. Refilled' = Refilled
  BY <1>1, JustRefilled
<1>3. TypeOK'
  <2>1. win' \in Window
    BY <1>1, ObserveType DEF IInv, TypeOK
  <2>2. WaitFor(Unit - Refilled) \in Nat
    <3>1. Unit - Refilled \in Nat
      BY RefilledFits DEF TooEarly, IInv
    <3> QED
      BY <1>1, <3>1, WaitType DEF WaitFor
  <2> QED
    BY <1>1, <2>1, <2>2 DEF TooEarly, controlVars, IInv, TypeOK, FullAfter
<1>4. Steady(0, 0)
  <2>1. Refilled' + 0 * Unit <= Refilled
    BY <1>2, RefilledFits DEF IInv
  <2> QED
    BY <1>1, <2>1 DEF Steady, IInv, TypeOK
<1> QED
  BY <1>3, <1>4, SteadyStep

LEMMA SuccessStep ==
  ASSUME IInv, NEW c \in Callers, Success(c), Observe(0, 0, 1) PROVE IInv'
<1>1. /\ rate' \in MinRate..MaxRate /\ rate' >= rate /\ Refilled' = Refilled
      /\ tokens' \in 0..Capacity /\ sinceRefill' \in 0..FullAfter
      /\ sinceDecrease' = sinceDecrease
      /\ \/ streak + 1 >= Streak /\ streak' = 0
         \/ streak + 1 < Streak /\ streak' = streak + 1 /\ rate' = rate
  <2>1. CASE streak + 1 >= Streak
    <3>1. SetRate(Raised) /\ streak' = 0
      BY <2>1 DEF Success, IInv, TypeOK
    <3> QED
      BY <2>1, <3>1, RaisedFits, SetRateKeeps DEF Success, IInv
  <2>2. CASE streak + 1 < Streak
    BY <2>2 DEF Success, bucketVars, IInv, TypeOK, Refilled
  <2> QED
    BY <2>1, <2>2 DEF IInv, TypeOK
<1>2. TypeOK'
  <2>1. win' \in Window
    BY <1>1, ObserveType DEF IInv
  <2> QED
    BY <1>1, <2>1 DEF Success, IInv, TypeOK
<1>3. Steady(0, 1)
  <2>1. Refilled' + 0 * Unit <= Refilled
    BY <1>1, RefilledFits DEF IInv
  <2> QED
    BY <1>1, <2>1 DEF Steady, IInv, TypeOK
<1> QED
  BY <1>2, <1>3, SteadyStep

LEMMA ThrottledStep ==
  ASSUME IInv, NEW c \in Callers, Throttled(c), Observe(0, 0, 0) PROVE IInv'
<1>1. /\ rate' \in MinRate..MaxRate /\ rate' <= rate /\ Refilled' = Refilled
      /\ tokens' \in 0..Capacity /\ sinceRefill' \in 0..FullAfter /\ streak' = 0
      /\ \/ sinceDecrease >= Cooldown /\ sinceDecrease' = 0
         \/ rate' = rate /\ sinceDecrease' = sinceDecrease
  BY LowerKeeps DEF Throttled, IInv
<1>2. TypeOK'
  <2>1. win' \in Window
    BY <1>1, ObserveType DEF IInv
  <2> QED
    BY <1>1, <2>1 DEF Throttled, IInv, TypeOK
<1>3. Steady(0, 0)
  <2>1. Refilled' + 0 * Unit <= Refilled
    BY <1>1, RefilledFits DEF IInv
  <2> QED
    BY <1>1, <2>1 DEF Steady, IInv, TypeOK
<1> QED
  BY <1>2, <1>3, SteadyStep

LEMMA QuietStep ==
  ASSUME IInv, NEW c \in Callers, OtherFailure(c) \/ Resume(c), Observe(0, 0, 0)
  PROVE  IInv'
<1>1. UNCHANGED <<rate, tokens, sinceRefill, streak, sinceDecrease>> /\ Refilled' = Refilled
  BY DEF OtherFailure, Resume, bucketVars, controlVars, Refilled
<1>2. TypeOK'
  <2>1. win' \in Window
    BY <1>1, ObserveType DEF IInv, TypeOK
  <2> QED
    BY <1>1, <2>1 DEF OtherFailure, Resume, IInv, TypeOK
<1>3. Steady(0, 0)
  <2>1. Refilled' + 0 * Unit <= Refilled
    BY <1>1, RefilledFits DEF IInv
  <2> QED
    BY <1>1, <2>1 DEF Steady, IInv, TypeOK
<1> QED
  BY <1>2, <1>3, SteadyStep

-----------------------------------------------------------------------------

LEMMA LimiterInit == Init => IInv
<1> SUFFICES ASSUME Init PROVE IInv
  OBVIOUS
<1>1. NoWindow \in Window /\ ~NoWindow.on
  BY Zenon DEF NoWindow, Window
<1>2. TypeOK
  BY <1>1 DEF Init, TypeOK, FullAfter
<1> QED
  BY <1>1, <1>2 DEF Init, IInv, Grants, Drops, Raises

LEMMA LimiterStep == IInv /\ [Next]_vars => IInv'
<1> SUFFICES ASSUME IInv, [Next]_vars PROVE IInv'
  OBVIOUS
<1>1. ASSUME NEW c \in Callers, Caller(c) PROVE IInv'
  BY <1>1, GrantedStep, TooEarlyStep, SuccessStep, ThrottledStep, QuietStep DEF Caller
<1>2. CASE Time
  <2>1. TypeOK'
    <3>1. win' \in Window /\ rate' = rate
      BY <1>2, ObserveType DEF Time, Tick, IInv, TypeOK
    <3> QED
      BY <1>2, <3>1 DEF Time, Tick, IInv, TypeOK, AtMost, AtLeast, FullAfter
  <2> QED
    BY <1>2, <2>1, TimeStep
<1>3. CASE Watch
  <2>1. UNCHANGED <<rate, tokens, sinceRefill, streak, sinceDecrease, pc, wait, left>>
    BY <1>3 DEF Watch, bucketVars, controlVars, callerVars
  <2>2. /\ win' \in Window /\ win'.on /\ win'.age = 0 /\ win'.start = streak
        /\ win'.credit = 0 /\ win'.grants = 0 /\ win'.drops = 0 /\ win'.raises = 0
        /\ win'.successes = 0
    <3>1. win' = [NoWindow EXCEPT !.on = TRUE, !.start = streak] /\ streak \in Nat
      BY <1>3 DEF Watch, IInv, TypeOK
    <3> QED
      BY <3>1 DEF NoWindow, Window
  <2>3. Refilled' = Refilled /\ Refilled <= Capacity /\ Refilled \in Nat
    BY <2>1, RefilledFits DEF IInv, Refilled
  <2>4. 0 * Unit = 0 /\ 0 * Streak = 0
    OBVIOUS
  <2> QED
    BY <2>1, <2>2, <2>3, <2>4 DEF IInv, TypeOK, Grants, Drops, Raises
<1>4. CASE UNCHANGED vars
  BY <1>4 DEF vars, bucketVars, controlVars, callerVars, IInv, TypeOK, Grants, Drops, Raises,
     Refilled
<1> QED
  BY <1>1, <1>2, <1>3, <1>4 DEF Next

LEMMA LimiterInvariant == Spec => []IInv
BY LimiterInit, LimiterStep, PTL DEF Spec

(* Every variable keeps its type; the rate stays within its limits and the *)
(* bucket within its capacity.                                             *)
THEOREM LimiterTyped == Spec => []TypeOK
BY LimiterInvariant, PTL DEF IInv

(* In no window of time does the bucket give more than it earned in it at  *)
(* the rates then in force, and one bucketful more.                        *)
THEOREM NeverTooManyGrants == Spec => []GrantsBounded
BY LimiterInvariant, PTL DEF IInv, Grants, GrantsBounded

(* The rate is lowered once per cooldown and raised once per streak.       *)
THEOREM RateMovesAsTold == Spec => []RateMovesSlowly
<1>1. IInv => RateMovesSlowly
  <2> SUFFICES ASSUME IInv, win.on PROVE RateMovesSlowly
    BY DEF RateMovesSlowly
  <2>1. /\ win.drops \in Nat /\ win.raises \in Nat /\ win.age \in Nat
        /\ sinceDecrease \in Nat /\ streak \in Nat /\ win.start + win.successes \in Nat
    BY DEF IInv, TypeOK, Window
  <2>2. (win.drops - 1) * Cooldown \in Int /\ win.raises * Streak \in Nat
    BY <2>1
  <2> QED
    BY <2>1, <2>2 DEF IInv, Drops, Raises, RateMovesSlowly
<1> QED
  BY <1>1, LimiterInvariant, PTL
=============================================================================
