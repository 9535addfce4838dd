------------------------------ MODULE Limiter ------------------------------
(***************************************************************************)
(* The rate limiter of core/ratelimit.py: the token bucket, the AIMD       *)
(* controller that moves its rate, and the workers that wait for tokens,   *)
(* make their calls and report how they went.                              *)
(*                                                                         *)
(* Time is counted in ticks and tokens in parts: Unit parts are a token, a *)
(* rate is parts per tick.  The code looks at `now - _last_refill` and     *)
(* `now - _last_decrease_at` only, so each is a variable of its own, which *)
(* stops where more time changes nothing.  Nothing in acquire() suspends   *)
(* under its lock, so a turn of its loop is one step.                      *)
(***************************************************************************)
EXTENDS Integers, FiniteSets

CONSTANTS
  Callers,       \* the workers of the pool
  MaxCalls,      \* bound: calls each worker makes, retries included
  Unit,          \* parts in a token
  Capacity,      \* capacity of the bucket
  StartRate,     \* rate_rps
  MinRate,       \* min_rate
  MaxRate,       \* max_rate
  IncreaseStep,  \* increase_step
  Streak,        \* success_streak_for_increase (50)
  Cooldown,      \* cooldown_s (5 seconds)
  Pauses,        \* how long a reset header may ask to wait, jitter included
  WindowLength   \* length of the window the observer looks at

(* min_rate <= rate_rps holds for a limit of 3 requests a minute or more.  *)
ASSUME RateAssumption ==
  /\ StartRate \in Nat /\ MinRate \in Nat \ {0} /\ MaxRate \in Nat
  /\ MinRate <= StartRate /\ StartRate <= MaxRate /\ IncreaseStep \in Nat
ASSUME LimiterAssumption ==
  /\ IsFiniteSet(Callers) /\ MaxCalls \in Nat
  /\ Unit \in Nat \ {0} /\ Capacity \in Nat /\ Unit <= Capacity
  /\ Streak \in Nat \ {0} /\ Cooldown \in Nat \ {0}
  /\ Pauses \subseteq Nat /\ WindowLength \in Nat

VARIABLES
  rate,           \* bucket.rate
  tokens,         \* _tokens
  sinceRefill,    \* now - _last_refill, up to FullAfter
  streak,         \* _consecutive_successes
  sinceDecrease,  \* now - _last_decrease_at, up to Cooldown
  pc,             \* idle, waiting (asleep in acquire), calling, paused
  wait,           \* what is left of each worker's sleep
  left,           \* calls each worker has yet to make
  win             \* the observer's window: see Watch

bucketVars == <<rate, tokens, sinceRefill>>
controlVars == <<streak, sinceDecrease>>
callerVars == <<pc, wait, left>>
vars == <<bucketVars, controlVars, callerVars, win>>

AtMost(m, n) == IF n < m THEN n ELSE m
AtLeast(m, n) == IF n > m THEN n ELSE m

FullAfter == Capacity   \* at one part a tick an empty bucket is full by then

NoWindow == [on |-> FALSE, age |-> 0, start |-> 0, credit |-> 0, grants |-> 0,
             drops |-> 0, raises |-> 0, successes |-> 0]

Init ==
  /\ rate = StartRate /\ tokens = Capacity /\ sinceRefill = 0
  /\ streak = 0 /\ sinceDecrease = Cooldown
  /\ pc = [c \in Callers |-> "idle"] /\ wait = [c \in Callers |-> 0]
  /\ left = [c \in Callers |-> MaxCalls]
  /\ win = NoWindow

-----------------------------------------------------------------------------
(* A definition called a slip is a plausible bug in the one that follows   *)
(* it: no action uses it, and the properties tell the two apart.           *)

RefilledSlip ==   \* loses what came in since the last look
  IF tokens < Unit THEN tokens ELSE AtMost(Capacity, tokens + sinceRefill * rate)

(* _tokens after _refill().                                                *)
Refilled == AtMost(Capacity, tokens + sinceRefill * rate)

(* Whole ticks until the bucket has made up a deficit of d parts.          *)
WaitFor(d) == (d + rate - 1) \div rate

(* One turn of the loop in acquire(), at its start or after its sleep.     *)
Asking(c) == \/ pc[c] = "idle" /\ left[c] > 0
             \/ pc[c] = "waiting" /\ wait[c] = 0

Granted(c) ==
  /\ Asking(c) /\ Refilled >= Unit
  /\ tokens' = Refilled - Unit /\ sinceRefill' = 0
  /\ pc' = [pc EXCEPT ![c] = "calling"]
  /\ left' = [left EXCEPT ![c] = IF pc[c] = "idle" THEN @ - 1 ELSE @]
  /\ UNCHANGED <<rate, controlVars, wait>>

TooEarly(c) ==
  /\ Asking(c) /\ Refilled < Unit
  /\ tokens' = Refilled /\ sinceRefill' = 0
  /\ pc' = [pc EXCEPT ![c] = "waiting"]
  /\ wait' = [wait EXCEPT ![c] = WaitFor(Unit - Refilled)]
  /\ left' = [left EXCEPT ![c] = IF pc[c] = "idle" THEN @ - 1 ELSE @]
  /\ UNCHANGED <<rate, controlVars>>

SetRateSlip(r) ==   \* pays the time since the last refill at the new rate
  rate' = r /\ UNCHANGED <<tokens, sinceRefill>>

SetRate(r) == rate' = r /\ tokens' = Refilled /\ sinceRefill' = 0

RaisedSlip == rate + IncreaseStep   \* past the configured limit

(* The rate after a streak of successes.                                   *)
Raised == AtMost(MaxRate, rate + IncreaseStep)

Success(c) ==   \* record_success
  /\ pc[c] = "calling" /\ pc' = [pc EXCEPT ![c] = "idle"]
  /\ \/ /\ streak + 1 >= Streak
        /\ SetRate(Raised) /\ streak' = 0
     \/ /\ streak + 1 < Streak
        /\ streak' = streak + 1 /\ UNCHANGED bucketVars
  /\ UNCHANGED <<sinceDecrease, wait, left>>

LowerSlip ==   \* every 429 of a burst lowers the rate
  SetRate(AtLeast(MinRate, (3 * rate) \div 4)) /\ sinceDecrease' = 0

(* The rate is lowered by a quarter, rounded down here, unless it was      *)
(* lowered less than a cooldown ago.                                       *)
Lower ==
  IF sinceDecrease >= Cooldown
  THEN SetRate(AtLeast(MinRate, (3 * rate) \div 4)) /\ sinceDecrease' = 0
  ELSE UNCHANGED <<bucketVars, sinceDecrease>>

Throttled(c) ==   \* record_throttle, then honor_reset_header if there is one
  /\ pc[c] = "calling"
  /\ streak' = 0 /\ Lower
  /\ \/ pc' = [pc EXCEPT ![c] = "idle"] /\ UNCHANGED wait
     \/ /\ pc' = [pc EXCEPT ![c] = "paused"]
        /\ \E d \in Pauses : wait' = [wait EXCEPT ![c] = d]
  /\ UNCHANGED left

OtherFailure(c) ==   \* neither a success nor a 429: the controller never hears
  /\ pc[c] = "calling" /\ pc' = [pc EXCEPT ![c] = "idle"]
  /\ UNCHANGED <<bucketVars, controlVars, wait, left>>

Resume(c) ==
  /\ pc[c] = "paused" /\ wait[c] = 0
  /\ pc' = [pc EXCEPT ![c] = "idle"]
  /\ UNCHANGED <<bucketVars, controlVars, wait, left>>

Tick ==   \* a sleep may last longer than it was asked to
  /\ sinceRefill' = AtMost(FullAfter, sinceRefill + 1)
  /\ sinceDecrease' = AtMost(Cooldown, sinceDecrease + 1)
  /\ wait' = [c \in Callers |-> AtLeast(0, wait[c] - 1)]
  /\ UNCHANGED <<rate, tokens, streak, pc, left>>

-----------------------------------------------------------------------------
(* The observer opens one window of time, at any moment, and counts what   *)
(* happens until it is WindowLength old: the parts the bucket earned, the  *)
(* tokens it gave, the changes of the rate and the successes.              *)

Watch ==
  /\ win = NoWindow
  /\ win' = [NoWindow EXCEPT !.on = TRUE, !.start = streak]
  /\ UNCHANGED <<bucketVars, controlVars, callerVars>>

Count(b) == IF b THEN 1 ELSE 0

Observe(ticks, grants, successes) ==
  IF win.on /\ win.age < WindowLength
  THEN win' = [win EXCEPT
                 !.age = @ + ticks,
                 !.credit = @ + ticks * rate,
                 !.grants = @ + grants,
                 !.drops = @ + Count(rate' < rate),
                 !.raises = @ + Count(rate' > rate),
                 !.successes = @ + successes]
  ELSE UNCHANGED win

Caller(c) == \/ Granted(c) /\ Observe(0, 1, 0)
             \/ Success(c) /\ Observe(0, 0, 1)
             \/ (TooEarly(c) \/ Throttled(c) \/ OtherFailure(c) \/ Resume(c))
                  /\ Observe(0, 0, 0)

Time == Tick /\ Observe(1, 0, 0)

Next == Time \/ Watch \/ \E c \in Callers : Caller(c)

Spec == Init /\ [][Next]_vars

(* Time passes, and the event loop runs whoever can go on; how a call ends *)
(* is not chosen.                                                          *)
FairSpec == Spec /\ WF_vars(Time) /\ \A c \in Callers : WF_vars(Caller(c))

-----------------------------------------------------------------------------
(* Properties                                                              *)

Window == [on : BOOLEAN, age : Nat, start : Nat, credit : Nat, grants : Nat,
           drops : Nat, raises : Nat, successes : Nat]

(* Every variable keeps its type; the rate stays within its limits and the *)
(* bucket within its capacity.                                             *)
TypeOK ==
  /\ rate \in MinRate..MaxRate /\ tokens \in 0..Capacity
  /\ sinceRefill \in 0..FullAfter
  /\ streak \in 0..(Streak - 1) /\ sinceDecrease \in 0..Cooldown
  /\ pc \in [Callers -> {"idle", "waiting", "calling", "paused"}]
  /\ wait \in [Callers -> Nat] /\ left \in [Callers -> Int]
  /\ win \in Window

(* In no window of time are more tokens given than the bucket earned in it *)
(* at the rates then in force, and one bucketful more: what the property   *)
(* test of the limiter says of a constant rate, across changes of it.      *)
GrantsBounded ==
  win.on => win.grants * Unit + (IF win.age < WindowLength THEN Refilled ELSE 0)
              <= Capacity + win.credit

(* However many 429s come together and whatever successes come in between, *)
(* the rate is lowered at most once per cooldown; and it is raised at most *)
(* once per streak of successes.                                           *)
RateMovesSlowly ==
  win.on => /\ win.drops > 0 => (win.drops - 1) * Cooldown <= win.age
            /\ win.raises * Streak <= win.start + win.successes

(* Whoever waits for a token gets one, although sleepers are woken in no   *)
(* order and a newcomer may take what a sleeper waited for.                *)
EveryoneServed ==
  \A c \in Callers : pc[c] = "waiting" ~> pc[c] = "calling"
=============================================================================
