------------------------------ MODULE TokenBucket ------------------------------
(***************************************************************************)
(* RateLimitedRateProvider of resilience.py (its async twin runs the same  *)
(* loop): callers take a token under the lock or sleep outside it until    *)
(* one should be there, and then compete for it again.                     *)
(*                                                                         *)
(* Time and tokens share a unit: the bucket gains one unit per tick, so a  *)
(* call costs Cost = 1/rate_per_second units and the bucket holds Burst    *)
(* times that.  The code's floats are exact here.  Clock readings are kept *)
(* as differences: the time since the last refill, which no longer matters *)
(* once it fills the bucket, and the time a sleeper has left.              *)
(***************************************************************************)
EXTENDS Integers

CONSTANTS
  Callers,   \* threads, or asyncio tasks
  Burst,     \* burst
  Cost,      \* ticks it takes to earn one call
  MaxCalls,  \* bound on the calls of each caller
  MaxSpan    \* bound on the length of an observation window

\* The policy's checks.
ASSUME ConfigAssumption ==
  /\ Burst \in Nat \ {0}
  /\ Cost \in Nat \ {0}
  /\ MaxCalls \in Nat
  /\ MaxSpan \in Nat

Capacity == Burst * Cost

VARIABLES
  tokens,   \* _tokens, in units
  elapsed,  \* self._clock() - _updated_at, up to Capacity
  pc,       \* idle, acquiring, sleeping, or calling the inner provider
  wait,     \* what is left of a sleeper's delay
  calls,    \* how many calls a caller has begun
  span,     \* history: time since the observation window began
  spent     \* history: units granted in it

vars == <<tokens, elapsed, pc, wait, calls, span, spent>>

Lesser(a, b) == IF a <= b THEN a ELSE b

\* Mutant of Refilled: the refill is not capped by the burst.
RefilledUncapped == tokens + elapsed

\* The tokens after the refill at the top of the loop.
Refilled == Lesser(Capacity, tokens + elapsed)

Init ==
  /\ tokens = Capacity
  /\ elapsed = 0
  /\ pc = [t \in Callers |-> "idle"]
  /\ wait = [t \in Callers |-> 0]
  /\ calls = [t \in Callers |-> 0]
  /\ span = 0
  /\ spent = 0

\* get_rate is called.
Call(t) ==
  /\ pc[t] = "idle"
  /\ calls[t] < MaxCalls
  /\ pc' = [pc EXCEPT ![t] = "acquiring"]
  /\ calls' = [calls EXCEPT ![t] = @ + 1]
  /\ UNCHANGED <<tokens, elapsed, wait, span, spent>>

\* Mutant of Take: _updated_at is not moved, so time is credited twice.
TakeUnstamped(t) ==
  /\ pc[t] = "acquiring"
  /\ Refilled >= Cost
  /\ tokens' = Refilled - Cost
  /\ spent' = spent + Cost
  /\ pc' = [pc EXCEPT ![t] = "calling"]
  /\ UNCHANGED <<elapsed, wait, calls, span>>

\* The locked block finds a token and takes it.
Take(t) ==
  /\ pc[t] = "acquiring"
  /\ Refilled >= Cost
  /\ tokens' = Refilled - Cost
  /\ elapsed' = 0
  /\ spent' = spent + Cost
  /\ pc' = [pc EXCEPT ![t] = "calling"]
  /\ UNCHANGED <<wait, calls, span>>

\* Mutant of Sleep: it sleeps for a whole token.
SleepForWholeToken(t) ==
  /\ pc[t] = "acquiring"
  /\ Refilled < Cost
  /\ tokens' = Refilled
  /\ elapsed' = 0
  /\ wait' = [wait EXCEPT ![t] = Cost]
  /\ pc' = [pc EXCEPT ![t] = "sleeping"]
  /\ UNCHANGED <<calls, span, spent>>

\* Mutant of Sleep: the part of a token earned so far is lost.
SleepLosesTokens(t) ==
  /\ pc[t] = "acquiring"
  /\ Refilled < Cost
  /\ tokens' = 0
  /\ elapsed' = 0
  /\ wait' = [wait EXCEPT ![t] = Cost - Refilled]
  /\ pc' = [pc EXCEPT ![t] = "sleeping"]
  /\ UNCHANGED <<calls, span, spent>>

\* The locked block finds too little: refill, and sleep for what is missing.
\* Nothing is reserved for the sleeper.
Sleep(t) ==
  /\ pc[t] = "acquiring"
  /\ Refilled < Cost
  /\ tokens' = Refilled
  /\ elapsed' = 0
  /\ wait' = [wait EXCEPT ![t] = Cost - Refilled]
  /\ pc' = [pc EXCEPT ![t] = "sleeping"]
  /\ UNCHANGED <<calls, span, spent>>

\* self._sleep(delay) returns, at the earliest when the delay is over.
Wake(t) ==
  /\ pc[t] = "sleeping"
  /\ wait[t] = 0
  /\ pc' = [pc EXCEPT ![t] = "acquiring"]
  /\ UNCHANGED <<tokens, elapsed, wait, calls, span, spent>>

\* The inner provider returns or raises.
Return(t) ==
  /\ pc[t] = "calling"
  /\ pc' = [pc EXCEPT ![t] = "idle"]
  /\ UNCHANGED <<tokens, elapsed, wait, calls, span, spent>>

\* One unit of time.  A window that has reached its bound starts again.
Tick ==
  /\ elapsed' = Lesser(Capacity, elapsed + 1)
  /\ wait' = [t \in Callers |-> IF wait[t] > 0 THEN wait[t] - 1 ELSE 0]
  /\ span' = IF span < MaxSpan THEN span + 1 ELSE 0
  /\ spent' = IF span < MaxSpan THEN spent ELSE 0
  /\ UNCHANGED <<tokens, pc, calls>>

\* History: the window may start again at any moment.
Observe == span' = 0 /\ spent' = 0 /\ UNCHANGED <<tokens, elapsed, pc, wait, calls>>

Advance(t) == Take(t) \/ Sleep(t) \/ Wake(t) \/ Return(t)

Next ==
  \/ \E t \in Callers : Call(t) \/ Advance(t)
  \/ Tick
  \/ Observe

\* Threads are scheduled, sleeps end, calls end, and time passes.
Fairness == WF_vars(Tick) /\ \A t \in Callers : WF_vars(Advance(t))

Spec == Init /\ [][Next]_vars /\ Fairness

--------------------------------------------------------------------------------
\* Every variable has its type; the bucket never overflows or goes negative.
TypeOK ==
  /\ tokens \in 0 .. Capacity
  /\ elapsed \in 0 .. Capacity
  /\ pc \in [Callers -> {"idle", "acquiring", "sleeping", "calling"}]
  /\ wait \in [Callers -> 0 .. Cost]
  /\ calls \in [Callers -> 0 .. MaxCalls]
  /\ span \in 0 .. MaxSpan
  /\ spent \in Nat

\* Over any window of time, whoever sleeps, wakes and competes, the provider
\* is called at most Burst times plus once per Cost ticks of the window.
WindowBound == spent <= Capacity + span

\* Nobody sleeps on while there is a whole token to take, although the delay
\* was computed from a state other callers have changed since.
NoOversleep ==
  \A t \in Callers : pc[t] = "sleeping" /\ Refilled >= Cost => wait[t] = 0

\* With finitely many calls nobody sleeps for ever, although nothing is
\* reserved for a sleeper.
EveryoneIsServed == \A t \in Callers : pc[t] = "acquiring" ~> pc[t] = "calling"

================================================================================
