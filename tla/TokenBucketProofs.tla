--------------------------- MODULE TokenBucketProofs ---------------------------
(***************************************************************************)
(* Proofs about TokenBucket, for any number of callers, any burst and rate *)
(* and windows of any length.                                              *)
(***************************************************************************)
EXTENDS TokenBucket, TLAPS

\* What has been granted and what could be granted now never exceed what the
\* bucket held when the window began and has earned since.
GrantsArePaidFor == spent + Refilled <= Capacity + span

\* What a sleeper has left and what is in the bucket make up a token at most:
\* others only take tokens, and time moves both by one.
SleepersKeepUp ==
  \A t \in Callers : pc[t] = "sleeping" /\ wait[t] > 0 => wait[t] + Refilled <= Cost

IInv == TypeOK /\ GrantsArePaidFor /\ SleepersKeepUp

--------------------------------------------------------------------------------
\* The capacity is a natural number that holds at least one call.
LEMMA CapacityFits == Capacity \in Nat /\ Cost <= Capacity
BY ConfigAssumption DEF ConfigAssumption, Capacity

\* The smaller of two numbers is no larger than the first.
LEMMA LesserIsLess ==
  ASSUME NEW a \in Nat, NEW b \in Int
  PROVE  Lesser(a, b) \in Int /\ Lesser(a, b) <= a
BY DEF Lesser

\* A refill leaves the bucket between empty and full.
LEMMA RefillFits ==
  ASSUME TypeOK
  PROVE  Refilled \in 0 .. Capacity
BY CapacityFits DEF TypeOK, Refilled, Lesser

\* Time adds at most one unit to the bucket, and exactly one while the bucket
\* is short of a token.
LEMMA TickRefills ==
  ASSUME TypeOK, Tick
  PROVE  Refilled' = Refilled \/ Refilled' = Refilled + 1
BY CapacityFits DEF TypeOK, Tick, Refilled, Lesser

\* The bucket is created full and nothing has been granted.
LEMMA InitInv == Init => IInv
<1> SUFFICES ASSUME Init PROVE IInv OBVIOUS
<1> USE CapacityFits, ConfigAssumption DEF ConfigAssumption, Init
<1>1. TypeOK BY DEF TypeOK
<1>2. GrantsArePaidFor BY DEF GrantsArePaidFor, Refilled, Lesser
<1>3. SleepersKeepUp BY DEF SleepersKeepUp
<1>4. QED BY <1>1, <1>2, <1>3 DEF IInv

\* Every step of a caller, of time and of the observer preserves it.
LEMMA StepInv == IInv /\ [Next]_vars => IInv'
<1> SUFFICES ASSUME IInv, [Next]_vars PROVE IInv' OBVIOUS
<1>inv. TypeOK /\ GrantsArePaidFor /\ SleepersKeepUp BY DEF IInv
<1>fit. Refilled \in 0 .. Capacity BY <1>inv, RefillFits
<1>cap. /\ Capacity \in Nat /\ Cost <= Capacity /\ Cost \in Nat \ {0}
        /\ MaxSpan \in Nat /\ MaxCalls \in Nat
  BY CapacityFits, ConfigAssumption DEF ConfigAssumption
<1>1. ASSUME NEW t \in Callers, Call(t) \/ Wake(t) \/ Return(t) PROVE IInv'
  <2> USE <1>1, <1>inv, <1>cap DEF Call, Wake, Return
  <2>1. TypeOK' BY DEF TypeOK
  <2>2. Refilled' = Refilled BY DEF Refilled
  <2>3. GrantsArePaidFor' BY <2>2 DEF GrantsArePaidFor
  <2>4. SleepersKeepUp' BY <2>2 DEF SleepersKeepUp, TypeOK
  <2>5. QED BY <2>1, <2>3, <2>4 DEF IInv
<1>2. ASSUME NEW t \in Callers, Take(t) PROVE IInv'
  <2> USE <1>2, <1>inv, <1>cap, <1>fit DEF Take
  <2>1. TypeOK' BY DEF TypeOK
  <2>2. Refilled' = Refilled - Cost BY DEF Refilled, Lesser
  <2>3. GrantsArePaidFor' BY <2>2 DEF GrantsArePaidFor, TypeOK
  <2>4. SleepersKeepUp' BY <2>2 DEF SleepersKeepUp, TypeOK
  <2>5. QED BY <2>1, <2>3, <2>4 DEF IInv
<1>3. ASSUME NEW t \in Callers, Sleep(t) PROVE IInv'
  <2> USE <1>3, <1>inv, <1>cap, <1>fit DEF Sleep
  <2>1. TypeOK' BY DEF TypeOK
  <2>2. Refilled' = Refilled BY DEF Refilled, Lesser
  <2>3. GrantsArePaidFor' BY <2>2 DEF GrantsArePaidFor
  <2>4. SleepersKeepUp' BY <2>2 DEF SleepersKeepUp, TypeOK
  <2>5. QED BY <2>1, <2>3, <2>4 DEF IInv
<1>4. CASE Tick
  <2> USE <1>4, <1>inv, <1>cap
  <2>1. TypeOK' BY DEF TypeOK, Tick, Lesser
  <2>2. Refilled' = Refilled \/ Refilled' = Refilled + 1 BY TickRefills
  <2>3. Refilled' \in Int /\ Refilled' <= Capacity
    <3>1. tokens' + elapsed' \in Int BY DEF TypeOK, Tick, Lesser
    <3>2. LET r == Lesser(Capacity, tokens' + elapsed')
          IN  r \in Int /\ r <= Capacity
      BY <3>1, <1>cap, LesserIsLess, Zenon
    <3>3. QED BY <3>2 DEF Refilled
  <2>4. GrantsArePaidFor'
    <3>1. CASE span < MaxSpan
      BY <2>2, <3>1, <1>fit DEF GrantsArePaidFor, TypeOK, Tick
    <3>2. CASE ~(span < MaxSpan)
      <4>1. spent' = 0 /\ span' = 0 BY <3>2 DEF Tick
      <4>2. ASSUME NEW r \in Int, r <= Capacity PROVE 0 + r <= Capacity + 0
        BY <4>2
      <4>3. QED BY <2>3, <4>1, <4>2 DEF GrantsArePaidFor
    <3>3. QED BY <3>1, <3>2
  <2>5. SleepersKeepUp'
    <3>1. SUFFICES ASSUME NEW t \in Callers, pc[t] = "sleeping", wait'[t] > 0
                   PROVE  wait'[t] + Refilled' <= Cost
      BY DEF SleepersKeepUp, Tick
    <3>2. wait[t] > 0 /\ wait'[t] = wait[t] - 1 /\ wait[t] \in Nat
      BY <3>1 DEF TypeOK, Tick
    <3>3. QED BY <2>2, <3>1, <3>2, <1>fit DEF SleepersKeepUp
  <2>6. QED BY <2>1, <2>4, <2>5 DEF IInv
<1>5. CASE Observe
  <2> USE <1>5, <1>inv, <1>cap, <1>fit DEF Observe
  <2>1. TypeOK' BY DEF TypeOK
  <2>2. Refilled' = Refilled BY DEF Refilled
  <2>3. GrantsArePaidFor' BY <2>2 DEF GrantsArePaidFor
  <2>4. SleepersKeepUp' BY <2>2 DEF SleepersKeepUp
  <2>5. QED BY <2>1, <2>3, <2>4 DEF IInv
<1>6. CASE UNCHANGED vars
  BY <1>6, <1>inv DEF vars, IInv, TypeOK, GrantsArePaidFor, SleepersKeepUp, Refilled
<1>7. QED BY <1>1, <1>2, <1>3, <1>4, <1>5, <1>6 DEF Next, Advance

\* The conjunction above is an invariant of the bucket.
LEMMA Invariance == Spec => []IInv
BY InitInv, StepInv, PTL DEF Spec

--------------------------------------------------------------------------------
\* Tokens stay between nothing and the burst, and every delay below a token.
THEOREM TypeCorrect == Spec => []TypeOK
<1>1. IInv => TypeOK BY DEF IInv
<1>2. QED BY <1>1, Invariance, PTL

\* In no window of time, wherever it begins, is the provider called more often
\* than the burst and the rate of the policy allow.
THEOREM RateIsBounded == Spec => []WindowBound
<1>1. IInv => WindowBound
  <2> SUFFICES ASSUME IInv PROVE WindowBound OBVIOUS
  <2>1. Refilled \in 0 .. Capacity BY RefillFits DEF IInv
  <2>2. QED
    BY <2>1, CapacityFits, ConfigAssumption
       DEF ConfigAssumption, IInv, GrantsArePaidFor, WindowBound, TypeOK
<1>2. QED BY <1>1, Invariance, PTL

\* Nobody sleeps on while a whole token is in the bucket.
THEOREM SleepersWakeInTime == Spec => []NoOversleep
<1>1. IInv => NoOversleep
  <2> SUFFICES ASSUME IInv, NEW t \in Callers, pc[t] = "sleeping", Refilled >= Cost
               PROVE  wait[t] = 0
    BY DEF NoOversleep
  <2>1. Refilled \in 0 .. Capacity BY RefillFits DEF IInv
  <2>2. QED
    BY <2>1, CapacityFits, ConfigAssumption
       DEF ConfigAssumption, IInv, SleepersKeepUp, TypeOK
<1>2. QED BY <1>1, Invariance, PTL

================================================================================
