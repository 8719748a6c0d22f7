------------------------- MODULE CircuitBreakerProofs -------------------------
(***************************************************************************)
(* Proofs about CircuitBreaker, for any number of callers, any threshold   *)
(* and recovery timeout, either kind of circuit, and whether or not calls  *)
(* may end with unclassified exceptions.                                   *)
(***************************************************************************)
EXTENDS CircuitBreaker, TLAPS

\* A probe at the provider is the registered one, as long as no late call has
\* been recorded; it was admitted at the recovery timeout, which is not
\* restarted while it runs.
UndisturbedProbe ==
  ~disturbed => /\ OneProbe
                /\ \A t \in Callers : Probing(t) => probe /\ age = Recovery

\* The time since the last probe is kept while the circuit is open, and once
\* that probe is no longer registered it is at least the age of the opening.
SpacingKept ==
  /\ ~Open => sinceProbe = None
  /\ Open /\ ~probe /\ sinceProbe # None => sinceProbe >= age

IInv ==
  /\ TypeOK
  /\ FieldsAgree
  /\ UndisturbedProbe
  /\ ProbeIsRunning
  /\ SpacingKept

--------------------------------------------------------------------------------
\* The invariant holds of the circuit the constructor builds.
LEMMA InitInv == Init => IInv
<1> USE ConfigAssumption DEF ConfigAssumption
<1> SUFFICES ASSUME Init PROVE IInv OBVIOUS
<1>1. TypeOK
  <2>1. failures \in 0 .. Threshold BY DEF Init
  <2>2. age \in 0 .. Recovery \cup {None} /\ sinceProbe \in 0 .. Recovery \cup {None}
    BY DEF Init
  <2>3. role \in [Callers -> {"idle", "normal", "probe"}] BY DEF Init
  <2>4. probe \in BOOLEAN /\ disturbed \in BOOLEAN /\ lost \in BOOLEAN BY DEF Init
  <2>5. QED BY <2>1, <2>2, <2>3, <2>4 DEF TypeOK
<1>2. FieldsAgree BY DEF Init, FieldsAgree, Open
<1>3. UndisturbedProbe BY DEF Init, UndisturbedProbe, OneProbe, Probing
<1>4. ProbeIsRunning BY DEF Init, ProbeIsRunning
<1>5. SpacingKept BY DEF Init, SpacingKept, Open
<1>6. QED BY <1>1, <1>2, <1>3, <1>4, <1>5 DEF IInv

\* Every step of the circuit preserves it: the admissions first, then the four
\* ways a call's outcome is recorded, then time.
LEMMA StepInv == IInv /\ [Next]_vars => IInv'
<1> USE ConfigAssumption DEF ConfigAssumption
<1> USE DEF Probing, Open
<1> SUFFICES ASSUME IInv, [Next]_vars PROVE IInv' OBVIOUS
<1>inv. TypeOK /\ FieldsAgree /\ UndisturbedProbe /\ ProbeIsRunning /\ SpacingKept
  BY DEF IInv
<1>1. ASSUME NEW t \in Callers, AdmitNormal(t) PROVE IInv'
  <2> USE <1>inv, <1>1 DEF AdmitNormal, history
  <2>1. TypeOK' BY DEF TypeOK
  <2>2. FieldsAgree' BY DEF FieldsAgree
  <2>3. UndisturbedProbe' BY DEF TypeOK, UndisturbedProbe, OneProbe
  <2>4. ProbeIsRunning' BY DEF TypeOK, FieldsAgree, ProbeIsRunning
  <2>5. SpacingKept' BY DEF SpacingKept
  <2>6. QED BY <2>1, <2>2, <2>3, <2>4, <2>5 DEF IInv
<1>2. ASSUME NEW t \in Callers, AdmitProbe(t) PROVE IInv'
  <2> USE <1>inv, <1>2 DEF AdmitProbe
  <2>1. TypeOK' BY DEF TypeOK
  <2>2. FieldsAgree' BY DEF FieldsAgree
  <2>3. UndisturbedProbe' BY DEF TypeOK, UndisturbedProbe, OneProbe
  <2>4. ProbeIsRunning' BY DEF TypeOK, ProbeIsRunning
  <2>5. SpacingKept' BY DEF SpacingKept
  <2>6. QED BY <2>1, <2>2, <2>3, <2>4, <2>5 DEF IInv
<1>3. ASSUME NEW t \in Callers, Succeed(t) PROVE IInv'
  <2> USE <1>inv, <1>3 DEF Succeed, Finish, Reset
  <2>1. TypeOK'
    <3>1. disturbed' \in BOOLEAN BY Zenon DEF TypeOK, Noted
    <3>2. failures' \in 0 .. Threshold BY DEF TypeOK
    <3>3. age' \in 0 .. Recovery \cup {None} BY DEF TypeOK
    <3>4. sinceProbe' \in 0 .. Recovery \cup {None} BY DEF TypeOK
    <3>5. role' \in [Callers -> {"idle", "normal", "probe"}] BY DEF TypeOK
    <3>6. probe' \in BOOLEAN /\ lost' \in BOOLEAN BY DEF TypeOK
    <3>7. QED BY <3>1, <3>2, <3>3, <3>4, <3>5, <3>6 DEF TypeOK
  <2>2. FieldsAgree' BY DEF FieldsAgree
  <2>3. UndisturbedProbe'
    BY DEF TypeOK, FieldsAgree, UndisturbedProbe, OneProbe, Noted
  <2>4. ProbeIsRunning' BY DEF ProbeIsRunning
  <2>5. SpacingKept' BY DEF SpacingKept
  <2>6. QED BY <2>1, <2>2, <2>3, <2>4, <2>5 DEF IInv
<1>4. ASSUME NEW t \in Callers, Unavailable(t) PROVE IInv'
  <2> USE <1>inv, <1>4 DEF Unavailable, Finish, Reset, history
  <2>1. TypeOK'
    <3>1. disturbed' \in BOOLEAN BY Zenon DEF TypeOK, Noted
    <3>2. failures' \in 0 .. Threshold BY DEF TypeOK
    <3>3. age' \in 0 .. Recovery \cup {None} BY DEF TypeOK
    <3>4. sinceProbe' \in 0 .. Recovery \cup {None} BY DEF TypeOK
    <3>5. role' \in [Callers -> {"idle", "normal", "probe"}] BY DEF TypeOK
    <3>6. probe' \in BOOLEAN /\ lost' \in BOOLEAN BY DEF TypeOK
    <3>7. QED BY <3>1, <3>2, <3>3, <3>4, <3>5, <3>6 DEF TypeOK
  <2>2. FieldsAgree' BY DEF FieldsAgree
  <2>3. UndisturbedProbe'
    BY DEF TypeOK, FieldsAgree, UndisturbedProbe, OneProbe, Noted
  <2>4. ProbeIsRunning' BY DEF TypeOK, ProbeIsRunning
  <2>5. SpacingKept' BY DEF SpacingKept
  <2>6. QED BY <2>1, <2>2, <2>3, <2>4, <2>5 DEF IInv
<1>5. ASSUME NEW t \in Callers, Fail(t) PROVE IInv'
  <2> USE <1>inv, <1>5 DEF Fail, Finish
  <2>1. TypeOK'
    <3>1. disturbed' \in BOOLEAN BY Zenon DEF TypeOK, Noted
    <3>2. failures' \in 0 .. Threshold BY DEF TypeOK
    <3>3. age' \in 0 .. Recovery \cup {None} BY DEF TypeOK
    <3>4. sinceProbe' \in 0 .. Recovery \cup {None} BY DEF TypeOK
    <3>5. role' \in [Callers -> {"idle", "normal", "probe"}] BY DEF TypeOK
    <3>6. probe' \in BOOLEAN /\ lost' \in BOOLEAN BY DEF TypeOK
    <3>7. QED BY <3>1, <3>2, <3>3, <3>4, <3>5, <3>6 DEF TypeOK
  <2>2. FieldsAgree' BY DEF TypeOK, FieldsAgree
  <2>3. UndisturbedProbe'
    BY DEF TypeOK, FieldsAgree, UndisturbedProbe, OneProbe, Noted
  <2>4. ProbeIsRunning' BY DEF ProbeIsRunning
  <2>5. SpacingKept' BY DEF TypeOK, FieldsAgree, SpacingKept
  <2>6. QED BY <2>1, <2>2, <2>3, <2>4, <2>5 DEF IInv
<1>6. ASSUME NEW t \in Callers, Escape(t) PROVE IInv'
  <2> USE <1>inv, <1>6 DEF Escape, Finish
  <2>1. TypeOK' BY DEF TypeOK
  <2>2. FieldsAgree' BY DEF FieldsAgree
  <2>3. UndisturbedProbe' BY DEF TypeOK, UndisturbedProbe, OneProbe
  <2>4. ProbeIsRunning' BY DEF TypeOK, ProbeIsRunning
  <2>5. SpacingKept' BY DEF SpacingKept
  <2>6. QED BY <2>1, <2>2, <2>3, <2>4, <2>5 DEF IInv
<1>7. CASE Tick
  <2> USE <1>inv, <1>7 DEF Tick, Older
  <2>1. TypeOK' BY DEF TypeOK
  <2>2. FieldsAgree' BY DEF TypeOK, FieldsAgree
  <2>3. UndisturbedProbe' BY DEF TypeOK, UndisturbedProbe, OneProbe
  <2>4. ProbeIsRunning' BY DEF ProbeIsRunning
  <2>5. SpacingKept' BY DEF TypeOK, SpacingKept
  <2>6. QED BY <2>1, <2>2, <2>3, <2>4, <2>5 DEF IInv
<1>8. CASE UNCHANGED vars
  BY <1>inv, <1>8 DEF vars, IInv, TypeOK, FieldsAgree, UndisturbedProbe,
     OneProbe, ProbeIsRunning, SpacingKept
<1>9. QED
  BY <1>1, <1>2, <1>3, <1>4, <1>5, <1>6, <1>7, <1>8 DEF Next, Record, Refuse

\* The conjunction above is an invariant of the circuit.
LEMMA Invariance == Spec => []IInv
BY InitInv, StepInv, PTL DEF Spec

--------------------------------------------------------------------------------
\* Every field of the circuit keeps its type, whoever records what and when.
THEOREM TypeCorrect == Spec => []TypeOK
<1>1. IInv => TypeOK BY DEF IInv
<1>2. QED BY <1>1, Invariance, PTL

\* Failure count, opening time and probe flag always agree: open exactly at the
\* threshold, and no probe registered while closed.
THEOREM FieldsAlwaysAgree == Spec => []FieldsAgree
<1>1. IInv => FieldsAgree BY DEF IInv
<1>2. QED BY <1>1, Invariance, PTL

\* Probes are exclusive as long as no call admitted before an opening has been
\* recorded after it.
THEOREM ProbesAreExclusive == Spec => []OneProbeUnlessDisturbed
<1>1. IInv => OneProbeUnlessDisturbed
  BY DEF IInv, UndisturbedProbe, OneProbeUnlessDisturbed
<1>2. QED BY <1>1, Invariance, PTL

\* A circuit that refuses calls on account of a probe has one running, unless
\* a probe ended with an unrecorded exception.
THEOREM RegisteredProbeRuns == Spec => []ProbeIsRunning
<1>1. IInv => ProbeIsRunning BY DEF IInv
<1>2. QED BY <1>1, Invariance, PTL

\* What a step does to the probes, and to an opening that is not over, inside
\* [][...]_vars.
Spaced == \A t \in Callers : Probing(t)' /\ ~Probing(t) => sinceProbe \in {None, Recovery}
ClosesInTime == Open /\ age < Recovery /\ ~Open' => disturbed'

\* A probe is admitted when the last one of the opening was a timeout ago.
LEMMA StepSpaced == IInv /\ [Next]_vars => [Spaced]_vars
<1> SUFFICES ASSUME IInv, Next, NEW t \in Callers, Probing(t)', ~Probing(t)
             PROVE  sinceProbe \in {None, Recovery}
  BY DEF Spaced
<1>1. AdmitProbe(t)
  BY DEF Next, AdmitNormal, AdmitProbe, Refuse, Record, Succeed, Unavailable,
     Fail, Escape, Finish, Tick, Probing, vars, IInv, TypeOK
<1>2. QED
  BY <1>1, ConfigAssumption
     DEF ConfigAssumption, AdmitProbe, IInv, TypeOK, SpacingKept, Open

\* A recorded outcome that closes the circuit early is not that of a probe.
LEMMA StepClosesInTime == IInv /\ [Next]_vars => [ClosesInTime]_vars
<1> SUFFICES ASSUME IInv, Next, Open, age < Recovery, ~Open'
             PROVE  disturbed'
  BY DEF ClosesInTime
<1>1. PICK t \in Callers : Succeed(t) \/ Unavailable(t)
  BY ConfigAssumption
     DEF ConfigAssumption, Next, AdmitNormal, AdmitProbe, Refuse, Record, Fail, Escape, Tick,
         Older, Open, vars, IInv, TypeOK
<1>2. disturbed' = (disturbed \/ ~Probing(t))
  BY <1>1 DEF Succeed, Unavailable, Noted, Open
<1>3. Probing(t) => disturbed
  BY ConfigAssumption DEF ConfigAssumption, IInv, UndisturbedProbe, TypeOK, Open
<1>4. QED BY <1>2, <1>3 DEF IInv, TypeOK

\* Two probes of one opening are admitted a recovery timeout apart.
THEOREM ProbesSpaced == Spec => ProbesAreSpaced
BY StepSpaced, Invariance, PTL DEF Spec, ProbesAreSpaced, Spaced

\* A circuit closes before its recovery timeout only on account of a call that
\* was admitted before it opened.
THEOREM EarlyCloseDisturbed == Spec => EarlyCloseIsDisturbed
BY StepClosesInTime, Invariance, PTL DEF Spec, EarlyCloseIsDisturbed, ClosesInTime

================================================================================
