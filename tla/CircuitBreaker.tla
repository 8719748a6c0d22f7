---------------------------- MODULE CircuitBreaker ----------------------------
(***************************************************************************)
(* One circuit of resilience.py: the whole of CircuitBreakerRateProvider,  *)
(* or the entry PairCircuitBreakerRateProvider keeps for one pair.  The    *)
(* two differ only in what a RateUnavailableError does (PairScoped).       *)
(*                                                                         *)
(* A call takes the lock to be admitted and, when the inner provider is    *)
(* done with it, takes it again to record the outcome; other calls come    *)
(* and go in between.  Time is the age of the opening, which the code only *)
(* compares with the recovery timeout, so it stops growing there; failures *)
(* are only compared with the threshold and stop growing there.            *)
(***************************************************************************)
EXTENDS Integers

CONSTANTS
  Callers,       \* threads, or asyncio tasks
  Threshold,     \* failure_threshold
  Recovery,      \* recovery_timeout_seconds
  PairScoped,    \* whether the circuit is one of PairCircuitBreakerRateProvider
  Unclassified,  \* whether a call may end with an exception that is neither a
                 \* ProviderError nor RateUnavailableError (InvalidRateError, a
                 \* decoding error, KeyboardInterrupt, CancelledError)
  None           \* no value

\* The constructor's checks.
ASSUME ConfigAssumption ==
  /\ Threshold \in Nat \ {0}
  /\ Recovery \in Nat \ {0}
  /\ PairScoped \in BOOLEAN
  /\ Unclassified \in BOOLEAN
  /\ None \notin 0 .. Recovery

VARIABLES
  failures,    \* _failures, up to Threshold
  age,         \* monotonic() - _opened_at, up to Recovery; None while closed
  probe,       \* _half_open_probe
  role,        \* what a caller is doing: idle, or a normal call, or a probe
  sinceProbe,  \* history: time since a probe was last admitted by this opening
  disturbed,   \* history: a normal call has been recorded by an open circuit
  lost         \* history: a probe ended unrecorded and its flag is still set

vars == <<failures, age, probe, role, sinceProbe, disturbed, lost>>
history == <<sinceProbe, disturbed, lost>>

Open == age # None
Probing(t) == role[t] = "probe"

\* The entry of a circuit that was never used, or that has been reset.
Reset ==
  /\ failures' = 0 /\ age' = None /\ probe' = FALSE
  /\ sinceProbe' = None /\ lost' = FALSE

Init ==
  /\ failures = 0
  /\ age = None
  /\ probe = FALSE
  /\ role = [t \in Callers |-> "idle"]
  /\ sinceProbe = None
  /\ disturbed = FALSE
  /\ lost = FALSE

\* get_rate while the circuit is closed.
AdmitNormal(t) ==
  /\ role[t] = "idle"
  /\ ~Open
  /\ role' = [role EXCEPT ![t] = "normal"]
  /\ UNCHANGED <<failures, age, probe, history>>

\* Mutant of AdmitProbe: the recovery timeout is not waited for.
AdmitProbeEarly(t) ==
  /\ role[t] = "idle"
  /\ Open
  /\ ~probe
  /\ probe' = TRUE
  /\ role' = [role EXCEPT ![t] = "probe"]
  /\ sinceProbe' = 0
  /\ UNCHANGED <<failures, age, disturbed, lost>>

\* Mutant of AdmitProbe: the probe is not registered.
AdmitProbeUnregistered(t) ==
  /\ role[t] = "idle"
  /\ Open /\ age >= Recovery
  /\ ~probe
  /\ role' = [role EXCEPT ![t] = "probe"]
  /\ sinceProbe' = 0
  /\ UNCHANGED <<failures, age, probe, disturbed, lost>>

\* get_rate after the recovery timeout, with no probe registered.
AdmitProbe(t) ==
  /\ role[t] = "idle"
  /\ Open /\ age >= Recovery
  /\ ~probe
  /\ probe' = TRUE
  /\ role' = [role EXCEPT ![t] = "probe"]
  /\ sinceProbe' = 0
  /\ UNCHANGED <<failures, age, disturbed, lost>>

\* get_rate otherwise raises CircuitOpenError.
Refuse(t) ==
  /\ role[t] = "idle"
  /\ Open /\ (age < Recovery \/ probe)
  /\ UNCHANGED vars

\* The call of t is over.
Finish(t) ==
  /\ role[t] # "idle"
  /\ role' = [role EXCEPT ![t] = "idle"]

\* History: a normal call whose outcome an open circuit records was admitted
\* before it opened.
Noted(t) == disturbed' = (disturbed \/ (Open /\ ~Probing(t)))

\* The inner provider returned a rate.
Succeed(t) == Finish(t) /\ Noted(t) /\ Reset

\* Mutant of Unavailable: it closes the circuit but keeps the count.
UnavailableKeepsCount(t) ==
  /\ Finish(t)
  /\ IF PairScoped \/ probe
     THEN /\ Noted(t)
          /\ age' = None /\ probe' = FALSE /\ sinceProbe' = None /\ lost' = FALSE
          /\ UNCHANGED failures
     ELSE UNCHANGED <<failures, age, probe, history>>

\* Mutant of Unavailable: it takes one failure back, even when there is none.
UnavailableForgives(t) ==
  /\ Finish(t)
  /\ failures' = failures - 1
  /\ UNCHANGED <<age, probe, history>>

\* RateUnavailableError: "pair availability should not count as provider
\* health failure".  The provider-wide breaker resets only if a probe is
\* registered, the pair-scoped one always.
Unavailable(t) ==
  /\ Finish(t)
  /\ IF PairScoped \/ probe
     THEN Noted(t) /\ Reset
     ELSE UNCHANGED <<failures, age, probe, history>>

\* Mutant of Fail: it opens only when the threshold is met exactly.
FailOpensOnce(t) ==
  /\ Finish(t)
  /\ Noted(t)
  /\ probe' = FALSE
  /\ failures' = IF failures < Threshold THEN failures + 1 ELSE failures
  /\ age' = IF failures + 1 = Threshold THEN 0 ELSE age
  /\ lost' = FALSE
  /\ UNCHANGED sinceProbe

\* Mutant of Fail: the probe stays registered.
FailKeepsProbe(t) ==
  /\ Finish(t)
  /\ Noted(t)
  /\ failures' = IF failures < Threshold THEN failures + 1 ELSE failures
  /\ age' = IF failures + 1 >= Threshold THEN 0 ELSE age
  /\ UNCHANGED <<probe, sinceProbe, lost>>

\* ProviderError: count it, and open (again) at the threshold.
Fail(t) ==
  /\ Finish(t)
  /\ Noted(t)
  /\ probe' = FALSE
  /\ failures' = IF failures < Threshold THEN failures + 1 ELSE failures
  /\ age' = IF failures + 1 >= Threshold THEN 0 ELSE age
  /\ lost' = FALSE
  /\ UNCHANGED sinceProbe

\* Any other exception passes through without being recorded.
Escape(t) ==
  /\ Unclassified
  /\ Finish(t)
  /\ lost' = (lost \/ Probing(t))
  /\ UNCHANGED <<failures, age, probe, sinceProbe, disturbed>>

Older(a) == IF a # None /\ a < Recovery THEN a + 1 ELSE a

Tick ==
  /\ Open
  /\ age' = Older(age)
  /\ sinceProbe' = Older(sinceProbe)
  /\ UNCHANGED <<failures, probe, role, disturbed, lost>>

Record(t) == Succeed(t) \/ Unavailable(t) \/ Fail(t) \/ Escape(t)

Next ==
  \/ \E t \in Callers : AdmitNormal(t) \/ AdmitProbe(t) \/ Refuse(t) \/ Record(t)
  \/ Tick

\* Time passes, admitted calls end, and callers keep asking.
Fairness ==
  /\ WF_vars(Tick)
  /\ \A t \in Callers : WF_vars(Record(t)) /\ WF_vars(AdmitProbe(t))

Spec == Init /\ [][Next]_vars /\ Fairness

--------------------------------------------------------------------------------
\* Every variable has its type.
TypeOK ==
  /\ failures \in 0 .. Threshold
  /\ age \in 0 .. Recovery \cup {None}
  /\ probe \in BOOLEAN
  /\ role \in [Callers -> {"idle", "normal", "probe"}]
  /\ sinceProbe \in 0 .. Recovery \cup {None}
  /\ disturbed \in BOOLEAN
  /\ lost \in BOOLEAN

\* The three fields, written by different handlers, agree: the circuit is open
\* exactly when the failures have reached the threshold, and only an open
\* circuit registers a probe.
FieldsAgree ==
  /\ Open <=> failures = Threshold
  /\ probe => Open

\* "Half-open and a probe is already running" (resilience.py 340): never two
\* probes at the provider at once.
OneProbe == \A t, u \in Callers : Probing(t) /\ Probing(u) => t = u

\* What the code achieves: probes overlap only if some call admitted before
\* the circuit opened was recorded after it (and cleared the flag).
OneProbeUnlessDisturbed == ~disturbed => OneProbe

\* As long as the circuit stays open, the provider is probed at most once per
\* recovery timeout, whatever late calls do to the probe flag.
ProbesAreSpaced ==
  [][\A t \in Callers : Probing(t)' /\ ~Probing(t) =>
       sinceProbe \in {None, Recovery}]_vars

\* A circuit that refuses calls because a probe is running has one running,
\* unless a probe ended with an exception that is not recorded.
ProbeIsRunning == probe /\ ~lost => \E t \in Callers : Probing(t)

\* "Once open, calls fail fast until the recovery interval permits a half-open
\* probe" (PROVIDERS.md 82).  The code achieves it but for late calls: only a
\* call that was let in before the circuit opened makes it close early.
EarlyCloseIsDisturbed == [][Open /\ age < Recovery /\ ~Open' => disturbed']_vars

\* The same sentence, the other half: while callers keep asking, an open
\* circuit probes or closes.
CircuitRecovers == Open ~> (~Open \/ \E t \in Callers : Probing(t))

\* What the code achieves: it does so unless a probe ended unrecorded.
RecoversUnlessProbeLost ==
  Open ~> (~Open \/ lost \/ \E t \in Callers : Probing(t))

================================================================================
