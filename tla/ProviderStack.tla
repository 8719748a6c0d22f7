----------------------------- MODULE ProviderStack -----------------------------
(***************************************************************************)
(* The stack presets.py builds below the cache: every provider is wrapped  *)
(* in a retry and a provider-wide circuit, and the circuits are chained in *)
(* order of priority (ChainedRateProvider of fx.py, RetryingRateProvider   *)
(* and CircuitBreakerRateProvider of resilience.py, no rate limit).  The   *)
(* async stack runs the same steps between its awaits.                     *)
(*                                                                         *)
(* Callers share the circuits, and each goes through the chain on its own. *)
(* A call of a provider and the recording of its outcome by the circuit    *)
(* are separate steps; sleeping before a retry is one more.  The circuits  *)
(* are those of CircuitBreaker, with the same bounds on ages and counts.   *)
(***************************************************************************)
EXTENDS Integers, Sequences, FiniteSets

CONSTANTS
  Callers,             \* threads, or asyncio tasks
  Depth,               \* number of providers, the primary first
  Attempts,            \* RetryPolicy.attempts
  RetriesUnavailable,  \* providers whose policy has retry_rate_unavailable
  Threshold,           \* failure_threshold
  Recovery,            \* recovery_timeout_seconds
  Unclassified,        \* whether providers raise anything but the two classes
  None                 \* no value

Priority == 1 .. Depth

\* The constructors' checks.
ASSUME ConfigAssumption ==
  /\ Depth \in Nat \ {0}
  /\ Attempts \in Nat \ {0}
  /\ RetriesUnavailable \subseteq Priority
  /\ Threshold \in Nat \ {0}
  /\ Recovery \in Nat \ {0}
  /\ Unclassified \in BOOLEAN
  /\ None \notin 0 .. Recovery

\* A process has some threads or tasks, and finitely many.
ASSUME CallersAssumption == IsFiniteSet(Callers) /\ Callers # {}

VARIABLES
  circuit,  \* the circuit of each provider, as CircuitBreaker describes it
  late,     \* history: retries an open circuit did not stop since it opened
  pc,       \* idle, asking, calling a provider, or sleeping before a retry
  heard,    \* the chain's `failures': what its providers answered so far
  doubt,    \* the chain's `operational_failure'
  attempt,  \* which attempt of the retry loop is under way
  role,     \* whether the circuit admitted the caller as a normal call or a probe
  calls,    \* history: upstream calls a get_rate has made
  verdict   \* what the last get_rate ended with

vars == <<circuit, late, pc, heard, doubt, attempt, role, calls, verdict>>

\* The provider a caller is at, and its circuit.
At(t) == Len(heard[t]) + 1
Here(t) == circuit[At(t)]
IsOpen(c) == c.age # None

Untouched == [failures |-> 0, age |-> None, probe |-> FALSE,
              sinceProbe |-> None, disturbed |-> FALSE, lost |-> FALSE]

Init ==
  /\ circuit = [p \in Priority |-> Untouched]
  /\ late = [p \in Priority |-> 0]
  /\ pc = [t \in Callers |-> "idle"]
  /\ heard = [t \in Callers |-> << >>]
  /\ doubt = [t \in Callers |-> FALSE]
  /\ attempt = [t \in Callers |-> 0]
  /\ role = [t \in Callers |-> "idle"]
  /\ calls = [t \in Callers |-> 0]
  /\ verdict = [t \in Callers |-> None]

--------------------------------------------------------------------------------
(* What the circuit of the provider does with the end of a call. *)

\* History: an outcome recorded by an open circuit that did not admit it.
Noted(t) == [Here(t) EXCEPT !.disturbed = @ \/ (IsOpen(Here(t)) /\ role[t] # "probe")]

Reset(c) == [Untouched EXCEPT !.disturbed = c.disturbed]

Struck(c) ==
  [c EXCEPT !.failures = IF @ < Threshold THEN @ + 1 ELSE @,
            !.age = IF c.failures + 1 >= Threshold THEN 0 ELSE @,
            !.probe = FALSE,
            !.lost = FALSE]

Records(t, c) ==
  /\ circuit' = [circuit EXCEPT ![At(t)] = c]
  /\ late' = [late EXCEPT ![At(t)] = IF IsOpen(c) THEN @ ELSE 0]

--------------------------------------------------------------------------------
(* What the chain does with the end of a call. *)

\* get_rate ends.
Ends(t, v) ==
  /\ pc' = [pc EXCEPT ![t] = "idle"]
  /\ heard' = [heard EXCEPT ![t] = << >>]
  /\ doubt' = [doubt EXCEPT ![t] = FALSE]
  /\ attempt' = [attempt EXCEPT ![t] = 0]
  /\ role' = [role EXCEPT ![t] = "idle"]
  /\ calls' = [calls EXCEPT ![t] = 0]
  /\ verdict' = [verdict EXCEPT ![t] = v]

\* Mutant of Declined: the list is extended, the flag is forgotten.
DeclinedUnflagged(t, reason) ==
  /\ At(t) < Depth
  /\ pc' = [pc EXCEPT ![t] = "asking"]
  /\ heard' = [heard EXCEPT ![t] = Append(@, reason)]
  /\ attempt' = [attempt EXCEPT ![t] = 0]
  /\ role' = [role EXCEPT ![t] = "idle"]
  /\ UNCHANGED <<doubt, calls, verdict>>

\* The provider raised RateUnavailableError or ProviderError: the chain notes
\* it and goes on to the next provider.
Declined(t, reason) ==
  /\ At(t) < Depth
  /\ pc' = [pc EXCEPT ![t] = "asking"]
  /\ heard' = [heard EXCEPT ![t] = Append(@, reason)]
  /\ doubt' = [doubt EXCEPT ![t] = @ \/ reason = "failed"]
  /\ attempt' = [attempt EXCEPT ![t] = 0]
  /\ role' = [role EXCEPT ![t] = "idle"]
  /\ UNCHANGED <<calls, verdict>>

\* Mutant of Concluded: the last answer decides.
ConcludedByTheLast(t, reason) ==
  /\ At(t) = Depth
  /\ Ends(t, reason)

\* There is no next provider: the chain raises ProviderError if any of them
\* failed, RateUnavailableError if none did.
Concluded(t, reason) ==
  /\ At(t) = Depth
  /\ Ends(t, IF doubt[t] \/ reason = "failed" THEN "failed" ELSE "unavailable")

PassedOver(t, reason) == Declined(t, reason) \/ Concluded(t, reason)

--------------------------------------------------------------------------------
Ask(t) ==
  /\ pc[t] = "idle"
  /\ pc' = [pc EXCEPT ![t] = "asking"]
  /\ verdict' = [verdict EXCEPT ![t] = None]
  /\ UNCHANGED <<circuit, late, heard, doubt, attempt, role, calls>>

\* An attempt of the retry loop calls the provider.
Attempt(t) ==
  /\ pc' = [pc EXCEPT ![t] = "calling"]
  /\ attempt' = [attempt EXCEPT ![t] = @ + 1]
  /\ calls' = [calls EXCEPT ![t] = @ + 1]
  /\ UNCHANGED <<heard, doubt, verdict>>

\* Mutant of Admit: the circuit is not asked.
AdmitAlways(t) ==
  /\ pc[t] = "asking"
  /\ role' = [role EXCEPT ![t] = "normal"]
  /\ Attempt(t)
  /\ late' = [late EXCEPT ![At(t)] = IF IsOpen(Here(t)) THEN @ + 1 ELSE @]
  /\ UNCHANGED circuit

\* The provider's circuit is closed.
Admit(t) ==
  /\ pc[t] = "asking"
  /\ ~IsOpen(Here(t))
  /\ role' = [role EXCEPT ![t] = "normal"]
  /\ Attempt(t)
  /\ UNCHANGED <<circuit, late>>

\* It is open, but it is time for a probe.
AdmitProbe(t) ==
  /\ pc[t] = "asking"
  /\ IsOpen(Here(t)) /\ Here(t).age >= Recovery
  /\ ~Here(t).probe
  /\ circuit' = [circuit EXCEPT ![At(t)].probe = TRUE, ![At(t)].sinceProbe = 0]
  /\ role' = [role EXCEPT ![t] = "probe"]
  /\ Attempt(t)
  /\ UNCHANGED late

\* Mutant of Refuse: the caller waits for the circuit to close.
RefuseWaits(t) ==
  /\ pc[t] = "asking"
  /\ IsOpen(Here(t)) /\ (Here(t).age < Recovery \/ Here(t).probe)
  /\ UNCHANGED vars

\* It refuses: CircuitOpenError is a ProviderError to the chain.
Refuse(t) ==
  /\ pc[t] = "asking"
  /\ IsOpen(Here(t)) /\ (Here(t).age < Recovery \/ Here(t).probe)
  /\ PassedOver(t, "failed")
  /\ UNCHANGED <<circuit, late>>

\* Mutant of Transient: the loop does not count its attempts.
TransientForever(t) ==
  /\ pc[t] = "calling"
  /\ pc' = [pc EXCEPT ![t] = "backoff"]
  /\ UNCHANGED <<circuit, late, heard, doubt, attempt, role, calls, verdict>>

\* Mutant of Transient: the circuit is inside the retry and counts attempts.
TransientCounted(t) ==
  /\ pc[t] = "calling"
  /\ attempt[t] < Attempts
  /\ pc' = [pc EXCEPT ![t] = "backoff"]
  /\ Records(t, Struck(Noted(t)))
  /\ UNCHANGED <<heard, doubt, attempt, role, calls, verdict>>

\* An attempt that is not the last raised a retryable error: the circuit and
\* the chain see nothing of it, and the caller sleeps.
Transient(t) ==
  /\ pc[t] = "calling"
  /\ attempt[t] < Attempts
  /\ pc' = [pc EXCEPT ![t] = "backoff"]
  /\ UNCHANGED <<circuit, late, heard, doubt, attempt, role, calls, verdict>>

\* The delay is over: the next attempt, whatever the circuit has become.
Retry(t) ==
  /\ pc[t] = "backoff"
  /\ Attempt(t)
  /\ late' = [late EXCEPT ![At(t)] =
                IF IsOpen(Here(t)) /\ role[t] = "normal" THEN @ + 1 ELSE @]
  /\ UNCHANGED <<circuit, role>>

\* The provider quotes the pair.
Priced(t) ==
  /\ pc[t] = "calling"
  /\ Records(t, Reset(Noted(t)))
  /\ Ends(t, "priced")

\* RateUnavailableError, not retried or for the last time: it only ends a
\* registered probe of the circuit.
Unavailable(t) ==
  /\ pc[t] = "calling"
  /\ At(t) \in RetriesUnavailable => attempt[t] = Attempts
  /\ IF Here(t).probe THEN Records(t, Reset(Noted(t))) ELSE UNCHANGED <<circuit, late>>
  /\ PassedOver(t, "unavailable")

\* The last attempt raised ProviderError: one failure for the circuit.
GiveUp(t) ==
  /\ pc[t] = "calling"
  /\ attempt[t] = Attempts
  /\ Records(t, Struck(Noted(t)))
  /\ PassedOver(t, "failed")

\* Anything else passes through retry, circuit and chain; the interruption of
\* a delay (cancellation, KeyboardInterrupt) does too.
Escape(t) ==
  /\ Unclassified
  /\ pc[t] \in {"calling", "backoff"}
  /\ circuit' = [circuit EXCEPT ![At(t)].lost = @ \/ role[t] = "probe"]
  /\ Ends(t, "escaped")
  /\ UNCHANGED late

Older(a) == IF a # None /\ a < Recovery THEN a + 1 ELSE a

Tick ==
  /\ \E p \in Priority : IsOpen(circuit[p])
  /\ circuit' = [p \in Priority |->
                   [circuit[p] EXCEPT !.age = Older(@), !.sinceProbe = Older(@)]]
  /\ UNCHANGED <<late, pc, heard, doubt, attempt, role, calls, verdict>>

Answered(t) == Transient(t) \/ Priced(t) \/ Unavailable(t) \/ GiveUp(t) \/ Escape(t)

Advance(t) == Admit(t) \/ AdmitProbe(t) \/ Refuse(t) \/ Retry(t) \/ Answered(t)

Next ==
  \/ \E t \in Callers : Ask(t) \/ Advance(t)
  \/ Tick

\* Threads are scheduled, delays end, and providers answer or raise.
Fairness == \A t \in Callers : WF_vars(Advance(t))

Spec == Init /\ [][Next]_vars /\ Fairness

--------------------------------------------------------------------------------
Circuits ==
  [failures : 0 .. Threshold, age : 0 .. Recovery \cup {None}, probe : BOOLEAN,
   sinceProbe : 0 .. Recovery \cup {None}, disturbed : BOOLEAN, lost : BOOLEAN]

\* Every variable has its type; the chain's position stays inside the chain and
\* its flag agrees with the list of failures beside it.
TypeOK ==
  /\ circuit \in [Priority -> Circuits]
  /\ late \in [Priority -> Nat]
  /\ pc \in [Callers -> {"idle", "asking", "calling", "backoff"}]
  /\ heard \in [Callers -> Seq({"failed", "unavailable"})]
  /\ \A t \in Callers : Len(heard[t]) < Depth
  /\ doubt \in [Callers -> BOOLEAN]
  /\ \A t \in Callers : doubt[t] <=> \E i \in DOMAIN heard[t] : heard[t][i] = "failed"
  /\ attempt \in [Callers -> 0 .. Attempts]
  /\ role \in [Callers -> {"idle", "normal", "probe"}]
  /\ calls \in [Callers -> Nat]
  /\ verdict \in [Callers -> {"priced", "failed", "unavailable", "escaped", None}]

\* "a complete worst-case outage can therefore make up to nine upstream calls
\* (three per provider) before failing" (PRODUCTION_FX.md 69): retries are
\* counted per provider, and never start over within a call.
UpstreamCallsBounded ==
  \A t \in Callers : calls[t] <= At(t) * Attempts

\* An open circuit does not stop the retries of the calls it let in before it
\* opened, but that is all that can still reach the provider beside a probe.
LateRetriesBounded ==
  \A p \in Priority : late[p] <= (Cardinality(Callers) - 1) * (Attempts - 1)

\* Every get_rate ends: with a rate, an error of the chain, or what escaped.
EveryCallEnds == \A t \in Callers : pc[t] = "asking" ~> pc[t] = "idle"

--------------------------------------------------------------------------------
\* Under the chain and around the retries, the circuit of each provider is the
\* one CircuitBreaker describes, with one call for each consultation.
Circuit(p) == INSTANCE CircuitBreaker WITH
  PairScoped <- FALSE,
  failures <- circuit[p].failures,
  age <- circuit[p].age,
  probe <- circuit[p].probe,
  role <- [t \in Callers |-> IF At(t) = p THEN role[t] ELSE "idle"],
  sinceProbe <- circuit[p].sinceProbe,
  disturbed <- circuit[p].disturbed,
  lost <- circuit[p].lost

CircuitsAreCircuitBreakers ==
  /\ \A p \in Priority : Circuit(p)!Init
  /\ [][\A p \in Priority : [Circuit(p)!Next]_(Circuit(p)!vars)]_vars

Chain == INSTANCE Failover WITH
  consulting <- [t \in Callers |-> pc[t] # "idle"]

\* Retries, refusals and shared circuits change nothing in the order and the
\* meaning of the chain's answers.
RefinesFailover == Chain!Spec

================================================================================
