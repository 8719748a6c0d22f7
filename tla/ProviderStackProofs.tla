-------------------------- MODULE ProviderStackProofs --------------------------
(***************************************************************************)
(* Proofs about ProviderStack, for any finite number of callers, any       *)
(* number of providers and attempts, any threshold and recovery timeout,   *)
(* and whether or not providers raise unclassified exceptions.             *)
(***************************************************************************)
EXTENDS ProviderStack, FiniteSetTheorems, SequenceTheorems, TLAPS

\* The part of TypeOK that is about the callers.
CallerTypes ==
  /\ pc \in [Callers -> {"idle", "asking", "calling", "backoff"}]
  /\ heard \in [Callers -> Seq({"failed", "unavailable"})]
  /\ \A t \in Callers : Len(heard[t]) < Depth
  /\ doubt \in [Callers -> BOOLEAN]
  /\ \A t \in Callers : doubt[t] <=> \E i \in DOMAIN heard[t] : heard[t][i] = "failed"
  /\ attempt \in [Callers -> 0 .. Attempts]
  /\ role \in [Callers -> {"idle", "normal", "probe"}]
  /\ calls \in [Callers -> Nat]
  /\ verdict \in [Callers -> {"priced", "failed", "unavailable", "escaped", None}]

\* A caller that no provider works for has no attempt under way and no place in
\* a circuit; one that sleeps has an attempt left.
Stages ==
  \A t \in Callers :
    /\ pc[t] = "idle" => heard[t] = << >> /\ calls[t] = 0
    /\ pc[t] \in {"idle", "asking"} => role[t] = "idle" /\ attempt[t] = 0
    /\ pc[t] \in {"calling", "backoff"} => role[t] # "idle" /\ attempt[t] >= 1
    /\ pc[t] = "backoff" => attempt[t] < Attempts

\* The providers left behind account for at most Attempts calls each, the one
\* the caller is at for those of the loop so far.
CallsCounted ==
  \A t \in Callers : calls[t] <= Len(heard[t]) * Attempts + attempt[t]

CallersOK == CallerTypes /\ Stages /\ CallsCounted

\* The part of TypeOK that is about the circuits.
CircuitTypes ==
  /\ circuit \in [Priority -> Circuits]
  /\ late \in [Priority -> Nat]

\* A closed circuit has no late retry and no probe in memory.
ClosedIsClean ==
  \A p \in Priority :
    ~IsOpen(circuit[p]) => late[p] = 0 /\ circuit[p].sinceProbe = None

\* The retries that normal calls now inside a provider may still make.
RetriesLeft(p) ==
  {r \in Callers \X (2 .. Attempts) :
     At(r[1]) = p /\ role[r[1]] = "normal" /\ attempt[r[1]] < r[2]}

LateBound == (Cardinality(Callers) - 1) * (Attempts - 1)

\* Late retries are paid for by those that were left when the circuit opened.
LateRetriesPaid ==
  \A p \in Priority :
    IsOpen(circuit[p]) => late[p] + Cardinality(RetriesLeft(p)) <= LateBound

CircuitsOK == CircuitTypes /\ ClosedIsClean /\ LateRetriesPaid

IInv == CallersOK /\ CircuitsOK

--------------------------------------------------------------------------------
(* The callers. *)

\* What a list of answers says of failures once one more is appended.
LEMMA FailureHeard ==
  ASSUME NEW s \in Seq({"failed", "unavailable"}), NEW r \in {"failed", "unavailable"}
  PROVE  /\ Append(s, r) \in Seq({"failed", "unavailable"})
         /\ Len(Append(s, r)) = Len(s) + 1
         /\ (\E i \in DOMAIN Append(s, r) : Append(s, r)[i] = "failed") <=>
              (\E i \in DOMAIN s : s[i] = "failed") \/ r = "failed"
<1> DEFINE a == Append(s, r)
<1>1. a \in Seq({"failed", "unavailable"}) /\ Len(a) = Len(s) + 1
  BY AppendProperties
<1>2. DOMAIN a = 1 .. Len(s) + 1 /\ DOMAIN s = 1 .. Len(s) /\ Len(s) \in Nat
  BY <1>1, LenProperties
<1>3. (\A i \in 1 .. Len(s) : a[i] = s[i]) /\ a[Len(s) + 1] = r
  BY AppendProperties
<1>4. QED BY <1>1, <1>2, <1>3

\* A get_rate begins.
LEMMA AskCallers ==
  ASSUME CallersOK, NEW t \in Callers, Ask(t)
  PROVE  CallersOK'
<1>1. CallerTypes' BY DEF CallersOK, CallerTypes, Ask
<1>2. Stages' BY DEF CallersOK, CallerTypes, Stages, Ask
<1>3. CallsCounted' BY DEF CallersOK, CallsCounted, Ask
<1>4. QED BY <1>1, <1>2, <1>3 DEF CallersOK

\* An attempt is made: the first, by a caller the circuit admits, or another.
LEMMA AttemptCallers ==
  ASSUME CallersOK, NEW t \in Callers, Attempt(t), attempt[t] < Attempts,
         NEW r \in {"normal", "probe"}, role' = [role EXCEPT ![t] = r]
  PROVE  CallersOK'
<1> USE ConfigAssumption DEF ConfigAssumption
<1>1. CallerTypes' BY DEF CallersOK, CallerTypes, Attempt
<1>2. Stages' BY DEF CallersOK, CallerTypes, Stages, Attempt
<1>3. CallsCounted'
  <2> SUFFICES ASSUME NEW u \in Callers
               PROVE  calls'[u] <= Len(heard'[u]) * Attempts + attempt'[u]
    BY DEF CallsCounted
  <2>1. calls[u] <= Len(heard[u]) * Attempts + attempt[u] BY DEF CallersOK, CallsCounted
  <2>2. Len(heard[u]) * Attempts \in Nat BY LenProperties DEF CallersOK, CallerTypes
  <2>3. QED BY <2>1, <2>2 DEF CallersOK, CallerTypes, Attempt
<1>4. QED BY <1>1, <1>2, <1>3 DEF CallersOK

\* An attempt that is not the last fails, and the caller sleeps.
LEMMA TransientCallers ==
  ASSUME CallersOK, NEW t \in Callers, Transient(t)
  PROVE  CallersOK'
<1>1. CallerTypes' BY DEF CallersOK, CallerTypes, Transient
<1>2. Stages' BY DEF CallersOK, CallerTypes, Stages, Transient
<1>3. CallsCounted' BY DEF CallersOK, CallsCounted, Transient
<1>4. QED BY <1>1, <1>2, <1>3 DEF CallersOK

\* A get_rate ends.
LEMMA EndsCallers ==
  ASSUME CallersOK, NEW t \in Callers,
         NEW v \in {"priced", "failed", "unavailable", "escaped"}, Ends(t, v)
  PROVE  CallersOK'
<1> USE ConfigAssumption DEF ConfigAssumption
<1>1. heard'[t] = << >> /\ << >> \in Seq({"failed", "unavailable"}) /\ Len(<< >>) = 0
      /\ DOMAIN << >> = {}
  BY EmptySeq DEF CallersOK, CallerTypes, Ends
<1>2. CallerTypes'
  <2>1. \A u \in Callers : Len(heard'[u]) < Depth
    BY <1>1 DEF CallersOK, CallerTypes, Ends
  <2>2. doubt' \in [Callers -> BOOLEAN] BY DEF CallersOK, CallerTypes, Ends
  <2>3. ASSUME NEW u \in Callers
        PROVE  doubt'[u] <=> \E i \in DOMAIN heard'[u] : heard'[u][i] = "failed"
    <3>1. CASE u = t
      <4>1. doubt'[t] = FALSE BY DEF CallersOK, CallerTypes, Ends
      <4>2. QED BY <1>1, <3>1, <4>1
    <3>2. CASE u # t
      <4>1. doubt'[u] = doubt[u] /\ heard'[u] = heard[u]
        BY <3>2 DEF CallersOK, CallerTypes, Ends
      <4>2. QED BY <4>1 DEF CallersOK, CallerTypes
    <3>3. QED BY <3>1, <3>2
  <2>4. heard' \in [Callers -> Seq({"failed", "unavailable"})]
    BY <1>1 DEF CallersOK, CallerTypes, Ends
  <2>5. QED BY <2>1, <2>2, <2>3, <2>4 DEF CallersOK, CallerTypes, Ends
<1>3. Stages' BY <1>1 DEF CallersOK, CallerTypes, Stages, Ends
<1>4. CallsCounted'
  <2> SUFFICES ASSUME NEW u \in Callers
               PROVE  calls'[u] <= Len(heard'[u]) * Attempts + attempt'[u]
    BY DEF CallsCounted
  <2>1. CASE u = t
    <3>1. calls'[t] = 0 /\ attempt'[t] = 0 BY DEF CallersOK, CallerTypes, Ends
    <3>2. QED BY <1>1, <2>1, <3>1
  <2>2. CASE u # t BY <2>2 DEF CallersOK, CallerTypes, CallsCounted, Ends
  <2>3. QED BY <2>1, <2>2
<1>5. QED BY <1>2, <1>3, <1>4 DEF CallersOK

\* A caller goes on to the next provider.
LEMMA DeclinedCallers ==
  ASSUME CallersOK, NEW t \in Callers, NEW reason \in {"failed", "unavailable"},
         Declined(t, reason), pc[t] # "idle"
  PROVE  CallersOK'
<1> USE ConfigAssumption DEF ConfigAssumption
<1>1. heard[t] \in Seq({"failed", "unavailable"}) /\ Len(heard[t]) \in Nat
  BY LenProperties DEF CallersOK, CallerTypes
<1>2. /\ heard'[t] \in Seq({"failed", "unavailable"})
      /\ Len(heard'[t]) = Len(heard[t]) + 1
      /\ (\E i \in DOMAIN heard'[t] : heard'[t][i] = "failed") <=>
           (\E i \in DOMAIN heard[t] : heard[t][i] = "failed") \/ reason = "failed"
  <2>1. heard'[t] = Append(heard[t], reason) BY DEF CallersOK, CallerTypes, Declined
  <2>2. QED BY <1>1, <2>1, FailureHeard, Zenon
<1>3. CallerTypes'
  <2>1. heard' \in [Callers -> Seq({"failed", "unavailable"})]
    BY <1>2 DEF CallersOK, CallerTypes, Declined
  <2>2. \A u \in Callers : Len(heard'[u]) < Depth
    BY <1>1, <1>2 DEF CallersOK, CallerTypes, Declined, At
  <2>3. PICK b \in BOOLEAN : b = (doubt[t] \/ reason = "failed") BY Zenon
  <2>4. doubt' = [doubt EXCEPT ![t] = b] BY <2>3, Zenon DEF Declined
  <2>5. ASSUME NEW u \in Callers
        PROVE  doubt'[u] <=> \E i \in DOMAIN heard'[u] : heard'[u][i] = "failed"
    <3>1. CASE u = t
      <4>1. doubt'[t] = b BY <2>4 DEF CallersOK, CallerTypes
      <4>2. doubt[t] <=> \E i \in DOMAIN heard[t] : heard[t][i] = "failed"
        BY DEF CallersOK, CallerTypes
      <4>3. QED BY <1>2, <2>3, <3>1, <4>1, <4>2, Zenon
    <3>2. CASE u # t
      <4>1. doubt'[u] = doubt[u] /\ heard'[u] = heard[u]
        BY <3>2 DEF CallersOK, CallerTypes, Declined
      <4>2. QED BY <4>1 DEF CallersOK, CallerTypes
    <3>3. QED BY <3>1, <3>2
  <2>6. QED BY <2>1, <2>2, <2>4, <2>5 DEF CallersOK, CallerTypes, Declined
<1>4. Stages' BY DEF CallersOK, CallerTypes, Stages, Declined
<1>5. CallsCounted'
  <2> SUFFICES ASSUME NEW u \in Callers
               PROVE  calls'[u] <= Len(heard'[u]) * Attempts + attempt'[u]
    BY DEF CallsCounted
  <2>1. CASE u = t
    <3>1. calls[t] <= Len(heard[t]) * Attempts + attempt[t]
      BY DEF CallersOK, CallsCounted
    <3>2. Len(heard'[t]) * Attempts = Len(heard[t]) * Attempts + Attempts
          /\ Len(heard[t]) * Attempts \in Nat
      BY <1>1, <1>2
    <3>3. calls'[t] = calls[t] /\ attempt'[t] = 0 /\ attempt[t] \in 0 .. Attempts
          /\ calls[t] \in Nat
      BY DEF CallersOK, CallerTypes, Declined
    <3>4. QED BY <2>1, <3>1, <3>2, <3>3
  <2>2. CASE u # t BY <2>2 DEF CallersOK, CallerTypes, CallsCounted, Declined
  <2>3. QED BY <2>1, <2>2
<1>6. QED BY <1>3, <1>4, <1>5 DEF CallersOK

\* The chain goes on or concludes.
LEMMA PassedOverCallers ==
  ASSUME CallersOK, NEW t \in Callers, NEW reason \in {"failed", "unavailable"},
         PassedOver(t, reason), pc[t] # "idle"
  PROVE  CallersOK'
<1>1. CASE Declined(t, reason) BY <1>1, DeclinedCallers
<1>2. CASE Concluded(t, reason)
  <2>1. PICK v \in {"failed", "unavailable"} : Ends(t, v) BY <1>2 DEF Concluded
  <2>2. QED BY <2>1, EndsCallers
<1>3. QED BY <1>1, <1>2 DEF PassedOver

\* Every step keeps what is said of the callers.
LEMMA StepCallers == CallersOK /\ [Next]_vars => CallersOK'
<1> USE ConfigAssumption DEF ConfigAssumption
<1> SUFFICES ASSUME CallersOK, [Next]_vars PROVE CallersOK' OBVIOUS
<1>1. ASSUME NEW t \in Callers, Ask(t) PROVE CallersOK' BY <1>1, AskCallers
<1>2. ASSUME NEW t \in Callers, Admit(t) \/ AdmitProbe(t) \/ Retry(t) PROVE CallersOK'
  <2>1. Attempt(t) /\ attempt[t] < Attempts
    BY <1>2 DEF Admit, AdmitProbe, Retry, CallersOK, Stages
  <2>2. PICK r \in {"normal", "probe"} : role' = [role EXCEPT ![t] = r]
    <3>1. CASE Admit(t) BY <3>1 DEF Admit
    <3>2. CASE AdmitProbe(t) BY <3>2 DEF AdmitProbe
    <3>3. CASE Retry(t)
      <4>1. role[t] \in {"normal", "probe"}
        BY <3>3 DEF Retry, CallersOK, CallerTypes, Stages
      <4>2. role' = [role EXCEPT ![t] = role[t]]
        BY <3>3 DEF Retry, CallersOK, CallerTypes
      <4>3. QED BY <4>1, <4>2
    <3>4. QED BY <1>2, <3>1, <3>2, <3>3
  <2>3. QED BY <2>1, <2>2, AttemptCallers
<1>3. ASSUME NEW t \in Callers, Refuse(t) \/ Unavailable(t) \/ GiveUp(t) PROVE CallersOK'
  <2>1. PICK reason \in {"failed", "unavailable"} : PassedOver(t, reason)
    BY <1>3 DEF Refuse, Unavailable, GiveUp
  <2>2. pc[t] # "idle" BY <1>3 DEF Refuse, Unavailable, GiveUp
  <2>3. QED BY <2>1, <2>2, PassedOverCallers
<1>4. ASSUME NEW t \in Callers, Transient(t) PROVE CallersOK' BY <1>4, TransientCallers
<1>5. ASSUME NEW t \in Callers, Priced(t) \/ Escape(t) PROVE CallersOK'
  BY <1>5, EndsCallers DEF Priced, Escape
<1>6. CASE Tick \/ UNCHANGED vars
  <2> USE <1>6 DEF Tick, vars, CallersOK
  <2>1. UNCHANGED <<pc, heard, doubt, attempt, role, calls, verdict>> OBVIOUS
  <2>2. CallerTypes' BY <2>1, Zenon DEF CallerTypes
  <2>3. Stages' /\ CallsCounted' BY <2>1 DEF Stages, CallsCounted
  <2>4. QED BY <2>2, <2>3
<1>7. QED BY <1>1, <1>2, <1>3, <1>4, <1>5, <1>6 DEF Next, Advance, Answered

--------------------------------------------------------------------------------
(* The circuits. *)

\* The provider a caller is at is one of the chain.
LEMMA AtIsPriority ==
  ASSUME CallerTypes, NEW t \in Callers
  PROVE  At(t) \in Priority
<1>1. heard[t] \in Seq({"failed", "unavailable"}) /\ Len(heard[t]) < Depth
  BY DEF CallerTypes
<1>2. Len(heard[t]) \in Nat BY <1>1, LenProperties
<1>3. QED BY <1>1, <1>2, ConfigAssumption DEF ConfigAssumption, At, Priority

\* Recording notes a disturbance and leaves the rest to Reset or Struck.
LEMMA NotedProperties ==
  ASSUME CircuitTypes, CallerTypes, NEW t \in Callers
  PROVE  /\ Noted(t) \in Circuits
         /\ Noted(t).age = Here(t).age
         /\ Noted(t).sinceProbe = Here(t).sinceProbe
         /\ Noted(t).failures = Here(t).failures
         /\ Noted(t).disturbed =
              (Here(t).disturbed \/ (IsOpen(Here(t)) /\ role[t] # "probe"))
<1>1. Here(t) \in Circuits
  <2>1. At(t) \in Priority BY AtIsPriority
  <2>2. QED BY <2>1 DEF CircuitTypes, Here
<1>2. PICK b \in BOOLEAN :
        b = (Here(t).disturbed \/ (IsOpen(Here(t)) /\ role[t] # "probe"))
  BY Zenon
<1>3. Noted(t) = [Here(t) EXCEPT !.disturbed = b] BY <1>2, Zenon DEF Noted
<1>4. /\ Noted(t) \in Circuits
      /\ Noted(t).age = Here(t).age
      /\ Noted(t).sinceProbe = Here(t).sinceProbe
      /\ Noted(t).failures = Here(t).failures
  BY <1>1, <1>3 DEF Circuits
<1>5. Noted(t).disturbed = b BY <1>1, <1>3 DEF Circuits
<1>6. QED BY <1>2, <1>4, <1>5, Zenon

\* A reset circuit is closed, and as good as new but for the disturbance.
LEMMA ResetProperties ==
  ASSUME NEW c \in Circuits
  PROVE  /\ Reset(c) \in Circuits
         /\ Reset(c).failures = 0
         /\ Reset(c).age = None /\ ~IsOpen(Reset(c))
         /\ Reset(c).probe = FALSE
         /\ Reset(c).sinceProbe = None
         /\ Reset(c).disturbed = c.disturbed
         /\ Reset(c).lost = FALSE
<1>1. Untouched \in Circuits
  BY ConfigAssumption DEF ConfigAssumption, Circuits, Untouched
<1>2. PICK b \in BOOLEAN : b = c.disturbed BY DEF Circuits
<1>3. Reset(c) = [Untouched EXCEPT !.disturbed = b] BY <1>2, Zenon DEF Reset
<1>4. Reset(c) \in Circuits BY <1>1, <1>3 DEF Circuits
<1>5. Reset(c).failures = 0 /\ Reset(c).age = None /\ Reset(c).sinceProbe = None
  BY <1>1, <1>3 DEF Circuits, Untouched
<1>6. Reset(c).probe = FALSE /\ Reset(c).lost = FALSE
  BY <1>1, <1>3 DEF Circuits, Untouched
<1>7. Reset(c).disturbed = b BY <1>1, <1>3 DEF Circuits
<1>8. QED BY <1>2, <1>4, <1>5, <1>6, <1>7, Zenon DEF IsOpen

\* A failure never closes a circuit.
LEMMA StruckProperties ==
  ASSUME NEW c \in Circuits
  PROVE  /\ Struck(c) \in Circuits
         /\ Struck(c).failures = IF c.failures < Threshold THEN c.failures + 1 ELSE c.failures
         /\ Struck(c).age = IF c.failures + 1 >= Threshold THEN 0 ELSE c.age
         /\ IsOpen(c) => IsOpen(Struck(c))
         /\ Struck(c).probe = FALSE
         /\ Struck(c).sinceProbe = c.sinceProbe
         /\ Struck(c).disturbed = c.disturbed
         /\ Struck(c).lost = FALSE
<1> USE ConfigAssumption DEF ConfigAssumption, Circuits
<1> DEFINE n == IF c.failures < Threshold THEN c.failures + 1 ELSE c.failures
           a == IF c.failures + 1 >= Threshold THEN 0 ELSE c.age
<1>1. n \in 0 .. Threshold /\ a \in 0 .. Recovery \cup {None} OBVIOUS
<1>2. Struck(c) = [c EXCEPT !.failures = n, !.age = a, !.probe = FALSE, !.lost = FALSE]
  BY Zenon DEF Struck
<1>3. c.age # None => a # None OBVIOUS
<1> HIDE DEF n, a
<1>4. /\ Struck(c) \in Circuits
      /\ Struck(c).failures = n /\ Struck(c).age = a /\ Struck(c).sinceProbe = c.sinceProbe
  BY <1>1, <1>2
<1>5. Struck(c).probe = FALSE /\ Struck(c).lost = FALSE BY <1>1, <1>2
<1>6. Struck(c).disturbed = c.disturbed BY <1>1, <1>2
<1>7. QED BY <1>3, <1>4, <1>5, <1>6, Zenon DEF IsOpen, n, a

\* There are finitely many retries to make.
LEMMA RetriesFinite ==
  ASSUME NEW S \in SUBSET (Callers \X (2 .. Attempts))
  PROVE  IsFiniteSet(S) /\ Cardinality(S) \in Nat
<1>1. IsFiniteSet(2 .. Attempts)
  BY ConfigAssumption, FS_Interval DEF ConfigAssumption
<1>2. IsFiniteSet(Callers \X (2 .. Attempts))
  BY <1>1, CallersAssumption, FS_Product DEF CallersAssumption
<1>3. QED BY <1>2, FS_Subset, FS_CardinalityType

\* Nobody but t can retry more than LateBound times altogether.
LEMMA OthersRetries ==
  ASSUME NEW t \in Callers, NEW S \in SUBSET ((Callers \ {t}) \X (2 .. Attempts))
  PROVE  Cardinality(S) <= LateBound
<1> USE ConfigAssumption DEF ConfigAssumption
<1>1. /\ IsFiniteSet(Callers \ {t})
      /\ Cardinality(Callers \ {t}) = Cardinality(Callers) - 1
  BY CallersAssumption, FS_RemoveElement DEF CallersAssumption
<1>2. IsFiniteSet(2 .. Attempts) /\ Cardinality(2 .. Attempts) = Attempts - 1
  BY FS_Interval
<1>3. /\ IsFiniteSet((Callers \ {t}) \X (2 .. Attempts))
      /\ Cardinality((Callers \ {t}) \X (2 .. Attempts)) = LateBound
  BY <1>1, <1>2, FS_Product DEF LateBound
<1>4. QED BY <1>3, FS_Subset

\* A circuit that stays open gains no late retry while the retries left shrink.
LEMMA PaidAsBefore ==
  ASSUME CircuitsOK, NEW p \in Priority, IsOpen(circuit[p]), late'[p] = late[p],
         RetriesLeft(p)' \subseteq RetriesLeft(p)
  PROVE  late'[p] + Cardinality(RetriesLeft(p)') <= LateBound
<1>1. RetriesLeft(p) \in SUBSET (Callers \X (2 .. Attempts)) BY DEF RetriesLeft
<1>2. RetriesLeft(p)' \in SUBSET (Callers \X (2 .. Attempts)) BY DEF RetriesLeft
<1>3. /\ IsFiniteSet(RetriesLeft(p))
      /\ Cardinality(RetriesLeft(p)) \in Nat
      /\ Cardinality(RetriesLeft(p)') \in Nat
  BY <1>1, <1>2, RetriesFinite
<1>4. Cardinality(RetriesLeft(p)') <= Cardinality(RetriesLeft(p)) BY <1>3, FS_Subset
<1>5. late[p] + Cardinality(RetriesLeft(p)) <= LateBound /\ late[p] \in Nat
  BY DEF CircuitsOK, LateRetriesPaid, CircuitTypes
<1>6. LateBound \in Int
  BY ConfigAssumption, CallersAssumption, FS_CardinalityType
     DEF ConfigAssumption, CallersAssumption, LateBound
<1>7. QED BY <1>3, <1>4, <1>5, <1>6

\* A step that opens and closes no circuit, and makes no retry.
LEMMA SteadyCircuits ==
  ASSUME CircuitsOK, CircuitTypes', UNCHANGED late,
         \A p \in Priority :
           /\ IsOpen(circuit'[p]) <=> IsOpen(circuit[p])
           /\ ~IsOpen(circuit[p]) => circuit'[p].sinceProbe = circuit[p].sinceProbe
           /\ IsOpen(circuit[p]) => RetriesLeft(p)' \subseteq RetriesLeft(p)
  PROVE  CircuitsOK'
<1>1. ClosedIsClean' BY DEF CircuitsOK, ClosedIsClean
<1>2. LateRetriesPaid'
  <2> SUFFICES ASSUME NEW p \in Priority, IsOpen(circuit'[p])
               PROVE  late'[p] + Cardinality(RetriesLeft(p)') <= LateBound
    BY DEF LateRetriesPaid, LateBound
  <2>1. QED BY PaidAsBefore
<1>3. QED BY <1>1, <1>2 DEF CircuitsOK

\* Retries are left only to callers that stay what they were.
LEMMA RetriesLeftShrink ==
  ASSUME NEW t \in Callers, role'[t] # "normal",
         \A u \in Callers \ {t} :
           heard'[u] = heard[u] /\ role'[u] = role[u] /\ attempt'[u] = attempt[u]
  PROVE  \A p : RetriesLeft(p)' \subseteq {r \in RetriesLeft(p) : r[1] # t}
BY DEF RetriesLeft, At

\* The recording of an outcome: it may open the circuit or close it.
LEMMA RecordsCircuits ==
  ASSUME CircuitsOK, CallerTypes, NEW t \in Callers, NEW c \in Circuits, Records(t, c),
         ~IsOpen(c) => c.sinceProbe = None,
         \A p : RetriesLeft(p)' \subseteq {r \in RetriesLeft(p) : r[1] # t}
  PROVE  CircuitsOK'
<1>1. PICK q \in Priority : q = At(t) BY AtIsPriority
<1>2. /\ circuit' = [circuit EXCEPT ![q] = c]
      /\ late' = [late EXCEPT ![q] = IF IsOpen(c) THEN @ ELSE 0]
  BY <1>1 DEF Records
<1>3. CircuitTypes' BY <1>2 DEF CircuitsOK, CircuitTypes
<1>4. ClosedIsClean' BY <1>2 DEF CircuitsOK, CircuitTypes, ClosedIsClean
<1>5. LateRetriesPaid'
  <2> SUFFICES ASSUME NEW p \in Priority, IsOpen(circuit'[p])
               PROVE  late'[p] + Cardinality(RetriesLeft(p)') <= LateBound
    BY DEF LateRetriesPaid, LateBound
  <2>1. late'[p] = late[p] BY <1>2 DEF CircuitsOK, CircuitTypes
  <2>2. CASE IsOpen(circuit[p]) BY <2>1, <2>2, PaidAsBefore
  <2>3. CASE ~IsOpen(circuit[p])
    <3>1. late'[p] = 0 BY <2>1, <2>3 DEF CircuitsOK, ClosedIsClean
    <3>2. RetriesLeft(p)' \in SUBSET ((Callers \ {t}) \X (2 .. Attempts))
      BY DEF RetriesLeft
    <3>3. Cardinality(RetriesLeft(p)') \in Nat
      <4>1. RetriesLeft(p)' \in SUBSET (Callers \X (2 .. Attempts)) BY <3>2
      <4>2. QED BY <4>1, RetriesFinite
    <3>4. QED BY <3>1, <3>2, <3>3, OthersRetries
  <2>4. QED BY <2>2, <2>3
<1>6. QED BY <1>3, <1>4, <1>5 DEF CircuitsOK

\* A retry past an open circuit is one of those that were left.
LEMMA RetryCircuits ==
  ASSUME CircuitsOK, CallersOK, NEW t \in Callers, Retry(t)
  PROVE  CircuitsOK'
<1> USE ConfigAssumption DEF ConfigAssumption
<1>1. PICK q \in Priority : q = At(t)
  <2>1. At(t) \in Priority BY AtIsPriority DEF CallersOK
  <2>2. QED BY <2>1
<1>2. /\ UNCHANGED <<circuit, heard, role>>
      /\ attempt' = [attempt EXCEPT ![t] = @ + 1]
      /\ late' = [late EXCEPT ![q] =
                    IF IsOpen(circuit[q]) /\ role[t] = "normal" THEN @ + 1 ELSE @]
  BY <1>1 DEF Retry, Attempt, Here
<1>3. PICK n \in 2 .. Attempts :
        n = attempt[t] + 1 /\ attempt[t] < n /\ attempt'[t] = n
  BY <1>2 DEF Retry, CallersOK, CallerTypes, Stages
<1>4. \A p : RetriesLeft(p)' \subseteq RetriesLeft(p) \ {<<t, n>>}
  BY <1>2, <1>3 DEF RetriesLeft, At, CallersOK, CallerTypes
<1>5. CircuitTypes' BY <1>2 DEF CircuitsOK, CircuitTypes
<1>6. ClosedIsClean' BY <1>2 DEF CircuitsOK, CircuitTypes, ClosedIsClean
<1>7. LateRetriesPaid'
  <2> SUFFICES ASSUME NEW p \in Priority, IsOpen(circuit[p])
               PROVE  late'[p] + Cardinality(RetriesLeft(p)') <= LateBound
    BY <1>2 DEF LateRetriesPaid, LateBound
  <2>1. CASE p = q /\ role[t] = "normal"
    <3>1. <<t, n>> \in RetriesLeft(p) BY <1>1, <1>3, <2>1 DEF RetriesLeft
    <3>2. late'[p] = late[p] + 1 BY <1>2, <2>1 DEF CircuitsOK, CircuitTypes
    <3>3. late[p] + Cardinality(RetriesLeft(p)) <= LateBound /\ late[p] \in Nat
      BY DEF CircuitsOK, LateRetriesPaid, CircuitTypes
    <3>4. RetriesLeft(p) \in SUBSET (Callers \X (2 .. Attempts)) BY DEF RetriesLeft
    <3>5. RetriesLeft(p)' \in SUBSET (Callers \X (2 .. Attempts)) BY DEF RetriesLeft
    <3>6. /\ IsFiniteSet(RetriesLeft(p))
          /\ Cardinality(RetriesLeft(p)) \in Nat
          /\ Cardinality(RetriesLeft(p)') \in Nat
      BY <3>4, <3>5, RetriesFinite
    <3>7. /\ IsFiniteSet(RetriesLeft(p) \ {<<t, n>>})
          /\ Cardinality(RetriesLeft(p) \ {<<t, n>>}) = Cardinality(RetriesLeft(p)) - 1
      BY <3>1, <3>6, FS_RemoveElement
    <3>8. Cardinality(RetriesLeft(p)') <= Cardinality(RetriesLeft(p)) - 1
      BY <1>4, <3>7, FS_Subset
    <3>9. LateBound \in Int
      BY CallersAssumption, FS_CardinalityType DEF CallersAssumption, LateBound
    <3>10. QED BY <3>2, <3>3, <3>6, <3>8, <3>9
  <2>2. CASE ~(p = q /\ role[t] = "normal")
    <3>1. late'[p] = late[p] BY <1>2, <2>2 DEF CircuitsOK, CircuitTypes
    <3>2. QED BY <1>4, <3>1, PaidAsBefore
  <2>3. QED BY <2>1, <2>2
<1>8. QED BY <1>5, <1>6, <1>7 DEF CircuitsOK

\* A caller that leaves a provider leaves no retry behind.
LEMMA LeavingShrinks ==
  ASSUME CallersOK, NEW t \in Callers,
         \/ \E reason \in {"failed", "unavailable"} : PassedOver(t, reason)
         \/ \E v : Ends(t, v)
  PROVE  \A p : RetriesLeft(p)' \subseteq {r \in RetriesLeft(p) : r[1] # t}
<1>1. ASSUME NEW v, Ends(t, v)
      PROVE  /\ role'[t] = "idle"
             /\ \A u \in Callers \ {t} :
                  heard'[u] = heard[u] /\ role'[u] = role[u] /\ attempt'[u] = attempt[u]
  BY <1>1 DEF CallersOK, CallerTypes, Ends
<1>2. ASSUME NEW reason, Declined(t, reason)
      PROVE  /\ role'[t] = "idle"
             /\ \A u \in Callers \ {t} :
                  heard'[u] = heard[u] /\ role'[u] = role[u] /\ attempt'[u] = attempt[u]
  BY <1>2 DEF CallersOK, CallerTypes, Declined
<1>3. QED BY <1>1, <1>2, RetriesLeftShrink DEF PassedOver, Concluded

\* Every step keeps what is said of the circuits.
LEMMA StepCircuits == CallersOK /\ CircuitsOK /\ [Next]_vars => CircuitsOK'
<1> USE ConfigAssumption DEF ConfigAssumption
<1> SUFFICES ASSUME CallersOK, CircuitsOK, [Next]_vars PROVE CircuitsOK' OBVIOUS
<1>types. CallerTypes /\ CircuitTypes BY DEF CallersOK, CircuitsOK
<1>1. ASSUME NEW t \in Callers, Ask(t) \/ Transient(t) PROVE CircuitsOK'
  <2>1. UNCHANGED <<circuit, late, heard, role, attempt>> BY <1>1 DEF Ask, Transient
  <2>2. CircuitTypes' /\ \A p \in Priority : RetriesLeft(p)' = RetriesLeft(p)
    BY <1>types, <2>1 DEF CircuitTypes, RetriesLeft, At
  <2>3. QED BY <2>1, <2>2, SteadyCircuits
<1>2. ASSUME NEW t \in Callers, Admit(t) PROVE CircuitsOK'
  <2>1. UNCHANGED <<circuit, late, heard>> /\ ~IsOpen(circuit[At(t)])
    BY <1>2 DEF Admit, Attempt, Here
  <2>2. \A u \in Callers \ {t} : role'[u] = role[u] /\ attempt'[u] = attempt[u]
    BY <1>2, <1>types DEF Admit, Attempt, CallerTypes
  <2>3. \A p \in Priority : IsOpen(circuit[p]) => RetriesLeft(p)' \subseteq RetriesLeft(p)
    BY <2>1, <2>2 DEF RetriesLeft, At
  <2>4. CircuitTypes' BY <1>types, <2>1 DEF CircuitTypes
  <2>5. QED BY <2>1, <2>3, <2>4, SteadyCircuits
<1>3. ASSUME NEW t \in Callers, AdmitProbe(t) PROVE CircuitsOK'
  <2>1. PICK q \in Priority : q = At(t) BY <1>types, AtIsPriority
  <2>2. circuit' = [circuit EXCEPT ![q].probe = TRUE, ![q].sinceProbe = 0]
        /\ UNCHANGED late /\ IsOpen(circuit[q])
    BY <1>3, <2>1 DEF AdmitProbe, Here
  <2>3. PICK c \in Circuits : c = [circuit[q] EXCEPT !.probe = TRUE, !.sinceProbe = 0]
                            /\ c.age = circuit[q].age
    <3>1. PICK d \in Circuits : d = circuit[q] BY <1>types DEF CircuitTypes
    <3>2. PICK b \in BOOLEAN : b = TRUE OBVIOUS
    <3>3. PICK z \in 0 .. Recovery \cup {None} : z = 0 OBVIOUS
    <3>4. [d EXCEPT !.probe = b, !.sinceProbe = z] \in Circuits BY DEF Circuits
    <3>5. [d EXCEPT !.probe = b, !.sinceProbe = z].age = d.age BY DEF Circuits
    <3>6. QED BY <3>1, <3>2, <3>3, <3>4, <3>5, Zenon
  <2>4. circuit' = [circuit EXCEPT ![q] = c]
    BY <1>types, <2>2, <2>3 DEF CircuitTypes
  <2>5. CircuitTypes' BY <1>types, <2>2, <2>4 DEF CircuitTypes
  <2>6. \A p \in Priority : circuit'[p].age = circuit[p].age
                           /\ (p # q => circuit'[p] = circuit[p])
    BY <1>types, <2>3, <2>4 DEF CircuitTypes
  <2>7. \A p : RetriesLeft(p)' \subseteq RetriesLeft(p)
    BY <1>3, <1>types, RetriesLeftShrink DEF AdmitProbe, Attempt, CallerTypes
  <2>8. QED BY <2>2, <2>5, <2>6, <2>7, SteadyCircuits DEF IsOpen
<1>4. ASSUME NEW t \in Callers, Refuse(t) PROVE CircuitsOK'
  <2>1. \A p : RetriesLeft(p)' \subseteq RetriesLeft(p)
    BY <1>4, LeavingShrinks DEF Refuse
  <2>2. UNCHANGED <<circuit, late>> /\ CircuitTypes'
    BY <1>4, <1>types DEF Refuse, CircuitTypes
  <2>3. QED BY <2>1, <2>2, SteadyCircuits
<1>5. ASSUME NEW t \in Callers, Retry(t) PROVE CircuitsOK' BY <1>5, RetryCircuits
<1>6. ASSUME NEW t \in Callers, Priced(t) PROVE CircuitsOK'
  <2>1. PICK c \in Circuits : c = Reset(Noted(t)) /\ c.sinceProbe = None
    BY <1>types, NotedProperties, ResetProperties
  <2>2. Records(t, c) BY <1>6, <2>1 DEF Priced
  <2>3. \A p : RetriesLeft(p)' \subseteq {r \in RetriesLeft(p) : r[1] # t}
    BY <1>6, LeavingShrinks DEF Priced
  <2>4. QED BY <1>types, <2>1, <2>2, <2>3, RecordsCircuits
<1>7. ASSUME NEW t \in Callers, Unavailable(t) PROVE CircuitsOK'
  <2>1. \A p : RetriesLeft(p)' \subseteq {r \in RetriesLeft(p) : r[1] # t}
    BY <1>7, LeavingShrinks DEF Unavailable
  <2>2. CASE Here(t).probe
    <3>1. PICK c \in Circuits : c = Reset(Noted(t)) /\ c.sinceProbe = None
      BY <1>types, NotedProperties, ResetProperties
    <3>2. Records(t, c) BY <1>7, <2>2, <3>1 DEF Unavailable
    <3>3. QED BY <1>types, <2>1, <3>1, <3>2, RecordsCircuits
  <2>3. CASE ~Here(t).probe
    <3>1. UNCHANGED <<circuit, late>> /\ CircuitTypes'
      BY <1>7, <1>types, <2>3 DEF Unavailable, CircuitTypes
    <3>2. QED BY <2>1, <3>1, SteadyCircuits
  <2>4. QED BY <2>2, <2>3
<1>8. ASSUME NEW t \in Callers, GiveUp(t) PROVE CircuitsOK'
  <2>1. PICK q \in Priority : q = At(t) BY <1>types, AtIsPriority
  <2>2. Noted(t) \in Circuits
        /\ Noted(t).age = circuit[q].age /\ Noted(t).sinceProbe = circuit[q].sinceProbe
    BY <1>types, <2>1, NotedProperties DEF Here
  <2>3. PICK c \in Circuits :
          /\ c = Struck(Noted(t))
          /\ IsOpen(circuit[q]) => IsOpen(c)
          /\ c.sinceProbe = circuit[q].sinceProbe
    <3>1. PICK d \in Circuits :
            d = Noted(t) /\ d.age = circuit[q].age /\ d.sinceProbe = circuit[q].sinceProbe
      BY <2>2
    <3>2. Struck(d) \in Circuits /\ Struck(d).sinceProbe = d.sinceProbe
          /\ (IsOpen(d) => IsOpen(Struck(d)))
      BY StruckProperties, Zenon
    <3>3. QED BY <3>1, <3>2, Zenon DEF IsOpen
  <2>4. ~IsOpen(c) => c.sinceProbe = None BY <2>3 DEF CircuitsOK, ClosedIsClean
  <2>5. Records(t, c) BY <1>8, <2>3 DEF GiveUp
  <2>6. \A p : RetriesLeft(p)' \subseteq {r \in RetriesLeft(p) : r[1] # t}
    BY <1>8, LeavingShrinks DEF GiveUp
  <2>7. QED BY <1>types, <2>4, <2>5, <2>6, RecordsCircuits
<1>9. ASSUME NEW t \in Callers, Escape(t) PROVE CircuitsOK'
  <2>1. PICK q \in Priority : q = At(t) BY <1>types, AtIsPriority
  <2>2. PICK b \in BOOLEAN : b = (circuit[q].lost \/ role[t] = "probe") BY Zenon
  <2>3. circuit' = [circuit EXCEPT ![q].lost = b] /\ UNCHANGED late
    BY <1>9, <2>1, <2>2, Zenon DEF Escape
  <2>4. CircuitTypes' BY <1>types, <2>3 DEF CircuitTypes, Circuits
  <2>5. \A p \in Priority : circuit'[p].age = circuit[p].age
                           /\ circuit'[p].sinceProbe = circuit[p].sinceProbe
    BY <1>types, <2>3 DEF CircuitTypes, Circuits
  <2>6. \A p : RetriesLeft(p)' \subseteq RetriesLeft(p)
    BY <1>9, LeavingShrinks DEF Escape
  <2>7. QED BY <2>3, <2>4, <2>5, <2>6, SteadyCircuits DEF IsOpen
<1>10. CASE Tick
  <2>1. UNCHANGED <<late, heard, role, attempt>> BY <1>10 DEF Tick
  <2>2. ASSUME NEW p \in Priority
        PROVE  /\ circuit'[p] \in Circuits
               /\ IsOpen(circuit'[p]) <=> IsOpen(circuit[p])
               /\ circuit[p].sinceProbe = None => circuit'[p].sinceProbe = None
    <3> DEFINE a == Older(circuit[p].age)
               n == Older(circuit[p].sinceProbe)
    <3>1. circuit[p] \in Circuits BY <1>types DEF CircuitTypes
    <3>2. /\ a \in 0 .. Recovery \cup {None} /\ n \in 0 .. Recovery \cup {None}
          /\ circuit[p].age = None <=> a = None
          /\ circuit[p].sinceProbe = None => n = None
      BY <3>1 DEF Circuits, Older
    <3>3. circuit'[p] = [circuit[p] EXCEPT !.age = a, !.sinceProbe = n]
      BY <1>10, Zenon DEF Tick
    <3> HIDE DEF a, n
    <3>4. QED BY <3>1, <3>2, <3>3 DEF Circuits, IsOpen
  <2>3. CircuitTypes' BY <1>10, <1>types, <2>1, <2>2 DEF CircuitTypes, Tick
  <2>4. \A p \in Priority : RetriesLeft(p)' = RetriesLeft(p)
    BY <2>1 DEF RetriesLeft, At
  <2>5. QED
    BY <2>1, <2>2, <2>3, <2>4, SteadyCircuits DEF CircuitsOK, ClosedIsClean
<1>11. CASE UNCHANGED vars
  BY <1>11 DEF vars, CircuitsOK, CircuitTypes, ClosedIsClean, LateRetriesPaid,
     RetriesLeft, LateBound, At
<1>12. QED
  BY <1>1, <1>2, <1>3, <1>4, <1>5, <1>6, <1>7, <1>8, <1>9, <1>10, <1>11
     DEF Next, Advance, Answered

--------------------------------------------------------------------------------
\* The invariant holds of the stack the presets build.
LEMMA InitInv == Init => IInv
<1> USE ConfigAssumption DEF ConfigAssumption
<1> SUFFICES ASSUME Init PROVE IInv OBVIOUS
<1>1. CallerTypes
  <2>1. << >> \in Seq({"failed", "unavailable"}) /\ Len(<< >>) = 0 /\ DOMAIN << >> = {}
    BY EmptySeq
  <2>2. QED BY <2>1 DEF Init, CallerTypes
<1>2. Stages BY DEF Init, Stages
<1>3. CallsCounted
  <2>1. Len(<< >>) * Attempts + 0 = 0 BY EmptySeq
  <2>2. QED BY <2>1 DEF Init, CallsCounted
<1>4. Untouched \in Circuits /\ Untouched.sinceProbe = None /\ ~IsOpen(Untouched)
  BY DEF Circuits, Untouched, IsOpen
<1>5. CircuitTypes BY <1>4 DEF Init, CircuitTypes
<1>6. ClosedIsClean /\ LateRetriesPaid
  BY <1>4 DEF Init, ClosedIsClean, LateRetriesPaid
<1>7. QED BY <1>1, <1>2, <1>3, <1>5, <1>6 DEF IInv, CallersOK, CircuitsOK

\* Every step preserves it.
LEMMA StepInv == IInv /\ [Next]_vars => IInv'
BY StepCallers, StepCircuits DEF IInv

\* It is an invariant of the stack.
LEMMA Invariance == Spec => []IInv
BY InitInv, StepInv, PTL DEF Spec

\* Whatever the callers interleave, the chain's position stays inside the
\* chain and its flag agrees with the list of failures.
THEOREM TypeCorrect == Spec => []TypeOK
<1>1. IInv => TypeOK
  BY Zenon DEF IInv, CallersOK, CallerTypes, CircuitsOK, CircuitTypes, TypeOK
<1>2. QED BY <1>1, Invariance, PTL

\* One get_rate makes at most Attempts upstream calls for each provider it has
\* reached: retries are counted per provider, and never start over.
THEOREM CallsAreBounded == Spec => []UpstreamCallsBounded
<1>1. IInv => UpstreamCallsBounded
  <2> SUFFICES ASSUME IInv, NEW t \in Callers PROVE calls[t] <= At(t) * Attempts
    BY DEF UpstreamCallsBounded
  <2>1. /\ calls[t] <= Len(heard[t]) * Attempts + attempt[t]
        /\ calls[t] \in Nat /\ attempt[t] \in 0 .. Attempts
        /\ Len(heard[t]) \in Nat
    BY LenProperties DEF IInv, CallersOK, CallerTypes, CallsCounted
  <2>2. /\ At(t) * Attempts = Len(heard[t]) * Attempts + Attempts
        /\ Len(heard[t]) * Attempts \in Nat
    BY <2>1, ConfigAssumption DEF ConfigAssumption, At
  <2>3. QED BY <2>1, <2>2, ConfigAssumption DEF ConfigAssumption
<1>2. QED BY <1>1, Invariance, PTL

\* An open circuit lets through no more retries than the calls it had admitted
\* before it opened had left.
THEOREM LateRetriesAreBounded == Spec => []LateRetriesBounded
<1>1. IInv => LateRetriesBounded
  <2> SUFFICES ASSUME IInv, NEW p \in Priority PROVE late[p] <= LateBound
    BY DEF LateRetriesBounded, LateBound
  <2>1. LateBound \in Nat
    <3>1. PICK t \in Callers : TRUE BY CallersAssumption DEF CallersAssumption
    <3>2. {} \in SUBSET ((Callers \ {t}) \X (2 .. Attempts)) OBVIOUS
    <3>3. LateBound >= 0 BY <3>2, OthersRetries, FS_EmptySet
    <3>4. LateBound \in Int
      BY ConfigAssumption, CallersAssumption, FS_CardinalityType
         DEF ConfigAssumption, CallersAssumption, LateBound
    <3>5. QED BY <3>3, <3>4
  <2>2. late[p] \in Nat BY DEF IInv, CircuitsOK, CircuitTypes
  <2>3. CASE IsOpen(circuit[p])
    <3>1. RetriesLeft(p) \in SUBSET (Callers \X (2 .. Attempts)) BY DEF RetriesLeft
    <3>2. Cardinality(RetriesLeft(p)) \in Nat BY <3>1, RetriesFinite
    <3>3. late[p] + Cardinality(RetriesLeft(p)) <= LateBound
      BY <2>3 DEF IInv, CircuitsOK, LateRetriesPaid
    <3>4. QED BY <2>1, <2>2, <3>2, <3>3
  <2>4. CASE ~IsOpen(circuit[p])
    BY <2>1, <2>4 DEF IInv, CircuitsOK, ClosedIsClean
  <2>5. QED BY <2>3, <2>4
<1>2. QED BY <1>1, Invariance, PTL

--------------------------------------------------------------------------------
(* The chain. *)

\* The chain's view of a step of t: inside get_rate or not.
LEMMA Consulted ==
  ASSUME CallerTypes, CallerTypes', NEW t \in Callers, NEW b \in BOOLEAN,
         (pc'[t] # "idle") <=> b, \A u \in Callers \ {t} : pc'[u] = pc[u]
  PROVE  [c \in Callers |-> pc'[c] # "idle"]
           = [[c \in Callers |-> pc[c] # "idle"] EXCEPT ![t] = b]
OBVIOUS

\* A get_rate that ends is the end of a call of the chain.
LEMMA EndsChain ==
  ASSUME CallerTypes, CallerTypes', NEW t \in Callers, NEW v, pc[t] # "idle", Ends(t, v)
  PROVE  Chain!End(t, v)
<1>1. [c \in Callers |-> pc'[c] # "idle"]
        = [[c \in Callers |-> pc[c] # "idle"] EXCEPT ![t] = FALSE]
  <2>1. pc'[t] = "idle" /\ \A u \in Callers \ {t} : pc'[u] = pc[u]
    BY DEF Ends, CallerTypes
  <2>2. QED BY <2>1, Consulted
<1>2. QED BY <1>1 DEF Chain!End, Ends

\* What the chain does with a provider that does not quote is what it promises.
LEMMA PassedOverChain ==
  ASSUME CallerTypes, CallerTypes', NEW t \in Callers, pc[t] # "idle",
         NEW reason \in {"failed", "unavailable"}, PassedOver(t, reason)
  PROVE  Chain!Decline(t, reason) \/ Chain!Conclude(t, reason)
<1>1. CASE Declined(t, reason)
  <2>1. [c \in Callers |-> pc'[c] # "idle"] = [c \in Callers |-> pc[c] # "idle"]
    BY <1>1 DEF Declined, CallerTypes
  <2>2. QED BY <1>1, <2>1 DEF Declined, At, Chain!Decline
<1>2. CASE Concluded(t, reason)
  <2> DEFINE answers == Append(heard[t], reason)
  <2>1. heard[t] \in Seq({"failed", "unavailable"}) BY DEF CallerTypes
  <2>2. /\ answers \in Seq({"failed", "unavailable"})
        /\ Len(answers) = Len(heard[t]) + 1
        /\ (\E i \in DOMAIN answers : answers[i] = "failed") <=>
             (\E i \in DOMAIN heard[t] : heard[t][i] = "failed") \/ reason = "failed"
    BY <2>1, FailureHeard
  <2>3. Len(answers) = Depth BY <1>2, <2>2 DEF Concluded, At
  <2>4. DOMAIN answers = 1 .. Depth BY <2>2, <2>3, LenProperties
  <2>5. doubt[t] \/ reason = "failed" <=> \E i \in 1 .. Depth : answers[i] = "failed"
    BY <2>2, <2>4, Zenon DEF CallerTypes
  <2>6. PICK v : v = IF doubt[t] \/ reason = "failed" THEN "failed" ELSE "unavailable"
    OBVIOUS
  <2>7. v = IF \E i \in 1 .. Depth : answers[i] = "failed" THEN "failed" ELSE "unavailable"
    BY <2>5, <2>6, Zenon
  <2>8. Ends(t, v) BY <1>2, <2>6, Zenon DEF Concluded, Ends
  <2>9. Chain!End(t, v) BY <2>8, EndsChain
  <2>10. QED BY <2>3, <2>7, <2>9, Zenon DEF Chain!Conclude, Chain!End
<1>3. QED BY <1>1, <1>2 DEF PassedOver

\* Nobody consults the chain at first.
LEMMA InitChain == Init => Chain!Init
<1> SUFFICES ASSUME Init PROVE Chain!Init OBVIOUS
<1>1. [c \in Callers |-> pc[c] # "idle"] = [c \in Callers |-> FALSE] BY DEF Init
<1>2. QED BY <1>1 DEF Init, Chain!Init

\* Every step of the stack is a step of the chain, or changes nothing in it.
LEMMA StepChain == IInv /\ [Next]_vars => [Chain!Next]_(Chain!chainVars)
<1> SUFFICES ASSUME IInv, [Next]_vars PROVE [Chain!Next]_(Chain!chainVars) OBVIOUS
<1>types. CallerTypes /\ CallerTypes' BY StepCallers DEF IInv, CallersOK
<1>1. ASSUME NEW t \in Callers, Ask(t) PROVE Chain!Next
  <2>1. [c \in Callers |-> pc'[c] # "idle"]
          = [[c \in Callers |-> pc[c] # "idle"] EXCEPT ![t] = TRUE]
    <3>1. pc'[t] # "idle" /\ \A u \in Callers \ {t} : pc'[u] = pc[u]
      BY <1>1, <1>types DEF Ask, CallerTypes
    <3>2. QED BY <1>types, <3>1, Consulted
  <2>2. heard' = [heard EXCEPT ![t] = << >>]
    BY <1>1, <1>types DEF Ask, IInv, CallersOK, Stages, CallerTypes
  <2>3. pc[t] = "idle" /\ verdict' = [verdict EXCEPT ![t] = None] BY <1>1 DEF Ask
  <2>4. Chain!Ask(t) BY <2>1, <2>2, <2>3 DEF Chain!Ask
  <2>5. QED BY <2>4 DEF Chain!Next
<1>2. ASSUME NEW t \in Callers, Refuse(t) \/ Unavailable(t) \/ GiveUp(t) PROVE Chain!Next
  <2>1. PICK reason \in {"failed", "unavailable"} : PassedOver(t, reason)
    BY <1>2 DEF Refuse, Unavailable, GiveUp
  <2>2. pc[t] # "idle" BY <1>2 DEF Refuse, Unavailable, GiveUp
  <2>3. Chain!Decline(t, reason) \/ Chain!Conclude(t, reason)
    BY <1>types, <2>1, <2>2, PassedOverChain
  <2>4. QED BY <2>3 DEF Chain!Next
<1>3. ASSUME NEW t \in Callers, Priced(t) \/ Escape(t) PROVE Chain!Next
  <2>1. pc[t] # "idle" BY <1>3 DEF Priced, Escape
  <2>2. Chain!End(t, "priced") \/ Chain!End(t, "escaped")
    BY <1>3, <1>types, <2>1, EndsChain DEF Priced, Escape
  <2>3. QED BY <2>2 DEF Chain!Next
<1>4. ASSUME NEW t \in Callers, Admit(t) \/ AdmitProbe(t) \/ Retry(t) \/ Transient(t)
      PROVE  UNCHANGED Chain!chainVars
  <2>1. /\ pc[t] # "idle" /\ pc'[t] # "idle" /\ UNCHANGED <<heard, verdict>>
        /\ \A u \in Callers \ {t} : pc'[u] = pc[u]
    BY <1>4, <1>types DEF Admit, AdmitProbe, Retry, Transient, Attempt, CallerTypes
  <2>2. [c \in Callers |-> pc'[c] # "idle"] = [c \in Callers |-> pc[c] # "idle"]
    BY <2>1
  <2>3. QED BY <2>1, <2>2 DEF Chain!chainVars
<1>5. CASE Tick \/ UNCHANGED vars BY <1>5 DEF Tick, vars, Chain!chainVars
<1>6. QED BY <1>1, <1>2, <1>3, <1>4, <1>5 DEF Next, Advance, Answered

\* Retries, refusals and circuits shared with other callers change nothing in
\* the order and the meaning of the chain's answers.
THEOREM StackRefinesFailover == Spec => RefinesFailover
BY InitChain, StepChain, Invariance, PTL DEF Spec, RefinesFailover, Chain!Spec

--------------------------------------------------------------------------------
(* The circuits, each as CircuitBreaker describes it. *)

\* What the circuit of p sees of the callers.
Seats(p) == [t \in Callers |-> IF At(t) = p THEN role[t] ELSE "idle"]

\* Nobody else changes place.
OnlyMoves(t) ==
  \A u \in Callers \ {t} : heard'[u] = heard[u] /\ role'[u] = role[u]

\* A step of one caller alone gives it another seat at the circuit of p.
LEMMA SeatTaken ==
  ASSUME NEW t \in Callers, NEW p \in Priority, NEW r, OnlyMoves(t),
         At(t)' = p => role'[t] = r, At(t)' # p => r = "idle"
  PROVE  Seats(p)' = [Seats(p) EXCEPT ![t] = r]
BY DEF Seats, OnlyMoves, At

\* A step elsewhere in the chain is not seen.
LEMMA OtherCircuit ==
  ASSUME NEW t \in Callers, NEW p \in Priority, OnlyMoves(t),
         At(t) # p, At(t)' = At(t) \/ role'[t] = "idle", circuit'[p] = circuit[p]
  PROVE  UNCHANGED Circuit(p)!vars
<1>1. Seats(p)' = Seats(p) BY DEF Seats, OnlyMoves, At
<1>2. QED BY <1>1 DEF Circuit!vars, Seats

\* A call of the provider ends, for its circuit.
LEMMA SeatVacated ==
  ASSUME NEW t \in Callers, NEW p \in Priority, p = At(t), OnlyMoves(t),
         role[t] # "idle", role'[t] = "idle"
  PROVE  Circuit(p)!Finish(t) /\ (Circuit(p)!Probing(t) <=> role[t] = "probe")
<1>1. Seats(p)' = [Seats(p) EXCEPT ![t] = "idle"] /\ Seats(p)[t] = role[t]
  BY SeatTaken DEF Seats
<1>2. QED BY <1>1, Zenon DEF Seats, Circuit!Finish, Circuit!Probing

\* What an outcome that is recorded notes, with the rest of its effect aside.
LEMMA NotedCircuit ==
  ASSUME CallerTypes, CircuitTypes, NEW t \in Callers, NEW p \in Priority, p = At(t),
         role[t] # "idle", circuit'[p].disturbed = Noted(t).disturbed
  PROVE  Circuit(p)!Noted(t)
<1>1. Noted(t).disturbed =
        (circuit[p].disturbed \/ (circuit[p].age # None /\ role[t] # "probe"))
  BY NotedProperties, Zenon DEF Here, IsOpen
<1>2. Circuit(p)!Probing(t) <=> role[t] = "probe" BY DEF Circuit!Probing
<1>3. QED BY <1>1, <1>2, Zenon DEF Circuit!Noted, Circuit!Open

\* An outcome that resets the circuit.
LEMMA ResetCircuit ==
  ASSUME CallerTypes, CircuitTypes, NEW t \in Callers, NEW p \in Priority, p = At(t),
         role[t] # "idle", Records(t, Reset(Noted(t)))
  PROVE  Circuit(p)!Noted(t) /\ Circuit(p)!Reset
<1>1. PICK c \in Circuits : c = Noted(t) BY NotedProperties
<1>2. circuit'[p] = Reset(c) BY <1>1 DEF Records, CircuitTypes
<1>3. circuit'[p].disturbed = Noted(t).disturbed
  BY <1>1, <1>2, ResetProperties, Zenon
<1>4. Circuit(p)!Reset BY <1>2, ResetProperties, Zenon DEF Circuit!Reset
<1>5. QED BY <1>3, <1>4, NotedCircuit

\* An outcome that is a failure.
LEMMA StruckCircuit ==
  ASSUME CallerTypes, CircuitTypes, NEW t \in Callers, NEW p \in Priority, p = At(t),
         OnlyMoves(t), role[t] # "idle", role'[t] = "idle", Records(t, Struck(Noted(t)))
  PROVE  Circuit(p)!Fail(t)
<1>1. PICK c \in Circuits :
        /\ c = Noted(t)
        /\ c.failures = circuit[p].failures /\ c.age = circuit[p].age
        /\ c.sinceProbe = circuit[p].sinceProbe
  BY NotedProperties DEF Here
<1>2. circuit'[p] = Struck(c) BY <1>1 DEF Records, CircuitTypes
<1>3. circuit'[p].disturbed = Noted(t).disturbed
  BY <1>1, <1>2, StruckProperties, Zenon
<1>4. Circuit(p)!Noted(t) BY <1>3, NotedCircuit
<1>5. /\ circuit'[p].failures =
           IF circuit[p].failures < Threshold THEN circuit[p].failures + 1
           ELSE circuit[p].failures
      /\ circuit'[p].age =
           IF circuit[p].failures + 1 >= Threshold THEN 0 ELSE circuit[p].age
      /\ circuit'[p].sinceProbe = circuit[p].sinceProbe
  <2>1. /\ Struck(c).failures = IF c.failures < Threshold THEN c.failures + 1 ELSE c.failures
        /\ Struck(c).age = IF c.failures + 1 >= Threshold THEN 0 ELSE c.age
        /\ Struck(c).sinceProbe = c.sinceProbe
    BY StruckProperties, Zenon
  <2>2. QED BY <1>1, <1>2, <2>1
<1>6. circuit'[p].probe = FALSE /\ circuit'[p].lost = FALSE
  BY <1>2, StruckProperties, Zenon
<1>7. Circuit(p)!Finish(t) BY SeatVacated
<1>8. QED BY <1>4, <1>5, <1>6, <1>7, Zenon DEF Circuit!Fail

\* Who changes place in a step of t, and which circuits it leaves alone.
LEMMA StepMoves ==
  ASSUME CallersOK, CircuitTypes, NEW t \in Callers, Ask(t) \/ Advance(t)
  PROVE  /\ OnlyMoves(t)
         /\ UNCHANGED heard \/ role'[t] = "idle"
         /\ \A p \in Priority : p # At(t) => circuit'[p] = circuit[p]
<1> USE DEF CallersOK, CallerTypes
<1>1. ASSUME Ask(t) \/ Transient(t) \/ Admit(t) \/ AdmitProbe(t) \/ Retry(t)
      PROVE  OnlyMoves(t) /\ UNCHANGED heard
  BY <1>1 DEF Ask, Transient, Admit, AdmitProbe, Retry, Attempt, OnlyMoves
<1>2. ASSUME NEW v, Ends(t, v) PROVE OnlyMoves(t) /\ role'[t] = "idle"
  BY <1>2 DEF Ends, OnlyMoves
<1>3. ASSUME NEW r, PassedOver(t, r) PROVE OnlyMoves(t) /\ role'[t] = "idle"
  <2>1. CASE Declined(t, r) BY <2>1 DEF Declined, OnlyMoves
  <2>2. CASE Concluded(t, r) BY <1>2, <2>2 DEF Concluded
  <2>3. QED BY <1>3, <2>1, <2>2 DEF PassedOver
<1>4. OnlyMoves(t) /\ (UNCHANGED heard \/ role'[t] = "idle")
  BY <1>1, <1>2, <1>3 DEF Advance, Answered, Refuse, Priced, Unavailable, GiveUp, Escape
<1>5. ASSUME NEW p \in Priority, p # At(t) PROVE circuit'[p] = circuit[p]
  <2>1. ASSUME NEW c, Records(t, c) PROVE circuit'[p] = circuit[p]
    BY <1>5, <2>1 DEF Records, CircuitTypes
  <2>2. CASE AdmitProbe(t) BY <1>5, <2>2 DEF AdmitProbe, CircuitTypes
  <2>3. CASE Escape(t) BY <1>5, <2>3 DEF Escape, CircuitTypes
  <2>4. QED
    BY <2>1, <2>2, <2>3
       DEF Ask, Advance, Answered, Refuse, Priced, Unavailable, GiveUp, Transient, Admit, Retry
<1>6. QED BY <1>4, <1>5

\* Nothing happens at a circuit that neither it nor its callers notice.
LEMMA CircuitUnmoved ==
  ASSUME NEW p \in Priority, circuit'[p] = circuit[p], Seats(p)' = Seats(p)
  PROVE  UNCHANGED Circuit(p)!vars
BY DEF Circuit!vars, Seats

\* Time passes at the open circuits only.
LEMMA TickCircuit ==
  ASSUME CircuitsOK, NEW p \in Priority, Tick
  PROVE  [Circuit(p)!Next]_(Circuit(p)!vars)
<1>1. circuit'[p] = [circuit[p] EXCEPT !.age = Older(@), !.sinceProbe = Older(@)]
      /\ Seats(p)' = Seats(p) /\ circuit[p] \in Circuits
  BY DEF Tick, Seats, At, CircuitsOK, CircuitTypes
<1>2. /\ circuit'[p].age = Older(circuit[p].age)
      /\ circuit'[p].sinceProbe = Older(circuit[p].sinceProbe)
      /\ circuit'[p].failures = circuit[p].failures
  BY <1>1 DEF Circuits
<1>3. /\ circuit'[p].probe = circuit[p].probe
      /\ circuit'[p].disturbed = circuit[p].disturbed
      /\ circuit'[p].lost = circuit[p].lost
  BY <1>1 DEF Circuits
<1>4. CASE IsOpen(circuit[p])
  <2>1. Circuit(p)!Tick
    BY <1>1, <1>2, <1>3, <1>4, Zenon
       DEF Circuit!Tick, Circuit!Open, Circuit!Older, Older, IsOpen, Seats
  <2>2. QED BY <2>1 DEF Circuit!Next
<1>5. CASE ~IsOpen(circuit[p])
  <2>1. circuit[p].age = None /\ circuit[p].sinceProbe = None
    BY <1>5 DEF IsOpen, CircuitsOK, ClosedIsClean
  <2>2. circuit'[p].age = circuit[p].age /\ circuit'[p].sinceProbe = circuit[p].sinceProbe
    BY <1>2, <2>1 DEF Older
  <2>3. UNCHANGED Circuit(p)!vars
    BY <1>1, <1>2, <1>3, <2>2, Zenon DEF Circuit!vars, Seats
  <2>4. QED BY <2>3
<1>6. QED BY <1>4, <1>5

\* Every step of the stack is, for each circuit, a step of that circuit or none.
LEMMA StepCircuit ==
  ASSUME IInv, NEW p \in Priority, [Next]_vars
  PROVE  [Circuit(p)!Next]_(Circuit(p)!vars)
<1>types. CallersOK /\ CallerTypes /\ CircuitsOK /\ CircuitTypes
  BY DEF IInv, CallersOK, CircuitsOK
<1>1. ASSUME NEW t \in Callers, Ask(t) \/ Advance(t), p # At(t)
      PROVE  UNCHANGED Circuit(p)!vars
  <2>1. /\ OnlyMoves(t) /\ circuit'[p] = circuit[p]
        /\ At(t)' = At(t) \/ role'[t] = "idle"
    BY <1>1, <1>types, StepMoves DEF At
  <2>2. QED BY <1>1, <2>1, OtherCircuit
<1>2. ASSUME NEW t \in Callers, Ask(t) \/ Transient(t) \/ Retry(t) \/ Refuse(t), p = At(t)
      PROVE  UNCHANGED Circuit(p)!vars
  <2>1. circuit'[p] = circuit[p] BY <1>2 DEF Ask, Transient, Retry, Refuse
  <2>2. CASE UNCHANGED <<heard, role>>
    <3>1. Seats(p)' = Seats(p) BY <2>2 DEF Seats, At
    <3>2. QED BY <2>1, <3>1, CircuitUnmoved
  <2>3. CASE Refuse(t)
    <3>1. OnlyMoves(t) /\ (UNCHANGED heard \/ role'[t] = "idle")
      BY <2>3, <1>types, StepMoves DEF Advance
    <3>2. role[t] = "idle" BY <2>3 DEF Refuse, CallersOK, Stages, IInv
    <3>3. role'[t] = "idle"
      BY <2>3, <1>types DEF Refuse, PassedOver, Declined, Concluded, Ends, CallerTypes
    <3>4. Seats(p)' = Seats(p) BY <3>1, <3>2, <3>3 DEF Seats, OnlyMoves, At
    <3>5. QED BY <2>1, <3>4, CircuitUnmoved
  <2>4. QED BY <1>2, <2>2, <2>3 DEF Ask, Transient, Retry, Attempt
<1>3. ASSUME NEW t \in Callers, Admit(t), p = At(t) PROVE Circuit(p)!Next
  <2>1. OnlyMoves(t) /\ UNCHANGED <<circuit, heard>> /\ role'[t] = "normal"
    BY <1>3, <1>types DEF Admit, Attempt, OnlyMoves, CallerTypes
  <2>2. Seats(p)' = [Seats(p) EXCEPT ![t] = "normal"] BY <1>3, <2>1, SeatTaken DEF At
  <2>3. Seats(p)[t] = "idle" /\ circuit[p].age = None
    BY <1>3 DEF Admit, Seats, Here, IsOpen, IInv, CallersOK, Stages
  <2>4. Circuit(p)!AdmitNormal(t)
    BY <2>1, <2>2, <2>3 DEF Seats, Circuit!AdmitNormal, Circuit!Open, Circuit!history
  <2>5. QED BY <2>4 DEF Circuit!Next
<1>4. ASSUME NEW t \in Callers, AdmitProbe(t), p = At(t) PROVE Circuit(p)!Next
  <2>1. OnlyMoves(t) /\ UNCHANGED heard /\ role'[t] = "probe"
    BY <1>4, <1>types DEF AdmitProbe, Attempt, OnlyMoves, CallerTypes
  <2>2. Seats(p)' = [Seats(p) EXCEPT ![t] = "probe"] BY <1>4, <2>1, SeatTaken DEF At
  <2>3. /\ Seats(p)[t] = "idle" /\ circuit[p].age # None /\ circuit[p].age >= Recovery
        /\ ~circuit[p].probe
    BY <1>4 DEF AdmitProbe, Seats, Here, IsOpen, IInv, CallersOK, Stages
  <2>4. circuit'[p] = [circuit[p] EXCEPT !.probe = TRUE, !.sinceProbe = 0]
        /\ circuit[p] \in Circuits
    BY <1>4, <1>types DEF AdmitProbe, CircuitTypes
  <2>5. /\ circuit'[p].failures = circuit[p].failures
        /\ circuit'[p].age = circuit[p].age
        /\ circuit'[p].sinceProbe = 0
    BY <2>4 DEF Circuits
  <2>6. /\ circuit'[p].probe = TRUE
        /\ circuit'[p].disturbed = circuit[p].disturbed
        /\ circuit'[p].lost = circuit[p].lost
    BY <2>4 DEF Circuits
  <2>7. Circuit(p)!AdmitProbe(t)
    BY <2>2, <2>3, <2>5, <2>6, Zenon DEF Seats, Circuit!AdmitProbe, Circuit!Open
  <2>8. QED BY <2>7 DEF Circuit!Next
<1>5. ASSUME NEW t \in Callers, Priced(t) \/ Unavailable(t) \/ GiveUp(t) \/ Escape(t),
             p = At(t)
      PROVE  Circuit(p)!Next
  <2>1. OnlyMoves(t) /\ role[t] # "idle"
    BY <1>5, <1>types, StepMoves
       DEF Advance, Answered, Priced, Unavailable, GiveUp, Escape, CallersOK, Stages
  <2>2. role'[t] = "idle"
    BY <1>5, <1>types
       DEF Priced, Unavailable, GiveUp, Escape, PassedOver, Declined, Concluded, Ends,
           CallerTypes
  <2>3. Circuit(p)!Finish(t) /\ (Circuit(p)!Probing(t) <=> role[t] = "probe")
    BY <1>5, <2>1, <2>2, SeatVacated
  <2>4. CASE Priced(t)
    <3>1. Circuit(p)!Noted(t) /\ Circuit(p)!Reset
      BY <1>5, <1>types, <2>1, <2>4, ResetCircuit DEF Priced
    <3>2. QED BY <2>3, <3>1 DEF Circuit!Succeed, Circuit!Record, Circuit!Next
  <2>5. CASE Unavailable(t)
    <3>1. CASE circuit[p].probe
      <4>1. Records(t, Reset(Noted(t))) BY <1>5, <2>5, <3>1 DEF Unavailable, Here
      <4>2. Circuit(p)!Noted(t) /\ Circuit(p)!Reset
        BY <1>5, <1>types, <2>1, <4>1, ResetCircuit
      <4>3. Circuit(p)!Unavailable(t) BY <2>3, <3>1, <4>2 DEF Circuit!Unavailable
      <4>4. QED BY <4>3 DEF Circuit!Record, Circuit!Next
    <3>2. CASE ~circuit[p].probe
      <4>1. UNCHANGED circuit BY <1>5, <2>5, <3>2 DEF Unavailable, Here
      <4>2. Circuit(p)!Unavailable(t)
        BY <2>3, <3>2, <4>1 DEF Circuit!Unavailable, Circuit!history
      <4>3. QED BY <4>2 DEF Circuit!Record, Circuit!Next
    <3>3. QED BY <3>1, <3>2
  <2>6. CASE GiveUp(t)
    <3>1. Circuit(p)!Fail(t)
      BY <1>5, <1>types, <2>1, <2>2, <2>6, StruckCircuit DEF GiveUp
    <3>2. QED BY <3>1 DEF Circuit!Record, Circuit!Next
  <2>7. CASE Escape(t)
    <3>1. PICK b \in BOOLEAN : b = (circuit[p].lost \/ role[t] = "probe") BY Zenon
    <3>2. circuit' = [circuit EXCEPT ![p].lost = b]
      BY <1>5, <2>7, <3>1, Zenon DEF Escape
    <3>3. circuit'[p] = [circuit[p] EXCEPT !.lost = b] /\ circuit[p] \in Circuits
      BY <1>types, <3>2 DEF CircuitTypes
    <3>4. /\ circuit'[p].failures = circuit[p].failures
          /\ circuit'[p].age = circuit[p].age
          /\ circuit'[p].sinceProbe = circuit[p].sinceProbe
      BY <3>3 DEF Circuits
    <3>5. /\ circuit'[p].probe = circuit[p].probe
          /\ circuit'[p].disturbed = circuit[p].disturbed
          /\ circuit'[p].lost = b
      BY <3>3 DEF Circuits
    <3>6. Unclassified BY <2>7 DEF Escape
    <3>7. circuit'[p].lost = (circuit[p].lost \/ Circuit(p)!Probing(t))
      BY <2>3, <3>1, <3>5, Zenon
    <3>8. Circuit(p)!Escape(t) BY <2>3, <3>4, <3>5, <3>6, <3>7, Zenon DEF Circuit!Escape
    <3>9. QED BY <3>8 DEF Circuit!Record, Circuit!Next
  <2>8. QED BY <1>5, <2>4, <2>5, <2>6, <2>7
<1>6. CASE Tick BY <1>6, <1>types, TickCircuit
<1>7. CASE UNCHANGED vars
  <2>1. circuit'[p] = circuit[p] /\ Seats(p)' = Seats(p) BY <1>7 DEF vars, Seats, At
  <2>2. QED BY <2>1, CircuitUnmoved
<1>8. ASSUME NEW t \in Callers, Ask(t) \/ Advance(t)
      PROVE  [Circuit(p)!Next]_(Circuit(p)!vars)
  <2>1. CASE p = At(t)
    BY <1>2, <1>3, <1>4, <1>5, <1>8, <2>1 DEF Advance, Answered
  <2>2. CASE p # At(t) BY <1>1, <1>8, <2>2
  <2>3. QED BY <2>1, <2>2
<1>9. QED BY <1>6, <1>7, <1>8 DEF Next

\* Every circuit begins closed and unused.
LEMMA InitCircuit == ASSUME Init, NEW p \in Priority PROVE Circuit(p)!Init
BY DEF Init, Untouched, Circuit!Init

\* Around the retries and under the chain, the circuit of each provider moves
\* as CircuitBreaker says, its fairness apart: what is proved of the steps of one
\* circuit holds of each.
THEOREM CircuitsRefineCircuitBreaker == Spec => CircuitsAreCircuitBreakers
<1>1. Init => \A p \in Priority : Circuit(p)!Init BY InitCircuit
<1>2. IInv /\ [Next]_vars =>
        [\A p \in Priority : [Circuit(p)!Next]_(Circuit(p)!vars)]_vars
  BY StepCircuit
<1>3. QED BY <1>1, <1>2, Invariance, PTL DEF Spec, CircuitsAreCircuitBreakers

--------------------------------------------------------------------------------
(* What is proved of one circuit, for each circuit of the stack.  A theorem of *)
(* an instance can be cited when the instance has no parameter, so the circuit *)
(* is that of a constant, AnyProvider, about which only its range is assumed.  *)

CONSTANT AnyProvider  \* any provider of the chain

One == INSTANCE CircuitBreakerProofs WITH
  PairScoped <- FALSE,
  failures <- circuit[AnyProvider].failures,
  age <- circuit[AnyProvider].age,
  probe <- circuit[AnyProvider].probe,
  role <- [t \in Callers |-> IF At(t) = AnyProvider THEN role[t] ELSE "idle"],
  sinceProbe <- circuit[AnyProvider].sinceProbe,
  disturbed <- circuit[AnyProvider].disturbed,
  lost <- circuit[AnyProvider].lost

\* The stack builds its circuits with values their constructor accepts.
LEMMA OneConfig == One!ConfigAssumption
BY ConfigAssumption DEF ConfigAssumption, One!ConfigAssumption

\* The circuit begins in its invariant.
LEMMA InitOne == ASSUME AnyProvider \in Priority PROVE Init => One!IInv
<1>1. Init => One!Init BY DEF Init, Untouched, One!Init
<1>2. One!Init => One!IInv BY One!InitInv, OneConfig
<1>3. QED BY <1>1, <1>2

\* A step of the stack is a step of the circuit, or none.
LEMMA NextOne == ASSUME AnyProvider \in Priority, IInv, [Next]_vars PROVE [One!Next]_(One!vars)
<1>1. [Circuit(AnyProvider)!Next]_(Circuit(AnyProvider)!vars) BY StepCircuit
<1>2. QED
  BY <1>1, Zenon
     DEF Circuit!Next, One!Next, Circuit!vars, One!vars, Circuit!AdmitNormal,
         One!AdmitNormal, Circuit!AdmitProbe, One!AdmitProbe, Circuit!Refuse, One!Refuse,
         Circuit!Record, One!Record, Circuit!Tick, One!Tick, Circuit!Succeed, One!Succeed,
         Circuit!Unavailable, One!Unavailable, Circuit!Fail, One!Fail, Circuit!Escape,
         One!Escape, Circuit!Finish, One!Finish, Circuit!Noted, One!Noted, Circuit!Reset,
         One!Reset, Circuit!Open, One!Open, Circuit!Probing, One!Probing, Circuit!history,
         One!history, Circuit!Older, One!Older

\* So it keeps the circuit's invariant and its action properties.
LEMMA StepOne ==
  ASSUME AnyProvider \in Priority, IInv, One!IInv, [Next]_vars
  PROVE  One!IInv' /\ [One!Spaced]_(One!vars) /\ [One!ClosesInTime]_(One!vars)
BY NextOne, OneConfig, One!StepInv, One!StepSpaced, One!StepClosesInTime

\* Whatever retries inside it, the chain around it and other callers do: the
\* fields of each circuit agree, undisturbed probes are exclusive, a registered
\* probe is running, probes are a recovery timeout apart, and a circuit closes
\* early only for a late call (resilience.py 329-371 under presets.py).
THEOREM EachCircuitKeepsItsPromises ==
  ASSUME AnyProvider \in Priority
  PROVE  Spec => /\ []One!FieldsAgree
                 /\ []One!OneProbeUnlessDisturbed
                 /\ []One!ProbeIsRunning
                 /\ One!ProbesAreSpaced
                 /\ One!EarlyCloseIsDisturbed
<1>1. Init => One!IInv BY InitOne
<1>2. IInv /\ One!IInv /\ [Next]_vars => One!IInv' BY StepOne
<1>3. IInv /\ One!IInv /\ [Next]_vars =>
        [One!Spaced]_(One!vars) /\ [One!ClosesInTime]_(One!vars)
  BY StepOne
<1>4. One!IInv => One!FieldsAgree /\ One!OneProbeUnlessDisturbed /\ One!ProbeIsRunning
  BY DEF One!IInv, One!UndisturbedProbe, One!OneProbeUnlessDisturbed
<1>5. QED
  BY <1>1, <1>2, <1>3, <1>4, Invariance, PTL
     DEF Spec, One!ProbesAreSpaced, One!EarlyCloseIsDisturbed, One!Spaced, One!ClosesInTime

================================================================================
