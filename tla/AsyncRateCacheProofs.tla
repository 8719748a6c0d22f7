-------------------------- MODULE AsyncRateCacheProofs --------------------------
(***************************************************************************)
(* Proofs about AsyncRateCache, for any number of tasks and pairs, any     *)
(* ttl, size and stale window, and cancellation at every await.            *)
(***************************************************************************)
EXTENDS AsyncRateCache, QuoteCacheProofs

\* No value is not an outcome, a pair or a task.
LEMMA NoneIsNoOutcome == None \notin Outcome /\ None \notin Pairs /\ None \notin Tasks
BY NoneAssumption, TasksAssumption DEF NoneAssumption, TasksAssumption

\* A fresh entry is one of the cache.
LEMMA FreshIsCached ==
  ASSUME TypeOK, NEW p, NEW i \in FreshSlots(cache, p, clock)
  PROVE  i \in 1 .. Len(cache) /\ cache[i] \in Entry /\ cache[i].pair = p
BY LenProperties, ElementOfSeq DEF TypeOK, FreshSlots, Slots

\* An owner remembers entries, so what it may still serve is an entry.
LEMMA UsableIsRemembered ==
  ASSUME TypeOK, NEW t \in Tasks, NEW e \in Usable(stale[t], clock)
  PROVE  e \in stale[t] /\ e \in Entry /\ e.rate \in Rate
BY DEF TypeOK, Usable, Entry

--------------------------------------------------------------------------------
(***************************************************************************)
(* Types                                                                   *)
(***************************************************************************)

\* At first every variable has its type.
LEMMA InitTypes == Init => TypeOK
<1> SUFFICES ASSUME Init PROVE TypeOK OBVIOUS
<1>1. cache \in Seq(Entry) BY EmptySeq DEF Init
<1>2. clock \in Time BY ConfigAssumption DEF Init, Time, ConfigAssumption
<1>3. QED BY <1>1, <1>2 DEF Init, TypeOK

\* An owner that ends with an outcome and tells its waiters one keeps the types.
LEMMA CompletesTypes ==
  ASSUME TypeOK, NEW t \in Tasks, pc[t] = "calling",
         NEW mine \in Outcome, NEW told \in Outcome, Completes(t, mine, told),
         cache' \in Seq(Entry)
  PROVE  TypeOK'
BY DEF Completes, Waiters, TypeOK

\* Every step keeps the types.
LEMMA StepTypes == TypeOK /\ UniqueKeys(cache) /\ [Next]_vars => TypeOK'
<1> SUFFICES ASSUME TypeOK, UniqueKeys(cache), [Next]_vars PROVE TypeOK' OBVIOUS
<1>ty. cache \in Seq(Entry) /\ clock \in Time BY DEF TypeOK
<1>err. \A e \in Errors : Raised(e) \in Outcome BY OutcomeProperties DEF Outcome
<1>1. ASSUME NEW t \in Tasks, NEW p \in Pairs, Hit(t, p) PROVE TypeOK'
  <2>1. PICK i \in FreshSlots(cache, p, clock) :
          /\ cache' = MovedToEnd(cache, i)
          /\ ret' = [ret EXCEPT ![t] = Returned(cache[i].rate)]
    BY <1>1 DEF Hit
  <2>2. cache' \in Seq(Entry) BY <1>ty, <2>1, FreshIsCached, MovedToEndProperties
  <2>3. cache[i].rate \in Rate BY FreshIsCached DEF Entry
  <2>4. ret' \in [Tasks -> Outcome \cup {None}]
    BY <2>1, <2>3, OutcomeProperties DEF TypeOK, Outcome
  <2>5. QED BY <1>1, <2>2, <2>4 DEF Hit, TypeOK
<1>2. ASSUME NEW t \in Tasks, NEW p \in Pairs, Join(t, p) PROVE TypeOK'
  BY <1>2 DEF Join, Suspends, TypeOK
<1>3. ASSUME NEW t \in Tasks, NEW p \in Pairs, Lead(t, p) PROVE TypeOK'
  <2>1. Cached(cache, p) \subseteq Entry
    BY <1>ty, LenProperties, ElementOfSeq DEF Cached, Slots
  <2>2. QED BY <1>3, <2>1 DEF Lead, Suspends, TypeOK
<1>4. ASSUME NEW t \in Tasks, OwnerReturns(t) PROVE TypeOK'
  <2>1. PICK rate \in Quotable(pair[t], clock) :
          /\ cache' = Stored(cache, rate, clock)
          /\ Completes(t, Returned(rate), Returned(rate))
    BY <1>4 DEF OwnerReturns
  <2>2. pc[t] = "calling" /\ pair[t] \in Pairs BY <1>4 DEF OwnerReturns, TypeOK
  <2>3. rate \in Rate BY <1>ty, <2>2, QuotableProperties
  <2>4. Returned(rate) \in Outcome BY <2>3, OutcomeProperties DEF Outcome
  <2>5. cache' \in Seq(Entry) BY <1>ty, <2>1, <2>3, StoredProperties
  <2>6. QED BY <2>1, <2>2, <2>4, <2>5, CompletesTypes
<1>5. ASSUME NEW t \in Tasks, OwnerFails(t) PROVE TypeOK'
  <2>1. pc[t] = "calling" /\ cache' = cache BY <1>5 DEF OwnerFails
  <2>2. CASE Completes(t, Raised("ProviderError"), Raised("ProviderError"))
    BY <1>ty, <1>err, <2>1, <2>2, CompletesTypes DEF Errors
  <2>3. ASSUME NEW e \in Usable(stale[t], clock),
               Completes(t, Returned(MarkedStale(e.rate)), Returned(MarkedStale(e.rate)))
        PROVE  TypeOK'
    <3>1. Returned(MarkedStale(e.rate)) \in Outcome
      BY UsableIsRemembered, MarkedStaleProperties, OutcomeProperties DEF Outcome
    <3>2. QED BY <1>ty, <2>1, <2>3, <3>1, CompletesTypes
  <2>4. QED BY <1>5, <2>2, <2>3 DEF OwnerFails
<1>6. ASSUME NEW t \in Tasks, StaleMarkRaises(t) PROVE TypeOK'
  BY <1>6, <1>err DEF StaleMarkRaises, Waiters, TypeOK, Errors
<1>7. ASSUME NEW t \in Tasks, OwnerRaises(t) \/ OwnerCancelled(t) PROVE TypeOK'
  BY <1>7, <1>ty, <1>err, CompletesTypes DEF OwnerRaises, OwnerCancelled, Errors
<1>8. ASSUME NEW t \in Tasks, Resume(t) \/ WaiterCancelled(t) PROVE TypeOK'
  BY <1>8, <1>err DEF Resume, WaiterCancelled, TypeOK, Errors
<1>9. CASE Clear BY <1>9, EmptySeq DEF Clear, TypeOK
<1>10. CASE Tick
  <2>1. clock' \in Time BY <1>10, <1>ty, ConfigAssumption DEF Tick, Time, ConfigAssumption
  <2>2. QED BY <1>10, <2>1 DEF Tick, TypeOK
<1>11. CASE UNCHANGED vars BY <1>11 DEF vars, TypeOK
<1>12. QED
  BY <1>1, <1>2, <1>3, <1>4, <1>5, <1>6, <1>7, <1>8, <1>9, <1>10, <1>11
     DEF Next, Answered, Cancelled

--------------------------------------------------------------------------------
(***************************************************************************)
(* Who owns a Future, and who waits for it                                 *)
(***************************************************************************)

\* The registered Future of a pair is that of the one task fetching it.
Registered ==
  /\ \A t \in Tasks : pc[t] = "calling" => inflight[pair[t]] = t
  /\ \A p \in Pairs : inflight[p] # None =>
       pc[inflight[p]] = "calling" /\ pair[inflight[p]] = p

\* A task that waits for a Future waits for one of its own pair, whose owner is
\* at its await.
Joined ==
  \A w \in Tasks : joined[w] # None =>
    pc[w] = "waiting" /\ pc[joined[w]] = "calling" /\ pair[joined[w]] = pair[w]

Ownership == Registered /\ Joined

(* What is in the cache, and what the tasks remember of it. *)

\* The cache has one bounded place per pair and holds filed entries only.
CacheOK ==
  /\ UniqueKeys(cache) /\ Len(cache) <= MaxSize
  /\ \A e \in Entries(cache) : Filed(e)

\* What an owner remembers is for its pair, and is what the cache has for it.
SnapshotOK ==
  \A t \in Tasks :
    /\ \A e \in stale[t] : Filed(e) /\ e.pair = pair[t]
    /\ pc[t] # "calling" => stale[t] = {}
    /\ \A e \in Entries(cache) : pc[t] = "calling" /\ e.pair = pair[t] => stale[t] = {e}

Contents == CacheOK /\ SnapshotOK

\* Nobody is stranded who waits for a pair that is quoted directly.
Served ==
  \A w \in Tasks : pc[w] = "waiting" /\ pair[w] \notin DerivedPairs => joined[w] # None

IInv == TypeOK /\ Ownership /\ Contents /\ Served

\* What every end of an owner's await does: the owner is idle, its Future is
\* unregistered and nobody waits for it any more.
OwnerGoes(t) ==
  /\ pc[t] = "calling" /\ pc'[t] = "idle"
  /\ \A w \in Tasks \ {t} : pc'[w] = pc[w] \/ (w \in Waiters(t) /\ pc'[w] = "told")
  /\ inflight' = [inflight EXCEPT ![pair[t]] = None]
  /\ stale' = [stale EXCEPT ![t] = {}]
  /\ joined' = [w \in Tasks |-> IF w \in Waiters(t) THEN None ELSE joined[w]]
  /\ pair' = pair

\* An owner that completes its Future goes, and so does one that fails to.
LEMMA EndsOfOwners ==
  ASSUME TypeOK, NEW t \in Tasks, pc[t] = "calling"
  PROVE  /\ \A mine, told : Completes(t, mine, told) => OwnerGoes(t) /\ clock' = clock
         /\ StaleMarkRaises(t) => OwnerGoes(t)
<1>1. ASSUME NEW mine, NEW told, Completes(t, mine, told)
      PROVE  OwnerGoes(t) /\ clock' = clock
  BY <1>1 DEF Completes, OwnerGoes, TypeOK
<1>2. ASSUME StaleMarkRaises(t) PROVE OwnerGoes(t)
  BY <1>2 DEF StaleMarkRaises, OwnerGoes, TypeOK
<1>3. QED BY <1>1, <1>2

\* The actions by which an owner goes, and what they do to the cache.
LEMMA OwnersGo ==
  ASSUME TypeOK, UniqueKeys(cache), CacheOK, NEW t \in Tasks,
         \/ OwnerReturns(t) \/ OwnerFails(t) \/ StaleMarkRaises(t)
         \/ OwnerRaises(t) \/ OwnerCancelled(t)
  PROVE  /\ OwnerGoes(t)
         /\ CacheOK'
         /\ \A e \in Entries(cache') : e.pair # pair[t] => e \in Entries(cache)
<1>1. pc[t] = "calling" /\ pair[t] \in Pairs /\ clock \in Time /\ cache \in Seq(Entry)
  BY DEF OwnerReturns, OwnerFails, StaleMarkRaises, OwnerRaises, OwnerCancelled, TypeOK
<1>2. ASSUME ~OwnerReturns(t) PROVE OwnerGoes(t) /\ cache' = cache
  BY <1>1, <1>2, EndsOfOwners
     DEF OwnerFails, StaleMarkRaises, OwnerRaises, OwnerCancelled
<1>3. CASE OwnerReturns(t)
  <2>1. PICK rate \in Quotable(pair[t], clock) :
          /\ cache' = Stored(cache, rate, clock)
          /\ Completes(t, Returned(rate), Returned(rate))
    BY <1>3 DEF OwnerReturns
  <2> DEFINE new == [pair |-> rate.pair, expires |-> clock + Ttl, rate |-> rate]
  <2>2. rate \in Rate /\ rate.pair = pair[t] /\ Filed(new)
    BY <1>1, QuotableProperties DEF Filed, RateFor
  <2>3. /\ Len(cache') <= MaxSize /\ UniqueKeys(cache')
        /\ \A e \in Entries(cache') : e = new \/ (e \in Entries(cache) /\ e.pair # pair[t])
    BY <1>1, <2>1, <2>2, StoredProperties
  <2>4. CacheOK' BY <2>2, <2>3 DEF CacheOK
  <2>5. OwnerGoes(t) BY <1>1, <2>1, EndsOfOwners
  <2>6. QED BY <2>2, <2>3, <2>4, <2>5
<1>4. QED BY <1>2, <1>3 DEF CacheOK

--------------------------------------------------------------------------------
\* Nobody owns anything at first, and the cache is empty.
LEMMA InitInv == Init => IInv
<1> SUFFICES ASSUME Init PROVE IInv OBVIOUS
<1>1. Ownership BY DEF Init, Ownership, Registered, Joined
<1>2. Contents
  BY ConfigAssumption DEF ConfigAssumption, Init, Contents, CacheOK, UniqueKeys, Entries, SnapshotOK
<1>3. Served BY DEF Init, Served
<1>4. QED BY <1>1, <1>2, <1>3, InitTypes DEF IInv

\* Every step keeps the Futures with their owners and their waiters.
LEMMA StepOwnership == IInv /\ [Next]_vars => Ownership'
<1> SUFFICES ASSUME IInv, [Next]_vars PROVE Ownership' OBVIOUS
<1>inv. TypeOK /\ Registered /\ Joined /\ CacheOK /\ UniqueKeys(cache)
  BY DEF IInv, Ownership, Contents, CacheOK
<1> USE NoneIsNoOutcome
<1>1. ASSUME NEW t \in Tasks, NEW p \in Pairs, Hit(t, p) PROVE Ownership'
  <2> USE <1>1, <1>inv DEF Hit, TypeOK
  <2>1. Registered' BY DEF Registered
  <2>2. Joined' BY DEF Joined
  <2>3. QED BY <2>1, <2>2 DEF Ownership
<1>2. ASSUME NEW t \in Tasks, NEW p \in Pairs, Join(t, p) PROVE Ownership'
  <2> USE <1>2, <1>inv DEF Join, Suspends, TypeOK
  <2>1. Registered' BY DEF Registered
  <2>2. pc[inflight[p]] = "calling" /\ pair[inflight[p]] = p BY DEF Registered
  <2>3. Joined' BY <2>2 DEF Joined
  <2>4. QED BY <2>1, <2>3 DEF Ownership
<1>3. ASSUME NEW t \in Tasks, NEW p \in Pairs, Lead(t, p) PROVE Ownership'
  <2> USE <1>3, <1>inv DEF Lead, Suspends, TypeOK
  <2>1. Registered' BY DEF Registered
  <2>2. Joined' BY DEF Joined
  <2>3. QED BY <2>1, <2>2 DEF Ownership
<1>4. ASSUME NEW t \in Tasks, OwnerGoes(t) PROVE Ownership'
  <2> USE <1>4, <1>inv DEF OwnerGoes, Waiters, TypeOK
  <2>1. Registered'
    <3>1. ASSUME NEW u \in Tasks, pc'[u] = "calling" PROVE inflight'[pair'[u]] = u
      <4>1. u # t /\ pc[u] = "calling" BY <3>1
      <4>2. pair[u] # pair[t] BY <4>1 DEF Registered
      <4>3. QED BY <4>1, <4>2 DEF Registered
    <3>2. ASSUME NEW p \in Pairs, inflight'[p] # None
          PROVE  pc'[inflight'[p]] = "calling" /\ pair'[inflight'[p]] = p
      BY <3>2 DEF Registered
    <3>3. QED BY <3>1, <3>2 DEF Registered
  <2>2. Joined' BY DEF Joined
  <2>3. QED BY <2>1, <2>2 DEF Ownership
<1>5. ASSUME NEW t \in Tasks, Resume(t) \/ WaiterCancelled(t) PROVE Ownership'
  <2> USE <1>5, <1>inv DEF Resume, WaiterCancelled, TypeOK
  <2>1. Registered' BY DEF Registered
  <2>2. Joined' BY DEF Joined
  <2>3. QED BY <2>1, <2>2 DEF Ownership
<1>6. CASE Clear \/ Tick \/ UNCHANGED vars
  BY <1>6, <1>inv DEF Clear, Tick, vars, Ownership, Registered, Joined
<1>7. QED
  BY <1>inv, <1>1, <1>2, <1>3, <1>4, <1>5, <1>6, OwnersGo DEF Next, Answered, Cancelled

\* Every step keeps the cache in order, and what owners remember of it true.
LEMMA StepContents == IInv /\ [Next]_vars => Contents'
<1> SUFFICES ASSUME IInv, [Next]_vars PROVE Contents' OBVIOUS
<1>inv. TypeOK /\ Registered /\ CacheOK /\ SnapshotOK /\ UniqueKeys(cache)
  BY DEF IInv, Ownership, Contents, CacheOK
<1>1. ASSUME NEW t \in Tasks, NEW p \in Pairs, Hit(t, p) PROVE Contents'
  <2>1. PICK i \in FreshSlots(cache, p, clock) : cache' = MovedToEnd(cache, i)
    BY <1>1 DEF Hit
  <2>2. /\ Entries(cache') = Entries(cache) /\ UniqueKeys(cache')
        /\ Len(cache') = Len(cache)
    BY <1>inv, <2>1, FreshIsCached, HitKeepsEntries, MovedToEndProperties DEF TypeOK
  <2>3. CacheOK' BY <1>inv, <2>2 DEF CacheOK
  <2>4. SnapshotOK' BY <1>1, <1>inv, <2>2 DEF Hit, SnapshotOK, TypeOK
  <2>5. QED BY <2>3, <2>4 DEF Contents
<1>2. ASSUME NEW t \in Tasks, NEW p \in Pairs, Join(t, p) PROVE Contents'
  <2> USE <1>2, <1>inv DEF Join, Suspends, TypeOK
  <2>1. CacheOK' BY DEF CacheOK
  <2>2. SnapshotOK' BY DEF SnapshotOK
  <2>3. QED BY <2>1, <2>2 DEF Contents
<1>3. ASSUME NEW t \in Tasks, NEW p \in Pairs, Lead(t, p) PROVE Contents'
  <2> USE <1>3, <1>inv DEF Lead, Suspends, TypeOK
  <2>1. CacheOK' BY DEF CacheOK
  <2>2. /\ Cached(cache, p) \subseteq Entries(cache)
        /\ \A e \in Cached(cache, p) : e.pair = p
        /\ \A e \in Entries(cache) : e.pair = p => Cached(cache, p) = {e}
    BY CachedProperties
  <2>3. SnapshotOK' BY <2>2 DEF SnapshotOK, CacheOK
  <2>4. QED BY <2>1, <2>3 DEF Contents
<1>4. ASSUME NEW t \in Tasks, OwnerGoes(t), CacheOK',
             \A e \in Entries(cache') : e.pair # pair[t] => e \in Entries(cache)
      PROVE  Contents'
  <2> USE <1>4, <1>inv DEF OwnerGoes, Waiters, TypeOK
  <2>1. ASSUME NEW u \in Tasks, NEW e \in Entries(cache'),
               pc'[u] = "calling", e.pair = pair'[u]
        PROVE  stale'[u] = {e}
    <3>1. u # t /\ pc[u] = "calling" BY <2>1
    <3>2. pair[u] # pair[t] BY <3>1 DEF Registered
    <3>3. QED BY <2>1, <3>1, <3>2 DEF SnapshotOK
  <2>2. SnapshotOK' BY <2>1 DEF SnapshotOK
  <2>3. QED BY <2>2 DEF Contents
<1>5. ASSUME NEW t \in Tasks, Resume(t) \/ WaiterCancelled(t) PROVE Contents'
  <2> USE <1>5, <1>inv DEF Resume, WaiterCancelled, TypeOK
  <2>1. CacheOK' BY DEF CacheOK
  <2>2. SnapshotOK' BY DEF SnapshotOK
  <2>3. QED BY <2>1, <2>2 DEF Contents
<1>6. CASE Clear
  <2>1. Entries(cache') = {} /\ UniqueKeys(cache') /\ Len(cache') = 0
    BY <1>6, EmptySeq DEF Clear, Entries, UniqueKeys
  <2>2. CacheOK' BY <2>1, ConfigAssumption DEF CacheOK, ConfigAssumption
  <2>3. SnapshotOK' BY <1>6, <1>inv, <2>1 DEF Clear, SnapshotOK
  <2>4. QED BY <2>2, <2>3 DEF Contents
<1>7. CASE Tick \/ UNCHANGED vars
  BY <1>7, <1>inv DEF Tick, vars, Contents, CacheOK, SnapshotOK
<1>8. QED
  BY <1>inv, <1>1, <1>2, <1>3, <1>4, <1>5, <1>6, <1>7, OwnersGo
     DEF Next, Answered, Cancelled

\* Every step serves the tasks of directly quoted pairs: a quote of theirs is
\* never derived, so marking it cannot raise.
LEMMA StepServed == IInv /\ [Next]_vars => Served'
<1> SUFFICES ASSUME IInv, [Next]_vars PROVE Served' OBVIOUS
<1>inv. TypeOK /\ Registered /\ Joined /\ SnapshotOK /\ Served
  BY DEF IInv, Ownership, Contents
<1> USE NoneIsNoOutcome
<1>1. ASSUME NEW t \in Tasks, NEW p \in Pairs, Hit(t, p) \/ Join(t, p) \/ Lead(t, p)
      PROVE  Served'
  BY <1>1, <1>inv DEF Hit, Join, Lead, Suspends, TypeOK, Served
<1>2. ASSUME NEW t \in Tasks, NEW mine, NEW told, pc[t] = "calling",
             Completes(t, mine, told)
      PROVE  Served'
  BY <1>2, <1>inv DEF Completes, Waiters, TypeOK, Served
<1>3. ASSUME NEW t \in Tasks, StaleMarkRaises(t) PROVE Served'
  <2>1. PICK e \in Usable(stale[t], clock) : e.rate.derived
    BY <1>3 DEF StaleMarkRaises, CanMarkStale
  <2>2. pair[t] \in DerivedPairs
    BY <1>inv, <2>1 DEF SnapshotOK, Usable, Filed, RateFor
  <2>3. \A w \in Waiters(t) : pair[w] \in DerivedPairs
    BY <1>inv, <2>2 DEF Waiters, Joined
  <2>4. QED BY <1>3, <1>inv, <2>3 DEF StaleMarkRaises, Waiters, TypeOK, Served
<1>4. ASSUME NEW t \in Tasks, Resume(t) \/ WaiterCancelled(t) PROVE Served'
  BY <1>4, <1>inv DEF Resume, WaiterCancelled, TypeOK, Served
<1>5. CASE Clear \/ Tick \/ UNCHANGED vars
  BY <1>5, <1>inv DEF Clear, Tick, vars, Served
<1>6. QED
  BY <1>1, <1>2, <1>3, <1>4, <1>5
     DEF Next, Answered, Cancelled, OwnerReturns, OwnerFails, OwnerRaises, OwnerCancelled

\* The parts together are an invariant of the cache.
LEMMA Invariance == Spec => []IInv
<1>1. IInv /\ [Next]_vars => IInv'
  BY StepTypes, StepOwnership, StepContents, StepServed DEF IInv, Contents, CacheOK
<1>2. QED BY <1>1, InitInv, PTL DEF Spec

--------------------------------------------------------------------------------
(***************************************************************************)
(* The theorems                                                            *)
(***************************************************************************)

\* Every variable keeps its type, and a suspended task has a pair.
THEOREM TypeCorrect == Spec => []TypeOK
<1>1. IInv => TypeOK BY DEF IInv
<1>2. QED BY <1>1, Invariance, PTL

\* However many tasks call, and whoever is cancelled at whichever await: one
\* task at a time awaits the provider for a pair, what it remembers is what the
\* cache holds when it comes back, tasks waiting for a directly quoted pair have
\* an owner at work, and the cache stays bounded and free of fallbacks.
THEOREM CacheStaysSound == Spec => []CacheIsSound
<1>1. ASSUME IInv PROVE SingleFlight
  BY <1>1 DEF IInv, Ownership, Registered, SingleFlight
<1>2. ASSUME IInv PROVE DirectPairsNeverStrand
  <2> SUFFICES ASSUME NEW w \in Tasks, pc[w] = "waiting", pair[w] \notin DerivedPairs
               PROVE  Led(w)
    BY DEF DirectPairsNeverStrand
  <2>1. joined[w] # None /\ joined[w] \in Tasks BY <1>2 DEF IInv, Served, TypeOK
  <2>2. pc[joined[w]] = "calling" /\ pair[joined[w]] = pair[w]
    BY <1>2, <2>1 DEF IInv, Ownership, Joined
  <2>3. QED BY <2>1, <2>2 DEF Led
<1>3. ASSUME IInv PROVE SnapshotIsCurrent
  BY <1>3 DEF IInv, Contents, SnapshotOK, SnapshotIsCurrent, Slots, Entries
<1>4. ASSUME IInv PROVE CacheWellFormed
  BY <1>4 DEF IInv, Contents, CacheOK, UniqueKeys, Entries, Filed, RateFor, CacheWellFormed
<1>5. IInv => CacheIsSound BY <1>1, <1>2, <1>3, <1>4 DEF CacheIsSound
<1>6. QED BY <1>5, Invariance, PTL

\* An outcome with which a waiter is told of a cancellation is the cancellation
\* of the owner: no other end of a fetch has it.
THEOREM CancellationsComeFromOwners == Spec => CancellationComesFromOwner
<1> DEFINE FromOwner ==
      \A w \in Tasks :
        /\ pc[w] = "waiting" /\ pc'[w] = "told"
        /\ ret'[w] = Raised("CancelledError")
        => \E t \in Tasks : /\ joined[w] = t /\ pc[t] = "calling"
                            /\ pc'[t] = "idle" /\ ret'[t] = ret'[w]
<1>1. IInv /\ [Next]_vars => FromOwner
  <2> SUFFICES ASSUME TypeOK, [Next]_vars,
                      NEW w \in Tasks, pc[w] = "waiting", pc'[w] = "told",
                      ret'[w] = Raised("CancelledError")
               PROVE  \E t \in Tasks : /\ joined[w] = t /\ pc[t] = "calling"
                                       /\ pc'[t] = "idle" /\ ret'[t] = ret'[w]
    BY DEF IInv
  <2>1. ~(Clear \/ Tick \/ UNCHANGED vars) BY DEF Clear, Tick, vars
  <2>2. PICK t \in Tasks :
          \/ \E p \in Pairs : Hit(t, p) \/ Join(t, p) \/ Lead(t, p)
          \/ Answered(t) \/ Cancelled(t)
    BY <2>1 DEF Next
  <2>3. ~\E p \in Pairs : Hit(t, p) \/ Join(t, p) \/ Lead(t, p)
    BY DEF Hit, Join, Lead, Suspends, TypeOK
  <2>4. ~(Resume(t) \/ WaiterCancelled(t) \/ StaleMarkRaises(t))
    BY DEF Resume, WaiterCancelled, StaleMarkRaises, TypeOK
  <2>5. /\ pc[t] = "calling"
        /\ OwnerReturns(t) \/ OwnerFails(t) \/ OwnerRaises(t) \/ OwnerCancelled(t)
    BY <2>2, <2>3, <2>4
       DEF Answered, Cancelled, OwnerReturns, OwnerFails, OwnerRaises, OwnerCancelled
  <2>6. PICK o : Completes(t, o, o)
    BY <2>5 DEF OwnerReturns, OwnerFails, OwnerRaises, OwnerCancelled
  <2>7. w \in Waiters(t) BY <2>5, <2>6 DEF Completes, TypeOK
  <2>8. ret'[w] = o /\ ret'[t] = o /\ pc'[t] = "idle"
    BY <2>5, <2>6, <2>7 DEF Completes, TypeOK
  <2>9. QED BY <2>5, <2>7, <2>8 DEF Waiters
<1>2. QED BY <1>1, Invariance, PTL DEF Spec, CancellationComesFromOwner

--------------------------------------------------------------------------------
(***************************************************************************)
(* The event loop, the shielded Futures and cancellation implement         *)
(* CoalescedCalls: every step is a step of the abstract calls, or none.    *)
(***************************************************************************)

\* What a caller of get_rate can see of a task.
View(t) == <<PhaseOf(t), IF pc[t] = "idle" THEN None ELSE pair[t], ret[t]>>

\* A step that changes what is seen of one task only moves that caller.
LEMMA OneGoes ==
  ASSUME TypeOK, TypeOK', NEW t \in Tasks, NEW from, NEW to, NEW p, NEW o,
         PhaseOf(t) \in from, View(t)' = <<to, p, o>>,
         \A u \in Tasks \ {t} : View(u)' = View(u)
  PROVE  Promised!Goes(t, from, to, p, o)
BY DEF View, TypeOK, Promised!Goes

\* Nothing new is seen of the tasks whose own variables do not change.
LEMMA OthersUnseen ==
  ASSUME NEW S, \A u \in S : /\ pc'[u] = pc[u] /\ pair'[u] = pair[u]
                             /\ ret'[u] = ret[u] /\ joined'[u] = joined[u]
  PROVE  \A u \in S : View(u)' = View(u)
<1> SUFFICES ASSUME NEW u \in S PROVE View(u)' = View(u) OBVIOUS
<1>1. PhaseOf(u)' = PhaseOf(u) BY DEF PhaseOf
<1>2. QED BY <1>1 DEF View

\* What is seen of a task follows from where it is, also after a step.
LEMMA Seen ==
  ASSUME NEW t \in Tasks
  PROVE  /\ pc[t] = "idle" => View(t) = <<"idle", None, ret[t]>>
         /\ pc[t] = "calling" => View(t) = <<"leading", pair[t], ret[t]>>
         /\ pc[t] = "told" => View(t) = <<"told", pair[t], ret[t]>>
         /\ pc[t] = "waiting" /\ joined[t] # None =>
              View(t) = <<"following", pair[t], ret[t]>>
         /\ pc[t] = "waiting" /\ joined[t] = None =>
              View(t) = <<"deserted", pair[t], ret[t]>>
BY DEF View, PhaseOf

\* The same of what is seen after a step.
LEMMA SeenNext ==
  ASSUME NEW t \in Tasks
  PROVE  /\ pc'[t] = "idle" => View(t)' = <<"idle", None, ret'[t]>>
         /\ pc'[t] = "calling" => View(t)' = <<"leading", pair'[t], ret'[t]>>
         /\ pc'[t] = "told" => View(t)' = <<"told", pair'[t], ret'[t]>>
         /\ pc'[t] = "waiting" /\ joined'[t] # None =>
              View(t)' = <<"following", pair'[t], ret'[t]>>
         /\ pc'[t] = "waiting" /\ joined'[t] = None =>
              View(t)' = <<"deserted", pair'[t], ret'[t]>>
BY DEF View, PhaseOf

\* The followers of a pair are those who wait for the Future of its owner.
LEMMA FollowersAreWaiters ==
  ASSUME TypeOK, Ownership, NEW t \in Tasks, pc[t] = "calling"
  PROVE  Promised!Busy(pair[t], {"following"}) = Waiters(t)
<1>1. ASSUME NEW w \in Tasks
      PROVE  PhaseOf(w) = "following" <=> pc[w] = "waiting" /\ joined[w] # None
  BY DEF PhaseOf, TypeOK
<1>2. ASSUME NEW w \in Tasks, pc[w] = "waiting", joined[w] # None
      PROVE  pair[w] = pair[t] <=> joined[w] = t
  <2>1. joined[w] \in Tasks /\ pc[joined[w]] = "calling" /\ pair[joined[w]] = pair[w]
    BY <1>2 DEF TypeOK, Ownership, Joined
  <2>2. inflight[pair[joined[w]]] = joined[w] /\ inflight[pair[t]] = t
    BY <2>1 DEF Ownership, Registered
  <2>3. QED BY <2>1, <2>2
<1>3. QED BY <1>1, <1>2, NoneIsNoOutcome DEF Promised!Busy, Waiters

\* An owner that completes its Future settles the fetch and is gone at once.
LEMMA CompletingSettles ==
  ASSUME TypeOK, Ownership, NEW t \in Tasks, pc[t] = "calling",
         NEW o, Completes(t, o, o)
  PROVE  Promised!Settle(t, o)
<1> DEFINE W == Waiters(t)
<1>1. Promised!Busy(pair[t], {"following"}) = W BY FollowersAreWaiters
<1>2. View(t) = <<"leading", pair[t], ret[t]>> /\ t \notin W BY Seen DEF Waiters
<1>3. View(t)' = <<"idle", None, o>> BY SeenNext DEF Completes, TypeOK
<1>4. \A w \in W : View(w) = <<"following", pair[w], ret[w]>>
  BY Seen, NoneIsNoOutcome DEF Waiters
<1>5. \A w \in W : View(w)' = <<"told", pair[w], o>>
  BY <1>2, SeenNext DEF Completes, Waiters, TypeOK
<1>6. \A u \in Tasks \ (W \cup {t}) : View(u)' = View(u)
  BY OthersUnseen DEF Completes, TypeOK
<1>7. QED
  BY <1>1, <1>2, <1>3, <1>4, <1>5, <1>6 DEF Completes, Promised!Settle, View, Waiters

\* An owner that cannot mark its quote deserts the fetch: only a derived quote
\* cannot be marked.
LEMMA MarkFailureDeserts ==
  ASSUME TypeOK, Ownership, SnapshotOK, NEW t \in Tasks, StaleMarkRaises(t)
  PROVE  Promised!Desert(t, Raised("InvalidRateError"))
<1> DEFINE W == Waiters(t)
<1>1. pc[t] = "calling" BY DEF StaleMarkRaises
<1>2. pair[t] \in DerivedPairs
  <2>1. PICK e \in Usable(stale[t], clock) : e.rate.derived
    BY DEF StaleMarkRaises, CanMarkStale
  <2>2. QED BY <2>1 DEF SnapshotOK, Usable, Filed, RateFor
<1>3. Promised!Busy(pair[t], {"following"}) = W BY <1>1, FollowersAreWaiters
<1>4. View(t) = <<"leading", pair[t], ret[t]>> /\ t \notin W BY <1>1, Seen DEF Waiters
<1>5. View(t)' = <<"idle", None, Raised("InvalidRateError")>>
  BY SeenNext DEF StaleMarkRaises, TypeOK
<1>6. \A w \in W : View(w) = <<"following", pair[w], ret[w]>>
  BY Seen, NoneIsNoOutcome DEF Waiters
<1>7. \A w \in W : View(w)' = <<"deserted", pair[w], ret[w]>>
  BY <1>4, SeenNext DEF StaleMarkRaises, Waiters, TypeOK
<1>8. \A u \in Tasks \ (W \cup {t}) : View(u)' = View(u)
  BY OthersUnseen DEF StaleMarkRaises, TypeOK
<1>9. ret' = [ret EXCEPT ![t] = Raised("InvalidRateError")] BY DEF StaleMarkRaises
<1>10. QED
  BY <1>2, <1>3, <1>4, <1>5, <1>6, <1>7, <1>8, <1>9 DEF Promised!Desert, View, Waiters

\* The initial states of the cache are initial states of coalesced calls.
LEMMA InitRefines == Init => Promised!Init
BY DEF Init, PhaseOf, Promised!Init

\* Every step of the cache is a step of coalesced calls, or changes nothing in
\* what is seen of the tasks.
LEMMA StepRefines == IInv /\ [Next]_vars => [Promised!Next]_(Promised!callVars)
<1> SUFFICES ASSUME IInv, [Next]_vars PROVE [Promised!Next]_(Promised!callVars)
  OBVIOUS
<1>inv. TypeOK /\ TypeOK' /\ Ownership /\ SnapshotOK
  BY StepTypes DEF IInv, Contents, CacheOK
<1> USE NoneIsNoOutcome
<1>1. ASSUME NEW t \in Tasks, NEW p \in Pairs, Hit(t, p) PROVE Promised!Next
  <2>1. PICK q \in RateOutcome : ret' = [ret EXCEPT ![t] = q]
    <3>1. \A i \in FreshSlots(cache, p, clock) : Returned(cache[i].rate) \in RateOutcome
      BY <1>inv, FreshIsCached, OutcomeProperties DEF Entry
    <3>2. QED BY <1>1, <3>1 DEF Hit
  <2>2. PhaseOf(t) \in {"idle"} BY <1>1 DEF Hit, PhaseOf
  <2>3. View(t)' = <<"idle", None, q>> BY <1>1, <1>inv, <2>1, SeenNext DEF Hit, TypeOK
  <2>4. \A u \in Tasks \ {t} : View(u)' = View(u)
    BY <1>1, <1>inv, <2>1, OthersUnseen DEF Hit, TypeOK
  <2>5. Promised!Recall(t, q)
    BY <1>inv, <2>2, <2>3, <2>4, OneGoes DEF Promised!Recall
  <2>6. QED BY <2>5 DEF Promised!Next
<1>2. ASSUME NEW t \in Tasks, NEW p \in Pairs, Join(t, p) PROVE Promised!Next
  <2> DEFINE u == inflight[p]
  <2>1. u \in Tasks /\ pc[u] = "calling" /\ pair[u] = p
    BY <1>2, <1>inv DEF Join, TypeOK, Ownership, Registered
  <2>2. u \in Promised!Busy(p, {"leading"}) BY <2>1 DEF Promised!Busy, PhaseOf
  <2>3. PhaseOf(t) \in {"idle"} BY <1>2 DEF Join, Suspends, PhaseOf
  <2>4. pc'[t] = "waiting" /\ joined'[t] # None /\ pair'[t] = p /\ ret'[t] = None
    BY <1>2, <1>inv DEF Join, Suspends, TypeOK
  <2>5. View(t)' = <<"following", p, None>> BY <2>4, SeenNext
  <2>6. \A v \in Tasks \ {t} : View(v)' = View(v)
    BY <1>2, <1>inv, OthersUnseen DEF Join, Suspends, TypeOK
  <2>7. Promised!Follow(t, p)
    BY <1>inv, <2>2, <2>3, <2>5, <2>6, OneGoes DEF Promised!Follow
  <2>8. QED BY <2>7 DEF Promised!Next
<1>3. ASSUME NEW t \in Tasks, NEW p \in Pairs, Lead(t, p) PROVE Promised!Next
  <2>1. Promised!Busy(p, {"leading", "settled"}) = {}
    BY <1>3, <1>inv
       DEF Lead, Promised!Busy, PhaseOf, TypeOK, Ownership, Registered
  <2>2. PhaseOf(t) \in {"idle"} BY <1>3 DEF Lead, Suspends, PhaseOf
  <2>3. View(t)' = <<"leading", p, None>>
    BY <1>3, <1>inv, SeenNext DEF Lead, Suspends, TypeOK
  <2>4. \A v \in Tasks \ {t} : View(v)' = View(v)
    BY <1>3, <1>inv, OthersUnseen DEF Lead, Suspends, TypeOK
  <2>5. Promised!Lead(t, p) BY <1>inv, <2>1, <2>2, <2>3, <2>4, OneGoes DEF Promised!Lead
  <2>6. QED BY <2>5 DEF Promised!Next
<1>4. ASSUME NEW t \in Tasks,
             OwnerReturns(t) \/ OwnerFails(t) \/ OwnerRaises(t) \/ OwnerCancelled(t)
      PROVE  Promised!Next
  <2>1. pc[t] = "calling" /\ pair[t] \in Pairs /\ clock \in Time
    BY <1>4, <1>inv DEF OwnerReturns, OwnerFails, OwnerRaises, OwnerCancelled, TypeOK
  <2>2. PICK o \in RateOutcome \cup ErrorOutcome : Completes(t, o, o)
    <3>1. \A rate \in Quotable(pair[t], clock) : Returned(rate) \in RateOutcome
      BY <2>1, QuotableProperties, OutcomeProperties
    <3>2. \A e \in Usable(stale[t], clock) : Returned(MarkedStale(e.rate)) \in RateOutcome
      BY <1>inv, UsableIsRemembered, MarkedStaleProperties, OutcomeProperties
    <3>3. \A e \in {"ProviderError", "OtherError", "CancelledError"} :
            Raised(e) \in ErrorOutcome
      BY OutcomeProperties DEF Errors
    <3>4. QED
      BY <1>4, <3>1, <3>2, <3>3 DEF OwnerReturns, OwnerFails, OwnerRaises, OwnerCancelled
  <2>3. Promised!Settle(t, o) BY <1>inv, <2>1, <2>2, CompletingSettles
  <2>4. QED BY <2>3 DEF Promised!Next
<1>5. ASSUME NEW t \in Tasks, StaleMarkRaises(t) PROVE Promised!Next
  <2>1. Raised("InvalidRateError") \in ErrorOutcome BY OutcomeProperties DEF Errors
  <2>2. QED BY <1>5, <1>inv, <2>1, MarkFailureDeserts DEF Promised!Next
<1>6. ASSUME NEW t \in Tasks, Resume(t) PROVE Promised!Next
  <2>1. PhaseOf(t) \in {"settled", "told"} BY <1>6 DEF Resume, PhaseOf
  <2>2. View(t)' = <<"idle", None, ret[t]>> BY <1>6, <1>inv, SeenNext DEF Resume, TypeOK
  <2>3. \A u \in Tasks \ {t} : View(u)' = View(u)
    BY <1>6, <1>inv, OthersUnseen DEF Resume, TypeOK
  <2>4. ret' = [ret EXCEPT ![t] = ret[t]] BY <1>6, <1>inv DEF Resume, TypeOK
  <2>5. Promised!Leave(t)
    BY <2>1, <2>2, <2>3, <2>4 DEF View, Promised!Leave, Promised!Goes
  <2>6. QED BY <2>5 DEF Promised!Next
<1>7. ASSUME NEW t \in Tasks, WaiterCancelled(t) PROVE Promised!Next
  <2> DEFINE i == Raised("CancelledError")
  <2>1. PhaseOf(t) \in {"following", "told", "deserted"}
    BY <1>7 DEF WaiterCancelled, PhaseOf
  <2>2. View(t)' = <<"idle", None, i>>
    BY <1>7, <1>inv, SeenNext DEF WaiterCancelled, TypeOK
  <2>3. \A u \in Tasks \ {t} : View(u)' = View(u)
    BY <1>7, <1>inv, OthersUnseen DEF WaiterCancelled, TypeOK
  <2>4. Promised!Abandon(t, i) BY <1>inv, <2>1, <2>2, <2>3, OneGoes DEF Promised!Abandon
  <2>5. QED BY <2>4 DEF Promised!Next
<1>8. CASE Clear \/ Tick \/ UNCHANGED vars
  <2>1. \A u \in Tasks : View(u)' = View(u)
    BY <1>8 DEF Clear, Tick, vars, View, PhaseOf
  <2>2. ret' = ret BY <1>8 DEF Clear, Tick, vars
  <2>3. UNCHANGED Promised!callVars BY <2>1, <2>2 DEF View, Promised!callVars
  <2>4. QED BY <2>3
<1>9. QED
  BY <1>1, <1>2, <1>3, <1>4, <1>5, <1>6, <1>7, <1>8 DEF Next, Answered, Cancelled

\* The asyncio cache implements coalesced calls, with the cancellation of a
\* waiter as their only interruption.
THEOREM CacheRefinesCoalescedCalls == Spec => RefinesCoalescedCalls
BY InitRefines, StepRefines, Invariance, PTL
   DEF Spec, RefinesCoalescedCalls, Promised!Spec

\* However tasks are cancelled, a task that waits for a pending Future has its
\* owner at work.
THEOREM FollowersAlwaysLed == Spec => []Promised!FollowersAreLed
<1>1. IInv => Promised!FollowersAreLed
  <2> SUFFICES ASSUME IInv, NEW w \in Tasks, PhaseOf(w) = "following"
               PROVE  Promised!Busy(IF pc[w] = "idle" THEN None ELSE pair[w], {"leading"}) # {}
    BY DEF Promised!FollowersAreLed
  <2>1. pc[w] = "waiting" /\ joined[w] # None BY DEF IInv, TypeOK, PhaseOf
  <2>2. PICK t \in Tasks : pc[t] = "calling" /\ pair[t] = pair[w]
    BY <2>1 DEF IInv, TypeOK, Ownership, Joined
  <2>3. PhaseOf(t) = "leading" BY <2>2 DEF PhaseOf
  <2>4. QED BY <2>1, <2>2, <2>3 DEF Promised!Busy
<1>2. QED BY <1>1, Invariance, PTL

\* ... and no two tasks own the Future of one pair.
THEOREM LeadersAreUnique == Spec => []Promised!OneLeader
<1>1. IInv => Promised!OneLeader
  <2> SUFFICES ASSUME IInv, NEW t \in Tasks, NEW u \in Tasks,
                      {PhaseOf(t), PhaseOf(u)} \subseteq {"leading", "settled"},
                      (IF pc[t] = "idle" THEN None ELSE pair[t]) =
                        IF pc[u] = "idle" THEN None ELSE pair[u]
               PROVE  t = u
    BY DEF Promised!OneLeader
  <2>1. ASSUME NEW v \in {t, u} PROVE pc[v] = "calling"
    BY <2>1 DEF IInv, TypeOK, PhaseOf
  <2>2. QED BY <2>1 DEF IInv, Ownership, Registered
<1>2. QED BY <1>1, Invariance, PTL

================================================================================
