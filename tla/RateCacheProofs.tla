---------------------------- MODULE RateCacheProofs ----------------------------
(***************************************************************************)
(* Proofs about RateCache, for any number of threads and pairs, any ttl,   *)
(* size and stale window, and a clock that runs to any bound.              *)
(***************************************************************************)
EXTENDS RateCache, QuoteCacheProofs

--------------------------------------------------------------------------------
(***************************************************************************)
(* Outcomes                                                                *)
(***************************************************************************)

\* No value is not an outcome, so a completed Future can be told from a pending
\* one.
LEMMA NoneIsNoOutcome == None \notin Outcome /\ None \notin Pairs /\ None \notin Threads
BY NoneAssumption, ThreadsAssumption DEF NoneAssumption, ThreadsAssumption

\* A fresh entry is one of the cache.
LEMMA FreshIsCached ==
  ASSUME TypeOK, NEW t \in Threads, NEW i \in Fresh(t)
  PROVE  i \in 1 .. Len(cache) /\ cache[i] \in Entry /\ cache[i].pair = pair[t]
BY LenProperties, ElementOfSeq DEF TypeOK, Fresh, FreshSlots, Slots

--------------------------------------------------------------------------------
(***************************************************************************)
(* Types                                                                   *)
(***************************************************************************)

\* At first every variable has its type.
LEMMA InitTypes == Init => TypeOK
<1> SUFFICES ASSUME Init PROVE TypeOK OBVIOUS
<1>1. cache \in Seq(Entry) BY EmptySeq DEF Init
<1>2. clock \in Time BY ConfigAssumption DEF Init, Time, ConfigAssumption
<1>3. now \in [Threads -> Time] BY ConfigAssumption DEF Init, Time, ConfigAssumption
<1>4. QED BY <1>1, <1>2, <1>3 DEF Init, TypeOK, PCs, Owning

\* Every step keeps the types.
LEMMA StepTypes == TypeOK /\ UniqueKeys(cache) /\ [Next]_vars => TypeOK'
<1> SUFFICES ASSUME TypeOK, UniqueKeys(cache), [Next]_vars PROVE TypeOK' OBVIOUS
<1> USE DEF PCs, Owning
<1>1. ASSUME NEW t \in Threads, NEW p \in Pairs, Call(t, p) PROVE TypeOK'
  BY <1>1 DEF Call, TypeOK
<1>2. ASSUME NEW t \in Threads, Hit(t) PROVE TypeOK'
  <2>1. PICK i \in Fresh(t) :
          /\ cache' = MovedToEnd(cache, i)
          /\ ret' = [ret EXCEPT ![t] = Returned(cache[i].rate)]
    BY <1>2 DEF Hit
  <2>2. cache' \in Seq(Entry) BY <2>1, FreshIsCached, MovedToEndProperties DEF TypeOK
  <2>3. cache[i].rate \in Rate BY FreshIsCached DEF Entry
  <2>4. ret' \in [Threads -> Outcome \cup {None}]
    BY <2>1, <2>3, OutcomeProperties DEF TypeOK, Outcome
  <2>5. now' \in [Threads -> Time]
    BY <1>2, ConfigAssumption DEF Hit, TypeOK, Time, ConfigAssumption
  <2>6. QED BY <1>2, <2>1, <2>2, <2>4, <2>5 DEF Hit, TypeOK
<1>3. ASSUME NEW t \in Threads, Join(t) \/ JoinLate(t) \/ Lead(t) PROVE TypeOK'
  <2>1. now' \in [Threads -> Time]
    BY <1>3, ConfigAssumption DEF Join, JoinLate, Lead, TypeOK, Time, ConfigAssumption
  <2>2. pair[t] \in Pairs BY <1>3 DEF Join, JoinLate, Lead, TypeOK
  <2>3. CASE Join(t) BY <2>1, <2>2, <2>3 DEF Join, TypeOK
  <2>4. CASE JoinLate(t)
    <3>1. promise[inflight[pair[t]]] \in Outcome
      BY <2>2, <2>4 DEF JoinLate, TypeOK
    <3>2. QED BY <2>1, <2>4, <3>1 DEF JoinLate, TypeOK
  <2>5. CASE Lead(t)
    <3>1. Cached(cache, pair[t]) \subseteq Entry
      BY LenProperties, ElementOfSeq DEF TypeOK, Cached, Slots
    <3>2. stale' \in [Threads -> SUBSET Entry] BY <2>5, <3>1 DEF Lead, TypeOK
    <3>3. QED BY <2>1, <2>2, <2>5, <3>2 DEF Lead, TypeOK
  <2>6. QED BY <1>3, <2>3, <2>4, <2>5
<1>4. ASSUME NEW t \in Threads, ProviderReturns(t) PROVE TypeOK'
  <2>1. PICK rate \in Quotable(pair[t], clock) :
          ret' = [ret EXCEPT ![t] = Returned(rate)]
    BY <1>4 DEF ProviderReturns
  <2>2. pair[t] \in Pairs /\ clock \in Time BY <1>4 DEF ProviderReturns, TypeOK
  <2>3. Returned(rate) \in RateOutcome
    BY <2>2, QuotableProperties, OutcomeProperties
  <2>4. ret' \in [Threads -> Outcome \cup {None}] BY <2>1, <2>3 DEF TypeOK, Outcome
  <2>5. QED BY <1>4, <2>1, <2>3, <2>4 DEF ProviderReturns, TypeOK
<1>5. ASSUME NEW t \in Threads, ProviderFails(t) \/ Wake(t) \/ Cleanup(t) PROVE TypeOK'
  BY <1>5 DEF ProviderFails, Wake, Cleanup, TypeOK
<1>6. ASSUME NEW t \in Threads,
             ProviderRaises(t) \/ StaleMarkRaises(t) \/ PropagateFailure(t)
      PROVE  TypeOK'
  <2>1. PICK e \in Errors : ret' = [ret EXCEPT ![t] = Raised(e)]
    BY <1>6 DEF ProviderRaises, StaleMarkRaises, PropagateFailure, Errors
  <2>2. Raised(e) \in Outcome BY OutcomeProperties DEF Outcome
  <2>3. QED
    BY <1>6, <2>1, <2>2 DEF ProviderRaises, StaleMarkRaises, PropagateFailure, TypeOK
<1>7. ASSUME NEW t \in Threads, ServeStale(t) PROVE TypeOK'
  <2>1. PICK e \in Usable(stale[t], clock) :
          ret' = [ret EXCEPT ![t] = Returned(MarkedStale(e.rate))]
    BY <1>7 DEF ServeStale
  <2>2. e \in Entry BY DEF Usable, TypeOK
  <2>3. Returned(MarkedStale(e.rate)) \in Outcome
    BY <2>2, MarkedStaleProperties, OutcomeProperties DEF Entry, Outcome
  <2>4. QED BY <1>7, <2>1, <2>3 DEF ServeStale, TypeOK
<1>8. ASSUME NEW t \in Threads, Store(t) PROVE TypeOK'
  <2>1. ret[t].rate \in Rate BY <1>8, OutcomeProperties DEF Store, TypeOK
  <2>2. cache' \in Seq(Entry) BY <1>8, <2>1, StoredProperties DEF Store, TypeOK
  <2>3. QED BY <1>8, <2>2 DEF Store, TypeOK, Outcome
<1>9. ASSUME NEW t \in Threads, Publish(t) PROVE TypeOK'
  BY <1>9 DEF Publish, Waiters, TypeOK
<1>10. CASE Clear BY <1>10, EmptySeq DEF Clear, TypeOK
<1>11. CASE Tick
  <2>1. clock' \in Time BY <1>11, ConfigAssumption DEF Tick, TypeOK, Time, ConfigAssumption
  <2>2. QED BY <1>11, <2>1 DEF Tick, TypeOK
<1>12. CASE UNCHANGED vars BY <1>12 DEF vars, TypeOK
<1>13. QED
  BY <1>1, <1>2, <1>3, <1>4, <1>5, <1>6, <1>7, <1>8, <1>9, <1>10, <1>11, <1>12
     DEF Next, Advance, Lookup, ProviderAnswers, Recover

--------------------------------------------------------------------------------
(***************************************************************************)
(* Who owns a Future, and who waits for it                                 *)
(***************************************************************************)

\* The registered Future of a pair is that of the one thread fetching it.
Registered ==
  /\ \A t \in Threads : pc[t] \in Owning => inflight[pair[t]] = t
  /\ \A p \in Pairs : inflight[p] # None =>
       pc[inflight[p]] \in Owning /\ pair[inflight[p]] = p

\* A Future is completed just before its owner cleans up, with what it returns.
Kept == \A t \in Threads : promise[t] # None => pc[t] = "cleanup" /\ promise[t] = ret[t]

\* A thread that waits for a Future waits for a pending one of its own pair.
Joined ==
  \A w \in Threads : joined[w] # None =>
    /\ pc[w] = "waiting"
    /\ pc[joined[w]] \in Owning /\ promise[joined[w]] = None
    /\ pair[joined[w]] = pair[w]

Ownership == Registered /\ Kept /\ Joined

\* Nobody owns anything at first.
LEMMA InitOwnership == Init => Ownership
BY DEF Init, Ownership, Registered, Kept, Joined, Owning

\* Every step keeps the Futures with their owners and their waiters.
LEMMA StepOwnership == TypeOK /\ Ownership /\ [Next]_vars => Ownership'
<1> SUFFICES ASSUME TypeOK, Ownership, [Next]_vars PROVE Ownership' OBVIOUS
<1> USE NoneIsNoOutcome DEF Owning
<1>own. Registered /\ Kept /\ Joined BY DEF Ownership
<1>1. ASSUME NEW t \in Threads, NEW p \in Pairs, Call(t, p) PROVE Ownership'
  <2> USE <1>1, <1>own DEF Call, TypeOK
  <2>1. Registered' BY DEF Registered
  <2>2. Kept' BY DEF Kept
  <2>3. Joined' BY DEF Joined
  <2>4. QED BY <2>1, <2>2, <2>3 DEF Ownership
<1>2. ASSUME NEW t \in Threads, Hit(t) \/ JoinLate(t) \/ Wake(t) PROVE Ownership'
  <2> USE <1>2, <1>own DEF Hit, JoinLate, Wake, TypeOK
  <2>1. Registered' BY DEF Registered
  <2>2. Kept' BY DEF Kept
  <2>3. Joined' BY DEF Joined
  <2>4. QED BY <2>1, <2>2, <2>3 DEF Ownership
<1>3. ASSUME NEW t \in Threads, Join(t) PROVE Ownership'
  <2> USE <1>3, <1>own DEF Join, TypeOK
  <2>1. Registered' BY DEF Registered
  <2>2. Kept' BY DEF Kept
  <2>3. pc[inflight[pair[t]]] \in Owning /\ pair[inflight[pair[t]]] = pair[t]
    BY DEF Registered
  <2>4. Joined' BY <2>3 DEF Joined
  <2>5. QED BY <2>1, <2>2, <2>4 DEF Ownership
<1>4. ASSUME NEW t \in Threads, Lead(t) PROVE Ownership'
  <2> USE <1>4, <1>own DEF Lead, TypeOK
  <2>1. Registered' BY DEF Registered
  <2>2. Kept' BY DEF Kept
  <2>3. Joined' BY DEF Joined
  <2>4. QED BY <2>1, <2>2, <2>3 DEF Ownership
<1>5. ASSUME NEW t \in Threads,
             ProviderReturns(t) \/ ProviderFails(t) \/ ProviderRaises(t)
      PROVE  Ownership'
  <2> USE <1>5, <1>own DEF ProviderReturns, ProviderFails, ProviderRaises, TypeOK
  <2>1. Registered' BY DEF Registered
  <2>2. Kept' BY DEF Kept
  <2>3. Joined' BY DEF Joined
  <2>4. QED BY <2>1, <2>2, <2>3 DEF Ownership
<1>6. ASSUME NEW t \in Threads,
             ServeStale(t) \/ StaleMarkRaises(t) \/ PropagateFailure(t) \/ Store(t)
      PROVE  Ownership'
  <2> USE <1>6, <1>own DEF ServeStale, StaleMarkRaises, PropagateFailure, Store, TypeOK
  <2>1. Registered' BY DEF Registered
  <2>2. Kept' BY DEF Kept
  <2>3. Joined' BY DEF Joined
  <2>4. QED BY <2>1, <2>2, <2>3 DEF Ownership
<1>7. ASSUME NEW t \in Threads, Publish(t) PROVE Ownership'
  <2> USE <1>7, <1>own DEF Publish, Waiters, TypeOK
  <2>1. Registered' BY DEF Registered
  <2>2. Kept' BY DEF Kept
  <2>3. Joined' BY DEF Joined
  <2>4. QED BY <2>1, <2>2, <2>3 DEF Ownership
<1>8. ASSUME NEW t \in Threads, Cleanup(t) PROVE Ownership'
  <2> USE <1>8, <1>own DEF Cleanup, Waiters, TypeOK
  <2>1. Registered' BY DEF Registered
  <2>2. Kept' BY DEF Kept
  <2>3. Joined' BY DEF Joined
  <2>4. QED BY <2>1, <2>2, <2>3 DEF Ownership
<1>9. CASE Clear \/ Tick \/ UNCHANGED vars
  BY <1>9, <1>own DEF Clear, Tick, vars, Ownership, Registered, Kept, Joined
<1>10. QED
  BY <1>1, <1>2, <1>3, <1>4, <1>5, <1>6, <1>7, <1>8, <1>9
     DEF Next, Advance, Lookup, ProviderAnswers, Recover

--------------------------------------------------------------------------------
(***************************************************************************)
(* What is in the cache, and where rates come from                         *)
(***************************************************************************)

\* The cache has one bounded place per pair and holds filed entries only.
CacheOK ==
  /\ UniqueKeys(cache) /\ Len(cache) <= MaxSize
  /\ \A e \in Entries(cache) : Filed(e) /\ e.rate.at <= clock

\* What a thread remembers or holds is for its own pair, and what it has
\* fetched is fit to be stored.
HoldingsOK ==
  \A t \in Threads :
    /\ stale[t] # {} => pc[t] \in Owning
    /\ \A e \in stale[t] : Filed(e) /\ e.pair = pair[t]
    /\ ret[t] \in RateOutcome => RateFor(ret[t].rate, pair[t])
    /\ pc[t] = "fetched" => ~ret[t].rate.marked /\ ret[t].rate.at <= clock

\* What an owner remembers is what the cache has, and what it fetched is newer.
SnapshotOK ==
  \A t \in Threads, e \in Entries(cache) :
    /\ e.pair = pair[t]
    /\ pc[t] \in {"calling", "fetched", "failed"}
    => stale[t] = {e} /\ (pc[t] = "fetched" => e.rate.at <= ret[t].rate.at)

Contents == CacheOK /\ HoldingsOK /\ SnapshotOK

\* The cache is created empty.
LEMMA InitContents == Init => Contents
BY ConfigAssumption, NoneIsNoOutcome
   DEF ConfigAssumption, Init, Contents, CacheOK, UniqueKeys, Entries, HoldingsOK,
       SnapshotOK, RateFor, Outcome, Owning

\* Every step keeps the contents of the cache and of the threads in order.
LEMMA StepContents == TypeOK /\ Ownership /\ Contents /\ [Next]_vars => Contents'
<1> SUFFICES ASSUME TypeOK, Ownership, Contents, [Next]_vars PROVE Contents' OBVIOUS
<1> USE NoneIsNoOutcome, OutcomeProperties DEF Owning
<1>con. CacheOK /\ HoldingsOK /\ SnapshotOK BY DEF Contents
<1>own. Registered /\ Kept /\ Joined BY DEF Ownership
<1>1. ASSUME NEW t \in Threads, NEW p \in Pairs, Call(t, p) PROVE Contents'
  <2> USE <1>1, <1>con DEF Call, TypeOK
  <2>1. CacheOK' BY DEF CacheOK
  <2>2. HoldingsOK' BY DEF HoldingsOK, Outcome
  <2>3. SnapshotOK' BY DEF SnapshotOK
  <2>4. QED BY <2>1, <2>2, <2>3 DEF Contents
<1>2. ASSUME NEW t \in Threads, Hit(t) PROVE Contents'
  <2>1. PICK i \in Fresh(t) :
          /\ cache' = MovedToEnd(cache, i)
          /\ ret' = [ret EXCEPT ![t] = Returned(cache[i].rate)]
    BY <1>2 DEF Hit
  <2>2. i \in 1 .. Len(cache) /\ cache[i].pair = pair[t] BY FreshIsCached
  <2>3. /\ Entries(cache') = Entries(cache) /\ UniqueKeys(cache')
        /\ Len(cache') = Len(cache)
    BY <1>con, <2>1, <2>2, HitKeepsEntries, MovedToEndProperties DEF TypeOK, CacheOK
  <2>4. cache[i] \in Entries(cache) BY <2>2, LenProperties DEF Entries, TypeOK
  <2>5. CacheOK' BY <1>2, <1>con, <2>3 DEF Hit, CacheOK
  <2>6. HoldingsOK'
    <3>1. RateFor(cache[i].rate, pair[t]) BY <1>con, <2>2, <2>4 DEF CacheOK, Filed
    <3>2. Returned(cache[i].rate).rate = cache[i].rate BY DEF Returned
    <3>3. QED BY <1>2, <1>con, <2>1, <3>1, <3>2 DEF Hit, HoldingsOK, TypeOK
  <2>7. SnapshotOK' BY <1>2, <1>con, <2>1, <2>3 DEF Hit, SnapshotOK, TypeOK
  <2>8. QED BY <2>5, <2>6, <2>7 DEF Contents
<1>3. ASSUME NEW t \in Threads, Join(t) \/ Wake(t) PROVE Contents'
  <2> USE <1>3, <1>con DEF Join, Wake, TypeOK
  <2>1. CacheOK' BY DEF CacheOK
  <2>2. HoldingsOK' BY DEF HoldingsOK
  <2>3. SnapshotOK' BY DEF SnapshotOK
  <2>4. QED BY <2>1, <2>2, <2>3 DEF Contents
<1>4. ASSUME NEW t \in Threads, JoinLate(t) PROVE Contents'
  <2> USE <1>4, <1>con DEF JoinLate, TypeOK
  <2>1. CacheOK' BY DEF CacheOK
  <2>2. LET u == inflight[pair[t]]
        IN  u \in Threads /\ pair[u] = pair[t] /\ promise[u] = ret[u]
    BY <1>own DEF Registered, Kept
  <2>3. HoldingsOK' BY <2>2 DEF HoldingsOK
  <2>4. SnapshotOK' BY DEF SnapshotOK
  <2>5. QED BY <2>1, <2>3, <2>4 DEF Contents
<1>5. ASSUME NEW t \in Threads, Lead(t) PROVE Contents'
  <2> USE <1>5, <1>con DEF Lead, TypeOK
  <2>1. CacheOK' BY DEF CacheOK
  <2>2. /\ Cached(cache, pair[t]) \subseteq Entries(cache)
        /\ \A e \in Cached(cache, pair[t]) : e.pair = pair[t]
        /\ \A e \in Entries(cache) : e.pair = pair[t] => Cached(cache, pair[t]) = {e}
    BY CachedProperties DEF CacheOK
  <2>3. HoldingsOK' BY <2>2 DEF HoldingsOK, CacheOK
  <2>4. SnapshotOK' BY <2>2 DEF SnapshotOK
  <2>5. QED BY <2>1, <2>3, <2>4 DEF Contents
<1>6. ASSUME NEW t \in Threads, ProviderReturns(t) PROVE Contents'
  <2> USE <1>6, <1>con DEF ProviderReturns, TypeOK
  <2>1. PICK rate \in Quotable(pair[t], clock) :
          ret' = [ret EXCEPT ![t] = Returned(rate)]
    OBVIOUS
  <2>2. /\ RateFor(rate, pair[t]) /\ ~rate.marked /\ rate.at = clock
        /\ Returned(rate).rate = rate /\ clock \in Int
    <3>1. pair[t] \in Pairs /\ clock \in Time OBVIOUS
    <3>2. clock \in Int BY <3>1 DEF Time
    <3>3. QED BY <3>1, <3>2, QuotableProperties DEF RateFor, Returned
  <2>3. CacheOK' BY DEF CacheOK
  <2>4. HoldingsOK' BY <2>1, <2>2 DEF HoldingsOK
  <2>5. SnapshotOK' BY <2>1, <2>2 DEF SnapshotOK, CacheOK
  <2>6. QED BY <2>3, <2>4, <2>5 DEF Contents
<1>7. ASSUME NEW t \in Threads,
             ProviderFails(t) \/ ProviderRaises(t) \/ StaleMarkRaises(t)
               \/ PropagateFailure(t)
      PROVE  Contents'
  <2> USE <1>7, <1>con
      DEF ProviderFails, ProviderRaises, StaleMarkRaises, PropagateFailure, TypeOK
  <2>1. CacheOK' BY DEF CacheOK
  <2>2. HoldingsOK' BY DEF HoldingsOK, Raised, RateOutcome
  <2>3. SnapshotOK' BY DEF SnapshotOK
  <2>4. QED BY <2>1, <2>2, <2>3 DEF Contents
<1>8. ASSUME NEW t \in Threads, ServeStale(t) PROVE Contents'
  <2> USE <1>8, <1>con DEF ServeStale, TypeOK
  <2>1. PICK e \in Usable(stale[t], clock) :
          ret' = [ret EXCEPT ![t] = Returned(MarkedStale(e.rate))]
    OBVIOUS
  <2>2. e \in stale[t] /\ e.rate \in Rate BY DEF Usable, Entry
  <2>3. RateFor(MarkedStale(e.rate), pair[t])
    BY <2>2, MarkedStaleProperties DEF HoldingsOK, Filed, RateFor
  <2>4. Returned(MarkedStale(e.rate)).rate = MarkedStale(e.rate) BY DEF Returned
  <2>5. CacheOK' BY DEF CacheOK
  <2>6. HoldingsOK' BY <2>1, <2>3, <2>4 DEF HoldingsOK
  <2>7. SnapshotOK' BY DEF SnapshotOK
  <2>8. QED BY <2>5, <2>6, <2>7 DEF Contents
<1>9. ASSUME NEW t \in Threads, Store(t) PROVE Contents'
  <2> USE <1>9, <1>con DEF Store, TypeOK
  <2> DEFINE rate == ret[t].rate
             new == [pair |-> rate.pair, expires |-> clock + Ttl, rate |-> rate]
  <2>1. rate \in Rate /\ rate.pair = pair[t] /\ ~rate.marked /\ rate.at <= clock
        /\ RateFor(rate, pair[t])
    BY DEF HoldingsOK, RateFor
  <2>2. /\ Len(cache') <= MaxSize /\ UniqueKeys(cache')
        /\ \A e \in Entries(cache') :
             \/ e = new
             \/ e \in Entries(cache) /\ e.pair # pair[t]
    BY <2>1, StoredProperties DEF CacheOK
  <2>3. CacheOK' BY <2>1, <2>2 DEF CacheOK, Filed
  <2>4. HoldingsOK' BY DEF HoldingsOK
  <2>5. SnapshotOK'
    <3>1. SUFFICES ASSUME NEW u \in Threads, NEW e \in Entries(cache'),
                          e.pair = pair[u], pc'[u] \in {"calling", "fetched", "failed"}
                   PROVE  stale[u] = {e} /\ (pc'[u] = "fetched" =>
                                              e.rate.at <= ret[u].rate.at)
      BY DEF SnapshotOK
    <3>2. u # t /\ pc[u] = pc'[u] BY <3>1
    <3>3. pair[u] # pair[t] BY <1>own, <3>1, <3>2 DEF Registered, Owning
    <3>4. e \in Entries(cache) BY <2>1, <2>2, <3>1, <3>3
    <3>5. QED BY <3>1, <3>2, <3>4 DEF SnapshotOK
  <2>6. QED BY <2>3, <2>4, <2>5 DEF Contents
<1>10. ASSUME NEW t \in Threads, Publish(t) PROVE Contents'
  <2> USE <1>10, <1>con DEF Publish, Waiters, TypeOK
  <2>1. CacheOK' BY DEF CacheOK
  <2>2. \A w \in Threads : pc[w] = "waiting" /\ joined[w] = t => pair[w] = pair[t]
    BY <1>own DEF Joined
  <2>3. HoldingsOK' BY <2>2 DEF HoldingsOK
  <2>4. SnapshotOK' BY DEF SnapshotOK
  <2>5. QED BY <2>1, <2>3, <2>4 DEF Contents
<1>11. ASSUME NEW t \in Threads, Cleanup(t) PROVE Contents'
  <2> USE <1>11, <1>con DEF Cleanup, TypeOK
  <2>1. CacheOK' BY DEF CacheOK
  <2>2. HoldingsOK' BY DEF HoldingsOK
  <2>3. SnapshotOK' BY DEF SnapshotOK
  <2>4. QED BY <2>1, <2>2, <2>3 DEF Contents
<1>12. CASE Clear
  <2> USE <1>12, <1>con DEF Clear
  <2>1. Entries(cache') = {} /\ UniqueKeys(cache') /\ Len(cache') = 0
    BY EmptySeq DEF Entries, UniqueKeys
  <2>2. CacheOK' BY <2>1, ConfigAssumption DEF CacheOK, ConfigAssumption
  <2>3. HoldingsOK' BY DEF HoldingsOK
  <2>4. SnapshotOK' BY <2>1 DEF SnapshotOK
  <2>5. QED BY <2>2, <2>3, <2>4 DEF Contents
<1>13. CASE Tick
  <2> USE <1>13, <1>con DEF Tick
  <2>1. clock \in Int /\ \A n \in Time : n <= clock => n <= clock'
    BY DEF TypeOK, Time
  <2>2. CacheOK'
    <3>1. \A e \in Entries(cache) : e \in Entry
      BY LenProperties, ElementOfSeq DEF TypeOK, Entries
    <3>2. \A e \in Entry : e.rate.at \in Time BY DEF Entry, Rate
    <3>3. QED BY <2>1, <3>1, <3>2 DEF CacheOK
  <2>3. HoldingsOK'
    <3>1. \A t \in Threads : pc[t] = "fetched" => ret[t].rate.at \in Time
      BY DEF TypeOK, Rate
    <3>2. QED BY <2>1, <3>1 DEF HoldingsOK
  <2>4. SnapshotOK' BY DEF SnapshotOK
  <2>5. QED BY <2>2, <2>3, <2>4 DEF Contents
<1>14. CASE UNCHANGED vars
  BY <1>14, <1>con DEF vars, Contents, CacheOK, HoldingsOK, SnapshotOK
<1>15. QED
  BY <1>1, <1>2, <1>3, <1>4, <1>5, <1>6, <1>7, <1>8, <1>9, <1>10, <1>11, <1>12,
     <1>13, <1>14
     DEF Next, Advance, Lookup, ProviderAnswers, Recover

--------------------------------------------------------------------------------
(***************************************************************************)
(* Nobody is stranded                                                      *)
(***************************************************************************)

\* As long as the pair is quoted directly, a waiter keeps its Future and an
\* owner completes its own before it cleans up.
Served ==
  \A t \in Threads : pair[t] \notin DerivedPairs =>
    /\ pc[t] = "waiting" => joined[t] # None
    /\ pc[t] = "cleanup" => promise[t] # None

\* Nobody waits at first.
LEMMA InitServed == Init => Served
BY DEF Init, Served

\* Every step serves the threads of directly quoted pairs: a quote of theirs
\* is never derived, so marking it cannot raise.
LEMMA StepServed ==
  TypeOK /\ Ownership /\ Contents /\ Served /\ [Next]_vars => Served'
<1> SUFFICES ASSUME TypeOK, Ownership, Contents, Served, [Next]_vars PROVE Served'
  OBVIOUS
<1> USE NoneIsNoOutcome
<1>own. Registered /\ Kept /\ Joined BY DEF Ownership
<1>1. ASSUME NEW t \in Threads, NEW p \in Pairs, Call(t, p) PROVE Served'
  BY <1>1 DEF Call, TypeOK, Served
<1>2. ASSUME NEW t \in Threads, Lookup(t) PROVE Served'
  BY <1>2 DEF Lookup, Hit, Join, JoinLate, Lead, TypeOK, Served
<1>3. ASSUME NEW t \in Threads, ProviderAnswers(t) PROVE Served'
  BY <1>3 DEF ProviderAnswers, ProviderReturns, ProviderFails, ProviderRaises,
     TypeOK, Served
<1>4. ASSUME NEW t \in Threads,
             ServeStale(t) \/ PropagateFailure(t) \/ Store(t) \/ Wake(t)
      PROVE  Served'
  BY <1>4 DEF ServeStale, PropagateFailure, Store, Wake, TypeOK, Served
<1>5. ASSUME NEW t \in Threads, StaleMarkRaises(t) PROVE Served'
  <2>1. PICK e \in Usable(stale[t], clock) : e.rate.derived
    BY <1>5 DEF StaleMarkRaises, CanMarkStale
  <2>2. pair[t] \in DerivedPairs
    BY <2>1 DEF Contents, HoldingsOK, Usable, Filed, RateFor
  <2>3. QED BY <1>5, <2>2 DEF StaleMarkRaises, TypeOK, Served
<1>6. ASSUME NEW t \in Threads, Publish(t) PROVE Served'
  BY <1>6 DEF Publish, Waiters, TypeOK, Served
<1>7. ASSUME NEW t \in Threads, Cleanup(t) PROVE Served'
  <2>1. ASSUME NEW w \in Threads, joined[w] = t
        PROVE  pair[w] \in DerivedPairs
    BY <1>7, <1>own, <2>1 DEF Cleanup, Joined, Served
  <2>2. QED BY <1>7, <2>1 DEF Cleanup, Waiters, TypeOK, Served
<1>8. CASE Clear \/ Tick \/ UNCHANGED vars
  BY <1>8 DEF Clear, Tick, vars, Served
<1>9. QED
  BY <1>1, <1>2, <1>3, <1>4, <1>5, <1>6, <1>7, <1>8 DEF Next, Advance, Recover

--------------------------------------------------------------------------------
(***************************************************************************)
(* The theorems                                                            *)
(***************************************************************************)

IInv == TypeOK /\ Ownership /\ Contents /\ Served

\* The four parts together are an invariant of the cache.
LEMMA Invariance == Spec => []IInv
<1>1. Init => IInv BY InitTypes, InitOwnership, InitContents, InitServed DEF IInv
<1>2. IInv /\ [Next]_vars => IInv'
  BY StepTypes, StepOwnership, StepContents, StepServed DEF IInv, Contents, CacheOK
<1>3. QED BY <1>1, <1>2, PTL DEF Spec

\* Every variable keeps its type.
THEOREM TypeCorrect == Spec => []TypeOK
<1>1. IInv => TypeOK BY DEF IInv
<1>2. QED BY <1>1, Invariance, PTL

\* However many threads call, one at a time fetches a pair.
THEOREM OneFetchPerPair == Spec => []SingleFlight
<1>1. IInv => SingleFlight BY DEF IInv, Ownership, Registered, SingleFlight
<1>2. QED BY <1>1, Invariance, PTL

\* A thread blocked on the Future of a directly quoted pair has an owner that
\* has yet to complete it.
THEOREM WaitersAreLed == Spec => []DirectPairsNeverStrand
<1>1. IInv => DirectPairsNeverStrand
  <2> SUFFICES ASSUME IInv, NEW w \in Threads,
                      pc[w] = "waiting", pair[w] \notin DerivedPairs
               PROVE  Led(w)
    BY DEF DirectPairsNeverStrand
  <2>1. joined[w] # None /\ joined[w] \in Threads BY DEF IInv, Served, TypeOK
  <2>2. /\ pc[joined[w]] \in Owning /\ promise[joined[w]] = None
        /\ pair[joined[w]] = pair[w]
    BY <2>1 DEF IInv, Ownership, Joined
  <2>3. pc[joined[w]] \in Leading BY <2>1, <2>2 DEF IInv, Served, Leading, Owning
  <2>4. QED BY <2>1, <2>2, <2>3 DEF Led
<1>2. QED BY <1>1, Invariance, PTL

\* What an owner remembers under the lock is what the cache holds for the pair
\* when it comes back to use it.
THEOREM SnapshotStaysCurrent == Spec => []SnapshotIsCurrent
<1>1. IInv => SnapshotIsCurrent
  BY DEF IInv, Contents, SnapshotOK, SnapshotIsCurrent, Slots, Entries
<1>2. QED BY <1>1, Invariance, PTL

\* The cache never grows over its bound, never files a pair twice or under
\* another one, and never takes a served fallback back in.
THEOREM CacheStaysWellFormed == Spec => []CacheWellFormed
<1>1. IInv => CacheWellFormed
  BY DEF IInv, Contents, CacheOK, UniqueKeys, Entries, Filed, RateFor, CacheWellFormed
<1>2. QED BY <1>1, Invariance, PTL

\* Every rate returned is for the pair that was asked for.
THEOREM AnswersAreForThePair == Spec => []AnswersMatchPair
<1>1. IInv => AnswersMatchPair
  BY OutcomeProperties DEF IInv, TypeOK, Contents, HoldingsOK, RateFor, AnswersMatchPair
<1>2. QED BY <1>1, Invariance, PTL

\* A quote is never replaced by one the provider gave earlier.
THEOREM QuotesOnlyMoveForward == Spec => QuotesMoveForward
<1> DEFINE Forward ==
      \A i \in DOMAIN cache, j \in DOMAIN cache' :
        cache[i].pair = cache'[j].pair => cache[i].rate.at <= cache'[j].rate.at
<1>1. IInv /\ IInv' /\ [Next]_vars => [Forward]_cache
  <2> SUFFICES ASSUME IInv, IInv', [Next]_vars, cache' # cache,
                      NEW e \in Entries(cache), NEW f \in Entries(cache'),
                      e.pair = f.pair
               PROVE  e.rate.at <= f.rate.at
    BY DEF Entries
  <2>1. \A s \in Seq(Entry) : Entries(s) \subseteq Entry
    BY LenProperties, ElementOfSeq DEF Entries
  <2>2. e \in Entry /\ f \in Entry BY <2>1 DEF IInv, TypeOK
  <2>3. e.rate.at \in Int /\ f.rate.at \in Int BY <2>2 DEF Entry, Rate, Time
  <2>4. e = f => e.rate.at <= f.rate.at BY <2>3
  <2>5. PICK t \in Threads : Hit(t) \/ Store(t)
    <3>1. ~Clear BY DEF Clear, Entries
    <3>2. QED
      BY <3>1 DEF Next, Advance, Lookup, ProviderAnswers, Recover, Call, Join,
         JoinLate, Lead, ProviderReturns, ProviderFails, ProviderRaises, ServeStale,
         StaleMarkRaises, PropagateFailure, Publish, Wake, Cleanup, Tick, vars
  <2>6. CASE Hit(t)
    <3>1. PICK i \in Fresh(t) : cache' = MovedToEnd(cache, i) BY <2>6 DEF Hit
    <3>2. Entries(cache') = Entries(cache)
      BY <3>1, FreshIsCached, HitKeepsEntries DEF IInv, TypeOK, Contents, CacheOK
    <3>3. e = f BY <3>2 DEF IInv, Contents, CacheOK, UniqueKeys, Entries
    <3>4. QED BY <2>4, <3>3
  <2>7. CASE Store(t)
    <3> DEFINE rate == ret[t].rate
               new == [pair |-> rate.pair, expires |-> clock + Ttl, rate |-> rate]
    <3>1. pc[t] = "fetched" /\ rate \in Rate /\ rate.pair = pair[t]
      BY <2>7, OutcomeProperties
         DEF Store, IInv, TypeOK, Contents, HoldingsOK, RateFor
    <3>2. f = new \/ f \in Entries(cache)
      BY <2>7, <3>1, StoredProperties DEF Store, IInv, TypeOK, Contents, CacheOK
    <3>3. CASE f = new
      <4>1. e.pair = pair[t] BY <3>1, <3>3
      <4>2. e.rate.at <= rate.at BY <3>1, <4>1 DEF IInv, Contents, SnapshotOK
      <4>3. QED BY <3>3, <4>2
    <3>4. CASE f \in Entries(cache)
      <4>1. e = f BY <3>4 DEF IInv, Contents, CacheOK, UniqueKeys, Entries
      <4>2. QED BY <2>4, <4>1
    <3>5. QED BY <3>2, <3>3, <3>4
  <2>8. QED BY <2>5, <2>6, <2>7
<1>2. QED BY <1>1, Invariance, PTL DEF Spec, QuotesMoveForward

--------------------------------------------------------------------------------
(***************************************************************************)
(* The threads, the lock and the Futures implement CoalescedCalls: every   *)
(* step is a step of the abstract calls, or none.                          *)
(***************************************************************************)

\* An owner that failed to complete its Future holds an error for its caller.
Failing ==
  \A t \in Threads : pc[t] = "cleanup" /\ promise[t] = None => ret[t] \in ErrorOutcome

\* A call starts without an answer.
Unanswered == \A t \in Threads : pc[t] = "lookup" => ret[t] = None

\* It fails because marking the expired quote raised.
LEMMA FailingInvariance == Spec => [](Failing /\ Unanswered)
<1>1. Init => Failing /\ Unanswered BY DEF Init, Failing, Unanswered
<1>2. TypeOK /\ Failing /\ [Next]_vars => Failing'
  <2> SUFFICES ASSUME TypeOK, Failing, [Next]_vars,
                      NEW u \in Threads, pc'[u] = "cleanup", promise'[u] = None
               PROVE  ret'[u] \in ErrorOutcome
    BY DEF Failing
  <2> USE NoneIsNoOutcome
  <2>1. ASSUME NEW t \in Threads, StaleMarkRaises(t) PROVE ret'[u] \in ErrorOutcome
    BY <2>1, OutcomeProperties DEF StaleMarkRaises, TypeOK, Failing, Errors
  <2>2. ASSUME NEW t \in Threads, Publish(t) PROVE ret'[u] \in ErrorOutcome
    BY <2>2 DEF Publish, Waiters, TypeOK, Failing
  <2>3. ASSUME NEW t \in Threads, Cleanup(t) PROVE ret'[u] \in ErrorOutcome
    BY <2>3 DEF Cleanup, TypeOK, Failing
  <2>4. ASSUME NEW t \in Threads, NEW p \in Pairs, Call(t, p)
        PROVE  ret'[u] \in ErrorOutcome
    BY <2>4 DEF Call, TypeOK, Failing
  <2>5. ASSUME NEW t \in Threads,
               Lookup(t) \/ ProviderAnswers(t) \/ ServeStale(t) \/ PropagateFailure(t)
                 \/ Store(t) \/ Wake(t)
        PROVE  ret'[u] \in ErrorOutcome
    BY <2>5 DEF Lookup, Hit, Join, JoinLate, Lead, ProviderAnswers, ProviderReturns,
       ProviderFails, ProviderRaises, ServeStale, PropagateFailure, Store, Wake,
       TypeOK, Failing
  <2>6. CASE Clear \/ Tick \/ UNCHANGED vars BY <2>6 DEF Clear, Tick, vars, Failing
  <2>7. QED BY <2>1, <2>2, <2>3, <2>4, <2>5, <2>6 DEF Next, Advance, Recover
<1>3. TypeOK /\ Unanswered /\ [Next]_vars => Unanswered'
  <2> SUFFICES ASSUME TypeOK, Unanswered, [Next]_vars,
                      NEW u \in Threads, pc'[u] = "lookup"
               PROVE  ret'[u] = None
    BY DEF Unanswered
  <2>1. ASSUME NEW t \in Threads, NEW p \in Pairs, Call(t, p) PROVE ret'[u] = None
    BY <2>1 DEF Call, TypeOK, Unanswered
  <2>2. ASSUME NEW t \in Threads, Advance(t) PROVE ret'[u] = None
    <3>1. pc'[t] # "lookup"
      BY <2>2
         DEF Advance, Lookup, Hit, Join, JoinLate, Lead, ProviderAnswers, ProviderReturns,
             ProviderFails, ProviderRaises, Recover, ServeStale, StaleMarkRaises,
             PropagateFailure, Store, Publish, Waiters, Wake, Cleanup, TypeOK
    <3>2. CASE Publish(t) BY <2>2, <3>1, <3>2 DEF Publish, TypeOK, Unanswered
    <3>3. CASE ~Publish(t)
      BY <2>2, <3>1, <3>3
         DEF Advance, Lookup, Hit, Join, JoinLate, Lead, ProviderAnswers, ProviderReturns,
             ProviderFails, ProviderRaises, Recover, ServeStale, StaleMarkRaises,
             PropagateFailure, Store, Wake, Cleanup, TypeOK, Unanswered
    <3>4. QED BY <3>2, <3>3
  <2>3. CASE Clear \/ Tick \/ UNCHANGED vars BY <2>3 DEF Clear, Tick, vars, Unanswered
  <2>4. QED BY <2>1, <2>2, <2>3 DEF Next
<1>4. IInv => TypeOK BY DEF IInv
<1>5. QED BY <1>1, <1>2, <1>3, <1>4, Invariance, PTL DEF Spec

--------------------------------------------------------------------------------
\* What a caller of get_rate can see of a thread.
View(t) == <<PhaseOf(t), SubjectOf(t), AnswerOf(t)>>

\* A step that changes what is seen of one thread only moves that caller.
LEMMA OneGoes ==
  ASSUME NEW t \in Threads, NEW from, NEW to, NEW p, NEW o,
         PhaseOf(t) \in from, View(t)' = <<to, p, o>>,
         \A u \in Threads \ {t} : View(u)' = View(u)
  PROVE  Promised!Goes(t, from, to, p, o)
BY DEF View, Promised!Goes

\* A step that changes what is seen of no thread is none of the abstract calls.
LEMMA NoneGoes ==
  ASSUME \A u \in Threads : View(u)' = View(u)
  PROVE  UNCHANGED Promised!callVars
BY DEF View, Promised!callVars

\* What is seen of a thread after a step follows from where it is by then.
LEMMA SeenNext ==
  ASSUME NEW t \in Threads
  PROVE  /\ pc'[t] \in {"idle", "lookup"} => View(t)' = <<"idle", None, ret'[t]>>
         /\ pc'[t] = "waiting" /\ joined'[t] # None =>
              View(t)' = <<"following", pair'[t], ret'[t]>>
         /\ pc'[t] = "woken" => View(t)' = <<"told", pair'[t], ret'[t]>>
         /\ pc'[t] \in Owning /\ promise'[t] = None =>
              View(t)' = <<"leading", pair'[t], None>>
<1>1. ASSUME pc'[t] \in {"idle", "lookup"} PROVE View(t)' = <<"idle", None, ret'[t]>>
  <2>1. PhaseOf(t)' = "idle" BY <1>1 DEF PhaseOf, Owning
  <2>2. QED BY <2>1 DEF View, SubjectOf, AnswerOf
<1>2. ASSUME pc'[t] = "waiting", joined'[t] # None
      PROVE  View(t)' = <<"following", pair'[t], ret'[t]>>
  <2>1. PhaseOf(t)' = "following" BY <1>2 DEF PhaseOf, Owning
  <2>2. QED BY <2>1 DEF View, SubjectOf, AnswerOf
<1>3. ASSUME pc'[t] = "woken" PROVE View(t)' = <<"told", pair'[t], ret'[t]>>
  <2>1. PhaseOf(t)' = "told" BY <1>3 DEF PhaseOf, Owning
  <2>2. QED BY <2>1 DEF View, SubjectOf, AnswerOf
<1>4. ASSUME pc'[t] \in Owning, promise'[t] = None
      PROVE  View(t)' = <<"leading", pair'[t], None>>
  <2>1. PhaseOf(t)' = "leading" BY <1>4 DEF PhaseOf, Owning
  <2>2. QED BY <2>1 DEF View, SubjectOf, AnswerOf
<1>5. QED BY <1>1, <1>2, <1>3, <1>4

\* Nothing new is seen of the threads whose own variables do not change.
LEMMA OthersUnseen ==
  ASSUME NEW S, \A u \in S : /\ pc'[u] = pc[u] /\ pair'[u] = pair[u] /\ ret'[u] = ret[u]
                             /\ promise'[u] = promise[u] /\ joined'[u] = joined[u]
  PROVE  \A u \in S : View(u)' = View(u)
<1> SUFFICES ASSUME NEW u \in S PROVE View(u)' = View(u) OBVIOUS
<1>1. PhaseOf(u)' = PhaseOf(u) BY DEF PhaseOf
<1>2. QED BY <1>1 DEF View, SubjectOf, AnswerOf

\* The followers of a pair are those who wait for the Future of its owner.
LEMMA FollowersAreWaiters ==
  ASSUME TypeOK, Ownership, NEW t \in Threads, pc[t] \in Owning
  PROVE  Promised!Busy(pair[t], {"following"}) = Waiters(t)
<1>1. ASSUME NEW w \in Threads
      PROVE  PhaseOf(w) = "following" <=> pc[w] = "waiting" /\ joined[w] # None
  BY DEF PhaseOf, TypeOK, PCs, Owning
<1>2. ASSUME NEW w \in Threads, pc[w] = "waiting", joined[w] # None
      PROVE  pair[w] = pair[t] <=> joined[w] = t
  <2>1. joined[w] \in Threads /\ pc[joined[w]] \in Owning /\ pair[joined[w]] = pair[w]
    BY <1>2 DEF TypeOK, Ownership, Joined
  <2>2. inflight[pair[joined[w]]] = joined[w] /\ inflight[pair[t]] = t
    BY <2>1 DEF Ownership, Registered
  <2>3. QED BY <2>1, <2>2
<1>3. QED
  BY <1>1, <1>2, NoneIsNoOutcome DEF Promised!Busy, SubjectOf, Waiters

\* The initial states of the cache are initial states of coalesced calls.
LEMMA InitRefines == Init => Promised!Init
<1> SUFFICES ASSUME Init PROVE Promised!Init OBVIOUS
<1>1. ASSUME NEW t \in Threads PROVE PhaseOf(t) = "idle"
  BY DEF Init, PhaseOf, Owning
<1>2. ASSUME NEW t \in Threads PROVE SubjectOf(t) = None /\ AnswerOf(t) = None
  BY <1>1 DEF Init, SubjectOf, AnswerOf
<1>3. QED BY <1>1, <1>2 DEF Promised!Init

\* Every step of the cache is a step of coalesced calls, or changes nothing in
\* what is seen of the threads.
LEMMA StepRefines ==
  IInv /\ Failing /\ Unanswered /\ [Next]_vars => [Promised!Next]_(Promised!callVars)
<1> SUFFICES ASSUME IInv, Failing, Unanswered, [Next]_vars
             PROVE  [Promised!Next]_(Promised!callVars)
  OBVIOUS
<1>inv. TypeOK /\ Ownership /\ Contents /\ Served BY DEF IInv
<1> USE NoneIsNoOutcome DEF Owning
<1>1. ASSUME NEW t \in Threads, NEW p \in Pairs, Call(t, p) PROVE Promised!Forget(t)
  <2>1. PhaseOf(t) \in {"idle"} BY <1>1 DEF Call, PhaseOf
  <2>2. View(t)' = <<"idle", None, None>>
    BY <1>1, <1>inv, SeenNext DEF Call, TypeOK
  <2>3. \A u \in Threads \ {t} : View(u)' = View(u)
    BY <1>1, <1>inv, OthersUnseen DEF Call, TypeOK
  <2>4. QED BY <2>1, <2>2, <2>3, OneGoes DEF Promised!Forget
<1>2. ASSUME NEW t \in Threads, Hit(t)
      PROVE  \E q \in RateOutcome : Promised!Recall(t, q)
  <2>1. PICK i \in Fresh(t) : ret' = [ret EXCEPT ![t] = Returned(cache[i].rate)]
    BY <1>2 DEF Hit
  <2>2. Returned(cache[i].rate) \in RateOutcome
    BY <1>inv, FreshIsCached, OutcomeProperties DEF Entry
  <2>3. PhaseOf(t) \in {"idle"} BY <1>2 DEF Hit, PhaseOf
  <2>4. View(t)' = <<"idle", None, Returned(cache[i].rate)>>
    BY <1>2, <1>inv, <2>1, SeenNext DEF Hit, TypeOK
  <2>5. \A u \in Threads \ {t} : View(u)' = View(u)
    BY <1>2, <1>inv, <2>1, OthersUnseen DEF Hit, TypeOK
  <2>6. Promised!Recall(t, Returned(cache[i].rate))
    BY <2>3, <2>4, <2>5, OneGoes DEF Promised!Recall
  <2>7. QED BY <2>2, <2>6
<1>3. ASSUME NEW t \in Threads, Join(t) PROVE Promised!Follow(t, pair[t])
  <2> DEFINE u == inflight[pair[t]]
  <2>1. u \in Threads /\ pc[u] \in Owning /\ pair[u] = pair[t] /\ promise[u] = None
    BY <1>3, <1>inv DEF Join, TypeOK, Ownership, Registered
  <2>2. u \in Promised!Busy(pair[t], {"leading"})
    BY <2>1 DEF Promised!Busy, PhaseOf, SubjectOf
  <2>3. PhaseOf(t) \in {"idle"} BY <1>3 DEF Join, PhaseOf
  <2>4. pc'[t] = "waiting" /\ joined'[t] # None /\ pair'[t] = pair[t] /\ ret'[t] = None
    BY <1>3, <1>inv, <2>1 DEF Join, TypeOK, Unanswered
  <2>5. View(t)' = <<"following", pair[t], None>> BY <2>4, SeenNext
  <2>6. \A v \in Threads \ {t} : View(v)' = View(v)
    BY <1>3, <1>inv, OthersUnseen DEF Join, TypeOK
  <2>7. Promised!Goes(t, {"idle"}, "following", pair[t], None)
    BY <2>3, <2>5, <2>6, OneGoes
  <2>8. QED BY <2>2, <2>7 DEF Promised!Follow
<1>4. ASSUME NEW t \in Threads, JoinLate(t) PROVE Promised!FollowLate(t, pair[t])
  <2> DEFINE u == inflight[pair[t]]
  <2>1. /\ u \in Threads /\ pc[u] \in Owning /\ pair[u] = pair[t]
        /\ promise[u] # None /\ promise[u] = ret[u]
    BY <1>4, <1>inv DEF JoinLate, TypeOK, Ownership, Registered, Kept
  <2>2. u \in Promised!Busy(pair[t], {"settled"}) /\ AnswerOf(u) = ret[u]
    BY <2>1 DEF Promised!Busy, PhaseOf, SubjectOf, AnswerOf
  <2>3. PhaseOf(t) \in {"idle"} BY <1>4 DEF JoinLate, PhaseOf
  <2>4. pc'[t] = "woken" /\ pair'[t] = pair[t] /\ ret'[t] = ret[u]
    BY <1>4, <1>inv, <2>1 DEF JoinLate, TypeOK
  <2>5. View(t)' = <<"told", pair[t], AnswerOf(u)>> BY <2>2, <2>4, SeenNext
  <2>6. \A v \in Threads \ {t} : View(v)' = View(v)
    BY <1>4, <1>inv, OthersUnseen DEF JoinLate, TypeOK
  <2>7. Promised!Goes(t, {"idle"}, "told", pair[t], AnswerOf(u))
    BY <2>3, <2>5, <2>6, OneGoes
  <2>8. QED BY <2>1, <2>2, <2>7 DEF Promised!FollowLate
<1>5. ASSUME NEW t \in Threads, Lead(t) PROVE Promised!Lead(t, pair[t])
  <2>1. Promised!Busy(pair[t], {"leading", "settled"}) = {}
    BY <1>5, <1>inv
       DEF Lead, Promised!Busy, PhaseOf, SubjectOf, TypeOK, PCs, Ownership, Registered
  <2>2. promise[t] = None BY <1>5, <1>inv DEF Lead, Ownership, Kept
  <2>3. PhaseOf(t) \in {"idle"} BY <1>5 DEF Lead, PhaseOf
  <2>4. pc'[t] \in Owning /\ pair'[t] = pair[t] /\ promise'[t] = None
    BY <1>5, <1>inv, <2>2 DEF Lead, TypeOK
  <2>5. View(t)' = <<"leading", pair[t], None>> BY <2>4, SeenNext
  <2>6. \A v \in Threads \ {t} : View(v)' = View(v)
    BY <1>5, <1>inv, OthersUnseen DEF Lead, TypeOK
  <2>7. Promised!Goes(t, {"idle"}, "leading", pair[t], None)
    BY <2>3, <2>5, <2>6, OneGoes
  <2>8. QED BY <2>1, <2>7 DEF Promised!Lead
<1>6. ASSUME NEW t \in Threads, ProviderAnswers(t) \/ Recover(t) \/ Store(t)
      PROVE  UNCHANGED Promised!callVars
  <2>1. pc[t] \in Owning /\ pc'[t] \in Owning /\ promise[t] = None
    BY <1>6, <1>inv
       DEF ProviderAnswers, ProviderReturns, ProviderFails, ProviderRaises, Recover,
           ServeStale, StaleMarkRaises, PropagateFailure, Store, TypeOK, Ownership, Kept
  <2>2. UNCHANGED <<promise, pair, joined>>
    BY <1>6
       DEF ProviderAnswers, ProviderReturns, ProviderFails, ProviderRaises, Recover,
           ServeStale, StaleMarkRaises, PropagateFailure, Store
  <2>3. \A u \in Threads \ {t} : pc'[u] = pc[u] /\ ret'[u] = ret[u]
    BY <1>6, <1>inv
       DEF ProviderAnswers, ProviderReturns, ProviderFails, ProviderRaises, Recover,
           ServeStale, StaleMarkRaises, PropagateFailure, Store, TypeOK
  <2>4. PhaseOf(t) = "leading" BY <2>1 DEF PhaseOf
  <2>5. View(t) = <<"leading", pair[t], None>> BY <2>4 DEF View, SubjectOf, AnswerOf
  <2>6. View(t)' = <<"leading", pair[t], None>> BY <2>1, <2>2, SeenNext
  <2>7. \A u \in Threads \ {t} : View(u)' = View(u) BY <2>2, <2>3, OthersUnseen
  <2>8. QED BY <2>5, <2>6, <2>7, NoneGoes
<1>7. ASSUME NEW t \in Threads, Publish(t) PROVE Promised!Settle(t, ret[t])
  <2>1. pc[t] = "publish" /\ promise[t] = None /\ ret[t] \in Outcome
    BY <1>7, <1>inv DEF Publish, TypeOK, Ownership, Kept
  <2>2. PhaseOf(t) = "leading" /\ SubjectOf(t) = pair[t]
    BY <2>1 DEF PhaseOf, SubjectOf
  <2>3. Promised!Busy(pair[t], {"following"}) = Waiters(t)
    BY <1>inv, <2>1, FollowersAreWaiters
  <2>4. t \notin Waiters(t) BY <2>1 DEF Waiters
  <2>5. View(t)' = <<"settled", pair[t], ret[t]>>
    BY <1>7, <1>inv, <2>1, <2>4
       DEF Publish, TypeOK, View, PhaseOf, SubjectOf, AnswerOf
  <2>6. \A w \in Waiters(t) : View(w)' = <<"told", SubjectOf(w), ret[t]>>
    BY <1>7, <1>inv, <2>1
       DEF Publish, Waiters, TypeOK, View, PhaseOf, SubjectOf, AnswerOf
  <2>7. \A u \in Threads \ (Waiters(t) \cup {t}) : View(u)' = View(u)
    BY <1>7, <1>inv DEF Publish, TypeOK, View, PhaseOf, SubjectOf, AnswerOf
  <2>8. QED
    BY <2>2, <2>3, <2>4, <2>5, <2>6, <2>7 DEF Promised!Settle, View, Waiters
<1>8. ASSUME NEW t \in Threads, Wake(t) PROVE Promised!Leave(t)
  <2>1. PhaseOf(t) = "told" BY <1>8 DEF Wake, PhaseOf
  <2>2. AnswerOf(t) = ret[t] BY <2>1 DEF AnswerOf
  <2>3. View(t)' = <<"idle", None, AnswerOf(t)>>
    BY <1>8, <1>inv, <2>2, SeenNext DEF Wake, TypeOK
  <2>4. \A u \in Threads \ {t} : View(u)' = View(u)
    BY <1>8, <1>inv, OthersUnseen DEF Wake, TypeOK
  <2>5. Promised!Goes(t, {"settled", "told"}, "idle", None, AnswerOf(t))
    BY <2>1, <2>3, <2>4, OneGoes
  <2>6. QED BY <2>5 DEF Promised!Leave
<1>9. ASSUME NEW t \in Threads, Cleanup(t), promise[t] # None PROVE Promised!Leave(t)
  <2>1. PhaseOf(t) = "settled" BY <1>9 DEF Cleanup, PhaseOf
  <2>2. AnswerOf(t) = ret[t] BY <2>1 DEF AnswerOf
  <2>3. View(t)' = <<"idle", None, AnswerOf(t)>>
    BY <1>9, <1>inv, <2>2, SeenNext DEF Cleanup, TypeOK
  <2>4. Waiters(t) = {} BY <1>9, <1>inv DEF Waiters, Ownership, Joined
  <2>5. \A u \in Threads \ {t} :
          /\ pc'[u] = pc[u] /\ pair'[u] = pair[u] /\ ret'[u] = ret[u]
          /\ promise'[u] = promise[u] /\ joined'[u] = joined[u]
    BY <1>9, <1>inv, <2>4 DEF Cleanup, TypeOK
  <2>6. \A u \in Threads \ {t} : View(u)' = View(u) BY <2>5, OthersUnseen
  <2>7. Promised!Goes(t, {"settled", "told"}, "idle", None, AnswerOf(t))
    BY <2>1, <2>3, <2>6, OneGoes
  <2>8. QED BY <2>7 DEF Promised!Leave
<1>10. ASSUME NEW t \in Threads, Cleanup(t), promise[t] = None
       PROVE  Promised!Desert(t, ret[t]) /\ ret[t] \in ErrorOutcome
  <2>1. pc[t] = "cleanup" /\ ret[t] \in ErrorOutcome /\ pair[t] \in DerivedPairs
    BY <1>10, <1>inv DEF Cleanup, Failing, Served
  <2>2. PhaseOf(t) = "leading" /\ SubjectOf(t) = pair[t]
    BY <1>10, <2>1 DEF PhaseOf, SubjectOf
  <2>3. Promised!Busy(pair[t], {"following"}) = Waiters(t)
    BY <1>inv, <2>1, FollowersAreWaiters
  <2>4. t \notin Waiters(t) BY <2>1 DEF Waiters
  <2>5. View(t)' = <<"idle", None, ret[t]>>
    BY <1>10, <1>inv DEF Cleanup, TypeOK, View, PhaseOf, SubjectOf, AnswerOf
  <2>6. \A w \in Waiters(t) : View(w)' = <<"deserted", SubjectOf(w), AnswerOf(w)>>
    BY <1>10, <1>inv, <2>1
       DEF Cleanup, Waiters, TypeOK, View, PhaseOf, SubjectOf, AnswerOf
  <2>7. \A u \in Threads \ (Waiters(t) \cup {t}) : View(u)' = View(u)
    BY <1>10, <1>inv DEF Cleanup, TypeOK, View, PhaseOf, SubjectOf, AnswerOf
  <2>8. QED
    BY <2>1, <2>2, <2>3, <2>4, <2>5, <2>6, <2>7 DEF Promised!Desert, View, Waiters
<1>11. CASE Clear \/ Tick \/ UNCHANGED vars
  <2>1. \A u \in Threads : View(u)' = View(u)
    BY <1>11 DEF Clear, Tick, vars, View, PhaseOf, SubjectOf, AnswerOf
  <2>2. QED BY <2>1, NoneGoes
<1>12. \A t \in Threads : Advance(t) => Promised!Next \/ UNCHANGED Promised!callVars
  <2> SUFFICES ASSUME NEW t \in Threads, Advance(t)
               PROVE  Promised!Next \/ UNCHANGED Promised!callVars
    OBVIOUS
  <2>1. pair[t] \in Pairs /\ (pc[t] = "publish" => ret[t] \in RateOutcome \cup ErrorOutcome)
    BY <1>inv
       DEF TypeOK, Outcome, Advance, Lookup, Hit, Join, JoinLate, Lead, ProviderAnswers,
           ProviderReturns, ProviderFails, ProviderRaises, Recover, ServeStale,
           StaleMarkRaises, PropagateFailure, Store, Publish, Wake, Cleanup
  <2>2. CASE Hit(t) BY <1>2, <2>2 DEF Promised!Next
  <2>3. CASE Join(t) BY <1>3, <2>1, <2>3 DEF Promised!Next
  <2>4. CASE JoinLate(t) BY <1>4, <2>1, <2>4 DEF Promised!Next
  <2>5. CASE Lead(t) BY <1>5, <2>1, <2>5 DEF Promised!Next
  <2>6. CASE ProviderAnswers(t) \/ Recover(t) \/ Store(t) BY <1>6, <2>6
  <2>7. CASE Publish(t) BY <1>7, <2>1, <2>7 DEF Publish, Promised!Next
  <2>8. CASE Wake(t) BY <1>8, <2>8 DEF Promised!Next
  <2>9. CASE Cleanup(t) BY <1>9, <1>10, <2>9 DEF Promised!Next
  <2>10. QED BY <2>2, <2>3, <2>4, <2>5, <2>6, <2>7, <2>8, <2>9 DEF Advance, Lookup
<1>13. QED BY <1>1, <1>11, <1>12 DEF Next, Promised!Next

\* The threaded cache implements coalesced calls.
THEOREM CacheRefinesCoalescedCalls == Spec => RefinesCoalescedCalls
BY InitRefines, StepRefines, Invariance, FailingInvariance, PTL
   DEF Spec, RefinesCoalescedCalls, Promised!Spec

\* What coalescing is for: a thread that waits for a Future still to be
\* completed has its owner at work.
THEOREM FollowersAlwaysLed == Spec => []Promised!FollowersAreLed
<1>1. IInv => Promised!FollowersAreLed
  <2> SUFFICES ASSUME IInv, NEW w \in Threads, PhaseOf(w) = "following"
               PROVE  Promised!Busy(SubjectOf(w), {"leading"}) # {}
    BY DEF Promised!FollowersAreLed
  <2>1. pc[w] = "waiting" /\ joined[w] # None
    BY DEF IInv, TypeOK, PCs, PhaseOf, Owning
  <2>2. PICK t \in Threads : /\ pc[t] \in Owning /\ promise[t] = None
                             /\ pair[t] = pair[w]
    BY <2>1 DEF IInv, TypeOK, Ownership, Joined
  <2>3. PhaseOf(t) = "leading" BY <2>2 DEF PhaseOf, Owning
  <2>4. SubjectOf(t) = SubjectOf(w) BY <2>2, <2>3 DEF SubjectOf
  <2>5. QED BY <2>3, <2>4 DEF Promised!Busy
<1>2. QED BY <1>1, Invariance, PTL

\* ... and no two threads, the one that fetches and the one that is about to
\* drop its Future counted alike, are in charge of one pair.
THEOREM LeadersAreUnique == Spec => []Promised!OneLeader
<1>1. IInv => Promised!OneLeader
  <2> SUFFICES ASSUME IInv, NEW t \in Threads, NEW u \in Threads,
                      {PhaseOf(t), PhaseOf(u)} \subseteq {"leading", "settled"},
                      SubjectOf(t) = SubjectOf(u)
               PROVE  t = u
    BY DEF Promised!OneLeader
  <2>1. ASSUME NEW v \in {t, u} PROVE pc[v] \in Owning /\ SubjectOf(v) = pair[v]
    BY <2>1 DEF IInv, TypeOK, PCs, PhaseOf, SubjectOf, Owning
  <2>2. QED BY <2>1 DEF IInv, Ownership, Registered
<1>2. QED BY <1>1, Invariance, PTL

================================================================================
