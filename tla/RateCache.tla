------------------------------- MODULE RateCache -------------------------------
(***************************************************************************)
(* CachedRateProvider of fx.py: a bounded LRU/TTL cache of exchange rates  *)
(* shared by threads, with one in-flight provider call per currency pair.  *)
(*                                                                         *)
(* Every block the code runs under self._lock is one action; what a thread *)
(* does outside the lock (the provider call, reading the clock, completing *)
(* the Future) is an action of its own, so other threads run in between.   *)
(* A Future is named by the thread that registered it.  Completing it      *)
(* hands its outcome to the threads blocked in future.result().  A Future  *)
(* that is unregistered before it is completed keeps its waiters for ever: *)
(* their `joined' becomes None.                                            *)
(***************************************************************************)
EXTENDS QuoteCache

CONSTANT Threads  \* callers of get_rate

ASSUME ThreadsAssumption == None \notin Threads

VARIABLES
  clock,     \* what monotonic() returns
  cache,     \* _cache: entries, least recently used first
  inflight,  \* _inflight: the thread whose Future is registered for a pair
  promise,   \* the outcome of the Future a thread registered, None until set
  pc,        \* where a thread is in get_rate
  pair,      \* its key
  now,       \* its `now', sampled before the lock
  stale,     \* its `stale' entry, as a set of at most one entry
  joined,    \* the owner of the Future it waits for
  ret        \* the rate or error it holds, or last returned

vars == <<clock, cache, inflight, promise, pc, pair, now, stale, joined, ret>>

Fresh(t) == FreshSlots(cache, pair[t], now[t])

\* Mutant of Waiters: every blocked thread is taken for a waiter of t.
AllWaiters(t) == {w \in Threads : pc[w] = "waiting"}

\* The threads blocked in result() of t's Future.
Waiters(t) == {w \in Threads : pc[w] = "waiting" /\ joined[w] = t}

--------------------------------------------------------------------------------
Init ==
  /\ clock = 0
  /\ cache = << >>
  /\ inflight = [p \in Pairs |-> None]
  /\ promise = [t \in Threads |-> None]
  /\ pc = [t \in Threads |-> "idle"]
  /\ pair = [t \in Threads |-> None]
  /\ now = [t \in Threads |-> 0]
  /\ stale = [t \in Threads |-> {}]
  /\ joined = [t \in Threads |-> None]
  /\ ret = [t \in Threads |-> None]

\* get_rate is entered and samples the clock, before it takes the lock.
Call(t, p) ==
  /\ pc[t] = "idle"
  /\ pc' = [pc EXCEPT ![t] = "lookup"]
  /\ pair' = [pair EXCEPT ![t] = p]
  /\ now' = [now EXCEPT ![t] = clock]
  /\ ret' = [ret EXCEPT ![t] = None]
  /\ UNCHANGED <<clock, cache, inflight, promise, stale, joined>>

\* The locked block, fresh entry: it becomes the most recent and is returned.
Hit(t) ==
  /\ pc[t] = "lookup"
  /\ \E i \in Fresh(t) :
       /\ cache' = MovedToEnd(cache, i)
       /\ ret' = [ret EXCEPT ![t] = Returned(cache[i].rate)]
  /\ pc' = [pc EXCEPT ![t] = "idle"]
  /\ now' = [now EXCEPT ![t] = 0]
  /\ UNCHANGED <<clock, inflight, promise, pair, stale, joined>>

\* The locked block, another thread's Future is registered and still pending:
\* the thread blocks in future.result().
Join(t) ==
  /\ pc[t] = "lookup"
  /\ Fresh(t) = {}
  /\ inflight[pair[t]] # None
  /\ promise[inflight[pair[t]]] = None
  /\ pc' = [pc EXCEPT ![t] = "waiting"]
  /\ joined' = [joined EXCEPT ![t] = inflight[pair[t]]]
  /\ now' = [now EXCEPT ![t] = 0]
  /\ UNCHANGED <<clock, cache, inflight, promise, pair, stale, ret>>

\* The same, but the Future is already completed and not yet unregistered:
\* future.result() returns or raises at once.
JoinLate(t) ==
  /\ pc[t] = "lookup"
  /\ Fresh(t) = {}
  /\ inflight[pair[t]] # None
  /\ promise[inflight[pair[t]]] # None
  /\ pc' = [pc EXCEPT ![t] = "woken"]
  /\ ret' = [ret EXCEPT ![t] = promise[inflight[pair[t]]]]
  /\ now' = [now EXCEPT ![t] = 0]
  /\ UNCHANGED <<clock, cache, inflight, promise, pair, stale, joined>>

\* Mutant of Lead: it does not look for a Future that is already registered.
LeadUnchecked(t) ==
  /\ pc[t] = "lookup"
  /\ Fresh(t) = {}
  /\ inflight' = [inflight EXCEPT ![pair[t]] = t]
  /\ stale' = [stale EXCEPT ![t] = Cached(cache, pair[t])]
  /\ pc' = [pc EXCEPT ![t] = "calling"]
  /\ now' = [now EXCEPT ![t] = 0]
  /\ UNCHANGED <<clock, cache, promise, pair, joined, ret>>

\* The locked block, nothing in flight: register a Future, remember the
\* expired entry, and leave the lock to call the inner provider.
Lead(t) ==
  /\ pc[t] = "lookup"
  /\ Fresh(t) = {}
  /\ inflight[pair[t]] = None
  /\ inflight' = [inflight EXCEPT ![pair[t]] = t]
  /\ stale' = [stale EXCEPT ![t] = Cached(cache, pair[t])]
  /\ pc' = [pc EXCEPT ![t] = "calling"]
  /\ now' = [now EXCEPT ![t] = 0]
  /\ UNCHANGED <<clock, cache, promise, pair, joined, ret>>

\* self._inner.get_rate returns a rate.
ProviderReturns(t) ==
  /\ pc[t] = "calling"
  /\ \E rate \in Quotable(pair[t], clock) :
       ret' = [ret EXCEPT ![t] = Returned(rate)]
  /\ pc' = [pc EXCEPT ![t] = "fetched"]
  /\ UNCHANGED <<clock, cache, inflight, promise, pair, now, stale, joined>>

\* It raises ProviderError; the except block has not read the clock yet.
ProviderFails(t) ==
  /\ pc[t] = "calling"
  /\ pc' = [pc EXCEPT ![t] = "failed"]
  /\ UNCHANGED <<clock, cache, inflight, promise, pair, now, stale, joined, ret>>

\* Mutant of ProviderRaises: no except BaseException, straight to finally.
RaisesUnpublished(t) ==
  /\ pc[t] = "calling"
  /\ pc' = [pc EXCEPT ![t] = "cleanup"]
  /\ ret' = [ret EXCEPT ![t] = Raised("OtherError")]
  /\ UNCHANGED <<clock, cache, inflight, promise, pair, now, stale, joined>>

\* It raises anything else (RateUnavailableError, KeyboardInterrupt, ...).
ProviderRaises(t) ==
  /\ pc[t] = "calling"
  /\ pc' = [pc EXCEPT ![t] = "publish"]
  /\ ret' = [ret EXCEPT ![t] = Raised("OtherError")]
  /\ UNCHANGED <<clock, cache, inflight, promise, pair, now, stale, joined>>

\* ProviderError with an expired quote inside the window: it is marked and
\* will be published as the result.
ServeStale(t) ==
  /\ pc[t] = "failed"
  /\ \E e \in Usable(stale[t], clock) :
       /\ CanMarkStale(e.rate)
       /\ ret' = [ret EXCEPT ![t] = Returned(MarkedStale(e.rate))]
  /\ pc' = [pc EXCEPT ![t] = "publish"]
  /\ UNCHANGED <<clock, cache, inflight, promise, pair, now, stale, joined>>

\* The same for a DERIVED quote: the constructor raises InvalidRateError
\* inside the except block, whose set_result and set_exception are skipped.
StaleMarkRaises(t) ==
  /\ pc[t] = "failed"
  /\ \E e \in Usable(stale[t], clock) : ~CanMarkStale(e.rate)
  /\ ret' = [ret EXCEPT ![t] = Raised("InvalidRateError")]
  /\ pc' = [pc EXCEPT ![t] = "cleanup"]
  /\ UNCHANGED <<clock, cache, inflight, promise, pair, now, stale, joined>>

\* Mutant of PropagateFailure: the Future is given no exception.
PropagateNothing(t) ==
  /\ pc[t] = "failed"
  /\ Usable(stale[t], clock) = {}
  /\ pc' = [pc EXCEPT ![t] = "publish"]
  /\ UNCHANGED <<clock, cache, inflight, promise, pair, now, stale, joined, ret>>

\* ProviderError with no usable expired quote: the error will be published.
PropagateFailure(t) ==
  /\ pc[t] = "failed"
  /\ Usable(stale[t], clock) = {}
  /\ ret' = [ret EXCEPT ![t] = Raised("ProviderError")]
  /\ pc' = [pc EXCEPT ![t] = "publish"]
  /\ UNCHANGED <<clock, cache, inflight, promise, pair, now, stale, joined>>

\* The locked block of the success path: store, make most recent, evict.
Store(t) ==
  /\ pc[t] = "fetched"
  /\ cache' = Stored(cache, ret[t].rate, clock)
  /\ pc' = [pc EXCEPT ![t] = "publish"]
  /\ UNCHANGED <<clock, inflight, promise, pair, now, stale, joined, ret>>

\* future.set_result or future.set_exception: every thread blocked on this
\* Future is woken with its outcome.
Publish(t) ==
  /\ pc[t] = "publish"
  /\ promise' = [promise EXCEPT ![t] = ret[t]]
  /\ ret' = [w \in Threads |-> IF w \in Waiters(t) THEN ret[t] ELSE ret[w]]
  /\ pc' = [w \in Threads |-> IF w \in Waiters(t) THEN "woken"
                              ELSE IF w = t THEN "cleanup" ELSE pc[w]]
  /\ joined' = [w \in Threads |-> IF w \in Waiters(t) THEN None ELSE joined[w]]
  /\ UNCHANGED <<clock, cache, inflight, pair, now, stale>>

\* future.result() returns or raises in a woken thread.
Wake(t) ==
  /\ pc[t] = "woken"
  /\ pc' = [pc EXCEPT ![t] = "idle"]
  /\ UNCHANGED <<clock, cache, inflight, promise, pair, now, stale, joined, ret>>

\* The finally block: unregister the Future and return or re-raise.  Threads
\* still blocked on it have nobody left to complete it.
Cleanup(t) ==
  /\ pc[t] = "cleanup"
  /\ inflight' = [inflight EXCEPT ![pair[t]] = None]
  /\ promise' = [promise EXCEPT ![t] = None]
  /\ joined' = [w \in Threads |-> IF w \in Waiters(t) THEN None ELSE joined[w]]
  /\ stale' = [stale EXCEPT ![t] = {}]
  /\ pc' = [pc EXCEPT ![t] = "idle"]
  /\ UNCHANGED <<clock, cache, pair, now, ret>>

\* Mutant of Clear: it drops the in-flight Futures as well.
ClearInflight ==
  /\ cache # << >>
  /\ cache' = << >>
  /\ inflight' = [p \in Pairs |-> None]
  /\ UNCHANGED <<clock, promise, pc, pair, now, stale, joined, ret>>

\* clear(): forget every quote, leave the in-flight calls alone.
Clear ==
  /\ cache # << >>
  /\ cache' = << >>
  /\ UNCHANGED <<clock, inflight, promise, pc, pair, now, stale, joined, ret>>

\* Time passes, up to the bound.
Tick ==
  /\ clock < MaxTime
  /\ clock' = clock + 1
  /\ UNCHANGED <<cache, inflight, promise, pc, pair, now, stale, joined, ret>>

\* What a thread does by itself once it has called get_rate.
Lookup(t) == Hit(t) \/ Join(t) \/ JoinLate(t) \/ Lead(t)
ProviderAnswers(t) == ProviderReturns(t) \/ ProviderFails(t) \/ ProviderRaises(t)
Recover(t) == ServeStale(t) \/ StaleMarkRaises(t) \/ PropagateFailure(t)
Advance(t) ==
  \/ Lookup(t)
  \/ ProviderAnswers(t)
  \/ Recover(t)
  \/ Store(t)
  \/ Publish(t)
  \/ Wake(t)
  \/ Cleanup(t)

Next ==
  \/ \E t \in Threads : Advance(t) \/ \E p \in Pairs : Call(t, p)
  \/ Clear
  \/ Tick

\* A thread inside get_rate is eventually scheduled, and the inner provider
\* eventually answers or raises (the HTTP adapter's client has a timeout).
Fairness == \A t \in Threads : WF_vars(Advance(t))

Spec == Init /\ [][Next]_vars /\ Fairness

--------------------------------------------------------------------------------
Owning == {"calling", "fetched", "failed", "publish", "cleanup"}
Leading == Owning \ {"cleanup"}
PCs == Owning \cup {"idle", "lookup", "waiting", "woken"}

\* Every variable has its type, and a thread has a pair once it has called.
TypeOK ==
  /\ clock \in Time
  /\ cache \in Seq(Entry)
  /\ inflight \in [Pairs -> Threads \cup {None}]
  /\ promise \in [Threads -> Outcome \cup {None}]
  /\ pc \in [Threads -> PCs]
  /\ pair \in [Threads -> Pairs \cup {None}]
  /\ now \in [Threads -> Time]
  /\ stale \in [Threads -> SUBSET Entry]
  /\ joined \in [Threads -> Threads \cup {None}]
  /\ ret \in [Threads -> Outcome \cup {None}]
  /\ \A t \in Threads : pc[t] # "idle" => pair[t] \in Pairs
  /\ \A t \in Threads : pc[t] = "fetched" => ret[t] \in RateOutcome
  /\ \A t \in Threads : pc[t] \in {"publish", "cleanup", "woken"} => ret[t] \in Outcome

\* Between registering its Future and unregistering it, a thread is the only
\* one to call the provider for its pair ("per-key single-flight protection").
SingleFlight ==
  \A t, u \in Threads :
    pc[t] \in Owning /\ pc[u] \in Owning /\ pair[t] = pair[u] => t = u

\* Another thread is fetching w's pair and has yet to complete w's Future.
Led(w) ==
  \E t \in Threads : joined[w] = t /\ pc[t] \in Leading /\ pair[t] = pair[w]

\* "The owner must publish every terminal outcome to synchronous waiters"
\* (fx.py 596-598): no thread is left blocked in future.result().
NoStrandedWaiter == \A w \in Threads : pc[w] = "waiting" => Led(w)

\* The part of it the code achieves: no thread that waits for a pair the
\* provider quotes directly is left blocked, whatever fails and whenever.
DirectPairsNeverStrand ==
  \A w \in Threads : pc[w] = "waiting" /\ pair[w] \notin DerivedPairs => Led(w)

\* The expired entry an owner remembered under the lock, and may serve after
\* the lock was released, is still what the cache holds, unless the pair was
\* cleared or evicted: no newer quote is shadowed by an older fallback.
SnapshotIsCurrent ==
  \A t \in Threads : pc[t] \in {"calling", "fetched", "failed"} =>
    \A i \in Slots(cache, pair[t]) : stale[t] = {cache[i]}

\* The OrderedDict holds at most maxsize quotes, one per pair, each for the
\* pair it is filed under, and never a quote already served as a fallback
\* (which would give an expired quote a new lifetime).
CacheWellFormed ==
  /\ Len(cache) <= MaxSize
  /\ \A i, j \in DOMAIN cache : cache[i].pair = cache[j].pair => i = j
  /\ \A i \in DOMAIN cache :
       cache[i].rate.pair = cache[i].pair /\ ~cache[i].rate.marked

\* Whatever thread fetched it, a rate get_rate returns is for the pair asked.
AnswersMatchPair ==
  \A t \in Threads : pc[t] = "idle" /\ ret[t] # None =>
    (ret[t].type = "rate" => ret[t].rate.pair = pair[t])

\* A quote is replaced only by one the provider gave no earlier: fetches of
\* one pair cannot overtake each other on their way into the cache.
QuotesMoveForward ==
  [][\A i \in DOMAIN cache, j \in DOMAIN cache' :
       cache[i].pair = cache'[j].pair => cache[i].rate.at <= cache'[j].rate.at]_cache

\* Every get_rate call for a pair the provider quotes directly eventually
\* returns or raises.
CallsReturn ==
  \A t \in Threads, p \in Pairs \ DerivedPairs :
    pc[t] = "lookup" /\ pair[t] = p ~> pc[t] = "idle"

--------------------------------------------------------------------------------
\* The same behaviour seen by a caller, as CoalescedCalls describes it: until
\* the lookup a call is nobody's business, and the rate or error an owner holds
\* privately is not an answer until its Future is completed.
PhaseOf(t) ==
  CASE pc[t] \in {"idle", "lookup"} -> "idle"
    [] pc[t] = "waiting" -> IF joined[t] = None THEN "deserted" ELSE "following"
    [] pc[t] = "woken" -> "told"
    [] pc[t] \in Owning -> IF promise[t] = None THEN "leading" ELSE "settled"

SubjectOf(t) == IF PhaseOf(t) = "idle" THEN None ELSE pair[t]
AnswerOf(t) == IF PhaseOf(t) = "leading" THEN None ELSE ret[t]

Promised == INSTANCE CoalescedCalls WITH
  Callers <- Threads,
  Quotes <- RateOutcome,
  Failures <- ErrorOutcome,
  Interrupts <- {},
  Fragile <- DerivedPairs,
  phase <- [t \in Threads |-> PhaseOf(t)],
  subject <- [t \in Threads |-> SubjectOf(t)],
  answer <- [t \in Threads |-> AnswerOf(t)]

\* The threads, the lock and the Futures implement coalesced calls; only a
\* pair that is quoted as a derived rate can lose its followers.
RefinesCoalescedCalls == Promised!Spec

================================================================================
