---------------------------- MODULE AsyncRateCache ----------------------------
(***************************************************************************)
(* AsyncCachedRateProvider of fx.py: the cache of RateCache shared by the  *)
(* tasks of one event loop.  A task runs undisturbed between two awaits    *)
(* that suspend it; the bodies under `async with self._lock' await         *)
(* nothing, so the lock is never contended and does not suspend.  What is  *)
(* left is one action from the entry of get_rate to the await of the       *)
(* provider or of a shielded Future, and one from there to its end.        *)
(*                                                                         *)
(* A task may be cancelled at either await.  Cancelling a waiter leaves    *)
(* the Future alone (asyncio.shield); cancelling the owner cancels the     *)
(* Future, so every waiter ends with CancelledError too.  A Future is      *)
(* named by the task that created it, as in RateCache.                     *)
(***************************************************************************)
EXTENDS QuoteCache

CONSTANT Tasks  \* callers of get_rate

ASSUME TasksAssumption == None \notin Tasks

VARIABLES
  clock,     \* what monotonic() returns
  cache,     \* _cache: entries, least recently used first
  inflight,  \* _inflight: the task whose Future is registered for a pair
  pc,        \* where a task is in get_rate
  pair,      \* its key
  stale,     \* its `stale' entry, as a set of at most one entry
  joined,    \* the owner of the Future it awaits
  ret        \* the outcome it was given, or last ended with

vars == <<clock, cache, inflight, pc, pair, stale, joined, ret>>

Waiters(t) == {w \in Tasks : pc[w] = "waiting" /\ joined[w] = t}

--------------------------------------------------------------------------------
Init ==
  /\ clock = 0
  /\ cache = << >>
  /\ inflight = [p \in Pairs |-> None]
  /\ pc = [t \in Tasks |-> "idle"]
  /\ pair = [t \in Tasks |-> None]
  /\ stale = [t \in Tasks |-> {}]
  /\ joined = [t \in Tasks |-> None]
  /\ ret = [t \in Tasks |-> None]

\* get_rate returns a fresh quote without suspending.
Hit(t, p) ==
  /\ pc[t] = "idle"
  /\ \E i \in FreshSlots(cache, p, clock) :
       /\ cache' = MovedToEnd(cache, i)
       /\ ret' = [ret EXCEPT ![t] = Returned(cache[i].rate)]
  /\ pair' = [pair EXCEPT ![t] = p]
  /\ UNCHANGED <<clock, inflight, pc, stale, joined>>

\* Mutant of Suspends: the key is not remembered.
SuspendsUnkeyed(t, p, to) ==
  /\ pc[t] = "idle"
  /\ FreshSlots(cache, p, clock) = {}
  /\ pc' = [pc EXCEPT ![t] = to]
  /\ ret' = [ret EXCEPT ![t] = None]
  /\ UNCHANGED <<clock, cache, pair>>

\* get_rate suspends: the task is `to', for pair p, and has no outcome yet.
Suspends(t, p, to) ==
  /\ pc[t] = "idle"
  /\ FreshSlots(cache, p, clock) = {}
  /\ pc' = [pc EXCEPT ![t] = to]
  /\ pair' = [pair EXCEPT ![t] = p]
  /\ ret' = [ret EXCEPT ![t] = None]
  /\ UNCHANGED <<clock, cache>>

\* A Future is registered for the pair: the task awaits shield(future).
Join(t, p) ==
  /\ inflight[p] # None
  /\ Suspends(t, p, "waiting")
  /\ joined' = [joined EXCEPT ![t] = inflight[p]]
  /\ UNCHANGED <<inflight, stale>>

\* None is: the task registers one and awaits the inner provider.
Lead(t, p) ==
  /\ inflight[p] = None
  /\ Suspends(t, p, "calling")
  /\ inflight' = [inflight EXCEPT ![p] = t]
  /\ stale' = [stale EXCEPT ![t] = Cached(cache, p)]
  /\ UNCHANGED joined

\* The await of the provider is over: the task ends with `mine', completes
\* its Future (`told' is what its waiters will get) and unregisters it.
Completes(t, mine, told) ==
  /\ inflight' = [inflight EXCEPT ![pair[t]] = None]
  /\ stale' = [stale EXCEPT ![t] = {}]
  /\ pc' = [w \in Tasks |-> IF w = t THEN "idle"
                            ELSE IF w \in Waiters(t) THEN "told" ELSE pc[w]]
  /\ ret' = [w \in Tasks |-> IF w = t THEN mine
                             ELSE IF w \in Waiters(t) THEN told ELSE ret[w]]
  /\ joined' = [w \in Tasks |-> IF w \in Waiters(t) THEN None ELSE joined[w]]
  /\ UNCHANGED <<clock, pair>>

\* The provider returned a rate: store it, evict, complete the Future.
OwnerReturns(t) ==
  /\ pc[t] = "calling"
  /\ \E rate \in Quotable(pair[t], clock) :
       /\ cache' = Stored(cache, rate, clock)
       /\ Completes(t, Returned(rate), Returned(rate))

\* ProviderError: the remembered quote if it is still usable, else the error.
OwnerFails(t) ==
  /\ pc[t] = "calling"
  /\ \/ /\ Usable(stale[t], clock) = {}
        /\ Completes(t, Raised("ProviderError"), Raised("ProviderError"))
     \/ \E e \in Usable(stale[t], clock) :
          /\ CanMarkStale(e.rate)
          /\ Completes(t, Returned(MarkedStale(e.rate)), Returned(MarkedStale(e.rate)))
  /\ UNCHANGED cache

\* ProviderError with a usable DERIVED quote: marking it raises
\* InvalidRateError, the Future is unregistered without being completed, and
\* its waiters have nobody left to complete it.
StaleMarkRaises(t) ==
  /\ pc[t] = "calling"
  /\ \E e \in Usable(stale[t], clock) : ~CanMarkStale(e.rate)
  /\ inflight' = [inflight EXCEPT ![pair[t]] = None]
  /\ stale' = [stale EXCEPT ![t] = {}]
  /\ pc' = [pc EXCEPT ![t] = "idle"]
  /\ ret' = [ret EXCEPT ![t] = Raised("InvalidRateError")]
  /\ joined' = [w \in Tasks |-> IF w \in Waiters(t) THEN None ELSE joined[w]]
  /\ UNCHANGED <<clock, cache, pair>>

\* The provider raised anything else (RateUnavailableError, ...).
OwnerRaises(t) ==
  /\ pc[t] = "calling"
  /\ Completes(t, Raised("OtherError"), Raised("OtherError"))
  /\ UNCHANGED cache

\* Mutant of OwnerCancelled: future.cancel() is missing.
OwnerCancelledSilently(t) ==
  /\ pc[t] = "calling"
  /\ inflight' = [inflight EXCEPT ![pair[t]] = None]
  /\ stale' = [stale EXCEPT ![t] = {}]
  /\ pc' = [pc EXCEPT ![t] = "idle"]
  /\ ret' = [ret EXCEPT ![t] = Raised("CancelledError")]
  /\ joined' = [w \in Tasks |-> IF w \in Waiters(t) THEN None ELSE joined[w]]
  /\ UNCHANGED <<clock, cache, pair>>

\* The owner is cancelled at its await: future.cancel(), then re-raise.
OwnerCancelled(t) ==
  /\ pc[t] = "calling"
  /\ Completes(t, Raised("CancelledError"), Raised("CancelledError"))
  /\ UNCHANGED cache

\* A task whose Future is complete resumes and returns or raises.
Resume(t) ==
  /\ pc[t] = "told"
  /\ pc' = [pc EXCEPT ![t] = "idle"]
  /\ UNCHANGED <<clock, cache, inflight, pair, stale, joined, ret>>

\* Mutant of WaiterCancelled: without asyncio.shield the Future is cancelled,
\* and with it everyone who awaits it.
WaiterCancelledUnshielded(t) ==
  LET fellows == IF pc[t] = "waiting" /\ joined[t] # None
                 THEN Waiters(joined[t]) \ {t} ELSE {}
  IN /\ pc[t] \in {"waiting", "told"}
     /\ pc' = [w \in Tasks |-> IF w = t THEN "idle"
                               ELSE IF w \in fellows THEN "told" ELSE pc[w]]
     /\ ret' = [w \in Tasks |-> IF w \in fellows \cup {t}
                                THEN Raised("CancelledError") ELSE ret[w]]
     /\ joined' = [w \in Tasks |-> IF w \in fellows \cup {t} THEN None ELSE joined[w]]
     /\ UNCHANGED <<clock, cache, inflight, pair, stale>>

\* Mutant of WaiterCancelled: the finally block runs for waiters too.
WaiterCancelledUnregisters(t) ==
  /\ pc[t] \in {"waiting", "told"}
  /\ pc' = [pc EXCEPT ![t] = "idle"]
  /\ ret' = [ret EXCEPT ![t] = Raised("CancelledError")]
  /\ joined' = [joined EXCEPT ![t] = None]
  /\ inflight' = [inflight EXCEPT ![pair[t]] = None]
  /\ UNCHANGED <<clock, cache, pair, stale>>

\* A waiter is cancelled, before or after its Future was completed.
WaiterCancelled(t) ==
  /\ pc[t] \in {"waiting", "told"}
  /\ pc' = [pc EXCEPT ![t] = "idle"]
  /\ ret' = [ret EXCEPT ![t] = Raised("CancelledError")]
  /\ joined' = [joined EXCEPT ![t] = None]
  /\ UNCHANGED <<clock, cache, inflight, pair, stale>>

\* clear(): forget every quote, leave the in-flight calls alone.
Clear ==
  /\ cache # << >>
  /\ cache' = << >>
  /\ UNCHANGED <<clock, inflight, pc, pair, stale, joined, ret>>

Tick ==
  /\ clock < MaxTime
  /\ clock' = clock + 1
  /\ UNCHANGED <<cache, inflight, pc, pair, stale, joined, ret>>

\* The provider's await ends by itself, and a completed Future is noticed.
Answered(t) ==
  OwnerReturns(t) \/ OwnerFails(t) \/ StaleMarkRaises(t) \/ OwnerRaises(t) \/ Resume(t)

Cancelled(t) == OwnerCancelled(t) \/ WaiterCancelled(t)

Next ==
  \/ \E t \in Tasks :
       \/ \E p \in Pairs : Hit(t, p) \/ Join(t, p) \/ Lead(t, p)
       \/ Answered(t)
       \/ Cancelled(t)
  \/ Clear
  \/ Tick

\* The event loop resumes a task whose await is over, and the inner provider
\* answers eventually (the HTTP adapter's client has a timeout).
Fairness == \A t \in Tasks : WF_vars(Answered(t))

Spec == Init /\ [][Next]_vars /\ Fairness

--------------------------------------------------------------------------------
\* Every variable has its type, and a suspended task has a pair.
TypeOK ==
  /\ clock \in Time
  /\ cache \in Seq(Entry)
  /\ inflight \in [Pairs -> Tasks \cup {None}]
  /\ pc \in [Tasks -> {"idle", "calling", "waiting", "told"}]
  /\ pair \in [Tasks -> Pairs \cup {None}]
  /\ stale \in [Tasks -> SUBSET Entry]
  /\ joined \in [Tasks -> Tasks \cup {None}]
  /\ ret \in [Tasks -> Outcome \cup {None}]
  /\ \A t \in Tasks : pc[t] # "idle" => pair[t] \in Pairs

\* One task at a time awaits the provider for a pair, cancellations included.
SingleFlight ==
  \A t, u \in Tasks :
    pc[t] = "calling" /\ pc[u] = "calling" /\ pair[t] = pair[u] => t = u

Led(w) ==
  \E t \in Tasks : joined[w] = t /\ pc[t] = "calling" /\ pair[t] = pair[w]

\* "Single-flight waiters must be completed even for process-level terminal
\* exceptions" (fx.py 701-703): a task waiting for a pair the provider quotes
\* directly always has an owner at work, whoever fails or is cancelled.
DirectPairsNeverStrand ==
  \A w \in Tasks : pc[w] = "waiting" /\ pair[w] \notin DerivedPairs => Led(w)

\* The expired entry an owner took along into its await is still what the
\* cache holds when it comes back, unless the pair was cleared or evicted.
SnapshotIsCurrent ==
  \A t \in Tasks : pc[t] = "calling" =>
    \A i \in Slots(cache, pair[t]) : stale[t] = {cache[i]}

\* At most maxsize quotes, one per pair, none of them a served fallback.
CacheWellFormed ==
  /\ Len(cache) <= MaxSize
  /\ \A i, j \in DOMAIN cache : cache[i].pair = cache[j].pair => i = j
  /\ \A i \in DOMAIN cache :
       cache[i].rate.pair = cache[i].pair /\ ~cache[i].rate.marked

\* The four together, with cancellation at every await: what an owner finds
\* after the provider call is what it left, and nobody was lost meanwhile.
CacheIsSound ==
  SingleFlight /\ DirectPairsNeverStrand /\ SnapshotIsCurrent /\ CacheWellFormed

\* Cancellation does not travel sideways: a task that is still wanted is told
\* CancelledError only in the step in which the owner of its fetch was
\* itself cancelled, never because another waiter gave up.
CancellationComesFromOwner ==
  [][\A w \in Tasks :
       /\ pc[w] = "waiting" /\ pc'[w] = "told"
       /\ ret'[w] = Raised("CancelledError")
       => \E t \in Tasks : /\ joined[w] = t /\ pc[t] = "calling"
                           /\ pc'[t] = "idle" /\ ret'[t] = ret'[w]]_vars

--------------------------------------------------------------------------------
\* The same behaviour as CoalescedCalls describes it.
PhaseOf(t) ==
  CASE pc[t] = "calling" -> "leading"
    [] pc[t] = "waiting" -> IF joined[t] = None THEN "deserted" ELSE "following"
    [] OTHER -> pc[t]

Promised == INSTANCE CoalescedCalls WITH
  Callers <- Tasks,
  Quotes <- RateOutcome,
  Failures <- ErrorOutcome,
  Interrupts <- {Raised("CancelledError")},
  Fragile <- DerivedPairs,
  phase <- [t \in Tasks |-> PhaseOf(t)],
  subject <- [t \in Tasks |-> IF pc[t] = "idle" THEN None ELSE pair[t]],
  answer <- ret

\* The event loop, the shielded Futures and cancellation implement coalesced
\* calls, with cancellation as their only interruption; only a pair that is
\* quoted as a derived rate can lose its followers.
RefinesCoalescedCalls == Promised!Spec

================================================================================
