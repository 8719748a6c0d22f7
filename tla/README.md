# moneytender in TLA+

This directory is a verification project for `moneytender`, a Python library
for money and currency conversion. It models the parts of the library that
keep state and are shared by threads or asyncio tasks, model-checks them with
TLC on small instances, and proves their main safety properties with TLAPS for
every value of the constants.

Source paths below are relative to `src/src/moneytender/`; documents are in
`src/docs/`.

## 1. The system

`moneytender` converts a `Money` (an integer count of minor units) into another
currency with an `ExchangeRate` that comes from a *provider*: any object with
`get_rate(base, quote)`. Everything between the application and the HTTP
adapter is a provider that wraps another one, and the presets compose them:

    upstream -> retry -> (rate limit) -> circuit \
    upstream -> retry -> (rate limit) -> circuit -> chain -> cache -> audit -> observation -> converter

A provider returns a rate or raises: `ProviderError` (an operational failure;
`CircuitOpenError` is one), `RateUnavailableError` (the pair is not offered;
*not* a `ProviderError`), or anything else (`InvalidRateError`, decoding errors,
`KeyboardInterrupt`, `asyncio.CancelledError`). Which of the three classes an
exception belongs to decides what every layer does with it, and most of what is
hard in this code is a layer meeting a class it has no handler for.

| Component | Source | State | Operations | What is hard | What makes it correct |
|---|---|---|---|---|---|
| Threaded cache | `fx.py` 509-611 | `_cache` (LRU `OrderedDict`), `_inflight` (a `Future` per pair), an `RLock` | `get_rate`, `clear`, `size` | the lock is released around the provider call; the snapshot of the expired entry is used after it; the owner must complete its Future on every path | one fetch per pair; waiters get that fetch's outcome; nobody hangs; bounded, no duplicates; a fallback never shadows or replaces newer data |
| Asyncio cache | `fx.py` 614-718 | the same with `asyncio.Future` and `asyncio.Lock` | the same | cancellation of an owner or of a waiter at any await | the same, and a cancelled waiter affects nobody else |
| Circuit breakers | `resilience.py` 283-640 | `_failures`, `_opened_at`, `_half_open_probe`, for a provider or per pair | `get_rate`, `snapshot` | calls admitted under one state end under another | fields agree; one probe at a time; fails fast until recovery; recovers |
| Token bucket | `resilience.py` 84-183 | `_tokens`, `_updated_at` | `get_rate` | the delay is slept outside the lock and nothing is reserved | never more calls than the policy allows; nobody waits in vain |
| Retry | `resilience.py` 186-274 | none between calls | `get_rate` | sleeps while the world changes; last error decides | bounded attempts; error class kept |
| Chain | `fx.py` 445-506 | none between calls | `get_rate` | mixture of failures and unavailability | priority order; unavailable only if all say so |
| Presets | `presets.py` | none | builders | order of the layers | the composition above |
| Derived rates, policy | `fx.py` 239-442, 904-955; `policy.py` | none | inverse, triangulation, validation | concurrent legs (asyncio), timestamps of combined rates, what a policy can still see | derived rates are marked; freshness is that of the oldest leg; policies reject what they say |
| Converter | `fx.py` 721-873, 958-989 | none of its own; shares the registry | `convert`, `convert_with_rate`, `replay` | the registry changes while the provider is awaited | an audited quote, one rounding, results that replay |
| Observation, audit | `observability.py` | none | `get_rate` | hooks that fail or are cancelled | a hook changes the outcome only in fail-closed mode; cancellation survives |
| Currency registry | `registry.py` | `_currencies`, `_frozen`, an `RLock` | `register`, `register_many`, `unregister`, `freeze`, `clone`, reads | batches, frozen registries | all or nothing; frozen means frozen |
| Money, rounding | `money.py`, `rounding.py`, `_numeric.py`, `types.py` | none (immutable values) | arithmetic, `split`, `allocate`, `cash_round` | negative amounts, remainders | no minor unit is lost or created |
| Frankfurter adapter | `providers/frankfurter.py` | none | `get_rate`, `close` | which class of exception each bad reply becomes | the classes the layers above tell apart |
| Serialization | `serialization.py`, `adapters/database.py` | none | `to_dict`, `from_dict` | stored amounts outlive definitions | loaded with the same definition, money is the same |
| Formatting, ORM adapters, ISO data, plugins | `formatting.py`, `adapters/`, `iso4217.py`, `plugins.py` | none | conversions | none that a state machine shows | out of scope |

Components share state only through the object graph: callers share the one
cache object, and through it the circuits, buckets and registry. There is no
persistence, so no crash recovery; there is no message passing beyond Futures.

## 2. The modules

| Module | Models | Lines of thought |
|---|---|---|
| `QuoteCache` | the data both caches share: rates, outcomes, the `OrderedDict` and its operations, the stale window | an `OrderedDict` is a sequence of entries, least recently used first |
| `RateCache` | `CachedRateProvider` used by threads | extends `QuoteCache` |
| `AsyncRateCache` | `AsyncCachedRateProvider` used by tasks of one loop | extends `QuoteCache` |
| `CoalescedCalls` | what both caches promise: per pair one leader, followers told its outcome at one instant | abstract; implemented by both |
| `CircuitBreaker` | one circuit: the provider-wide one, or one pair's entry (`PairScoped`) | |
| `TokenBucket` | `RateLimitedRateProvider` | |
| `ProviderStack` | retry, circuit and chain as the presets compose them, with several callers | each of its circuits implements `CircuitBreaker` |
| `Failover` | what the chain promises, without retries, circuits or time | abstract; implemented by `ProviderStack` |
| `HookedCall` | one audited and observed call of `observability.py`, sync and async | wraps the cache, whose outcomes are its provider's |
| `RatePolicies` | what derived rates carry on from the quotes they are computed from, and which rates a `RatePolicy` accepts; the policies of the presets | pure operators; two history fields tell how a rate really came about |
| `DerivedRates` | a call through the inverse and the triangulating provider, nested either way, sync and async | extends `RatePolicies` |
| `MinorUnits` | rounding, applying a rate, cash rounding, splitting and allocating | pure operators over rationals; `Rounds` is the reference definition of rounding |
| `Conversion` | a converter over a `HookedCall`, and a registry that changes under it | extends `MinorUnits`, composes `HookedCall` |
| `MC*` | the modules TLC runs | |
| `*Proofs` | the theorems, section 6 | |

Definitions named "Mutant of X" just before a definition X are what a plausible
slip in the code would turn X into. They are not part of any specification: for
each property a run checks, one of them shows that the property would notice.

### RateCache

Each block that runs under `self._lock` is one action, and each thing a thread
does outside the lock is another, so other threads run in between:

| Action | Code (`fx.py`) |
|---|---|
| `Call` | 561-566: the clock is read *before* the lock is taken |
| `Hit`, `Join`, `JoinLate`, `Lead` | 568-583: the locked lookup. A fresh entry is returned and made most recent; otherwise a registered Future is joined, or a new one is registered and the expired entry remembered |
| `ProviderReturns`, `ProviderFails`, `ProviderRaises` | 585-588, 595: the inner provider, which may do anything at any time |
| `ServeStale`, `StaleMarkRaises`, `PropagateFailure` | 588-594: the `except ProviderError` block, with the clock read in it |
| `Store` | 601-606: the locked block of the success path, with the eviction |
| `Publish`, `Wake` | 592-600, 607-608: completing the Future, and `future.result()` returning in a waiter |
| `Cleanup` | 609-611: the `finally` block |
| `Clear` | 556-559 |

A Future is named by the thread that registered it; `promise[t]` is its
outcome. A waiter whose Future is unregistered without an outcome keeps
waiting with `joined = None`: nobody will ever complete it. `now` is kept only
until the lookup is over. Values of a rate are abstracted to its pair, the time
the provider gave it, whether it is `DERIVED`, and whether it is marked as a
stale fallback. The `ExchangeRate` constructor refuses a `DERIVED` kind without
a derivation; `_mark_stale_fallback` (886-901) rebuilds the rate without one,
which is what `CanMarkStale` says.

### AsyncRateCache

A task runs undisturbed between two suspensions. The bodies under
`async with self._lock` await nothing, so the lock is never held across a
suspension and never contended; the model has no lock. What is left is the
lookup up to the await of the provider or of `asyncio.shield(future)`, and the
rest after it. Tasks can be cancelled at either await (`OwnerCancelled`,
`WaiterCancelled`). A completed Future resumes its waiters later, so a waiter
that was already told may still be cancelled.

### CircuitBreaker

A call is admitted by one locked block and recorded by another
(`resilience.py` 329-371; pair scope 492-548 differs only in that
`RateUnavailableError` always resets). The model keeps the age of the opening
up to `Recovery` and the failure count up to `Threshold`: the code only compares
them with these. `sinceProbe`, `disturbed` and `lost` are history variables
that no action reads. The async variants run the same two blocks; cancellation
is one of the exceptions of `Escape`.

### TokenBucket

The acquisition loop of `resilience.py` 117-132. One unit of time earns one
unit of tokens, so a call costs `Cost` units and floats are exact. The time
since the last refill stops growing at the capacity, where it no longer
matters. `span` and `spent` observe an arbitrary window of time.

### ProviderStack

Each caller walks through the chain (`heard` is the code's `failures` list,
`doubt` its `operational_failure`), is admitted or refused by the circuit of
the provider it is at, and retries inside that admission. A provider's answer
and its recording by the circuit are one step, the sleep before a retry is
another; the circuit can change while a caller sleeps. The optional rate limit
is left out (it only delays an admitted call), all callers ask for one pair,
and the length of a delay is abstracted: it ends.

### HookedCall

The observer sees the outcome of the audited call, as the presets stack them.
`pc` says which foreign call is under way: the provider, the sink
(`SinkRecords`, `SinkFails`, `SinkInterrupted`: `_record_audit`, 76-99), the
observer (`ObserverReturns`, `ObserverFails`, `ObserverInterrupted`: `_observe`,
102-128) or the shielded observer of a cancelled call (281-290). An *interrupt*
is a cancellation in the async variant and `KeyboardInterrupt` in the sync one:
no `except Exception` catches it. `Init` chooses the variant and the two modes.
A second cancellation ends a shielding call at once and leaves its observer
running (`detached`). Calls share no state, so one caller is enough.

### RatePolicies and DerivedRates

`stage` is the pivot being tried (0: the direct pair), `step` what has become of
each of the two legs. The sync provider asks for the right leg when the left one
has returned; the async one asks for both, and the first exception decides, as
`asyncio.gather` has it, while the other leg runs on and its outcome is dropped.
With the inverse provider outside, a call that ends unavailable is made once
more for the reverse pair (`flipped`); with it inside, each leg is
(`Reverses`). `fate` is a prophecy: how a leg will end is drawn when it is asked
for, so that the outcome of legs that run together can be compared with that of
legs in turn (`InTurn`) although nobody waits for the second. The innermost
provider answers with a quote of any of `Ages`, or without a timestamp, or fails
as `ReplyOutcome` has it for the Frankfurter adapter. The values of the quotes
are left out. The history fields `made` and `legs` of a rate say which
derivations it went through and how old its quotes were; no operator reads them,
only the properties do.

### MinorUnits and Conversion

`Decimal` is exact here: each function sizes its local context for its operands,
so a rational and one rounding describe it. `Convert` is `convert_with_rate` up
to the provider call (identity, refusal of another definition of the same code,
look-up of the target *now*), `Provide` is any step of the hooked call, and
`Conclude` what follows it. The four operations of the registry may come in
between, each as one step, because each holds the lock throughout; a refused one
changes nothing and is no step. `Loaded` and `Replayed` say what storing and
replaying the last result would give at this moment, so the properties speak of
replays at any later time. An application that uses no sink or no observer is
one whose hook never fails.

## 3. The runs

| Run | Instance | Shows |
|---|---|---|
| `cache_threads` | 3 threads, 2 pairs (one quoted as a derived rate), 1 entry, ttl 1, stale window 1, clock to 3 | `TypeOK`, `SingleFlight`, `DirectPairsNeverStrand`, `SnapshotIsCurrent`, `CacheWellFormed`, `AnswersMatchPair`, `QuotesMoveForward` |
| `cache_threads_live` | 3 threads, 1 direct pair, clock to 2 | `CallsReturn` (liveness) and `RefinesCoalescedCalls` |
| `cache_threads_stranded` | 2 threads, 1 derived pair | **violates** `NoStrandedWaiter` (finding 1) |
| `cache_tasks` | 3 tasks, 2 pairs, as `cache_threads`, with cancellation | `TypeOK`, `CacheIsSound` (the four invariants of the cache together), `CancellationComesFromOwner`, `RefinesCoalescedCalls` |
| `circuit` | 4 callers, threshold 3, recovery 2, every class of exception | `TypeOK`, `FieldsAgree`, `OneProbeUnlessDisturbed`, `ProbeIsRunning`, `ProbesAreSpaced`, `EarlyCloseIsDisturbed`, `RecoversUnlessProbeLost` (liveness) |
| `circuit_leak` | 2 callers, threshold 2 | **violates** `CircuitRecovers` (finding 2) |
| `circuit_two_probes` | 3 callers, threshold 2, no unclassified exceptions | **violates** `OneProbe` (finding 3) |
| `bucket` | 3 callers, burst 2, 2 ticks per token, 2 calls each | `TypeOK`, `WindowBound`, `NoOversleep`, `EveryoneIsServed` (liveness) |
| `stack` | 2 callers, 2 providers, 2 attempts, threshold 2, recovery 1 | `TypeOK`, `UpstreamCallsBounded`, `LateRetriesBounded`, `EveryCallEnds` (liveness), `CircuitsAreCircuitBreakers`, `RefinesFailover` |
| `derived` | 2 pivots, skew 1, ages -1, 0, 2 or none, clock to 4, 8 policies | `TypeOK`, `DerivationsAreAllowed`, `EveryLegIsFresh`, `ConcurrentLegsAgree` |
| `conversion` | every variant, mode and rounding, at most 2 interrupts per call; 2 codes with 2 definitions each, 2 amounts, 2 rates | `TypeOK`, `HooksKeepTheirModes`, `ResultsReplay`, `RoundedOnce`, `SharesConserveUnits`, `BatchesAreKept` |
| `hooks_lost` | one hooked call in every variant and mode, at most 1 interrupt | **violates** `InterruptsPreserved` (finding 4) |

Why the bounds are enough:

* Caches: three callers are an owner, a waiter and one who arrives between the
  owner's publishing and its cleaning up, or who becomes the next owner. Two
  pairs and one slot make every store of the other pair an eviction. With ttl 1
  and window 1, a clock up to 3 has an instant at which a quote is fresh, one at
  which it is expired but usable, one at which it is too old, and one to spare.
  The clock bound only cuts behaviours short. In `cache_threads_live` a clock to
  2 still contains fresh, usable and refreshed quotes.
* Circuit: with threshold 3 a fourth caller can be late while three others open
  the circuit; recovery 2 separates "just opened", "not yet", "half open".
* Bucket: burst 2 and cost 2 allow partial tokens; the window is observed up to
  5 ticks, longer than it takes to fill the bucket.
* Stack: two attempts and threshold 2 let one caller sleep between attempts
  while the other opens the circuit; provider 2 retries unavailability and
  provider 1 does not, which covers both settings.
* Hooks: a call can be interrupted, and interrupted again while its observer is
  shielded; the code has no place for a third. The run `conversion` holds the
  whole of `HookedCall`.
* Derived rates: a second pivot is needed to see the first one's legs dropped.
  Ages 0 and 2 with skew 1, and a clock that runs while legs are out, give legs
  within and beyond the skew; age -1 is a quote ahead of the clock. A rate can
  be shown to a policy until it is four ticks old, past every `maxAge`.
* Conversion: the definitions of a code differ in exponent, one has a cash
  increment of 5; the amounts 2.5 and -7 and the rates 0.5 and 1.3 give ties,
  negative amounts and remainders at each exponent. Batches have two members:
  enough for a duplicate inside and for one that fails at its second.

Threads (tasks) are symmetric in the runs that check only safety; the runs with
liveness properties do not use symmetry.

**Fairness.** The caches assume that a thread inside `get_rate` is scheduled and
that the provider ends, one way or another: the documentation demands a timeout
in the network adapter (`PRODUCTION_FX.md` 65). Nothing is assumed about
callers, the clock, `clear` or cancellation. The circuit assumes that time
passes, that admitted calls end, and that callers keep asking (otherwise no
probe can be made). The bucket assumes that time passes, that sleeps end and
that threads run; its number of calls is bounded, because without reservation a
caller can be overtaken for as long as others keep coming. The stack assumes
that delays and provider calls end; it needs neither time nor recovery.

## 4. What the runs say about the code

Four statements of the repository do not hold, each shown by a run:

1. **A stale derived quote strands its waiters** (`fx.py` 590; the asyncio
   cache at 693). When an expired quote of kind `DERIVED` is inside the stale
   window and the provider fails, `_mark_stale_fallback` raises
   `InvalidRateError` inside the `except` block. Neither `set_result` nor
   `set_exception` runs, the Future is unregistered, and threads in
   `future.result()` wait for ever, which the comment at 596-598 says must not
   happen. `DirectPairsNeverStrand` and `CallsReturn` show that this is the only
   way: for pairs the provider quotes directly nobody is stranded, and
   `RefinesCoalescedCalls` shows it for whole behaviours (`Fragile`).
2. **A probe that ends with an unclassified exception blocks the circuit for
   good** (`resilience.py` 343-351). The flag is set before the call and cleared
   by the handlers of three outcomes only. `RecoversUnlessProbeLost` shows that
   the circuit recovers in every other case.
3. **Two probes can run at once** (`resilience.py` 368). A call admitted before
   the circuit opened clears the flag when it fails late.
   `OneProbeUnlessDisturbed` shows that only such a call can, and
   `ProbesAreSpaced` that even then probes are a recovery timeout apart.
4. **A cancellation can be lost in an observer** (`observability.py` 123-125).
   `_observe_async` catches the `CancelledError` of its own task and drops it
   in fail-open mode, the default of observers; nothing passes
   `preserve_cancellation=True`. A task cancelled while its observer runs
   returns its rate, against `PRODUCTION_FX.md` 156.
   `InterruptsLostByOpenObserver` (a part of `HooksKeepTheirModes`) shows that this
   is the only place.

Observed and not given a run of their own: a late success closes an open circuit
before its recovery timeout (`resilience.py` 353, compare `PROVIDERS.md` 82;
`EarlyCloseIsDisturbed` states the exact condition); with
`stale_if_error_seconds = 0` an expired quote is still served at the very
instant it expires (`fx.py` 589 compares with `<=`, `PRODUCTION_FX.md` 90 calls
the feature disabled); an open circuit does not stop the retries of calls it let
in before (`LateRetriesBounded` states how many); a probe is a whole retried
call, so it may reach the provider `attempts` times.

Of derived rates and conversions:

* A policy sees the last derivation of a rate only. `PRODUCTION_FX.md` 57 says
  that `RatePolicy` "rejects inverse/triangulated derivations unless explicitly
  enabled"; a triangulated rate whose leg was inverted passes a policy that
  allows triangulation alone, and an inverted triangulation one that allows
  inversion alone. `DerivationsAreAllowed` states exactly what escapes.
* A leg without a timestamp counts for nothing in `_triangulate` (`fx.py` 932):
  a rate with one dated leg passes a policy with
  `MissingTimestampPolicy.REJECT`. Its `fetched_at` is that of the younger leg
  (945), and a younger leg ahead of the clock is hidden by the older one.
* `allowed_sources` compares the whole name: a derived rate's source is
  `inverse:x` or `triangulated:x+y`, so `reporting_policy(allowed_sources={"x"})`
  refuses what its `allow_derived=True` lets through.
* The async triangulation ends by its right leg's failure if that comes while
  the left leg is out; in turn, the left leg's outcome would decide. The other
  leg's call goes on after the pivot is given up.
* A Frankfurter reply that is no JSON, or whose rate is no number, raises
  `JSONDecodeError` or `InvalidOperation` (`frankfurter.py` 25, 36), which no
  layer above handles: neither retry nor failover, and see finding 2.
* `allocate` gives a unit left over to the first recipients, also to one whose
  ratio is zero; ratios that are all zero allocate nothing, and then "without
  losing minor units" (`money.py` 212) does not apply.
* `replay` looks its target up anew and, unlike `convert_with_rate`, does not
  refuse another definition of the source's own code: an identity quote replayed
  after the code was redefined moves the amount to the new definition. So does
  loading stored money. `ResultsReplay` holds for unchanged definitions.

## 5. Interesting properties, and why they are not obvious

* `SnapshotIsCurrent`: the owner uses, after the provider call, an entry read
  before it. It is still the cache's entry for the pair because only an owner
  stores, and there is one owner per pair.
* `QuotesMoveForward`: fetches of one pair cannot overtake each other on their
  way into the cache, although the fetch and the store are separate steps.
* `CancellationComesFromOwner`: a task that was not cancelled itself ends with
  `CancelledError` only because the owner of its Future was.
* `FieldsAgree`: three fields written by different handlers, in any order of
  admitted, late and probing calls, still mean one state.
* `WindowBound`: the refill is lazy, and yet no window of time sees more than
  the burst plus what it earned.
* `LateRetriesBounded`: the traffic an open circuit still lets through is
  bounded by the calls that were inside when it opened.
* `CircuitsAreCircuitBreakers`: retries inside and a chain outside leave each
  circuit a circuit; this is proved, and with it what is proved of `CircuitBreaker`
  of each circuit of the stack (`EachCircuitKeepsItsPromises`).
* `SharesConserveUnits`: what `allocate` has left over after rounding each share
  down is never more than a unit per recipient, whatever the ratios.
* `HooksKeepTheirModes`: two hooks with a mode each, and interrupts that pass one
  handler and are caught by another, decide one outcome, and by it whether money
  is converted.
* `EveryLegIsFresh`: the policy reads one timestamp, which stands for quotes that
  were given at different times and may be validated much later.
* `ConcurrentLegsAgree`: the exact race in which the sync and the async
  triangulation differ.
* `ResultsReplay`: a conversion spans an await during which the registry may
  change, and a replay comes at any time after; both must mean one definition.
* `RoundedOnce`: checked against a definition of rounding that computes nothing,
  over two exponents, ties and signs.

## 6. What is proved

The theorems hold for any constants that satisfy the named assumptions, which
TLC evaluates in the runs:

* `ConfigAssumption` (the caches, the circuit, the bucket, the stack): the values
  the constructors accept.
* `SkewAssumption`, `BoundsAssumption`, `PoliciesAssumption` (derived rates): a
  skew and a maximal age are none or not negative (`fx.py` 337, `policy.py` 84),
  ages of quotes are integers.
* `DefinitionsAssumption`, `RationalsAssumption`, `InterruptsAssumption`
  (conversion): exponents from 0 to 9 (`types.py` 50), positive rates.
* `RatiosAssumption` (conversion): money is allocated by at least one ratio, and
  ratios are natural numbers (`money.py` 218-223).
* `NoneAssumption`, `ThreadsAssumption`, `TasksAssumption`: `None` is no value.
* `CallersAssumption` (the stack): the callers are finitely many and at least
  one, because the bound on late retries counts them.

Threads, tasks and callers of the other modules, pairs, codes, definitions and
policies may be finitely or infinitely many.

| Module | Theorems | Argument |
|---|---|---|
| `RateCacheProofs` | `TypeCorrect`, `OneFetchPerPair`, `WaitersAreLed`, `SnapshotStaysCurrent`, `CacheStaysWellFormed`, `AnswersAreForThePair`, `QuotesOnlyMoveForward`, `CacheRefinesCoalescedCalls`, `FollowersAlwaysLed`, `LeadersAreUnique` | `IInv` is the conjunction of four parts. `Ownership`: a thread is between registering and unregistering exactly when the registry names it, its Future is completed only just before cleaning up, and joined Futures are pending and of the waiter's own pair. `Contents`: what is cached, held and remembered is of the right pair, no newer than the clock, and no fallback reaches the cache. `Served`: for a pair quoted directly, a waiter has not lost its Future and an owner cleans up only after completing it. None of the properties is inductive without `Ownership`. For the refinement, every action maps to an action of `CoalescedCalls` or to a stutter: the registry gives the leader, the waiters of a Future are the followers of its pair. The last two theorems say what the mapped state then has |
| `AsyncRateCacheProofs` | `TypeCorrect`, `CacheStaysSound`, `CancellationsComeFromOwners`, `CacheRefinesCoalescedCalls`, `FollowersAlwaysLed`, `LeadersAreUnique` | the same parts without a lock: a registered Future belongs to the one task that awaits the provider for its pair, and completing, failing, and being cancelled settle all of its waiters in the step that unregisters it. A cancelled waiter changes nothing that another task's part of the invariant mentions |
| `CircuitBreakerProofs` | `TypeCorrect`, `FieldsAlwaysAgree`, `ProbesAreExclusive`, `RegisteredProbeRuns`, `ProbesSpaced`, `EarlyCloseDisturbed` | the fields agree; while nothing has disturbed the circuit, a running probe is registered and the recovery timeout stays over; the time since a probe that is no longer registered is at least the age of the opening |
| `TokenBucketProofs` | `TypeCorrect`, `RateIsBounded`, `SleepersWakeInTime` | `spent` plus the tokens the bucket will have is at most capacity plus the window; a sleeper's remaining delay is at most what is missing |
| `ProviderStackProofs` | `TypeCorrect`, `CallsAreBounded`, `LateRetriesAreBounded`, `StackRefinesFailover`, `CircuitsRefineCircuitBreaker`, `EachCircuitKeepsItsPromises` | `CallsCounted`: the providers left behind account for at most `Attempts` calls each. `LateRetriesPaid`: while a circuit is open, the late retries so far and those that normal calls inside it have left are together at most the bound; the call that opens the circuit ends with that, so only the others have any left. Each late retry uses up one of those left, and nobody is admitted as a normal call. The two refinements go action by action: a retry is a stutter of `Failover` and, inside one admission, of the circuit. With the second, the lemmas of `CircuitBreakerProofs` carry over: they are cited through an instance for the circuit of `AnyProvider`, a constant assumed only to be a provider of the chain |
| `DerivedRatesProofs` | `TypeCorrect`, `DerivationsAlwaysAllowed`, `LegsAreFresh`, `ConcurrentLegsAlwaysAgree` | `RateOK`: kind, last derivation and history agree, and a rate is as old as its oldest dated leg; inverting and triangulating keep it. `LegsOK`: which legs are out at which stage, and that a leg carries no derivation of the outer provider's kind. The policy's one timestamp therefore stands for every dated leg |
| `ConversionProofs` | `TypeCorrect`, `HooksKeepModes`, `ResultsAlwaysReplay`, `RoundedExactlyOnce`, `RoundingIsDetermined`, `SplitConserves`, `AllocateConserves`, `SharesAlwaysConserve`, `BatchesKept` | `CallStages`: what is already decided at each stage of the hooked call, in both variants and all modes, for any number of interrupts. `ResultOK`: a result is what applying its rate to its source gives in its target's currency, the identity included. `QuantizeRounds`: the quotient of absolute values with a carry and a sign is what the mode asks of the exact quotient; `NeighboursExclude`: no second integer is, so `Rounds` defines rounding. For the sums, see below |
| `QuoteCacheProofs` | lemmas both caches rest on | what removing, moving, storing and evicting do to the entries of a sequence; rates and outcomes have their types |

`ConversionProofs` is also where `HookedCall` is proved about: its type
invariant, `HooksAreTransparent`, `NoRateWithoutAudit` and
`InterruptsLostByOpenObserver` are part of the inductive invariant there, through
the instance `Hooks`.

**Sums.** `Total` is a fold of the library over the positions of a sequence, in
an order that a `CHOOSE` picks, so a fact about the sum of any number of shares
needs induction, and the library's induction theorems cannot be cited here. Their
source can: `Induction` (a set of naturals with zero and successors is all of
them) follows from the theorem that `<` is well-founded on `Nat`, as a statement
about sets. By induction on the size of sets, a function with the recursion
equation of the fold exists and has integer values (`SumsExist`,
`TotalTakesApart`), and the element taken first does not matter
(`AnyElementApart`); taking positions from the last one down, the total is the
last partial sum (`TotalIsLastPartialSum`). `SplitConserves` then gives the partial
sums of the parts in closed form. `AllocateConserves` bounds those of the floors
by those of the exact shares (`Near`): what is left over is at least zero and at
most one unit per recipient. `SharesConserveUnits` splits into up to three parts
and allocates by the ratios of the instance; the two theorems hold for any number
of parts and any ratios.

Each inductive invariant was checked by TLC on the instance of the component's
run before it was proved.

Model-checked only:

* every liveness property (`CallsReturn`, `RecoversUnlessProbeLost`,
  `EveryoneIsServed`, `EveryCallEnds`): fairness is outside what the prover
  handles;
* the reference instances of the four findings, which are counterexamples.

## 7. What is not modelled, and the plan

Every safety property that a run checks is proved; what is left is liveness, and
`FollowersAreLed` and `OneLeader` of `CoalescedCalls` by itself: they are proved of
both implementations, which is what a user of the caches has.

Left out: the optional rate limit of the presets inside `ProviderStack` (it
delays an admitted call; `TokenBucket` bounds what it lets through); the whole
composition in one model, which is out of TLC's reach, so `RateCache`,
`ProviderStack` and `Conversion` each allow all that their neighbours can do;
HTTP requests and clients; formatting and ORM field classes (stateless, over the
frozen `DEFAULT_REGISTRY`); single integer operations of `Money`; ISO tables,
plugin discovery and package exports.
