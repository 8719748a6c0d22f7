------------------------------ MODULE QuoteCache ------------------------------
(***************************************************************************)
(* The data CachedRateProvider and AsyncCachedRateProvider of fx.py share: *)
(* exchange rates, the outcomes of a lookup, and the OrderedDict of quotes *)
(* with the operations both perform on it.  An OrderedDict is a sequence   *)
(* of entries, least recently used first.                                  *)
(***************************************************************************)
EXTENDS Integers, Sequences

CONSTANTS
  Pairs,         \* (base, quote) keys
  Ttl,           \* ttl_seconds
  MaxSize,       \* maxsize
  StaleIfError,  \* stale_if_error_seconds
  DerivedPairs,  \* pairs the inner provider may price by inversion or triangulation
  MaxTime,       \* bound on the monotonic clock
  None           \* no value

\* The constructors' checks.
ASSUME ConfigAssumption ==
  /\ Ttl \in Nat \ {0}
  /\ MaxSize \in Nat \ {0}
  /\ StaleIfError \in Nat
  /\ MaxTime \in Nat
  /\ DerivedPairs \subseteq Pairs

Time == 0 .. MaxTime

\* An ExchangeRate: who it is for, when the provider answered, whether it is
\* DERIVED, and whether it is marked as a stale fallback.
Rate == [pair : Pairs, at : Time, derived : BOOLEAN, marked : BOOLEAN]
Entry == [pair : Pairs, expires : Nat, rate : Rate]

RateOutcome == [type : {"rate"}, rate : Rate]
Errors == {"ProviderError", "OtherError", "InvalidRateError", "CancelledError"}
ErrorOutcome == [type : {"error"}, error : Errors]
Outcome == RateOutcome \cup ErrorOutcome

ASSUME NoneAssumption == None \notin Pairs \cup Outcome

Returned(r) == [type |-> "rate", rate |-> r]
Raised(e) == [type |-> "error", error |-> e]

\* The rates the inner provider may return for p at the given time.
Quotable(p, time) ==
  {[pair |-> p, at |-> time, derived |-> d, marked |-> FALSE] :
      d \in {FALSE} \cup {p \in DerivedPairs}}

--------------------------------------------------------------------------------
Slots(entries, p) == {i \in DOMAIN entries : entries[i].pair = p}

\* cached[0] > now
FreshSlots(entries, p, now) == {i \in Slots(entries, p) : entries[i].expires > now}

\* The entry for p, as a sequence of at most one entry.
Cached(entries, p) == {entries[i] : i \in Slots(entries, p)}

Removed(entries, i) == SubSeq(entries, 1, i - 1) \o SubSeq(entries, i + 1, Len(entries))

\* move_to_end
MovedToEnd(entries, i) == Append(Removed(entries, i), entries[i])

Without(entries, p) ==
  IF Slots(entries, p) = {} THEN entries
  ELSE Removed(entries, CHOOSE i \in Slots(entries, p) : TRUE)

\* Mutant of Trimmed: the eviction loop is missing.
NeverTrimmed(entries) == entries

\* popitem(last=False) while there are more than maxsize entries
Trimmed(entries) ==
  IF Len(entries) > MaxSize
  THEN SubSeq(entries, Len(entries) - MaxSize + 1, Len(entries))
  ELSE entries

\* A fetched rate is stored as the most recent entry, and the oldest evicted.
Stored(entries, rate, time) ==
  Trimmed(Append(Without(entries, rate.pair),
                 [pair |-> rate.pair, expires |-> time + Ttl, rate |-> rate]))

--------------------------------------------------------------------------------
\* _mark_stale_fallback rebuilds the rate without its derivation, and the
\* ExchangeRate constructor refuses a DERIVED rate that has none.
CanMarkStale(rate) == ~rate.derived
MarkedStale(rate) == [rate EXCEPT !.marked = TRUE]

\* stale is not None and failure_now - stale[0] <= stale_if_error: the entries
\* of the snapshot (at most one) that may still be served.
Usable(snapshot, time) == {e \in snapshot : time - e.expires <= StaleIfError}

================================================================================
