--------------------------- MODULE QuoteCacheProofs ---------------------------
(***************************************************************************)
(* What the operations on the OrderedDict of quotes do to its entries, for *)
(* caches of any size and any set of pairs.                                *)
(***************************************************************************)
EXTENDS QuoteCache, SequenceTheorems, TLAPS

\* No key takes two places.
UniqueKeys(entries) ==
  \A i, j \in DOMAIN entries : entries[i].pair = entries[j].pair => i = j

--------------------------------------------------------------------------------
\* Dropping the entry at i shifts the later ones by one place.
LEMMA RemovedProperties ==
  ASSUME NEW S, NEW s \in Seq(S), NEW i \in 1 .. Len(s)
  PROVE  /\ Removed(s, i) \in Seq(S)
         /\ Len(Removed(s, i)) = Len(s) - 1
         /\ \A j \in 1 .. Len(s) - 1 :
              Removed(s, i)[j] = IF j < i THEN s[j] ELSE s[j + 1]
<1> DEFINE before == SubSeq(s, 1, i - 1)
           after == SubSeq(s, i + 1, Len(s))
<1>1. Len(s) \in Nat /\ \A j \in 1 .. Len(s) : s[j] \in S
  BY LenProperties, ElementOfSeq
<1>2. /\ before \in Seq(S) /\ Len(before) = i - 1
      /\ \A j \in 1 .. i - 1 : before[j] = s[j]
  <2>1. \A j \in 1 .. i - 1 : s[j] \in S BY <1>1
  <2>2. /\ before \in Seq(S)
        /\ Len(before) = IF 1 <= i - 1 THEN (i - 1) - 1 + 1 ELSE 0
        /\ \A j \in 1 .. (i - 1) - 1 + 1 : before[j] = s[1 + j - 1]
    BY <1>1, <2>1, SubSeqProperties
  <2>3. QED BY <1>1, <2>2
<1>3. /\ after \in Seq(S) /\ Len(after) = Len(s) - i
      /\ \A j \in 1 .. Len(s) - i : after[j] = s[i + j]
  <2>1. \A j \in i + 1 .. Len(s) : s[j] \in S BY <1>1
  <2>2. /\ after \in Seq(S)
        /\ Len(after) = IF i + 1 <= Len(s) THEN Len(s) - (i + 1) + 1 ELSE 0
        /\ \A j \in 1 .. Len(s) - (i + 1) + 1 : after[j] = s[(i + 1) + j - 1]
    BY <1>1, <2>1, SubSeqProperties
  <2>3. QED BY <1>1, <2>2
<1>4. /\ before \o after \in Seq(S)
      /\ Len(before \o after) = Len(before) + Len(after)
      /\ \A j \in 1 .. Len(before) + Len(after) :
           (before \o after)[j] = IF j <= Len(before) THEN before[j]
                                  ELSE after[j - Len(before)]
  BY <1>2, <1>3, ConcatProperties
<1>5. Removed(s, i) = before \o after BY DEF Removed
<1> HIDE DEF before, after
<1>6. Len(Removed(s, i)) = Len(s) - 1
  <2>1. (i - 1) + (Len(s) - i) = Len(s) - 1 BY <1>1
  <2>2. Len(before) + Len(after) = (i - 1) + (Len(s) - i) BY <1>2, <1>3
  <2>3. QED BY <1>4, <1>5, <2>1, <2>2
<1>7. ASSUME NEW j \in 1 .. Len(s) - 1
      PROVE  Removed(s, i)[j] = IF j < i THEN s[j] ELSE s[j + 1]
  <2>1. j \in 1 .. Len(before) + Len(after) BY <1>1, <1>2, <1>3
  <2>2. CASE j < i BY <1>1, <1>2, <1>4, <1>5, <2>1, <2>2
  <2>3. CASE ~(j < i)
    <3>1. j - (i - 1) \in 1 .. Len(s) - i BY <1>1, <2>3
    <3>2. after[j - (i - 1)] = s[i + (j - (i - 1))] BY <1>3, <3>1
    <3>3. i + (j - (i - 1)) = j + 1 BY <1>1
    <3>4. Removed(s, i)[j] = after[j - (i - 1)] BY <1>1, <1>2, <1>4, <1>5, <2>1, <2>3
    <3>5. QED BY <2>3, <3>2, <3>3, <3>4
  <2>4. QED BY <2>2, <2>3
<1>8. QED BY <1>4, <1>5, <1>6, <1>7

\* Moving an entry to the end keeps the entries and the keys unique.
LEMMA MovedToEndProperties ==
  ASSUME NEW S, NEW s \in Seq(S), NEW i \in 1 .. Len(s)
  PROVE  /\ MovedToEnd(s, i) \in Seq(S)
         /\ Len(MovedToEnd(s, i)) = Len(s)
         /\ \A j \in 1 .. Len(s) :
              MovedToEnd(s, i)[j] = IF j < i THEN s[j]
                                    ELSE IF j < Len(s) THEN s[j + 1] ELSE s[i]
<1>1. Len(s) \in Nat /\ s[i] \in S BY LenProperties, ElementOfSeq
<1>2. /\ Removed(s, i) \in Seq(S)
      /\ Len(Removed(s, i)) = Len(s) - 1
      /\ \A j \in 1 .. Len(s) - 1 :
           Removed(s, i)[j] = IF j < i THEN s[j] ELSE s[j + 1]
  BY RemovedProperties
<1> DEFINE r == Removed(s, i)
<1>3. /\ Append(r, s[i]) \in Seq(S)
      /\ Len(Append(r, s[i])) = Len(r) + 1
      /\ \A j \in 1 .. Len(r) : Append(r, s[i])[j] = r[j]
      /\ Append(r, s[i])[Len(r) + 1] = s[i]
  BY <1>1, <1>2, AppendProperties
<1>4. MovedToEnd(s, i) = Append(r, s[i]) BY DEF MovedToEnd
<1> HIDE DEF r
<1>5. Len(r) = Len(s) - 1 BY <1>2 DEF r
<1>6. ASSUME NEW j \in 1 .. Len(s)
      PROVE  MovedToEnd(s, i)[j] = IF j < i THEN s[j]
                                   ELSE IF j < Len(s) THEN s[j + 1] ELSE s[i]
  <2>1. CASE j < Len(s)
    <3>1. j \in 1 .. Len(s) - 1 BY <1>1, <2>1
    <3>2. r[j] = IF j < i THEN s[j] ELSE s[j + 1] BY <1>2, <3>1 DEF r
    <3>3. QED BY <1>3, <1>4, <1>5, <2>1, <3>1, <3>2
  <2>2. CASE j = Len(s) BY <1>1, <1>3, <1>4, <1>5, <2>2
  <2>3. QED BY <1>1, <2>1, <2>2
<1>7. QED BY <1>1, <1>3, <1>4, <1>5, <1>6

--------------------------------------------------------------------------------
Entries(entries) == {entries[i] : i \in DOMAIN entries}

\* A hit changes neither the entries nor the uniqueness of their keys.
LEMMA HitKeepsEntries ==
  ASSUME NEW S, NEW s \in Seq(S), NEW i \in 1 .. Len(s), UniqueKeys(s)
  PROVE  UniqueKeys(MovedToEnd(s, i)) /\ Entries(MovedToEnd(s, i)) = Entries(s)
<1> DEFINE m == MovedToEnd(s, i)
           n == Len(s)
           from(j) == IF j < i THEN j ELSE IF j < n THEN j + 1 ELSE i
           to(j) == IF j < i THEN j ELSE IF j = i THEN n ELSE j - 1
<1>1. n \in Nat /\ DOMAIN s = 1 .. n BY LenProperties
<1>2. /\ m \in Seq(S) /\ Len(m) = n
      /\ \A j \in 1 .. n : m[j] = s[from(j)]
  BY <1>1, MovedToEndProperties
<1>3. DOMAIN m = 1 .. n BY <1>2, LenProperties
<1> HIDE DEF m
<1>4. \A j \in 1 .. n : from(j) \in 1 .. n /\ to(j) \in 1 .. n BY <1>1
<1>5. \A j, k \in 1 .. n : from(j) = from(k) => j = k BY <1>1
<1>6. ASSUME NEW j \in 1 .. n PROVE from(to(j)) = j
  <2>0. j \in Int /\ i \in Int /\ (j < i \/ j = i \/ j > i) BY <1>1
  <2>1. CASE j < i
    <3>1. to(j) = j BY <2>1
    <3>2. QED BY <2>1, <3>1
  <2>2. CASE j = i
    <3>1. ~(j < i) BY <2>0, <2>2
    <3>1a. to(j) = n BY <2>2, <3>1
    <3>2. ~(n < i) BY <1>1
    <3>3. QED BY <2>2, <3>1a, <3>2
  <2>3. CASE j > i
    <3>1. to(j) = j - 1 BY <1>1, <2>3
    <3>2. j - 1 < n /\ ~(j - 1 < i) /\ (j - 1) + 1 = j BY <1>1, <2>3
    <3>3. QED BY <3>1, <3>2
  <2> HIDE DEF from, to
  <2>4. QED BY <2>0, <2>1, <2>2, <2>3
<1> HIDE DEF from, to
<1>7. UniqueKeys(m)
  <2> SUFFICES ASSUME NEW j \in 1 .. n, NEW k \in 1 .. n, m[j].pair = m[k].pair
               PROVE  j = k
    BY <1>3 DEF UniqueKeys
  <2>1. s[from(j)].pair = s[from(k)].pair BY <1>2
  <2>2. from(j) \in DOMAIN s /\ from(k) \in DOMAIN s BY <1>1, <1>4
  <2>3. from(j) = from(k) BY <2>1, <2>2 DEF UniqueKeys
  <2>4. QED BY <1>5, <2>3
<1>8. Entries(m) = Entries(s)
  <2>1. \A j \in DOMAIN m : m[j] \in Entries(s)
    BY <1>1, <1>2, <1>3, <1>4 DEF Entries
  <2>2. \A j \in DOMAIN s : s[j] \in Entries(m)
    <3> SUFFICES ASSUME NEW j \in DOMAIN s PROVE s[j] \in Entries(m) OBVIOUS
    <3>1. to(j) \in DOMAIN m /\ m[to(j)] = s[j] BY <1>1, <1>2, <1>3, <1>4, <1>6
    <3>2. QED BY <3>1 DEF Entries
  <2>3. QED BY <2>1, <2>2 DEF Entries
<1>9. QED BY <1>7, <1>8 DEF m

\* Dropping the entry of a key leaves the entries of the others.
LEMMA WithoutProperties ==
  ASSUME NEW S, NEW s \in Seq(S), NEW p, UniqueKeys(s)
  PROVE  /\ Without(s, p) \in Seq(S)
         /\ UniqueKeys(Without(s, p))
         /\ \A e \in Entries(Without(s, p)) : e \in Entries(s) /\ e.pair # p
<1> DEFINE n == Len(s)
           i == CHOOSE i \in Slots(s, p) : TRUE
           w == Without(s, p)
<1>1. n \in Nat /\ DOMAIN s = 1 .. n BY LenProperties
<1>2. CASE Slots(s, p) = {}
  <2>1. w = s BY <1>2 DEF Without
  <2>2. \A e \in Entries(s) : e.pair # p BY <1>2 DEF Slots, Entries
  <2>3. QED BY <2>1, <2>2
<1>3. CASE Slots(s, p) # {}
  <2>1. i \in 1 .. n /\ s[i].pair = p BY <1>1, <1>3 DEF Slots
  <2>2. w = Removed(s, i) BY <1>3 DEF Without
  <2> HIDE DEF i, w
  <2>3. /\ w \in Seq(S) /\ Len(w) = n - 1
        /\ \A j \in 1 .. n - 1 : w[j] = IF j < i THEN s[j] ELSE s[j + 1]
    BY <2>1, <2>2, RemovedProperties
  <2>4. DOMAIN w = 1 .. n - 1 BY <2>3, LenProperties
  <2>5. \A j \in DOMAIN w : \E k \in DOMAIN s : k # i /\ w[j] = s[k]
    <3> SUFFICES ASSUME NEW j \in 1 .. n - 1
                 PROVE  \E k \in 1 .. n : k # i /\ w[j] = s[k]
      BY <1>1, <2>4
    <3>1. CASE j < i
      <4>1. j \in 1 .. n /\ j # i /\ w[j] = s[j] BY <1>1, <2>1, <2>3, <3>1
      <4>2. QED BY <4>1
    <3>2. CASE ~(j < i)
      <4>1. j + 1 \in 1 .. n /\ j + 1 # i /\ w[j] = s[j + 1]
        BY <1>1, <2>1, <2>3, <3>2
      <4>2. QED BY <4>1
    <3>3. QED BY <3>1, <3>2
  <2>6. \A e \in Entries(w) : e \in Entries(s) /\ e.pair # p
    BY <1>1, <2>1, <2>5 DEF Entries, UniqueKeys
  <2>7. UniqueKeys(w)
    <3> SUFFICES ASSUME NEW j \in 1 .. n - 1, NEW k \in 1 .. n - 1,
                        w[j].pair = w[k].pair
                 PROVE  j = k
      BY <2>4 DEF UniqueKeys
    <3> DEFINE at(l) == IF l < i THEN l ELSE l + 1
    <3>1. at(j) \in 1 .. n /\ at(k) \in 1 .. n /\ (at(j) = at(k) => j = k)
      BY <1>1, <2>1
    <3>2. w[j] = s[at(j)] /\ w[k] = s[at(k)] BY <2>3
    <3> HIDE DEF at
    <3>3. QED BY <1>1, <3>1, <3>2 DEF UniqueKeys
  <2>8. QED BY <2>3, <2>6, <2>7 DEF w
<1>4. QED BY <1>2, <1>3

\* Eviction keeps some of the entries and respects the bound.
LEMMA TrimmedProperties ==
  ASSUME NEW S, NEW s \in Seq(S), UniqueKeys(s)
  PROVE  /\ Trimmed(s) \in Seq(S)
         /\ Len(Trimmed(s)) <= MaxSize
         /\ UniqueKeys(Trimmed(s))
         /\ Entries(Trimmed(s)) \subseteq Entries(s)
<1> DEFINE n == Len(s)
           d == n - MaxSize
           c == SubSeq(s, d + 1, n)
<1>1. n \in Nat /\ DOMAIN s = 1 .. n /\ \A j \in 1 .. n : s[j] \in S
  BY LenProperties, ElementOfSeq
<1>2. MaxSize \in Nat /\ MaxSize > 0 BY ConfigAssumption DEF ConfigAssumption
<1>3. CASE ~(n > MaxSize)
  <2>1. Trimmed(s) = s BY <1>3 DEF Trimmed
  <2>2. QED BY <1>1, <1>2, <1>3, <2>1
<1>4. CASE n > MaxSize
  <2>1. Trimmed(s) = c BY <1>4 DEF Trimmed
  <2>2. d \in Nat /\ d + MaxSize = n BY <1>1, <1>2, <1>4
  <2>3. /\ c \in Seq(S)
        /\ Len(c) = IF d + 1 <= n THEN n - (d + 1) + 1 ELSE 0
        /\ \A j \in 1 .. n - (d + 1) + 1 : c[j] = s[(d + 1) + j - 1]
    <3>1. \A j \in d + 1 .. n : s[j] \in S BY <1>1, <2>2
    <3>2. d + 1 \in Int /\ n \in Int BY <1>1, <2>2
    <3> HIDE DEF n, d
    <3>3. QED BY <3>1, <3>2, SubSeqProperties
  <2> HIDE DEF c, d, n
  <2>4. Len(c) = MaxSize BY <1>2, <2>2, <2>3
  <2>5. DOMAIN c = 1 .. MaxSize BY <2>3, <2>4, LenProperties
  <2>6. \A j \in DOMAIN c : d + j \in DOMAIN s /\ c[j] = s[d + j]
    <3> SUFFICES ASSUME NEW j \in 1 .. MaxSize
                 PROVE  d + j \in 1 .. n /\ c[j] = s[d + j]
      BY <1>1, <2>5
    <3>1. d + j \in 1 .. n /\ j \in 1 .. n - (d + 1) + 1 /\ (d + 1) + j - 1 = d + j
      BY <1>2, <2>2
    <3>2. QED BY <2>3, <3>1
  <2>7. Entries(c) \subseteq Entries(s) BY <2>6 DEF Entries
  <2>8. UniqueKeys(c)
    <3>1. \A j, k \in DOMAIN c : d + j = d + k => j = k BY <1>2, <2>2, <2>5
    <3>2. QED BY <2>6, <3>1 DEF UniqueKeys
  <2>9. QED BY <1>2, <2>1, <2>3, <2>4, <2>7, <2>8
<1>5. QED BY <1>3, <1>4

\* Storing a fetched rate files it under its own pair, drops what was there,
\* and leaves a bounded cache with one entry per pair.
LEMMA StoredProperties ==
  ASSUME NEW s \in Seq(Entry), UniqueKeys(s),
         NEW rate \in Rate, NEW time \in Time
  PROVE  /\ Stored(s, rate, time) \in Seq(Entry)
         /\ Len(Stored(s, rate, time)) <= MaxSize
         /\ UniqueKeys(Stored(s, rate, time))
         /\ \A e \in Entries(Stored(s, rate, time)) :
              \/ e = [pair |-> rate.pair, expires |-> time + Ttl, rate |-> rate]
              \/ e \in Entries(s) /\ e.pair # rate.pair
<1> DEFINE new == [pair |-> rate.pair, expires |-> time + Ttl, rate |-> rate]
           w == Without(s, rate.pair)
           a == Append(w, new)
<1>1. new \in Entry BY ConfigAssumption DEF ConfigAssumption, Entry, Rate, Time
<1>2. /\ w \in Seq(Entry) /\ UniqueKeys(w)
      /\ \A e \in Entries(w) : e \in Entries(s) /\ e.pair # rate.pair
  BY WithoutProperties
<1>3. new.pair = rate.pair OBVIOUS
<1> HIDE DEF new, w
<1>4. /\ a \in Seq(Entry) /\ Len(a) = Len(w) + 1
      /\ \A j \in 1 .. Len(w) : a[j] = w[j]
      /\ a[Len(w) + 1] = new
  BY <1>1, <1>2, AppendProperties
<1>5. Len(w) \in Nat /\ DOMAIN w = 1 .. Len(w) /\ DOMAIN a = 1 .. Len(w) + 1
  BY <1>2, <1>4, LenProperties
<1> HIDE DEF a
<1>6. \A j \in DOMAIN a :
        \/ j = Len(w) + 1 /\ a[j] = new
        \/ j \in DOMAIN w /\ a[j] = w[j] /\ a[j].pair # new.pair
  <2> SUFFICES ASSUME NEW j \in 1 .. Len(w) + 1, j # Len(w) + 1
               PROVE  j \in DOMAIN w /\ a[j] = w[j] /\ a[j].pair # new.pair
    BY <1>4, <1>5
  <2>1. j \in DOMAIN w /\ a[j] = w[j] BY <1>4, <1>5
  <2>2. w[j] \in Entries(w) BY <2>1 DEF Entries
  <2>3. QED BY <1>2, <1>3, <2>1, <2>2
<1>7. UniqueKeys(a) BY <1>2, <1>6 DEF UniqueKeys
<1>8. \A e \in Entries(a) : e = new \/ (e \in Entries(s) /\ e.pair # rate.pair)
  <2>1. SUFFICES ASSUME NEW j \in DOMAIN a
                 PROVE  a[j] = new \/ (a[j] \in Entries(s) /\ a[j].pair # rate.pair)
    BY DEF Entries
  <2>2. j \in DOMAIN w => w[j] \in Entries(w) BY DEF Entries
  <2>3. QED BY <1>2, <1>6, <2>2
<1>9. Stored(s, rate, time) = Trimmed(a) BY DEF Stored, a, w, new
<1>10. /\ Trimmed(a) \in Seq(Entry) /\ Len(Trimmed(a)) <= MaxSize
       /\ UniqueKeys(Trimmed(a)) /\ Entries(Trimmed(a)) \subseteq Entries(a)
  BY <1>4, <1>7, TrimmedProperties
<1>11. QED BY <1>8, <1>9, <1>10 DEF new

--------------------------------------------------------------------------------
\* The entry found for a pair is the only one.
LEMMA CachedProperties ==
  ASSUME NEW entries, NEW p, UniqueKeys(entries)
  PROVE  /\ Cached(entries, p) \subseteq Entries(entries)
         /\ \A e \in Cached(entries, p) : e.pair = p
         /\ \A e \in Entries(entries) : e.pair = p => Cached(entries, p) = {e}
<1>1. /\ Cached(entries, p) \subseteq Entries(entries)
      /\ \A e \in Cached(entries, p) : e.pair = p
  BY DEF Cached, Slots, Entries
<1>2. ASSUME NEW e \in Entries(entries), e.pair = p PROVE Cached(entries, p) = {e}
  <2>1. PICK i \in DOMAIN entries : e = entries[i] BY DEF Entries
  <2>2. Slots(entries, p) = {i} BY <1>2, <2>1 DEF Slots, UniqueKeys
  <2>3. QED BY <2>1, <2>2 DEF Cached
<1>3. QED BY <1>1, <1>2

--------------------------------------------------------------------------------
(***************************************************************************)
(* Rates and outcomes                                                      *)
(***************************************************************************)

\* A rate for p, derived only if the provider derives p.
RateFor(rate, p) == rate.pair = p /\ (rate.derived => p \in DerivedPairs)

\* An entry of the cache: filed under its pair, and not a served fallback.
Filed(e) == RateFor(e.rate, e.pair) /\ ~e.rate.marked

\* What the provider returns is a rate of the pair asked for, read now, never
\* marked, and derived only if the provider derives that pair.
LEMMA QuotableProperties ==
  ASSUME NEW p \in Pairs, NEW time \in Time, NEW rate \in Quotable(p, time)
  PROVE  /\ rate \in Rate /\ rate.pair = p /\ rate.at = time /\ ~rate.marked
         /\ rate.derived => p \in DerivedPairs
<1>1. PICK d \in {FALSE} \cup {p \in DerivedPairs} :
        rate = [pair |-> p, at |-> time, derived |-> d, marked |-> FALSE]
  BY DEF Quotable
<1>2. d \in BOOLEAN /\ (d => p \in DerivedPairs) BY Zenon
<1>3. QED BY <1>1, <1>2 DEF Rate

\* A rate is an outcome, and an error is one too.
LEMMA OutcomeProperties ==
  /\ \A r \in Rate : Returned(r) \in RateOutcome /\ Returned(r).rate = r
  /\ \A e \in Errors : Raised(e) \in ErrorOutcome
  /\ \A o \in RateOutcome : o.type = "rate" /\ o.rate \in Rate
  /\ \A o \in ErrorOutcome : o.type = "error"
  /\ \A o \in Outcome : o.type = "rate" => o \in RateOutcome
BY DEF Returned, Raised, RateOutcome, ErrorOutcome, Outcome

\* Marking a quote as a stale fallback changes nothing else.
LEMMA MarkedStaleProperties ==
  ASSUME NEW r \in Rate
  PROVE  /\ MarkedStale(r) \in Rate
         /\ MarkedStale(r).pair = r.pair /\ MarkedStale(r).derived = r.derived
BY DEF MarkedStale, Rate

================================================================================
