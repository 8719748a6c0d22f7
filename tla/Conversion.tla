------------------------------- MODULE Conversion -------------------------------
(***************************************************************************)
(* One caller of a MoneyConverter, sync or async, over an audited and      *)
(* observed provider (HookedCall), with a CurrencyRegistry that the        *)
(* application changes at any time, also while the provider is asked.      *)
(*                                                                         *)
(* A definition is a Currency: its code, its exponent and its cash         *)
(* increment.  The registry starts as the application's clone of the ISO   *)
(* one; cloning makes another registry and changes none.  Whether a quote  *)
(* is refused, for its pair or by the policy (RatePolicies), is left open. *)
(***************************************************************************)
EXTENDS MinorUnits

CONSTANTS
  Codes,          \* currency codes
  Definitions,    \* the Currency values around
  Defaults,       \* those the registry starts with
  Majors,         \* amounts in major units, rationals
  Values,         \* values of rates, positive rationals
  Ratios,         \* ratio vectors money is allocated by
  MaxInterrupts,  \* bound on the interrupts of one provider call
  None            \* no value

ASSUME DefinitionsAssumption ==
  /\ \A d \in Definitions : d.code \in Codes /\ d.exponent \in 0 .. 9 /\ d.cash \in Nat \ {0}
  /\ Defaults \subseteq Definitions
ASSUME RationalsAssumption ==
  /\ \A r \in Majors : r.num \in Int /\ r.den \in Nat \ {0}
  /\ \A r \in Values : r.num \in Nat \ {0} /\ r.den \in Nat \ {0}
ASSUME RatiosAssumption == \A r \in Ratios : r \in Seq(Nat) /\ r # << >>
ASSUME InterruptsAssumption == MaxInterrupts \in Nat

VARIABLES
  variant, auditMode, observeMode, pc, inner, held, event, recorded, detached,
  interrupts, result,  \* the provider call, see HookedCall
  currencies,          \* the registry: code -> definition
  frozen,              \* ... and whether it may still change
  rounding,            \* the converter's rounding mode
  request,             \* the money and target of a conversion under way
  done                 \* ConversionResult of the last conversion

Hooks == INSTANCE HookedCall

Money == [minor : Int, currency : Definitions]
Requests == [money : Money, target : Definitions]

ASSUME NoneAssumption ==
  /\ None \notin Hooks!Outcomes
  /\ None \notin Definitions /\ None \notin Money /\ None \notin Requests

hooks == <<variant, auditMode, observeMode, pc, inner, held, event, recorded,
           detached, interrupts, result>>
registry == <<currencies, frozen>>
vars == <<hooks, registry, rounding, request, done>>

Init ==
  /\ Hooks!Init
  /\ currencies = [c \in Codes |-> IF \E d \in Defaults : d.code = c
                                   THEN CHOOSE d \in Defaults : d.code = c ELSE None]
  /\ frozen = FALSE
  /\ rounding \in RoundingModes
  /\ request = None
  /\ done = None

--------------------------------------------------------------------------------
\* The registry.  What the lock covers is one step; a refused call changes
\* nothing.
Known(code) == currencies[code] # None

Register(definition, replace) ==
  /\ ~frozen
  /\ Known(definition.code) => replace
  /\ currencies' = [currencies EXCEPT ![definition.code] = definition]
  /\ UNCHANGED <<hooks, frozen, rounding, request, done>>

\* The batch is stored in its order: the last definition of a code wins.
Stored(batch) ==
  [c \in Codes |->
     LET of == {i \in DOMAIN batch : batch[i].code = c}
     IN IF of = {} THEN currencies[c]
        ELSE batch[CHOOSE i \in of : \A j \in of : j <= i]]

\* Mutant of RegisterMany: only the registry is searched for duplicates.
RegisterManyUnseen(batch, replace) ==
  /\ ~frozen
  /\ ~replace => \A i \in DOMAIN batch : ~Known(batch[i].code)
  /\ currencies' = Stored(batch)
  /\ UNCHANGED <<hooks, frozen, rounding, request, done>>

RegisterMany(batch, replace) ==
  /\ ~frozen
  /\ ~replace => \A i \in DOMAIN batch :
       ~Known(batch[i].code) /\ \A j \in 1 .. i - 1 : batch[j].code # batch[i].code
  /\ currencies' = Stored(batch)
  /\ UNCHANGED <<hooks, frozen, rounding, request, done>>

Unregister(code) ==
  /\ ~frozen /\ Known(code)
  /\ currencies' = [currencies EXCEPT ![code] = None]
  /\ UNCHANGED <<hooks, frozen, rounding, request, done>>

Freeze ==
  /\ frozen' = TRUE
  /\ UNCHANGED <<hooks, currencies, rounding, request, done>>

Batches == [1 .. 2 -> Definitions]

RegistryChanges ==
  \/ \E d \in Definitions, replace \in BOOLEAN : Register(d, replace)
  \/ \E batch \in Batches, replace \in BOOLEAN : RegisterMany(batch, replace)
  \/ \E code \in Codes : Unregister(code)
  \/ Freeze

--------------------------------------------------------------------------------
\* ConversionResult, with the pair and the value of its rate.
Result(money, target, value) ==
  LET rate == [base |-> money.currency.code, quote |-> target.code, value |-> value]
  IN [source |-> money, target |-> ApplyRate(money, target, rate, rounding), rate |-> rate]

\* The conversion of money that needs no rate.
Identity(money) ==
  [source |-> money, target |-> money,
   rate |-> [base |-> money.currency.code, quote |-> money.currency.code,
             value |-> [num |-> 1, den |-> 1]]]

\* convert_with_rate up to its call of the provider.  The target is a Currency
\* or a code, which is looked up now.  An unknown code, or another definition
\* of the source's code, is refused.
Convert(money, to) ==
  LET target == IF to \in Codes THEN currencies[to] ELSE to
  IN /\ request = None
     /\ \/ /\ money.currency = target
           /\ done' = Identity(money)
           /\ UNCHANGED <<hooks, request>>
        \/ /\ target # None /\ target.code # money.currency.code
           /\ Hooks!Call
           /\ request' = [money |-> money, target |-> target]
           /\ done' = None
     /\ UNCHANGED <<registry, rounding>>

\* The provider call goes on.
Provide ==
  /\ Hooks!Proceed
  /\ UNCHANGED <<registry, rounding, request, done>>

\* The provider call is over: the conversion fails with it, or refuses its
\* quote, or applies it.
Conclude ==
  /\ request # None /\ pc = "idle"
  /\ request' = None
  /\ \/ UNCHANGED done
     \/ /\ result = "rate"
        /\ \E value \in Values : done' = Result(request.money, request.target, value)
  /\ UNCHANGED <<hooks, registry, rounding>>

Next ==
  \/ RegistryChanges
  \/ \E major \in Majors, d \in Definitions, to \in Codes \cup Definitions :
       Convert(FromMajor(major, d, rounding), to)
  \/ Provide
  \/ Conclude

Spec == Init /\ [][Next]_vars

--------------------------------------------------------------------------------
\* to_dict and to_columns keep the amount and the code of money; from_dict and
\* from_columns look the code up.
Loaded(money) ==
  IF Known(money.currency.code) THEN [money EXCEPT !.currency = currencies[money.currency.code]]
  ELSE None

\* Mutant of Replayed: the default rounding.
ReplayedHalfEven(money, rate) ==
  IF money = None \/ money.currency.code # rate.base \/ ~Known(rate.quote) THEN None
  ELSE ApplyRate(money, currencies[rate.quote], rate, "half_even")

\* replay, unless the policy refuses the quote.
Replayed(money, rate) ==
  IF money = None \/ money.currency.code # rate.base \/ ~Known(rate.quote) THEN None
  ELSE ApplyRate(money, currencies[rate.quote], rate, rounding)

\* Every variable has its type: money carries a definition of its code, the
\* result of a conversion is in the currency of the quote.
TypeOK ==
  /\ Hooks!TypeOK
  /\ \A c \in Codes : Known(c) => currencies[c] \in Definitions /\ currencies[c].code = c
  /\ frozen \in BOOLEAN
  /\ rounding \in RoundingModes
  /\ request # None => request.money \in Money /\ request.target \in Definitions
  /\ pc # "idle" => request # None
  /\ done # None =>
       /\ done.source \in Money /\ done.source.currency.code = done.rate.base
       /\ done.target \in Money /\ done.target.currency.code = done.rate.quote

\* "FAIL_OPEN protects the pricing path; FAIL_CLOSED protects the hook guarantee"
\* (observability.py 18-19): a conversion ends as the provider did, but for a
\* failure that is to be propagated or an interrupt, and an interrupt is lost
\* only on an open async observer; and however the sink, the observer and
\* interrupts fall together, a closed audit has recorded the quote by which
\* money was converted.
HooksKeepTheirModes ==
  /\ request # None =>
       /\ Hooks!HooksAreTransparent /\ Hooks!NoRateWithoutAudit
       /\ Hooks!InterruptsLostByOpenObserver
  /\ done # None /\ done.rate.base # done.rate.quote /\ auditMode = "fail_closed" => recorded

\* "Replay a conversion with a previously stored quote" (fx.py 783): stored money
\* and its quote replay to the same result at any later time, whatever was
\* registered, replaced or removed meanwhile, provided the registry then has
\* the definitions that were converted.
ResultsReplay ==
  done # None =>
    LET source == Loaded(done.source)
    IN source = done.source /\ currencies[done.rate.quote] = done.target.currency
         => Replayed(source, done.rate) = done.target

\* "rounded exactly once" (money.py 87): whatever the two exponents, the target
\* is the one amount of minor units that the rounding mode picks for the exact
\* product; cash rounding then picks a multiple of the cash increment alike.
RoundedOnce ==
  done # None =>
    LET r == done.rate.value
        t == done.target
        cash == CashRound(t, rounding).minor
    IN /\ Rounds(rounding, done.source.minor * r.num * Factor(t.currency),
                  r.den * Factor(done.source.currency), t.minor)
       /\ cash % t.currency.cash = 0
       /\ Rounds(rounding, t.minor, t.currency.cash, cash \div t.currency.cash)

\* "preserving every minor unit exactly" (money.py 196), "without losing minor
\* units" (money.py 212): converted money, negative too, is the sum of its
\* parts; parts differ by a unit at most, and an allocation is within a unit of
\* its exact share.  Ratios that are all zero allocate nothing.
SharesConserveUnits ==
  done # None =>
    LET minor == done.target.minor
    IN /\ \A parts \in 1 .. 3 :
            LET shares == Split(minor, parts)
            IN /\ Total(shares) = minor
               /\ \A i, j \in 1 .. parts : Abs(shares[i] - shares[j]) <= 1
       /\ \A ratios \in Ratios :
            LET shares == Allocate(minor, ratios)
                total == Total(ratios)
            IN /\ Total(shares) = IF total = 0 THEN 0 ELSE minor
               /\ \A i \in DOMAIN ratios :
                    Abs(shares[i] * total - minor * ratios[i]) <= total

\* "a failing batch cannot leave the registry partially updated" (registry.py
\* 87): a batch that replaces nothing changes the registry only by registering
\* every definition it was given; and a frozen registry stays as it is.
BatchesAreKept ==
  [][/\ frozen => UNCHANGED registry
     /\ \A batch \in Batches : RegisterMany(batch, FALSE) =>
          \A i \in DOMAIN batch : /\ currencies[batch[i].code] = None
                                  /\ currencies'[batch[i].code] = batch[i]]_vars

================================================================================
