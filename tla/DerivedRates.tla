------------------------------ MODULE DerivedRates ------------------------------
(***************************************************************************)
(* One caller of the deriving providers of fx.py: the inverse and the      *)
(* triangulating one, sync or async, one inside the other either way, over *)
(* a provider that answers as it likes.  Time passes while it is asked.    *)
(*                                                                         *)
(* The triangulating provider asks for the direct pair (stage 0), then for *)
(* the two legs through each of its pivots in turn; the sync one asks for  *)
(* the left leg first, the async one for both together.  `fate' foretells  *)
(* how a leg that is asked for will end, so that the two can be compared.  *)
(* Outer inverse: the pair asked for is turned round at most once          *)
(* (`flipped').  Inner inverse: every leg is turned round by itself.       *)
(***************************************************************************)
EXTENDS RatePolicies

CONSTANTS
  Pivots,    \* how many pivots are neither base nor quote
  Ages,      \* how old a quote may be when it is given
  MaxClock,  \* bound on the clock
  Policies   \* the policies a rate is shown to

ASSUME BoundsAssumption == Pivots \in Nat /\ Ages \subseteq Int /\ MaxClock \in Nat
ASSUME PoliciesAssumption == \A p \in Policies : p.maxAge = None \/ p.maxAge \in Nat

Legs == {"direct", "left", "right"}

\* What reading the body of a FrankfurterProvider's reply raises.  Only what its
\* handler catches becomes a ProviderError: text that is no JSON, or a rate that
\* is no number or not positive, raises as it does in the library.
DecodingFails ==
  [r \in {"wrong_shape", "wrong_fields", "no_json", "bad_number"} |->
     IF r \in {"wrong_shape", "wrong_fields"} THEN "provider_error" ELSE "other_error"]

\* What each reply makes of a call.
ReplyOutcome ==
  [r \in {"rate", "not_found", "network", "http_error"} \cup DOMAIN DecodingFails |->
     CASE r \in DOMAIN DecodingFails -> DecodingFails[r]
       [] r \in {"network", "http_error"} -> "provider_error"
       [] r = "not_found" -> "unavailable"
       [] OTHER -> r]

Fates == {ReplyOutcome[r] : r \in DOMAIN ReplyOutcome}

\* Every rate there can be, by the sources it names.
Rates ==
  [source : Seq({"upstream", "inverse", "triangulated"}),
   kind : Kinds, derivation : Derivations, note : Derivations \cup {None},
   asOf : Int \cup {None}, fetchedAt : Int,
   made : SUBSET Derivations, legs : SUBSET [asOf : Int \cup {None}, fetchedAt : Int]]

ASSUME NoneAssumption == None \notin Fates /\ None \notin Rates

VARIABLES
  outer,       \* the outer provider: inverse or triangulation
  concurrent,  \* async variant
  kind,        \* the kind of the innermost provider's quotes
  clock,
  pc,          \* idle or asking
  stage,       \* 0, or the pivot being tried
  flipped,     \* the outer inverse asks for the reverse pair
  step,        \* of each leg
  fate,        \* prophecy: how each leg that was asked for ends
  quote,       \* what each leg has returned
  outcome,     \* how the last call ended
  rate         \* what it returned

config == <<outer, concurrent, kind>>
vars == <<config, clock, pc, stage, flipped, step, fate, quote, outcome, rate>>

Pending(leg) == step[leg] \in {"asked", "reversed"}

Init ==
  /\ outer \in {"inverse", "triangulation"}
  /\ concurrent \in BOOLEAN
  /\ kind \in Kinds \ {"derived"}
  /\ clock = 0 /\ pc = "idle" /\ stage = 0 /\ flipped = FALSE
  /\ step = [l \in Legs |-> "unasked"]
  /\ fate = [l \in Legs |-> None] /\ quote = [l \in Legs |-> None]
  /\ outcome = None /\ rate = None

--------------------------------------------------------------------------------
\* The legs are asked for, and nothing else.
Ask(legs) ==
  /\ step' = [l \in Legs |-> IF l \in legs THEN "asked" ELSE "unasked"]
  /\ fate' \in {f \in [Legs -> Fates \cup {None}] : \A l \in Legs : f[l] = None <=> l \notin legs}
  /\ quote' = [l \in Legs |-> None]

\* The triangulating provider is done.  What it leaves unanswered is dropped.
Ends(o, r) ==
  /\ stage' = 0
  /\ IF o = "unavailable" /\ outer = "inverse" /\ ~flipped
     THEN flipped' = TRUE /\ Ask({"direct"}) /\ UNCHANGED <<pc, outcome, rate>>
     ELSE /\ pc' = "idle" /\ outcome' = o
          /\ rate' = IF flipped /\ r # None THEN Inverted(r) ELSE r
          /\ Ask({}) /\ UNCHANGED flipped

NextPivot ==
  IF stage < Pivots
  THEN /\ stage' = stage + 1
       /\ Ask(IF concurrent THEN {"left", "right"} ELSE {"left"})
       /\ UNCHANGED <<pc, flipped, outcome, rate>>
  ELSE Ends("unavailable", None)

Call ==
  /\ pc = "idle"
  /\ pc' = "asking" /\ stage' = 0 /\ flipped' = FALSE /\ outcome' = None /\ rate' = None
  /\ Ask({"direct"})
  /\ UNCHANGED <<config, clock>>

Tick ==
  /\ clock < MaxClock
  /\ clock' = clock + 1
  /\ UNCHANGED <<config, pc, stage, flipped, step, fate, quote, outcome, rate>>

\* The inner inverse provider found no rate for a leg and asks for its reverse.
Reverses(leg) ==
  /\ outer = "triangulation" /\ step[leg] = "asked"
  /\ step' = [step EXCEPT ![leg] = "reversed"]
  /\ UNCHANGED <<config, clock, pc, stage, flipped, fate, quote, outcome, rate>>

\* A leg returns a rate, and the provider goes on with what it has.
Quoted(leg) ==
  /\ Pending(leg) /\ fate[leg] = "rate"
  /\ \E asOf \in {clock - age : age \in Ages} \cup {None} :
       LET direct == DirectRate("upstream", kind, asOf, clock)
           quoted == [quote EXCEPT ![leg] =
                        IF step[leg] = "reversed" THEN Inverted(direct) ELSE direct]
       IN IF leg = "direct" THEN Ends("rate", quoted[leg])
          ELSE IF None \notin {quoted["left"], quoted["right"]}
          THEN IF TooSkewed(quoted["left"], quoted["right"]) THEN NextPivot
               ELSE Ends("rate", Triangulated(quoted["left"], quoted["right"]))
          ELSE /\ quote' = quoted
               /\ IF concurrent
                  THEN step' = [step EXCEPT ![leg] = "rate"] /\ UNCHANGED fate
                  ELSE /\ step' = [step EXCEPT !["left"] = "rate", !["right"] = "asked"]
                       /\ \E f \in Fates : fate' = [fate EXCEPT !["right"] = f]
               /\ UNCHANGED <<pc, stage, flipped, outcome, rate>>
  /\ UNCHANGED <<config, clock>>

\* There is no rate for a leg, nor for its reverse if an inner inverse asks for it.
Unavailable(leg) ==
  /\ Pending(leg) /\ fate[leg] = "unavailable"
  /\ outer = "triangulation" => step[leg] = "reversed"
  /\ NextPivot
  /\ UNCHANGED <<config, clock>>

\* Mutant of Fails: a ProviderError counts as a missing rate.
FailsOver(leg) ==
  /\ Pending(leg) /\ fate[leg] \in {"provider_error", "other_error"}
  /\ IF fate[leg] = "other_error" THEN Ends(fate[leg], None) ELSE NextPivot
  /\ UNCHANGED <<config, clock>>

\* A leg raises another exception: it passes through every provider.
Fails(leg) ==
  /\ Pending(leg) /\ fate[leg] \in {"provider_error", "other_error"}
  /\ Ends(fate[leg], None)
  /\ UNCHANGED <<config, clock>>

Next ==
  \/ Call \/ Tick
  \/ \E leg \in Legs : Reverses(leg) \/ Quoted(leg) \/ Unavailable(leg) \/ Fails(leg)

Spec == Init /\ [][Next]_vars

--------------------------------------------------------------------------------
\* Every variable has its type, and a returned rate is one that ExchangeRate
\* accepts, however often it was derived.
TypeOK ==
  /\ clock \in 0 .. MaxClock /\ pc \in {"idle", "asking"} /\ stage \in 0 .. Pivots
  /\ step \in [Legs -> {"unasked", "asked", "reversed", "rate"}]
  /\ fate \in [Legs -> Fates \cup {None}]
  /\ outcome \in Fates \cup {None}
  /\ rate # None <=> outcome = "rate"
  /\ rate # None => Constructible(rate)

\* A PolicyRateProvider, or a converter, around the deriving providers lets the
\* rate through: at once, or when it is shown to the policy again later.
Admits(policy) == outcome = "rate" /\ Accepts(policy, rate, clock)

Allowed(policy) == {d \in {"inverse", "triangulation"} :
                      IF d = "inverse" THEN policy.inverse ELSE policy.triangulation}

\* "rejecting derived rates unless the application opts into them explicitly"
\* (policy.py 69): a rate that a policy accepts was derived only if the policy takes
\* derived kinds and allows what was done to it last.  Only an earlier
\* derivation, of one of the legs or of the reverse pair, escapes the policy.
DerivationsAreAllowed ==
  \A p \in Policies : Admits(p) =>
    /\ rate.made # {} => "derived" \in p.kinds /\ rate.derivation \in Allowed(p)
    /\ \A d \in rate.made \ Allowed(p) : d # outer

\* A rate accepted with a maximal age is that fresh in every quote it was
\* computed from, as far as the quotes tell their age: a young leg never makes
\* up for an old one, whenever the rate is shown to the policy.
EveryLegIsFresh ==
  \A p \in Policies : p.maxAge # None /\ Admits(p) =>
      /\ \A leg \in rate.legs : leg.asOf # None => clock - leg.asOf <= p.maxAge
      /\ p.missing = "reject" => \E leg \in rate.legs : leg.asOf # None

\* How a pivot ends when its legs are asked for in turn.
InTurn == IF fate["left"] = "rate" THEN fate["right"] ELSE fate["left"]

\* "performs the same logical operation serially" (ARCHITECTURE.md 60): a pivot
\* whose legs run together ends as it would in turn, except when the right leg
\* fails while the left one is still out: then it ends as the right one does.
ConcurrentLegsAgree ==
  [][stage > 0 /\ <<pc, stage, flipped>>' # <<pc, stage, flipped>> =>
       LET ended == IF pc' = "idle" THEN outcome' ELSE "unavailable"
       IN \/ ended = InTurn
          \/ InTurn = "rate" /\ ended = "unavailable" /\ MaxSkew # None
          \/ concurrent /\ Pending("left") /\ fate["right"] # "rate" /\ ended = fate["right"]]_vars

================================================================================
