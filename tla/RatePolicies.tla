------------------------------ MODULE RatePolicies ------------------------------
(***************************************************************************)
(* What fx.py computes from exchange rates and what policy.py accepts.  A  *)
(* rate keeps the fields these functions read; the value of a quote plays  *)
(* no part in either.  Times are clock readings.  Two fields are history:  *)
(* `made' is every derivation a rate went through, `legs' the timestamps   *)
(* of the direct quotes it was computed from.                              *)
(***************************************************************************)
EXTENDS Integers, Sequences

CONSTANTS
  MaxSkew,  \* max_leg_skew of the triangulating provider, or None
  None      \* no value

ASSUME SkewAssumption == MaxSkew = None \/ MaxSkew \in Nat

Kinds == {"reference", "indicative", "executable", "derived"}
Derivations == {"none", "inverse", "triangulation", "custom"}

\* A provider's own quote.
DirectRate(source, kind, asOf, fetchedAt) ==
  [source |-> <<source>>, kind |-> kind, derivation |-> "none", note |-> None,
   asOf |-> asOf, fetchedAt |-> fetchedAt,
   made |-> {}, legs |-> {[asOf |-> asOf, fetchedAt |-> fetchedAt]}]

\* The checks of ExchangeRate: kind, derivation and metadata["derived"] agree.
Constructible(rate) ==
  /\ rate.kind \in Kinds /\ rate.derivation \in Derivations
  /\ rate.kind = "derived" <=> rate.derivation # "none"
  /\ rate.note \in {None, rate.derivation}

\* Mutant of Inverted: the metadata of the reverse rate are added last.
InvertedKeepingNote(rate) ==
  [rate EXCEPT !.source = <<"inverse">> \o @, !.kind = "derived",
               !.derivation = "inverse", !.note = IF @ = None THEN "inverse" ELSE @,
               !.made = @ \cup {"inverse"}]

Inverted(rate) ==
  [rate EXCEPT !.source = <<"inverse">> \o @, !.kind = "derived",
               !.derivation = "inverse", !.note = "inverse",
               !.made = @ \cup {"inverse"}]

\* _triangulate raises RateUnavailableError: the legs' timestamps are too far apart.
TooSkewed(left, right) ==
  /\ None \notin {MaxSkew, left.asOf, right.asOf}
  /\ left.asOf - right.asOf > MaxSkew \/ right.asOf - left.asOf > MaxSkew

\* Mutant of Triangulated: it is as fresh as its younger leg.
TriangulatedByYounger(left, right) ==
  [source |-> <<"triangulated">> \o left.source \o right.source,
   kind |-> "derived", derivation |-> "triangulation", note |-> "triangulation",
   asOf |-> IF left.asOf = None \/ (right.asOf # None /\ right.asOf > left.asOf)
            THEN right.asOf ELSE left.asOf,
   fetchedAt |-> IF left.fetchedAt > right.fetchedAt THEN left.fetchedAt ELSE right.fetchedAt,
   made |-> left.made \cup right.made \cup {"triangulation"},
   legs |-> left.legs \cup right.legs]

\* It is as old as its older leg, of those that have a timestamp, and as
\* recently fetched as its younger one.
Triangulated(left, right) ==
  [source |-> <<"triangulated">> \o left.source \o right.source,
   kind |-> "derived", derivation |-> "triangulation", note |-> "triangulation",
   asOf |-> IF left.asOf = None \/ (right.asOf # None /\ right.asOf < left.asOf)
            THEN right.asOf ELSE left.asOf,
   fetchedAt |-> IF left.fetchedAt > right.fetchedAt THEN left.fetchedAt ELSE right.fetchedAt,
   made |-> left.made \cup right.made \cup {"triangulation"},
   legs |-> left.legs \cup right.legs]

--------------------------------------------------------------------------------
\* Mutant of Accepts: it trusts an inverse-derived rate whatever its kind.
AcceptsInverses(policy, rate, now) ==
  /\ rate.derivation = "triangulation" => policy.triangulation
  /\ rate.kind \in policy.kinds \/ rate.derivation = "inverse"
  /\ policy.sources = {} \/ rate.source \in policy.sources
  /\ LET time == IF policy.maxAge # None /\ rate.asOf = None
                 THEN rate.fetchedAt ELSE rate.asOf
     IN /\ time # None => time - now <= policy.skew
        /\ policy.maxAge # None =>
             /\ rate.asOf # None \/ policy.missing = "use_fetched_at"
             /\ now - time <= policy.maxAge

\* RatePolicy.validate returns.  The application's own validator is left out.
Accepts(policy, rate, now) ==
  /\ rate.derivation = "inverse" => policy.inverse
  /\ rate.derivation = "triangulation" => policy.triangulation
  /\ rate.kind \in policy.kinds
  /\ policy.sources = {} \/ rate.source \in policy.sources
  /\ LET time == IF policy.maxAge # None /\ rate.asOf = None
                 THEN rate.fetchedAt ELSE rate.asOf
     IN /\ time # None => time - now <= policy.skew
        /\ policy.maxAge # None =>
             /\ rate.asOf # None \/ policy.missing = "use_fetched_at"
             /\ now - time <= policy.maxAge

\* RatePolicy(), with the skew it tolerates.
DefaultPolicy(skew) ==
  [maxAge |-> None, sources |-> {}, kinds |-> Kinds \ {"derived"},
   missing |-> "reject", inverse |-> FALSE, triangulation |-> FALSE, skew |-> skew]

\* The presets.
CheckoutPolicy(maxAge, sources, skew) ==
  [DefaultPolicy(skew) EXCEPT !.maxAge = maxAge, !.sources = sources,
                              !.kinds = {"executable"}]
TreasuryPolicy(maxAge, sources, skew) == CheckoutPolicy(maxAge, sources, skew)
ReportingPolicy(maxAge, sources, allowDerived, skew) ==
  [DefaultPolicy(skew) EXCEPT !.maxAge = maxAge, !.sources = sources,
     !.kinds = IF allowDerived THEN Kinds ELSE @, !.missing = "use_fetched_at",
     !.inverse = allowDerived, !.triangulation = allowDerived]
DisplayPolicy(maxAge, sources, skew) ==
  [DefaultPolicy(skew) EXCEPT !.maxAge = maxAge, !.sources = sources,
                              !.missing = "use_fetched_at"]

================================================================================
