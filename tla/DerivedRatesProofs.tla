--------------------------- MODULE DerivedRatesProofs ---------------------------
(***************************************************************************)
(* Proofs about DerivedRates and the rates of RatePolicies, for any number *)
(* of pivots, ages of quotes, skews and policies, both nestings and both   *)
(* variants.                                                               *)
(***************************************************************************)
EXTENDS DerivedRates, SequenceTheorems, TLAPS

--------------------------------------------------------------------------------
(* What every derivation keeps of a rate. *)

\* A rate without a timestamp has no dated leg; one with a timestamp is as old
\* as any of its dated legs, and has one.
AgeOK(r) ==
  /\ r.asOf = None => \A leg \in r.legs : leg.asOf = None
  /\ r.asOf # None =>
       /\ \A leg \in r.legs : leg.asOf # None => r.asOf <= leg.asOf
       /\ \E leg \in r.legs : leg.asOf # None

\* A rate is derived as its last derivation says, and by no other if by none.
RateOK(r) ==
  /\ r \in Rates /\ Constructible(r)
  /\ r.made \subseteq {"inverse", "triangulation"}
  /\ r.made = {} <=> r.derivation = "none"
  /\ r.made # {} => r.derivation \in r.made
  /\ AgeOK(r)

Sources == {"upstream", "inverse", "triangulated"}

\* A source is named in front of those a rate was derived from.
LEMMA SourceOfDerived ==
  ASSUME NEW name \in Sources, NEW s \in Seq(Sources)
  PROVE  <<name>> \in Seq(Sources) /\ <<name>> \o s \in Seq(Sources)
<1>1. <<name>> \in Seq(Sources) OBVIOUS
<1>2. QED BY <1>1, ConcatProperties, Zenon

\* A quote of the innermost provider, before anything is derived from it.
LEMMA DirectIsOK ==
  ASSUME NEW k \in Kinds \ {"derived"}, NEW asOf \in Int \cup {None}, NEW at \in Int
  PROVE  /\ RateOK(DirectRate("upstream", k, asOf, at))
         /\ DirectRate("upstream", k, asOf, at).made = {}
<1> DEFINE leg == [asOf |-> asOf, fetchedAt |-> at]
<1>1. PICK legs : legs = {leg} OBVIOUS
<1>2. <<"upstream">> \in Seq(Sources) BY DEF Sources
<1>3. PICK r : r = [source |-> <<"upstream">>, kind |-> k, derivation |-> "none", note |-> None,
                    asOf |-> asOf, fetchedAt |-> at, made |-> {}, legs |-> legs]
  OBVIOUS
<1>4. r = DirectRate("upstream", k, asOf, at) BY <1>1, <1>3 DEF DirectRate
<1>5. legs \in SUBSET [asOf : Int \cup {None}, fetchedAt : Int] BY <1>1
<1>6. r \in Rates BY <1>2, <1>3, <1>5 DEF Rates, Sources, Kinds, Derivations
<1>7. Constructible(r) BY <1>3 DEF Constructible, Kinds, Derivations
<1>8. \A l \in legs : l.asOf = asOf BY <1>1
<1>9. leg \in legs BY <1>1
<1>10. AgeOK(r)
  <2>1. r.asOf = asOf /\ r.legs = legs BY <1>3
  <2>2. leg.asOf = asOf OBVIOUS
  <2> HIDE DEF leg
  <2>3. QED BY <2>1, <2>2, <1>8, <1>9 DEF AgeOK
<1>11. r.derivation = "none" /\ r.made = {} BY <1>3
<1>12. QED BY <1>4, <1>6, <1>7, <1>10, <1>11 DEF RateOK

\* Turning a rate round keeps its age and all of its history.
LEMMA InvertedIsOK ==
  ASSUME NEW r, RateOK(r)
  PROVE  /\ RateOK(Inverted(r))
         /\ Inverted(r).derivation = "inverse"
         /\ Inverted(r).made = r.made \cup {"inverse"}
<1>0. r.source \in Seq(Sources) BY DEF RateOK, Rates, Sources
<1>1. PICK s \in Seq(Sources) : s = <<"inverse">> \o r.source
  BY <1>0, SourceOfDerived DEF Sources
<1>2. Inverted(r) \in Rates BY <1>1 DEF Inverted, RateOK, Rates, Sources, Kinds, Derivations
<1>3. /\ Inverted(r).kind = "derived" /\ Inverted(r).derivation = "inverse"
      /\ Inverted(r).note = "inverse" /\ Inverted(r).made = r.made \cup {"inverse"}
      /\ Inverted(r).asOf = r.asOf /\ Inverted(r).legs = r.legs
  BY DEF Inverted, RateOK, Rates
<1>4. Constructible(Inverted(r)) BY <1>3 DEF Constructible, Kinds, Derivations
<1>5. AgeOK(Inverted(r)) BY <1>3 DEF RateOK, AgeOK
<1>6. QED BY <1>2, <1>3, <1>4, <1>5 DEF RateOK

\* A triangulated rate is as old as its older dated leg, and of both histories.
LEMMA TriangulatedIsOK ==
  ASSUME NEW a, RateOK(a), NEW b, RateOK(b)
  PROVE  /\ RateOK(Triangulated(a, b))
         /\ Triangulated(a, b).derivation = "triangulation"
         /\ Triangulated(a, b).made = a.made \cup b.made \cup {"triangulation"}
<1> DEFINE r == Triangulated(a, b)
<1>1. <<"triangulated">> \o a.source \o b.source \in Seq(Sources)
  <2>1. a.source \in Seq(Sources) /\ b.source \in Seq(Sources) BY DEF RateOK, Rates, Sources
  <2>2. <<"triangulated">> \o a.source \in Seq(Sources) BY <2>1, SourceOfDerived DEF Sources
  <2>3. QED BY <2>1, <2>2, ConcatProperties, Zenon
<1>2. r.asOf \in Int \cup {None} /\ r.fetchedAt \in Int
  BY DEF Triangulated, RateOK, Rates
<1>3. r \in Rates BY <1>1, <1>2 DEF Triangulated, RateOK, Rates, Sources, Kinds, Derivations
<1>4. Constructible(r) BY DEF Triangulated, Constructible, Kinds, Derivations
<1>5. AgeOK(r)
  <2>1. r.legs = a.legs \cup b.legs BY DEF Triangulated
  <2>2. r.asOf = IF a.asOf = None \/ (b.asOf # None /\ b.asOf < a.asOf)
                 THEN b.asOf ELSE a.asOf
    BY DEF Triangulated
  <2>3. /\ AgeOK(a) /\ a.asOf \in Int \cup {None}
        /\ \A leg \in a.legs : leg.asOf \in Int \cup {None}
    BY DEF RateOK, Rates
  <2>4. /\ AgeOK(b) /\ b.asOf \in Int \cup {None}
        /\ \A leg \in b.legs : leg.asOf \in Int \cup {None}
    BY DEF RateOK, Rates
  <2> HIDE DEF r
  <2>5. QED BY <2>1, <2>2, <2>3, <2>4 DEF AgeOK
<1>6. QED BY <1>3, <1>4, <1>5 DEF RateOK, Triangulated

--------------------------------------------------------------------------------
(* The invariant. *)

Types ==
  /\ outer \in {"inverse", "triangulation"} /\ concurrent \in BOOLEAN
  /\ kind \in Kinds \ {"derived"}
  /\ clock \in 0 .. MaxClock /\ pc \in {"idle", "asking"} /\ stage \in 0 .. Pivots
  /\ flipped \in BOOLEAN
  /\ step \in [Legs -> {"unasked", "asked", "reversed", "rate"}]
  /\ fate \in [Legs -> Fates \cup {None}]
  /\ quote \in [Legs -> Rates \cup {None}]
  /\ outcome \in Fates \cup {None}

\* A leg is turned round only inside a triangulation, and never triangulated.
LegOK(r) ==
  /\ RateOK(r)
  /\ r.made \subseteq IF outer = "triangulation" THEN {"inverse"} ELSE {}

\* Which legs are out at which stage, and what is known of those that are back.
LegsOK ==
  /\ pc = "idle" => stage = 0 /\ \A l \in Legs : step[l] = "unasked"
  /\ flipped => outer = "inverse"
  /\ \A l \in Legs :
       /\ step[l] = "reversed" => outer = "triangulation"
       /\ step[l] = "rate" => fate[l] = "rate"
       /\ quote[l] # None => step[l] = "rate" /\ LegOK(quote[l])
  /\ stage = 0 => step["left"] = "unasked" /\ step["right"] = "unasked"
  /\ stage > 0 => /\ step["direct"] = "unasked" /\ step["left"] # "unasked"
                  /\ concurrent => step["right"] # "unasked"
                  /\ ~concurrent /\ step["right"] # "unasked" => quote["left"] # None

\* The outer provider's derivation is the last one there is.
Final(r) == RateOK(r) /\ (outer \in r.made => r.derivation = outer)

ResultOK == (rate # None <=> outcome = "rate") /\ (rate # None => Final(rate))

IInv == Types /\ LegsOK /\ ResultOK


\* What every call can end with.
LEMMA FatesAre == Fates = {"rate", "unavailable", "provider_error", "other_error"}
BY DEF Fates, ReplyOutcome, DecodingFails

\* Nothing is asked for at first.
LEMMA InitInv == Init => IInv
<1> SUFFICES ASSUME Init PROVE IInv OBVIOUS
<1> USE BoundsAssumption, NoneAssumption, FatesAre DEF BoundsAssumption, NoneAssumption, Init, Legs
<1>1. Types
  <2>1. concurrent \in BOOLEAN /\ flipped \in BOOLEAN OBVIOUS
  <2>2. /\ step \in [Legs -> {"unasked", "asked", "reversed", "rate"}]
        /\ fate \in [Legs -> Fates \cup {None}]
        /\ quote \in [Legs -> Rates \cup {None}]
    OBVIOUS
  <2>3. clock \in 0 .. MaxClock /\ stage \in 0 .. Pivots OBVIOUS
  <2>4. QED BY <2>1, <2>2, <2>3 DEF Types
<1>2. LegsOK BY DEF LegsOK
<1>3. ResultOK BY DEF ResultOK
<1>4. QED BY <1>1, <1>2, <1>3 DEF IInv

\* Legs are asked for.
LEMMA AskLegs ==
  ASSUME NEW legs \in SUBSET Legs, Ask(legs)
  PROVE  /\ step' \in [Legs -> {"asked", "unasked"}]
         /\ fate' \in [Legs -> Fates \cup {None}]
         /\ quote' \in [Legs -> {None}]
         /\ \A l \in Legs : step'[l] = "unasked" <=> l \notin legs
BY DEF Ask

\* The triangulating provider ends, and with it the call unless the reverse
\* pair is asked for.
LEMMA EndsInv ==
  ASSUME IInv, pc = "asking", NEW o \in Fates, NEW r, Ends(o, r), UNCHANGED <<config, clock>>,
         r # None <=> o = "rate",
         r # None => RateOK(r) /\ (outer \in r.made => r.derivation = outer)
  PROVE  IInv'
<1> USE NoneAssumption, BoundsAssumption DEF NoneAssumption, BoundsAssumption
<1>1. Types /\ LegsOK /\ ResultOK BY DEF IInv
<1>2. UNCHANGED <<outer, concurrent, kind, clock>> BY DEF config
<1>3. CASE o = "unavailable" /\ outer = "inverse" /\ ~flipped
  <2>1. /\ stage' = 0 /\ flipped' = TRUE /\ Ask({"direct"})
        /\ UNCHANGED <<pc, outcome, rate>>
    BY <1>3 DEF Ends
  <2>2. {"direct"} \in SUBSET Legs BY DEF Legs
  <2>3. /\ step' \in [Legs -> {"asked", "unasked"}]
        /\ fate' \in [Legs -> Fates \cup {None}] /\ quote' \in [Legs -> {None}]
        /\ \A l \in Legs : step'[l] = "unasked" <=> l \notin {"direct"}
    BY <2>1, <2>2, AskLegs
  <2>4. Types' BY <1>1, <1>2, <2>1, <2>3 DEF Types
  <2>5. LegsOK' BY <1>2, <1>3, <2>1, <2>3 DEF LegsOK, Legs
  <2>6. ResultOK' BY <1>1, <1>2, <2>1 DEF ResultOK, Final
  <2>7. QED BY <2>4, <2>5, <2>6 DEF IInv
<1>4. CASE ~(o = "unavailable" /\ outer = "inverse" /\ ~flipped)
  <2>1. /\ stage' = 0 /\ pc' = "idle" /\ outcome' = o /\ Ask({}) /\ UNCHANGED flipped
        /\ rate' = IF flipped /\ r # None THEN Inverted(r) ELSE r
    BY <1>4 DEF Ends
  <2>2. /\ step' \in [Legs -> {"asked", "unasked"}]
        /\ fate' \in [Legs -> Fates \cup {None}] /\ quote' \in [Legs -> {None}]
        /\ \A l \in Legs : step'[l] = "unasked"
    BY <2>1, AskLegs
  <2>3. Types' BY <1>1, <1>2, <2>1, <2>2 DEF Types
  <2>4. LegsOK' BY <1>1, <1>2, <2>1, <2>2 DEF LegsOK, Legs
  <2>5. ResultOK'
    <3>1. CASE flipped /\ r # None
      <4>1. /\ RateOK(Inverted(r)) /\ Inverted(r).derivation = "inverse"
            /\ rate' = Inverted(r)
        BY <2>1, <3>1, InvertedIsOK
      <4>2. outer = "inverse" BY <1>1, <3>1 DEF LegsOK
      <4>3. rate' # None BY <4>1 DEF RateOK
      <4>4. QED BY <1>2, <2>1, <3>1, <4>1, <4>2, <4>3 DEF ResultOK, Final
    <3>2. CASE ~(flipped /\ r # None) BY <1>2, <2>1, <3>2 DEF ResultOK, Final
    <3>3. QED BY <3>1, <3>2
  <2>6. QED BY <2>3, <2>4, <2>5 DEF IInv
<1>5. QED BY <1>3, <1>4

\* The next pivot is tried, or none is left.
LEMMA NextPivotInv ==
  ASSUME IInv, pc = "asking", NextPivot, UNCHANGED <<config, clock>>
  PROVE  IInv'
<1>1. Types /\ LegsOK /\ ResultOK BY DEF IInv
<1>2. UNCHANGED <<outer, concurrent, kind, clock>> BY DEF config
<1>3. CASE stage < Pivots
  <2>1. PICK legs \in SUBSET Legs :
          /\ Ask(legs) /\ "direct" \notin legs /\ "left" \in legs
          /\ concurrent <=> "right" \in legs
    BY <1>1, <1>3 DEF NextPivot, Types, Legs
  <2>2. stage' = stage + 1 /\ UNCHANGED <<pc, flipped, outcome, rate>>
    BY <1>3 DEF NextPivot
  <2>3. /\ step' \in [Legs -> {"asked", "unasked"}]
        /\ fate' \in [Legs -> Fates \cup {None}] /\ quote' \in [Legs -> {None}]
        /\ \A l \in Legs : step'[l] = "unasked" <=> l \notin legs
    BY <2>1, AskLegs
  <2>4. stage' \in 1 .. Pivots
    BY <1>1, <1>3, <2>2, BoundsAssumption DEF Types, BoundsAssumption
  <2>5. Types' BY <1>1, <1>2, <2>2, <2>3, <2>4 DEF Types
  <2>6. LegsOK'
    <3>1. /\ pc' = "asking" /\ (flipped' => outer' = "inverse")
          /\ stage' > 0
      BY <1>1, <1>2, <2>2, <2>4 DEF LegsOK
    <3>2. \A l \in Legs : /\ step'[l] \in {"asked", "unasked"} /\ quote'[l] = None
      BY <2>3
    <3>3. /\ step'["direct"] = "unasked" /\ step'["left"] # "unasked"
          /\ concurrent => step'["right"] # "unasked"
          /\ ~concurrent => step'["right"] = "unasked"
      BY <2>1, <2>3 DEF Legs
    <3>4. QED BY <1>2, <3>1, <3>2, <3>3 DEF LegsOK
  <2>7. ResultOK' BY <1>1, <1>2, <2>2 DEF ResultOK, Final
  <2>8. QED BY <2>5, <2>6, <2>7 DEF IInv
<1>4. CASE ~(stage < Pivots)
  <2>1. Ends("unavailable", None) BY <1>4 DEF NextPivot
  <2>2. "unavailable" \in Fates BY FatesAre
  <2>3. QED BY <2>1, <2>2, EndsInv
<1>5. QED BY <1>3, <1>4


\* A leg is out only during a call.
LEMMA PendingAsks ==
  ASSUME IInv, NEW leg \in Legs, Pending(leg)
  PROVE  /\ pc = "asking"
         /\ stage > 0 => leg \in {"left", "right"}
         /\ stage = 0 => leg = "direct"
         /\ quote[leg] = None
BY DEF IInv, Types, LegsOK, Pending, Legs

\* A call begins.
LEMMA CallInv == IInv /\ Call => IInv'
<1> SUFFICES ASSUME IInv, Call PROVE IInv' OBVIOUS
<1> USE NoneAssumption, BoundsAssumption DEF NoneAssumption, BoundsAssumption
<1>1. Types /\ LegsOK /\ ResultOK BY DEF IInv
<1>2. /\ pc' = "asking" /\ stage' = 0 /\ flipped' = FALSE /\ outcome' = None /\ rate' = None
      /\ Ask({"direct"}) /\ UNCHANGED <<outer, concurrent, kind, clock>>
  BY DEF Call, config
<1>3. {"direct"} \in SUBSET Legs BY DEF Legs
<1>4. /\ step' \in [Legs -> {"asked", "unasked"}]
      /\ fate' \in [Legs -> Fates \cup {None}] /\ quote' \in [Legs -> {None}]
      /\ \A l \in Legs : step'[l] = "unasked" <=> l \notin {"direct"}
  BY <1>2, <1>3, AskLegs
<1>5. Types'
  <2>1. flipped' \in BOOLEAN BY <1>2
  <2>2. step' \in [Legs -> {"unasked", "asked", "reversed", "rate"}] BY <1>4
  <2>3. quote' \in [Legs -> Rates \cup {None}] BY <1>4
  <2>4. QED BY <1>1, <1>2, <1>4, <2>1, <2>2, <2>3 DEF Types
<1>6. LegsOK' BY <1>2, <1>4 DEF LegsOK, Legs
<1>7. ResultOK' BY <1>2, FatesAre DEF ResultOK
<1>8. QED BY <1>5, <1>6, <1>7 DEF IInv

\* An inner inverse asks for the reverse of a leg.
LEMMA ReversesInv ==
  ASSUME IInv, NEW leg \in Legs, Reverses(leg)
  PROVE  IInv'
<1>1. Types /\ LegsOK /\ ResultOK BY DEF IInv
<1>2. /\ outer = "triangulation" /\ step[leg] = "asked"
      /\ step' = [step EXCEPT ![leg] = "reversed"]
      /\ UNCHANGED <<outer, concurrent, kind, clock, pc, stage, flipped, fate, quote,
                     outcome, rate>>
  BY DEF Reverses, config
<1>3. Types' BY <1>1, <1>2 DEF Types
<1>4. LegsOK' BY <1>1, <1>2 DEF Types, LegsOK, LegOK, Legs
<1>5. ResultOK' BY <1>1, <1>2 DEF ResultOK, Final
<1>6. QED BY <1>3, <1>4, <1>5 DEF IInv

\* The rate a leg returns, turned round or not.
LEMMA LegIsOK ==
  ASSUME IInv, NEW leg \in Legs, NEW asOf \in {clock - age : age \in Ages} \cup {None}
  PROVE  LET direct == DirectRate("upstream", kind, asOf, clock)
         IN LegOK(IF step[leg] = "reversed" THEN Inverted(direct) ELSE direct)
<1> DEFINE direct == DirectRate("upstream", kind, asOf, clock)
<1>1. /\ clock \in Int /\ kind \in Kinds \ {"derived"}
      /\ outer \in {"inverse", "triangulation"}
      /\ step[leg] = "reversed" => outer = "triangulation"
  BY BoundsAssumption DEF BoundsAssumption, IInv, Types, LegsOK
<1>2. asOf \in Int \cup {None} BY <1>1, BoundsAssumption DEF BoundsAssumption
<1>3. RateOK(direct) /\ direct.made = {} BY <1>1, <1>2, DirectIsOK
<1> HIDE DEF direct
<1>4. LegOK(direct) BY <1>3 DEF LegOK
<1>5. step[leg] = "reversed" => LegOK(Inverted(direct))
  BY <1>1, <1>3, InvertedIsOK DEF LegOK
<1>6. QED BY <1>4, <1>5 DEF direct

\* The three things a quoted leg leads to: it is the direct rate, or the second
\* leg of a pivot, or the first.
LEMMA QuotedCases ==
  ASSUME IInv, NEW leg \in Legs, Quoted(leg)
  PROVE  \E q \in Rates :
           /\ LegOK(q) /\ fate[leg] = "rate" /\ Pending(leg) /\ UNCHANGED <<config, clock>>
           /\ \/ leg = "direct" /\ Ends("rate", q)
              \/ /\ leg # "direct"
                 /\ \E a, b \in Rates :
                      /\ LegOK(a) /\ LegOK(b)
                      /\ fate["left"] = "rate" /\ fate["right"] = "rate"
                      /\ \/ TooSkewed(a, b) /\ NextPivot
                         \/ ~TooSkewed(a, b) /\ Ends("rate", Triangulated(a, b))
              \/ /\ leg # "direct"
                 /\ quote' = [quote EXCEPT ![leg] = q]
                 /\ IF concurrent
                    THEN step' = [step EXCEPT ![leg] = "rate"] /\ UNCHANGED fate
                    ELSE /\ leg = "left"
                         /\ step' = [step EXCEPT !["left"] = "rate", !["right"] = "asked"]
                         /\ \E f \in Fates : fate' = [fate EXCEPT !["right"] = f]
                 /\ UNCHANGED <<pc, stage, flipped, outcome, rate>>
<1> USE NoneAssumption DEF NoneAssumption
<1>1. Types /\ LegsOK BY DEF IInv
<1>2. Pending(leg) /\ fate[leg] = "rate" /\ UNCHANGED <<config, clock>> BY DEF Quoted
<1>3. PICK asOf \in {clock - age : age \in Ages} \cup {None} :
        LET direct == DirectRate("upstream", kind, asOf, clock)
            quoted == [quote EXCEPT ![leg] =
                         IF step[leg] = "reversed" THEN Inverted(direct) ELSE direct]
        IN IF leg = "direct" THEN Ends("rate", quoted[leg])
           ELSE IF None \notin {quoted["left"], quoted["right"]}
           THEN IF TooSkewed(quoted["left"], quoted["right"]) THEN NextPivot
                ELSE Ends("rate", Triangulated(quoted["left"], quoted["right"]))
           ELSE /\ quote' = quoted
                /\ IF concurrent
                   THEN step' = [step EXCEPT ![leg] = "rate"] /\ UNCHANGED fate
                   ELSE /\ step' = [step EXCEPT !["left"] = "rate", !["right"] = "asked"]
                        /\ \E f \in Fates : fate' = [fate EXCEPT !["right"] = f]
                /\ UNCHANGED <<pc, stage, flipped, outcome, rate>>
  BY DEF Quoted
<1> DEFINE direct == DirectRate("upstream", kind, asOf, clock)
<1>4. PICK q : /\ q = IF step[leg] = "reversed" THEN Inverted(direct) ELSE direct
               /\ LegOK(q)
  BY LegIsOK
<1>5. q \in Rates /\ q # None BY <1>4 DEF LegOK, RateOK
<1>6. PICK quoted : quoted = [quote EXCEPT ![leg] = q] OBVIOUS
<1>7. /\ quoted[leg] = q
      /\ \A l \in Legs \ {leg} : quoted[l] = quote[l]
  BY <1>1, <1>6 DEF Types
<1>8. \/ leg = "direct" /\ Ends("rate", q)
      \/ /\ leg # "direct" /\ None \notin {quoted["left"], quoted["right"]}
         /\ \/ TooSkewed(quoted["left"], quoted["right"]) /\ NextPivot
            \/ /\ ~TooSkewed(quoted["left"], quoted["right"])
               /\ Ends("rate", Triangulated(quoted["left"], quoted["right"]))
      \/ /\ leg # "direct" /\ None \in {quoted["left"], quoted["right"]}
         /\ quote' = quoted
         /\ IF concurrent
            THEN step' = [step EXCEPT ![leg] = "rate"] /\ UNCHANGED fate
            ELSE /\ step' = [step EXCEPT !["left"] = "rate", !["right"] = "asked"]
                 /\ \E f \in Fates : fate' = [fate EXCEPT !["right"] = f]
         /\ UNCHANGED <<pc, stage, flipped, outcome, rate>>
  BY <1>3, <1>4, <1>6, <1>7, Zenon
<1>9. ASSUME leg # "direct", None \notin {quoted["left"], quoted["right"]}
      PROVE  /\ \A l \in {"left", "right"} : quoted[l] \in Rates /\ LegOK(quoted[l])
             /\ fate["left"] = "rate" /\ fate["right"] = "rate"
  <2>1. ASSUME NEW l \in {"left", "right"}, l # leg
        PROVE  quoted[l] \in Rates /\ LegOK(quoted[l]) /\ fate[l] = "rate"
    BY <1>1, <1>7, <1>9, <2>1 DEF Types, LegsOK, Legs
  <2>2. QED BY <1>2, <1>4, <1>5, <1>7, <1>9, <2>1 DEF Legs
<1>10. ASSUME leg # "direct", None \in {quoted["left"], quoted["right"]}, ~concurrent
       PROVE  leg = "left"
  BY <1>1, <1>2, <1>5, <1>7, <1>10, PendingAsks DEF Types, LegsOK, Legs, Pending
<1>11. QED BY <1>2, <1>4, <1>5, <1>6, <1>8, <1>9, <1>10


\* A leg returns a rate.
LEMMA QuotedInv ==
  ASSUME IInv, NEW leg \in Legs, Quoted(leg)
  PROVE  IInv'
<1> USE NoneAssumption DEF NoneAssumption
<1>1. Types /\ LegsOK /\ ResultOK BY DEF IInv
<1>2. PICK q \in Rates :
        /\ LegOK(q) /\ fate[leg] = "rate" /\ Pending(leg) /\ UNCHANGED <<config, clock>>
        /\ \/ leg = "direct" /\ Ends("rate", q)
           \/ /\ leg # "direct"
              /\ \E a, b \in Rates :
                   /\ LegOK(a) /\ LegOK(b)
                   /\ fate["left"] = "rate" /\ fate["right"] = "rate"
                   /\ \/ TooSkewed(a, b) /\ NextPivot
                      \/ ~TooSkewed(a, b) /\ Ends("rate", Triangulated(a, b))
           \/ /\ leg # "direct"
              /\ quote' = [quote EXCEPT ![leg] = q]
              /\ IF concurrent
                 THEN step' = [step EXCEPT ![leg] = "rate"] /\ UNCHANGED fate
                 ELSE /\ leg = "left"
                      /\ step' = [step EXCEPT !["left"] = "rate", !["right"] = "asked"]
                      /\ \E f \in Fates : fate' = [fate EXCEPT !["right"] = f]
              /\ UNCHANGED <<pc, stage, flipped, outcome, rate>>
  BY QuotedCases
<1>3. pc = "asking" /\ (leg # "direct" => stage > 0)
  BY <1>1, <1>2, PendingAsks, BoundsAssumption DEF Types, BoundsAssumption
<1>4. "rate" \in Fates BY FatesAre
<1>5. CASE leg = "direct" /\ Ends("rate", q)
  <2>1. RateOK(q) /\ (outer \in q.made => q.derivation = outer)
    BY <1>1, <1>2 DEF LegOK, Types
  <2>2. q # None BY <1>2
  <2>3. QED BY <1>2, <1>3, <1>4, <1>5, <2>1, <2>2, EndsInv
<1>6. ASSUME NEW a \in Rates, NEW b \in Rates, LegOK(a), LegOK(b), TooSkewed(a, b), NextPivot
      PROVE  IInv'
  BY <1>2, <1>3, <1>6, NextPivotInv
<1>7. ASSUME NEW a \in Rates, NEW b \in Rates, LegOK(a), LegOK(b),
             Ends("rate", Triangulated(a, b))
      PROVE  IInv'
  <2>1. PICK r : r = Triangulated(a, b) OBVIOUS
  <2>2. /\ RateOK(r) /\ r.derivation = "triangulation"
        /\ r.made = a.made \cup b.made \cup {"triangulation"}
    BY <1>7, <2>1, TriangulatedIsOK DEF LegOK
  <2>3. outer \in r.made => r.derivation = outer
    BY <1>1, <1>7, <2>2 DEF LegOK, Types
  <2>4. r # None BY <2>2 DEF RateOK
  <2>5. QED BY <1>2, <1>3, <1>4, <1>7, <2>1, <2>2, <2>3, <2>4, EndsInv
<1>8. ASSUME leg # "direct", quote' = [quote EXCEPT ![leg] = q],
             UNCHANGED <<pc, stage, flipped, outcome, rate>>,
             IF concurrent
             THEN step' = [step EXCEPT ![leg] = "rate"] /\ UNCHANGED fate
             ELSE /\ leg = "left"
                  /\ step' = [step EXCEPT !["left"] = "rate", !["right"] = "asked"]
                  /\ \E f \in Fates : fate' = [fate EXCEPT !["right"] = f]
      PROVE  IInv'
  <2>1. UNCHANGED <<outer, concurrent, kind, clock>> BY <1>2 DEF config
  <2>2. Types' BY <1>1, <1>2, <1>8, <2>1 DEF Types, Legs
  <2>3. LegsOK'
    <3>1. leg \in {"left", "right"} BY <1>8 DEF Legs
    <3>2. ASSUME NEW l \in Legs PROVE (quote[l] # None => LegOK(quote[l]))'
      <4>1. quote'[l] = IF l = leg THEN q ELSE quote[l] BY <1>1, <1>8 DEF Types
      <4>2. quote[l] # None => LegOK(quote[l]) BY <1>1 DEF LegsOK
      <4>3. QED BY <1>2, <2>1, <4>1, <4>2 DEF LegOK
    <3>3. /\ pc' = "asking" /\ (flipped' => outer' = "inverse") /\ stage' > 0
          /\ step'["direct"] = "unasked" /\ step'["left"] # "unasked"
          /\ concurrent => step'["right"] # "unasked"
          /\ ~concurrent => quote'["left"] # None
      BY <1>1, <1>2, <1>3, <1>8, <2>1, <3>1 DEF Types, LegsOK, Legs
    <3>4. ASSUME NEW l \in Legs
          PROVE  /\ step'[l] = "reversed" => outer' = "triangulation"
                 /\ step'[l] = "rate" => fate'[l] = "rate"
                 /\ quote'[l] # None => step'[l] = "rate"
      <4>1. CASE concurrent
        BY <1>1, <1>2, <1>8, <2>1, <3>1, <4>1 DEF Types, LegsOK, Legs
      <4>2. CASE ~concurrent
        <5>1. leg = "left" /\ quote["left"] = None BY <1>2, <1>8, <4>2, PendingAsks
        <5>2. step["right"] = "unasked" /\ quote["right"] = None
          BY <1>1, <1>3, <4>2, <5>1 DEF LegsOK, Legs
        <5>3. QED
          BY <1>1, <1>2, <1>3, <1>8, <2>1, <4>2, <5>1, <5>2 DEF Types, LegsOK, Legs
      <4>3. QED BY <4>1, <4>2
    <3>5. QED BY <2>1, <3>2, <3>3, <3>4 DEF LegsOK
  <2>4. ResultOK' BY <1>1, <1>8, <2>1 DEF ResultOK, Final
  <2>5. QED BY <2>2, <2>3, <2>4 DEF IInv
<1>9. QED BY <1>2, <1>5, <1>6, <1>7, <1>8

\* Every step keeps the invariant.
LEMMA StepInv == IInv /\ [Next]_vars => IInv'
<1> SUFFICES ASSUME IInv, [Next]_vars PROVE IInv' OBVIOUS
<1>1. CASE Call BY <1>1, CallInv
<1>2. CASE Tick
  <2>1. clock' \in 0 .. MaxClock
    BY <1>2, BoundsAssumption DEF Tick, IInv, Types, BoundsAssumption
  <2>2. QED
    BY <1>2, <2>1 DEF Tick, config, IInv, Types, LegsOK, LegOK, ResultOK, Final
<1>3. ASSUME NEW leg \in Legs, Reverses(leg) PROVE IInv' BY <1>3, ReversesInv
<1>4. ASSUME NEW leg \in Legs, Quoted(leg) PROVE IInv' BY <1>4, QuotedInv
<1>5. ASSUME NEW leg \in Legs, Unavailable(leg) PROVE IInv'
  BY <1>5, PendingAsks, NextPivotInv DEF Unavailable
<1>6. ASSUME NEW leg \in Legs, Fails(leg) PROVE IInv'
  <2>1. fate[leg] \in Fates \ {"rate"} /\ Ends(fate[leg], None)
    BY <1>6, FatesAre DEF Fails
  <2>2. PICK o \in Fates \ {"rate"} : o = fate[leg] BY <2>1
  <2>3. QED BY <1>6, <2>1, <2>2, PendingAsks, EndsInv DEF Fails
<1>7. CASE UNCHANGED vars
  BY <1>7 DEF vars, config, IInv, Types, LegsOK, LegOK, ResultOK, Final
<1>8. QED BY <1>1, <1>2, <1>3, <1>4, <1>5, <1>6, <1>7 DEF Next

\* The invariant of the deriving providers.
LEMMA Invariance == Spec => []IInv
BY InitInv, StepInv, PTL DEF Spec


--------------------------------------------------------------------------------
(* The properties. *)

\* For any number of pivots and any nesting, every returned rate is one that
\* ExchangeRate accepts.
THEOREM TypeCorrect == Spec => []TypeOK
<1>1. IInv => TypeOK
  BY DEF IInv, Types, ResultOK, Final, RateOK, TypeOK
<1>2. QED BY <1>1, Invariance, PTL

\* No policy whatsoever accepts a derived rate it has not opted into, but for a
\* derivation hidden under the last one (policy.py 69).
THEOREM DerivationsAlwaysAllowed == Spec => []DerivationsAreAllowed
<1>1. IInv => DerivationsAreAllowed
  <2> SUFFICES ASSUME IInv, NEW p \in Policies, Admits(p)
               PROVE  /\ rate.made # {} =>
                           "derived" \in p.kinds /\ rate.derivation \in Allowed(p)
                      /\ \A d \in rate.made \ Allowed(p) : d # outer
    BY DEF DerivationsAreAllowed
  <2>1. RateOK(rate) /\ (outer \in rate.made => rate.derivation = outer)
    BY DEF IInv, ResultOK, Final, Admits
  <2>2. /\ rate.derivation = "inverse" => p.inverse
        /\ rate.derivation = "triangulation" => p.triangulation
        /\ rate.kind \in p.kinds
    BY DEF Admits, Accepts
  <2>3. ASSUME NEW d \in rate.made, rate.derivation = d PROVE d \in Allowed(p)
    BY <2>1, <2>2, <2>3 DEF RateOK, Allowed
  <2>4. rate.made # {} => "derived" \in p.kinds /\ rate.derivation \in Allowed(p)
    BY <2>1, <2>2, <2>3 DEF RateOK, Constructible
  <2>5. \A d \in rate.made \ Allowed(p) : d # outer BY <2>1, <2>3
  <2>6. QED BY <2>4, <2>5
<1>2. QED BY <1>1, Invariance, PTL

\* Whenever a rate is shown to a policy with a maximal age, no dated quote it was
\* computed from is older: the age of a triangulation is that of its older leg.
THEOREM LegsAreFresh == Spec => []EveryLegIsFresh
<1>1. IInv => EveryLegIsFresh
  <2> SUFFICES ASSUME IInv, NEW p \in Policies, p.maxAge # None, Admits(p)
               PROVE  /\ \A leg \in rate.legs :
                           leg.asOf # None => clock - leg.asOf <= p.maxAge
                      /\ p.missing = "reject" => \E leg \in rate.legs : leg.asOf # None
    BY DEF EveryLegIsFresh
  <2>1. RateOK(rate) BY DEF IInv, ResultOK, Final, Admits
  <2>2. AgeOK(rate) /\ rate.asOf \in Int \cup {None}
    BY <2>1 DEF RateOK, Rates
  <2>3. \A leg \in rate.legs : leg.asOf \in Int \cup {None} BY <2>1 DEF RateOK, Rates
  <2>4. clock \in Int /\ p.maxAge \in Int
    BY BoundsAssumption, PoliciesAssumption
       DEF IInv, Types, BoundsAssumption, PoliciesAssumption
  <2>5. /\ rate.asOf # None => clock - rate.asOf <= p.maxAge
        /\ rate.asOf # None \/ p.missing = "use_fetched_at"
    BY DEF Admits, Accepts
  <2>6. ASSUME NEW leg \in rate.legs, leg.asOf # None
        PROVE  clock - leg.asOf <= p.maxAge
    BY <2>2, <2>3, <2>4, <2>5, <2>6 DEF AgeOK
  <2>7. p.missing = "reject" => \E leg \in rate.legs : leg.asOf # None
    BY <2>2, <2>5 DEF AgeOK
  <2>8. QED BY <2>6, <2>7
<1>2. QED BY <1>1, Invariance, PTL

\* What a step of the outer provider makes of the call.
Ended == IF pc' = "idle" THEN outcome' ELSE "unavailable"

\* A pivot that is given up counts as unavailable.
LEMMA GivenUp ==
  ASSUME pc = "asking", NextPivot \/ Ends("unavailable", None)
  PROVE  Ended = "unavailable"
<1>1. CASE Ends("unavailable", None) BY <1>1 DEF Ends, Ended
<1>2. CASE NextPivot /\ stage < Pivots BY <1>2 DEF NextPivot, Ended
<1>3. CASE NextPivot /\ ~(stage < Pivots) BY <1>1, <1>3 DEF NextPivot
<1>4. QED BY <1>1, <1>2, <1>3

\* Legs that run together end a pivot as legs in turn do, but for a right leg
\* that fails while the left one is still out (ARCHITECTURE.md 60).
THEOREM ConcurrentLegsAlwaysAgree == Spec => ConcurrentLegsAgree
<1> DEFINE Agree ==
      stage > 0 /\ <<pc, stage, flipped>>' # <<pc, stage, flipped>> =>
        LET ended == IF pc' = "idle" THEN outcome' ELSE "unavailable"
        IN \/ ended = InTurn
           \/ InTurn = "rate" /\ ended = "unavailable" /\ MaxSkew # None
           \/ concurrent /\ Pending("left") /\ fate["right"] # "rate" /\ ended = fate["right"]
<1>1. IInv /\ [Next]_vars => [Agree]_vars
  <2> SUFFICES ASSUME IInv, Next, stage > 0,
                      <<pc, stage, flipped>>' # <<pc, stage, flipped>>
               PROVE  \/ Ended = InTurn
                      \/ InTurn = "rate" /\ Ended = "unavailable" /\ MaxSkew # None
                      \/ concurrent /\ Pending("left") /\ fate["right"] # "rate"
                         /\ Ended = fate["right"]
    BY DEF Ended
  <2>1. Types /\ LegsOK /\ pc = "asking"
    BY BoundsAssumption DEF BoundsAssumption, IInv, Types, LegsOK
  <2>2. ASSUME NEW leg \in Legs, Pending(leg), fate[leg] # "rate", Ended = fate[leg]
        PROVE  \/ Ended = InTurn
               \/ concurrent /\ Pending("left") /\ fate["right"] # "rate"
                  /\ Ended = fate["right"]
    <3>1. leg \in {"left", "right"} BY <2>2, PendingAsks
    <3>2. CASE leg = "left" BY <2>2, <3>2 DEF InTurn
    <3>3. CASE leg = "right" /\ fate["left"] = "rate" BY <2>2, <3>3 DEF InTurn
    <3>4. CASE leg = "right" /\ fate["left"] # "rate"
      <4>1. step["right"] # "unasked" BY <2>2, <3>4 DEF Pending
      <4>2. step["left"] \notin {"unasked", "rate"} /\ quote["left"] = None
        BY <2>1, <3>4 DEF LegsOK, Legs
      <4>3. concurrent BY <2>1, <4>1, <4>2 DEF LegsOK
      <4>4. Pending("left") BY <2>1, <4>2 DEF Types, Legs, Pending
      <4>5. QED BY <2>2, <3>4, <4>3, <4>4
    <3>5. QED BY <3>1, <3>2, <3>3, <3>4
  <2>3. ASSUME NEW leg \in Legs, Quoted(leg)
        PROVE  \/ Ended = InTurn
               \/ InTurn = "rate" /\ Ended = "unavailable" /\ MaxSkew # None
    <3>1. leg # "direct" BY <2>3, PendingAsks DEF Quoted
    <3>2. PICK a \in Rates, b \in Rates :
            /\ fate["left"] = "rate" /\ fate["right"] = "rate"
            /\ \/ TooSkewed(a, b) /\ NextPivot
               \/ ~TooSkewed(a, b) /\ Ends("rate", Triangulated(a, b))
      BY <2>3, <3>1, QuotedCases
    <3>3. InTurn = "rate" BY <3>2 DEF InTurn
    <3>4. CASE TooSkewed(a, b) /\ NextPivot
      BY <2>1, <3>3, <3>4, GivenUp DEF TooSkewed
    <3>5. CASE Ends("rate", Triangulated(a, b)) BY <3>3, <3>5 DEF Ends, Ended
    <3>6. QED BY <3>2, <3>4, <3>5
  <2>4. ASSUME NEW leg \in Legs, Unavailable(leg)
        PROVE  Pending(leg) /\ fate[leg] # "rate" /\ Ended = fate[leg]
    BY <2>1, <2>4, GivenUp DEF Unavailable
  <2>5. ASSUME NEW leg \in Legs, Fails(leg)
        PROVE  Pending(leg) /\ fate[leg] # "rate" /\ Ended = fate[leg]
    BY <2>5 DEF Fails, Ends, Ended
  <2>6. ASSUME NEW leg \in Legs PROVE ~Reverses(leg) /\ ~Call /\ ~Tick
    BY <2>1 DEF Reverses, Call, Tick
  <2>7. QED BY <2>2, <2>3, <2>4, <2>5, <2>6 DEF Next, Legs
<1>2. QED BY <1>1, Invariance, PTL DEF Spec, ConcurrentLegsAgree

================================================================================
