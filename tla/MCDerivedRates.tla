----------------------------- MODULE MCDerivedRates -----------------------------
(* Quotes of three ages, one of them ahead of the clock, shown to the presets  *)
(* and to policies that allow one derivation each.                             *)
EXTENDS DerivedRates

MCAges == {-1, 0, 2}
Upstream == {<<"upstream">>}

MCPolicies ==
  LET one == [ReportingPolicy(2, {}, FALSE, 0) EXCEPT !.kinds = Kinds]
  IN { DefaultPolicy(0), CheckoutPolicy(1, Upstream, 0),
       TreasuryPolicy(2, {}, 0), DisplayPolicy(2, Upstream, 0),
       ReportingPolicy(2, {}, TRUE, 1), ReportingPolicy(2, Upstream, TRUE, 0),
       [one EXCEPT !.inverse = TRUE],
       [one EXCEPT !.triangulation = TRUE, !.missing = "reject"] }

================================================================================
