------------------------------- MODULE MinorUnits -------------------------------
(***************************************************************************)
(* The arithmetic of money.py and rounding.py, and the part of fx.py that  *)
(* applies a rate: exact rationals num/den (den > 0) in place of Decimal,  *)
(* whose local precision these functions always choose large enough to be  *)
(* exact, or far from a tie, before they round once to minor units.        *)
(***************************************************************************)
EXTENDS Integers, Sequences, Functions

RoundingModes == {"half_even", "half_up", "down", "up"}

Abs(i) == IF i < 0 THEN -i ELSE i
Sign(i) == IF i < 0 THEN -1 ELSE 1
Total(seq) == FoldFunction(+, 0, seq)

\* Mutant of Quantize: it rounds towards minus infinity first.
QuantizeFloored(mode, num, den) ==
  LET q == num \div den
      r == num % den
  IN q + IF \/ mode = "up" /\ r > 0
            \/ mode = "half_up" /\ 2 * r >= den
            \/ mode = "half_even" /\ (2 * r > den \/ (2 * r = den /\ q % 2 = 1))
         THEN 1 ELSE 0

\* num/den to an integer.  The sign is set apart, as Decimal does.
Quantize(mode, num, den) ==
  LET q == Abs(num) \div den
      r == Abs(num) % den
  IN Sign(num) * (q + IF \/ mode = "up" /\ r > 0
                         \/ mode = "half_up" /\ 2 * r >= den
                         \/ mode = "half_even" /\ (2 * r > den \/ (2 * r = den /\ q % 2 = 1))
                      THEN 1 ELSE 0)

RoundToIncrement(mode, value, increment) == Quantize(mode, value, increment) * increment

\* What Quantize has to achieve, said without computing it.
Rounds(mode, num, den, i) ==
  LET off == Abs(num - i * den)
  IN /\ off < den
     /\ mode = "down" => Abs(i) * den <= Abs(num)
     /\ mode = "up" => Abs(i) * den >= Abs(num)
     /\ mode \in {"half_even", "half_up"} =>
          /\ 2 * off <= den
          /\ 2 * off = den => IF mode = "half_even" THEN i % 2 = 0 ELSE Abs(i) * den > Abs(num)

--------------------------------------------------------------------------------
Factor(currency) == 10 ^ currency.exponent

FromMajor(major, currency, mode) ==
  [minor |-> Quantize(mode, major.num * Factor(currency), major.den), currency |-> currency]

CashRound(money, mode) ==
  [money EXCEPT !.minor = RoundToIncrement(mode, @, money.currency.cash)]

\* Mutant of ApplyRate: the result keeps the currency of the source.
ApplyRateKeepingCurrency(money, target, rate, mode) ==
  [minor |-> Quantize(mode, money.minor * rate.value.num * Factor(target),
                      rate.value.den * Factor(money.currency)),
   currency |-> money.currency]

\* _apply_rate
ApplyRate(money, target, rate, mode) ==
  [minor |-> Quantize(mode, money.minor * rate.value.num * Factor(target),
                      rate.value.den * Factor(money.currency)),
   currency |-> target]

\* Mutant of Split: the remainder is added whatever the sign.
SplitUnsigned(minor, parts) ==
  [i \in 1 .. parts |-> Sign(minor) * (Abs(minor) \div parts)
                          + IF i <= Abs(minor) % parts THEN 1 ELSE 0]

Split(minor, parts) ==
  [i \in 1 .. parts |-> Sign(minor) * (Abs(minor) \div parts
                                         + IF i <= Abs(minor) % parts THEN 1 ELSE 0)]

\* The units left over are fewer than the shares, so each gets one at most.
Allocate(minor, ratios) ==
  LET total == Total(ratios)
      share(i) == (Abs(minor) * ratios[i]) \div total
      leftover == Abs(minor) - Total([i \in DOMAIN ratios |-> share(i)])
  IN [i \in DOMAIN ratios |->
        IF total = 0 THEN 0
        ELSE Sign(minor) * (share(i) + IF i <= leftover THEN 1 ELSE 0)]

================================================================================
