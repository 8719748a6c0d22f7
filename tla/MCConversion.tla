------------------------------ MODULE MCConversion ------------------------------
(* Two codes with two definitions each, of different exponents and one with a  *)
(* cash increment; amounts and rates that tie, and a negative amount.          *)
EXTENDS Conversion

CONSTANTS A, B

Currency(code, exponent, cash) == [code |-> code, exponent |-> exponent, cash |-> cash]

MCDefaults == {Currency(A, 1, 1), Currency(B, 0, 1)}
MCDefinitions == MCDefaults \cup {Currency(A, 0, 1), Currency(B, 1, 5)}
MCMajors == {[num |-> 5, den |-> 2], [num |-> -7, den |-> 1]}
MCValues == {[num |-> 1, den |-> 2], [num |-> 13, den |-> 10]}
MCRatios == {<<0, 0>>, <<1, 2>>, <<0, 3, 4>>, <<1, 1, 1>>}

================================================================================
