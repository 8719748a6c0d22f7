------------------------------ MODULE MCRateCache ------------------------------
EXTENDS RateCache, TLC

Symmetric == Permutations(Threads)

================================================================================
