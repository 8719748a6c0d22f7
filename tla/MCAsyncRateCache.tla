--------------------------- MODULE MCAsyncRateCache ---------------------------
EXTENDS AsyncRateCache, TLC

Symmetric == Permutations(Tasks)

================================================================================
