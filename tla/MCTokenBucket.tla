----------------------------- MODULE MCTokenBucket -----------------------------
(* Callers are not declared symmetric: the run checks a liveness property. *)
EXTENDS TokenBucket

================================================================================
