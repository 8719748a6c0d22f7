---------------------------- MODULE MCProviderStack ----------------------------
(* Callers are not declared symmetric: the run checks a liveness property. *)
EXTENDS ProviderStack

================================================================================
