------------------------------ MODULE MCHookedCall ------------------------------
(* One caller in every combination of variant and failure modes: Init chooses. *)
EXTENDS HookedCall

================================================================================
