-------------------------------- MODULE Failover --------------------------------
(***************************************************************************)
(* What a chain of providers promises, with no retry, no circuit and no    *)
(* clock: providers are consulted in order of priority, each at most once  *)
(* per call, until one quotes the pair; if none does, the call is told     *)
(* that the pair is unavailable only if every provider said so.            *)
(***************************************************************************)
EXTENDS Naturals, Sequences

CONSTANTS
  Callers,  \* threads, or asyncio tasks
  Depth,    \* number of providers, the primary first
  None      \* no value

VARIABLES
  consulting,  \* whether a caller is inside get_rate
  heard,       \* what the providers consulted so far answered
  verdict      \* what its last call ended with

chainVars == <<consulting, heard, verdict>>

Init ==
  /\ consulting = [c \in Callers |-> FALSE]
  /\ heard = [c \in Callers |-> << >>]
  /\ verdict = [c \in Callers |-> None]

Ask(c) ==
  /\ ~consulting[c]
  /\ consulting' = [consulting EXCEPT ![c] = TRUE]
  /\ heard' = [heard EXCEPT ![c] = << >>]
  /\ verdict' = [verdict EXCEPT ![c] = None]

End(c, v) ==
  /\ consulting[c]
  /\ consulting' = [consulting EXCEPT ![c] = FALSE]
  /\ heard' = [heard EXCEPT ![c] = << >>]
  /\ verdict' = [verdict EXCEPT ![c] = v]

\* The provider that is consulted does not quote the pair.
Decline(c, reason) ==
  /\ consulting[c]
  /\ Len(heard[c]) + 1 < Depth
  /\ heard' = [heard EXCEPT ![c] = Append(@, reason)]
  /\ UNCHANGED <<consulting, verdict>>

\* Nor does the last one.
Conclude(c, reason) ==
  LET answers == Append(heard[c], reason)
  IN /\ Len(answers) = Depth
     /\ End(c, IF \E i \in 1 .. Depth : answers[i] = "failed"
               THEN "failed" ELSE "unavailable")

Next ==
  \E c \in Callers :
    \/ Ask(c)
    \/ End(c, "priced")
    \/ End(c, "escaped")
    \/ \E reason \in {"failed", "unavailable"} : Decline(c, reason) \/ Conclude(c, reason)

Spec == Init /\ [][Next]_chainVars

================================================================================
