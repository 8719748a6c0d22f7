---------------------------- MODULE CoalescedCalls ----------------------------
(***************************************************************************)
(* What the rate caches of fx.py promise their callers, with no cache, no  *)
(* clock, no lock and no Future: per currency pair at most one call leads  *)
(* a fetch, calls that arrive meanwhile follow it, and its outcome is told *)
(* to every follower at one instant, before the leader is gone.  Both the  *)
(* threaded RateCache and AsyncRateCache are shown to implement it.        *)
(***************************************************************************)
CONSTANTS
  Callers,     \* threads, or asyncio tasks
  Pairs,       \* currency pairs
  Quotes,      \* the rates a call can return
  Failures,    \* the errors a fetch can end with
  Interrupts,  \* what can take a follower away before its answer
  Fragile,     \* pairs whose leader may leave without telling its followers
  None         \* no value

VARIABLES
  phase,    \* idle, leading, following, told, settled, or deserted
  subject,  \* the pair of a caller that is not idle
  answer    \* what its last fetch or lookup ended with

callVars == <<phase, subject, answer>>

Phases == {"idle", "leading", "following", "told", "settled", "deserted"}

Init ==
  /\ phase = [c \in Callers |-> "idle"]
  /\ subject = [c \in Callers |-> None]
  /\ answer = [c \in Callers |-> None]

\* The callers in one of the given phases whose subject is p.
Busy(p, phases) == {c \in Callers : phase[c] \in phases /\ subject[c] = p}

Goes(c, from, to, p, o) ==
  /\ phase[c] \in from
  /\ phase' = [phase EXCEPT ![c] = to]
  /\ subject' = [subject EXCEPT ![c] = p]
  /\ answer' = [answer EXCEPT ![c] = o]

\* A new call drops the answer of the previous one.
Forget(c) == Goes(c, {"idle"}, "idle", None, None)

\* A remembered quote is returned.
Recall(c, q) == Goes(c, {"idle"}, "idle", None, q)

Lead(c, p) ==
  /\ Busy(p, {"leading", "settled"}) = {}
  /\ Goes(c, {"idle"}, "leading", p, None)

Follow(c, p) ==
  /\ Busy(p, {"leading"}) # {}
  /\ Goes(c, {"idle"}, "following", p, None)

\* A caller that finds the fetch over but its leader not yet gone.
FollowLate(c, p) ==
  \E d \in Busy(p, {"settled"}) : Goes(c, {"idle"}, "told", p, answer[d])

\* The fetch ends: its leader and everyone following it get one outcome.
Settle(c, o) ==
  LET followers == Busy(subject[c], {"following"})
  IN /\ phase[c] = "leading"
     /\ \E after \in {"settled", "idle"} :
          /\ phase' = [d \in Callers |-> IF d = c THEN after
                         ELSE IF d \in followers THEN "told" ELSE phase[d]]
          /\ subject' = [subject EXCEPT ![c] = IF after = "idle" THEN None ELSE @]
     /\ answer' = [d \in Callers |-> IF d = c \/ d \in followers
                                     THEN o ELSE answer[d]]

\* The leader fails to handle a failure and leaves without telling anybody:
\* its followers are never told.
Desert(c, e) ==
  /\ phase[c] = "leading"
  /\ subject[c] \in Fragile
  /\ phase' = [d \in Callers |-> IF d = c THEN "idle"
                 ELSE IF d \in Busy(subject[c], {"following"}) THEN "deserted"
                 ELSE phase[d]]
  /\ subject' = [subject EXCEPT ![c] = None]
  /\ answer' = [answer EXCEPT ![c] = e]

\* The leader, or a follower that was told, returns.
Leave(c) == Goes(c, {"settled", "told"}, "idle", None, answer[c])

\* A follower is interrupted; nobody else notices.
Abandon(c, i) == Goes(c, {"following", "told", "deserted"}, "idle", None, i)

Next ==
  \E c \in Callers :
    \/ Forget(c)
    \/ \E q \in Quotes : Recall(c, q)
    \/ \E p \in Pairs : Lead(c, p) \/ Follow(c, p) \/ FollowLate(c, p)
    \/ \E o \in Quotes \cup Failures : Settle(c, o)
    \/ \E e \in Failures : Desert(c, e)
    \/ Leave(c)
    \/ \E i \in Interrupts : Abandon(c, i)

Spec == Init /\ [][Next]_callVars

--------------------------------------------------------------------------------
\* Nobody follows a fetch that is over: as long as a caller follows, another
\* one is leading for its pair.
FollowersAreLed ==
  \A c \in Callers :
    phase[c] = "following" => Busy(subject[c], {"leading"}) # {}

\* No two callers fetch the same pair.
OneLeader ==
  \A c, d \in Callers :
    /\ {phase[c], phase[d]} \subseteq {"leading", "settled"}
    /\ subject[c] = subject[d]
    => c = d

================================================================================
