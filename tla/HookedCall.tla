------------------------------- MODULE HookedCall -------------------------------
(***************************************************************************)
(* One caller of an observed and audited provider of observability.py,     *)
(* stacked as the presets do: the observer sees the outcome of the audited *)
(* call.  Calls share no state, so one caller is enough.                   *)
(*                                                                         *)
(* An interrupt is what is no Exception in Python: the cancellation of the *)
(* task in the async variant, KeyboardInterrupt in the sync one.  It can   *)
(* strike the provider's call, the sink or the observer; the provider may  *)
(* also end with one by itself (a cache whose owner was cancelled).        *)
(***************************************************************************)
EXTENDS Naturals

CONSTANTS
  MaxInterrupts,  \* bound on the interrupts of one call
  None            \* no value

Modes == {"fail_open", "fail_closed"}
Outcomes == {"rate", "error", "hook_error", "interrupt"}

VARIABLES
  variant,      \* sync or async
  auditMode,    \* failure_mode of the audited provider
  observeMode,  \* failure_mode of the observed provider
  pc,           \* which call is under way
  inner,        \* history: what the wrapped provider ended with
  held,         \* what the observed provider holds while its observer runs
  event,        \* what the observer is told
  recorded,     \* whether the sink has recorded the rate
  detached,     \* a shielded observer goes on although its call has ended
  interrupts,   \* history: how often the call was interrupted
  result        \* what the call ended with

vars == <<variant, auditMode, observeMode, pc, inner, held, event, recorded,
          detached, interrupts, result>>
config == <<variant, auditMode, observeMode>>

Init ==
  /\ variant \in {"sync", "async"}
  /\ auditMode \in Modes
  /\ observeMode \in Modes
  /\ pc = "idle"
  /\ inner = None /\ held = None /\ event = None /\ result = None
  /\ recorded = FALSE
  /\ detached = FALSE
  /\ interrupts = 0

\* Bound: the next call begins when the observer of the last one has ended.
Call ==
  /\ pc = "idle" /\ ~detached
  /\ pc' = "providing"
  /\ inner' = None /\ held' = None /\ event' = None /\ result' = None
  /\ recorded' = FALSE
  /\ interrupts' = 0
  /\ UNCHANGED <<config, detached>>

\* The call ends.
Ends(outcome) == pc' = "idle" /\ result' = outcome

\* The audited call is over: the observer is told, if it is told at all.
Observes(outcome) ==
  IF outcome # "interrupt"
  THEN /\ pc' = "observing"
       /\ held' = outcome
       /\ event' = IF outcome = "rate" THEN "succeeded" ELSE "failed"
       /\ UNCHANGED result
  ELSE IF variant = "async"
  THEN /\ pc' = "shielding"
       /\ held' = outcome
       /\ event' = "cancelled"
       /\ UNCHANGED result
  ELSE Ends(outcome) /\ UNCHANGED <<held, event>>

\* An interrupt from outside.
Interrupted == interrupts < MaxInterrupts /\ interrupts' = interrupts + 1

\* The provider returns a rate, and the sink is called.
ProviderReturns ==
  /\ pc = "providing"
  /\ inner' = "rate"
  /\ pc' = "auditing"
  /\ UNCHANGED <<config, held, event, recorded, detached, interrupts, result>>

\* The provider raises: nothing is audited.
ProviderRaises ==
  /\ pc = "providing"
  /\ \/ inner' = "error" /\ UNCHANGED interrupts
     \/ inner' = "interrupt" /\ (Interrupted \/ UNCHANGED interrupts)
  /\ Observes(inner')
  /\ UNCHANGED <<config, recorded, detached>>

SinkRecords ==
  /\ pc = "auditing"
  /\ recorded' = TRUE
  /\ Observes("rate")
  /\ UNCHANGED <<config, inner, detached, interrupts>>

\* Mutant of SinkFails: the modes are swapped.
SinkFailsSwapped ==
  /\ pc = "auditing"
  /\ Observes(IF auditMode = "fail_open" THEN "hook_error" ELSE "rate")
  /\ UNCHANGED <<config, inner, recorded, detached, interrupts>>

\* The sink raises an Exception.
SinkFails ==
  /\ pc = "auditing"
  /\ Observes(IF auditMode = "fail_closed" THEN "hook_error" ELSE "rate")
  /\ UNCHANGED <<config, inner, recorded, detached, interrupts>>

\* Mutant of SinkInterrupted: the sink's interrupt is taken for a failure.
SinkInterruptedAsFailure ==
  /\ pc = "auditing"
  /\ Interrupted
  /\ Observes(IF auditMode = "fail_closed" THEN "hook_error" ELSE "rate")
  /\ UNCHANGED <<config, inner, recorded, detached>>

\* The sink is interrupted: that passes in both modes.
SinkInterrupted ==
  /\ pc = "auditing"
  /\ Interrupted
  /\ Observes("interrupt")
  /\ UNCHANGED <<config, inner, recorded, detached>>

ObserverReturns ==
  /\ pc = "observing"
  /\ Ends(held)
  /\ UNCHANGED <<config, inner, held, event, recorded, detached, interrupts>>

\* Mutant of ObserverFails: its error always replaces the outcome.
ObserverFailsClosed ==
  /\ pc = "observing"
  /\ Ends("hook_error")
  /\ UNCHANGED <<config, inner, held, event, recorded, detached, interrupts>>

\* The observer raises an Exception.
ObserverFails ==
  /\ pc = "observing"
  /\ Ends(IF observeMode = "fail_closed" THEN "hook_error" ELSE held)
  /\ UNCHANGED <<config, inner, held, event, recorded, detached, interrupts>>

\* Mutant of ObserverInterrupted: every observer is shielded, not only those of
\* cancelled calls.
ObserverInterruptedShielded ==
  /\ pc = "observing"
  /\ Interrupted
  /\ Ends("interrupt")
  /\ detached' = TRUE
  /\ UNCHANGED <<config, inner, held, event, recorded>>

\* The observer is interrupted.  The async variant treats the cancellation of
\* its own task like a failure of the hook: in fail-open mode it is dropped.
ObserverInterrupted ==
  /\ pc = "observing"
  /\ Interrupted
  /\ Ends(IF variant = "async" /\ observeMode = "fail_open" THEN held ELSE "interrupt")
  /\ UNCHANGED <<config, inner, held, event, recorded, detached>>

\* The observer of a cancelled call ends, one way or another.
ShieldedObserverEnds ==
  /\ pc = "shielding"
  /\ Ends(held)
  /\ UNCHANGED <<config, inner, held, event, recorded, detached, interrupts>>

\* The call is cancelled again: it ends, its observer goes on by itself.
CancelledAgain ==
  /\ pc = "shielding"
  /\ Interrupted
  /\ Ends(held)
  /\ detached' = TRUE
  /\ UNCHANGED <<config, inner, held, event, recorded>>

DetachedObserverEnds ==
  /\ detached
  /\ detached' = FALSE
  /\ UNCHANGED <<config, pc, inner, held, event, recorded, interrupts, result>>

\* The call under way, or an observer that outlives its call, goes on.
Proceed ==
  \/ ProviderReturns \/ ProviderRaises
  \/ SinkRecords \/ SinkFails \/ SinkInterrupted
  \/ ObserverReturns \/ ObserverFails \/ ObserverInterrupted
  \/ ShieldedObserverEnds \/ CancelledAgain \/ DetachedObserverEnds

Next == Call \/ Proceed

Spec == Init /\ [][Next]_vars

--------------------------------------------------------------------------------
\* Every variable has its type, and only a cancelled call leaves its observer
\* behind.
TypeOK ==
  /\ variant \in {"sync", "async"}
  /\ auditMode \in Modes /\ observeMode \in Modes
  /\ pc \in {"idle", "providing", "auditing", "observing", "shielding"}
  /\ inner \in Outcomes \cup {None}
  /\ held \in Outcomes \cup {None}
  /\ event \in {"succeeded", "failed", "cancelled", None}
  /\ recorded \in BOOLEAN
  /\ detached \in BOOLEAN
  /\ interrupts \in 0 .. MaxInterrupts
  /\ result \in Outcomes \cup {None}
  /\ detached => event = "cancelled" /\ result = "interrupt"

\* "FAIL_OPEN protects the pricing path" (observability.py 18): two hooks, each
\* with its mode, change the outcome of the provider only by a failure that is
\* to be propagated or by an interrupt.
HooksAreTransparent ==
  pc = "idle" /\ result # inner =>
    \/ result = "hook_error" /\ "fail_closed" \in {auditMode, observeMode}
    \/ result = "interrupt" /\ interrupts > 0

\* "FAIL_CLOSED protects the hook guarantee" (observability.py 19): however the
\* sink, the observer and interrupts fall together, no caller gets a rate that
\* was not audited.
NoRateWithoutAudit ==
  result = "rate" /\ auditMode = "fail_closed" => recorded

\* "Async cancellation is always preserved rather than being replaced by an
\* observer error" (PRODUCTION_FX.md 156).
InterruptsPreserved == pc = "idle" /\ interrupts > 0 => result = "interrupt"

\* What the code achieves: an interrupt is lost only if it strikes an async
\* observer that may fail open, of a call that was not already cancelled.
InterruptsLostByOpenObserver ==
  pc = "idle" /\ interrupts > 0 /\ result # "interrupt" =>
    variant = "async" /\ observeMode = "fail_open" /\ interrupts = 1 /\ event # "cancelled"

================================================================================
