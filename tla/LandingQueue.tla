---------------------------- MODULE LandingQueue ----------------------------
(***************************************************************************)
(* The landing queue state machine of one finished task                     *)
(* (internal/scheduler/landing_state_machine.go): its states, and what      *)
(* Apply does with an event.  Apply returns an error, and changes nothing,  *)
(* for an event the state does not take; the callers ignore that error.     *)
(***************************************************************************)
EXTENDS Naturals

LandingStates == {"queued", "landing", "retrying", "blocked", "landed"}
LandingEvents == {"begin", "succeeded", "failed_retryable", "failed_permanent", "requeued"}

LandingMachine == [state : LandingStates, attempts : Nat, maxAttempts : Nat \ {0}]

NewLandingQueueStateMachine(maxAttempts) ==
  [state       |-> "queued",
   attempts    |-> 0,
   maxAttempts |-> IF maxAttempts = 0 THEN 1 ELSE maxAttempts]

\* The transitions that do not count an attempt.
PlainTransition(state, event) ==
  CASE state = "queued"   /\ event = "begin"            -> "landing"
    [] state = "landing"  /\ event = "succeeded"        -> "landed"
    [] state = "retrying" /\ event = "requeued"         -> "queued"
    [] state = "retrying" /\ event = "begin"            -> "landing"
    [] state = "retrying" /\ event = "failed_permanent" -> "blocked"
    [] OTHER -> state

Apply(m, event) ==
  IF m.state = "landing" /\ event \in {"failed_retryable", "failed_permanent"}
    THEN [m EXCEPT !.attempts = @ + 1,
                   !.state = IF event = "failed_retryable" /\ m.attempts + 1 < m.maxAttempts
                               THEN "retrying" ELSE "blocked"]
    ELSE [m EXCEPT !.state = PlainTransition(@, event)]
=============================================================================
