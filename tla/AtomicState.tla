----------------------------- MODULE AtomicState -----------------------------
(***************************************************************************)
(* What the scheduler state file promises the agent loop: each edit of a    *)
(* task takes effect at once, on the sets the file holds at that moment,    *)
(* and touches no other task.                                               *)
(***************************************************************************)
CONSTANT Tasks
VARIABLES inFlight, completed, blocked

vars == <<inFlight, completed, blocked>>

Init == inFlight = {} /\ completed = {} /\ blocked = {}

Start(t) ==
  /\ inFlight' = inFlight \cup {t}
  /\ UNCHANGED <<completed, blocked>>

Complete(t) ==
  /\ inFlight'  = inFlight \ {t}
  /\ completed' = completed \cup {t}
  /\ blocked'   = blocked \ {t}

Block(t) ==
  /\ inFlight'  = inFlight \ {t}
  /\ completed' = completed \ {t}
  /\ blocked'   = blocked \cup {t}

Finish(t) ==
  /\ inFlight'  = inFlight \ {t}
  /\ completed' = completed \ {t}
  /\ blocked'   = blocked \ {t}

Abandon(t) ==
  /\ inFlight' = inFlight \ {t}
  /\ UNCHANGED <<completed, blocked>>

Next == \E t \in Tasks :
          Start(t) \/ Complete(t) \/ Block(t) \/ Finish(t) \/ Abandon(t)

Spec == Init /\ [][Next]_vars
=============================================================================
