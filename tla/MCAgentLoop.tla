----------------------------- MODULE MCAgentLoop -----------------------------
(* Instances of AgentLoop for TLC. *)
EXTENDS AgentLoop, TLC

CONSTANTS t1, t2

\* Two independent tasks, and t2 after t1.
NoDeps    == [t \in {t1, t2} |-> {}]
ChainDeps == (t1 :> {}) @@ (t2 :> {t1})

\* Workers are interchangeable, and so are tasks without dependencies.
LoopSymmetry == Permutations(Workers) \cup Permutations(Tasks)
=============================================================================
