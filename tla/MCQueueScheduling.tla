-------------------------- MODULE MCQueueScheduling --------------------------
(* QueueScheduling for TLC: a closed root with two tasks below it, one the parent of    *)
(* the other or not, one depending on the other or not.                             *)
EXTENDS QueueScheduling, TLC

CONSTANTS r, t1, t2, noTask, e1, e2

Nested     == [t \in {r, t1, t2} |-> CASE t = r -> noTask [] t = t1 -> r [] t = t2 -> t1]
BelowRoot  == [t \in {r, t1, t2} |-> IF t = r THEN noTask ELSE r]
NoChain    == [t \in {r, t1, t2} |-> {}]
RootChain  == [t \in {r, t1, t2} |-> IF t = t2 THEN {t1} ELSE {}]
RootClosed == [t \in {r, t1, t2} |-> IF t = r THEN "closed" ELSE "open"]
ByAnyone   == [t \in {r, t1, t2} |-> Executor]
FirstByOne == [t \in {r, t1, t2} |-> IF t = t1 THEN {e1} ELSE {e1, e2}]
===============================================================================
