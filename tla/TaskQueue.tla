------------------------------- MODULE TaskQueue -------------------------------
(* The work queue of the message bus (internal/distributed/bus.go, nats_bus.go,   *)
(* redis_bus.go).  A queue is a record of the items waiting and of the items      *)
(* handed to a consumer and not yet acknowledged.  The in-memory bus keeps a      *)
(* taken item until it is acked or nacked; NATS and Redis hand it out again once  *)
(* its acknowledgement is late (AckWait of 1 s, XAUTOCLAIM after 200 ms idle).    *)
EXTENDS Naturals, Sequences, FiniteSets, SequencesExt

CONSTANT Bus  \* "memory", "nats" or "redis"

ASSUME BusAssumption == Bus \in {"memory", "nats", "redis"}

EmptyQueue == [ready |-> <<>>, taken |-> {}]

Enqueue(q, item) == [q EXCEPT !.ready = Append(@, item)]

CanTake(q) == q.ready # <<>>

Take(q) == [ready |-> Tail(q.ready), taken |-> q.taken \cup {Head(q.ready)}]

\* Items a bus with a delivery deadline may hand out a second time.
Overdue(q) == IF Bus = "memory" THEN {} ELSE q.taken

Ack(q, item) == [q EXCEPT !.taken = @ \ {item}]

\* Redis acks the delivery and adds a new entry, whatever became of the old one;
\* the other two return an item only while it is unacknowledged.
Nack(q, item, fresh) ==
    IF Bus = "redis"
      THEN Enqueue(Ack(q, item), [item EXCEPT !.id = fresh])
    ELSE IF item \in q.taken THEN Enqueue(Ack(q, item), item)
    ELSE q
===============================================================================
