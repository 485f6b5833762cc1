------------------------------- MODULE EventSinks -------------------------------
(* The events of a run with --stream and an events file: workers emit to the       *)
(* stream sink and then to the mirror, whose goroutine writes the file             *)
(* (internal/contracts/stream_sink.go, cmd/yolo-agent/main.go).                    *)
EXTENDS Integers, Sequences, SequencesExt

CONSTANTS
    Emitters,    \* goroutines that emit
    MaxEvents,   \* bound: events of a run
    MaxPending,  \* outputs that are counted as coalesced
    MirrorRoom   \* buffer of the mirror

\* An option that is not positive gives way to a default (NewStreamEventSinkWithOptions).
ASSUME SinkAssumption == MaxEvents \in Nat /\ MaxPending \in Nat \ {0} /\ MirrorRoom \in Nat

VARIABLES
    kinds,      \* the events emitted: "output" (runner_output) or "other"
    clock,      \* whether outputInterval has passed since lastOutputAt
    pendingEvent,\* pendingOutput, an event's number or 0
    pendingCount, droppedCount,
    stream,     \* what the stream has: [id, coalesced, dropped]
    streamFailed,  \* writing to it has failed, at most once
    inHand,     \* [Emitters -> the event still to be mirrored, or 0]
    mirror,     \* the mirror's channel
    mirrored,   \* events in the file
    skipped,    \* events the mirror had no room for
    closing     \* "no", "finished" (run_finished emitted), "closed" or "done"

sinkVars ==
    <<kinds, clock, pendingEvent, pendingCount, droppedCount, stream, streamFailed, inHand, mirror,
      mirrored, skipped, closing>>

SinkInit ==
    /\ kinds = <<>> /\ clock = "passed"
    /\ pendingEvent = 0 /\ pendingCount = 0 /\ droppedCount = 0
    /\ stream = <<>> /\ streamFailed = FALSE
    /\ inHand = [w \in Emitters |-> 0]
    /\ mirror = <<>> /\ mirrored = <<>> /\ skipped = {} /\ closing = "no"

\* Mutant: an output beyond maxPending is not counted.
Queue_Uncounted(id) ==
    /\ pendingEvent' = id
    /\ pendingCount' = IF pendingCount < MaxPending THEN pendingCount + 1 ELSE pendingCount
    /\ UNCHANGED <<droppedCount, stream, streamFailed>>

\* queueRunnerOutputLocked: the newest output is kept, the others are counted.
Queue(id) ==
    /\ pendingEvent' = id
    /\ IF pendingCount < MaxPending THEN pendingCount' = pendingCount + 1 /\ UNCHANGED droppedCount
       ELSE droppedCount' = droppedCount + 1 /\ UNCHANGED pendingCount
    /\ UNCHANGED <<stream, streamFailed>>

PendingLine ==
    IF pendingEvent = 0 THEN <<>>
    ELSE <<[id |-> pendingEvent, coalesced |-> pendingCount - 1, dropped |-> droppedCount]>>

\* The pending output, then the event; what is pending is forgotten when writing fails.
FlushAndWrite(id) ==
    /\ pendingEvent' = 0 /\ pendingCount' = 0 /\ droppedCount' = 0
    /\ \/ /\ stream' = stream \o PendingLine \o <<[id |-> id, coalesced |-> 0, dropped |-> 0]>>
          /\ UNCHANGED streamFailed
       \/ /\ ~streamFailed /\ streamFailed' = TRUE
          /\ stream' \in {stream, stream \o PendingLine}

\* lastOutputAt is the time of an output that is written, of a pending one as well.
EmitToStream(kind, id) ==
    IF kind = "output" /\ clock # "passed" THEN Queue(id) /\ UNCHANGED clock
    ELSE /\ FlushAndWrite(id)
         /\ clock' \in (IF kind = "other" \/ streamFailed' THEN {clock} ELSE {})
                    \cup (IF kind = "output" \/ pendingEvent # 0 THEN {"waiting"} ELSE {})

EmitEvent(w, kind) ==
    /\ closing = "no" /\ inHand[w] = 0 /\ Len(kinds) < MaxEvents
    /\ LET id == Len(kinds) + 1 IN
       /\ kinds' = Append(kinds, kind)
       /\ EmitToStream(kind, id)
       /\ inHand' = [inHand EXCEPT ![w] = id]
    /\ UNCHANGED <<mirror, mirrored, skipped, closing>>

PassOutputInterval ==
    /\ clock = "waiting" /\ clock' = "passed"
    /\ UNCHANGED <<kinds, pendingEvent, pendingCount, droppedCount, stream, streamFailed, inHand, mirror,
                   mirrored, skipped, closing>>

EmitToMirror(w) ==
    /\ inHand[w] # 0
    /\ inHand' = [inHand EXCEPT ![w] = 0]
    /\ IF Len(mirror) < MirrorRoom THEN mirror' = Append(mirror, inHand[w]) /\ UNCHANGED skipped
       ELSE skipped' = skipped \cup {inHand[w]} /\ UNCHANGED mirror
    /\ UNCHANGED <<kinds, clock, pendingEvent, pendingCount, droppedCount, stream, streamFailed, mirrored,
                   closing>>

WriteMirrored ==
    /\ mirror # <<>>
    /\ mirrored' = Append(mirrored, Head(mirror)) /\ mirror' = Tail(mirror)
    /\ UNCHANGED <<kinds, clock, pendingEvent, pendingCount, droppedCount, stream, streamFailed, inHand,
                   skipped, closing>>

\* The workers are done: run_finished is the last event.
FinishRun ==
    /\ closing = "no" /\ \A w \in Emitters : inHand[w] = 0
    /\ LET id == Len(kinds) + 1 IN
       \E w \in Emitters :
       /\ kinds' = Append(kinds, "other")
       /\ EmitToStream("other", id)
       /\ inHand' = [inHand EXCEPT ![w] = id]
    /\ closing' = "finished"
    /\ UNCHANGED <<mirror, mirrored, skipped>>

CloseMirror ==
    /\ closing = "finished" /\ \A w \in Emitters : inHand[w] = 0
    /\ closing' = "closed"
    /\ UNCHANGED <<kinds, clock, pendingEvent, pendingCount, droppedCount, stream, streamFailed, inHand,
                   mirror, mirrored, skipped>>

MirrorDone ==
    /\ closing = "closed" /\ mirror = <<>>
    /\ closing' = "done"
    /\ UNCHANGED <<kinds, clock, pendingEvent, pendingCount, droppedCount, stream, streamFailed, inHand,
                   mirror, mirrored, skipped>>

SinkNext ==
    \/ \E w \in Emitters : EmitToMirror(w) \/ \E kind \in {"output", "other"} : EmitEvent(w, kind)
    \/ PassOutputInterval \/ WriteMirrored \/ FinishRun \/ CloseMirror \/ MirrorDone

SinkSpec == SinkInit /\ [][SinkNext]_sinkVars

-------------------------------------------------------------------------------
SinkTypeOK ==
    /\ kinds \in Seq({"output", "other"}) /\ Len(kinds) <= MaxEvents + 1
    /\ clock \in {"waiting", "passed"}
    /\ pendingEvent \in 0 .. Len(kinds) /\ pendingCount \in 0 .. MaxPending
    /\ droppedCount \in 0 .. MaxEvents
    /\ Len(mirror) <= MirrorRoom
    /\ closing \in {"no", "finished", "closed", "done"}

\* The last event the lines before this one stand for.
Before(lines, i) == IF i = 1 THEN 0 ELSE lines[i - 1].id

\* A line stands for its event and for those it says came right before it, all of them outputs.
StandsForThem(lines, i) ==
    LET first == Before(lines, i) + 1
    IN  /\ lines[i].id = first + lines[i].coalesced + lines[i].dropped
        /\ lines[i].id # first => \A k \in first .. lines[i].id : kinds[k] = "output"

\* Unless writing failed, every event is on the stream, or a line says that it stands for it, or it
\* is pending; at the end of the run none is pending.
OutputsAccounted ==
    ~streamFailed =>
        /\ \A i \in DOMAIN stream : StandsForThem(stream, i)
        /\ Len(kinds) = Before(stream, Len(stream) + 1) + pendingCount + droppedCount
        /\ closing # "no" => pendingEvent = 0

\* The stream has the events in the order they were emitted: one that is not an output
\* does not overtake the outputs before it.
StreamInOrder == \A i, j \in DOMAIN stream : i < j => stream[i].id < stream[j].id

\* When Close has returned, each event is in the file once or was skipped by the mirror.
MirrorIsWhole ==
    closing = "done" =>
        /\ ToSet(mirrored) \cup skipped = DOMAIN kinds
        /\ ToSet(mirrored) \cap skipped = {} /\ IsInjective(mirrored)

\* What was emitted is on the stream and in the file, in order, or is said to be missing.
EventsAreAccounted == OutputsAccounted /\ StreamInOrder /\ MirrorIsWhole
===============================================================================
