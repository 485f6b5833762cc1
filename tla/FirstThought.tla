------------------------------ MODULE FirstThought ------------------------------
(* A "created" event of a Linear agent session: the run it starts, and beside it   *)
(* the watch over the first thought (internal/linear: session_processor.go,        *)
(* first_thought_sla.go).                                                          *)
EXTENDS Naturals

CONSTANT MaxThoughts  \* bound: thoughts the run tries to post

VARIABLES
    created,    \* the runCreated callback: "running", "ok" or "failed"
    tried,      \* thoughts it has tried to post
    accepted,   \* thoughts Linear has accepted
    observed,   \* firstThoughtObserved, a channel of one
    timer,      \* the SLA's timer has fired
    gone,       \* the event's context has ended
    sla,        \* where EnforceFirstThoughtSLA is, or how it ended
    recorded,   \* the SLA error was recorded, could not be, or "no"
    handled     \* what ProcessEvent returned: "no", "ok" or "error"

thoughtVars == <<created, tried, accepted, observed, timer, gone, sla, recorded, handled>>

ThoughtInit ==
    /\ created = "running" /\ tried = 0 /\ accepted = 0 /\ observed = FALSE
    /\ timer = FALSE /\ gone = FALSE /\ sla = "select" /\ recorded = "no" /\ handled = "no"

\* emitThought: Linear accepts it, which is observed, or does not.
Post ==
    \/ accepted' = accepted + 1 /\ observed' = TRUE
    \/ UNCHANGED <<accepted, observed>>

CreatedPosts ==
    /\ created = "running" /\ tried < MaxThoughts
    /\ tried' = tried + 1
    /\ Post
    /\ UNCHANGED <<created, timer, gone, sla, recorded, handled>>

CreatedEnds ==
    /\ created = "running"
    /\ created' \in {"ok", "failed"}
    /\ UNCHANGED <<tried, accepted, observed, timer, gone, sla, recorded, handled>>

TimerFires ==
    /\ ~timer /\ sla = "select"
    /\ timer' = TRUE
    /\ UNCHANGED <<created, tried, accepted, observed, gone, sla, recorded, handled>>

EndEventContext ==
    /\ ~gone /\ handled = "no"
    /\ gone' = TRUE
    /\ UNCHANGED <<created, tried, accepted, observed, timer, sla, recorded, handled>>

\* Whichever is there; when the timer and a thought are, either may be taken.
AwaitFirst ==
    /\ sla = "select"
    /\ \/ gone /\ sla' = "failed" /\ UNCHANGED observed
       \/ observed /\ sla' = "met" /\ observed' = FALSE
       \/ timer /\ sla' = "fallback" /\ UNCHANGED observed
    /\ UNCHANGED <<created, tried, accepted, timer, gone, recorded, handled>>

PostFallback ==
    /\ sla = "fallback"
    /\ Post
    /\ sla' = IF accepted' > accepted THEN "met" ELSE "record"
    /\ UNCHANGED <<created, tried, timer, gone, recorded, handled>>

RecordError ==
    /\ sla = "record"
    /\ recorded' \in {"yes", "refused"}
    /\ sla' = "failed"
    /\ UNCHANGED <<created, tried, accepted, observed, timer, gone, handled>>

FinishEvent ==
    /\ handled = "no" /\ created # "running" /\ sla \in {"met", "failed"}
    /\ handled' = IF created = "ok" /\ sla = "met" THEN "ok" ELSE "error"
    /\ UNCHANGED <<created, tried, accepted, observed, timer, gone, sla, recorded>>

WatchStep == TimerFires \/ AwaitFirst \/ PostFallback \/ RecordError \/ FinishEvent

ThoughtNext == CreatedPosts \/ CreatedEnds \/ EndEventContext \/ WatchStep

-------------------------------------------------------------------------------
\* The event is handled well only if Linear has accepted a thought, the run's own or the
\* fallback; and if none is there when the watch is over, somebody was told, unless the
\* context had ended first.
ThoughtOrRecord ==
    /\ handled = "ok" => accepted > 0
    /\ sla \in {"met", "failed"} => accepted > 0 \/ recorded # "no" \/ gone

\* A run that has ended is waited for no longer than the watch takes.
ThoughtDue  == created # "running"
ThoughtOver == handled # "no"
===============================================================================
