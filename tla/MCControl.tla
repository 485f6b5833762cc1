------------------------------- MODULE MCControl -------------------------------
(* The control plane for TLC: dispatches, status updates, service requests, graph  *)
(* subscriptions, the sinks a run's events go to, and the monitor that shows them. *)
(* They share no state, so one run checks each of them by itself: `part` says which *)
(* of them moves.                                                                  *)
EXTENDS TaskDispatch, StatusUpdate, ServiceRequests, GraphFeed, EventSinks, MonitorView

-------------------------------------------------------------------------------
(* Values of the constants. *)

CONSTANTS e1, e2, j1, c1, c2, c3, c4, r1, r2, r3, r4

BothSkills    == [e \in {e1, e2} |-> {"implement", "review"}]
JobNeeds      == [j \in {j1} |-> "implement"]

CommandStores == [c \in {c1, c2, c3, c4} |-> IF c = c1 THEN <<"b1", "b2">> ELSE <<"b2">>]
CommandFlaws  == [c \in {c1, c2, c3, c4} |-> IF c = c4 THEN "no task" ELSE "nothing"]
CommandSends  == [c \in {c1, c2, c3, c4} |-> IF c = c2 THEN 2 ELSE 1]

RequestAsker   == [r \in {r1, r2, r3, r4} |-> "a1"]
RequestKey     == [r \in {r1, r2, r3, r4} |->
    CASE r \in {r1, r2} -> "k1" [] r = r3 -> "k2" [] r = r4 -> "k3"]
RequestService == [r \in {r1, r2, r3, r4} |->
    CASE r = r1 -> "review-with-larger-model" [] r = r2 -> "implement" [] r = r3 -> "rewrite_task"
      [] r = r4 -> "deploy"]
RequestPolicy  == [r \in {r1, r2, r3, r4} |-> IF r = r3 THEN "model" ELSE "none"]

RootBackend == [g \in {"g1", "g2"} |-> IF g = "g1" THEN "tk" ELSE "github"]
RootTasks   == [g \in {"g1", "g2"} |-> IF g = "g1" THEN {"x"} ELSE {"z"}]
FeedFilters == {[backends |-> {}, statuses |-> {}], [backends |-> {"tk"}, statuses |-> {}],
                [backends |-> {}, statuses |-> {"open"}]}

TaskOrder   == <<"a", "b", "c">>
WorkerOrder == <<"w1", "w2">>
TaskTakers  == [t \in ToSet(TaskOrder) |-> IF t = "b" THEN {"w2"} ELSE {"w1"}]
TaskPlaces  == [t \in ToSet(TaskOrder) |-> IF t = "a" THEN <<2, 0>> ELSE <<1, 3>>]

\* Two tasks that depend on each other and one on them; one that depends on an unknown task
\* and one on itself.
TaskRelations ==
    {[a |-> <<"b">>, b |-> <<"c">>, c |-> <<"b">>], [a |-> <<"x", "c">>, b |-> <<"b", "a">>, c |-> <<>>]}

\* All closed; the queue open with its filter on, the cursor on the last row; all open.
View(cursor, open, filter0) == [cursor |-> cursor, open |-> open, filter |-> filter0]
AllClosed == View(0, {}, "all")
SomeViewers ==
    {AllClosed, View(4, {<<"run">>, <<"queue">>}, "active"),
     View(0, {<<"run">>, <<"workers">>, <<"worker", "w1">>, <<"tasks">>, <<"task", "a">>, <<"queue">>, <<"graph">>}, "all")}

-------------------------------------------------------------------------------
VARIABLE part

Parts == {"dispatch", "status", "service", "feed", "sinks", "view"}

controlVars ==
    <<part, dispatchVars, statusVars, serviceVars, feedVars, sinkVars, viewVars>>

ControlInit ==
    /\ part \in Parts
    /\ DispatchInit /\ StatusInit /\ ServiceInit /\ FeedInit /\ SinkInit /\ ViewInit
    /\ part # "feed" => filter.backends = {} /\ filter.statuses = {}
    /\ part # "view" => runBy = "queue" /\ panelExpand = AllClosed.open

OnlyDispatch ==
    /\ part = "dispatch"
    /\ UNCHANGED <<part, statusVars, serviceVars, feedVars, sinkVars, viewVars>>
OnlyStatus ==
    /\ part = "status"
    /\ UNCHANGED <<part, dispatchVars, serviceVars, feedVars, sinkVars, viewVars>>
OnlyService ==
    /\ part = "service"
    /\ UNCHANGED <<part, dispatchVars, statusVars, feedVars, sinkVars, viewVars>>
OnlyFeed ==
    /\ part = "feed"
    /\ UNCHANGED <<part, dispatchVars, statusVars, serviceVars, sinkVars, viewVars>>
OnlySinks ==
    /\ part = "sinks"
    /\ UNCHANGED <<part, dispatchVars, statusVars, serviceVars, feedVars, viewVars>>
OnlyView ==
    /\ part = "view"
    /\ UNCHANGED <<part, dispatchVars, statusVars, serviceVars, feedVars, sinkVars>>

ControlNext ==
    \/ OnlyDispatch /\ DispatchNext
    \/ OnlyStatus /\ StatusNext
    \/ OnlyService /\ ServiceNext
    \/ OnlyFeed /\ FeedNext
    \/ OnlySinks /\ SinkNext
    \/ OnlyView /\ ViewNext

ControlSpec == ControlInit /\ [][ControlNext]_controlVars
-------------------------------------------------------------------------------
\* Every part of the control plane keeps its shape: its queues stay within their room.
ControlTypeOK ==
    DispatchTypeOK /\ StatusTypeOK /\ ServiceTypeOK /\ FeedTypeOK /\ SinkTypeOK /\ ViewTypeOK
===============================================================================
