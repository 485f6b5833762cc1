----------------------------- MODULE ServiceRequests -----------------------------
(* Services an executor asks of the mastermind: ExecutorWorker.RequestService and   *)
(* its response router (internal/distributed/executor.go), the mastermind's service *)
(* goroutine (handleServiceRequest, mastermind.go), the review and rewrite handlers *)
(* (review_handler.go, rewrite_handler.go) and the choice between them              *)
(* (mastermindServiceHandler, cmd/yolo-agent/main.go).                              *)
EXTENDS Naturals, Sequences, FiniteSets, SequencesExt

CONSTANTS
    Requests,         \* calls of RequestService
    Askers,           \* executors
    AskedBy,          \* AskedBy[r]: the executor that makes the call
    Key,              \* Key[r]: correlation and request id of the call
    Service,          \* Service[r]: the service as the caller spells it
    Policy,           \* Policy[r]: "larger_model", "model" (a model is named) or "none"
    ServiceAttempts,  \* runs a handler makes (max retries + 1)
    ServiceRoom,      \* capacity of a subscription's channel (32 in the code)
    Nobody            \* model value: no request

ASSUME ServiceAssumption ==
    /\ AskedBy \in [Requests -> Askers] /\ Key \in [Requests -> STRING]
    /\ Service \in [Requests -> STRING]
    /\ Policy \in [Requests -> {"larger_model", "model", "none"}]
    /\ ServiceAttempts \in Nat \ {0} /\ ServiceRoom \in Nat \ {0}
    /\ Nobody \notin Requests

VARIABLES
    request,     \* [Requests -> where the call is, and what it returned]
    pending,     \* [Askers -> servicePending: key -> the call that waits under it]
    reply,       \* [Requests -> the call's response channel, of capacity one]
    serviceIn,   \* the mastermind's subscription
    serving,     \* the request the mastermind works on, and the attempt
    responses,   \* [Askers -> the router's subscription]
    attemptsMade, \* history: [Requests -> runs made for it]
    servedAs     \* history: [Requests -> model it was run with]

serviceVars == <<request, pending, reply, serviceIn, serving, responses, attemptsMade, servedAs>>

NoReply == [for |-> Nobody, outcome |-> "none"]
Free    == [request |-> Nobody, attempt |-> 0]
Keys    == {Key[r] : r \in Requests}

ServiceInit ==
    /\ request = [r \in Requests |-> [phase |-> "new", reply |-> NoReply]]
    /\ pending = [a \in Askers |-> [k \in Keys |-> Nobody]]
    /\ reply = [r \in Requests |-> NoReply]
    /\ serviceIn = <<>>
    /\ serving = Free
    /\ responses = [a \in Askers |-> <<>>]
    /\ attemptsMade = [r \in Requests |-> 0]
    /\ servedAs = [r \in Requests |-> "none"]

-------------------------------------------------------------------------------
(* Names, handlers and models. *)

Normalized(name) ==
    CASE name \in {"larger_model", "larger-model"} -> "larger-model"
      [] name \in {"review_with_larger_model", "review-with-larger-model"} -> "review-with-larger-model"
      [] name \in {"rewrite_task", "rewrite-task"} -> "rewrite-task"
      [] OTHER -> name

IsLarger(name) == name \in {"review-with-larger-model", "larger_model"}

HandlerOf(name) ==
    LET n == Normalized(name) IN
    CASE n = "review" \/ IsLarger(n) -> "review"
      [] n \in {"rewrite_task", "rewrite-task"} -> "rewrite"
      [] n = "implement" -> "fallback"
      [] OTHER -> "unsupported"

\* The policies compare the name as the caller spelled it; both models are configured.
RewriteModel(r) ==
    CASE Policy[r] = "larger_model" -> "larger" [] Policy[r] = "model" -> "named" [] OTHER -> "default"
ReviewModel(r) == IF IsLarger(Service[r]) THEN "larger" ELSE RewriteModel(r)

SelectModel(r) == IF HandlerOf(Service[r]) = "review" THEN ReviewModel(r) ELSE RewriteModel(r)

Budget(r) == IF HandlerOf(Service[r]) = "fallback" THEN 1 ELSE ServiceAttempts

-------------------------------------------------------------------------------
(* RequestService. *)

\* A publication that finds a subscriber's channel full is lost to that subscriber.
\* The call registers under its key, replacing one that waits
\* there, and publishes.
CallService(r) ==
    /\ request[r].phase = "new"
    /\ request' = [request EXCEPT ![r].phase = "waiting"]
    /\ pending' = [pending EXCEPT ![AskedBy[r]][Key[r]] = r]
    /\ serviceIn' = IF Len(serviceIn) < ServiceRoom THEN Append(serviceIn, r) ELSE serviceIn
    /\ UNCHANGED <<reply, serving, responses, attemptsMade, servedAs>>

\* Whatever waits under the key is forgotten when a call returns.
Forget(r) == pending' = [pending EXCEPT ![AskedBy[r]][Key[r]] = Nobody]

CallReturns(r) ==
    /\ request[r].phase = "waiting" /\ reply[r] # NoReply
    /\ request' = [request EXCEPT ![r] =
           [phase |-> IF reply[r].outcome = "error" THEN "refused" ELSE "served", reply |-> reply[r]]]
    /\ Forget(r)
    /\ UNCHANGED <<reply, serviceIn, serving, responses, attemptsMade, servedAs>>

\* Mutant: the entry stays.
CallTimesOut_KeepsEntry(r) ==
    /\ request[r].phase = "waiting"
    /\ request' = [request EXCEPT ![r].phase = "timed out"]
    /\ UNCHANGED <<pending, reply, serviceIn, serving, responses, attemptsMade, servedAs>>

CallTimesOut(r) ==
    /\ request[r].phase = "waiting"
    /\ request' = [request EXCEPT ![r].phase = "timed out"]
    /\ Forget(r)
    /\ UNCHANGED <<reply, serviceIn, serving, responses, attemptsMade, servedAs>>

\* The router hands a response to whoever waits under its key; a channel that holds
\* one already takes no other.
RouteResponse(a) ==
    /\ responses[a] # <<>>
    /\ responses' = [responses EXCEPT ![a] = Tail(@)]
    /\ LET answer == Head(responses[a])
           waiter == pending[a][Key[answer.for]] IN
       reply' = IF waiter # Nobody /\ reply[waiter] = NoReply
                THEN [reply EXCEPT ![waiter] = answer] ELSE reply
    /\ UNCHANGED <<request, pending, serviceIn, serving, attemptsMade, servedAs>>

-------------------------------------------------------------------------------
(* The mastermind: one goroutine serves one request at a time. *)

\* Mutant: the publication waits for no room.
Respond_Unbounded(r, outcome) ==
    responses' = [a \in Askers |-> Append(responses[a], [for |-> r, outcome |-> outcome])]

Respond(r, outcome) ==
    responses' = [a \in Askers |->
        IF Len(responses[a]) < ServiceRoom
        THEN Append(responses[a], [for |-> r, outcome |-> outcome]) ELSE responses[a]]

TakeRequest ==
    /\ serving = Free /\ serviceIn # <<>>
    /\ serviceIn' = Tail(serviceIn)
    /\ LET r == Head(serviceIn) IN
       IF HandlerOf(Service[r]) = "unsupported"
       THEN Respond(r, "error") /\ UNCHANGED <<serving, servedAs>>
       ELSE /\ serving' = [request |-> r, attempt |-> 1]
            /\ servedAs' = [servedAs EXCEPT ![r] = SelectModel(r)]
            /\ UNCHANGED responses
    /\ UNCHANGED <<request, pending, reply, attemptsMade>>

\* A run that does not complete is an error and is repeated while the handler has
\* attempts; one that does ends with what the runner found.
RunOnce(handlerName) ==
    /\ serving # Free
    /\ LET r == serving.request IN
       /\ HandlerOf(Service[r]) = handlerName
       /\ attemptsMade' = [attemptsMade EXCEPT ![r] = @ + 1]
       /\ \E outcome \in {"done", "error"} :
             IF outcome = "error" /\ serving.attempt < Budget(r)
             THEN /\ serving' = [serving EXCEPT !.attempt = @ + 1]
                  /\ UNCHANGED responses
             ELSE serving' = Free /\ Respond(r, outcome)
    /\ UNCHANGED <<request, pending, reply, serviceIn, servedAs>>

Review   == RunOnce("review")
Rewrite  == RunOnce("rewrite")
Fallback == RunOnce("fallback")

ServiceNext ==
    \/ \E r \in Requests : CallService(r) \/ CallReturns(r) \/ CallTimesOut(r)
    \/ \E a \in Askers : RouteResponse(a)
    \/ TakeRequest \/ Review \/ Rewrite \/ Fallback

ServiceSpec == ServiceInit /\ [][ServiceNext]_serviceVars

-------------------------------------------------------------------------------
ServiceTypeOK ==
    /\ request \in [Requests -> [phase : {"new", "waiting", "served", "refused", "timed out"},
                                 reply : [for : Requests \cup {Nobody},
                                          outcome : {"none", "done", "error"}]]]
    /\ pending \in [Askers -> [Keys -> Requests \cup {Nobody}]]
    /\ serviceIn \in Seq(Requests) /\ Len(serviceIn) <= ServiceRoom
    /\ \A a \in Askers : Len(responses[a]) <= ServiceRoom
    /\ attemptsMade \in [Requests -> 0 .. ServiceAttempts]

\* A call that returns an answer got the answer to a request of its own key, even
\* when an earlier answer under that key comes late; and the answer is "done" after a
\* run, or an error after all the runs the handler may make.
AnswerFitsKey ==
    \A r \in Requests : request[r].phase \in {"served", "refused"} =>
        /\ Key[request[r].reply.for] = Key[r]
        /\ request[r].phase = "served" => attemptsMade[request[r].reply.for] > 0
        /\ request[r].reply.outcome = "error" =>
               attemptsMade[request[r].reply.for] \in {0, Budget(request[r].reply.for)}

\* What is left under a key is a call that still waits: a call that returned or gave
\* up leaves nothing behind for a late answer to find.
PendingIsWaiting ==
    \A a \in Askers, k \in Keys : pending[a][k] # Nobody => request[pending[a][k]].phase = "waiting"

\* A waiting call can still be answered, unless a call under the same key came after
\* it or returned before it.
WaitingCanBeAnswered ==
    \A r \in Requests :
        request[r].phase = "waiting"
        /\ (\A q \in Requests \ {r} : AskedBy[q] = AskedBy[r] /\ Key[q] = Key[r] => request[q].phase = "new")
            => pending[AskedBy[r]][Key[r]] = r
\* Responses find the calls they are for, and calls are found while they wait and no longer.
CallsAreMatched == AnswerFitsKey /\ PendingIsWaiting /\ WaitingCanBeAnswered
===============================================================================
