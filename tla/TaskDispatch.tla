------------------------------ MODULE TaskDispatch ------------------------------
(* A runner request sent to an executor and back: Mastermind.DispatchTask         *)
(* (internal/distributed/mastermind.go), the executor registry's Pick, and        *)
(* ExecutorWorker with its handler goroutines (internal/distributed/executor.go). *)
(* The caller is the agent loop with the mastermind as its runner: it dispatches  *)
(* a task again when a dispatch fails.                                            *)
EXTENDS Naturals, Sequences, FiniteSets, SequencesExt

CONSTANTS
    Workers,         \* executor workers
    Settled,         \* those that registered and listen before the first dispatch
    Skills,          \* Skills[e]: the capabilities e was configured with
    Jobs,            \* tasks the callers have to get done
    Needs,           \* Needs[j]: the capability the mode of j's requests asks for
    Tries,           \* dispatches of one task (the loop's retry budget + 1)
    Attempts,        \* runs of one request (max retries + 1)
    Unassigned,      \* model value: no executor
    DispatchFaults,  \* the failures this instance allows
    MaxDispatchFaults \* bound: how many of them happen

ASSUME DispatchAssumption ==
    /\ Settled \subseteq Workers /\ IsFiniteSet(Settled)
    /\ Skills \in [Workers -> SUBSET {"implement", "review"}]
    /\ Needs \in [Jobs -> {"implement", "review"}]
    /\ Tries \in Nat \ {0} /\ Attempts \in Nat \ {0} /\ MaxDispatchFaults \in Nat
    /\ DispatchFaults \subseteq {"lost", "expiry", "shutdown"}
    /\ Unassigned \notin Workers

VARIABLES
    call,      \* [Jobs \X 1..Tries -> what the caller of that dispatch knows]
    adverts,   \* the registry: advertisements, the one seen last first
    notices,   \* events on their way to the mastermind's registry goroutines
    life,      \* [Workers -> where Start is]
    inbox,     \* [Workers -> dispatches on the worker's subscription]
    handler,   \* [Workers \X Calls -> the goroutine that handles the dispatch]
    answers,   \* [Calls -> results on that call's subscription]
    faultsLeft \* the bound: failures that may still happen

dispatchVars == <<call, adverts, notices, life, inbox, handler, answers, faultsLeft>>

Calls == Jobs \X (1 .. Tries)

FreshCall    == [phase |-> "new", executor |-> Unassigned, outcome |-> "none"]
FreshHandler == [phase |-> "none", attempt |-> 0, outcome |-> "none"]

\* Once a call has returned its subscription is closed and gets nothing more.
Subscribed(c) == call[c].phase \in {"picked", "waiting"}

Spend(fault) == fault \in DispatchFaults /\ faultsLeft > 0 /\ faultsLeft' = faultsLeft - 1

\* A subscriber may miss an event: its channel is full, or the broker drops it.
Reaching(all) ==
    {all} \cup (IF "lost" \in DispatchFaults /\ faultsLeft > 0 THEN {all \ {x} : x \in all} ELSE {})

Lost(all, reached) == faultsLeft' = IF reached = all THEN faultsLeft ELSE faultsLeft - 1

DispatchInit ==
    /\ call = [c \in Calls |-> FreshCall]
    /\ adverts = SetToSeq({[id |-> e, skills |-> Skills[e]] : e \in Settled})
    /\ notices = {}
    /\ life = [e \in Workers |-> IF e \in Settled THEN "listening" ELSE "new"]
    /\ inbox = [e \in Workers |-> <<>>]
    /\ handler = [p \in Workers \X Calls |-> FreshHandler]
    /\ answers = [c \in Calls |-> <<>>]
    /\ faultsLeft = MaxDispatchFaults

-------------------------------------------------------------------------------
(* ExecutorWorker.Start and the registry.  Each kind of notice has a goroutine of *)
(* its own at the mastermind: notices of different kinds overtake each other.     *)

Announce(e) ==
    /\ life[e] = "new"
    /\ life' = [life EXCEPT ![e] = "announced"]
    /\ notices' = notices \cup {<<"register", e>>}
    /\ UNCHANGED <<call, adverts, inbox, handler, answers, faultsLeft>>

\* Subscribes to the dispatches and sends the first heartbeat.
Listen(e) ==
    /\ life[e] = "announced"
    /\ life' = [life EXCEPT ![e] = "listening"]
    /\ notices' = notices \cup {<<"heartbeat", e>>}
    /\ UNCHANGED <<call, adverts, inbox, handler, answers, faultsLeft>>

Beat(e) ==
    /\ life[e] = "listening"
    /\ notices' = notices \cup {<<"heartbeat", e>>}
    /\ UNCHANGED <<call, adverts, life, inbox, handler, answers, faultsLeft>>

\* The context ends: the worker says it goes offline, its subscription is gone,
\* and its handlers find their context cancelled.
Shutdown(e) ==
    /\ life[e] = "listening"
    /\ Spend("shutdown")
    /\ life' = [life EXCEPT ![e] = "stopped"]
    /\ notices' = notices \cup {<<"offline", e>>}
    /\ inbox' = [inbox EXCEPT ![e] = <<>>]
    /\ UNCHANGED <<call, adverts, handler, answers>>

SkillsOf(e) == UNION {a.skills : a \in {x \in ToSet(adverts) : x.id = e}}

\* An executor has one entry.
Without(e) == RemoveFirstMatch(adverts, LAMBDA a : a.id = e)

SeenNow(e, skills) == <<[id |-> e, skills |-> skills]>> \o Without(e)

\* A heartbeat of an executor the registry does not know, or no longer knows,
\* enters it without any capability.
HandleNotice(kind, e) ==
    /\ <<kind, e>> \in notices
    /\ notices' = notices \ {<<kind, e>>}
    /\ adverts' = CASE kind = "register"  -> SeenNow(e, Skills[e])
                    [] kind = "heartbeat" -> SeenNow(e, SkillsOf(e))
                    [] kind = "offline"   -> Without(e)
    /\ UNCHANGED <<call, life, inbox, handler, answers, faultsLeft>>

\* No heartbeat came within the time to live: a stopped worker, or a late one.
ForgetExecutor(e) ==
    /\ e \in {a.id : a \in ToSet(adverts)}
    /\ IF life[e] = "stopped" THEN UNCHANGED faultsLeft ELSE Spend("expiry")
    /\ adverts' = Without(e)
    /\ UNCHANGED <<call, notices, life, inbox, handler, answers>>

-------------------------------------------------------------------------------
(* DispatchTask. *)

\* The loop's first try, or the next one after a try that failed.
Due(c) ==
    /\ call[c].phase = "new"
    /\ c[2] > 1 => call[<<c[1], c[2] - 1>>].outcome = "failed"

\* Pick: of the executors that have the capability, the one seen last.
Pick(kind) == SelectInSeq(adverts, LAMBDA a : kind \in a.skills)

PickExecutor(c) ==
    /\ Due(c)
    /\ LET i == Pick(Needs[c[1]]) IN
       call' = [call EXCEPT ![c] =
           IF i = 0 THEN [FreshCall EXCEPT !.phase = "returned", !.outcome = "failed"]
           ELSE [FreshCall EXCEPT !.phase = "picked", !.executor = adverts[i].id]]
    /\ UNCHANGED <<adverts, notices, life, inbox, handler, answers, faultsLeft>>

\* Every worker that listens gets the dispatch.
PublishDispatch(c) ==
    /\ call[c].phase = "picked"
    /\ LET listeners == {e \in Workers : life[e] = "listening"} IN
       \E reached \in Reaching(listeners) :
          /\ Lost(listeners, reached)
          /\ inbox' = [e \in Workers |-> IF e \in reached THEN Append(inbox[e], c) ELSE inbox[e]]
    /\ call' = [call EXCEPT ![c].phase = "waiting"]
    /\ UNCHANGED <<adverts, notices, life, handler, answers>>

\* The call sees the results of all dispatches and waits for its own.
ReadAnswer(c) ==
    /\ call[c].phase = "waiting"
    /\ answers[c] # <<>>
    /\ LET result == Head(answers[c]) IN
       IF result.call = c
       THEN /\ call' = [call EXCEPT ![c].phase = "returned", ![c].outcome = result.outcome]
            /\ answers' = [answers EXCEPT ![c] = <<>>]
       ELSE /\ answers' = [answers EXCEPT ![c] = Tail(@)]
            /\ UNCHANGED call
    /\ UNCHANGED <<adverts, notices, life, inbox, handler, faultsLeft>>

\* The call returns without an answer of its own: none came in time, publishing the
\* dispatch reported an error (some executors may have it all the same), the results'
\* channel was closed, or the answer cannot be read.
GiveUp(c) ==
    /\ call[c].phase \in {"picked", "waiting"}
    /\ call' = [call EXCEPT ![c].phase = "gave up", ![c].outcome = "failed"]
    /\ answers' = [answers EXCEPT ![c] = <<>>]
    /\ UNCHANGED <<adverts, notices, life, inbox, handler, faultsLeft>>

-------------------------------------------------------------------------------
(* handleDispatch: one goroutine for each dispatch a worker receives. *)

\* Mutant: the target is not looked at.
IsForMe_AnyTarget(e, c) == Needs[c[1]] \in Skills[e]

IsForMe(e, c) == call[c].executor = e /\ Needs[c[1]] \in Skills[e]

\* resolveRunner: a request for a backend without a runner is answered at once.
Resolutions ==
    {[phase |-> "running", attempt |-> 1, outcome |-> "none"],
     [phase |-> "reporting", attempt |-> 0, outcome |-> "failed"]}

ReceiveDispatch(e) ==
    /\ life[e] = "listening"
    /\ inbox[e] # <<>>
    /\ inbox' = [inbox EXCEPT ![e] = Tail(@)]
    /\ LET c == Head(inbox[e]) IN
       IF IsForMe(e, c)
       THEN \E start \in Resolutions : handler' = [handler EXCEPT ![<<e, c>>] = start]
       ELSE UNCHANGED handler
    /\ UNCHANGED <<call, adverts, notices, life, answers, faultsLeft>>

\* A run ends (or its own timeout ends it), at times well although the worker was told
\* to stop; a failed one is repeated while attempts are left and the worker's context
\* stands.
FinishAttempt(e, c) ==
    /\ handler[<<e, c>>].phase = "running"
    /\ LET now == handler[<<e, c>>] IN
       \E outcome \in {"completed", "failed"} :
          handler' = [handler EXCEPT ![<<e, c>>] =
              IF outcome = "failed" /\ now.attempt < Attempts /\ life[e] # "stopped"
              THEN [now EXCEPT !.attempt = now.attempt + 1]
              ELSE [now EXCEPT !.phase = "reporting", !.outcome = outcome]]
    /\ UNCHANGED <<call, adverts, notices, life, inbox, answers, faultsLeft>>

\* The result goes to every call that waits; some buses publish nothing once the
\* context is cancelled.
PublishResult(e, c) ==
    /\ handler[<<e, c>>].phase = "reporting"
    /\ handler' = [handler EXCEPT ![<<e, c>>].phase = "ended"]
    /\ LET waiting == {d \in Calls : Subscribed(d)}
           result == [call |-> c, outcome |-> handler[<<e, c>>].outcome] IN
       \E reached \in Reaching(waiting) \cup (IF life[e] = "stopped" THEN {{}} ELSE {}) :
          /\ IF life[e] = "stopped" THEN UNCHANGED faultsLeft ELSE Lost(waiting, reached)
          /\ answers' = [d \in Calls |-> IF d \in reached THEN Append(answers[d], result) ELSE answers[d]]
    /\ UNCHANGED <<call, adverts, notices, life, inbox>>

-------------------------------------------------------------------------------
DispatchNext ==
    \/ \E e \in Workers :
          \/ Announce(e) \/ Listen(e) \/ Beat(e) \/ Shutdown(e) \/ ForgetExecutor(e)
          \/ ReceiveDispatch(e)
          \/ \E kind \in {"register", "heartbeat", "offline"} : HandleNotice(kind, e)
          \/ \E c \in Calls : FinishAttempt(e, c) \/ PublishResult(e, c)
    \/ \E c \in Calls :
          PickExecutor(c) \/ PublishDispatch(c) \/ ReadAnswer(c) \/ GiveUp(c)

DispatchSpec == DispatchInit /\ [][DispatchNext]_dispatchVars

-------------------------------------------------------------------------------
DispatchTypeOK ==
    /\ call \in [Calls -> [phase : {"new", "picked", "waiting", "returned", "gave up"},
                           executor : Workers \cup {Unassigned},
                           outcome : {"none", "completed", "failed"}]]
    /\ adverts \in Seq([id : Workers, skills : SUBSET {"implement", "review"}])
    /\ notices \subseteq {"register", "heartbeat", "offline"} \X Workers
    /\ life \in [Workers -> {"new", "announced", "listening", "stopped"}]
    /\ inbox \in [Workers -> Seq(Calls)]
    /\ handler \in [Workers \X Calls -> [phase : {"none", "running", "reporting", "ended"},
                                         attempt : 0 .. Attempts,
                                         outcome : {"none", "completed", "failed"}]]
    /\ answers \in [Calls -> Seq([call : Calls, outcome : {"completed", "failed"}])]
    /\ faultsLeft \in 0 .. MaxDispatchFaults

\* A call that reports success was picked an executor that ran this very request to
\* its end: results of other requests, which reach the same subscription, never
\* answer it (the correlation id of DispatchTask).
AnswerIsOwn ==
    \A c \in Calls : call[c].outcome = "completed" =>
        /\ handler[<<call[c].executor, c>>].phase = "ended"
        /\ handler[<<call[c].executor, c>>].outcome = "completed"

Active(e, c) == handler[<<e, c>>].phase \in {"running", "reporting"}

\* Two executors work on one task at the same time only when the mastermind gave up
\* on the earlier of the two dispatches: nothing tells an executor that its
\* caller is gone.
OverlapOnlyAfterGivingUp ==
    \A j \in Jobs : \A m, n \in 1 .. Tries : \A d, e \in Workers :
        Active(d, <<j, m>>) /\ Active(e, <<j, n>>) /\ <<d, m>> # <<e, n>> /\ m <= n
            => m < n /\ call[<<j, m>>].phase = "gave up"

\* The attempts made at a task: by whom, for which of its dispatches, the how manieth.
AttemptsAt(j) ==
    UNION {{<<p, k>> : k \in 1 .. handler[p].attempt} : p \in Workers \X {c \in Calls : c[1] = j}}

\* The work one task causes, all its dispatches and their attempts together, stays
\* within the two retry budgets multiplied.
WorkIsBounded == \A j \in Jobs : Cardinality(AttemptsAt(j)) <= Tries * Attempts
\* Dispatching is sound: answers are the requests' own, executors overlap only behind a caller
\* that gave up, and no task causes more work than its budgets allow.
DispatchIsSound == AnswerIsOwn /\ OverlapOnlyAfterGivingUp /\ WorkIsBounded
===============================================================================
