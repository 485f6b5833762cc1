----------------------------- MODULE Control_proofs -----------------------------
(***************************************************************************)
(* Theorems about the control plane's exchanges: service calls, dispatches  *)
(* of runner requests, status commands, the feed of the task graphs and the *)
(* sinks of a run's events, for any number of executors, requests, tasks,   *)
(* commands, backends, graphs and events.                                   *)
(***************************************************************************)
EXTENDS MCControl, MonitorView_proofs

LEMMA ChannelEmpty == ToSet(<<>>) = {} /\ Distinct(<<>>) /\ \A S : <<>> \in Seq(S)
  BY DEF ToSet, Distinct

\* What is left when the first message is taken.
LEMMA ChannelTakes ==
  ASSUME NEW S, NEW c \in Seq(S), c # <<>>
  PROVE  /\ Head(c) \in S /\ Tail(c) \in Seq(S) /\ Head(c) \in ToSet(c)
         /\ ToSet(Tail(c)) \subseteq ToSet(c)
         /\ Distinct(c) => Distinct(Tail(c)) /\ Head(c) \notin ToSet(Tail(c))
<1>1. Head(c) \in S /\ Tail(c) \in Seq(S) /\ 1 \in DOMAIN c /\ Head(c) = c[1]
  OBVIOUS
<1>2. \A i \in DOMAIN Tail(c) : i + 1 \in DOMAIN c /\ Tail(c)[i] = c[i + 1] /\ i \in Nat
  OBVIOUS
<1>3. ASSUME Distinct(c), NEW i \in DOMAIN Tail(c), NEW j \in DOMAIN Tail(c), Tail(c)[i] = Tail(c)[j]
      PROVE  i = j
  <2>1. i + 1 = j + 1
    BY <1>2, <1>3 DEF Distinct
  <2> QED BY <1>2, <2>1
<1>4. ASSUME Distinct(c), NEW i \in DOMAIN Tail(c) PROVE Tail(c)[i] # Head(c)
  <2>1. i + 1 # 1
    BY <1>2
  <2> QED BY <1>1, <1>2, <1>4, <2>1 DEF Distinct
<1> QED BY <1>1, <1>2, <1>3, <1>4 DEF ToSet, Distinct

\* What is there when a message is added.
LEMMA ChannelGets ==
  ASSUME NEW S, NEW c \in Seq(S), NEW e \in S
  PROVE  /\ Append(c, e) \in Seq(S) /\ ToSet(Append(c, e)) = ToSet(c) \cup {e}
         /\ Distinct(c) /\ e \notin ToSet(c) => Distinct(Append(c, e))
<1>1. /\ Append(c, e) \in Seq(S) /\ Len(c) + 1 \in DOMAIN Append(c, e) /\ Append(c, e)[Len(c) + 1] = e
      /\ \A k \in DOMAIN c : k \in DOMAIN Append(c, e) /\ Append(c, e)[k] = c[k]
      /\ \A k \in DOMAIN Append(c, e) : k \in DOMAIN c \/ k = Len(c) + 1
  OBVIOUS
<1>2. \A k \in DOMAIN Append(c, e) : \/ k \in DOMAIN c /\ Append(c, e)[k] = c[k]
                                     \/ k = Len(c) + 1 /\ Append(c, e)[k] = e
  BY <1>1
<1>3. ToSet(Append(c, e)) = ToSet(c) \cup {e}
  BY <1>1, <1>2 DEF ToSet
<1>4. ASSUME Distinct(c), e \notin ToSet(c),
             NEW i \in DOMAIN Append(c, e), NEW j \in DOMAIN Append(c, e), Append(c, e)[i] = Append(c, e)[j]
      PROVE  i = j
  BY <1>2, <1>4 DEF Distinct, ToSet
<1> QED BY <1>1, <1>3, <1>4 DEF Distinct

\* The messages of a channel are messages.
LEMMA ChannelHolds == ASSUME NEW S, NEW c \in Seq(S) PROVE ToSet(c) \subseteq S
<1>1. \A i \in DOMAIN c : c[i] \in S
  OBVIOUS
<1> QED BY <1>1 DEF ToSet

\* The first message and the others.
LEMMA ChannelSplits == ASSUME NEW S, NEW c \in Seq(S), c # <<>> PROVE ToSet(c) = {Head(c)} \cup ToSet(Tail(c))
<1>1. 1 \in DOMAIN c /\ Head(c) = c[1]
  OBVIOUS
<1>2. \A i \in DOMAIN c : i = 1 \/ (i - 1 \in DOMAIN Tail(c) /\ Tail(c)[i - 1] = c[i])
  OBVIOUS
<1>3. ToSet(c) \subseteq {Head(c)} \cup ToSet(Tail(c))
  BY <1>1, <1>2 DEF ToSet
<1>4. Head(c) \in ToSet(c) /\ ToSet(Tail(c)) \subseteq ToSet(c)
  BY ChannelTakes
<1> QED BY <1>3, <1>4

-----------------------------------------------------------------------------
(* Service calls: ServiceRequests.                                          *)

Answers == [for : Requests, outcome : {"done", "error"}]

CallState == [phase : {"new", "waiting", "served", "refused", "timed out"}, reply : Answers \cup {NoReply}]

ServiceTypes ==
  /\ request \in [Requests -> CallState]
  /\ pending \in [Askers -> [Keys -> Requests \cup {Nobody}]]
  /\ reply \in [Requests -> Answers \cup {NoReply}]
  /\ serving \in [request : Requests, attempt : Nat \ {0}] \cup {Free}
  /\ attemptsMade \in [Requests -> Nat]

ServiceChannels == serviceIn \in Seq(Requests) /\ responses \in [Askers -> Seq(Answers)]

\* The mastermind has done with the request: it will neither wait nor be run again.
DoneWith(r) == request[r].phase # "new" /\ serving.request # r /\ r \notin ToSet(serviceIn)

\* A request comes to the mastermind once, and its runs are counted while it is served.
ComesOnce ==
  /\ Distinct(serviceIn)
  /\ \A r \in ToSet(serviceIn) : request[r].phase # "new" /\ serving.request # r /\ attemptsMade[r] = 0
  /\ \A r \in Requests : request[r].phase = "new" => serving.request # r /\ attemptsMade[r] = 0
  /\ serving # Free => /\ serving.attempt <= Budget(serving.request)
                       /\ attemptsMade[serving.request] = serving.attempt - 1

\* An answer is about a request that is done with, and says what became of it.
Truthful(answer) ==
  /\ DoneWith(answer.for)
  /\ answer.outcome = "done" => attemptsMade[answer.for] > 0
  /\ answer.outcome = "error" => attemptsMade[answer.for] \in {0, Budget(answer.for)}

AnswersTruthful ==
  /\ \A a \in Askers : \A x \in ToSet(responses[a]) : Truthful(x)
  /\ \A r \in Requests : /\ reply[r] # NoReply => Truthful(reply[r])
                         /\ request[r].reply # NoReply => Truthful(request[r].reply)

\* What a call is given, or returned with, is for its key.
AnswersFit ==
  \A r \in Requests :
    /\ reply[r] # NoReply => Key[reply[r].for] = Key[r]
    /\ request[r].phase \in {"served", "refused"} =>
          /\ request[r].reply # NoReply /\ Key[request[r].reply.for] = Key[r]
          /\ request[r].phase = "served" => request[r].reply.outcome = "done"

\* What is left under a key is a call of that executor and key that still waits.
PendingFits ==
  \A a \in Askers, k \in Keys : pending[a][k] # Nobody =>
    /\ request[pending[a][k]].phase = "waiting"
    /\ AskedBy[pending[a][k]] = a /\ Key[pending[a][k]] = k

ServiceInv ==
  /\ ServiceTypes /\ ServiceChannels /\ ComesOnce
  /\ AnswersTruthful /\ AnswersFit /\ PendingFits /\ WaitingCanBeAnswered

LEMMA ServiceFacts ==
  /\ NoReply \notin Answers /\ Free.request = Nobody /\ Nobody \notin Requests
  /\ \A x \in Answers : x.for \in Requests /\ x.outcome \in {"done", "error"}
  /\ \A r \in Requests : Budget(r) \in Nat \ {0} /\ Key[r] \in Keys /\ AskedBy[r] \in Askers
<1>1. NoReply \notin Answers /\ Free.request = Nobody /\ Nobody \notin Requests
  BY ServiceAssumption DEF NoReply, Answers, Free
<1>2. \A x \in Answers : x.for \in Requests /\ x.outcome \in {"done", "error"}
  BY DEF Answers
<1>3. \A r \in Requests : Budget(r) \in Nat \ {0} /\ Key[r] \in Keys /\ AskedBy[r] \in Askers
  BY ServiceAssumption DEF Budget, Keys
<1> QED BY <1>1, <1>2, <1>3

LEMMA ServiceStart == ServiceInit => ServiceInv
<1> SUFFICES ASSUME ServiceInit PROVE ServiceInv
  OBVIOUS
<1> USE ServiceFacts DEF ServiceInit
<1>1. ServiceTypes /\ ServiceChannels
  BY DEF ServiceTypes, ServiceChannels, CallState
<1>2. ComesOnce
  BY ChannelEmpty DEF ComesOnce
<1>3. AnswersTruthful
  BY ChannelEmpty DEF AnswersTruthful
<1>4. AnswersFit /\ PendingFits /\ WaitingCanBeAnswered
  BY DEF AnswersFit, PendingFits, WaitingCanBeAnswered
<1> QED BY <1>1, <1>2, <1>3, <1>4 DEF ServiceInv

\* What is true of an answer stays true while requests that were done with stay so,
\* with the runs they had.
LEMMA TruthStays ==
  ASSUME ServiceInv,
         \A r \in Requests : DoneWith(r) => DoneWith(r)' /\ attemptsMade'[r] = attemptsMade[r]
  PROVE  /\ \A x \in Answers : Truthful(x) => Truthful(x)'
         /\ \A a \in Askers : \A x \in ToSet(responses[a]) : x \in Answers /\ Truthful(x)'
         /\ \A r \in Requests : \A x : x \in {reply[r], request[r].reply} =>
               x = NoReply \/ (x \in Answers /\ Truthful(x)')
<1>1. \A x \in Answers : Truthful(x) => Truthful(x)'
  BY ServiceFacts DEF Truthful
<1>2. ASSUME NEW a \in Askers, NEW x \in ToSet(responses[a]) PROVE x \in Answers /\ Truthful(x)
  <2>1. responses[a] \in Seq(Answers)
    BY DEF ServiceInv, ServiceChannels
  <2> QED BY <2>1, ChannelHolds DEF ServiceInv, AnswersTruthful
<1>3. ASSUME NEW r \in Requests
      PROVE  \A x : x \in {reply[r], request[r].reply} => x = NoReply \/ (x \in Answers /\ Truthful(x))
  <2>1. reply[r] \in Answers \cup {NoReply} /\ request[r].reply \in Answers \cup {NoReply}
    BY DEF ServiceInv, ServiceTypes, CallState
  <2>2. /\ reply[r] # NoReply => Truthful(reply[r])
        /\ request[r].reply # NoReply => Truthful(request[r].reply)
    BY DEF ServiceInv, AnswersTruthful
  <2>3. ASSUME NEW x, x \in {reply[r], request[r].reply}, x # NoReply PROVE x \in Answers /\ Truthful(x)
    <3>1. CASE x = reply[r]
      BY <2>1, <2>2, <2>3, <3>1
    <3>2. CASE x = request[r].reply
      BY <2>1, <2>2, <2>3, <3>2
    <3> QED BY <2>3, <3>1, <3>2
  <2> QED BY <2>3
<1>4. ASSUME NEW a \in Askers, NEW x \in ToSet(responses[a]) PROVE x \in Answers /\ Truthful(x)'
  BY <1>1, <1>2
<1>5. ASSUME NEW r \in Requests
      PROVE  \A x : x \in {reply[r], request[r].reply} => x = NoReply \/ (x \in Answers /\ Truthful(x)')
  BY <1>1, <1>3
<1> QED BY <1>1, <1>4, <1>5

\* Moving a call on changes its phase alone.
LEMMA PhaseChanges ==
  \A s \in CallState : \A p \in {"waiting", "timed out"} :
     [s EXCEPT !.phase = p] = [phase |-> p, reply |-> s.reply]
<1>1. ASSUME NEW P, NEW R, NEW s \in [phase : P, reply : R], NEW p
      PROVE  [s EXCEPT !.phase = p] = [phase |-> p, reply |-> s.reply]
  OBVIOUS
<1>2. \A s \in CallState : s \in [phase : {"new", "waiting", "served", "refused", "timed out"},
                                  reply : Answers \cup {NoReply}]
  BY DEF CallState
<1> QED BY <1>1, <1>2

\* What is under the keys when the entry of one call changes.
LEMMA EntryChanges ==
  ASSUME pending \in [Askers -> [Keys -> Requests \cup {Nobody}]], NEW r \in Requests,
         NEW w \in Requests \cup {Nobody}, pending' = [pending EXCEPT ![AskedBy[r]][Key[r]] = w]
  PROVE  /\ pending' \in [Askers -> [Keys -> Requests \cup {Nobody}]]
         /\ pending'[AskedBy[r]][Key[r]] = w
         /\ \A b \in Askers, k \in Keys : b # AskedBy[r] \/ k # Key[r] => pending'[b][k] = pending[b][k]
<1>1. Key[r] \in Keys /\ AskedBy[r] \in Askers
  BY ServiceFacts
<1> QED BY <1>1

LEMMA CallServiceKeeps ==
  ASSUME ServiceInv, NEW r \in Requests, CallService(r) PROVE ServiceInv'
<1>1. /\ request[r].phase = "new"
      /\ UNCHANGED <<reply, serving, responses, attemptsMade>>
  BY DEF CallService
<1>2. request \in [Requests -> CallState] /\ pending \in [Askers -> [Keys -> Requests \cup {Nobody}]]
  BY DEF ServiceInv, ServiceTypes
<1>3. [request[r] EXCEPT !.phase = "waiting"] = [phase |-> "waiting", reply |-> request[r].reply]
  BY <1>2, PhaseChanges
<1>4. /\ request'[r].phase = "waiting" /\ request'[r].reply = request[r].reply
      /\ \A q \in Requests \ {r} : request'[q] = request[q]
  BY <1>2, <1>3 DEF CallService
<1>5. request' \in [Requests -> CallState]
  <2>1. [phase |-> "waiting", reply |-> request[r].reply] \in CallState
    BY <1>2 DEF CallState
  <2> QED BY <1>2, <1>3, <2>1 DEF CallService
<1>6. pending' = [pending EXCEPT ![AskedBy[r]][Key[r]] = r]
  BY DEF CallService
<1>7. /\ pending' \in [Askers -> [Keys -> Requests \cup {Nobody}]]
      /\ pending'[AskedBy[r]][Key[r]] = r
      /\ \A b \in Askers, k \in Keys : b # AskedBy[r] \/ k # Key[r] => pending'[b][k] = pending[b][k]
  BY <1>2, <1>6, EntryChanges
<1>8. r \notin ToSet(serviceIn) /\ ToSet(serviceIn) \subseteq Requests
  BY <1>1, ChannelHolds DEF ServiceInv, ComesOnce, ServiceChannels
<1>9. serviceIn' \in Seq(Requests) /\ ToSet(serviceIn') \subseteq ToSet(serviceIn) \cup {r} /\ Distinct(serviceIn')
  <2>1. serviceIn \in Seq(Requests) /\ Distinct(serviceIn)
    BY DEF ServiceInv, ComesOnce, ServiceChannels
  <2>2. serviceIn' = serviceIn \/ serviceIn' = Append(serviceIn, r)
    BY DEF CallService
  <2>3. CASE serviceIn' = Append(serviceIn, r)
    BY <1>8, <2>1, <2>3, ChannelGets
  <2> QED BY <2>1, <2>2, <2>3
<1>10. ServiceTypes' /\ ServiceChannels'
  BY <1>1, <1>5, <1>7, <1>9 DEF ServiceInv, ServiceTypes, ServiceChannels
<1>11. ComesOnce'
  BY <1>1, <1>4, <1>8, <1>9 DEF ServiceInv, ComesOnce
<1>12. \A q \in Requests : DoneWith(q) => DoneWith(q)'
  BY <1>1, <1>4, <1>9 DEF DoneWith
<1>13. AnswersTruthful'
  <2>1. \A q \in Requests : request'[q].reply = request[q].reply
    BY <1>4
  <2> QED BY <1>1, <2>1, <1>12, TruthStays DEF AnswersTruthful
<1>14. AnswersFit'
  BY <1>1, <1>4 DEF ServiceInv, AnswersFit
<1>15. PendingFits'
  <2>1. PendingFits
    BY DEF ServiceInv
  <2>2. ASSUME NEW b \in Askers, NEW k \in Keys, pending'[b][k] # Nobody
        PROVE  /\ request'[pending'[b][k]].phase = "waiting"
               /\ AskedBy[pending'[b][k]] = b /\ Key[pending'[b][k]] = k
    <3>1. CASE b = AskedBy[r] /\ k = Key[r]
      BY <1>4, <1>7, <3>1
    <3>2. CASE b # AskedBy[r] \/ k # Key[r]
      <4>1. pending'[b][k] = pending[b][k] /\ pending[b][k] \in Requests
        BY <1>2, <1>7, <2>2, <3>2
      <4>2. /\ request[pending[b][k]].phase = "waiting"
            /\ AskedBy[pending[b][k]] = b /\ Key[pending[b][k]] = k
        BY <2>1, <2>2, <4>1 DEF PendingFits
      <4> QED BY <1>1, <1>4, <4>1, <4>2
    <3> QED BY <3>1, <3>2
  <2> QED BY <2>2 DEF PendingFits
<1>16. WaitingCanBeAnswered'
  <2>1. WaitingCanBeAnswered
    BY DEF ServiceInv
  <2>2. ASSUME NEW q \in Requests, request'[q].phase = "waiting",
               \A p \in Requests \ {q} : AskedBy[p] = AskedBy[q] /\ Key[p] = Key[q] => request'[p].phase = "new"
        PROVE  pending'[AskedBy[q]][Key[q]] = q
    <3>1. CASE q = r
      BY <1>7, <3>1
    <3>2. CASE q # r
      <4>1. AskedBy[q] # AskedBy[r] \/ Key[q] # Key[r]
        BY <1>4, <2>2, <3>2
      <4>2. pending'[AskedBy[q]][Key[q]] = pending[AskedBy[q]][Key[q]]
        BY <1>7, <4>1, ServiceFacts
      <4>3. \A p \in Requests \ {q} : AskedBy[p] = AskedBy[q] /\ Key[p] = Key[q] => request[p].phase = "new"
        BY <1>1, <1>4, <2>2
      <4>4. request[q].phase = "waiting"
        BY <1>4, <2>2, <3>2
      <4> QED BY <2>1, <4>2, <4>3, <4>4 DEF WaitingCanBeAnswered
    <3> QED BY <3>1, <3>2
  <2> QED BY <2>2 DEF WaitingCanBeAnswered
<1> QED BY <1>10, <1>11, <1>13, <1>14, <1>15, <1>16 DEF ServiceInv

\* The call that ends: with an answer or without.
LEMMA CallEndKeeps ==
  ASSUME ServiceInv, NEW r \in Requests, CallReturns(r) \/ CallTimesOut(r) PROVE ServiceInv'
<1>1. /\ request[r].phase = "waiting"
      /\ UNCHANGED <<reply, serviceIn, serving, responses, attemptsMade>>
  BY DEF CallReturns, CallTimesOut
<1>2. /\ request \in [Requests -> CallState] /\ reply[r] \in Answers \cup {NoReply}
      /\ pending \in [Askers -> [Keys -> Requests \cup {Nobody}]]
  BY DEF ServiceInv, ServiceTypes
<1>3. PICK ends \in CallState :
         /\ request' = [request EXCEPT ![r] = ends]
         /\ \/ /\ ends.phase \in {"served", "refused"} /\ reply[r] # NoReply /\ ends.reply = reply[r]
               /\ ends.phase = "served" => reply[r].outcome = "done"
            \/ ends.phase = "timed out" /\ ends.reply = request[r].reply
  <2>1. CASE CallReturns(r)
    <3> DEFINE ends == [phase |-> IF reply[r].outcome = "error" THEN "refused" ELSE "served", reply |-> reply[r]]
    <3>1. reply[r] # NoReply /\ request' = [request EXCEPT ![r] = ends]
      BY <2>1 DEF CallReturns
    <3>2. reply[r].outcome \in {"done", "error"}
      BY <1>2, <3>1, ServiceFacts
    <3>3. ends \in CallState
      BY <1>2 DEF CallState
    <3>4. /\ ends.phase \in {"served", "refused"} /\ ends.reply = reply[r]
          /\ ends.phase = "served" => reply[r].outcome = "done"
      BY <3>2
    <3> HIDE DEF ends
    <3> QED BY <3>1, <3>3, <3>4
  <2>2. CASE CallTimesOut(r)
    <3> DEFINE ends == [request[r] EXCEPT !.phase = "timed out"]
    <3>1. ends = [phase |-> "timed out", reply |-> request[r].reply]
      BY <1>2, PhaseChanges
    <3>2. ends \in CallState
      BY <1>2, <3>1 DEF CallState
    <3>3. request' = [request EXCEPT ![r] = ends]
      BY <2>2 DEF CallTimesOut
    <3>4. ends.phase = "timed out" /\ ends.reply = request[r].reply
      BY <3>1
    <3> HIDE DEF ends
    <3> QED BY <3>2, <3>3, <3>4
  <2> QED BY <2>1, <2>2
<1>4. request'[r] = ends /\ \A q \in Requests \ {r} : request'[q] = request[q]
  BY <1>2, <1>3
<1>5. request' \in [Requests -> CallState]
  BY <1>2, <1>3
<1>6. pending' = [pending EXCEPT ![AskedBy[r]][Key[r]] = Nobody]
  BY DEF CallReturns, CallTimesOut, Forget
<1>7. /\ pending' \in [Askers -> [Keys -> Requests \cup {Nobody}]]
      /\ pending'[AskedBy[r]][Key[r]] = Nobody
      /\ \A b \in Askers, k \in Keys : b # AskedBy[r] \/ k # Key[r] => pending'[b][k] = pending[b][k]
  BY <1>2, <1>6, EntryChanges
<1>8. ServiceTypes' /\ ServiceChannels'
  BY <1>1, <1>5, <1>7 DEF ServiceInv, ServiceTypes, ServiceChannels
<1>9. ComesOnce'
  <2>1. ToSet(serviceIn) \subseteq Requests
    BY ChannelHolds DEF ServiceInv, ServiceChannels
  <2>2. \A q \in Requests : request'[q].phase = "new" => request[q].phase = "new"
    BY <1>3, <1>4
  <2> QED BY <1>1, <2>1, <2>2 DEF ServiceInv, ComesOnce
<1>10. \A q \in Requests : DoneWith(q) => DoneWith(q)'
  BY <1>1, <1>3, <1>4 DEF DoneWith
<1>11. AnswersTruthful'
  <2>1. \A q \in Requests : request'[q].reply \in {request[q].reply, reply[q]}
    BY <1>3, <1>4
  <2>2. /\ \A b \in Askers : \A x \in ToSet(responses[b]) : Truthful(x)'
        /\ \A q \in Requests : \A x : x \in {reply[q], request[q].reply} => x = NoReply \/ Truthful(x)'
    BY <1>1, <1>10, TruthStays
  <2> QED BY <1>1, <2>1, <2>2 DEF AnswersTruthful
<1>12. AnswersFit'
  <2>1. AnswersFit /\ reply' = reply
    BY <1>1 DEF ServiceInv
  <2>2. \/ /\ request'[r].phase \in {"served", "refused"} /\ reply[r] # NoReply
           /\ request'[r].reply = reply[r]
           /\ request'[r].phase = "served" => reply[r].outcome = "done"
        \/ request'[r].phase = "timed out" /\ request'[r].reply = request[r].reply
    BY <1>3, <1>4
  <2>3. \A q \in Requests \ {r} : request'[q] = request[q]
    BY <1>4
  <2>4. reply[r] # NoReply => Key[reply[r].for] = Key[r]
    BY <2>1 DEF AnswersFit
  <2>5. request'[r].phase \in {"served", "refused"} =>
          /\ request'[r].reply # NoReply /\ Key[request'[r].reply.for] = Key[r]
          /\ request'[r].phase = "served" => request'[r].reply.outcome = "done"
    BY <2>2, <2>4
  <2> QED BY <2>1, <2>3, <2>4, <2>5 DEF AnswersFit
<1>13. PendingFits'
  <2>1. PendingFits
    BY DEF ServiceInv
  <2>2. ASSUME NEW b \in Askers, NEW k \in Keys, pending'[b][k] # Nobody
        PROVE  /\ request'[pending'[b][k]].phase = "waiting"
               /\ AskedBy[pending'[b][k]] = b /\ Key[pending'[b][k]] = k
    <3>1. pending'[b][k] = pending[b][k] /\ (b # AskedBy[r] \/ k # Key[r])
      BY <1>7, <2>2
    <3>2. pending[b][k] \in Requests
      BY <1>2, <2>2, <3>1
    <3>3. /\ request[pending[b][k]].phase = "waiting"
          /\ AskedBy[pending[b][k]] = b /\ Key[pending[b][k]] = k
      BY <2>1, <2>2, <3>1 DEF PendingFits
    <3>4. request'[pending[b][k]] = request[pending[b][k]]
      BY <1>4, <3>1, <3>2, <3>3
    <3> QED BY <3>1, <3>3, <3>4
  <2> QED BY <2>2 DEF PendingFits
<1>14. WaitingCanBeAnswered'
  <2>1. WaitingCanBeAnswered
    BY DEF ServiceInv
  <2>2. \A q \in Requests : /\ request'[q].phase = "new" <=> request[q].phase = "new"
                            /\ request'[q].phase = "waiting" => request[q].phase = "waiting" /\ q # r
    BY <1>1, <1>3, <1>4
  <2>3. request'[r].phase # "new"
    BY <1>3, <1>4
  <2> QED BY <1>7, <2>1, <2>2, <2>3, ServiceFacts DEF WaitingCanBeAnswered
<1> QED BY <1>8, <1>9, <1>11, <1>12, <1>13, <1>14 DEF ServiceInv

LEMMA RouteResponseKeeps ==
  ASSUME ServiceInv, NEW a \in Askers, RouteResponse(a) PROVE ServiceInv'
<1>1. UNCHANGED <<request, pending, serviceIn, serving, attemptsMade>>
  BY DEF RouteResponse
<1>2. PICK answer : answer = Head(responses[a])
  OBVIOUS
<1>3. /\ answer \in Answers /\ Tail(responses[a]) \in Seq(Answers) /\ answer \in ToSet(responses[a])
      /\ ToSet(Tail(responses[a])) \subseteq ToSet(responses[a])
  <2>1. responses[a] \in Seq(Answers) /\ responses[a] # <<>>
    BY DEF ServiceInv, ServiceChannels, RouteResponse
  <2> QED BY <1>2, <2>1, ChannelTakes
<1>4. /\ responses' \in [Askers -> Seq(Answers)]
      /\ \A b \in Askers : ToSet(responses'[b]) \subseteq ToSet(responses[b])
  <2>1. responses \in [Askers -> Seq(Answers)] /\ responses' = [responses EXCEPT ![a] = Tail(responses[a])]
    BY DEF ServiceInv, ServiceChannels, RouteResponse
  <2> QED BY <1>3, <2>1
<1>5. PICK waiter : waiter = pending[a][Key[answer.for]]
  OBVIOUS
<1>6. waiter \in Requests \cup {Nobody} /\ (waiter # Nobody => Key[waiter] = Key[answer.for])
  <2>1. Key[answer.for] \in Keys
    BY <1>3, ServiceFacts
  <2>2. waiter \in Requests \cup {Nobody}
    BY <1>5, <2>1 DEF ServiceInv, ServiceTypes
  <2>3. PendingFits
    BY DEF ServiceInv
  <2> QED BY <1>5, <2>1, <2>2, <2>3 DEF PendingFits
<1>7. /\ reply' \in [Requests -> Answers \cup {NoReply}]
      /\ \A q \in Requests : reply'[q] = reply[q] \/ (q = waiter /\ waiter # Nobody /\ reply'[q] = answer)
  <2>1. reply \in [Requests -> Answers \cup {NoReply}]
    BY DEF ServiceInv, ServiceTypes
  <2>2. reply' = IF waiter # Nobody /\ reply[waiter] = NoReply
                 THEN [reply EXCEPT ![waiter] = answer] ELSE reply
    BY <1>2, <1>5 DEF RouteResponse
  <2> QED BY <1>3, <1>6, <2>1, <2>2
<1>8. ServiceTypes' /\ ServiceChannels'
  BY <1>1, <1>4, <1>7 DEF ServiceInv, ServiceTypes, ServiceChannels
<1>9. ComesOnce' /\ PendingFits' /\ WaitingCanBeAnswered'
  <2>1. ComesOnce /\ PendingFits /\ WaitingCanBeAnswered
    BY DEF ServiceInv
  <2> QED BY <1>1, <2>1 DEF ComesOnce, PendingFits, WaitingCanBeAnswered
<1>10. \A q \in Requests : DoneWith(q) => DoneWith(q)'
  BY <1>1 DEF DoneWith
<1>11. AnswersTruthful'
  <2>1. /\ \A b \in Askers : \A x \in ToSet(responses[b]) : Truthful(x)'
        /\ \A r \in Requests : \A x : x \in {reply[r], request[r].reply} => x = NoReply \/ Truthful(x)'
    BY <1>1, <1>10, TruthStays
  <2>2. Truthful(answer)'
    BY <1>3, <2>1
  <2> QED BY <1>1, <1>4, <1>7, <2>1, <2>2 DEF AnswersTruthful
<1>12. AnswersFit'
  <2>1. AnswersFit
    BY DEF ServiceInv
  <2> QED BY <1>1, <1>6, <1>7, <2>1 DEF AnswersFit
<1> QED BY <1>8, <1>9, <1>11, <1>12 DEF ServiceInv

\* A response reaches the subscriptions that have room.
LEMMA RespondAdds ==
  ASSUME responses \in [Askers -> Seq(Answers)], NEW x \in Answers, Respond(x.for, x.outcome)
  PROVE  /\ responses' \in [Askers -> Seq(Answers)]
         /\ \A a \in Askers : ToSet(responses'[a]) \subseteq ToSet(responses[a]) \cup {x}
<1>1. x = [for |-> x.for, outcome |-> x.outcome]
  BY DEF Answers
<1>2. ASSUME NEW a \in Askers
      PROVE  responses'[a] \in Seq(Answers) /\ ToSet(responses'[a]) \subseteq ToSet(responses[a]) \cup {x}
  <2>1. responses[a] \in Seq(Answers)
    OBVIOUS
  <2>2. responses'[a] = responses[a] \/ responses'[a] = Append(responses[a], x)
    BY <1>1 DEF Respond
  <2>3. CASE responses'[a] = Append(responses[a], x)
    BY <2>1, <2>3, ChannelGets
  <2> QED BY <2>1, <2>2, <2>3
<1>3. responses' = [a \in Askers |-> responses'[a]]
  BY DEF Respond
<1> QED BY <1>2, <1>3

LEMMA TakeRequestKeeps == ASSUME ServiceInv, TakeRequest PROVE ServiceInv'
<1>1. /\ serving = Free /\ serviceIn # <<>> /\ serviceIn' = Tail(serviceIn)
      /\ UNCHANGED <<request, pending, reply, attemptsMade>>
  BY DEF TakeRequest
<1>2. PICK r : r = Head(serviceIn)
  OBVIOUS
<1>3. /\ r \in Requests /\ r \in ToSet(serviceIn) /\ serviceIn' \in Seq(Requests)
      /\ ToSet(serviceIn') \subseteq ToSet(serviceIn) /\ Distinct(serviceIn') /\ r \notin ToSet(serviceIn')
      /\ ToSet(serviceIn) \subseteq Requests
  <2>1. serviceIn \in Seq(Requests) /\ Distinct(serviceIn)
    BY DEF ServiceInv, ServiceChannels, ComesOnce
  <2> QED BY <1>1, <1>2, <2>1, ChannelTakes, ChannelHolds
<1>4. request[r].phase # "new" /\ attemptsMade[r] = 0
  BY <1>3 DEF ServiceInv, ComesOnce
<1>5. responses \in [Askers -> Seq(Answers)]
  BY DEF ServiceInv, ServiceChannels
<1>6. PICK x \in Answers : x.for = r /\ x.outcome = "error"
  <2>1. [for |-> r, outcome |-> "error"] \in Answers
    BY <1>3 DEF Answers
  <2> QED BY <2>1
<1>7. \/ /\ serving' = serving
         /\ responses' \in [Askers -> Seq(Answers)]
         /\ \A a \in Askers : ToSet(responses'[a]) \subseteq ToSet(responses[a]) \cup {x}
      \/ serving' = [request |-> r, attempt |-> 1] /\ responses' = responses
  <2>1. CASE HandlerOf(Service[r]) = "unsupported"
    <3>1. Respond(x.for, x.outcome) /\ serving' = serving
      BY <1>2, <1>6, <2>1 DEF TakeRequest
    <3> QED BY <1>5, <3>1, RespondAdds
  <2>2. CASE HandlerOf(Service[r]) # "unsupported"
    BY <1>2, <2>2 DEF TakeRequest
  <2> QED BY <2>1, <2>2
<1>8. serving.request # r /\ Nobody # r
  BY <1>1, <1>3, ServiceFacts
<1>9. serving' = Free \/ (serving' = [request |-> r, attempt |-> 1] /\ serving'.request = r /\ serving'.attempt = 1)
  BY <1>1, <1>7
<1>10. ServiceTypes' /\ ServiceChannels'
  <2>1. serving' \in [request : Requests, attempt : Nat \ {0}] \cup {Free}
    BY <1>3, <1>9
  <2> QED BY <1>1, <1>3, <1>5, <1>7, <2>1 DEF ServiceInv, ServiceTypes, ServiceChannels
<1>11. ComesOnce'
  <2>1. ComesOnce
    BY DEF ServiceInv
  <2>2. Budget(r) \in Nat \ {0}
    BY <1>3, ServiceFacts
  <2>3. \A q \in Requests : q # r => serving'.request # q
    BY <1>9, ServiceFacts
  <2> QED BY <1>1, <1>3, <1>4, <1>9, <2>1, <2>2, <2>3 DEF ComesOnce
<1>12. \A q \in Requests : DoneWith(q) => DoneWith(q)'
  <2>1. \A q \in Requests : q # r => serving'.request # q
    BY <1>9, ServiceFacts
  <2> QED BY <1>1, <1>3, <2>1 DEF DoneWith
<1>13. AnswersTruthful'
  <2>1. /\ \A a \in Askers : \A z \in ToSet(responses[a]) : Truthful(z)'
        /\ \A q \in Requests : \A z : z \in {reply[q], request[q].reply} => z = NoReply \/ Truthful(z)'
    BY <1>1, <1>12, TruthStays
  <2>2. serving' = Free => Truthful(x)'
    BY <1>1, <1>3, <1>4, <1>6, ServiceFacts DEF Truthful, DoneWith
  <2>3. Free # [request |-> r, attempt |-> 1]
    BY <1>3, ServiceFacts
  <2> QED BY <1>1, <1>7, <2>1, <2>2 DEF AnswersTruthful
<1>14. AnswersFit' /\ PendingFits' /\ WaitingCanBeAnswered'
  <2>1. AnswersFit /\ PendingFits /\ WaitingCanBeAnswered
    BY DEF ServiceInv
  <2> QED BY <1>1, <2>1 DEF AnswersFit, PendingFits, WaitingCanBeAnswered
<1> QED BY <1>10, <1>11, <1>13, <1>14 DEF ServiceInv

LEMMA RunKeeps == ASSUME ServiceInv, NEW name, RunOnce(name) PROVE ServiceInv'
<1>1. serving # Free /\ UNCHANGED <<request, pending, reply, serviceIn>>
  BY DEF RunOnce
<1>2. PICK r, n : r = serving.request /\ n = serving.attempt
  OBVIOUS
<1>3. r \in Requests /\ n \in Nat \ {0} /\ serving = [request |-> r, attempt |-> n] /\ Budget(r) \in Nat \ {0}
  BY <1>1, <1>2, ServiceFacts DEF ServiceInv, ServiceTypes
<1>4. /\ n <= Budget(r) /\ attemptsMade[r] = n - 1
      /\ request[r].phase # "new" /\ r \notin ToSet(serviceIn)
  BY <1>1, <1>2, <1>3 DEF ServiceInv, ComesOnce
<1>5. /\ attemptsMade' \in [Requests -> Nat] /\ attemptsMade'[r] = n
      /\ \A q \in Requests : q # r => attemptsMade'[q] = attemptsMade[q]
  <2>1. attemptsMade \in [Requests -> Nat] /\ attemptsMade' = [attemptsMade EXCEPT ![r] = attemptsMade[r] + 1]
    BY <1>2 DEF RunOnce, ServiceInv, ServiceTypes
  <2> QED BY <1>3, <1>4, <2>1
<1>6. responses \in [Askers -> Seq(Answers)]
  BY DEF ServiceInv, ServiceChannels
<1>7. PICK x \in Answers :
         /\ x.for = r
         /\ \/ /\ serving' = [request |-> r, attempt |-> n + 1] /\ n < Budget(r)
               /\ responses' = responses
            \/ /\ serving' = Free /\ (x.outcome = "error" => n = Budget(r))
               /\ responses' \in [Askers -> Seq(Answers)]
               /\ \A a \in Askers : ToSet(responses'[a]) \subseteq ToSet(responses[a]) \cup {x}
  <2>1. PICK outcome \in {"done", "error"} :
           IF outcome = "error" /\ n < Budget(r)
           THEN serving' = [serving EXCEPT !.attempt = @ + 1] /\ responses' = responses
           ELSE serving' = Free /\ Respond(r, outcome)
    BY <1>2 DEF RunOnce
  <2>2. PICK x \in Answers : x.for = r /\ x.outcome = outcome
    <3>1. [for |-> r, outcome |-> outcome] \in Answers
      BY <1>3, <2>1 DEF Answers
    <3> QED BY <3>1
  <2>3. CASE outcome = "error" /\ n < Budget(r)
    <3>1. serving' = [request |-> r, attempt |-> n + 1] /\ responses' = responses
      BY <1>3, <2>1, <2>3
    <3> QED BY <2>2, <2>3, <3>1
  <2>4. CASE ~(outcome = "error" /\ n < Budget(r))
    <3>1. serving' = Free /\ Respond(x.for, x.outcome)
      BY <2>1, <2>2, <2>4
    <3>2. /\ responses' \in [Askers -> Seq(Answers)]
          /\ \A a \in Askers : ToSet(responses'[a]) \subseteq ToSet(responses[a]) \cup {x}
      BY <1>6, <3>1, RespondAdds
    <3>3. x.outcome = "error" => n = Budget(r)
      BY <1>3, <1>4, <2>2, <2>4
    <3> QED BY <2>2, <3>1, <3>2, <3>3
  <2> QED BY <2>3, <2>4
<1>8. \/ serving' = [request |-> r, attempt |-> n + 1] /\ serving'.request = r /\ serving'.attempt = n + 1
      \/ serving' = Free
  BY <1>7
<1>9. ServiceTypes' /\ ServiceChannels'
  <2>1. serving' \in [request : Requests, attempt : Nat \ {0}] \cup {Free}
    BY <1>3, <1>8
  <2> QED BY <1>1, <1>5, <1>6, <1>7, <2>1 DEF ServiceInv, ServiceTypes, ServiceChannels
<1>10. ToSet(serviceIn) \subseteq Requests
  BY ChannelHolds DEF ServiceInv, ServiceChannels
<1>11. \A q \in Requests : q # r => serving'.request # q
  BY <1>8, ServiceFacts
<1>12. ComesOnce'
  <2>1. ComesOnce
    BY DEF ServiceInv
  <2>2. serving' # Free => serving'.attempt <= Budget(r) /\ serving'.request = r /\ serving'.attempt = n + 1
    BY <1>3, <1>7, <1>8
  <2>3. /\ \A q \in ToSet(serviceIn) :
              request[q].phase # "new" /\ serving'.request # q /\ attemptsMade'[q] = 0
        /\ \A q \in Requests : request[q].phase = "new" => serving'.request # q /\ attemptsMade'[q] = 0
    BY <1>4, <1>5, <1>10, <1>11, <2>1 DEF ComesOnce
  <2>4. serving' # Free => attemptsMade'[serving'.request] = serving'.attempt - 1
    BY <1>3, <1>5, <2>2
  <2> QED BY <1>1, <2>1, <2>2, <2>3, <2>4 DEF ComesOnce
<1>13. \A q \in Requests : DoneWith(q) => DoneWith(q)' /\ attemptsMade'[q] = attemptsMade[q]
  BY <1>1, <1>2, <1>5, <1>11 DEF DoneWith
<1>14. AnswersTruthful'
  <2>1. /\ \A a \in Askers : \A z \in ToSet(responses[a]) : Truthful(z)'
        /\ \A q \in Requests : \A z : z \in {reply[q], request[q].reply} => z = NoReply \/ Truthful(z)'
    BY <1>13, TruthStays
  <2>2. serving' = Free /\ (x.outcome = "error" => n = Budget(r)) => Truthful(x)'
    BY <1>1, <1>3, <1>4, <1>5, <1>7, ServiceFacts DEF Truthful, DoneWith
  <2> QED BY <1>1, <1>7, <2>1, <2>2 DEF AnswersTruthful
<1>15. AnswersFit' /\ PendingFits' /\ WaitingCanBeAnswered'
  <2>1. AnswersFit /\ PendingFits /\ WaitingCanBeAnswered
    BY DEF ServiceInv
  <2> QED BY <1>1, <2>1 DEF AnswersFit, PendingFits, WaitingCanBeAnswered
<1> QED BY <1>9, <1>12, <1>14, <1>15 DEF ServiceInv

LEMMA ServiceStep == ServiceInv /\ [ServiceNext]_serviceVars => ServiceInv'
<1> SUFFICES ASSUME ServiceInv, [ServiceNext]_serviceVars PROVE ServiceInv'
  OBVIOUS
<1>1. ASSUME NEW r \in Requests, CallService(r) PROVE ServiceInv'
  BY <1>1, CallServiceKeeps
<1>2. ASSUME NEW r \in Requests, CallReturns(r) \/ CallTimesOut(r) PROVE ServiceInv'
  BY <1>2, CallEndKeeps
<1>3. ASSUME NEW a \in Askers, RouteResponse(a) PROVE ServiceInv'
  BY <1>3, RouteResponseKeeps
<1>4. CASE TakeRequest
  BY <1>4, TakeRequestKeeps
<1>5. CASE Review \/ Rewrite \/ Fallback
  BY <1>5, RunKeeps DEF Review, Rewrite, Fallback
<1>6. CASE UNCHANGED serviceVars
  BY <1>6 DEF serviceVars, ServiceInv, ServiceTypes, ServiceChannels, ComesOnce, AnswersTruthful,
              Truthful, DoneWith, AnswersFit, PendingFits, WaitingCanBeAnswered
<1> QED BY <1>1, <1>2, <1>3, <1>4, <1>5, <1>6 DEF ServiceNext

\* Responses find the calls they are for: whatever the interleaving of calls, answers
\* that come late and calls that gave up, a call that returns got an answer to a request
\* of its key that says what became of it, what is registered still waits, and a waiting
\* call stays reachable until another under its key displaced it.
THEOREM CallsFindTheirAnswers == ServiceSpec => []CallsAreMatched
<1>1. ServiceInit => ServiceInv
  BY ServiceStart
<1>2. ServiceInv /\ [ServiceNext]_serviceVars => ServiceInv'
  BY ServiceStep
<1>3. ServiceInv => CallsAreMatched
  <2> SUFFICES ASSUME ServiceInv PROVE CallsAreMatched
    OBVIOUS
  <2>1. AnswersTruthful /\ AnswersFit /\ PendingFits /\ WaitingCanBeAnswered
    BY DEF ServiceInv
  <2>2. AnswerFitsKey
    BY <2>1 DEF AnswersTruthful, AnswersFit, Truthful, AnswerFitsKey
  <2>3. PendingIsWaiting
    BY <2>1 DEF PendingFits, PendingIsWaiting
  <2> QED BY <2>1, <2>2, <2>3 DEF CallsAreMatched
<1> QED BY <1>1, <1>2, <1>3, PTL DEF ServiceSpec

-----------------------------------------------------------------------------
(* Dispatches of runner requests: TaskDispatch.                             *)

Phases   == {"new", "picked", "waiting", "returned", "gave up"}
Outcomes == {"none", "completed", "failed"}

HandlerState == [phase : {"none", "running", "reporting", "ended"}, attempt : 0 .. Attempts,
                 outcome : Outcomes]
Results      == [call : Calls, outcome : Outcomes]

\* What a call knows; who its executor is, is left open here.
IsCall(s) ==
  /\ s = [phase |-> s.phase, executor |-> s.executor, outcome |-> s.outcome]
  /\ s.phase \in Phases /\ s.outcome \in Outcomes

DispatchTypes ==
  /\ call = [c \in Calls |-> call[c]] /\ \A c \in Calls : IsCall(call[c])
  /\ handler \in [Workers \X Calls -> HandlerState]

DispatchChannels == inbox \in [Workers -> Seq(Calls)] /\ answers \in [Calls -> Seq(Results)]

\* Only the executor that was picked handles a dispatch, and only one that was published.
OnlyTheAsked ==
  \A e \in Workers, c \in Calls : handler[<<e, c>>].phase # "none" =>
    call[c].executor = e /\ call[c].phase \notin {"new", "picked"}

\* A dispatch comes to an executor once.
DeliveredOnce ==
  \A e \in Workers :
    /\ Distinct(inbox[e])
    /\ \A c \in ToSet(inbox[e]) : call[c].phase \notin {"new", "picked"} /\ handler[<<e, c>>].phase = "none"

\* The executor picked for c has handled it, with that outcome.
Handled(c, outcome) ==
  /\ call[c].executor \in Workers
  /\ handler[<<call[c].executor, c>>].phase = "ended"
  /\ handler[<<call[c].executor, c>>].outcome = outcome

ResultsAreReal == \A d \in Calls : \A x \in ToSet(answers[d]) : Handled(x.call, x.outcome)

\* A call that is over has the outcome of its handling, or found no executor, or gave up.
OutcomesAreEarned ==
  \A c \in Calls :
    /\ call[c].phase \in {"new", "picked", "waiting"} => call[c].outcome = "none"
    /\ call[c].phase = "gave up" => call[c].outcome = "failed"
    /\ call[c].phase = "returned" =>
          \/ Handled(c, call[c].outcome)
          \/ call[c].executor = Unassigned /\ call[c].outcome = "failed"

\* A task is dispatched again when every earlier dispatch of it has failed.
InTurn ==
  \A c, d \in Calls : call[c].phase # "new" /\ d[1] = c[1] /\ d[2] < c[2] => call[d].outcome = "failed"

IdleMakesNoAttempt == \A p \in Workers \X Calls : handler[p].phase = "none" => handler[p].attempt = 0

DispatchInv ==
  /\ DispatchTypes /\ DispatchChannels /\ OnlyTheAsked /\ DeliveredOnce /\ ResultsAreReal
  /\ OutcomesAreEarned /\ InTurn /\ IdleMakesNoAttempt

LEMMA CallIdentity == \A c \in Calls : c = <<c[1], c[2]>> /\ c[1] \in Jobs /\ c[2] \in 1 .. Tries
  BY DEF Calls

LEMMA CallNumber == \A c \in Calls : c[2] \in Nat /\ ~(c[2] < c[2])
  BY CallIdentity

\* A call that moves on keeps what the step does not name.
LEMMA RecordMoves ==
  ASSUME NEW s, IsCall(s), NEW p
  PROVE  [s EXCEPT !.phase = p] = [phase |-> p, executor |-> s.executor, outcome |-> s.outcome]
<1>1. PICK x, y, z : s = [phase |-> x, executor |-> y, outcome |-> z]
  BY DEF IsCall
<1>2. [[phase |-> x, executor |-> y, outcome |-> z] EXCEPT !.phase = p] = [phase |-> p, executor |-> y, outcome |-> z]
  OBVIOUS
<1>3. s.executor = y /\ s.outcome = z
  BY <1>1
<1> QED BY <1>1, <1>2, <1>3, Zenon

\* A call that ends keeps its executor.
LEMMA RecordEnds ==
  ASSUME NEW s, IsCall(s), NEW p, NEW o
  PROVE  [[s EXCEPT !.phase = p] EXCEPT !.outcome = o] = [phase |-> p, executor |-> s.executor, outcome |-> o]
<1>1. PICK y, z : y = s.executor /\ z = s.outcome
  OBVIOUS
<1>2. [s EXCEPT !.phase = p] = [phase |-> p, executor |-> y, outcome |-> z]
  BY <1>1, RecordMoves
<1>3. [[phase |-> p, executor |-> y, outcome |-> z] EXCEPT !.outcome = o] = [phase |-> p, executor |-> y, outcome |-> o]
  OBVIOUS
<1> QED BY <1>1, <1>2, <1>3, Zenon

LEMMA DispatchStart == DispatchInit => DispatchInv
<1> SUFFICES ASSUME DispatchInit PROVE DispatchInv
  OBVIOUS
<1>1. /\ \A c \in Calls : call[c] = [phase |-> "new", executor |-> Unassigned, outcome |-> "none"]
      /\ call = [c \in Calls |-> call[c]]
  BY DEF DispatchInit, FreshCall
<1>2. /\ \A p \in Workers \X Calls : handler[p] = [phase |-> "none", attempt |-> 0, outcome |-> "none"]
      /\ handler \in [Workers \X Calls -> HandlerState]
  BY DispatchAssumption DEF DispatchInit, FreshHandler, HandlerState, Outcomes
<1>3. \A e \in Workers : inbox[e] = <<>>
  BY DEF DispatchInit
<1>4. \A c \in Calls : answers[c] = <<>>
  BY DEF DispatchInit
<1>5. DispatchTypes /\ DispatchChannels
  <2>1. IsCall([phase |-> "new", executor |-> Unassigned, outcome |-> "none"])
    BY DEF IsCall, Phases, Outcomes
  <2>2. inbox \in [Workers -> Seq(Calls)] /\ answers \in [Calls -> Seq(Results)]
    BY DEF DispatchInit
  <2> QED BY <1>1, <1>2, <2>1, <2>2 DEF DispatchTypes, DispatchChannels
<1>6. /\ \A p \in Workers \X Calls : handler[p].phase = "none" /\ handler[p].attempt = 0
      /\ \A e \in Workers, c \in Calls : <<e, c>> \in Workers \X Calls
      /\ \A c \in Calls : call[c].phase = "new" /\ call[c].outcome = "none"
  BY <1>1, <1>2
<1>7. OnlyTheAsked /\ OutcomesAreEarned /\ InTurn /\ IdleMakesNoAttempt
  <2>1. OnlyTheAsked /\ IdleMakesNoAttempt
    BY <1>6 DEF OnlyTheAsked, IdleMakesNoAttempt
  <2>2. OutcomesAreEarned /\ InTurn
    BY <1>6 DEF OutcomesAreEarned, InTurn
  <2> QED BY <2>1, <2>2
<1>8. DeliveredOnce /\ ResultsAreReal
  BY <1>3, <1>4, ChannelEmpty DEF DeliveredOnce, ResultsAreReal
<1> QED BY <1>5, <1>7, <1>8 DEF DispatchInv

\* What was handled stays so, and the results that are on their way stay real.
LEMMA HandledStays ==
  ASSUME DispatchInv,
         \A c \in Calls : call[c].phase # "new" => call'[c].executor = call[c].executor,
         \A p \in Workers \X Calls : handler[p].phase = "ended" => handler'[p] = handler[p]
  PROVE  /\ \A c \in Calls : \A o : Handled(c, o) => Handled(c, o)'
         /\ \A d \in Calls : \A x \in ToSet(answers[d]) : x \in Results /\ Handled(x.call, x.outcome)'
<1>1. ASSUME NEW c \in Calls, NEW o, Handled(c, o) PROVE Handled(c, o)'
  <2>1. call[c].executor \in Workers /\ handler[<<call[c].executor, c>>].phase = "ended"
    BY <1>1 DEF Handled
  <2>2. call'[c].executor = call[c].executor
    BY <2>1 DEF DispatchInv, OnlyTheAsked
  <2>3. handler'[<<call[c].executor, c>>] = handler[<<call[c].executor, c>>]
    BY <2>1
  <2> QED BY <1>1, <2>2, <2>3 DEF Handled
<1>2. ASSUME NEW d \in Calls, NEW x \in ToSet(answers[d]) PROVE x \in Results /\ Handled(x.call, x.outcome)'
  <2>1. answers[d] \in Seq(Results)
    BY DEF DispatchInv, DispatchChannels
  <2>2. x \in Results
    BY <2>1, ChannelHolds
  <2>3. x.call \in Calls
    BY <2>2 DEF Results
  <2>4. Handled(x.call, x.outcome)
    BY DEF DispatchInv, ResultsAreReal
  <2> QED BY <1>1, <2>2, <2>3, <2>4
<1> QED BY <1>1, <1>2

\* A call moves on: new ones when it is their turn, to outcomes they have earned.
LEMMA CallMoves ==
  ASSUME DispatchInv, NEW c \in Calls, NEW s, IsCall(s),
         call' = [call EXCEPT ![c] = s], handler' = handler,
         call[c].phase \in {"new", "picked", "waiting"}, s.phase # "new",
         call[c].phase = "new" \/ (s.phase # "picked" /\ s.executor = call[c].executor),
         s.phase \in {"picked", "waiting"} => s.outcome = "none",
         s.phase = "gave up" => s.outcome = "failed",
         s.phase = "returned" => \/ call[c].phase # "new" /\ Handled(c, s.outcome)
                                 \/ s.executor = Unassigned /\ s.outcome = "failed",
         call[c].phase = "new" => \A d \in Calls : d[1] = c[1] /\ d[2] < c[2] => call[d].outcome = "failed"
  PROVE  /\ DispatchTypes' /\ OnlyTheAsked' /\ OutcomesAreEarned' /\ InTurn' /\ IdleMakesNoAttempt'
         /\ \A d \in Calls : call[d].phase \notin {"new", "picked"} => call'[d].phase \notin {"new", "picked"}
         /\ \A d \in Calls : \A x \in ToSet(answers[d]) : x \in Results /\ Handled(x.call, x.outcome)'
<1>1. call'[c] = s /\ \A d \in Calls \ {c} : call'[d] = call[d]
  BY DEF DispatchInv, DispatchTypes
<1>2. DispatchTypes'
  BY <1>1 DEF DispatchInv, DispatchTypes
<1>3. \A d \in Calls : call[d].phase # "new" => call'[d].executor = call[d].executor
  BY <1>1
<1>4. /\ \A d \in Calls : \A o : Handled(d, o) => Handled(d, o)'
      /\ \A d \in Calls : \A x \in ToSet(answers[d]) : x \in Results /\ Handled(x.call, x.outcome)'
  BY <1>3, HandledStays
<1>5. \A d \in Calls : call[d].phase \notin {"new", "picked"} => call'[d].phase \notin {"new", "picked"}
  BY <1>1
<1>6. OnlyTheAsked'
  <2>1. OnlyTheAsked
    BY DEF DispatchInv
  <2>2. ASSUME NEW f \in Workers, NEW d \in Calls, handler[<<f, d>>].phase # "none"
        PROVE  call'[d].executor = f /\ call'[d].phase \notin {"new", "picked"}
    <3>1. call[d].executor = f /\ call[d].phase \notin {"new", "picked"}
      BY <2>1, <2>2 DEF OnlyTheAsked
    <3> QED BY <1>3, <1>5, <3>1
  <2> QED BY <2>2 DEF OnlyTheAsked
<1>7. OutcomesAreEarned'
  <2>1. ASSUME NEW d \in Calls
        PROVE  /\ call'[d].phase \in {"new", "picked", "waiting"} => call'[d].outcome = "none"
               /\ call'[d].phase = "gave up" => call'[d].outcome = "failed"
    BY <1>1 DEF DispatchInv, OutcomesAreEarned
  <2>2. ASSUME NEW d \in Calls, call'[d].phase = "returned"
        PROVE  Handled(d, call[d].outcome)' \/ (call'[d].executor = Unassigned /\ call'[d].outcome = "failed")
    <3>1. PICK o : o = call'[d].outcome
      OBVIOUS
    <3>2. Handled(d, o) \/ (call'[d].executor = Unassigned /\ o = "failed")
      BY <1>1, <2>2, <3>1 DEF DispatchInv, OutcomesAreEarned
    <3>3. Handled(d, o)' \/ (call'[d].executor = Unassigned /\ o = "failed")
      BY <1>4, <3>2
    <3> QED BY <3>1, <3>3 DEF Handled
  <2> QED BY <2>1, <2>2 DEF OutcomesAreEarned
<1>8. InTurn'
  <2> SUFFICES ASSUME NEW b \in Calls, NEW d \in Calls, call'[b].phase # "new", d[1] = b[1], d[2] < b[2]
               PROVE  call'[d].outcome = "failed"
    BY DEF InTurn
  <2>1. d # b
    BY CallNumber, Zenon
  <2>2. call[d].outcome = "failed"
    <3>1. CASE call[b].phase # "new"
      BY <3>1 DEF DispatchInv, InTurn
    <3>2. CASE call[b].phase = "new"
      BY <1>1, <3>2
    <3> QED BY <3>1, <3>2
  <2>3. d # c
    BY <2>2 DEF DispatchInv, OutcomesAreEarned
  <2> QED BY <1>1, <2>2, <2>3
<1>9. IdleMakesNoAttempt'
  BY DEF DispatchInv, IdleMakesNoAttempt
<1> QED BY <1>2, <1>4, <1>5, <1>6, <1>7, <1>8, <1>9

\* The goroutine that handles a dispatch moves on; it begins for a dispatch its executor
\* was asked for.
HandlerStep(e, c, s) ==
  /\ handler' = [handler EXCEPT ![<<e, c>>] = s] /\ call' = call
  /\ handler[<<e, c>>].phase # "ended" /\ s.phase # "none"
  /\ call[c].executor = e /\ call[c].phase \notin {"new", "picked"}

LEMMA HandlerMoves ==
  ASSUME DispatchInv, NEW e \in Workers, NEW c \in Calls, NEW s \in HandlerState, HandlerStep(e, c, s)
  PROVE  /\ DispatchTypes' /\ OnlyTheAsked' /\ OutcomesAreEarned' /\ InTurn' /\ IdleMakesNoAttempt'
         /\ handler'[<<e, c>>] = s
         /\ \A p \in Workers \X Calls : p # <<e, c>> => handler'[p] = handler[p]
         /\ \A d \in Calls : \A x \in ToSet(answers[d]) : x \in Results /\ Handled(x.call, x.outcome)'
<1> USE DEF HandlerStep
<1>1. <<e, c>> \in Workers \X Calls /\ handler \in [Workers \X Calls -> HandlerState]
  BY DEF DispatchInv, DispatchTypes
<1>2. handler'[<<e, c>>] = s /\ \A p \in Workers \X Calls : p # <<e, c>> => handler'[p] = handler[p]
  BY <1>1
<1>3. handler' \in [Workers \X Calls -> HandlerState]
  BY <1>1
<1>4. DispatchTypes'
  BY <1>3 DEF DispatchInv, DispatchTypes
<1>5. /\ \A d \in Calls : \A o : Handled(d, o) => Handled(d, o)'
      /\ \A d \in Calls : \A x \in ToSet(answers[d]) : x \in Results /\ Handled(x.call, x.outcome)'
  <2>1. \A p \in Workers \X Calls : handler[p].phase = "ended" => handler'[p] = handler[p]
    BY <1>2
  <2> QED BY <2>1, HandledStays
<1>6. OnlyTheAsked'
  <2> SUFFICES ASSUME NEW f \in Workers, NEW d \in Calls, handler'[<<f, d>>].phase # "none"
               PROVE  call[d].executor = f /\ call[d].phase \notin {"new", "picked"}
    BY DEF OnlyTheAsked
  <2>1. CASE <<f, d>> = <<e, c>>
    BY <2>1
  <2>2. CASE <<f, d>> # <<e, c>>
    <3>1. handler'[<<f, d>>] = handler[<<f, d>>]
      BY <1>2, <2>2
    <3> QED BY <3>1 DEF DispatchInv, OnlyTheAsked
  <2> QED BY <2>1, <2>2
<1>7. OutcomesAreEarned'
  <2> SUFFICES ASSUME NEW d \in Calls
               PROVE  /\ call[d].phase \in {"new", "picked", "waiting"} => call[d].outcome = "none"
                      /\ call[d].phase = "gave up" => call[d].outcome = "failed"
                      /\ call[d].phase = "returned" =>
                            \/ Handled(d, call[d].outcome)'
                            \/ call[d].executor = Unassigned /\ call[d].outcome = "failed"
    BY DEF OutcomesAreEarned
  <2>1. PICK o : o = call[d].outcome
    OBVIOUS
  <2>2. Handled(d, o) => Handled(d, o)'
    BY <1>5
  <2>3. Handled(d, call[d].outcome)' <=> Handled(d, o)'
    BY <2>1 DEF Handled
  <2> QED BY <2>1, <2>2, <2>3 DEF DispatchInv, OutcomesAreEarned
<1>8. InTurn'
  BY DEF DispatchInv, InTurn
<1>9. IdleMakesNoAttempt'
  BY <1>2 DEF DispatchInv, IdleMakesNoAttempt
<1> QED BY <1>2, <1>4, <1>5, <1>6, <1>7, <1>8, <1>9

\* Nothing but the dispatch itself is changed by what goes on around it.
LEMMA DispatchFrame ==
  ASSUME DispatchInv, call' = call, handler' = handler, answers' = answers,
         inbox' \in [Workers -> Seq(Calls)],
         \A e \in Workers : Distinct(inbox'[e]) /\ ToSet(inbox'[e]) \subseteq ToSet(inbox[e])
  PROVE  DispatchInv'
<1>1. DispatchTypes' /\ DispatchChannels' /\ OnlyTheAsked' /\ InTurn' /\ IdleMakesNoAttempt'
  BY DEF DispatchInv, DispatchTypes, DispatchChannels, OnlyTheAsked, InTurn, IdleMakesNoAttempt
<1>2. OutcomesAreEarned'
  BY DEF DispatchInv, OutcomesAreEarned, Handled
<1>3. ResultsAreReal'
  BY DEF DispatchInv, ResultsAreReal, Handled
<1>4. DeliveredOnce'
  BY DEF DispatchInv, DeliveredOnce
<1> QED BY <1>1, <1>2, <1>3, <1>4 DEF DispatchInv

LEMMA PickKeeps == ASSUME DispatchInv, NEW c \in Calls, PickExecutor(c) PROVE DispatchInv'
<1>1. /\ call[c].phase = "new" /\ (c[2] > 1 => call[<<c[1], c[2] - 1>>].outcome = "failed")
      /\ UNCHANGED <<inbox, handler, answers>>
  BY DEF PickExecutor, Due
<1>2. PICK s : /\ IsCall(s) /\ call' = [call EXCEPT ![c] = s]
               /\ \/ s.phase = "picked" /\ s.outcome = "none"
                  \/ s.phase = "returned" /\ s.executor = Unassigned /\ s.outcome = "failed"
  <2> DEFINE none == [FreshCall EXCEPT !.phase = "returned", !.outcome = "failed"]
             some(e) == [FreshCall EXCEPT !.phase = "picked", !.executor = e]
  <2>1. IsCall(FreshCall) /\ FreshCall.executor = Unassigned
    BY DEF IsCall, FreshCall, Phases, Outcomes
  <2>2. none = [phase |-> "returned", executor |-> Unassigned, outcome |-> "failed"]
    <3>1. none = [[FreshCall EXCEPT !.phase = "returned"] EXCEPT !.outcome = "failed"]
      BY Zenon
    <3>2. [[FreshCall EXCEPT !.phase = "returned"] EXCEPT !.outcome = "failed"]
             = [phase |-> "returned", executor |-> FreshCall.executor, outcome |-> "failed"]
      BY <2>1, RecordEnds, Zenon
    <3> QED BY <2>1, <3>1, <3>2, Zenon
  <2>3. ASSUME NEW e PROVE some(e) = [phase |-> "picked", executor |-> e, outcome |-> "none"]
    <3>1. [FreshCall EXCEPT !.phase = "picked"] = [phase |-> "picked", executor |-> Unassigned, outcome |-> "none"]
      BY <2>1, RecordMoves DEF FreshCall
    <3>2. [[phase |-> "picked", executor |-> Unassigned, outcome |-> "none"] EXCEPT !.executor = e]
             = [phase |-> "picked", executor |-> e, outcome |-> "none"]
      OBVIOUS
    <3>3. some(e) = [[FreshCall EXCEPT !.phase = "picked"] EXCEPT !.executor = e]
      BY Zenon
    <3> QED BY <3>1, <3>2, <3>3, Zenon
  <2>4. PICK i : call' = [call EXCEPT ![c] = IF i = 0 THEN none ELSE some(adverts[i].id)]
    BY DEF PickExecutor
  <2> HIDE DEF none, some
  <2>5. CASE i = 0
    <3>1. IsCall(none) /\ none.phase = "returned" /\ none.executor = Unassigned /\ none.outcome = "failed"
      BY <2>2 DEF IsCall, Phases, Outcomes
    <3>2. call' = [call EXCEPT ![c] = none]
      BY <2>4, <2>5
    <3> QED BY <3>1, <3>2
  <2>6. CASE i # 0
    <3>1. PICK z : z = some(adverts[i].id)
      OBVIOUS
    <3>2. IsCall(z) /\ z.phase = "picked" /\ z.outcome = "none"
      BY <2>3, <3>1 DEF IsCall, Phases, Outcomes
    <3>3. call' = [call EXCEPT ![c] = z]
      BY <2>4, <2>6, <3>1
    <3> QED BY <3>2, <3>3
  <2> QED BY <2>5, <2>6
<1>3. ASSUME NEW d \in Calls, d[1] = c[1], d[2] < c[2] PROVE call[d].outcome = "failed"
  <2> DEFINE b == <<c[1], c[2] - 1>>
  <2>1. c[2] \in Nat /\ d[2] \in Nat /\ d[2] >= 1 /\ c[2] <= Tries /\ c[1] \in Jobs /\ d = <<d[1], d[2]>>
    BY CallIdentity, CallNumber
  <2>2. b \in Calls /\ b[1] = c[1] /\ b[2] = c[2] - 1 /\ c[2] > 1
    BY <1>3, <2>1, DispatchAssumption DEF Calls
  <2>3. call[b].outcome = "failed"
    BY <1>1, <2>2
  <2>4. call[b].phase # "new"
    BY <2>2, <2>3 DEF DispatchInv, OutcomesAreEarned
  <2>5. d[2] < b[2] \/ d[2] = b[2]
    BY <1>3, <2>1, <2>2
  <2>6. CASE d[2] < b[2]
    BY <1>3, <2>2, <2>4, <2>6 DEF DispatchInv, InTurn
  <2>7. CASE d[2] = b[2]
    BY <1>3, <2>1, <2>2, <2>3, <2>7
  <2> QED BY <2>5, <2>6, <2>7
<1>4. /\ DispatchTypes' /\ OnlyTheAsked' /\ OutcomesAreEarned' /\ InTurn' /\ IdleMakesNoAttempt'
      /\ \A d \in Calls : call[d].phase \notin {"new", "picked"} => call'[d].phase \notin {"new", "picked"}
      /\ \A d \in Calls : \A x \in ToSet(answers[d]) : x \in Results /\ Handled(x.call, x.outcome)'
  BY <1>1, <1>2, <1>3, CallMoves
<1>5. DispatchChannels' /\ ResultsAreReal'
  BY <1>1, <1>4 DEF DispatchInv, DispatchChannels, ResultsAreReal
<1>6. DeliveredOnce'
  <2>1. \A e \in Workers : ToSet(inbox[e]) \subseteq Calls
    BY ChannelHolds DEF DispatchInv, DispatchChannels
  <2> QED BY <1>1, <1>4, <2>1 DEF DispatchInv, DeliveredOnce
<1> QED BY <1>4, <1>5, <1>6 DEF DispatchInv

LEMMA PublishKeeps == ASSUME DispatchInv, NEW c \in Calls, PublishDispatch(c) PROVE DispatchInv'
<1>1. call[c].phase = "picked" /\ UNCHANGED <<handler, answers>>
  BY DEF PublishDispatch
<1>2. IsCall(call[c])
  BY DEF DispatchInv, DispatchTypes
<1>3. PICK s : /\ s = [phase |-> "waiting", executor |-> call[c].executor, outcome |-> call[c].outcome]
               /\ call' = [call EXCEPT ![c] = s]
  <2>1. call' = [call EXCEPT ![c] = [call[c] EXCEPT !.phase = "waiting"]]
    BY DEF PublishDispatch
  <2>2. [call[c] EXCEPT !.phase = "waiting"] = [phase |-> "waiting", executor |-> call[c].executor,
                                                outcome |-> call[c].outcome]
    BY <1>2, RecordMoves
  <2> QED BY <2>1, <2>2, Zenon
<1>4. /\ IsCall(s) /\ s.phase = "waiting" /\ s.executor = call[c].executor /\ s.outcome = "none"
  BY <1>1, <1>2, <1>3 DEF IsCall, Phases, DispatchInv, OutcomesAreEarned
<1>5. /\ DispatchTypes' /\ OnlyTheAsked' /\ OutcomesAreEarned' /\ InTurn' /\ IdleMakesNoAttempt'
      /\ \A d \in Calls : call[d].phase \notin {"new", "picked"} => call'[d].phase \notin {"new", "picked"}
      /\ \A d \in Calls : \A x \in ToSet(answers[d]) : x \in Results /\ Handled(x.call, x.outcome)'
  BY <1>1, <1>3, <1>4, CallMoves
<1>6. ASSUME NEW e \in Workers
      PROVE  /\ inbox'[e] \in Seq(Calls) /\ Distinct(inbox'[e])
             /\ \A d \in ToSet(inbox'[e]) : call'[d].phase \notin {"new", "picked"} /\ handler[<<e, d>>].phase = "none"
  <2>1. inbox[e] \in Seq(Calls) /\ ToSet(inbox[e]) \subseteq Calls /\ Distinct(inbox[e])
    BY ChannelHolds DEF DispatchInv, DispatchChannels, DeliveredOnce
  <2>2. c \notin ToSet(inbox[e]) /\ handler[<<e, c>>].phase = "none"
    BY <1>1 DEF DispatchInv, DeliveredOnce, OnlyTheAsked
  <2>3. inbox'[e] = inbox[e] \/ inbox'[e] = Append(inbox[e], c)
    BY DEF PublishDispatch
  <2>4. inbox'[e] \in Seq(Calls) /\ Distinct(inbox'[e]) /\ ToSet(inbox'[e]) \subseteq ToSet(inbox[e]) \cup {c}
    <3>1. CASE inbox'[e] = Append(inbox[e], c)
      BY <2>1, <2>2, <3>1, ChannelGets
    <3> QED BY <2>1, <2>3, <3>1
  <2>5. call'[c].phase = "waiting"
    BY <1>3, <1>4 DEF DispatchInv, DispatchTypes
  <2>6. \A d \in ToSet(inbox[e]) : call'[d].phase \notin {"new", "picked"} /\ handler[<<e, d>>].phase = "none"
    BY <1>5, <2>1 DEF DispatchInv, DeliveredOnce
  <2> QED BY <2>2, <2>4, <2>5, <2>6
<1>7. DispatchChannels'
  <2>1. inbox' = [e \in Workers |-> inbox'[e]]
    BY DEF PublishDispatch
  <2> QED BY <1>1, <1>6, <2>1 DEF DispatchInv, DispatchChannels
<1>8. ResultsAreReal' /\ DeliveredOnce'
  BY <1>1, <1>5, <1>6 DEF ResultsAreReal, DeliveredOnce
<1> QED BY <1>5, <1>7, <1>8 DEF DispatchInv

\* A call that waits ends, with the answer that is its own or with none.
LEMMA WaitEndKeeps ==
  ASSUME DispatchInv, NEW c \in Calls, NEW s, IsCall(s),
         call[c].phase = "picked" \/ call[c].phase = "waiting",
         call' = [call EXCEPT ![c] = s], UNCHANGED <<handler, inbox>>,
         s.executor = call[c].executor,
         \/ s.phase = "gave up" /\ s.outcome = "failed"
         \/ s.phase = "returned" /\ Handled(c, s.outcome),
         answers' = [answers EXCEPT ![c] = <<>>]
  PROVE  DispatchInv'
<1>1. /\ DispatchTypes' /\ OnlyTheAsked' /\ OutcomesAreEarned' /\ InTurn' /\ IdleMakesNoAttempt'
      /\ \A d \in Calls : call[d].phase \notin {"new", "picked"} => call'[d].phase \notin {"new", "picked"}
      /\ \A d \in Calls : \A x \in ToSet(answers[d]) : x \in Results /\ Handled(x.call, x.outcome)'
  BY CallMoves
<1>2. answers \in [Calls -> Seq(Results)] /\ inbox \in [Workers -> Seq(Calls)]
  BY DEF DispatchInv, DispatchChannels
<1>3. DispatchChannels'
  <2>1. <<>> \in Seq(Results)
    BY ChannelEmpty
  <2>2. answers' \in [Calls -> Seq(Results)]
    BY <1>2, <2>1
  <2> QED BY <1>2, <2>2 DEF DispatchChannels
<1>4. \A d \in Calls : ToSet(answers'[d]) \subseteq ToSet(answers[d])
  <2>1. answers'[c] = <<>> /\ \A d \in Calls : d # c => answers'[d] = answers[d]
    BY <1>2
  <2> QED BY <2>1, ChannelEmpty
<1>5. ResultsAreReal'
  BY <1>1, <1>4 DEF ResultsAreReal
<1>6. DeliveredOnce'
  <2>1. \A e \in Workers : ToSet(inbox[e]) \subseteq Calls
    BY <1>2, ChannelHolds
  <2> QED BY <1>1, <2>1 DEF DispatchInv, DeliveredOnce
<1> QED BY <1>1, <1>3, <1>5, <1>6 DEF DispatchInv

LEMMA GiveUpKeeps == ASSUME DispatchInv, NEW c \in Calls, GiveUp(c) PROVE DispatchInv'
<1>1. IsCall(call[c]) /\ call = [d \in Calls |-> call[d]]
  BY DEF DispatchInv, DispatchTypes
<1>2. PICK s : s = [phase |-> "gave up", executor |-> call[c].executor, outcome |-> "failed"]
  OBVIOUS
<1>3. IsCall(s) /\ s.phase = "gave up" /\ s.outcome = "failed" /\ s.executor = call[c].executor
  BY <1>2 DEF IsCall, Phases, Outcomes
<1>4. call' = [call EXCEPT ![c] = s]
  <2>1. call' = [call EXCEPT ![c] = [[call[c] EXCEPT !.phase = "gave up"] EXCEPT !.outcome = "failed"]]
    BY <1>1 DEF GiveUp
  <2>2. [[call[c] EXCEPT !.phase = "gave up"] EXCEPT !.outcome = "failed"]
           = [phase |-> "gave up", executor |-> call[c].executor, outcome |-> "failed"]
    BY <1>1, RecordEnds, Zenon
  <2> QED BY <1>2, <2>1, <2>2, Zenon
<1>5. /\ call[c].phase = "picked" \/ call[c].phase = "waiting"
      /\ UNCHANGED <<handler, inbox>>
      /\ answers' = [answers EXCEPT ![c] = <<>>]
  BY DEF GiveUp
<1> QED BY <1>3, <1>4, <1>5, WaitEndKeeps

LEMMA ReadAnswerKeeps == ASSUME DispatchInv, NEW c \in Calls, ReadAnswer(c) PROVE DispatchInv'
<1>1. call[c].phase = "waiting" /\ answers[c] # <<>> /\ UNCHANGED <<handler, inbox>>
  BY DEF ReadAnswer
<1>2. PICK x : x = Head(answers[c])
  OBVIOUS
<1>3. answers[c] \in Seq(Results) /\ answers \in [Calls -> Seq(Results)]
  BY DEF DispatchInv, DispatchChannels
<1>4. /\ x \in Results /\ x \in ToSet(answers[c]) /\ Tail(answers[c]) \in Seq(Results)
      /\ ToSet(Tail(answers[c])) \subseteq ToSet(answers[c])
  BY <1>1, <1>2, <1>3, ChannelTakes
<1>5. CASE x.call = c
  <2>1. IsCall(call[c]) /\ call = [d \in Calls |-> call[d]]
    BY DEF DispatchInv, DispatchTypes
  <2>2. PICK o, s : o = x.outcome /\ s = [phase |-> "returned", executor |-> call[c].executor, outcome |-> o]
    OBVIOUS
  <2>3. o \in Outcomes
    BY <1>4, <2>2 DEF Results
  <2>4. IsCall(s) /\ s.phase = "returned" /\ s.outcome = x.outcome /\ s.executor = call[c].executor
    BY <2>2, <2>3 DEF IsCall, Phases
  <2>5. call' = [call EXCEPT ![c] = s]
    <3>1. call' = [call EXCEPT ![c] = [[call[c] EXCEPT !.phase = "returned"] EXCEPT !.outcome = o]]
      BY <1>2, <1>5, <2>1, <2>2 DEF ReadAnswer
    <3>2. [[call[c] EXCEPT !.phase = "returned"] EXCEPT !.outcome = o]
             = [phase |-> "returned", executor |-> call[c].executor, outcome |-> o]
      BY <2>1, RecordEnds, Zenon
    <3> QED BY <2>2, <3>1, <3>2, Zenon
  <2>6. answers' = [answers EXCEPT ![c] = <<>>]
    BY <1>2, <1>5 DEF ReadAnswer
  <2>7. Handled(c, s.outcome)
    BY <1>4, <1>5, <2>4 DEF DispatchInv, ResultsAreReal
  <2> QED BY <1>1, <2>4, <2>5, <2>6, <2>7, WaitEndKeeps
<1>6. CASE x.call # c
  <2>1. answers' = [answers EXCEPT ![c] = Tail(answers[c])] /\ call' = call
    BY <1>2, <1>6 DEF ReadAnswer
  <2>2. answers' \in [Calls -> Seq(Results)] /\ \A d \in Calls : ToSet(answers'[d]) \subseteq ToSet(answers[d])
    BY <1>3, <1>4, <2>1
  <2>3. DispatchTypes' /\ DispatchChannels' /\ OnlyTheAsked' /\ InTurn' /\ IdleMakesNoAttempt'
    BY <1>1, <2>1, <2>2 DEF DispatchInv, DispatchTypes, DispatchChannels, OnlyTheAsked, InTurn, IdleMakesNoAttempt
  <2>4. OutcomesAreEarned'
    BY <1>1, <2>1 DEF DispatchInv, OutcomesAreEarned, Handled
  <2>5. DeliveredOnce'
    BY <1>1, <2>1 DEF DispatchInv, DeliveredOnce
  <2>6. \A d \in Calls : \A z \in ToSet(answers[d]) : Handled(z.call, z.outcome)'
    BY <1>1, <2>1, HandledStays
  <2>7. ResultsAreReal'
    BY <2>2, <2>6 DEF ResultsAreReal
  <2> QED BY <2>3, <2>4, <2>5, <2>7 DEF DispatchInv
<1> QED BY <1>5, <1>6

LEMMA ReceiveKeeps == ASSUME DispatchInv, NEW e \in Workers, ReceiveDispatch(e) PROVE DispatchInv'
<1>1. inbox[e] # <<>> /\ inbox' = [inbox EXCEPT ![e] = Tail(inbox[e])] /\ UNCHANGED <<call, answers>>
  BY DEF ReceiveDispatch
<1>2. PICK c : c = Head(inbox[e])
  OBVIOUS
<1>3. inbox \in [Workers -> Seq(Calls)] /\ inbox[e] \in Seq(Calls) /\ Distinct(inbox[e])
  BY DEF DispatchInv, DispatchChannels, DeliveredOnce
<1>4. /\ c \in Calls /\ c \in ToSet(inbox[e]) /\ Tail(inbox[e]) \in Seq(Calls)
      /\ ToSet(Tail(inbox[e])) \subseteq ToSet(inbox[e]) /\ Distinct(Tail(inbox[e])) /\ c \notin ToSet(Tail(inbox[e]))
  BY <1>1, <1>2, <1>3, ChannelTakes
<1>5. /\ inbox' \in [Workers -> Seq(Calls)] /\ inbox'[e] = Tail(inbox[e])
      /\ \A f \in Workers : f # e => inbox'[f] = inbox[f]
  BY <1>1, <1>3, <1>4
<1>6. \A f \in Workers : Distinct(inbox'[f]) /\ ToSet(inbox'[f]) \subseteq ToSet(inbox[f])
  BY <1>4, <1>5 DEF DispatchInv, DeliveredOnce
<1>7. CASE ~IsForMe(e, c)
  <2>1. handler' = handler
    BY <1>2, <1>7 DEF ReceiveDispatch
  <2> QED BY <1>1, <1>5, <1>6, <2>1, DispatchFrame
<1>8. CASE IsForMe(e, c)
  <2>1. call[c].executor = e /\ call[c].phase \notin {"new", "picked"} /\ handler[<<e, c>>].phase = "none"
    BY <1>4, <1>8 DEF IsForMe, DispatchInv, DeliveredOnce
  <2>2. PICK s \in HandlerState : handler' = [handler EXCEPT ![<<e, c>>] = s] /\ s.phase # "none"
    BY <1>2, <1>8, DispatchAssumption DEF ReceiveDispatch, Resolutions, HandlerState, Outcomes
  <2>3. HandlerStep(e, c, s)
    BY <1>1, <2>1, <2>2 DEF HandlerStep
  <2>4. /\ DispatchTypes' /\ OnlyTheAsked' /\ OutcomesAreEarned' /\ InTurn' /\ IdleMakesNoAttempt'
        /\ \A p \in Workers \X Calls : p # <<e, c>> => handler'[p] = handler[p]
        /\ \A d \in Calls : \A x \in ToSet(answers[d]) : x \in Results /\ Handled(x.call, x.outcome)'
    <3>1. \A b \in Calls : HandlerStep(e, b, s) =>
             /\ DispatchTypes' /\ OnlyTheAsked' /\ OutcomesAreEarned' /\ InTurn' /\ IdleMakesNoAttempt'
             /\ \A p \in Workers \X Calls : p # <<e, b>> => handler'[p] = handler[p]
             /\ \A d \in Calls : \A x \in ToSet(answers[d]) : x \in Results /\ Handled(x.call, x.outcome)'
      BY <2>2, HandlerMoves
    <3> QED BY <1>4, <2>3, <3>1, Zenon
  <2>5. DispatchChannels' /\ ResultsAreReal'
    BY <1>1, <1>5, <2>4 DEF DispatchInv, DispatchChannels, ResultsAreReal
  <2>6. ASSUME NEW f \in Workers, NEW d \in ToSet(inbox'[f])
        PROVE  call[d].phase \notin {"new", "picked"} /\ handler'[<<f, d>>].phase = "none"
    <3>1. d \in ToSet(inbox[f]) /\ d \in Calls
      BY <1>3, <1>6, ChannelHolds
    <3>2. call[d].phase \notin {"new", "picked"} /\ handler[<<f, d>>].phase = "none"
      BY <3>1 DEF DispatchInv, DeliveredOnce
    <3>3. <<f, d>> # <<e, c>>
      BY <1>4, <1>5
    <3>4. handler'[<<f, d>>] = handler[<<f, d>>]
      BY <2>4, <3>1, <3>3
    <3> QED BY <3>2, <3>4
  <2>7. DeliveredOnce'
    BY <1>1, <1>6, <2>6 DEF DeliveredOnce
  <2> QED BY <2>4, <2>5, <2>7 DEF DispatchInv
<1> QED BY <1>7, <1>8

LEMMA FinishKeeps ==
  ASSUME DispatchInv, NEW e \in Workers, NEW c \in Calls, FinishAttempt(e, c) PROVE DispatchInv'
<1>0. PICK h : h = handler[<<e, c>>]
  OBVIOUS
<1>1. h \in HandlerState /\ h.phase = "running" /\ UNCHANGED <<call, answers, inbox>>
  BY <1>0 DEF FinishAttempt, DispatchInv, DispatchTypes
<1>2. PICK s \in HandlerState : handler' = [handler EXCEPT ![<<e, c>>] = s] /\ s.phase # "none"
  <2>1. PICK o \in {"completed", "failed"} :
           handler' = [handler EXCEPT ![<<e, c>>] =
              IF o = "failed" /\ h.attempt < Attempts /\ life[e] # "stopped"
              THEN [h EXCEPT !.attempt = h.attempt + 1]
              ELSE [h EXCEPT !.phase = "reporting", !.outcome = o]]
    <3>1. handler \in [Workers \X Calls -> HandlerState] /\ <<e, c>> \in Workers \X Calls
      BY DEF DispatchInv, DispatchTypes
    <3> QED BY <1>0, <3>1, Zenon DEF FinishAttempt
  <2>2. h = [phase |-> h.phase, attempt |-> h.attempt, outcome |-> h.outcome]
    BY <1>1 DEF HandlerState
  <2>3. CASE o = "failed" /\ h.attempt < Attempts /\ life[e] # "stopped"
    <3>1. PICK s : s = [h EXCEPT !.attempt = h.attempt + 1]
      OBVIOUS
    <3>2. s = [phase |-> h.phase, attempt |-> h.attempt + 1, outcome |-> h.outcome]
      BY <1>1, <3>1 DEF HandlerState
    <3>3. s \in HandlerState /\ s.phase # "none"
      BY <1>1, <2>3, <3>2, DispatchAssumption DEF HandlerState
    <3>4. handler' = [handler EXCEPT ![<<e, c>>] = s]
      BY <2>1, <2>3, <3>1
    <3> QED BY <3>3, <3>4
  <2>4. CASE ~(o = "failed" /\ h.attempt < Attempts /\ life[e] # "stopped")
    <3>1. PICK s : s = [h EXCEPT !.phase = "reporting", !.outcome = o]
      OBVIOUS
    <3>2. s = [phase |-> "reporting", attempt |-> h.attempt, outcome |-> o]
      BY <1>1, <3>1 DEF HandlerState
    <3>3. s \in HandlerState /\ s.phase # "none"
      BY <1>1, <3>2 DEF HandlerState, Outcomes
    <3>4. handler' = [handler EXCEPT ![<<e, c>>] = s]
      BY <2>1, <2>4, <3>1
    <3> QED BY <3>3, <3>4
  <2> QED BY <2>3, <2>4
<1>3. HandlerStep(e, c, s)
  BY <1>0, <1>1, <1>2 DEF DispatchInv, OnlyTheAsked, HandlerStep
<1>4. /\ DispatchTypes' /\ OnlyTheAsked' /\ OutcomesAreEarned' /\ InTurn' /\ IdleMakesNoAttempt'
      /\ \A p \in Workers \X Calls : p # <<e, c>> => handler'[p] = handler[p]
      /\ \A d \in Calls : \A x \in ToSet(answers[d]) : x \in Results /\ Handled(x.call, x.outcome)'
  BY <1>2, <1>3, HandlerMoves
<1>5. DispatchChannels' /\ ResultsAreReal'
  BY <1>1, <1>4 DEF DispatchInv, DispatchChannels, ResultsAreReal
<1>6. DeliveredOnce'
  <2> SUFFICES ASSUME NEW f \in Workers, NEW d \in ToSet(inbox[f])
               PROVE  call[d].phase \notin {"new", "picked"} /\ handler'[<<f, d>>].phase = "none"
    BY <1>1 DEF DispatchInv, DeliveredOnce
  <2>1. d \in Calls
    BY ChannelHolds DEF DispatchInv, DispatchChannels
  <2>2. call[d].phase \notin {"new", "picked"} /\ handler[<<f, d>>].phase = "none"
    BY DEF DispatchInv, DeliveredOnce
  <2>3. <<f, d>> # <<e, c>>
    BY <1>0, <1>1, <2>2
  <2> QED BY <1>4, <2>1, <2>2, <2>3
<1> QED BY <1>4, <1>5, <1>6 DEF DispatchInv

LEMMA PublishResultKeeps ==
  ASSUME DispatchInv, NEW e \in Workers, NEW c \in Calls, PublishResult(e, c) PROVE DispatchInv'
<1>1. PICK h : h = handler[<<e, c>>]
  OBVIOUS
<1>2. h \in HandlerState /\ h.phase = "reporting" /\ UNCHANGED <<call, inbox>>
  BY <1>1 DEF PublishResult, DispatchInv, DispatchTypes
<1>3. PICK s : s = [h EXCEPT !.phase = "ended"]
  OBVIOUS
<1>4. s = [phase |-> "ended", attempt |-> h.attempt, outcome |-> h.outcome]
  BY <1>2, <1>3 DEF HandlerState
<1>5. s \in HandlerState /\ s.phase = "ended" /\ s.outcome = h.outcome /\ h.outcome \in Outcomes
  BY <1>2, <1>4 DEF HandlerState
<1>6. handler' = [handler EXCEPT ![<<e, c>>] = s]
  BY <1>1, <1>3 DEF PublishResult
<1>7. call[c].executor = e /\ call[c].phase \notin {"new", "picked"} /\ handler[<<e, c>>].phase # "ended"
  BY <1>1, <1>2 DEF DispatchInv, OnlyTheAsked
<1>8. /\ DispatchTypes' /\ OnlyTheAsked' /\ OutcomesAreEarned' /\ InTurn' /\ IdleMakesNoAttempt'
      /\ handler'[<<e, c>>] = s
      /\ \A p \in Workers \X Calls : p # <<e, c>> => handler'[p] = handler[p]
      /\ \A d \in Calls : \A x \in ToSet(answers[d]) : x \in Results /\ Handled(x.call, x.outcome)'
  <2>1. HandlerStep(e, c, s)
    BY <1>2, <1>5, <1>6, <1>7 DEF HandlerStep
  <2> QED BY <1>5, <2>1, HandlerMoves
<1>9. PICK r : r = [call |-> c, outcome |-> h.outcome]
  OBVIOUS
<1>10. r \in Results /\ r.call = c /\ r.outcome = h.outcome
  BY <1>5, <1>9 DEF Results
<1>11. Handled(r.call, r.outcome)'
  BY <1>2, <1>5, <1>7, <1>8, <1>10 DEF Handled
<1>12. ASSUME NEW d \in Calls
       PROVE  answers'[d] \in Seq(Results) /\ ToSet(answers'[d]) \subseteq ToSet(answers[d]) \cup {r}
  <2>1. answers[d] \in Seq(Results)
    BY DEF DispatchInv, DispatchChannels
  <2>2. answers'[d] = answers[d] \/ answers'[d] = Append(answers[d], r)
    BY <1>1, <1>9 DEF PublishResult
  <2>3. CASE answers'[d] = Append(answers[d], r)
    BY <1>10, <2>1, <2>3, ChannelGets
  <2> QED BY <2>1, <2>2, <2>3
<1>13. DispatchChannels'
  <2>1. answers' = [d \in Calls |-> answers'[d]]
    BY DEF PublishResult
  <2> QED BY <1>2, <1>12, <2>1 DEF DispatchInv, DispatchChannels
<1>14. ResultsAreReal'
  BY <1>8, <1>11, <1>12 DEF ResultsAreReal
<1>15. DeliveredOnce'
  <2> SUFFICES ASSUME NEW f \in Workers, NEW d \in ToSet(inbox[f])
               PROVE  call[d].phase \notin {"new", "picked"} /\ handler'[<<f, d>>].phase = "none"
    BY <1>2 DEF DispatchInv, DeliveredOnce
  <2>1. d \in Calls
    BY ChannelHolds DEF DispatchInv, DispatchChannels
  <2>2. call[d].phase \notin {"new", "picked"} /\ handler[<<f, d>>].phase = "none"
    BY DEF DispatchInv, DeliveredOnce
  <2>3. <<f, d>> # <<e, c>>
    BY <1>1, <1>2, <2>2
  <2> QED BY <1>8, <2>1, <2>2, <2>3
<1> QED BY <1>8, <1>13, <1>14, <1>15 DEF DispatchInv

LEMMA DispatchStep == DispatchInv /\ [DispatchNext]_dispatchVars => DispatchInv'
<1> SUFFICES ASSUME DispatchInv, [DispatchNext]_dispatchVars PROVE DispatchInv'
  OBVIOUS
<1>0. /\ inbox \in [Workers -> Seq(Calls)]
      /\ \A e \in Workers : Distinct(inbox[e])
  BY DEF DispatchInv, DispatchChannels, DeliveredOnce
<1>1. ASSUME NEW e \in Workers,
             \/ Announce(e) \/ Listen(e) \/ Beat(e) \/ ForgetExecutor(e)
             \/ \E kind \in {"register", "heartbeat", "offline"} : HandleNotice(kind, e)
      PROVE  DispatchInv'
  <2>1. UNCHANGED <<call, inbox, handler, answers>>
    BY <1>1 DEF Announce, Listen, Beat, ForgetExecutor, HandleNotice
  <2> QED BY <1>0, <2>1, DispatchFrame
<1>2. ASSUME NEW e \in Workers, Shutdown(e) PROVE DispatchInv'
  <2>1. UNCHANGED <<call, handler, answers>> /\ inbox' = [inbox EXCEPT ![e] = <<>>]
    BY <1>2 DEF Shutdown
  <2>2. <<>> \in Seq(Calls) /\ ToSet(<<>>) = {} /\ Distinct(<<>>)
    BY ChannelEmpty
  <2>3. /\ inbox' \in [Workers -> Seq(Calls)]
        /\ \A f \in Workers : inbox'[f] = inbox[f] \/ inbox'[f] = <<>>
    BY <1>0, <2>1, <2>2
  <2>4. \A f \in Workers : Distinct(inbox'[f]) /\ ToSet(inbox'[f]) \subseteq ToSet(inbox[f])
    BY <1>0, <2>2, <2>3
  <2> QED BY <2>1, <2>3, <2>4, DispatchFrame
<1>3. ASSUME NEW e \in Workers, ReceiveDispatch(e) PROVE DispatchInv'
  BY <1>3, ReceiveKeeps
<1>4. ASSUME NEW e \in Workers, NEW c \in Calls, FinishAttempt(e, c) \/ PublishResult(e, c) PROVE DispatchInv'
  BY <1>4, FinishKeeps, PublishResultKeeps
<1>5. ASSUME NEW c \in Calls, PickExecutor(c) \/ PublishDispatch(c) PROVE DispatchInv'
  BY <1>5, PickKeeps, PublishKeeps
<1>6. ASSUME NEW c \in Calls, ReadAnswer(c) \/ GiveUp(c) PROVE DispatchInv'
  BY <1>6, ReadAnswerKeeps, GiveUpKeeps
<1>7. CASE UNCHANGED dispatchVars
  <2>1. UNCHANGED <<call, inbox, handler, answers>>
    BY <1>7 DEF dispatchVars
  <2> QED BY <1>0, <2>1, DispatchFrame
<1> QED BY <1>1, <1>2, <1>3, <1>4, <1>5, <1>6, <1>7 DEF DispatchNext

\* The executor of a dispatch is one, so the attempts at a task are at most those of its
\* dispatches.
LEMMA AttemptsFit == ASSUME DispatchInv, NEW j \in Jobs PROVE Cardinality(AttemptsAt(j)) <= Tries * Attempts
<1> DEFINE Room == (1 .. Tries) \X (1 .. Attempts)
           TurnOf(a) == <<a[1][2][2], a[2]>>
           f == [a \in AttemptsAt(j) |-> TurnOf(a)]
<1>1. ASSUME NEW a \in AttemptsAt(j)
      PROVE  \E e \in Workers, c \in Calls, k \in 1 .. Attempts :
                a = <<<<e, c>>, k>> /\ c[1] = j /\ call[c].executor = e
  <2>1. PICK p \in Workers \X {c \in Calls : c[1] = j} : a \in {<<p, k>> : k \in 1 .. handler[p].attempt}
    BY DEF AttemptsAt
  <2>2. PICK k \in 1 .. handler[p].attempt : a = <<p, k>>
    BY <2>1
  <2>3. PICK e \in Workers, c \in Calls : p = <<e, c>> /\ c[1] = j
    BY <2>1
  <2>4. handler[p] \in HandlerState
    BY <2>3 DEF DispatchInv, DispatchTypes
  <2>5. handler[p].attempt \in 0 .. Attempts
    BY <2>4 DEF HandlerState
  <2>6. k \in 1 .. Attempts /\ handler[p].attempt # 0
    BY <2>5, DispatchAssumption
  <2>7. call[c].executor = e
    BY <2>3, <2>6 DEF DispatchInv, OnlyTheAsked, IdleMakesNoAttempt
  <2> QED BY <2>2, <2>3, <2>6, <2>7
<1>2. f \in [AttemptsAt(j) -> Room]
  <2> SUFFICES ASSUME NEW a \in AttemptsAt(j) PROVE TurnOf(a) \in Room
    OBVIOUS
  <2>1. PICK e \in Workers, c \in Calls, k \in 1 .. Attempts : a = <<<<e, c>>, k>>
    BY <1>1
  <2>2. TurnOf(a) = <<c[2], k>> /\ c[2] \in 1 .. Tries
    BY <2>1, CallIdentity
  <2> QED BY <2>2
<1>3. ASSUME NEW a \in AttemptsAt(j), NEW b \in AttemptsAt(j), f[a] = f[b] PROVE a = b
  <2>1. PICK e \in Workers, c \in Calls, k \in 1 .. Attempts :
           a = <<<<e, c>>, k>> /\ c[1] = j /\ call[c].executor = e
    BY <1>1
  <2>2. PICK g \in Workers, d \in Calls, l \in 1 .. Attempts :
           b = <<<<g, d>>, l>> /\ d[1] = j /\ call[d].executor = g
    BY <1>1
  <2>3. TurnOf(a) = <<c[2], k>> /\ TurnOf(b) = <<d[2], l>>
    BY <2>1, <2>2
  <2>4. c[2] = d[2] /\ k = l
    BY <1>3, <2>3
  <2>5. c = d
    BY <2>1, <2>2, <2>4, CallIdentity
  <2> QED BY <2>1, <2>2, <2>4, <2>5
<1>4. IsFiniteSet(Room) /\ Cardinality(Room) = Tries * Attempts
  <2>1. /\ IsFiniteSet(1 .. Tries) /\ Cardinality(1 .. Tries) = Tries
        /\ IsFiniteSet(1 .. Attempts) /\ Cardinality(1 .. Attempts) = Attempts
    BY FS_Interval, DispatchAssumption
  <2>2. IsFiniteSet(Room) /\ Cardinality(Room) = Cardinality(1 .. Tries) * Cardinality(1 .. Attempts)
    BY <2>1, FS_Product, Zenon
  <2> QED BY <2>1, <2>2, Zenon
<1>5. f \in Injection(AttemptsAt(j), Room)
  <2> HIDE DEF f, Room
  <2> QED BY <1>2, <1>3 DEF Injection, IsInjective
<1> QED BY <1>4, <1>5, FS_Injection
\* An answer is the request's own, executors overlap on a task only behind a caller that gave
\* up, and a task causes no more attempts than its budgets allow: for every number of
\* executors, tasks, tries and attempts, whatever is lost, shut down or forgotten
\* (DispatchTask, Pick and handleDispatch).
THEOREM DispatchesAreSound == DispatchSpec => []DispatchIsSound
<1>1. DispatchInit => DispatchInv
  BY DispatchStart
<1>2. DispatchInv /\ [DispatchNext]_dispatchVars => DispatchInv'
  BY DispatchStep
<1>3. DispatchInv => DispatchIsSound
  <2> SUFFICES ASSUME DispatchInv PROVE DispatchIsSound
    OBVIOUS
  <2>1. AnswerIsOwn
    <3> SUFFICES ASSUME NEW c \in Calls, call[c].outcome = "completed"
                 PROVE  /\ handler[<<call[c].executor, c>>].phase = "ended"
                        /\ handler[<<call[c].executor, c>>].outcome = "completed"
      BY DEF AnswerIsOwn
    <3>1. IsCall(call[c])
      BY DEF DispatchInv, DispatchTypes
    <3>2. call[c].phase = "returned"
      BY <3>1 DEF IsCall, Phases, DispatchInv, OutcomesAreEarned
    <3>3. Handled(c, call[c].outcome)
      BY <3>2 DEF DispatchInv, OutcomesAreEarned
    <3> QED BY <3>3 DEF Handled
  <2>2. OverlapOnlyAfterGivingUp
    <3> SUFFICES ASSUME NEW j \in Jobs, NEW m \in 1 .. Tries, NEW n \in 1 .. Tries,
                        NEW d \in Workers, NEW e \in Workers,
                        Active(d, <<j, m>>), Active(e, <<j, n>>), <<d, m>> # <<e, n>>, m <= n
                 PROVE  m < n /\ call[<<j, m>>].phase = "gave up"
      BY DEF OverlapOnlyAfterGivingUp
    <3>1. PICK b, c : b = <<j, m>> /\ c = <<j, n>>
      OBVIOUS
    <3>2. b \in Calls /\ c \in Calls /\ b[1] = j /\ c[1] = j /\ b[2] = m /\ c[2] = n
      BY <3>1 DEF Calls
    <3>3. /\ handler[<<d, b>>].phase \in {"running", "reporting"}
          /\ handler[<<e, c>>].phase \in {"running", "reporting"}
      BY <3>1 DEF Active
    <3>4. /\ call[b].executor = d /\ call[b].phase \notin {"new", "picked"}
          /\ call[c].executor = e /\ call[c].phase \notin {"new", "picked"}
      BY <3>2, <3>3 DEF DispatchInv, OnlyTheAsked
    <3>5. m < n
      <4>1. m # n
        BY <3>1, <3>4
      <4> QED BY <4>1
    <3>6. call[b].outcome = "failed"
      BY <3>2, <3>4, <3>5 DEF DispatchInv, InTurn
    <3>7. call[b].phase # "returned"
      BY <3>2, <3>3, <3>4, DispatchAssumption DEF DispatchInv, OutcomesAreEarned, Handled
    <3>8. call[b].phase = "gave up"
      <4>1. IsCall(call[b])
        BY <3>2 DEF DispatchInv, DispatchTypes
      <4> QED BY <3>2, <3>4, <3>6, <3>7, <4>1 DEF IsCall, Phases, DispatchInv, OutcomesAreEarned
    <3> QED BY <3>1, <3>5, <3>8
  <2>3. WorkIsBounded
    BY AttemptsFit DEF WorkIsBounded
  <2> QED BY <2>1, <2>2, <2>3 DEF DispatchIsSound
<1> QED BY <1>1, <1>2, <1>3, PTL DEF DispatchSpec

-----------------------------------------------------------------------------
(* Status commands: StatusUpdate.                                           *)

Basis  == [version : Nat, store : Stores \cup {"any"}, by : Commands \cup {NoCommand}]
Reply  == [result : {"ok", "error"}, versions : [Stores -> Nat]]
AckMsg == [command : Commands, result : {"ok", "error"}, versions : [Stores -> Nat]]
Plan   == [command : Commands \cup {NoCommand}, todo : Seq(Stores), base : [Stores -> Nat]]

StatusTypes ==
  /\ sent \in [Commands -> Nat] /\ basis \in [Commands -> Basis] /\ known \subseteq Basis
  /\ handling \in Plan /\ (handling.command = NoCommand => handling = NotHandling)
  /\ version \in [Stores -> Nat] /\ holder = [b \in Stores |-> holder[b]]
  /\ remembered \in [Commands -> Reply \cup {NoAnswer}]
  /\ heard \in [Commands -> SUBSET {"ok", "error"}]
  /\ wrote \in [Commands \X Stores -> Nat] /\ restarts \in Nat

StatusChannels == commandsIn \in Seq(Commands) /\ acks \in Seq(AckMsg) /\ rejects \in Seq(Commands)

SentFirst == \A c \in ToSet(commandsIn) : sent[c] > 0

\* The command that is being written was acceptable when it was received, and the backends
\* it still has to write are as they were then.
PlanHolds ==
  \A c \in Commands : handling.command = c =>
    /\ remembered[c] = NoAnswer /\ sent[c] > 0
    /\ Distinct(handling.todo) /\ ToSet(Targets[c]) \subseteq Stores
    /\ \A b \in ToSet(Targets[c]) : b \in ToSet(handling.todo) \/ (wrote[<<c, b>>] > 0 /\ holder[b] = c)
    /\ \A b \in ToSet(handling.todo) :
          handling.base[b] = version[b] /\ (basis[c].version > 0 => version[b] = basis[c].version)

Done(c) == \A b \in ToSet(Targets[c]) : b \in Stores /\ wrote[<<c, b>>] > 0

OkIsDone ==
  /\ \A c \in Commands : remembered[c].result = "ok" \/ "ok" \in heard[c] => Done(c)
  /\ \A a \in ToSet(acks) : a.result = "ok" => Done(a.command)

\* A command without an answer has not been written in this life of the mastermind, but
\* for what the plan under way has done.
WritesCounted ==
  /\ WrittenOnce
  /\ \A c \in Commands, b \in Stores :
        remembered[c] = NoAnswer /\ (handling.command # c \/ b \in ToSet(handling.todo))
          => wrote[<<c, b>>] <= restarts

\* In the first life of the mastermind every answer is the one it remembers.
AnswersAsRemembered == restarts = 0 =>
  /\ \A c \in Commands : \A x \in heard[c] : x = remembered[c].result
  /\ \A a \in ToSet(acks) : a.result = remembered[a.command].result
  /\ \A c \in ToSet(rejects) : remembered[c].result = "error"

\* The version v of b, while it is the current one, stands for the status that c wrote.
Stands(v, b, c) == v <= version[b] /\ (v = version[b] /\ b \notin broken.stores => holder[b] = c)

Told(k) == k.store \in Stores => k.version > 0 /\ Stands(k.version, k.store, k.by)

VersionsTold == restarts = 0 =>
  /\ \A a \in ToSet(acks) : \A b \in Stores : a.versions[b] > 0 => Stands(a.versions[b], b, a.command)
  /\ \A c \in Commands, b \in Stores :
        remembered[c].versions[b] > 0 => Stands(remembered[c].versions[b], b, c)
  /\ \A k \in known : Told(k)
  /\ \A c \in Commands : Told(basis[c])

StatusInv ==
  /\ StatusTypes /\ StatusChannels /\ SentFirst /\ PlanHolds /\ OkIsDone
  /\ WritesCounted /\ RejectedIsHarmless /\ AnswersAsRemembered /\ VersionsTold

\* Writes are counted up, and a version that stays keeps its status.
Onward ==
  /\ \A c \in Commands, b \in Stores : wrote[<<c, b>>] <= wrote'[<<c, b>>]
  /\ \A b \in Stores : /\ version[b] <= version'[b]
                       /\ version'[b] = version[b] =>
                             /\ holder'[b] = holder[b] \/ b \in broken'.stores
                             /\ b \in broken.stores => b \in broken'.stores

LEMMA OnwardKeeps ==
  ASSUME StatusTypes, StatusTypes', Onward
  PROVE  /\ \A c \in Commands : Done(c) => Done(c)'
         /\ \A v \in Nat, b \in Stores : \A c : Stands(v, b, c) => Stands(v, b, c)'
         /\ \A k \in Basis : Told(k) => Told(k)'
<1>1. /\ \A c \in Commands, b \in Stores : <<c, b>> \in Commands \X Stores
      /\ \A q \in Commands \X Stores : wrote[q] \in Nat /\ wrote'[q] \in Nat
      /\ \A b \in Stores : version[b] \in Nat /\ version'[b] \in Nat
  BY DEF StatusTypes
<1>2. ASSUME NEW c \in Commands, Done(c) PROVE Done(c)'
  <2> SUFFICES ASSUME NEW b \in ToSet(Targets[c]) PROVE b \in Stores /\ wrote'[<<c, b>>] > 0
    BY DEF Done
  <2>1. b \in Stores /\ wrote[<<c, b>>] > 0
    BY <1>2 DEF Done
  <2>2. wrote[<<c, b>>] <= wrote'[<<c, b>>]
    BY <2>1 DEF Onward
  <2> QED BY <1>1, <2>1, <2>2
<1>3. ASSUME NEW v \in Nat, NEW b \in Stores, NEW c, Stands(v, b, c) PROVE Stands(v, b, c)'
  <2>1. v <= version[b] /\ version[b] <= version'[b]
    BY <1>3 DEF Stands, Onward
  <2>2. ASSUME v = version'[b], b \notin broken'.stores PROVE holder'[b] = c
    <3>1. version[b] = v
      BY <1>1, <2>1, <2>2
    <3>2. holder'[b] = holder[b] /\ b \notin broken.stores
      BY <2>2, <3>1 DEF Onward
    <3> QED BY <1>3, <3>1, <3>2 DEF Stands
  <2> QED BY <1>1, <2>1, <2>2 DEF Stands
<1>4. ASSUME NEW k \in Basis, Told(k) PROVE Told(k)'
  BY <1>3, <1>4 DEF Told, Basis
<1> QED BY <1>2, <1>3, <1>4

LEMMA StatusStart == StatusInit => StatusInv
<1> SUFFICES ASSUME StatusInit PROVE StatusInv
  OBVIOUS
<1>1. /\ \A c \in Commands : /\ sent[c] = 0 /\ basis[c] = Unexpected /\ remembered[c] = NoAnswer /\ heard[c] = {}
      /\ handling = NotHandling /\ known = {Unexpected} /\ restarts = 0
      /\ commandsIn = <<>> /\ acks = <<>> /\ rejects = <<>>
      /\ \A q \in Commands \X Stores : wrote[q] = 0
  BY DEF StatusInit
<1>2. Unexpected \in Basis /\ Unexpected.store \notin Stores
  BY StatusAssumption DEF Unexpected, Basis
<1>3. NoAnswer.result = "nothing" /\ \A b \in Stores : NoAnswer.versions[b] = 0
  BY DEF NoAnswer, NoVersions
<1>4. NotHandling \in Plan /\ NotHandling.command = NoCommand /\ NoCommand \notin Commands
  <2>1. <<>> \in Seq(Stores)
    BY ChannelEmpty
  <2> QED BY <2>1, StatusAssumption DEF NotHandling, Plan, NoCommand
<1>5. StatusTypes
  BY <1>1, <1>2, <1>4 DEF StatusInit, StatusTypes
<1>6. StatusChannels /\ SentFirst
  BY <1>1, ChannelEmpty DEF StatusChannels, SentFirst
<1>7. PlanHolds
  BY <1>1, <1>4 DEF PlanHolds
<1>8. OkIsDone
  BY <1>1, <1>3, ChannelEmpty DEF OkIsDone
<1>9. WritesCounted /\ RejectedIsHarmless
  <2>1. \A c \in Commands, b \in Stores : wrote[<<c, b>>] = 0
    BY <1>1
  <2> QED BY <1>1, <2>1 DEF WritesCounted, WrittenOnce, RejectedIsHarmless
<1>10. AnswersAsRemembered
  BY <1>1, ChannelEmpty DEF AnswersAsRemembered
<1>11. VersionsTold
  BY <1>1, <1>2, <1>3, ChannelEmpty DEF VersionsTold, Told
<1> QED BY <1>5, <1>6, <1>7, <1>8, <1>9, <1>10, <1>11 DEF StatusInv

\* What the client does changes nothing at the mastermind.
ClientOnly == UNCHANGED <<handling, holder, version, remembered, wrote, broken, restarts>>

LEMMA SendKeeps == ASSUME StatusInv, NEW c \in Commands, PublishCommand(c) PROVE StatusInv'
<1>1. ClientOnly /\ UNCHANGED <<acks, rejects, heard, known>>
  BY DEF PublishCommand, ClientOnly
<1>2. sent' = [sent EXCEPT ![c] = sent[c] + 1]
  BY DEF PublishCommand
<1>3. sent \in [Commands -> Nat] /\ basis \in [Commands -> Basis] /\ known \subseteq Basis
  BY DEF StatusInv, StatusTypes
<1>4. /\ sent' \in [Commands -> Nat] /\ sent'[c] > 0
      /\ \A d \in Commands : sent[d] > 0 => sent'[d] > 0
  BY <1>2, <1>3
<1>5. basis' = basis \/ (sent[c] = 0 /\ \E k \in known : basis' = [basis EXCEPT ![c] = k])
  BY <1>3 DEF PublishCommand
<1>6. /\ basis' \in [Commands -> Basis]
      /\ \A d \in Commands : basis'[d] = basis[d] \/ (d = c /\ sent[c] = 0 /\ basis'[d] \in known)
  BY <1>3, <1>5
<1>7. commandsIn' = commandsIn \/ commandsIn' = Append(commandsIn, c)
  BY DEF PublishCommand
<1>8. commandsIn' \in Seq(Commands) /\ ToSet(commandsIn') \subseteq ToSet(commandsIn) \cup {c}
  <2>1. commandsIn \in Seq(Commands)
    BY DEF StatusInv, StatusChannels
  <2>2. CASE commandsIn' = Append(commandsIn, c)
    BY <2>1, <2>2, ChannelGets
  <2> QED BY <1>7, <2>1, <2>2
<1>9. StatusTypes' /\ StatusChannels'
  <2>1. StatusTypes'
    BY <1>1, <1>3, <1>4, <1>6 DEF StatusInv, StatusTypes, ClientOnly
  <2>2. StatusChannels'
    BY <1>1, <1>8 DEF StatusInv, StatusChannels
  <2> QED BY <2>1, <2>2
<1>10. SentFirst'
  <2>1. SentFirst /\ ToSet(commandsIn) \subseteq Commands
    BY ChannelHolds DEF StatusInv, StatusChannels
  <2> QED BY <1>4, <1>8, <2>1 DEF SentFirst
<1>11. PlanHolds'
  <2>1. PlanHolds
    BY DEF StatusInv
  <2>2. ASSUME NEW d \in Commands, handling.command = d PROVE sent'[d] > 0 /\ basis'[d] = basis[d]
    <3>1. sent[d] > 0
      BY <2>1, <2>2 DEF PlanHolds
    <3> QED BY <1>4, <1>6, <3>1
  <2> QED BY <1>1, <2>1, <2>2 DEF PlanHolds, ClientOnly
<1>12. OkIsDone'
  BY <1>1 DEF StatusInv, OkIsDone, Done, ClientOnly
<1>13. WritesCounted' /\ RejectedIsHarmless'
  BY <1>1 DEF StatusInv, WritesCounted, WrittenOnce, RejectedIsHarmless, ClientOnly
<1>14. AnswersAsRemembered'
  BY <1>1 DEF StatusInv, AnswersAsRemembered, ClientOnly
<1>15. VersionsTold'
  <2> SUFFICES ASSUME restarts = 0 PROVE VersionsTold'
    BY <1>1 DEF VersionsTold, ClientOnly
  <2>1. /\ \A a \in ToSet(acks) : \A b \in Stores : a.versions[b] > 0 => Stands(a.versions[b], b, a.command)
        /\ \A d \in Commands, b \in Stores :
              remembered[d].versions[b] > 0 => Stands(remembered[d].versions[b], b, d)
        /\ \A k \in known : Told(k)
        /\ \A d \in Commands : Told(basis[d])
    BY DEF StatusInv, VersionsTold
  <2>2. /\ \A v, b, d : Stands(v, b, d)' <=> Stands(v, b, d)
        /\ \A k : Told(k)' <=> Told(k)
    BY <1>1 DEF Stands, Told, ClientOnly
  <2>3. \A d \in Commands : Told(basis'[d])
    BY <1>6, <2>1
  <2>4. ASSUME NEW d \in Commands PROVE Told(basis[d])'
    <3>1. PICK k : k = basis'[d]
      OBVIOUS
    <3>2. Told(k)'
      BY <2>2, <2>3, <3>1
    <3> QED BY <3>1, <3>2 DEF Told, Stands
  <2>5. \A d \in Commands, b \in Stores : remembered'[d].versions[b] > 0 => Stands(remembered[d].versions[b], b, d)'
    <3>1. remembered' = remembered /\ version' = version /\ broken' = broken /\ holder' = holder
      BY <1>1 DEF ClientOnly
    <3> QED BY <2>1, <3>1 DEF Stands
  <2> QED BY <1>1, <2>1, <2>2, <2>4, <2>5 DEF VersionsTold
<1> QED BY <1>9, <1>10, <1>11, <1>12, <1>13, <1>14, <1>15 DEF StatusInv

LEMMA HearAckKeeps == ASSUME StatusInv, HearAck PROVE StatusInv'
<1>1. /\ ClientOnly /\ UNCHANGED <<sent, basis, rejects, commandsIn>>
      /\ acks # <<>> /\ acks' = Tail(acks)
  BY DEF HearAck, masterVars, ClientOnly
<1>2. PICK a : a = Head(acks)
  OBVIOUS
<1>3. a \in AckMsg /\ a \in ToSet(acks) /\ acks' \in Seq(AckMsg) /\ ToSet(acks') \subseteq ToSet(acks)
  BY <1>1, <1>2, ChannelTakes DEF StatusInv, StatusChannels
<1>4. a.command \in Commands /\ a.result \in {"ok", "error"} /\ a.versions \in [Stores -> Nat]
  BY <1>3 DEF AckMsg
<1>5. /\ heard' = heard \/ heard' = [heard EXCEPT ![a.command] = heard[a.command] \cup {a.result}]
      /\ known' = known \/ known' = known \cup {[version |-> a.versions[b], store |-> b, by |-> a.command] :
                                                  b \in {s \in Stores : a.versions[s] > 0}}
  BY <1>2 DEF HearAck
<1>6. /\ heard' \in [Commands -> SUBSET {"ok", "error"}]
      /\ \A c \in Commands : \A x \in heard'[c] : x \in heard[c] \/ (c = a.command /\ x = a.result)
  <2>1. heard \in [Commands -> SUBSET {"ok", "error"}]
    BY DEF StatusInv, StatusTypes
  <2> QED BY <1>4, <1>5, <2>1
<1>7. \A k \in known' : k \in known \/ \E b \in Stores :
         a.versions[b] > 0 /\ k = [version |-> a.versions[b], store |-> b, by |-> a.command]
  BY <1>5
<1>8. known' \subseteq Basis
  <2> SUFFICES ASSUME NEW k \in known' PROVE k \in Basis
    OBVIOUS
  <2>1. CASE k \in known
    BY <2>1 DEF StatusInv, StatusTypes
  <2>2. ASSUME NEW b \in Stores, k = [version |-> a.versions[b], store |-> b, by |-> a.command] PROVE k \in Basis
    <3>1. a.versions[b] \in Nat
      BY <1>4
    <3> QED BY <1>4, <2>2, <3>1 DEF Basis
  <2> QED BY <1>7, <2>1, <2>2
<1>9. StatusTypes' /\ StatusChannels' /\ SentFirst' /\ PlanHolds'
  <2>1. StatusTypes'
    BY <1>1, <1>6, <1>8 DEF StatusInv, StatusTypes, ClientOnly
  <2>2. StatusChannels' /\ SentFirst'
    BY <1>1, <1>3 DEF StatusInv, StatusChannels, SentFirst
  <2>3. PlanHolds'
    BY <1>1 DEF StatusInv, PlanHolds, ClientOnly
  <2> QED BY <2>1, <2>2, <2>3
<1>10. WritesCounted' /\ RejectedIsHarmless'
  BY <1>1 DEF StatusInv, WritesCounted, WrittenOnce, RejectedIsHarmless, ClientOnly
<1>11. OkIsDone'
  <2>1. OkIsDone
    BY DEF StatusInv
  <2>2. \A c \in Commands : "ok" \in heard'[c] => Done(c)
    BY <1>3, <1>6, <2>1 DEF OkIsDone
  <2>3. \A x \in ToSet(acks') : x.result = "ok" => Done(x.command)
    BY <1>3, <2>1 DEF OkIsDone
  <2>4. \A c : Done(c)' <=> Done(c)
    BY <1>1 DEF Done, ClientOnly
  <2> QED BY <1>1, <2>1, <2>2, <2>3, <2>4 DEF OkIsDone, ClientOnly
<1>12. AnswersAsRemembered'
  BY <1>1, <1>3, <1>6 DEF StatusInv, AnswersAsRemembered, ClientOnly
<1>13. VersionsTold'
  <2> SUFFICES ASSUME restarts = 0 PROVE VersionsTold'
    BY <1>1 DEF VersionsTold, ClientOnly
  <2>1. /\ \A x \in ToSet(acks) : \A b \in Stores : x.versions[b] > 0 => Stands(x.versions[b], b, x.command)
        /\ \A d \in Commands, b \in Stores :
              remembered[d].versions[b] > 0 => Stands(remembered[d].versions[b], b, d)
        /\ \A k \in known : Told(k)
        /\ \A d \in Commands : Told(basis[d])
    BY DEF StatusInv, VersionsTold
  <2>2. /\ \A v, b, d : Stands(v, b, d)' <=> Stands(v, b, d)
        /\ \A k : Told(k)' <=> Told(k)
    BY <1>1 DEF Stands, Told, ClientOnly
  <2>3. \A k \in known' : Told(k)
    BY <1>3, <1>7, <2>1 DEF Told
  <2>4. \A d \in Commands : Told(basis[d])'
    BY <1>1, <2>1 DEF Told, Stands, ClientOnly
  <2>5. \A d \in Commands, b \in Stores : remembered'[d].versions[b] > 0 => Stands(remembered[d].versions[b], b, d)'
    BY <1>1, <2>1 DEF Stands, ClientOnly
  <2> QED BY <1>3, <2>1, <2>2, <2>3, <2>4, <2>5 DEF VersionsTold
<1> QED BY <1>9, <1>10, <1>11, <1>12, <1>13 DEF StatusInv

LEMMA HearRejectKeeps == ASSUME StatusInv, HearReject PROVE StatusInv'
<1>1. /\ ClientOnly /\ UNCHANGED <<sent, basis, acks, known, commandsIn>>
      /\ rejects # <<>> /\ rejects' = Tail(rejects)
  BY DEF HearReject, masterVars, ClientOnly
<1>2. PICK r : r = Head(rejects)
  OBVIOUS
<1>3. r \in Commands /\ r \in ToSet(rejects) /\ rejects' \in Seq(Commands) /\ ToSet(rejects') \subseteq ToSet(rejects)
  BY <1>1, <1>2, ChannelTakes DEF StatusInv, StatusChannels
<1>4. heard' = heard \/ heard' = [heard EXCEPT ![r] = heard[r] \cup {"error"}]
  BY <1>2 DEF HearReject
<1>5. /\ heard' \in [Commands -> SUBSET {"ok", "error"}]
      /\ \A c \in Commands : \A x \in heard'[c] : x \in heard[c] \/ (c = r /\ x = "error")
  <2>1. heard \in [Commands -> SUBSET {"ok", "error"}]
    BY DEF StatusInv, StatusTypes
  <2> QED BY <1>3, <1>4, <2>1
<1>6. StatusTypes' /\ StatusChannels' /\ SentFirst' /\ PlanHolds'
  <2>1. StatusTypes'
    BY <1>1, <1>5 DEF StatusInv, StatusTypes, ClientOnly
  <2>2. StatusChannels' /\ SentFirst'
    BY <1>1, <1>3 DEF StatusInv, StatusChannels, SentFirst
  <2>3. PlanHolds'
    BY <1>1 DEF StatusInv, PlanHolds, ClientOnly
  <2> QED BY <2>1, <2>2, <2>3
<1>7. WritesCounted' /\ RejectedIsHarmless'
  BY <1>1 DEF StatusInv, WritesCounted, WrittenOnce, RejectedIsHarmless, ClientOnly
<1>8. OkIsDone'
  <2>1. OkIsDone
    BY DEF StatusInv
  <2>2. \A c \in Commands : "ok" \in heard'[c] => Done(c)
    BY <1>5, <2>1 DEF OkIsDone
  <2>3. \A c : Done(c)' <=> Done(c)
    BY <1>1 DEF Done, ClientOnly
  <2> QED BY <1>1, <2>1, <2>2, <2>3 DEF OkIsDone, ClientOnly
<1>9. AnswersAsRemembered'
  BY <1>1, <1>3, <1>5 DEF StatusInv, AnswersAsRemembered, ClientOnly
<1>10. VersionsTold'
  <2>1. VersionsTold
    BY DEF StatusInv
  <2> QED BY <1>1, <2>1 DEF VersionsTold, Told, Stands, ClientOnly
<1> QED BY <1>6, <1>7, <1>8, <1>9, <1>10 DEF StatusInv

ErrorAnswer == [result |-> "error", versions |-> NoVersions]
ErrorAck(c) == [command |-> c, result |-> "error", versions |-> NoVersions]

\* What an error is answered with.
LEMMA RejectSays ==
  ASSUME StatusTypes, NEW c \in Commands, remembered[c] = NoAnswer, Reject(c)
  PROVE  /\ remembered' \in [Commands -> Reply \cup {NoAnswer}] /\ remembered'[c] = ErrorAnswer
         /\ \A d \in Commands : d # c => remembered'[d] = remembered[d]
         /\ acks' = Append(acks, ErrorAck(c)) /\ rejects' = Append(rejects, c)
<1>1. remembered \in [Commands -> Reply \cup {NoAnswer}]
  BY DEF StatusTypes
<1>2. [NoAnswer EXCEPT !.result = "error"] = ErrorAnswer
  BY DEF NoAnswer, ErrorAnswer
<1>3. ErrorAnswer \in Reply
  BY DEF ErrorAnswer, Reply, NoVersions
<1>4. remembered' = [remembered EXCEPT ![c] = ErrorAnswer]
  <2>1. remembered' = [remembered EXCEPT ![c] = [NoAnswer EXCEPT !.result = "error"]]
    BY <1>1 DEF Reject
  <2> QED BY <1>2, <2>1
<1>5. /\ remembered' \in [Commands -> Reply \cup {NoAnswer}] /\ remembered'[c] = ErrorAnswer
      /\ \A d \in Commands : d # c => remembered'[d] = remembered[d]
  BY <1>1, <1>3, <1>4
<1>6. acks' = Append(acks, ErrorAck(c)) /\ rejects' = Append(rejects, c)
  <2>1. acks' = Append(acks, [command |-> c, result |-> remembered'[c].result, versions |-> remembered'[c].versions])
        /\ rejects' = Append(rejects, c)
    BY DEF Reject, Ack
  <2>2. remembered'[c].result = "error" /\ remembered'[c].versions = NoVersions
    BY <1>5 DEF ErrorAnswer
  <2> QED BY <2>1, <2>2 DEF ErrorAck
<1> QED BY <1>5, <1>6

\* A command without an answer is refused, before it is written or when a write of it failed.
Refusal(c) ==
  /\ remembered[c] = NoAnswer /\ Reject(c) /\ handling' = NotHandling
  /\ handling.command \in {c, NoCommand}
  /\ UNCHANGED <<sent, basis, heard, known, version, restarts>>
  /\ holder' = [b \in Stores |-> holder'[b]] /\ wrote' \in [Commands \X Stores -> Nat]
  /\ \A d \in Commands, b \in Stores :
        \/ wrote'[<<d, b>>] = wrote[<<d, b>>]
        \/ /\ d = c /\ handling.command = c /\ b \in ToSet(handling.todo)
           /\ wrote'[<<d, b>>] = wrote[<<d, b>>] + 1
  /\ \A b \in Stores : holder'[b] = holder[b] \/ b \in broken'.stores
  /\ broken.stores \subseteq broken'.stores /\ broken.commands \subseteq broken'.commands
  /\ handling.command = c => c \in broken'.commands

LEMMA RefusalKeeps ==
  ASSUME StatusInv, NEW c \in Commands, Refusal(c),
         commandsIn' \in Seq(Commands), ToSet(commandsIn') \subseteq ToSet(commandsIn)
  PROVE  StatusInv'
<1>1. /\ remembered' \in [Commands -> Reply \cup {NoAnswer}] /\ remembered'[c] = ErrorAnswer
      /\ \A d \in Commands : d # c => remembered'[d] = remembered[d]
      /\ acks' = Append(acks, ErrorAck(c)) /\ rejects' = Append(rejects, c)
  BY RejectSays DEF StatusInv, Refusal
<1>2. /\ ErrorAnswer.result = "error" /\ \A b \in Stores : ErrorAnswer.versions[b] = 0
      /\ ErrorAck(c) \in AckMsg /\ ErrorAck(c).result = "error" /\ ErrorAck(c).command = c
      /\ \A b \in Stores : ErrorAck(c).versions[b] = 0
      /\ ErrorAnswer # NoAnswer /\ NoAnswer.result = "nothing"
  BY DEF ErrorAnswer, ErrorAck, AckMsg, NoVersions, NoAnswer
<1>3. /\ acks' \in Seq(AckMsg) /\ ToSet(acks') = ToSet(acks) \cup {ErrorAck(c)}
      /\ rejects' \in Seq(Commands) /\ ToSet(rejects') = ToSet(rejects) \cup {c}
  <2>1. acks \in Seq(AckMsg) /\ rejects \in Seq(Commands)
    BY DEF StatusInv, StatusChannels
  <2> QED BY <1>1, <1>2, <2>1, ChannelGets
<1>4. handling' \in Plan /\ handling'.command = NoCommand /\ NoCommand \notin Commands
  <2>1. <<>> \in Seq(Stores)
    BY ChannelEmpty
  <2> QED BY <2>1, StatusAssumption DEF Refusal, NotHandling, Plan, NoCommand
<1>5. StatusTypes' /\ StatusChannels' /\ SentFirst' /\ PlanHolds'
  <2>1. StatusTypes'
    BY <1>1, <1>4 DEF StatusInv, StatusTypes, Refusal
  <2>2. StatusChannels' /\ SentFirst'
    BY <1>3 DEF StatusInv, StatusChannels, SentFirst, Refusal
  <2>3. PlanHolds'
    BY <1>4 DEF PlanHolds
  <2> QED BY <2>1, <2>2, <2>3
<1>6. /\ \A d \in Commands, b \in Stores : wrote[<<d, b>>] \in Nat /\ wrote'[<<d, b>>] \in Nat
      /\ \A b \in Stores : version[b] \in Nat
      /\ restarts \in Nat /\ restarts' = restarts
  BY <1>5 DEF StatusInv, StatusTypes, Refusal
<1>7. Onward
  BY <1>6 DEF Refusal, Onward
<1>8. /\ \A d \in Commands : Done(d) => Done(d)'
      /\ \A v \in Nat, b \in Stores : \A d : Stands(v, b, d) => Stands(v, b, d)'
      /\ \A k \in Basis : Told(k) => Told(k)'
  BY <1>5, <1>7, OnwardKeeps DEF StatusInv
<1>9. ToSet(acks) \subseteq AckMsg /\ \A a \in AckMsg : /\ a.command \in Commands /\ a.result \in {"ok", "error"}
                                                        /\ \A b \in Stores : a.versions[b] \in Nat
  <2>1. ToSet(acks) \subseteq AckMsg
    BY ChannelHolds DEF StatusInv, StatusChannels
  <2> QED BY <2>1 DEF AckMsg
<1>10. OkIsDone'
  <2>1. OkIsDone /\ heard' = heard
    BY DEF StatusInv, Refusal
  <2>2. \A d \in Commands : remembered'[d].result = "ok" \/ "ok" \in heard'[d] => Done(d)
    BY <1>1, <1>2, <2>1 DEF OkIsDone
  <2>3. \A a \in ToSet(acks') : a.result = "ok" => a.command \in Commands /\ Done(a.command)
    BY <1>2, <1>3, <1>9, <2>1 DEF OkIsDone
  <2> QED BY <1>8, <2>2, <2>3 DEF OkIsDone
<1>11. /\ \A d \in Commands, b \in Stores :
             remembered[d] = NoAnswer /\ (handling.command # d \/ b \in ToSet(handling.todo))
                => wrote[<<d, b>>] <= restarts
       /\ \A q \in Commands \X Stores : wrote[q] <= 1 + restarts
  BY DEF StatusInv, WritesCounted, WrittenOnce
<1>12. WritesCounted'
  <2>1. ASSUME NEW d \in Commands, NEW b \in Stores PROVE wrote'[<<d, b>>] <= 1 + restarts
    <3>1. CASE wrote'[<<d, b>>] = wrote[<<d, b>>]
      BY <1>11, <3>1
    <3>2. CASE d = c /\ b \in ToSet(handling.todo) /\ wrote'[<<d, b>>] = wrote[<<d, b>>] + 1
      <4>1. wrote[<<d, b>>] <= restarts
        BY <1>11, <3>2 DEF Refusal
      <4> QED BY <1>6, <3>2, <4>1
    <3> QED BY <3>1, <3>2 DEF Refusal
  <2>2. ASSUME NEW d \in Commands, NEW b \in Stores, remembered'[d] = NoAnswer PROVE wrote'[<<d, b>>] <= restarts
    <3>1. d # c /\ remembered[d] = NoAnswer
      BY <1>1, <1>2, <2>2
    <3>2. handling.command # d /\ wrote'[<<d, b>>] = wrote[<<d, b>>]
      BY <1>4, <3>1 DEF Refusal
    <3> QED BY <1>11, <3>1, <3>2
  <2> QED BY <1>6, <2>1, <2>2 DEF WritesCounted, WrittenOnce
<1>13. RejectedIsHarmless'
  <2> SUFFICES ASSUME NEW d \in Commands, remembered'[d].result = "error", d \notin broken'.commands, restarts = 0,
                      NEW b \in Stores
               PROVE  wrote'[<<d, b>>] = 0
    BY <1>6 DEF RejectedIsHarmless
  <2>1. wrote'[<<d, b>>] = wrote[<<d, b>>]
    BY DEF Refusal
  <2>2. CASE d = c
    <3>1. remembered[d] = NoAnswer /\ handling.command # d
      BY <2>2 DEF Refusal
    <3>2. wrote[<<d, b>>] <= 0
      BY <1>11, <3>1
    <3> QED BY <1>6, <2>1, <3>2
  <2>3. CASE d # c
    <3>1. remembered[d].result = "error" /\ d \notin broken.commands
      BY <1>1, <2>3 DEF Refusal
    <3> QED BY <2>1, <3>1 DEF StatusInv, RejectedIsHarmless
  <2> QED BY <2>2, <2>3
<1>14. AnswersAsRemembered'
  <2> SUFFICES ASSUME restarts = 0 PROVE AnswersAsRemembered'
    BY <1>6 DEF AnswersAsRemembered
  <2>1. /\ \A d \in Commands : \A x \in heard[d] : x = remembered[d].result /\ x \in {"ok", "error"}
        /\ \A a \in ToSet(acks) : a.result = remembered[a.command].result
        /\ \A d \in ToSet(rejects) : remembered[d].result = "error" /\ d \in Commands
    BY ChannelHolds DEF StatusInv, AnswersAsRemembered, StatusTypes, StatusChannels
  <2>2. remembered[c].result = "nothing"
    BY <1>2 DEF Refusal
  <2>3. \A d \in Commands : \A x \in heard[d] : x = remembered'[d].result
    BY <1>1, <2>1, <2>2
  <2>4. ASSUME NEW a \in ToSet(acks') PROVE a.result = remembered'[a.command].result
    <3>1. CASE a = ErrorAck(c)
      BY <1>1, <1>2, <3>1
    <3>2. CASE a \in ToSet(acks)
      <4>1. a.command \in Commands /\ a.result \in {"ok", "error"} /\ a.result = remembered[a.command].result
        BY <1>9, <2>1, <3>2
      <4> QED BY <1>1, <2>2, <4>1
    <3> QED BY <1>3, <3>1, <3>2
  <2>5. \A d \in ToSet(rejects') : remembered'[d].result = "error"
    BY <1>1, <1>2, <1>3, <2>1, <2>2
  <2>6. heard' = heard
    BY DEF Refusal
  <2> QED BY <2>3, <2>4, <2>5, <2>6 DEF AnswersAsRemembered
<1>15. VersionsTold'
  <2> SUFFICES ASSUME restarts = 0 PROVE VersionsTold'
    BY <1>6 DEF VersionsTold
  <2>1. VersionsTold /\ UNCHANGED <<known, basis>> /\ known \subseteq Basis /\ \A d \in Commands : basis[d] \in Basis
    BY DEF StatusInv, StatusTypes, Refusal
  <2>2. \A a \in ToSet(acks') : \A b \in Stores : a.versions[b] > 0 => Stands(a.versions[b], b, a.command)'
    BY <1>2, <1>3, <1>8, <1>9, <2>1 DEF VersionsTold
  <2>3. ASSUME NEW d \in Commands, NEW b \in Stores, remembered'[d].versions[b] > 0
        PROVE  Stands(remembered[d].versions[b], b, d)'
    <3>1. d # c
      BY <1>1, <1>2, <2>3
    <3>2. remembered'[d] = remembered[d] /\ remembered[d] \in Reply \cup {NoAnswer}
      BY <1>1, <3>1 DEF StatusInv, StatusTypes
    <3>3. PICK v : v = remembered'[d].versions[b]
      OBVIOUS
    <3>4. v \in Nat
      BY <3>2, <3>3 DEF Reply, NoAnswer, NoVersions
    <3>5. Stands(v, b, d)'
      BY <1>8, <2>1, <2>3, <3>2, <3>3, <3>4 DEF VersionsTold
    <3> QED BY <3>3, <3>5 DEF Stands
  <2>4. ASSUME NEW d \in Commands PROVE Told(basis[d])'
    <3>1. PICK k : k = basis[d]
      OBVIOUS
    <3>2. Told(k)'
      BY <1>8, <2>1, <3>1 DEF VersionsTold
    <3> QED BY <2>1, <3>1, <3>2 DEF Told, Stands
  <2>5. \A k \in known : Told(k)'
    BY <1>8, <2>1 DEF VersionsTold
  <2> QED BY <2>1, <2>2, <2>3, <2>4, <2>5 DEF VersionsTold
<1> QED BY <1>5, <1>10, <1>12, <1>13, <1>14, <1>15 DEF StatusInv

\* A command that was answered gets its answer again; one without a task gets none.
LEMMA ReplayKeeps ==
  ASSUME StatusInv, NEW c \in Commands, ClientOnly, UNCHANGED <<sent, basis, rejects, heard, known>>,
         commandsIn' \in Seq(Commands), ToSet(commandsIn') \subseteq ToSet(commandsIn),
         acks' = acks \/ (remembered[c] # NoAnswer /\ Ack(c, remembered[c]))
  PROVE  StatusInv'
<1>1. PICK x, y : x = remembered[c].result /\ y = remembered[c].versions
  OBVIOUS
<1>2. PICK m : m = [command |-> c, result |-> x, versions |-> y]
  OBVIOUS
<1>3. acks' = acks \/ (remembered[c] # NoAnswer /\ acks' = Append(acks, m))
  BY <1>1, <1>2 DEF Ack
<1>4. ASSUME remembered[c] # NoAnswer
      PROVE  m \in AckMsg /\ m.command = c /\ m.result = remembered[c].result /\ m.versions = remembered[c].versions
  <2>1. remembered[c] \in Reply
    BY <1>4 DEF StatusInv, StatusTypes
  <2>2. x \in {"ok", "error"} /\ y \in [Stores -> Nat]
    BY <1>1, <2>1 DEF Reply
  <2> QED BY <1>1, <1>2, <2>2 DEF AckMsg
<1>5. /\ acks' \in Seq(AckMsg)
      /\ \A a \in ToSet(acks') : a \in ToSet(acks) \/ (a = m /\ remembered[c] # NoAnswer)
  <2>1. acks \in Seq(AckMsg)
    BY DEF StatusInv, StatusChannels
  <2>2. CASE remembered[c] # NoAnswer /\ acks' = Append(acks, m)
    <3>1. acks' \in Seq(AckMsg) /\ ToSet(acks') = ToSet(acks) \cup {m}
      BY <1>4, <2>1, <2>2, ChannelGets
    <3> QED BY <2>2, <3>1
  <2> QED BY <1>3, <2>1, <2>2
<1>6. StatusTypes' /\ StatusChannels' /\ SentFirst' /\ PlanHolds'
  <2>1. StatusTypes' /\ PlanHolds'
    BY DEF StatusInv, StatusTypes, PlanHolds, ClientOnly
  <2>2. StatusChannels' /\ SentFirst'
    BY <1>5 DEF StatusInv, StatusChannels, SentFirst
  <2> QED BY <2>1, <2>2
<1>7. WritesCounted' /\ RejectedIsHarmless'
  BY DEF StatusInv, WritesCounted, WrittenOnce, RejectedIsHarmless, ClientOnly
<1>8. OkIsDone'
  <2>1. OkIsDone
    BY DEF StatusInv
  <2>2. \A a \in ToSet(acks') : a.result = "ok" => Done(a.command)
    BY <1>4, <1>5, <2>1 DEF OkIsDone
  <2>3. \A d : Done(d)' <=> Done(d)
    BY DEF Done, ClientOnly
  <2> QED BY <2>1, <2>2, <2>3 DEF OkIsDone, ClientOnly
<1>9. AnswersAsRemembered'
  <2>1. AnswersAsRemembered
    BY DEF StatusInv
  <2>2. ASSUME restarts = 0 PROVE \A a \in ToSet(acks') : a.result = remembered[a.command].result
    BY <1>4, <1>5, <2>1, <2>2 DEF AnswersAsRemembered
  <2> QED BY <2>1, <2>2 DEF AnswersAsRemembered, ClientOnly
<1>10. VersionsTold'
  <2>1. VersionsTold
    BY DEF StatusInv
  <2>2. ASSUME restarts = 0
        PROVE  \A a \in ToSet(acks') : \A b \in Stores : a.versions[b] > 0 => Stands(a.versions[b], b, a.command)
    BY <1>4, <1>5, <2>1, <2>2 DEF VersionsTold
  <2> QED BY <2>1, <2>2 DEF VersionsTold, Told, Stands, ClientOnly
<1> QED BY <1>6, <1>7, <1>8, <1>9, <1>10 DEF StatusInv

\* A command that is accepted is written from the versions as they are now.
LEMMA AcceptKeeps ==
  ASSUME StatusInv, NEW c \in Commands, sent[c] > 0, remembered[c] = NoAnswer, ~Conflict(c), handling = NotHandling,
         handling' = [command |-> c, todo |-> Targets[c], base |-> version],
         UNCHANGED <<holder, version, remembered, wrote, broken, restarts>>,
         UNCHANGED <<sent, basis, acks, rejects, heard, known>>,
         commandsIn' \in Seq(Commands), ToSet(commandsIn') \subseteq ToSet(commandsIn)
  PROVE  StatusInv'
<1>1. PICK t : t = Targets[c]
  OBVIOUS
<1>2. /\ t \in Seq(Stores \cup {"unknown"}) /\ Distinct(t)
  BY <1>1, StatusAssumption DEF Distinct
<1>3. \A b \in ToSet(t) : b \in Stores /\ (basis[c].version > 0 => version[b] = basis[c].version)
  BY <1>1 DEF Conflict
<1>4. t \in Seq(Stores)
  <2>1. \A i \in DOMAIN t : t[i] \in ToSet(t)
    BY DEF ToSet
  <2>2. \A i \in DOMAIN t : t[i] \in Stores
    BY <1>3, <2>1
  <2> QED BY <1>2, <2>2
<1>5. handling'.command = c /\ handling'.todo = t /\ handling'.base = version /\ version \in [Stores -> Nat]
  BY <1>1 DEF StatusInv, StatusTypes
<1>6. c # NoCommand
  BY StatusAssumption DEF NoCommand
<1>7. StatusTypes' /\ StatusChannels' /\ SentFirst'
  <2>1. handling' \in Plan
    BY <1>1, <1>4, <1>5 DEF Plan
  <2>2. StatusTypes'
    BY <1>5, <1>6, <2>1 DEF StatusInv, StatusTypes
  <2>3. StatusChannels' /\ SentFirst'
    BY DEF StatusInv, StatusChannels, SentFirst
  <2> QED BY <2>2, <2>3
<1>8. PlanHolds'
  BY <1>1, <1>2, <1>3, <1>5 DEF PlanHolds
<1>9. WritesCounted' /\ RejectedIsHarmless'
  <2>1. \A d \in Commands : handling.command # d
    BY StatusAssumption DEF NotHandling, NoCommand
  <2> QED BY <2>1 DEF StatusInv, WritesCounted, WrittenOnce, RejectedIsHarmless
<1>10. OkIsDone'
  BY DEF StatusInv, OkIsDone, Done
<1>11. AnswersAsRemembered' /\ VersionsTold'
  BY DEF StatusInv, AnswersAsRemembered, VersionsTold, Told, Stands
<1> QED BY <1>7, <1>8, <1>9, <1>10, <1>11 DEF StatusInv

LEMMA ReceiveCommandKeeps == ASSUME StatusInv, ReceiveCommand PROVE StatusInv'
<1>1. /\ UNCHANGED <<holder, version, wrote, broken, restarts>> /\ UNCHANGED <<sent, basis, heard, known>>
      /\ handling = NotHandling /\ commandsIn # <<>> /\ commandsIn' = Tail(commandsIn)
  BY DEF ReceiveCommand
<1>2. PICK c : c = Head(commandsIn)
  OBVIOUS
<1>3. /\ c \in Commands /\ c \in ToSet(commandsIn)
      /\ commandsIn' \in Seq(Commands) /\ ToSet(commandsIn') \subseteq ToSet(commandsIn)
  BY <1>1, <1>2, ChannelTakes DEF StatusInv, StatusChannels
<1>4. sent[c] > 0
  BY <1>3 DEF StatusInv, SentFirst
<1>5. \/ /\ acks' = acks \/ (remembered[c] # NoAnswer /\ Ack(c, remembered[c]))
         /\ UNCHANGED <<rejects, remembered, handling>>
      \/ remembered[c] = NoAnswer /\ Reject(c) /\ UNCHANGED handling
      \/ /\ remembered[c] = NoAnswer /\ ~Unacceptable(c)
         /\ handling' = [command |-> c, todo |-> Targets[c], base |-> version]
         /\ UNCHANGED <<acks, rejects, remembered>>
  BY <1>2 DEF ReceiveCommand
<1>6. CASE /\ acks' = acks \/ (remembered[c] # NoAnswer /\ Ack(c, remembered[c]))
           /\ UNCHANGED <<rejects, remembered, handling>>
  BY <1>1, <1>3, <1>6, ReplayKeeps DEF ClientOnly
<1>7. CASE remembered[c] = NoAnswer /\ Reject(c) /\ UNCHANGED handling
  <2>1. Refusal(c)
    <3>1. handling.command = NoCommand /\ c # NoCommand
      BY <1>1, <1>3, StatusAssumption DEF NotHandling, NoCommand
    <3>2. holder' = [b \in Stores |-> holder'[b]] /\ wrote' \in [Commands \X Stores -> Nat]
      BY <1>1 DEF StatusInv, StatusTypes
    <3> QED BY <1>1, <1>7, <3>1, <3>2 DEF Refusal
  <2> QED BY <1>3, <2>1, RefusalKeeps
<1>8. CASE /\ remembered[c] = NoAnswer /\ ~Unacceptable(c)
           /\ handling' = [command |-> c, todo |-> Targets[c], base |-> version]
           /\ UNCHANGED <<acks, rejects, remembered>>
  <2>1. ~Conflict(c)
    BY <1>8 DEF Unacceptable
  <2> QED BY <1>1, <1>3, <1>4, <1>8, <2>1, AcceptKeeps
<1> QED BY <1>5, <1>6, <1>7, <1>8

\* The backend that is written next.
LEMMA NextWrite ==
  ASSUME StatusInv, handling.todo # <<>>
  PROVE  LET c == handling.command  b == Head(handling.todo) IN
         /\ c \in Commands /\ b \in Stores /\ b \in ToSet(handling.todo)
         /\ Tail(handling.todo) \in Seq(Stores) /\ Distinct(Tail(handling.todo)) /\ b \notin ToSet(Tail(handling.todo))
         /\ ToSet(handling.todo) = {b} \cup ToSet(Tail(handling.todo))
         /\ remembered[c] = NoAnswer
<1>1. PICK t : t = handling.todo
  OBVIOUS
<1>2. PICK c : c = handling.command
  OBVIOUS
<1>3. t \in Seq(Stores) /\ c \in Commands \cup {NoCommand}
  BY <1>1, <1>2 DEF StatusInv, StatusTypes, Plan
<1>4. c \in Commands
  BY <1>2, <1>3 DEF StatusInv, StatusTypes, NotHandling
<1>5. Distinct(t) /\ remembered[c] = NoAnswer
  BY <1>1, <1>2, <1>4 DEF StatusInv, PlanHolds
<1>6. /\ Head(t) \in Stores /\ Head(t) \in ToSet(t) /\ Tail(t) \in Seq(Stores)
      /\ Distinct(Tail(t)) /\ Head(t) \notin ToSet(Tail(t)) /\ ToSet(t) = {Head(t)} \cup ToSet(Tail(t))
  BY <1>1, <1>3, <1>5, ChannelTakes, ChannelSplits
<1> QED BY <1>1, <1>2, <1>4, <1>5, <1>6

LEMMA WriteFailsKeeps == ASSUME StatusInv, WriteFails \/ CommentFails PROVE StatusInv'
<1>1. handling.todo # <<>>
  BY DEF WriteFails, CommentFails
<1>2. PICK c, b, t : c = handling.command /\ b = Head(handling.todo) /\ t = handling.todo
  OBVIOUS
<1>3. c \in Commands /\ b \in Stores /\ b \in ToSet(t) /\ remembered[c] = NoAnswer
  BY <1>1, <1>2, NextWrite
<1>4. /\ Reject(c) /\ handling' = NotHandling
      /\ UNCHANGED <<sent, basis, heard, known, commandsIn, version, restarts>>
  BY <1>2 DEF WriteFails, CommentFails
<1>5. \/ /\ UNCHANGED <<holder, wrote>> /\ Blame(c, b, FALSE)
      \/ /\ holder' = [holder EXCEPT ![b] = c] /\ Blame(c, b, TRUE)
         /\ wrote' = [wrote EXCEPT ![<<c, b>>] = wrote[<<c, b>>] + 1]
  BY <1>2 DEF WriteFails, CommentFails
<1>6. broken' = [commands |-> broken.commands \cup {c}, stores |-> broken.stores]
        \/ broken' = [commands |-> broken.commands \cup {c}, stores |-> broken.stores \cup {b}]
  BY <1>5 DEF Blame
<1>7. /\ broken.commands \subseteq broken'.commands /\ broken.stores \subseteq broken'.stores
      /\ c \in broken'.commands
  BY <1>6
<1>8. /\ wrote \in [Commands \X Stores -> Nat] /\ holder = [s \in Stores |-> holder[s]]
      /\ <<c, b>> \in Commands \X Stores
  BY <1>3 DEF StatusInv, StatusTypes
<1>9. /\ wrote' \in [Commands \X Stores -> Nat] /\ holder' = [s \in Stores |-> holder'[s]]
  <2>1. wrote' = wrote \/ wrote' = [wrote EXCEPT ![<<c, b>>] = wrote[<<c, b>>] + 1]
    BY <1>5
  <2>2. wrote' \in [Commands \X Stores -> Nat]
    BY <1>8, <2>1
  <2>3. holder' = holder \/ holder' = [holder EXCEPT ![b] = c]
    BY <1>5
  <2>4. holder' = [s \in Stores |-> holder'[s]]
    BY <1>8, <2>3
  <2> QED BY <2>2, <2>4
<1>10. \A d \in Commands, s \in Stores :
         wrote'[<<d, s>>] = wrote[<<d, s>>] \/ (d = c /\ s = b /\ wrote'[<<d, s>>] = wrote[<<d, s>>] + 1)
  <2> SUFFICES ASSUME NEW d \in Commands, NEW s \in Stores
               PROVE  wrote'[<<d, s>>] = wrote[<<d, s>>] \/ (d = c /\ s = b /\ wrote'[<<d, s>>] = wrote[<<d, s>>] + 1)
    OBVIOUS
  <2>1. <<d, s>> \in Commands \X Stores /\ (<<d, s>> = <<c, b>> <=> d = c /\ s = b)
    OBVIOUS
  <2>2. wrote' = wrote \/ wrote' = [wrote EXCEPT ![<<c, b>>] = wrote[<<c, b>>] + 1]
    BY <1>5
  <2> QED BY <1>8, <2>1, <2>2
<1>11. \A s \in Stores : holder'[s] = holder[s] \/ s \in broken'.stores
  BY <1>5, <1>8 DEF Blame
<1>12. Refusal(c)
  BY <1>2, <1>3, <1>4, <1>7, <1>9, <1>10, <1>11 DEF Refusal
<1>13. commandsIn' \in Seq(Commands) /\ ToSet(commandsIn') \subseteq ToSet(commandsIn)
  BY <1>4 DEF StatusInv, StatusChannels
<1> QED BY <1>3, <1>12, <1>13, RefusalKeeps

\* A backend is written when its turn comes: what the step does.
Written(c, b) ==
  /\ holder' = [holder EXCEPT ![b] = c]
  /\ wrote' = [wrote EXCEPT ![<<c, b>>] = wrote[<<c, b>>] + 1]
  /\ version' = [version EXCEPT ![b] = version[b] + 1]
  /\ handling'.command = c /\ handling'.base = handling.base /\ handling'.todo = Tail(handling.todo)
  /\ broken'.commands = broken.commands /\ broken'.stores = broken.stores \ {b}
  /\ UNCHANGED <<clientVars, commandsIn, remembered, restarts>>

LEMMA WriteDoes ==
  ASSUME StatusInv, WriteStore
  PROVE  /\ handling.todo # <<>> /\ Written(handling.command, Head(handling.todo)) /\ handling' \in Plan
<1>1. handling.todo # <<>> /\ UNCHANGED <<clientVars, commandsIn, remembered, restarts>>
  BY DEF WriteStore
<1>2. PICK c, b, t : c = handling.command /\ b = Head(handling.todo) /\ t = Tail(handling.todo)
  OBVIOUS
<1>3. /\ c \in Commands /\ b \in Stores /\ b \in ToSet(handling.todo) /\ t \in Seq(Stores)
  BY <1>1, <1>2, NextWrite
<1>4. handling.base[b] = version[b]
  BY <1>2, <1>3 DEF StatusInv, PlanHolds
<1>5. /\ holder' = [holder EXCEPT ![b] = c] /\ wrote' = [wrote EXCEPT ![<<c, b>>] = wrote[<<c, b>>] + 1]
      /\ version' = [version EXCEPT ![b] = handling.base[b] + 1]
      /\ handling' = [handling EXCEPT !.todo = t]
  BY <1>2 DEF WriteStore
<1>6. handling \in Plan
  BY DEF StatusInv, StatusTypes
<1>7. handling' = [command |-> c, todo |-> t, base |-> handling.base] /\ handling.base \in [Stores -> Nat]
  BY <1>2, <1>5, <1>6 DEF Plan
<1>8. handling' \in Plan /\ handling'.command = c /\ handling'.base = handling.base /\ handling'.todo = t
  BY <1>3, <1>7 DEF Plan
<1>9. broken'.commands = broken.commands /\ broken'.stores = broken.stores \ {b}
  <2>1. broken' = [commands |-> broken.commands, stores |-> broken.stores \ {b}]
    BY <1>2 DEF WriteStore
  <2> QED BY <2>1
<1> QED BY <1>1, <1>2, <1>4, <1>5, <1>8, <1>9 DEF Written

LEMMA WriteStoreKeeps == ASSUME StatusInv, WriteStore PROVE StatusInv'
<1>1. PICK c, b, t : c = handling.command /\ b = Head(handling.todo) /\ t = Tail(handling.todo)
  OBVIOUS
<1>2. handling.todo # <<>> /\ Written(c, b) /\ handling' \in Plan
  BY <1>1, WriteDoes
<1>3. /\ c \in Commands /\ b \in Stores /\ b \in ToSet(handling.todo) /\ Distinct(t) /\ b \notin ToSet(t)
      /\ ToSet(handling.todo) = {b} \cup ToSet(t) /\ remembered[c] = NoAnswer
  BY <1>1, <1>2, NextWrite
<1>4. /\ handling'.command = c /\ handling'.base = handling.base /\ handling'.todo = t
      /\ broken'.commands = broken.commands /\ broken'.stores = broken.stores \ {b}
      /\ UNCHANGED <<sent, basis, acks, rejects, heard, known, commandsIn, remembered, restarts>>
  BY <1>1, <1>2 DEF Written, clientVars
<1>5. /\ wrote \in [Commands \X Stores -> Nat] /\ version \in [Stores -> Nat] /\ restarts \in Nat
      /\ holder = [s \in Stores |-> holder[s]] /\ <<c, b>> \in Commands \X Stores
  BY <1>3 DEF StatusInv, StatusTypes
<1>6. /\ holder' = [s \in Stores |-> holder'[s]] /\ holder'[b] = c
      /\ \A s \in Stores : s # b => holder'[s] = holder[s]
  BY <1>2, <1>3, <1>5 DEF Written
<1>7. /\ version' \in [Stores -> Nat] /\ version'[b] = version[b] + 1
      /\ \A s \in Stores : s # b => version'[s] = version[s]
  BY <1>2, <1>3, <1>5 DEF Written
<1>8. /\ wrote' \in [Commands \X Stores -> Nat] /\ wrote'[<<c, b>>] = wrote[<<c, b>>] + 1
      /\ \A q \in Commands \X Stores : q # <<c, b>> => wrote'[q] = wrote[q]
  BY <1>2, <1>5 DEF Written
<1>9. c # NoCommand
  BY <1>3, StatusAssumption DEF NoCommand
<1>10. StatusTypes' /\ StatusChannels' /\ SentFirst'
  <2>1. StatusTypes'
    BY <1>2, <1>4, <1>6, <1>7, <1>8, <1>9 DEF StatusInv, StatusTypes
  <2>2. StatusChannels' /\ SentFirst'
    BY <1>4 DEF StatusInv, StatusChannels, SentFirst
  <2> QED BY <2>1, <2>2
<1>11. \A s \in Stores : version[s] \in Nat /\ \A d \in Commands : wrote[<<d, s>>] \in Nat
  BY <1>5
<1>12. Onward
  <2>1. \A d \in Commands, s \in Stores : wrote[<<d, s>>] <= wrote'[<<d, s>>]
    BY <1>8, <1>11
  <2>2. \A s \in Stores : version[s] <= version'[s] /\ (version'[s] = version[s] => s # b /\ holder'[s] = holder[s])
    BY <1>6, <1>7, <1>11
  <2> QED BY <1>4, <2>1, <2>2 DEF Onward
<1>13. /\ \A d \in Commands : Done(d) => Done(d)'
       /\ \A v \in Nat, s \in Stores : \A d : Stands(v, s, d) => Stands(v, s, d)'
       /\ \A k \in Basis : Told(k) => Told(k)'
  BY <1>10, <1>12, OnwardKeeps DEF StatusInv
<1>14. PlanHolds'
  <2>1. /\ sent[c] > 0 /\ ToSet(Targets[c]) \subseteq Stores
        /\ \A s \in ToSet(Targets[c]) : s \in ToSet(handling.todo) \/ (wrote[<<c, s>>] > 0 /\ holder[s] = c)
        /\ \A s \in ToSet(handling.todo) :
              handling.base[s] = version[s] /\ (basis[c].version > 0 => version[s] = basis[c].version)
    BY <1>1, <1>3 DEF StatusInv, PlanHolds
  <2>2. ASSUME NEW s \in ToSet(Targets[c]), s \notin ToSet(t) PROVE wrote'[<<c, s>>] > 0 /\ holder'[s] = c
    <3>1. CASE s = b
      BY <1>5, <1>6, <1>8, <3>1
    <3>2. CASE s # b
      <4>1. s \in Stores /\ wrote[<<c, s>>] > 0 /\ holder[s] = c
        BY <1>3, <2>1, <2>2, <3>2
      <4>2. wrote'[<<c, s>>] = wrote[<<c, s>>]
        BY <1>3, <1>8, <3>2, <4>1
      <4> QED BY <1>6, <3>2, <4>1, <4>2
    <3> QED BY <3>1, <3>2
  <2>3. \A s \in ToSet(t) : s \in Stores /\ s # b
    <3>1. t \in Seq(Stores)
      BY <1>2, <1>4 DEF Plan
    <3> QED BY <1>3, <3>1, ChannelHolds
  <2>4. \A s \in ToSet(t) : handling'.base[s] = version'[s] /\ (basis'[c].version > 0 => version'[s] = basis'[c].version)
    BY <1>3, <1>4, <1>7, <2>1, <2>3
  <2> QED BY <1>3, <1>4, <2>1, <2>2, <2>4 DEF PlanHolds
<1>15. OkIsDone'
  <2>1. OkIsDone /\ ToSet(acks) \subseteq AckMsg
    BY ChannelHolds DEF StatusInv, StatusChannels
  <2>2. \A a \in AckMsg : a.command \in Commands
    BY DEF AckMsg
  <2> QED BY <1>4, <1>13, <2>1, <2>2 DEF OkIsDone
<1>16. /\ \A d \in Commands, s \in Stores :
             remembered[d] = NoAnswer /\ (handling.command # d \/ s \in ToSet(handling.todo))
                => wrote[<<d, s>>] <= restarts
       /\ \A q \in Commands \X Stores : wrote[q] <= 1 + restarts
  BY DEF StatusInv, WritesCounted, WrittenOnce
<1>17. WritesCounted'
  <2>1. wrote'[<<c, b>>] <= 1 + restarts
    BY <1>1, <1>3, <1>5, <1>8, <1>16
  <2>2. \A q \in Commands \X Stores : wrote'[q] <= 1 + restarts
    BY <1>8, <1>16, <2>1
  <2>3. ASSUME NEW d \in Commands, NEW s \in Stores, remembered[d] = NoAnswer, c # d \/ s \in ToSet(t)
        PROVE  wrote'[<<d, s>>] <= restarts
    <3>1. wrote'[<<d, s>>] = wrote[<<d, s>>]
      BY <1>3, <1>8, <2>3
    <3> QED BY <1>1, <1>3, <1>16, <2>3, <3>1
  <2> QED BY <1>4, <2>2, <2>3 DEF WritesCounted, WrittenOnce
<1>18. RejectedIsHarmless'
  <2> SUFFICES ASSUME NEW d \in Commands, remembered[d].result = "error", d \notin broken.commands, restarts = 0,
                      NEW s \in Stores
               PROVE  wrote'[<<d, s>>] = 0
    BY <1>4 DEF RejectedIsHarmless
  <2>1. d # c
    BY <1>3 DEF NoAnswer
  <2>2. wrote'[<<d, s>>] = wrote[<<d, s>>]
    BY <1>8, <2>1
  <2> QED BY <2>2 DEF StatusInv, RejectedIsHarmless
<1>19. AnswersAsRemembered'
  BY <1>4 DEF StatusInv, AnswersAsRemembered
<1>20. VersionsTold'
  <2> SUFFICES ASSUME restarts = 0 PROVE VersionsTold'
    BY <1>4 DEF VersionsTold
  <2>1. VersionsTold /\ known \subseteq Basis /\ \A d \in Commands : basis[d] \in Basis /\ remembered[d] \in Reply \cup {NoAnswer}
    BY DEF StatusInv, StatusTypes
  <2>2. \A a \in ToSet(acks) : \A s \in Stores : a.versions[s] \in Nat
    <3>1. ToSet(acks) \subseteq AckMsg
      BY ChannelHolds DEF StatusInv, StatusChannels
    <3> QED BY <3>1 DEF AckMsg
  <2>3. \A a \in ToSet(acks') : \A s \in Stores : a.versions[s] > 0 => Stands(a.versions[s], s, a.command)'
    BY <1>4, <1>13, <2>1, <2>2 DEF VersionsTold
  <2>4. ASSUME NEW d \in Commands, NEW s \in Stores, remembered'[d].versions[s] > 0
        PROVE  Stands(remembered[d].versions[s], s, d)'
    <3>1. PICK v : v = remembered[d].versions[s]
      OBVIOUS
    <3>2. v \in Nat
      BY <2>1, <3>1 DEF Reply, NoAnswer, NoVersions
    <3>3. Stands(v, s, d)'
      BY <1>4, <1>13, <2>1, <2>4, <3>1, <3>2 DEF VersionsTold
    <3> QED BY <1>4, <3>1, <3>3 DEF Stands
  <2>5. ASSUME NEW d \in Commands PROVE Told(basis[d])'
    <3>1. PICK k : k = basis[d]
      OBVIOUS
    <3>2. Told(k)'
      BY <1>13, <2>1, <3>1 DEF VersionsTold
    <3> QED BY <1>4, <3>1, <3>2 DEF Told, Stands
  <2>6. \A k \in known' : Told(k)'
    BY <1>4, <1>13, <2>1 DEF VersionsTold
  <2> QED BY <2>3, <2>4, <2>5, <2>6 DEF VersionsTold
<1> QED BY <1>10, <1>14, <1>15, <1>17, <1>18, <1>19, <1>20 DEF StatusInv

LEMMA FinishCommandKeeps == ASSUME StatusInv, FinishCommand PROVE StatusInv'
<1>1. PICK c : c = handling.command
  OBVIOUS
<1>2. PICK versions : versions = [b \in Stores |-> IF b \in ToSet(Targets[c]) THEN version[b] ELSE 0]
  OBVIOUS
<1>3. PICK r, m : r = [result |-> "ok", versions |-> versions] /\ m = [command |-> c, result |-> "ok", versions |-> versions]
  OBVIOUS
<1>4. /\ handling # NotHandling /\ handling.todo = <<>> /\ handling' = NotHandling
      /\ UNCHANGED <<holder, version, wrote, broken, restarts>>
      /\ UNCHANGED <<sent, basis, rejects, heard, known, commandsIn>>
  BY DEF FinishCommand
<1>5. remembered' = [remembered EXCEPT ![c] = r]
  BY <1>1, <1>2, <1>3 DEF FinishCommand
<1>6. acks' = Append(acks, [command |-> c, result |-> remembered'[c].result, versions |-> remembered'[c].versions])
  BY <1>1 DEF FinishCommand, Ack
<1>7. c \in Commands
  BY <1>1, <1>4 DEF StatusInv, StatusTypes, Plan
<1>8. version \in [Stores -> Nat] /\ remembered \in [Commands -> Reply \cup {NoAnswer}]
  BY DEF StatusInv, StatusTypes
<1>9. versions \in [Stores -> Nat]
  BY <1>2, <1>8
<1>10. r \in Reply /\ m \in AckMsg /\ r.result = "ok" /\ r.versions = versions /\ r # NoAnswer /\ NoAnswer.result = "nothing"
  BY <1>3, <1>7, <1>9 DEF Reply, AckMsg, NoAnswer
<1>11. /\ remembered' \in [Commands -> Reply \cup {NoAnswer}] /\ remembered'[c] = r
       /\ \A d \in Commands : d # c => remembered'[d] = remembered[d]
  BY <1>5, <1>7, <1>8, <1>10
<1>12. acks' = Append(acks, m)
  BY <1>3, <1>6, <1>10, <1>11
<1>13. acks' \in Seq(AckMsg) /\ ToSet(acks') = ToSet(acks) \cup {m}
  BY <1>10, <1>12, ChannelGets DEF StatusInv, StatusChannels
<1>14. handling' \in Plan /\ handling'.command = NoCommand /\ NoCommand \notin Commands
  <2>1. <<>> \in Seq(Stores)
    BY ChannelEmpty
  <2> QED BY <1>4, <2>1, StatusAssumption DEF NotHandling, Plan, NoCommand
<1>15. StatusTypes' /\ StatusChannels' /\ SentFirst' /\ PlanHolds'
  <2>1. StatusTypes'
    BY <1>4, <1>11, <1>14 DEF StatusInv, StatusTypes
  <2>2. StatusChannels' /\ SentFirst'
    BY <1>4, <1>13 DEF StatusInv, StatusChannels, SentFirst
  <2>3. PlanHolds'
    BY <1>14 DEF PlanHolds
  <2> QED BY <2>1, <2>2, <2>3
<1>16. /\ remembered[c] = NoAnswer
       /\ \A b \in ToSet(Targets[c]) : b \in Stores /\ wrote[<<c, b>>] > 0 /\ holder[b] = c
  <2>1. PICK t : t = handling.todo
    OBVIOUS
  <2>2. ToSet(t) = {}
    BY <1>4, <2>1, ChannelEmpty
  <2> QED BY <1>1, <1>7, <2>1, <2>2 DEF StatusInv, PlanHolds
<1>17. \A d : Done(d)' <=> Done(d)
  BY <1>4 DEF Done
<1>18. OkIsDone'
  <2>1. OkIsDone
    BY DEF StatusInv
  <2>2. Done(c) /\ m.command = c
    BY <1>3, <1>16 DEF Done
  <2>3. \A d \in Commands : remembered'[d].result = "ok" \/ "ok" \in heard'[d] => Done(d)
    BY <1>4, <1>11, <2>1, <2>2 DEF OkIsDone
  <2>4. \A a \in ToSet(acks') : a.result = "ok" => Done(a.command)
    BY <1>13, <2>1, <2>2 DEF OkIsDone
  <2> QED BY <1>17, <2>3, <2>4 DEF OkIsDone
<1>19. WritesCounted'
  <2>1. ASSUME NEW d \in Commands, NEW b \in Stores, remembered'[d] = NoAnswer PROVE wrote[<<d, b>>] <= restarts
    <3>1. d # c /\ remembered[d] = NoAnswer
      BY <1>10, <1>11, <2>1
    <3> QED BY <1>1, <3>1 DEF StatusInv, WritesCounted
  <2>2. WrittenOnce'
    BY <1>4 DEF StatusInv, WritesCounted, WrittenOnce
  <2> QED BY <1>4, <2>1, <2>2 DEF WritesCounted
<1>20. RejectedIsHarmless'
  BY <1>4, <1>10, <1>11 DEF StatusInv, RejectedIsHarmless
<1>21. AnswersAsRemembered'
  <2> SUFFICES ASSUME restarts = 0 PROVE AnswersAsRemembered'
    BY <1>4 DEF AnswersAsRemembered
  <2>1. /\ \A d \in Commands : \A x \in heard[d] : x = remembered[d].result /\ x \in {"ok", "error"}
        /\ \A a \in ToSet(acks) : a.result = remembered[a.command].result
        /\ \A d \in ToSet(rejects) : remembered[d].result = "error" /\ d \in Commands
    BY ChannelHolds DEF StatusInv, AnswersAsRemembered, StatusTypes, StatusChannels
  <2>2. \A a \in ToSet(acks) : a.command \in Commands /\ a.result \in {"ok", "error"}
    <3>1. ToSet(acks) \subseteq AckMsg
      BY ChannelHolds DEF StatusInv, StatusChannels
    <3> QED BY <3>1 DEF AckMsg
  <2>3. remembered[c].result = "nothing"
    BY <1>10, <1>16
  <2>4. \A d \in Commands : \A x \in heard[d] : x = remembered'[d].result
    BY <1>11, <2>1, <2>3
  <2>5. \A a \in ToSet(acks') : a.result = remembered'[a.command].result
    BY <1>3, <1>10, <1>11, <1>13, <2>1, <2>2, <2>3
  <2>6. \A d \in ToSet(rejects) : remembered'[d].result = "error"
    BY <1>11, <2>1, <2>3
  <2> QED BY <1>4, <2>4, <2>5, <2>6 DEF AnswersAsRemembered
<1>22. VersionsTold'
  <2> SUFFICES ASSUME restarts = 0 PROVE VersionsTold'
    BY <1>4 DEF VersionsTold
  <2>1. VersionsTold
    BY DEF StatusInv
  <2>2. \A v, b, d : Stands(v, b, d)' <=> Stands(v, b, d)
    BY <1>4 DEF Stands
  <2>3. \A b \in Stores : versions[b] > 0 => Stands(versions[b], b, c)
    <3> SUFFICES ASSUME NEW b \in Stores, versions[b] > 0 PROVE Stands(versions[b], b, c)
      OBVIOUS
    <3>1. b \in ToSet(Targets[c]) /\ versions[b] = version[b]
      BY <1>2
    <3>2. holder[b] = c /\ version[b] \in Nat
      BY <1>8, <1>16, <3>1
    <3> QED BY <3>1, <3>2 DEF Stands
  <2>4. \A a \in ToSet(acks') : \A b \in Stores : a.versions[b] > 0 => Stands(a.versions[b], b, a.command)
    BY <1>3, <1>13, <2>1, <2>3 DEF VersionsTold
  <2>5. \A d \in Commands, b \in Stores : remembered'[d].versions[b] > 0 => Stands(remembered'[d].versions[b], b, d)
    BY <1>10, <1>11, <2>1, <2>3 DEF VersionsTold
  <2>6. ASSUME NEW d \in Commands, NEW b \in Stores, remembered'[d].versions[b] > 0
        PROVE  Stands(remembered[d].versions[b], b, d)'
    <3>1. Stands(remembered'[d].versions[b], b, d)
      BY <2>5, <2>6
    <3> QED BY <1>4, <3>1 DEF Stands
  <2>7. (\A k \in known : Told(k))' /\ (\A d \in Commands : Told(basis[d]))'
    BY <1>4, <2>1 DEF VersionsTold, Told, Stands
  <2> QED BY <2>2, <2>4, <2>6, <2>7 DEF VersionsTold
<1> QED BY <1>15, <1>18, <1>19, <1>20, <1>21, <1>22 DEF StatusInv

LEMMA RestartMastermindKeeps == ASSUME StatusInv, RestartMastermind PROVE StatusInv'
<1>1. /\ commandsIn' = <<>> /\ handling' = NotHandling /\ version' = [b \in Stores |-> 0]
      /\ remembered' = [c \in Commands |-> NoAnswer] /\ restarts' = restarts + 1
      /\ UNCHANGED <<sent, basis, acks, rejects, heard, known, holder, wrote, broken>>
  BY DEF RestartMastermind, clientVars
<1>2. restarts \in Nat /\ restarts' \in Nat /\ restarts' # 0
  BY <1>1 DEF StatusInv, StatusTypes
<1>3. handling' \in Plan /\ handling'.command = NoCommand /\ NoCommand \notin Commands
  <2>1. <<>> \in Seq(Stores)
    BY ChannelEmpty
  <2> QED BY <1>1, <2>1, StatusAssumption DEF NotHandling, Plan, NoCommand
<1>4. StatusTypes'
  BY <1>1, <1>2, <1>3 DEF StatusInv, StatusTypes
<1>5. StatusChannels' /\ SentFirst'
  <2>1. commandsIn' \in Seq(Commands) /\ ToSet(commandsIn') = {}
    BY <1>1, ChannelEmpty
  <2> QED BY <1>1, <2>1 DEF StatusInv, StatusChannels, SentFirst
<1>6. PlanHolds'
  BY <1>3 DEF PlanHolds
<1>7. OkIsDone'
  <2>1. \A c \in Commands : remembered'[c].result = "nothing"
    BY <1>1 DEF NoAnswer
  <2> QED BY <1>1, <2>1 DEF StatusInv, OkIsDone, Done
<1>8. WritesCounted'
  <2>1. \A q \in Commands \X Stores : wrote[q] <= restarts + 1 /\ wrote[q] \in Nat
    BY <1>2 DEF StatusInv, StatusTypes, WritesCounted, WrittenOnce
  <2>2. \A c \in Commands, b \in Stores : wrote[<<c, b>>] <= restarts + 1
    BY <2>1
  <2>3. \A q \in Commands \X Stores : wrote[q] <= 1 + (restarts + 1)
    BY <1>2, <2>1
  <2> QED BY <1>1, <2>2, <2>3 DEF WritesCounted, WrittenOnce
<1>9. RejectedIsHarmless' /\ AnswersAsRemembered' /\ VersionsTold'
  BY <1>2 DEF RejectedIsHarmless, AnswersAsRemembered, VersionsTold
<1> QED BY <1>4, <1>5, <1>6, <1>7, <1>8, <1>9 DEF StatusInv

LEMMA StatusStep == StatusInv /\ [StatusNext]_statusVars => StatusInv'
<1> SUFFICES ASSUME StatusInv, [StatusNext]_statusVars PROVE StatusInv'
  OBVIOUS
<1>1. ASSUME NEW c \in Commands, PublishCommand(c) PROVE StatusInv'
  BY <1>1, SendKeeps
<1>2. CASE ClientStep
  BY <1>2, HearAckKeeps, HearRejectKeeps DEF ClientStep
<1>3. CASE MastermindStep
  BY <1>3, ReceiveCommandKeeps, WriteStoreKeeps, FinishCommandKeeps DEF MastermindStep
<1>4. CASE WriteFails \/ CommentFails
  BY <1>4, WriteFailsKeeps
<1>5. CASE RestartMastermind
  BY <1>5, RestartMastermindKeeps
<1>6. CASE UNCHANGED statusVars
  <2>1. ClientOnly /\ UNCHANGED <<sent, basis, commandsIn, acks, rejects, heard, known>>
    BY <1>6 DEF statusVars, clientVars, masterVars, ClientOnly
  <2>2. StatusTypes' /\ StatusChannels' /\ SentFirst'
    BY <2>1 DEF StatusInv, StatusTypes, StatusChannels, SentFirst, ClientOnly
  <2>3. PlanHolds' /\ OkIsDone'
    BY <2>1 DEF StatusInv, PlanHolds, OkIsDone, Done, ClientOnly
  <2>4. WritesCounted' /\ RejectedIsHarmless' /\ AnswersAsRemembered'
    BY <2>1 DEF StatusInv, WritesCounted, WrittenOnce, RejectedIsHarmless, AnswersAsRemembered, ClientOnly
  <2>5. VersionsTold'
    BY <2>1 DEF StatusInv, VersionsTold, Told, Stands, ClientOnly
  <2> QED BY <2>2, <2>3, <2>4, <2>5 DEF StatusInv
<1> QED BY <1>1, <1>2, <1>3, <1>4, <1>5, <1>6 DEF StatusNext

\* What a status command is answered is what was done, however often it is delivered and
\* whatever fails: "ok" means that every backend it names is written, an error that none is
\* (but for one that failed), and no backend is written twice for it in one life of the
\* mastermind (handleTaskStatusUpdate).
THEOREM AnswersAreTrue == StatusSpec => []AnswerIsTrue
<1>1. StatusInit => StatusInv
  BY StatusStart
<1>2. StatusInv /\ [StatusNext]_statusVars => StatusInv'
  BY StatusStep
<1>3. StatusInv => AnswerIsTrue
  <2> SUFFICES ASSUME StatusInv PROVE AnswerIsTrue
    OBVIOUS
  <2>1. AcknowledgedIsWritten
    BY DEF StatusInv, OkIsDone, Done, AcknowledgedIsWritten
  <2>2. WrittenOnce /\ RejectedIsHarmless
    BY DEF StatusInv, WritesCounted
  <2>3. ASSUME NEW c \in Commands, restarts = 0 PROVE Cardinality(heard[c]) <= 1
    <3>1. PICK x : x = remembered[c].result
      OBVIOUS
    <3>2. heard[c] \subseteq {x}
      BY <2>3, <3>1 DEF StatusInv, AnswersAsRemembered
    <3>3. IsFiniteSet({x}) /\ Cardinality({x}) = 1
      BY FS_Singleton
    <3> QED BY <3>2, <3>3, FS_Subset
  <2> QED BY <2>1, <2>2, <2>3 DEF AnswerIsTrue, AnswersAgree
<1> QED BY <1>1, <1>2, <1>3, PTL DEF StatusSpec

\* A write that expects a version overwrites the status that version stands for
\* (the version check of handleTaskStatusUpdate).  Two exceptions are part of the statement:
\* a status that has no version, because its write or the comment behind it was reported
\* failed (broken.stores), and a mastermind that was restarted.
THEOREM NoUpdateIsLost == StatusSpec => ExpectedIsOverwritten
<1> DEFINE Kept == \A c \in Commands, b \in Stores :
                      wrote'[<<c, b>>] > wrote[<<c, b>>] /\ basis[c].store = b
                      /\ b \notin broken.stores /\ restarts = 0
                          => holder[b] = basis[c].by
<1>1. StatusInit => StatusInv
  BY StatusStart
<1>2. StatusInv /\ [StatusNext]_statusVars => StatusInv'
  BY StatusStep
<1>3. StatusInv /\ [StatusNext]_statusVars => [Kept]_statusVars
  <2> SUFFICES ASSUME StatusInv, StatusNext, NEW c \in Commands, NEW b \in Stores,
                      wrote'[<<c, b>>] > wrote[<<c, b>>], basis[c].store = b,
                      b \notin broken.stores, restarts = 0
               PROVE  holder[b] = basis[c].by
    OBVIOUS
  <2>1. wrote[<<c, b>>] \in Nat
    BY DEF StatusInv, StatusTypes
  <2>2. wrote' # wrote
    BY <2>1
  <2>3. WriteStore \/ CommentFails \/ WriteFails
    BY <2>2 DEF StatusNext, ClientStep, MastermindStep, PublishCommand, HearAck, HearReject, masterVars,
                ReceiveCommand, FinishCommand, RestartMastermind
  <2>4. PICK d, s : d = handling.command /\ s = Head(handling.todo)
    OBVIOUS
  <2>5. handling.todo # <<>> /\ wrote' = [wrote EXCEPT ![<<d, s>>] = wrote[<<d, s>>] + 1]
    BY <2>2, <2>3, <2>4 DEF WriteStore, CommentFails, WriteFails
  <2>6. d \in Commands /\ s \in Stores /\ s \in ToSet(handling.todo)
    BY <2>4, <2>5, NextWrite
  <2>7. c = d /\ b = s
    BY <2>1, <2>5, <2>6 DEF StatusInv, StatusTypes
  <2>8. basis[c].version > 0 => version[b] = basis[c].version
    BY <2>4, <2>6, <2>7 DEF StatusInv, PlanHolds
  <2>9. Told(basis[c])
    BY DEF StatusInv, VersionsTold
  <2> QED BY <2>8, <2>9 DEF Told, Stands
<1>4. StatusSpec => []StatusInv
  BY <1>1, <1>2, PTL DEF StatusSpec
<1>5. StatusSpec => [][Kept]_statusVars
  BY <1>3, <1>4, PTL DEF StatusSpec
<1> QED BY <1>5 DEF ExpectedIsOverwritten

-----------------------------------------------------------------------------
(* Task graphs: GraphFeed.                                                  *)

\* What the sync loop publishes: graphs that have nodes.
Graphs(c) ==
    /\ c = [g \in DOMAIN c |-> c[g]]
    /\ \A g \in DOMAIN c : DOMAIN c[g] # {} /\ c[g] = [t \in DOMAIN c[g] |-> c[g][t]]

\* A diff applied to what it leads to changes nothing.
LEMMA DiffIsHarmless == ASSUME NEW p, NEW c, Graphs(c) PROVE Apply(c, DiffOf(p, c)) = c
<1> DEFINE d == DiffOf(p, c)
           upserts(g) == {t \in DOMAIN Nodes(c, g) :
                             t \notin DOMAIN Nodes(p, g) \/ Nodes(p, g)[t] # Nodes(c, g)[t]}
           deletes(g) == DOMAIN Nodes(p, g) \ DOMAIN Nodes(c, g)
           new(g) == IF g \in DOMAIN d THEN Changed(Nodes(c, g), d[g]) ELSE Nodes(c, g)
<1>1. \A g \in DOMAIN d : d[g] = [upsert |-> Restrict(Nodes(c, g), upserts(g)), delete |-> deletes(g)]
  BY DEF DiffOf
<1>2. \A g : Nodes(c, g) = [t \in DOMAIN Nodes(c, g) |-> Nodes(c, g)[t]]
  BY DEF Nodes, Graphs
<1>3. ASSUME NEW g PROVE new(g) = Nodes(c, g)
  <2>1. CASE g \notin DOMAIN d
    BY <2>1
  <2>2. CASE g \in DOMAIN d
    <3> DEFINE n == Nodes(c, g)
               u == upserts(g)
               x == deletes(g)
    <3>1. /\ d[g] = [upsert |-> [t \in u |-> n[t]], delete |-> x]
          /\ u \subseteq DOMAIN n /\ x \cap DOMAIN n = {}
      <4>1. d[g] = [upsert |-> Restrict(n, u), delete |-> x]
        BY <1>1, <2>2
      <4>2. u \subseteq DOMAIN n /\ x \cap DOMAIN n = {}
        OBVIOUS
      <4> HIDE DEF u, x, n, d
      <4> QED BY <4>1, <4>2 DEF Restrict
    <3> HIDE DEF n, d, u, x
    <3>2. /\ d[g].upsert = [t \in u |-> n[t]] /\ d[g].delete = x
          /\ DOMAIN d[g].upsert = u
      BY <3>1
    <3>3. DOMAIN d[g].upsert \cup (DOMAIN n \ d[g].delete) = DOMAIN n
      BY <3>1, <3>2
    <3>4. Changed(n, d[g]) = [t \in DOMAIN n |-> n[t]]
      BY <3>1, <3>2, <3>3 DEF Changed
    <3> QED BY <1>2, <2>2, <3>4 DEF n
  <2> QED BY <2>1, <2>2
<1>4. \A g : (DOMAIN Nodes(c, g) # {} <=> g \in DOMAIN c) /\ (g \in DOMAIN c => Nodes(c, g) = c[g])
  <2>1. DOMAIN <<>> = {}
    OBVIOUS
  <2> QED BY <2>1 DEF Nodes, Graphs
<1>5. Apply(c, d) = [g \in {r \in DOMAIN c \cup DOMAIN d : DOMAIN new(r) # {}} |-> new(g)]
  BY DEF Apply
<1> HIDE DEF d, new
<1>6. {r \in DOMAIN c \cup DOMAIN d : DOMAIN new(r) # {}} = DOMAIN c
  BY <1>3, <1>4
<1>7. Apply(c, d) = [g \in DOMAIN c |-> c[g]]
  BY <1>3, <1>4, <1>5, <1>6
<1> QED BY <1>7 DEF Graphs, d

\* A channel with what is in it.
Channel(c) == c \in Seq(ToSet(c)) /\ Len(c) <= FeedRoom

\* The snapshot of the last round.
IsNewest(m) == m.graphs = published /\ m.version <= feedVersion /\ m.version + 1 >= feedVersion

Diffs == ToSet(diffIn) \cup {e \in ToSet(output) : e.kind = "diff"}

FeedTypes ==
    /\ Channel(snapshotIn) /\ Channel(diffIn) /\ Channel(output)
    /\ feedVersion \in Nat /\ copyVersion \in Nat /\ copyVersion <= feedVersion
    /\ \A m \in ToSet(snapshotIn) \cup ToSet(diffIn) \cup ToSet(output) :
          m.version \in Nat /\ m.version <= feedVersion
    /\ \A e \in ToSet(output) : e.kind \in {"snapshot", "diff"}

\* Whoever has the newest graphs may apply the newest diff.
NewestIsHarmless == \A d \in Diffs : d.version = feedVersion => Apply(published, d.graphs) = published

AtTheSource == snapshotIn # <<>> /\ IsNewest(snapshotIn[Len(snapshotIn)])
Forwarded == \E i \in DOMAIN output :
                /\ output[i].kind = "snapshot" /\ IsNewest(output[i])
                /\ \A j \in DOMAIN output : j > i => output[j].kind = "diff"
Arrived == /\ copy = published /\ copyVersion + 1 >= feedVersion
           /\ \A e \in ToSet(output) : e.kind = "diff"

\* What the last round published is on its way, and nothing behind it is older.
NewestIsOnItsWay ==
    ~missed /\ syncs > 0 /\ SnapshotWanted(published) =>
        AtTheSource \/ (snapshotIn = <<>> /\ (Forwarded \/ Arrived))

FeedInv == FeedTypes /\ NewestIsHarmless /\ NewestIsOnItsWay

LEMMA FeedStart == FeedInit => FeedInv
<1> SUFFICES ASSUME FeedInit PROVE FeedInv
  OBVIOUS
<1>1. ToSet(<<>>) = {} /\ <<>> \in Seq(ToSet(<<>>)) /\ Len(<<>>) = 0
  BY ChannelEmpty
<1>2. FeedTypes
  BY <1>1, FeedAssumption DEF FeedTypes, Channel, FeedInit
<1>3. NewestIsHarmless /\ NewestIsOnItsWay
  BY <1>1 DEF FeedInit, NewestIsHarmless, NewestIsOnItsWay, Diffs
<1> QED BY <1>2, <1>3 DEF FeedInv

LEMMA OwnMessages == ASSUME NEW S, NEW c \in Seq(S) PROVE c \in Seq(ToSet(c))
<1>1. \A i \in 1 .. Len(c) : c[i] \in ToSet(c)
  BY DEF ToSet
<1> QED BY <1>1

\* What a channel gets, and what is taken from it.
LEMMA ChannelOpens ==
  ASSUME NEW c, Channel(c), c # <<>>
  PROVE  /\ Channel(Tail(c)) /\ Head(c) \in ToSet(c) /\ ToSet(Tail(c)) \subseteq ToSet(c)
         /\ Len(Tail(c)) = Len(c) - 1 /\ Len(c) \in Nat /\ Head(c) = c[1]
         /\ \A i \in 1 .. Len(c) - 1 : Tail(c)[i] = c[i + 1]
<1>1. c \in Seq(ToSet(c)) /\ Len(c) <= FeedRoom /\ FeedRoom \in Nat
  BY FeedAssumption DEF Channel
<1>2. /\ Tail(c) \in Seq(ToSet(c)) /\ Len(Tail(c)) = Len(c) - 1 /\ Len(c) \in Nat /\ Head(c) = c[1]
      /\ \A i \in 1 .. Len(c) - 1 : Tail(c)[i] = c[i + 1]
  BY <1>1
<1>3. Head(c) \in ToSet(c) /\ ToSet(Tail(c)) \subseteq ToSet(c)
  BY <1>1, ChannelTakes
<1>4. Tail(c) \in Seq(ToSet(Tail(c)))
  BY <1>2, OwnMessages, Zenon
<1> QED BY <1>1, <1>2, <1>3, <1>4 DEF Channel

LEMMA PublishAdds ==
  ASSUME NEW c, Channel(c), NEW e
  PROVE  /\ Channel(Publish(c, e)) /\ ToSet(Publish(c, e)) \subseteq ToSet(c) \cup {e}
         /\ Len(c) # FeedRoom => Publish(c, e) = Append(c, e) /\ Len(Append(c, e)) = Len(c) + 1
         /\ Len(c) \in Nat
         /\ \A i \in DOMAIN c : i \in DOMAIN Append(c, e) /\ Append(c, e)[i] = c[i]
         /\ Append(c, e)[Len(c) + 1] = e /\ DOMAIN Append(c, e) = DOMAIN c \cup {Len(c) + 1}
         /\ DOMAIN c = 1 .. Len(c)
<1>1. c \in Seq(ToSet(c)) /\ Len(c) <= FeedRoom /\ FeedRoom \in Nat
  BY FeedAssumption DEF Channel
<1> DEFINE S == ToSet(c) \cup {e}
<1>2. c \in Seq(S)
  <2>1. \A i \in 1 .. Len(c) : c[i] \in S
    BY <1>1
  <2> QED BY <1>1, <2>1
<1>3. /\ Len(Append(c, e)) = Len(c) + 1 /\ Len(c) \in Nat
      /\ \A i \in DOMAIN c : i \in DOMAIN Append(c, e) /\ Append(c, e)[i] = c[i]
      /\ Append(c, e)[Len(c) + 1] = e /\ DOMAIN Append(c, e) = DOMAIN c \cup {Len(c) + 1}
      /\ DOMAIN c = 1 .. Len(c)
  <2> HIDE DEF S
  <2> QED BY <1>2
<1>4. ToSet(Append(c, e)) = S
  <2>1. e \in S
    OBVIOUS
  <2> HIDE DEF S
  <2>2. ToSet(Append(c, e)) = ToSet(c) \cup {e}
    BY <1>2, <2>1, ChannelGets
  <2> QED BY <2>2 DEF S
<1>5. Append(c, e) \in Seq(S)
  BY <1>2
<1>6. CASE Len(c) < FeedRoom
  <2>1. Publish(c, e) = Append(c, e)
    BY <1>6 DEF Publish
  <2>2. Len(Append(c, e)) <= FeedRoom
    BY <1>1, <1>3, <1>6
  <2> HIDE DEF S
  <2>3. Channel(Append(c, e))
    BY <1>4, <1>5, <2>2 DEF Channel
  <2> QED BY <1>3, <1>4, <2>1, <2>3 DEF S
<1>7. CASE ~(Len(c) < FeedRoom)
  <2>1. Publish(c, e) = c
    BY <1>7 DEF Publish
  <2>2. Len(c) = FeedRoom
    <3>1. Len(c) \in Nat
      BY <1>3, Zenon
    <3>2. Len(c) <= FeedRoom /\ FeedRoom \in Nat
      BY <1>1, Zenon
    <3> QED BY <1>7, <3>1, <3>2
  <2> QED BY <1>3, <2>1, <2>2
<1> QED BY <1>6, <1>7

\* A round publishes a snapshot that is the newest, and a diff that leads to it.
LEMMA SyncGraphsKeeps == ASSUME FeedInv, SyncGraphs PROVE FeedInv'
<1> DEFINE diff == DiffOf(published, published')
           changed == DOMAIN diff # {}
           snapshot == [version |-> feedVersion + 1, graphs |-> published']
           change == [version |-> feedVersion + 2, graphs |-> diff]
<1>1. FeedTypes
  BY DEF FeedInv
<1>2. /\ snapshotIn' = Publish(snapshotIn, snapshot)
      /\ diffIn' = IF changed THEN Publish(diffIn, change) ELSE diffIn
      /\ feedVersion' = feedVersion + IF changed THEN 2 ELSE 1
      /\ missed' = (Len(snapshotIn) = FeedRoom \/ (changed /\ Len(diffIn) = FeedRoom))
      /\ UNCHANGED <<output, filter, copy, copyVersion>>
  BY DEF SyncGraphs
<1>3. PICK roots, trees :
         published' = [g \in {r \in roots : DOMAIN SnapshotOf(trees[r]) # {}} |-> SnapshotOf(trees[g])]
  BY DEF SyncGraphs
<1>4. Graphs(published')
  <2>1. \A tree : SnapshotOf(tree) = [t \in DOMAIN SnapshotOf(tree) |-> SnapshotOf(tree)[t]]
    BY DEF SnapshotOf, Restrict
  <2> QED BY <1>3, <2>1 DEF Graphs
<1>5. Apply(published', diff) = published'
  BY <1>4, DiffIsHarmless
<1>6. /\ snapshot.version = feedVersion + 1 /\ snapshot.graphs = published'
      /\ change.version = feedVersion + 2 /\ change.graphs = diff
  OBVIOUS
<1> HIDE DEF diff, snapshot, change
<1>7. /\ Channel(snapshotIn) /\ Channel(diffIn) /\ Channel(output)
      /\ feedVersion \in Nat /\ copyVersion \in Nat /\ copyVersion <= feedVersion
  BY <1>1 DEF FeedTypes
<1>8. /\ Channel(snapshotIn') /\ ToSet(snapshotIn') \subseteq ToSet(snapshotIn) \cup {snapshot}
      /\ Len(snapshotIn) # FeedRoom =>
            /\ snapshotIn' = Append(snapshotIn, snapshot)
            /\ Len(snapshotIn') = Len(snapshotIn) + 1 /\ Len(snapshotIn) \in Nat
            /\ snapshotIn'[Len(snapshotIn) + 1] = snapshot
  BY <1>2, <1>7, PublishAdds
<1>9. /\ Channel(diffIn')
      /\ ToSet(diffIn') \subseteq ToSet(diffIn) \cup (IF changed THEN {change} ELSE {})
  BY <1>2, <1>7, PublishAdds
<1>10. /\ feedVersion' \in Nat /\ feedVersion' > feedVersion /\ feedVersion + 1 <= feedVersion'
       /\ feedVersion + 2 >= feedVersion' /\ changed => feedVersion' = feedVersion + 2
  BY <1>2, <1>7
<1>11. FeedTypes'
  <2>1. \A m \in ToSet(snapshotIn) \cup ToSet(diffIn) \cup ToSet(output) :
           m.version \in Nat /\ m.version <= feedVersion'
    BY <1>1, <1>7, <1>10 DEF FeedTypes
  <2>2. snapshot.version \in Nat /\ snapshot.version <= feedVersion'
    BY <1>6, <1>7, <1>10
  <2>3. changed => change.version \in Nat /\ change.version <= feedVersion'
    BY <1>6, <1>7, <1>10
  <2>4. \A m \in ToSet(snapshotIn') \cup ToSet(diffIn') \cup ToSet(output') :
           m.version \in Nat /\ m.version <= feedVersion'
    BY <1>2, <1>8, <1>9, <2>1, <2>2, <2>3, Zenon
  <2>5. Channel(output') /\ ToSet(output') = ToSet(output)
    BY <1>2, <1>7
  <2>6. copyVersion' \in Nat /\ copyVersion' <= feedVersion'
    BY <1>2, <1>7, <1>10
  <2> QED BY <1>1, <1>8, <1>9, <1>10, <2>4, <2>5, <2>6 DEF FeedTypes
<1>12. NewestIsHarmless'
  <2> SUFFICES ASSUME NEW d \in Diffs', d.version = feedVersion' PROVE Apply(published', d.graphs) = published'
    BY DEF NewestIsHarmless
  <2>1. d \in ToSet(diffIn) \cup ToSet(output) => d.version <= feedVersion /\ d.version \in Nat
    BY <1>1 DEF FeedTypes
  <2>2. d \notin ToSet(diffIn) \cup ToSet(output)
    BY <1>7, <1>10, <2>1
  <2>3. d \in ToSet(diffIn') \cup ToSet(output)
    BY <1>2 DEF Diffs
  <2>4. d = change
    BY <1>9, <2>2, <2>3
  <2> QED BY <1>5, <1>6, <2>4
<1>13. NewestIsOnItsWay'
  <2> SUFFICES ASSUME ~missed' PROVE AtTheSource'
    BY DEF NewestIsOnItsWay
  <2>1. Len(snapshotIn) # FeedRoom
    BY <1>2
  <2>2. /\ snapshotIn' = Append(snapshotIn, snapshot) /\ Len(snapshotIn') = Len(snapshotIn) + 1
        /\ snapshotIn'[Len(snapshotIn')] = snapshot
    BY <1>8, <2>1
  <2>3. snapshotIn' # <<>>
    <3>1. Len(snapshotIn') # 0
      BY <1>8, <2>1
    <3> QED BY <3>1
  <2>4. snapshot.graphs = published' /\ snapshot.version <= feedVersion' /\ snapshot.version + 1 >= feedVersion'
    <3>1. feedVersion + 1 <= feedVersion' /\ (feedVersion + 1) + 1 >= feedVersion'
      <4>1. feedVersion' = feedVersion + 1 \/ feedVersion' = feedVersion + 2
        BY <1>2
      <4>2. feedVersion \in Nat
        BY <1>7
      <4> QED BY <4>1, <4>2
    <3> QED BY <1>6, <3>1
  <2> QED BY <2>2, <2>3, <2>4 DEF AtTheSource, IsNewest
<1> QED BY <1>11, <1>12, <1>13 DEF FeedInv

\* A snapshot that is wanted goes to the end of the output, or is missed.
LEMMA ForwardSnapshotKeeps == ASSUME FeedInv, ForwardSnapshot PROVE FeedInv'
<1> DEFINE s == Head(snapshotIn)
           e == [kind |-> "snapshot", version |-> s.version, graphs |-> s.graphs]
<1>1. FeedTypes /\ NewestIsHarmless /\ NewestIsOnItsWay
  BY DEF FeedInv
<1>2. /\ snapshotIn # <<>> /\ snapshotIn' = Tail(snapshotIn)
      /\ UNCHANGED <<published, feedVersion, diffIn, filter, copy, copyVersion, syncs>>
      /\ IF SnapshotWanted(s.graphs)
         THEN output' = Publish(output, e) /\ missed' = (missed \/ Len(output) = FeedRoom)
         ELSE UNCHANGED <<output, missed>>
  BY DEF ForwardSnapshot
<1>3. e.kind = "snapshot" /\ e.version = s.version /\ e.graphs = s.graphs
  OBVIOUS
<1> HIDE DEF e, s
<1>4. Channel(snapshotIn) /\ Channel(output)
  BY <1>1 DEF FeedTypes
<1>5. /\ Channel(snapshotIn') /\ s \in ToSet(snapshotIn) /\ ToSet(snapshotIn') \subseteq ToSet(snapshotIn)
      /\ Len(snapshotIn') = Len(snapshotIn) - 1 /\ Len(snapshotIn) \in Nat /\ s = snapshotIn[1]
      /\ \A i \in 1 .. Len(snapshotIn) - 1 : snapshotIn'[i] = snapshotIn[i + 1]
  BY <1>2, <1>4, ChannelOpens DEF s
<1>6. /\ Channel(output') /\ ToSet(output') \subseteq ToSet(output) \cup {e}
  BY <1>2, <1>4, PublishAdds
<1>7. FeedTypes'
  <2>1. e.version \in Nat /\ e.version <= feedVersion
    BY <1>1, <1>3, <1>5 DEF FeedTypes
  <2>2. /\ Channel(diffIn') /\ feedVersion' \in Nat /\ copyVersion' \in Nat /\ copyVersion' <= feedVersion'
    BY <1>1, <1>2 DEF FeedTypes
  <2>3. \A m \in ToSet(snapshotIn') \cup ToSet(diffIn') \cup ToSet(output') :
           m.version \in Nat /\ m.version <= feedVersion'
    BY <1>1, <1>2, <1>5, <1>6, <2>1 DEF FeedTypes
  <2>4. \A x \in ToSet(output') : x.kind \in {"snapshot", "diff"}
    BY <1>1, <1>3, <1>6 DEF FeedTypes
  <2> QED BY <1>5, <1>6, <2>2, <2>3, <2>4 DEF FeedTypes
<1>8. NewestIsHarmless'
  <2>1. Diffs' \subseteq Diffs
    BY <1>2, <1>3, <1>6 DEF Diffs
  <2> QED BY <1>1, <1>2, <2>1 DEF NewestIsHarmless
<1>9. NewestIsOnItsWay'
  <2> SUFFICES ASSUME ~missed', syncs > 0, SnapshotWanted(published)
               PROVE  AtTheSource' \/ (snapshotIn' = <<>> /\ Forwarded')
    BY <1>2 DEF NewestIsOnItsWay, SnapshotWanted, WantsBackend, WantsOneOf
  <2>1. AtTheSource
    BY <1>1, <1>2 DEF NewestIsOnItsWay
  <2>2. IsNewest(snapshotIn[Len(snapshotIn)])
    BY <2>1 DEF AtTheSource
  <2>3. CASE Len(snapshotIn) > 1
    <3>1. Len(snapshotIn') > 0 /\ snapshotIn'[Len(snapshotIn')] = snapshotIn[Len(snapshotIn)]
      BY <1>5, <2>3
    <3>2. snapshotIn' # <<>>
      BY <3>1
    <3> QED BY <1>2, <2>2, <3>1, <3>2 DEF AtTheSource, IsNewest
  <2>4. CASE ~(Len(snapshotIn) > 1)
    <3>1. Len(snapshotIn) = 1
      <4>1. Len(snapshotIn) # 0
        BY <1>2, <1>4 DEF Channel
      <4> QED BY <1>5, <2>4, <4>1
    <3>2. snapshotIn' = <<>>
      <4>1. Len(snapshotIn') = 0
        BY <1>5, <3>1
      <4> QED BY <1>5, <4>1 DEF Channel
    <3>3. IsNewest(s) /\ SnapshotWanted(s.graphs)
      BY <1>5, <2>2, <3>1 DEF IsNewest
    <3>4. Len(output) # FeedRoom /\ output' = Publish(output, e)
      BY <1>2, <3>3
    <3>5. output' = Append(output, e)
      BY <1>4, <3>4, PublishAdds
    <3>6. /\ Len(output) \in Nat /\ output'[Len(output) + 1] = e
          /\ DOMAIN output' = DOMAIN output \cup {Len(output) + 1} /\ DOMAIN output = 1 .. Len(output)
      BY <1>4, <3>5, PublishAdds
    <3>7. e.graphs = published' /\ e.version <= feedVersion' /\ e.version + 1 >= feedVersion'
      BY <1>2, <1>3, <3>3 DEF IsNewest
    <3>8. PICK i : i = Len(output) + 1
      OBVIOUS
    <3>9. i \in DOMAIN output' /\ \A j \in DOMAIN output' : ~(j > i)
      <4>1. \A j \in 1 .. Len(output) : ~(j > i)
        BY <3>6, <3>8
      <4>2. ~(i > i)
        BY <3>6, <3>8
      <4> QED BY <3>6, <3>8, <4>1, <4>2
    <3>10. output'[i] = e
      BY <3>6, <3>8
    <3>11. Forwarded'
      BY <1>3, <3>7, <3>9, <3>10 DEF Forwarded, IsNewest
    <3> QED BY <3>2, <3>11
  <2> QED BY <2>3, <2>4
<1> QED BY <1>7, <1>8, <1>9 DEF FeedInv

\* A diff goes behind the newest snapshot.
LEMMA ForwardDiffKeeps == ASSUME FeedInv, ForwardDiff PROVE FeedInv'
<1> DEFINE d == Head(diffIn)
           e == [kind |-> "diff", version |-> d.version, graphs |-> d.graphs]
<1>1. FeedTypes /\ NewestIsHarmless /\ NewestIsOnItsWay
  BY DEF FeedInv
<1>2. /\ diffIn # <<>> /\ diffIn' = Tail(diffIn)
      /\ UNCHANGED <<published, feedVersion, snapshotIn, filter, copy, copyVersion, syncs>>
      /\ \/ output' = Publish(output, e) /\ missed' = (missed \/ Len(output) = FeedRoom)
         \/ UNCHANGED <<output, missed>>
  BY DEF ForwardDiff
<1>3. e.kind = "diff" /\ e.version = d.version /\ e.graphs = d.graphs
  OBVIOUS
<1> HIDE DEF e, d
<1>4. Channel(diffIn) /\ Channel(output)
  BY <1>1 DEF FeedTypes
<1>5. Channel(diffIn') /\ d \in ToSet(diffIn) /\ ToSet(diffIn') \subseteq ToSet(diffIn)
  BY <1>2, <1>4, ChannelOpens DEF d
<1>6. Channel(output') /\ ToSet(output') \subseteq ToSet(output) \cup {e}
  BY <1>2, <1>4, PublishAdds
<1>7. FeedTypes'
  <2>1. e.version \in Nat /\ e.version <= feedVersion
    BY <1>1, <1>3, <1>5 DEF FeedTypes
  <2>2. /\ Channel(snapshotIn') /\ feedVersion' \in Nat /\ copyVersion' \in Nat /\ copyVersion' <= feedVersion'
    BY <1>1, <1>2 DEF FeedTypes
  <2>3. \A m \in ToSet(snapshotIn') \cup ToSet(diffIn') \cup ToSet(output') :
           m.version \in Nat /\ m.version <= feedVersion'
    BY <1>1, <1>2, <1>5, <1>6, <2>1 DEF FeedTypes
  <2>4. \A x \in ToSet(output') : x.kind \in {"snapshot", "diff"}
    BY <1>1, <1>3, <1>6 DEF FeedTypes
  <2> QED BY <1>5, <1>6, <2>2, <2>3, <2>4 DEF FeedTypes
<1>8. NewestIsHarmless'
  <2>1. Diffs' \subseteq Diffs \cup {e} /\ d \in Diffs
    BY <1>5, <1>6 DEF Diffs
  <2> QED BY <1>1, <1>2, <1>3, <2>1 DEF NewestIsHarmless
<1>9. \/ output' = output
      \/ /\ DOMAIN output \subseteq DOMAIN output' /\ \A i \in DOMAIN output : output'[i] = output[i]
         /\ \A j \in DOMAIN output' : j \in DOMAIN output \/ output'[j] = e
  <2>1. CASE output' = Publish(output, e) /\ Len(output) # FeedRoom
    <3>1. output' = Append(output, e)
      BY <1>4, <2>1, PublishAdds
    <3> QED BY <1>4, <3>1, PublishAdds
  <2>2. CASE output' = Publish(output, e) /\ Len(output) = FeedRoom
    <3>1. ~(Len(output) < FeedRoom)
      BY <1>4, <2>2, PublishAdds
    <3> QED BY <2>2, <3>1 DEF Publish
  <2> QED BY <1>2, <2>1, <2>2
<1>10. NewestIsOnItsWay'
  <2> SUFFICES ASSUME ~missed', syncs > 0, SnapshotWanted(published)
               PROVE  AtTheSource' \/ (snapshotIn' = <<>> /\ (Forwarded' \/ Arrived'))
    BY <1>2 DEF NewestIsOnItsWay, SnapshotWanted, WantsBackend, WantsOneOf
  <2>1. AtTheSource \/ (snapshotIn = <<>> /\ (Forwarded \/ Arrived))
    <3>1. ~missed
      BY <1>2, Zenon
    <3> QED BY <1>1, <3>1 DEF NewestIsOnItsWay
  <2>2. CASE AtTheSource
    BY <1>2, <2>2 DEF AtTheSource, IsNewest
  <2>3. CASE snapshotIn = <<>> /\ Forwarded
    <3>1. PICK i \in DOMAIN output :
             /\ output[i].kind = "snapshot" /\ IsNewest(output[i])
             /\ \A j \in DOMAIN output : j > i => output[j].kind = "diff"
      BY <2>3 DEF Forwarded
    <3>2. /\ i \in DOMAIN output' /\ output'[i] = output[i]
          /\ \A j \in DOMAIN output' : j > i => output'[j].kind = "diff"
      BY <1>3, <1>9, <3>1
    <3>3. output'[i].graphs = published' /\ output'[i].version <= feedVersion' /\ output'[i].version + 1 >= feedVersion'
      BY <1>2, <3>1, <3>2 DEF IsNewest
    <3> QED BY <1>2, <2>3, <3>1, <3>2, <3>3 DEF Forwarded, IsNewest
  <2>4. CASE snapshotIn = <<>> /\ Arrived
    BY <1>2, <1>3, <1>6, <2>4 DEF Arrived
  <2> QED BY <2>1, <2>2, <2>3, <2>4
<1> QED BY <1>7, <1>8, <1>10 DEF FeedInv

\* The newest snapshot is taken, whatever came before; the newest diff does no harm.
LEMMA ReadEventKeeps == ASSUME FeedInv, ReadEvent PROVE FeedInv'
<1>1. FeedTypes /\ NewestIsHarmless /\ NewestIsOnItsWay
  BY DEF FeedInv
<1>2. PICK e : e = Head(output)
  OBVIOUS
<1>3. /\ output # <<>> /\ output' = Tail(output)
      /\ UNCHANGED <<published, feedVersion, snapshotIn, diffIn, filter, missed, syncs>>
      /\ \/ /\ e.kind = "snapshot" /\ e.version + 1 >= copyVersion
            /\ copy' = e.graphs /\ copyVersion' = e.version
         \/ /\ e.kind = "diff" /\ e.version > copyVersion
            /\ copy' = Apply(copy, e.graphs) /\ copyVersion' = e.version
         \/ /\ e.version + (IF e.kind = "snapshot" THEN 1 ELSE 0) < copyVersion
            /\ UNCHANGED <<copy, copyVersion>>
  BY <1>2 DEF ReadEvent
<1>4. Channel(output)
  BY <1>1 DEF FeedTypes
<1>5. /\ Channel(output') /\ e \in ToSet(output) /\ ToSet(output') \subseteq ToSet(output)
      /\ Len(output') = Len(output) - 1 /\ Len(output) \in Nat /\ e = output[1]
      /\ \A i \in 1 .. Len(output) - 1 : output'[i] = output[i + 1]
  BY <1>2, <1>3, <1>4, ChannelOpens
<1>6. /\ feedVersion \in Nat /\ copyVersion \in Nat /\ copyVersion <= feedVersion
      /\ e.version \in Nat /\ e.version <= feedVersion
  BY <1>1, <1>5 DEF FeedTypes
<1>7. FeedTypes'
  <2>1. copyVersion' \in Nat /\ copyVersion' <= feedVersion'
    BY <1>3, <1>6
  <2>2. Channel(snapshotIn') /\ Channel(diffIn') /\ feedVersion' \in Nat
    BY <1>1, <1>3 DEF FeedTypes
  <2>3. \A m \in ToSet(snapshotIn') \cup ToSet(diffIn') \cup ToSet(output') :
           m.version \in Nat /\ m.version <= feedVersion'
    BY <1>1, <1>3, <1>5 DEF FeedTypes
  <2>4. \A x \in ToSet(output') : x.kind \in {"snapshot", "diff"}
    BY <1>1, <1>5 DEF FeedTypes
  <2> QED BY <1>5, <2>1, <2>2, <2>3, <2>4 DEF FeedTypes
<1>8. NewestIsHarmless'
  <2>1. Diffs' \subseteq Diffs
    BY <1>3, <1>5 DEF Diffs
  <2> QED BY <1>1, <1>3, <2>1 DEF NewestIsHarmless
<1>9. NewestIsOnItsWay'
  <2> SUFFICES ASSUME ~missed, syncs > 0, SnapshotWanted(published)
               PROVE  AtTheSource' \/ (snapshotIn' = <<>> /\ (Forwarded' \/ Arrived'))
    BY <1>3 DEF NewestIsOnItsWay, SnapshotWanted, WantsBackend, WantsOneOf
  <2>1. AtTheSource \/ (snapshotIn = <<>> /\ (Forwarded \/ Arrived))
    BY <1>1 DEF NewestIsOnItsWay
  <2>2. CASE AtTheSource
    BY <1>3, <2>2 DEF AtTheSource, IsNewest
  <2>3. CASE snapshotIn = <<>> /\ Forwarded
    <3>1. PICK i \in DOMAIN output :
             /\ output[i].kind = "snapshot" /\ IsNewest(output[i])
             /\ \A j \in DOMAIN output : j > i => output[j].kind = "diff"
      BY <2>3 DEF Forwarded
    <3>2. DOMAIN output = 1 .. Len(output) /\ DOMAIN output' = 1 .. Len(output')
      BY <1>4, <1>5 DEF Channel
    <3>3. i \in Nat /\ i >= 1 /\ i <= Len(output)
      BY <1>5, <3>1, <3>2
    <3>4. CASE i = 1
      <4>1. e.kind = "snapshot" /\ e.graphs = published /\ e.version + 1 >= feedVersion
        BY <1>5, <3>1, <3>4 DEF IsNewest
      <4>2. e.version + 1 >= copyVersion
        BY <1>6, <4>1
      <4>3. copy' = e.graphs /\ copyVersion' = e.version
        BY <1>3, <1>6, <4>1, <4>2
      <4>4. \A x \in ToSet(output') : x.kind = "diff"
        <5> SUFFICES ASSUME NEW k \in 1 .. Len(output') PROVE output'[k].kind = "diff"
          BY <3>2 DEF ToSet
        <5>1. k + 1 \in 1 .. Len(output) /\ output'[k] = output[k + 1] /\ k + 1 > i
          BY <1>5, <3>4
        <5> QED BY <3>1, <3>2, <5>1
      <4> QED BY <1>3, <2>3, <4>1, <4>3, <4>4 DEF Arrived
    <3>5. CASE i # 1
      <4>1. i - 1 \in 1 .. Len(output') /\ output'[i - 1] = output[i]
        <5>1. i - 1 \in 1 .. Len(output) - 1 /\ (i - 1) + 1 = i
          BY <1>5, <3>3, <3>5
        <5>2. output'[i - 1] = output[(i - 1) + 1]
          BY <1>5, <5>1
        <5> QED BY <1>5, <5>1, <5>2
      <4>2. ASSUME NEW k \in 1 .. Len(output'), k > i - 1 PROVE output'[k].kind = "diff"
        <5>1. k + 1 \in 1 .. Len(output) /\ output'[k] = output[k + 1] /\ k + 1 > i
          BY <1>5, <3>3, <4>2
        <5> QED BY <3>1, <3>2, <5>1
      <4>3. /\ output'[i - 1].kind = "snapshot" /\ output'[i - 1].graphs = published'
            /\ output'[i - 1].version <= feedVersion' /\ output'[i - 1].version + 1 >= feedVersion'
        BY <1>3, <3>1, <4>1 DEF IsNewest
      <4>4. Forwarded'
        BY <3>2, <4>1, <4>2, <4>3 DEF Forwarded, IsNewest
      <4> QED BY <1>3, <2>3, <4>4
    <3> QED BY <3>4, <3>5
  <2>4. CASE snapshotIn = <<>> /\ Arrived
    <3>1. /\ copy = published /\ copyVersion + 1 >= feedVersion /\ e.kind = "diff"
          /\ \A x \in ToSet(output') : x.kind = "diff"
      BY <1>5, <2>4 DEF Arrived
    <3>2. CASE e.version > copyVersion
      <4>1. e.version = feedVersion
        BY <1>6, <3>1, <3>2
      <4>2. copy' = Apply(copy, e.graphs) /\ copyVersion' = feedVersion
        BY <1>3, <1>6, <3>1, <3>2, <4>1
      <4>3. Apply(published, e.graphs) = published
        BY <1>1, <1>5, <3>1, <4>1 DEF NewestIsHarmless, Diffs
      <4>4. feedVersion + 1 >= feedVersion
        BY <1>6
      <4> QED BY <1>3, <2>4, <3>1, <4>2, <4>3, <4>4 DEF Arrived
    <3>3. CASE ~(e.version > copyVersion)
      <4>1. UNCHANGED <<copy, copyVersion>>
        BY <1>3, <3>1, <3>3
      <4> QED BY <1>3, <2>4, <3>1, <4>1 DEF Arrived
    <3> QED BY <3>2, <3>3
  <2> QED BY <2>1, <2>2, <2>3, <2>4
<1> QED BY <1>7, <1>8, <1>9 DEF FeedInv

LEMMA FeedStep == FeedInv /\ [FeedNext]_feedVars => FeedInv'
<1> SUFFICES ASSUME FeedInv, [FeedNext]_feedVars PROVE FeedInv'
  OBVIOUS
<1>1. CASE UNCHANGED feedVars
  <2>1. UNCHANGED <<published, feedVersion, snapshotIn, diffIn, output, filter, copy, copyVersion, missed, syncs>>
    BY <1>1 DEF feedVars
  <2>2. FeedTypes' /\ NewestIsHarmless'
    BY <2>1 DEF FeedInv, FeedTypes, Channel, NewestIsHarmless, Diffs
  <2>3. NewestIsOnItsWay'
    BY <2>1 DEF FeedInv, NewestIsOnItsWay, AtTheSource, Forwarded, Arrived, IsNewest, SnapshotWanted,
                WantsBackend, WantsOneOf
  <2> QED BY <2>2, <2>3 DEF FeedInv
<1> QED BY <1>1, SyncGraphsKeeps, ForwardSnapshotKeeps, ForwardDiffKeeps, ReadEventKeeps DEF FeedNext

\* A consumer that got all of the last round has the graphs as they are published, whatever
\* it missed before and in whatever order snapshot and diff came, for any trees, filter and
\* room in the channels; unless nothing it asked for is left (SubscribeTaskGraph).
THEOREM CopiesAreCurrent == FeedSpec => []CopyIsCurrent
<1>1. FeedInv => CopyIsCurrent
  <2> SUFFICES ASSUME FeedInv, Delivered, ~missed, syncs > 0, SnapshotWanted(published) PROVE copy = published
    BY DEF CopyIsCurrent
  <2>1. Forwarded \/ Arrived
    BY DEF FeedInv, NewestIsOnItsWay, Delivered, AtTheSource
  <2>2. ~Forwarded
    BY DEF Forwarded, Delivered
  <2> QED BY <2>1, <2>2 DEF Arrived
<1> QED BY <1>1, FeedStart, FeedStep, PTL DEF FeedSpec

-----------------------------------------------------------------------------
(* The sinks of a run's events: EventSinks.                                 *)

Kinds == {"output", "other"}

Lines == [id : Nat, coalesced : Nat, dropped : Nat]

\* Lines in the order of their events, the last of which is at most n.
InOrderUpTo(s, n) ==
    /\ s \in Seq(Lines)
    /\ \A i, j \in DOMAIN s : i < j => s[i].id < s[j].id
    /\ \A i \in DOMAIN s : s[i].id <= n

\* Each of the lines stands for what came after the line before it.
Tiles(s, k) ==
    \A i \in DOMAIN s :
        /\ s[i].id = Before(s, i) + 1 + s[i].coalesced + s[i].dropped
        /\ s[i].id # Before(s, i) + 1 => \A x \in Before(s, i) + 1 .. s[i].id : k[x] = "output"

LastOf(s) == Before(s, Len(s) + 1)

LEMMA LinesHave ==
  ASSUME NEW s \in Seq(Lines)
  PROVE  /\ DOMAIN s = 1 .. Len(s) /\ Len(s) \in Nat
         /\ \A i \in DOMAIN s : s[i] \in Lines /\ s[i].id \in Nat
<1>1. DOMAIN s = 1 .. Len(s) /\ Len(s) \in Nat /\ \A i \in DOMAIN s : s[i] \in Lines
  OBVIOUS
<1>2. \A line \in Lines : line.id \in Nat
  BY DEF Lines
<1> QED BY <1>1, <1>2

LEMMA LineAdded ==
  ASSUME NEW s, NEW n \in Nat, InOrderUpTo(s, n), NEW line \in Lines, NEW m \in Nat, line.id > n, m >= line.id
  PROVE  InOrderUpTo(Append(s, line), m)
<1>1. s \in Seq(Lines) /\ Append(s, line) \in Seq(Lines)
  BY DEF InOrderUpTo
<1>2. /\ \A k \in DOMAIN s : Append(s, line)[k] = s[k] /\ s[k].id \in Nat /\ s[k].id <= n
      /\ Append(s, line)[Len(s) + 1] = line
      /\ DOMAIN Append(s, line) = DOMAIN s \cup {Len(s) + 1} /\ DOMAIN s = 1 .. Len(s) /\ Len(s) \in Nat
  <2>1. \A k \in DOMAIN s : s[k].id \in Nat
    BY <1>1, LinesHave
  <2> QED BY <1>1, <2>1 DEF InOrderUpTo
<1>3. line.id \in Nat
  BY DEF Lines
<1>4. ASSUME NEW i \in DOMAIN Append(s, line), NEW j \in DOMAIN Append(s, line), i < j
      PROVE  Append(s, line)[i].id < Append(s, line)[j].id
  <2>1. i \in DOMAIN s
    BY <1>2, <1>4
  <2>2. CASE j \in DOMAIN s
    BY <1>2, <1>4, <2>1, <2>2 DEF InOrderUpTo
  <2>3. CASE j = Len(s) + 1
    <3>1. s[i].id < line.id
      BY <1>2, <1>3, <2>1
    <3> QED BY <1>2, <2>1, <2>3, <3>1
  <2> QED BY <1>2, <2>2, <2>3
<1>5. ASSUME NEW i \in DOMAIN Append(s, line) PROVE Append(s, line)[i].id <= m
  <2>1. CASE i \in DOMAIN s
    <3>1. s[i].id <= m
      BY <1>2, <1>3, <2>1
    <3> QED BY <1>2, <2>1, <3>1
  <2>2. CASE i = Len(s) + 1
    BY <1>2, <2>2
  <2> QED BY <1>2, <2>1, <2>2
<1> QED BY <1>1, <1>4, <1>5 DEF InOrderUpTo

LEMMA LastIsKnown ==
  ASSUME NEW s \in Seq(Lines)
  PROVE  /\ LastOf(s) \in Nat /\ \A i \in DOMAIN s : Before(s, i) \in Nat
         /\ \A n \in Nat : InOrderUpTo(s, n) => LastOf(s) <= n
<1>1. DOMAIN s = 1 .. Len(s) /\ Len(s) \in Nat /\ \A i \in DOMAIN s : s[i].id \in Nat
  BY LinesHave
<1>2. ASSUME NEW i \in DOMAIN s PROVE Before(s, i) \in Nat
  <2>1. CASE i = 1
    BY <2>1 DEF Before
  <2>2. CASE i # 1
    <3>1. i - 1 \in DOMAIN s
      BY <1>1, <2>2
    <3> QED BY <1>1, <2>2, <3>1 DEF Before
  <2> QED BY <2>1, <2>2
<1>3. LastOf(s) = IF Len(s) = 0 THEN 0 ELSE s[Len(s)].id
  BY <1>1 DEF LastOf, Before
<1>4. Len(s) # 0 => Len(s) \in DOMAIN s
  BY <1>1
<1>5. LastOf(s) \in Nat
  BY <1>1, <1>3, <1>4
<1>6. ASSUME NEW n \in Nat, InOrderUpTo(s, n) PROVE LastOf(s) <= n
  <2>1. CASE Len(s) = 0
    BY <1>3, <2>1
  <2>2. CASE Len(s) # 0
    BY <1>3, <1>4, <1>6, <2>2 DEF InOrderUpTo
  <2> QED BY <2>1, <2>2
<1> QED BY <1>2, <1>5, <1>6

\* Lines stay what they are when events come.
LEMMA TilesGrow ==
  ASSUME NEW s, NEW k \in Seq(Kinds), NEW n \in Nat, n <= Len(k), InOrderUpTo(s, n), Tiles(s, k), NEW x
  PROVE  Tiles(s, Append(k, x))
<1>1. s \in Seq(Lines) /\ \A i \in DOMAIN s : s[i].id <= n /\ s[i].id \in Nat
  BY LinesHave DEF InOrderUpTo
<1>2. \A i \in DOMAIN s : Before(s, i) \in Nat
  BY <1>1, LastIsKnown
<1>3. \A y \in 1 .. Len(k) : Append(k, x)[y] = k[y]
  OBVIOUS
<1>4. ASSUME NEW i \in DOMAIN s, s[i].id # Before(s, i) + 1, NEW y \in Before(s, i) + 1 .. s[i].id
      PROVE  Append(k, x)[y] = "output"
  <2>1. k[y] = "output"
    BY <1>4 DEF Tiles
  <2>2. y \in 1 .. Len(k)
    BY <1>1, <1>2, <1>4
  <2> QED BY <1>3, <2>1, <2>2
<1> QED BY <1>4 DEF Tiles

LEMMA TilesAdd ==
  ASSUME NEW s \in Seq(Lines), NEW k, Tiles(s, k), NEW line \in Lines,
         line.id = LastOf(s) + 1 + line.coalesced + line.dropped,
         line.id # LastOf(s) + 1 => \A x \in LastOf(s) + 1 .. line.id : k[x] = "output"
  PROVE  Tiles(Append(s, line), k) /\ LastOf(Append(s, line)) = line.id
<1>1. /\ \A i \in DOMAIN s : Append(s, line)[i] = s[i]
      /\ Append(s, line)[Len(s) + 1] = line /\ Len(Append(s, line)) = Len(s) + 1
      /\ DOMAIN Append(s, line) = DOMAIN s \cup {Len(s) + 1} /\ DOMAIN s = 1 .. Len(s) /\ Len(s) \in Nat
  OBVIOUS
<1>2. \A i \in DOMAIN s : Before(Append(s, line), i) = Before(s, i)
  <2>1. \A i \in DOMAIN s : i # 1 => i - 1 \in DOMAIN s
    BY <1>1
  <2> QED BY <1>1, <2>1 DEF Before
<1>3. Before(Append(s, line), Len(s) + 1) = LastOf(s)
  <2>1. Len(s) + 1 # 1 => (Len(s) + 1) - 1 \in DOMAIN s
    BY <1>1
  <2> QED BY <1>1, <2>1 DEF Before, LastOf
<1>4. LastOf(Append(s, line)) = line.id
  <2>1. (Len(s) + 1) + 1 # 1 /\ ((Len(s) + 1) + 1) - 1 = Len(s) + 1
    BY <1>1
  <2> QED BY <1>1, <2>1 DEF LastOf, Before
<1>5. ASSUME NEW i \in DOMAIN Append(s, line)
      PROVE  /\ Append(s, line)[i].id = Before(Append(s, line), i) + 1 + Append(s, line)[i].coalesced + Append(s, line)[i].dropped
             /\ Append(s, line)[i].id # Before(Append(s, line), i) + 1 =>
                   \A x \in Before(Append(s, line), i) + 1 .. Append(s, line)[i].id : k[x] = "output"
  <2>1. CASE i \in DOMAIN s
    BY <1>1, <1>2, <2>1 DEF Tiles
  <2>2. CASE i = Len(s) + 1
    BY <1>1, <1>3, <2>2
  <2> QED BY <1>1, <2>1, <2>2
<1> QED BY <1>4, <1>5 DEF Tiles

LEMMA UpToMore ==
  ASSUME NEW s, NEW n \in Nat, NEW m \in Nat, n <= m, InOrderUpTo(s, n)
  PROVE  InOrderUpTo(s, m)
<1>1. s \in Seq(Lines)
  BY DEF InOrderUpTo
<1>2. \A i \in DOMAIN s : s[i].id \in Nat /\ s[i].id <= n
  BY <1>1, LinesHave DEF InOrderUpTo
<1>3. \A i \in DOMAIN s : s[i].id <= m
  BY <1>2
<1> QED BY <1>1, <1>3 DEF InOrderUpTo

SinkTypes ==
    /\ kinds \in Seq(Kinds)
    /\ pendingEvent \in Nat /\ pendingCount \in Nat /\ droppedCount \in Nat
    /\ closing \in {"no", "finished", "closed", "done"}

\* What is pending is the newest event.
LinesInv ==
    /\ InOrderUpTo(stream, IF pendingEvent = 0 THEN Len(kinds) ELSE pendingEvent - 1)
    /\ pendingEvent = 0 => pendingCount = 0 /\ droppedCount = 0
    /\ pendingEvent # 0 => pendingEvent = Len(kinds) /\ pendingCount > 0
    /\ closing # "no" => pendingEvent = 0

\* What came after the last line is pending.
CountInv ==
    ~streamFailed =>
        /\ Tiles(stream, kinds)
        /\ Len(kinds) = LastOf(stream) + pendingCount + droppedCount
        /\ pendingEvent # 0 => \A x \in LastOf(stream) + 1 .. Len(kinds) : kinds[x] = "output"

StreamInv == SinkTypes /\ LinesInv /\ CountInv

\* The stream with what was pending has all events.
LEMMA FlushedHasAll ==
  ASSUME StreamInv
  PROVE  /\ InOrderUpTo(stream \o PendingLine, Len(kinds))
         /\ ~streamFailed => Tiles(stream \o PendingLine, kinds) /\ LastOf(stream \o PendingLine) = Len(kinds)
<1>1. /\ kinds \in Seq(Kinds) /\ Len(kinds) \in Nat
      /\ pendingEvent \in Nat /\ pendingCount \in Nat /\ droppedCount \in Nat
  BY DEF StreamInv, SinkTypes
<1>2. stream \in Seq(Lines)
  BY DEF StreamInv, LinesInv, InOrderUpTo
<1>3. CASE pendingEvent = 0
  <2>1. PendingLine = <<>>
    BY <1>3 DEF PendingLine
  <2>2. stream \o PendingLine = stream
    BY <1>2, <2>1
  <2>3. InOrderUpTo(stream, Len(kinds)) /\ pendingCount = 0 /\ droppedCount = 0
    BY <1>3 DEF StreamInv, LinesInv
  <2>4. ~streamFailed => Tiles(stream, kinds) /\ Len(kinds) = LastOf(stream) + pendingCount + droppedCount
    BY DEF StreamInv, CountInv
  <2>5. LastOf(stream) \in Nat
    BY <1>2, LastIsKnown
  <2>6. Len(kinds) = LastOf(stream) + pendingCount + droppedCount => LastOf(stream) = Len(kinds)
    BY <2>3, <2>5
  <2> QED BY <2>2, <2>3, <2>4, <2>6
<1>4. CASE pendingEvent # 0
  <2>1. PICK line : line = [id |-> pendingEvent, coalesced |-> pendingCount - 1, dropped |-> droppedCount]
    OBVIOUS
  <2>2. PendingLine = <<line>>
    BY <1>4, <2>1 DEF PendingLine
  <2>3. stream \o PendingLine = Append(stream, line)
    BY <1>2, <2>2
  <2>4. pendingEvent = Len(kinds) /\ pendingCount > 0 /\ InOrderUpTo(stream, Len(kinds) - 1)
    BY <1>4 DEF StreamInv, LinesInv
  <2>5. /\ line \in Lines /\ line.id = Len(kinds) /\ line.coalesced = pendingCount - 1
        /\ line.dropped = droppedCount
    <3>1. pendingCount - 1 \in Nat
      BY <1>1, <2>4
    <3> QED BY <1>1, <2>1, <2>4, <3>1 DEF Lines
  <2>6. Len(kinds) - 1 \in Nat /\ Len(kinds) > Len(kinds) - 1
    BY <1>1, <1>4, <2>4
  <2>7. InOrderUpTo(Append(stream, line), Len(kinds))
    <3>1. line.id > Len(kinds) - 1 /\ Len(kinds) >= line.id
      BY <1>1, <2>5, <2>6
    <3> QED BY <1>1, <2>4, <2>5, <2>6, <3>1, LineAdded
  <2>8. ASSUME ~streamFailed
        PROVE  Tiles(Append(stream, line), kinds) /\ LastOf(Append(stream, line)) = Len(kinds)
    <3>1. /\ Tiles(stream, kinds) /\ Len(kinds) = LastOf(stream) + pendingCount + droppedCount
          /\ \A x \in LastOf(stream) + 1 .. Len(kinds) : kinds[x] = "output"
      BY <1>4, <2>8 DEF StreamInv, CountInv
    <3>2. LastOf(stream) \in Nat
      BY <1>2, LastIsKnown
    <3>3. Len(kinds) = LastOf(stream) + 1 + (pendingCount - 1) + droppedCount
      BY <1>1, <3>1, <3>2
    <3>4. line.id = LastOf(stream) + 1 + line.coalesced + line.dropped
      BY <2>5, <3>3
    <3> QED BY <1>2, <2>5, <3>1, <3>4, TilesAdd
  <2> QED BY <2>3, <2>7, <2>8
<1> QED BY <1>3, <1>4

\* An event that is emitted is on the stream, or pending with the others.
LEMMA EmitGoesOn ==
  ASSUME StreamInv, NEW kind \in Kinds, kinds' = Append(kinds, kind),
         EmitToStream(kind, Len(kinds) + 1),
         closing' = "no" \/ (closing' = "finished" /\ kind = "other")
  PROVE  StreamInv'
<1>1. /\ kinds \in Seq(Kinds) /\ Len(kinds) \in Nat
      /\ pendingEvent \in Nat /\ pendingCount \in Nat /\ droppedCount \in Nat
  BY DEF StreamInv, SinkTypes
<1>2. /\ kinds' \in Seq(Kinds) /\ Len(kinds') = Len(kinds) + 1
      /\ \A x \in 1 .. Len(kinds) : kinds'[x] = kinds[x]
      /\ kinds'[Len(kinds) + 1] = kind
  BY <1>1
<1>3. stream \in Seq(Lines)
  BY DEF StreamInv, LinesInv, InOrderUpTo
<1>4. LastOf(stream) \in Nat
  BY <1>3, LastIsKnown
<1>5. InOrderUpTo(stream, Len(kinds))
  <2>1. CASE pendingEvent = 0
    BY <2>1 DEF StreamInv, LinesInv
  <2>2. CASE pendingEvent # 0
    <3>1. pendingEvent = Len(kinds) /\ InOrderUpTo(stream, Len(kinds) - 1)
      BY <2>2 DEF StreamInv, LinesInv
    <3>2. Len(kinds) - 1 \in Nat /\ Len(kinds) - 1 <= Len(kinds)
      BY <1>1, <2>2, <3>1
    <3> QED BY <1>1, <3>1, <3>2, UpToMore
  <2> QED BY <2>1, <2>2
<1>6. CASE kind = "output" /\ Queue(Len(kinds) + 1)
  <2>1. /\ pendingEvent' = Len(kinds) + 1 /\ UNCHANGED <<stream, streamFailed>>
        /\ IF pendingCount < MaxPending THEN pendingCount' = pendingCount + 1 /\ droppedCount' = droppedCount
           ELSE droppedCount' = droppedCount + 1 /\ pendingCount' = pendingCount
    BY <1>6 DEF Queue
  <2>2. /\ pendingCount' \in Nat /\ droppedCount' \in Nat /\ pendingCount' > 0
        /\ pendingCount' + droppedCount' = pendingCount + droppedCount + 1
    BY <1>1, <2>1, SinkAssumption
  <2>3. closing' = "no"
    BY <1>6
  <2>4. SinkTypes'
    BY <1>1, <1>2, <2>1, <2>2, <2>3 DEF SinkTypes
  <2>5. LinesInv'
    <3>1. pendingEvent' # 0 /\ pendingEvent' - 1 = Len(kinds) /\ pendingEvent' = Len(kinds')
      BY <1>1, <1>2, <2>1
    <3>2. stream' = stream
      BY <2>1
    <3> QED BY <1>5, <2>2, <2>3, <3>1, <3>2 DEF LinesInv
  <2>6. ASSUME ~streamFailed'
        PROVE  /\ Tiles(stream, kinds') /\ Len(kinds') = LastOf(stream) + pendingCount' + droppedCount'
               /\ \A x \in LastOf(stream) + 1 .. Len(kinds') : kinds'[x] = "output"
    <3>1. /\ Tiles(stream, kinds) /\ Len(kinds) = LastOf(stream) + pendingCount + droppedCount
          /\ pendingEvent # 0 => \A x \in LastOf(stream) + 1 .. Len(kinds) : kinds[x] = "output"
      BY <2>1, <2>6 DEF StreamInv, CountInv
    <3>2. Tiles(stream, kinds')
      BY <1>1, <1>5, <3>1, TilesGrow
    <3>3. Len(kinds') = LastOf(stream) + pendingCount' + droppedCount'
      <4>1. Len(kinds') = Len(kinds) + 1 /\ Len(kinds) = LastOf(stream) + pendingCount + droppedCount
        BY <1>2, <3>1
      <4>2. /\ pendingCount \in Nat /\ droppedCount \in Nat /\ pendingCount' \in Nat /\ droppedCount' \in Nat
            /\ pendingCount' + droppedCount' = pendingCount + droppedCount + 1
        BY <1>1, <2>2
      <4>3. PICK last \in Nat, c \in Nat, d \in Nat, e \in Nat, f \in Nat :
               /\ last = LastOf(stream) /\ c = pendingCount /\ d = droppedCount
               /\ e = pendingCount' /\ f = droppedCount'
        BY <1>4, <4>2
      <4>4. Len(kinds) = last + c + d /\ e + f = c + d + 1
        BY <4>1, <4>2, <4>3, Zenon
      <4>5. last + c + d + 1 = last + e + f
        BY <4>4
      <4> QED BY <4>1, <4>3, <4>4, <4>5, Zenon
    <3>4. ASSUME NEW x \in LastOf(stream) + 1 .. Len(kinds') PROVE kinds'[x] = "output"
      <4>1. CASE x = Len(kinds) + 1
        BY <1>2, <1>6, <4>1
      <4>2. CASE x # Len(kinds) + 1
        <5>1. x \in 1 .. Len(kinds) /\ x \in LastOf(stream) + 1 .. Len(kinds)
          BY <1>1, <1>2, <1>4, <4>2
        <5>2. pendingEvent # 0
          <6> SUFFICES ASSUME pendingEvent = 0 PROVE FALSE
            OBVIOUS
          <6>1. pendingCount = 0 /\ droppedCount = 0
            BY DEF StreamInv, LinesInv
          <6> QED BY <1>1, <1>4, <3>1, <5>1, <6>1
        <5> QED BY <1>2, <3>1, <5>1, <5>2
      <4> QED BY <4>1, <4>2
    <3> QED BY <3>2, <3>3, <3>4
  <2>7. CountInv'
    BY <2>1, <2>6 DEF CountInv
  <2> QED BY <2>4, <2>5, <2>7 DEF StreamInv
<1>7. CASE FlushAndWrite(Len(kinds) + 1)
  <2>1. PICK flushed : flushed = stream \o PendingLine
    OBVIOUS
  <2>2. PICK line : line = [id |-> Len(kinds) + 1, coalesced |-> 0, dropped |-> 0]
    OBVIOUS
  <2>3. /\ line \in Lines /\ line.id = Len(kinds) + 1 /\ line.coalesced = 0 /\ line.dropped = 0
    BY <1>1, <2>2 DEF Lines
  <2>4. /\ pendingEvent' = 0 /\ pendingCount' = 0 /\ droppedCount' = 0
        /\ \/ stream' = flushed \o <<line>> /\ streamFailed' = streamFailed
           \/ streamFailed' = TRUE /\ stream' \in {stream, flushed}
    BY <1>7, <2>1, <2>2 DEF FlushAndWrite
  <2>5. /\ InOrderUpTo(flushed, Len(kinds))
        /\ ~streamFailed => Tiles(flushed, kinds) /\ LastOf(flushed) = Len(kinds)
    BY <2>1, FlushedHasAll
  <2>6. flushed \in Seq(Lines)
    BY <2>5 DEF InOrderUpTo
  <2>7. flushed \o <<line>> = Append(flushed, line)
    BY <2>6
  <2>8. InOrderUpTo(Append(flushed, line), Len(kinds) + 1)
    <3>1. line.id > Len(kinds) /\ Len(kinds) + 1 >= line.id /\ Len(kinds) + 1 \in Nat
      BY <1>1, <2>3
    <3> QED BY <1>1, <2>3, <2>5, <3>1, LineAdded
  <2>9. InOrderUpTo(stream', Len(kinds'))
    <3>1. Len(kinds) + 1 \in Nat /\ Len(kinds) <= Len(kinds) + 1
      BY <1>1
    <3>2. InOrderUpTo(stream, Len(kinds) + 1) /\ InOrderUpTo(flushed, Len(kinds) + 1)
      BY <1>1, <1>5, <2>5, <3>1, UpToMore
    <3> QED BY <1>2, <2>4, <2>7, <2>8, <3>2
  <2>10. SinkTypes'
    BY <1>2, <2>4 DEF SinkTypes
  <2>11. LinesInv'
    BY <2>4, <2>9 DEF LinesInv
  <2>12. CountInv'
    <3> SUFFICES ASSUME ~streamFailed'
                 PROVE  Tiles(stream', kinds') /\ Len(kinds') = LastOf(stream') + 0 + 0
      BY <2>4 DEF CountInv
    <3>1. stream' = Append(flushed, line) /\ ~streamFailed
      BY <2>4, <2>7
    <3>2. Tiles(flushed, kinds') /\ LastOf(flushed) = Len(kinds)
      <4>1. Len(kinds) <= Len(kinds)
        BY <1>1
      <4> QED BY <1>1, <2>5, <3>1, <4>1, TilesGrow
    <3>3. line.id = LastOf(flushed) + 1 + line.coalesced + line.dropped /\ line.id = LastOf(flushed) + 1
      BY <1>1, <2>3, <3>2
    <3>4. Tiles(Append(flushed, line), kinds') /\ LastOf(Append(flushed, line)) = line.id
      BY <2>3, <2>6, <3>2, <3>3, TilesAdd
    <3>5. Len(kinds') = line.id + 0 + 0
      BY <1>1, <1>2, <2>3
    <3> QED BY <3>1, <3>4, <3>5
  <2> QED BY <2>10, <2>11, <2>12 DEF StreamInv
<1> QED BY <1>6, <1>7 DEF EmitToStream

\* The events that are still to be mirrored.
InHands == {inHand[w] : w \in Emitters} \ {0}

\* Each event is in one place on its way to the file.
MirrorInv ==
    /\ mirror \in Seq(Nat) /\ mirrored \in Seq(Nat) /\ inHand \in [Emitters -> Nat]
    /\ Distinct(mirror) /\ Distinct(mirrored)
    /\ ToSet(mirror) \cap ToSet(mirrored) = {} /\ skipped \cap (ToSet(mirror) \cup ToSet(mirrored)) = {}
    /\ InHands \cap (ToSet(mirror) \cup ToSet(mirrored) \cup skipped) = {}
    /\ \A w, x \in Emitters : inHand[w] = inHand[x] /\ w # x => inHand[w] = 0
    /\ ToSet(mirror) \cup ToSet(mirrored) \cup skipped \cup InHands = 1 .. Len(kinds)
    /\ closing \in {"closed", "done"} => InHands = {}
    /\ closing = "done" => mirror = <<>>

SinkInv == StreamInv /\ MirrorInv

LEMMA SinkStart == SinkInit => SinkInv
<1> SUFFICES ASSUME SinkInit PROVE SinkInv
  OBVIOUS
<1>1. ToSet(<<>>) = {} /\ Distinct(<<>>) /\ Len(<<>>) = 0 /\ \A S : <<>> \in Seq(S)
  BY ChannelEmpty
<1>2. SinkTypes
  BY <1>1 DEF SinkTypes, SinkInit
<1>3. InOrderUpTo(<<>>, 0) /\ Tiles(<<>>, kinds) /\ LastOf(<<>>) = 0
  BY <1>1 DEF InOrderUpTo, Tiles, LastOf, Before
<1>4. LinesInv
  BY <1>1, <1>3 DEF LinesInv, SinkInit
<1>5. CountInv
  BY <1>1, <1>3 DEF CountInv, SinkInit
<1>6. InHands = {} /\ 1 .. Len(kinds) = {}
  BY <1>1 DEF InHands, SinkInit
<1>7. MirrorInv
  BY <1>1, <1>6 DEF MirrorInv, SinkInit
<1> QED BY <1>2, <1>4, <1>5, <1>7 DEF SinkInv, StreamInv

\* A worker takes its new event in hand.
LEMMA HandTakes ==
  ASSUME StreamInv, MirrorInv, NEW w \in Emitters, inHand[w] = 0, NEW kind \in Kinds, kinds' = Append(kinds, kind),
         inHand' = [inHand EXCEPT ![w] = Len(kinds) + 1], UNCHANGED <<mirror, mirrored, skipped>>,
         closing' \notin {"closed", "done"}
  PROVE  MirrorInv'
<1>1. Len(kinds) \in Nat /\ Len(kinds') = Len(kinds) + 1
  BY DEF StreamInv, SinkTypes
<1>2. PICK id : id = Len(kinds) + 1
  OBVIOUS
<1>3. id \in Nat /\ id # 0 /\ id \notin 1 .. Len(kinds) /\ 1 .. Len(kinds') = (1 .. Len(kinds)) \cup {id}
  BY <1>1, <1>2
<1>4. /\ inHand \in [Emitters -> Nat] /\ inHand' \in [Emitters -> Nat] /\ inHand'[w] = id
      /\ \A x \in Emitters : x # w => inHand'[x] = inHand[x]
  BY <1>2, <1>3 DEF MirrorInv
<1>5. InHands' = InHands \cup {id}
  <2>1. \A x \in Emitters : inHand'[x] = (IF x = w THEN id ELSE inHand[x])
    BY <1>4
  <2> QED BY <1>3, <1>4, <2>1 DEF InHands
<1>6. ToSet(mirror) \cup ToSet(mirrored) \cup skipped \cup InHands = 1 .. Len(kinds)
  BY DEF MirrorInv
<1>7. \A x \in Emitters : inHand[x] # id
  <2>1. \A x \in Emitters : inHand[x] = 0 \/ inHand[x] \in 1 .. Len(kinds)
    BY <1>6 DEF InHands
  <2> QED BY <1>3, <2>1
<1>8. \A x, y \in Emitters : inHand'[x] = inHand'[y] /\ x # y => inHand'[x] = 0
  BY <1>4, <1>7 DEF MirrorInv
<1>9. InHands' \cap (ToSet(mirror) \cup ToSet(mirrored) \cup skipped) = {}
  BY <1>3, <1>5, <1>6 DEF MirrorInv
<1>10. ToSet(mirror) \cup ToSet(mirrored) \cup skipped \cup InHands' = 1 .. Len(kinds')
  BY <1>3, <1>5, <1>6
<1> QED BY <1>4, <1>8, <1>9, <1>10 DEF MirrorInv

LEMMA EmitKeeps ==
  ASSUME SinkInv, FinishRun \/ \E w \in Emitters, kind \in Kinds : EmitEvent(w, kind)
  PROVE  SinkInv'
<1>1. StreamInv /\ MirrorInv
  BY DEF SinkInv
<1>2. PICK w \in Emitters, kind \in Kinds :
         /\ inHand[w] = 0 /\ kinds' = Append(kinds, kind) /\ EmitToStream(kind, Len(kinds) + 1)
         /\ inHand' = [inHand EXCEPT ![w] = Len(kinds) + 1] /\ UNCHANGED <<mirror, mirrored, skipped>>
         /\ closing' = "no" \/ (closing' = "finished" /\ kind = "other")
  <2>1. CASE FinishRun
    BY <2>1 DEF FinishRun, Kinds
  <2>2. CASE \E w \in Emitters, kind \in Kinds : EmitEvent(w, kind)
    BY <2>2 DEF EmitEvent
  <2> QED BY <2>1, <2>2
<1>3. StreamInv'
  BY <1>1, <1>2, EmitGoesOn
<1>4. MirrorInv'
  BY <1>1, <1>2, HandTakes
<1> QED BY <1>3, <1>4 DEF SinkInv

\* What leaves the stream alone.
LEMMA StreamStays ==
  ASSUME StreamInv, UNCHANGED <<kinds, pendingEvent, pendingCount, droppedCount, stream, streamFailed>>,
         closing' \in {"no", "finished", "closed", "done"}, closing' # "no" => closing # "no"
  PROVE  StreamInv'
BY DEF StreamInv, SinkTypes, LinesInv, CountInv

\* A worker leaves its event to the mirror, which takes it or skips it.
LEMMA EmitToMirrorKeeps == ASSUME SinkInv, NEW w \in Emitters, EmitToMirror(w) PROVE SinkInv'
<1>1. StreamInv /\ MirrorInv
  BY DEF SinkInv
<1>2. PICK id : id = inHand[w]
  OBVIOUS
<1>3. /\ id # 0 /\ inHand' = [inHand EXCEPT ![w] = 0]
      /\ UNCHANGED <<kinds, pendingEvent, pendingCount, droppedCount, stream, streamFailed, mirrored, closing>>
      /\ \/ mirror' = Append(mirror, id) /\ skipped' = skipped
         \/ skipped' = skipped \cup {id} /\ mirror' = mirror
  BY <1>2 DEF EmitToMirror
<1>4. StreamInv'
  BY <1>1, <1>3, StreamStays DEF StreamInv, SinkTypes
<1>5. /\ inHand \in [Emitters -> Nat] /\ id \in Nat /\ id \in InHands
      /\ inHand' \in [Emitters -> Nat] /\ inHand'[w] = 0
      /\ \A x \in Emitters : x # w => inHand'[x] = inHand[x]
  BY <1>1, <1>2, <1>3 DEF MirrorInv, InHands
<1>6. InHands' = InHands \ {id}
  <2>1. \A x \in Emitters : x # w => inHand[x] # id
    BY <1>1, <1>2, <1>3 DEF MirrorInv
  <2>2. \A x \in Emitters : inHand'[x] = (IF x = w THEN 0 ELSE inHand[x])
    BY <1>5
  <2> QED BY <1>2, <2>1, <2>2 DEF InHands
<1>7. \A x, y \in Emitters : inHand'[x] = inHand'[y] /\ x # y => inHand'[x] = 0
  BY <1>1, <1>5 DEF MirrorInv
<1>8. id \notin ToSet(mirror) \cup ToSet(mirrored) \cup skipped
  BY <1>1, <1>5 DEF MirrorInv
<1>9. closing \notin {"closed", "done"}
  BY <1>1, <1>5 DEF MirrorInv
<1>10. /\ mirror' \in Seq(Nat) /\ Distinct(mirror')
       /\ \/ ToSet(mirror') = ToSet(mirror) \cup {id} /\ skipped' = skipped
          \/ skipped' = skipped \cup {id} /\ ToSet(mirror') = ToSet(mirror)
  <2>1. mirror \in Seq(Nat) /\ Distinct(mirror)
    BY <1>1 DEF MirrorInv
  <2>2. CASE mirror' = Append(mirror, id) /\ skipped' = skipped
    <3>1. /\ Append(mirror, id) \in Seq(Nat) /\ ToSet(Append(mirror, id)) = ToSet(mirror) \cup {id}
          /\ Distinct(Append(mirror, id))
      BY <1>5, <1>8, <2>1, ChannelGets
    <3> QED BY <2>2, <3>1
  <2>3. CASE skipped' = skipped \cup {id} /\ mirror' = mirror
    BY <2>1, <2>3
  <2> QED BY <1>3, <2>2, <2>3
<1>11. /\ ToSet(mirror') \cap ToSet(mirrored') = {} /\ skipped' \cap (ToSet(mirror') \cup ToSet(mirrored')) = {}
       /\ InHands' \cap (ToSet(mirror') \cup ToSet(mirrored') \cup skipped') = {}
       /\ ToSet(mirror') \cup ToSet(mirrored') \cup skipped' \cup InHands' = 1 .. Len(kinds')
  BY <1>1, <1>3, <1>5, <1>6, <1>8, <1>10 DEF MirrorInv
<1>12. mirrored' \in Seq(Nat) /\ Distinct(mirrored')
  BY <1>1, <1>3 DEF MirrorInv
<1>13. MirrorInv'
  BY <1>3, <1>5, <1>7, <1>9, <1>10, <1>11, <1>12 DEF MirrorInv
<1> QED BY <1>4, <1>13 DEF SinkInv

\* The goroutine writes the event that came first.
LEMMA WriteMirroredKeeps == ASSUME SinkInv, WriteMirrored PROVE SinkInv'
<1>1. StreamInv /\ MirrorInv
  BY DEF SinkInv
<1>2. PICK id : id = Head(mirror)
  OBVIOUS
<1>3. /\ mirror # <<>> /\ mirrored' = Append(mirrored, id) /\ mirror' = Tail(mirror)
      /\ UNCHANGED <<kinds, pendingEvent, pendingCount, droppedCount, stream, streamFailed, inHand, skipped, closing>>
  BY <1>2 DEF WriteMirrored
<1>4. StreamInv'
  BY <1>1, <1>3, StreamStays DEF StreamInv, SinkTypes
<1>5. mirror \in Seq(Nat) /\ mirrored \in Seq(Nat) /\ Distinct(mirror) /\ Distinct(mirrored)
  BY <1>1 DEF MirrorInv
<1>6. /\ id \in Nat /\ mirror' \in Seq(Nat) /\ id \in ToSet(mirror) /\ Distinct(mirror') /\ id \notin ToSet(mirror')
      /\ ToSet(mirror) = {id} \cup ToSet(mirror')
  BY <1>2, <1>3, <1>5, ChannelTakes, ChannelSplits
<1>7. mirrored' \in Seq(Nat) /\ ToSet(mirrored') = ToSet(mirrored) \cup {id} /\ Distinct(mirrored')
  <2>1. id \notin ToSet(mirrored)
    BY <1>1, <1>6 DEF MirrorInv
  <2> QED BY <1>3, <1>5, <1>6, <2>1, ChannelGets
<1>8. InHands' = InHands
  BY <1>3 DEF InHands
<1>9. /\ ToSet(mirror') \cap ToSet(mirrored') = {} /\ skipped' \cap (ToSet(mirror') \cup ToSet(mirrored')) = {}
      /\ InHands' \cap (ToSet(mirror') \cup ToSet(mirrored') \cup skipped') = {}
      /\ ToSet(mirror') \cup ToSet(mirrored') \cup skipped' \cup InHands' = 1 .. Len(kinds')
  BY <1>1, <1>3, <1>6, <1>7, <1>8 DEF MirrorInv
<1>10. closing # "done"
  BY <1>1, <1>3 DEF MirrorInv
<1>11. inHand' \in [Emitters -> Nat] /\ \A w, x \in Emitters : inHand'[w] = inHand'[x] /\ w # x => inHand'[w] = 0
  BY <1>1, <1>3 DEF MirrorInv
<1>12. closing' \in {"closed", "done"} => InHands' = {}
  BY <1>1, <1>3, <1>8 DEF MirrorInv
<1>13. MirrorInv'
  BY <1>3, <1>6, <1>7, <1>9, <1>10, <1>11, <1>12 DEF MirrorInv
<1> QED BY <1>4, <1>13 DEF SinkInv

\* The steps of the end, and the clock.
LEMMA CloseKeeps ==
  ASSUME SinkInv, CloseMirror \/ MirrorDone \/ PassOutputInterval \/ UNCHANGED sinkVars
  PROVE  SinkInv'
<1>1. StreamInv /\ MirrorInv
  BY DEF SinkInv
<1>2. UNCHANGED <<kinds, pendingEvent, pendingCount, droppedCount, stream, streamFailed, inHand, mirror, mirrored, skipped>>
  BY DEF CloseMirror, MirrorDone, PassOutputInterval, sinkVars
<1>3. /\ closing' \in {"no", "finished", "closed", "done"}
      /\ closing' = closing \/ (closing \in {"finished", "closed"} /\ closing' \in {"closed", "done"})
      /\ closing' = "closed" /\ closing # "closed" => \A w \in Emitters : inHand[w] = 0
      /\ closing' = "done" /\ closing # "done" => closing = "closed" /\ mirror = <<>>
  BY <1>1 DEF CloseMirror, MirrorDone, PassOutputInterval, sinkVars, StreamInv, SinkTypes
<1>4. StreamInv'
  BY <1>1, <1>2, <1>3, StreamStays
<1>5. InHands' = InHands /\ ((\A w \in Emitters : inHand[w] = 0) => InHands = {})
  BY <1>2 DEF InHands
<1>6. /\ closing' \in {"closed", "done"} => InHands = {}
      /\ closing' = "done" => mirror = <<>>
  BY <1>1, <1>3, <1>5 DEF MirrorInv
<1>7. MirrorInv'
  BY <1>1, <1>2, <1>5, <1>6 DEF MirrorInv
<1> QED BY <1>4, <1>7 DEF SinkInv

LEMMA SinkStep == SinkInv /\ [SinkNext]_sinkVars => SinkInv'
<1> SUFFICES ASSUME SinkInv, [SinkNext]_sinkVars PROVE SinkInv'
  OBVIOUS
<1>1. CASE \E w \in Emitters : EmitToMirror(w)
  BY <1>1, EmitToMirrorKeeps
<1>2. CASE FinishRun \/ \E w \in Emitters, kind \in Kinds : EmitEvent(w, kind)
  BY <1>2, EmitKeeps
<1>3. CASE WriteMirrored
  BY <1>3, WriteMirroredKeeps
<1>4. CASE CloseMirror \/ MirrorDone \/ PassOutputInterval \/ UNCHANGED sinkVars
  BY <1>4, CloseKeeps
<1> QED BY <1>1, <1>2, <1>3, <1>4 DEF SinkNext, Kinds

\* What was emitted is on the stream and in the file, in order and once, or is said to be
\* missing, for any number of workers and events and any room: unless writing failed, each line
\* of the stream says how many outputs it stands for, and when Close has returned the file has
\* every event the mirror did not skip (StreamEventSink, mirrorEventSink).
THEOREM NoEventIsForgotten == SinkSpec => []EventsAreAccounted
<1>1. SinkInv => EventsAreAccounted
  <2> SUFFICES ASSUME SinkInv PROVE EventsAreAccounted
    OBVIOUS
  <2>1. StreamInOrder
    BY DEF SinkInv, StreamInv, LinesInv, InOrderUpTo, StreamInOrder
  <2>2. OutputsAccounted
    BY DEF SinkInv, StreamInv, LinesInv, CountInv, Tiles, LastOf, OutputsAccounted, StandsForThem
  <2>3. MirrorIsWhole
    <3> SUFFICES ASSUME closing = "done"
                 PROVE  /\ ToSet(mirrored) \cup skipped = DOMAIN kinds
                        /\ ToSet(mirrored) \cap skipped = {} /\ IsInjective(mirrored)
      BY DEF MirrorIsWhole
    <3>1. DOMAIN kinds = 1 .. Len(kinds)
      BY DEF SinkInv, StreamInv, SinkTypes
    <3>2. mirror = <<>> /\ InHands = {} /\ ToSet(mirror) = {}
      BY ChannelEmpty DEF SinkInv, MirrorInv
    <3> QED BY <3>1, <3>2 DEF SinkInv, MirrorInv, Distinct, IsInjective
  <2> QED BY <2>1, <2>2, <2>3 DEF EventsAreAccounted
<1> QED BY <1>1, SinkStart, SinkStep, PTL DEF SinkSpec

-----------------------------------------------------------------------------
(* The shapes of the exchanges and the room of their channels.              *)

-----------------------------------------------------------------------------
(* The shapes and bounds of every part.                                     *)

\* Channels have their room, and a request is run as often as its handler may.
ServiceBounds ==
  /\ Len(serviceIn) <= ServiceRoom /\ \A a \in Askers : Len(responses[a]) <= ServiceRoom
  /\ \A r \in Requests : attemptsMade[r] <= ServiceAttempts

LEMMA ChannelLength ==
  ASSUME NEW S, NEW c \in Seq(S)
  PROVE  /\ Len(c) \in Nat /\ (c # <<>> => Len(Tail(c)) = Len(c) - 1)
         /\ \A e : Len(Append(c, e)) = Len(c) + 1
<1>1. Len(c) \in Nat /\ (c # <<>> => Len(Tail(c)) = Len(c) - 1)
  OBVIOUS
<1>2. ASSUME NEW e PROVE Len(Append(c, e)) = Len(c) + 1
  <2>1. c \in Seq(S \cup {e})
    OBVIOUS
  <2> QED BY <2>1
<1> QED BY <1>1, <1>2

LEMMA RespondsWithinRoom ==
  ASSUME ServiceInv, ServiceBounds, NEW r, NEW outcome, Respond(r, outcome)
  PROVE  \A a \in Askers : Len(responses'[a]) <= ServiceRoom
<1> SUFFICES ASSUME NEW a \in Askers PROVE Len(responses'[a]) <= ServiceRoom
  OBVIOUS
<1>1. responses[a] \in Seq(Answers) /\ Len(responses[a]) <= ServiceRoom
  BY DEF ServiceInv, ServiceChannels, ServiceBounds
<1>2. PICK x : x = [for |-> r, outcome |-> outcome]
  OBVIOUS
<1>3. responses'[a] = IF Len(responses[a]) < ServiceRoom THEN Append(responses[a], x) ELSE responses[a]
  BY <1>2 DEF Respond
<1>4. Len(responses[a]) \in Nat /\ Len(Append(responses[a], x)) = Len(responses[a]) + 1
  BY <1>1, ChannelLength
<1> QED BY <1>1, <1>3, <1>4, ServiceAssumption

LEMMA ServiceBoundsStep == ServiceInv /\ ServiceBounds /\ [ServiceNext]_serviceVars => ServiceBounds'
<1> SUFFICES ASSUME ServiceInv, ServiceBounds, [ServiceNext]_serviceVars PROVE ServiceBounds'
  OBVIOUS
<1>1. serviceIn \in Seq(Requests) /\ Len(serviceIn) \in Nat /\ (serviceIn # <<>> => Len(Tail(serviceIn)) = Len(serviceIn) - 1)
  BY ChannelLength DEF ServiceInv, ServiceChannels
<1>2. ASSUME NEW r \in Requests, CallService(r) PROVE ServiceBounds'
  <2>1. Len(Append(serviceIn, r)) = Len(serviceIn) + 1
    BY <1>1, ChannelLength
  <2>2. Len(serviceIn') <= ServiceRoom
    BY <1>1, <1>2, <2>1, ServiceAssumption DEF CallService, ServiceBounds
  <2> QED BY <1>2, <2>2 DEF CallService, ServiceBounds
<1>3. ASSUME NEW r \in Requests, CallReturns(r) \/ CallTimesOut(r) PROVE ServiceBounds'
  BY <1>3 DEF CallReturns, CallTimesOut, ServiceBounds
<1>4. ASSUME NEW a \in Askers, RouteResponse(a) PROVE ServiceBounds'
  <2>1. \A b \in Askers : responses[b] \in Seq(Answers)
    BY DEF ServiceInv, ServiceChannels
  <2>2. responses' = [responses EXCEPT ![a] = Tail(responses[a])] /\ responses[a] # <<>>
    BY <1>4 DEF RouteResponse
  <2>3. Len(Tail(responses[a])) = Len(responses[a]) - 1 /\ Len(responses[a]) \in Nat
    BY <2>1, <2>2, ChannelLength
  <2>4. \A b \in Askers : Len(responses'[b]) <= ServiceRoom
    <3> SUFFICES ASSUME NEW b \in Askers PROVE Len(responses'[b]) <= ServiceRoom
      OBVIOUS
    <3>1. CASE b = a
      BY <2>2, <2>3, <3>1, ServiceAssumption DEF ServiceBounds, ServiceInv, ServiceChannels
    <3>2. CASE b # a
      BY <2>2, <3>2 DEF ServiceBounds, ServiceInv, ServiceChannels
    <3> QED BY <3>1, <3>2
  <2> QED BY <1>4, <2>4 DEF RouteResponse, ServiceBounds
<1>5. CASE TakeRequest
  <2>1. Len(serviceIn') <= ServiceRoom
    BY <1>1, <1>5, ServiceAssumption DEF TakeRequest, ServiceBounds
  <2>2. \A a \in Askers : Len(responses'[a]) <= ServiceRoom
    <3>1. (\E r, outcome : Respond(r, outcome)) \/ UNCHANGED responses
      BY <1>5 DEF TakeRequest
    <3> QED BY <3>1, RespondsWithinRoom DEF ServiceBounds
  <2> QED BY <1>5, <2>1, <2>2 DEF TakeRequest, ServiceBounds
<1>6. ASSUME NEW name, RunOnce(name) PROVE ServiceBounds'
  <2>1. PICK r : r = serving.request /\ serving # Free /\ attemptsMade' = [attemptsMade EXCEPT ![r] = attemptsMade[r] + 1]
    BY <1>6 DEF RunOnce
  <2>2. r \in Requests /\ serving.attempt \in Nat
    BY <2>1 DEF ServiceInv, ServiceTypes, Free
  <2>3. attemptsMade[r] + 1 <= ServiceAttempts
    <3>1. attemptsMade[r] = serving.attempt - 1 /\ serving.attempt <= Budget(r)
      BY <2>1 DEF ServiceInv, ComesOnce
    <3>2. Budget(r) \in Nat /\ Budget(r) <= ServiceAttempts
      BY ServiceAssumption DEF Budget
    <3> QED BY <2>2, <3>1, <3>2, ServiceAssumption
  <2>4. \A s \in Requests : attemptsMade'[s] <= ServiceAttempts
    BY <2>1, <2>2, <2>3 DEF ServiceBounds, ServiceInv, ServiceTypes
  <2>5. \A a \in Askers : Len(responses'[a]) <= ServiceRoom
    <3>1. (\E outcome : Respond(r, outcome)) \/ UNCHANGED responses
      BY <1>6, <2>1 DEF RunOnce
    <3> QED BY <3>1, RespondsWithinRoom DEF ServiceBounds
  <2> QED BY <1>6, <2>4, <2>5 DEF RunOnce, ServiceBounds
<1>7. CASE UNCHANGED serviceVars
  BY <1>7 DEF serviceVars, ServiceBounds
<1> QED BY <1>2, <1>3, <1>4, <1>5, <1>6, <1>7 DEF ServiceNext, Review, Rewrite, Fallback

LEMMA ServiceShape == ServiceSpec => []ServiceTypeOK
<1>1. ServiceInit => ServiceBounds
  <2> SUFFICES ASSUME ServiceInit PROVE ServiceBounds
    OBVIOUS
  <2>1. Len(<<>>) = 0
    OBVIOUS
  <2> QED BY <2>1, ServiceAssumption DEF ServiceInit, ServiceBounds
<1>2. ServiceInv /\ ServiceBounds => ServiceTypeOK
  <2> SUFFICES ASSUME ServiceInv, ServiceBounds PROVE ServiceTypeOK
    OBVIOUS
  <2>1. request \in [Requests -> [phase : {"new", "waiting", "served", "refused", "timed out"},
                                  reply : [for : Requests \cup {Nobody}, outcome : {"none", "done", "error"}]]]
    <3>1. Answers \cup {NoReply} \subseteq [for : Requests \cup {Nobody}, outcome : {"none", "done", "error"}]
      BY DEF Answers, NoReply
    <3>2. CallState \subseteq [phase : {"new", "waiting", "served", "refused", "timed out"},
                               reply : [for : Requests \cup {Nobody}, outcome : {"none", "done", "error"}]]
      BY <3>1 DEF CallState
    <3> QED BY <3>2 DEF ServiceInv, ServiceTypes
  <2>2. attemptsMade \in [Requests -> 0 .. ServiceAttempts]
    BY ServiceAssumption DEF ServiceInv, ServiceTypes, ServiceBounds
  <2> QED BY <2>1, <2>2 DEF ServiceInv, ServiceTypes, ServiceChannels, ServiceBounds, ServiceTypeOK
<1> QED BY <1>1, <1>2, ServiceStart, ServiceStep, ServiceBoundsStep, PTL DEF ServiceSpec

\* What is counted is no more than there was, and the mirror's channel has its room.
SinkBounds ==
  /\ Len(kinds) <= MaxEvents + (IF closing = "no" THEN 0 ELSE 1)
  /\ clock \in {"waiting", "passed"}
  /\ pendingCount <= MaxPending /\ pendingCount + droppedCount <= Len(kinds)
  /\ Len(mirror) <= MirrorRoom

LEMMA EmitKeepsBounds ==
  ASSUME SinkInv, SinkBounds, NEW kind \in Kinds, NEW id, EmitToStream(kind, id), kinds' = Append(kinds, kind)
  PROVE  /\ Len(kinds') = Len(kinds) + 1 /\ clock' \in {"waiting", "passed"}
         /\ pendingCount' <= MaxPending /\ pendingCount' + droppedCount' <= Len(kinds')
<1>1. /\ pendingCount \in Nat /\ droppedCount \in Nat /\ Len(kinds) \in Nat /\ MaxPending \in Nat
      /\ pendingCount <= MaxPending /\ pendingCount + droppedCount <= Len(kinds)
  BY SinkAssumption DEF SinkInv, StreamInv, SinkTypes, SinkBounds
<1>2. Len(kinds') = Len(kinds) + 1
  BY ChannelLength DEF SinkInv, StreamInv, SinkTypes
<1>3. CASE kind = "output" /\ clock # "passed"
  <2>1. Queue(id) /\ clock' = clock
    BY <1>3 DEF EmitToStream
  <2>2. \/ pendingCount' = pendingCount + 1 /\ droppedCount' = droppedCount /\ pendingCount < MaxPending
        \/ pendingCount' = pendingCount /\ droppedCount' = droppedCount + 1
    BY <2>1 DEF Queue
  <2>3. pendingCount' <= MaxPending /\ pendingCount' + droppedCount' <= Len(kinds) + 1
    BY <1>1, <2>2
  <2>4. clock' \in {"waiting", "passed"}
    BY <2>1 DEF SinkBounds
  <2> QED BY <1>2, <2>3, <2>4
<1>4. CASE ~ (kind = "output" /\ clock # "passed")
  <2>1. pendingCount' = 0 /\ droppedCount' = 0
    BY <1>4 DEF EmitToStream, FlushAndWrite
  <2>2. clock' \in {clock} \cup {"waiting"}
    BY <1>4 DEF EmitToStream
  <2>3. clock' \in {"waiting", "passed"}
    BY <2>2 DEF SinkBounds
  <2> QED BY <1>1, <1>2, <2>1, <2>3
<1> QED BY <1>3, <1>4

LEMMA SinkBoundsStep == SinkInv /\ SinkBounds /\ [SinkNext]_sinkVars => SinkBounds'
<1> SUFFICES ASSUME SinkInv, SinkBounds, [SinkNext]_sinkVars PROVE SinkBounds'
  OBVIOUS
<1>0. /\ Len(kinds) \in Nat /\ MaxEvents \in Nat /\ mirror \in Seq(Nat) /\ Len(mirror) \in Nat /\ MirrorRoom \in Nat
      /\ \A e : Len(Append(mirror, e)) = Len(mirror) + 1
      /\ mirror # <<>> => Len(Tail(mirror)) = Len(mirror) - 1
  <2>1. mirror \in Seq(Nat) /\ kinds \in Seq(Kinds)
    BY DEF SinkInv, StreamInv, SinkTypes, MirrorInv
  <2> QED BY <2>1, ChannelLength, SinkAssumption
<1>1. ASSUME NEW w \in Emitters, EmitToMirror(w) PROVE SinkBounds'
  <2>1. Len(mirror') <= MirrorRoom
    BY <1>0, <1>1 DEF EmitToMirror, SinkBounds
  <2> QED BY <1>1, <2>1 DEF EmitToMirror, SinkBounds
<1>2. ASSUME NEW w \in Emitters, NEW kind \in {"output", "other"}, EmitEvent(w, kind) PROVE SinkBounds'
  <2>1. EmitToStream(kind, Len(kinds) + 1) /\ kinds' = Append(kinds, kind) /\ kind \in Kinds
    BY <1>2 DEF EmitEvent, Kinds
  <2>2. /\ Len(kinds') = Len(kinds) + 1 /\ clock' \in {"waiting", "passed"}
        /\ pendingCount' <= MaxPending /\ pendingCount' + droppedCount' <= Len(kinds')
    BY <2>1, EmitKeepsBounds
  <2>3. Len(kinds) < MaxEvents /\ closing' = "no" /\ mirror' = mirror
    BY <1>2 DEF EmitEvent
  <2> QED BY <1>0, <2>2, <2>3 DEF SinkBounds
<1>3. CASE FinishRun
  <2>1. EmitToStream("other", Len(kinds) + 1) /\ kinds' = Append(kinds, "other") /\ "other" \in Kinds
    BY <1>3 DEF FinishRun, Kinds
  <2>2. /\ Len(kinds') = Len(kinds) + 1 /\ clock' \in {"waiting", "passed"}
        /\ pendingCount' <= MaxPending /\ pendingCount' + droppedCount' <= Len(kinds')
    BY <2>1, EmitKeepsBounds
  <2>3. Len(kinds) <= MaxEvents /\ closing' = "finished" /\ mirror' = mirror
    BY <1>0, <1>3 DEF FinishRun, SinkBounds
  <2> QED BY <1>0, <2>2, <2>3 DEF SinkBounds
<1>4. CASE WriteMirrored
  <2>1. Len(mirror') <= MirrorRoom
    BY <1>0, <1>4 DEF WriteMirrored, SinkBounds
  <2> QED BY <1>4, <2>1 DEF WriteMirrored, SinkBounds
<1>5. CASE PassOutputInterval
  BY <1>5 DEF PassOutputInterval, SinkBounds
<1>6. CASE CloseMirror \/ MirrorDone
  <2>1. closing # "no" /\ closing' # "no" /\ UNCHANGED <<kinds, clock, pendingCount, droppedCount, mirror>>
    BY <1>6 DEF CloseMirror, MirrorDone
  <2> QED BY <2>1 DEF SinkBounds
<1>7. CASE UNCHANGED sinkVars
  BY <1>7 DEF sinkVars, SinkBounds
<1> QED BY <1>1, <1>2, <1>3, <1>4, <1>5, <1>6, <1>7 DEF SinkNext

LEMMA SinkShape == SinkSpec => []SinkTypeOK
<1>1. SinkInit => SinkBounds
  <2> SUFFICES ASSUME SinkInit PROVE SinkBounds
    OBVIOUS
  <2>1. Len(<<>>) = 0
    OBVIOUS
  <2> QED BY <2>1, SinkAssumption DEF SinkInit, SinkBounds
<1>2. SinkInv /\ SinkBounds => SinkTypeOK
  <2> SUFFICES ASSUME SinkInv, SinkBounds PROVE SinkTypeOK
    OBVIOUS
  <2>1. /\ kinds \in Seq(Kinds) /\ Len(kinds) \in Nat /\ pendingEvent \in Nat /\ pendingCount \in Nat
        /\ droppedCount \in Nat /\ closing \in {"no", "finished", "closed", "done"}
    BY DEF SinkInv, StreamInv, SinkTypes
  <2>2. pendingEvent <= Len(kinds) /\ (closing # "no" => droppedCount = 0)
    BY <2>1 DEF SinkInv, StreamInv, LinesInv
  <2>3. Len(kinds) <= MaxEvents + 1 /\ droppedCount <= MaxEvents
    BY <2>1, <2>2, SinkAssumption DEF SinkBounds
  <2> QED BY <2>1, <2>2, <2>3 DEF SinkBounds, SinkTypeOK, Kinds
<1> QED BY <1>1, <1>2, SinkStart, SinkStep, SinkBoundsStep, PTL DEF SinkSpec

LEMMA VersionRoom == MaxVersion \in Nat /\ 0 <= MaxVersion
<1>1. MaxVersion \in Nat
  BY StatusAssumption, Zenon DEF StatusAssumption
<1> QED BY <1>1

\* Versions are counted up to the bound, wherever they are kept or told.
VersionsBounded ==
  /\ \A b \in Stores : version[b] <= MaxVersion /\ handling.base[b] <= MaxVersion
  /\ \A c \in Commands, b \in Stores : remembered[c].versions[b] <= MaxVersion
  /\ \A a \in ToSet(acks) : \A b \in Stores : a.versions[b] <= MaxVersion
  /\ \A k \in known : k.version <= MaxVersion
  /\ \A c \in Commands : basis[c].version <= MaxVersion

HoldersAreCommands == \A b \in Stores : holder[b] \in Commands \cup {NoCommand}

StatusBounds == VersionsBounded /\ HoldersAreCommands

\* An answer with versions within the bound.
LEMMA AckWithinBound ==
  ASSUME StatusInv, StatusBounds, NEW c, NEW answer, Ack(c, answer), \A b \in Stores : answer.versions[b] <= MaxVersion
  PROVE  \A a \in ToSet(acks') : \A b \in Stores : a.versions[b] <= MaxVersion
<1>1. PICK e : e = [command |-> c, result |-> answer.result, versions |-> answer.versions]
  OBVIOUS
<1>2. acks' = Append(acks, e)
  BY <1>1 DEF Ack
<1>3. acks \in Seq(AckMsg \cup {e}) /\ e \in AckMsg \cup {e}
  BY DEF StatusInv, StatusChannels
<1>4. ToSet(acks') = ToSet(acks) \cup {e}
  BY <1>2, <1>3, ChannelGets
<1>5. \A b \in Stores : e.versions[b] <= MaxVersion
  BY <1>1
<1> QED BY <1>4, <1>5 DEF StatusBounds, VersionsBounded

\* An error that is answered tells no version.
LEMMA RejectWithinBound ==
  ASSUME StatusInv, StatusBounds, NEW c \in Commands, Reject(c)
  PROVE  /\ \A d \in Commands, b \in Stores : remembered'[d].versions[b] <= MaxVersion
         /\ \A a \in ToSet(acks') : \A b \in Stores : a.versions[b] <= MaxVersion
<1>1. PICK e : e = IF remembered[c] = NoAnswer THEN [NoAnswer EXCEPT !.result = "error"] ELSE remembered[c]
  OBVIOUS
<1>2. remembered' = [remembered EXCEPT ![c] = e] /\ Ack(c, remembered'[c])
  BY <1>1 DEF Reject
<1>3. \A b \in Stores : e.versions[b] <= MaxVersion
  <2>1. CASE remembered[c] = NoAnswer
    <3>1. e.versions = NoVersions
      BY <1>1, <2>1 DEF NoAnswer
    <3> QED BY <3>1, VersionRoom DEF NoVersions
  <2>2. CASE remembered[c] # NoAnswer
    BY <1>1, <2>2 DEF StatusBounds, VersionsBounded
  <2> QED BY <2>1, <2>2
<1>4. remembered'[c] = e /\ \A d \in Commands : d # c => remembered'[d] = remembered[d]
  BY <1>2 DEF StatusInv, StatusTypes
<1>5. \A d \in Commands, b \in Stores : remembered'[d].versions[b] <= MaxVersion
  BY <1>3, <1>4 DEF StatusBounds, VersionsBounded
<1>6. \A a \in ToSet(acks') : \A b \in Stores : a.versions[b] <= MaxVersion
  BY <1>2, <1>3, <1>4, AckWithinBound
<1> QED BY <1>5, <1>6

LEMMA StatusBoundsStep == StatusInv /\ StatusBounds /\ [StatusNext]_statusVars => StatusBounds'
<1> SUFFICES ASSUME StatusInv, StatusBounds, [StatusNext]_statusVars PROVE StatusBounds'
  OBVIOUS
<1>0. \A b \in Stores : NotHandling.base[b] <= MaxVersion
  BY VersionRoom DEF NotHandling
<1>1. ASSUME NEW c \in Commands, PublishCommand(c) PROVE StatusBounds'
  <2>1. \A d \in Commands : basis'[d].version <= MaxVersion
    <3>1. basis' = basis \/ \E k \in known : basis' = [basis EXCEPT ![c] = k]
      BY <1>1 DEF PublishCommand
    <3>2. CASE basis' = basis
      BY <3>2 DEF StatusBounds, VersionsBounded
    <3>3. ASSUME NEW k \in known, basis' = [basis EXCEPT ![c] = k] PROVE \A d \in Commands : basis'[d].version <= MaxVersion
      BY <3>3 DEF StatusBounds, VersionsBounded, StatusInv, StatusTypes
    <3> QED BY <3>1, <3>2, <3>3
  <2> QED BY <1>1, <2>1 DEF PublishCommand, StatusBounds, VersionsBounded, HoldersAreCommands
<1>2. CASE HearAck
  <2>1. acks \in Seq(AckMsg) /\ acks # <<>>
    BY <1>2 DEF HearAck, StatusInv, StatusChannels
  <2>2. Head(acks) \in ToSet(acks) /\ ToSet(Tail(acks)) \subseteq ToSet(acks)
    BY <2>1, ChannelTakes
  <2>3. PICK a : a = Head(acks)
    OBVIOUS
  <2>4. known' = known \/ known' = known \cup {[version |-> a.versions[b], store |-> b, by |-> a.command] :
                                                   b \in {s \in Stores : a.versions[s] > 0}}
    BY <1>2, <2>3 DEF HearAck
  <2>5. \A b \in Stores : a.versions[b] <= MaxVersion
    BY <2>2, <2>3 DEF StatusBounds, VersionsBounded
  <2>6. \A k \in known' : k.version <= MaxVersion
    BY <2>4, <2>5 DEF StatusBounds, VersionsBounded
  <2>7. \A x \in ToSet(acks') : \A b \in Stores : x.versions[b] <= MaxVersion
    BY <1>2, <2>2 DEF HearAck, StatusBounds, VersionsBounded
  <2> QED BY <1>2, <2>6, <2>7 DEF HearAck, masterVars, StatusBounds, VersionsBounded, HoldersAreCommands
<1>3. CASE HearReject
  BY <1>3 DEF HearReject, masterVars, StatusBounds, VersionsBounded, HoldersAreCommands
<1>4. CASE ReceiveCommand
  <2>1. commandsIn \in Seq(Commands) /\ commandsIn # <<>>
    BY <1>4 DEF ReceiveCommand, StatusInv, StatusChannels
  <2>2. PICK c \in Commands : c = Head(commandsIn)
    BY <2>1, ChannelTakes
  <2>3. UNCHANGED <<basis, known, holder, version>>
    BY <1>4 DEF ReceiveCommand
  <2>4. \/ Ack(c, remembered[c]) /\ UNCHANGED <<remembered, handling>>
        \/ UNCHANGED <<acks, remembered, handling>>
        \/ Reject(c) /\ UNCHANGED handling
        \/ handling' = [command |-> c, todo |-> Targets[c], base |-> version] /\ UNCHANGED <<acks, remembered>>
    BY <1>4, <2>2 DEF ReceiveCommand
  <2>5. CASE Ack(c, remembered[c]) /\ UNCHANGED <<remembered, handling>>
    <3>1. \A a \in ToSet(acks') : \A b \in Stores : a.versions[b] <= MaxVersion
      BY <2>5, AckWithinBound DEF StatusBounds, VersionsBounded
    <3> QED BY <2>3, <2>5, <3>1 DEF StatusBounds, VersionsBounded, HoldersAreCommands
  <2>6. CASE UNCHANGED <<acks, remembered, handling>>
    BY <2>3, <2>6 DEF StatusBounds, VersionsBounded, HoldersAreCommands
  <2>7. CASE Reject(c) /\ UNCHANGED handling
    BY <2>3, <2>7, RejectWithinBound DEF StatusBounds, VersionsBounded, HoldersAreCommands
  <2>8. CASE handling' = [command |-> c, todo |-> Targets[c], base |-> version] /\ UNCHANGED <<acks, remembered>>
    <3>1. handling'.base = version
      BY <2>8
    <3> QED BY <2>3, <2>8, <3>1 DEF StatusBounds, VersionsBounded, HoldersAreCommands
  <2> QED BY <2>4, <2>5, <2>6, <2>7, <2>8
<1>5. CASE WriteFails \/ CommentFails
  <2>1. PICK c, s : c = handling.command /\ s = Head(handling.todo)
    OBVIOUS
  <2>2. handling.todo # <<>>
    BY <1>5 DEF WriteFails, CommentFails
  <2>3. c \in Commands /\ s \in Stores
    BY <2>1, <2>2, NextWrite
  <2>4. Reject(c) /\ handling' = NotHandling /\ UNCHANGED <<basis, known, version>>
        /\ (holder' = holder \/ holder' = [holder EXCEPT ![s] = c])
    BY <1>5, <2>1 DEF WriteFails, CommentFails
  <2>5. HoldersAreCommands'
    BY <2>3, <2>4 DEF StatusBounds, HoldersAreCommands, StatusInv, StatusTypes
  <2> QED BY <1>0, <2>3, <2>4, <2>5, RejectWithinBound DEF StatusBounds, VersionsBounded
<1>6. CASE WriteStore
  <2>1. PICK c, s : c = handling.command /\ s = Head(handling.todo)
    OBVIOUS
  <2>2. handling.todo # <<>> /\ version[s] < MaxVersion
    BY <1>6, <2>1 DEF WriteStore
  <2>3. c \in Commands /\ s \in Stores /\ s \in ToSet(handling.todo)
    BY <2>1, <2>2, NextWrite
  <2>4. /\ holder' = [holder EXCEPT ![s] = c] /\ version' = [version EXCEPT ![s] = handling.base[s] + 1]
        /\ handling' = [handling EXCEPT !.todo = Tail(handling.todo)]
        /\ UNCHANGED <<basis, known, acks, remembered>>
    BY <1>6, <2>1 DEF WriteStore, clientVars
  <2>5. handling.base[s] = version[s] /\ version \in [Stores -> Nat] /\ handling \in Plan
    BY <2>1, <2>3 DEF StatusInv, StatusTypes, PlanHolds
  <2>6. \A b \in Stores : version'[b] <= MaxVersion
    BY <2>2, <2>3, <2>4, <2>5, VersionRoom DEF StatusBounds, VersionsBounded
  <2>7. handling'.base = handling.base
    BY <2>4, <2>5 DEF Plan
  <2>8. HoldersAreCommands'
    BY <2>3, <2>4 DEF StatusBounds, HoldersAreCommands, StatusInv, StatusTypes
  <2> QED BY <2>4, <2>6, <2>7, <2>8 DEF StatusBounds, VersionsBounded
<1>7. CASE FinishCommand
  <2>1. PICK c : c = handling.command
    OBVIOUS
  <2>2. c \in Commands
    BY <1>7, <2>1 DEF FinishCommand, StatusInv, StatusTypes, Plan
  <2>3. PICK e : e = [result |-> "ok", versions |-> [b \in Stores |-> IF b \in ToSet(Targets[c]) THEN version[b] ELSE 0]]
    OBVIOUS
  <2>4. /\ remembered' = [remembered EXCEPT ![c] = e] /\ Ack(c, remembered'[c]) /\ handling' = NotHandling
        /\ UNCHANGED <<basis, known, holder, version>>
    BY <1>7, <2>1, <2>3 DEF FinishCommand
  <2>5. \A b \in Stores : e.versions[b] <= MaxVersion
    BY <2>3, VersionRoom DEF StatusBounds, VersionsBounded
  <2>6. remembered'[c] = e /\ \A d \in Commands : d # c => remembered'[d] = remembered[d]
    BY <2>2, <2>4 DEF StatusInv, StatusTypes
  <2>7. \A d \in Commands, b \in Stores : remembered'[d].versions[b] <= MaxVersion
    BY <2>5, <2>6 DEF StatusBounds, VersionsBounded
  <2>8. \A a \in ToSet(acks') : \A b \in Stores : a.versions[b] <= MaxVersion
    BY <2>4, <2>5, <2>6, AckWithinBound
  <2> QED BY <1>0, <2>4, <2>7, <2>8 DEF StatusBounds, VersionsBounded, HoldersAreCommands
<1>8. CASE RestartMastermind
  <2>1. \A b \in Stores : version'[b] <= MaxVersion
    BY <1>8, VersionRoom DEF RestartMastermind
  <2>2. \A c \in Commands, b \in Stores : remembered'[c].versions[b] <= MaxVersion
    <3>1. \A b \in Stores : NoAnswer.versions[b] <= MaxVersion
      BY VersionRoom DEF NoAnswer, NoVersions
    <3> QED BY <1>8, <3>1 DEF RestartMastermind
  <2> QED BY <1>0, <1>8, <2>1, <2>2 DEF RestartMastermind, clientVars, StatusBounds, VersionsBounded, HoldersAreCommands
<1>9. CASE UNCHANGED statusVars
  BY <1>9 DEF statusVars, clientVars, masterVars, StatusBounds, VersionsBounded, HoldersAreCommands
<1> QED BY <1>1, <1>2, <1>3, <1>4, <1>5, <1>6, <1>7, <1>8, <1>9 DEF StatusNext, ClientStep, MastermindStep

LEMMA StatusShape == StatusSpec => []StatusTypeOK
<1>1. StatusInit => StatusBounds
  <2> SUFFICES ASSUME StatusInit PROVE StatusBounds
    OBVIOUS
  <2>1. acks = <<>> /\ ToSet(<<>>) = {}
    BY ChannelEmpty DEF StatusInit
  <2>2. \A b \in Stores : NotHandling.base[b] <= MaxVersion /\ NoAnswer.versions[b] <= MaxVersion
    BY VersionRoom DEF NotHandling, NoAnswer, NoVersions
  <2>3. Unexpected.version <= MaxVersion
    BY VersionRoom DEF Unexpected
  <2>4. \A b \in Stores : version[b] <= MaxVersion
    BY VersionRoom DEF StatusInit
  <2> QED BY <2>1, <2>2, <2>3, <2>4 DEF StatusInit, StatusBounds, VersionsBounded, HoldersAreCommands
<1>2. StatusInv /\ StatusBounds => StatusTypeOK
  <2> SUFFICES ASSUME StatusInv, StatusBounds PROVE StatusTypeOK
    OBVIOUS
  <2>0. MaxVersion \in Nat
    BY VersionRoom
  <2>1. version \in [Stores -> 0 .. MaxVersion]
    BY <2>0 DEF StatusInv, StatusTypes, StatusBounds, VersionsBounded
  <2>2. basis \in [Commands -> [version : 0 .. MaxVersion, store : Stores \cup {"any"},
                                by : Commands \cup {NoCommand}]]
    <3>1. \A c \in Commands : basis[c] \in Basis /\ basis[c].version <= MaxVersion
      BY DEF StatusInv, StatusTypes, StatusBounds, VersionsBounded
    <3>2. \A c \in Commands : basis[c] \in [version : 0 .. MaxVersion, store : Stores \cup {"any"},
                                            by : Commands \cup {NoCommand}]
      BY <2>0, <3>1 DEF Basis
    <3> QED BY <3>2 DEF StatusInv, StatusTypes
  <2>3. handling \in [command : Commands \cup {NoCommand}, todo : Seq(Stores), base : [Stores -> 0 .. MaxVersion]]
    <3>1. handling.base \in [Stores -> 0 .. MaxVersion]
      BY <2>0 DEF StatusInv, StatusTypes, Plan, StatusBounds, VersionsBounded
    <3> QED BY <3>1 DEF StatusInv, StatusTypes, Plan
  <2>4. remembered \in [Commands -> [result : {"nothing", "ok", "error"}, versions : [Stores -> 0 .. MaxVersion]]]
    <3>1. ASSUME NEW c \in Commands
          PROVE  remembered[c] \in [result : {"nothing", "ok", "error"}, versions : [Stores -> 0 .. MaxVersion]]
      <4>1. remembered[c] \in [result : {"nothing", "ok", "error"}, versions : [Stores -> Nat]]
        BY DEF StatusInv, StatusTypes, Reply, NoAnswer, NoVersions
      <4>2. \A b \in Stores : remembered[c].versions[b] <= MaxVersion
        BY DEF StatusBounds, VersionsBounded
      <4>3. remembered[c].versions \in [Stores -> 0 .. MaxVersion]
        BY <2>0, <4>1, <4>2
      <4> QED BY <4>1, <4>3
    <3> QED BY <3>1 DEF StatusInv, StatusTypes
  <2>5. holder \in [Stores -> Commands \cup {NoCommand}]
    BY DEF StatusInv, StatusTypes, StatusBounds, HoldersAreCommands
  <2> QED BY <2>1, <2>2, <2>3, <2>4, <2>5 DEF StatusInv, StatusTypes, StatusChannels, StatusTypeOK
<1> QED BY <1>1, <1>2, StatusStart, StatusStep, StatusBoundsStep, PTL DEF StatusSpec

\* Graphs hold their roots' tasks, and so do the changes that are told of them.
GraphsWithin(graphs) == \A g \in DOMAIN graphs : g \in GraphRefs /\ DOMAIN graphs[g] \subseteq GraphTasks[g]
ChangesWithin(diff) == \A g \in DOMAIN diff : g \in GraphRefs /\ DOMAIN diff[g].upsert \subseteq GraphTasks[g]
AreTrees(graphs) == \A g \in DOMAIN graphs : g \in GraphRefs /\ graphs[g] \in Trees(g)

FeedGraphs ==
  /\ AreTrees(published) /\ GraphsWithin(copy)
  /\ \A m \in ToSet(snapshotIn) : GraphsWithin(m.graphs)
  /\ \A m \in ToSet(diffIn) : ChangesWithin(m.graphs)
  /\ \A m \in ToSet(output) : /\ m.kind = "snapshot" => GraphsWithin(m.graphs)
                              /\ m.kind = "diff" => ChangesWithin(m.graphs)

\* What a filter of the statuses leaves of a tree is a tree.
LEMMA TreesHold ==
  ASSUME NEW g, NEW tree \in Trees(g)
  PROVE  DOMAIN tree \subseteq GraphTasks[g] /\ SnapshotOf(tree) \in Trees(g)
<1>1. PICK ids \in SUBSET GraphTasks[g] : tree \in [ids -> {"open", "closed"}]
  BY DEF Trees
<1>2. PICK kept : kept = {t \in DOMAIN tree : SyncStatuses = {} \/ tree[t] \in SyncStatuses}
  OBVIOUS
<1>3. SnapshotOf(tree) = [t \in kept |-> tree[t]] /\ kept \in SUBSET GraphTasks[g] /\ kept \subseteq ids
  BY <1>1, <1>2 DEF SnapshotOf, Restrict
<1>4. SnapshotOf(tree) \in [kept -> {"open", "closed"}]
  BY <1>1, <1>3
<1> QED BY <1>1, <1>3, <1>4 DEF Trees

LEMMA TreesAreWithin == ASSUME NEW graphs, AreTrees(graphs) PROVE GraphsWithin(graphs)
BY TreesHold DEF AreTrees, GraphsWithin

\* Nodes of a graph that is not there: none.
LEMMA NodesWithin ==
  ASSUME NEW graphs, GraphsWithin(graphs), NEW g \in GraphRefs
  PROVE  DOMAIN Nodes(graphs, g) \subseteq GraphTasks[g]
<1>1. DOMAIN <<>> = {}
  OBVIOUS
<1> QED BY <1>1 DEF Nodes, GraphsWithin

LEMMA DiffWithin ==
  ASSUME NEW p, NEW c, GraphsWithin(p), GraphsWithin(c)
  PROVE  ChangesWithin(DiffOf(p, c))
<1> SUFFICES ASSUME NEW g \in DOMAIN DiffOf(p, c)
             PROVE  g \in GraphRefs /\ DOMAIN DiffOf(p, c)[g].upsert \subseteq GraphTasks[g]
  BY DEF ChangesWithin
<1>1. g \in GraphRefs
  BY DEF DiffOf, GraphsWithin
<1>2. PICK u : /\ u \subseteq DOMAIN Nodes(c, g)
               /\ DiffOf(p, c)[g].upsert = Restrict(Nodes(c, g), u)
  BY DEF DiffOf
<1>3. DOMAIN Nodes(c, g) \subseteq GraphTasks[g]
  BY <1>1, NodesWithin
<1>4. DOMAIN Restrict(Nodes(c, g), u) = u
  BY DEF Restrict
<1> QED BY <1>1, <1>2, <1>3, <1>4

LEMMA ApplyWithin ==
  ASSUME NEW graphs, NEW diff, GraphsWithin(graphs), ChangesWithin(diff)
  PROVE  GraphsWithin(Apply(graphs, diff))
<1> DEFINE nodes(g) == IF g \in DOMAIN diff THEN Changed(Nodes(graphs, g), diff[g]) ELSE Nodes(graphs, g)
           shown == {r \in DOMAIN graphs \cup DOMAIN diff : DOMAIN nodes(r) # {}}
<1>1. Apply(graphs, diff) = [g \in shown |-> nodes(g)]
  BY DEF Apply
<1>2. shown \subseteq GraphRefs
  BY DEF GraphsWithin, ChangesWithin
<1>3. ASSUME NEW g \in GraphRefs PROVE DOMAIN nodes(g) \subseteq GraphTasks[g]
  <2>1. DOMAIN Nodes(graphs, g) \subseteq GraphTasks[g]
    BY NodesWithin
  <2>2. ASSUME g \in DOMAIN diff PROVE DOMAIN Changed(Nodes(graphs, g), diff[g]) \subseteq GraphTasks[g]
    <3>1. DOMAIN Changed(Nodes(graphs, g), diff[g]) =
          DOMAIN diff[g].upsert \cup (DOMAIN Nodes(graphs, g) \ diff[g].delete)
      BY DEF Changed
    <3> QED BY <2>1, <2>2, <3>1 DEF ChangesWithin
  <2> QED BY <2>1, <2>2
<1> HIDE DEF nodes, shown
<1> QED BY <1>1, <1>2, <1>3 DEF GraphsWithin

LEMMA FeedGraphsStep == FeedInv /\ FeedGraphs /\ [FeedNext]_feedVars => FeedGraphs'
<1> SUFFICES ASSUME FeedInv, FeedGraphs, [FeedNext]_feedVars PROVE FeedGraphs'
  OBVIOUS
<1>0. Channel(snapshotIn) /\ Channel(diffIn) /\ Channel(output)
  BY DEF FeedInv, FeedTypes
<1>1. CASE SyncGraphs
  <2>1. PICK diff : diff = DiffOf(published, published')
    OBVIOUS
  <2>2. PICK s, d : s = [version |-> feedVersion + 1, graphs |-> published'] /\ d = [version |-> feedVersion + 2, graphs |-> diff]
    OBVIOUS
  <2>3. /\ snapshotIn' = Publish(snapshotIn, s) /\ (diffIn' = Publish(diffIn, d) \/ diffIn' = diffIn)
        /\ UNCHANGED <<output, copy>>
    BY <1>1, <2>1, <2>2 DEF SyncGraphs
  <2>4. AreTrees(published')
    <3>1. PICK roots \in SUBSET GraphRefs : \E trees : 
             /\ \A g \in roots : trees[g] \in Trees(g)
             /\ published' = [g \in {r \in roots : DOMAIN SnapshotOf(trees[r]) # {}} |-> SnapshotOf(trees[g])]
      BY <1>1 DEF SyncGraphs
    <3>2. PICK trees : /\ \A g \in roots : trees[g] \in Trees(g)
                       /\ published' = [g \in {r \in roots : DOMAIN SnapshotOf(trees[r]) # {}} |-> SnapshotOf(trees[g])]
      BY <3>1
    <3>3. \A g \in roots : SnapshotOf(trees[g]) \in Trees(g)
      BY <3>2, TreesHold
    <3> QED BY <3>1, <3>2, <3>3 DEF AreTrees
  <2>5. GraphsWithin(published') /\ ChangesWithin(diff)
    BY <2>1, <2>4, TreesAreWithin, DiffWithin DEF FeedGraphs
  <2>6. ToSet(snapshotIn') \subseteq ToSet(snapshotIn) \cup {s} /\ ToSet(diffIn') \subseteq ToSet(diffIn) \cup {d}
    BY <1>0, <2>3, PublishAdds
  <2>7. GraphsWithin(s.graphs) /\ ChangesWithin(d.graphs)
    BY <2>2, <2>5
  <2>8. GraphsWithin(copy')
    BY <2>3 DEF FeedGraphs
  <2> QED BY <2>3, <2>4, <2>6, <2>7, <2>8 DEF FeedGraphs
<1>2. CASE ForwardSnapshot
  <2>1. PICK s, e : s = Head(snapshotIn) /\ e = [kind |-> "snapshot", version |-> s.version, graphs |-> s.graphs]
    OBVIOUS
  <2>2. /\ snapshotIn # <<>> /\ snapshotIn' = Tail(snapshotIn) /\ (output' = Publish(output, e) \/ output' = output)
        /\ UNCHANGED <<published, diffIn, copy>>
    BY <1>2, <2>1 DEF ForwardSnapshot
  <2>3. s \in ToSet(snapshotIn) /\ ToSet(snapshotIn') \subseteq ToSet(snapshotIn) /\ ToSet(output') \subseteq ToSet(output) \cup {e}
    BY <1>0, <2>1, <2>2, ChannelOpens, PublishAdds
  <2>4. e.kind = "snapshot" /\ GraphsWithin(e.graphs)
    BY <2>1, <2>3 DEF FeedGraphs
  <2>5. AreTrees(published') /\ GraphsWithin(copy')
    BY <2>2 DEF FeedGraphs
  <2> QED BY <2>2, <2>3, <2>4, <2>5 DEF FeedGraphs
<1>3. CASE ForwardDiff
  <2>1. PICK d, e : d = Head(diffIn) /\ e = [kind |-> "diff", version |-> d.version, graphs |-> d.graphs]
    OBVIOUS
  <2>2. /\ diffIn # <<>> /\ diffIn' = Tail(diffIn) /\ (output' = Publish(output, e) \/ output' = output)
        /\ UNCHANGED <<published, snapshotIn, copy>>
    BY <1>3, <2>1 DEF ForwardDiff
  <2>3. d \in ToSet(diffIn) /\ ToSet(diffIn') \subseteq ToSet(diffIn) /\ ToSet(output') \subseteq ToSet(output) \cup {e}
    BY <1>0, <2>1, <2>2, ChannelOpens, PublishAdds
  <2>4. e.kind = "diff" /\ ChangesWithin(e.graphs)
    BY <2>1, <2>3 DEF FeedGraphs
  <2>5. AreTrees(published') /\ GraphsWithin(copy')
    BY <2>2 DEF FeedGraphs
  <2> QED BY <2>2, <2>3, <2>4, <2>5 DEF FeedGraphs
<1>4. CASE ReadEvent
  <2>1. PICK e : e = Head(output)
    OBVIOUS
  <2>2. /\ output # <<>> /\ output' = Tail(output) /\ UNCHANGED <<published, snapshotIn, diffIn>>
        /\ \/ e.kind = "snapshot" /\ copy' = e.graphs
           \/ e.kind = "diff" /\ copy' = Apply(copy, e.graphs)
           \/ copy' = copy
    BY <1>4, <2>1 DEF ReadEvent
  <2>3. e \in ToSet(output) /\ ToSet(output') \subseteq ToSet(output)
    BY <1>0, <2>1, <2>2, ChannelOpens
  <2>4. GraphsWithin(copy')
    BY <2>2, <2>3, ApplyWithin DEF FeedGraphs
  <2>5. AreTrees(published')
    BY <2>2 DEF FeedGraphs
  <2> QED BY <2>2, <2>3, <2>4, <2>5 DEF FeedGraphs
<1>5. CASE UNCHANGED feedVars
  BY <1>5 DEF feedVars, FeedGraphs, GraphsWithin, AreTrees
<1> QED BY <1>1, <1>2, <1>3, <1>4, <1>5 DEF FeedNext

LEMMA FeedShape == FeedSpec => []FeedTypeOK
<1>1. FeedInit => FeedGraphs
  <2> SUFFICES ASSUME FeedInit PROVE FeedGraphs
    OBVIOUS
  <2>1. ToSet(<<>>) = {} /\ DOMAIN NoGraphs = {}
    BY ChannelEmpty DEF NoGraphs
  <2> QED BY <2>1 DEF FeedInit, FeedGraphs, GraphsWithin, AreTrees
<1>2. FeedInv /\ FeedGraphs => FeedTypeOK
  BY DEF FeedInv, FeedTypes, FeedGraphs, Channel, AreTrees, GraphsWithin, FeedTypeOK
<1> QED BY <1>1, <1>2, FeedStart, FeedStep, FeedGraphsStep, PTL DEF FeedSpec

Advert == [id : Workers, skills : SUBSET {"implement", "review"}]

\* The registry knows executors only, the bound is spent only while there is something left
\* of it, and an attempt that ended has an outcome.
DispatchShapes ==
  /\ adverts \in Seq(Advert)
  /\ notices \subseteq {"register", "heartbeat", "offline"} \X Workers
  /\ life \in [Workers -> {"new", "announced", "listening", "stopped"}]
  /\ faultsLeft \in 0 .. MaxDispatchFaults
  /\ \A c \in Calls : call[c].executor \in Workers \cup {Unassigned}
  /\ \A p \in Workers \X Calls : handler[p].phase = "reporting" => handler[p].outcome # "none"
  /\ \A d \in Calls : \A x \in ToSet(answers[d]) : x.outcome # "none"

\* The first entry that fits, if any does.
LEMMA PickIsAnEntry == ASSUME NEW kind PROVE Pick(kind) = 0 \/ Pick(kind) \in 1 .. Len(adverts)
<1> DEFINE I == {i \in 1 .. Len(adverts) : kind \in adverts[i].skills}
<1>1. Pick(kind) = IF I # {} THEN Min(I) ELSE 0
  BY DEF Pick, SelectInSeq
<1>2. ASSUME I # {} PROVE Min(I) \in I
  <2>1. I \in SUBSET Nat
    OBVIOUS
  <2>2. \E i \in I : \A j \in I : i <= j
    BY <1>2, <2>1, NatMin
  <2> QED BY <2>2 DEF Min
<1> QED BY <1>1, <1>2

LEMMA WithoutIsFewer == ASSUME DispatchShapes, NEW e PROVE Without(e) \in Seq(Advert)
<1>1. adverts \in Seq(Advert)
  BY DEF DispatchShapes
<1> DEFINE I == {i \in 1 .. Len(adverts) : adverts[i].id = e}
<1>2. Without(e) = IF \E i \in 1 .. Len(adverts) : adverts[i].id = e THEN RemoveAt(adverts, Min(I)) ELSE adverts
  BY DEF Without, RemoveFirstMatch, SelectInSeq
<1>3. ASSUME I # {} PROVE RemoveAt(adverts, Min(I)) \in Seq(Advert)
  <2>1. I \in SUBSET Nat
    OBVIOUS
  <2>2. \E i \in I : \A j \in I : i <= j
    BY <1>3, <2>1, NatMin
  <2>3. PICK m \in 1 .. Len(adverts) : m = Min(I)
    BY <2>2 DEF Min
  <2>4. SubSeq(adverts, 1, m - 1) \in Seq(Advert) /\ SubSeq(adverts, m + 1, Len(adverts)) \in Seq(Advert)
    BY <1>1
  <2> QED BY <2>3, <2>4 DEF RemoveAt
<1> QED BY <1>1, <1>2, <1>3

LEMMA SettledAreListed ==
  SetToSeq({[id |-> e, skills |-> Skills[e]] : e \in Settled}) \in Seq(Advert)
<1> DEFINE S == {[id |-> e, skills |-> Skills[e]] : e \in Settled}
           f == [e \in Settled |-> [id |-> e, skills |-> Skills[e]]]
<1>1. Settled \subseteq Workers /\ Skills \in [Workers -> SUBSET {"implement", "review"}]
  BY DispatchAssumption
<1>2. IsFiniteSet(Settled)
  BY DispatchAssumption
<1>3. f \in Surjection(Settled, S)
  BY DEF Surjection
<1>4. IsFiniteSet(S)
  BY <1>2, <1>3, FS_Surjection
<1>5. S \subseteq Advert
  BY <1>1 DEF Advert
<1> HIDE DEF S
<1>6. Cardinality(S) \in Nat /\ ExistsBijection(1 .. Cardinality(S), S)
  BY <1>4, FS_CardinalityType
<1>7. \E g \in [1 .. Cardinality(S) -> S] : IsInjective(g)
  BY <1>6 DEF ExistsBijection, Bijection, Injection, IsInjective
<1>8. SetToSeq(S) \in [1 .. Cardinality(S) -> S]
  BY <1>7 DEF SetToSeq
<1>9. SetToSeq(S) \in Seq(S)
  BY <1>6, <1>8
<1> QED BY <1>5, <1>9 DEF S

\* The entry made for what was seen.
LEMMA SeenIsListed ==
  ASSUME DispatchShapes, NEW e \in Workers, NEW skills \in SUBSET {"implement", "review"}
  PROVE  SeenNow(e, skills) \in Seq(Advert)
<1>1. Without(e) \in Seq(Advert)
  BY WithoutIsFewer
<1>2. <<[id |-> e, skills |-> skills]>> \in Seq(Advert)
  BY DEF Advert
<1> QED BY <1>1, <1>2 DEF SeenNow

LEMMA SpendFits ==
  ASSUME faultsLeft \in 0 .. MaxDispatchFaults, NEW all, NEW reached \in Reaching(all), Lost(all, reached)
  PROVE  faultsLeft' \in 0 .. MaxDispatchFaults
<1>1. MaxDispatchFaults \in Nat
  BY DispatchAssumption
<1>2. reached = all \/ faultsLeft > 0
  BY DEF Reaching
<1>3. faultsLeft' = IF reached = all THEN faultsLeft ELSE faultsLeft - 1
  BY DEF Lost
<1> QED BY <1>1, <1>2, <1>3

LEMMA NoticeShapes ==
  ASSUME DispatchShapes, NEW e \in Workers, NEW kind \in {"register", "heartbeat", "offline"}, HandleNotice(kind, e)
  PROVE  DispatchShapes'
<1>1. UNCHANGED <<call, life, handler, answers, faultsLeft>> /\ notices' \subseteq notices
  BY DEF HandleNotice
<1>2. Skills[e] \in SUBSET {"implement", "review"}
  BY DispatchAssumption
<1>3. SkillsOf(e) \in SUBSET {"implement", "review"}
  <2>1. \A a \in ToSet(adverts) : a.skills \subseteq {"implement", "review"}
    <3>1. ToSet(adverts) \subseteq Advert
      BY ChannelHolds DEF DispatchShapes
    <3> QED BY <3>1 DEF Advert
  <2> QED BY <2>1 DEF SkillsOf
<1>4. adverts' \in {SeenNow(e, Skills[e]), SeenNow(e, SkillsOf(e)), Without(e)}
  BY DEF HandleNotice
<1>5. adverts' \in Seq(Advert)
  BY <1>2, <1>3, <1>4, SeenIsListed, WithoutIsFewer
<1> QED BY <1>1, <1>5 DEF DispatchShapes

LEMMA LifeShapes ==
  ASSUME DispatchShapes, NEW e \in Workers, Announce(e) \/ Listen(e) \/ Beat(e) \/ Shutdown(e) \/ ForgetExecutor(e)
  PROVE  DispatchShapes'
<1>1. UNCHANGED <<call, handler, answers>>
  BY DEF Announce, Listen, Beat, Shutdown, ForgetExecutor
<1>2. adverts' \in Seq(Advert)
  BY WithoutIsFewer DEF Announce, Listen, Beat, Shutdown, ForgetExecutor, DispatchShapes
<1>3. life' \in [Workers -> {"new", "announced", "listening", "stopped"}]
  BY DEF Announce, Listen, Beat, Shutdown, ForgetExecutor, DispatchShapes
<1>4. notices' \subseteq {"register", "heartbeat", "offline"} \X Workers
  BY DEF Announce, Listen, Beat, Shutdown, ForgetExecutor, DispatchShapes
<1>5. faultsLeft' \in 0 .. MaxDispatchFaults
  <2>1. MaxDispatchFaults \in Nat /\ faultsLeft \in 0 .. MaxDispatchFaults
    BY DispatchAssumption DEF DispatchShapes
  <2>2. faultsLeft' = faultsLeft \/ (faultsLeft > 0 /\ faultsLeft' = faultsLeft - 1)
    BY DEF Announce, Listen, Beat, Shutdown, ForgetExecutor, Spend
  <2> QED BY <2>1, <2>2
<1> QED BY <1>1, <1>2, <1>3, <1>4, <1>5 DEF DispatchShapes

\* The calls.
LEMMA CallShapes ==
  ASSUME DispatchInv, DispatchShapes, NEW c \in Calls,
         PickExecutor(c) \/ PublishDispatch(c) \/ ReadAnswer(c) \/ GiveUp(c)
  PROVE  DispatchShapes'
<1>1. UNCHANGED <<adverts, notices, life, handler>>
  BY DEF PickExecutor, PublishDispatch, ReadAnswer, GiveUp
<1>2. call = [d \in Calls |-> call[d]] /\ IsCall(call[c])
  BY DEF DispatchInv, DispatchTypes
<1>3. \A d \in Calls : call'[d].executor \in Workers \cup {Unassigned}
  <2>1. PICK s : call' = [call EXCEPT ![c] = s] /\ s.executor \in Workers \cup {Unassigned}
    <3>1. CASE PickExecutor(c)
      <4>1. PICK i : /\ i = 0 \/ i \in 1 .. Len(adverts)
                     /\ call' = [call EXCEPT ![c] =
                          IF i = 0 THEN [FreshCall EXCEPT !.phase = "returned", !.outcome = "failed"]
                          ELSE [FreshCall EXCEPT !.phase = "picked", !.executor = adverts[i].id]]
        BY <3>1, PickIsAnEntry DEF PickExecutor
      <4>2. CASE i = 0
        <5>1. [FreshCall EXCEPT !.phase = "returned", !.outcome = "failed"].executor = Unassigned
          BY DEF FreshCall
        <5> QED BY <4>1, <4>2, <5>1
      <4>3. CASE i \in 1 .. Len(adverts) /\ i # 0
        <5>1. adverts[i].id \in Workers
          <6>1. adverts[i] \in Advert
            BY <4>3 DEF DispatchShapes
          <6> QED BY <6>1 DEF Advert
        <5>2. [FreshCall EXCEPT !.phase = "picked", !.executor = adverts[i].id].executor = adverts[i].id
          BY DEF FreshCall
        <5> QED BY <4>1, <4>3, <5>1, <5>2
      <4> QED BY <4>1, <4>2, <4>3
    <3>2. CASE PublishDispatch(c)
      <4>1. call' = [call EXCEPT ![c] = [call[c] EXCEPT !.phase = "waiting"]]
        BY <3>2 DEF PublishDispatch
      <4>2. [call[c] EXCEPT !.phase = "waiting"].executor = call[c].executor
        BY <1>2, RecordMoves
      <4> QED BY <4>1, <4>2 DEF DispatchShapes
    <3>3. CASE ReadAnswer(c)
      <4>1. PICK r : r = Head(answers[c])
        OBVIOUS
      <4>2. \/ call' = [call EXCEPT ![c] = [[call[c] EXCEPT !.phase = "returned"] EXCEPT !.outcome = r.outcome]]
            \/ call' = [call EXCEPT ![c] = call[c]]
        BY <1>2, <3>3, <4>1 DEF ReadAnswer
      <4>3. [[call[c] EXCEPT !.phase = "returned"] EXCEPT !.outcome = r.outcome].executor = call[c].executor
        BY <1>2, RecordEnds
      <4> QED BY <4>2, <4>3 DEF DispatchShapes
    <3>4. CASE GiveUp(c)
      <4>1. call' = [call EXCEPT ![c] = [[call[c] EXCEPT !.phase = "gave up"] EXCEPT !.outcome = "failed"]]
        BY <1>2, <3>4 DEF GiveUp
      <4>2. [[call[c] EXCEPT !.phase = "gave up"] EXCEPT !.outcome = "failed"].executor = call[c].executor
        BY <1>2, RecordEnds
      <4> QED BY <4>1, <4>2 DEF DispatchShapes
    <3> QED BY <3>1, <3>2, <3>3, <3>4
  <2> QED BY <1>2, <2>1 DEF DispatchShapes
<1>4. faultsLeft' \in 0 .. MaxDispatchFaults
  <2>1. \/ faultsLeft' = faultsLeft
        \/ \E all : \E reached \in Reaching(all) : Lost(all, reached)
    BY DEF PickExecutor, PublishDispatch, ReadAnswer, GiveUp
  <2> QED BY <2>1, SpendFits DEF DispatchShapes
<1>5. \A d \in Calls : ToSet(answers'[d]) \subseteq ToSet(answers[d])
  <2>1. answers \in [Calls -> Seq(Results)]
    BY DEF DispatchInv, DispatchChannels
  <2>2. ToSet(<<>>) = {}
    BY ChannelEmpty
  <2>3. answers[c] # <<>> => ToSet(Tail(answers[c])) \subseteq ToSet(answers[c])
    BY <2>1, ChannelTakes
  <2>4. \/ answers' = answers
        \/ answers' = [answers EXCEPT ![c] = <<>>]
        \/ answers[c] # <<>> /\ answers' = [answers EXCEPT ![c] = Tail(answers[c])]
    BY <2>1 DEF PickExecutor, PublishDispatch, ReadAnswer, GiveUp
  <2> QED BY <2>1, <2>2, <2>3, <2>4
<1> QED BY <1>1, <1>3, <1>4, <1>5 DEF DispatchShapes

\* The executors' handlers.
LEMMA HandlerShapes ==
  ASSUME DispatchInv, DispatchShapes, NEW e \in Workers,
         ReceiveDispatch(e) \/ \E c \in Calls : FinishAttempt(e, c) \/ PublishResult(e, c)
  PROVE  DispatchShapes'
<1>1. UNCHANGED <<call, adverts, notices, life>>
  BY DEF ReceiveDispatch, FinishAttempt, PublishResult
<1>2. handler \in [Workers \X Calls -> HandlerState] /\ answers \in [Calls -> Seq(Results)]
  BY DEF DispatchInv, DispatchTypes, DispatchChannels
<1>3. CASE ReceiveDispatch(e)
  <2>1. UNCHANGED <<answers, faultsLeft>>
    BY <1>3 DEF ReceiveDispatch
  <2>2. PICK at, now : /\ handler' = handler \/ handler' = [handler EXCEPT ![at] = now]
                       /\ now.phase = "reporting" => now.outcome # "none"
    <3>1. PICK c : c = Head(inbox[e])
      OBVIOUS
    <3>2. handler' = handler \/ \E s \in Resolutions : handler' = [handler EXCEPT ![<<e, c>>] = s]
      BY <1>3, <3>1, Zenon DEF ReceiveDispatch
    <3>3. \A s \in Resolutions : s.phase = "reporting" => s.outcome # "none"
      BY DEF Resolutions
    <3>4. \E s \in Resolutions : TRUE
      BY DEF Resolutions
    <3> QED BY <3>2, <3>3, <3>4, Zenon
  <2>3. \A p \in Workers \X Calls : handler'[p] = handler[p] \/ handler'[p] = now
    BY <1>2, <2>2
  <2>4. \A p \in Workers \X Calls : handler'[p].phase = "reporting" => handler'[p].outcome # "none"
    BY <2>2, <2>3 DEF DispatchShapes
  <2> QED BY <1>1, <2>1, <2>4 DEF DispatchShapes
<1>4. ASSUME NEW c \in Calls, FinishAttempt(e, c) PROVE DispatchShapes'
  <2>1. PICK h : h = handler[<<e, c>>]
    OBVIOUS
  <2>2. h \in HandlerState /\ h.phase = "running" /\ UNCHANGED <<answers, faultsLeft>>
    BY <1>2, <1>4, <2>1 DEF FinishAttempt
  <2>3. PICK o \in {"completed", "failed"} :
           handler' = [handler EXCEPT ![<<e, c>>] =
              IF o = "failed" /\ h.attempt < Attempts /\ life[e] # "stopped"
              THEN [h EXCEPT !.attempt = h.attempt + 1]
              ELSE [h EXCEPT !.phase = "reporting", !.outcome = o]]
    BY <1>4, <2>1, Zenon DEF FinishAttempt
  <2>4. /\ [h EXCEPT !.attempt = h.attempt + 1].phase = "running"
        /\ [h EXCEPT !.phase = "reporting", !.outcome = o].outcome = o
    BY <2>2 DEF HandlerState
  <2>5. PICK s : handler' = [handler EXCEPT ![<<e, c>>] = s] /\ (s.phase = "running" \/ s.outcome = o)
    BY <2>3, <2>4
  <2>6. \A p \in Workers \X Calls : handler'[p].phase = "reporting" => handler'[p].outcome # "none"
    BY <1>2, <2>5 DEF DispatchShapes
  <2> QED BY <1>1, <2>2, <2>6 DEF DispatchShapes
<1>5. ASSUME NEW c \in Calls, PublishResult(e, c) PROVE DispatchShapes'
  <2>1. PICK h : h = handler[<<e, c>>]
    OBVIOUS
  <2>2. h \in HandlerState /\ h.phase = "reporting" /\ h.outcome # "none"
    BY <1>2, <1>5, <2>1 DEF PublishResult, DispatchShapes
  <2>3. PICK r : r = [call |-> c, outcome |-> h.outcome]
    OBVIOUS
  <2>4. r \in Results /\ r.outcome # "none"
    BY <2>2, <2>3 DEF Results, HandlerState
  <2>5. /\ handler' = [handler EXCEPT ![<<e, c>>] = [h EXCEPT !.phase = "ended"]]
        /\ \E waiting : \E reached \in Reaching(waiting) \cup {{}} :
              /\ faultsLeft' = faultsLeft \/ (reached \in Reaching(waiting) /\ Lost(waiting, reached))
              /\ answers' = [d \in Calls |-> IF d \in reached THEN Append(answers[d], r) ELSE answers[d]]
    BY <1>5, <2>1, <2>3 DEF PublishResult
  <2>6. faultsLeft' \in 0 .. MaxDispatchFaults
    BY <2>5, SpendFits DEF DispatchShapes
  <2>7. [h EXCEPT !.phase = "ended"].phase = "ended"
    BY <2>2 DEF HandlerState
  <2>8. \A p \in Workers \X Calls : handler'[p].phase = "reporting" => handler'[p].outcome # "none"
    BY <1>2, <2>5, <2>7 DEF DispatchShapes
  <2>9. \A d \in Calls : ToSet(answers'[d]) \subseteq ToSet(answers[d]) \cup {r}
    <3>1. \A d \in Calls : ToSet(Append(answers[d], r)) = ToSet(answers[d]) \cup {r}
      BY <1>2, <2>4, ChannelGets
    <3> QED BY <2>5, <3>1
  <2>10. \A d \in Calls : \A x \in ToSet(answers'[d]) : x.outcome # "none"
    BY <2>4, <2>9 DEF DispatchShapes
  <2> QED BY <1>1, <2>6, <2>8, <2>10 DEF DispatchShapes
<1> QED BY <1>3, <1>4, <1>5

LEMMA DispatchShapesStep == DispatchInv /\ DispatchShapes /\ [DispatchNext]_dispatchVars => DispatchShapes'
<1> SUFFICES ASSUME DispatchInv, DispatchShapes, [DispatchNext]_dispatchVars PROVE DispatchShapes'
  OBVIOUS
<1>1. CASE UNCHANGED dispatchVars
  BY <1>1 DEF dispatchVars, DispatchShapes
<1> QED BY <1>1, NoticeShapes, LifeShapes, CallShapes, HandlerShapes DEF DispatchNext

\* Messages that are of a kind make a channel of the kind.
LEMMA MessagesFit ==
  ASSUME NEW S, NEW T, NEW c \in Seq(S), \A i \in 1 .. Len(c) : c[i] \in T PROVE c \in Seq(T)
OBVIOUS

LEMMA DispatchShape == DispatchSpec => []DispatchTypeOK
<1>1. DispatchInit => DispatchShapes
  <2> SUFFICES ASSUME DispatchInit PROVE DispatchShapes
    OBVIOUS
  <2>1. adverts \in Seq(Advert)
    BY SettledAreListed DEF DispatchInit
  <2>2. \A d \in Calls : ToSet(answers[d]) = {}
    BY ChannelEmpty DEF DispatchInit
  <2>3. faultsLeft \in 0 .. MaxDispatchFaults
    <3>1. MaxDispatchFaults \in Nat
      BY DispatchAssumption
    <3> QED BY <3>1 DEF DispatchInit
  <2>4. life \in [Workers -> {"new", "announced", "listening", "stopped"}]
    BY DEF DispatchInit
  <2>5. \A c \in Calls : call[c].executor = Unassigned
    BY DEF DispatchInit, FreshCall
  <2>6. \A p \in Workers \X Calls : handler[p].phase = "none"
    BY DEF DispatchInit, FreshHandler
  <2> QED BY <2>1, <2>2, <2>3, <2>4, <2>5, <2>6 DEF DispatchInit, DispatchShapes
<1>2. DispatchInv /\ DispatchShapes => DispatchTypeOK
  <2> SUFFICES ASSUME DispatchInv, DispatchShapes PROVE DispatchTypeOK
    OBVIOUS
  <2>1. call \in [Calls -> [phase : {"new", "picked", "waiting", "returned", "gave up"},
                            executor : Workers \cup {Unassigned}, outcome : {"none", "completed", "failed"}]]
    <3>1. \A c \in Calls : call[c] \in [phase : {"new", "picked", "waiting", "returned", "gave up"},
                            executor : Workers \cup {Unassigned}, outcome : {"none", "completed", "failed"}]
      <4> SUFFICES ASSUME NEW c \in Calls
                   PROVE  call[c] \in [phase : {"new", "picked", "waiting", "returned", "gave up"},
                            executor : Workers \cup {Unassigned}, outcome : {"none", "completed", "failed"}]
        OBVIOUS
      <4>1. IsCall(call[c]) /\ call[c].executor \in Workers \cup {Unassigned}
        BY DEF DispatchInv, DispatchTypes, DispatchShapes
      <4>2. PICK x, y, z : x = call[c].phase /\ y = call[c].executor /\ z = call[c].outcome
        OBVIOUS
      <4>3. /\ call[c] = [phase |-> x, executor |-> y, outcome |-> z]
            /\ x \in Phases /\ y \in Workers \cup {Unassigned} /\ z \in Outcomes
        BY <4>1, <4>2 DEF IsCall
      <4>4. PICK who : who = Workers \cup {Unassigned}
        OBVIOUS
      <4>5. call[c] \in [phase : Phases, executor : who, outcome : Outcomes]
        BY <4>3, <4>4
      <4> QED BY <4>4, <4>5 DEF Phases, Outcomes
    <3> QED BY <3>1 DEF DispatchInv, DispatchTypes
  <2>2. handler \in [Workers \X Calls -> [phase : {"none", "running", "reporting", "ended"},
                                          attempt : 0 .. Attempts, outcome : {"none", "completed", "failed"}]]
    BY DEF DispatchInv, DispatchTypes, HandlerState, Outcomes
  <2>3. answers \in [Calls -> Seq([call : Calls, outcome : {"completed", "failed"}])]
    <3>1. ASSUME NEW d \in Calls PROVE answers[d] \in Seq([call : Calls, outcome : {"completed", "failed"}])
      <4>1. answers[d] \in Seq(Results)
        BY DEF DispatchInv, DispatchChannels
      <4>2. \A i \in 1 .. Len(answers[d]) : answers[d][i] \in Results /\ answers[d][i].outcome # "none"
        BY <4>1 DEF DispatchShapes, ToSet
      <4>3. \A i \in 1 .. Len(answers[d]) : answers[d][i] \in [call : Calls, outcome : {"completed", "failed"}]
        BY <4>2 DEF Results, Outcomes
      <4>4. PICK T : T = [call : Calls, outcome : {"completed", "failed"}]
        OBVIOUS
      <4>5. answers[d] \in Seq(T)
        BY <4>1, <4>3, <4>4, MessagesFit
      <4> QED BY <4>4, <4>5
    <3> QED BY <3>1 DEF DispatchInv, DispatchChannels
  <2> QED BY <2>1, <2>2, <2>3 DEF DispatchInv, DispatchChannels, DispatchShapes, DispatchTypeOK, Advert
<1> QED BY <1>1, <1>2, DispatchStart, DispatchStep, DispatchShapesStep, PTL DEF DispatchSpec

\* A behaviour of all the exchanges is one of each.
LEMMA ExchangesAlone ==
  ControlSpec => DispatchSpec /\ StatusSpec /\ ServiceSpec /\ FeedSpec /\ SinkSpec /\ ViewSpec
<1>1. ControlInit => DispatchInit /\ StatusInit /\ ServiceInit /\ FeedInit /\ SinkInit /\ ViewInit
  BY DEF ControlInit
<1>2. [ControlNext]_controlVars =>
        /\ [DispatchNext]_dispatchVars /\ [StatusNext]_statusVars /\ [ServiceNext]_serviceVars
        /\ [FeedNext]_feedVars /\ [SinkNext]_sinkVars /\ [ViewNext]_viewVars
  BY DEF ControlNext, controlVars, OnlyDispatch, OnlyStatus, OnlyService, OnlyFeed, OnlySinks, OnlyView
<1> QED BY <1>1, <1>2, PTL
        DEF ControlSpec, DispatchSpec, StatusSpec, ServiceSpec, FeedSpec, SinkSpec, ViewSpec

\* Every exchange of the control plane keeps its shape beside the others: who is asked and who
\* answers are known to the other side, no channel holds more than its room, and the versions
\* and the counters stay within what was published and written, for every value of the constants.
THEOREM ControlTypeCorrect == ControlSpec => []ControlTypeOK
<1>1. ViewSpec => []ViewTypeOK
  <2>1. ViewInv => ViewTypeOK
    BY ViewInvIsTrue
  <2> QED BY <2>1, ViewStart, ViewStep, PTL DEF ViewSpec
<1>2. DispatchTypeOK /\ StatusTypeOK /\ ServiceTypeOK /\ FeedTypeOK /\ SinkTypeOK /\ ViewTypeOK => ControlTypeOK
  BY DEF ControlTypeOK
<1> QED BY <1>1, <1>2, DispatchShape, StatusShape, ServiceShape, FeedShape, SinkShape, ExchangesAlone, PTL
=============================================================================
