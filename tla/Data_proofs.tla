------------------------------ MODULE Data_proofs -------------------------------
(* Theorems of what the loop reads and keeps: GitHub and its state file, the other   *)
(* trackers, the engine's graph and the checks a task passes, for every board, tree  *)
(* and set of options and any number of goroutines.                                  *)
EXTENDS MCData, SchedulerStore_proofs, FiniteSetTheorems

LEMMA OneAtMost == ASSUME NEW S, \A x, y \in S : x = y PROVE Cardinality(S) <= 1
<1>1. CASE S = {}
  BY <1>1, FS_EmptySet
<1>2. CASE S # {}
  <2>1. PICK x : S = {x}
    BY <1>2
  <2> QED BY <2>1, FS_Singleton
<1> QED BY <1>1, <1>2

-------------------------------------------------------------------------------
(* GitHub and the state file beside it.                                            *)

Whole == [text : {"whole"}, status : [Issues -> Overrides \cup {NoEntry}],
          data : [Issues -> Settings \cup {NoEntry}]]
Asking ==
    [at : {"request", "load"}, task : Issues, set : {"status", "data"}, to : Statuses \cup Settings, refused : Nat]
Filing ==
    [at : {"loaded", "saving"}, task : Issues, set : {"status", "data"}, to : Statuses \cup Settings,
     refused : Nat, read : Whole]

\* What a call sets is of its kind.
Fitting(r) == r.to \in IF r.set = "status" THEN Statuses ELSE Settings

HoldsInv ==
    /\ remote \in [Issues -> {"open", "closed"}]
    /\ comments \in [Issues -> Nat] /\ posts \in [Issues -> Nat]
    /\ states \in Whole \cup {Lost}
    /\ last \in [Issues -> Statuses \cup {Unsure}]
    /\ lost \subseteq Issues

\* A task is with one reporter, and one reporter saves.
ReportsInv ==
    /\ reports \in [Reporters -> Asking \cup Filing \cup {NoReport}]
    /\ \A w \in Reporters : reports[w] # NoReport => Fitting(reports[w])
    /\ \A v, w \in Reporters : (v # w /\ NoReport \notin {reports[v], reports[w]}) => reports[v].task # reports[w].task
    /\ \A v, w \in Reporters : Saving(v) /\ Saving(w) => v = w

\* What a save will leave as it is: the statuses of the others that are not counted as lost, and
\* the status of a task whose data is saved.
FileInv ==
    \A w \in Reporters : reports[w] \in Filing =>
        /\ states \in Whole
        /\ \A i \in Issues \ lost :
              (IF i = reports[w].task THEN reports[w].set = "data" ELSE Saving(w)) =>
                  states.status[i] = reports[w].read.status[i]

SetsStatus(id) == \E w \in Reporters : reports[w] # NoReport /\ reports[w].task = id /\ reports[w].set = "status"

\* Also while data is set, the status is there.
AgreeInv == \A id \in Issues \ lost : (last[id] # Unsure /\ ~SetsStatus(id)) => Now(id) = last[id]

\* A call that has decided to post and was not answered may still post.
PostsInv ==
    \A id \in Issues :
        /\ comments[id] <= posts[id]
        /\ \A w \in Reporters : (reports[w].at = "request" /\ reports[w].task = id /\ reports[w].set = "data") =>
              comments[id] < posts[id]

\* What is now is among what was possible, and so is what was listed as closed.
ListInv ==
    /\ listing \in [at : {"reading"}, issues : [Issues -> {"open", "closed"}],
                    status : [InTree -> Statuses \cup {NoEntry}]] \cup {NoListing}
    /\ listing # NoListing =>
         \A id \in InTree :
            /\ Now(id) \in possible[id]
            /\ listing.issues[id] = "closed" => "closed" \in possible[id]
            /\ LET s == listing.status[id]
               IN  s = NoEntry \/ s \in possible[id] \/ (s # "closed" /\ "closed" \in possible[id])

GitHubInv == HoldsInv /\ ReportsInv /\ FileInv /\ AgreeInv /\ PostsInv /\ ListInv

LEMMA ReportFacts ==
  /\ \A r \in Asking \cup Filing :
        /\ r # NoReport /\ r.at \in {"request", "load", "loaded", "saving"}
        /\ r.task \in Issues /\ r.set \in {"status", "data"} /\ r.to \in Statuses \cup Settings /\ r.refused \in Nat
  /\ \A r \in Asking : r.at \in {"request", "load"} /\ r \notin Filing
  /\ \A r \in Filing : r.at \in {"loaded", "saving"} /\ r.read \in Whole /\ r \notin Asking
  /\ NoReport.at = "idle" /\ NoReport \notin Asking \cup Filing
  /\ Lost \notin Whole /\ NoEntry \notin Settings /\ NoEntry \notin Statuses /\ Unsure \notin Statuses
  /\ Empty \in Whole /\ InTree \subseteq Issues
<1>1. /\ \A r \in Asking \cup Filing :
            /\ r # NoReport /\ r.at \in {"request", "load", "loaded", "saving"}
            /\ r.task \in Issues /\ r.set \in {"status", "data"} /\ r.to \in Statuses \cup Settings /\ r.refused \in Nat
      /\ NoReport.at = "idle" /\ NoReport \notin Asking \cup Filing
  BY DEF Asking, Filing, NoReport
<1>2. /\ \A r \in Asking : r.at \in {"request", "load"} /\ r \notin Filing
      /\ \A r \in Filing : r.at \in {"loaded", "saving"} /\ r.read \in Whole /\ r \notin Asking
  BY DEF Asking, Filing
<1>3. Lost \notin Whole /\ NoEntry \notin Settings /\ NoEntry \notin Statuses /\ Unsure \notin Statuses
  BY GitHubAssumption DEF Lost, Whole, NoEntry, Statuses, Unsure
<1>4. Empty \in Whole /\ InTree \subseteq Issues
  BY DEF Empty, Whole, InTree, Scope, Issues
<1> QED BY <1>1, <1>2, <1>3, <1>4

\* The steps of a call, each to the record that follows.
LEMMA RecordFacts ==
  /\ \A r \in Asking :
        /\ \A at \in {"request", "load"} :
              /\ [r EXCEPT !.at = at] \in Asking
              /\ [r EXCEPT !.at = at].at = at /\ [r EXCEPT !.at = at].task = r.task
              /\ [r EXCEPT !.at = at].set = r.set /\ [r EXCEPT !.at = at].to = r.to
        /\ \A n \in Nat :
              /\ [r EXCEPT !.refused = n] \in Asking
              /\ [r EXCEPT !.refused = n].at = r.at /\ [r EXCEPT !.refused = n].task = r.task
              /\ [r EXCEPT !.refused = n].set = r.set /\ [r EXCEPT !.refused = n].to = r.to
  /\ \A r \in Filing :
        /\ [r EXCEPT !.at = "saving"] \in Filing
        /\ [r EXCEPT !.at = "saving"].at = "saving" /\ [r EXCEPT !.at = "saving"].task = r.task
        /\ [r EXCEPT !.at = "saving"].set = r.set /\ [r EXCEPT !.at = "saving"].to = r.to
        /\ [r EXCEPT !.at = "saving"].read = r.read
BY DEF Asking, Filing

LEMMA GitHubStart == GitHubInit => GitHubInv
<1> SUFFICES ASSUME GitHubInit PROVE GitHubInv
  OBVIOUS
<1>1. HoldsInv
  BY ReportFacts DEF GitHubInit, HoldsInv, Statuses
<1>2. ReportsInv /\ FileInv
  BY ReportFacts DEF GitHubInit, ReportsInv, FileInv, Saving
<1>3. AgreeInv
  BY DEF GitHubInit, AgreeInv, Now, EffectiveStatus, Empty, NoEntry, Overrides
<1>4. PostsInv
  BY ReportFacts DEF GitHubInit, PostsInv
<1>5. ListInv
  BY DEF GitHubInit, ListInv
<1> QED BY <1>1, <1>2, <1>3, <1>4, <1>5 DEF GitHubInv

\* Every step watches what is possible.
LEMMA WatchedList ==
  ASSUME ListInv, HoldsInv', Watch, listing' = listing
  PROVE  ListInv'
<1>1. CASE listing = NoListing
  BY <1>1 DEF ListInv
<1>2. CASE listing # NoListing
  <2>1. listing'.at # "none" /\ InTree \subseteq Issues
    BY <1>2, ReportFacts DEF ListInv
  <2>2. \A id \in InTree : possible'[id] = possible[id] \cup {EffectiveStatus(states', id, remote'[id])}
    BY <2>1 DEF Watch
  <2>3. \A id \in InTree : Now(id)' \in possible'[id] /\ possible[id] \subseteq possible'[id]
    BY <2>2 DEF Now
  <2> QED BY <1>2, <2>3 DEF ListInv
<1> QED BY <1>1, <1>2


\* One reporter goes on, about its issue.
LEMMA OneReport ==
  ASSUME GitHubInv, Watch, UNCHANGED listing,
         NEW w \in Reporters, NEW id \in Issues, NEW r \in Asking \cup Filing \cup {NoReport},
         reports' = [reports EXCEPT ![w] = r],
         IF reports[w] = NoReport THEN ~Reported(id) ELSE reports[w].task = id,
         r # NoReport => r.task = id /\ Fitting(r),
         r.at = "saving" => \A v \in Reporters : v # w => ~Saving(v),
         HoldsInv', FileInv',
         \A j \in Issues \ {id} : /\ j \notin lost' => j \notin lost /\ Now(j)' = Now(j)
                                  /\ last'[j] = last[j]
                                  /\ comments'[j] = comments[j] /\ posts'[j] = posts[j],
         \/ id \in lost' \/ last'[id] = Unsure
         \/ (r # NoReport /\ r.set = "status") \/ Now(id)' = last'[id],
         comments'[id] <= posts'[id],
         r.at = "request" /\ r.set = "data" => comments'[id] < posts'[id]
  PROVE  GitHubInv'
<1>1. /\ reports' \in [Reporters -> Asking \cup Filing \cup {NoReport}]
      /\ reports'[w] = r /\ \A v \in Reporters : v # w => reports'[v] = reports[v]
  BY DEF GitHubInv, ReportsInv
<1>2. \A v \in Reporters : v # w /\ reports[v] # NoReport => reports[v].task # id
  BY ReportFacts DEF GitHubInv, ReportsInv, Reported
<1>3. ReportsInv'
  <2>1. \A v \in Reporters : reports'[v] # NoReport => Fitting(reports'[v])
    BY <1>1 DEF GitHubInv, ReportsInv
  <2>2. \A u, v \in Reporters : (u # v /\ NoReport \notin {reports'[u], reports'[v]}) => reports'[u].task # reports'[v].task
    BY <1>1, <1>2 DEF GitHubInv, ReportsInv
  <2>3. \A u, v \in Reporters : Saving(u)' /\ Saving(v)' => u = v
    BY <1>1 DEF GitHubInv, ReportsInv, Saving
  <2> QED BY <1>1, <2>1, <2>2, <2>3 DEF ReportsInv, Fitting
<1>4. AgreeInv'
  <2> SUFFICES ASSUME NEW j \in Issues \ lost', last'[j] # Unsure, ~SetsStatus(j)' PROVE Now(j)' = last'[j]
    BY DEF AgreeInv
  <2>1. CASE j = id
    BY <1>1, <2>1 DEF SetsStatus
  <2>2. CASE j # id
    <3>1. ~SetsStatus(j)
      BY <1>1, <2>2 DEF SetsStatus
    <3> QED BY <2>2, <3>1 DEF GitHubInv, AgreeInv
  <2> QED BY <2>1, <2>2
<1>5. PostsInv'
  <2> SUFFICES ASSUME NEW j \in Issues
               PROVE  /\ comments'[j] <= posts'[j]
                      /\ \A v \in Reporters :
                            (reports'[v].at = "request" /\ reports'[v].task = j /\ reports'[v].set = "data") =>
                               comments'[j] < posts'[j]
    BY DEF PostsInv
  <2>1. CASE j = id
    BY <1>1, <1>2, <2>1, ReportFacts
  <2>2. CASE j # id
    BY <1>1, <2>2, ReportFacts DEF GitHubInv, PostsInv
  <2> QED BY <2>1, <2>2
<1>6. ListInv'
  BY WatchedList DEF GitHubInv
<1> QED BY <1>3, <1>4, <1>5, <1>6 DEF GitHubInv

\* The file and what is counted as lost stay: so does what each save will do, when none begins.
LEMMA NoneFiled ==
  ASSUME GitHubInv, NEW w \in Reporters, NEW r \in Asking \cup {NoReport}, reports' = [reports EXCEPT ![w] = r],
         UNCHANGED <<states, lost>>
  PROVE  FileInv' /\ \A j \in Issues : remote'[j] = remote[j] => Now(j)' = Now(j)
<1>1. reports'[w] = r /\ \A v \in Reporters : v # w => reports'[v] = reports[v]
  BY DEF GitHubInv, ReportsInv
<1>2. FileInv'
  BY <1>1, ReportFacts DEF GitHubInv, FileInv, Saving, Filing, Whole
<1> QED BY <1>2 DEF Now, EffectiveStatus

LEMMA ReportCallFacts ==
  ASSUME GitHubInv, NEW w \in Reporters
  PROVE  /\ reports[w].at = "idle" <=> reports[w] = NoReport
         /\ reports[w].at \in {"request", "load"} <=> reports[w] \in Asking
         /\ reports[w].at \in {"loaded", "saving"} <=> reports[w] \in Filing
         /\ reports[w] # NoReport => Fitting(reports[w])
BY ReportFacts DEF GitHubInv, ReportsInv

\* A call returns an error.
LEMMA GiveUpKeeps ==
  ASSUME GitHubInv, Watch, UNCHANGED listing, NEW w \in Reporters, reports[w] # NoReport, GiveUp(w),
         UNCHANGED <<states, lost, posts>>,
         remote' \in [Issues -> {"open", "closed"}], comments' \in [Issues -> Nat],
         \A j \in Issues \ {reports[w].task} : remote'[j] = remote[j] /\ comments'[j] = comments[j],
         comments'[reports[w].task] <= posts'[reports[w].task]
  PROVE  GitHubInv'
<1>1. PICK id \in Issues : id = reports[w].task
  BY ReportFacts DEF GitHubInv, ReportsInv
<1>2. /\ reports' = [reports EXCEPT ![w] = NoReport] /\ last' = [last EXCEPT ![id] = Unsure]
  BY <1>1 DEF GiveUp
<1>3. /\ last'[id] = Unsure /\ \A j \in Issues \ {id} : last'[j] = last[j]
      /\ last' \in [Issues -> Statuses \cup {Unsure}]
  BY <1>2 DEF GitHubInv, HoldsInv
<1>4. HoldsInv'
  BY <1>3 DEF GitHubInv, HoldsInv, Whole
<1>5. FileInv' /\ \A j \in Issues : remote'[j] = remote[j] => Now(j)' = Now(j)
  BY <1>2, NoneFiled
<1>6. \A j \in Issues \ {id} : /\ j \notin lost' => j \notin lost /\ Now(j)' = Now(j)
                              /\ last'[j] = last[j]
                              /\ comments'[j] = comments[j] /\ posts'[j] = posts[j]
  BY <1>1, <1>3, <1>5
<1>7. NoReport.at = "idle" /\ comments'[id] <= posts'[id]
  BY <1>1, ReportFacts
<1> QED BY <1>1, <1>2, <1>3, <1>4, <1>5, <1>6, <1>7, OneReport

LEMMA CallStatusKeeps == ASSUME GitHubInv, Watch, NEW w \in Reporters, CallStatus(w) PROVE GitHubInv'
<1>1. PICK id \in InTree \ {"r"}, s \in Reports :
        /\ ~Reported(id)
        /\ reports' = [reports EXCEPT ![w] = [at |-> "request", task |-> id, set |-> "status", to |-> s, refused |-> 0]]
  BY DEF CallStatus
<1>2. PICK r : r = [at |-> "request", task |-> id, set |-> "status", to |-> s, refused |-> 0]
  OBVIOUS
<1>3. id \in Issues /\ s \in Statuses
  BY ReportFacts, GitHubAssumption
<1>4. r \in Asking /\ r.at = "request" /\ r.task = id /\ r.set = "status" /\ Fitting(r)
  BY <1>2, <1>3 DEF Asking, Fitting
<1>5. /\ UNCHANGED <<remote, comments, states, listing, last, lost, posts>> /\ reports[w] = NoReport
  BY ReportCallFacts DEF CallStatus
<1>6. HoldsInv'
  BY <1>5 DEF GitHubInv, HoldsInv, Whole
<1>7. FileInv' /\ \A j \in Issues : Now(j)' = Now(j)
  BY <1>1, <1>2, <1>4, <1>5, NoneFiled
<1>8. comments'[id] <= posts'[id]
  BY <1>3, <1>5 DEF GitHubInv, PostsInv
<1> QED BY <1>1, <1>2, <1>3, <1>4, <1>5, <1>6, <1>7, <1>8, ReportFacts, OneReport

LEMMA CallDataKeeps == ASSUME GitHubInv, Watch, NEW w \in Reporters, CallData(w) PROVE GitHubInv'
<1>1. PICK id \in InTree \ {"r"}, d \in Settings, known \in BOOLEAN :
        /\ ~Reported(id)
        /\ reports' = [reports EXCEPT ![w] = [at |-> IF known THEN "load" ELSE "request",
                                              task |-> id, set |-> "data", to |-> d, refused |-> 0]]
        /\ posts' = IF known THEN posts ELSE [posts EXCEPT ![id] = @ + 1]
  BY DEF CallData
<1>2. PICK r : r = [at |-> IF known THEN "load" ELSE "request", task |-> id, set |-> "data", to |-> d, refused |-> 0]
  OBVIOUS
<1>3. id \in Issues
  BY ReportFacts
<1>4. /\ r \in Asking /\ r.at = (IF known THEN "load" ELSE "request") /\ r.task = id /\ r.set = "data" /\ Fitting(r)
  BY <1>2, <1>3 DEF Asking, Fitting
<1>5. /\ UNCHANGED <<remote, comments, states, listing, last, lost>> /\ reports[w] = NoReport
  BY ReportCallFacts DEF CallData
<1>6. /\ posts' \in [Issues -> Nat] /\ \A j \in Issues \ {id} : posts'[j] = posts[j]
      /\ comments'[id] <= posts'[id] /\ (~known => comments'[id] < posts'[id])
  BY <1>1, <1>3, <1>5 DEF GitHubInv, HoldsInv, PostsInv
<1>7. HoldsInv'
  BY <1>5, <1>6 DEF GitHubInv, HoldsInv, Whole
<1>8. FileInv' /\ \A j \in Issues : Now(j)' = Now(j)
  BY <1>1, <1>2, <1>4, <1>5, NoneFiled
<1>9. Now(id)' = last'[id] \/ id \in lost' \/ last'[id] = Unsure
  <2>1. ~SetsStatus(id)
    BY <1>1, ReportFacts DEF SetsStatus, Reported, GitHubInv, ReportsInv
  <2> QED BY <1>3, <1>5, <1>8, <2>1 DEF GitHubInv, AgreeInv
<1>10. \A j \in Issues \ {id} : /\ j \notin lost' => j \notin lost /\ Now(j)' = Now(j)
                              /\ last'[j] = last[j]
                              /\ comments'[j] = comments[j] /\ posts'[j] = posts[j]
  BY <1>5, <1>6, <1>8
<1>11. r \in Asking \cup Filing \cup {NoReport} /\ r.at # "saving" /\ (r.at = "request" => comments'[id] < posts'[id])
  BY <1>4, <1>6
<1>12. reports' = [reports EXCEPT ![w] = r] /\ ~Reported(id) /\ comments'[id] <= posts'[id]
  BY <1>1, <1>2, <1>6
<1>13. r.task = id /\ Fitting(r) /\ UNCHANGED listing /\ reports[w] = NoReport
  BY <1>4, <1>5
<1> QED BY ZenonT(30), <1>3, <1>7, <1>8, <1>9, <1>10, <1>11, <1>12, <1>13, OneReport

\* A request that is on its way.
LEMMA SendKeeps == ASSUME GitHubInv, Watch, NEW w \in Reporters, SendRequest(w) PROVE GitHubInv'
<1>1. /\ reports[w].at = "request" /\ reports[w] \in Asking /\ reports[w] # NoReport
      /\ UNCHANGED <<states, tally, listing, lost, posts>>
  BY ReportCallFacts, ReportFacts DEF SendRequest
<1>2. PICK id \in Issues : id = reports[w].task
  BY <1>1, ReportFacts
<1>3. HoldsInv /\ comments[id] <= posts[id] /\ (reports[w].set = "data" => comments[id] < posts[id])
  BY <1>1, <1>2 DEF GitHubInv, PostsInv
<1>4. ASSUME Take(w)
      PROVE  /\ remote' \in [Issues -> {"open", "closed"}] /\ comments' \in [Issues -> Nat]
             /\ \A j \in Issues \ {id} : remote'[j] = remote[j] /\ comments'[j] = comments[j]
             /\ comments'[id] <= posts'[id]
             /\ reports[w].set = "data" => remote' = remote
  BY <1>1, <1>2, <1>3, <1>4, ReportFacts DEF Take, HoldsInv
<1>5. CASE GiveUp(w) /\ Take(w)
  BY <1>1, <1>2, <1>4, <1>5, GiveUpKeeps
<1>6. CASE GiveUp(w) /\ UNCHANGED <<remote, comments>>
  BY <1>1, <1>2, <1>3, <1>6, GiveUpKeeps DEF HoldsInv
<1>7. ASSUME NEW r \in Asking, reports' = [reports EXCEPT ![w] = r], r.at \in {"request", "load"},
             r.task = id, r.set = reports[w].set, r.to = reports[w].to, last' = last,
             remote' \in [Issues -> {"open", "closed"}], comments' \in [Issues -> Nat],
             \A j \in Issues \ {id} : remote'[j] = remote[j] /\ comments'[j] = comments[j],
             comments'[id] <= posts'[id],
             reports[w].set = "data" => remote' = remote,
             r.at = "request" => comments' = comments
      PROVE  GitHubInv'
  <2>1. HoldsInv'
    BY <1>1, <1>7 DEF GitHubInv, HoldsInv, Whole
  <2>2. FileInv' /\ \A j \in Issues : remote'[j] = remote[j] => Now(j)' = Now(j)
    BY <1>1, <1>7, NoneFiled
  <2>3. Fitting(r)
    BY <1>1, <1>7, ReportCallFacts DEF Fitting
  <2>4. \/ id \in lost' \/ last'[id] = Unsure
        \/ (r # NoReport /\ r.set = "status") \/ Now(id)' = last'[id]
    <3>1. CASE reports[w].set = "data"
      <4>1. ~SetsStatus(id)
        BY <1>1, <1>2, <3>1 DEF SetsStatus, GitHubInv, ReportsInv
      <4> QED BY <1>1, <1>7, <2>2, <3>1, <4>1 DEF GitHubInv, AgreeInv
    <3>2. CASE reports[w].set = "status"
      BY <1>7, <3>2, ReportFacts
    <3> QED BY <1>1, <3>1, <3>2, ReportFacts
  <2>5. r.at = "request" /\ r.set = "data" => comments'[id] < posts'[id]
    BY <1>1, <1>3, <1>7
  <2>6. \A j \in Issues \ {id} : /\ j \notin lost' => j \notin lost /\ Now(j)' = Now(j)
                                /\ last'[j] = last[j]
                                /\ comments'[j] = comments[j] /\ posts'[j] = posts[j]
    BY <1>1, <1>7, <2>2
  <2>7. r \in Asking \cup Filing \cup {NoReport} /\ r.at # "saving"
    BY <1>7
  <2> QED BY <1>1, <1>2, <1>7, <2>1, <2>2, <2>3, <2>4, <2>5, <2>6, <2>7, OneReport
<1>8. CASE Take(w) /\ At(w, "load") /\ last' = last
  <2>1. PICK r \in Asking : r = [reports[w] EXCEPT !.at = "load"]
    BY <1>1, RecordFacts
  <2>2. r.at = "load" /\ r.task = id /\ r.set = reports[w].set /\ r.to = reports[w].to
    BY <1>1, <1>2, <2>1, RecordFacts
  <2>3. reports' = [reports EXCEPT ![w] = r]
    BY <1>8, <2>1 DEF At
  <2> QED BY <1>4, <1>7, <1>8, <2>2, <2>3
<1>9. CASE /\ reports' = [reports EXCEPT ![w].refused = @ + 1]
           /\ UNCHANGED <<remote, comments, last>>
  <2>1. PICK n \in Nat : n = reports[w].refused + 1
    BY <1>1, ReportFacts
  <2>2. PICK r \in Asking : r = [reports[w] EXCEPT !.refused = n]
    BY <1>1, RecordFacts
  <2>3. r.at = "request" /\ r.task = id /\ r.set = reports[w].set /\ r.to = reports[w].to
    BY <1>1, <1>2, <2>2, RecordFacts
  <2>4. reports' = [reports EXCEPT ![w] = r]
    BY <1>9, <2>1, <2>2
  <2>5. comments'[id] <= posts'[id] /\ remote' \in [Issues -> {"open", "closed"}] /\ comments' \in [Issues -> Nat]
    BY <1>1, <1>3, <1>9 DEF HoldsInv
  <2> QED BY <1>7, <1>9, <2>3, <2>4, <2>5
<1> QED BY <1>5, <1>6, <1>8, <1>9 DEF SendRequest

\* What is loaded is what the file holds.
LEMMA LoadKeeps == ASSUME GitHubInv, Watch, NEW w \in Reporters, LoadFile(w) PROVE GitHubInv'
<1>1. /\ reports[w].at = "load" /\ reports[w] \in Asking /\ reports[w] # NoReport /\ Fitting(reports[w])
      /\ UNCHANGED <<remote, comments, states, tally, listing, lost, posts>>
  BY ReportCallFacts, ReportFacts DEF LoadFile
<1>2. PICK id \in Issues : id = reports[w].task
  BY <1>1, ReportFacts
<1>3. HoldsInv /\ comments[id] <= posts[id]
  BY DEF GitHubInv, PostsInv
<1>4. CASE GiveUp(w)
  BY <1>1, <1>2, <1>3, <1>4, GiveUpKeeps DEF HoldsInv
<1>5. CASE /\ states # Lost /\ last' = last
           /\ reports' = [reports EXCEPT ![w] = [at |-> "loaded", task |-> reports[w].task, set |-> reports[w].set,
                                                 to |-> reports[w].to, refused |-> 0, read |-> states]]
  <2>1. PICK r : r = [at |-> "loaded", task |-> reports[w].task, set |-> reports[w].set,
                      to |-> reports[w].to, refused |-> 0, read |-> states]
    OBVIOUS
  <2>2. states \in Whole
    BY <1>3, <1>5 DEF HoldsInv
  <2>3. /\ r \in Filing /\ r.at = "loaded" /\ r.task = id /\ r.set = reports[w].set /\ r.to = reports[w].to
        /\ r.read = states
    BY <1>1, <1>2, <2>1, <2>2, ReportFacts DEF Filing
  <2>4. reports' = [reports EXCEPT ![w] = r] /\ Fitting(r)
    BY <1>1, <1>5, <2>1, <2>3 DEF Fitting
  <2>5. HoldsInv'
    BY <1>1, <1>3, <1>5 DEF HoldsInv, Whole
  <2>6. FileInv'
    <3>1. reports'[w] = r /\ \A v \in Reporters : v # w => reports'[v] = reports[v]
      BY <2>4 DEF GitHubInv, ReportsInv
    <3> QED BY <1>1, <2>2, <2>3, <3>1 DEF GitHubInv, FileInv, Saving, Filing, Whole
  <2>7. \A j \in Issues : Now(j)' = Now(j)
    BY <1>1 DEF Now, EffectiveStatus
  <2>8. \A j \in Issues \ {id} : /\ j \notin lost' => j \notin lost /\ Now(j)' = Now(j)
                                /\ last'[j] = last[j]
                                /\ comments'[j] = comments[j] /\ posts'[j] = posts[j]
    BY <1>1, <1>5, <2>7
  <2>9. \/ id \in lost' \/ last'[id] = Unsure
        \/ (r # NoReport /\ r.set = "status") \/ Now(id)' = last'[id]
    <3>1. CASE r.set = "status"
      BY <2>3, <3>1, ReportFacts
    <3>2. CASE r.set # "status"
      <4>1. ~SetsStatus(id)
        BY <1>1, <1>2, <2>3, <3>2 DEF SetsStatus, GitHubInv, ReportsInv
      <4> QED BY <1>1, <1>5, <2>7, <4>1 DEF GitHubInv, AgreeInv
    <3> QED BY <3>1, <3>2
  <2>10. r \in Asking \cup Filing \cup {NoReport} /\ r.at # "saving" /\ r.at # "request"
         /\ comments'[id] <= posts'[id]
    BY <1>1, <1>3, <2>3
  <2> QED BY <1>1, <1>2, <2>3, <2>4, <2>5, <2>6, <2>8, <2>9, <2>10, OneReport
<1> QED BY <1>4, <1>5 DEF LoadFile

\* A save that begins counts as lost what it will overwrite.
LEMMA StartSaveKeeps == ASSUME GitHubInv, Watch, NEW w \in Reporters, StartSave(w) PROVE GitHubInv'
<1>1. /\ reports[w].at = "loaded" /\ reports[w] \in Filing /\ reports[w] # NoReport /\ Fitting(reports[w])
      /\ UNCHANGED <<remote, comments, states, tally, listing, posts>>
      /\ \A v \in Reporters : ~Saving(v)
  BY ReportCallFacts, ReportFacts DEF StartSave
<1>2. PICK id \in Issues : id = reports[w].task
  BY <1>1, ReportFacts
<1>3. HoldsInv /\ comments[id] <= posts[id] /\ states \in Whole /\ states # Lost
  BY <1>1, ReportFacts DEF GitHubInv, PostsInv, FileInv
<1>4. CASE GiveUp(w) /\ lost' = lost
  BY <1>1, <1>2, <1>3, <1>4, GiveUpKeeps DEF HoldsInv
<1> DEFINE stale == {i \in Issues \ {id} : states.status[i] # reports[w].read.status[i]}
<1>5. CASE /\ At(w, "saving") /\ last' = last
           /\ lost' = (lost \cup stale) \ (IF reports[w].set = "status" THEN {id} ELSE {})
  <2>1. PICK r \in Filing : r = [reports[w] EXCEPT !.at = "saving"]
    BY <1>1, RecordFacts
  <2>2. /\ r.at = "saving" /\ r.task = id /\ r.set = reports[w].set /\ r.to = reports[w].to
        /\ r.read = reports[w].read
    BY <1>1, <1>2, <2>1, RecordFacts
  <2>3. reports' = [reports EXCEPT ![w] = r] /\ Fitting(r)
    BY <1>1, <1>5, <2>1, <2>2 DEF Fitting, At
  <2>4. HoldsInv'
    BY <1>1, <1>3, <1>5 DEF HoldsInv, Whole
  <2>5. \A j \in Issues : j # id /\ j \notin lost' => j \notin lost /\ states.status[j] = reports[w].read.status[j]
    BY <1>5
  <2>6. reports[w].set # "status" /\ id \notin lost' => id \notin lost
    BY <1>5
  <2>7. reports'[w] = r /\ \A v \in Reporters : v # w => reports'[v] = reports[v]
    BY <2>3 DEF GitHubInv, ReportsInv
  <2>8. FileInv'
    <3> SUFFICES ASSUME NEW v \in Reporters, reports'[v] \in Filing,
                        NEW i \in Issues \ lost',
                        IF i = reports'[v].task THEN reports'[v].set = "data" ELSE reports'[v].at = "saving"
                 PROVE  states'.status[i] = reports'[v].read.status[i]
      BY <1>1, <1>3 DEF FileInv, Saving, Filing, Whole
    <3>1. CASE v = w
      <4>1. CASE i = id
        <5>1. id \notin lost /\ reports[w].set = "data"
          BY <2>2, <2>6, <2>7, <3>1, <4>1
        <5> QED BY <1>1, <1>2, <2>2, <2>7, <3>1, <4>1, <5>1 DEF GitHubInv, FileInv
      <4>2. CASE i # id
        BY <1>1, <2>2, <2>5, <2>7, <3>1, <4>2
      <4> QED BY <4>1, <4>2
    <3>2. CASE v # w
      <4>1. reports'[v] = reports[v] /\ reports[v] \in Filing /\ reports[v].at # "saving"
        BY <1>1, <2>7, <3>2 DEF Saving
      <4>2. i = reports[v].task /\ reports[v].set = "data"
        BY <4>1
      <4>3. i # id
        BY <1>1, <1>2, <3>2, <4>1, <4>2, ReportFacts DEF GitHubInv, ReportsInv
      <4>4. i \notin lost
        BY <2>5, <4>3
      <4> QED BY <1>1, <4>1, <4>2, <4>4 DEF GitHubInv, FileInv
    <3> QED BY <3>1, <3>2
  <2>9. \A j \in Issues : Now(j)' = Now(j)
    BY <1>1 DEF Now, EffectiveStatus
  <2>10. \A j \in Issues \ {id} : /\ j \notin lost' => j \notin lost /\ Now(j)' = Now(j)
                                 /\ last'[j] = last[j]
                                 /\ comments'[j] = comments[j] /\ posts'[j] = posts[j]
    BY <1>1, <1>5, <2>5, <2>9
  <2>11. \/ id \in lost' \/ last'[id] = Unsure
         \/ (r # NoReport /\ r.set = "status") \/ Now(id)' = last'[id]
    <3>1. CASE r.set = "status"
      BY <3>1, ReportFacts
    <3>2. CASE r.set # "status"
      <4>1. ~SetsStatus(id)
        BY <1>1, <1>2, <2>2, <3>2 DEF SetsStatus, GitHubInv, ReportsInv
      <4> QED BY <1>5, <2>2, <2>6, <2>9, <3>2, <4>1 DEF GitHubInv, AgreeInv
    <3> QED BY <3>1, <3>2
  <2>12. r \in Asking \cup Filing \cup {NoReport} /\ r.at # "request" /\ comments'[id] <= posts'[id]
    BY <1>1, <1>3, <2>2
  <2> QED BY <1>1, <1>2, <2>2, <2>3, <2>4, <2>8, <2>10, <2>11, <2>12, OneReport
<1> QED BY <1>2, <1>3, <1>4, <1>5 DEF StartSave

\* A save that ends leaves the others' statuses that are not lost, and gives the task its own.
LEMMA EndSaveKeeps == ASSUME GitHubInv, Watch, NEW w \in Reporters, EndSave(w) PROVE GitHubInv'
<1>1. /\ Saving(w) /\ reports[w].at = "saving" /\ reports[w] \in Filing /\ reports[w] # NoReport
      /\ Fitting(reports[w]) /\ UNCHANGED <<remote, comments, tally, listing, lost, posts>>
      /\ states' = Changed(reports[w]) /\ reports' = [reports EXCEPT ![w] = NoReport]
  BY ReportCallFacts, ReportFacts DEF EndSave, Saving
<1>2. PICK id \in Issues : id = reports[w].task
  BY <1>1, ReportFacts
<1>3. /\ HoldsInv /\ comments[id] <= posts[id] /\ states \in Whole /\ reports[w].read \in Whole
      /\ reports[w].set \in {"status", "data"}
  BY <1>1, ReportFacts DEF GitHubInv, PostsInv, FileInv
<1>4. /\ states' \in Whole
      /\ \A j \in Issues \ {id} : states'.status[j] = reports[w].read.status[j]
      /\ reports[w].set = "data" => states'.status[id] = reports[w].read.status[id]
      /\ reports[w].set = "status" =>
            states'.status[id] = IF reports[w].to \in Overrides THEN reports[w].to ELSE NoEntry
  <2>1. CASE reports[w].set = "status"
    BY <1>1, <1>2, <1>3, <2>1 DEF Changed, Whole
  <2>2. CASE reports[w].set = "data"
    BY <1>1, <1>2, <1>3, <2>2 DEF Changed, Whole, Fitting
  <2> QED BY <1>3, <2>1, <2>2
<1>5. \A j \in Issues \ lost :
        (j # id \/ reports[w].set = "data") => states'.status[j] = states.status[j] /\ Now(j)' = Now(j)
  <2>1. \A j \in Issues \ lost :
          (j # id \/ reports[w].set = "data") => states.status[j] = reports[w].read.status[j]
    BY <1>1, <1>2 DEF GitHubInv, FileInv
  <2>2. states # Lost /\ states' # Lost
    BY <1>3, <1>4, ReportFacts
  <2> QED BY <1>1, <1>4, <2>1, <2>2 DEF Now, EffectiveStatus
<1>6. /\ last' \in [Issues -> Statuses \cup {Unsure}] /\ \A j \in Issues \ {id} : last'[j] = last[j]
      /\ reports[w].set = "data" => last' = last
      /\ reports[w].set = "status" =>
            last'[id] = IF (remote[id] = "closed") = (reports[w].to = "closed") THEN reports[w].to ELSE Unsure
  <2>1. reports[w].set = "status" => reports[w].to \in Statuses
    BY <1>1 DEF Fitting
  <2>2. last \in [Issues -> Statuses \cup {Unsure}]
    BY <1>3 DEF HoldsInv
  <2>3. last' = IF reports[w].set # "status" THEN last
                ELSE [last EXCEPT ![id] = IF (remote[id] = "closed") = (reports[w].to = "closed")
                                          THEN reports[w].to ELSE Unsure]
    BY <1>2 DEF EndSave
  <2> QED BY <2>1, <2>2, <2>3
<1>7. HoldsInv'
  BY <1>1, <1>3, <1>4, <1>6 DEF HoldsInv, Whole
<1>8. reports'[w] = NoReport /\ \A v \in Reporters : v # w => reports'[v] = reports[v]
  BY <1>1 DEF GitHubInv, ReportsInv
<1>9. FileInv'
  <2> SUFFICES ASSUME NEW v \in Reporters, reports'[v] \in Filing,
                      NEW i \in Issues \ lost',
                      IF i = reports'[v].task THEN reports'[v].set = "data" ELSE reports'[v].at = "saving"
               PROVE  states'.status[i] = reports'[v].read.status[i]
    BY <1>4 DEF FileInv, Saving, Filing, Whole
  <2>1. v # w /\ reports'[v] = reports[v] /\ reports[v] \in Filing /\ i \in Issues \ lost
    BY <1>1, <1>8, ReportFacts
  <2>2. reports[v].at # "saving"
    BY <1>1, <2>1 DEF GitHubInv, ReportsInv, Saving
  <2>3. i = reports[v].task /\ reports[v].set = "data"
    BY <2>1, <2>2
  <2>4. i # id
    BY <1>1, <1>2, <2>1, <2>3, ReportFacts DEF GitHubInv, ReportsInv
  <2>5. states.status[i] = reports[v].read.status[i]
    BY <2>1, <2>3 DEF GitHubInv, FileInv
  <2> QED BY <1>5, <2>1, <2>4, <2>5
<1>10. \A j \in Issues \ {id} : /\ j \notin lost' => j \notin lost /\ Now(j)' = Now(j)
                               /\ last'[j] = last[j]
                               /\ comments'[j] = comments[j] /\ posts'[j] = posts[j]
  BY <1>1, <1>5, <1>6
<1>11. id \in lost' \/ last'[id] = Unsure \/ Now(id)' = last'[id]
  <2>1. CASE reports[w].set = "data"
    <3>1. ~SetsStatus(id)
      BY <1>1, <1>2, <2>1 DEF SetsStatus, GitHubInv, ReportsInv
    <3> QED BY <1>1, <1>5, <1>6, <2>1, <3>1 DEF GitHubInv, AgreeInv
  <2>2. CASE reports[w].set = "status"
    <3>1. reports[w].to \in Statuses /\ states' # Lost /\ remote[id] \in {"open", "closed"} /\ remote'[id] = remote[id]
      BY <1>1, <1>3, <1>4, <2>2, ReportFacts DEF Fitting, HoldsInv
    <3> QED BY <1>4, <1>6, <2>2, <3>1 DEF Now, EffectiveStatus, Statuses, Overrides, NoEntry
  <2> QED BY <1>3, <2>1, <2>2
<1>12. NoReport \in Asking \cup Filing \cup {NoReport} /\ NoReport.at = "idle" /\ comments'[id] <= posts'[id]
  BY <1>1, <1>3, ReportFacts
<1> QED BY <1>1, <1>2, <1>7, <1>9, <1>10, <1>11, <1>12, OneReport

LEMMA EndProcessKeeps == ASSUME GitHubInv, Watch, EndProcess PROVE GitHubInv'
<1>1. /\ UNCHANGED <<remote, comments, lost, posts>> /\ listing' = NoListing
      /\ reports' = [w \in Reporters |-> NoReport]
      /\ last' = [i \in Issues |-> IF Reported(i) \/ (\E w \in Reporters : Saving(w)) THEN Unsure ELSE last[i]]
  BY DEF EndProcess
<1>2. states' = states \/ \E w \in Reporters : Saving(w) /\ states' \in {Empty, Lost, Changed(reports[w])}
  BY DEF EndProcess
<1>3. states' \in Whole \cup {Lost}
  <2>1. ASSUME NEW w \in Reporters, Saving(w) PROVE Changed(reports[w]) \in Whole
    <3>1. reports[w] \in Filing /\ Fitting(reports[w])
      BY <2>1, ReportCallFacts, ReportFacts DEF Saving
    <3>2. /\ reports[w].read \in Whole /\ reports[w].task \in Issues
          /\ reports[w].set # "status" => reports[w].to \in Settings
      BY <3>1, ReportFacts DEF Fitting
    <3> QED BY <3>2 DEF Changed, Whole
  <2> QED BY <1>2, <2>1, ReportFacts DEF GitHubInv, HoldsInv
<1>4. HoldsInv'
  BY <1>1, <1>3 DEF GitHubInv, HoldsInv, Whole
<1>5. ReportsInv' /\ FileInv' /\ PostsInv'
  BY <1>1, ReportFacts DEF GitHubInv, ReportsInv, FileInv, PostsInv, Saving
<1>6. AgreeInv'
  <2> SUFFICES ASSUME NEW i \in Issues \ lost, last'[i] # Unsure PROVE Now(i)' = last'[i]
    BY <1>1 DEF AgreeInv
  <2>1. ~Reported(i) /\ (\A w \in Reporters : ~Saving(w)) /\ last'[i] = last[i]
    BY <1>1
  <2>2. states' = states /\ remote' = remote
    BY <1>1, <1>2, <2>1
  <2>3. ~SetsStatus(i)
    BY <2>1, ReportFacts DEF SetsStatus, Reported, GitHubInv, ReportsInv
  <2>4. Now(i) = last[i]
    BY <2>1, <2>3 DEF GitHubInv, AgreeInv
  <2> QED BY <2>1, <2>2, <2>4 DEF Now, EffectiveStatus
<1>7. ListInv'
  BY <1>1 DEF ListInv
<1> QED BY <1>4, <1>5, <1>6, <1>7 DEF GitHubInv

LEMMA CloseOutsideKeeps == ASSUME GitHubInv, Watch, CloseOutside PROVE GitHubInv'
<1>1. PICK id \in Issues :
        /\ remote' = [remote EXCEPT ![id] = IF @ = "open" THEN "closed" ELSE "open"]
        /\ last' = [last EXCEPT ![id] = Unsure]
  BY DEF CloseOutside
<1>2. UNCHANGED <<comments, states, reports, listing, lost, posts>>
  BY DEF CloseOutside
<1>3. HoldsInv'
  BY <1>1, <1>2 DEF GitHubInv, HoldsInv, Whole
<1>4. ReportsInv' /\ FileInv' /\ PostsInv'
  BY <1>2 DEF GitHubInv, ReportsInv, FileInv, PostsInv, Saving, Asking, Filing, Whole, Fitting
<1>5. AgreeInv'
  <2> SUFFICES ASSUME NEW j \in Issues \ lost, last'[j] # Unsure, ~SetsStatus(j)' PROVE Now(j)' = last'[j]
    BY <1>2 DEF AgreeInv
  <2>1. j # id /\ remote'[j] = remote[j] /\ last'[j] = last[j]
    BY <1>1 DEF GitHubInv, HoldsInv
  <2>2. ~SetsStatus(j)
    BY <1>2 DEF SetsStatus
  <2>3. Now(j) = last[j]
    BY <2>1, <2>2 DEF GitHubInv, AgreeInv
  <2> QED BY <1>2, <2>1, <2>3 DEF Now, EffectiveStatus
<1>6. ListInv'
  BY <1>2, <1>3, WatchedList DEF GitHubInv
<1> QED BY <1>3, <1>4, <1>5, <1>6 DEF GitHubInv

\* Reading changes nothing.
LEMMA ReadingKeeps ==
  ASSUME GitHubInv, UNCHANGED <<remote, comments, states, reports, last, lost, posts>>
  PROVE  /\ HoldsInv' /\ ReportsInv' /\ FileInv' /\ AgreeInv' /\ PostsInv'
         /\ \A id \in Issues : Now(id)' = Now(id)
<1>1. HoldsInv'
  BY DEF GitHubInv, HoldsInv, Whole
<1>2. ReportsInv' /\ FileInv' /\ PostsInv'
  BY DEF GitHubInv, ReportsInv, FileInv, PostsInv, Saving, Asking, Filing, Whole, Fitting
<1>3. AgreeInv' /\ \A id \in Issues : Now(id)' = Now(id)
  BY DEF GitHubInv, AgreeInv, SetsStatus, Now, EffectiveStatus
<1> QED BY <1>1, <1>2, <1>3

\* What is possible while a tree is read includes what is now.
LEMMA PossibleNow ==
  ASSUME Watch, listing'.at # "none"
  PROVE  \A id \in InTree : Now(id)' \in possible'[id] /\ possible[id] \subseteq possible'[id]
<1>1. \A id \in InTree : possible'[id] = possible[id] \cup {EffectiveStatus(states', id, remote'[id])}
  BY ReportFacts DEF Watch
<1> QED BY <1>1 DEF Now

LEMMA ListKeeps == ASSUME GitHubInv, Watch, ListIssues PROVE GitHubInv'
<1>1. /\ listing' = [at |-> "reading", issues |-> remote, status |-> [i \in InTree |-> NoEntry]]
      /\ UNCHANGED <<remote, comments, states, reports, last, lost, posts>>
  BY DEF ListIssues
<1>2. ListInv'
  <2>1. \A id \in InTree : Now(id)' \in possible'[id]
    BY <1>1, PossibleNow
  <2>2. \A id \in InTree : remote'[id] = "closed" => Now(id)' = "closed"
    BY DEF Now, EffectiveStatus
  <2>3. remote \in [Issues -> {"open", "closed"}]
    BY DEF GitHubInv, HoldsInv
  <2> QED BY <1>1, <2>1, <2>2, <2>3 DEF ListInv
<1> QED BY <1>1, <1>2, ReadingKeeps DEF GitHubInv

\* A status that is read is one that is now, or the issue was closed since it was listed.
LEMMA ReadKeeps == ASSUME GitHubInv, Watch, ReadTask PROVE GitHubInv'
<1>1. listing.at = "reading" /\ Unread # {} /\ UNCHANGED <<remote, comments, states, reports, last, lost, posts>>
  BY DEF ReadTask
<1>2. /\ listing \in [at : {"reading"}, issues : [Issues -> {"open", "closed"}],
                      status : [InTree -> Statuses \cup {NoEntry}]]
      /\ listing # NoListing
  BY <1>1 DEF GitHubInv, ListInv, NoListing
<1>3. PICK id \in InTree : listing' = [listing EXCEPT !.status[id] = EffectiveStatus(states, id, listing.issues[id])]
  BY <1>1, <1>2 DEF ReadTask, Unread
<1>4. id \in Issues /\ listing.issues[id] \in {"open", "closed"} /\ remote[id] \in {"open", "closed"}
  BY <1>2, ReportFacts DEF GitHubInv, HoldsInv
<1>5. PICK s : s = EffectiveStatus(states, id, listing.issues[id])
  OBVIOUS
<1>6. s \in Statuses
  BY <1>4, <1>5 DEF EffectiveStatus, Statuses, Overrides
<1>7. /\ listing'.at = "reading" /\ listing'.issues = listing.issues
      /\ listing'.status \in [InTree -> Statuses \cup {NoEntry}]
      /\ listing'.status[id] = s /\ \A j \in InTree \ {id} : listing'.status[j] = listing.status[j]
      /\ listing' \in [at : {"reading"}, issues : [Issues -> {"open", "closed"}],
                       status : [InTree -> Statuses \cup {NoEntry}]]
  BY <1>2, <1>3, <1>5, <1>6
<1>8. \A j \in InTree : Now(j)' \in possible'[j] /\ possible[j] \subseteq possible'[j]
  BY <1>7, PossibleNow
<1>9. s \in possible'[id] \/ (s # "closed" /\ "closed" \in possible'[id])
  <2>1. CASE listing.issues[id] = remote[id]
    <3>1. s = Now(id)
      BY <1>5, <2>1 DEF Now
    <3> QED BY <1>2, <1>8, <3>1 DEF GitHubInv, ListInv
  <2>2. CASE listing.issues[id] = "closed"
    <3>1. s = "closed"
      BY <1>5, <2>2 DEF EffectiveStatus
    <3> QED BY <1>2, <1>8, <2>2, <3>1 DEF GitHubInv, ListInv
  <2>3. CASE listing.issues[id] = "open" /\ remote[id] = "closed"
    <3>1. s # "closed"
      BY <1>5, <2>3 DEF EffectiveStatus, Overrides
    <3>2. Now(id) = "closed"
      BY <2>3 DEF Now, EffectiveStatus
    <3>3. "closed" \in possible[id]
      BY <1>2, <3>2 DEF GitHubInv, ListInv
    <3> QED BY <1>8, <3>1, <3>3
  <2> QED BY <1>4, <2>1, <2>2, <2>3
<1>10. ListInv'
  <2>1. ASSUME NEW j \in InTree
        PROVE  /\ Now(j)' \in possible'[j]
               /\ listing'.issues[j] = "closed" => "closed" \in possible'[j]
               /\ LET q == listing'.status[j]
                  IN  q = NoEntry \/ q \in possible'[j] \/ (q # "closed" /\ "closed" \in possible'[j])
    BY <1>2, <1>7, <1>8, <1>9 DEF GitHubInv, ListInv
  <2> QED BY <1>7, <2>1 DEF ListInv
<1> QED BY <1>1, <1>10, ReadingKeeps DEF GitHubInv

LEMMA UseKeeps == ASSUME GitHubInv, Watch, UseTree PROVE GitHubInv'
<1>1. listing' = NoListing /\ UNCHANGED <<remote, comments, states, reports, last, lost, posts>>
  BY DEF UseTree
<1>2. ListInv'
  BY <1>1 DEF ListInv
<1> QED BY <1>1, <1>2, ReadingKeeps DEF GitHubInv

LEMMA GitHubStep == GitHubInv /\ [GitHubNext]_githubVars => GitHubInv'
<1> SUFFICES ASSUME GitHubInv, [GitHubNext]_githubVars PROVE GitHubInv'
  OBVIOUS
<1>1. CASE GitHubNext
  BY <1>1, CallStatusKeeps, CallDataKeeps, SendKeeps, LoadKeeps, StartSaveKeeps, EndSaveKeeps, EndProcessKeeps,
     CloseOutsideKeeps, ListKeeps, ReadKeeps, UseKeeps DEF GitHubNext
<1>2. CASE UNCHANGED githubVars
  <2>1. UNCHANGED <<remote, comments, states, reports, last, lost, posts, listing, possible>>
    BY <1>2 DEF githubVars
  <2>2. ListInv'
    <3>1. InTree \subseteq Issues
      BY ReportFacts
    <3> QED BY <2>1, <3>1, ReadingKeeps DEF GitHubInv, ListInv
  <2> QED BY <2>1, <2>2, ReadingKeeps DEF GitHubInv
<1> QED BY <1>1, <1>2

\* What a task waits for, by the graph of GitHub's tree.
LEMMA GitHubWaits == ASSUME GitHubInv PROVE WaitsForItsOwn
<1> DEFINE t == GitHubTree(Repo, "r")
           g == BuildGraph(t, listing.status)
<1> SUFFICES ASSUME HaveRead, NEW id \in Available(g), NEW d \in Repo.refs[id] \ {id}, d \in DOMAIN listing.status
             PROVE  listing.status[d] = "closed"
  BY DEF WaitsForItsOwn
<1>1. DOMAIN listing.status = InTree
  BY DEF HaveRead, GitHubInv, ListInv, NoListing
<1>2. /\ t.tasks = InTree
      /\ t.depends = {p \in InTree \X InTree : p[2] \in InScope(Repo, InTree, p[1])}
  BY DEF GitHubTree, ScopedTree, InTree
<1>3. id \in InTree /\ \A e \in Dependencies(t)[id] : listing.status[e] = "closed"
  BY <1>2 DEF Available, Satisfied, BuildGraph
<1>4. d \in InScope(Repo, InTree, id)
  BY <1>1 DEF InScope
<1>5. <<id, d>> \in t.depends
  BY <1>1, <1>2, <1>3, <1>4
<1>6. d \in Dependencies(t)[id]
  BY <1>1, <1>2, <1>3, <1>5 DEF Dependencies
<1> QED BY <1>3, <1>6

\* What GitHub and the state file hold is what was reported, and what is read is what they hold, for
\* every board, number of reporters and of calls, refusals, crashes and changes by others
\* (PersistTaskStatusChange, saveLocked, GetTaskTree, doGitHubJSON).
THEOREM StatusesAgree == GitHubSpec => []GitHubAgrees
<1>1. GitHubInv => GitHubAgrees
  <2> SUFFICES ASSUME GitHubInv PROVE GitHubAgrees
    OBVIOUS
  <2>1. StatusIsKept
    <3>1. \A id \in Issues : ~Reported(id) => ~SetsStatus(id)
      BY ReportFacts DEF SetsStatus, Reported, GitHubInv, ReportsInv
    <3> QED BY <3>1 DEF StatusIsKept, GitHubInv, AgreeInv
  <2>2. StatusWasReal
    <3>1. listing.at = "reading" => listing # NoListing
      BY DEF NoListing
    <3> QED BY <3>1 DEF StatusWasReal, GitHubInv, ListInv
  <2>3. PostsOnce
    BY DEF PostsOnce, GitHubInv, PostsInv
  <2>4. WaitsForItsOwn
    BY GitHubWaits
  <2> QED BY <2>1, <2>2, <2>3, <2>4 DEF GitHubAgrees
<1> QED BY <1>1, GitHubStart, GitHubStep, PTL DEF GitHubSpec

-------------------------------------------------------------------------------
(* The issue trackers.                                                             *)

\* A state that is selected for a status is read as that status.
LEMMA SelectedIsRead ==
  ASSUME NEW flow, NEW status \in Statuses, NEW s \in SelectWorkflowState(flow, status)
  PROVE  s \in flow /\ ClassifyTaskStatus(s) = status
<1>1. s \in flow /\ WorkflowStateMatchScore(status, s) >= 0
  BY DEF SelectWorkflowState
<1>2. ClassifyTaskStatus(s) # status => WorkflowStateMatchScore(status, s) = -1
  BY DEF WorkflowStateMatchScore
<1> QED BY <1>1, <1>2

Places == {"resolving", "mutation", "command", "mark", "note", "persist", "staged", "seen"}
Writes ==
    [at : Places, task : board.issues, status : Statuses \cup {"data"}, keys : Int]
    \cup [at : Places, task : board.issues, status : Statuses \cup {"data"}, keys : Int, to : workflow]

Writing(w)  == writes[w] # NoWrite
Setting(id) == \E w \in Workers : Writing(w) /\ writes[w].task = id /\ writes[w].status # "data"

\* Where a call of each tracker may be, and what it has written when it gets there.
WriteInPlace(r) ==
    /\ r.at \in (IF Linear THEN {"resolving", "mutation", "note"}
                 ELSE {"command", "mark", "note"}
                      \cup (IF kind = "tk" THEN {"persist", "staged", "seen"} ELSE {}))
    /\ r.at = "note" => r.status = "data"
    /\ r.at \in {"resolving", "mutation", "command", "mark"} => r.status # "data"
    /\ r.at = "mutation" => r.to \in workflow /\ ClassifyTaskStatus(r.to) = r.status
    /\ r.at \in {"mark", "persist", "staged", "seen"} /\ r.status # "data" =>
         state[r.task] = IF kind = "tk" THEN TkStatus(r.status) ELSE r.status

WritesInv ==
    /\ writes \in [Workers -> Writes \cup {NoWrite}]
    /\ \A w \in Workers : Writing(w) => WriteInPlace(writes[w])
    /\ \A v, w \in Workers : Writing(v) /\ Writing(w) /\ v # w => writes[v].task # writes[w].task
    /\ \A v, w \in Workers : {writes[v].at, writes[w].at} \subseteq {"staged", "seen"} => v = w

BoardInv ==
    /\ kind \in Kinds /\ board \in Boards
    /\ state = [id \in board.issues |-> state[id]]
    /\ \A id \in board.issues : state[id] \in IF Linear THEN workflow ELSE Statuses
    /\ remembered \subseteq board.issues /\ dirty \subseteq board.issues
    /\ kind # "tk" => dirty = {}
    /\ called \in 0 .. MaxWrites
    /\ meant \in [board.issues -> Statuses \cup {Unknown}]

ReadsBack(id) ==
    \/ ReadStatus(id) = meant[id]
    \/ kind = "tk" /\ meant[id] \in {"failed", "blocked"} /\ ReadStatus(id) = "open"

\* Also while data is written, the status is there.
KeptInv ==
    \A id \in board.issues : meant[id] # Unknown =>
        /\ Setting(id) \/ ReadsBack(id)
        /\ Underway(id) \/ id \notin dirty

IssueInv == BoardInv /\ WritesInv /\ KeptInv

LEMMA WriteFacts ==
  /\ \A r \in Writes : /\ r.at \in Places /\ r.at # "idle" /\ r # NoWrite
                       /\ r.task \in board.issues /\ r.status \in Statuses \cup {"data"} /\ r.keys \in Int
                       /\ \A at \in Places : [r EXCEPT !.at = at] \in Writes
                       /\ \A at \in Places : /\ [r EXCEPT !.at = at].at = at
                                             /\ [r EXCEPT !.at = at].task = r.task
                                             /\ [r EXCEPT !.at = at].status = r.status
                       /\ \A n \in Int : /\ [r EXCEPT !.keys = n] \in Writes
                                         /\ [r EXCEPT !.keys = n].at = r.at
                                         /\ [r EXCEPT !.keys = n].task = r.task
                                         /\ [r EXCEPT !.keys = n].status = r.status
  /\ NoWrite.at = "idle" /\ "data" \notin Statuses /\ Unknown \notin Statuses
BY DEF Writes, Places, NoWrite, Statuses, Unknown

LEMMA IssueStart == IssueInit => IssueInv
<1> SUFFICES ASSUME IssueInit PROVE IssueInv
  OBVIOUS
<1>1. BoardInv
  BY IssueAssumption DEF IssueInit, BoardInv, Statuses, Linear
<1>2. WritesInv
  BY WriteFacts DEF IssueInit, WritesInv, Writing
<1>3. KeptInv
  BY DEF IssueInit, KeptInv, ReadsBack, ReadStatus, Unknown
<1> QED BY <1>1, <1>2, <1>3 DEF IssueInv

\* A step of one call, about its task.
LEMMA OneWrite ==
  ASSUME IssueInv, NEW w \in Workers, NEW id \in board.issues, NEW r \in Writes \cup {NoWrite},
         UNCHANGED <<kind, board, workflow>>,
         writes' = [writes EXCEPT ![w] = r],
         Writing(w) => writes[w].task = id,
         ~Writing(w) => ~Underway(id),
         r # NoWrite => r.task = id /\ WriteInPlace(r)',
         r.at \in {"staged", "seen"} =>
             writes[w].at \in {"staged", "seen"} \/ \A v \in Workers : writes[v].at \notin {"staged", "seen"},
         \A j \in board.issues : j # id =>
             state'[j] = state[j] /\ meant'[j] = meant[j] /\ (j \in dirty' <=> j \in dirty),
         BoardInv',
         meant'[id] # Unknown => \/ r # NoWrite /\ r.status # "data"
                                 \/ ReadsBack(id)',
         meant'[id] # Unknown => r # NoWrite \/ id \notin dirty'
  PROVE  IssueInv'
<1>0. /\ writes \in [Workers -> Writes \cup {NoWrite}] /\ Writes' = Writes
      /\ writes'[w] = r /\ \A v \in Workers : v # w => writes'[v] = writes[v]
  BY DEF IssueInv, WritesInv, Writes
<1>1. \A v \in Workers : v # w /\ Writing(v) => writes[v].task # id /\ writes[v].task \in board.issues
  BY <1>0, WriteFacts DEF IssueInv, WritesInv, Writing, Underway
<1>2. WritesInv'
  <2>1. writes' \in [Workers -> Writes \cup {NoWrite}]'
    BY <1>0
  <2>2. ASSUME NEW v \in Workers, Writing(v)' PROVE WriteInPlace(writes[v])'
    <3>1. CASE v = w
      BY <1>0, <2>2, <3>1 DEF Writing
    <3>2. CASE v # w
      <4>1. Writing(v) /\ WriteInPlace(writes[v]) /\ writes'[v] = writes[v]
        BY <1>0, <2>2, <3>2 DEF Writing, IssueInv, WritesInv
      <4>2. state'[writes[v].task] = state[writes[v].task]
        BY <1>1, <3>2, <4>1
      <4> QED BY <4>1, <4>2 DEF WriteInPlace, Linear, ClassifyTaskStatus
    <3> QED BY <3>1, <3>2
  <2>3. ASSUME NEW u \in Workers, NEW v \in Workers, Writing(u)', Writing(v)', u # v
        PROVE  (writes[u].task # writes[v].task)'
    BY <1>0, <1>1, <2>3 DEF Writing, IssueInv, WritesInv
  <2>4. ASSUME NEW u \in Workers, NEW v \in Workers, {writes'[u].at, writes'[v].at} \subseteq {"staged", "seen"}
        PROVE  u = v
    BY <1>0, <2>4 DEF IssueInv, WritesInv
  <2> QED BY <2>1, <2>2, <2>3, <2>4 DEF WritesInv
<1>3. KeptInv'
  <2> SUFFICES ASSUME NEW j \in board.issues, meant'[j] # Unknown
               PROVE  /\ Setting(j)' \/ ReadsBack(j)'
                      /\ Underway(j)' \/ j \notin dirty'
    BY DEF KeptInv
  <2>1. CASE j = id
    BY <1>0, <2>1, WriteFacts DEF Setting, Writing, Underway
  <2>2. CASE j # id
    <3>1. (Setting(j)' <=> Setting(j)) /\ (Underway(j)' <=> Underway(j))
      BY <1>0, <2>2, WriteFacts DEF Setting, Underway, Writing
    <3>2. ReadsBack(j)' <=> ReadsBack(j)
      BY <2>2 DEF ReadsBack, ReadStatus, Linear, ClassifyTaskStatus
    <3> QED BY <2>2, <3>1, <3>2 DEF IssueInv, KeptInv
  <2> QED BY <2>1, <2>2
<1> QED BY <1>2, <1>3 DEF IssueInv

\* Where a call is: what is known of it, and that an error leaves nothing to be kept.
LEMMA WriteCallFacts ==
  ASSUME IssueInv, NEW w \in Workers, writes[w].at # "idle"
  PROVE  /\ Writing(w) /\ writes[w] \in Writes /\ writes[w].task \in board.issues
         /\ WriteInPlace(writes[w]) /\ DOMAIN writes = Workers
         /\ Underway(writes[w].task)
BY WriteFacts DEF IssueInv, WritesInv, Writing, Underway

LEMMA FailKeepsIssues ==
  ASSUME IssueInv, NEW w \in Workers, writes[w].at # "idle", Fail(w),
         UNCHANGED <<kind, board, workflow>>,
         \A j \in board.issues : j # writes[w].task => state'[j] = state[j] /\ (j \in dirty' <=> j \in dirty),
         state' = [j \in board.issues |-> state'[j]],
         \A j \in board.issues : state'[j] \in IF Linear THEN workflow ELSE Statuses,
         remembered' \subseteq board.issues, dirty' \subseteq board.issues, kind # "tk" => dirty' = {},
         called' = called
  PROVE  IssueInv'
<1>1. BoardInv'
  BY WriteCallFacts DEF IssueInv, BoardInv, Fail, Linear
<1>2. /\ writes' = [writes EXCEPT ![w] = NoWrite] /\ meant'[writes[w].task] = Unknown
      /\ \A j \in board.issues : j # writes[w].task => meant'[j] = meant[j]
  BY WriteCallFacts DEF IssueInv, BoardInv, Fail
<1>3. PICK id \in board.issues : id = writes[w].task
  BY WriteCallFacts
<1>4. Writing(w) /\ NoWrite.at = "idle"
  BY WriteCallFacts, WriteFacts
<1> QED BY <1>1, <1>2, <1>3, <1>4, OneWrite

\* A call moves on, and changes its issue in the tracker or not.
LEMMA GoKeepsIssues ==
  ASSUME IssueInv, NEW w \in Workers, writes[w].at # "idle", NEW r \in Writes,
         writes' = [writes EXCEPT ![w] = r], r.task = writes[w].task, r.status = writes[w].status,
         WriteInPlace(r)',
         r.at \in {"staged", "seen"} =>
             writes[w].at \in {"staged", "seen"} \/ \A v \in Workers : writes[v].at \notin {"staged", "seen"},
         UNCHANGED <<kind, board, workflow, called, meant>>,
         \A j \in board.issues : j # writes[w].task => state'[j] = state[j] /\ (j \in dirty' <=> j \in dirty),
         state' = [j \in board.issues |-> state'[j]],
         \A j \in board.issues : state'[j] \in IF Linear THEN workflow ELSE Statuses,
         r.status = "data" => state' = state,
         remembered' \subseteq board.issues, dirty' \subseteq board.issues, kind # "tk" => dirty' = {}
  PROVE  IssueInv'
<1>1. BoardInv'
  BY DEF IssueInv, BoardInv, Linear
<1>4. PICK id \in board.issues : id = writes[w].task
  BY WriteCallFacts
<1>2. Writing(w) /\ r # NoWrite /\ r \in Writes \cup {NoWrite}
  BY WriteCallFacts, WriteFacts
<1>3. r.status = "data" /\ meant'[id] # Unknown => ReadsBack(id)'
  <2> SUFFICES ASSUME r.status = "data", meant'[id] # Unknown PROVE ReadsBack(id)'
    OBVIOUS
  <2>1. ~Setting(id)
    BY <1>2, <1>4 DEF Setting, IssueInv, WritesInv, Writing
  <2>2. ReadsBack(id)
    BY <1>2, <2>1 DEF IssueInv, KeptInv
  <2> QED BY <2>2 DEF ReadsBack, ReadStatus, Linear, ClassifyTaskStatus
<1> QED BY <1>1, <1>2, <1>3, <1>4, OneWrite

\* A call that succeeds has written what was meant.
LEMMA SucceedKeepsIssues ==
  ASSUME IssueInv, NEW w \in Workers, writes[w].at # "idle", Succeed(w),
         UNCHANGED <<kind, board, workflow, called>>,
         \A j \in board.issues : j # writes[w].task => state'[j] = state[j] /\ (j \in dirty' <=> j \in dirty),
         state' = [j \in board.issues |-> state'[j]],
         \A j \in board.issues : state'[j] \in IF Linear THEN workflow ELSE Statuses,
         writes[w].status = "data" => state' = state,
         writes[w].status # "data" =>
             IF Linear THEN ClassifyTaskStatus(state'[writes[w].task]) = writes[w].status
             ELSE state'[writes[w].task] = IF kind = "tk" THEN TkStatus(writes[w].status) ELSE writes[w].status,
         writes[w].task \notin dirty',
         remembered' \subseteq board.issues, dirty' \subseteq board.issues, kind # "tk" => dirty' = {}
  PROVE  IssueInv'
<1>0. PICK id \in board.issues, status \in Statuses \cup {"data"} :
        id = writes[w].task /\ status = writes[w].status
  BY WriteCallFacts, WriteFacts
<1>1. /\ Writing(w) /\ NoWrite.at = "idle"
      /\ "data" \notin Statuses /\ meant \in [board.issues -> Statuses \cup {Unknown}]
  BY WriteCallFacts, WriteFacts DEF IssueInv, BoardInv
<1>2. /\ writes' = [writes EXCEPT ![w] = NoWrite]
      /\ meant' = IF status = "data" THEN meant ELSE [meant EXCEPT ![id] = status]
  BY <1>0, <1>1 DEF Succeed
<1>3. BoardInv'
  BY <1>1, <1>2 DEF IssueInv, BoardInv, Linear
<1>4. \A j \in board.issues : j # id => meant'[j] = meant[j]
  BY <1>1, <1>2
<1>5. meant'[id] # Unknown => ReadsBack(id)'
  <2>1. CASE status = "data"
    <3>1. ~Setting(id)
      BY <1>0, <1>1, <2>1 DEF Setting, IssueInv, WritesInv, Writing
    <3>2. meant'[id] # Unknown => ReadsBack(id)
      BY <1>1, <1>2, <2>1, <3>1 DEF IssueInv, KeptInv
    <3>3. state' = state /\ meant' = meant
      BY <1>0, <1>2, <2>1
    <3> QED BY <3>2, <3>3 DEF ReadsBack, ReadStatus, Linear, ClassifyTaskStatus
  <2>2. CASE status # "data"
    <3>1. meant'[id] = status
      BY <1>1, <1>2, <2>2
    <3>2. CASE Linear
      BY <1>0, <2>2, <3>1, <3>2 DEF ReadsBack, ReadStatus, Linear, ClassifyTaskStatus
    <3>3. CASE ~Linear
      BY <1>0, <2>2, <3>1, <3>3 DEF ReadsBack, ReadStatus, Linear, TkStatus
    <3> QED BY <3>2, <3>3
  <2> QED BY <2>1, <2>2
<1>6. \A j \in board.issues : j # id => state'[j] = state[j] /\ (j \in dirty' <=> j \in dirty)
  BY <1>0
<1>7. id \notin dirty'
  BY <1>0
<1> QED BY ZenonT(30), <1>0, <1>1, <1>2, <1>3, <1>4, <1>5, <1>6, <1>7, OneWrite

\* What the steps of a call leave alone.
LEMMA SameIssues ==
  ASSUME IssueInv
  PROVE  /\ state = [j \in board.issues |-> state[j]]
         /\ \A j \in board.issues : state[j] \in IF Linear THEN workflow ELSE Statuses
         /\ remembered \subseteq board.issues /\ dirty \subseteq board.issues /\ (kind # "tk" => dirty = {})
BY DEF IssueInv, BoardInv

\* A call that moves on without a change to the issue it is about.
LEMMA MoveKeepsIssues ==
  ASSUME IssueInv, NEW w \in Workers, writes[w].at # "idle", NEW at \in Places, Go(w, at),
         UNCHANGED <<kind, board, workflow, state, called, meant>>,
         WriteInPlace([writes[w] EXCEPT !.at = at]),
         at \in {"staged", "seen"} =>
             writes[w].at \in {"staged", "seen"} \/ \A v \in Workers : writes[v].at \notin {"staged", "seen"},
         dirty' = dirty, remembered' \subseteq board.issues
  PROVE  IssueInv'
<1>1. PICK r \in Writes : r = [writes[w] EXCEPT !.at = at]
  BY WriteCallFacts, WriteFacts
<1>2. writes' = [writes EXCEPT ![w] = r]
  BY <1>1 DEF Go
<1>3. r.task = writes[w].task /\ r.status = writes[w].status /\ r.at = at
  BY <1>1, WriteCallFacts, WriteFacts
<1>4. WriteInPlace(r)'
  BY <1>1 DEF WriteInPlace, Linear, ClassifyTaskStatus
<1> QED BY <1>2, <1>3, <1>4, SameIssues, GoKeepsIssues

\* A new call changes nothing in the tracker.
LEMMA CalledKeepsBoard ==
  ASSUME IssueInv, called < MaxWrites, called' = called + 1,
         UNCHANGED <<kind, board, workflow, state, remembered, dirty, meant>>
  PROVE  BoardInv'
BY IssueAssumption DEF IssueInv, BoardInv, Linear

LEMMA SetTaskStatusKeepsIssues ==
  ASSUME IssueInv, NEW w \in Workers, SetTaskStatus(w)
  PROVE  IssueInv'
<1>1. PICK id \in Written, s \in Statuses :
        /\ ~Underway(id)
        /\ writes' = [writes EXCEPT ![w] = [at |-> IF Linear THEN "resolving" ELSE "command",
                                            task |-> id, status |-> s, keys |-> 0]]
  BY DEF SetTaskStatus
<1>2. PICK r : r = [at |-> IF Linear THEN "resolving" ELSE "command", task |-> id, status |-> s, keys |-> 0]
  OBVIOUS
<1>3. id \in board.issues
  BY IssueAssumption DEF IssueInv, BoardInv
<1>4. /\ r \in Writes /\ r.at = (IF Linear THEN "resolving" ELSE "command") /\ r.task = id /\ r.status = s
      /\ r # NoWrite /\ "data" \notin Statuses
  BY <1>2, <1>3, WriteFacts DEF Writes, Places, NoWrite
<1>5. WriteInPlace(r)'
  BY <1>4 DEF WriteInPlace, SetTaskStatus, Linear
<1>6. ~Writing(w)
  BY WriteFacts DEF SetTaskStatus, IssueInv, WritesInv, Writing
<1>7. BoardInv'
  <2>1. called < MaxWrites /\ called' = called + 1 /\ UNCHANGED <<kind, board, workflow, state, remembered, dirty, meant>>
    BY DEF SetTaskStatus
  <2> QED BY <2>1, CalledKeepsBoard
<1>8. \A j \in board.issues : state'[j] = state[j] /\ meant'[j] = meant[j] /\ (j \in dirty' <=> j \in dirty)
  BY DEF SetTaskStatus
<1>9. UNCHANGED <<kind, board, workflow>>
  BY DEF SetTaskStatus
<1> QED BY <1>1, <1>2, <1>3, <1>4, <1>5, <1>6, <1>7, <1>8, <1>9, OneWrite

LEMMA SetTaskDataKeepsIssues ==
  ASSUME IssueInv, NEW w \in Workers, SetTaskData(w)
  PROVE  IssueInv'
<1>1. PICK id \in Written :
        /\ ~Underway(id)
        /\ writes' = [writes EXCEPT ![w] = [at |-> "note", task |-> id, status |-> "data", keys |-> Keys]]
  BY DEF SetTaskData
<1>2. PICK r : r = [at |-> "note", task |-> id, status |-> "data", keys |-> Keys]
  OBVIOUS
<1>3. id \in board.issues /\ Keys \in Int
  BY IssueAssumption DEF IssueInv, BoardInv
<1>4. r \in Writes /\ r.at = "note" /\ r.task = id /\ r.status = "data" /\ r # NoWrite
  BY <1>2, <1>3, WriteFacts DEF Writes, Places, NoWrite
<1>5. WriteInPlace(r)'
  BY <1>4 DEF WriteInPlace
<1>6. ~Writing(w)
  BY WriteFacts DEF SetTaskData, IssueInv, WritesInv, Writing
<1>7. BoardInv'
  BY CalledKeepsBoard DEF SetTaskData
<1>8. \A j \in board.issues : state'[j] = state[j] /\ meant'[j] = meant[j] /\ (j \in dirty' <=> j \in dirty)
  BY DEF SetTaskData
<1>9. UNCHANGED <<kind, board, workflow, state>>
  BY DEF SetTaskData
<1>10. meant'[id] # Unknown => ReadsBack(id)'
  <2>1. ~Setting(id)
    BY <1>1, WriteFacts DEF Setting, Underway, IssueInv, WritesInv, Writing
  <2>2. meant'[id] # Unknown => ReadsBack(id)
    BY <1>3, <1>8, <2>1 DEF IssueInv, KeptInv
  <2>3. meant' = meant
    BY DEF SetTaskData
  <2> QED BY <1>9, <2>2, <2>3 DEF ReadsBack, ReadStatus, Linear, ClassifyTaskStatus
<1> QED BY <1>1, <1>2, <1>3, <1>4, <1>5, <1>6, <1>7, <1>8, <1>9, <1>10, OneWrite

LEMMA ResolveKeepsIssues ==
  ASSUME IssueInv, NEW w \in Workers, ResolveState(w)
  PROVE  IssueInv'
<1>1. writes[w].at = "resolving" /\ UNCHANGED <<kind, board, workflow, state, remembered, dirty, called>>
  BY DEF ResolveState
<1>2. CASE Fail(w)
  BY <1>1, <1>2, SameIssues, FailKeepsIssues
<1>3. ASSUME NEW s \in SelectWorkflowState(workflow, writes[w].status), meant' = meant,
             writes' = [writes EXCEPT ![w] = [at |-> "mutation", task |-> writes[w].task,
                                              status |-> writes[w].status, keys |-> 0, to |-> s]]
      PROVE  IssueInv'
  <2>1. /\ writes[w] \in Writes /\ WriteInPlace(writes[w]) /\ writes[w].status # "data"
        /\ writes[w].status \in Statuses /\ writes[w].task \in board.issues
    BY <1>1, WriteCallFacts, WriteFacts DEF WriteInPlace
  <2>2. s \in workflow /\ ClassifyTaskStatus(s) = writes[w].status
    BY <2>1, SelectedIsRead
  <2>3. PICK r : r = [at |-> "mutation", task |-> writes[w].task, status |-> writes[w].status, keys |-> 0, to |-> s]
    OBVIOUS
  <2>4. /\ r \in Writes /\ r.at = "mutation" /\ r.task = writes[w].task /\ r.status = writes[w].status /\ r.to = s
    BY <2>1, <2>2, <2>3 DEF Writes, Places
  <2>5. WriteInPlace(r)
    BY <1>1, <2>1, <2>2, <2>4 DEF WriteInPlace
  <2>6. WriteInPlace(r)'
    BY <1>1, <2>5 DEF WriteInPlace, Linear, ClassifyTaskStatus
  <2> QED BY <1>1, <1>3, <2>1, <2>3, <2>4, <2>6, SameIssues, GoKeepsIssues
<1> QED BY <1>2, <1>3 DEF ResolveState

LEMMA UpdateKeepsIssues ==
  ASSUME IssueInv, NEW w \in Workers, UpdateIssue(w)
  PROVE  IssueInv'
<1>1. writes[w].at = "mutation" /\ UNCHANGED <<kind, board, workflow, remembered, dirty, called>>
  BY DEF UpdateIssue
<1>2. /\ WriteInPlace(writes[w]) /\ writes[w].task \in board.issues
      /\ Linear /\ kind # "tk" /\ dirty = {}
      /\ writes[w].to \in workflow /\ ClassifyTaskStatus(writes[w].to) = writes[w].status
      /\ writes[w].status # "data"
  BY <1>1, WriteCallFacts, SameIssues DEF WriteInPlace, Linear
<1>3. CASE state' = state /\ Fail(w)
  BY <1>1, <1>3, SameIssues, FailKeepsIssues
<1>4. CASE state' = [state EXCEPT ![writes[w].task] = writes[w].to]
  <2>1. /\ state' = [j \in board.issues |-> state'[j]] /\ state'[writes[w].task] = writes[w].to
        /\ \A j \in board.issues : j # writes[w].task => state'[j] = state[j]
    BY <1>2, <1>4, SameIssues
  <2>2. \A j \in board.issues : state'[j] \in IF Linear THEN workflow ELSE Statuses
    BY <1>2, <2>1, SameIssues
  <2>3. CASE Fail(w)
    BY <1>1, <2>1, <2>2, <2>3, SameIssues, FailKeepsIssues
  <2>4. CASE Succeed(w)
    BY <1>1, <1>2, <2>1, <2>2, <2>4, SameIssues, SucceedKeepsIssues
  <2> QED BY <1>4, <2>3, <2>4, <1>3 DEF UpdateIssue
<1> QED BY <1>3, <1>4 DEF UpdateIssue

LEMMA CommandKeepsIssues ==
  ASSUME IssueInv, NEW w \in Workers, RunCommand(w)
  PROVE  IssueInv'
<1>1. writes[w].at = "command" /\ UNCHANGED <<kind, board, workflow, remembered, called>>
  BY DEF RunCommand
<1>2. CASE Fail(w) /\ UNCHANGED <<state, dirty>>
  BY <1>1, <1>2, SameIssues, FailKeepsIssues
<1> DEFINE s == IF kind = "tk" THEN TkStatus(writes[w].status) ELSE writes[w].status
<1>3. CASE /\ state' = [state EXCEPT ![writes[w].task] = s]
           /\ dirty' = IF kind = "tk" /\ s # state[writes[w].task] THEN dirty \cup {writes[w].task} ELSE dirty
           /\ Go(w, "mark") /\ UNCHANGED meant
  <2>1. /\ writes[w] \in Writes /\ WriteInPlace(writes[w]) /\ writes[w].status # "data" /\ ~Linear
        /\ writes[w].status \in Statuses /\ writes[w].task \in board.issues
    BY <1>1, WriteCallFacts, WriteFacts DEF WriteInPlace
  <2>2. s \in Statuses
    BY <2>1 DEF TkStatus, Statuses
  <2>3. /\ state' = [j \in board.issues |-> state'[j]] /\ state'[writes[w].task] = s
        /\ \A j \in board.issues : j # writes[w].task => state'[j] = state[j] /\ (j \in dirty' <=> j \in dirty)
    BY <1>3, <2>1, SameIssues
  <2>4. \A j \in board.issues : state'[j] \in IF Linear THEN workflow ELSE Statuses
    BY <2>1, <2>2, <2>3, SameIssues
  <2>5. remembered' \subseteq board.issues /\ dirty' \subseteq board.issues /\ (kind # "tk" => dirty' = {})
    BY <1>1, <1>3, <2>1, SameIssues
  <2>6. PICK r \in Writes : r = [writes[w] EXCEPT !.at = "mark"]
    BY <2>1, WriteFacts DEF Places
  <2>7. r.at = "mark" /\ r.task = writes[w].task /\ r.status = writes[w].status
    BY <2>1, <2>6, WriteFacts DEF Places
  <2>8. writes' = [writes EXCEPT ![w] = r]
    BY <1>3, <2>6 DEF Go
  <2>9. WriteInPlace(r)'
    BY <1>1, <2>1, <2>3, <2>7 DEF WriteInPlace, Linear, TkStatus
  <2> QED BY <1>1, <1>3, <2>1, <2>3, <2>4, <2>5, <2>7, <2>8, <2>9, GoKeepsIssues
<1> QED BY <1>2, <1>3 DEF RunCommand

LEMMA RememberKeepsIssues ==
  ASSUME IssueInv, NEW w \in Workers, Remember(w)
  PROVE  IssueInv'
<1>1. writes[w].at = "mark" /\ UNCHANGED <<kind, board, workflow, state, dirty, called>>
  BY DEF Remember
<1>2. writes[w] \in Writes /\ WriteInPlace(writes[w]) /\ writes[w].task \in board.issues
  BY <1>1, WriteCallFacts
<1>3. remembered' \subseteq board.issues
  BY <1>2, SameIssues DEF Remember
<1>4. CASE kind = "tk"
  <2>1. Go(w, "persist") /\ meant' = meant /\ "persist" \in Places
    BY <1>4 DEF Remember, Places
  <2>2. WriteInPlace([writes[w] EXCEPT !.at = "persist"])
    BY <1>1, <1>2, <1>4, <2>1, WriteFacts DEF WriteInPlace, Linear
  <2> QED BY <1>1, <1>3, <2>1, <2>2, MoveKeepsIssues
<1>5. CASE kind # "tk"
  <2>1. Succeed(w) /\ dirty' = {}
    BY <1>1, <1>5, SameIssues DEF Remember
  <2>2. ~Linear /\ state'[writes[w].task] = writes[w].status /\ writes[w].status # "data"
    BY <1>1, <1>2, <1>5 DEF WriteInPlace
  <2> QED BY <1>1, <1>3, <1>5, <2>1, <2>2, SameIssues, SucceedKeepsIssues
<1> QED BY <1>4, <1>5

LEMMA NoteKeepsIssues ==
  ASSUME IssueInv, NEW w \in Workers, WriteNote(w)
  PROVE  IssueInv'
<1>1. writes[w].at = "note" /\ UNCHANGED <<kind, board, workflow, state, remembered, called>>
  BY DEF WriteNote
<1>2. /\ writes[w] \in Writes /\ WriteInPlace(writes[w]) /\ writes[w].task \in board.issues
      /\ writes[w].status = "data"
  BY <1>1, WriteCallFacts DEF WriteInPlace
<1>3. CASE Fail(w) /\ dirty' = dirty
  BY <1>1, <1>3, SameIssues, FailKeepsIssues
<1>4. CASE dirty' = IF kind = "tk" THEN dirty \cup {writes[w].task} ELSE dirty
  <2>1. /\ dirty' \subseteq board.issues /\ (kind # "tk" => dirty' = {})
        /\ \A j \in board.issues : j # writes[w].task => (j \in dirty' <=> j \in dirty)
    BY <1>2, <1>4, SameIssues
  <2>2. ASSUME writes' = [writes EXCEPT ![w].keys = @ - 1], meant' = meant PROVE IssueInv'
    <3>0. PICK n \in Int : n = writes[w].keys - 1
      BY <1>2, WriteFacts
    <3>1. PICK r \in Writes : r = [writes[w] EXCEPT !.keys = n]
      BY <1>2, WriteFacts
    <3>2. r.at = "note" /\ r.task = writes[w].task /\ r.status = "data"
      BY <1>1, <1>2, <3>1, WriteFacts
    <3>3. writes' = [writes EXCEPT ![w] = r]
      BY <2>2, <3>0, <3>1
    <3>4. WriteInPlace(r)'
      BY <3>2 DEF WriteInPlace
    <3> QED BY <1>1, <1>2, <2>1, <2>2, <3>2, <3>3, <3>4, SameIssues, GoKeepsIssues
  <2>3. ASSUME kind = "tk", Go(w, "persist"), meant' = meant PROVE IssueInv'
    <3>1. PICK r \in Writes : r = [writes[w] EXCEPT !.at = "persist"]
      BY <1>2, WriteFacts DEF Places
    <3>2. r.at = "persist" /\ r.task = writes[w].task /\ r.status = "data"
      BY <1>2, <3>1, WriteFacts DEF Places
    <3>3. writes' = [writes EXCEPT ![w] = r]
      BY <2>3, <3>1 DEF Go
    <3>4. WriteInPlace(r)'
      BY <1>1, <2>3, <3>2 DEF WriteInPlace, Linear
    <3> QED BY <1>1, <1>2, <2>1, <2>3, <3>2, <3>3, <3>4, SameIssues, GoKeepsIssues
  <2>4. ASSUME kind # "tk", Succeed(w) PROVE IssueInv'
    BY <1>1, <1>2, <2>1, <2>4, SameIssues, SucceedKeepsIssues
  <2>5. CASE Fail(w) /\ dirty' = dirty
    BY <1>3, <2>5
  <2> QED BY <2>2, <2>3, <2>4, <2>5 DEF WriteNote
<1> QED BY <1>3, <1>4 DEF WriteNote

LEMMA StageKeepsIssues ==
  ASSUME IssueInv, NEW w \in Workers, StageTicket(w)
  PROVE  IssueInv'
<1>1. /\ writes[w].at = "persist" /\ UNCHANGED <<kind, board, workflow, state, remembered, dirty, called>>
      /\ \A v \in Workers : writes[v].at \notin {"staged", "seen"}
  BY DEF StageTicket
<1>2. CASE Fail(w)
  BY <1>1, <1>2, SameIssues, FailKeepsIssues
<1>3. CASE Go(w, "staged") /\ meant' = meant
  <2>1. WriteInPlace([writes[w] EXCEPT !.at = "staged"]) /\ "staged" \in Places
    BY <1>1, WriteCallFacts, WriteFacts DEF WriteInPlace, Places
  <2> QED BY <1>1, <1>3, <2>1, SameIssues, MoveKeepsIssues
<1> QED BY <1>2, <1>3 DEF StageTicket

LEMMA InspectKeepsIssues ==
  ASSUME IssueInv, NEW w \in Workers, InspectTicket(w)
  PROVE  IssueInv'
<1>1. writes[w].at = "staged" /\ UNCHANGED <<kind, board, workflow, state, remembered, dirty, called>>
  BY DEF InspectTicket
<1>2. CASE Fail(w)
  BY <1>1, <1>2, SameIssues, FailKeepsIssues
<1>3. CASE Go(w, "seen") /\ meant' = meant
  <2>1. WriteInPlace([writes[w] EXCEPT !.at = "seen"]) /\ "seen" \in Places
    BY <1>1, WriteCallFacts, WriteFacts DEF WriteInPlace, Places
  <2> QED BY <1>1, <1>3, <2>1, SameIssues, MoveKeepsIssues
<1>4. CASE writes[w].task \notin dirty /\ Succeed(w)
  <2>1. /\ WriteInPlace(writes[w]) /\ kind = "tk" /\ ~Linear
        /\ writes[w].status # "data" => state[writes[w].task] = TkStatus(writes[w].status)
    BY <1>1, WriteCallFacts DEF WriteInPlace, Linear
  <2> QED BY <1>1, <1>4, <2>1, SameIssues, SucceedKeepsIssues
<1> QED BY <1>2, <1>3, <1>4 DEF InspectTicket

LEMMA CommitKeepsIssues ==
  ASSUME IssueInv, NEW w \in Workers, CommitTicket(w)
  PROVE  IssueInv'
<1>1. writes[w].at = "seen" /\ UNCHANGED <<kind, board, workflow, state, remembered, called>>
  BY DEF CommitTicket
<1>2. CASE dirty' = dirty /\ Fail(w)
  BY <1>1, <1>2, SameIssues, FailKeepsIssues
<1>3. CASE dirty' = dirty \ {writes[w].task} /\ Succeed(w)
  <2>1. /\ WriteInPlace(writes[w]) /\ kind = "tk" /\ ~Linear
        /\ writes[w].status # "data" => state[writes[w].task] = TkStatus(writes[w].status)
    BY <1>1, WriteCallFacts DEF WriteInPlace, Linear
  <2>2. /\ dirty' \subseteq board.issues /\ writes[w].task \notin dirty'
        /\ \A j \in board.issues : j # writes[w].task => (j \in dirty' <=> j \in dirty)
    BY <1>3, SameIssues
  <2> QED BY <1>1, <1>3, <2>1, <2>2, SameIssues, SucceedKeepsIssues
<1> QED BY <1>2, <1>3 DEF CommitTicket

LEMMA IssueStep == IssueInv /\ [IssueNext]_trackerVars => IssueInv'
<1> SUFFICES ASSUME IssueInv, [IssueNext]_trackerVars PROVE IssueInv'
  OBVIOUS
<1>1. ASSUME NEW w \in Workers, \/ SetTaskStatus(w) \/ SetTaskData(w)
                                \/ ResolveState(w) \/ UpdateIssue(w)
                                \/ RunCommand(w) \/ Remember(w) \/ WriteNote(w)
                                \/ StageTicket(w) \/ InspectTicket(w) \/ CommitTicket(w)
      PROVE  IssueInv'
  BY <1>1, SetTaskStatusKeepsIssues, SetTaskDataKeepsIssues, ResolveKeepsIssues, UpdateKeepsIssues,
     CommandKeepsIssues, RememberKeepsIssues, NoteKeepsIssues, StageKeepsIssues, InspectKeepsIssues,
     CommitKeepsIssues
<1>2. CASE RestartRunner
  BY SMTT(30), <1>2 DEF RestartRunner, IssueInv, BoardInv, WritesInv, Writing, Writes, WriteInPlace, KeptInv, Setting,
              Underway, ReadsBack, ReadStatus, Linear, ClassifyTaskStatus
<1>3. CASE UNCHANGED trackerVars
  <2>1. BoardInv'
    BY <1>3 DEF trackerVars, IssueInv, BoardInv, Linear
  <2>2. WritesInv'
    BY <1>3 DEF trackerVars, IssueInv, WritesInv, Writing, Writes, WriteInPlace, Linear, ClassifyTaskStatus
  <2>3. KeptInv'
    BY <1>3 DEF trackerVars, IssueInv, KeptInv, Setting, Underway, Writing, ReadsBack, ReadStatus, Linear,
                ClassifyTaskStatus
  <2> QED BY <2>1, <2>2, <2>3 DEF IssueInv
<1> QED BY <1>1, <1>2, <1>3 DEF IssueNext

\* A status that was set with success reads back, and for tk its ticket is committed, for every
\* tracker, board, workflow and number of workers that write (SetTaskStatus, persistTicketFile).
THEOREM WritesAreKept == IssueSpec => []WriteIsKept
<1>1. IssueInv => WriteIsKept
  <2> SUFFICES ASSUME IssueInv, NEW id \in board.issues, meant[id] # Unknown, ~Underway(id)
               PROVE  ReadsBack(id) /\ id \notin dirty
    BY DEF WriteIsKept, StatusReadsBack, TicketIsCommitted, ReadsBack
  <2>1. ~Setting(id)
    BY WriteFacts DEF Setting, Underway, IssueInv, WritesInv, Writing
  <2> QED BY <2>1 DEF IssueInv, KeptInv
<1> QED BY <1>1, IssueStart, IssueStep, PTL DEF IssueSpec

-------------------------------------------------------------------------------
(* The trees of the trackers.                                                      *)

\* What is found below a root: every child of what is, and nothing but the root that is its own parent.
LEMMA FoundBelow ==
  ASSUME NEW b, Board(b), NEW root \in b.issues
  PROVE  /\ Scope(b, root) \subseteq b.issues /\ root \in Scope(b, root)
         /\ \A i \in b.issues : b.parent[i] \in Scope(b, root) => i \in Scope(b, root)
         /\ \A i \in Scope(b, root) \ {root} : b.parent[i] \in Scope(b, root) \ {i}
<1> DEFINE nodes  == b.issues \cup {root}
           closed == {S \in SUBSET nodes : root \in S /\ \A i \in b.issues : b.parent[i] \in S => i \in S}
           found  == {i \in nodes : \A S \in closed : i \in S}
<1>1. Scope(b, root) = found /\ nodes = b.issues
  BY DEF Scope, Descendants
<1>2. root \in found /\ \A i \in b.issues : b.parent[i] \in found => i \in found
  OBVIOUS
<1>3. ASSUME NEW i \in found \ {root}, b.parent[i] \notin found \ {i} PROVE FALSE
  <2>1. found \ {i} \in closed
    BY <1>2, <1>3
  <2>2. i \in found \ {i}
    BY <2>1
  <2> QED BY <2>2
<1> QED BY <1>1, <1>2, <1>3

\* The tree of a board is one the engine takes, and has what its tasks refer to in scope.
LEMMA ScopedTreeFacts ==
  ASSUME NEW b, Board(b), NEW root \in b.issues, NEW scope, scope = Scope(b, root), NEW missing
  PROVE  LET t == ScopedTree(b, root, scope, missing)
         IN  /\ t.tasks = scope /\ t.missing = missing /\ t.root = root
             /\ WellFormed(t)
             /\ \A l \in ParentLinks(t) : l[1] \in scope
             /\ \A id \in scope : Cardinality(Parents(t)[id]) <= 1
             /\ \A r \in t.parents : r[1] # r[2] /\ r[1] \in scope /\ r[2] \in scope
             /\ \A id \in scope : \A d \in (b.refs[id] \cap scope) \ {id} : d \in Dependencies(t)[id]
<1> DEFINE t == ScopedTree(b, root, scope, missing)
           parentOf == [id \in scope |-> IF id = root THEN "none"
                                         ELSE IF b.parent[id] \in scope THEN b.parent[id] ELSE root]
<1>1. /\ t.tasks = scope /\ t.missing = missing /\ t.root = root /\ t.parentOf = parentOf
      /\ t.parents = {<<parentOf[id], id>> : id \in scope \ {root}}
      /\ t.depends = {p \in scope \X scope : p[2] \in InScope(b, scope, p[1])}
      /\ t.blocks = {<<p[2], p[1]>> : p \in t.depends}
  BY DEF ScopedTree
<1> HIDE DEF t
<1>2. root \in scope /\ \A id \in scope \ {root} : parentOf[id] \in scope /\ parentOf[id] # id
  BY FoundBelow
<1>3. \A l \in ParentLinks(t) : l[1] = parentOf[l[2]] /\ l[2] \in scope \ {root}
  BY <1>1 DEF ParentLinks
<1> HIDE DEF parentOf
<1>4. \A l \in ParentLinks(t) : l[1] \in scope
  BY <1>2, <1>3
<1>5. ASSUME NEW id \in scope PROVE Cardinality(Parents(t)[id]) <= 1
  <2>1. \A x, y \in Parents(t)[id] : x = y
    BY <1>1, <1>3 DEF Parents
  <2> QED BY <2>1, OneAtMost
<1>6. \A r \in t.parents : r[1] # r[2] /\ r[1] \in scope /\ r[2] \in scope
  BY <1>1, <1>2
<1>7. \A r \in t.depends \cup t.blocks : r[1] # r[2] /\ r[1] \in scope /\ r[2] \in scope
  <2>1. \A r \in t.depends : r[1] # r[2] /\ r[1] \in scope /\ r[2] \in scope
    BY <1>1 DEF InScope
  <2> QED BY <1>1, <2>1
<1>8. ASSUME NEW id \in scope, NEW d \in (b.refs[id] \cap scope) \ {id} PROVE d \in Dependencies(t)[id]
  <2>1. <<id, d>> \in t.depends
    BY <1>1, <1>8 DEF InScope
  <2> QED BY <1>1, <2>1 DEF Dependencies
<1>9. WellFormed(t)
  BY <1>1, <1>4, <1>5, <1>6, <1>7 DEF WellFormed, Relations
<1> QED BY <1>1, <1>4, <1>5, <1>6, <1>8, <1>9 DEF t

LEMMA IssueTreeIsFaithful == ASSUME IssueInv, kind = "linear" PROVE TreeIsFaithful
<1> DEFINE scope == Scope(board, "r")
<1>1. Board(board) /\ "r" \in board.issues
  BY IssueAssumption DEF IssueInv, BoardInv
<1>2. TreeRead = ScopedTree(board, "r", scope, {}) /\ Linear
  BY <1>1 DEF TreeRead, TrackerTree, LinearTree, Linear
<1>3. PICK t : t = TreeRead
  OBVIOUS
<1>4. /\ t.tasks = scope /\ WellFormed(t)
      /\ \A id \in scope : \A d \in (board.refs[id] \cap scope) \ {id} : d \in Dependencies(t)[id]
  BY <1>1, <1>2, <1>3, ScopedTreeFacts
<1>5. \A id \in board.issues : board.parent[id] \in scope => id \in scope
  BY <1>1, FoundBelow
<1> HIDE DEF scope
<1> QED BY <1>2, <1>3, <1>4, <1>5 DEF TreeIsFaithful

LEMMA ProjectTreeIsFaithful == ASSUME IssueInv, kind = "project" PROVE TreeIsFaithful
<1>1. PICK b : b = LinearProject(board, "p")
  OBVIOUS
<1>2. /\ Board(board) /\ "p" \notin board.issues
      /\ \A id \in board.issues : "p" \notin board.refs[id]
  BY IssueAssumption DEF IssueInv, BoardInv
<1>3. /\ Board(b) /\ "p" \in b.issues /\ b.issues = board.issues \cup {"p"}
      /\ \A id \in board.issues : /\ b.parent[id] = IF board.parent[id] \in board.issues THEN board.parent[id] ELSE "p"
                                  /\ b.refs[id] = board.refs[id] \cap board.issues
  BY <1>1, <1>2 DEF LinearProject, Board
<1>4. PICK scope : scope = Scope(b, "p")
  OBVIOUS
<1>5. TreeRead = ScopedTree(b, "p", scope, {}) /\ Linear
  BY <1>1, <1>3, <1>4 DEF TreeRead, TrackerTree, LinearTree, Linear
<1>6. PICK t : t = TreeRead
  OBVIOUS
<1>7. /\ t.tasks = scope /\ WellFormed(t)
      /\ \A id \in scope : \A d \in (b.refs[id] \cap scope) \ {id} : d \in Dependencies(t)[id]
  BY <1>3, <1>4, <1>5, <1>6, ScopedTreeFacts
<1>8. /\ scope \subseteq b.issues /\ "p" \in scope
      /\ \A id \in b.issues : b.parent[id] \in scope => id \in scope
  BY <1>3, <1>4, FoundBelow
<1>9. \A id \in board.issues : board.parent[id] \in scope => id \in scope
  BY <1>3, <1>8
<1>10. ASSUME NEW id \in scope \cap board.issues, NEW d \in board.refs[id] \ {id}, d \in scope
       PROVE  d \in Dependencies(t)[id]
  <2>1. d \in b.refs[id]
    BY <1>2, <1>3, <1>8, <1>10
  <2> QED BY <1>7, <1>10, <2>1
<1> QED BY <1>5, <1>6, <1>7, <1>9, <1>10 DEF TreeIsFaithful

LEMMA TicketTreeIsFaithful == ASSUME IssueInv, kind = "tk" PROVE TreeIsFaithful
<1>1. Board(board) /\ "r" \in board.issues
  BY IssueAssumption DEF IssueInv, BoardInv
<1>2. PICK scope : scope = Scope(board, "r")
  OBVIOUS
<1>3. PICK missing : missing = {id \in scope : \E d \in board.refs[id] : d \notin scope \cup {id}}
  OBVIOUS
<1>4. TreeRead = ScopedTree(board, "r", scope, missing)
  BY <1>1, <1>2, <1>3 DEF TreeRead, TrackerTree, TkTree
<1>5. PICK t : t = TreeRead
  OBVIOUS
<1>6. /\ t.tasks = scope /\ t.missing = missing /\ WellFormed(t)
      /\ \A id \in scope : \A d \in (board.refs[id] \cap scope) \ {id} : d \in Dependencies(t)[id]
  BY <1>1, <1>2, <1>4, <1>5, ScopedTreeFacts
<1>7. \A id \in board.issues : board.parent[id] \in scope => id \in scope
  BY <1>1, <1>2, FoundBelow
<1> QED BY <1>3, <1>5, <1>6, <1>7 DEF TreeIsFaithful

LEMMA BeadTreeIsFaithful == ASSUME IssueInv, kind = "beads" PROVE TreeIsFaithful
<1>1. Board(board) /\ "r" \in board.issues
  BY IssueAssumption DEF IssueInv, BoardInv
<1>2. PICK scope : scope = Scope(board, "r")
  OBVIOUS
<1>3. PICK status : status = [id \in board.issues |-> ReadStatus(id)]
  OBVIOUS
<1>4. \A d \in board.issues : status[d] = state[d]
  BY <1>3 DEF ReadStatus, Linear
<1>5. PICK missing : missing = {id \in scope : \E d \in board.refs[id] :
                                   d \notin scope /\ (d \in board.issues => status[d] # "closed")}
  OBVIOUS
<1>6. PICK s : s = ScopedTree(board, "r", scope, missing)
  OBVIOUS
<1>7. PICK depends : depends = {p \in scope \X scope : p[2] \in board.refs[p[1]]}
  OBVIOUS
<1>8. TreeRead = [s EXCEPT !.depends = depends, !.blocks = {}]
  BY <1>2, <1>3, <1>5, <1>6, <1>7 DEF TreeRead, TrackerTree, BeadsTree
<1>9. PICK t : t = TreeRead
  OBVIOUS
<1>10. /\ t.tasks = s.tasks /\ t.missing = s.missing /\ t.root = s.root /\ t.parentOf = s.parentOf
       /\ t.parents = s.parents /\ t.depends = depends /\ t.blocks = {}
  BY <1>6, <1>8, <1>9 DEF ScopedTree
<1>11. /\ s.tasks = scope /\ s.missing = missing
       /\ \A l \in ParentLinks(s) : l[1] \in scope
       /\ \A id \in scope : Cardinality(Parents(s)[id]) <= 1
       /\ \A r \in s.parents : r[1] # r[2] /\ r[1] \in scope /\ r[2] \in scope
  BY <1>1, <1>2, <1>6, ScopedTreeFacts
<1>12. ParentLinks(t) = ParentLinks(s) /\ Parents(t) = Parents(s)
  <2>1. ParentLinks(t) = ParentLinks(s)
    BY <1>10 DEF ParentLinks
  <2> QED BY <1>10, <2>1 DEF Parents
<1>13. WellFormed(t) \/ \E id \in t.tasks : id \in board.refs[id]
  <2> SUFFICES ASSUME \A id \in t.tasks : id \notin board.refs[id] PROVE WellFormed(t)
    OBVIOUS
  <2>1. \A r \in depends : r[1] # r[2] /\ r[1] \in scope /\ r[2] \in scope
    BY <1>7, <1>10, <1>11
  <2> QED BY <1>10, <1>11, <1>12, <2>1 DEF WellFormed, Relations
<1>14. \A id \in board.issues : board.parent[id] \in scope => id \in scope
  BY <1>1, <1>2, FoundBelow
<1>15. ASSUME NEW id \in scope, NEW d \in board.refs[id], d \in scope PROVE d \in Dependencies(t)[id]
  <2>1. <<id, d>> \in t.depends
    BY <1>7, <1>10, <1>15
  <2> QED BY <1>10, <1>11, <1>15, <2>1 DEF Dependencies
<1>16. ASSUME NEW id \in scope, NEW d \in board.refs[id], d \notin scope, id \notin missing
       PROVE  d \in board.issues /\ state[d] = "closed"
  BY <1>4, <1>5, <1>16
<1> QED BY <1>9, <1>10, <1>11, <1>13, <1>14, <1>15, <1>16 DEF TreeIsFaithful

\* What is read of a tracker is a tree the engine takes, with every issue below the root, and what its
\* tasks refer to is in it, missing, or not below the root, for every board (GetTaskTree).
THEOREM TreesAreFaithful == IssueSpec => []TreeIsFaithful
<1>1. IssueInv => TreeIsFaithful
  BY IssueTreeIsFaithful, ProjectTreeIsFaithful, TicketTreeIsFaithful, BeadTreeIsFaithful
  DEF IssueInv, BoardInv, Kinds
<1> QED BY <1>1, IssueStart, IssueStep, PTL DEF IssueSpec

-------------------------------------------------------------------------------
(* The engine's walks over a graph.                                                *)

\* A task is on the way of the search once and has not been left.
StackInv ==
    /\ edges \in [DOMAIN edges -> SUBSET DOMAIN edges]
    /\ stack \in Seq(DOMAIN edges) /\ visited \subseteq DOMAIN edges
    /\ left \in [DOMAIN edges -> SUBSET DOMAIN edges]
    /\ \A i, j \in 1 .. Len(stack) : stack[i] = stack[j] => i = j
    /\ \A i \in 1 .. Len(stack) : stack[i] \notin visited /\ left[stack[i]] \subseteq edges[stack[i]]

\* Each task on the way leads to the one after it, and has led to nothing else but what was left.
WayInv ==
    /\ \A i \in 1 .. Len(stack) - 1 :
          /\ stack[i + 1] \in edges[stack[i]]
          /\ edges[stack[i]] \subseteq left[stack[i]] \cup visited \cup {stack[i + 1]}
    /\ (cycle = <<>> /\ stack # <<>>) => edges[Last(stack)] \subseteq left[Last(stack)] \cup visited

\* What was left leads only to what was left, and not in a circle.
VisitedInv ==
    /\ \A id \in visited : edges[id] \subseteq visited
    /\ \A S \in SUBSET visited : S # {} => \E id \in S : edges[id] \cap S = {}

CycleInv ==
    /\ cycle \in Seq(DOMAIN edges)
    /\ \A i \in 1 .. Len(cycle) : cycle[IF i = Len(cycle) THEN 1 ELSE i + 1] \in edges[cycle[i]]

SearchInv == StackInv /\ WayInv /\ VisitedInv /\ CycleInv

LEMMA SearchedTypes == ASSUME NEW e \in Searched PROVE e \in [DOMAIN e -> SUBSET DOMAIN e]
<1>1. ASSUME NEW t \in Trees, e = Dependencies(t) PROVE e \in [DOMAIN e -> SUBSET DOMAIN e]
  BY <1>1 DEF Dependencies
<1>2. ASSUME NEW t \in Trees, WellFormed(t), e = Parents(t) PROVE e \in [DOMAIN e -> SUBSET DOMAIN e]
  BY <1>2 DEF Parents, WellFormed
<1> QED BY <1>1, <1>2 DEF Searched

LEMMA SearchStart == SearchInit => SearchInv
<1> SUFFICES ASSUME SearchInit PROVE SearchInv
  OBVIOUS
<1>1. edges \in [DOMAIN edges -> SUBSET DOMAIN edges]
  BY SearchedTypes DEF SearchInit
<1> QED BY <1>1 DEF SearchInit, SearchInv, StackInv, WayInv, VisitedInv, CycleInv

\* What a task is put on the stack with.
LEMMA EnterKeeps == ASSUME SearchInv, NEW id \in DOMAIN edges, StartVisit(id) PROVE SearchInv'
<1> USE DEF StartVisit, Enter
<1>1. stack' = <<id>> /\ stack' \in Seq(DOMAIN edges) /\ Len(stack') = 1 /\ stack'[1] = id /\ Last(stack') = id
  BY DEF SearchInv, StackInv, Last
<1>2. left' \in [DOMAIN edges -> SUBSET DOMAIN edges] /\ left'[id] = edges[id]
  BY DEF SearchInv, StackInv
<1>3. StackInv'
  BY <1>1, <1>2 DEF SearchInv, StackInv
<1>4. WayInv'
  BY <1>1, <1>2 DEF WayInv
<1> QED BY <1>3, <1>4 DEF SearchInv, VisitedInv, CycleInv

LEMMA TopOfStack ==
  ASSUME SearchInv, stack # <<>>
  PROVE  /\ Len(stack) \in Nat \ {0} /\ Last(stack) = stack[Len(stack)] /\ Last(stack) \in DOMAIN edges
         /\ Last(stack) \notin visited /\ left[Last(stack)] \subseteq edges[Last(stack)]
         /\ edges[Last(stack)] \subseteq DOMAIN edges
BY DEF SearchInv, StackInv, Last

LEMMA LookKeeps == ASSUME SearchInv, NEW next \in DOMAIN edges, LookAt(next) PROVE SearchInv'
<1>1. PICK top \in DOMAIN edges : top = Last(stack)
  BY TopOfStack DEF LookAt
<1>2. /\ cycle = <<>> /\ stack # <<>> /\ next \in left[top] /\ UNCHANGED <<edges, visited>>
      /\ Len(stack) \in Nat \ {0} /\ stack[Len(stack)] = top /\ top \notin visited /\ next \in edges[top]
  BY <1>1, TopOfStack DEF LookAt
<1>3. PICK looked \in [DOMAIN edges -> SUBSET DOMAIN edges] : looked = [left EXCEPT ![top] = @ \ {next}]
  BY DEF SearchInv, StackInv
<1>4. /\ looked[top] = left[top] \ {next}
      /\ \A j \in DOMAIN edges : j # top => looked[j] = left[j]
  BY <1>3 DEF SearchInv, StackInv
<1>5. \A i \in 1 .. Len(stack) : (stack[i] = top) = (i = Len(stack))
  BY <1>2 DEF SearchInv, StackInv
<1>6. CASE next \in visited
  <2>1. left' = looked /\ UNCHANGED <<stack, cycle>>
    BY <1>1, <1>3, <1>6 DEF LookAt
  <2>2. StackInv'
    BY <1>2, <1>4, <2>1 DEF SearchInv, StackInv
  <2>3. WayInv'
    <3>1. ASSUME NEW i \in 1 .. Len(stack) - 1
          PROVE  /\ stack[i + 1] \in edges[stack[i]]
                 /\ edges[stack[i]] \subseteq looked[stack[i]] \cup visited \cup {stack[i + 1]}
      <4>1. stack[i] # top /\ stack[i] \in DOMAIN edges
        BY <1>2, <1>5 DEF SearchInv, StackInv
      <4> QED BY <1>4, <4>1 DEF SearchInv, WayInv
    <3>2. edges[top] \subseteq looked[top] \cup visited
      BY <1>1, <1>2, <1>4, <1>6 DEF SearchInv, WayInv
    <3> QED BY <1>1, <1>2, <2>1, <3>1, <3>2 DEF WayInv
  <2> QED BY <1>2, <2>1, <2>2, <2>3 DEF SearchInv, VisitedInv, CycleInv
<1>7. CASE next \notin visited /\ next \in ToSet(stack)
  <2>0. /\ DOMAIN stack = 1 .. Len(stack)
        /\ \E start \in DOMAIN stack : stack[start] = next /\ cycle' = SubSeq(stack, start, Len(stack))
    BY <1>7 DEF LookAt, SearchInv, StackInv
  <2>1. PICK start \in 1 .. Len(stack) : stack[start] = next /\ cycle' = SubSeq(stack, start, Len(stack))
    BY <2>0
  <2>2. left' = looked /\ UNCHANGED stack
    BY <1>1, <1>3, <1>7 DEF LookAt
  <2>3. StackInv'
    BY <1>2, <1>4, <2>2 DEF SearchInv, StackInv
  <2>4. /\ Len(cycle') = Len(stack) - start + 1 /\ cycle' \in Seq(DOMAIN edges) /\ cycle' # <<>>
        /\ \A i \in 1 .. Len(cycle') : cycle'[i] = stack[i + start - 1]
    BY <1>2, <2>1 DEF SearchInv, StackInv
  <2>5. WayInv'
    <3> SUFFICES ASSUME NEW i \in 1 .. Len(stack) - 1
                 PROVE  /\ stack[i + 1] \in edges[stack[i]]
                        /\ edges[stack[i]] \subseteq left'[stack[i]] \cup visited \cup {stack[i + 1]}
      BY <1>2, <2>2, <2>4 DEF WayInv
    <3>1. stack[i] # top /\ stack[i] \in DOMAIN edges
      BY <1>2, <1>5 DEF SearchInv, StackInv
    <3> QED BY <1>4, <2>2, <3>1 DEF SearchInv, WayInv
  <2>6. CycleInv'
    <3> SUFFICES ASSUME NEW i \in 1 .. Len(cycle')
                 PROVE  cycle'[IF i = Len(cycle') THEN 1 ELSE i + 1] \in edges[cycle'[i]]
      BY <1>2, <2>4 DEF CycleInv
    <3>1. CASE i = Len(cycle')
      BY <1>2, <2>1, <2>4, <3>1
    <3>2. CASE i # Len(cycle')
      <4>1. PICK k \in Nat : k = i + start - 1
        BY <1>2
      <4>2. k \in 1 .. Len(stack) - 1 /\ cycle'[i] = stack[k] /\ cycle'[i + 1] = stack[k + 1]
        BY <1>2, <2>4, <3>2, <4>1
      <4> QED BY <3>2, <4>2 DEF SearchInv, WayInv
    <3> QED BY <3>1, <3>2
  <2> QED BY <1>2, <2>3, <2>5, <2>6 DEF SearchInv, VisitedInv
<1>8. CASE next \notin visited /\ next \notin ToSet(stack)
  <2>1. /\ stack' = Append(stack, next) /\ left' = [looked EXCEPT ![next] = edges[next]] /\ UNCHANGED cycle
    BY <1>1, <1>3, <1>8 DEF LookAt
  <2>2. /\ stack' \in Seq(DOMAIN edges) /\ Len(stack') = Len(stack) + 1 /\ stack'[Len(stack) + 1] = next
        /\ \A i \in 1 .. Len(stack) : stack'[i] = stack[i] /\ stack[i] # next
    BY <1>8, <2>1 DEF SearchInv, StackInv, ToSet
  <2>3. /\ left' \in [DOMAIN edges -> SUBSET DOMAIN edges] /\ left'[next] = edges[next]
        /\ \A j \in DOMAIN edges : j # next => left'[j] = looked[j]
    BY <1>3, <2>1 DEF SearchInv, StackInv
  <2>4. StackInv'
    <3>1. \A i, j \in 1 .. Len(stack') : stack'[i] = stack'[j] => i = j
      BY <1>2, <2>2 DEF SearchInv, StackInv
    <3>2. ASSUME NEW i \in 1 .. Len(stack)
          PROVE  stack'[i] \notin visited /\ left'[stack'[i]] \subseteq edges[stack'[i]]
      <4>1. stack[i] \in DOMAIN edges /\ stack[i] \notin visited /\ left[stack[i]] \subseteq edges[stack[i]]
        BY DEF SearchInv, StackInv
      <4>2. looked[stack[i]] \subseteq left[stack[i]]
        BY <1>4, <4>1
      <4> QED BY <2>2, <2>3, <4>1, <4>2
    <3>3. \A i \in 1 .. Len(stack') : stack'[i] \notin visited /\ left'[stack'[i]] \subseteq edges[stack'[i]]
      BY <1>2, <1>8, <2>2, <2>3, <3>2
    <3> QED BY <1>2, <2>2, <2>3, <3>1, <3>3 DEF SearchInv, StackInv
  <2>5. WayInv'
    <3>1. Last(stack') = next /\ edges'[next] \subseteq left'[next]
      BY <1>2, <2>2, <2>3 DEF Last
    <3> SUFFICES ASSUME NEW i \in 1 .. Len(stack)
                 PROVE  /\ stack'[i + 1] \in edges[stack'[i]]
                        /\ edges[stack'[i]] \subseteq left'[stack'[i]] \cup visited \cup {stack'[i + 1]}
      BY <1>2, <2>2, <3>1 DEF WayInv
    <3>2. CASE i = Len(stack)
      <4>1. edges[top] \subseteq left[top] \cup visited
        BY <1>1, <1>2 DEF SearchInv, WayInv
      <4> QED BY <1>2, <1>4, <2>2, <2>3, <3>2, <4>1
    <3>3. CASE i # Len(stack)
      <4>1. i \in 1 .. Len(stack) - 1 /\ i + 1 \in 1 .. Len(stack)
        BY <1>2, <3>3
      <4>2. left'[stack[i]] = left[stack[i]]
        BY <1>4, <1>5, <2>2, <2>3, <3>3 DEF SearchInv, StackInv
      <4> QED BY <2>2, <4>1, <4>2 DEF SearchInv, WayInv
    <3> QED BY <3>2, <3>3
  <2> QED BY <1>2, <2>1, <2>4, <2>5 DEF SearchInv, VisitedInv, CycleInv
<1> QED BY <1>6, <1>7, <1>8

LEMMA LeaveKeeps == ASSUME SearchInv, LeaveTask PROVE SearchInv'
<1>1. PICK top \in DOMAIN edges : top = Last(stack)
  BY TopOfStack DEF LeaveTask
<1>2. /\ cycle = <<>> /\ stack # <<>> /\ left[top] = {} /\ UNCHANGED <<edges, left, cycle>>
      /\ visited' = visited \cup {top} /\ stack' = Front(stack)
      /\ Len(stack) \in Nat \ {0} /\ stack[Len(stack)] = top /\ top \notin visited
  BY <1>1, TopOfStack DEF LeaveTask
<1>3. /\ stack' \in Seq(DOMAIN edges) /\ Len(stack') = Len(stack) - 1
      /\ \A i \in 1 .. Len(stack') : stack'[i] = stack[i] /\ stack[i] # top
  <2>1. stack' = SubSeq(stack, 1, Len(stack) - 1)
    BY <1>2 DEF Front
  <2>2. /\ stack' \in Seq(DOMAIN edges) /\ Len(stack') = Len(stack) - 1
        /\ \A i \in 1 .. Len(stack') : stack'[i] = stack[i]
    <3>1. stack \in Seq(DOMAIN edges)
      BY DEF SearchInv, StackInv
    <3>2. PICK n \in Nat : n = Len(stack) - 1
      BY <1>2
    <3>3. /\ SubSeq(stack, 1, n) \in Seq(DOMAIN edges) /\ Len(SubSeq(stack, 1, n)) = n
          /\ \A i \in 1 .. n : SubSeq(stack, 1, n)[i] = stack[i]
      BY <1>2, <3>1, <3>2
    <3> QED BY <2>1, <3>2, <3>3
  <2>3. \A i \in 1 .. Len(stack') : stack[i] # top
    BY <1>2, <2>2 DEF SearchInv, StackInv
  <2> QED BY <2>2, <2>3
<1>4. edges[top] \subseteq visited
  BY <1>1, <1>2 DEF SearchInv, WayInv
<1>5. StackInv'
  BY <1>2, <1>3 DEF SearchInv, StackInv
<1>6. WayInv'
  <2>1. \A i \in 1 .. Len(stack') - 1 :
          /\ stack'[i + 1] \in edges[stack'[i]]
          /\ edges[stack'[i]] \subseteq left[stack'[i]] \cup visited \cup {stack'[i + 1]}
    BY <1>2, <1>3 DEF SearchInv, WayInv
  <2>2. stack' # <<>> => edges[Last(stack')] \subseteq left[Last(stack')] \cup visited \cup {top}
    <3> SUFFICES ASSUME stack' # <<>>
                 PROVE  edges[Last(stack')] \subseteq left[Last(stack')] \cup visited \cup {top}
      OBVIOUS
    <3>1. Len(stack) - 1 \in 1 .. Len(stack) - 1 /\ Last(stack') = stack[Len(stack) - 1]
      BY <1>2, <1>3 DEF Last
    <3> QED BY <1>2, <3>1 DEF SearchInv, WayInv
  <2> QED BY <1>2, <2>1, <2>2 DEF WayInv
<1>7. VisitedInv'
  <2>1. \A id \in visited' : edges[id] \subseteq visited'
    BY <1>2, <1>4 DEF SearchInv, VisitedInv
  <2>2. ASSUME NEW S \in SUBSET visited', S # {} PROVE \E id \in S : edges[id] \cap S = {}
    <3>1. CASE S \ {top} = {}
      BY <1>2, <1>4, <2>2, <3>1
    <3>2. CASE S \ {top} # {}
      <4>1. PICK id \in S \ {top} : edges[id] \cap (S \ {top}) = {}
        BY <1>2, <3>2 DEF SearchInv, VisitedInv
      <4>2. top \notin edges[id]
        BY <1>2, <4>1 DEF SearchInv, VisitedInv
      <4> QED BY <4>1, <4>2
    <3> QED BY <3>1, <3>2
  <2> QED BY <1>2, <2>1, <2>2 DEF VisitedInv
<1> QED BY <1>2, <1>5, <1>6, <1>7 DEF SearchInv, CycleInv

LEMMA SearchStep == SearchInv /\ [SearchNext]_searchVars => SearchInv'
<1>1. ASSUME SearchInv, UNCHANGED searchVars PROVE SearchInv'
  BY <1>1 DEF searchVars, SearchInv, StackInv, WayInv, VisitedInv, CycleInv
<1> QED BY <1>1, EnterKeeps, LookKeeps, LeaveKeeps DEF SearchNext

\* A cycle the search names is one, and it ends without only where no set of tasks leads back into
\* itself, for every tree (findDependencyCycle, assignDepths).
THEOREM CyclesAreFound == SearchSpec => []SearchIsRight
<1>1. SearchInv => SearchIsRight
  <2> SUFFICES ASSUME SearchInv PROVE SearchIsRight
    OBVIOUS
  <2>1. DOMAIN cycle = 1 .. Len(cycle)
    BY DEF SearchInv, CycleInv
  <2>2. visited = DOMAIN edges => ~Circular(edges)
    BY DEF SearchInv, VisitedInv, Circular
  <2> QED BY <2>1, <2>2 DEF SearchIsRight, SearchInv, CycleInv
<1> QED BY <1>1, SearchStart, SearchStep, PTL DEF SearchSpec

-------------------------------------------------------------------------------
\* A level later than the first has counted the tasks that may start.
LevelsInv ==
    /\ sized \in SizedGraphs /\ degree \in [sized.tasks -> Int]
    /\ level \subseteq sized.tasks /\ widest \in 0 .. Cardinality(sized.tasks)
    /\ \/ widest >= Cardinality(Available(sized))
       \/ level = {id \in sized.tasks : OpenDegree(sized, id) = 0}

LEMMA SizedFacts ==
  ASSUME NEW g \in SizedGraphs
  PROVE  /\ IsFiniteSet(g.tasks) /\ g.dependencies \in [g.tasks -> SUBSET g.tasks]
         /\ \A id \in Available(g) : OpenLeaf(g, id) /\ OpenDegree(g, id) = 0
         /\ Available(g) \subseteq g.tasks
<1>0. PICK t \in Trees : \E s \in [t.tasks -> Standing] : g = BuildGraph(t, s)
  BY DEF SizedGraphs
<1>1. PICK s \in [t.tasks -> Standing] : g = BuildGraph(t, s)
  BY <1>0
<1>2. /\ IsFiniteSet(g.tasks) /\ g.dependencies \in [g.tasks -> SUBSET g.tasks]
  BY <1>1, SearchAssumption DEF BuildGraph, Dependencies
<1>3. ASSUME NEW id \in Available(g) PROVE OpenLeaf(g, id) /\ OpenDegree(g, id) = 0
  <2>1. OpenLeaf(g, id) /\ id \notin g.missing /\ \A d \in g.dependencies[id] : g.status[d] = "closed"
    BY DEF Available, Satisfied
  <2>2. {d \in g.dependencies[id] : g.status[d] # "closed"} = {}
    BY <2>1
  <2>3. Cardinality({d \in g.dependencies[id] : g.status[d] # "closed"}) = 0
    BY <2>2, FS_EmptySet
  <2> QED BY <2>1, <2>3 DEF OpenDegree
<1> QED BY <1>2, <1>3 DEF Available

LEMMA SmallerSets ==
  ASSUME NEW S, IsFiniteSet(S), NEW T \in SUBSET S
  PROVE  IsFiniteSet(T) /\ Cardinality(T) \in Nat /\ Cardinality(S) \in Nat /\ Cardinality(T) <= Cardinality(S)
BY FS_Subset, FS_CardinalityType

LEMMA LevelsStart == LevelsInit => LevelsInv
<1> SUFFICES ASSUME LevelsInit PROVE LevelsInv
  OBVIOUS
<1>1. Cardinality(sized.tasks) \in Nat
  BY SizedFacts, FS_CardinalityType DEF LevelsInit
<1>2. level = {id \in sized.tasks : OpenDegree(sized, id) = 0}
  BY DEF LevelsInit
<1>3. degree \in [sized.tasks -> Int]
  <2> SUFFICES ASSUME NEW id \in sized.tasks PROVE OpenDegree(sized, id) \in Int
    BY DEF LevelsInit
  <2>1. PICK waits : waits = {d \in sized.dependencies[id] : sized.status[d] # "closed"}
    OBVIOUS
  <2>2. waits \subseteq sized.tasks /\ IsFiniteSet(sized.tasks)
    BY <2>1, SizedFacts DEF LevelsInit
  <2>3. Cardinality(waits) \in Nat
    BY <2>2, SmallerSets
  <2> QED BY <2>1, <2>3 DEF OpenDegree
<1> QED BY <1>1, <1>2, <1>3 DEF LevelsInit, LevelsInv

LEMMA LevelsStep == LevelsInv /\ [CountLevel]_levelVars => LevelsInv'
<1> SUFFICES ASSUME LevelsInv, [CountLevel]_levelVars PROVE LevelsInv'
  OBVIOUS
<1>1. CASE UNCHANGED levelVars
  BY <1>1 DEF levelVars, LevelsInv
<1>2. CASE CountLevel
  <2>1. PICK open : open = {id \in level : OpenLeaf(sized, id)}
    OBVIOUS
  <2>2. /\ sized' = sized /\ level' \subseteq sized.tasks /\ widest' = Larger(widest, Cardinality(open))
    BY <1>2, <2>1 DEF CountLevel
  <2>3. open \subseteq sized.tasks /\ IsFiniteSet(sized.tasks)
    BY <2>1, SizedFacts DEF LevelsInv
  <2>4. IsFiniteSet(open) /\ Cardinality(open) \in Nat /\ Cardinality(sized.tasks) \in Nat
        /\ Cardinality(open) <= Cardinality(sized.tasks)
    BY <2>3, SmallerSets
  <2>5. widest' \in 0 .. Cardinality(sized.tasks) /\ widest' >= widest /\ widest' >= Cardinality(open)
    BY <2>2, <2>4 DEF LevelsInv, Larger
  <2>6. Cardinality(Available(sized)) \in Nat
    BY <2>3, SizedFacts, SmallerSets DEF LevelsInv
  <2>7. widest' >= Cardinality(Available(sized))
    <3>1. CASE level = {id \in sized.tasks : OpenDegree(sized, id) = 0}
      <4>1. Available(sized) \subseteq open
        BY <2>1, <3>1, SizedFacts DEF LevelsInv
      <4>2. Cardinality(Available(sized)) <= Cardinality(open)
        BY <2>4, <4>1, SmallerSets
      <4> QED BY <2>4, <2>5, <2>6, <4>2
    <3>2. CASE widest >= Cardinality(Available(sized))
      BY <2>4, <2>5, <2>6, <3>2 DEF LevelsInv
    <3> QED BY <3>1, <3>2 DEF LevelsInv
  <2>8. sized' \in SizedGraphs
    BY <2>2 DEF LevelsInv
  <2>9. degree' \in [sized.tasks -> Int]
    <3>1. PICK counted : /\ counted \subseteq level
                        /\ degree' = [id \in sized.tasks |-> degree[id] - Cardinality(sized.dependencies[id] \cap counted)]
      BY <1>2 DEF CountLevel
    <3> SUFFICES ASSUME NEW id \in sized.tasks
                 PROVE  Cardinality(sized.dependencies[id] \cap counted) \in Int
      BY <3>1 DEF LevelsInv
    <3>2. sized.dependencies[id] \cap counted \subseteq sized.tasks
      BY SizedFacts DEF LevelsInv
    <3>3. Cardinality(sized.dependencies[id] \cap counted) \in Nat
      BY <2>3, <3>2, SmallerSets
    <3> QED BY <3>3
  <2> QED BY <2>2, <2>5, <2>7, <2>8, <2>9 DEF LevelsInv
<1> QED BY <1>1, <1>2

LEMMA PoolIsWide == LevelsInv => PoolCoversAvailable
<1> SUFFICES ASSUME LevelsInv, level = {}
             PROVE  Concurrency >= Cardinality(Available(sized)) \/ Concurrency = WorkerLimit
  BY DEF PoolCoversAvailable
<1>1. /\ Cardinality(Available(sized)) \in Nat /\ widest \in Nat /\ WorkerLimit \in Nat
  BY SizedFacts, SmallerSets, SearchAssumption DEF LevelsInv
<1>2. widest >= Cardinality(Available(sized))
  <2>1. CASE level = {id \in sized.tasks : OpenDegree(sized, id) = 0}
    <3>1. Available(sized) = {}
      BY <2>1, SizedFacts DEF LevelsInv
    <3> QED BY <1>1, <3>1, FS_EmptySet
  <2> QED BY <2>1 DEF LevelsInv
<1> QED BY <1>1, <1>2 DEF Concurrency, Larger

-------------------------------------------------------------------------------
(* The engine's graph.                                                             *)

TreeStatuses == [tree.tasks -> Statuses]
EngineCalls  == [at : {"storing", "stored", "working", "ended"}, task : tree.tasks, status : Statuses]

\* A dependency that is done stays done, unless somebody else reopens it.
Done(id) == stored[id] = "closed" \/ id \in outside
MayRun(id) == id \notin tree.missing /\ \A d \in Dependencies(tree)[id] : Done(d)

EngineShape ==
    /\ tree \in Trees
    /\ stored \in TreeStatuses
    /\ reading \in TreeStatuses \cup {NoGraph}
    /\ graph # NoGraph => /\ Accepted(tree) /\ graph.status \in TreeStatuses
                          /\ graph = BuildGraph(tree, graph.status)
    /\ offered \subseteq tree.tasks
    /\ calls \in [Callers -> EngineCalls \cup {NoCall}]
    /\ \A c, d \in Callers : (c # d /\ NoCall \notin {calls[c], calls[d]}) => calls[c].task # calls[d].task

\* A caller writes about a task that may run and is not closed, and what it stored is there.
CallersInv ==
    \A c \in Callers : calls[c] # NoCall =>
        /\ MayRun(calls[c].task)
        /\ calls[c].at \in {"storing", "working"} => stored[calls[c].task] # "closed" \/ calls[c].task \in outside
        /\ calls[c].at = "stored" => stored[calls[c].task] = calls[c].status \/ calls[c].task \in outside

\* What is offered may run, and was not closed since by a caller that has left.
OfferedInv ==
    \A id \in offered : MayRun(id) /\ (Busy(id) \/ stored[id] # "closed" \/ id \in outside)

\* What has been read is still so, but for what callers changed and did not share.
OnlyUnshared(status) ==
    \A id \in tree.tasks :
        \/ status[id] = stored[id]
        \/ id \in moved \cup outside
        \/ \E c \in Callers : calls[c].at = "stored" /\ calls[c].task = id
ReadingInv ==
    reading # NoGraph =>
        /\ OnlyUnshared(reading)
        /\ \A id \in tree.tasks : /\ reading[id] = "closed" => Done(id)
                                  /\ reading[id] = "open" => Busy(id) \/ stored[id] # "closed" \/ id \in outside

EngineInv == EngineShape /\ CallersInv /\ OfferedInv /\ ReadingInv /\ GraphFollowsTracker

LEMMA CallFields ==
  /\ \A r \in EngineCalls : /\ r # NoCall /\ r.at \in {"storing", "stored", "working", "ended"}
                            /\ r.task \in tree.tasks /\ r.status \in Statuses
  /\ NoCall.at = "idle" /\ NoCall \notin EngineCalls
BY DEF EngineCalls, NoCall

LEMMA CallMoves ==
  /\ \A r \in EngineCalls, at \in {"stored", "working", "ended"} :
        /\ [r EXCEPT !.at = at] \in EngineCalls
        /\ [r EXCEPT !.at = at].at = at
        /\ [r EXCEPT !.at = at].task = r.task
        /\ [r EXCEPT !.at = at].status = r.status
  /\ \A id \in tree.tasks, s \in Statuses :
        /\ Call("storing", id, s) \in EngineCalls /\ Call("storing", id, s).at = "storing"
        /\ Call("storing", id, s).task = id /\ Call("storing", id, s).status = s
BY DEF EngineCalls, Call

LEMMA CallerFacts ==
  ASSUME EngineInv, NEW c \in Callers
  PROVE  /\ calls[c] = NoCall <=> calls[c].at = "idle"
         /\ calls[c] # NoCall => /\ calls[c] \in EngineCalls
                                 /\ calls[c].at \in {"storing", "stored", "working", "ended"}
                                 /\ calls[c].task \in tree.tasks /\ calls[c].status \in Statuses
BY CallFields DEF EngineInv, EngineShape

LEMMA StatusesAreSome == \A f \in TreeStatuses : f # NoGraph
<1> SUFFICES ASSUME NEW f \in TreeStatuses, f = NoGraph PROVE FALSE
  OBVIOUS
<1>1. DOMAIN f = {"none"} /\ f["none"] = "absent"
  BY DEF NoGraph
<1>2. f["none"] \in Statuses
  BY <1>1 DEF TreeStatuses
<1> QED BY <1>1, <1>2 DEF Statuses

LEMMA EngineStart == EngineInit => EngineInv
<1> SUFFICES ASSUME EngineInit PROVE EngineInv
  OBVIOUS
<1>1. EngineShape
  BY DEF EngineInit, EngineShape, TreeStatuses, Statuses
<1>2. CallersInv /\ OfferedInv /\ ReadingInv /\ GraphFollowsTracker
  BY DEF EngineInit, CallersInv, OfferedInv, ReadingInv, GraphFollowsTracker
<1> QED BY <1>1, <1>2 DEF EngineInv

\* Nobody who is called reopens what is closed.
LEMMA DoneStays ==
  ASSUME EngineInv, [EngineNext]_engineVars
  PROVE  /\ tree' = tree
         /\ \A id \in tree.tasks : Done(id) => Done(id)'
<1>1. ASSUME NEW c \in Callers, StoreStatus(c)
      PROVE  tree' = tree /\ \A id \in tree.tasks : Done(id) => Done(id)'
  <2>1. calls[c] # NoCall /\ calls[c].at = "storing"
    BY <1>1, CallFields DEF StoreStatus
  <2>2. Done(calls[c].task) => calls[c].task \in outside
    BY <2>1 DEF EngineInv, CallersInv, Done
  <2>3. \/ stored' = stored \/ stored' = [stored EXCEPT ![calls[c].task] = calls[c].status]
    BY <1>1 DEF StoreStatus
  <2>4. outside' = outside /\ tree' = tree
    BY <1>1 DEF StoreStatus
  <2> QED BY <2>2, <2>3, <2>4 DEF Done, EngineInv, EngineShape, TreeStatuses
<1>2. CASE ChangeOutside
  BY <1>2 DEF ChangeOutside, Done, EngineInv, EngineShape, TreeStatuses
<1>3. CASE RefreshGraph \/ NextTasks \/ UNCHANGED engineVars
  BY <1>3 DEF RefreshGraph, NextTasks, engineVars, Done
<1>4. ASSUME NEW c \in Callers, StartTask(c) \/ Collect(c) \/ EndTask(c) \/ ShareStatus(c)
      PROVE  tree' = tree /\ \A id \in tree.tasks : Done(id) => Done(id)'
  BY <1>4 DEF StartTask, Collect, EndTask, ShareStatus, Done
<1> QED BY <1>1, <1>2, <1>3, <1>4 DEF EngineNext

LEMMA RunStays ==
  ASSUME EngineInv, [EngineNext]_engineVars
  PROVE  \A id \in tree.tasks : MayRun(id) => MayRun(id)'
BY DoneStays DEF MayRun, Dependencies

LEMMA RefreshKeeps == ASSUME EngineInv, RefreshGraph PROVE EngineInv'
<1>1. /\ reading' = stored /\ reading = NoGraph
      /\ UNCHANGED <<tree, stored, graph, offered, refused, calls, outside>>
  BY DEF RefreshGraph
<1>2. EngineShape'
  BY <1>1 DEF EngineInv, EngineShape, TreeStatuses, EngineCalls
<1>3. CallersInv' /\ OfferedInv'
  BY <1>1 DEF EngineInv, CallersInv, OfferedInv, MayRun, Done, Busy
<1>4. reading' # NoGraph => ReadingInv'
  BY <1>1 DEF EngineInv, ReadingInv, OnlyUnshared, Done, Busy
<1>5. reading' # NoGraph => GraphFollowsTracker'
  BY DEF GraphFollowsTracker
<1>6. reading' # NoGraph
  <2>1. stored \in TreeStatuses
    BY DEF EngineInv, EngineShape
  <2> QED BY <1>1, <2>1, StatusesAreSome
<1> QED BY <1>2, <1>3, <1>4, <1>5, <1>6 DEF EngineInv

\* An answer offers what may run by what was read.
LEMMA NextKeeps == ASSUME EngineInv, NextTasks PROVE EngineInv'
<1>1. /\ reading # NoGraph /\ reading' = NoGraph /\ UNCHANGED <<tree, stored, calls, outside, moved>>
      /\ reading \in TreeStatuses
  BY DEF NextTasks, EngineInv, EngineShape
<1>2. CallersInv' /\ ReadingInv'
  BY <1>1 DEF EngineInv, CallersInv, ReadingInv, MayRun, Done
<1>3. CASE Accepted(tree)
  <2>1. graph' = BuildGraph(tree, reading) /\ offered' = Available(graph')
    BY <1>3 DEF NextTasks
  <2>2. /\ graph'.tasks = tree.tasks /\ graph'.status = reading /\ graph'.missing = tree.missing
        /\ graph'.dependencies = Dependencies(tree)
    BY <2>1 DEF BuildGraph
  <2>3. EngineShape'
    <3>1. offered' \subseteq tree.tasks
      BY <2>1, <2>2 DEF Available
    <3>2. graph' = BuildGraph(tree, graph'.status)
      BY <2>1, <2>2
    <3> QED BY <1>1, <1>3, <2>2, <3>1, <3>2 DEF EngineInv, EngineShape, TreeStatuses, EngineCalls
  <2>4. OfferedInv'
    <3> SUFFICES ASSUME NEW id \in offered'
                 PROVE  MayRun(id)' /\ (Busy(id)' \/ stored'[id] # "closed" \/ id \in outside')
      BY DEF OfferedInv
    <3>1. /\ id \in tree.tasks /\ reading[id] = "open" /\ id \notin tree.missing
          /\ \A d \in Dependencies(tree)[id] : reading[d] = "closed"
      BY <2>1, <2>2 DEF Available, OpenLeaf, Satisfied
    <3>2. \A d \in Dependencies(tree)[id] : d \in tree.tasks
      BY <3>1 DEF Dependencies
    <3>3. MayRun(id)
      BY <1>1, <3>1, <3>2 DEF MayRun, EngineInv, ReadingInv
    <3>4. Busy(id) \/ stored[id] # "closed" \/ id \in outside
      BY <1>1, <3>1 DEF EngineInv, ReadingInv
    <3> QED BY <1>1, <3>3, <3>4 DEF MayRun, Done, Busy
  <2>5. GraphFollowsTracker'
    BY <1>1, <2>2 DEF GraphFollowsTracker, EngineInv, ReadingInv, OnlyUnshared
  <2> QED BY <1>2, <2>3, <2>4, <2>5 DEF EngineInv
<1>4. CASE ~Accepted(tree)
  <2>1. graph' = graph /\ graph = NoGraph /\ offered' = {}
    BY <1>4 DEF NextTasks, EngineInv, EngineShape
  <2>2. EngineShape'
    BY <1>1, <2>1 DEF EngineInv, EngineShape, TreeStatuses, EngineCalls
  <2>3. OfferedInv' /\ GraphFollowsTracker'
    BY <2>1 DEF OfferedInv, GraphFollowsTracker
  <2> QED BY <1>2, <2>2, <2>3 DEF EngineInv
<1> QED BY <1>3, <1>4

\* One caller goes on: the others are where they were, and their tasks are busy as they were.
LEMMA OneCaller ==
  ASSUME EngineInv, NEW c \in Callers, NEW r \in EngineCalls \cup {NoCall}, calls' = [calls EXCEPT ![c] = r],
         tree' = tree,
         r # NoCall => /\ calls[c] # NoCall => calls[c].task = r.task
                       /\ calls[c] = NoCall => ~Busy(r.task)
  PROVE  /\ calls' \in [Callers -> EngineCalls \cup {NoCall}]'
         /\ calls'[c] = r /\ \A d \in Callers : d # c => calls'[d] = calls[d]
         /\ \A a, b \in Callers : (a # b /\ NoCall \notin {calls'[a], calls'[b]}) => calls'[a].task # calls'[b].task
         /\ r # NoCall => \A id : Busy(id) => Busy(id)'
<1>1. /\ calls \in [Callers -> EngineCalls \cup {NoCall}]
      /\ calls'[c] = r /\ (\A d \in Callers : d # c => calls'[d] = calls[d])
      /\ calls' \in [Callers -> EngineCalls \cup {NoCall}]'
  BY DEF EngineInv, EngineShape, EngineCalls
<1>2. r # NoCall => \A d \in Callers : d # c /\ calls[d] # NoCall => calls[d].task # r.task
  BY <1>1, CallerFacts DEF EngineInv, EngineShape, Busy
<1>3. \A a, b \in Callers : (a # b /\ NoCall \notin {calls'[a], calls'[b]}) => calls'[a].task # calls'[b].task
  BY <1>1, <1>2 DEF EngineInv, EngineShape
<1>4. ASSUME r # NoCall, NEW id, Busy(id) PROVE Busy(id)'
  <2>1. PICK d \in Callers : calls[d].at # "idle" /\ calls[d].task = id
    BY <1>4 DEF Busy
  <2>2. calls'[d].at # "idle" /\ calls'[d].task = id
    <3>1. CASE d = c
      <4>1. calls[c] # NoCall
        BY <2>1, <3>1, CallerFacts
      <4> QED BY <1>1, <1>4, <2>1, <3>1, <4>1, CallFields
    <3>2. CASE d # c
      BY <1>1, <2>1, <3>2
    <3> QED BY <3>1, <3>2
  <2> QED BY <2>2 DEF Busy
<1> QED BY <1>1, <1>3, <1>4

LEMMA StartKeeps == ASSUME EngineInv, NEW c \in Callers, StartTask(c) PROVE EngineInv'
<1>1. PICK id \in offered : /\ ~Busy(id) /\ offered' = offered \ {id}
                            /\ calls' = [calls EXCEPT ![c] = Call("storing", id, "in_progress")]
  BY DEF StartTask
<1>2. /\ reading = NoGraph /\ UNCHANGED <<tree, stored, graph, reading, outside, moved>> /\ calls[c] = NoCall
      /\ id \in tree.tasks
  BY CallerFacts DEF StartTask, EngineInv, EngineShape
<1>3. PICK r \in EngineCalls : r = Call("storing", id, "in_progress") /\ r.task = id /\ r.at = "storing"
  BY <1>2, CallMoves DEF Statuses
<1>4. /\ calls' \in [Callers -> EngineCalls \cup {NoCall}]'
      /\ calls'[c] = r /\ \A d \in Callers : d # c => calls'[d] = calls[d]
      /\ \A a, b \in Callers : (a # b /\ NoCall \notin {calls'[a], calls'[b]}) => calls'[a].task # calls'[b].task
      /\ \A j : Busy(j) => Busy(j)'
  BY <1>1, <1>2, <1>3, OneCaller, CallFields
<1>5. EngineShape'
  BY <1>1, <1>2, <1>4 DEF EngineInv, EngineShape, TreeStatuses
<1>6. MayRun(id) /\ (stored[id] # "closed" \/ id \in outside)
  BY <1>1 DEF EngineInv, OfferedInv
<1>7. CallersInv'
  BY <1>2, <1>3, <1>4, <1>6 DEF EngineInv, CallersInv, MayRun, Done
<1>8. OfferedInv'
  BY <1>1, <1>2, <1>4 DEF EngineInv, OfferedInv, MayRun, Done
<1>9. ReadingInv'
  BY <1>2 DEF ReadingInv
<1>10. GraphFollowsTracker'
  BY <1>2, <1>4, CallFields DEF EngineInv, GraphFollowsTracker
<1> QED BY <1>5, <1>7, <1>8, <1>9, <1>10 DEF EngineInv

LEMMA CollectKeeps == ASSUME EngineInv, NEW c \in Callers, Collect(c) PROVE EngineInv'
<1>1. /\ reading = NoGraph /\ UNCHANGED <<tree, stored, graph, reading, outside, moved>> /\ offered' = {}
      /\ calls[c].at = "ended" /\ calls' = [calls EXCEPT ![c] = NoCall]
  BY DEF Collect
<1>2. /\ calls' \in [Callers -> EngineCalls \cup {NoCall}]'
      /\ calls'[c] = NoCall /\ \A d \in Callers : d # c => calls'[d] = calls[d]
      /\ \A a, b \in Callers : (a # b /\ NoCall \notin {calls'[a], calls'[b]}) => calls'[a].task # calls'[b].task
  BY <1>1, OneCaller
<1>3. EngineShape'
  BY <1>1, <1>2 DEF EngineInv, EngineShape, TreeStatuses
<1>4. CallersInv' /\ OfferedInv' /\ ReadingInv'
  BY <1>1, <1>2 DEF EngineInv, CallersInv, OfferedInv, ReadingInv, MayRun, Done
<1>5. GraphFollowsTracker'
  BY <1>1, <1>2 DEF EngineInv, GraphFollowsTracker
<1> QED BY <1>3, <1>4, <1>5 DEF EngineInv

LEMMA EndKeeps == ASSUME EngineInv, NEW c \in Callers, EndTask(c) PROVE EngineInv'
<1>1. PICK s \in {"open", "closed", "failed"} : calls' = [calls EXCEPT ![c] = Call("storing", calls[c].task, s)]
  BY DEF EndTask
<1>2. /\ UNCHANGED <<tree, stored, graph, reading, offered, outside, moved>> /\ calls[c].at = "working"
      /\ calls[c] \in EngineCalls /\ calls[c] # NoCall
  BY CallerFacts DEF EndTask
<1>3. PICK r \in EngineCalls : r = Call("storing", calls[c].task, s) /\ r.task = calls[c].task /\ r.at = "storing"
  BY <1>2, CallerFacts, CallMoves DEF Statuses
<1>4. /\ calls' \in [Callers -> EngineCalls \cup {NoCall}]'
      /\ calls'[c] = r /\ \A d \in Callers : d # c => calls'[d] = calls[d]
      /\ \A a, b \in Callers : (a # b /\ NoCall \notin {calls'[a], calls'[b]}) => calls'[a].task # calls'[b].task
      /\ \A j : Busy(j) => Busy(j)'
  BY <1>1, <1>2, <1>3, OneCaller, CallFields
<1>5. EngineShape'
  BY <1>2, <1>4 DEF EngineInv, EngineShape, TreeStatuses
<1>6. CallersInv'
  BY <1>2, <1>3, <1>4 DEF EngineInv, CallersInv, MayRun, Done
<1>7. OfferedInv'
  BY <1>2, <1>4 DEF EngineInv, OfferedInv, MayRun, Done
<1>8. \A id, d : d \in Callers /\ calls[d].at = "stored" /\ calls[d].task = id => calls'[d].at = "stored" /\ calls'[d].task = id
  BY <1>2, <1>4
<1>9. ReadingInv'
  BY <1>2, <1>4, <1>8 DEF EngineInv, ReadingInv, OnlyUnshared, Done
<1>10. GraphFollowsTracker'
  BY <1>2, <1>8 DEF EngineInv, GraphFollowsTracker
<1> QED BY <1>5, <1>6, <1>7, <1>9, <1>10 DEF EngineInv

\* A status goes to the tracker, or it does not.
LEMMA StoreKeeps == ASSUME EngineInv, NEW c \in Callers, StoreStatus(c) PROVE EngineInv'
<1>1. /\ UNCHANGED <<tree, graph, reading, offered, outside>> /\ calls[c].at = "storing"
      /\ calls[c] \in EngineCalls /\ calls[c] # NoCall /\ calls[c].task \in tree.tasks /\ calls[c].status \in Statuses
  BY CallerFacts DEF StoreStatus
<1>2. PICK id \in tree.tasks : id = calls[c].task
  BY <1>1
<1>3. PICK at \in {"stored", "ended"} :
        /\ calls' = [calls EXCEPT ![c].at = at]
        /\ \/ at = "ended" /\ stored' = stored /\ moved' = moved
           \/ /\ stored' = [stored EXCEPT ![id] = calls[c].status]
              /\ \/ at = "stored" /\ moved' = moved
                 \/ at = "ended" /\ moved' = moved \cup {id}
  BY <1>2 DEF StoreStatus
<1>4. PICK r \in EngineCalls : /\ r = [calls[c] EXCEPT !.at = at]
                               /\ r.at = at /\ r.task = id /\ r.status = calls[c].status
  <2>1. at \in {"stored", "working", "ended"}
    OBVIOUS
  <2>2. /\ [calls[c] EXCEPT !.at = at] \in EngineCalls /\ [calls[c] EXCEPT !.at = at].at = at
        /\ [calls[c] EXCEPT !.at = at].task = calls[c].task
        /\ [calls[c] EXCEPT !.at = at].status = calls[c].status
    BY ZenonT(60), <1>1, <2>1, CallMoves
  <2> QED BY <1>2, <2>2
<1>5. /\ calls' \in [Callers -> EngineCalls \cup {NoCall}]'
      /\ calls'[c] = r /\ \A d \in Callers : d # c => calls'[d] = calls[d]
      /\ \A a, b \in Callers : (a # b /\ NoCall \notin {calls'[a], calls'[b]}) => calls'[a].task # calls'[b].task
      /\ \A j : Busy(j) => Busy(j)'
  <2>1. calls' = [calls EXCEPT ![c] = r]
    BY <1>3, <1>4
  <2> QED BY <1>1, <1>2, <1>4, <2>1, OneCaller, CallFields
<1>6. stored' \in TreeStatuses /\ \A j \in tree.tasks : j # id => stored'[j] = stored[j]
  BY <1>1, <1>3 DEF EngineInv, EngineShape, TreeStatuses
<1>7. EngineShape'
  BY <1>1, <1>5, <1>6 DEF EngineInv, EngineShape, TreeStatuses
<1>8. \A j \in tree.tasks : MayRun(j) => MayRun(j)'
  BY RunStays DEF EngineNext
<1>9. CallersInv'
  <2> SUFFICES ASSUME NEW d \in Callers, calls'[d] # NoCall, NEW j, j = calls'[d].task
               PROVE  /\ MayRun(j)'
                      /\ calls'[d].at \in {"storing", "working"} => stored'[j] # "closed" \/ j \in outside
                      /\ calls'[d].at = "stored" => stored'[j] = calls'[d].status \/ j \in outside
    BY <1>1 DEF CallersInv, MayRun, Done
  <2>1. CASE d = c
    <3>1. MayRun(id) /\ j = id
      BY <1>1, <1>2, <1>4, <1>5, <2>1 DEF EngineInv, CallersInv
    <3>2. at = "stored" => stored'[id] = calls[c].status
      BY <1>3, <1>6 DEF EngineInv, EngineShape, TreeStatuses
    <3>3. at \in {"stored", "ended"}
      OBVIOUS
    <3> QED BY <1>4, <1>5, <1>8, <2>1, <3>1, <3>2, <3>3
  <2>2. CASE d # c
    <3>1. calls'[d] = calls[d] /\ calls[d] \in EngineCalls /\ calls[d].task \in tree.tasks
      BY <1>5, <2>2, CallerFacts
    <3>2. j # id /\ j \in tree.tasks
      BY <1>1, <1>2, <2>2, <3>1 DEF EngineInv, EngineShape
    <3>3. /\ MayRun(j)
          /\ calls[d].at \in {"storing", "working"} => stored[j] # "closed" \/ j \in outside
          /\ calls[d].at = "stored" => stored[j] = calls[d].status \/ j \in outside
      BY <3>1 DEF EngineInv, CallersInv
    <3> QED BY <1>6, <1>8, <3>1, <3>2, <3>3
  <2> QED BY <2>1, <2>2
<1>10. Busy(id)' /\ Busy(id)
  BY <1>1, <1>2, <1>4, <1>5, CallFields DEF Busy
<1>11. OfferedInv'
  <2> SUFFICES ASSUME NEW j \in offered PROVE MayRun(j)' /\ (Busy(j)' \/ stored'[j] # "closed" \/ j \in outside)
    BY <1>1 DEF OfferedInv
  <2>1. j \in tree.tasks /\ MayRun(j) /\ (Busy(j) \/ stored[j] # "closed" \/ j \in outside)
    BY DEF EngineInv, EngineShape, OfferedInv
  <2> QED BY <1>5, <1>6, <1>8, <1>10, <2>1
<1>12. \A status \in TreeStatuses : OnlyUnshared(status) => OnlyUnshared(status)'
  <2> SUFFICES ASSUME NEW status \in TreeStatuses, OnlyUnshared(status), NEW j \in tree.tasks
               PROVE  \/ status[j] = stored'[j]
                      \/ j \in moved' \cup outside
                      \/ \E d \in Callers : calls'[d].at = "stored" /\ calls'[d].task = j
    BY <1>1 DEF OnlyUnshared
  <2>1. CASE j = id
    <3>1. CASE stored' = stored /\ at = "ended" /\ moved' = moved
      <4>1. ~\E d \in Callers : calls[d].at = "stored" /\ calls[d].task = id
        BY <1>1, <1>2, CallerFacts DEF EngineInv, EngineShape
      <4> QED BY <2>1, <3>1, <4>1 DEF OnlyUnshared
    <3>2. CASE at = "stored"
      BY <1>4, <1>5, <2>1, <3>2
    <3>3. CASE moved' = moved \cup {id}
      BY <2>1, <3>3
    <3> QED BY <1>3, <3>1, <3>2, <3>3
  <2>2. CASE j # id
    <3>1. moved \subseteq moved' /\ stored'[j] = stored[j]
      BY <1>3, <1>6, <2>2
    <3>2. \A d \in Callers : calls[d].at = "stored" /\ calls[d].task = j => calls'[d].at = "stored" /\ calls'[d].task = j
      BY <1>1, <1>5
    <3> QED BY <3>1, <3>2 DEF OnlyUnshared
  <2> QED BY <2>1, <2>2
<1>13. ReadingInv'
  <2> SUFFICES ASSUME reading # NoGraph
               PROVE  /\ OnlyUnshared(reading)'
                      /\ \A j \in tree.tasks :
                            /\ reading[j] = "closed" => Done(j)'
                            /\ reading[j] = "open" => Busy(j)' \/ stored'[j] # "closed" \/ j \in outside
    BY <1>1 DEF ReadingInv
  <2>1. OnlyUnshared(reading)'
    <3>1. PICK status \in TreeStatuses : status = reading
      BY DEF EngineInv, EngineShape
    <3> QED BY <1>1, <1>12, <3>1 DEF EngineInv, ReadingInv, OnlyUnshared
  <2>2. \A j \in tree.tasks : Done(j) => Done(j)'
    BY DoneStays DEF EngineNext
  <2> QED BY <1>5, <1>6, <1>10, <2>1, <2>2 DEF EngineInv, ReadingInv
<1>14. GraphFollowsTracker'
  <2> SUFFICES ASSUME graph # NoGraph, reading = NoGraph PROVE OnlyUnshared(graph.status)'
    BY <1>1 DEF GraphFollowsTracker, OnlyUnshared
  <2>1. PICK status \in TreeStatuses : status = graph.status
    BY DEF EngineInv, EngineShape
  <2>2. OnlyUnshared(status)
    BY <2>1 DEF EngineInv, GraphFollowsTracker, OnlyUnshared
  <2> QED BY <1>1, <1>12, <2>1, <2>2 DEF OnlyUnshared
<1> QED BY <1>7, <1>9, <1>11, <1>13, <1>14 DEF EngineInv

\* A status goes into the graph, or is refused.
LEMMA ShareKeeps == ASSUME EngineInv, NEW c \in Callers, ShareStatus(c) PROVE EngineInv'
<1>1. /\ UNCHANGED <<tree, stored, reading, offered, outside>> /\ calls[c].at = "stored" /\ reading = NoGraph
      /\ calls[c] \in EngineCalls /\ calls[c] # NoCall /\ calls[c].task \in tree.tasks /\ calls[c].status \in Statuses
  BY CallerFacts DEF ShareStatus
<1>2. PICK id \in tree.tasks : id = calls[c].task
  BY <1>1
<1>3. PICK at \in {"working", "ended"} :
        /\ calls' = [calls EXCEPT ![c].at = at] /\ (at = "working" => calls[c].status = "in_progress")
        /\ \/ moved' = moved \cup {id} /\ graph' = graph
           \/ moved' = moved /\ graph' = IF graph = NoGraph THEN graph ELSE [graph EXCEPT !.status[id] = calls[c].status]
  BY <1>2 DEF ShareStatus
<1>4. PICK r \in EngineCalls : /\ r = [calls[c] EXCEPT !.at = at]
                               /\ r.at = at /\ r.task = id /\ r.status = calls[c].status
  <2>1. at \in {"stored", "working", "ended"}
    OBVIOUS
  <2>2. /\ [calls[c] EXCEPT !.at = at] \in EngineCalls /\ [calls[c] EXCEPT !.at = at].at = at
        /\ [calls[c] EXCEPT !.at = at].task = calls[c].task
        /\ [calls[c] EXCEPT !.at = at].status = calls[c].status
    BY ZenonT(60), <1>1, <2>1, CallMoves
  <2> QED BY <1>2, <2>2
<1>5. /\ calls' \in [Callers -> EngineCalls \cup {NoCall}]'
      /\ calls'[c] = r /\ \A d \in Callers : d # c => calls'[d] = calls[d]
      /\ \A a, b \in Callers : (a # b /\ NoCall \notin {calls'[a], calls'[b]}) => calls'[a].task # calls'[b].task
      /\ \A j : Busy(j) => Busy(j)'
  <2>1. calls' = [calls EXCEPT ![c] = r]
    BY <1>3, <1>4
  <2> QED BY <1>1, <1>2, <1>4, <2>1, OneCaller, CallFields
<1>6. stored[id] = calls[c].status \/ id \in outside
  BY <1>1, <1>2 DEF EngineInv, CallersInv
\* The graph is as it was, but for the status.
<1>7. graph' # NoGraph =>
        /\ graph # NoGraph /\ graph'.status \in TreeStatuses /\ graph' = BuildGraph(tree, graph'.status)
        /\ \A j \in tree.tasks : j # id => graph'.status[j] = graph.status[j]
        /\ graph'.status[id] = calls[c].status \/ id \in moved'
        /\ moved \subseteq moved'
  <2> SUFFICES ASSUME graph' # NoGraph
               PROVE  /\ graph # NoGraph /\ graph'.status \in TreeStatuses /\ graph' = BuildGraph(tree, graph'.status)
                      /\ \A j \in tree.tasks : j # id => graph'.status[j] = graph.status[j]
                      /\ graph'.status[id] = calls[c].status \/ id \in moved'
                      /\ moved \subseteq moved'
    OBVIOUS
  <2>1. graph # NoGraph /\ graph.status \in TreeStatuses /\ graph = BuildGraph(tree, graph.status)
    BY <1>3 DEF EngineInv, EngineShape
  <2>2. CASE moved' = moved \cup {id} /\ graph' = graph
    BY <2>1, <2>2
  <2>3. CASE moved' = moved /\ graph' = [graph EXCEPT !.status[id] = calls[c].status]
    <3>1. PICK status \in TreeStatuses : status = graph.status /\ graph = BuildGraph(tree, status)
      BY <2>1
    <3>2. PICK after \in TreeStatuses : after = [status EXCEPT ![id] = calls[c].status]
      BY <1>1 DEF TreeStatuses
    <3>3. graph' = BuildGraph(tree, after) /\ graph'.status = after
      <4>1. graph' = [graph EXCEPT !.status = after]
        BY <2>3, <3>1, <3>2
      <4>2. [BuildGraph(tree, status) EXCEPT !.status = after] = BuildGraph(tree, after)
        <5>1. PICK containers : containers = {link[1] : link \in ParentLinks(tree)}
          OBVIOUS
        <5>2. \A f \in TreeStatuses :
                BuildGraph(tree, f) = [tasks |-> tree.tasks, dependencies |-> Dependencies(tree),
                                       missing |-> tree.missing, status |-> f, containers |-> containers]
          BY <5>1, Zenon DEF BuildGraph
        <5> QED BY <5>2
      <4>3. BuildGraph(tree, after).status = after
        BY DEF BuildGraph
      <4> QED BY <3>1, <4>1, <4>2, <4>3
    <3>4. after[id] = calls[c].status /\ \A j \in tree.tasks : j # id => after[j] = status[j]
      BY <3>2 DEF TreeStatuses
    <3> QED BY <2>1, <2>3, <3>1, <3>3, <3>4
  <2> QED BY <1>3, <2>1, <2>2, <2>3
<1>8. EngineShape'
  BY <1>1, <1>5, <1>7 DEF EngineInv, EngineShape, TreeStatuses
<1>9. CallersInv'
  <2> SUFFICES ASSUME NEW d \in Callers, calls'[d] # NoCall, NEW j, j = calls'[d].task
               PROVE  /\ MayRun(j)
                      /\ calls'[d].at \in {"storing", "working"} => stored[j] # "closed" \/ j \in outside
                      /\ calls'[d].at = "stored" => stored[j] = calls'[d].status \/ j \in outside
    BY <1>1 DEF CallersInv, MayRun, Done
  <2>1. CASE d = c
    <3>1. MayRun(id) /\ j = id
      BY <1>1, <1>2, <1>4, <1>5, <2>1 DEF EngineInv, CallersInv
    <3>2. at = "working" => stored[id] # "closed" \/ id \in outside
      BY <1>3, <1>6
    <3>3. at \in {"working", "ended"}
      OBVIOUS
    <3> QED BY <1>4, <1>5, <2>1, <3>1, <3>2, <3>3
  <2>2. CASE d # c
    BY <1>5, <2>2 DEF EngineInv, CallersInv
  <2> QED BY <2>1, <2>2
<1>10. OfferedInv'
  BY <1>1, <1>5 DEF EngineInv, OfferedInv, MayRun, Done
<1>11. ReadingInv'
  BY <1>1 DEF ReadingInv
<1>12. GraphFollowsTracker'
  <2> SUFFICES ASSUME graph' # NoGraph, NEW j \in tree.tasks
               PROVE  \/ graph'.status[j] = stored[j]
                      \/ j \in moved' \cup outside
                      \/ \E d \in Callers : calls'[d].at = "stored" /\ calls'[d].task = j
    BY <1>1 DEF GraphFollowsTracker
  <2>1. CASE j = id
    BY <1>6, <1>7, <2>1
  <2>2. CASE j # id
    <3>1. \/ graph.status[j] = stored[j]
          \/ j \in moved \cup outside
          \/ \E d \in Callers : calls[d].at = "stored" /\ calls[d].task = j
      BY <1>1, <1>7 DEF EngineInv, GraphFollowsTracker
    <3>2. \A d \in Callers : calls[d].at = "stored" /\ calls[d].task = j => calls'[d].at = "stored" /\ calls'[d].task = j
      BY <1>2, <1>5, <2>2
    <3> QED BY <1>7, <2>2, <3>1, <3>2
  <2> QED BY <2>1, <2>2
<1> QED BY <1>8, <1>9, <1>10, <1>11, <1>12 DEF EngineInv

LEMMA OutsideKeeps == ASSUME EngineInv, ChangeOutside PROVE EngineInv'
<1>1. PICK id \in OthersSet \ outside, s \in {"open", "closed", "blocked"} :
        stored' = [stored EXCEPT ![id] = s] /\ outside' = outside \cup {id}
  BY DEF ChangeOutside
<1>2. UNCHANGED <<tree, graph, reading, offered, refused, calls, moved>> /\ id \in tree.tasks
  BY EngineAssumption DEF ChangeOutside, EngineInv, EngineShape
<1>3. /\ stored' \in TreeStatuses /\ \A j \in tree.tasks : j # id => stored'[j] = stored[j]
      /\ \A j : j \in outside' <=> j \in outside \/ j = id
  BY <1>1, <1>2 DEF EngineInv, EngineShape, TreeStatuses, Statuses
<1>4. EngineShape'
  BY <1>2, <1>3 DEF EngineInv, EngineShape, TreeStatuses, EngineCalls
<1>5. \A j \in tree.tasks : (MayRun(j) => MayRun(j)') /\ (Done(j) => Done(j)')
  BY RunStays, DoneStays DEF EngineNext
<1>6. CallersInv'
  <2> SUFFICES ASSUME NEW d \in Callers, calls[d] # NoCall, NEW j, j = calls[d].task
               PROVE  /\ MayRun(j)'
                      /\ calls[d].at \in {"storing", "working"} => stored'[j] # "closed" \/ j \in outside'
                      /\ calls[d].at = "stored" => stored'[j] = calls[d].status \/ j \in outside'
    BY <1>2 DEF CallersInv, MayRun, Done
  <2>1. j \in tree.tasks
    BY CallerFacts
  <2> QED BY <1>3, <1>5, <2>1 DEF EngineInv, CallersInv
<1>7. OfferedInv'
  <2> SUFFICES ASSUME NEW j \in offered PROVE MayRun(j)' /\ (Busy(j)' \/ stored'[j] # "closed" \/ j \in outside')
    BY <1>2 DEF OfferedInv
  <2>1. j \in tree.tasks /\ MayRun(j) /\ (Busy(j) \/ stored[j] # "closed" \/ j \in outside)
    BY DEF EngineInv, EngineShape, OfferedInv
  <2>2. Busy(j)' <=> Busy(j)
    BY <1>2 DEF Busy
  <2> QED BY <1>3, <1>5, <2>1, <2>2
<1>8. ReadingInv'
  <2>1. \A j : Busy(j)' <=> Busy(j)
    BY <1>2 DEF Busy
  <2> QED BY <1>2, <1>3, <1>5, <2>1 DEF EngineInv, ReadingInv, OnlyUnshared
<1>9. GraphFollowsTracker'
  BY <1>2, <1>3 DEF EngineInv, GraphFollowsTracker
<1> QED BY <1>4, <1>6, <1>7, <1>8, <1>9 DEF EngineInv

LEMMA EngineStep == EngineInv /\ [EngineNext]_engineVars => EngineInv'
<1> SUFFICES ASSUME EngineInv, [EngineNext]_engineVars PROVE EngineInv'
  OBVIOUS
<1>1. ASSUME NEW c \in Callers, StartTask(c) \/ Collect(c) \/ EndTask(c) \/ StoreStatus(c) \/ ShareStatus(c)
      PROVE  EngineInv'
  BY <1>1, StartKeeps, CollectKeeps, EndKeeps, StoreKeeps, ShareKeeps
<1>2. CASE RefreshGraph \/ NextTasks \/ ChangeOutside
  BY <1>2, RefreshKeeps, NextKeeps, OutsideKeeps
<1>3. CASE UNCHANGED engineVars
  <2>1. UNCHANGED <<tree, stored, graph, reading, offered, calls, outside, moved>>
    BY <1>3 DEF engineVars
  <2>2. EngineShape'
    BY <2>1 DEF EngineInv, EngineShape, TreeStatuses, EngineCalls
  <2>3. CallersInv' /\ OfferedInv' /\ ReadingInv' /\ GraphFollowsTracker'
    BY <2>1 DEF EngineInv, CallersInv, OfferedInv, ReadingInv, GraphFollowsTracker, OnlyUnshared, MayRun, Done, Busy
  <2> QED BY <2>2, <2>3 DEF EngineInv
<1> QED BY <1>1, <1>2, <1>3 DEF EngineNext

\* A task is worked on after what it depends on, and the graph loses no status that was shared, for
\* every tree, every number of callers and whatever others change in the tracker meanwhile
\* (NextTasks, refreshGraphLocked, SetTaskStatus).
THEOREM WorkIsOrdered == EngineSpec => []WorkFollowsGraph
<1>1. EngineInv => WorkFollowsGraph
  <2> SUFFICES ASSUME EngineInv PROVE WorksInOrder /\ GraphFollowsTracker
    BY DEF WorkFollowsGraph
  <2>1. \A c \in Callers : calls[c].at = "working" => MayRun(calls[c].task)
    BY CallerFacts DEF EngineInv, CallersInv
  <2> QED BY <2>1 DEF EngineInv, WorksInOrder, MayRun, Done
<1> QED BY <1>1, EngineStart, EngineStep, PTL DEF EngineSpec

\* The open tasks that could run, if each waited for another of them, would make a cycle.
LEMMA StuckTasksWait == ASSUME EngineInv PROVE StuckIsExplained
<1> SUFFICES ASSUME graph # NoGraph, Available(graph) = {}, ~IsComplete(graph),
                    \A id \in graph.tasks : graph.status[id] # "in_progress",
                    \A id \in graph.tasks : OpenLeaf(graph, id) =>
                       /\ id \notin graph.missing
                       /\ \A d \in graph.dependencies[id] :
                             /\ graph.status[d] \notin {"failed", "blocked"}
                             /\ ~(graph.status[d] = "open" /\ d \in graph.containers)
             PROVE  FALSE
  BY DEF StuckIsExplained
<1>1. /\ ~Circular(Dependencies(tree)) /\ graph.status \in [tree.tasks -> Statuses]
      /\ graph = BuildGraph(tree, graph.status)
  BY DEF EngineInv, EngineShape, TreeStatuses, Accepted, FindDependencyCycle
<1>2. /\ graph.tasks = tree.tasks /\ graph.dependencies = Dependencies(tree)
      /\ DOMAIN Dependencies(tree) = tree.tasks
      /\ \A id \in tree.tasks : Dependencies(tree)[id] \subseteq tree.tasks
  BY <1>1 DEF BuildGraph, Dependencies
<1>3. \A id \in tree.tasks : graph.status[id] \in {"open", "closed", "failed", "blocked"}
  BY <1>1, <1>2 DEF Statuses
<1>4. PICK S : S = {id \in tree.tasks : OpenLeaf(graph, id)}
  OBVIOUS
<1>5. S # {}
  BY <1>2, <1>3, <1>4 DEF IsComplete, Finished, OpenLeaf
<1>6. ASSUME NEW id \in S PROVE Dependencies(tree)[id] \cap S # {}
  <2>1. ~Satisfied(graph, id) /\ id \notin graph.missing
    BY <1>2, <1>4 DEF Available
  <2>2. PICK d \in Dependencies(tree)[id] : graph.status[d] # "closed"
    BY <1>2, <2>1 DEF Satisfied
  <2>3. d \in tree.tasks /\ graph.status[d] = "open" /\ d \notin graph.containers
    BY <1>2, <1>3, <1>4, <2>2
  <2> QED BY <1>4, <2>2, <2>3 DEF OpenLeaf
<1> QED BY <1>1, <1>2, <1>4, <1>5, <1>6 DEF Circular

\* The engine answers for no graph with a cycle, offers enough workers for all its tasks that may
\* start, and what it leaves undone waits for what failed, is blocked, unknown or nobody's to run, for
\* every tree and any number of goroutines (BuildGraph, CalculateConcurrency, GetNextAvailable).
THEOREM GraphsAreSound == SearchSpec /\ LevelsSpec /\ EngineSpec => []GraphIsSound
<1>1. LevelsSpec => []PoolCoversAvailable
  BY LevelsStart, LevelsStep, PoolIsWide, PTL DEF LevelsSpec
<1>2. EngineSpec => []StuckIsExplained
  BY EngineStart, EngineStep, StuckTasksWait, PTL DEF EngineSpec
<1>3. SearchIsRight /\ PoolCoversAvailable /\ StuckIsExplained => GraphIsSound
  BY DEF GraphIsSound
<1> QED BY <1>1, <1>2, <1>3, CyclesAreFound, PTL

-------------------------------------------------------------------------------
(* The score.                                                                      *)

LEMMA OneMore ==
  ASSUME NEW S, NEW x, NEW n, IsFiniteSet(S), Cardinality(S) = n, x \notin S
  PROVE  IsFiniteSet(S \cup {x}) /\ Cardinality(S \cup {x}) = n + 1
BY FS_AddElement

LEMMA SectionsCount == IsFiniteSet(Sections) /\ Cardinality(Sections) = 7
<1> DEFINE S1 == {"Title"}
           S2 == S1 \cup {"Description"}
           S3 == S2 \cup {"Acceptance Criteria"}
           S4 == S3 \cup {"Deliverables"}
           S5 == S4 \cup {"Testing Plan"}
           S6 == S5 \cup {"Definition of Done"}
           S7 == S6 \cup {"Dependencies/Context"}
<1>1. IsFiniteSet(S1) /\ Cardinality(S1) = 1
  BY FS_Singleton
<1>2. IsFiniteSet(S2) /\ Cardinality(S2) = 1 + 1
  <2>1. "Description" \notin S1
    OBVIOUS
  <2> HIDE DEF S1
  <2> QED BY <1>1, <2>1, OneMore
<1>3. IsFiniteSet(S3) /\ Cardinality(S3) = (1 + 1) + 1
  <2>1. "Acceptance Criteria" \notin S2
    OBVIOUS
  <2> HIDE DEF S2
  <2> QED BY <1>2, <2>1, OneMore
<1>4. IsFiniteSet(S4) /\ Cardinality(S4) = ((1 + 1) + 1) + 1
  <2>1. "Deliverables" \notin S3
    OBVIOUS
  <2> HIDE DEF S3
  <2> QED BY <1>3, <2>1, OneMore
<1>5. IsFiniteSet(S5) /\ Cardinality(S5) = (((1 + 1) + 1) + 1) + 1
  <2>1. "Testing Plan" \notin S4
    OBVIOUS
  <2> HIDE DEF S4
  <2> QED BY <1>4, <2>1, OneMore
<1>6. IsFiniteSet(S6) /\ Cardinality(S6) = ((((1 + 1) + 1) + 1) + 1) + 1
  <2>1. "Definition of Done" \notin S5
    OBVIOUS
  <2> HIDE DEF S5
  <2> QED BY <1>5, <2>1, OneMore
<1>7. IsFiniteSet(S7) /\ Cardinality(S7) = (((((1 + 1) + 1) + 1) + 1) + 1) + 1
  <2>1. "Dependencies/Context" \notin S6
    OBVIOUS
  <2> HIDE DEF S6
  <2> QED BY <1>6, <2>1, OneMore
<1>8. S7 = Sections
  BY DEF Sections
<1> HIDE DEF S7
<1> QED BY <1>7, <1>8

LEMMA ClaritySignsCount == IsFiniteSet(ClaritySigns) /\ Cardinality(ClaritySigns) = 7
<1> DEFINE S1 == {"plain"}
           S2 == S1 \cup {"long"}
           S3 == S2 \cup {"given"}
           S4 == S3 \cup {"scope"}
           S5 == S4 \cup {"deterministic"}
           S6 == S5 \cup {"depends"}
           S7 == S6 \cup {"test"}
<1>1. IsFiniteSet(S1) /\ Cardinality(S1) = 1
  BY FS_Singleton
<1>2. IsFiniteSet(S2) /\ Cardinality(S2) = 1 + 1
  <2>1. "long" \notin S1
    OBVIOUS
  <2> HIDE DEF S1
  <2> QED BY <1>1, <2>1, OneMore
<1>3. IsFiniteSet(S3) /\ Cardinality(S3) = (1 + 1) + 1
  <2>1. "given" \notin S2
    OBVIOUS
  <2> HIDE DEF S2
  <2> QED BY <1>2, <2>1, OneMore
<1>4. IsFiniteSet(S4) /\ Cardinality(S4) = ((1 + 1) + 1) + 1
  <2>1. "scope" \notin S3
    OBVIOUS
  <2> HIDE DEF S3
  <2> QED BY <1>3, <2>1, OneMore
<1>5. IsFiniteSet(S5) /\ Cardinality(S5) = (((1 + 1) + 1) + 1) + 1
  <2>1. "deterministic" \notin S4
    OBVIOUS
  <2> HIDE DEF S4
  <2> QED BY <1>4, <2>1, OneMore
<1>6. IsFiniteSet(S6) /\ Cardinality(S6) = ((((1 + 1) + 1) + 1) + 1) + 1
  <2>1. "depends" \notin S5
    OBVIOUS
  <2> HIDE DEF S5
  <2> QED BY <1>5, <2>1, OneMore
<1>7. IsFiniteSet(S7) /\ Cardinality(S7) = (((((1 + 1) + 1) + 1) + 1) + 1) + 1
  <2>1. "test" \notin S6
    OBVIOUS
  <2> HIDE DEF S6
  <2> QED BY <1>6, <2>1, OneMore
<1>8. S7 = ClaritySigns
  BY DEF ClaritySigns
<1> HIDE DEF S7
<1> QED BY <1>7, <1>8

\* The descriptions the analyzer is given.
Scored(d) ==
    /\ Description(d)
    /\ d.sections \subseteq Sections /\ d.signs \subseteq Signs
    /\ d.known \in Nat /\ d.unknown \in Nat

LEMMA FilledCount ==
  ASSUME NEW d, Scored(d)
  PROVE  /\ Filled(d) \in SUBSET Sections /\ IsFiniteSet(Filled(d))
         /\ Cardinality(Filled(d)) \in 0 .. 7 /\ RequiredFieldScore(d) \in 0 .. 23
<1>1. Filled(d) \in SUBSET Sections
  BY DEF Filled, Scored, Sections
<1>2. IsFiniteSet(Filled(d)) /\ Cardinality(Filled(d)) <= 7
  BY <1>1, SectionsCount, FS_Subset
<1>3. Cardinality(Filled(d)) \in Nat
  BY <1>2, FS_CardinalityType
<1> QED BY <1>1, <1>2, <1>3 DEF RequiredFieldScore

LEMMA SignsCount ==
  ASSUME NEW d, Scored(d)
  PROVE  /\ IsFiniteSet(d.signs \cap ClaritySigns)
         /\ Cardinality(d.signs \cap ClaritySigns) \in 0 .. 7 /\ ClarityScore(d) \in 0 .. 21
<1>1. (d.signs \cap ClaritySigns) \in SUBSET ClaritySigns
  OBVIOUS
<1>2. IsFiniteSet(d.signs \cap ClaritySigns) /\ Cardinality(d.signs \cap ClaritySigns) <= 7
  BY <1>1, ClaritySignsCount, FS_Subset
<1>3. Cardinality(d.signs \cap ClaritySigns) \in Nat
  BY <1>2, FS_CardinalityType
<1> QED BY <1>2, <1>3 DEF ClarityScore

\* A bonus for an exact count never makes up for the count that is lost.
LEMMA MoreSectionsPay ==
  ASSUME NEW d, NEW e, Scored(d), Scored(e), NEW s, Filled(e) = Filled(d) \cup {s}
  PROVE  RequiredFieldScore(e) >= RequiredFieldScore(d)
<1>1. /\ Cardinality(Filled(d)) \in 0 .. 7 /\ Cardinality(Filled(e)) \in 0 .. 7
      /\ Filled(d) \in SUBSET Sections /\ Filled(e) \in SUBSET Sections
  BY FilledCount
<1>2. Cardinality(Filled(e)) = IF s \in Filled(d) THEN Cardinality(Filled(d)) ELSE Cardinality(Filled(d)) + 1
  BY FilledCount, FS_AddElement
<1>3. Cardinality(Filled(e)) >= Cardinality(Filled(d))
  BY <1>1, <1>2
<1>4. Filled(d) = Sections => Filled(e) = Sections
  BY <1>1
<1> QED BY <1>1, <1>3, <1>4 DEF RequiredFieldScore

LEMMA MoreSignsPay ==
  ASSUME NEW d, NEW e, Scored(d), Scored(e), NEW s,
         e.signs \cap ClaritySigns = (d.signs \cap ClaritySigns) \cup {s}
  PROVE  ClarityScore(e) >= ClarityScore(d)
<1>1. /\ Cardinality(d.signs \cap ClaritySigns) \in 0 .. 7
      /\ Cardinality(e.signs \cap ClaritySigns) \in 0 .. 7
  BY SignsCount
<1>2. Cardinality(e.signs \cap ClaritySigns) =
        IF s \in d.signs \cap ClaritySigns THEN Cardinality(d.signs \cap ClaritySigns)
        ELSE Cardinality(d.signs \cap ClaritySigns) + 1
  BY SignsCount, FS_AddElement
<1> QED BY <1>1, <1>2 DEF ClarityScore

\* The parts of the score, each of which is a number.
LEMMA ScoreParts ==
  ASSUME NEW d, Scored(d)
  PROVE  /\ RequiredFieldScore(d) \in Int /\ ClarityScore(d) \in Int
         /\ AcceptanceCoverageScore(d) \in {0, 10, 20} /\ ValidationRigorScore(d) \in {0, 10, 20}
<1>1. RequiredFieldScore(d) \in 0 .. 23 /\ ClarityScore(d) \in 0 .. 21
  BY FilledCount, SignsCount, Zenon
<1> QED BY <1>1 DEF AcceptanceCoverageScore, ValidationRigorScore

LEMMA SumIsMonotone ==
  ASSUME NEW d, NEW e, Scored(d), Scored(e),
         RequiredFieldScore(e) >= RequiredFieldScore(d), ClarityScore(e) >= ClarityScore(d),
         d.sections \subseteq e.sections, d.signs \subseteq e.signs
  PROVE  AssessTaskQuality(e) >= AssessTaskQuality(d)
<1>1. AcceptanceCoverageScore(e) >= AcceptanceCoverageScore(d)
  <2>1. "Acceptance Criteria" \in d.sections => "Acceptance Criteria" \in e.sections
    OBVIOUS
  <2>2. "given" \in d.signs => "given" \in e.signs
    OBVIOUS
  <2>3. AcceptanceCoverageScore(d) \in {0, 10, 20} /\ AcceptanceCoverageScore(e) \in {0, 10, 20}
    BY ScoreParts, Zenon
  <2>4. CASE "Acceptance Criteria" \notin d.sections
    <3>1. AcceptanceCoverageScore(d) = 0
      BY <2>4 DEF AcceptanceCoverageScore
    <3> QED BY <2>3, <3>1
  <2>5. CASE "Acceptance Criteria" \in d.sections /\ "given" \notin d.signs
    <3>1. AcceptanceCoverageScore(d) = 10
      BY <2>5 DEF AcceptanceCoverageScore
    <3>2. AcceptanceCoverageScore(e) = 10 \/ AcceptanceCoverageScore(e) = 20
      <4>1. CASE "given" \in e.signs
        BY <2>1, <2>5, <4>1 DEF AcceptanceCoverageScore
      <4>2. CASE "given" \notin e.signs
        BY <2>1, <2>5, <4>2 DEF AcceptanceCoverageScore
      <4> QED BY <4>1, <4>2
    <3> QED BY <3>1, <3>2
  <2>6. CASE "Acceptance Criteria" \in d.sections /\ "given" \in d.signs
    <3>1. AcceptanceCoverageScore(d) = 20 /\ AcceptanceCoverageScore(e) = 20
      BY <2>1, <2>2, <2>6 DEF AcceptanceCoverageScore
    <3> QED BY <3>1
  <2> QED BY <2>4, <2>5, <2>6
<1>2. ValidationRigorScore(e) >= ValidationRigorScore(d)
  <2>1. "Testing Plan" \in d.sections => "Testing Plan" \in e.sections
    OBVIOUS
  <2>2. "command" \in d.signs => "command" \in e.signs
    OBVIOUS
  <2>3. ValidationRigorScore(d) \in {0, 10, 20} /\ ValidationRigorScore(e) \in {0, 10, 20}
    BY ScoreParts, Zenon
  <2>4. CASE "Testing Plan" \notin d.sections
    <3>1. ValidationRigorScore(d) = 0
      BY <2>4 DEF ValidationRigorScore
    <3> QED BY <2>3, <3>1
  <2>5. CASE "Testing Plan" \in d.sections /\ "command" \notin d.signs
    <3>1. ValidationRigorScore(d) = 10
      BY <2>5 DEF ValidationRigorScore
    <3>2. ValidationRigorScore(e) = 10 \/ ValidationRigorScore(e) = 20
      <4>1. CASE "command" \in e.signs
        BY <2>1, <2>5, <4>1 DEF ValidationRigorScore
      <4>2. CASE "command" \notin e.signs
        BY <2>1, <2>5, <4>2 DEF ValidationRigorScore
      <4> QED BY <4>1, <4>2
    <3> QED BY <3>1, <3>2
  <2>6. CASE "Testing Plan" \in d.sections /\ "command" \in d.signs
    <3>1. ValidationRigorScore(d) = 20 /\ ValidationRigorScore(e) = 20
      BY <2>1, <2>2, <2>6 DEF ValidationRigorScore
    <3> QED BY <3>1
  <2> QED BY <2>4, <2>5, <2>6
<1>3. (IF "risks" \in e.signs THEN 20 ELSE 0) >= (IF "risks" \in d.signs THEN 20 ELSE 0)
  OBVIOUS
<1> DEFINE risks(x) == IF "risks" \in x.signs THEN 20 ELSE 0
           sum(x) == RequiredFieldScore(x) + ClarityScore(x) + AcceptanceCoverageScore(x)
                       + ValidationRigorScore(x) + risks(x)
<1>4. /\ AcceptanceCoverageScore(d) \in Int /\ AcceptanceCoverageScore(e) \in Int
      /\ ValidationRigorScore(d) \in Int /\ ValidationRigorScore(e) \in Int
      /\ RequiredFieldScore(d) \in Int /\ RequiredFieldScore(e) \in Int
      /\ ClarityScore(d) \in Int /\ ClarityScore(e) \in Int
      /\ risks(d) \in Int /\ risks(e) \in Int
  BY ScoreParts
<1>5. sum(e) >= sum(d) /\ sum(e) \in Int /\ sum(d) \in Int
  <2> HIDE DEF risks
  <2>1. risks(e) >= risks(d)
    BY <1>3 DEF risks
  <2> QED BY <1>1, <1>2, <1>4, <2>1
<1>6. /\ AssessTaskQuality(d) = IF sum(d) > 100 THEN 100 ELSE sum(d)
      /\ AssessTaskQuality(e) = IF sum(e) > 100 THEN 100 ELSE sum(e)
  BY DEF AssessTaskQuality
<1> HIDE DEF sum
<1> QED BY <1>5, <1>6

LEMMA ScoresAreMonotone ==
  ASSUME Scored(described)
  PROVE  ScoreIsMonotone
<1>1. ASSUME NEW s \in Sections
      PROVE  AssessTaskQuality([described EXCEPT !.sections = @ \cup {s}]) >= AssessTaskQuality(described)
  <2> DEFINE e == [described EXCEPT !.sections = @ \cup {s}]
  <2>1. /\ DOMAIN e = DOMAIN described /\ e.sections = described.sections \cup {s}
        /\ e.signs = described.signs /\ e.known = described.known /\ e.unknown = described.unknown
    BY DEF Scored, Description
  <2> HIDE DEF e
  <2>2. Scored(e)
    BY <2>1 DEF Scored, Description
  <2>3. Filled(e) = Filled(described) \cup {s}
    BY <2>1 DEF Filled
  <2>4. RequiredFieldScore(e) >= RequiredFieldScore(described)
    BY <2>2, <2>3, MoreSectionsPay
  <2>5. ClarityScore(e) = ClarityScore(described) /\ ClarityScore(described) \in Int
    BY <2>1, ScoreParts DEF ClarityScore
  <2>6. ClarityScore(e) >= ClarityScore(described)
    BY <2>5
  <2>7. described.sections \subseteq e.sections /\ described.signs \subseteq e.signs
    BY <2>1
  <2>8. AssessTaskQuality(e) >= AssessTaskQuality(described)
    BY <2>2, <2>4, <2>6, <2>7, SumIsMonotone
  <2> QED BY <2>8 DEF e
<1>2. ASSUME NEW s \in Signs
      PROVE  AssessTaskQuality([described EXCEPT !.signs = @ \cup {s}]) >= AssessTaskQuality(described)
  <2> DEFINE e == [described EXCEPT !.signs = @ \cup {s}]
  <2>1. /\ DOMAIN e = DOMAIN described /\ e.signs = described.signs \cup {s}
        /\ e.sections = described.sections /\ e.known = described.known
        /\ e.unknown = described.unknown
    BY DEF Scored, Description
  <2> HIDE DEF e
  <2>2. Scored(e)
    BY <2>1 DEF Scored, Description
  <2>3. RequiredFieldScore(e) = RequiredFieldScore(described) /\ RequiredFieldScore(described) \in Int
    <3>1. Filled(e) = Filled(described)
      BY <2>1 DEF Filled
    <3> QED BY <3>1, ScoreParts DEF RequiredFieldScore
  <2>4. RequiredFieldScore(e) >= RequiredFieldScore(described)
    BY <2>3
  <2>5. ClarityScore(e) >= ClarityScore(described)
    <3>1. CASE s \in ClaritySigns
      <4>1. e.signs \cap ClaritySigns = (described.signs \cap ClaritySigns) \cup {s}
        BY <2>1, <3>1
      <4> QED BY <2>2, <4>1, MoreSignsPay
    <3>2. CASE s \notin ClaritySigns
      <4>1. e.signs \cap ClaritySigns = described.signs \cap ClaritySigns
        BY <2>1, <3>2
      <4>2. ClarityScore(e) = ClarityScore(described) /\ ClarityScore(described) \in Int
        BY <4>1, ScoreParts DEF ClarityScore
      <4> QED BY <4>2
    <3> QED BY <3>1, <3>2
  <2>6. described.sections \subseteq e.sections /\ described.signs \subseteq e.signs
    BY <2>1
  <2>7. AssessTaskQuality(e) >= AssessTaskQuality(described)
    BY <2>2, <2>4, <2>5, <2>6, SumIsMonotone
  <2> QED BY <2>7 DEF e
<1> QED BY <1>1, <1>2 DEF ScoreIsMonotone

\* A description that says everything has the highest score.
LEMMA CompleteScore ==
  ASSUME NEW d, Scored(d), Filled(d) = Sections, d.signs = Signs
  PROVE  AssessTaskQuality(d) = 100
<1>1. RequiredFieldScore(d) = 23
  BY SectionsCount DEF RequiredFieldScore
<1>2. d.signs \cap ClaritySigns = ClaritySigns
  BY DEF Signs
<1>3. ClarityScore(d) = 21
  <2>1. Cardinality(d.signs \cap ClaritySigns) = 7
    BY <1>2, ClaritySignsCount
  <2> QED BY <2>1 DEF ClarityScore
<1>4. "Acceptance Criteria" \in d.sections /\ "Testing Plan" \in d.sections
  <2>1. Sections \subseteq d.sections \cup {"Dependencies/Context"}
    BY DEF Filled
  <2>2. "Acceptance Criteria" \in Sections /\ "Testing Plan" \in Sections
    BY DEF Sections
  <2> QED BY <2>1, <2>2
<1>5. AcceptanceCoverageScore(d) = 20
  BY <1>4 DEF AcceptanceCoverageScore, Signs, ClaritySigns
<1>6. ValidationRigorScore(d) = 20
  BY <1>4 DEF ValidationRigorScore, Signs
<1>7. "risks" \in d.signs
  BY DEF Signs
<1> QED BY <1>1, <1>3, <1>5, <1>6, <1>7 DEF AssessTaskQuality

-------------------------------------------------------------------------------
(* The way through the checks.                                                     *)

TaskInv ==
    /\ Scored(described) /\ options.threshold \in Int
    /\ lookups \in [known : Nat, unknown : Nat]
    /\ missed \in Nat /\ hiccups \in Nat
    /\ tries \in [review : Nat, completion : Nat]
    /\ failures \in [review : Nat, completion : Nat]

\* What is missed was not there, or its lookup failed.
MissedInv == missed + lookups.unknown <= hiccups + described.unknown

\* What is on its way to the main branch has passed what comes before.
PassedInv ==
    /\ stand \in {"qc", "landing"} /\ options.review => "review" \in passed
    /\ stand = "landing" => options.qc \subseteq passed
    /\ ClosedIsChecked

\* The kind of the failure that is to be decided on, which no retry was used for yet.
Kind == IF rejected \/ IsReviewReason(failure.reason) THEN "review" ELSE "completion"
OwnInv == RetriesAreOwn /\ (stand = "decide" => tries[Kind] < failures[Kind])

GatesInv == TaskInv /\ MissedInv /\ PassedInv /\ FallbackIsEarned /\ OwnInv

LEMMA GatesStart == GatesInit => GatesInv
<1> SUFFICES ASSUME GatesInit PROVE GatesInv
  OBVIOUS
<1>1. TaskInv
  <2>1. Scored(described)
    BY GatesAssumption DEF GatesInit, Scored
  <2>2. options.threshold \in Int
    BY GatesAssumption DEF GatesInit
  <2>3. described.known \in Nat /\ described.unknown \in Nat
    BY <2>1 DEF Scored
  <2> QED BY <2>1, <2>2, <2>3 DEF TaskInv, GatesInit
<1>2. MissedInv
  BY <1>1 DEF MissedInv, TaskInv, Scored, GatesInit
<1>3. PassedInv /\ FallbackIsEarned /\ OwnInv
  BY DEF PassedInv, ClosedIsChecked, FallbackIsEarned, OwnInv, RetriesAreOwn, GatesInit
<1> QED BY <1>1, <1>2, <1>3 DEF GatesInv

\* What a step that touches neither the task nor the counters leaves as it is.
LEMMA TaskKept ==
  ASSUME TaskInv, MissedInv, UNCHANGED <<options, described, lookups, missed, hiccups>>,
         tries' \in [review : Nat, completion : Nat], failures' \in [review : Nat, completion : Nat]
  PROVE  TaskInv' /\ MissedInv'
BY DEF TaskInv, MissedInv, Scored, Description

\* Looking up counts what is missed with what failed, or with what does not exist.
LEMMA LookUpKeeps == ASSUME GatesInv, LookUp PROVE GatesInv'
<1>1. TaskInv /\ MissedInv /\ PassedInv /\ FallbackIsEarned /\ OwnInv
  BY DEF GatesInv
<1>2. /\ stand = "quality" /\ stand' = stand /\ UNCHANGED <<options, described>>
      /\ UNCHANGED <<using, tries, failure, rejected, passed, failures, excused>>
  BY DEF LookUp, Static, BeforeRuns
<1>3. /\ lookups \in [known : Nat, unknown : Nat] /\ missed \in Nat /\ hiccups \in Nat
      /\ described.unknown \in Nat
  BY <1>1 DEF TaskInv, Scored
<1>4. /\ lookups' \in [known : Nat, unknown : Nat] /\ missed' \in Nat /\ hiccups' \in Nat
      /\ missed' + lookups'.unknown <= hiccups' + described.unknown
  <2>1. missed + lookups.unknown <= hiccups + described.unknown
    BY <1>1 DEF MissedInv
  <2>2. CASE lookups.known > 0 /\ lookups' = [lookups EXCEPT !.known = @ - 1] /\ UNCHANGED <<missed, hiccups>>
    BY <1>3, <2>1, <2>2
  <2>3. CASE /\ lookups.known > 0 /\ lookups' = [lookups EXCEPT !.known = @ - 1]
             /\ missed' = missed + 1 /\ hiccups' = hiccups + 1
    BY <1>3, <2>1, <2>3
  <2>4. CASE /\ lookups.unknown > 0 /\ lookups' = [lookups EXCEPT !.unknown = @ - 1]
             /\ missed' = missed + 1 /\ UNCHANGED hiccups
    BY <1>3, <2>1, <2>4
  <2> QED BY <2>2, <2>3, <2>4 DEF LookUp
<1>5. TaskInv'
  BY <1>1, <1>2, <1>4 DEF TaskInv, Scored, Description
<1>6. MissedInv'
  BY <1>2, <1>4 DEF MissedInv
<1>7. PassedInv' /\ FallbackIsEarned' /\ OwnInv'
  BY <1>1, <1>2 DEF PassedInv, ClosedIsChecked, FallbackIsEarned, OwnInv, RetriesAreOwn, Kind, IsReviewReason
<1> QED BY <1>5, <1>6, <1>7 DEF GatesInv

\* The two gates before the runs.
LEMMA GatesKeep == ASSUME GatesInv, QualityGate \/ TddGate PROVE GatesInv'
<1>1. TaskInv /\ MissedInv /\ PassedInv /\ FallbackIsEarned /\ OwnInv
  BY DEF GatesInv
<1>2. /\ stand' \in {"tdd", "blocked", "implement", "error"}
      /\ UNCHANGED <<options, described, lookups, missed, hiccups>>
      /\ UNCHANGED <<using, tries, failure, rejected, passed, failures, excused>>
  BY DEF QualityGate, TddGate, Static, AfterGates, BeforeRuns
<1>3. TaskInv' /\ MissedInv'
  BY <1>1, <1>2, TaskKept DEF TaskInv
<1>4. PassedInv' /\ FallbackIsEarned' /\ OwnInv'
  BY <1>1, <1>2 DEF PassedInv, ClosedIsChecked, FallbackIsEarned, OwnInv, RetriesAreOwn
<1> QED BY <1>3, <1>4 DEF GatesInv

\* A failure is counted with its kind, and there is one more than the retries of that kind.
LEMMA FailureCounted ==
  ASSUME TaskInv, RetriesAreOwn, tries' = tries,
         NEW k \in {"review", "completion"}, failures' = [failures EXCEPT ![k] = @ + 1]
  PROVE  /\ failures' \in [review : Nat, completion : Nat]
         /\ RetriesAreOwn' /\ tries'[k] < failures'[k]
<1>1. /\ tries \in [review : Nat, completion : Nat] /\ failures \in [review : Nat, completion : Nat]
      /\ tries.review <= failures.review /\ tries.completion <= failures.completion
  BY DEF TaskInv, RetriesAreOwn
<1>2. CASE k = "review"
  <2>1. /\ failures'.review = failures.review + 1 /\ failures'.completion = failures.completion
        /\ failures' \in [review : Nat, completion : Nat]
    BY <1>1, <1>2
  <2> QED BY <1>1, <1>2, <2>1 DEF RetriesAreOwn
<1>3. CASE k = "completion"
  <2>1. /\ failures'.review = failures.review /\ failures'.completion = failures.completion + 1
        /\ failures' \in [review : Nat, completion : Nat]
    BY <1>1, <1>3
  <2> QED BY <1>1, <1>3, <2>1 DEF RetriesAreOwn
<1> QED BY <1>2, <1>3

\* An implementation starts with nothing passed.
LEMMA ImplementKeeps == ASSUME GatesInv, Implement PROVE GatesInv'
<1>1. TaskInv /\ MissedInv /\ FallbackIsEarned /\ OwnInv
  BY DEF GatesInv
<1>2. /\ UNCHANGED <<options, described, lookups, missed, hiccups>>
      /\ UNCHANGED <<using, tries, excused>> /\ rejected' = FALSE /\ passed' = {}
      /\ stand' \in {"review", "qc", "blocked", "decide"}
      /\ stand' = "qc" => ~options.review
  BY DEF Implement, AfterGates, Static
<1>3. /\ failures' \in [review : Nat, completion : Nat] /\ OwnInv'
  <2>1. CASE UNCHANGED failures /\ stand' # "decide"
    BY <1>1, <1>2, <2>1 DEF TaskInv, OwnInv, RetriesAreOwn
  <2>2. CASE \E r \in Reasons :
               /\ stand' = "decide" /\ failure' = [of |-> "implementation", reason |-> r]
               /\ failures' = IF IsReviewReason(r) THEN [failures EXCEPT !.review = @ + 1]
                              ELSE [failures EXCEPT !.completion = @ + 1]
    <3>1. PICK r \in Reasons :
               /\ failure' = [of |-> "implementation", reason |-> r]
               /\ failures' = IF IsReviewReason(r) THEN [failures EXCEPT !.review = @ + 1]
                              ELSE [failures EXCEPT !.completion = @ + 1]
      BY <2>2
    <3> DEFINE k == IF IsReviewReason(r) THEN "review" ELSE "completion"
    <3>2. k \in {"review", "completion"} /\ failures' = [failures EXCEPT ![k] = @ + 1]
      BY <3>1
    <3>3. Kind' = k
      BY <1>2, <3>1 DEF Kind, IsReviewReason
    <3> HIDE DEF k
    <3>4. /\ failures' \in [review : Nat, completion : Nat]
          /\ RetriesAreOwn' /\ tries'[k] < failures'[k]
      BY <1>1, <1>2, <3>2, FailureCounted DEF OwnInv
    <3> QED BY <3>3, <3>4 DEF OwnInv
  <2> QED BY <2>1, <2>2 DEF Implement
<1>4. TaskInv' /\ MissedInv'
  BY <1>1, <1>2, <1>3, TaskKept DEF TaskInv
<1>5. PassedInv' /\ FallbackIsEarned'
  BY <1>1, <1>2 DEF PassedInv, ClosedIsChecked, FallbackIsEarned
<1> QED BY <1>3, <1>4, <1>5 DEF GatesInv

\* A review goes on to the tools only when it has passed.
LEMMA ReviewKeeps == ASSUME GatesInv, Review PROVE GatesInv'
<1>1. TaskInv /\ MissedInv /\ FallbackIsEarned /\ OwnInv
  BY DEF GatesInv
<1>2. /\ UNCHANGED <<options, described, lookups, missed, hiccups>> /\ UNCHANGED <<using, tries, excused>>
      /\ stand' \in {"qc", "verdict", "blocked", "decide"}
      /\ stand' = "qc" => "review" \in passed'
  BY DEF Review, AfterGates, Static
<1>3. /\ failures' \in [review : Nat, completion : Nat] /\ OwnInv'
  <2>1. CASE UNCHANGED failures /\ stand' # "decide"
    BY <1>1, <1>2, <2>1 DEF TaskInv, OwnInv, RetriesAreOwn
  <2>2. CASE rejected' = TRUE /\ failures' = [failures EXCEPT !.review = @ + 1]
    <3>1. failures' \in [review : Nat, completion : Nat] /\ RetriesAreOwn'
          /\ tries'["review"] < failures'["review"]
      BY <1>1, <1>2, <2>2, FailureCounted DEF OwnInv
    <3>2. Kind' = "review"
      BY <2>2 DEF Kind
    <3> QED BY <3>1, <3>2 DEF OwnInv
  <2> QED BY <2>1, <2>2 DEF Review
<1>4. TaskInv' /\ MissedInv'
  BY <1>1, <1>2, <1>3, TaskKept DEF TaskInv
<1>5. PassedInv' /\ FallbackIsEarned'
  BY <1>1, <1>2 DEF PassedInv, ClosedIsChecked, FallbackIsEarned
<1> QED BY <1>3, <1>4, <1>5 DEF GatesInv

\* The tools add to what has passed; landing takes it, or changes the work.
LEMMA LandingKeeps == ASSUME GatesInv, QCGate \/ Land PROVE GatesInv'
<1>1. TaskInv /\ MissedInv /\ PassedInv /\ FallbackIsEarned /\ OwnInv
  BY DEF GatesInv
<1>2. /\ UNCHANGED <<options, described, lookups, missed, hiccups>>
      /\ UNCHANGED <<using, tries, failure, rejected, failures, excused>>
      /\ stand' \in {"error", "blocked", "landing", "closed"}
  BY DEF QCGate, Land, AfterGates, Static
<1>3. TaskInv' /\ MissedInv'
  BY <1>1, <1>2, TaskKept DEF TaskInv
<1>4. FallbackIsEarned' /\ OwnInv'
  BY <1>1, <1>2 DEF FallbackIsEarned, OwnInv, RetriesAreOwn
<1>5. PassedInv'
  <2>1. CASE QCGate
    <3>1. stand = "qc" /\ stand' # "closed"
      BY <2>1 DEF QCGate
    <3>2. stand' = "landing" => passed' = passed \cup options.qc
      BY <2>1 DEF QCGate
    <3> QED BY <1>1, <1>2, <3>1, <3>2 DEF PassedInv, ClosedIsChecked
  <2>2. CASE Land
    <3>1. stand = "landing" /\ stand' \in {"blocked", "closed"}
      BY <2>2 DEF Land
    <3>2. passed' = passed \/ passed' = {"remediation"}
      BY <2>2 DEF Land
    <3> QED BY <1>1, <1>2, <3>1, <3>2 DEF PassedInv, ClosedIsChecked
  <2> QED BY <2>1, <2>2
<1> QED BY <1>3, <1>4, <1>5 DEF GatesInv

\* The other model is taken for a failure of the tools, a retry for a failure of its kind.
LEMMA DecideKeeps == ASSUME GatesInv, Decide PROVE GatesInv'
<1>1. TaskInv /\ MissedInv /\ FallbackIsEarned /\ OwnInv
  BY DEF GatesInv
<1>2. /\ UNCHANGED <<options, described, lookups, missed, hiccups>>
      /\ UNCHANGED <<failure, rejected, passed, failures>>
      /\ stand = "decide" /\ stand' \in {"implement", "failed", "blocked"}
  BY DEF Decide, AfterGates, Static
<1>3. FallbackIsEarned'
  BY <1>1 DEF FallbackIsEarned, Decide, FallsBack, Recoverable
<1>4. tries' = tries \/ tries' = [tries EXCEPT ![Kind] = @ + 1]
  BY DEF Decide, Kind
<1>5. Kind \in {"review", "completion"} /\ tries[Kind] < failures[Kind] /\ RetriesAreOwn
  BY <1>1, <1>2 DEF Kind, OwnInv
<1>6. /\ tries \in [review : Nat, completion : Nat] /\ failures \in [review : Nat, completion : Nat]
      /\ tries.review <= failures.review /\ tries.completion <= failures.completion
  BY <1>1, <1>5 DEF TaskInv, RetriesAreOwn
<1>7. /\ tries' \in [review : Nat, completion : Nat]
      /\ tries'.review <= failures.review /\ tries'.completion <= failures.completion
  <2>1. CASE tries' = tries
    BY <1>6, <2>1
  <2>2. CASE tries' = [tries EXCEPT ![Kind] = @ + 1] /\ Kind = "review"
    BY <1>5, <1>6, <2>2
  <2>3. CASE tries' = [tries EXCEPT ![Kind] = @ + 1] /\ Kind = "completion"
    BY <1>5, <1>6, <2>3
  <2> QED BY <1>4, <1>5, <2>1, <2>2, <2>3
<1>8. TaskInv' /\ MissedInv'
  BY <1>1, <1>2, <1>6, <1>7, TaskKept
<1>9. OwnInv'
  BY <1>2, <1>7 DEF OwnInv, RetriesAreOwn
<1>10. PassedInv'
  BY <1>2 DEF PassedInv, ClosedIsChecked
<1> QED BY <1>3, <1>8, <1>9, <1>10 DEF GatesInv

LEMMA GatesStutter == ASSUME GatesInv, UNCHANGED gateVars PROVE GatesInv'
<1>1. /\ UNCHANGED <<options, described, stand, lookups, missed, using, tries>>
      /\ UNCHANGED <<failure, rejected, passed, failures, hiccups, excused>>
  BY DEF gateVars
<1>2. TaskInv' /\ MissedInv'
  BY <1>1, TaskKept DEF GatesInv, TaskInv
<1>3. PassedInv' /\ FallbackIsEarned' /\ OwnInv'
  BY <1>1 DEF GatesInv, PassedInv, ClosedIsChecked, FallbackIsEarned, OwnInv, RetriesAreOwn, Kind, IsReviewReason
<1> QED BY <1>2, <1>3 DEF GatesInv

LEMMA GatesInvIsInductive == GatesInv /\ [GatesNext]_gateVars => GatesInv'
BY LookUpKeeps, GatesKeep, ImplementKeeps, ReviewKeeps, LandingKeeps, DecideKeeps, GatesStutter
   DEF GatesNext

\* Nothing was missed that was there, so the score is what the description says.
LEMMA ReadyPasses == ASSUME GatesInv PROVE ReadyIsNotBlocked
<1> SUFFICES ASSUME options.quality = {"task_validator", "dependency_checker"},
                    options.threshold <= 100, Filled(described) = Sections,
                    described.signs = Signs, described.unknown = 0,
                    QualityScore < Threshold
             PROVE  hiccups > 0
  BY DEF ReadyIsNotBlocked
<1>1. /\ Scored(described) /\ options.threshold \in Int
      /\ missed \in Nat /\ hiccups \in Nat /\ lookups.unknown \in Nat
      /\ missed + lookups.unknown <= hiccups + described.unknown
  BY DEF GatesInv, TaskInv, MissedInv
<1>2. AssessTaskQuality(described) = 100
  BY <1>1, CompleteScore
<1>3. QualityScore = IF 100 - 20 * missed < 0 THEN 0 ELSE 100 - 20 * missed
  <2>1. options.quality # {} /\ Uses("task_validator")
    BY DEF Uses
  <2> QED BY <1>2, <2>1 DEF QualityScore
<1>4. Threshold <= 100
  BY <1>1 DEF Threshold
<1>5. Threshold \in Int
  BY <1>1 DEF Threshold
<1>6. missed # 0
  BY <1>3, <1>4, <1>5
<1> QED BY <1>1, <1>6

\* No task gets past its checks unchecked and none is held back by saying more, for every set of
\* options, every description and every number of dependencies and retries; a model is changed only
\* for a failure of the tools, and a retry is used only by a failure of its kind (runQualityGate,
\* runQCGate, runTask).
THEOREM TasksAreGated == GatesSpec => []GatesHold
<1>1. GatesInv => GatesHold
  <2> SUFFICES ASSUME GatesInv PROVE GatesHold
    OBVIOUS
  <2>1. ScoreIsMonotone
    BY ScoresAreMonotone DEF GatesInv, TaskInv
  <2>2. ReadyIsNotBlocked
    BY ReadyPasses
  <2> QED BY <2>1, <2>2 DEF GatesHold, GatesInv, PassedInv, OwnInv
<1> QED BY <1>1, GatesStart, GatesInvIsInductive, PTL DEF GatesSpec

-------------------------------------------------------------------------------
(* All parts beside each other.                                                    *)

\* What GitHub's tracker and the engine count beside their invariants.
TallyInv  == tally \in [calls : 0 .. MaxCalls, upsets : 0 .. MaxUpsets]
ExtrasInv == refused \in BOOLEAN /\ outside \subseteq OthersSet /\ moved \subseteq tree.tasks

\* A dependency that was looked up is missed once at most, and a retry is within its limit.
GatesFit ==
    /\ options \in GateOptions /\ described \in Descriptions
    /\ stand \in {"quality", "tdd", "implement", "review", "verdict", "qc", "landing", "decide",
                  "closed", "blocked", "failed", "error"}
    /\ lookups \in [known : 0 .. described.known, unknown : 0 .. described.unknown]
    /\ missed \in Nat
    /\ missed + lookups.known + lookups.unknown <= described.known + described.unknown
    /\ tries \in [review : 0 .. MaxTaskRetries, completion : 0 .. MaxTaskRetries]

LEMMA TallyStep ==
  /\ GitHubInit => TallyInv
  /\ TallyInv /\ [GitHubNext]_githubVars => TallyInv'
<1>1. GitHubInit => TallyInv
  BY GitHubAssumption DEF GitHubInit, TallyInv
<1>2. TallyInv /\ [GitHubNext]_githubVars => TallyInv'
  <2> SUFFICES ASSUME TallyInv, [GitHubNext]_githubVars PROVE TallyInv'
    OBVIOUS
  <2>1. ASSUME NEW w \in Reporters, CallStatus(w) \/ CallData(w) PROVE TallyInv'
    BY <2>1, GitHubAssumption DEF CallStatus, CallData, TallyInv
  <2>2. ASSUME NEW w \in Reporters, SendRequest(w) \/ LoadFile(w) \/ StartSave(w) \/ EndSave(w) PROVE TallyInv'
    BY <2>2 DEF SendRequest, LoadFile, StartSave, EndSave, TallyInv
  <2>3. CASE EndProcess \/ CloseOutside
    BY <2>3, GitHubAssumption DEF EndProcess, CloseOutside, TallyInv
  <2>4. CASE ListIssues \/ ReadTask \/ UseTree \/ UNCHANGED githubVars
    BY <2>4 DEF ListIssues, ReadTask, UseTree, githubVars, TallyInv
  <2> QED BY <2>1, <2>2, <2>3, <2>4 DEF GitHubNext
<1> QED BY <1>1, <1>2

LEMMA ExtrasStep ==
  /\ EngineInit => ExtrasInv
  /\ EngineInv /\ ExtrasInv /\ [EngineNext]_engineVars => ExtrasInv'
<1>1. EngineInit => ExtrasInv
  BY DEF EngineInit, ExtrasInv
<1>2. EngineInv /\ ExtrasInv /\ [EngineNext]_engineVars => ExtrasInv'
  <2> SUFFICES ASSUME EngineInv, ExtrasInv, [EngineNext]_engineVars PROVE ExtrasInv'
    OBVIOUS
  <2>1. ASSUME NEW c \in Callers, StartTask(c) \/ Collect(c) \/ EndTask(c) PROVE ExtrasInv'
    BY <2>1 DEF StartTask, Collect, EndTask, ExtrasInv
  <2>2. ASSUME NEW c \in Callers, StoreStatus(c) \/ ShareStatus(c) PROVE ExtrasInv'
    <3>1. calls[c].task \in tree.tasks
      BY <2>2, CallerFacts DEF StoreStatus, ShareStatus
    <3> QED BY <2>2, <3>1 DEF StoreStatus, ShareStatus, ExtrasInv
  <2>3. CASE RefreshGraph \/ NextTasks \/ ChangeOutside \/ UNCHANGED engineVars
    BY <2>3 DEF RefreshGraph, NextTasks, ChangeOutside, engineVars, ExtrasInv
  <2> QED BY <2>1, <2>2, <2>3 DEF EngineNext
<1> QED BY <1>1, <1>2

LEMMA GatesFitStep ==
  /\ GatesInit => GatesFit
  /\ GatesFit /\ [GatesNext]_gateVars => GatesFit'
<1>1. GatesInit => GatesFit
  BY GatesAssumption DEF GatesInit, GatesFit
<1>2. GatesFit /\ [GatesNext]_gateVars => GatesFit'
  <2> SUFFICES ASSUME GatesFit, [GatesNext]_gateVars PROVE GatesFit'
    OBVIOUS
  <2>0. described.known \in Nat /\ described.unknown \in Nat /\ MaxTaskRetries \in Nat
    BY GatesAssumption DEF GatesFit
  <2>1. CASE LookUp
    <3>1. UNCHANGED <<options, described, stand, tries>>
      BY <2>1 DEF LookUp, Static, BeforeRuns
    <3>2. PICK n \in {"known", "unknown"} :
            /\ lookups[n] > 0 /\ lookups' = [lookups EXCEPT ![n] = @ - 1]
            /\ missed' = missed \/ missed' = missed + 1
      BY <2>1 DEF LookUp
    <3>3. CASE n = "known"
      BY <2>0, <3>1, <3>2, <3>3 DEF GatesFit
    <3>4. CASE n = "unknown"
      BY <2>0, <3>1, <3>2, <3>4 DEF GatesFit
    <3> QED BY <3>3, <3>4
  <2>2. CASE QualityGate \/ TddGate
    BY <2>2 DEF QualityGate, TddGate, Static, BeforeRuns, AfterGates, GatesFit
  <2>3. CASE Implement \/ Review \/ QCGate \/ Land
    BY <2>3 DEF Implement, Review, QCGate, Land, Static, AfterGates, GatesFit
  <2>4. CASE Decide
    <3>1. UNCHANGED <<options, described, lookups, missed>> /\ stand' \in {"implement", "failed", "blocked"}
      BY <2>4 DEF Decide, AfterGates, Static
    <3>2. \/ tries' = tries
          \/ Kind \in {"review", "completion"} /\ tries[Kind] < MaxTaskRetries /\ tries' = [tries EXCEPT ![Kind] = @ + 1]
      BY <2>4 DEF Decide, Kind
    <3>3. tries' \in [review : 0 .. MaxTaskRetries, completion : 0 .. MaxTaskRetries]
      <4>1. CASE tries' = tries
        BY <4>1 DEF GatesFit
      <4>2. ASSUME NEW k \in {"review", "completion"}, tries[k] < MaxTaskRetries, tries' = [tries EXCEPT ![k] = @ + 1]
            PROVE  tries' \in [review : 0 .. MaxTaskRetries, completion : 0 .. MaxTaskRetries]
        <5>1. CASE k = "review"
          BY <2>0, <4>2, <5>1 DEF GatesFit
        <5>2. CASE k = "completion"
          BY <2>0, <4>2, <5>2 DEF GatesFit
        <5> QED BY <5>1, <5>2
      <4> QED BY <3>2, <4>1, <4>2
    <3> QED BY <3>1, <3>3 DEF GatesFit
  <2>5. CASE UNCHANGED gateVars
    BY <2>5 DEF gateVars, GatesFit
  <2> QED BY <2>1, <2>2, <2>3, <2>4, <2>5 DEF GatesNext
<1> QED BY <1>1, <1>2

\* The shape of each part, from its invariant.
LEMMA GitHubShape == ASSUME GitHubInv, TallyInv PROVE GitHubTypeOK
<1>1. Cardinality({w \in Reporters : Saving(w)}) <= 1
  <2>1. \A v, w \in {w \in Reporters : Saving(w)} : v = w
    BY DEF GitHubInv, ReportsInv
  <2> QED BY <2>1, OneAtMost
<1>2. states # Lost => /\ states.status \in [Issues -> Overrides \cup {NoEntry}]
                       /\ states.data \in [Issues -> Settings \cup {NoEntry}]
  BY DEF GitHubInv, HoldsInv, Whole
<1> QED BY <1>1, <1>2, GitHubAssumption DEF GitHubInv, HoldsInv, TallyInv, GitHubTypeOK

LEMMA IssueShape == ASSUME IssueInv PROVE IssueTypeOK
<1>1. Cardinality({w \in Workers : writes[w].at \in {"staged", "seen"}}) <= 1
  <2>1. \A v, w \in {w \in Workers : writes[w].at \in {"staged", "seen"}} : v = w
    BY DEF IssueInv, WritesInv
  <2> QED BY <2>1, OneAtMost
<1>2. Board(board) /\ DOMAIN state = board.issues
  BY IssueAssumption DEF IssueInv, BoardInv
<1> QED BY <1>1, <1>2 DEF IssueInv, BoardInv, IssueTypeOK

LEMMA SearchShape == ASSUME SearchInv, LevelsInv PROVE SearchTypeOK
<1>1. IsInjective(stack) /\ ToSet(stack) \cap visited = {}
  BY DEF SearchInv, StackInv, IsInjective, ToSet
<1> QED BY <1>1 DEF SearchInv, StackInv, LevelsInv, SearchTypeOK

LEMMA EngineShapeOK == ASSUME EngineInv, ExtrasInv PROVE EngineTypeOK
<1>1. TaskTree(tree) /\ stored \in [tree.tasks -> Statuses] /\ offered \subseteq tree.tasks
      /\ (reading # NoGraph => reading \in [tree.tasks -> Statuses])
  BY SearchAssumption DEF EngineInv, EngineShape, TreeStatuses
<1>2. graph # NoGraph => graph.tasks = tree.tasks /\ graph.status \in [tree.tasks -> Statuses]
  <2>1. \A f \in TreeStatuses : BuildGraph(tree, f).tasks = tree.tasks
    BY DEF BuildGraph
  <2> QED BY <2>1 DEF EngineInv, EngineShape, TreeStatuses
<1>3. /\ \A c \in Callers : calls[c] # NoCall => calls[c].task \in tree.tasks /\ calls[c].status \in Statuses
      /\ \A c, d \in Callers : (c # d /\ NoCall \notin {calls[c], calls[d]}) => calls[c].task # calls[d].task
  BY CallerFacts DEF EngineInv, EngineShape
<1> QED BY <1>1, <1>2, <1>3 DEF ExtrasInv, EngineTypeOK

LEMMA GatesShape == ASSUME GatesFit PROVE GatesTypeOK
<1>1. /\ Options(options) /\ Description(described)
      /\ described.sections \subseteq Sections /\ described.signs \subseteq Signs
      /\ described.known \in Nat /\ described.unknown \in Nat
  BY GatesAssumption DEF GatesFit
<1>2. missed \in 0 .. (described.known + described.unknown)
  BY <1>1 DEF GatesFit
<1> QED BY <1>1, <1>2 DEF GatesFit, GatesTypeOK

\* A behaviour of all the parts is one of each.
LEMMA PartsAlone ==
  DataSpec => Spec /\ GitHubSpec /\ IssueSpec /\ SearchSpec /\ LevelsSpec /\ EngineSpec /\ GatesSpec
<1>1. DataInit => Init /\ GitHubInit /\ IssueInit /\ SearchInit /\ LevelsInit /\ EngineInit /\ GatesInit
  BY DEF DataInit
<1>2. [DataNext]_dataVars =>
        /\ [Next]_vars /\ [GitHubNext]_githubVars /\ [IssueNext]_trackerVars
        /\ [SearchNext]_searchVars /\ [CountLevel]_levelVars
        /\ [EngineNext]_engineVars /\ [GatesNext]_gateVars
  BY DEF DataNext, dataVars, OnlyStore, OnlyGitHub, OnlyTrackers, OnlySearch, OnlyLevels, OnlyEngine, OnlyGates
<1> QED BY <1>1, <1>2, PTL
        DEF DataSpec, Spec, GitHubSpec, IssueSpec, SearchSpec, LevelsSpec, EngineSpec, GatesSpec

\* Every part keeps its shape beside the others, and one goroutine at a time saves the state file of
\* GitHub, commits a ticket or has a task, for every value of the constants.
THEOREM DataTypeCorrect == DataSpec => []DataTypeOK
<1>1. GitHubSpec => []GitHubTypeOK
  BY GitHubStart, GitHubStep, TallyStep, GitHubShape, PTL DEF GitHubSpec
<1>2. IssueSpec => []IssueTypeOK
  BY IssueStart, IssueStep, IssueShape, PTL DEF IssueSpec
<1>3. SearchSpec /\ LevelsSpec => []SearchTypeOK
  BY SearchStart, SearchStep, LevelsStart, LevelsStep, SearchShape, PTL DEF SearchSpec, LevelsSpec
<1>4. EngineSpec => []EngineTypeOK
  BY EngineStart, EngineStep, ExtrasStep, EngineShapeOK, PTL DEF EngineSpec
<1>5. GatesSpec => []GatesTypeOK
  BY GatesFitStep, GatesShape, PTL DEF GatesSpec
<1>6. TypeOK /\ GitHubTypeOK /\ IssueTypeOK /\ SearchTypeOK /\ EngineTypeOK /\ GatesTypeOK => DataTypeOK
  BY DEF DataTypeOK
<1> QED BY <1>1, <1>2, <1>3, <1>4, <1>5, <1>6, TypeCorrect, PartsAlone, PTL
=================================================================================
