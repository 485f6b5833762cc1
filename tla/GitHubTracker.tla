----------------------------- MODULE GitHubTracker ------------------------------
(* Tasks in GitHub (internal/github).  An issue is open or closed; that a task is   *)
(* in progress, blocked or failed, and its data, is in a file of the runner.  To    *)
(* set a status is a request to GitHub, then a load and a save of the whole file,   *)
(* each under a lock of its own; a tree is a listing of the issues, then a load of  *)
(* the file for each task.                                                          *)
EXTENDS TrackerTrees

CONSTANTS
    Repo,         \* the issues, a board whose root is the issue "r"
    Reporters,    \* the goroutines that set statuses and data
    Reports,      \* bound: the statuses a task is set to
    Settings,     \* the data a task may be given
    MaxCalls,     \* bound: calls of SetTaskStatus and SetTaskData
    MaxRefusals,  \* how often a request is repeated after a refusal for its rate
    MaxUpsets     \* bound: ends of the process, and issues closed or opened by others, together

ASSUME GitHubAssumption ==
    /\ Board(Repo)
    /\ Reports \subseteq Statuses /\ "none" \notin Settings
    /\ MaxCalls \in Nat /\ MaxRefusals \in Nat /\ MaxUpsets \in Nat

Overrides == {"blocked", "failed", "in_progress"}
NoEntry == "none"

VARIABLES
    remote,   \* whether each issue is open or closed
    comments, \* how many comments with data each issue has
    states,   \* the file: Lost if its text is cut off, else the statuses and the data in it
    reports,  \* the call each reporter is in
    tally,    \* calls, and crashes and others' changes, so far
    listing,  \* the tree being read: the issues as listed, and the status of each task read so far
    last,     \* history: the status last set of each issue, Unsure after an error or another's change
    lost,     \* history: the issues whose entry was overwritten by a save whose load was older
    posts,    \* history: calls that decided to post a comment, by issue
    possible  \* history: the statuses each issue has had while the tree is being read

githubVars == <<remote, comments, states, reports, tally, listing, last, lost, posts, possible>>

Issues == Repo.issues
InTree == Scope(Repo, "r")
Unsure == "unsure"
NoReport == [at |-> "idle"]
NoListing == [at |-> "none"]
Lost == [text |-> "cut off"]
Empty == [text |-> "whole", status |-> [i \in Issues |-> NoEntry], data |-> [i \in Issues |-> NoEntry]]
Reported(id) == \E w \in Reporters : reports[w].at # "idle" /\ reports[w].task = id
Saving(w) == reports[w].at = "saving"

-------------------------------------------------------------------------------
(* Reading. *)

\* The file says more of an open issue; one that cannot be read says nothing.
EffectiveStatus(f, id, base) ==
    IF base = "open" /\ f # Lost /\ f.status[id] \in Overrides THEN f.status[id] ELSE base

Now(id) == EffectiveStatus(states, id, remote[id])

-------------------------------------------------------------------------------

GitHubTypeOK ==
    /\ Board(Repo)
    /\ remote \in [Issues -> {"open", "closed"}]
    /\ comments \in [Issues -> Nat] /\ posts \in [Issues -> Nat]
    /\ states # Lost => states.status \in [Issues -> Overrides \cup {NoEntry}] /\ states.data \in [Issues -> Settings \cup {NoEntry}]
    /\ tally \in [calls : 0..MaxCalls, upsets : 0..MaxUpsets]
    /\ last \in [Issues -> Statuses \cup {Unsure}]
    /\ lost \subseteq Issues
    \* One save at a time.
    /\ Cardinality({w \in Reporters : Saving(w)}) <= 1

GitHubInit ==
    /\ remote = [i \in Issues |-> "open"]
    /\ comments = [i \in Issues |-> 0] /\ posts = [i \in Issues |-> 0]
    /\ states = Empty
    /\ reports = [w \in Reporters |-> NoReport]
    /\ tally = [calls |-> 0, upsets |-> 0]
    /\ listing = NoListing
    /\ last = [i \in Issues |-> "open"]
    /\ lost = {}
    /\ possible = [i \in Issues |-> {}]

At(w, at) == reports' = [reports EXCEPT ![w].at = at]

\* A call that returns an error; what it did to GitHub or to the file stays.
GiveUp(w) ==
    /\ reports' = [reports EXCEPT ![w] = NoReport]
    /\ last' = [last EXCEPT ![reports[w].task] = Unsure]

CallStatus(w) ==
    /\ reports[w].at = "idle" /\ tally.calls < MaxCalls
    /\ \E id \in InTree \ {"r"}, s \in Reports :
        /\ ~Reported(id)
        /\ reports' = [reports EXCEPT ![w] = [at |-> "request", task |-> id, set |-> "status", to |-> s, refused |-> 0]]
    /\ tally' = [tally EXCEPT !.calls = @ + 1]
    /\ UNCHANGED <<remote, comments, states, listing, last, lost, posts>>

\* Data that the file has already is not posted again, but saved all the same.
CallData(w) ==
    /\ reports[w].at = "idle" /\ tally.calls < MaxCalls
    /\ \A v \in Reporters : ~Saving(v)
    /\ \E id \in InTree \ {"r"}, d \in Settings :
        /\ ~Reported(id)
        /\ LET known == states # Lost /\ states.data[id] = d
           IN  /\ reports' = [reports EXCEPT ![w] = [at |-> IF known THEN "load" ELSE "request",
                                                     task |-> id, set |-> "data", to |-> d, refused |-> 0]]
               /\ posts' = IF known THEN posts ELSE [posts EXCEPT ![id] = @ + 1]
    /\ tally' = [tally EXCEPT !.calls = @ + 1]
    /\ UNCHANGED <<remote, comments, states, listing, last, lost>>

\* What GitHub does when it takes the request.
Take(w) ==
    LET r == reports[w]
    IN  IF r.set = "status"
        THEN /\ remote' = [remote EXCEPT ![r.task] = IF r.to = "closed" THEN "closed" ELSE "open"]
             /\ UNCHANGED comments
        ELSE comments' = [comments EXCEPT ![r.task] = @ + 1] /\ UNCHANGED remote

\* doGitHubJSON: taken and answered; taken and the answer lost; refused for its rate, and repeated
\* up to MaxRefusals times; or it fails.
SendRequest(w) ==
    /\ reports[w].at = "request"
    /\ \/ /\ Take(w)
          /\ (At(w, "load") /\ UNCHANGED last) \/ GiveUp(w)
       \/ /\ reports[w].refused < MaxRefusals
          /\ reports' = [reports EXCEPT ![w].refused = @ + 1]
          /\ UNCHANGED <<remote, comments, last>>
       \/ GiveUp(w) /\ UNCHANGED <<remote, comments>>
    /\ UNCHANGED <<states, tally, listing, lost, posts>>

\* Persist...Change loads the file; one that is cut off is an error.
LoadFile(w) ==
    /\ reports[w].at = "load"
    /\ \A v \in Reporters : ~Saving(v)
    /\ \/ states = Lost /\ GiveUp(w)
       \/ /\ states # Lost /\ UNCHANGED last
          /\ reports' = [reports EXCEPT ![w] = [at |-> "loaded", task |-> reports[w].task, set |-> reports[w].set,
                                                to |-> reports[w].to, refused |-> 0, read |-> states]]
    /\ UNCHANGED <<remote, comments, states, tally, listing, lost, posts>>

\* Mutant: a status is saved into an empty state, not into what was loaded.
Changed_Fresh(r) ==
    IF r.set = "status"
    THEN [Empty EXCEPT !.status[r.task] = IF r.to \in Overrides THEN r.to ELSE NoEntry]
    ELSE [r.read EXCEPT !.data[r.task] = r.to]

Changed(r) ==
    IF r.set = "status"
    THEN [r.read EXCEPT !.status[r.task] = IF r.to \in Overrides THEN r.to ELSE NoEntry]
    ELSE [r.read EXCEPT !.data[r.task] = r.to]

\* Mutant: save does not take the lock.
StartSave_Unlocked(w) ==
    /\ reports[w].at = "loaded"
    /\ At(w, "saving") /\ UNCHANGED last
    /\ UNCHANGED <<remote, comments, states, tally, listing, posts, lost>>

\* save, under the lock: the file is truncated, then written.
StartSave(w) ==
    /\ reports[w].at = "loaded"
    /\ \A v \in Reporters : ~Saving(v)
    /\ \/ GiveUp(w) /\ UNCHANGED lost
       \/ /\ At(w, "saving") /\ UNCHANGED last
          /\ LET r == reports[w]
                 stale == {i \in Issues \ {r.task} : states # Lost /\ states.status[i] # r.read.status[i]}
             IN  lost' = (lost \cup stale) \ (IF r.set = "status" THEN {r.task} ELSE {})
    /\ UNCHANGED <<remote, comments, states, tally, listing, posts>>

EndSave(w) ==
    /\ Saving(w)
    /\ LET r == reports[w]
       IN  /\ states' = Changed(r)
           /\ reports' = [reports EXCEPT ![w] = NoReport]
           /\ last' = IF r.set # "status" THEN last
                      ELSE [last EXCEPT ![r.task] = IF (remote[r.task] = "closed") = (r.to = "closed") THEN r.to ELSE Unsure]
    /\ UNCHANGED <<remote, comments, tally, listing, lost, posts>>

\* The process ends; a save that was under way leaves the old file, an empty one, a part or all of it.
EndProcess ==
    /\ tally.upsets < MaxUpsets
    /\ tally' = [tally EXCEPT !.upsets = @ + 1]
    /\ \/ UNCHANGED states
       \/ \E w \in Reporters : Saving(w) /\ states' \in {Empty, Lost, Changed(reports[w])}
    /\ last' = [i \in Issues |-> IF Reported(i) \/ (\E w \in Reporters : Saving(w)) THEN Unsure ELSE last[i]]
    /\ reports' = [w \in Reporters |-> NoReport]
    /\ listing' = NoListing
    /\ UNCHANGED <<remote, comments, lost, posts>>

CloseOutside ==
    /\ tally.upsets < MaxUpsets
    /\ \E id \in Issues : remote' = [remote EXCEPT ![id] = IF @ = "open" THEN "closed" ELSE "open"]
                          /\ last' = [last EXCEPT ![id] = Unsure]
    /\ tally' = [tally EXCEPT !.upsets = @ + 1]
    /\ UNCHANGED <<comments, states, reports, listing, lost, posts>>

\* GetTaskTree: all issues are listed,
ListIssues ==
    /\ listing.at = "none"
    /\ listing' = [at |-> "reading", issues |-> remote, status |-> [i \in InTree |-> NoEntry]]
    /\ UNCHANGED <<remote, comments, states, reports, tally, last, lost, posts>>

Unread == {id \in DOMAIN listing.status : listing.status[id] = NoEntry}

\* then each task's status in turn is read from the listing and the file.
ReadTask ==
    /\ listing.at = "reading"
    /\ \A v \in Reporters : ~Saving(v)
    /\ Unread # {}
    /\ LET id == CHOOSE i \in Unread : TRUE
       IN  listing' = [listing EXCEPT !.status[id] = EffectiveStatus(states, id, listing.issues[id])]
    /\ UNCHANGED <<remote, comments, states, reports, tally, last, lost, posts>>

HaveRead == listing.at = "reading" /\ Unread = {}

UseTree ==
    /\ HaveRead
    /\ listing' = NoListing
    /\ UNCHANGED <<remote, comments, states, reports, tally, last, lost, posts>>

\* History: what each issue is while a tree is read.
Watch ==
    possible' = [i \in Issues |-> IF listing'.at = "none" \/ i \notin InTree THEN {}
                                  ELSE possible[i] \cup {EffectiveStatus(states', i, remote'[i])}]

GitHubNext ==
    /\ \/ \E w \in Reporters :
            \/ CallStatus(w) \/ CallData(w) \/ SendRequest(w)
            \/ LoadFile(w) \/ StartSave(w) \/ EndSave(w)
       \/ EndProcess \/ CloseOutside
       \/ ListIssues \/ ReadTask \/ UseTree
    /\ Watch

GitHubSpec == GitHubInit /\ [][GitHubNext]_githubVars

-------------------------------------------------------------------------------
(* Properties. *)

\* A status that was set with success is what is read, until another is set: the file loses it only
\* to a save that began from an older load, or to a process that ended while it saved
\* (PersistTaskStatusChange, saveLocked).
StatusIsKept ==
    \A id \in Issues :
        (last[id] # Unsure /\ ~Reported(id) /\ id \notin lost) => Now(id) = last[id]

\* A tree gives each task a status it had while the tree was read.  Only a task that was closed
\* meanwhile may be read as one that is not: its issue was listed open, and what the file said
\* of it, or says no more, is taken (GetTaskTree lists once and reads the file for each task).
StatusWasReal ==
    listing.at = "reading" =>
        \A id \in DOMAIN listing.status :
            LET s == listing.status[id]
            IN  s = NoEntry \/ s \in possible[id] \/ (s # "closed" /\ "closed" \in possible[id])

\* A call posts its comment once at most, however often its request is repeated: only a refused
\* request is (doGitHubJSON, secondaryRateLimitBackoff).
PostsOnce == \A id \in Issues : comments[id] <= posts[id]

\* A task that may start, by the tree that was read, has all it refers to closed, unless that is
\* not below the root or is the task itself: those GitHub's tree leaves out (GetTaskTree).
WaitsForItsOwn ==
    HaveRead =>
        \A id \in Available(BuildGraph(GitHubTree(Repo, "r"), listing.status)) :
            \A d \in Repo.refs[id] \ {id} : d \in DOMAIN listing.status => listing.status[d] = "closed"
\* What GitHub and the state file hold is what was reported, and what is read is what they hold.
GitHubAgrees == StatusIsKept /\ StatusWasReal /\ PostsOnce /\ WaitsForItsOwn
================================================================================
