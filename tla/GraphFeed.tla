------------------------------- MODULE GraphFeed -------------------------------
(* Snapshots and diffs of the task graphs: what the sync loop of the mastermind    *)
(* publishes (startTaskGraphSync), what SubscribeTaskGraph forwards of it under a  *)
(* filter, and a consumer that keeps a copy (internal/distributed/mastermind.go).  *)
EXTENDS Naturals, Sequences, FiniteSets, SequencesExt

CONSTANTS
    GraphRefs,     \* roots of the sources
    BackendType,   \* BackendType[g]: the backend of the root's source
    GraphTasks,    \* GraphTasks[g]: the tasks its tracker may hold
    SyncStatuses,  \* statuses the sync loop publishes, {} for all
    Filters,       \* filters of the subscriber
    FeedRoom,      \* capacity of a channel (32 in the code)
    MaxSyncs       \* bound: rounds of the sync loop

ASSUME FeedAssumption ==
    /\ SyncStatuses \subseteq {"open", "closed"}
    /\ FeedRoom \in Nat \ {0} /\ MaxSyncs \in Nat
    /\ \A f \in Filters : f.statuses \subseteq {"open", "closed"} /\ f.backends \subseteq Range(BackendType)

VARIABLES
    published,   \* previousGraphs: [roots -> [tasks -> status]], both partial
    feedVersion, \* taskGraphVersion
    snapshotIn, diffIn, \* the subscriber's two subscriptions
    output,      \* the merged channel
    filter,      \* the subscriber's filter
    copy,        \* the consumer's graphs
    copyVersion, \* the newest version the consumer applied
    missed,      \* history: a publication of the last round was dropped
    syncs

feedVars == <<published, feedVersion, snapshotIn, diffIn, output, filter, copy, copyVersion, missed, syncs>>

NoGraphs == [g \in {} |-> <<>>]

FeedInit ==
    /\ published = NoGraphs
    /\ feedVersion = 0
    /\ snapshotIn = <<>> /\ diffIn = <<>> /\ output = <<>>
    /\ filter \in Filters
    /\ copy = NoGraphs /\ copyVersion = 0
    /\ missed = FALSE
    /\ syncs = 0

-------------------------------------------------------------------------------
(* The sync loop. *)

\* The trees a root may have when it is read.
Trees(g) == UNION {[tasks -> {"open", "closed"}] : tasks \in SUBSET GraphTasks[g]}

\* Only tasks of the statuses that are published, see matchesTaskGraphTaskFilters.
SnapshotOf(tree) ==
    Restrict(tree, {t \in DOMAIN tree : SyncStatuses = {} \/ tree[t] \in SyncStatuses})

\* A graph that is not there has no nodes.
Nodes(graphs, g) == IF g \in DOMAIN graphs THEN graphs[g] ELSE <<>>

\* Mutant: previous and current are swapped for graphs that both have.
DiffOf_Swapped(previous, current) ==
    [g \in {r \in DOMAIN previous \cap DOMAIN current : previous[r] # current[r]} |->
        [upsert |-> previous[g], delete |-> DOMAIN current[g] \ DOMAIN previous[g]]]

\* buildTaskGraphDiffs: a graph that is new, one whose nodes changed, one that is gone.
DiffOf(previous, current) ==
    LET before(g) == Nodes(previous, g)
        after(g)  == Nodes(current, g)
        upserts(g) == {t \in DOMAIN after(g) :
                          t \notin DOMAIN before(g) \/ before(g)[t] # after(g)[t]}
        deletes(g) == DOMAIN before(g) \ DOMAIN after(g)
    IN [g \in {r \in DOMAIN previous \cup DOMAIN current : upserts(r) \cup deletes(r) # {}} |->
           [upsert |-> Restrict(after(g), upserts(g)), delete |-> deletes(g)]]

Publish(channel, event) == IF Len(channel) < FeedRoom THEN Append(channel, event) ELSE channel

\* A root that cannot be read, and one without tasks to show, is left out: the diff
\* says its tasks are deleted.
SyncGraphs ==
    /\ syncs < MaxSyncs
    /\ syncs' = syncs + 1
    /\ \E roots \in SUBSET GraphRefs :
       \E trees \in {f \in [roots -> UNION {Trees(g) : g \in roots}] : \A g \in roots : f[g] \in Trees(g)} :
          published' = [g \in {r \in roots : DOMAIN SnapshotOf(trees[r]) # {}} |-> SnapshotOf(trees[g])]
    /\ LET diff == DiffOf(published, published')
           changed == DOMAIN diff # {} IN
       /\ snapshotIn' = Publish(snapshotIn, [version |-> feedVersion + 1, graphs |-> published'])
       /\ diffIn' = IF changed THEN Publish(diffIn, [version |-> feedVersion + 2, graphs |-> diff]) ELSE diffIn
       /\ feedVersion' = feedVersion + IF changed THEN 2 ELSE 1
       /\ missed' = (Len(snapshotIn) = FeedRoom \/ (changed /\ Len(diffIn) = FeedRoom))
    /\ UNCHANGED <<output, filter, copy, copyVersion>>

-------------------------------------------------------------------------------
(* SubscribeTaskGraph: filters are applied to a payload as a whole. *)

WantsBackend(backend) == filter.backends = {} \/ backend \in filter.backends
WantsOneOf(nodes) == filter.statuses = {} \/ \E t \in DOMAIN nodes : nodes[t] \in filter.statuses

SnapshotWanted(graphs) ==
    IF graphs = NoGraphs THEN filter.backends = {}
    ELSE \E g \in DOMAIN graphs : WantsBackend(BackendType[g]) /\ WantsOneOf(graphs[g])

\* The backend of a graph that only lost tasks is known only when the diff has no
\* other graph (populateLegacyTaskGraphDiffFields).
DiffWanted(diff) ==
    \E g \in DOMAIN diff :
        /\ \/ WantsBackend(BackendType[g])
              /\ (DOMAIN diff[g].upsert # {} \/ Cardinality(DOMAIN diff) = 1)
           \/ filter.backends = {}
        /\ WantsOneOf(diff[g].upsert)

\* The merged channel drops what finds it full.
ForwardSnapshot ==
    /\ snapshotIn # <<>>
    /\ snapshotIn' = Tail(snapshotIn)
    /\ LET s == Head(snapshotIn) IN
       IF SnapshotWanted(s.graphs)
       THEN /\ output' = Publish(output, [kind |-> "snapshot", version |-> s.version, graphs |-> s.graphs])
            /\ missed' = (missed \/ Len(output) = FeedRoom)
       ELSE UNCHANGED <<output, missed>>
    /\ UNCHANGED <<published, feedVersion, diffIn, filter, copy, copyVersion, syncs>>

ForwardDiff ==
    /\ diffIn # <<>>
    /\ diffIn' = Tail(diffIn)
    /\ LET d == Head(diffIn) IN
       IF DiffWanted(d.graphs)
       THEN /\ output' = Publish(output, [kind |-> "diff", version |-> d.version, graphs |-> d.graphs])
            /\ missed' = (missed \/ Len(output) = FeedRoom)
       ELSE UNCHANGED <<output, missed>>
    /\ UNCHANGED <<published, feedVersion, snapshotIn, filter, copy, copyVersion, syncs>>

-------------------------------------------------------------------------------
(* The consumer, as good as the versions allow.  Snapshots come in order, and so do   *)
(* diffs; a diff is numbered after the snapshot of its round, which holds it already. *)

\* The nodes of one graph with its changes.
Changed(nodes, change) ==
    [t \in DOMAIN change.upsert \cup (DOMAIN nodes \ change.delete) |->
        IF t \in DOMAIN change.upsert THEN change.upsert[t] ELSE nodes[t]]

Apply(graphs, diff) ==
    LET nodes(g) == IF g \in DOMAIN diff THEN Changed(Nodes(graphs, g), diff[g]) ELSE Nodes(graphs, g)
    IN [g \in {r \in DOMAIN graphs \cup DOMAIN diff : DOMAIN nodes(r) # {}} |-> nodes(g)]

ReadEvent ==
    /\ output # <<>>
    /\ output' = Tail(output)
    /\ LET e == Head(output) IN
       \/ /\ e.kind = "snapshot" /\ e.version + 1 >= copyVersion
          /\ copy' = e.graphs /\ copyVersion' = e.version
       \/ /\ e.kind = "diff" /\ e.version > copyVersion
          /\ copy' = Apply(copy, e.graphs) /\ copyVersion' = e.version
       \/ /\ e.version + (IF e.kind = "snapshot" THEN 1 ELSE 0) < copyVersion
          /\ UNCHANGED <<copy, copyVersion>>
    /\ UNCHANGED <<published, feedVersion, snapshotIn, diffIn, filter, missed, syncs>>

FeedNext == SyncGraphs \/ ForwardSnapshot \/ ForwardDiff \/ ReadEvent

FeedSpec == FeedInit /\ [][FeedNext]_feedVars

-------------------------------------------------------------------------------
FeedTypeOK ==
    /\ \A g \in DOMAIN published : g \in GraphRefs /\ published[g] \in Trees(g)
    /\ \A g \in DOMAIN copy : g \in GraphRefs /\ DOMAIN copy[g] \subseteq GraphTasks[g]
    /\ feedVersion \in Nat /\ copyVersion <= feedVersion
    /\ Len(snapshotIn) <= FeedRoom /\ Len(diffIn) <= FeedRoom /\ Len(output) <= FeedRoom

Delivered == snapshotIn = <<>> /\ diffIn = <<>> /\ output = <<>>

\* A consumer that got all of the last round has the graphs as they are published,
\* whatever it missed before and in whatever order snapshot and diff came, unless
\* nothing it asked for is left: that it is never told.
CopyIsCurrent ==
    Delivered /\ ~missed /\ syncs > 0 /\ copy # published => ~SnapshotWanted(published)
===============================================================================
