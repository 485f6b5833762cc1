------------------------------ MODULE StatusUpdate ------------------------------
(* Status commands: a client (the web UI, an inbox) publishes one through          *)
(* InboxTransport, the mastermind writes it to the task backends                  *)
(* (handleTaskStatusUpdate, internal/distributed/mastermind.go) under optimistic   *)
(* versions, and answers on two subjects that the client merges                    *)
(* (internal/distributed/inbox_transport.go).                                      *)
EXTENDS Naturals, Sequences, FiniteSets, SequencesExt

CONSTANTS
    Commands,      \* identities of commands
    Stores,        \* task backends the mastermind has
    Targets,       \* Targets[c]: the backends c names, sorted, each once (all when it names none)
    Commented,     \* commands that also carry a comment or metadata
    Flaw,          \* Flaw[c]: what is wrong with c, "nothing" mostly
    MaxSends,      \* bound: MaxSends[c] times a client publishes c
    MaxVersion,    \* bound: versions the model counts to
    StatusFaults,  \* the failures this instance allows
    MaxStatusFaults \* bound: how many of them happen

ASSUME StatusAssumption ==
    /\ Targets \in [Commands -> Seq(Stores \cup {"unknown"})]
    /\ \A c \in Commands : \A i, j \in DOMAIN Targets[c] : Targets[c][i] = Targets[c][j] => i = j
    /\ "none" \notin Commands /\ "any" \notin Stores
    /\ Commented \subseteq Commands
    /\ Flaw \in [Commands -> {"nothing", "no task", "no status", "bad token"}]
    /\ MaxSends \in [Commands -> Nat] /\ MaxVersion \in Nat /\ MaxStatusFaults \in Nat
    /\ StatusFaults \subseteq {"write", "comment", "restart", "lost"}

VARIABLES
    sent,       \* [Commands -> times published]
    basis,      \* [Commands -> the version the client expects, and where it read it]
    commandsIn, \* the mastermind's subscription: commands to handle
    handling,   \* the command being written, the backends still to write
    holder,     \* [Stores -> the command whose status the task has there]
    version,    \* [Stores -> the mastermind's version of the task]
    remembered, \* [Commands -> the answer kept under the command's id]
    acks, rejects, \* the client's two subscriptions
    heard,      \* [Commands -> answers the client got]
    known,      \* versions the client was told
    wrote,      \* history: [Commands \X Stores -> times c was written there]
    broken,     \* history: commands a backend failed on, stores whose status has no version
    restarts, statusFaultsLeft

clientVars == <<sent, basis, acks, rejects, heard, known>>
masterVars == <<commandsIn, handling, holder, version, remembered, wrote, broken, restarts>>
statusVars == <<clientVars, masterVars, statusFaultsLeft>>

NoCommand   == "none"
Unexpected  == [version |-> 0, store |-> "any", by |-> NoCommand]
NoVersions  == [b \in Stores |-> 0]
NoAnswer    == [result |-> "nothing", versions |-> NoVersions]
NotHandling == [command |-> NoCommand, todo |-> <<>>, base |-> [b \in Stores |-> 0]]

Fails(fault) ==
    fault \in StatusFaults /\ statusFaultsLeft > 0 /\ statusFaultsLeft' = statusFaultsLeft - 1

Works == UNCHANGED statusFaultsLeft

StatusInit ==
    /\ sent = [c \in Commands |-> 0]
    /\ basis = [c \in Commands |-> Unexpected]
    /\ commandsIn = <<>>
    /\ handling = NotHandling
    /\ holder = [b \in Stores |-> NoCommand]
    /\ version = [b \in Stores |-> 0]
    /\ remembered = [c \in Commands |-> NoAnswer]
    /\ acks = <<>> /\ rejects = <<>>
    /\ heard = [c \in Commands |-> {}]
    /\ known = {Unexpected}
    /\ wrote = [p \in Commands \X Stores |-> 0]
    /\ broken = [commands |-> {}, stores |-> {}]
    /\ restarts = 0
    /\ statusFaultsLeft = MaxStatusFaults

-------------------------------------------------------------------------------
(* The client. *)

\* A command is published once, and again under the same identity when publishing
\* reported an error or its sender does not know what became of it.
PublishCommand(c) ==
    /\ sent[c] < MaxSends[c]
    /\ heard[c] = {}
    /\ sent' = [sent EXCEPT ![c] = @ + 1]
    /\ IF sent[c] > 0 THEN UNCHANGED basis
       ELSE \E k \in known : basis' = [basis EXCEPT ![c] = k]
    /\ \/ commandsIn' = Append(commandsIn, c) /\ Works
       \/ UNCHANGED commandsIn /\ Fails("lost")
    /\ UNCHANGED <<acks, rejects, heard, known, handling, holder, version, remembered,
                   wrote, broken, restarts>>

\* The merged channel of acknowledgements and rejections; it drops what finds it full.
HearAck ==
    /\ acks # <<>>
    /\ acks' = Tail(acks)
    /\ LET a == Head(acks) IN
       \/ /\ Works
          /\ heard' = [heard EXCEPT ![a.command] = @ \cup {a.result}]
          /\ known' = known \cup {[version |-> a.versions[b], store |-> b, by |-> a.command] :
                                      b \in {s \in Stores : a.versions[s] > 0}}
       \/ Fails("lost") /\ UNCHANGED <<heard, known>>
    /\ UNCHANGED <<sent, basis, rejects, masterVars>>

HearReject ==
    /\ rejects # <<>>
    /\ rejects' = Tail(rejects)
    /\ \/ Works /\ heard' = [heard EXCEPT ![Head(rejects)] = @ \cup {"error"}]
       \/ Fails("lost") /\ UNCHANGED heard
    /\ UNCHANGED <<sent, basis, acks, known, masterVars>>

-------------------------------------------------------------------------------
(* The mastermind: one goroutine, one command at a time. *)

Ack(c, answer) ==
    acks' = Append(acks, [command |-> c, result |-> answer.result, versions |-> answer.versions])

\* rejectStatusUpdate: the answer is kept and sent as an acknowledgement and as a
\* rejection.
Reject(c) ==
    /\ remembered' = [remembered EXCEPT ![c] =
           IF @ = NoAnswer THEN [NoAnswer EXCEPT !.result = "error"] ELSE @]
    /\ Ack(c, remembered'[c])
    /\ rejects' = Append(rejects, c)

\* Mutant: expected versions are not compared.
Conflict_AnyVersion(c) == \E b \in ToSet(Targets[c]) : b \notin Stores

Conflict(c) ==
    \E b \in ToSet(Targets[c]) :
        b \in Stores => basis[c].version > 0 /\ version[b] # basis[c].version

Unacceptable(c) == Flaw[c] \in {"no status", "bad token"} \/ Conflict(c)

\* A repeated command gets the answer it got before, with the versions of that time;
\* one without a task gets none.
ReceiveCommand ==
    /\ handling = NotHandling
    /\ commandsIn # <<>>
    /\ commandsIn' = Tail(commandsIn)
    /\ LET c == Head(commandsIn) IN
       \/ /\ remembered[c] # NoAnswer
          /\ Ack(c, remembered[c])
          /\ UNCHANGED <<rejects, remembered, handling>>
       \/ /\ remembered[c] = NoAnswer /\ Flaw[c] = "no task"
          /\ UNCHANGED <<acks, rejects, remembered, handling>>
       \/ /\ remembered[c] = NoAnswer /\ Flaw[c] # "no task" /\ Unacceptable(c)
          /\ Reject(c)
          /\ UNCHANGED handling
       \/ /\ remembered[c] = NoAnswer /\ Flaw[c] # "no task" /\ ~Unacceptable(c)
          /\ handling' = [command |-> c, todo |-> Targets[c], base |-> version]
          /\ UNCHANGED <<acks, rejects, remembered>>
    /\ UNCHANGED <<sent, basis, heard, known, holder, version, wrote, broken, restarts, statusFaultsLeft>>

Blame(c, b, unversioned) ==
    broken' = [commands |-> broken.commands \cup {c},
               stores |-> IF unversioned THEN broken.stores \cup {b} ELSE broken.stores]

\* SetTaskStatus failed, or its answer was lost: the backend then has the status and
\* the mastermind counts no version of it.  What earlier backends were given stays.
WriteFails ==
    /\ handling.todo # <<>>
    /\ Fails("write")
    /\ Reject(handling.command)
    /\ LET c == handling.command  b == Head(handling.todo) IN
       \/ UNCHANGED <<holder, wrote>> /\ Blame(c, b, FALSE)
       \/ /\ holder' = [holder EXCEPT ![b] = c]
          /\ wrote' = [wrote EXCEPT ![<<c, b>>] = @ + 1]
          /\ Blame(c, b, TRUE)
    /\ handling' = NotHandling
    /\ UNCHANGED <<sent, basis, heard, known, commandsIn, version, restarts>>

\* SetTaskStatus succeeded and SetTaskData failed: the status is written, the
\* version is not counted.
CommentFails ==
    /\ handling.todo # <<>> /\ handling.command \in Commented
    /\ Fails("comment")
    /\ Reject(handling.command)
    /\ LET c == handling.command  b == Head(handling.todo) IN
       /\ holder' = [holder EXCEPT ![b] = c]
       /\ wrote' = [wrote EXCEPT ![<<c, b>>] = @ + 1]
       /\ Blame(c, b, TRUE)
    /\ handling' = NotHandling
    /\ UNCHANGED <<sent, basis, heard, known, commandsIn, version, restarts>>

WriteStore ==
    /\ handling.todo # <<>>
    /\ LET c == handling.command  b == Head(handling.todo) IN
       /\ version[b] < MaxVersion
       /\ holder' = [holder EXCEPT ![b] = c]
       /\ wrote' = [wrote EXCEPT ![<<c, b>>] = @ + 1]
       /\ version' = [version EXCEPT ![b] = handling.base[b] + 1]
       /\ broken' = [commands |-> broken.commands, stores |-> broken.stores \ {b}]
    /\ handling' = [handling EXCEPT !.todo = Tail(@)]
    /\ UNCHANGED <<clientVars, commandsIn, remembered, restarts, statusFaultsLeft>>

\* Mutant: the expected version is compared when the writes have counted theirs.
FinishCommand_ComparesLast ==
    /\ handling # NotHandling /\ handling.todo = <<>>
    /\ LET c == handling.command IN
       IF basis[c].version > 0 /\ version[Head(Targets[c])] # basis[c].version
       THEN Reject(c)
       ELSE /\ remembered' = [remembered EXCEPT ![c] = [result |-> "ok", versions |-> version]]
            /\ Ack(c, remembered'[c])
            /\ UNCHANGED rejects
    /\ handling' = NotHandling
    /\ UNCHANGED <<sent, basis, heard, known, commandsIn, holder, version, wrote,
                   broken, restarts, statusFaultsLeft>>

FinishCommand ==
    /\ handling # NotHandling /\ handling.todo = <<>>
    /\ LET c == handling.command IN
       /\ remembered' = [remembered EXCEPT ![c] =
              [result |-> "ok",
               versions |-> [b \in Stores |-> IF b \in ToSet(Targets[c]) THEN version[b] ELSE 0]]]
       /\ Ack(c, remembered'[c])
    /\ handling' = NotHandling
    /\ UNCHANGED <<sent, basis, rejects, heard, known, commandsIn, holder, version, wrote,
                   broken, restarts, statusFaultsLeft>>

\* Versions and answers are kept in memory only, and nobody keeps the commands
\* published while the mastermind is away.
RestartMastermind ==
    /\ Fails("restart")
    /\ commandsIn' = <<>>
    /\ handling' = NotHandling
    /\ version' = [b \in Stores |-> 0]
    /\ remembered' = [c \in Commands |-> NoAnswer]
    /\ restarts' = restarts + 1
    /\ UNCHANGED <<clientVars, holder, wrote, broken>>

MastermindStep == ReceiveCommand \/ WriteStore \/ FinishCommand
ClientStep == HearAck \/ HearReject

StatusNext ==
    \/ \E c \in Commands : PublishCommand(c)
    \/ ClientStep \/ MastermindStep
    \/ WriteFails \/ CommentFails \/ RestartMastermind

StatusSpec == StatusInit /\ [][StatusNext]_statusVars

-------------------------------------------------------------------------------
StatusTypeOK ==
    /\ sent \in [Commands -> Nat]
    /\ basis \in [Commands -> [version : 0 .. MaxVersion, store : Stores \cup {"any"},
                               by : Commands \cup {NoCommand}]]
    /\ commandsIn \in Seq(Commands)
    /\ handling \in [command : Commands \cup {NoCommand}, todo : Seq(Stores),
                     base : [Stores -> 0 .. MaxVersion]]
    /\ holder \in [Stores -> Commands \cup {NoCommand}]
    /\ version \in [Stores -> 0 .. MaxVersion]
    /\ remembered \in [Commands -> [result : {"nothing", "ok", "error"},
                                    versions : [Stores -> 0 .. MaxVersion]]]
    /\ heard \in [Commands -> SUBSET {"ok", "error"}]

\* A command answered "ok" has reached every backend it names.
AcknowledgedIsWritten ==
    \A c \in Commands : "ok" \in heard[c] => \A b \in ToSet(Targets[c]) : wrote[<<c, b>>] > 0

\* However often a command is delivered, a backend is written once for it, and once
\* more for every restart in which the mastermind forgot its answers.
WrittenOnce == \A p \in Commands \X Stores : wrote[p] <= 1 + restarts

\* A command answered with an error changed nothing, unless a backend failed half
\* way or the mastermind restarted: the checks of all backends precede all writes.
RejectedIsHarmless ==
    \A c \in Commands :
        remembered[c].result = "error" /\ c \notin broken.commands /\ restarts = 0
            => \A b \in Stores : wrote[<<c, b>>] = 0

\* The client never hears both that a command was done and that it was refused,
\* within one life of the mastermind.
AnswersAgree == \A c \in Commands : restarts = 0 => Cardinality(heard[c]) <= 1
\* What a command is answered is what was done, however often it is delivered.
AnswerIsTrue == AcknowledgedIsWritten /\ WrittenOnce /\ RejectedIsHarmless /\ AnswersAgree

\* A write that expects version v overwrites the status the client was told v stands
\* for.  What the code does not promise is left out by name: a status that has no
\* version (broken.stores), as its write was reported failed or the comment behind it
\* was, is overwritten by the next command that expects the old version, though
\* nobody was told of it; a restarted mastermind counts from zero and meets v again.
ExpectedIsOverwritten ==
    [][\A c \in Commands, b \in Stores :
           wrote'[<<c, b>>] > wrote[<<c, b>>] /\ basis[c].store = b
           /\ b \notin broken.stores /\ restarts = 0
               => holder[b] = basis[c].by]_statusVars
===============================================================================
