----------------------------- MODULE ExecutorConfig -----------------------------
(* An executor's pipeline configuration: what the loader accepts, and the watcher  *)
(* that polls the file (internal/distributed/executor_config.go).                  *)
EXTENDS Integers, FiniteSets

Stage == {"quality_gate", "execute", "qc_gate", "complete"}

\* A field that is missing, or has the wrong type, is "absent".
Action == {"next", "retry", "fail", "complete"}

\* The last one is written without the spaces around its operator.
Condition ==
    {"true", "false", "tests_failed", "review_failed", "quality_score >= threshold",
     "quality_score>=threshold"}

AcceptedTransition(t) ==
    /\ t.action \in Action
    /\ t.condition \in Condition
    /\ IF t.action = "next" THEN t.next_stage \in Stage ELSE t.next_stage = "absent"

AcceptedRetry(r) ==
    /\ r.max_attempts >= 1
    /\ r.initial_delay >= 0 /\ r.backoff >= 0 /\ r.max_delay >= 0

AcceptedStage(s) ==
    /\ s.tools > 0
    /\ AcceptedRetry(s.retry)
    /\ AcceptedTransition(s.on_success) /\ AcceptedTransition(s.on_failure)

\* Exactly the four stages, each of them well formed.
AcceptedConfig(pipeline) ==
    /\ DOMAIN pipeline = Stage
    /\ \A s \in Stage : AcceptedStage(pipeline[s])

-------------------------------------------------------------------------------
(* The watcher.  A file's content is a version of a configuration, good or not;   *)
(* the callback is told a version, that it is invalid, or that reading failed.     *)
CONSTANTS
    GoodFiles, BadFiles,  \* contents that load, and that do not
    MaxFileChanges        \* bound: changes of the file

\* A content loads or does not, and is none of the words that stand for something else.
ASSUME FilesAssumption ==
    /\ GoodFiles \cap BadFiles = {}
    /\ (GoodFiles \cup BadFiles) \cap {"unreadable", "invalid", "none", "nothing"} = {}

VARIABLES
    file,         \* what a read returns: a content, or "unreadable"
    checksum,     \* the content loadAndEmit saw last, "none" at first
    reported,     \* lastErr: the error last reported, "none" or "unreadable"
    told,         \* what the callback was told last
    fileChanges

watchVars == <<file, checksum, reported, told, fileChanges>>

WatchInit ==
    /\ file \in GoodFiles \cup BadFiles \cup {"unreadable"}
    /\ checksum = "none" /\ reported = "none" /\ told = "nothing"
    /\ fileChanges = 0

ChangeFile ==
    /\ fileChanges < MaxFileChanges
    /\ file' \in (GoodFiles \cup BadFiles \cup {"unreadable"}) \ {file}
    /\ fileChanges' = fileChanges + 1
    /\ UNCHANGED <<checksum, reported, told>>

\* Mutant: a content that does not load is remembered before it is reported.
LoadAndEmit_SilentInvalid ==
    /\ \/ /\ file = "unreadable" /\ reported # "unreadable"
          /\ reported' = "unreadable" /\ told' = "unreadable"
          /\ UNCHANGED checksum
       \/ /\ file # "unreadable" /\ file # checksum
          /\ checksum' = file
          /\ reported' = "none"
          /\ told' = IF file \in GoodFiles THEN file ELSE told
    /\ UNCHANGED <<file, fileChanges>>

\* An error is reported once; a content is reported when it differs from the one seen
\* last, whether or not an error was reported in between.
LoadAndEmit ==
    /\ \/ /\ file = "unreadable" /\ reported # "unreadable"
          /\ reported' = "unreadable" /\ told' = "unreadable"
          /\ UNCHANGED checksum
       \/ /\ file # "unreadable" /\ file # checksum
          /\ checksum' = file
          /\ reported' = "none"
          /\ told' = IF file \in GoodFiles THEN file ELSE "invalid"
    /\ UNCHANGED <<file, fileChanges>>

WatchNext == ChangeFile \/ LoadAndEmit

\* What a content or a failed read means to the callback.
Meaning(content) == IF content \in BadFiles THEN "invalid" ELSE content

\* A poll has nothing to say.
Quiet == IF file = "unreadable" THEN reported = "unreadable" ELSE file = checksum

\* When a poll has nothing more to say, the callback knows what the file holds; except
\* that it is not told when a file it was told unreadable is back as it was, nor when
\* such a file is unreadable again.
WatcherIsCurrent ==
    Quiet /\ Meaning(file) # told => reported = "unreadable"
===============================================================================
