------------------------------- MODULE TaskGates --------------------------------
(* The checks a task passes on its way through runTask (internal/agent/loop.go,   *)
(* internal/task_quality): its description is scored and its dependencies are     *)
(* looked up before anything runs; in TDD mode tests must fail first; what an     *)
(* implementation leaves is reviewed, and checked by tools.  AgentLoop leaves the *)
(* answers open; here they follow from the task and from what the runs say.       *)
EXTENDS Integers, FiniteSets

CONSTANTS
    GateOptions,    \* the options of the loop, see Options below
    Descriptions,   \* what tasks say, see Description below
    MaxTaskRetries  \* MaxRetries

NoScore == -1

\* quality and qc are sets of tools, threshold is QualityGateThreshold.
Options(o) == DOMAIN o = {"quality", "threshold", "allowLow", "tdd", "review", "qc", "fallback"}

\* The filled sections and the signs the analyzer looks for in them; the scores in the metadata;
\* and how many of the dependencies exist, and how many do not.
Description(d) == DOMAIN d = {"sections", "signs", "quality", "coverage", "known", "unknown"}

VARIABLES
    options, described,
    stand,    \* the check that comes next, or how the task ended
    lookups,  \* dependencies still to look up, those that exist and those that do not
    missed,   \* dependencies that could not be resolved so far
    using,    \* the model
    tries,    \* retries after a review, and after an implementation that failed
    failure,  \* the last result that was not a success: of what run, and its reason
    rejected, \* reviewFailed: the last review did not pass
    passed,   \* history: what the work of the last implementation has passed
    failures, \* history: reviews and implementations that failed
    hiccups,  \* history: lookups of an existing dependency that failed
    excused   \* history: the reason the model was changed for

gateVars == <<options, described, stand, lookups, missed, using, tries, failure, rejected,
              passed, failures, hiccups, excused>>

-------------------------------------------------------------------------------
(* AssessTaskQuality. *)

Sections == {"Title", "Description", "Acceptance Criteria", "Deliverables", "Testing Plan",
             "Definition of Done", "Dependencies/Context"}
ClaritySigns == {"plain", "long", "given", "scope", "deterministic", "depends", "test"}
Signs == ClaritySigns \cup {"command", "risks"}

ASSUME GatesAssumption ==
    /\ \A o \in GateOptions : Options(o) /\ o.threshold \in Int
    /\ \A d \in Descriptions :
          /\ Description(d)
          /\ d.sections \subseteq Sections /\ d.signs \subseteq Signs
          /\ d.quality \in Int /\ d.coverage \in Int /\ d.known \in Nat /\ d.unknown \in Nat
    /\ MaxTaskRetries \in Nat

\* Dependencies in the metadata fill the section, but do not speak of a dependency.
Filled(d) == d.sections \cup (IF d.known + d.unknown > 0 THEN {"Dependencies/Context"} ELSE {})

RequiredFieldScore(d) == 3 * Cardinality(Filled(d)) + (IF Filled(d) = Sections THEN 2 ELSE 0)

ClarityScore(d) ==
    LET found == Cardinality(d.signs \cap ClaritySigns)
    IN  3 * found + (IF found = 6 THEN 2 ELSE 0)

\* Criteria that the testing plan does not cover are reported and cost nothing.
AcceptanceCoverageScore(d) ==
    IF "Acceptance Criteria" \notin d.sections THEN 0 ELSE IF "given" \in d.signs THEN 20 ELSE 10

ValidationRigorScore(d) ==
    IF "Testing Plan" \notin d.sections THEN 0 ELSE IF "command" \in d.signs THEN 20 ELSE 10

AssessTaskQuality(d) ==
    LET sum == RequiredFieldScore(d) + ClarityScore(d) + AcceptanceCoverageScore(d)
                 + ValidationRigorScore(d) + (IF "risks" \in d.signs THEN 20 ELSE 0)
    IN  IF sum > 100 THEN 100 ELSE sum

-------------------------------------------------------------------------------
(* runQualityGate. *)

Uses(tool) == tool \in options.quality
Threshold == IF options.threshold <= 0 THEN 70 ELSE options.threshold

\* Without tools the scores in the metadata are taken, that of the coverage first.
QualityScore ==
    IF options.quality = {}
    THEN IF described.coverage # NoScore THEN described.coverage ELSE described.quality
    ELSE LET base == IF Uses("task_validator") THEN AssessTaskQuality(described)
                     ELSE IF described.quality # NoScore THEN described.quality ELSE 100
             rest == base - 20 * missed
         IN  IF rest < 0 THEN 0 ELSE rest

\* The metadata has a score, or a tool gives one.
HasScore == options.quality # {} \/ described.coverage # NoScore \/ described.quality # NoScore

Reasons == {"tool", "review", "review of a tool", "other"}

\* isRecoverableModelFailureReason: what a review says is not, whatever else is in it.
Recoverable(reason) == reason = "tool"

IsReviewReason(reason) == reason \in {"review", "review of a tool"}

-------------------------------------------------------------------------------

GatesTypeOK ==
    /\ Options(options) /\ Description(described)
    /\ described.sections \subseteq Sections /\ described.signs \subseteq Signs
    /\ stand \in {"quality", "tdd", "implement", "review", "verdict", "qc", "landing", "decide",
                  "closed", "blocked", "failed", "error"}
    /\ lookups.known \in 0..described.known /\ lookups.unknown \in 0..described.unknown
    /\ missed \in 0..(described.known + described.unknown)
    /\ tries.review \in 0..MaxTaskRetries /\ tries.completion \in 0..MaxTaskRetries

GatesInit ==
    /\ options \in GateOptions /\ described \in Descriptions
    /\ stand = "quality"
    /\ lookups = [known |-> described.known, unknown |-> described.unknown] /\ missed = 0
    /\ using = "usual"
    /\ tries = [review |-> 0, completion |-> 0]
    /\ failure = [of |-> "none", reason |-> "none"] /\ rejected = FALSE
    /\ passed = {} /\ failures = [review |-> 0, completion |-> 0] /\ hiccups = 0
    /\ excused = "none"

Static == UNCHANGED <<options, described>>
BeforeRuns == UNCHANGED <<using, tries, failure, rejected, passed, failures, excused>>
AfterGates == Static /\ UNCHANGED <<lookups, missed, hiccups>>

\* evaluateTaskDependencies: a lookup that fails counts like a dependency that does not exist.
LookUp ==
    /\ stand = "quality" /\ Uses("dependency_checker")
    /\ \/ /\ lookups.known > 0
          /\ lookups' = [lookups EXCEPT !.known = @ - 1]
          /\ \/ UNCHANGED <<missed, hiccups>>
             \/ missed' = missed + 1 /\ hiccups' = hiccups + 1
       \/ /\ lookups.unknown > 0
          /\ lookups' = [lookups EXCEPT !.unknown = @ - 1]
          /\ missed' = missed + 1 /\ UNCHANGED hiccups
    /\ UNCHANGED stand /\ Static /\ BeforeRuns

QualityGate ==
    /\ stand = "quality"
    /\ Uses("dependency_checker") => lookups.known = 0 /\ lookups.unknown = 0
    /\ stand' = IF HasScore /\ QualityScore < Threshold /\ ~options.allowLow THEN "blocked" ELSE "tdd"
    /\ UNCHANGED <<lookups, missed, hiccups>> /\ Static /\ BeforeRuns

\* hasTestsForTDDMode: no tests, tests that pass, tests that fail, or they cannot be run.
TddGate ==
    /\ stand = "tdd"
    /\ stand' \in (IF options.tdd THEN {"blocked", "implement", "error"} ELSE {"implement"})
    /\ AfterGates /\ BeforeRuns

\* The implementation changes the work, and completes, says it is blocked, or fails.
Implement ==
    /\ stand = "implement"
    /\ passed' = {} /\ rejected' = FALSE
    /\ \/ stand' = (IF options.review THEN "review" ELSE "qc") /\ UNCHANGED <<failure, failures>>
       \/ stand' = "blocked" /\ UNCHANGED <<failure, failures>>
       \/ \E r \in Reasons :
            /\ stand' = "decide" /\ failure' = [of |-> "implementation", reason |-> r]
            /\ failures' = IF IsReviewReason(r) THEN [failures EXCEPT !.review = @ + 1]
                           ELSE [failures EXCEPT !.completion = @ + 1]
    /\ AfterGates /\ UNCHANGED <<using, tries, excused>>

\* Mutant: a review that completes without a verdict has passed.
Review_AnyVerdict ==
    /\ stand \in {"review", "verdict"}
    /\ stand' = "qc"
    /\ \/ passed' = passed \cup {"review"}
       \/ UNCHANGED passed
    /\ UNCHANGED <<failure, failures, rejected>>
    /\ AfterGates /\ UNCHANGED <<using, tries, excused>>

\* A review passes with an explicit verdict only; one that completes without any is asked for it
\* once.  A review that itself fails counts as one that rejects.
Review ==
    /\ stand \in {"review", "verdict"}
    /\ \/ /\ stand' = "qc" /\ passed' = passed \cup {"review"}
          /\ UNCHANGED <<failure, failures, rejected>>
       \/ stand = "review" /\ stand' = "verdict" /\ UNCHANGED <<passed, failure, failures, rejected>>
       \/ stand' = "blocked" /\ UNCHANGED <<passed, failure, failures, rejected>>
       \/ \E r \in Reasons :
            /\ stand' = "decide" /\ failure' = [of |-> "review", reason |-> r] /\ rejected' = TRUE
            /\ failures' = [failures EXCEPT !.review = @ + 1] /\ UNCHANGED passed
    /\ AfterGates /\ UNCHANGED <<using, tries, excused>>

\* runQCGate: a tool that cannot be run is an error, one that fails blocks the task.  The verdict
\* it would look at too is in the review's result, and it is given the implementation's.
QCGate ==
    /\ stand = "qc"
    /\ \/ options.qc # {} /\ stand' \in {"error", "blocked"} /\ UNCHANGED passed
       \/ stand' = "landing" /\ passed' = passed \cup options.qc
    /\ AfterGates /\ UNCHANGED <<using, tries, failure, rejected, failures, excused>>

\* The work is merged; if that takes an agent to resolve a conflict, what it leaves is not checked.
Land ==
    /\ stand = "landing"
    /\ \/ stand' = "blocked" /\ UNCHANGED passed
       \/ stand' = "closed" /\ (UNCHANGED passed \/ passed' = {"remediation"})
    /\ AfterGates /\ UNCHANGED <<using, tries, failure, rejected, failures, excused>>

FallsBack == ~rejected /\ using = "usual" /\ options.fallback /\ Recoverable(failure.reason)

\* A failure of the runs: the other model is tried once, then the retries of its kind.
Decide ==
    /\ stand = "decide"
    /\ LET kind == IF rejected \/ IsReviewReason(failure.reason) THEN "review" ELSE "completion"
       IN  IF FallsBack
           THEN using' = "fallback" /\ excused' = failure.reason /\ stand' = "implement" /\ UNCHANGED tries
           ELSE /\ UNCHANGED <<using, excused>>
                /\ IF tries[kind] < MaxTaskRetries
                   THEN stand' = "implement" /\ tries' = [tries EXCEPT ![kind] = @ + 1]
                   ELSE stand' = (IF kind = "review" THEN "failed" ELSE "blocked") /\ UNCHANGED tries
    /\ AfterGates /\ UNCHANGED <<failure, rejected, passed, failures>>

GatesNext ==
    \/ LookUp \/ QualityGate \/ TddGate
    \/ Implement \/ Review \/ QCGate \/ Land \/ Decide

GatesSpec == GatesInit /\ [][GatesNext]_gateVars

-------------------------------------------------------------------------------
(* Properties. *)

\* It never pays to say less: filling in a section or adding a sign the analyzer looks for does not
\* lower the score, for all the bonuses that are given for exact counts (AssessTaskQuality).
ScoreIsMonotone ==
    /\ \A s \in Sections :
          AssessTaskQuality([described EXCEPT !.sections = @ \cup {s}]) >= AssessTaskQuality(described)
    /\ \A s \in Signs :
          AssessTaskQuality([described EXCEPT !.signs = @ \cup {s}]) >= AssessTaskQuality(described)

\* A task that says all it should, and whose dependencies all exist, is not blocked before it runs by
\* the validator and the dependency checker, unless a lookup failed: then it may be, for no fault of
\* its own (runQualityGate, evaluateTaskDependencies).
ReadyIsNotBlocked ==
    ( /\ stand = "blocked" /\ failures.review + failures.completion = 0 /\ ~options.tdd
      /\ passed = {} /\ tries.review + tries.completion = 0
      /\ options.quality = {"task_validator", "dependency_checker"} /\ options.threshold <= 100
      /\ Filled(described) = Sections /\ described.signs = Signs /\ described.unknown = 0
      /\ QualityScore < Threshold ) =>
        hiccups > 0

\* What is landed has passed the review and each tool since the last implementation touched it; only
\* an agent that resolved a conflict while landing has changed it since (runTask).
ClosedIsChecked ==
    stand = "closed" =>
        \/ passed = {"remediation"}
        \/ options.qc \subseteq passed /\ (options.review => "review" \in passed)

\* The model is changed for a failure of the model or its tools and for nothing a review said, even
\* when the review speaks of tools (isRecoverableModelFailureReason).
FallbackIsEarned == using = "fallback" => excused = "tool"

\* Each kind of retry is used up only by failures of its kind: a rejected review costs no retry of
\* the implementation's, and the other way round (reviewFailed, runTask).
RetriesAreOwn == tries.review <= failures.review /\ tries.completion <= failures.completion
\* No task gets past its checks unchecked, none is held back by saying more, and what a failure
\* costs is of its own kind.
GatesHold == ScoreIsMonotone /\ ReadyIsNotBlocked /\ ClosedIsChecked /\ FallbackIsEarned /\ RetriesAreOwn
================================================================================
