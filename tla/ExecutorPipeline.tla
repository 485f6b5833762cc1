---------------------------- MODULE ExecutorPipeline ----------------------------
(* One request through the stages of an accepted configuration:                    *)
(* ExecutorPipeline.Execute (internal/distributed/executor_pipeline.go).           *)
EXTENDS ExecutorConfig

CONSTANTS
    Configs,   \* configurations to try; the accepted ones are run
    MaxRuns    \* bound: runs of one stage

\* The attempts of a stage are an integer, whatever the file says.
ASSUME PipelineAssumption ==
    /\ MaxRuns \in Nat
    /\ \A c \in Configs : \A s \in DOMAIN c : c[s].retry.max_attempts \in Int

VARIABLES
    config,    \* the configuration of this request
    stage,     \* currentStage
    progress,  \* where Execute is
    runs,      \* stageRuns
    entries,   \* history: [Stage -> times the pipeline came to it]
    failures,  \* attemptFailures: attempts that failed since the stage was entered
    meta,      \* pipelineMetadata, as far as conditions read it
    cancelled, \* the request's context
    verdict    \* what Execute returned

pipelineVars ==
    <<config, stage, progress, runs, entries, failures, meta, cancelled, verdict>>

Unset == [tests_failed |-> "unset", review_failed |-> "unset", quality_score |-> "unset",
          threshold |-> "unset"]

\* What a stage's artifacts may change: nothing, a flag, or the score.
Artifacts ==
    {<<>>} \cup {[tests_failed |-> v] : v \in {"true", "false", "garbled"}}
           \cup {[review_failed |-> "true"]}
           \cup {[quality_score |-> "high", threshold |-> "set"], [quality_score |-> "low"]}

Merge(base, extra) == [k \in DOMAIN base |-> IF k \in DOMAIN extra THEN extra[k] ELSE base[k]]

\* evaluateExecutorCondition.
Flag(value) ==
    CASE value = "unset" -> "no" [] value = "true" -> "yes" [] value = "false" -> "no"
      [] OTHER -> "error"

Evaluate(condition, m) ==
    CASE condition = "true"  -> "yes"
      [] condition = "false" -> "no"
      [] condition \in {"tests_failed", "review_failed"} -> Flag(m[condition])
      [] condition = "quality_score >= threshold" ->
            IF m.quality_score = "unset" \/ m.threshold = "unset" THEN "error"
            ELSE IF m.quality_score = "high" THEN "yes" ELSE "no"
      [] OTHER -> "error"

PipelineInit ==
    /\ config \in {c \in Configs : AcceptedConfig(c)}
    /\ stage = "quality_gate"
    /\ progress = "enter"
    /\ runs = [s \in Stage |-> 0]
    /\ entries = [s \in Stage |-> 0]
    /\ failures = 0
    /\ meta = Unset
    /\ cancelled = FALSE
    /\ verdict = "none"

Return(result) == progress' = "done" /\ verdict' = result

Stay == UNCHANGED verdict

\* Mutant: failures of earlier stages count on.
StartAttempt_KeepsFailures ==
    /\ progress \in {"enter", "again"}
    /\ runs[stage] < MaxRuns
    /\ runs' = [runs EXCEPT ![stage] = @ + 1]
    /\ entries' = [entries EXCEPT ![stage] = IF progress = "enter" THEN @ + 1 ELSE @]
    /\ IF cancelled THEN Return("cancelled") ELSE progress' = "running" /\ Stay
    /\ UNCHANGED <<config, stage, failures, meta, cancelled>>

\* Every attempt is counted for the whole pipeline, the failures only for this entry.
StartAttempt ==
    /\ progress \in {"enter", "again"}
    /\ runs[stage] < MaxRuns
    /\ runs' = [runs EXCEPT ![stage] = @ + 1]
    /\ entries' = [entries EXCEPT ![stage] = IF progress = "enter" THEN @ + 1 ELSE @]
    /\ failures' = IF progress = "enter" THEN 0 ELSE failures
    /\ IF cancelled THEN Return("cancelled") ELSE progress' = "running" /\ Stay
    /\ UNCHANGED <<config, stage, meta, cancelled>>

StageCompletes ==
    /\ progress = "running"
    /\ \E a \in Artifacts : meta' = Merge(meta, a)
    /\ LET t == config[stage].on_success
           met == Evaluate(t.condition, meta') IN
       \/ /\ met = "error" /\ Return("bad condition") /\ UNCHANGED stage
       \/ /\ met = "no" /\ Return("condition is false") /\ UNCHANGED stage
       \/ /\ met = "yes" /\ t.action = "next"
          /\ stage' = t.next_stage /\ progress' = "enter" /\ Stay
       \/ /\ met = "yes" /\ t.action = "complete" /\ Return("completed") /\ UNCHANGED stage
       \/ /\ met = "yes" /\ t.action \in {"retry", "fail"}
          /\ Return("bad action") /\ UNCHANGED stage
    /\ UNCHANGED <<config, runs, entries, failures, cancelled>>

StageFails ==
    /\ progress = "running"
    /\ \E a \in Artifacts : meta' = Merge(meta, a)
    /\ failures' = failures + 1
    /\ LET t == config[stage].on_failure
           met == Evaluate(t.condition, meta') IN
       \/ met = "error" /\ Return("bad condition")
       \/ met = "no" /\ Return("condition is false")
       \/ /\ met = "yes" /\ t.action = "retry"
          /\ IF runs[stage] >= config[stage].retry.max_attempts THEN Return("failed")
             ELSE progress' = "waiting" /\ Stay
       \/ met = "yes" /\ t.action = "fail" /\ Return("failed")
       \/ met = "yes" /\ t.action \in {"next", "complete"} /\ Return("bad action")
    /\ UNCHANGED <<config, stage, runs, entries, cancelled>>

\* The delay before the stage's next attempt grows with its attempts, up to a maximum.
RetryDelay ==
    LET retry == config[stage].retry
        grown == retry.initial_delay + (runs[stage] - 1) * retry.backoff IN
    IF retry.max_delay > 0 /\ grown > retry.max_delay THEN retry.max_delay ELSE grown

\* Waits for the delay, or until the context ends; no delay is not waited for at all.
AwaitRetry ==
    /\ progress = "waiting"
    /\ \/ cancelled /\ RetryDelay > 0 /\ Return("cancelled")
       \/ progress' = "again" /\ Stay
    /\ UNCHANGED <<config, stage, runs, entries, failures, meta, cancelled>>

CancelRequest ==
    /\ ~cancelled /\ progress # "done"
    /\ cancelled' = TRUE
    /\ UNCHANGED <<config, stage, progress, runs, entries, failures, meta, verdict>>

PipelineStep == StartAttempt \/ StageCompletes \/ StageFails \/ AwaitRetry

PipelineNext == PipelineStep \/ CancelRequest

-------------------------------------------------------------------------------
PipelineTypeOK ==
    /\ stage \in Stage
    /\ progress \in {"enter", "running", "waiting", "again", "done"}
    /\ runs \in [Stage -> 0 .. MaxRuns] /\ entries \in [Stage -> 0 .. MaxRuns]
    /\ failures \in 0 .. (IF progress = "enter" THEN MaxRuns ELSE runs[stage])
    /\ cancelled \in BOOLEAN
    /\ verdict \in {"none", "completed", "failed", "cancelled", "condition is false",
                    "bad condition", "bad action"}

\* A stage is retried within its budget however often the pipeline comes back to it:
\* the budget is one for the whole request, and each further entry gets one run.
AttemptsWithinBudget ==
    \A s \in Stage : entries[s] > 0 =>
        runs[s] <= config[s].retry.max_attempts + entries[s] - 1

\* A failure is reported with all the attempts of the last entry to the stage.
FailureIsComplete ==
    verdict = "failed" => failures > 0 /\ (entries[stage] = 1 => failures = runs[stage])
\* A stage is tried as often as its budget says, no more and, before it fails, no less.
BudgetIsKept == AttemptsWithinBudget /\ FailureIsComplete

Order == [s \in Stage |-> CASE s = "quality_gate" -> 1 [] s = "execute" -> 2
                            [] s = "qc_gate" -> 3 [] s = "complete" -> 4]

\* A configuration whose successes only lead forward.
Forward ==
    \A s \in Stage : config[s].on_success.action = "next" =>
        Order[config[s].on_success.next_stage] > Order[s]

\* With such a configuration a request under way gets its answer; one that leads back
\* may go round for ever.
PipelineDue  == Forward /\ progress = "running"
PipelineOver == progress = "done"
===============================================================================
