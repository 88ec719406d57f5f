------------------------------ MODULE LoadStep ------------------------------
(***************************************************************************)
(* A traffic step: executeLoadStep and the statistics it collects.         *)
(*                                                                         *)
(* The plan's stages run one after the other.  Without a sidecar, or for a *)
(* symbolic target, the runner records bounded synthetic results itself,   *)
(* one batch a second; otherwise the sidecar's traffic cannon answers with *)
(* five percentiles, from which a histogram is rebuilt.  The thresholds of *)
(* the plan and of its tasks are then held against the summary.  A counter *)
(* of a histogram is the set of the samples it has counted, by number.     *)
(*                                                                         *)
(* Milliseconds are integers, as in the code; the values a threshold is    *)
(* compared with are fractions (Ratio), since averages and error rates are *)
(* floats there.                                                           *)
(***************************************************************************)
EXTENDS Integers, FiniteSets, Sequences, Functions

CONSTANTS
    LoadPlans,    \* the plans to choose from: variant, target, gateway, stages, thresholds,
                  \* checks, and the sampler names of the users' tasks (none without users)
    Latencies,    \* the latencies a request may show, in milliseconds
    Totals        \* how many requests the traffic cannon may say it sent

ASSUME LoadAssumption == Latencies \subseteq Nat /\ Totals \subseteq Nat

VARIABLES
    plan,         \* the step's LoadSpec
    stats,        \* loadStats: requests, failures, peakUsers, lat, perSecond, samplers, stages,
                  \* and the seconds from StartedAt to FinishedAt
    samples,      \* every latency recorded, for comparison (history)
    stageAt,      \* the stage that runs, 0 before the first
    ended,        \* the stages that have ended
    tick,         \* the seconds left of that stage
    due,          \* the results left of this second's batch
    clock,        \* seconds since the step began
    lastPassing,  \* the users of the last scalability probe that passed
    verdict       \* running, ok, failed, canceled

loadVars == <<plan, stats, samples, stageAt, ended, tick, due, clock, lastPassing, verdict>>

MaxOf(a, b) == IF a >= b THEN a ELSE b

\* m[k] += n
Bump(m, k, n) == IF k \in DOMAIN m THEN [m EXCEPT ![k] = @ + n]
                 ELSE [x \in DOMAIN m \cup {k} |-> IF x = k THEN n ELSE m[x]]

NoMap == [x \in {} |-> 0]

-----------------------------------------------------------------------------
\* latencyBuckets.

BucketLatencyMs(ms) ==
    IF ms < 100 THEN MaxOf(ms, 0)
    ELSE IF ms < 1000 THEN (ms \div 10) * 10
    ELSE IF ms < 10000 THEN (ms \div 100) * 100
    ELSE (ms \div 1000) * 1000

NoLatencies == [m |-> NoMap, count |-> 0, sumMs |-> 0, minMs |-> 0, maxMs |-> 0]

\* The bucket k counts one more sample.
Count(m, k, sample) ==
    [x \in DOMAIN m \cup {k} |-> (IF x \in DOMAIN m THEN m[x] ELSE {}) \cup (IF x = k THEN {sample} ELSE {})]

AddMs(b, ms) ==
    [m |-> Count(b.m, BucketLatencyMs(ms), b.count + 1), count |-> b.count + 1, sumMs |-> b.sumMs + ms,
     minMs |-> IF b.count = 0 \/ ms < b.minMs THEN ms ELSE b.minMs, maxMs |-> MaxOf(b.maxMs, ms)]

\* Mutant: the rank truncated instead of rounded up.
RankTruncated(p, n) == MaxOf(1, (p * n) \div 100)

\* The rank the p-th percentile of n samples has.
Rank(p, n) == MaxOf(1, (p * n + 99) \div 100)

Percentile(b, p) ==
    IF b.count = 0 THEN 0
    ELSE LET upTo(k) == UNION {b.m[j] : j \in {i \in DOMAIN b.m : i <= k}}
             reach   == {k \in DOMAIN b.m : Cardinality(upTo(k)) >= Rank(p, b.count)}
         IN  IF reach = {} THEN CHOOSE k \in DOMAIN b.m : \A j \in DOMAIN b.m : j <= k
             ELSE CHOOSE k \in reach : \A j \in reach : k <= j

\* The four ranges between the sidecar's percentiles, with their share in per
\* cent; a share is rounded half up, so the shares need not add up to n.
SyntheticBuckets(r) ==
    LET range == <<<<r.min, r.p50, 50>>, <<r.p50, r.p95, 45>>, <<r.p95, r.p99, 4>>, <<r.p99, r.max, 1>>>>
        share(i) == (range[i][3] * r.total + 50) \div 100
        middle(i) == (range[i][1] + range[i][2] + 1) \div 2
        made == UNION {{i} \X (1..share(i)) : i \in 1..4}
        key(sample) == BucketLatencyMs(middle(sample[1]))
    IN  IF r.total = 0 THEN NoLatencies
        ELSE [m |-> [k \in {key(sample) : sample \in made} |-> {sample \in made : key(sample) = k}],
              count |-> share(1) + share(2) + share(3) + share(4),
              sumMs |-> middle(1) * share(1) + middle(2) * share(2) + middle(3) * share(3) + middle(4) * share(4),
              minMs |-> MaxOf(r.min, 0), maxMs |-> r.max]

-----------------------------------------------------------------------------
\* loadStats.

NoStats == [requests |-> 0, failures |-> 0, peakUsers |-> 0, lat |-> NoLatencies,
            perSecond |-> NoMap, samplers |-> <<>>, stages |-> NoMap, seconds |-> 0]

\* recordResult: the totals, the second, the sampler and the stage.  Every second
\* has a batch, and no time passes within one.
RecordResult(st, sampler, ms, failed) ==
    [st EXCEPT !.requests = @ + 1, !.failures = IF failed THEN @ + 1 ELSE @,
               !.lat = AddMs(@, ms), !.perSecond = Bump(@, clock, 1),
               !.seconds = Cardinality(DOMAIN st.perSecond \cup {clock}) - 1,
               !.samplers = [x \in DOMAIN @ \cup {sampler} |->
                   IF x # sampler THEN @[x]
                   ELSE AddMs(IF x \in DOMAIN @ THEN @[x] ELSE NoLatencies, ms)],
               !.stages = Bump(@, stageAt, 1)]

\* applyAPISIXResult: totals and one stage, no sampler.
ApplyAPISIXResult(st, r) ==
    [st EXCEPT !.requests = r.total, !.failures = r.failures, !.lat = SyntheticBuckets(r),
               !.stages = Bump(NoMap, 0, r.total), !.peakUsers = MaxOf(@, r.total),
               !.seconds = r.seconds]

-----------------------------------------------------------------------------
\* Thresholds.  A metric's value is a fraction <<numerator, denominator>>.

Compare(ratio, op, value) ==
    LET left == ratio[1]  right == value * ratio[2]
    IN  \/ op = "==" /\ left = right
        \/ op = "!=" /\ left # right
        \/ op = "<" /\ left < right
        \/ op = "<=" /\ left <= right
        \/ op = ">" /\ left > right
        \/ op = ">=" /\ left >= right

ErrorRate(st) == IF st.requests = 0 THEN <<0, 1>> ELSE <<st.failures, st.requests>>

LatencyMetrics == {"min_ms", "avg_ms", "max_ms", "p50_ms", "p90_ms", "p95_ms", "p99_ms"}

\* summarizeRPS.
PeakRPS(st) ==
    <<IF DOMAIN st.perSecond = {} THEN 0
      ELSE st.perSecond[CHOOSE k \in DOMAIN st.perSecond :
              \A j \in DOMAIN st.perSecond : st.perSecond[j] <= st.perSecond[k]], 1>>

AverageRPS(st) == IF st.seconds = 0 THEN PeakRPS(st) ELSE <<st.requests, st.seconds>>

\* Mutant: no sample is no reason to fail.
MetricOfNothing(st, t) == t.sampler = "all" \/ t.sampler \in DOMAIN st.samplers

\* metricValue of a latency metric; a sampler nobody recorded has no value.
HasMetric(st, t) ==
    IF t.sampler = "all" THEN st.lat.count > 0
    ELSE t.sampler \in DOMAIN st.samplers /\ st.samplers[t.sampler].count > 0

MetricValue(st, t) ==
    LET b == IF t.sampler = "all" THEN st.lat ELSE st.samplers[t.sampler]
    IN  CASE t.metric = "min_ms" -> <<b.minMs, 1>>
          [] t.metric = "avg_ms" -> <<b.sumMs, b.count>>
          [] t.metric = "max_ms" -> <<b.maxMs, 1>>
          [] t.metric = "p50_ms" -> <<Percentile(b, 50), 1>>
          [] t.metric = "p90_ms" -> <<Percentile(b, 90), 1>>
          [] t.metric = "p95_ms" -> <<Percentile(b, 95), 1>>
          [] t.metric = "p99_ms" -> <<Percentile(b, 99), 1>>

\* Mutant: only what the plan says, no default error rate.
ThresholdsAsPlanned == plan.thresholds \cup {c \in plan.checks : c.metric # "status"}

\* The plan's thresholds, an error rate of 0 unless it names its own, and the
\* checks of its tasks, each for the task's own sampler.  A status check is a
\* check of one request, not of the summary.
Thresholds ==
    plan.thresholds
    \cup (IF \E t \in plan.thresholds : t.metric = "error_rate" THEN {}
          ELSE {[metric |-> "error_rate", op |-> "<=", value |-> 0, sampler |-> "all"]})
    \cup {c \in plan.checks : c.metric # "status"}

\* A metric nobody knows is skipped.
ThresholdHolds(st, t) ==
    /\ t.metric = "error_rate" => Compare(ErrorRate(st), t.op, t.value)
    /\ t.metric \in LatencyMetrics => HasMetric(st, t) /\ Compare(MetricValue(st, t), t.op, t.value)
    /\ t.metric = "peak_rps" => Compare(PeakRPS(st), t.op, t.value)
    /\ t.metric = "avg_rps" => Compare(AverageRPS(st), t.op, t.value)

ThresholdsHold(st) == \A t \in Thresholds : ThresholdHolds(st, t)

-----------------------------------------------------------------------------
\* The run.

\* executeLoadStep: a symbolic target never goes to the sidecar, nor does a
\* scalability plan.
UsesSidecar == plan.variant # "scalability" /\ ~plan.symbolic /\ plan.gateway

LoadInit ==
    /\ plan \in LoadPlans
    /\ stats = NoStats /\ samples = <<>> /\ stageAt = 0 /\ ended = 0 /\ tick = 0 /\ due = 0 /\ clock = 0
    /\ lastPassing = 0 /\ verdict = "running"

\* A stage may end the plan early.
LastStage == ended = Len(plan.stages) \/ (ended > 0 /\ plan.stages[ended].stop)

\* The results of a second of a stage: without users in the plan it is one.
Iterations(stage) == IF plan.tasks = {} THEN 1 ELSE MaxOf(1, plan.stages[stage].users)

\* The sampler of a result and its latency, which is 45 ms without a task.
SyntheticSamples == IF plan.tasks = {} THEN {"synthetic"} \X {45} ELSE plan.tasks \X Latencies

\* beginStage and recordActiveUsers.  A scalability probe has statistics of its
\* own, and takes no notice of stop.
BeginStage ==
    /\ verdict = "running" /\ ~UsesSidecar
    /\ ended = stageAt /\ stageAt < Len(plan.stages)
    /\ plan.variant = "scalability" \/ ~LastStage
    /\ stageAt' = stageAt + 1 /\ tick' = MaxOf(1, plan.stages[stageAt + 1].seconds)
    /\ due' = Iterations(stageAt + 1)
    /\ stats' = [(IF plan.variant = "scalability" THEN NoStats ELSE stats)
                    EXCEPT !.peakUsers = MaxOf(@, plan.stages[stageAt + 1].users)]
    /\ samples' = IF plan.variant = "scalability" THEN <<>> ELSE samples
    /\ UNCHANGED <<plan, ended, clock, lastPassing, verdict>>

\* One result of a batch of runSyntheticStage, which never fails; a second goes
\* by between two batches, none after the last of a stage.
SyntheticResult ==
    /\ verdict = "running" /\ due > 0
    /\ \E x \in SyntheticSamples :
          stats' = RecordResult(stats, x[1], x[2], FALSE) /\ samples' = Append(samples, x[2])
    /\ due' = IF due > 1 THEN due - 1 ELSE IF tick > 1 THEN Iterations(stageAt) ELSE 0
    /\ tick' = IF due > 1 THEN tick ELSE tick - 1
    /\ clock' = IF due = 1 /\ tick > 1 THEN clock + 1 ELSE clock
    /\ UNCHANGED <<plan, stageAt, ended, lastPassing, verdict>>

\* The context ends between two batches.
LoadCanceled ==
    /\ verdict = "running" /\ (UsesSidecar \/ (tick > 0 /\ due = Iterations(stageAt)))
    /\ verdict' = "canceled"
    /\ UNCHANGED <<plan, stats, samples, stageAt, ended, tick, due, clock, lastPassing>>

\* endStage.  The first scalability probe that breaks a threshold ends the
\* step, which passes all the same.
EndStage ==
    /\ verdict = "running" /\ ended < stageAt /\ tick = 0
    /\ ended' = stageAt
    /\ lastPassing' = IF plan.variant = "scalability" /\ ThresholdsHold(stats)
                      THEN plan.stages[stageAt].users ELSE lastPassing
    /\ verdict' = IF plan.variant = "scalability" /\ (stageAt = Len(plan.stages) \/ ~ThresholdsHold(stats))
                  THEN "ok" ELSE verdict
    /\ UNCHANGED <<plan, stats, samples, stageAt, tick, due, clock>>

\* Bound: the seconds the traffic cannon may take.
Seconds == 1..2

\* The sidecar's answer, or none.
SidecarAnswers ==
    /\ verdict = "running" /\ UsesSidecar
    /\ \/ verdict' = "failed" /\ UNCHANGED stats
       \/ \E lo \in Latencies, hi \in Latencies, n \in Totals, sec \in Seconds : \E f \in 0..n :
            /\ lo <= hi
            /\ stats' = ApplyAPISIXResult(stats,
                  [total |-> n, failures |-> f, min |-> lo, p50 |-> lo, p95 |-> hi, p99 |-> hi, max |-> hi,
                   seconds |-> sec])
            /\ verdict' = IF ThresholdsHold(stats') THEN "ok" ELSE "failed"
    /\ UNCHANGED <<plan, samples, stageAt, ended, tick, due, clock, lastPassing>>

FinalizeLoadStep ==
    /\ verdict = "running" /\ ~UsesSidecar /\ plan.variant # "scalability"
    /\ ended = stageAt /\ LastStage
    /\ verdict' = IF ThresholdsHold(stats) THEN "ok" ELSE "failed"
    /\ UNCHANGED <<plan, stats, samples, stageAt, ended, tick, due, clock, lastPassing>>

LoadNext == BeginStage \/ SyntheticResult \/ LoadCanceled \/ EndStage \/ SidecarAnswers \/ FinalizeLoadStep

LoadSpec == LoadInit /\ [][LoadNext]_loadVars

-----------------------------------------------------------------------------
\* Properties.

\* The percentile read from the coarsened histogram is the bucket of the sample
\* that has that rank among all samples: coarsening may round a latency down to
\* its bucket, but never picks another sample.
PercentileIsOfASample ==
    samples # <<>> => \A p \in {50, 90, 95, 99} :
        LET ranked(ms) == Cardinality({i \in DOMAIN samples : samples[i] <= ms})
            target == (p * Len(samples) + 99) \div 100
            exact == CHOOSE ms \in Range(samples) :
                        ranked(ms) >= target /\ \A o \in Range(samples) : ranked(o) >= target => ms <= o
        IN  Percentile(stats.lat, p) = BucketLatencyMs(exact)

\* A failed request fails the step, unless the plan names an error rate of its own.
FailuresFailTheStep ==
    verdict = "ok" /\ stats.failures > 0 => \E t \in plan.thresholds : t.metric = "error_rate"

\* A step whose plan limits the latency of all requests does not pass without
\* having sent any: the percentile of no sample is 0, below every limit.
SilencePassesNoLimit ==
    verdict = "ok" /\ plan.variant # "scalability"
        /\ (\E t \in plan.thresholds : t.metric \in LatencyMetrics /\ t.sampler = "all")
            => stats.requests > 0

\* A traffic step is judged by the requests it sent: failures fail it, the
\* percentiles its thresholds read are those of its samples, and where there are
\* none no limit of a latency holds.
LoadVerdictSound == PercentileIsOfASample /\ FailuresFailTheStep /\ SilencePassesNoLimit
=============================================================================
