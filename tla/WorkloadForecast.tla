-------------------------- MODULE WorkloadForecast --------------------------
(* The forecast of a project: every selected task is estimated by the      *)
(* model, each estimate committed in a session of its own (side by side on *)
(* PostgreSQL); then the tasks are put in the order of their dependencies, *)
(* the longest chain is found and the calendar computed, and the batch is  *)
(* committed with the estimates marked as previewed.                       *)
EXTENDS Integers, Sequences, FiniteSets, FiniteSetsExt

CONSTANTS
    NTasks,          \* selected records, 1..NTasks in the order of their ids
    Preds,           \* record ids a dependency cell may hold
    Answers,         \* answers of the model: its own <<p50, p90>> and those of its parts
    Attempts,        \* retry.max_attempts of an estimate
    Teams,           \* team sizes and parallel streams
    Days             \* business days until a deadline

VARIABLES
    needs,           \* the dependency cell of each task
    parallel,        \* the database is PostgreSQL and concurrency > 1
    est,             \* status of the WorkloadEstimateRun of each task
    tried,           \* attempts each estimate has used
    hours,           \* its result
    phase,
    unmet,           \* indegree
    order,           \* _topological_order so far
    longest,         \* <<p50, p90>> of the longest chain that ends in a task
    before,          \* previous: the task before it on the p50 chain, 0 for none
    path             \* criticalPathRecordIds

varsForecast == <<needs, parallel, est, tried, hours, phase, unmet, order, longest, before, path>>

Selected == 1..NTasks

(* Dependencies on selected tasks other than itself; the others are only   *)
(* reported (externalDependencies).                                        *)
NeededBy(t) == (needs[t] \cap Selected) \ {t}

InitForecast ==
    /\ needs \in [Selected -> SUBSET Preds]
    /\ parallel \in BOOLEAN
    /\ est = [t \in Selected |-> "none"]
    /\ tried = [t \in Selected |-> 0]
    /\ hours = [t \in Selected |-> <<0, 0>>]
    /\ phase = "estimating"
    /\ unmet = [t \in Selected |-> 0]
    /\ order = << >>
    /\ longest = [t \in Selected |-> <<0, 0>>]
    /\ before = [t \in Selected |-> 0]
    /\ path = << >>

AlgorithmIdle == UNCHANGED <<unmet, order, longest, before, path>>

(* Side by side in any order, or one task after another. *)
MayEstimate(t) ==
    /\ phase = "estimating" \/ (phase = "failed" /\ parallel)
    /\ est[t] = "none" /\ tried[t] < Attempts
    /\ parallel \/ \A u \in 1..(t - 1) : est[u] = "estimated"

(* _normalize_result: neither less than the parts add up to, and p90 not  *)
(* less than p50.                                                          *)
Normalized(a) ==
    LET p50 == Max({a.total[1], a.parts[1]})
    IN  <<p50, Max({a.total[2], a.parts[2], p50})>>

(* validate_output: what it refuses is asked again within the attempt. *)
Valid(a) == a.total[2] >= a.total[1]

(* _persist_result commits the estimate on its own. *)
Persisted(t) == [est EXCEPT ![t] = "estimated"]

(* EstimateWorkloadService.run: an attempt yields an answer that the       *)
(* validator accepts, which is normalised and committed ...                *)
Estimate(t, a) ==
    /\ MayEstimate(t)
    /\ Valid(a)
    /\ est' = Persisted(t)
    /\ hours' = [hours EXCEPT ![t] = Normalized(a)]
    /\ tried' = [tried EXCEPT ![t] = @ + 1]
    /\ UNCHANGED <<needs, parallel, phase>>
    /\ AlgorithmIdle

(* ... or fails; a model that cannot call tools is not asked again. The    *)
(* last failure fails the preview while the estimates beside it go on, and *)
(* estimate_ids is still empty: none is cancelled.                         *)
EstimateFails(t, unsupported) ==
    /\ MayEstimate(t)
    /\ tried' = [tried EXCEPT ![t] = @ + 1]
    /\ IF unsupported \/ tried[t] + 1 = Attempts
       THEN est' = [est EXCEPT ![t] = "gave_up"] /\ phase' = "failed"
       ELSE UNCHANGED <<est, phase>>
    /\ UNCHANGED <<needs, parallel, hours>>
    /\ AlgorithmIdle

(* All are there: marked as previewed in the request's session, and        *)
(* _topological_order counts the unmet dependencies.                       *)
Collect ==
    /\ phase = "estimating"
    /\ \A t \in Selected : est[t] = "estimated"
    /\ est' = [t \in Selected |-> "previewed"]
    /\ unmet' = [t \in Selected |-> Cardinality(NeededBy(t))]
    /\ phase' = "ordering"
    /\ UNCHANGED <<needs, parallel, tried, hours, order, longest, before, path>>

Ordered == {order[i] : i \in DOMAIN order}
Ready == {t \in Selected \ Ordered : unmet[t] = 0}

(* The successors of a task that was taken from the queue. *)
Released(t) == [u \in Selected |-> IF t \in NeededBy(u) THEN unmet[u] - 1 ELSE unmet[u]]

(* The queue is sorted: the smallest id that is ready comes next. *)
Pop ==
    /\ phase = "ordering" /\ Ready # {}
    /\ LET t == Min(Ready)
       IN  order' = Append(order, t) /\ unmet' = Released(t)
    /\ UNCHANGED <<needs, parallel, est, tried, hours, phase, longest, before, path>>

(* The handler of preview: everything not committed is rolled back, then   *)
(* the collected estimates are cancelled.                                  *)
Cancelled(s) == [t \in Selected |-> "cancelled_preview"]

CycleFound ==
    /\ phase = "ordering" /\ Ready = {} /\ Len(order) # NTasks
    /\ phase' = "cancelled"
    /\ est' = Cancelled(est)
    /\ UNCHANGED <<needs, parallel, tried, hours, unmet, order, longest, before, path>>

OrderFound ==
    /\ phase = "ordering" /\ Ready = {} /\ Len(order) = NTasks
    /\ phase' = "measuring"
    /\ UNCHANGED <<needs, parallel, est, tried, hours, unmet, order, longest, before, path>>

(* max(predecessors, key=longest): the first of the longest. *)
Best(t, k) ==
    CHOOSE p \in NeededBy(t) :
        /\ \A q \in NeededBy(t) : longest[q][k] <= longest[p][k]
        /\ \A q \in NeededBy(t) : longest[q][k] = longest[p][k] => p <= q

(* One task of the loop of _critical_path, for p50 and for p90. *)
Measured == {t \in Selected : longest[t] # <<0, 0>>}
Measure ==
    /\ phase = "measuring"
    /\ \E i \in 1..NTasks :
         LET t == order[i]
             of(k) == IF NeededBy(t) = {} THEN hours[t][k]
                                          ELSE longest[Best(t, k)][k] + hours[t][k]
         IN  /\ t \notin Measured /\ \A j \in 1..(i - 1) : order[j] \in Measured
             /\ longest' = [longest EXCEPT ![t] = <<of(1), of(2)>>]
             /\ before' = [before EXCEPT ![t] = IF NeededBy(t) = {} THEN 0 ELSE Best(t, 1)]
    /\ UNCHANGED <<needs, parallel, est, tried, hours, phase, unmet, order, path>>

(* max(longest, key=longest.get): the first in the order of the tasks. *)
LastOf(k) ==
    order[CHOOSE i \in 1..NTasks :
              /\ \A j \in 1..NTasks : longest[order[j]][k] <= longest[order[i]][k]
              /\ \A j \in 1..NTasks : longest[order[j]][k] = longest[order[i]][k] => i <= j]

(* The path is followed backwards from its end; then the batch is stored.  *)
TracePath ==
    /\ phase = "measuring" /\ Measured = Selected
    /\ path # << >> => before[Head(path)] # 0
    /\ path' = <<IF path = << >> THEN LastOf(1) ELSE before[Head(path)]>> \o path
    /\ UNCHANGED <<needs, parallel, est, tried, hours, phase, unmet, order, longest, before>>

StoreBatch ==
    /\ phase = "measuring" /\ path # << >> /\ before[Head(path)] = 0
    /\ phase' = "stored"
    /\ UNCHANGED <<needs, parallel, est, tried, hours, unmet, order, longest, before, path>>

Ended ==
    /\ \/ phase \in {"stored", "cancelled"}
       \/ phase = "failed" /\ \A t \in Selected : ~ MayEstimate(t)
    /\ UNCHANGED varsForecast

NextForecast ==
    \/ \E t \in Selected : (\E b \in BOOLEAN : EstimateFails(t, b)) \/ \E a \in Answers : Estimate(t, a)
    \/ Collect \/ Pop \/ CycleFound \/ OrderFound \/ Measure \/ TracePath \/ StoreBatch \/ Ended

SpecForecast == InitForecast /\ [][NextForecast]_varsForecast

-----------------------------------------------------------------------------
(* _aggregate_project on the estimates, in hundredths of an hour, with     *)
(* UTILIZATION = 0.85, WORKDAY_HOURS = 8 and rounding to two places.       *)

LeastOf(S) == Min(S)
Streams(team, streams) == Max({1, LeastOf({team, streams, NTasks})})
Total(k) == MapThenSumSet(LAMBDA t : hours[t][k], Selected)
Critical(k) == longest[LastOf(k)][k]
Capacity(n) == Max({85 * n, 100})
Rounded(a, b) == (2 * a + b) \div (2 * b)
Calendar(k, team, streams) ==
    Max({100 * Critical(k), Rounded(10000 * Total(k), Capacity(Streams(team, streams)))})
InDays(hundredths) == Rounded(hundredths, 8)

(* deadlineRisk.level, from best to worst *)
Risk(days, team, streams) ==
    LET p50 == InDays(Calendar(1, team, streams))
        p90 == InDays(Calendar(2, team, streams))
    IN  CASE days <= 0 \/ p50 > 100 * days -> 3
          [] days > 0 /\ p50 <= 100 * days /\ p90 > 100 * days -> 2
          [] days > 0 /\ p90 <= 100 * days /\ p90 > 85 * days -> 1
          [] OTHER -> 0

(* what_if: streams are cut to the team. *)
WhatIfStreams(team, streams) == Max({1, LeastOf({team, streams})})

-----------------------------------------------------------------------------

TypeOKForecast ==
    /\ est \in [Selected -> {"none", "estimated", "gave_up", "previewed", "cancelled_preview"}]
    /\ phase \in {"estimating", "ordering", "measuring", "stored", "cancelled", "failed"}
    /\ tried \in [Selected -> 0..Attempts]
    /\ before \in [Selected -> 0..NTasks] /\ Ordered \subseteq Selected

Chains == {s \in UNION {[1..n -> Selected] : n \in 1..NTasks} :
              \A i \in 1..(Len(s) - 1) : s[i] \in NeededBy(s[i + 1])}
Simple(s) == Cardinality({s[i] : i \in DOMAIN s}) = Len(s)
LengthOf(s, k) == MapThenSumSet(LAMBDA i : hours[s[i]][k], DOMAIN s)
Cyclic == \E S \in SUBSET Selected : S # {} /\ \A t \in S : NeededBy(t) \cap S # {}

(* What is stored is the project's own longest chain: the hours of the     *)
(* critical path, for p50 and p90, are the most that any chain of          *)
(* dependent tasks needs, the reported path is such a chain, and a project *)
(* with a cycle is never stored nor one without a cycle refused.           *)
CriticalPathExact ==
    /\ phase = "stored" =>
         /\ ~ Cyclic
         /\ \A k \in {1, 2} : Critical(k) = Max({LengthOf(s, k) : s \in {c \in Chains : Simple(c)}})
         /\ path \in Chains /\ LengthOf(path, 1) = Critical(1)
    /\ phase = "cancelled" => Cyclic

(* A scenario with more hands never takes longer nor carries a greater     *)
(* risk, the pessimistic calendar is never the shorter one, and a what-if  *)
(* that changes nothing gives the stored forecast again.                   *)
ScenariosConsistent ==
    phase = "stored" =>
        \A t1, t2, s \in Teams :
            /\ Calendar(1, t1, s) <= Calendar(2, t1, s)
            /\ Calendar(2, t1, WhatIfStreams(t1, s)) = Calendar(2, t1, s)
            /\ t1 <= t2 => /\ Calendar(2, t2, s) <= Calendar(2, t1, s)
                           /\ \A d \in Days : Risk(d, t2, s) <= Risk(d, t1, s)

(* The estimates of a preview stand or fall together once they were        *)
(* collected: all previewed with the stored batch, all cancelled without   *)
(* it, so that none of a refused preview is learnt from.                   *)
EstimatesSettledTogether ==
    /\ phase = "stored" => \A t \in Selected : est[t] = "previewed"
    /\ phase = "cancelled" => \A t \in Selected : est[t] = "cancelled_preview"

(* No estimate of a preview that failed is left among the ones later       *)
(* estimates learn from (the handler of preview in workload_planning.py).  *)
FailedPreviewsForgotten ==
    (phase = "failed" /\ \A t \in Selected : ~ MayEstimate(t)) => \A t \in Selected : est[t] # "estimated"
=============================================================================
