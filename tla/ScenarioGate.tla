---------------------------- MODULE ScenarioGate ----------------------------
(***************************************************************************)
(* scenario_summary and scenario_gate over a store that recorders go on    *)
(* writing.  The gate lists the runs, reads the assertions and the samples *)
(* of each, then lists the runs a second time and reads their samples      *)
(* again for the thresholds: every read is a statement of its own.  The    *)
(* recorders' writes are single statements too; what they check before     *)
(* (ScenarioRecorder) does not matter to a reader.                         *)
(*                                                                         *)
(* Runs are numbered in the order of started_at.  A sample is in half      *)
(* milliseconds; it may be zero or negative.  One metric has samples.      *)
(***************************************************************************)
EXTENDS Integers, Sequences, SequencesExt, FiniteSetsExt

CONSTANTS
  Families,      \* scenario families
  Samples,       \* latencies recorded, in half milliseconds
  Policies,      \* policies the gate is called with
  MaxRuns,       \* bound: runs
  MaxEvidence,   \* bound: failed assertions and samples
  MaxWrites,     \* bound: writes while the gate is under way
  MaxClock,      \* bound: time in minutes
  All            \* no family asked for

ASSUME GateAssumption ==
  All \notin Families /\ MaxRuns \in Nat /\ MaxEvidence \in Nat /\ MaxWrites \in Nat /\ MaxClock \in Nat

VARIABLES
  clock,
  runs,          \* rows of scenario_runs with their evidence
  gate,          \* the gate under way or its answer
  before,        \* runs when the gate began (history)
  writes         \* recorders' writes since the gate began (history)

vars == <<clock, runs, gate, before, writes>>

Run == [family : Families, status : {"running", "passed", "failed"}, started : 0 .. MaxClock,
        failures : Nat, samples : Seq(Samples)]

NoGate == [at |-> "idle"]
Init ==
  /\ clock = 0 /\ runs = <<>> /\ gate = NoGate
  /\ before = <<>> /\ writes = 0

-----------------------------------------------------------------------------
(* Recorders.                                                              *)

Write(new) ==
  /\ runs' = new
  /\ writes < MaxWrites /\ writes' = IF gate.at = "idle" THEN 0 ELSE writes + 1
  /\ UNCHANGED <<clock, gate, before>>
Evidence == SumFunction([i \in DOMAIN runs |-> runs[i].failures + Len(runs[i].samples)])

RecordRun(f) ==
  /\ Len(runs) < MaxRuns
  /\ Write(Append(runs, [family |-> f, status |-> "running", started |-> clock,
                         failures |-> 0, samples |-> <<>>]))
\* Mutant: the row is replaced, and the evidence that refers to it goes.
FinishByReplacing(i, status) ==
  runs[i].status = "running" /\ Write([runs EXCEPT ![i] = [@ EXCEPT !.status = status, !.failures = 0, !.samples = <<>>]])
FinishRun(i, status) == runs[i].status = "running" /\ Write([runs EXCEPT ![i].status = status])
\* An assertion that passed is read and not counted.
RecordFailure(i) == Evidence < MaxEvidence /\ Write([runs EXCEPT ![i].failures = @ + 1])
\* Mutant: the sample is rounded when it is stored.
RecordRounded(i, s) == Evidence < MaxEvidence /\ Write([runs EXCEPT ![i].samples = Append(@, (s + 1) \div 2)])
RecordLatency(i, s) ==
  /\ Evidence < MaxEvidence
  /\ Write([runs EXCEPT ![i].samples = Append(@, s)])

\* The gate reads the clock once; it takes less than a minute.
Tick ==
  /\ clock < MaxClock /\ clock' = clock + 1 /\ gate.at = "idle"
  /\ UNCHANGED <<runs, gate, before, writes>>

-----------------------------------------------------------------------------
(* Reading.                                                                *)

\* The newest runs of the family, newest first.
list_scenario_runs(family, limit) ==
  LET mine == SelectSeq([k \in DOMAIN runs |-> Len(runs) + 1 - k],
                        LAMBDA i : family = All \/ runs[i].family = family)
  IN  SubSeq(mine, 1, Min({limit, Len(mine)}))

\* limit.clamp(1, 200); no allowed status given means "passed".
Clamp(limit) == IF limit < 1 THEN 1 ELSE IF limit > 200 THEN 200 ELSE limit
Normal(policy) ==
  [policy EXCEPT !.limit = Clamp(@), !.allowed = IF @ = {} THEN {"passed"} ELSE @]

BeginGate(policy, family) ==
  /\ gate.at = "idle"
  /\ gate' = [at |-> "list", policy |-> Normal(policy), family |-> family]
  /\ before' = runs /\ writes' = 0
  /\ UNCHANGED <<clock, runs>>

\* The summary takes the status and start of every run from the listing; the first run of
\* a family is its latest.
Listed(list) == [k \in DOMAIN list |-> runs[list[k]]]
Latest(rows) ==
  {rows[k] : k \in {j \in DOMAIN rows : \A l \in 1 .. j - 1 : rows[l].family # rows[j].family}}
ListRuns ==
  /\ gate.at = "list"
  /\ LET list == list_scenario_runs(gate.family, gate.policy.limit)
     IN  gate' = [at |-> IF list = <<>> THEN "list_again" ELSE "assertions",
                  policy |-> gate.policy, family |-> gate.family, total |-> Len(list), list |-> list,
                  latest |-> {[family |-> r.family, status |-> r.status, started |-> r.started] :
                                r \in Latest(Listed(list))},
                  failures |-> 0, latencies |-> <<>>, samples |-> <<>>]
  /\ UNCHANGED <<clock, runs, before, writes>>

\* The runs of the listing one after the other, from the first that is left.
Turn(step) == gate' = step /\ UNCHANGED <<clock, runs, before, writes>>
Here == runs[Head(gate.list)]
list_scenario_assertions ==
  /\ gate.at = "assertions"
  /\ Turn([gate EXCEPT !.at = "latencies", !.failures = @ + Here.failures])
list_latency_samples ==
  /\ gate.at = "latencies"
  /\ Turn([gate EXCEPT !.at = IF Len(gate.list) = 1 THEN "list_again" ELSE "assertions",
                       !.list = Tail(@), !.latencies = @ \o Here.samples])

ListAgain ==
  /\ gate.at = "list_again"
  /\ LET list == list_scenario_runs(gate.family, gate.policy.limit)
     IN  Turn([gate EXCEPT !.at = IF list = <<>> THEN "decide" ELSE "samples", !.list = list])

\* latency_sample_budget_ms: nothing below zero, and up to the next millisecond.
latency_sample_budget_ms(s) == IF s <= 0 THEN 0 ELSE (s + 1) \div 2

SamplesAgain ==
  /\ gate.at = "samples"
  /\ Turn([gate EXCEPT
             !.at = IF Len(gate.list) = 1 THEN "decide" ELSE "samples", !.list = Tail(@),
             !.samples = @ \o [k \in DOMAIN Here.samples |-> latency_sample_budget_ms(Here.samples[k])]])

-----------------------------------------------------------------------------
(* The verdict.                                                            *)

Sorted(s) == SortSeq(s, LAMBDA a, b : a < b)

\* Nearest rank: index ceil(p * len) - 1, within the slice; p in hundredths.  The floating
\* point product is exact enough: ceil gives the whole number's own for 0.50, 0.95, 0.99.
percentile(sorted, p) ==
  IF sorted = <<>> THEN 0
  ELSE LET rank == (p * Len(sorted) + 99) \div 100
       IN  sorted[Min({Max({rank, 1}), Len(sorted)})]

\* A budget is a number or nothing (-1); without samples every threshold passes.
\* Mutant: a percentile that has a budget replaces the maximum.
PercentileOnly(t, samples) ==
  samples = <<>> \/ IF t.p50 >= 0 THEN percentile(Sorted(samples), 50) <= t.p50
                    ELSE Sorted(samples)[Len(samples)] <= t.max
evaluate_threshold(t, samples) ==
  LET sorted == Sorted(samples)
  IN  samples # <<>> =>
        /\ sorted[Len(sorted)] <= t.max
        /\ t.p50 >= 0 => percentile(sorted, 50) <= t.p50
        /\ t.p95 >= 0 => percentile(sorted, 95) <= t.p95
        /\ t.p99 >= 0 => percentile(sorted, 99) <= t.p99

\* The metric of a threshold is the one with samples, or one without any.
SamplesOf(t) == IF t.sampled THEN gate.samples ELSE <<>>

LatestStatus == gate.latest # {} /\ \A l \in gate.latest : l.status \in gate.policy.allowed
Age(l) == clock - l.started
Checks ==
  [minimum_runs |-> gate.total >= gate.policy.min_runs,
   latest_status |-> LatestStatus,
   assertion_failures |-> gate.failures <= gate.policy.max_assertion_failures,
   latest_freshness |-> gate.policy.max_age >= 0 =>
                          gate.latest # {} /\ \A l \in gate.latest : Age(l) <= gate.policy.max_age,
   threshold_samples |-> \A t \in gate.policy.thresholds : Len(SamplesOf(t)) >= gate.policy.min_samples,
   threshold_budget |-> \A t \in gate.policy.thresholds : evaluate_threshold(t, SamplesOf(t))]

\* The three numbers of the summary; the median is the upper one.
SummaryLatencies ==
  LET sorted == Sorted(gate.latencies)
      n == Len(sorted)
  IN  IF n = 0 THEN <<>> ELSE <<sorted[1], sorted[(n \div 2) + 1], sorted[n]>>
\* The evidence status that diagnose derives from a summary.
scenario_evidence_status ==
  IF gate.total > 0 /\ \A l \in gate.latest : l.status = "passed" THEN "ready" ELSE "degraded"

Decide ==
  /\ gate.at = "decide"
  /\ Turn([at |-> "done", policy |-> gate.policy, family |-> gate.family, checks |-> Checks,
           passed |-> \A c \in DOMAIN Checks : Checks[c], total |-> gate.total, latest |-> gate.latest,
           failures |-> gate.failures, latencies |-> SummaryLatencies,
           evidence |-> scenario_evidence_status])
Answer ==
  /\ gate.at = "done" /\ gate' = NoGate
  /\ before' = <<>> /\ writes' = 0
  /\ UNCHANGED <<clock, runs>>

Next ==
  \/ Tick
  \/ \E f \in Families : RecordRun(f)
  \/ \E i \in DOMAIN runs :
       \/ \E status \in {"passed", "failed"} : FinishRun(i, status)
       \/ RecordFailure(i)
       \/ \E s \in Samples : RecordLatency(i, s)
  \/ \E policy \in Policies, f \in Families \cup {All} : BeginGate(policy, f)
  \/ ListRuns \/ list_scenario_assertions \/ list_latency_samples \/ ListAgain \/ SamplesAgain
  \/ Decide \/ Answer

Spec == Init /\ [][Next]_vars

-----------------------------------------------------------------------------
(* Properties.                                                             *)

TypeOK ==
  /\ clock \in 0 .. MaxClock
  /\ runs \in Seq(Run) /\ before \in Seq(Run) /\ Len(before) <= Len(runs)
  /\ writes \in 0 .. MaxWrites
  /\ gate.at \in {"idle", "list", "assertions", "latencies", "list_again", "samples", "decide", "done"}

\* What the policy asks of a store, said without sequences and sorting: about the `limit`
\* newest runs of the family, each family's newest run, and for every budget p the share of
\* samples that are within it.
Window(store, family, limit) ==
  {i \in DOMAIN store :
     /\ family = All \/ store[i].family = family
     /\ Cardinality({j \in DOMAIN store : j > i /\ (family = All \/ store[j].family = family)}) < limit}
Newest(store, W) == {i \in W : \A j \in W : store[j].family = store[i].family => j <= i}
SampleKeys(store, W) == {ik \in W \X (1 .. MaxEvidence) : ik[2] \in DOMAIN store[ik[1]].samples}
Within(store, keys, budget) == {ik \in keys : store[ik[1]].samples[ik[2]] <= 2 * budget}
Share(store, keys, p, budget) == 100 * Cardinality(Within(store, keys, budget)) >= p * Cardinality(keys)
Meets(store, policy, family, now) ==
  LET W == Window(store, family, policy.limit)
      keys == SampleKeys(store, W)
  IN  /\ W # {} /\ Cardinality(W) >= policy.min_runs
      /\ \A i \in Newest(store, W) :
           /\ store[i].status \in policy.allowed
           /\ policy.max_age >= 0 => now - store[i].started <= policy.max_age
      /\ SumFunctionOnSet([i \in DOMAIN store |-> store[i].failures], W) <= policy.max_assertion_failures
      /\ \A t \in policy.thresholds :
           LET mine == IF t.sampled THEN keys ELSE {}
           IN  /\ Cardinality(mine) >= policy.min_samples
               /\ Share(store, mine, 100, t.max)
               /\ t.p50 >= 0 => Share(store, mine, 50, t.p50)
               /\ t.p95 >= 0 => Share(store, mine, 95, t.p95)
               /\ t.p99 >= 0 => Share(store, mine, 99, t.p99)

\* A gate that no recorder disturbed passes exactly the stores that meet its policy; the
\* evidence status diagnose derives from such a summary is ready when every family's newest
\* run passed; and the median it reports splits the samples.
VerdictExact ==
  gate.at = "done" /\ writes = 0 =>
    /\ gate.passed <=> Meets(runs, gate.policy, gate.family, clock)
    /\ gate.evidence = "ready" <=>
         LET W == Window(runs, gate.family, gate.policy.limit)
         IN  W # {} /\ \A i \in Newest(runs, W) : runs[i].status = "passed"
    /\ LET keys == SampleKeys(runs, Window(runs, gate.family, gate.policy.limit))
           below(v) == Cardinality({ik \in keys : runs[ik[1]].samples[ik[2]] < v})
           upto(v) == Cardinality({ik \in keys : runs[ik[1]].samples[ik[2]] <= v})
       IN  gate.latencies # <<>> =>
             2 * below(gate.latencies[2]) <= Cardinality(keys)
               /\ Cardinality(keys) < 2 * upto(gate.latencies[2])

\* Recorders at work cannot talk a gate into passing over what was there before: in the
\* runs that are still among the newest when it answers, the failed assertions and the
\* samples above the limit that were stored when it began count against it.
NotTalkedOver ==
  gate.at = "done" /\ gate.passed =>
    LET W == Window(runs, gate.family, gate.policy.limit) \cap DOMAIN before
    IN  /\ SumFunctionOnSet([i \in DOMAIN before |-> before[i].failures], W)
             <= gate.policy.max_assertion_failures
        /\ \A t \in gate.policy.thresholds :
             t.sampled => Share(before, SampleKeys(before, W), 100, t.max)

\* The gate stays well-formed and, undisturbed, decides by its policy.
GateInv == TypeOK /\ VerdictExact

=============================================================================
