------------------------------ MODULE Scenarios ------------------------------
(***************************************************************************)
(* The scenarios of the benchmark (src/src/runner/scenarios.ts:93-366), in *)
(* their order: the name that files and --scenario use, the workloads a    *)
(* call draws from, and the virtual users.  How many tenants they share,   *)
(* durations, time windows and probes are left out.                        *)
(***************************************************************************)
EXTENDS Integers, Sequences, SequencesExt

Reads  == {"q-time", "q-id", "q-conv"}
Kinds  == Reads \cup {"w1", "w2"}

\* A scenario whose calls draw from several workloads, and one of one workload.
On(name, kinds, concurrency) ==
    [name |-> name, kinds |-> kinds, concurrency |-> concurrency]
Single(name, workload, concurrency) == On(name, {workload}, concurrency)

SpanScenarios == <<
    Single("w2-1vu", "w2", 1), Single("w2-10vu", "w2", 10), Single("w2-50vu", "w2", 50),
    Single("q-time-1h-10vu", "q-time", 10), Single("q-time-24h-10vu", "q-time", 10),
    Single("q-time-7d-10vu", "q-time", 10), Single("q-id-10vu", "q-id", 10) >>

ItemScenarios == <<
    Single("q-conv-clustered-10vu", "q-conv", 10), Single("q-conv-scattered-10vu", "q-conv", 10),
    Single("w1-1vu", "w1", 1), Single("w1-10vu", "w1", 10), Single("w1-50vu", "w1", 50),
    Single("q-time-1h-10vu-s2", "q-time", 10), Single("q-time-24h-10vu-s2", "q-time", 10),
    Single("q-time-7d-10vu-s2", "q-time", 10), Single("q-id-10vu-s2", "q-id", 10) >>

BOnly == "m4-50pct-b"

PressureScenarios == <<
    Single("m1-1tenant", "q-time", 50), Single("m2-5pct", "q-time", 50),
    Single("m3-50pct", "q-time", 50), Single(BOnly, "q-time", 50) >>

\* makeMixedWorkloadFn: each call draws one of four.
Mixed == {"q-time", "q-id", "w2", "w1"}

MixedScenarios == << On("mixed-10vu", Mixed, 10), On("mixed-50vu", Mixed, 50),
                     On("mixed-100vu", Mixed, 100) >>

SCENARIOS == SpanScenarios \o ItemScenarios \o PressureScenarios \o MixedScenarios
=============================================================================
