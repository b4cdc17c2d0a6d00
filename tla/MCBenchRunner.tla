---------------------------- MODULE MCBenchRunner ----------------------------
\* Model checking of BenchRunner: W1 and the B-only read scenario, for A and then B.
EXTENDS BenchRunner

BothStrategies == <<"a", "b">>
NoWarmup       == [skipScrape |-> FALSE, noWarmup |-> TRUE]
NoScrape       == [skipScrape |-> TRUE, noWarmup |-> FALSE]
TwoLines       == {NoWarmup, NoScrape}
TwoScenarios   == {"w1-10vu", "m4-50pct-b"}
=============================================================================
