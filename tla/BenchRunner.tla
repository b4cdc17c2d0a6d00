----------------------------- MODULE BenchRunner -----------------------------
(***************************************************************************)
(* `bun run bench` (src/src/runner/index.ts:86-247): for each strategy and *)
(* scenario in turn, start a scraper, run the workload for a warm-up and   *)
(* again to measure it (runner/concurrency.ts), stop the scraper, probe,   *)
(* and rewrite the strategy's CSV file; at the end, write the combined     *)
(* CSV.  Virtual users, scrape loops and the main function share one event *)
(* loop: a step is what runs from one await to the next.                   *)
(***************************************************************************)
EXTENDS WorkloadCalls, Scraper

CONSTANTS Strategies,   \* --strategy, a sequence
          Filter,       \* --scenario, a set of names
          CommandLines, \* the flags it is called with: [skipScrape, noWarmup]
          MaxRepeats,   \* bound: calls after a user's first one, over all workloads
          MaxErrors     \* bound: calls the database or a file refuses, over all results

selectedScenarios == SelectSeq(SCENARIOS, LAMBDA s : s.name \in Filter)

Selected(r) == ~(r.scenario.name = BOnly /\ r.strategy # "b")

Pairs == FoldLeft(LAMBDA pairs, s : pairs \o [j \in DOMAIN selectedScenarios |->
                      [strategy |-> s, scenario |-> selectedScenarios[j]]], <<>>, Strategies)

\* The runs the two nested loops make.
Plan == SelectSeq(Pairs, Selected)

\* r is the run of strategy s and the scenario named c.
IsRunOf(r, s, c) == Plan[r].strategy = s /\ Plan[r].scenario.name = c

ASSUME BenchAssumption ==
    /\ CommandLines \subseteq [skipScrape : BOOLEAN, noWarmup : BOOLEAN]
    /\ Runs = Len(Plan) /\ MaxRepeats \in Nat /\ MaxErrors \in Nat
    /\ \A r \in 1..Runs : /\ Plan[r].strategy \in ToSet(Strategies)
                         /\ Plan[r].scenario.concurrency \in Nat \ {0}
                         /\ Plan[r].scenario.kinds \in SUBSET Kinds

\* The strategies are different, and so are the names of SCENARIOS: no two runs are of
\* the same pair, and the loops leave out none but the B-only scenario for A.
ASSUME PlanAssumption ==
    /\ \A r, q \in 1..Runs : IsRunOf(r, Plan[q].strategy, Plan[q].scenario.name) => r = q
    /\ \A s \in ToSet(Strategies), scenario \in ToSet(selectedScenarios) :
          (scenario.name = BOnly => s = "b") => \E r \in 1..Runs : IsRunOf(r, s, scenario.name)

VARIABLES phase, run,               \* where main() is, and in which run
          skipScrape, noWarmup,     \* the flags of the command line
          expired,                  \* Date.now() >= endTime
          metrics,                  \* the collector of the workload being run
          begun,                    \* history: calls begun in each workload
          before,                   \* history: the conversations when it began
          allResults,
          csv, combined             \* the files; Torn while one is being written

mainVars  == <<phase, run, skipScrape, noWarmup, expired>>
results   == <<allResults, csv, combined>>
measured  == <<metrics, begun, before>>
vars      == <<callVars, scraperVars, mainVars, measured, results>>

Workloads == {"warmup", "bench"}
Exited    == {"exit0", "exit1"}
Absent    == [file |-> "absent"]
Torn      == [file |-> "torn"]
Saved(rows) == [file |-> "saved", rows |-> rows]
Empty     == [count |-> 0, errors |-> 0]
StrategyOf(r) == Plan[r].strategy
KindsOf(r)    == Plan[r].scenario.kinds

\* The virtual users of a run, as many of them as the model has.
UsersOf(r) == IF Plan[r].scenario.concurrency < Users THEN Plan[r].scenario.concurrency ELSE Users

\* Mutant of ScrapeFile: the name lacks the strategy.
ScrapeFileOfScenario(r) == Plan[r].scenario.name

\* The name of a run's scrape file.
ScrapeFile(r) == <<StrategyOf(r), Plan[r].scenario.name>>

\* What writeCsv writes: no row, no file.
Csv(rows)    == IF DOMAIN rows = {} THEN Absent ELSE Saved(rows)

\* The results of a strategy, under their numbers in allResults.
ResultsOf(s) == [i \in {j \in 1..Len(allResults) : StrategyOf(allResults[j].run) = s} |->
                    allResults[i]]

Init ==
    /\ CallsInit /\ ScraperInit
    /\ phase = "preflight" /\ run = 1 /\ expired = FALSE
    /\ \E line \in CommandLines : skipScrape = line.skipScrape /\ noWarmup = line.noWarmup
    /\ metrics = Empty /\ before = conversations
    /\ begun = [w \in Workloads |-> [r \in Scrapers |-> 0]]
    /\ allResults = <<>> /\ combined = Absent
    /\ csv = [s \in ToSet(Strategies) |-> Absent]

GoTo(p, r) == phase' = p /\ run' = r /\ UNCHANGED <<skipScrape, noWarmup>>

\* Mutants of AfterRun: one run too many, and only the first strategy.
AfterRunTooFar(r) == IF r <= Runs THEN GoTo("start", r + 1) ELSE GoTo("combine", r)
AfterRunOneStrategy(r) == IF r < Runs /\ StrategyOf(r + 1) = StrategyOf(r)
                          THEN GoTo("start", r + 1) ELSE GoTo("combine", r)

\* The two loops go on.
AfterRun(r) == IF r < Runs THEN GoTo("start", r + 1) ELSE GoTo("combine", r)

\* checkScrapeUrls: at least one URL answers.  (If none does: Exit1.)
CheckUrls ==
    /\ phase = "preflight" /\ ~skipScrape
    /\ GoTo("load", run)
    /\ UNCHANGED <<callVars, scraperVars, expired, measured, results>>

\* The tenants file and the names of the scenarios are in order.  (Otherwise: Exit1.)
Load ==
    /\ phase = "load" \/ (phase = "preflight" /\ skipScrape)
    /\ GoTo(IF Runs = 0 THEN "combine" ELSE "start", run)
    /\ UNCHANGED <<callVars, scraperVars, expired, measured, results>>

\* runWorkload: a new collector, and every user makes its first call.
RunWorkload(w) ==
    /\ metrics' = Empty /\ before' = conversations /\ expired' = FALSE
    /\ begun' = [begun EXCEPT ![w][run] = UsersOf(run)]
    /\ \E draws \in [1..UsersOf(run) -> KindsOf(run)] : Call(draws, {})
    /\ UNCHANGED <<explainFiles, conversations>>
    /\ GoTo(w, run)

StartRun ==
    /\ phase = "start"
    /\ IF skipScrape THEN UNCHANGED scraperVars ELSE startScraping(run)
    /\ RunWorkload(IF noWarmup THEN "bench" ELSE "warmup")
    /\ UNCHANGED results

Deadline ==
    /\ phase \in Workloads /\ ~expired
    /\ expired' = TRUE
    /\ UNCHANGED <<callVars, scraperVars, phase, run, skipScrape, noWarmup,
                   measured, results>>

Refusals == FoldLeft(LAMBDA n, row : n + row.errors, metrics.errors, allResults)

Repeats  == FoldSet(LAMBDA wr, n : n + begun[wr[1]][wr[2]] - UsersOf(wr[2]), 0,
               {wr \in Workloads \X Scrapers : begun[wr[1]][wr[2]] > 0})

\* A call ends and is recorded, however late; before the deadline the user goes on
\* to the next call in the same step.
Settle(u) ==
    /\ phase \in Workloads
    /\ \/ Returns(u) /\ metrics' = [metrics EXCEPT !.count = @ + 1]
       \/ Throws(u)  /\ (at[u] = "files" \/ Refusals < MaxErrors)
                     /\ metrics' = [metrics EXCEPT !.errors = @ + 1]
    /\ \/ expired /\ Call(<<>>, {u}) /\ UNCHANGED begun
       \/ /\ ~expired /\ Repeats < MaxRepeats
          /\ \E k \in KindsOf(run) : Call([v \in {u} |-> k], {})
          /\ begun' = [begun EXCEPT ![phase][run] = @ + 1]
    /\ UNCHANGED <<before, scraperVars, mainVars, results>>

\* Mutant of Awaited: Promise.race.
AwaitedFirst == \E u \in VUs : at[u] = "idle"

\* await Promise.all(workers)
Awaited == \A u \in VUs : at[u] = "idle"

\* Mutant of EndWarmup: its collector is kept for the measurement.
EndWarmupKeeps ==
    /\ phase = "warmup" /\ Awaited
    /\ expired' = FALSE /\ begun' = [begun EXCEPT !["bench"][run] = UsersOf(run)]
    /\ \E draws \in [1..UsersOf(run) -> KindsOf(run)] : Call(draws, {})
    /\ UNCHANGED <<explainFiles, conversations>>
    /\ GoTo("bench", run)
    /\ UNCHANGED <<scraperVars, metrics, before, results>>

\* The warm-up is over and its collector is dropped; the measurement begins.
EndWarmup ==
    /\ phase = "warmup" /\ Awaited
    /\ RunWorkload("bench")
    /\ UNCHANGED <<scraperVars, results>>

EndBench ==
    /\ phase = "bench" /\ Awaited
    /\ IF skipScrape THEN UNCHANGED scraperVars ELSE StopAndWrite(run, ScrapeFile(run))
    /\ GoTo("probe", run)
    /\ UNCHANGED <<callVars, expired, measured, results>>

\* metrics.summary: the counts, and percentiles and rates of them.
Summary(r) == [run |-> r, count |-> metrics.count, errors |-> metrics.errors]

\* The probe is over, or failed; the result is pushed and writeCsv begins.
Record ==
    /\ phase = "probe"
    /\ allResults' = Append(allResults, Summary(run))
    /\ csv' = [csv EXCEPT ![StrategyOf(run)] = Torn]
    /\ GoTo("save", run)
    /\ UNCHANGED <<callVars, scraperVars, expired, measured, combined>>

\* Mutant of Save: only the last result is written.
SaveLast ==
    /\ phase = "save"
    /\ csv' = [csv EXCEPT ![StrategyOf(run)] = Saved([i \in {Len(allResults)} |-> allResults[i]])]
    /\ AfterRun(run)
    /\ UNCHANGED <<callVars, scraperVars, expired, measured, allResults, combined>>

\* The strategy's file now holds every result of the strategy.
Save ==
    /\ phase = "save"
    /\ csv' = [csv EXCEPT ![StrategyOf(run)] = Csv(ResultsOf(StrategyOf(run)))]
    /\ AfterRun(run)
    /\ UNCHANGED <<callVars, scraperVars, expired, measured, allResults, combined>>

\* The combined file is written and the connection pool closed: main() returns.
Combine ==
    /\ phase = "combine"
    /\ combined' = Csv(allResults)
    /\ GoTo("closed", run)
    /\ UNCHANGED <<callVars, scraperVars, expired, measured, allResults, csv>>

\* The process ends when nothing keeps the event loop alive any more.
Exit0 ==
    /\ phase = "closed" /\ \A r \in Scrapers : LoopEnds(r)
    /\ GoTo("exit0", run)
    /\ UNCHANGED <<callVars, scraperVars, expired, measured, results>>

\* A failed check or write, or ^C: everything stops where it is.
Exit1 ==
    /\ phase \notin Exited
    /\ GoTo("exit1", run)
    /\ CallsEnd /\ ScrapersEnd /\ metrics' = Empty
    /\ UNCHANGED <<expired, begun, before, results>>

Explain ==
    /\ phase \notin Exited /\ CallStep
    /\ UNCHANGED <<scraperVars, mainVars, measured, results>>

Scrape(r) ==
    /\ phase \notin Exited /\ (Fetched(r) \/ Woken(r))
    /\ UNCHANGED <<callVars, mainVars, measured, results>>

Main == CheckUrls \/ Load \/ StartRun \/ EndWarmup \/ EndBench \/ Record \/ Save \/ Combine \/ Exit0

Next == Main \/ Deadline \/ Explain \/ Exit1
        \/ \E u \in VUs : Settle(u)
        \/ \E r \in Scrapers : Scrape(r)

\* Awaits are answered and timers fire; nothing obliges a call to succeed.  That calls go
\* on, and scrape loops go on, is enough, whichever of them.
Fairness ==
    /\ WF_vars(Main) /\ WF_vars(Deadline)
    /\ WF_vars(Explain \/ \E u \in VUs : Settle(u))
    /\ WF_vars(\E r \in Scrapers : Scrape(r))

Spec == Init /\ [][Next]_vars /\ Fairness

-----------------------------------------------------------------------------
RowOf == [run : Scrapers, count : Nat, errors : Nat]

TypeOK ==
    /\ CallsTypeOK /\ ScraperTypeOK
    /\ phase \in Workloads \cup Exited \cup
                 {"preflight", "load", "start", "probe", "save", "combine", "closed"}
    /\ run \in Scrapers \cup {1} /\ skipScrape \in BOOLEAN /\ noWarmup \in BOOLEAN
    /\ expired \in BOOLEAN /\ metrics \in [count : Nat, errors : Nat]
    /\ begun \in [Workloads -> [Scrapers -> Nat]]
    /\ allResults \in Seq(RowOf)
    /\ DOMAIN csv = ToSet(Strategies)

\* A row counts every call that its own measurement began, each once, and no call of
\* the warm-up: those that end after the deadline are waited for, and none is in
\* progress when the row is made (concurrency.ts:15-34, index.ts:168-191,210).
ResultsCountOwnCalls ==
    \A i \in 1..Len(allResults) :
        LET row == allResults[i] IN row.count + row.errors = begun["bench"][row.run]

\* The conversations that W1 has written are those that were counted: an operation stands
\* for a conversation with all its items in the table, and one with a part of them is in
\* progress or counted as an error (w1.ts:18-45, concurrency.ts:20-28).
ConversationsAreCounted ==
    phase \in Workloads /\ KindsOf(run) = {"w1"} =>
        LET new(e) == conversations[e] - before[e]
        IN /\ metrics.count <= new("whole")
           /\ new("part") <= metrics.errors + Cardinality({u \in VUs : at[u] = "insert"})

\* The scrape file of a measured run stays that run's: no later run of another scenario
\* or strategy replaces it, and it misses at most the snapshot that was in the air when
\* the run was stopped (index.ts:196-199, scrape.ts:222-234).
ScrapeFilesStay ==
    \A r \in Scrapers :
        ~skipScrape /\ (\/ r < run
                        \/ r = run /\ phase \in {"probe", "save", "combine", "closed", "exit0"}) =>
            LET file == scrapeFile[ScrapeFile(r)]
            IN file.of = r /\ snapshots[r] - file.held <= 1

\* A run that has been saved stays saved: whatever happens later, a strategy's file
\* holds all its results so far, in order, except while that file itself is being
\* rewritten, or was when the process died (index.ts:226-229).
SavedRunsStay ==
    \A s \in ToSet(Strategies) :
        \/ csv[s] = Csv(ResultsOf(s))
        \/ csv[s] = Torn /\ phase \in {"save", "exit1"} /\ StrategyOf(run) = s

\* Exit code 0: the combined file has one row for each pair of a strategy and a
\* selected scenario, the B-only scenario excepted for A (index.ts:146-151,236-238).
ExitZeroMeansAllRun ==
    phase = "exit0" =>
        \A s \in ToSet(Strategies), scenario \in ToSet(selectedScenarios) :
            (scenario.name = BOnly => s = "b") =>
                Cardinality({i \in DOMAIN combined.rows :
                    IsRunOf(combined.rows[i].run, s, scenario.name)}) = 1

\* No scrape begins once the run it belongs to has been stopped, so that at most the
\* one in the air overlaps the next run (scrape.ts:191,224; index.ts:196).
NoScrapeAfterStop ==
    [][\A r \in Scrapers : loop[r] # "fetching" /\ loop'[r] = "fetching"
          => r = run /\ phase' \in Workloads]_vars

\* Unless it is interrupted the command comes to an end, its scrape loops included:
\* a loop that went on would keep the process alive for ever (scrape.ts:230-233).
BenchEnds == <>(phase \in Exited)
=============================================================================
