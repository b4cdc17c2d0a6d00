--------------------------- MODULE BenchRunner_proof ---------------------------
(***************************************************************************)
(* Proofs about BenchRunner, for any scenarios, strategies and numbers of  *)
(* users, calls and failures: a result counts exactly the calls of its own *)
(* measurement; no scrape begins after its run was stopped; the explain    *)
(* files can be joined; scrape files and saved results stay; exit code 0   *)
(* means that the whole plan was run; and the operations of W1 are the     *)
(* complete conversations in the table.                                    *)
(***************************************************************************)
EXTENDS BenchRunner, FiniteSetTheorems, SequenceTheorems, TLAPS

\* The users with a call in progress.
Busy == {u \in VUs : at[u] # "idle"}

\* The phases that are about one run, which is then in the plan.
OfRun == Workloads \cup {"start", "probe", "save"}

\* The phases before the current run has a result.
NoResultYet == {"preflight", "load", "start", "probe"} \cup Workloads

RunInv ==
    /\ run \in Nat
    /\ phase \in {"preflight", "load"} => run = 1
    /\ phase \in OfRun => run \in Scrapers

TypeInv ==
    /\ at \in [VUs -> Awaits]
    /\ metrics \in [count : Nat, errors : Nat]
    /\ begun \in [Workloads -> [Scrapers -> Nat]]
    /\ allResults \in Seq(RowOf)

\* Every call begun in the workload being run is counted or in progress; otherwise none
\* is in progress, and after the measurement all of its calls are counted.
CountInv ==
    /\ phase \in Workloads =>
          metrics.count + metrics.errors + Cardinality(Busy) = begun[phase][run]
    /\ phase \notin Workloads => Busy = {}
    /\ phase = "probe" => metrics.count + metrics.errors = begun["bench"][run]

\* The results are of earlier runs, or of this one after it was recorded.
RowsInv ==
    \A i \in 1..Len(allResults) :
        LET row == allResults[i]
        IN row.run < run \/ (row.run = run /\ phase \notin NoResultYet)

\* Only the scraper of the current run is told to go on, while a workload is run.
ScrapeInv ==
    /\ running \in [Scrapers -> BOOLEAN]
    /\ skipScrape => \A r \in Scrapers : ~running[r]
    /\ \A r \in Scrapers : running[r] => r = run /\ phase \in Workloads

\* The inductive invariant.
BenchInv == RunInv /\ TypeInv /\ CountInv /\ ResultsCountOwnCalls /\ RowsInv /\ ScrapeInv

-----------------------------------------------------------------------------
(* Users and their calls. *)

LEMMA UsersAreFinite ==
  /\ IsFiniteSet(VUs)
  /\ \A S \in SUBSET VUs : IsFiniteSet(S) /\ Cardinality(S) \in Nat
<1>1. 1 \in Int /\ Users \in Int
  BY CallsAssumption
<1>2. IsFiniteSet(VUs)
  BY <1>1, FS_Interval DEF VUs
<1> QED BY <1>2, FS_Subset, FS_CardinalityType

LEMMA UsersOfRun ==
  ASSUME NEW r \in Scrapers
  PROVE  /\ UsersOf(r) \in Nat /\ 1..UsersOf(r) \subseteq VUs
         /\ Cardinality(1..UsersOf(r)) = UsersOf(r)
<1>1. UsersOf(r) \in Nat \ {0} /\ UsersOf(r) <= Users
  BY CallsAssumption, BenchAssumption DEF UsersOf, Scrapers
<1>2. Cardinality(1..UsersOf(r)) = UsersOf(r)
  BY <1>1, FS_Interval
<1> QED BY <1>1, <1>2, CallsAssumption DEF VUs

\* What a step of users does to the set of those with a call in progress.
LEMMA CallMakesBusy ==
  ASSUME at \in [VUs -> Awaits], NEW draws, DOMAIN draws \subseteq VUs, NEW stopped,
         stopped \cap DOMAIN draws = {}, Call(draws, stopped)
  PROVE  at' \in [VUs -> Awaits] /\ Busy' = (Busy \cup DOMAIN draws) \ stopped
<1> DEFINE earlier(u) == {v \in DOMAIN draws : v <= u /\ draws[v] = draws[u]}
           number(u) == IF draws[u] \in Reads THEN counter[draws[u]] + Cardinality(earlier(u)) ELSE 0
           explains(u) == draws[u] \in Reads /\ shouldExplain(number(u))
           awaits(u) == IF explains(u) THEN "files" ELSE IF draws[u] = "w1" THEN "insert" ELSE "query"
<1>1. at' = [u \in VUs |-> IF u \in DOMAIN draws THEN awaits(u)
                           ELSE IF u \in stopped THEN "idle" ELSE at[u]]
  BY DEF Call
<1>2. \A u : awaits(u) \in Awaits /\ awaits(u) # "idle"
  BY DEF Awaits
<1> HIDE DEF awaits
<1>3. "idle" \in Awaits
  BY DEF Awaits
<1>4. at' \in [VUs -> Awaits]
  BY <1>1, <1>2, <1>3
<1>5. \A u \in VUs : at'[u] # "idle" <=> u \in DOMAIN draws \/ (u \notin stopped /\ at[u] # "idle")
  BY <1>1, <1>2
<1> QED BY <1>4, <1>5 DEF Busy

LEMMA ResultsHaveRuns ==
  ASSUME TypeInv, NEW i \in 1..Len(allResults)
  PROVE  allResults[i].run \in Scrapers /\ allResults[i].run \in Nat
<1>1. allResults[i] \in RowOf
  BY ElementOfSeq DEF TypeInv
<1> QED BY <1>1 DEF RowOf, Scrapers

-----------------------------------------------------------------------------
(* Every step keeps the invariant. *)

LEMMA BenchInit == Init => BenchInv
<1> SUFFICES ASSUME Init PROVE BenchInv
  OBVIOUS
<1>1. /\ phase = "preflight" /\ run = 1 /\ at = [u \in VUs |-> "idle"] /\ metrics = Empty
      /\ begun = [w \in Workloads |-> [r \in Scrapers |-> 0]] /\ allResults = <<>>
      /\ running = [r \in Scrapers |-> FALSE]
  BY DEF Init, CallsInit, ScraperInit
<1>2. RunInv /\ TypeInv /\ ScrapeInv
  BY <1>1 DEF RunInv, TypeInv, ScrapeInv, Empty, Awaits, OfRun, Workloads
<1>3. CountInv /\ ResultsCountOwnCalls /\ RowsInv
  BY <1>1 DEF CountInv, ResultsCountOwnCalls, RowsInv, Busy, Workloads
<1> QED BY <1>2, <1>3 DEF BenchInv

\* Steps that only move main() on, outside the workloads.
LEMMA MovesKeep ==
  ASSUME BenchInv, UNCHANGED <<at, metrics, begun, allResults, skipScrape>>,
         running' \in [Scrapers -> BOOLEAN], \A r \in Scrapers : ~running'[r],
         phase \notin Workloads, phase' \notin Workloads \cup {"probe"},
         \/ run' = run /\ (phase' \in OfRun => run \in Scrapers)
         \/ run' = run + 1 /\ run' \in Scrapers,
         phase' \in NoResultYet => run' = run + 1 \/ phase \in NoResultYet,
         phase' \in {"preflight", "load"} => run' = 1
  PROVE  BenchInv'
<1>1. RunInv'
  BY DEF BenchInv, RunInv, Scrapers
<1>2. TypeInv' /\ ScrapeInv'
  BY DEF BenchInv, TypeInv, ScrapeInv
<1>3. CountInv'
  BY DEF BenchInv, CountInv, Busy
<1>4. ResultsCountOwnCalls'
  BY DEF BenchInv, ResultsCountOwnCalls
<1>5. RowsInv'
  <2> SUFFICES ASSUME NEW i \in 1..Len(allResults)
               PROVE  \/ allResults[i].run < run'
                      \/ allResults[i].run = run' /\ phase' \notin NoResultYet
    BY DEF RowsInv
  <2>1. allResults[i].run \in Nat
    BY ResultsHaveRuns DEF BenchInv
  <2>2. \/ allResults[i].run < run
        \/ allResults[i].run = run /\ phase \notin NoResultYet
    BY DEF BenchInv, RowsInv
  <2> QED BY <2>1, <2>2 DEF BenchInv, RunInv
<1> QED BY <1>1, <1>2, <1>3, <1>4, <1>5 DEF BenchInv

\* No scraper is told to go on outside the workloads.
LEMMA NoneRunning ==
  ASSUME BenchInv, phase \notin Workloads
  PROVE  running \in [Scrapers -> BOOLEAN] /\ \A r \in Scrapers : ~running[r]
BY DEF BenchInv, ScrapeInv

LEMMA PreflightKeeps == ASSUME BenchInv, CheckUrls \/ Load PROVE BenchInv'
<1>1. CASE CheckUrls
  BY <1>1, MovesKeep, NoneRunning
     DEF CheckUrls, GoTo, callVars, measured, results, scraperVars, Workloads, OfRun,
         NoResultYet, BenchInv, RunInv
<1>2. CASE Load
  <2>1. run = 1 /\ run' = run /\ phase' \in {"combine", "start"} /\ phase \in NoResultYet
    BY <1>2 DEF Load, GoTo, BenchInv, RunInv, NoResultYet
  <2>2. phase' = "start" => run \in Scrapers
    BY <1>2, <2>1, ScraperAssumption DEF Load, GoTo, Scrapers
  <2> QED BY <1>2, <2>1, <2>2, MovesKeep, NoneRunning
          DEF Load, GoTo, callVars, measured, results, scraperVars, Workloads, OfRun
<1> QED BY <1>1, <1>2

LEMMA EndsKeep == ASSUME BenchInv, Save \/ Combine \/ Exit0 PROVE BenchInv'
<1>1. CASE Save
  <2>1. /\ run \in Scrapers /\ phase \notin NoResultYet
    BY <1>1 DEF Save, BenchInv, RunInv, OfRun, NoResultYet, Workloads
  <2>2. \/ run' = run + 1 /\ run' \in Scrapers /\ phase' = "start"
        \/ run' = run /\ phase' = "combine"
    BY <1>1, <2>1, ScraperAssumption DEF Save, AfterRun, GoTo, Scrapers
  <2> QED BY <1>1, <2>1, <2>2, MovesKeep, NoneRunning
          DEF Save, AfterRun, GoTo, callVars, measured, scraperVars, Workloads, OfRun, NoResultYet
<1>2. CASE Combine \/ Exit0
  BY <1>2, MovesKeep, NoneRunning
     DEF Combine, Exit0, GoTo, callVars, measured, results, scraperVars, Workloads, OfRun,
         NoResultYet
<1> QED BY <1>1, <1>2

LEMMA Exit1Keeps == ASSUME BenchInv, Exit1 PROVE BenchInv'
<1>1. /\ phase' = "exit1" /\ run' = run /\ metrics' = Empty /\ skipScrape' = skipScrape
      /\ at' = [u \in VUs |-> "idle"] /\ running' = [r \in Scrapers |-> FALSE]
      /\ UNCHANGED <<begun, allResults>>
  BY DEF Exit1, GoTo, CallsEnd, ScrapersEnd, results
<1>2. RunInv' /\ TypeInv' /\ ScrapeInv'
  BY <1>1 DEF BenchInv, RunInv, TypeInv, ScrapeInv, OfRun, Workloads, Empty, Awaits
<1>3. CountInv'
  BY <1>1 DEF CountInv, Busy, Workloads
<1>4. ResultsCountOwnCalls' /\ RowsInv'
  BY <1>1 DEF BenchInv, ResultsCountOwnCalls, RowsInv, NoResultYet, Workloads
<1> QED BY <1>2, <1>3, <1>4 DEF BenchInv

\* A workload begins: its collector is empty, and its users make their first calls.
LEMMA RunWorkloadKeeps ==
  ASSUME BenchInv, NEW w \in Workloads, phase \in {"start", "warmup"}, Busy = {},
         RunWorkload(w), UNCHANGED <<allResults>>,
         running' \in [Scrapers -> BOOLEAN],
         skipScrape => \A r \in Scrapers : ~running'[r],
         \A r \in Scrapers : running'[r] => r = run
  PROVE  BenchInv'
<1>1. /\ metrics' = Empty /\ phase' = w /\ run' = run /\ skipScrape' = skipScrape
      /\ begun' = [begun EXCEPT ![w][run] = UsersOf(run)]
  BY DEF RunWorkload, GoTo
<1>2. run \in Scrapers /\ run \in Nat
  BY DEF BenchInv, RunInv, OfRun, Workloads
<1>3. /\ UsersOf(run) \in Nat /\ 1..UsersOf(run) \subseteq VUs
      /\ Cardinality(1..UsersOf(run)) = UsersOf(run)
  BY <1>2, UsersOfRun
<1>4. at' \in [VUs -> Awaits] /\ Busy' = 1..UsersOf(run)
  <2>1. PICK draws \in [1..UsersOf(run) -> KindsOf(run)] : Call(draws, {})
    BY DEF RunWorkload
  <2>2. DOMAIN draws = 1..UsersOf(run) /\ at \in [VUs -> Awaits]
    BY DEF BenchInv, TypeInv
  <2> QED BY <1>3, <2>1, <2>2, CallMakesBusy
<1>5. begun' \in [Workloads -> [Scrapers -> Nat]] /\ begun'[w][run] = UsersOf(run)
      /\ \A v \in Workloads, r \in Scrapers : r # run => begun'[v][r] = begun[v][r]
  BY <1>1, <1>2, <1>3 DEF BenchInv, TypeInv
<1>6. RunInv' /\ TypeInv' /\ ScrapeInv'
  BY <1>1, <1>2, <1>4, <1>5
     DEF BenchInv, RunInv, TypeInv, ScrapeInv, Workloads, Empty
<1>7. CountInv'
  BY <1>1, <1>3, <1>4, <1>5 DEF CountInv, Empty, Workloads
<1>8. ASSUME NEW i \in 1..Len(allResults)
      PROVE  /\ allResults[i].run \in Scrapers /\ allResults[i].run < run
             /\ allResults[i].run # run
  <2>1. allResults[i].run \in Scrapers
    BY ResultsHaveRuns DEF BenchInv
  <2>2. allResults[i].run < run
    BY DEF BenchInv, RowsInv, NoResultYet, Workloads
  <2> QED BY <1>2, <2>1, <2>2 DEF Scrapers
<1>9. ResultsCountOwnCalls' /\ RowsInv'
  BY <1>1, <1>5, <1>8 DEF BenchInv, ResultsCountOwnCalls, RowsInv, Workloads
<1> QED BY <1>6, <1>7, <1>9 DEF BenchInv

LEMMA StartRunKeeps == ASSUME BenchInv, StartRun PROVE BenchInv'
<1>1. phase = "start" /\ Busy = {} /\ UNCHANGED allResults
  BY DEF StartRun, BenchInv, CountInv, Workloads, results
<1>2. PICK w \in Workloads : RunWorkload(w)
  BY DEF StartRun, Workloads
<1>3. \A r \in Scrapers : ~running[r]
  BY <1>1, NoneRunning DEF Workloads
<1>4. /\ running' \in [Scrapers -> BOOLEAN]
      /\ skipScrape => \A r \in Scrapers : ~running'[r]
      /\ \A r \in Scrapers : running'[r] => r = run
  BY <1>3 DEF StartRun, startScraping, scraperVars, BenchInv, ScrapeInv
<1> QED BY <1>1, <1>2, <1>4, RunWorkloadKeeps

LEMMA MeasurementKeeps == ASSUME BenchInv, EndWarmup PROVE BenchInv'
<1>1. phase = "warmup" /\ Busy = {} /\ RunWorkload("bench") /\ UNCHANGED <<running, allResults>>
  BY DEF EndWarmup, Awaited, Busy, scraperVars, results
<1>2. "bench" \in Workloads
  BY DEF Workloads
<1> QED BY <1>1, <1>2, RunWorkloadKeeps DEF BenchInv, ScrapeInv

\* The measurement is over: no call is in progress, so all are counted.
LEMMA EndBenchKeeps == ASSUME BenchInv, EndBench PROVE BenchInv'
<1>1. /\ phase = "bench" /\ Busy = {} /\ phase' = "probe" /\ run' = run
      /\ UNCHANGED <<at, metrics, begun, allResults, skipScrape>>
  BY DEF EndBench, Awaited, Busy, GoTo, callVars, measured, results
<1>2. running' \in [Scrapers -> BOOLEAN] /\ \A r \in Scrapers : ~running'[r]
  BY <1>1 DEF EndBench, StopAndWrite, scraperVars, BenchInv, ScrapeInv
<1>3. RunInv' /\ TypeInv' /\ ScrapeInv'
  BY <1>1, <1>2 DEF BenchInv, RunInv, TypeInv, ScrapeInv, OfRun, Workloads
<1>4. Cardinality(Busy) = 0
  BY <1>1, FS_EmptySet
<1>5. CountInv'
  <2>1. metrics.count + metrics.errors + 0 = begun["bench"][run]
    BY <1>1, <1>4 DEF BenchInv, CountInv, Workloads
  <2>2. metrics.count \in Nat /\ metrics.errors \in Nat
    BY DEF BenchInv, TypeInv
  <2> QED BY <1>1, <2>1, <2>2 DEF CountInv, Workloads, Busy
<1>6. ResultsCountOwnCalls' /\ RowsInv'
  BY <1>1 DEF BenchInv, ResultsCountOwnCalls, RowsInv, NoResultYet, Workloads
<1> QED BY <1>3, <1>5, <1>6 DEF BenchInv

LEMMA RecordKeeps == ASSUME BenchInv, Record PROVE BenchInv'
<1> DEFINE n == Len(allResults)
           row == [run |-> run, count |-> metrics.count, errors |-> metrics.errors]
<1>1. /\ phase = "probe" /\ phase' = "save" /\ run' = run
      /\ allResults' = Append(allResults, row)
      /\ UNCHANGED <<at, metrics, begun, skipScrape, running>>
  BY DEF Record, Summary, GoTo, callVars, measured, scraperVars
<1>2. run \in Scrapers
  BY <1>1 DEF BenchInv, RunInv, OfRun
<1>3. row \in RowOf
  BY <1>2 DEF RowOf, BenchInv, TypeInv
<1>4. /\ n \in Nat /\ allResults' \in Seq(RowOf) /\ Len(allResults') = n + 1
      /\ allResults'[n + 1] = row
      /\ \A i \in 1..n : allResults'[i] = allResults[i]
  BY <1>1, <1>3, AppendProperties, LenProperties DEF BenchInv, TypeInv
<1>5. RunInv' /\ TypeInv' /\ ScrapeInv'
  BY <1>1, <1>2, <1>4 DEF BenchInv, RunInv, TypeInv, ScrapeInv, Workloads
<1>6. CountInv'
  BY <1>1 DEF BenchInv, CountInv, Workloads, Busy
<1>7. row.count + row.errors = begun["bench"][row.run]
  BY <1>1 DEF BenchInv, CountInv
<1> HIDE DEF n
<1>8. \A i \in 1..Len(allResults') : i \in 1..n \/ i = n + 1
  BY <1>4
<1>9. ResultsCountOwnCalls'
  BY <1>1, <1>4, <1>7, <1>8 DEF BenchInv, ResultsCountOwnCalls, n
<1>10. RowsInv'
  BY <1>1, <1>4, <1>8 DEF BenchInv, RowsInv, NoResultYet, Workloads, n
<1> QED BY <1>5, <1>6, <1>9, <1>10 DEF BenchInv

\* Steps in which no call begins or ends, and main() stays where it is.
LEMMA CallsUntouched ==
  ASSUME BenchInv, UNCHANGED <<phase, run, skipScrape, metrics, begun, allResults, running>>,
         at' \in [VUs -> Awaits], Busy' = Busy
  PROVE  BenchInv'
<1>1. RunInv' /\ TypeInv' /\ ScrapeInv' /\ RowsInv' /\ ResultsCountOwnCalls'
  BY DEF BenchInv, RunInv, TypeInv, ScrapeInv, RowsInv, ResultsCountOwnCalls
<1>2. CountInv'
  BY DEF BenchInv, CountInv
<1> QED BY <1>1, <1>2 DEF BenchInv

LEMMA QuietKeeps ==
  ASSUME BenchInv, Deadline \/ Explain \/ (\E r \in Scrapers : Scrape(r)) PROVE BenchInv'
<1>1. at \in [VUs -> Awaits]
  BY DEF BenchInv, TypeInv
<1>2. CASE Deadline
  BY <1>1, <1>2, CallsUntouched DEF Deadline, callVars, scraperVars, measured, results, Busy
<1>3. ASSUME NEW r \in Scrapers, Scrape(r) PROVE BenchInv'
  BY <1>1, <1>3, CallsUntouched
     DEF Scrape, Fetched, Woken, callVars, mainVars, measured, results, Busy
<1>4. CASE Explain
  <2>1. UNCHANGED <<phase, run, skipScrape, metrics, begun, allResults, running>>
    BY <1>4 DEF Explain, scraperVars, mainVars, measured, results
  <2>2. at' \in [VUs -> Awaits] /\ Busy' = Busy
    <3>1. CASE OpenFiles
      BY <3>1, <1>1 DEF OpenFiles, Busy
    <3>2. ASSUME NEW u \in VUs, FilesReady(u) \/ LogAppended(u)
          PROVE  at' \in [VUs -> Awaits] /\ Busy' = Busy
      <4>1. \E a \in {"log", "csv"} : at' = [at EXCEPT ![u] = a] /\ at[u] # "idle"
        BY <3>2 DEF FilesReady, LogAppended
      <4>2. "log" \in Awaits /\ "csv" \in Awaits
        BY DEF Awaits
      <4> QED BY <4>1, <4>2, <1>1 DEF Busy
    <3>3. ASSUME NEW u \in VUs, Inserted(u) PROVE at' \in [VUs -> Awaits] /\ Busy' = Busy
      BY <3>3, <1>1 DEF Inserted, Busy
    <3> QED BY <1>4, <3>1, <3>2, <3>3 DEF Explain, CallStep
  <2> QED BY <2>1, <2>2, CallsUntouched
<1> QED BY <1>2, <1>3, <1>4

\* A call ends: it moves from those in progress to those counted, and the user stops or
\* begins another one.
LEMMA SettleKeeps == ASSUME BenchInv, NEW u \in VUs, Settle(u) PROVE BenchInv'
<1>1. /\ phase \in Workloads /\ u \in Busy /\ run \in Scrapers
      /\ UNCHANGED <<phase, run, skipScrape, running, allResults>>
  BY DEF Settle, Returns, Throws, Busy, scraperVars, mainVars, results, BenchInv, RunInv, OfRun
<1>2. /\ at \in [VUs -> Awaits] /\ metrics \in [count : Nat, errors : Nat]
      /\ begun \in [Workloads -> [Scrapers -> Nat]] /\ begun[phase][run] \in Nat
  BY <1>1 DEF BenchInv, TypeInv
<1>3. /\ metrics' \in [count : Nat, errors : Nat]
      /\ metrics'.count + metrics'.errors = metrics.count + metrics.errors + 1
  <2>1. \/ metrics' = [metrics EXCEPT !.count = @ + 1]
        \/ metrics' = [metrics EXCEPT !.errors = @ + 1]
    BY DEF Settle
  <2> QED BY <2>1, <1>2
<1>4. Cardinality(Busy) \in Nat /\ IsFiniteSet(Busy)
  BY UsersAreFinite DEF Busy
<1>5. metrics.count + metrics.errors + Cardinality(Busy) = begun[phase][run]
  BY <1>1 DEF BenchInv, CountInv
<1>6. /\ at' \in [VUs -> Awaits] /\ begun' \in [Workloads -> [Scrapers -> Nat]]
      /\ metrics'.count + metrics'.errors + Cardinality(Busy') = begun'[phase][run]
      /\ \A v \in Workloads, r \in Scrapers : r # run => begun'[v][r] = begun[v][r]
  <2>1. CASE Call(<<>>, {u}) /\ UNCHANGED begun
    <3>1. PICK none : DOMAIN none = {} /\ Call(none, {u})
      <4>1. DOMAIN <<>> = {}
        OBVIOUS
      <4> QED BY <4>1, <2>1
    <3>2. at' \in [VUs -> Awaits] /\ Busy' = Busy \ {u}
      <4>1. DOMAIN none \subseteq VUs /\ {u} \cap DOMAIN none = {}
        BY <3>1
      <4>2. at' \in [VUs -> Awaits] /\ Busy' = (Busy \cup DOMAIN none) \ {u}
        BY <3>1, <4>1, <1>2, CallMakesBusy
      <4> QED BY <3>1, <4>2
    <3>3. Cardinality(Busy \ {u}) = Cardinality(Busy) - 1
      BY <1>1, <1>4, FS_RemoveElement
    <3>4. Cardinality(Busy') = Cardinality(Busy) - 1
      BY <3>2, <3>3
    <3>5. begun' = begun
      BY <2>1
    <3>6. metrics'.count + metrics'.errors + Cardinality(Busy') = begun'[phase][run]
      BY <3>4, <3>5, <1>2, <1>3, <1>4, <1>5
    <3> QED BY <3>2, <3>5, <3>6, <1>2
  <2>2. CASE /\ \E k \in KindsOf(run) : Call([v \in {u} |-> k], {})
             /\ begun' = [begun EXCEPT ![phase][run] = @ + 1]
    <3>1. PICK k : Call([v \in {u} |-> k], {})
      BY <2>2
    <3>2. at' \in [VUs -> Awaits] /\ Busy' = (Busy \cup {u}) \ {}
      BY <3>1, <1>2, CallMakesBusy
    <3>3. Busy' = Busy
      BY <3>2, <1>1
    <3>4. /\ begun' \in [Workloads -> [Scrapers -> Nat]]
          /\ begun'[phase][run] = begun[phase][run] + 1
          /\ \A v \in Workloads, r \in Scrapers : r # run => begun'[v][r] = begun[v][r]
      BY <2>2, <1>1, <1>2
    <3>5. metrics'.count + metrics'.errors + Cardinality(Busy') = begun'[phase][run]
      BY <3>3, <3>4, <1>2, <1>3, <1>4, <1>5
    <3> QED BY <3>2, <3>4, <3>5
  <2> QED BY <2>1, <2>2 DEF Settle
<1>7. RunInv' /\ TypeInv' /\ ScrapeInv' /\ RowsInv'
  BY <1>1, <1>3, <1>6 DEF BenchInv, RunInv, TypeInv, ScrapeInv, RowsInv
<1>8. CountInv'
  BY <1>1, <1>6 DEF CountInv, Workloads
<1>9. ResultsCountOwnCalls'
  <2>1. ASSUME NEW i \in 1..Len(allResults)
        PROVE  allResults[i].run \in Scrapers /\ allResults[i].run # run
    <3>1. allResults[i].run \in Scrapers
      BY ResultsHaveRuns DEF BenchInv
    <3>2. allResults[i].run < run
      BY <1>1 DEF BenchInv, RowsInv, NoResultYet
    <3> QED BY <3>1, <3>2, <1>1 DEF Scrapers
  <2>2. "bench" \in Workloads
    BY DEF Workloads
  <2> QED BY <2>1, <2>2, <1>1, <1>6 DEF BenchInv, ResultsCountOwnCalls
<1> QED BY <1>7, <1>8, <1>9 DEF BenchInv

LEMMA BenchNext == BenchInv /\ [Next]_vars => BenchInv'
<1> SUFFICES ASSUME BenchInv, [Next]_vars PROVE BenchInv'
  OBVIOUS
<1>1. CASE CheckUrls \/ Load
  BY <1>1, PreflightKeeps
<1>2. CASE StartRun
  BY <1>2, StartRunKeeps
<1>3. CASE EndWarmup
  BY <1>3, MeasurementKeeps
<1>4. CASE EndBench
  BY <1>4, EndBenchKeeps
<1>5. CASE Record
  BY <1>5, RecordKeeps
<1>6. CASE Save \/ Combine \/ Exit0
  BY <1>6, EndsKeep
<1>7. CASE Exit1
  BY <1>7, Exit1Keeps
<1>8. ASSUME NEW u \in VUs, Settle(u) PROVE BenchInv'
  BY <1>8, SettleKeeps
<1>9. CASE Deadline \/ Explain \/ \E r \in Scrapers : Scrape(r)
  BY <1>9, QuietKeeps
<1>10. CASE UNCHANGED vars
  BY <1>10, CallsUntouched
     DEF vars, callVars, scraperVars, mainVars, measured, results, Busy, BenchInv, TypeInv
<1> QED BY <1>1, <1>2, <1>3, <1>4, <1>5, <1>6, <1>7, <1>8, <1>9, <1>10 DEF Next, Main

-----------------------------------------------------------------------------
\* The inductive invariant of a benchmark command.
THEOREM BenchInvariant == Spec => []BenchInv
<1>1. Init => BenchInv
  BY BenchInit
<1>2. BenchInv /\ [Next]_vars => BenchInv'
  BY BenchNext
<1> QED BY <1>1, <1>2, PTL DEF Spec

\* A result counts every call that its own measurement began, each once, and none of a
\* warm-up, for any number of users and scenarios (concurrency.ts:15-34,
\* index.ts:168-191,210).
THEOREM ResultsAreOwnCalls == Spec => []ResultsCountOwnCalls
<1>1. BenchInv => ResultsCountOwnCalls
  BY DEF BenchInv
<1> QED BY <1>1, BenchInvariant, PTL

LoopInv == loop \in [Scrapers -> {"none", "fetching", "sleeping", "ended"}]

LEMMA LoopInvariant == Spec => []LoopInv
<1>1. Init => LoopInv
  BY DEF Init, ScraperInit, LoopInv
<1>2. LoopInv /\ [Next]_vars => LoopInv'
  <2> SUFFICES ASSUME LoopInv, [Next]_vars PROVE LoopInv'
    OBVIOUS
  <2>1. CASE StartRun
    BY <2>1 DEF StartRun, startScraping, scraperVars, LoopInv
  <2>2. ASSUME NEW r \in Scrapers, Scrape(r) PROVE LoopInv'
    BY <2>2 DEF Scrape, Fetched, Woken, LoopInv
  <2>3. CASE Exit1 \/ EndBench
    BY <2>3 DEF Exit1, ScrapersEnd, EndBench, StopAndWrite, scraperVars, LoopInv
  <2>4. CASE \/ CheckUrls \/ Load \/ EndWarmup \/ Record \/ Save \/ Combine \/ Exit0 \/ Deadline
             \/ Explain \/ (\E u \in VUs : Settle(u)) \/ UNCHANGED vars
    BY <2>4 DEF CheckUrls, Load, EndWarmup, Record, Save, Combine, Exit0, Deadline,
                Explain, Settle, vars, scraperVars, LoopInv
  <2> QED BY <2>1, <2>2, <2>3, <2>4 DEF Next, Main
<1> QED BY <1>1, <1>2, PTL DEF Spec

\* A step in which a scrape begins is one of the current run, while its workload is run.
LEMMA ScrapeStep ==
  ASSUME BenchInv, LoopInv, [Next]_vars, NEW r \in Scrapers,
         loop[r] # "fetching", loop'[r] = "fetching"
  PROVE  r = run /\ phase' \in Workloads
<1>1. CASE StartRun
  <2>1. r = run
    BY <1>1 DEF StartRun, startScraping, scraperVars, LoopInv
  <2>2. phase' \in Workloads
    BY <1>1 DEF StartRun, RunWorkload, GoTo, Workloads
  <2> QED BY <2>1, <2>2
<1>2. ASSUME NEW q \in Scrapers, Scrape(q) PROVE r = run /\ phase' \in Workloads
  <2>1. q = r /\ loop[r] = "sleeping" /\ running[r] /\ phase' = phase
    BY <1>2 DEF Scrape, Fetched, Woken, mainVars, LoopInv
  <2> QED BY <2>1 DEF BenchInv, ScrapeInv
<1>3. CASE Exit1
  BY <1>3 DEF Exit1, ScrapersEnd
<1>4. CASE EndBench
  BY <1>4 DEF EndBench, StopAndWrite, scraperVars
<1>5. CASE UNCHANGED loop
  BY <1>5
<1>6. CASE \/ CheckUrls \/ Load \/ EndWarmup \/ Record \/ Save \/ Combine \/ Exit0 \/ Deadline
           \/ Explain \/ (\E u \in VUs : Settle(u)) \/ UNCHANGED vars
  BY <1>5, <1>6 DEF CheckUrls, Load, EndWarmup, Record, Save, Combine, Exit0, Deadline,
                    Explain, Settle, vars, scraperVars
<1> QED BY <1>1, <1>2, <1>3, <1>4, <1>6 DEF Next, Main

\* No scrape begins once its run has been stopped, however many runs there are and
\* whatever the endpoints answer and when (scrape.ts:191,224; index.ts:196).
THEOREM ScrapesStop == Spec => NoScrapeAfterStop
<1>1. BenchInv /\ LoopInv /\ [Next]_vars =>
        (\A r \in Scrapers : loop[r] # "fetching" /\ loop'[r] = "fetching"
            => r = run /\ phase' \in Workloads)
  BY ScrapeStep
<1> QED BY <1>1, BenchInvariant, LoopInvariant, PTL DEF Spec, NoScrapeAfterStop

-----------------------------------------------------------------------------
(* The explain files. *)

\* The numbers that the reads of this process have drawn.
Drawn == {ln \in Reads \X Nat : ln[2] <= counter[ln[1]]}

Lines == Drawn \cup {Header}

\* u's call explains its statement.
Explaining(u) == at[u] \in {"files", "log", "csv"}

\* Explained calls in progress have drawn different numbers and have no row in the CSV
\* yet; they write only after the files were opened, to the log first.
ExplainCallsInv ==
    /\ counter \in [Reads -> Nat] /\ at \in [VUs -> Awaits]
    /\ seq \in [VUs -> Nat]
    /\ \A u \in VUs : Explaining(u) =>
          Line(u) \in Drawn /\ shouldExplain(seq[u]) /\ Line(u) \notin ToSet(explainCsv)
    /\ \A u, v \in VUs : Explaining(u) /\ Explaining(v) /\ Line(u) = Line(v) => u = v
    /\ \A u \in VUs : at[u] \in {"log", "csv"} => explainOutputReady = "ready"
    /\ \A u \in VUs : at[u] = "csv" => Line(u) \in ToSet(explainLog)

\* The files hold lines that were drawn; a file that was not opened is empty.
ExplainFilesInv ==
    /\ explainLog \in Seq(Lines) /\ explainCsv \in Seq(Lines)
    /\ explainOutputReady = "ready" => explainCsv # <<>>
    /\ explainOutputReady # "ready" => explainCsv = <<>>
    /\ ExplainFilesAgree

ExplainInv == IF phase \in Exited THEN ExplainFilesAgree ELSE ExplainCallsInv /\ ExplainFilesInv

LEMMA AppendToSet ==
  ASSUME NEW S, NEW s \in Seq(S), NEW e \in S
  PROVE  /\ Append(s, e) \in Seq(S) /\ Append(s, e) # <<>>
         /\ ToSet(Append(s, e)) = ToSet(s) \cup {e}
         /\ IsInjective(s) /\ e \notin ToSet(s) => IsInjective(Append(s, e))
<1> DEFINE t == Append(s, e)
<1>1. /\ t \in Seq(S) /\ t # <<>> /\ Len(t) = Len(s) + 1 /\ Len(s) \in Nat
      /\ \A i \in 1..Len(s) : t[i] = s[i]
      /\ t[Len(s) + 1] = e
      /\ DOMAIN s = 1..Len(s) /\ DOMAIN t = 1..Len(s) + 1
  <2>1. /\ t \in Seq(S) /\ t # <<>> /\ Len(t) = Len(s) + 1
        /\ \A i \in 1..Len(s) : t[i] = s[i]
        /\ t[Len(s) + 1] = e
    BY AppendProperties
  <2>2. DOMAIN s = 1..Len(s) /\ Len(s) \in Nat
    BY LenProperties
  <2>3. DOMAIN t = 1..Len(t)
    BY <2>1, LenProperties
  <2> QED BY <2>1, <2>2, <2>3
<1> HIDE DEF t
<1>2. \A i \in DOMAIN t : i \in DOMAIN s \/ i = Len(s) + 1
  BY <1>1
<1>3. DOMAIN s \subseteq DOMAIN t /\ Len(s) + 1 \in DOMAIN t /\ Len(s) + 1 \notin DOMAIN s
  BY <1>1
<1>4. ToSet(t) = ToSet(s) \cup {e}
  BY <1>1, <1>2, <1>3 DEF ToSet
<1>5. ASSUME IsInjective(s), e \notin ToSet(s) PROVE IsInjective(t)
  <2> SUFFICES ASSUME NEW i \in DOMAIN t, NEW j \in DOMAIN t, t[i] = t[j] PROVE i = j
    BY DEF IsInjective
  <2>1. \A k \in DOMAIN s : t[k] = s[k] /\ t[k] # e
    BY <1>1, <1>5 DEF ToSet
  <2> QED BY <1>1, <1>2, <1>5, <2>1 DEF IsInjective
<1> QED BY <1>1, <1>4, <1>5 DEF t

\* One more row in a CSV that begins with its header.
LEMMA RowAppended ==
  ASSUME ExplainFilesInv, explainCsv # <<>>, NEW line \in Drawn, line # Header,
         line \notin ToSet(explainCsv), line \in ToSet(explainLog), shouldExplain(line[2]),
         explainCsv' = Append(explainCsv, line), explainLog' = explainLog
  PROVE  /\ explainCsv' \in Seq(Lines) /\ explainCsv' # <<>>
         /\ ToSet(explainCsv') = ToSet(explainCsv) \cup {line}
         /\ ExplainFilesAgree'
<1>1. line \in Lines /\ explainCsv \in Seq(Lines) /\ IsInjective(explainCsv)
  BY DEF Lines, ExplainFilesInv, ExplainFilesAgree
<1>2. /\ explainCsv' \in Seq(Lines) /\ explainCsv' # <<>>
      /\ ToSet(explainCsv') = ToSet(explainCsv) \cup {line}
      /\ IsInjective(explainCsv')
  BY <1>1, AppendToSet
<1>3. /\ Len(explainCsv') = Len(explainCsv) + 1 /\ Len(explainCsv) \in Nat \ {0}
      /\ \A i \in 1..Len(explainCsv) : explainCsv'[i] = explainCsv[i]
      /\ explainCsv'[Len(explainCsv) + 1] = line
  BY <1>1, AppendProperties, EmptySeq
<1>4. \A i \in 1..Len(explainCsv') : (explainCsv'[i] = Header) <=> i = 1
  <2> SUFFICES ASSUME NEW i \in 1..Len(explainCsv')
               PROVE  (explainCsv'[i] = Header) <=> i = 1
    OBVIOUS
  <2>1. CASE i \in 1..Len(explainCsv)
    BY <1>3, <2>1 DEF ExplainFilesInv, ExplainFilesAgree
  <2>2. CASE i = Len(explainCsv) + 1
    BY <1>3, <2>2
  <2> QED BY <1>3, <2>1, <2>2
<1>5. \A ln \in ToSet(explainCsv') \ {Header} :
         ln \in ToSet(explainLog') /\ shouldExplain(ln[2])
  BY <1>2 DEF ExplainFilesInv, ExplainFilesAgree
<1> QED BY <1>2, <1>4, <1>5 DEF ExplainFilesAgree

\* The header is no line of a call.
LEMMA HeaderIsNotDrawn == Header \notin Drawn
BY DEF Header, Drawn, Reads

\* Calls that begin in one step draw different numbers, larger than all drawn before.
LEMMA CallNumbers ==
  ASSUME counter \in [Reads -> Nat], at \in [VUs -> Awaits], seq \in [VUs -> Nat],
         NEW draws, DOMAIN draws \subseteq VUs,
         NEW stopped, stopped \cap DOMAIN draws = {}, Call(draws, stopped)
  PROVE  /\ counter' \in [Reads -> Nat] /\ at' \in [VUs -> Awaits] /\ seq' \in [VUs -> Nat]
         /\ \A k \in Reads : counter[k] <= counter'[k]
         /\ \A u \in DOMAIN draws : at'[u] \notin {"log", "csv"}
         /\ \A u \in DOMAIN draws : /\ kind'[u] = draws[u]
                                    /\ at'[u] = "insert" => seq'[u] = 0
                                    /\ draws[u] = "w1" => at'[u] = "insert"
         /\ \A u \in DOMAIN draws : at'[u] = "files" =>
               /\ kind'[u] \in Reads /\ shouldExplain(seq'[u])
               /\ counter[kind'[u]] < seq'[u] /\ seq'[u] <= counter'[kind'[u]]
         /\ \A u, v \in DOMAIN draws :
               at'[u] = "files" /\ at'[v] = "files" /\ kind'[u] = kind'[v] /\ seq'[u] = seq'[v]
                  => u = v
         /\ \A u \in VUs \ DOMAIN draws :
               IF u \in stopped THEN at'[u] = "idle"
               ELSE at'[u] = at[u] /\ kind'[u] = kind[u] /\ seq'[u] = seq[u]
         /\ \/ explainOutputReady' = explainOutputReady
            \/ explainOutputReady = "none" /\ explainOutputReady' = "pending"
<1> DEFINE callers == DOMAIN draws
           earlier(u) == {v \in callers : v <= u /\ draws[v] = draws[u]}
           of(k) == {u \in callers : draws[u] = k}
           number(u) == IF draws[u] \in Reads THEN counter[draws[u]] + Cardinality(earlier(u)) ELSE 0
           explains(u) == draws[u] \in Reads /\ shouldExplain(number(u))
           awaits(u) == IF explains(u) THEN "files" ELSE IF draws[u] = "w1" THEN "insert" ELSE "query"
<1>1. /\ counter' = [k \in Reads |-> counter[k] + Cardinality(of(k))]
      /\ kind' = [u \in VUs |-> IF u \in callers THEN draws[u]
                                ELSE IF u \in stopped THEN "none" ELSE kind[u]]
      /\ seq' = [u \in VUs |-> IF u \in callers THEN number(u)
                               ELSE IF u \in stopped THEN 0 ELSE seq[u]]
      /\ at' = [u \in VUs |-> IF u \in callers THEN awaits(u)
                              ELSE IF u \in stopped THEN "idle" ELSE at[u]]
      /\ explainOutputReady' =
            IF explainOutputReady = "none" /\ \E u \in callers : explains(u)
            THEN "pending" ELSE explainOutputReady
  BY DEF Call
<1>2. \A S \in SUBSET callers : IsFiniteSet(S) /\ Cardinality(S) \in Nat
  <2>1. \A S \in SUBSET callers : S \in SUBSET VUs
    OBVIOUS
  <2> QED BY <2>1, UsersAreFinite
<1>3. callers \subseteq Nat
  BY CallsAssumption DEF VUs
<1>4. \A u \in callers : Cardinality(earlier(u)) \in Nat /\ Cardinality(of(draws[u])) \in Nat
  <2>1. \A u \in callers : earlier(u) \in SUBSET callers /\ of(draws[u]) \in SUBSET callers
    OBVIOUS
  <2> QED BY <1>2, <2>1
<1>5. \A k \in Reads : Cardinality(of(k)) \in Nat
  <2>1. \A k \in Reads : of(k) \in SUBSET callers
    OBVIOUS
  <2> QED BY <1>2, <2>1
<1>6. counter' \in [Reads -> Nat] /\ \A k \in Reads : counter[k] <= counter'[k]
  <2> HIDE DEF of
  <2> QED BY <1>1, <1>5
<1>7. ASSUME NEW u \in callers
      PROVE  1 <= Cardinality(earlier(u)) /\ Cardinality(earlier(u)) <= Cardinality(of(draws[u]))
  <2>1. u \in earlier(u) /\ earlier(u) \subseteq of(draws[u])
    BY <1>3
  <2>2. IsFiniteSet(earlier(u)) /\ IsFiniteSet(of(draws[u]))
    <3>1. earlier(u) \in SUBSET callers /\ of(draws[u]) \in SUBSET callers
      OBVIOUS
    <3> QED BY <1>2, <3>1
  <2>3. Cardinality(earlier(u)) <= Cardinality(of(draws[u]))
    BY <2>1, <2>2, FS_Subset
  <2>4. Cardinality(earlier(u)) # 0
    BY <2>1, <2>2, FS_EmptySet
  <2> QED BY <1>4, <2>3, <2>4
<1>8. ASSUME NEW u \in callers, NEW v \in callers, draws[u] = draws[v], u # v
      PROVE  Cardinality(earlier(u)) # Cardinality(earlier(v))
  <2>1. ASSUME NEW x \in callers, NEW y \in callers, draws[x] = draws[y], x < y
        PROVE  Cardinality(earlier(x)) # Cardinality(earlier(y))
    <3>1. earlier(x) \subseteq earlier(y) /\ y \in earlier(y) /\ y \notin earlier(x)
      BY <1>3, <2>1
    <3>2. IsFiniteSet(earlier(y))
      <4>1. earlier(y) \in SUBSET callers
        OBVIOUS
      <4> QED BY <1>2, <4>1
    <3>3. Cardinality(earlier(y)) = Cardinality(earlier(x)) => earlier(y) = earlier(x)
      BY <3>1, <3>2, FS_Subset
    <3> QED BY <3>1, <3>3
  <2>2. u \in Nat /\ v \in Nat
    BY <1>3
  <2>3. u < v \/ v < u
    BY <1>8, <2>2
  <2> QED BY <1>8, <2>1, <2>3
<1>9. \A u \in callers : number(u) \in Nat /\
         (draws[u] \in Reads => /\ number(u) = counter[draws[u]] + Cardinality(earlier(u))
                                /\ counter[draws[u]] < number(u)
                                /\ number(u) <= counter'[draws[u]])
  <2> SUFFICES ASSUME NEW u \in callers
               PROVE  /\ number(u) \in Nat
                      /\ draws[u] \in Reads =>
                            /\ number(u) = counter[draws[u]] + Cardinality(earlier(u))
                            /\ counter[draws[u]] < number(u)
                            /\ number(u) <= counter'[draws[u]]
    OBVIOUS
  <2>1. CASE draws[u] \in Reads
    <3>1. counter[draws[u]] \in Nat /\ number(u) = counter[draws[u]] + Cardinality(earlier(u))
      BY <2>1
    <3>2. counter'[draws[u]] = counter[draws[u]] + Cardinality(of(draws[u]))
      BY <1>1, <2>1
    <3> HIDE DEF number, earlier, of
    <3> QED BY <3>1, <3>2, <1>4, <1>7
  <2>2. CASE draws[u] \notin Reads
    BY <2>2
  <2> QED BY <2>1, <2>2
<1>10. /\ \A u : awaits(u) \in Awaits /\ awaits(u) \notin {"log", "csv"}
       /\ \A u : awaits(u) = "files" => draws[u] \in Reads /\ shouldExplain(number(u))
       /\ "idle" \in Awaits
  BY DEF Awaits
<1> HIDE DEF number, earlier, of, explains, awaits
<1>11. at' \in [VUs -> Awaits] /\ seq' \in [VUs -> Nat]
  BY <1>1, <1>9, <1>10
<1>12. \A u \in callers : at'[u] = awaits(u) /\ kind'[u] = draws[u] /\ seq'[u] = number(u)
  BY <1>1
<1>13. ASSUME NEW u \in callers, NEW v \in callers, at'[u] = "files", at'[v] = "files",
              kind'[u] = kind'[v], seq'[u] = seq'[v]
       PROVE  u = v
  <2>1. draws[u] \in Reads /\ draws[v] = draws[u] /\ number(u) = number(v)
    BY <1>10, <1>12, <1>13
  <2>2. counter[draws[u]] \in Nat
    BY <2>1
  <2>3. Cardinality(earlier(u)) = Cardinality(earlier(v))
    BY <1>4, <1>9, <2>1, <2>2
  <2> QED BY <1>8, <2>1, <2>3
<1>14. \A u \in VUs \ callers :
          IF u \in stopped THEN at'[u] = "idle"
          ELSE at'[u] = at[u] /\ kind'[u] = kind[u] /\ seq'[u] = seq[u]
  BY <1>1
<1>15. \/ explainOutputReady' = explainOutputReady
       \/ explainOutputReady = "none" /\ explainOutputReady' = "pending"
  BY <1>1
<1>16. \A u \in callers : at'[u] = "files" =>
          /\ kind'[u] \in Reads /\ shouldExplain(seq'[u])
          /\ counter[kind'[u]] < seq'[u] /\ seq'[u] <= counter'[kind'[u]]
  BY <1>9, <1>10, <1>12
<1>17. \A u \in callers : at'[u] \notin {"log", "csv"}
  BY <1>10, <1>12
<1>18. \A u \in callers : /\ kind'[u] = draws[u]
                          /\ at'[u] = "insert" => seq'[u] = 0
                          /\ draws[u] = "w1" => at'[u] = "insert"
  <2>1. \A u \in callers : awaits(u) = "insert" => draws[u] = "w1"
    BY DEF awaits
  <2>2. \A u \in callers : draws[u] = "w1" => number(u) = 0 /\ awaits(u) = "insert"
    BY DEF awaits, explains, number, Reads
  <2> QED BY <1>12, <2>1, <2>2
<1> QED BY <1>6, <1>11, <1>13, <1>14, <1>15, <1>16, <1>17, <1>18

\* Lines that were drawn stay drawn while the process lives.
LEMMA DrawnGrows ==
  ASSUME counter \in [Reads -> Nat], counter' \in [Reads -> Nat],
         \A k \in Reads : counter[k] <= counter'[k]
  PROVE  Drawn \subseteq Drawn' /\ Lines \subseteq Lines'
<1>1. \A ln \in Drawn : ln \in Drawn'
  <2> SUFFICES ASSUME NEW ln \in Reads \X Nat, ln[2] <= counter[ln[1]]
               PROVE  ln[2] <= counter'[ln[1]]
    BY DEF Drawn
  <2>1. ln[1] \in Reads /\ ln[2] \in Nat
    OBVIOUS
  <2> QED BY <2>1
<1> QED BY <1>1 DEF Lines

\* Calls begin, some of them after others have ended: the lines of those that go on are
\* as before, and the new ones have numbers that no line has.
LEMMA CallKeepsExplain ==
  ASSUME ExplainCallsInv,
         NEW draws, DOMAIN draws \subseteq VUs, NEW stopped,
         stopped \cap DOMAIN draws = {}, Call(draws, stopped),
         explainLog' = explainLog,
         ToSet(explainCsv') \subseteq Lines,
         \A u \in VUs \ (DOMAIN draws \cup stopped) :
            Explaining(u) => Line(u) \notin ToSet(explainCsv')
  PROVE  /\ ExplainCallsInv' /\ Lines \subseteq Lines'
         /\ explainOutputReady' = "ready" <=> explainOutputReady = "ready"
<1> DEFINE callers == DOMAIN draws
<1>1. counter \in [Reads -> Nat] /\ at \in [VUs -> Awaits] /\ seq \in [VUs -> Nat]
  BY DEF ExplainCallsInv
<1>2. /\ counter' \in [Reads -> Nat] /\ at' \in [VUs -> Awaits] /\ seq' \in [VUs -> Nat]
      /\ \A k \in Reads : counter[k] <= counter'[k]
      /\ \A u \in callers : at'[u] \notin {"log", "csv"}
      /\ \A u \in callers : at'[u] = "files" =>
            /\ kind'[u] \in Reads /\ shouldExplain(seq'[u])
            /\ counter[kind'[u]] < seq'[u] /\ seq'[u] <= counter'[kind'[u]]
      /\ \A u, v \in callers :
            at'[u] = "files" /\ at'[v] = "files" /\ kind'[u] = kind'[v] /\ seq'[u] = seq'[v]
               => u = v
      /\ \A u \in VUs \ callers :
            IF u \in stopped THEN at'[u] = "idle"
            ELSE at'[u] = at[u] /\ kind'[u] = kind[u] /\ seq'[u] = seq[u]
      /\ \/ explainOutputReady' = explainOutputReady
         \/ explainOutputReady = "none" /\ explainOutputReady' = "pending"
  BY <1>1, CallNumbers
<1>3. Drawn \subseteq Drawn' /\ Lines \subseteq Lines'
  BY <1>1, <1>2, DrawnGrows
<1>4. ASSUME NEW u \in VUs, Explaining(u)'
      PROVE  \/ /\ u \in callers /\ at'[u] = "files"
             \/ /\ u \notin callers \cup stopped /\ Explaining(u) /\ at'[u] = at[u]
                /\ Line(u)' = Line(u) /\ seq'[u] = seq[u]
  BY <1>2, <1>4 DEF Explaining, Line
<1>5. ASSUME NEW u \in callers, at'[u] = "files"
      PROVE  Line(u)' \in Drawn' /\ Line(u)' \notin Drawn /\ Line(u)' # Header
  <2>1. kind'[u] \in Reads /\ seq'[u] \in Nat /\ counter[kind'[u]] < seq'[u]
        /\ seq'[u] <= counter'[kind'[u]] /\ Line(u)' = <<kind'[u], seq'[u]>>
        /\ counter[kind'[u]] \in Nat
    BY <1>1, <1>2, <1>5 DEF Line
  <2>2. Line(u)' \in Drawn' /\ Line(u)' \notin Drawn
    BY <2>1 DEF Drawn
  <2>3. Line(u)' # Header
    BY <2>1 DEF Header, Reads
  <2> QED BY <2>2, <2>3
<1>6. ASSUME NEW u \in VUs, Explaining(u)'
      PROVE  Line(u)' \in Drawn' /\ shouldExplain(seq[u])' /\ Line(u)' \notin ToSet(explainCsv')
  <2>1. CASE u \in callers /\ at'[u] = "files"
    <3>1. shouldExplain(seq'[u])
      BY <1>2, <2>1
    <3>2. shouldExplain(seq[u])'
      BY <3>1 DEF shouldExplain
    <3> QED BY <1>5, <2>1, <3>2 DEF Lines
  <2>2. CASE /\ u \notin callers \cup stopped /\ Explaining(u)
             /\ Line(u)' = Line(u) /\ seq'[u] = seq[u]
    <3>1. Line(u) \in Drawn /\ shouldExplain(seq[u])
      BY <2>2 DEF ExplainCallsInv
    <3>2. shouldExplain(seq[u])'
      BY <2>2, <3>1 DEF shouldExplain
    <3> QED BY <1>3, <2>2, <3>1, <3>2
  <2> QED BY <1>4, <1>6, <2>1, <2>2
<1>7. ASSUME NEW u \in VUs, NEW v \in VUs, Explaining(u)', Explaining(v)', Line(u)' = Line(v)'
      PROVE  u = v
  <2>1. ASSUME NEW x \in callers, at'[x] = "files",
               NEW y \in VUs, y \notin callers, Explaining(y), Line(y)' = Line(y)
        PROVE  Line(x)' # Line(y)'
    <3>1. Line(y) \in Drawn
      BY <2>1 DEF ExplainCallsInv
    <3> QED BY <1>5, <2>1, <3>1
  <2>2. CASE u \in callers /\ v \in callers
    <3>1. kind'[u] = kind'[v] /\ seq'[u] = seq'[v] /\ at'[u] = "files" /\ at'[v] = "files"
      BY <1>4, <1>7, <2>2 DEF Line
    <3> QED BY <1>2, <2>2, <3>1
  <2>3. CASE u \notin callers /\ v \notin callers
    <3>1. Explaining(u) /\ Explaining(v) /\ Line(u) = Line(v)
      BY <1>4, <1>7, <2>3
    <3> QED BY <3>1 DEF ExplainCallsInv
  <2>4. CASE u \in callers /\ v \notin callers
    BY <1>4, <1>7, <2>1, <2>4
  <2>5. CASE u \notin callers /\ v \in callers
    BY <1>4, <1>7, <2>1, <2>5
  <2> QED BY <2>2, <2>3, <2>4, <2>5
<1>8. ASSUME NEW u \in VUs, at'[u] \in {"log", "csv"}
      PROVE  /\ explainOutputReady' = "ready"
             /\ at'[u] = "csv" => Line(u)' \in ToSet(explainLog')
  <2>1. Explaining(u)' /\ u \notin callers
    BY <1>2, <1>8 DEF Explaining
  <2>2. at[u] = at'[u] /\ Line(u)' = Line(u)
    BY <1>4, <2>1
  <2>3. explainOutputReady = "ready" /\ (at[u] = "csv" => Line(u) \in ToSet(explainLog))
    BY <1>8, <2>2 DEF ExplainCallsInv
  <2> QED BY <1>2, <2>2, <2>3
<1>9. ExplainCallsInv'
  BY <1>2, <1>6, <1>7, <1>8 DEF ExplainCallsInv
<1> QED BY <1>2, <1>3, <1>9

\* Lines and files after calls began, without a new line in the log.
LEMMA LinesStay ==
  ASSUME ExplainFilesInv, Lines \subseteq Lines',
         explainLog' = explainLog, explainCsv' \in Seq(Lines), ExplainFilesAgree',
         explainOutputReady' = "ready" <=> explainOutputReady = "ready",
         explainCsv' = <<>> <=> explainCsv = <<>>
  PROVE  ExplainFilesInv'
<1>1. explainLog' \in Seq(Lines') /\ explainCsv' \in Seq(Lines')
  BY DEF ExplainFilesInv
<1> QED BY <1>1 DEF ExplainFilesInv

\* The two parts of the invariant while the process lives, at the steps that open the
\* files and write to them.
LEMMA OpenFilesKeeps ==
  ASSUME ExplainCallsInv, ExplainFilesInv, OpenFiles
  PROVE  ExplainCallsInv' /\ ExplainFilesInv'
<1>1. /\ explainOutputReady = "pending" /\ explainCsv = <<>>
      /\ UNCHANGED <<counter, at, kind, seq, explainLog>>
  BY DEF OpenFiles, ExplainFilesInv
<1>2. \A u \in VUs : at[u] \notin {"log", "csv"}
  BY <1>1 DEF ExplainCallsInv
<1>3. Drawn' = Drawn /\ Lines' = Lines
  BY <1>1 DEF Drawn, Lines
<1>4. CASE explainOutputReady' = "failed" /\ UNCHANGED explainCsv
  BY <1>1, <1>2, <1>3, <1>4
     DEF ExplainCallsInv, ExplainFilesInv, ExplainFilesAgree, Explaining, Line, shouldExplain
<1>5. CASE explainOutputReady' = "ready" /\ explainCsv' = Append(explainCsv, Header)
  <2>1. <<>> \in Seq(Lines) /\ Header \in Lines /\ ToSet(<<>>) = {} /\ IsInjective(<<>>)
    BY DEF Lines, ToSet, IsInjective
  <2>2. /\ explainCsv' \in Seq(Lines) /\ explainCsv' # <<>> /\ ToSet(explainCsv') = {Header}
        /\ IsInjective(explainCsv')
    <3>1. PICK none \in Seq(Lines) : none = explainCsv /\ ToSet(none) = {} /\ IsInjective(none)
      BY <1>1, <2>1
    <3>2. Header \in Lines /\ Header \notin ToSet(none)
      BY <2>1, <3>1
    <3>3. /\ Append(none, Header) \in Seq(Lines) /\ Append(none, Header) # <<>>
          /\ ToSet(Append(none, Header)) = ToSet(none) \cup {Header}
          /\ IsInjective(Append(none, Header))
      BY <3>1, <3>2, AppendToSet
    <3> QED BY <1>5, <3>1, <3>3
  <2>3. \A i \in 1..Len(explainCsv') : (explainCsv'[i] = Header) <=> i = 1
    BY <1>1, <1>5
  <2>4. ExplainFilesInv'
    BY <1>1, <1>3, <1>5, <2>2, <2>3 DEF ExplainFilesInv, ExplainFilesAgree
  <2>5. \A u \in VUs : Explaining(u) => Line(u) \notin ToSet(explainCsv')
    BY <2>2, HeaderIsNotDrawn DEF ExplainCallsInv
  <2>6. ExplainCallsInv'
    BY <1>1, <1>2, <1>3, <2>5 DEF ExplainCallsInv, Explaining, Line, shouldExplain
  <2> QED BY <2>4, <2>6
<1> QED BY <1>4, <1>5 DEF OpenFiles

LEMMA FilesReadyKeeps ==
  ASSUME ExplainCallsInv, ExplainFilesInv, NEW u \in VUs, FilesReady(u)
  PROVE  ExplainCallsInv' /\ ExplainFilesInv'
<1>1. /\ at[u] = "files" /\ explainOutputReady = "ready" /\ at' = [at EXCEPT ![u] = "log"]
      /\ UNCHANGED <<counter, explainOutputReady, kind, seq, explainLog, explainCsv>>
  BY DEF FilesReady, explainFiles
<1>2. Drawn' = Drawn /\ Lines' = Lines
  BY <1>1 DEF Drawn, Lines
<1>3. ExplainFilesInv'
  BY <1>1, <1>2 DEF ExplainFilesInv, ExplainFilesAgree, shouldExplain
<1>4. /\ at' \in [VUs -> Awaits]
      /\ \A v \in VUs : (Explaining(v)' <=> Explaining(v)) /\ (at'[v] = "csv" => at[v] = "csv")
      /\ \A v \in VUs : Line(v)' = Line(v)
  BY <1>1 DEF ExplainCallsInv, Explaining, Awaits, Line
<1>5. ExplainCallsInv'
  BY <1>1, <1>2, <1>4 DEF ExplainCallsInv, shouldExplain
<1> QED BY <1>3, <1>5

LEMMA LogAppendedKeeps ==
  ASSUME ExplainCallsInv, ExplainFilesInv, NEW u \in VUs, LogAppended(u)
  PROVE  ExplainCallsInv' /\ ExplainFilesInv'
<1>1. /\ at[u] = "log" /\ at' = [at EXCEPT ![u] = "csv"]
      /\ explainLog' = Append(explainLog, Line(u))
      /\ UNCHANGED <<counter, explainOutputReady, kind, seq, explainCsv>>
  BY DEF LogAppended
<1>2. Drawn' = Drawn /\ Lines' = Lines
  BY <1>1 DEF Drawn, Lines
<1>3. Line(u) \in Lines /\ explainOutputReady = "ready"
  BY <1>1 DEF ExplainCallsInv, Explaining, Lines
<1>4. explainLog' \in Seq(Lines) /\ ToSet(explainLog') = ToSet(explainLog) \cup {Line(u)}
  BY <1>1, <1>3, AppendToSet DEF ExplainFilesInv
<1>5. ExplainFilesInv'
  BY <1>1, <1>2, <1>4 DEF ExplainFilesInv, ExplainFilesAgree, shouldExplain
<1>6. /\ at' \in [VUs -> Awaits]
      /\ \A v \in VUs : /\ Explaining(v)' <=> Explaining(v)
                        /\ at'[v] = "csv" => at[v] = "csv" \/ v = u
                        /\ at'[v] = "log" => at[v] = "log"
      /\ \A v \in VUs : Line(v)' = Line(v)
  BY <1>1 DEF ExplainCallsInv, Explaining, Awaits, Line
<1>7. \A v \in VUs : at'[v] \in {"log", "csv"} => explainOutputReady' = "ready"
  BY <1>1, <1>3
<1>8. \A v \in VUs : at'[v] = "csv" => Line(v)' \in ToSet(explainLog')
  BY <1>4, <1>6 DEF ExplainCallsInv
<1>9. ExplainCallsInv'
  BY <1>1, <1>2, <1>6, <1>7, <1>8 DEF ExplainCallsInv, shouldExplain
<1> QED BY <1>5, <1>9

LEMMA InsertedKeeps ==
  ASSUME ExplainCallsInv, ExplainFilesInv, NEW u \in VUs, Inserted(u)
  PROVE  ExplainCallsInv' /\ ExplainFilesInv'
<1>1. /\ at[u] = "insert" /\ seq' = [seq EXCEPT ![u] = @ + 1]
      /\ UNCHANGED <<counter, explainOutputReady, at, kind, explainLog, explainCsv>>
  BY DEF Inserted, explainFiles
<1>2. Drawn' = Drawn /\ Lines' = Lines
  BY <1>1 DEF Drawn, Lines
<1>3. ExplainFilesInv'
  BY <1>1, <1>2 DEF ExplainFilesInv, ExplainFilesAgree, shouldExplain
<1>4. /\ seq' \in [VUs -> Nat]
      /\ \A v \in VUs : Explaining(v)' <=> Explaining(v)
      /\ \A v \in VUs : Explaining(v) => Line(v)' = Line(v) /\ seq'[v] = seq[v]
  BY <1>1 DEF ExplainCallsInv, Explaining, Line
<1>5. \A v \in VUs : at[v] = "csv" => Explaining(v)
  BY DEF Explaining
<1>6. ASSUME NEW v \in VUs, Explaining(v)'
      PROVE  Line(v)' \in Drawn' /\ shouldExplain(seq[v])' /\ Line(v)' \notin ToSet(explainCsv')
  <2>1. shouldExplain(seq[v])
    BY <1>4, <1>6 DEF ExplainCallsInv
  <2>2. shouldExplain(seq[v])'
    BY <1>4, <1>6, <2>1 DEF shouldExplain
  <2> QED BY <1>1, <1>2, <1>4, <1>6, <2>2 DEF ExplainCallsInv
<1>7. \A v, x \in VUs : Explaining(v)' /\ Explaining(x)' /\ Line(v)' = Line(x)' => v = x
  BY <1>4 DEF ExplainCallsInv
<1>8. ExplainCallsInv'
  BY <1>1, <1>4, <1>5, <1>6, <1>7 DEF ExplainCallsInv
<1> QED BY <1>3, <1>8

\* A call ends, with a row in the CSV if it was an explained one, and the user stops or
\* begins another call.
LEMMA SettleKeepsExplain ==
  ASSUME ExplainCallsInv, ExplainFilesInv, NEW u \in VUs, Returns(u) \/ Throws(u),
         \/ Call(<<>>, {u})
         \/ \E k : Call([v \in {u} |-> k], {})
  PROVE  ExplainCallsInv' /\ ExplainFilesInv'
<1>1. /\ explainLog' = explainLog
      /\ explainCsv' \in Seq(Lines) /\ (explainCsv' = <<>> <=> explainCsv = <<>>)
      /\ ExplainFilesAgree'
      /\ ToSet(explainCsv') \subseteq ToSet(explainCsv) \cup {Line(u)}
      /\ explainCsv' = explainCsv \/ Explaining(u)
  <2>1. CASE UNCHANGED explainFiles
    BY <2>1 DEF explainFiles, ExplainFilesInv, ExplainFilesAgree, shouldExplain
  <2>2. CASE at[u] = "csv" /\ explainCsv' = Append(explainCsv, Line(u)) /\ UNCHANGED explainLog
    <3>1. /\ Explaining(u) /\ Line(u) \in Drawn /\ shouldExplain(seq[u])
          /\ Line(u) \notin ToSet(explainCsv) /\ Line(u) \in ToSet(explainLog)
      BY <2>2 DEF ExplainCallsInv, Explaining
    <3>2. explainCsv # <<>> /\ Line(u) # Header /\ shouldExplain(Line(u)[2])
      BY <2>2, <3>1, HeaderIsNotDrawn DEF ExplainCallsInv, ExplainFilesInv, Line
    <3>3. /\ explainCsv' \in Seq(Lines) /\ explainCsv' # <<>>
          /\ ToSet(explainCsv') = ToSet(explainCsv) \cup {Line(u)}
          /\ ExplainFilesAgree'
      BY <2>2, <3>1, <3>2, RowAppended
    <3> QED BY <2>2, <3>1, <3>2, <3>3
  <2> QED BY <2>1, <2>2 DEF Returns, Throws, explainFiles
<1>2. ToSet(explainCsv') \subseteq Lines
  BY <1>1 DEF ToSet
<1>3. \A v \in VUs \ {u} : Explaining(v) => Line(v) \notin ToSet(explainCsv')
  BY <1>1 DEF ExplainCallsInv
<1>4. /\ ExplainCallsInv' /\ Lines \subseteq Lines'
      /\ explainOutputReady' = "ready" <=> explainOutputReady = "ready"
  <2>1. CASE Call(<<>>, {u})
    <3>1. PICK none : DOMAIN none = {} /\ Call(none, {u})
      <4>1. DOMAIN <<>> = {}
        OBVIOUS
      <4> QED BY <4>1, <2>1
    <3>2. /\ DOMAIN none \subseteq VUs /\ {u} \cap DOMAIN none = {}
          /\ VUs \ (DOMAIN none \cup {u}) = VUs \ {u}
      BY <3>1
    <3> QED BY <1>1, <1>2, <1>3, <3>1, <3>2, CallKeepsExplain
  <2>2. CASE \E k : Call([v \in {u} |-> k], {})
    <3>1. PICK k : Call([v \in {u} |-> k], {})
      BY <2>2
    <3>2. PICK draws : draws = [v \in {u} |-> k]
      OBVIOUS
    <3>3. /\ DOMAIN draws = {u} /\ Call(draws, {}) /\ DOMAIN draws \subseteq VUs
          /\ {} \cap DOMAIN draws = {} /\ VUs \ (DOMAIN draws \cup {}) = VUs \ {u}
      BY <3>1, <3>2
    <3> QED BY <1>1, <1>2, <1>3, <3>3, CallKeepsExplain
  <2> QED BY <2>1, <2>2
<1> QED BY <1>1, <1>4, LinesStay

\* The users of a run begin their first calls.
LEMMA WorkloadKeepsExplain ==
  ASSUME ExplainCallsInv, ExplainFilesInv, run \in Scrapers, NEW w, RunWorkload(w)
  PROVE  ExplainCallsInv' /\ ExplainFilesInv'
<1>1. PICK draws \in [1..UsersOf(run) -> KindsOf(run)] : Call(draws, {})
  BY DEF RunWorkload
<1>2. DOMAIN draws \subseteq VUs /\ {} \cap DOMAIN draws = {}
  BY UsersOfRun
<1>3. explainLog' = explainLog /\ explainCsv' = explainCsv
  BY DEF RunWorkload, explainFiles
<1>4. ToSet(explainCsv) \subseteq Lines
  BY DEF ExplainFilesInv, ToSet
<1>5. /\ ExplainCallsInv' /\ Lines \subseteq Lines'
      /\ explainOutputReady' = "ready" <=> explainOutputReady = "ready"
  BY <1>1, <1>2, <1>3, <1>4, CallKeepsExplain DEF ExplainCallsInv
<1>6. ExplainFilesAgree'
  BY <1>3 DEF ExplainFilesInv, ExplainFilesAgree, shouldExplain
<1> QED BY <1>3, <1>5, <1>6, LinesStay DEF ExplainFilesInv

LEMMA ExplainNext == BenchInv /\ ExplainInv /\ [Next]_vars => ExplainInv'
<1> SUFFICES ASSUME BenchInv, ExplainInv, [Next]_vars PROVE ExplainInv'
  OBVIOUS
<1>1. CASE UNCHANGED callVars /\ (phase' \in Exited => phase \in Exited \cup {"closed"})
           /\ (phase \in Exited => phase' \in Exited)
  <2>1. ExplainFilesAgree => ExplainFilesAgree'
    BY <1>1 DEF callVars, explainFiles, ExplainFilesAgree, shouldExplain
  <2>2. ExplainCallsInv /\ ExplainFilesInv => ExplainCallsInv' /\ ExplainFilesInv'
    BY <1>1, <2>1 DEF callVars, explainFiles, ExplainCallsInv, ExplainFilesInv, Explaining,
                      Line, Lines, Drawn, shouldExplain
  <2> QED BY <1>1, <2>1, <2>2 DEF ExplainInv, ExplainFilesInv
<1>2. CASE CheckUrls \/ Load \/ EndBench \/ Record \/ Save \/ Combine \/ Exit0 \/ Deadline
           \/ (\E r \in Scrapers : Scrape(r)) \/ UNCHANGED vars
  <2>1. UNCHANGED callVars /\ (phase' \in Exited => phase \in Exited \cup {"closed"})
           /\ (phase \in Exited => phase' \in Exited)
    BY <1>2 DEF CheckUrls, Load, EndBench, Record, Save, AfterRun, Combine, Exit0, Deadline,
                Scrape, GoTo, vars, mainVars, Exited, Workloads
  <2> QED BY <1>1, <2>1
<1>3. CASE StartRun \/ EndWarmup
  <2>1. PICK w \in Workloads : RunWorkload(w)
    BY <1>3 DEF StartRun, EndWarmup, Workloads
  <2>2. phase \in {"start", "warmup"} /\ phase' = w
    BY <1>3, <2>1 DEF StartRun, EndWarmup, RunWorkload, GoTo
  <2>3. run \in Scrapers /\ phase \notin Exited /\ phase' \notin Exited
    BY <2>2 DEF BenchInv, RunInv, OfRun, Workloads, Exited
  <2> QED BY <2>1, <2>3, WorkloadKeepsExplain DEF ExplainInv
<1>4. ASSUME NEW u \in VUs, Settle(u) PROVE ExplainInv'
  <2>1. phase \in Workloads /\ phase' = phase /\ phase \notin Exited
    BY <1>4 DEF Settle, mainVars, Workloads, Exited
  <2>2. Returns(u) \/ Throws(u)
    BY <1>4 DEF Settle
  <2>3. Call(<<>>, {u}) \/ \E k : Call([v \in {u} |-> k], {})
    BY <1>4 DEF Settle
  <2> QED BY <2>1, <2>2, <2>3, SettleKeepsExplain DEF ExplainInv
<1>5. CASE Explain
  <2>1. phase \notin Exited /\ phase' = phase /\ CallStep
    BY <1>5 DEF Explain, mainVars
  <2>2. ExplainCallsInv' /\ ExplainFilesInv'
    BY <2>1, OpenFilesKeeps, FilesReadyKeeps, LogAppendedKeeps, InsertedKeeps
       DEF CallStep, ExplainInv
  <2> QED BY <2>1, <2>2 DEF ExplainInv
<1>6. CASE Exit1
  <2>1. phase \notin Exited /\ phase' \in Exited /\ UNCHANGED <<explainLog, explainCsv>>
    BY <1>6 DEF Exit1, GoTo, CallsEnd, explainFiles, Exited
  <2> QED BY <2>1 DEF ExplainInv, ExplainFilesInv, ExplainFilesAgree, shouldExplain
<1> QED BY <1>2, <1>3, <1>4, <1>5, <1>6 DEF Next, Main

LEMMA ExplainInit == Init => ExplainInv
<1> SUFFICES ASSUME Init PROVE ExplainInv
  OBVIOUS
<1>1. /\ counter = [k \in Reads |-> 0] /\ at = [u \in VUs |-> "idle"]
      /\ seq = [u \in VUs |-> 0] /\ explainLog = <<>> /\ explainCsv = <<>>
      /\ explainOutputReady = "none" /\ phase = "preflight"
  BY DEF Init, CallsInit
<1>2. ExplainCallsInv
  BY <1>1 DEF ExplainCallsInv, Explaining, Awaits
<1>3. ExplainFilesInv
  BY <1>1 DEF ExplainFilesInv, ExplainFilesAgree, ToSet, IsInjective
<1> QED BY <1>1, <1>2, <1>3 DEF ExplainInv, Exited

\* The explain files can be joined whenever the process stops, for any number of users and
\* any sampling rate: one header line, rows with different numbers, each with its plan
\* in the log (explain.ts:47-105).
THEOREM ExplainFilesJoin == Spec => []ExplainFilesAgree
<1>1. Init => ExplainInv
  BY ExplainInit
<1>2. BenchInv /\ ExplainInv /\ [Next]_vars => ExplainInv'
  BY ExplainNext
<1>3. ExplainInv => ExplainFilesAgree
  BY DEF ExplainInv, ExplainFilesInv
<1> QED BY <1>1, <1>2, <1>3, BenchInvariant, PTL DEF Spec

-----------------------------------------------------------------------------
(* The scrape files. *)

\* The runs whose scraper has been stopped and its file written.
Past(r) == r < run \/ (r = run /\ phase \in {"probe", "save", "combine", "closed", "exit0"})

\* A file holds all snapshots of its run but the one that was in the air, if any: a loop
\* that is still fetching has not pushed it yet, and no other loop fetches any more.
Held(r) ==
    LET file == scrapeFile[ScrapeFile(r)]
    IN /\ ScrapeFile(r) \in DOMAIN scrapeFile /\ file.of = r /\ file.held \in Nat
       /\ snapshots[r] = file.held \/ (snapshots[r] = file.held + 1 /\ loop[r] # "fetching")

ScrapeFileInv ==
    /\ snapshots \in [Scrapers -> Nat]
    /\ \A f \in DOMAIN scrapeFile : scrapeFile[f] \in [of : Scrapers, held : Nat]
    /\ ~skipScrape => \A r \in Scrapers : Past(r) => Held(r)

\* No two runs of the plan write to the same file.
LEMMA ScrapeFilesDiffer ==
  ASSUME NEW r \in Scrapers, NEW q \in Scrapers, ScrapeFile(r) = ScrapeFile(q)
  PROVE  r = q
<1>1. IsRunOf(r, Plan[q].strategy, Plan[q].scenario.name)
  BY DEF ScrapeFile, StrategyOf, IsRunOf
<1> QED BY <1>1, PlanAssumption DEF Scrapers

\* A step of the scrape loop of r: it stays behind its file by at most one snapshot.
LEMMA ScrapeKeepsFiles ==
  ASSUME BenchInv, LoopInv, ScrapeFileInv, NEW r \in Scrapers, Scrape(r)
  PROVE  ScrapeFileInv'
<1>1. /\ UNCHANGED <<phase, run, skipScrape, running, scrapeFile>>
      /\ \A q \in Scrapers \ {r} : loop'[q] = loop[q] /\ snapshots'[q] = snapshots[q]
      /\ snapshots' \in [Scrapers -> Nat]
  BY DEF Scrape, Fetched, Woken, mainVars, ScrapeFileInv, LoopInv
<1>2. ASSUME ~skipScrape, Past(r) PROVE Held(r)'
  <2>1. Held(r) /\ ~running[r]
    BY <1>2 DEF ScrapeFileInv, BenchInv, ScrapeInv, Past, RunInv, Scrapers, Workloads
  <2>2. CASE Fetched(r)
    <3>1. /\ snapshots[r] \in Nat /\ loop' = [loop EXCEPT ![r] = "ended"]
          /\ snapshots' = snapshots \/ snapshots' = [snapshots EXCEPT ![r] = @ + 1]
      BY <2>1, <2>2 DEF Fetched, ScrapeFileInv
    <3>2. loop'[r] = "ended" /\ snapshots'[r] \in {snapshots[r], snapshots[r] + 1}
      BY <3>1 DEF ScrapeFileInv, LoopInv
    <3>3. snapshots[r] = scrapeFile[ScrapeFile(r)].held
      BY <2>1, <2>2 DEF Held, Fetched
    <3> QED BY <1>1, <2>1, <3>2, <3>3 DEF Held, ScrapeFile, StrategyOf
  <2>3. CASE Woken(r)
    <3>1. loop'[r] = "ended" /\ snapshots' = snapshots
      BY <2>1, <2>3 DEF Woken, LoopInv
    <3> QED BY <1>1, <2>1, <3>1 DEF Held, ScrapeFile, StrategyOf
  <2> QED BY <2>2, <2>3 DEF Scrape
<1>3. ASSUME NEW q \in Scrapers, ~skipScrape, Past(q) PROVE Held(q)'
  <2>1. CASE q = r
    BY <1>2, <1>3, <2>1
  <2>2. CASE q # r
    BY <1>1, <1>3, <2>2 DEF ScrapeFileInv, Held, ScrapeFile, StrategyOf
  <2> QED BY <2>1, <2>2
<1>4. \A q \in Scrapers : Past(q)' <=> Past(q)
  BY <1>1 DEF Past
<1> QED BY <1>1, <1>3, <1>4 DEF ScrapeFileInv

\* The file of the current run is written, and it replaces no other.
LEMMA StopKeepsFiles ==
  ASSUME BenchInv, ScrapeFileInv, EndBench PROVE ScrapeFileInv'
<1>1. phase = "bench" /\ phase' = "probe" /\ run' = run /\ skipScrape' = skipScrape
      /\ run \in Scrapers /\ run \in Nat
  BY DEF EndBench, GoTo, BenchInv, RunInv, OfRun, Workloads
<1>2. CASE skipScrape
  BY <1>1, <1>2 DEF EndBench, scraperVars, ScrapeFileInv
<1>3. CASE ~skipScrape
  <2>1. StopAndWrite(run, ScrapeFile(run))
    BY <1>3 DEF EndBench
  <2>2. UNCHANGED <<loop, snapshots>>
    BY <2>1 DEF StopAndWrite
  <2>3. scrapeFile' = [f \in DOMAIN scrapeFile \cup {ScrapeFile(run)} |->
                          IF f = ScrapeFile(run) THEN Snapshots(run) ELSE scrapeFile[f]]
    BY <2>1 DEF StopAndWrite, Written
  <2>4. Snapshots(run) \in [of : Scrapers, held : Nat] /\ Snapshots(run).of = run
        /\ Snapshots(run).held = snapshots[run]
    BY <1>1 DEF Snapshots, ScrapeFileInv
  <2>5. \A f \in DOMAIN scrapeFile' : scrapeFile'[f] \in [of : Scrapers, held : Nat]
    BY <2>3, <2>4 DEF ScrapeFileInv
  <2>6. Held(run)'
    BY <1>1, <2>2, <2>3, <2>4 DEF Held, ScrapeFile, StrategyOf, ScrapeFileInv
  <2>7. ASSUME NEW r \in Scrapers, Past(r)', r # run PROVE Held(r)'
    <3>1. ScrapeFile(r) # ScrapeFile(run)
      BY <1>1, <2>7, ScrapeFilesDiffer
    <3>2. Held(r)
      BY <1>1, <1>3, <2>7 DEF Past, ScrapeFileInv
    <3>3. ScrapeFile(r)' = ScrapeFile(r)
      BY DEF ScrapeFile, StrategyOf
    <3>4. scrapeFile'[ScrapeFile(r)] = scrapeFile[ScrapeFile(r)]
          /\ ScrapeFile(r) \in DOMAIN scrapeFile'
      BY <2>3, <3>1, <3>2 DEF Held
    <3> QED BY <2>2, <3>2, <3>3, <3>4 DEF Held
  <2> QED BY <1>1, <2>2, <2>5, <2>6, <2>7 DEF ScrapeFileInv
<1> QED BY <1>2, <1>3

LEMMA ScrapeFileNext == BenchInv /\ LoopInv /\ ScrapeFileInv /\ [Next]_vars => ScrapeFileInv'
<1> SUFFICES ASSUME BenchInv, LoopInv, ScrapeFileInv, [Next]_vars PROVE ScrapeFileInv'
  OBVIOUS
<1>1. run \in Nat /\ \A r \in Scrapers : r \in Nat
  BY DEF BenchInv, RunInv, Scrapers
<1>2. ASSUME UNCHANGED <<snapshots, scrapeFile, skipScrape>>,
             \A r \in Scrapers : Past(r)' => Past(r),
             \A r \in Scrapers : Past(r) => loop'[r] = loop[r] \/ loop'[r] # "fetching"
      PROVE  ScrapeFileInv'
  BY <1>2 DEF ScrapeFileInv, Held, ScrapeFile, StrategyOf
<1>3. CASE StartRun
  <2>1. phase = "start" /\ phase' \in Workloads /\ run' = run /\ skipScrape' = skipScrape
        /\ UNCHANGED <<snapshots, scrapeFile>>
        /\ \A r \in Scrapers \ {run} : loop'[r] = loop[r]
    BY <1>3 DEF StartRun, RunWorkload, GoTo, startScraping, scraperVars, Workloads, LoopInv
  <2>2. \A r \in Scrapers : /\ Past(r)' => Past(r)
                            /\ Past(r) => r # run
    BY <1>1, <2>1 DEF Past, Workloads
  <2> QED BY <1>2, <2>1, <2>2
<1>4. ASSUME NEW r \in Scrapers, Scrape(r) PROVE ScrapeFileInv'
  BY <1>4, ScrapeKeepsFiles
<1>5. CASE EndBench
  BY <1>5, StopKeepsFiles
<1>6. CASE Exit1
  <2>1. /\ UNCHANGED <<snapshots, scrapeFile, skipScrape>>
        /\ \A r \in Scrapers : Past(r)' => Past(r)
        /\ \A r \in Scrapers : loop'[r] # "fetching"
    BY <1>6 DEF Exit1, GoTo, ScrapersEnd, Past
  <2> QED BY <1>2, <2>1
<1>7. CASE \/ CheckUrls \/ Load \/ EndWarmup \/ Record \/ Save \/ Combine \/ Exit0 \/ Deadline
           \/ Explain \/ (\E u \in VUs : Settle(u)) \/ UNCHANGED vars
  <2>1. UNCHANGED <<snapshots, scrapeFile, skipScrape, loop>>
    BY <1>7 DEF CheckUrls, Load, EndWarmup, RunWorkload, Record, Save, AfterRun, Combine, Exit0,
                Deadline, Explain, Settle, GoTo, vars, scraperVars, mainVars
  <2>2. \A r \in Scrapers : Past(r)' => Past(r)
    <3>1. CASE UNCHANGED <<phase, run>>
      BY <3>1 DEF Past
    <3>2. CASE CheckUrls \/ EndWarmup
      BY <3>2 DEF CheckUrls, EndWarmup, RunWorkload, GoTo, Past
    <3>3. CASE Load
      BY <3>3, <1>1 DEF Load, GoTo, Past, Scrapers
    <3>4. CASE Record \/ Combine \/ Exit0
      BY <3>4 DEF Record, Combine, Exit0, GoTo, Past
    <3>5. CASE Save
      <4>1. phase = "save" /\ (run' = run \/ (run' = run + 1 /\ phase' = "start"))
        BY <3>5 DEF Save, AfterRun, GoTo
      <4> QED BY <1>1, <4>1 DEF Past
    <3>6. CASE Deadline \/ Explain \/ (\E u \in VUs : Settle(u)) \/ UNCHANGED vars
      BY <3>1, <3>6 DEF Deadline, Explain, Settle, vars, mainVars
    <3> QED BY <1>7, <3>2, <3>3, <3>4, <3>5, <3>6
  <2> QED BY <1>2, <2>1, <2>2
<1> QED BY <1>3, <1>4, <1>5, <1>6, <1>7 DEF Next, Main

LEMMA ScrapeFileInvariant == Spec => []ScrapeFileInv
<1>1. Init => ScrapeFileInv
  BY DEF Init, ScraperInit, ScrapeFileInv, Past, Scrapers
<1>2. BenchInv /\ LoopInv /\ ScrapeFileInv /\ [Next]_vars => ScrapeFileInv'
  BY ScrapeFileNext
<1> QED BY <1>1, <1>2, BenchInvariant, LoopInvariant, PTL DEF Spec

\* The scrape file of a measured run stays that run's and misses one snapshot at most, for
\* any number of runs, if no two of them have the same strategy and scenario
\* (index.ts:196-199, scrape.ts:222-234).
THEOREM ScrapeFilesAreKept == Spec => []ScrapeFilesStay
<1>1. ScrapeFileInv => ScrapeFilesStay
  BY DEF ScrapeFileInv, ScrapeFilesStay, Past, Held
<1> QED BY <1>1, ScrapeFileInvariant, PTL

-----------------------------------------------------------------------------
(* The files of results. *)

\* The results are those of the first runs of the plan, in order.
OrderInv ==
    /\ \A i \in 1..Len(allResults) : allResults[i].run = i
    /\ phase \in NoResultYet => Len(allResults) = run - 1
    /\ phase = "save" => Len(allResults) = run
    /\ phase \in {"combine", "closed", "exit0"} => Len(allResults) = Runs
    /\ phase \in {"closed", "exit0"} => combined = Csv(allResults)

FilesInv == DOMAIN csv = ToSet(Strategies) /\ SavedRunsStay /\ OrderInv

\* Steps that leave the results as they are, outside "probe", "save" and "combine".
LEMMA ResultsUntouched ==
  ASSUME FilesInv, UNCHANGED <<allResults, csv, combined, run>>,
         phase' = phase \/ (phase \in NoResultYet /\ phase' \in NoResultYet)
                        \/ phase' = "exit1" \/ (phase = "closed" /\ phase' = "exit0")
  PROVE  FilesInv'
<1>1. \A s : ResultsOf(s)' = ResultsOf(s)
  BY DEF ResultsOf, StrategyOf
<1>2. SavedRunsStay'
  BY <1>1 DEF FilesInv, SavedRunsStay, Csv, StrategyOf, NoResultYet, Workloads
<1>3. OrderInv'
  BY DEF FilesInv, OrderInv, NoResultYet, Workloads, Csv
<1> QED BY <1>2, <1>3 DEF FilesInv

LEMMA RecordKeepsFiles == ASSUME BenchInv, FilesInv, Record PROVE FilesInv'
<1>1. /\ phase = "probe" /\ phase' = "save" /\ run' = run /\ run \in Scrapers /\ run \in Nat
      /\ allResults' = Append(allResults, Summary(run))
      /\ csv' = [csv EXCEPT ![StrategyOf(run)] = Torn]
      /\ combined' = combined /\ allResults \in Seq(RowOf)
  BY DEF Record, GoTo, BenchInv, RunInv, TypeInv, OfRun, Scrapers
<1>2. /\ Len(allResults') = Len(allResults) + 1 /\ Len(allResults) \in Nat
      /\ \A i \in 1..Len(allResults) : allResults'[i] = allResults[i]
      /\ allResults'[Len(allResults) + 1] = Summary(run)
  <2>1. Summary(run) \in RowOf
    BY <1>1 DEF Summary, RowOf, BenchInv, TypeInv
  <2> QED BY <1>1, <2>1, AppendProperties
<1>3. Len(allResults) = run - 1 /\ Summary(run).run = run
  BY <1>1 DEF FilesInv, OrderInv, NoResultYet, Summary
<1>4. OrderInv'
  <2>1. \A i \in 1..Len(allResults') : allResults'[i].run = i
    <3> SUFFICES ASSUME NEW i \in 1..Len(allResults') PROVE allResults'[i].run = i
      OBVIOUS
    <3>1. i \in 1..Len(allResults) \/ i = Len(allResults) + 1
      BY <1>2
    <3> QED BY <1>1, <1>2, <1>3, <3>1 DEF FilesInv, OrderInv
  <2> QED BY <1>1, <1>2, <1>3, <2>1 DEF OrderInv, NoResultYet, Workloads
<1>5. ASSUME NEW s \in ToSet(Strategies), s # StrategyOf(run) PROVE csv'[s] = Csv(ResultsOf(s))'
  <2>1. {j \in 1..Len(allResults') : StrategyOf(allResults'[j].run) = s}
          = {j \in 1..Len(allResults) : StrategyOf(allResults[j].run) = s}
    BY <1>2, <1>3, <1>5
  <2>2. ResultsOf(s)' = ResultsOf(s)
    BY <1>2, <2>1 DEF ResultsOf, StrategyOf
  <2>3. csv[s] = Csv(ResultsOf(s))
    BY <1>1 DEF FilesInv, SavedRunsStay
  <2> QED BY <1>1, <1>5, <2>2, <2>3 DEF FilesInv, Csv
<1>6. SavedRunsStay'
  BY <1>1, <1>5 DEF SavedRunsStay, FilesInv, StrategyOf
<1> QED BY <1>1, <1>4, <1>6 DEF FilesInv

LEMMA SaveKeepsFiles == ASSUME BenchInv, FilesInv, Save PROVE FilesInv'
<1>1. /\ phase = "save" /\ run \in Scrapers /\ run \in Nat /\ UNCHANGED <<allResults, combined>>
      /\ csv' = [csv EXCEPT ![StrategyOf(run)] = Csv(ResultsOf(StrategyOf(run)))]
      /\ Len(allResults) = run
  BY DEF Save, BenchInv, RunInv, OfRun, Scrapers, FilesInv, OrderInv
<1>2. \/ phase' = "start" /\ run' = run + 1
      \/ phase' = "combine" /\ run' = run /\ run = Runs
  BY <1>1, ScraperAssumption DEF Save, AfterRun, GoTo, Scrapers
<1>3. OrderInv'
  BY <1>1, <1>2 DEF FilesInv, OrderInv, NoResultYet, Workloads
<1>4. \A s : ResultsOf(s)' = ResultsOf(s)
  BY <1>1 DEF ResultsOf, StrategyOf
<1>5. \A s \in ToSet(Strategies) : csv'[s] = Csv(ResultsOf(s))
  BY <1>1 DEF FilesInv, SavedRunsStay
<1>6. SavedRunsStay'
  BY <1>4, <1>5 DEF SavedRunsStay, Csv
<1> QED BY <1>1, <1>3, <1>6 DEF FilesInv

LEMMA CombineKeepsFiles == ASSUME FilesInv, Combine PROVE FilesInv'
<1>1. /\ phase = "combine" /\ phase' = "closed" /\ run' = run /\ combined' = Csv(allResults)
      /\ UNCHANGED <<allResults, csv>>
  BY DEF Combine, GoTo
<1>2. \A s : ResultsOf(s)' = ResultsOf(s)
  BY <1>1 DEF ResultsOf, StrategyOf
<1>3. SavedRunsStay'
  BY <1>1, <1>2 DEF FilesInv, SavedRunsStay, Csv, StrategyOf
<1>4. OrderInv'
  BY <1>1 DEF FilesInv, OrderInv, NoResultYet, Workloads, Csv
<1> QED BY <1>1, <1>3, <1>4 DEF FilesInv

LEMMA FilesNext == BenchInv /\ FilesInv /\ [Next]_vars => FilesInv'
<1> SUFFICES ASSUME BenchInv, FilesInv, [Next]_vars PROVE FilesInv'
  OBVIOUS
<1>1. CASE Load
  <2>1. /\ phase \in {"load", "preflight"} /\ run' = run /\ run = 1
        /\ UNCHANGED <<allResults, csv, combined>>
    BY <1>1 DEF Load, GoTo, results, BenchInv, RunInv
  <2>2. phase' = "start" \/ (phase' = "combine" /\ Runs = 0)
    BY <1>1 DEF Load, GoTo
  <2>3. CASE phase' = "start"
    BY <2>1, <2>3, ResultsUntouched DEF NoResultYet
  <2>4. CASE phase' = "combine" /\ Runs = 0
    <3>1. OrderInv'
      BY <2>1, <2>4 DEF FilesInv, OrderInv, NoResultYet, Workloads
    <3>2. \A s : ResultsOf(s)' = ResultsOf(s)
      BY <2>1 DEF ResultsOf, StrategyOf
    <3>3. SavedRunsStay'
      BY <2>1, <3>2 DEF FilesInv, SavedRunsStay, Csv, StrategyOf
    <3> QED BY <2>1, <3>1, <3>3 DEF FilesInv
  <2> QED BY <2>2, <2>3, <2>4
<1>2. CASE Record
  BY <1>2, RecordKeepsFiles
<1>3. CASE Save
  BY <1>3, SaveKeepsFiles
<1>4. CASE Combine
  BY <1>4, CombineKeepsFiles
<1>5. CASE \/ CheckUrls \/ StartRun \/ EndWarmup \/ EndBench \/ Exit0 \/ Exit1 \/ Deadline
           \/ Explain \/ (\E u \in VUs : Settle(u)) \/ (\E r \in Scrapers : Scrape(r))
           \/ UNCHANGED vars
  <2>1. UNCHANGED <<allResults, csv, combined, run>>
    BY <1>5 DEF CheckUrls, StartRun, EndWarmup, RunWorkload, EndBench, Exit0, Exit1, Deadline,
                Explain, Settle, Scrape, GoTo, vars, mainVars, results
  <2>2. phase' = phase \/ (phase \in NoResultYet /\ phase' \in NoResultYet)
                       \/ phase' = "exit1" \/ (phase = "closed" /\ phase' = "exit0")
    BY <1>5 DEF CheckUrls, StartRun, EndWarmup, RunWorkload, EndBench, Exit0, Exit1, Deadline,
                Explain, Settle, Scrape, GoTo, vars, mainVars, NoResultYet, Workloads
  <2> QED BY <2>1, <2>2, ResultsUntouched
<1> QED BY <1>1, <1>2, <1>3, <1>4, <1>5 DEF Next, Main

LEMMA FilesInit == Init => FilesInv
<1> SUFFICES ASSUME Init PROVE FilesInv
  OBVIOUS
<1>1. /\ csv = [s \in ToSet(Strategies) |-> Absent] /\ allResults = <<>> /\ run = 1
      /\ phase = "preflight"
  BY DEF Init
<1>2. Len(allResults) = 0
  BY <1>1
<1>3. \A s : Csv(ResultsOf(s)) = Absent
  BY <1>2 DEF Csv, ResultsOf
<1>4. OrderInv
  BY <1>1, <1>2 DEF OrderInv, NoResultYet, Workloads
<1> QED BY <1>1, <1>3, <1>4 DEF FilesInv, SavedRunsStay

LEMMA FilesInvariant == Spec => []FilesInv
<1>1. Init => FilesInv
  BY FilesInit
<1>2. BenchInv /\ FilesInv /\ [Next]_vars => FilesInv'
  BY FilesNext
<1> QED BY <1>1, <1>2, BenchInvariant, PTL DEF Spec

\* A run that has been saved stays saved, for any strategies and scenarios, except while
\* its strategy's file is being rewritten or was when the process died (index.ts:226-229).
THEOREM SavedRunsAreKept == Spec => []SavedRunsStay
<1>1. FilesInv => SavedRunsStay
  BY DEF FilesInv
<1> QED BY <1>1, FilesInvariant, PTL

\* After exit code 0 the combined file has exactly one row for each pair of the plan, for
\* any strategies and scenarios (index.ts:146-151,236-238).
THEOREM ExitZeroIsComplete == Spec => []ExitZeroMeansAllRun
<1>1. FilesInv => ExitZeroMeansAllRun
  <2> SUFFICES ASSUME FilesInv, phase = "exit0",
                      NEW s \in ToSet(Strategies), NEW scenario \in ToSet(selectedScenarios),
                      scenario.name = BOnly => s = "b"
               PROVE  Cardinality({i \in DOMAIN combined.rows :
                          IsRunOf(combined.rows[i].run, s, scenario.name)}) = 1
    BY DEF ExitZeroMeansAllRun
  <2> DEFINE rowsOf == {i \in DOMAIN combined.rows :
                          IsRunOf(combined.rows[i].run, s, scenario.name)}
  <2>1. PICK r \in 1..Runs : IsRunOf(r, s, scenario.name)
    BY PlanAssumption
  <2>2. Len(allResults) = Runs /\ combined = Csv(allResults)
    BY DEF FilesInv, OrderInv
  <2>3. combined.rows = allResults /\ DOMAIN allResults = 1..Runs
    BY <2>1, <2>2 DEF Csv, Saved
  <2>4. \A i \in 1..Runs : allResults[i].run = i
    BY <2>2 DEF FilesInv, OrderInv
  <2>5. \A i \in 1..Runs : IsRunOf(i, s, scenario.name) => i = r
    BY <2>1, PlanAssumption DEF IsRunOf
  <2>6. rowsOf = {r}
    BY <2>1, <2>3, <2>4, <2>5
  <2> QED BY <2>6, FS_Singleton
<1> QED BY <1>1, FilesInvariant, PTL

-----------------------------------------------------------------------------
(* Types, and the conversations of W1. *)

\* The users that have stored a part of their conversation.
Midway == {u \in VUs : at[u] = "insert" /\ seq[u] # 0}

FilesOpened == {"none", "pending", "ready", "failed"}

CallTypes ==
    /\ counter \in [Reads -> Nat] /\ explainOutputReady \in FilesOpened
    /\ kind \in [VUs -> Kinds \cup {"none"}] /\ seq \in [VUs -> Nat]
    /\ explainLog \in Seq(Reads \X Nat) /\ explainCsv \in Seq((Reads \X Nat) \cup {Header})

\* Each user midway has a conversation with a part of its items in the table.
StoredInv ==
    /\ conversations \in [Extents -> Nat] /\ before \in [Extents -> Nat]
    /\ \A u \in VUs : at[u] = "insert" => seq[u] < Items
    /\ Cardinality(Midway) <= conversations["part"]

\* In a workload of W1 alone, a call that returned stored a whole conversation, and a part
\* is left only by a call that failed or is midway.
W1Inv ==
    phase \in Workloads /\ KindsOf(run) = {"w1"} =>
        /\ \A u \in VUs : at[u] \in {"idle", "insert"}
        /\ before["whole"] + metrics.count <= conversations["whole"]
        /\ conversations["part"] <= before["part"] + metrics.errors + Cardinality(Midway)

CallInv == CallTypes /\ StoredInv /\ W1Inv

LEMMA MidwayIsFinite ==
  /\ Cardinality(Midway) \in Nat
  /\ \A u \in Midway : Cardinality(Midway \ {u}) = Cardinality(Midway) - 1
  /\ \A u : u \notin Midway => Midway \ {u} = Midway
<1>1. IsFiniteSet(Midway) /\ Cardinality(Midway) \in Nat
  <2>1. Midway \in SUBSET VUs
    BY DEF Midway
  <2> QED BY <2>1, UsersAreFinite
<1> QED BY <1>1, FS_RemoveElement

\* What it means that one more item is in the table.
LEMMA StoredItem ==
  ASSUME conversations \in [Extents -> Nat], NEW u \in VUs, seq[u] \in Nat, seq[u] < Items,
         seq[u] # 0 => 1 <= conversations["part"], ItemStored(u)
  PROVE  /\ conversations' \in [Extents -> Nat]
         /\ conversations["whole"] <= conversations'["whole"]
         /\ seq[u] + 1 = Items => conversations'["whole"] = conversations["whole"] + 1
         /\ seq[u] = 0 => conversations["part"] <= conversations'["part"]
         /\ seq[u] = 0 => conversations'["part"] <= conversations["part"] + 1
         /\ seq[u] = 0 /\ 1 < Items => conversations'["part"] = conversations["part"] + 1
         /\ seq[u] = 0 /\ Items = 1 => conversations'["part"] = conversations["part"]
         /\ seq[u] # 0 => conversations'["part"] <= conversations["part"]
         /\ seq[u] # 0 => conversations["part"] <= conversations'["part"] + 1
         /\ seq[u] # 0 /\ seq[u] + 1 = Items => conversations'["part"] = conversations["part"] - 1
         /\ seq[u] # 0 /\ seq[u] + 1 < Items => conversations'["part"] = conversations["part"]
<1> DEFINE gained(e) == IF e = Extent(seq[u] + 1) THEN 1 ELSE 0
           lost(e)   == IF e = Extent(seq[u]) THEN 1 ELSE 0
<1>1. conversations' = [e \in Extents |-> conversations[e] + gained(e) - lost(e)]
  BY DEF ItemStored
<1>2. /\ "part" \in Extents /\ "whole" \in Extents /\ Items \in Nat \ {0}
      /\ conversations["part"] \in Nat /\ conversations["whole"] \in Nat
      /\ \A e \in Extents : e = "part" \/ e = "whole"
  BY CallsAssumption DEF Extents
<1>3. /\ gained("whole") = IF seq[u] + 1 = Items THEN 1 ELSE 0
      /\ lost("whole") = 0
      /\ gained("part") = IF seq[u] + 1 < Items THEN 1 ELSE 0
      /\ lost("part") = IF seq[u] = 0 THEN 0 ELSE 1
  BY <1>2 DEF Extent
<1> HIDE DEF gained, lost
<1>4. /\ conversations'["whole"] = conversations["whole"] + gained("whole") - lost("whole")
      /\ conversations'["part"] = conversations["part"] + gained("part") - lost("part")
      /\ DOMAIN conversations' = Extents
  BY <1>1, <1>2
<1>5. /\ conversations'["whole"] = conversations["whole"] + (IF seq[u] + 1 = Items THEN 1 ELSE 0)
      /\ conversations'["part"] = conversations["part"] + (IF seq[u] + 1 < Items THEN 1 ELSE 0)
                                                        - (IF seq[u] = 0 THEN 0 ELSE 1)
  BY <1>2, <1>3, <1>4
<1>6. conversations'["whole"] \in Nat /\ conversations'["part"] \in Nat
  BY <1>2, <1>5
<1>7. conversations' \in [Extents -> Nat]
  BY <1>1, <1>2, <1>6
<1> QED BY <1>2, <1>5, <1>7

\* What a step of users does to the types, and to those midway.
LEMMA CallEffect ==
  ASSUME CallTypes, at \in [VUs -> Awaits], \A u \in VUs : at[u] = "insert" => seq[u] < Items,
         NEW draws, DOMAIN draws \subseteq VUs, \A u \in DOMAIN draws : draws[u] \in Kinds,
         NEW stopped, stopped \cap DOMAIN draws = {}, Call(draws, stopped)
  PROVE  /\ counter' \in [Reads -> Nat] /\ explainOutputReady' \in FilesOpened
         /\ kind' \in [VUs -> Kinds \cup {"none"}] /\ seq' \in [VUs -> Nat]
         /\ at' \in [VUs -> Awaits]
         /\ \A u \in VUs : at'[u] = "insert" => seq'[u] < Items
         /\ Midway' = Midway \ (DOMAIN draws \cup stopped)
         /\ \A u \in DOMAIN draws : draws[u] = "w1" => at'[u] = "insert"
         /\ \A u \in VUs \ DOMAIN draws : at'[u] = "idle" \/ at'[u] = at[u]
<1>1. counter \in [Reads -> Nat] /\ seq \in [VUs -> Nat]
  BY DEF CallTypes
<1>2. /\ counter' \in [Reads -> Nat] /\ at' \in [VUs -> Awaits] /\ seq' \in [VUs -> Nat]
      /\ \A u \in DOMAIN draws : /\ at'[u] = "insert" => seq'[u] = 0
                                 /\ draws[u] = "w1" => at'[u] = "insert"
      /\ \A u \in VUs \ DOMAIN draws :
            IF u \in stopped THEN at'[u] = "idle"
            ELSE at'[u] = at[u] /\ kind'[u] = kind[u] /\ seq'[u] = seq[u]
      /\ \/ explainOutputReady' = explainOutputReady
         \/ explainOutputReady = "none" /\ explainOutputReady' = "pending"
  BY <1>1, CallNumbers
<1>3. kind' = [u \in VUs |-> IF u \in DOMAIN draws THEN draws[u]
                             ELSE IF u \in stopped THEN "none" ELSE kind[u]]
  BY DEF Call
<1>4. kind' \in [VUs -> Kinds \cup {"none"}]
  BY <1>3 DEF CallTypes
<1>5. explainOutputReady' \in FilesOpened
  BY <1>2 DEF CallTypes, FilesOpened
<1>6. \A u \in VUs : at'[u] = "insert" => seq'[u] < Items
  BY <1>2, CallsAssumption
<1>7. \A u \in VUs : u \in Midway' <=> u \in Midway \ (DOMAIN draws \cup stopped)
  BY <1>2 DEF Midway
<1>8. Midway' = Midway \ (DOMAIN draws \cup stopped)
  BY <1>7 DEF Midway
<1> QED BY <1>2, <1>4, <1>5, <1>6, <1>8

LEMMA WorkloadKeepsCalls ==
  ASSUME BenchInv, CallInv, Busy = {}, run \in Scrapers, NEW w \in Workloads, RunWorkload(w)
  PROVE  CallInv'
<1>1. PICK draws \in [1..UsersOf(run) -> KindsOf(run)] : Call(draws, {})
  BY DEF RunWorkload
<1>2. /\ DOMAIN draws \subseteq VUs /\ {} \cap DOMAIN draws = {}
      /\ \A u \in DOMAIN draws : draws[u] \in Kinds /\ draws[u] \in KindsOf(run)
  BY UsersOfRun, BenchAssumption DEF KindsOf, Scrapers
<1>3. /\ UNCHANGED <<explainLog, explainCsv, conversations, run>>
      /\ metrics' = Empty /\ before' = conversations /\ phase' = w
  BY DEF RunWorkload, GoTo, explainFiles
<1>4. /\ at \in [VUs -> Awaits] /\ Midway = {} /\ \A u \in VUs : at[u] = "idle"
  BY DEF BenchInv, TypeInv, Midway, Busy
<1>5. /\ counter' \in [Reads -> Nat] /\ explainOutputReady' \in FilesOpened
      /\ kind' \in [VUs -> Kinds \cup {"none"}] /\ seq' \in [VUs -> Nat]
      /\ \A u \in VUs : at'[u] = "insert" => seq'[u] < Items
      /\ Midway' = {}
      /\ \A u \in DOMAIN draws : draws[u] = "w1" => at'[u] = "insert"
      /\ \A u \in VUs \ DOMAIN draws : at'[u] = "idle" \/ at'[u] = at[u]
  BY <1>1, <1>2, <1>4, CallEffect DEF CallInv, StoredInv
<1>6. CallTypes'
  BY <1>3, <1>5 DEF CallInv, CallTypes
<1>7. conversations \in [Extents -> Nat] /\ conversations["part"] \in Nat
      /\ conversations["whole"] \in Nat /\ Cardinality({}) = 0
  BY FS_EmptySet DEF CallInv, StoredInv, Extents
<1>8. StoredInv'
  BY <1>3, <1>5, <1>7 DEF StoredInv
<1>9. KindsOf(run) = {"w1"} => \A u \in VUs : at'[u] \in {"idle", "insert"}
  BY <1>2, <1>4, <1>5
<1>10. W1Inv'
  <2>1. conversations["part"] <= conversations["part"] + 0 + Cardinality(Midway')
    BY <1>5, <1>7
  <2> QED BY <1>3, <1>5, <1>7, <1>9, <2>1 DEF W1Inv, KindsOf, Empty
<1> QED BY <1>6, <1>8, <1>10 DEF CallInv

\* A call ends: those midway are fewer by its user, if that was midway.
LEMMA SettleKeepsCalls ==
  ASSUME BenchInv, ExplainInv, CallInv, NEW u \in VUs, Settle(u) PROVE CallInv'
<1>1. /\ phase \in Workloads /\ phase \notin Exited /\ run \in Scrapers
      /\ UNCHANGED <<phase, run, before>>
  BY DEF Settle, mainVars, BenchInv, RunInv, OfRun, Workloads, Exited
<1>2. /\ at \in [VUs -> Awaits] /\ metrics \in [count : Nat, errors : Nat]
      /\ \A v \in VUs : at[v] = "insert" => seq[v] < Items
      /\ seq[u] \in Nat /\ conversations["part"] \in Nat /\ conversations["whole"] \in Nat
      /\ before["part"] \in Nat /\ before["whole"] \in Nat
  BY DEF BenchInv, TypeInv, CallInv, CallTypes, StoredInv, Extents
<1>3. /\ counter' \in [Reads -> Nat] /\ explainOutputReady' \in FilesOpened
      /\ kind' \in [VUs -> Kinds \cup {"none"}] /\ seq' \in [VUs -> Nat]
      /\ \A v \in VUs : at'[v] = "insert" => seq'[v] < Items
      /\ Midway' = Midway \ {u}
      /\ (KindsOf(run) = {"w1"} /\ \A v \in VUs : at[v] \in {"idle", "insert"})
            => \A v \in VUs : at'[v] \in {"idle", "insert"}
  <2>1. CASE Call(<<>>, {u})
    <3>1. PICK none : DOMAIN none = {} /\ Call(none, {u})
      <4>1. DOMAIN <<>> = {}
        OBVIOUS
      <4> QED BY <4>1, <2>1
    <3>2. /\ DOMAIN none \subseteq VUs /\ {u} \cap DOMAIN none = {}
          /\ \A v \in DOMAIN none : none[v] \in Kinds
          /\ DOMAIN none \cup {u} = {u}
      BY <3>1
    <3>3. /\ counter' \in [Reads -> Nat] /\ explainOutputReady' \in FilesOpened
          /\ kind' \in [VUs -> Kinds \cup {"none"}] /\ seq' \in [VUs -> Nat]
          /\ \A v \in VUs : at'[v] = "insert" => seq'[v] < Items
          /\ Midway' = Midway \ (DOMAIN none \cup {u})
          /\ \A v \in VUs \ DOMAIN none : at'[v] = "idle" \/ at'[v] = at[v]
      BY <1>2, <3>1, <3>2, CallEffect DEF CallInv
    <3> QED BY <3>1, <3>2, <3>3
  <2>2. CASE \E k \in KindsOf(run) : Call([v \in {u} |-> k], {})
    <3>1. PICK k \in KindsOf(run) : Call([v \in {u} |-> k], {})
      BY <2>2
    <3>2. PICK draws : draws = [v \in {u} |-> k]
      OBVIOUS
    <3>3. k \in Kinds
      BY <1>1, BenchAssumption DEF KindsOf, Scrapers
    <3>4. /\ DOMAIN draws = {u} /\ Call(draws, {}) /\ DOMAIN draws \subseteq VUs
          /\ {} \cap DOMAIN draws = {} /\ draws[u] = k
          /\ \A v \in DOMAIN draws : draws[v] \in Kinds
      BY <3>1, <3>2, <3>3
    <3>5. /\ counter' \in [Reads -> Nat] /\ explainOutputReady' \in FilesOpened
          /\ kind' \in [VUs -> Kinds \cup {"none"}] /\ seq' \in [VUs -> Nat]
          /\ \A v \in VUs : at'[v] = "insert" => seq'[v] < Items
          /\ Midway' = Midway \ (DOMAIN draws \cup {})
          /\ \A v \in DOMAIN draws : draws[v] = "w1" => at'[v] = "insert"
          /\ \A v \in VUs \ DOMAIN draws : at'[v] = "idle" \/ at'[v] = at[v]
      BY <1>2, <3>4, CallEffect DEF CallInv
    <3> QED BY <3>1, <3>4, <3>5
  <2> QED BY <2>1, <2>2 DEF Settle
<1>4. Returns(u) \/ Throws(u)
  BY DEF Settle
<1>5. CallTypes'
  <2>1. CASE UNCHANGED <<explainLog, explainCsv>>
    BY <1>3, <2>1 DEF CallInv, CallTypes
  <2>2. CASE at[u] = "csv" /\ explainCsv' = Append(explainCsv, Line(u)) /\ UNCHANGED explainLog
    <3>1. Line(u) \in Reads \X Nat
      BY <1>1, <2>2 DEF ExplainInv, ExplainCallsInv, Explaining, Drawn
    <3>2. explainCsv' \in Seq((Reads \X Nat) \cup {Header})
      BY <2>2, <3>1, AppendToSet DEF CallInv, CallTypes
    <3> QED BY <1>3, <2>2, <3>2 DEF CallInv, CallTypes
  <2> QED BY <1>4, <2>1, <2>2 DEF Returns, Throws, explainFiles
<1>6. /\ Cardinality(Midway) \in Nat
      /\ u \in Midway => Cardinality(Midway') = Cardinality(Midway) - 1 /\ Cardinality(Midway) # 0
      /\ u \notin Midway => Cardinality(Midway') = Cardinality(Midway)
  <2>1. /\ Cardinality(Midway) \in Nat
        /\ u \in Midway => Cardinality(Midway \ {u}) = Cardinality(Midway) - 1
        /\ u \notin Midway => Midway \ {u} = Midway
    BY MidwayIsFinite
  <2>2. u \in Midway => Cardinality(Midway) # 0
    <3>1. IsFiniteSet(Midway)
      <4>1. Midway \in SUBSET VUs
        BY DEF Midway
      <4> QED BY <4>1, UsersAreFinite
    <3> QED BY <3>1, FS_EmptySet
  <2> QED BY <1>3, <2>1, <2>2
<1>7. u \in Midway <=> at[u] = "insert" /\ seq[u] # 0
  BY DEF Midway
<1>8. Cardinality(Midway) <= conversations["part"] /\ conversations \in [Extents -> Nat]
      /\ before \in [Extents -> Nat]
  BY DEF CallInv, StoredInv
<1>9. ASSUME UNCHANGED conversations
      PROVE  /\ conversations' \in [Extents -> Nat]
             /\ Cardinality(Midway') <= conversations'["part"]
             /\ conversations["whole"] <= conversations'["whole"]
             /\ conversations'["part"] - Cardinality(Midway')
                  <= conversations["part"] - Cardinality(Midway) + 1
  BY <1>2, <1>6, <1>8, <1>9
<1>10. ASSUME at[u] = "insert", ItemStored(u)
       PROVE  /\ conversations' \in [Extents -> Nat]
              /\ Cardinality(Midway') <= conversations'["part"]
              /\ conversations["whole"] <= conversations'["whole"]
              /\ conversations'["part"] - Cardinality(Midway')
                   <= conversations["part"] - Cardinality(Midway) + 1
              /\ seq[u] + 1 = Items =>
                   /\ conversations'["whole"] = conversations["whole"] + 1
                   /\ conversations'["part"] - Cardinality(Midway')
                        <= conversations["part"] - Cardinality(Midway)
  <2>1. seq[u] < Items /\ (seq[u] # 0 => 1 <= conversations["part"])
    BY <1>2, <1>6, <1>7, <1>8, <1>10
  <2>2. /\ conversations' \in [Extents -> Nat]
        /\ conversations["whole"] <= conversations'["whole"]
        /\ seq[u] + 1 = Items => conversations'["whole"] = conversations["whole"] + 1
        /\ seq[u] = 0 => conversations["part"] <= conversations'["part"]
        /\ seq[u] = 0 => conversations'["part"] <= conversations["part"] + 1
        /\ seq[u] = 0 /\ Items = 1 => conversations'["part"] = conversations["part"]
        /\ seq[u] # 0 => conversations'["part"] <= conversations["part"]
        /\ seq[u] # 0 => conversations["part"] <= conversations'["part"] + 1
        /\ seq[u] # 0 /\ seq[u] + 1 = Items => conversations'["part"] = conversations["part"] - 1
    BY <1>2, <1>8, <1>10, <2>1, StoredItem
  <2>3. conversations'["part"] \in Nat
    BY <2>2 DEF Extents
  <2> QED BY <1>2, <1>6, <1>7, <1>8, <1>10, <2>2, <2>3
<1>11. UNCHANGED conversations \/ (at[u] = "insert" /\ ItemStored(u))
  BY <1>4 DEF Returns, Throws
<1>12. StoredInv'
  BY <1>1, <1>3, <1>8, <1>9, <1>10, <1>11 DEF StoredInv
<1>13. W1Inv'
  <2> SUFFICES ASSUME KindsOf(run) = {"w1"}
               PROVE  /\ \A v \in VUs : at'[v] \in {"idle", "insert"}
                      /\ before["whole"] + metrics'.count <= conversations'["whole"]
                      /\ conversations'["part"] <= before["part"] + metrics'.errors
                                                     + Cardinality(Midway')
    BY <1>1 DEF W1Inv, KindsOf
  <2>1. /\ \A v \in VUs : at[v] \in {"idle", "insert"}
        /\ before["whole"] + metrics.count <= conversations["whole"]
        /\ conversations["part"] <= before["part"] + metrics.errors + Cardinality(Midway)
    BY <1>1 DEF CallInv, W1Inv
  <2>2. conversations'["part"] \in Nat /\ conversations'["whole"] \in Nat
        /\ Cardinality(Midway') \in Nat /\ metrics.count \in Nat /\ metrics.errors \in Nat
    BY <1>2, <1>6, <1>9, <1>10, <1>11 DEF Extents
  <2>3. CASE Returns(u) /\ metrics' = [metrics EXCEPT !.count = @ + 1]
    <3>1. at[u] = "insert" /\ seq[u] + 1 = Items /\ ItemStored(u)
      BY <2>1, <2>3 DEF Returns
    <3>2. metrics'.count = metrics.count + 1 /\ metrics'.errors = metrics.errors
      BY <1>2, <2>3
    <3> QED BY <1>2, <1>3, <1>6, <1>10, <2>1, <2>2, <3>1, <3>2
  <2>4. CASE Throws(u) /\ metrics' = [metrics EXCEPT !.errors = @ + 1]
    <3>1. metrics'.count = metrics.count /\ metrics'.errors = metrics.errors + 1
      BY <1>2, <2>4
    <3>2. /\ conversations["whole"] <= conversations'["whole"]
          /\ conversations'["part"] - Cardinality(Midway')
               <= conversations["part"] - Cardinality(Midway) + 1
      BY <1>9, <1>10, <1>11
    <3> QED BY <1>2, <1>3, <1>6, <2>1, <2>2, <3>1, <3>2
  <2> QED BY <2>3, <2>4 DEF Settle
<1> QED BY <1>5, <1>12, <1>13 DEF CallInv

\* The steps of calls in between.
LEMMA CallStepKeepsCalls ==
  ASSUME BenchInv, ExplainInv, CallInv, Explain PROVE CallInv'
<1>1. phase \notin Exited /\ CallStep /\ UNCHANGED <<phase, run, metrics, before>>
  BY DEF Explain, mainVars, measured
<1>2. at \in [VUs -> Awaits] /\ metrics \in [count : Nat, errors : Nat]
  BY DEF BenchInv, TypeInv
<1>3. ASSUME UNCHANGED <<counter, kind, seq, conversations>>,
             explainOutputReady' \in FilesOpened, explainLog' \in Seq(Reads \X Nat),
             explainCsv' \in Seq((Reads \X Nat) \cup {Header}),
             \A u \in VUs : at'[u] = at[u] \/ at[u] \in {"files", "log"},
             \A u \in VUs : at'[u] = "insert" <=> at[u] = "insert"
      PROVE  CallInv'
  <2>1. CallTypes'
    BY <1>3 DEF CallInv, CallTypes
  <2>2. Midway' = Midway
    BY <1>3 DEF Midway
  <2>3. StoredInv'
    BY <1>1, <1>3, <2>2 DEF CallInv, StoredInv
  <2>4. W1Inv'
    BY <1>1, <1>3, <2>2 DEF CallInv, W1Inv, KindsOf
  <2> QED BY <2>1, <2>3, <2>4 DEF CallInv
<1>4. CASE OpenFiles
  <2>1. Append(explainCsv, Header) \in Seq((Reads \X Nat) \cup {Header})
    BY AppendToSet DEF CallInv, CallTypes
  <2> QED BY <1>3, <1>4, <2>1 DEF OpenFiles, FilesOpened, CallInv, CallTypes
<1>5. ASSUME NEW u \in VUs, FilesReady(u) PROVE CallInv'
  BY <1>2, <1>3, <1>5 DEF FilesReady, explainFiles, CallInv, CallTypes
<1>6. ASSUME NEW u \in VUs, LogAppended(u) PROVE CallInv'
  <2>1. Line(u) \in Reads \X Nat
    BY <1>1, <1>6 DEF LogAppended, ExplainInv, ExplainCallsInv, Explaining, Drawn
  <2>2. Append(explainLog, Line(u)) \in Seq(Reads \X Nat)
    BY <2>1, AppendToSet DEF CallInv, CallTypes
  <2> QED BY <1>2, <1>3, <1>6, <2>2 DEF LogAppended, CallInv, CallTypes
<1>7. ASSUME NEW u \in VUs, Inserted(u) PROVE CallInv'
  <2>1. /\ at[u] = "insert" /\ seq[u] + 1 < Items /\ ItemStored(u)
        /\ seq' = [seq EXCEPT ![u] = @ + 1] /\ seq \in [VUs -> Nat]
        /\ UNCHANGED <<counter, explainOutputReady, at, kind, explainLog, explainCsv>>
    BY <1>7 DEF Inserted, explainFiles, CallInv, CallTypes
  <2>2. CallTypes'
    BY <2>1 DEF CallInv, CallTypes
  <2>3. seq'[u] = seq[u] + 1 /\ seq[u] \in Nat /\ \A v \in VUs \ {u} : seq'[v] = seq[v]
    BY <2>1
  <2>4. Midway' = Midway \cup {u}
    BY <2>1, <2>3 DEF Midway
  <2>5. /\ IsFiniteSet(Midway) /\ Cardinality(Midway) \in Nat
        /\ u \in Midway <=> seq[u] # 0
        /\ u \in Midway => Cardinality(Midway) # 0 /\ Cardinality(Midway') = Cardinality(Midway)
        /\ u \notin Midway => Cardinality(Midway') = Cardinality(Midway) + 1
    <3>1. IsFiniteSet(Midway) /\ Cardinality(Midway) \in Nat
      <4>1. Midway \in SUBSET VUs
        BY DEF Midway
      <4> QED BY <4>1, UsersAreFinite
    <3>2. u \in Midway => Midway' = Midway /\ Cardinality(Midway) # 0
      BY <2>4, <3>1, FS_EmptySet
    <3>3. u \notin Midway => Cardinality(Midway') = Cardinality(Midway) + 1
      BY <2>4, <3>1, FS_AddElement
    <3>4. u \in Midway <=> seq[u] # 0
      BY <2>1 DEF Midway
    <3> QED BY <3>1, <3>2, <3>3, <3>4
  <2>6. /\ conversations \in [Extents -> Nat] /\ Cardinality(Midway) <= conversations["part"]
        /\ conversations["part"] \in Nat /\ conversations["whole"] \in Nat
        /\ before \in [Extents -> Nat] /\ before["part"] \in Nat /\ before["whole"] \in Nat
    BY DEF CallInv, StoredInv, Extents
  <2>7. seq[u] < Items /\ 1 < Items /\ (seq[u] # 0 => 1 <= conversations["part"])
    BY <2>1, <2>3, <2>5, <2>6, CallsAssumption
  <2>8. /\ conversations' \in [Extents -> Nat]
        /\ conversations["whole"] <= conversations'["whole"]
        /\ seq[u] = 0 => conversations'["part"] = conversations["part"] + 1
        /\ seq[u] # 0 => conversations'["part"] = conversations["part"]
    BY <2>1, <2>3, <2>6, <2>7, StoredItem
  <2>9. StoredInv'
    <3>1. \A v \in VUs : at'[v] = "insert" => seq'[v] < Items
      BY <2>1, <2>3, CallsAssumption DEF CallInv, StoredInv
    <3>2. Cardinality(Midway') <= conversations'["part"]
      BY <2>5, <2>6, <2>8
    <3> QED BY <1>1, <2>6, <2>8, <3>1, <3>2 DEF StoredInv
  <2>10. W1Inv'
    <3> SUFFICES ASSUME phase \in Workloads, KindsOf(run) = {"w1"}
                 PROVE  /\ \A v \in VUs : at'[v] \in {"idle", "insert"}
                        /\ before["whole"] + metrics.count <= conversations'["whole"]
                        /\ conversations'["part"] <= before["part"] + metrics.errors
                                                       + Cardinality(Midway')
      BY <1>1 DEF W1Inv, KindsOf
    <3>1. /\ \A v \in VUs : at[v] \in {"idle", "insert"}
          /\ before["whole"] + metrics.count <= conversations["whole"]
          /\ conversations["part"] <= before["part"] + metrics.errors + Cardinality(Midway)
      BY DEF CallInv, W1Inv
    <3>2. metrics.count \in Nat /\ metrics.errors \in Nat /\ conversations'["whole"] \in Nat
      BY <1>2, <2>8 DEF Extents
    <3> QED BY <2>1, <2>5, <2>6, <2>8, <3>1, <3>2
  <2> QED BY <2>2, <2>9, <2>10 DEF CallInv
<1> QED BY <1>1, <1>4, <1>5, <1>6, <1>7 DEF CallStep

LEMMA CallNext == BenchInv /\ ExplainInv /\ CallInv /\ [Next]_vars => CallInv'
<1> SUFFICES ASSUME BenchInv, ExplainInv, CallInv, [Next]_vars PROVE CallInv'
  OBVIOUS
<1>1. CASE StartRun \/ EndWarmup
  <2>1. PICK w \in Workloads : RunWorkload(w)
    BY <1>1 DEF StartRun, EndWarmup, Workloads
  <2>2. Busy = {} /\ run \in Scrapers
    BY <1>1 DEF StartRun, EndWarmup, Awaited, Busy, BenchInv, CountInv, RunInv, OfRun, Workloads
  <2> QED BY <2>1, <2>2, WorkloadKeepsCalls
<1>2. ASSUME NEW u \in VUs, Settle(u) PROVE CallInv'
  BY <1>2, SettleKeepsCalls
<1>3. CASE Explain
  BY <1>3, CallStepKeepsCalls
<1>4. CASE Exit1
  <2>1. /\ phase' \notin Workloads /\ \A u \in VUs : at'[u] = "idle"
        /\ counter' = [k \in Reads |-> 0] /\ explainOutputReady' = "none"
        /\ kind' = [u \in VUs |-> "none"] /\ seq' = [u \in VUs |-> 0]
        /\ UNCHANGED <<explainLog, explainCsv, conversations, before>>
    BY <1>4 DEF Exit1, GoTo, CallsEnd, explainFiles, Workloads
  <2>2. Midway' = {} /\ Cardinality({}) = 0 /\ conversations["part"] \in Nat
    BY <2>1, FS_EmptySet DEF Midway, CallInv, StoredInv, Extents
  <2>3. CallTypes'
    BY <2>1 DEF CallInv, CallTypes, FilesOpened
  <2>4. StoredInv'
    BY <2>1, <2>2 DEF CallInv, StoredInv
  <2> QED BY <2>1, <2>3, <2>4 DEF CallInv, W1Inv
<1>5. CASE \/ CheckUrls \/ Load \/ EndBench \/ Record \/ Save \/ Combine \/ Exit0 \/ Deadline
           \/ (\E r \in Scrapers : Scrape(r)) \/ UNCHANGED vars
  <2>1. UNCHANGED callVars /\ UNCHANGED <<metrics, before>>
    BY <1>5 DEF CheckUrls, Load, EndBench, Record, Save, Combine, Exit0, Deadline, Scrape,
                vars, measured
  <2>2. phase' \in Workloads => phase' = phase /\ run' = run
    BY <1>5 DEF CheckUrls, Load, EndBench, Record, Save, AfterRun, Combine, Exit0, Deadline,
                Scrape, GoTo, vars, mainVars, Workloads
  <2>3. Midway' = Midway
    BY <2>1 DEF callVars, Midway
  <2>4. CallTypes' /\ StoredInv'
    BY <2>1, <2>3 DEF callVars, explainFiles, CallInv, CallTypes, StoredInv
  <2>5. W1Inv'
    BY <2>1, <2>2, <2>3 DEF callVars, CallInv, W1Inv, KindsOf
  <2> QED BY <2>4, <2>5 DEF CallInv
<1> QED BY <1>1, <1>2, <1>3, <1>4, <1>5 DEF Next, Main

LEMMA CallInit == Init => CallInv
<1> SUFFICES ASSUME Init PROVE CallInv
  OBVIOUS
<1>1. /\ counter = [k \in Reads |-> 0] /\ at = [u \in VUs |-> "idle"]
      /\ kind = [u \in VUs |-> "none"] /\ seq = [u \in VUs |-> 0] /\ explainLog = <<>>
      /\ explainCsv = <<>> /\ explainOutputReady = "none" /\ phase = "preflight"
      /\ conversations = [e \in Extents |-> 0] /\ before = conversations
  BY DEF Init, CallsInit
<1>2. CallTypes
  BY <1>1 DEF CallTypes, FilesOpened
<1>3. Midway = {} /\ Cardinality({}) = 0
  BY <1>1, FS_EmptySet DEF Midway
<1>4. StoredInv
  BY <1>1, <1>3 DEF StoredInv, Extents
<1> QED BY <1>1, <1>2, <1>4 DEF CallInv, W1Inv, Workloads

LEMMA ExplainInvariant == Spec => []ExplainInv
<1>1. Init => ExplainInv
  BY ExplainInit
<1>2. BenchInv /\ ExplainInv /\ [Next]_vars => ExplainInv'
  BY ExplainNext
<1> QED BY <1>1, <1>2, BenchInvariant, PTL DEF Spec

LEMMA CallInvariant == Spec => []CallInv
<1>1. Init => CallInv
  BY CallInit
<1>2. BenchInv /\ ExplainInv /\ CallInv /\ [Next]_vars => CallInv'
  BY CallNext
<1> QED BY <1>1, <1>2, BenchInvariant, ExplainInvariant, PTL DEF Spec

\* The conversations that W1 has written are those that were counted, for any number of
\* users and items; a part of one is in progress or counted as an error (w1.ts:18-45,
\* concurrency.ts:20-28).
THEOREM W1ConversationsAreCounted == Spec => []ConversationsAreCounted
<1>1. BenchInv /\ CallInv => ConversationsAreCounted
  <2> SUFFICES ASSUME BenchInv, CallInv, phase \in Workloads, KindsOf(run) = {"w1"}
               PROVE  /\ metrics.count <= conversations["whole"] - before["whole"]
                      /\ conversations["part"] - before["part"]
                           <= metrics.errors + Cardinality({u \in VUs : at[u] = "insert"})
    BY DEF ConversationsAreCounted
  <2> DEFINE inserting == {u \in VUs : at[u] = "insert"}
  <2>1. Midway \subseteq inserting /\ inserting \in SUBSET VUs /\ Midway \in SUBSET VUs
    BY DEF Midway
  <2>2. IsFiniteSet(inserting) /\ Cardinality(inserting) \in Nat /\ Cardinality(Midway) \in Nat
    BY <2>1, UsersAreFinite
  <2>3. Cardinality(Midway) <= Cardinality(inserting)
    BY <2>1, <2>2, FS_Subset
  <2>4. /\ before["whole"] + metrics.count <= conversations["whole"]
        /\ conversations["part"] <= before["part"] + metrics.errors + Cardinality(Midway)
    BY DEF CallInv, W1Inv
  <2>5. /\ metrics.count \in Nat /\ metrics.errors \in Nat
        /\ conversations["part"] \in Nat /\ conversations["whole"] \in Nat
        /\ before["part"] \in Nat /\ before["whole"] \in Nat
    BY DEF BenchInv, TypeInv, CallInv, StoredInv, Extents
  <2> HIDE DEF inserting
  <2> QED BY <2>2, <2>3, <2>4, <2>5 DEF inserting
<1> QED BY <1>1, BenchInvariant, CallInvariant, PTL

\* Where main() is, and the flags.
MainInv ==
    /\ phase \in Workloads \cup Exited \cup
                 {"preflight", "load", "start", "probe", "save", "combine", "closed"}
    /\ run \in Scrapers \cup {1} /\ skipScrape \in BOOLEAN /\ noWarmup \in BOOLEAN
    /\ expired \in BOOLEAN

LEMMA MainNext == BenchInv /\ MainInv /\ [Next]_vars => MainInv'
<1> SUFFICES ASSUME BenchInv, MainInv, [Next]_vars PROVE MainInv'
  OBVIOUS
<1>1. CASE \/ CheckUrls \/ Load \/ StartRun \/ EndWarmup \/ EndBench \/ Record \/ Combine
           \/ Exit0 \/ Exit1
  <2>1. \E p \in Workloads \cup Exited \cup {"load", "start", "probe", "save", "combine", "closed"} :
           GoTo(p, run)
    BY <1>1 DEF CheckUrls, Load, StartRun, EndWarmup, RunWorkload, EndBench, Record, Combine,
                Exit0, Exit1, Workloads, Exited
  <2>2. expired' \in BOOLEAN
    BY <1>1 DEF CheckUrls, Load, StartRun, EndWarmup, RunWorkload, EndBench, Record, Combine,
                Exit0, Exit1, MainInv
  <2> QED BY <2>1, <2>2 DEF GoTo, MainInv
<1>2. CASE Save
  <2>1. run \in 1..Runs /\ Runs \in Nat
    BY <1>2, ScraperAssumption DEF Save, BenchInv, RunInv, OfRun, Scrapers
  <2>2. GoTo("combine", run) \/ (GoTo("start", run + 1) /\ run + 1 \in 1..Runs)
    BY <1>2, <2>1 DEF Save, AfterRun
  <2> QED BY <1>2, <2>2 DEF Save, GoTo, MainInv, Scrapers
<1>3. CASE Deadline
  BY <1>3 DEF Deadline, MainInv
<1>4. CASE \/ Explain \/ (\E u \in VUs : Settle(u)) \/ (\E r \in Scrapers : Scrape(r))
           \/ UNCHANGED vars
  BY <1>4 DEF Explain, Settle, Scrape, vars, mainVars, MainInv
<1> QED BY <1>1, <1>2, <1>3, <1>4 DEF Next, Main

\* The variables have their types.
THEOREM BenchTypes == Spec => []TypeOK
<1>1. Init => MainInv
  BY BenchAssumption DEF Init, MainInv
<1>2. BenchInv /\ MainInv /\ [Next]_vars => MainInv'
  BY MainNext
<1>3. BenchInv /\ CallInv /\ LoopInv /\ ScrapeFileInv /\ FilesInv /\ MainInv => TypeOK
  <2> SUFFICES ASSUME BenchInv, CallInv, LoopInv, ScrapeFileInv, FilesInv, MainInv
               PROVE  TypeOK
    OBVIOUS
  <2>1. ToSet(explainLog) \subseteq Kinds \X Nat
        /\ ToSet(explainCsv) \subseteq (Kinds \X Nat) \cup {Header}
    BY DEF CallInv, CallTypes, ToSet, Kinds
  <2>2. CallsTypeOK
    BY <2>1 DEF CallsTypeOK, BenchInv, TypeInv, CallInv, CallTypes, FilesOpened, StoredInv
  <2>3. ScraperTypeOK
    BY DEF ScraperTypeOK, BenchInv, ScrapeInv, LoopInv, ScrapeFileInv
  <2> QED BY <2>2, <2>3 DEF TypeOK, BenchInv, TypeInv, MainInv, FilesInv
<1> QED BY <1>1, <1>2, <1>3, BenchInvariant, CallInvariant, LoopInvariant, ScrapeFileInvariant,
           FilesInvariant, PTL DEF Spec
=============================================================================
