------------------------------- MODULE Scraper -------------------------------
(***************************************************************************)
(* The Prometheus scraper of src/src/runner/scrape.ts:156-236: the runner  *)
(* starts one for each run of a scenario and stop()s it by clearing a flag *)
(* that the loop looks at before its next step, so a loop outlives its     *)
(* scenario and can push one more snapshot after its file was written.  A  *)
(* snapshot is only counted here: it is pushed when at least one URL gave  *)
(* recognised metrics, and is the sum over those that did.                 *)
(***************************************************************************)
EXTENDS Naturals, Functions

CONSTANTS Runs,          \* how many runs of scenarios the command makes
          MaxSnapshots   \* bound: snapshots of all scrapers

ASSUME ScraperAssumption == Runs \in Nat /\ MaxSnapshots \in Nat

VARIABLES running,      \* the flag of each run's scraper
          loop,         \* where its scrapeLoop() is
          snapshots,    \* how many it pushed
          scrapeFile    \* the files by name: whose snapshots they hold, and how many

scraperVars == <<running, loop, snapshots, scrapeFile>>

Scrapers == 1..Runs
Pushed   == FoldFunction(+, 0, snapshots)
LoopEnds(r) == loop[r] \in {"none", "ended"}

ScraperInit ==
    /\ running = [r \in Scrapers |-> FALSE] /\ loop = [r \in Scrapers |-> "none"]
    /\ snapshots = [r \in Scrapers |-> 0] /\ scrapeFile = <<>>

startScraping(r) ==
    /\ running' = [running EXCEPT ![r] = TRUE]
    /\ loop' = [loop EXCEPT ![r] = "fetching"]
    /\ UNCHANGED <<snapshots, scrapeFile>>

\* Promise.allSettled over the URLs is done; the loop sleeps, or tries again at once
\* if the answers took longer than the interval, or ends.
Fetched(r) ==
    /\ loop[r] = "fetching"
    /\ \/ snapshots' = snapshots
       \/ Pushed < MaxSnapshots /\ snapshots' = [snapshots EXCEPT ![r] = @ + 1]
    /\ \E to \in IF running[r] THEN {"sleeping", "fetching"} ELSE {"ended"} :
          loop' = [loop EXCEPT ![r] = to]
    /\ UNCHANGED <<running, scrapeFile>>

\* Mutant of Woken: the flag is not looked at again after the sleep.
WokenUnchecked(r) ==
    /\ loop[r] = "sleeping"
    /\ loop' = [loop EXCEPT ![r] = "fetching"]
    /\ UNCHANGED <<running, snapshots, scrapeFile>>

Woken(r) ==
    /\ loop[r] = "sleeping"
    /\ loop' = [loop EXCEPT ![r] = IF running[r] THEN "fetching" ELSE "ended"]
    /\ UNCHANGED <<running, snapshots, scrapeFile>>

Snapshots(r) == [of |-> r, held |-> snapshots[r]]

Written(file, r) == [f \in DOMAIN scrapeFile \cup {file} |->
                        IF f = file THEN Snapshots(r) ELSE scrapeFile[f]]

\* Mutant of StopAndWrite: nobody calls stop().
WriteUnstopped(r, file) ==
    /\ scrapeFile' = Written(file, r)
    /\ UNCHANGED <<running, loop, snapshots>>

\* stop(), getSnapshots() and JSON.stringify run without an await between them; a file
\* of that name is replaced.
StopAndWrite(r, file) ==
    /\ running' = [running EXCEPT ![r] = FALSE]
    /\ scrapeFile' = Written(file, r)
    /\ UNCHANGED <<loop, snapshots>>

\* The process is gone.
ScrapersEnd ==
    /\ running' = [r \in Scrapers |-> FALSE] /\ loop' = [r \in Scrapers |-> "none"]
    /\ UNCHANGED <<snapshots, scrapeFile>>

ScraperTypeOK ==
    /\ running \in [Scrapers -> BOOLEAN]
    /\ loop \in [Scrapers -> {"none", "fetching", "sleeping", "ended"}]
    /\ snapshots \in [Scrapers -> Nat]
    /\ \A f \in DOMAIN scrapeFile : scrapeFile[f] \in [of : Scrapers, held : Nat]
=============================================================================
