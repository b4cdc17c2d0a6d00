# Models of the tenant benchmark

TLA+ models of the benchmark client in `src/src/` (a Bun/TypeScript program
that creates, seeds and queries GreptimeDB tables under two multi-tenant
strategies). TLC checks them on small instances; TLAPS proves the safety properties of
the seeding, the seeding and the schema commands, the two Q-id sweeps, the benchmark
and the explain scripts for every value of their constants.
`PROJECT.json` maps each definition to the lines of code it stands for, lists the
runs, the hazards and the theorems.

The client is single-threaded but concurrent: tenants seeded by a promise pool,
virtual users of a scenario, scrape loops, pressure workers and the main function
interleave at every `await`, and the commands are run again on tables that
survived a crash. Throughout, an action is what the event loop runs from one
await to the next.

## 1. Inventory

| Component | State | Operations | Interacts with | Hard behaviour | What makes it correct |
|---|---|---|---|---|---|
| **Schema** `schema/create.ts, drop.ts, ddl.ts, partitions.ts` | the tenant list, a pool of names, two counters, the tables | create, drop, with retries for A | database, `tenants.json` | statements that fail after being executed, or are executed after their command has ended, tenants interleaving, two directories for one file | dropped tables are gone, the report is true, an existing list is kept, the command ends |
| **Seed orchestrator** `seed/index.ts, tenants.ts` | `tenants.json`, worker processes | generate the list, spawn, slice, join exit codes | workers, terminal | torn file, a failing worker, ^C, rerun | exit code 0 means everything is seeded; slices cover the list and do not overlap |
| **Seed pool** `seed/spans.ts:226-248, conversations.ts:220-241` | `next`, `inFlight`, `completed`, a promise | drain, `.then`, `.catch`, `.finally` | tenant tasks | microtasks of several tasks interleave | never more than `seedConcurrency`, never idle, resolves once all are done |
| **Tenant seeding** `seed/spans.ts, conversations.ts, lp.ts` | row count, segment plan, batch position, requests in transit, conversation anchors | count with retries, write with retries, resume, date each row | database over HTTP | lost or late answers, append-only tables, crash and resume by counting, at a later time | never under-seeded; over-seeded only where a request was given up; rows dated so that each query window and pool holds what the workloads expect |
| **Q-id workload** `workloads/q-id.ts` | two module-level Maps of cursors | page through spans / a conversation | virtual users, database | state read before an await and written after it; objects that have left the Map | no row is skipped; a sweep completes; the tenant moves on |
| **Other workloads** `q-time.ts, q-conv.ts, w1.ts, w2.ts, helpers.ts` | none | one statement; W1 one per item | runner, database | W1 stops halfway through a conversation | an operation is a whole conversation, a partial one an error |
| **Runner** `runner/index.ts, concurrency.ts, metrics.ts, scenarios.ts` | results, a collector per workload, CSV files | warm-up, measure, record, save; the table of scenarios | workloads, scraper, files | calls that end after the deadline, death while a file is rewritten | each row counts its own calls; saved rows stay; exit 0 means the whole matrix |
| **Scraper** `runner/scrape.ts` | a flag, a loop, snapshots, a file per run | start, loop, stop | runner, Prometheus endpoints | the loop outlives the run it belongs to | no scrape begins after the stop; loops do not keep the process alive; files are not replaced |
| **Explain hook** `workloads/explain.ts` and its call sites | call counters, a memoised promise, two files | every n-th call explains | virtual users, files | several users initialise the files at once; a failed initialisation is memoised | one header first, every CSV row has its plan |
| **Explain scripts** `explain*.ts` (four commands) | printed rows, a stop flag, pressure workers | explain samples, with or without load | database | the flag is shared by the pools and reset; workers end at their next look at it | an explain runs under its own pool's load and no other; rows of A and B are about the same conversation |
| Config, pool `config.ts, db.ts` | none | constants | all | unvalidated numbers | constants of the models |
| Row generation `seed/text.ts, progress.ts` | none | random payloads, logs | seeding | - | not modelled |
| Tests, OOM reproduction `tests/, oom-repro/` | - | exercise GreptimeDB and Bun | - | - | not modelled |

The modules and how they are composed (`A <- B`: B extends A):

```
SeedShares <- SeedTimes
SeedShares, DrainPool <- Seeder  -implements->  SeedContract
                                                   : what SeedOrchestrator takes a
SeedOrchestrator (one step per seeded tenant)  <...: worker's exit code to mean
Pages <- QIdSpans, QIdItems     (with the database table and the virtual users)
Scenarios <- WorkloadCalls;  WorkloadCalls, Scraper <- BenchRunner
ExplainScripts
SchemaCreate
```

A module `X_proof` extends `X` with the theorems about it; those about `DrainPool`
are in `Seeder_proof`, those about `WorkloadCalls` and `Scraper` in
`BenchRunner_proof`.

## 2. The modules and the code

**DrainPool** is the promise pool, generic in what a task is. `Drain` is the
synchronous `while` loop; `Then`, `Catch` and `Finally` are the three callbacks,
each a step of its own because callbacks of other tasks run between them.
`promise` is what `await new Promise` waits for; settling it twice has no effect.

**SeedShares** is the arithmetic at the head of both seeders: the effective
total, and how rows to insert are shared out over the three segments. `Floored`
allows both results of a floor of an exact quotient computed in doubles.

**Seeder** extends the pool with what a task does between its awaits. `job[t]`
holds the local variables of `seedSpansForTenant`, `countSpans` and
`lpWriteBatch`: `CountAnswers`/`CountFails` are the count (assumed to be 0 when
all attempts fail), `Post`, `Ack` and `WriteFails` the writes with their
retries. `wire` holds the requests in transit: `Apply` stores one at any time,
even after it was given up, after its retry was stored, or after the process
died; `Lose` drops one. `Crash`, `ExitOk`, `ExitErr` end the process and
`Rerun` starts it again with nothing but the tables. The same control is in
`conversations.ts`.

**SeedTimes** is one tenant of `seedItemsForTenant` with what `Seeder` leaves
out: which conversation an item gets and when it is dated. `Begin` counts the
table, draws the anchors and splits what is missing; `Generate` makes one row,
clustered around its conversation's anchor or in its stratified slot, `Write`
stores the batch, `Crash` loses it, and `Run` starts the worker again, not
earlier than before. A batch is stored at once here, since lost and late
requests are in `Seeder`.

**SeedContract** is the abstract specification of a seeding run: tables grow,
and success is reported only if all are full. `Seeder!KeepsContract` is the
refinement: a tenant's size is the sum of its segments and the report is what
the exit code says.

**SeedOrchestrator** is the command: `BeginSave`/`EndSave` are the
non-atomic write of `tenants.json`, `Slice` the slice by a rounded-up chunk
size, `Join` the `Promise.all` over exit codes. A worker's seeding of a tenant
is one step, by the contract above.

**Pages, QIdSpans, QIdItems** are keyset pagination and the two Q-id workloads. A call
is three steps: the cursor is read and the query sent, the database evaluates it, the
answer returns and writes the cursor. A row is its rank in the sort order. In `QIdItems`
the Map's entry is an object identity, since a call keeps the object it found and may
write to it after it left the Map. A call may also only explain its query (`Explained`,
every n-th by `BENCH_EXPLAIN_EVERY`; which ones is left open) or fail, and then writes
no cursor. `QIdSpans` goes through strategies, as the runner does in one process, with
the same Map.

**Scenarios** is the table of scenarios: name, workloads, virtual users.
**WorkloadCalls** is one call of a workload, between its awaits: a read
is a query, or every `Every`-th time wait for the files, explain and append
twice; W1 is one insert after the other; a call may throw at each await.
`conversations` counts the W1 conversations that have all, and those that have a part,
of their items in the table.
**Scraper** is one loop per run and its file. **BenchRunner** composes them to
`bun run bench`, from the preflight check to the exit: `StartRun` begins a
warm-up or, with `--no-warmup`, the measurement, `Settle` is the body of a
virtual user's loop, `Deadline` the clock, and `Torn` a file being rewritten. The
workloads a call draws from and the users of a run come from `Scenarios`, so a
mixed scenario draws per call.

**ExplainScripts** is the four operator commands: `Item(n)` is what the n-th
explain of the nested loops is about, `Keys(n)` the conversation it may be about.
The script under load has `worker[p][i]`, the i-th pressure worker of its p-th
pool, and `stopPressure`, set after a pool's last explain and reset by the next
pool; `Awaited` is the `Promise.all` that must keep the two apart.

**SchemaCreate** is `schema:create` and `schema:drop`: a queue of names whose statements
1 to 4 run one after another, several names at a time for A. `table[<<k, n>>]` is the
number of the command that created the table, so that an old table can be told from a
new one. When a command ends, any of the statements that are in flight (`Flying`), up to
one per slot, may stay on its way in `late`, and so may a CREATE that was given up;
`Land` is the database executing one of them, at any time during this or a later
command. `disturbed` remembers the tables that a late statement of an earlier command
changed after the present one had dropped them. `BeginB` and `EndSave` are the
non-atomic write of the list. `here` is whether `./results` has the list and `list`
whether `RESULTS_DIR` has it: the code looks into the one and reads and writes the
other.

Operators whose comment begins with "Mutant of" are plausible bugs,
one for each checked property: with the mutant in place of the definition it
follows, TLC finds the property violated. Nothing else uses them.

## 3. What is checked

| Run | Instance | Shows |
|---|---|---|
| `seeder` | 1 tenant, 8 rows at shares 50/15/10 (6 to seed: 4 or 3, 1, 1 or 2), batches of 2, 2 count attempts, 2 write attempts, 2 runs | `SeededMeansFull`, `CleanIsExact` |
| `seeder_pool` | 3 tenants on 2 slots, one row each, 2 runs | `PoolInv` with real tasks; `KeepsContract`; `RunEnds` |
| `seed_times` | 12 rows at shares 30/15/10 (7 to seed), 2 conversations, batches of 2, segments of 4, 2 and 6 units, a window of 1, two clock readings, 2 runs | `SessionPerCall`, `WindowsArePopulated`, `SharesUnlessResumed`, `ClusteredAreOld` |
| `seed_resumed` | the same | **violated**: a clustered conversation of a resumed tenant has two sessions |
| `orchestrator` | 4 tenants, 3 workers (slices 2, 2, 0), 2 invocations, all scenarios | `ExitZeroMeansSeeded`, `CommandEnds` |
| `qid_users` | 2 users, 2 tenants, two strategies, pages of 2, an insert, a failing call, any number of explained ones | `QIdInv`, `SweepCompletes` |
| `qid_items` | 2 users, conversations of 5 and 2 items, 3 state objects, a failing call, any number of explained ones | `QIdItemsInv`, `EmptyMeansPaged`, `EntryIsReplaced` |
| `qid_items_shared` | the same | **violated**: a conversation is dropped before it was paged |
| `bench` | A then B; `w1-10vu` and the B-only `m4-50pct-b` (3 runs); 3 users, every second read explained, W1 of 2 items, 1 repeated call, 1 refused call, 2 snapshots; without a warm-up, or without scraping | `ResultsCountOwnCalls`, `ConversationsAreCounted`, `SavedRunsStay`, `ScrapeFilesStay`, `ExitZeroMeansAllRun`, `ExplainFilesAgree`, `NoScrapeAfterStop`, `BenchEnds` |
| `schema` | 3 tenants, 2 at a time, 2 attempts, 2 commands of any arguments, 2 refused CREATEs in each, 1 statement on its way that nobody waits for | `DroppedIsGone`, `ReportIsTrue`, `ListIsKept`, `CommandEnds` |
| `schema_elsewhere` | `RESULTS_DIR` is another directory | **violated**: an existing list is replaced |
| `explain_scripts` | 3 samples, 5 conversations (halves of 2 and 3), `CONCURRENCY` 3, three values of `POOL` (two pools, three pools, one) | `SampledUnderFullLoad`, `RowsAreComparable`, `ScriptEnds` |

**Bounds, and why they are enough.** The seeder's instance has a segment of more than
one batch, a last batch that is shorter, a segment that may come out with one row more
or less, and a retry whose first copy may be stored late, in the same or in the next
run; a second crash adds no new kind of state, as the process keeps nothing, and the
theorems of section 5 hold for all values. Three tenants on two slots are the least for
which one waits while two callbacks interleave. In `seed_times` the segments keep the
order and the even lengths of the code's (18 to 4 months ago, 3 to 1 months, the last 7
days) with the window shorter than half the first; the historical and the fresh segment
get three rows each, so that slots go on in a second, shorter batch; a rerun may have
the same clock reading or a later one. With 4 tenants and 3 workers the last slice is
empty, the edge case of the rounded-up chunk. Two users suffice for a stale write: a
third one can only be stale in the same way; three pages make "one page back" differ
from "from the start". Three runs of the benchmark are one skipped scenario, one scrape
loop that overlaps a later run, a strategy with two rows in its file, and two runs of
one scenario name. With three users the explained calls 2 and 4, or 4 and 6, of a
scenario are in progress together, so that two users find the explain files unopened. Of
the two command lines one scrapes without a warm-up and the other warms up without
scraping; together they take every step, and a warm-up under a scraper adds none, since
`EndWarmup` leaves the scraper alone. Samples beyond the clustered half and within the
scattered one are the two cases of the samples' wrap-around; three pools are the least
for which a worker could outlive a reset of the flag twice. In `schema` one late
statement is enough to disturb a later command: what it disturbs is told apart by table,
so that a second one adds another table; the theorems are about any number. The counters
`MaxRuns`, `MaxInvocations`, `MaxInserts`, `MaxErrors`, `MaxObjects`, `MaxRepeats`,
`MaxSnapshots`, `MaxRefused` and `MaxLate` bound repetitions only, in guards, and
`Users` the virtual users of a scenario; each is named in its module. `MaxRepeats`
counts calls beyond the first of each user; when they are used up the calls in progress
last until the deadline.

**Deadlock** is not checked: every model describes a command that ends (and, in
`QIdItems`, a bound on objects that stops new ones). That nothing stops early is
what `RunEnds`, `CommandEnds`, `BenchEnds` and `ScriptEnds` say.

**Fairness.** Weak fairness of a process's own steps: the event loop runs every queued
callback, timers fire, and each awaited request ends (it is answered, fails or times
out). Nothing obliges a request to succeed, a crash to happen or an operator to rerun a
command. In `QIdSpans` a user draws tenants at random, so strong fairness of `Begin(v,
t)` says that the draw neglects no tenant for ever (probability one in the code), and
strong fairness of its `Execute` that neither are all calls for a tenant those that
explain; in `QIdItems` strong fairness of `Execute(v)` says the latter. With
`BENCH_EXPLAIN_EVERY=1` it does not hold: every call explains, and no cursor ever moves
(`q-id.ts:60-72`), so that the two properties hold for every other value only. The
number of failing calls is bounded by `MaxErrors`: a database that always fails lets no
sweep end. `SweepCompletes` allows the strategy to end first. `RunEnds` and the
`...Ends` properties allow failure, never silence.

## 4. Disagreements with the documents

1. `helpers.ts:2` says a clustered conversation has its items within 48 hours of
   a single anchor, one session. `conversations.ts:147` draws the anchors anew in
   each call, so a tenant whose seeding was resumed has two sessions in a
   conversation (`seed_resumed`); within one call the sentence holds
   (`seed_times`).
2. `q-id.ts:10` says a conversation is left when exhausted. A late empty page
   deletes whatever entry the Map holds by then (`qid_items_shared`).
3. `README.md:155` and `create.ts:34` say the list is generated if not present.
   `create.ts:35` looks in `./results`, `tenants.ts:35` writes to `RESULTS_DIR`
   (`schema_elsewhere`).

Seen while modelling, without a run of their own:

- *Seeding.* `README.md:209` calls `HISTORICAL_SHARE` the fraction of a tenant's
  rows; `spans.ts:157-165` splits what is *missing*, so a resumed tenant gets
  another mixture (`SharesUnlessResumed` has the condition). "Each worker handles
  an equal slice" (`README.md:211`): four tenants over three workers are 2, 2
  and 0. `BENCHMARK.md:172` gives the shares 75/15/10 where the default is 60.
  `BENCHMARK.md:177` has the historical rows first in timestamp order; only a
  batch is sorted. With a `HISTORICAL_SHARE` of 0.25 or less the inequality of
  `conversations.ts:142` fails: some clustered conversations have their anchor in a
  later segment, and their items are all clamped to the end of the historical one.
- *Reading.* `q-time.ts` over items and the probe after W1 (`scenarios.ts:85-87`)
  draw clustered conversations as well, which never have an item in the last
  seven days (`ClusteredAreOld`): half of those queries are empty by construction.
  `BENCHMARK.md:290` says each call of Q-id advances to the next page; with several
  users on a tenant the cursor also moves back, without skipping a row
  (`QIdInv`). A cursor of strategy A is where B begins (`q-id.ts:7`).
- *Scenarios.* `BENCHMARK.md:239,250` has one tenant per virtual writer; each call
  draws one (`concurrency.ts:17`). `BENCHMARK.md:352` runs all four pressure
  scenarios for both strategies; M4 is for B only. M2 and M3 are at least 2 and 10
  tenants whatever 5% and 50% are. `README.md:299` and `BENCHMARK.md:367` scrape
  during M1-M4; every scenario is scraped, its warm-up included.
- *Schema.* `schema:create --strategy both` needs the list before B's branch
  generates it (`create.ts:18-37`); "created N" (`create.ts:144`) counts tenants
  whose items table could not be created. `README.md:169-175` changes the layout of
  existing tables with `--drop`. If an earlier command was cut off (^C, or exit after a
  refused DROP) while its CREATE was in flight, and the CREATE lands after the next
  command's `DROP TABLE IF EXISTS`, `CREATE TABLE IF NOT EXISTS` keeps the old table and
  the command exits with 0: without its exception for `disturbed` tables, TLC finds
  `DroppedIsGone` violated in this way. `schema:create` would have to look at the table
  it finds, or create without `IF NOT EXISTS` after a DROP, to exclude it.
- *Explain scripts.* `explain-a-regressions.ts:195-206` takes the cutoff from A's
  spans and uses it for B; `explain.ts:22` takes any row of B, which may be of a W1
  conversation that A does not have; with one conversation per tenant
  `explain-a-regressions.ts:38` computes `sample % 0`.

## 5. What is proved

All theorems hold for every value of the constants under the named assumptions
of the modules; tlapm checks each leaf.

| Module | Theorem | Statement |
|---|---|---|
| `Seeder_proof` | `PoolInvariant`, `PoolSlotsCounted`, `PoolResolvesWhenAllDone` | `PoolSpec => []PoolInv` and two of its parts |
| `Seeder_proof` | `SeederInvariant`, `SeedingIsComplete`, `CountedRowsAreStored` | `SeederSpec => []SeederInv` and two of its parts |
| `Seeder_proof` | `WorkerKeepsContract` | `SeederSpec => KeepsContract`: every step is a step or a stutter of `SeedContract` |
| `Seeder_proof` | `SeedingIsExact` | `SeederSpec => []CleanIsExact` |
| `SeedTimes_proof` | `SessionsKept`, `ClusteredStayOld` | `Spec => []SessionPerCall` and `Spec => []ClusteredAreOld` |
| `SeedTimes_proof` | `WindowsStayPopulated`, `SharesAreKept`, `TimesTypes` | `Spec => []WindowsArePopulated`, `[]SharesUnlessResumed`, `[]TypeOK` |
| `SeedOrchestrator_proof` | `SlicesCoverTenants`, `SlicesNeverOverlap`, `ExitZeroIsHonest` | the arithmetic of the slices, and `Spec => []ExitZeroMeansSeeded` |
| `QIdSpans_proof` | `QIdInvariant`, `ExhaustedIsSwept` | `Spec => []QIdInv` and what it implies: `ExhaustedMeansSwept` |
| `QIdItems_proof` | `QIdItemsInvariant`, `EmptyPageMeansPaged` | the same for the conversation's state objects |
| `BenchRunner_proof` | `ResultsAreOwnCalls` | `Spec => []ResultsCountOwnCalls` |
| `BenchRunner_proof` | `ScrapesStop` | `Spec => NoScrapeAfterStop`, an action property |
| `BenchRunner_proof` | `ExplainFilesJoin` | `Spec => []ExplainFilesAgree` |
| `BenchRunner_proof` | `ScrapeFilesAreKept`, `SavedRunsAreKept`, `ExitZeroIsComplete` | `Spec => []ScrapeFilesStay`, `[]SavedRunsStay`, `[]ExitZeroMeansAllRun` |
| `BenchRunner_proof` | `W1ConversationsAreCounted`, `BenchTypes` | `Spec => []ConversationsAreCounted`, `[]TypeOK` |
| `ExplainScripts_proof` | `ScriptInvariant`, `LoadIsFull`, `SamplesAreComparable`, `ScriptTypes` | `Spec => []ScriptInv` and what it implies: `SampledUnderFullLoad`, `RowsAreComparable`, `TypeOK` |
| `SchemaCreate_proof` | `SchemaInvariant`, `DropsAreComplete`, `ReportsAreTrue`, `SchemaTypes` | `Spec => []SchemaInv` and what it implies: `DroppedIsGone`, `ReportIsTrue`, `TypeOK` |
| `SchemaCreate_proof` | `ListIsNeverReplaced` | `SameDir => (Spec => ListIsKept)`, an action property |

*Assumptions.* `PoolAssumption` (at least one slot: the code does not validate
`SEED_CONCURRENCY`, and with 0 or NaN the promise never settles), `SharesAssumption`,
`SeederAssumption` (batch size, attempts and target at least 1), `TimesAssumption`
(segments of positive even length that follow one another), `OrchestratorAssumption` (at
least one worker), `PageAssumption` (pages of at least one row), `QIdAssumption` and
`QIdItemsAssumption` (seeded tables and conversations are finite), `CallsAssumption`,
`ScraperAssumption`, `BenchAssumption` (every selected scenario has at least one virtual
user, as the table of scenarios does), `ScriptsAssumption` (at least one sample and
worker, and two conversations: with one, `sample % 0` is no number), `PlanAssumption`
(no two strategies and no two scenarios have the same name, so that no two runs are of
the same pair, and the nested loops of `index.ts:146-152` leave out none but the B-only
scenario for A; TLC evaluates it on the table itself) and `SchemaAssumption` (at least
one tenant, slot and attempt; the bounds on refused and late statements are any
numbers).

*The pool.* That the promise resolves only when all are done is not inductive:
the step that resolves it looks at two counters. `PoolInv` adds that `inFlight`
counts the tasks that hold a slot, that tasks past `next` are exactly the
untouched ones, and that a lost task has rejected the promise. When the last
slot is returned, each task is then done or lost, and a lost one contradicts a
pending promise.

*The seeder.* `SeederInv` adds to the pool's invariant what a task's local
variables say of the table: the counted rows, the acknowledged rows and the one
stored but not acknowledged are at most the table (`AckedIsStored`, `Planned`),
and counted plus planned is the target. Tables only grow, so late requests and
other runs never disturb it; the plan's last batch therefore fills the table.

*Exactness.* The other direction needs a history variable: `clean[t]` becomes
false when a count or a request that may still be stored is given up. While it is
true nothing is in transit but what the task waits for and the inequality is an
equality (`ExactInv`).

*Sessions.* `TimesInv` says of each clustered row, stored or in the batch, that it
was dated before the end of the historical segment of its own call and, while that
call lasts, near its conversation's present anchor; clamping moves two times no
further apart, so two rows near one anchor are within twice the window, and rows of
older calls no longer change. The clock never runs backwards, which carries "old
then" to "old now". Both theorems assume more than one conversation per tenant: with
one, `Math.floor(total / 2)` is 0 and the two pools are the same conversation.

*Slots and shares.* `SlotsInv` numbers the rows: those of the present call in a segment
that is done have the numbers from 0 to the plan's count, each once, those of the
present segment the numbers up to `segInserted`, and the batch the numbers after that
(`Numbered`), and rows of the newer segments lie in the slots of their numbers. What is
stored and what the plan has left add up to the effective total, so a call that went
through has filled the table. Then each slot of a newer segment has its row, and a
stretch of two slots, however it is placed, contains a whole slot (`SlotWithin`: the
rounded-down start of the k-th slot against a rounded-up length). For the shares,
`FirstInv` keeps what the first call stored below a split of the whole total; if all
rows are of that call, three counts that are each below a share and together reach
their sum are the shares. Segments have no time in common, so to be dated in a segment
is to be generated for it.

*The orchestrator.* `OrchestratorInv` says what each worker's place in `main()`
implies for its slice; the slices cover the list by a lemma on rounded-up
division; joined exit codes of 0 give the claim.

*The sweeps.* That a cursor covers the rows above it is not inductive: it is written
from an answer to a query that was sent with a cursor read long before. `CallsCover`
says of every call in progress what the cursor it was sent with, or its answer, covers;
rows returned only accumulate, so no interleaving disturbs it. The lemmas on pages carry
the data (`PageIsClosed`, in both modules): a page is the upper end of what matches, and
it is empty only when nothing matches. Both rest on a finite set of rows having a
largest one, which follows from strict inclusion being well-founded on finite sets. In
`QIdItems` the same is said per state object, whoever still holds it.

*The benchmark.* That a result counts its own calls needs to know what is neither
counted nor begun: `CountInv` says that while a workload is run its collector's two
counters and the number of calls in progress add up to the calls begun, and that
no call is in progress otherwise, so nothing is left over when `Promise.all` lets
the main function go on. `RowsInv` keeps later runs away from earlier rows.
`ScrapeInv` says that only the current run's scraper is told to go on, and only
while a workload is run; the theorem on scrapes is the action property of that.

*The benchmark's files.* `ExplainInv` says of explained calls in progress that they have
drawn different numbers, that none has its row yet, and that a call about to append to
the CSV has its plan in the log; the shared promise is resolved exactly when the header
is there. `ScrapeFileInv` says of a run that is past that its file holds its snapshots
but the one that was in the air, which its loop pushes at most once; by `PlanAssumption`
no other run writes to that name. `FilesInv` says that the results are those of the first
runs of the plan, in order, which gives the CSV of a strategy by restriction and the
combined file by counting pairs. For W1, `StoredInv` and `W1Inv` count the users that
are midway through a conversation: a part left in the table is one of those or a failed
call.

*The schema commands.* `SchemaInv` relates each name's place in the queue to the
counters (`QueueInv`), to its tables (`DropInv`: behind a DROP of this command a table
is gone, made by this command or disturbed, whatever the other names do) and to the
report (`ReportInv`: created and skipped count the names past their spans table).
`LateInv` says whose the statements on their way are: a DROP of the present command is
among them only once it has ended, so that what lands during a command is its own
CREATE, which leaves a table of this command, or an earlier command's statement, which
`disturbed` remembers. The theorems thus say what a command does by itself, and that an
earlier command can spoil it through its own statements in flight only. `NamesInv` says
that the names of A are those of the list, which a command can no longer replace once it
has read them; that needs `ListInv`, and is where `SameDir` enters the theorem about the
list. Without it the run `schema_elsewhere` has the counterexample.

*The explain scripts.* `RowsInv` says that the rows are those of the first explains of
the nested loops, each about a conversation of `Keys`, and that `main()` awaits the next
one; `PressureInv` that before the flag is set exactly the workers of the current pool
query, and after it no others: `Promise.all` over that pool is then enough for the flag
to be reset, which needs the arithmetic of `Len(rows)` and `PerWorkload`. That samples
are different conversations is that numbers closer than a divisor have different
remainders, with the cardinality of an interval; that none is missing is a bijection
from the sample numbers to the rows of a workload and strategy.

*Only model-checked.* The liveness properties and `EntryIsReplaced`: fairness and
leads-to are outside this prover's reach. Every invariant a run checks is proved.

## 6. Not modelled, and the plan

Payloads, log output, plan texts, percentiles and the sums of scraped metrics are
data that no property distinguishes. GreptimeDB, HAProxy, the Prometheus endpoints
and the terminal are the external actions listed as such in `PROJECT.json`: the
database stores a batch or not, and evaluates a query at one instant. Of `config.ts`
and `db.ts` the models take the constants; the driver's own queue of statements
(`CONCURRENCY` above the pool's 100 connections) is part of how long a call takes.
`seed/text.ts` and `seed/progress.ts` keep no state. `tests/` and `oom-repro/`
exercise GreptimeDB and Bun, not this program.

What could still be added:

1. Pure parts against reference definitions over bounded inputs: the digit balance
   of `generateTenants`, the partition bounds, percentiles of `MetricsCollector`,
   parsing and merging of Prometheus answers.
2. Two bench processes that append to the same explain files, and a table of
   timestamps that exceed 2^53 nanoseconds (`lp.ts:29`).
3. An abstract specification of the benchmark (a matrix of pairs, each measured
   once and then kept) that `BenchRunner` implements, and one of the cursor sweep.
