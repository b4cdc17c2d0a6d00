--------------------------- MODULE SeedOrchestrator ---------------------------
(***************************************************************************)
(* `bun run seed`: the orchestrator process makes tenants.json if it is    *)
(* missing, spawns one process per worker, waits for all of them and turns *)
(* their exit codes into its own; each worker slices the tenant list and   *)
(* seeds its slice, spans before conversation items                        *)
(* (src/src/seed/index.ts:28-171, src/src/seed/tenants.ts:34-44).  A       *)
(* worker's seeding of one tenant is one step here: Seeder shows what that *)
(* step promises.                                                          *)
(***************************************************************************)
EXTENDS Naturals, FiniteSets

CONSTANTS TenantCount,      \* length of the tenant list
          WorkerCount,      \* --workers, or config.seedWorkers
          MaxInvocations    \* bound: how often the command is run

ASSUME OrchestratorAssumption ==
    /\ TenantCount \in Nat /\ WorkerCount \in Nat \ {0} /\ MaxInvocations \in Nat \ {0}

VARIABLES scenario,     \* --scenario of this invocation
          given,        \* was --tenants passed?
          file,         \* results/tenants.json
          orch,         \* the orchestrator process
          worker,       \* the worker processes
          seeded,       \* <<kind, tenant>> pairs whose table holds its target
          invocations

vars == <<scenario, given, file, orch, worker, seeded, invocations>>

Indexes == 0..WorkerCount - 1
Tenants == 0..TenantCount - 1
Kinds   == {"spans", "items"}

\* runS1 and runS2: any other word selects nothing.
Selected == {k \in Kinds : \/ scenario = "all"
                           \/ k = "spans" /\ scenario = "s1"
                           \/ k = "items" /\ scenario = "s2"}

\* Mutant of ChunkSize: Math.floor.
ChunkSizeFloor == TenantCount \div WorkerCount

\* Math.ceil(tenants.length / workerCount)
ChunkSize == (TenantCount + WorkerCount - 1) \div WorkerCount

\* tenants.slice(workerIndex * chunkSize, (workerIndex + 1) * chunkSize)
Slice(w) == {t \in Tenants : w * ChunkSize <= t /\ t < (w + 1) * ChunkSize}

\* The phase after seeding kind k (or, for "load", the first one).
After(k) == IF k = "load" /\ "spans" \in Selected THEN "spans"
            ELSE IF k # "items" /\ "items" \in Selected THEN "items"
            ELSE "exit0"

Ended == {"none", "exit0", "exit1"}

Init == /\ scenario \in {"all", "s1", "s2", "other"} /\ given \in BOOLEAN
        /\ file \in {"absent", "full"}
        /\ orch = "start" /\ worker = [w \in Indexes |-> "none"]
        /\ seeded = {} /\ invocations = 1

Spawn == orch' = "waiting" /\ worker' = [w \in Indexes |-> "load"]

\* existsSync(tenantsFile): a file of any content will do.
FileExists == /\ orch = "start" /\ file # "absent"
              /\ Spawn
              /\ UNCHANGED <<scenario, given, file, seeded, invocations>>

\* No file: generateTenants, and Bun.write begins, which is not atomic.
BeginSave == /\ orch = "start" /\ file = "absent"
             /\ orch' = "saving" /\ file' = "partial"
             /\ UNCHANGED <<scenario, given, worker, seeded, invocations>>

EndSave == /\ orch = "saving"
           /\ file' = "full" /\ Spawn
           /\ UNCHANGED <<scenario, given, seeded, invocations>>

\* A worker reads the list; JSON.parse of a torn file throws into main().catch.
Load(w) ==
    /\ worker[w] = "load"
    /\ worker' = [worker EXCEPT ![w] =
                     IF given \/ file = "full" THEN After("load") ELSE "exit1"]
    /\ UNCHANGED <<scenario, given, file, orch, seeded, invocations>>

\* The pool of the current phase seeds one more tenant of the slice.
SeedTenant(w, t) ==
    /\ worker[w] \in Kinds /\ t \in Slice(w)
    /\ seeded' = seeded \cup {<<worker[w], t>>}
    /\ UNCHANGED <<scenario, given, file, orch, worker, invocations>>

\* The awaited pool resolves: every tenant of the slice is seeded.
EndPhase(w) ==
    /\ worker[w] \in Kinds
    /\ \A t \in Slice(w) : <<worker[w], t>> \in seeded
    /\ worker' = [worker EXCEPT ![w] = After(@)]
    /\ UNCHANGED <<scenario, given, file, orch, seeded, invocations>>

\* A write fails for good, or the process is killed.
WorkerFails(w) ==
    /\ worker[w] \notin Ended
    /\ worker' = [worker EXCEPT ![w] = "exit1"]
    /\ UNCHANGED <<scenario, given, file, orch, seeded, invocations>>

\* Mutant of Join: it waits for every worker to succeed.
JoinSuccesses ==
    /\ orch = "waiting"
    /\ \A w \in Indexes : worker[w] = "exit0"
    /\ orch' = "exit0"
    /\ UNCHANGED <<scenario, given, file, worker, seeded, invocations>>

\* Promise.all over the exit codes; one that is not 0 fails the command.
Join ==
    /\ orch = "waiting"
    /\ \A w \in Indexes : worker[w] \in Ended
    /\ orch' = IF \E w \in Indexes : worker[w] # "exit0" THEN "exit1" ELSE "exit0"
    /\ UNCHANGED <<scenario, given, file, worker, seeded, invocations>>

\* ^C reaches the whole process group, wherever each process is.
Interrupt ==
    /\ orch \in {"start", "saving", "waiting"}
    /\ orch' = "exit1"
    /\ worker' = [w \in Indexes |-> IF worker[w] \in Ended THEN worker[w] ELSE "exit1"]
    /\ UNCHANGED <<scenario, given, file, seeded, invocations>>

\* The operator runs the command again, perhaps with other arguments.
Rerun ==
    /\ orch \in {"exit0", "exit1"} /\ invocations < MaxInvocations
    /\ invocations' = invocations + 1
    /\ scenario' \in {"all", "s1", "s2", "other"} /\ given' \in BOOLEAN
    /\ orch' = "start" /\ worker' = [w \in Indexes |-> "none"]
    /\ UNCHANGED <<file, seeded>>

WorkerStep(w) == Load(w) \/ EndPhase(w) \/ \E t \in Slice(w) : SeedTenant(w, t)

Next == \/ FileExists \/ BeginSave \/ EndSave \/ Join \/ Interrupt \/ Rerun
        \/ \E w \in Indexes : WorkerStep(w) \/ WorkerFails(w)

\* Operating system scheduling of each process; a pool goes on to the next tenant.
Fairness == /\ WF_vars(FileExists \/ BeginSave \/ EndSave \/ Join)
            /\ \A w \in Indexes : /\ WF_vars(Load(w)) /\ WF_vars(EndPhase(w))
                                  /\ \A t \in Slice(w) : WF_vars(SeedTenant(w, t))

Spec == Init /\ [][Next]_vars /\ Fairness

-----------------------------------------------------------------------------
TypeOK ==
    /\ scenario \in {"all", "s1", "s2", "other"} /\ given \in BOOLEAN
    /\ file \in {"absent", "partial", "full"}
    /\ orch \in {"start", "saving", "waiting", "exit0", "exit1"}
    /\ worker \in [Indexes -> {"load"} \cup Kinds \cup Ended]
    /\ seeded \subseteq Kinds \X Tenants
    /\ invocations \in 1..MaxInvocations

\* Exit code 0 of the command (README.md:185 chains the next one with &&) means that
\* every tenant of the list is seeded in every selected table, although no process
\* ever sees more than its own slice (index.ts:118-124,77-92).
ExitZeroMeansSeeded ==
    orch = "exit0" => \A k \in Selected, t \in Tenants : <<k, t>> \in seeded

\* Every tenant is in the slice of some worker.
SlicesCover == \A t \in Tenants : \E w \in Indexes : t \in Slice(w)

\* What a worker's place in main() says of its slice.
SliceSeeded(w, k) == \A t \in Slice(w) : <<k, t>> \in seeded

WorkerInv(w) ==
    /\ worker[w] \in Kinds => worker[w] \in Selected
    /\ worker[w] = "items" /\ "spans" \in Selected => SliceSeeded(w, "spans")
    /\ worker[w] = "exit0" => \A k \in Selected : SliceSeeded(w, k)

\* The inductive invariant behind ExitZeroMeansSeeded: the orchestrator knows exit
\* codes only, a worker its slice only, and the slices cover the list (index.ts:77-146).
OrchestratorInv ==
    /\ TypeOK
    /\ \A w \in Indexes : WorkerInv(w)
    /\ orch = "exit0" => \A w \in Indexes : worker[w] = "exit0"

\* No two workers write the same tenant: a count taken by one would miss the other's
\* rows, and both would fill the table.
SlicesDisjoint ==
    \A v, w \in Indexes : v # w => Slice(v) \cap Slice(w) = {}

\* A command that is not interrupted and whose workers do not fail comes to an end.
CommandEnds == (orch = "start") ~> (orch \in {"exit0", "exit1"})
=============================================================================
