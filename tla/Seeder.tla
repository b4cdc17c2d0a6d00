-------------------------------- MODULE Seeder --------------------------------
(***************************************************************************)
(* One seeding worker filling one table kind for its tenants: seedSpans /  *)
(* seedSpansForTenant (src/src/seed/spans.ts:117-254) and, with the same   *)
(* control, seedConversationItems / seedItemsForTenant                     *)
(* (src/src/seed/conversations.ts:98-247), writing through lpWriteBatch    *)
(* (src/src/seed/lp.ts:100-126) to append-only tables.  The pool is        *)
(* DrainPool; this module adds what a task does between its awaits, the    *)
(* requests in transit, and the process dying and being run again.         *)
(***************************************************************************)
EXTENDS DrainPool, SeedShares

CONSTANTS BatchSize,        \* config.spanBatchSize or config.seedBatchSize
          CountAttempts,    \* 5 in the code (attempt 0..4)
          Retries,          \* 10 in the code
          MaxRuns           \* bound: how often the worker is run

ASSUME SeederAssumption ==
    /\ BatchSize \in Nat \ {0} /\ CountAttempts \in Nat \ {0}
    /\ Retries \in Nat \ {0} /\ MaxRuns \in Nat \ {0}

VARIABLES job,          \* the local state of each tenant's async function
          rows,         \* rows stored, by tenant and segment
          wire,         \* requests the server may still apply
          proc,         \* the worker process
          runs,         \* how often it was started
          clean         \* history: no row of the tenant can have been sent twice

storeVars == <<rows, wire>>
vars == <<poolVars, job, storeVars, proc, runs, clean>>

Size(t) == rows[t][1] + rows[t][2] + rows[t][3]

\* Local variables of seedSpansForTenant, countSpans and lpWriteBatch: where it
\* stands, the loop variable of the count, its result, the segment counts, the
\* segment being written and its rows acknowledged so far, the loop variable of the
\* write, and whether the server has stored the request it awaits.
Fresh == [step |-> "count", attempt |-> 0, existing |-> 0,
          plan |-> [s \in Segments |-> 0], seg |-> 1, segInserted |-> 0,
          tries |-> 0, landed |-> FALSE]

\* Mutant of Request: whole batches only, without the Math.min.
RequestWholeBatch(t) ==
    LET j == job[t]
    IN [tenant |-> t, run |-> runs, seg |-> j.seg, from |-> j.segInserted, try |-> j.tries,
        size |-> BatchSize]

\* The request posted for tenant t: a batch of Math.min(batchSize, rest of the segment).
Request(t) ==
    LET j == job[t]
    IN [tenant |-> t, run |-> runs, seg |-> j.seg, from |-> j.segInserted, try |-> j.tries,
        size |-> Lower(BatchSize, j.plan[j.seg] - j.segInserted)]

Running(t) == proc = "up" /\ task[t] = "running"
At(t, s)   == Running(t) /\ job[t].step = s

\* Is the request a task waits for still in transit?
Outstanding(t) == At(t, "await") /\ Request(t) \in wire

\* From segment s on, k is the first with rows to write (4: none is left).
FirstToWrite(p, s, k) ==
    /\ k >= s
    /\ \A i \in Segments : s <= i /\ i < k => p[i] = 0
    /\ k \in Segments => p[k] > 0

\* Job j goes on to the first segment from s on that has rows, or returns.
Enter(t, j, s) ==
    \E k \in 1..4 :
        /\ FirstToWrite(j.plan, s, k)
        /\ job' = [job EXCEPT ![t] =
                      IF k = 4 THEN [j EXCEPT !.step = "return"]
                      ELSE [j EXCEPT !.step = "send", !.seg = k, !.segInserted = 0]]

\* With n rows counted: return if the tenant is full, else plan the segments.
Resume(t, n) ==
    IF n >= EffectiveTotal
    THEN job' = [job EXCEPT ![t].step = "return", ![t].existing = n]
    ELSE \E p \in Splits(EffectiveTotal - n) :
            Enter(t, [job[t] EXCEPT !.existing = n, !.plan = p], 1)

\* SELECT COUNT(*) answers.
CountAnswers(t) ==
    /\ At(t, "count")
    /\ Resume(t, Size(t))
    /\ UNCHANGED <<poolVars, storeVars, proc, runs, clean>>

\* The query fails: sleep and try again, or assume 0 after the last attempt.
CountFails(t) ==
    /\ At(t, "count")
    /\ IF job[t].attempt < CountAttempts - 1
       THEN /\ job' = [job EXCEPT ![t].attempt = @ + 1]
            /\ UNCHANGED clean
       ELSE /\ Resume(t, 0)
            /\ clean' = [clean EXCEPT ![t] = @ /\ Size(t) = 0]
    /\ UNCHANGED <<poolVars, storeVars, proc, runs>>

\* lpWriteBatch posts the batch (the first time, or again after its back-off).
Post(t) ==
    /\ At(t, "send")
    /\ wire' = wire \cup {Request(t)}
    /\ job' = [job EXCEPT ![t].step = "await", ![t].landed = FALSE]
    /\ UNCHANGED <<poolVars, rows, proc, runs, clean>>

\* Mutant of Ack: resp.ok is not looked at.
AckUnchecked(t) ==
    /\ At(t, "await")
    /\ LET j == [job[t] EXCEPT !.segInserted = @ + Request(t).size, !.tries = 0,
                               !.landed = FALSE]
       IN IF j.segInserted < j.plan[j.seg]
          THEN job' = [job EXCEPT ![t] = [j EXCEPT !.step = "send"]]
          ELSE Enter(t, j, j.seg + 1)
    /\ UNCHANGED <<poolVars, storeVars, proc, runs, clean>>

\* resp.ok: the batch counts as inserted; go on with the segment or with the next one.
Ack(t) ==
    /\ At(t, "await") /\ job[t].landed
    /\ LET j == [job[t] EXCEPT !.segInserted = @ + Request(t).size, !.tries = 0,
                               !.landed = FALSE]
       IN IF j.segInserted < j.plan[j.seg]
          THEN job' = [job EXCEPT ![t] = [j EXCEPT !.step = "send"]]
          ELSE Enter(t, j, j.seg + 1)
    /\ UNCHANGED <<poolVars, storeVars, proc, runs, clean>>

\* An error status, a lost connection or a timeout, whatever became of the request:
\* retry the same lines, or throw after the last try.
WriteFails(t) ==
    /\ At(t, "await")
    /\ job' = IF job[t].tries < Retries - 1
              THEN [job EXCEPT ![t].tries = @ + 1, ![t].step = "send", ![t].landed = FALSE]
              ELSE [job EXCEPT ![t].step = "throw"]
    /\ clean' = [clean EXCEPT ![t] = @ /\ ~job[t].landed /\ Request(t) \notin wire]
    /\ UNCHANGED <<poolVars, storeVars, proc, runs>>

\* The server stores a request.  The tables are append-only, so nothing is
\* deduplicated; the sender may have given the request up, or be gone.
Apply(r) ==
    /\ r \in wire
    /\ wire' = wire \ {r}
    /\ rows' = [rows EXCEPT ![r.tenant][r.seg] = @ + r.size]
    /\ job' = IF At(r.tenant, "await") /\ r = Request(r.tenant)
              THEN [job EXCEPT ![r.tenant].landed = TRUE] ELSE job
    /\ UNCHANGED <<poolVars, proc, runs, clean>>

\* A request is refused, or never arrives.
Lose(r) ==
    /\ r \in wire
    /\ wire' = wire \ {r}
    /\ UNCHANGED <<poolVars, job, rows, proc, runs, clean>>

\* The pool's callbacks, each on what became of the task's async function.
PoolStep ==
    /\ proc = "up"
    /\ \/ Begin
       \/ \E t \in Tasks : \/ job[t].step = "return" /\ Then(t)
                           \/ job[t].step = "throw" /\ Catch(t)
                           \/ Finally(t)
    /\ UNCHANGED <<job, storeVars, proc, runs, clean>>

\* The process ends as `how` and its memory is gone; what was in transit may still
\* be stored later.
End(how) ==
    /\ proc = "up"
    /\ proc' = how
    /\ clean' = [t \in Tasks |-> clean[t] /\ ~Outstanding(t)]
    /\ job' = [t \in Tasks |-> Fresh]
    /\ UNCHANGED <<poolVars, storeVars, runs>>

\* Mutant of ExitOk: the pool's promise is not awaited.
ExitOkUnawaited == promise # "rejected" /\ End("exit0")

\* await of the pool's promise returns, or throws into main().catch.
ExitOk  == promise = "resolved" /\ End("exit0")
ExitErr == promise = "rejected" /\ End("exit1")

\* The process is killed (out of memory, ^C, the machine stops).
Crash == End("killed")

\* The operator runs the same command again: only the tables have survived.
Rerun ==
    /\ proc # "up" /\ runs < MaxRuns
    /\ proc' = "up" /\ runs' = runs + 1
    /\ next' = 0 /\ inFlight' = 0 /\ completed' = 0 /\ promise' = "new"
    /\ task' = [t \in Tasks |-> "waiting"]
    /\ UNCHANGED <<job, storeVars, clean>>

Init ==
    /\ PoolInit
    /\ job = [t \in Tasks |-> Fresh]
    /\ rows = [t \in Tasks |-> [s \in Segments |-> 0]]
    /\ wire = {} /\ proc = "up" /\ runs = 1
    /\ clean = [t \in Tasks |-> TRUE]

TaskStep(t) == CountAnswers(t) \/ CountFails(t) \/ Post(t) \/ Ack(t) \/ WriteFails(t)

Progress == \/ \E t \in Tasks : TaskStep(t)
            \/ PoolStep \/ ExitOk \/ ExitErr

SeederNext == \/ Progress
              \/ \E r \in wire : Apply(r) \/ Lose(r)
              \/ Crash \/ Rerun

\* The event loop keeps running callbacks, and every awaited request ends.
SeederSpec == Init /\ [][SeederNext]_vars /\ WF_vars(Progress)

-----------------------------------------------------------------------------
\* Rows planned for the segments before segment k.
Before(p, k) == (IF k > 1 THEN p[1] ELSE 0) + (IF k > 2 THEN p[2] ELSE 0)
                                            + (IF k > 3 THEN p[3] ELSE 0)

\* Rows of the running plan that were acknowledged.
Acked(t) == job[t].segInserted + Before(job[t].plan, job[t].seg)

Requests == [tenant : Tasks, run : 1..MaxRuns, seg : Segments, from : Nat,
             size : Nat \ {0}, try : 0..Retries - 1]

Jobs == [step : {"count", "send", "await", "return", "throw"},
         attempt : 0..CountAttempts - 1, existing : Nat, plan : [Segments -> Nat],
         seg : Segments, segInserted : Nat, tries : 0..Retries - 1, landed : BOOLEAN]

SeederTypeOK ==
    /\ PoolTypeOK
    /\ job \in [Tasks -> Jobs]
    /\ rows \in [Tasks -> [Segments -> Nat]]
    /\ wire \subseteq Requests
    /\ proc \in {"up", "exit0", "exit1", "killed"}
    /\ runs \in 1..MaxRuns
    /\ clean \in [Tasks -> BOOLEAN]

\* No under-seeding: the function returns for a tenant, its .then has run, or the
\* process has exited 0, only with EffectiveTotal rows in the table, through retries,
\* lost answers, crashes and reruns (spans.ts:153-185, lp.ts:113).
SeededMeansFull ==
    /\ \A t \in Tasks : task[t] \in {"fulfilled", "done"} => Size(t) >= EffectiveTotal
    /\ proc = "exit0" => \A t \in Tasks : Size(t) >= EffectiveTotal

\* What a task believes it has inserted is never more than what is stored: the count
\* it started from plus the batches acknowledged since (spans.ts:146,181).
AckedIsStored ==
    \A t \in Tasks : Running(t) /\ job[t].step # "count" => job[t].existing + Acked(t) <= Size(t)

\* A task that writes has a plan that fills the table, is inside a segment, and has
\* stored what was acknowledged and, if the server has it, what it waits for.
Planned(t) ==
    /\ job[t].existing + Before(job[t].plan, 4) = EffectiveTotal
    /\ job[t].segInserted < job[t].plan[job[t].seg]
    /\ job[t].existing + Acked(t)
          + (IF job[t].step = "await" /\ job[t].landed THEN Request(t).size ELSE 0) <= Size(t)

JobInv(t) ==
    /\ proc # "up" \/ task[t] = "waiting" => job[t].step = "count"
    /\ job[t].step = "count" => job[t].seg = 1 /\ job[t].segInserted = 0
    /\ Running(t) /\ job[t].step \in {"send", "await"} => Planned(t)
    /\ Running(t) /\ job[t].step = "return" => Size(t) >= EffectiveTotal

\* The inductive invariant behind SeededMeansFull: the pool's, and that no task
\* believes more than the table holds (spans.ts:146-185, lp.ts:106-125).
SeederInv == /\ PoolInv /\ SeederTypeOK
             /\ \A t \in Tasks : JobInv(t)
             /\ AckedIsStored /\ SeededMeansFull

\* No over-seeding by itself: a table outgrows its target only when a count was given
\* up on a table that had rows, or a request was given up (by an error or by the end of
\* the process) that the server had stored or could still store (spans.ts:125-128,
\* lp.ts:116-124).
CleanIsExact == \A t \in Tasks : clean[t] => Size(t) <= EffectiveTotal

\* Why CleanIsExact holds: while a tenant is clean, nothing of it is in transit but the
\* request its task waits for, and the task has counted exactly the rows that are
\* stored, but for those of that request (spans.ts:146-181, lp.ts:106-125).
ExactTask(t) ==
    /\ Size(t) <= EffectiveTotal
    /\ \A r \in wire : r.tenant = t => At(t, "await") /\ ~job[t].landed /\ r = Request(t)
    /\ Running(t) /\ job[t].step \in {"send", "await"} =>
          job[t].existing + Acked(t)
             + (IF job[t].step = "await" /\ job[t].landed THEN Request(t).size ELSE 0) = Size(t)

ExactInv == \A t \in Tasks : clean[t] => ExactTask(t)

\* A run comes to an end: the pool resolves or rejects and the process exits.
RunEnds == (proc = "up") ~> (proc # "up")

\* The seeder keeps the promise its exit code makes.
Contract == INSTANCE SeedContract WITH
    Tenants <- Tasks, Target <- EffectiveTotal,
    size <- [t \in Tasks |-> Size(t)],
    report <- CASE proc = "up" -> "none" [] proc = "exit0" -> "ok" [] OTHER -> "failed"

KeepsContract == Contract!Spec
=============================================================================
