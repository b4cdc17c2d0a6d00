----------------------------- MODULE Seeder_proof -----------------------------
(***************************************************************************)
(* Proofs about DrainPool and Seeder.  PoolInv is inductive for every      *)
(* number of tenants and every concurrency; its heart is Lemma DrainCounts:*)
(* one drain() takes exactly as many slots as it starts tasks.  SeederInv  *)
(* is inductive for every table size, batch size and retry limit besides,  *)
(* so a run never reports a tenant it has not filled; the worker           *)
(* implements SeedContract; and a table outgrows its target only where a   *)
(* request or a count was given up.                                        *)
(***************************************************************************)
EXTENDS Seeder, Integers, FiniteSetTheorems, TLAPS

USE PoolAssumption, SharesAssumption, SeederAssumption

-----------------------------------------------------------------------------
\* The pool.

Holding(f) == {t \in Tasks : f[t] \in {"running", "fulfilled", "failed"}}

\* Every set of tasks is finite, and has at most NTasks members.
LEMMA TaskSets == ASSUME NEW S \in SUBSET Tasks
                  PROVE  IsFiniteSet(S) /\ Cardinality(S) \in 0..NTasks
<1>1. IsFiniteSet(Tasks) /\ Cardinality(Tasks) = NTasks
  BY FS_Interval DEF Tasks
<1>2. IsFiniteSet(S) /\ Cardinality(S) <= NTasks
  BY <1>1, FS_Subset
<1>3. Cardinality(S) \in Nat
  BY <1>2, FS_CardinalityType
<1> QED BY <1>2, <1>3

\* Room(f) is a number of free slots and of waiting tasks, and the largest such.
LEMMA RoomFits == ASSUME NEW f \in 0..Concurrency, next \in 0..NTasks
                  PROVE  /\ Room(f) \in Nat
                         /\ f + Room(f) \in 0..Concurrency
                         /\ next + Room(f) \in 0..NTasks
                         /\ f + Room(f) = Concurrency \/ next + Room(f) = NTasks
BY DEF Room, Lower

\* drain() over tasks in which f slots are held: it keeps the slot count and the order.
LEMMA DrainCounts ==
    ASSUME NEW f \in 0..Concurrency, NEW tasks \in [Tasks -> TaskStates],
           next \in 0..NTasks,
           f = Cardinality(Holding(tasks)),
           \A t \in Tasks : (t > next) <=> (tasks[t] = "waiting"),
           Drain(f, tasks)
    PROVE  /\ task' \in [Tasks -> TaskStates]
           /\ next' \in 0..NTasks /\ inFlight' \in 0..Concurrency
           /\ StartedInOrder'
           /\ inFlight' = Cardinality(Holding(task'))
           /\ next' = NTasks \/ inFlight' = Concurrency
           /\ \A t \in Tasks : task'[t] = tasks[t]
                                 \/ (tasks[t] = "waiting" /\ task'[t] = "running")
<1>1. /\ Room(f) \in Nat
      /\ f + Room(f) \in 0..Concurrency
      /\ next + Room(f) \in 0..NTasks
      /\ f + Room(f) = Concurrency \/ next + Room(f) = NTasks
  BY RoomFits
<1>2. /\ next' = next + Room(f) /\ inFlight' = f + Room(f)
      /\ task' = [t \in Tasks |-> IF t \in Started(f) THEN "running" ELSE tasks[t]]
  BY DEF Drain
<1>3. \A t \in Tasks : t \in Started(f) <=> (next < t /\ t <= next')
  BY <1>1, <1>2 DEF Started, Tasks
<1>4. Started(f) \in SUBSET Tasks
  BY <1>1 DEF Started, Tasks
<1>5. \A t \in Tasks : t \in Started(f) => tasks[t] = "waiting"
  BY <1>3 DEF Tasks
<1>6. Holding(task') = Holding(tasks) \cup Started(f)
  BY <1>2, <1>4, <1>5 DEF Holding
<1>7. Holding(tasks) \cap Started(f) = {}
  BY <1>5 DEF Holding
<1>8. IsFiniteSet(Holding(tasks)) /\ IsFiniteSet(Started(f))
  BY TaskSets, <1>4 DEF Holding
<1>9. Cardinality(Started(f)) = Room(f)
  <2>1. next + 1 \in Int /\ next + Room(f) \in Int
    BY <1>1
  <2>2. Cardinality(next + 1 .. next + Room(f)) =
           IF next + 1 > next + Room(f) THEN 0 ELSE (next + Room(f)) - (next + 1) + 1
    BY ONLY <2>1, FS_Interval
  <2> QED BY <1>1, <2>2 DEF Started
<1>10. Cardinality(Holding(task')) = f + Room(f)
  <2>1. Cardinality(Holding(tasks) \cup Started(f))
           = Cardinality(Holding(tasks)) + Cardinality(Started(f)) - 0
    BY <1>7, <1>8, FS_Union, FS_EmptySet
  <2> QED BY <1>1, <1>6, <1>9, <2>1
<1>11. \A t \in Tasks : task'[t] = tasks[t]
                           \/ (tasks[t] = "waiting" /\ task'[t] = "running")
  BY <1>2, <1>5
<1>12. task' \in [Tasks -> TaskStates]
  BY <1>2 DEF TaskStates
<1>13. StartedInOrder'
  BY <1>1, <1>2, <1>3 DEF StartedInOrder, Tasks
<1> QED BY <1>1, <1>2, <1>10, <1>11, <1>12, <1>13

LEMMA LiveIsHolding == Live = Holding(task)
BY DEF Live, Holding, Settled

\* The initial state satisfies the invariant.
LEMMA PoolInitInv == PoolInit => PoolInv
<1> SUFFICES ASSUME PoolInit PROVE PoolInv
  OBVIOUS
<1>1. Live = {} /\ {t \in Tasks : task[t] \in {"fulfilled", "done"}} = {}
  BY DEF PoolInit, Live, Settled
<1>2. SlotsAreCounted /\ CompletedIsCounted
  BY <1>1, FS_EmptySet DEF PoolInit, SlotsAreCounted, CompletedIsCounted
<1>3. PoolTypeOK /\ StartedInOrder
  BY DEF PoolInit, PoolTypeOK, StartedInOrder, TaskStates, Tasks
<1>4. FailureRejects /\ NothingBegun /\ NoIdleSlot /\ ResolvedMeansAllDone
  BY DEF PoolInit, FailureRejects, NothingBegun, NoIdleSlot, ResolvedMeansAllDone
<1> QED BY <1>2, <1>3, <1>4 DEF PoolInv

\* The executor of the promise.
LEMMA BeginInv == PoolInv /\ Begin => PoolInv'
<1> SUFFICES ASSUME PoolInv, Begin PROVE PoolInv'
  OBVIOUS
<1> USE DEF PoolInv
<1>1. /\ promise = "new" /\ next = 0 /\ inFlight = 0
      /\ Drain(0, task) /\ completed' = completed
      /\ promise' = IF NTasks = 0 THEN "resolved" ELSE "pending"
  BY DEF Begin, NothingBegun
<1>2. \A t \in Tasks : task[t] = "waiting"
  BY <1>1 DEF StartedInOrder, Tasks
<1>3. /\ task \in [Tasks -> TaskStates] /\ 0 \in 0..Concurrency
      /\ 0 = Cardinality(Holding(task))
      /\ \A t \in Tasks : (t > next) <=> (task[t] = "waiting")
  BY <1>1, LiveIsHolding DEF PoolTypeOK, SlotsAreCounted, StartedInOrder
<1>4. /\ task' \in [Tasks -> TaskStates]
      /\ next' \in 0..NTasks /\ inFlight' \in 0..Concurrency
      /\ StartedInOrder'
      /\ inFlight' = Cardinality(Holding(task'))
      /\ next' = NTasks \/ inFlight' = Concurrency
      /\ \A t \in Tasks : task'[t] = task[t]
                            \/ (task[t] = "waiting" /\ task'[t] = "running")
  BY <1>1, <1>3, DrainCounts
<1>5. PoolTypeOK'
  BY <1>1, <1>4 DEF PoolTypeOK
<1>6. SlotsAreCounted'
  BY <1>4, LiveIsHolding DEF SlotsAreCounted, Live, Holding, Settled
<1>7. CompletedIsCounted'
  <2>1. {t \in Tasks : task'[t] \in {"fulfilled", "done"}}
           = {t \in Tasks : task[t] \in {"fulfilled", "done"}}
    BY <1>2, <1>4
  <2> QED BY <1>1, <2>1 DEF CompletedIsCounted
<1>8. FailureRejects' /\ NothingBegun' /\ NoIdleSlot'
  BY <1>1, <1>2, <1>4 DEF FailureRejects, NothingBegun, NoIdleSlot
<1>9. ResolvedMeansAllDone'
  <2>1. CASE NTasks = 0
    <3>1. Tasks = {} /\ completed = 0
      BY <2>1 DEF PoolTypeOK, Tasks
    <3> QED BY <1>1, <2>1, <3>1 DEF ResolvedMeansAllDone
  <2>2. CASE NTasks # 0
    BY <1>1, <2>2 DEF ResolvedMeansAllDone
  <2> QED BY <2>1, <2>2
<1> QED BY <1>4, <1>5, <1>6, <1>7, <1>8, <1>9

\* .then: the task keeps its slot, and is counted as completed.
LEMMA ThenInv == ASSUME NEW t \in Tasks, PoolInv, Then(t) PROVE PoolInv'
<1> USE DEF PoolInv
<1>1. /\ task[t] = "running"
      /\ task' = [task EXCEPT ![t] = "fulfilled"]
      /\ completed' = completed + 1
      /\ next' = next /\ inFlight' = inFlight /\ promise' = promise
  BY DEF Then
<1>2. task \in [Tasks -> TaskStates] /\ task' \in [Tasks -> TaskStates]
  BY <1>1 DEF PoolTypeOK, TaskStates
<1>3. \A u \in Tasks : task'[u] = IF u = t THEN "fulfilled" ELSE task[u]
  BY <1>1, <1>2
<1>4. SlotsAreCounted'
  <2>1. Live' = Live
    BY <1>1, <1>3 DEF Live, Settled
  <2> QED BY <1>1, <2>1 DEF SlotsAreCounted
<1>5. CompletedIsCounted' /\ completed' \in 0..NTasks
  <2> DEFINE C == {u \in Tasks : task[u] \in {"fulfilled", "done"}}
  <2>1. {u \in Tasks : task'[u] \in {"fulfilled", "done"}} = C \cup {t}
    BY <1>3
  <2>2. t \notin C
    BY <1>1
  <2>3. IsFiniteSet(C) /\ Cardinality(C) = completed
    BY TaskSets DEF CompletedIsCounted
  <2>4. Cardinality(C \cup {t}) = completed + 1
    BY <2>2, <2>3, FS_AddElement
  <2>5. Cardinality(C \cup {t}) \in 0..NTasks
    <3>1. C \cup {t} \in SUBSET Tasks
      OBVIOUS
    <3> QED BY <3>1, TaskSets
  <2> QED BY <1>1, <2>1, <2>4, <2>5 DEF CompletedIsCounted
<1>6. PoolTypeOK'
  BY <1>1, <1>2, <1>5 DEF PoolTypeOK
<1>7. StartedInOrder' /\ NothingBegun' /\ NoIdleSlot'
  BY <1>1, <1>3 DEF StartedInOrder, NothingBegun, NoIdleSlot
<1>8. FailureRejects' /\ ResolvedMeansAllDone'
  BY <1>1, <1>3 DEF FailureRejects, ResolvedMeansAllDone
<1> QED BY <1>4, <1>5, <1>6, <1>7, <1>8

\* .catch: the task keeps its slot, and the promise is rejected unless it was settled.
LEMMA CatchInv == ASSUME NEW t \in Tasks, PoolInv, Catch(t) PROVE PoolInv'
<1> USE DEF PoolInv
<1>1. /\ task[t] = "running"
      /\ task' = [task EXCEPT ![t] = "failed"]
      /\ promise' = IF promise = "pending" THEN "rejected" ELSE promise
      /\ next' = next /\ inFlight' = inFlight /\ completed' = completed
  BY DEF Catch
<1>2. task \in [Tasks -> TaskStates] /\ task' \in [Tasks -> TaskStates]
  BY <1>1 DEF PoolTypeOK, TaskStates
<1>3. \A u \in Tasks : task'[u] = IF u = t THEN "failed" ELSE task[u]
  BY <1>1, <1>2
<1>4. promise \in {"pending", "rejected"}
  <2>1. promise # "resolved"
    BY <1>1 DEF ResolvedMeansAllDone
  <2>2. promise # "new"
    <3>1. t > 0
      BY DEF Tasks
    <3> QED BY <1>1, <3>1 DEF NothingBegun, StartedInOrder
  <2> QED BY <2>1, <2>2 DEF PoolTypeOK
<1>5. SlotsAreCounted'
  <2>1. Live' = Live
    BY <1>1, <1>3 DEF Live, Settled
  <2> QED BY <1>1, <2>1 DEF SlotsAreCounted
<1>6. CompletedIsCounted'
  <2>1. {u \in Tasks : task'[u] \in {"fulfilled", "done"}}
           = {u \in Tasks : task[u] \in {"fulfilled", "done"}}
    BY <1>1, <1>3
  <2> QED BY <1>1, <2>1 DEF CompletedIsCounted
<1>7. PoolTypeOK'
  BY <1>1, <1>2, <1>4 DEF PoolTypeOK
<1>8. StartedInOrder' /\ NothingBegun' /\ NoIdleSlot'
  BY <1>1, <1>3, <1>4 DEF StartedInOrder, NothingBegun, NoIdleSlot
<1>9. FailureRejects' /\ ResolvedMeansAllDone'
  BY <1>1, <1>4 DEF FailureRejects, ResolvedMeansAllDone
<1> QED BY <1>5, <1>6, <1>7, <1>8, <1>9

\* .finally: the slot is given back; it resolves only after the last task, and then no
\* task can have been lost, because a lost one would have rejected the promise.
LEMMA FinallyInv == ASSUME NEW t \in Tasks, PoolInv, Finally(t) PROVE PoolInv'
<1> USE DEF PoolInv
<1> DEFINE after == [task EXCEPT ![t] = IF task[t] = "fulfilled" THEN "done" ELSE "lost"]
           f     == inFlight - 1
<1>1. task[t] \in {"fulfilled", "failed"} /\ completed' = completed
  BY DEF Finally, Settled
<1>2. task \in [Tasks -> TaskStates] /\ after \in [Tasks -> TaskStates]
  BY DEF PoolTypeOK, TaskStates
<1>3. \A u \in Tasks : after[u] = IF u # t THEN task[u]
                                  ELSE IF task[t] = "fulfilled" THEN "done" ELSE "lost"
  BY <1>2
<1>4. /\ IsFiniteSet(Holding(task)) /\ Cardinality(Holding(task)) = inFlight
      /\ t \in Holding(task)
  BY <1>1, LiveIsHolding, TaskSets DEF SlotsAreCounted, Holding
<1>5. Holding(after) = Holding(task) \ {t}
  BY <1>1, <1>3 DEF Holding
<1>6. f = Cardinality(Holding(after))
  BY <1>4, <1>5, FS_RemoveElement
<1>7. f \in 0..Concurrency
  <2>1. Cardinality(Holding(after)) \in 0..NTasks
    BY TaskSets DEF Holding
  <2> QED BY <1>6, <2>1 DEF PoolTypeOK
<1>8. \A u \in Tasks : (u > next) <=> (after[u] = "waiting")
  BY <1>1, <1>3 DEF StartedInOrder
<1>9. \A u \in Tasks : after[u] \in {"fulfilled", "done"}
                          <=> task[u] \in {"fulfilled", "done"}
  BY <1>1, <1>3
<1>10. promise # "new"
  <2>1. t > 0
    BY DEF Tasks
  <2> QED BY <1>1, <2>1 DEF NothingBegun, StartedInOrder
<1>11. CASE next = NTasks /\ f = 0
  <2>1. /\ promise' = IF promise = "pending" THEN "resolved" ELSE promise
        /\ task' = after /\ inFlight' = f /\ next' = next
    BY <1>11 DEF Finally
  <2>2. Holding(after) = {}
    <3>1. IsFiniteSet(Holding(after))
      BY TaskSets DEF Holding
    <3> QED BY <1>6, <1>11, <3>1, FS_EmptySet
  <2>3. \A u \in Tasks : after[u] \in {"done", "lost"}
    <3> SUFFICES ASSUME NEW u \in Tasks PROVE after[u] \in {"done", "lost"}
      OBVIOUS
    <3>1. after[u] # "waiting"
      BY <1>8, <1>11 DEF Tasks
    <3>2. after[u] \notin {"running", "fulfilled", "failed"}
      BY <2>2 DEF Holding
    <3> QED BY <1>2, <3>1, <3>2 DEF TaskStates
  <2>4. FailureRejects'
    BY <1>1, <1>3, <2>1, <2>3 DEF FailureRejects
  <2>5. ResolvedMeansAllDone'
    <3> SUFFICES ASSUME promise' = "resolved"
                 PROVE  completed' = NTasks /\ \A u \in Tasks : task'[u] = "done"
      BY DEF ResolvedMeansAllDone
    <3>1. \A u \in Tasks : task'[u] = "done"
      BY <2>1, <2>3, <2>4 DEF FailureRejects
    <3>2. {u \in Tasks : task[u] \in {"fulfilled", "done"}} = 1..NTasks
      BY <1>9, <2>1, <3>1 DEF Tasks
    <3>3. Cardinality(1..NTasks) = NTasks
      <4>1. 1 \in Int /\ NTasks \in Int
        OBVIOUS
      <4>2. Cardinality(1..NTasks) = IF 1 > NTasks THEN 0 ELSE NTasks - 1 + 1
        BY ONLY <4>1, FS_Interval
      <4> QED BY <4>2
    <3> QED BY <1>1, <3>1, <3>2, <3>3 DEF CompletedIsCounted
  <2>6. SlotsAreCounted' /\ CompletedIsCounted'
    <3>1. {u \in Tasks : task'[u] \in {"fulfilled", "done"}}
             = {u \in Tasks : task[u] \in {"fulfilled", "done"}}
      BY <1>9, <2>1
    <3>2. Live' = Holding(after)
      BY <2>1 DEF Live, Holding, Settled
    <3> QED BY <1>1, <1>6, <2>1, <3>1, <3>2 DEF SlotsAreCounted, CompletedIsCounted
  <2>7. PoolTypeOK'
    BY <1>1, <1>2, <1>7, <2>1 DEF PoolTypeOK
  <2>8. StartedInOrder' /\ NothingBegun' /\ NoIdleSlot'
    BY <1>8, <1>10, <1>11, <2>1 DEF StartedInOrder, NothingBegun, NoIdleSlot
  <2> QED BY <2>4, <2>5, <2>6, <2>7, <2>8
<1>12. CASE ~(next = NTasks /\ f = 0)
  <2>1. Drain(f, after) /\ promise' = promise
    BY <1>12 DEF Finally
  <2>2. /\ task' \in [Tasks -> TaskStates]
        /\ next' \in 0..NTasks /\ inFlight' \in 0..Concurrency
        /\ StartedInOrder'
        /\ inFlight' = Cardinality(Holding(task'))
        /\ next' = NTasks \/ inFlight' = Concurrency
        /\ \A u \in Tasks : task'[u] = after[u]
                              \/ (after[u] = "waiting" /\ task'[u] = "running")
    <3>1. next \in 0..NTasks
      BY DEF PoolTypeOK
    <3> HIDE DEF after, f, PoolInv
    <3> QED BY <1>2, <1>6, <1>7, <1>8, <2>1, <3>1, DrainCounts
  <2>3. promise # "resolved"
    BY <1>1 DEF ResolvedMeansAllDone
  <2>4. SlotsAreCounted'
    BY <2>2 DEF SlotsAreCounted, Live, Holding, Settled
  <2>5. CompletedIsCounted'
    <3>1. {u \in Tasks : task'[u] \in {"fulfilled", "done"}}
             = {u \in Tasks : task[u] \in {"fulfilled", "done"}}
      BY <1>9, <2>2
    <3> QED BY <1>1, <3>1 DEF CompletedIsCounted
  <2>6. FailureRejects'
    <3>1. \A u \in Tasks : task'[u] \in {"failed", "lost"} => task[u] \in {"failed", "lost"}
      BY <1>1, <1>3, <2>2
    <3> QED BY <2>1, <3>1 DEF FailureRejects
  <2>7. PoolTypeOK'
    BY <1>1, <2>1, <2>2 DEF PoolTypeOK
  <2>8. NothingBegun' /\ NoIdleSlot' /\ ResolvedMeansAllDone'
    BY <1>10, <2>1, <2>2, <2>3 DEF NothingBegun, NoIdleSlot, ResolvedMeansAllDone
  <2> QED BY <2>2, <2>4, <2>5, <2>6, <2>7, <2>8
<1> QED BY <1>11, <1>12

\* One step of the pool, or a stutter.
LEMMA PoolNextInv == PoolInv /\ [PoolNext]_poolVars => PoolInv'
<1> SUFFICES ASSUME PoolInv, [PoolNext]_poolVars PROVE PoolInv'
  OBVIOUS
<1>1. CASE Begin
  BY <1>1, BeginInv
<1>2. CASE \E t \in Tasks : Then(t) \/ Catch(t) \/ Finally(t)
  BY <1>2, ThenInv, CatchInv, FinallyInv
<1>3. CASE UNCHANGED poolVars
  <2> USE <1>3 DEF poolVars
  <2>1. Live' = Live /\ PoolTypeOK'
    BY DEF PoolInv, PoolTypeOK, Live
  <2>2. SlotsAreCounted' /\ StartedInOrder' /\ CompletedIsCounted'
    BY <2>1 DEF PoolInv, SlotsAreCounted, StartedInOrder, CompletedIsCounted
  <2>3. FailureRejects' /\ NothingBegun' /\ NoIdleSlot' /\ ResolvedMeansAllDone'
    BY DEF PoolInv, FailureRejects, NothingBegun, NoIdleSlot, ResolvedMeansAllDone
  <2> QED BY <2>1, <2>2, <2>3 DEF PoolInv
<1> QED BY <1>1, <1>2, <1>3 DEF PoolNext

\* Every reachable state of the pool satisfies PoolInv, whatever the number of tenants
\* and the concurrency (spans.ts:226-248).
THEOREM PoolInvariant == PoolSpec => []PoolInv
<1>1. PoolInit => PoolInv
  BY PoolInitInv
<1>2. PoolInv /\ [PoolNext]_poolVars => PoolInv'
  BY PoolNextInv
<1> QED BY <1>1, <1>2, PTL DEF PoolSpec

\* The pool resolves only when every tenant was seeded, so the worker exits 0 only then.
THEOREM PoolResolvesWhenAllDone == PoolSpec => []ResolvedMeansAllDone
<1>1. PoolInv => ResolvedMeansAllDone
  BY DEF PoolInv
<1> QED BY <1>1, PoolInvariant, PTL

\* inFlight is the number of tenants in progress: at most Concurrency at any time.
THEOREM PoolSlotsCounted == PoolSpec => [](SlotsAreCounted /\ PoolTypeOK)
<1>1. PoolInv => SlotsAreCounted /\ PoolTypeOK
  BY DEF PoolInv
<1> QED BY <1>1, PoolInvariant, PTL

-----------------------------------------------------------------------------
\* The tasks and their tables.

\* What JobInv and AckedIsStored say of a running task's record j when `size` rows of
\* its tenant are stored.
GoodJob(j, size) ==
    /\ j.step \in {"send", "await"} =>
          /\ j.existing + Before(j.plan, 4) = EffectiveTotal
          /\ j.segInserted < j.plan[j.seg]
          /\ j.existing + j.segInserted + Before(j.plan, j.seg)
                + (IF j.step = "await" /\ j.landed
                   THEN Lower(BatchSize, j.plan[j.seg] - j.segInserted) ELSE 0) <= size
    /\ j.step = "return" => size >= EffectiveTotal
    /\ j.step # "count" => j.existing + j.segInserted + Before(j.plan, j.seg) <= size

\* All that SeederInv says of one task, its job j and its table.
GoodTask(j, size, state, up) ==
    /\ ~up \/ state = "waiting" => j.step = "count"
    /\ j.step = "count" => j.seg = 1 /\ j.segInserted = 0
    /\ up /\ state = "running" => GoodJob(j, size)
    /\ state \in {"fulfilled", "done"} => size >= EffectiveTotal

Good(t) == GoodTask(job[t], Size(t), task[t], proc = "up")

\* SeederInv, one task at a time.
GoodInv == /\ PoolInv /\ SeederTypeOK
           /\ \A t \in Tasks : Good(t)
           /\ proc = "exit0" => \A t \in Tasks : Size(t) >= EffectiveTotal

LEMMA GoodIsInv == GoodInv <=> SeederInv
<1>1. \A t \in Tasks : Request(t).size = Lower(BatchSize, job[t].plan[job[t].seg] - job[t].segInserted)
  BY DEF Request
<1>2. ASSUME SeederTypeOK, NEW t \in Tasks
      PROVE  Good(t) <=> /\ JobInv(t)
                         /\ Running(t) /\ job[t].step # "count"
                               => job[t].existing + Acked(t) <= Size(t)
                         /\ task[t] \in {"fulfilled", "done"} => Size(t) >= EffectiveTotal
  <2>1. /\ job[t] \in Jobs
        /\ job[t].existing \in Nat /\ job[t].segInserted \in Nat
        /\ job[t].seg \in Segments /\ job[t].plan \in [Segments -> Nat]
    BY <1>2 DEF SeederTypeOK, Jobs
  <2>2. Before(job[t].plan, job[t].seg) \in Nat
    BY <2>1 DEF Before, Segments
  <2>3. job[t].existing + Acked(t)
          = job[t].existing + job[t].segInserted + Before(job[t].plan, job[t].seg)
    BY <2>1, <2>2 DEF Acked
  <2> QED BY <1>1, <2>3 DEF Good, GoodTask, GoodJob, JobInv, Planned, Running
<1> QED BY <1>2 DEF GoodInv, SeederInv, AckedIsStored, SeededMeansFull

-----------------------------------------------------------------------------
(* Facts about data: totals, plans, segments. *)

\* The target is a whole number.
LEMMA TotalIsNat == EffectiveTotal \in Nat
<1>1. TotalPct \in Nat
  BY DEF TotalPct
<1>2. TotalPerTenant * TotalPct \in Nat
  BY <1>1
<1>3. 2 * TotalPerTenant * TotalPct + 100 \in Nat
  BY <1>1, <1>2
<1> QED BY <1>3 DEF EffectiveTotal

\* A split plans exactly the rows it was asked for.
LEMMA SplitsSum == ASSUME NEW n \in Nat, NEW p \in Splits(n)
                   PROVE  p \in [Segments -> Nat] /\ Before(p, 1) = 0 /\ Before(p, 4) = n
<1>1. p \in [Segments -> 0..n] /\ p[3] + p[1] + p[2] = n
  BY DEF Splits
<1>2. p \in [Segments -> Nat] /\ p[1] \in Nat /\ p[2] \in Nat /\ p[3] \in Nat
  BY <1>1 DEF Segments
<1> QED BY <1>1, <1>2 DEF Before

LEMMA NextSegment == ASSUME NEW p \in [Segments -> Nat], NEW s \in Segments
                     PROVE  Before(p, s + 1) = Before(p, s) + p[s]
<1>1. p[1] \in Nat /\ p[2] \in Nat /\ p[3] \in Nat
  BY DEF Segments
<1>2. s = 1 \/ s = 2 \/ s = 3
  BY DEF Segments
<1> QED BY <1>1, <1>2 DEF Before

\* Segments that are skipped have no rows, so as many are planned before the segment
\* that is entered as before the one the search began at.
LEMMA SkipsNothing ==
    ASSUME NEW p \in [Segments -> Nat], NEW s \in 1..4, NEW k \in 1..4, FirstToWrite(p, s, k)
    PROVE  Before(p, k) = Before(p, s)
<1>1. p[1] \in Nat /\ p[2] \in Nat /\ p[3] \in Nat
  BY DEF Segments
<1>2. k >= s /\ \A i \in Segments : s <= i /\ i < k => p[i] = 0
  BY DEF FirstToWrite
<1>3. \A i \in 1..3 : s <= i /\ i < k => p[i] = 0
  BY <1>2 DEF Segments
<1>4. /\ s <= 1 /\ 1 < k => p[1] = 0
      /\ s <= 2 /\ 2 < k => p[2] = 0
      /\ s <= 3 /\ 3 < k => p[3] = 0
  BY <1>3
<1> QED BY <1>1, <1>2, <1>4 DEF Before

\* The record after Enter: in segment k, or returning when no segment is left.
Entered(j, k) == IF k = 4 THEN [j EXCEPT !.step = "return"]
                 ELSE [j EXCEPT !.step = "send", !.seg = k, !.segInserted = 0]

\* Entering the next segment with rows, or returning when there is none.
LEMMA EnterGood ==
    ASSUME NEW j \in Jobs, NEW s \in 1..4, NEW k \in 1..4, NEW size \in Nat,
           FirstToWrite(j.plan, s, k),
           j.existing + Before(j.plan, 4) = EffectiveTotal,
           j.existing + Before(j.plan, s) <= size,
           j.existing + j.segInserted + Before(j.plan, j.seg) <= size
    PROVE  /\ Entered(j, k) \in Jobs /\ Entered(j, k).step # "count"
           /\ GoodJob(Entered(j, k), size)
<1> DEFINE e == Entered(j, k)
<1>1. /\ j.plan \in [Segments -> Nat] /\ j.existing \in Nat /\ j.segInserted \in Nat
      /\ j.seg \in Segments
  BY DEF Jobs
<1>2. Before(j.plan, k) = Before(j.plan, s)
  BY <1>1, SkipsNothing
<1>3. CASE k = 4
  <2>1. e = [j EXCEPT !.step = "return"]
    BY <1>3 DEF Entered
  <2>2. /\ e \in Jobs /\ e.step = "return" /\ e.existing = j.existing
        /\ e.segInserted = j.segInserted /\ e.plan = j.plan /\ e.seg = j.seg
    BY <2>1 DEF Jobs
  <2>3. size >= EffectiveTotal
    BY <1>2, <1>3
  <2> QED BY <2>2, <2>3 DEF GoodJob
<1>4. CASE k # 4
  <2>1. e = [j EXCEPT !.step = "send", !.seg = k, !.segInserted = 0] /\ k \in Segments
    BY <1>4 DEF Entered, Segments
  <2>2. /\ e \in Jobs /\ e.step = "send" /\ e.existing = j.existing
        /\ e.segInserted = 0 /\ e.plan = j.plan /\ e.seg = k
    BY <1>4, <2>1 DEF Entered, Jobs
  <2>3. 0 < j.plan[k] /\ Before(j.plan, k) \in Nat
    BY <1>1, <2>1 DEF FirstToWrite, Before, Segments
  <2>4. e.existing + e.segInserted + Before(e.plan, e.seg) = j.existing + Before(j.plan, s)
    BY <1>1, <1>2, <2>2, <2>3
  <2>5. e.existing + e.segInserted + Before(e.plan, e.seg) + 0 <= size
    BY <1>1, <2>2, <2>3, <2>4
  <2> QED BY <2>2, <2>3, <2>4, <2>5 DEF GoodJob
<1> QED BY <1>3, <1>4

-----------------------------------------------------------------------------
(* The invariant is preserved, action by action. *)

\* Stored rows are counted in whole numbers.
LEMMA SizeIsNat == ASSUME SeederTypeOK, NEW t \in Tasks PROVE Size(t) \in Nat
BY DEF SeederTypeOK, Size, Segments

\* The pool's invariant does not look beyond the pool.
LEMMA PoolUntouched == PoolInv /\ UNCHANGED poolVars => PoolInv'
BY PoolNextInv

\* A step of one running task that gives it the record e.
LEMMA JobStep ==
    ASSUME GoodInv, NEW t \in Tasks, NEW e \in Jobs, Running(t),
           job' = [job EXCEPT ![t] = e],
           e.step = "count" => e.seg = 1 /\ e.segInserted = 0,
           GoodJob(e, Size(t)),
           wire' \subseteq Requests, clean' \in [Tasks -> BOOLEAN],
           UNCHANGED <<poolVars, rows, proc, runs>>
    PROVE  GoodInv'
<1>1. PoolInv'
  BY PoolUntouched DEF GoodInv
<1>2. /\ job \in [Tasks -> Jobs] /\ job' \in [Tasks -> Jobs]
      /\ \A u \in Tasks : job'[u] = IF u = t THEN e ELSE job[u]
  BY DEF GoodInv, SeederTypeOK
<1>3. SeederTypeOK'
  <2>1. PoolTypeOK'
    BY <1>1 DEF PoolInv
  <2> QED BY <1>2, <2>1 DEF GoodInv, SeederTypeOK, poolVars
<1>4. \A u \in Tasks : Size(u)' = Size(u) /\ task'[u] = task[u]
  BY DEF Size, poolVars
<1>5. \A u \in Tasks : Good(u)'
  <2> SUFFICES ASSUME NEW u \in Tasks PROVE Good(u)'
    OBVIOUS
  <2>1. Good(u)
    BY DEF GoodInv
  <2>2. Good(u)' <=> GoodTask(job'[u], Size(u), task[u], proc = "up")
    BY <1>4 DEF Good
  <2>3. CASE u = t
    <3>1. job'[u] = e /\ task[u] = "running" /\ proc = "up"
      BY <1>2, <2>3 DEF Running
    <3>2. GoodTask(e, Size(u), task[u], proc = "up")
      BY <2>3, <3>1 DEF GoodTask
    <3> QED BY <2>2, <3>1, <3>2
  <2>4. CASE u # t
    BY <1>2, <2>1, <2>2, <2>4 DEF Good
  <2> QED BY <2>3, <2>4
<1>6. proc' = "exit0" => \A u \in Tasks : Size(u)' >= EffectiveTotal
  BY <1>4 DEF GoodInv
<1> QED BY <1>1, <1>3, <1>5, <1>6 DEF GoodInv

\* With n rows counted, no more than are stored, the task returns or starts writing.
LEMMA ResumeInv ==
    ASSUME GoodInv, NEW t \in Tasks, At(t, "count"), NEW n \in Nat, n <= Size(t),
           Resume(t, n), clean' \in [Tasks -> BOOLEAN],
           UNCHANGED <<poolVars, storeVars, proc, runs>>
    PROVE  GoodInv'
<1>1. /\ Running(t) /\ job[t].step = "count" /\ job \in [Tasks -> Jobs] /\ job[t] \in Jobs
      /\ job[t].seg = 1 /\ job[t].segInserted = 0 /\ Size(t) \in Nat
  BY SizeIsNat DEF GoodInv, SeederTypeOK, At, Good, GoodTask
<1>2. wire' \subseteq Requests /\ UNCHANGED <<poolVars, rows, proc, runs>>
  BY DEF GoodInv, SeederTypeOK, storeVars
<1>3. EffectiveTotal \in Nat
  BY TotalIsNat
<1>4. CASE n >= EffectiveTotal
  <2> DEFINE e == [job[t] EXCEPT !.step = "return", !.existing = n]
  <2>1. job' = [job EXCEPT ![t] = e]
    BY <1>1, <1>4 DEF Resume
  <2>2. /\ e \in Jobs /\ e.step = "return" /\ e.existing = n
        /\ e.seg = 1 /\ e.segInserted = 0 /\ e.plan \in [Segments -> Nat]
    BY <1>1 DEF Jobs
  <2>3. GoodJob(e, Size(t))
    <3>1. Before(e.plan, e.seg) = 0
      BY <2>2 DEF Before
    <3> QED BY <1>1, <1>3, <1>4, <2>2, <3>1 DEF GoodJob
  <2> HIDE DEF e
  <2> QED BY <1>1, <1>2, <2>1, <2>2, <2>3, JobStep
<1>5. CASE n < EffectiveTotal
  <2>1. PICK p \in Splits(EffectiveTotal - n) :
               Enter(t, [job[t] EXCEPT !.existing = n, !.plan = p], 1)
    <3>1. ~(n >= EffectiveTotal)
      BY <1>3, <1>5
    <3> QED BY <3>1, Zenon DEF Resume
  <2> DEFINE j == [job[t] EXCEPT !.existing = n, !.plan = p]
  <2>2. EffectiveTotal - n \in Nat
    BY <1>3, <1>5
  <2>3. p \in [Segments -> Nat] /\ Before(p, 1) = 0 /\ Before(p, 4) = EffectiveTotal - n
    BY <2>2, SplitsSum
  <2>4. /\ j \in Jobs /\ j.existing = n /\ j.plan = p
        /\ j.seg = 1 /\ j.segInserted = 0
    BY <1>1, <2>3 DEF Jobs
  <2>5. PICK k \in 1..4 :
          /\ FirstToWrite(j.plan, 1, k)
          /\ job' = [job EXCEPT ![t] = Entered(j, k)]
    BY <2>1 DEF Enter, Entered
  <2> DEFINE e == Entered(j, k)
  <2> HIDE DEF j
  <2>6. /\ j.existing + Before(j.plan, 4) = EffectiveTotal
        /\ j.existing + Before(j.plan, 1) <= Size(t)
        /\ j.existing + j.segInserted + Before(j.plan, j.seg) <= Size(t)
    BY <1>1, <1>3, <2>3, <2>4
  <2>7. e \in Jobs /\ e.step # "count" /\ GoodJob(e, Size(t))
    BY <1>1, <2>4, <2>5, <2>6, EnterGood
  <2>8. job' = [job EXCEPT ![t] = e]
    BY <2>5
  <2> HIDE DEF e
  <2> QED BY <1>1, <1>2, <2>7, <2>8, JobStep
<1> QED BY <1>1, <1>3, <1>4, <1>5

LEMMA CountAnswersInv == ASSUME GoodInv, NEW t \in Tasks, CountAnswers(t) PROVE GoodInv'
<1>1. Size(t) \in Nat /\ Size(t) <= Size(t)
  BY SizeIsNat DEF GoodInv
<1>2. /\ At(t, "count") /\ Resume(t, Size(t))
      /\ UNCHANGED <<poolVars, storeVars, proc, runs>>
      /\ clean' \in [Tasks -> BOOLEAN]
  BY DEF CountAnswers, GoodInv, SeederTypeOK
<1> QED BY <1>1, <1>2, ResumeInv

LEMMA CountFailsInv == ASSUME GoodInv, NEW t \in Tasks, CountFails(t) PROVE GoodInv'
<1>1. /\ Running(t) /\ job[t].step = "count" /\ job \in [Tasks -> Jobs] /\ job[t] \in Jobs
      /\ job[t].seg = 1 /\ job[t].segInserted = 0 /\ Size(t) \in Nat
      /\ clean \in [Tasks -> BOOLEAN]
  BY SizeIsNat DEF CountFails, GoodInv, SeederTypeOK, At, Good, GoodTask
<1>2. wire' \subseteq Requests /\ UNCHANGED <<poolVars, rows, proc, runs>>
  BY DEF CountFails, GoodInv, SeederTypeOK, storeVars
<1>3. CASE job[t].attempt < CountAttempts - 1
  <2> DEFINE e == [job[t] EXCEPT !.attempt = job[t].attempt + 1]
  <2>1. job' = [job EXCEPT ![t] = e] /\ clean' = clean
    BY <1>1, <1>3 DEF CountFails
  <2>2. e \in Jobs /\ e.step = "count" /\ e.seg = 1 /\ e.segInserted = 0
    BY <1>1, <1>3 DEF Jobs
  <2>3. GoodJob(e, Size(t))
    BY <2>2 DEF GoodJob
  <2> HIDE DEF e
  <2> QED BY <1>1, <1>2, <2>1, <2>2, <2>3, JobStep
<1>4. CASE ~(job[t].attempt < CountAttempts - 1)
  <2>1. /\ At(t, "count") /\ Resume(t, 0)
        /\ clean' = [clean EXCEPT ![t] = clean[t] /\ Size(t) = 0]
        /\ UNCHANGED <<poolVars, storeVars, proc, runs>>
    BY <1>4 DEF CountFails
  <2>2. clean' \in [Tasks -> BOOLEAN]
    BY <1>1, <2>1
  <2>3. 0 \in Nat /\ 0 <= Size(t)
    BY <1>1
  <2> QED BY <2>1, <2>2, <2>3, ResumeInv
<1> QED BY <1>3, <1>4

\* What is known of a task at one of its awaits on a write.
LEMMA Writing ==
    ASSUME GoodInv, NEW t \in Tasks, At(t, "send") \/ At(t, "await")
    PROVE  /\ Running(t) /\ job \in [Tasks -> Jobs] /\ job[t] \in Jobs /\ Size(t) \in Nat
           /\ job[t].step \in {"send", "await"} /\ GoodJob(job[t], Size(t))
           /\ job[t].plan \in [Segments -> Nat] /\ job[t].existing \in Nat
           /\ job[t].segInserted \in Nat /\ job[t].seg \in Segments
           /\ job[t].plan[job[t].seg] \in Nat /\ Before(job[t].plan, job[t].seg) \in Nat
           /\ Request(t) \in Requests
           /\ Request(t).size = Lower(BatchSize, job[t].plan[job[t].seg] - job[t].segInserted)
           /\ Request(t).size \in Nat \ {0} /\ Request(t).seg = job[t].seg
           /\ Request(t).tenant = t
<1>1. /\ Running(t) /\ job[t].step \in {"send", "await"} /\ job \in [Tasks -> Jobs]
      /\ job[t] \in Jobs /\ Size(t) \in Nat /\ runs \in 1..MaxRuns
  BY SizeIsNat DEF At, GoodInv, SeederTypeOK
<1>2. GoodJob(job[t], Size(t))
  BY <1>1 DEF GoodInv, Good, GoodTask, Running
<1>3. /\ job[t].plan \in [Segments -> Nat] /\ job[t].existing \in Nat
      /\ job[t].segInserted \in Nat /\ job[t].seg \in Segments
      /\ job[t].tries \in 0..Retries - 1
  BY <1>1 DEF Jobs
<1>4. job[t].plan[job[t].seg] \in Nat /\ Before(job[t].plan, job[t].seg) \in Nat
  BY <1>3 DEF Before, Segments
<1>5. job[t].segInserted < job[t].plan[job[t].seg]
  BY <1>1, <1>2 DEF GoodJob
<1>6. /\ Request(t).size = Lower(BatchSize, job[t].plan[job[t].seg] - job[t].segInserted)
      /\ Request(t).seg = job[t].seg /\ Request(t).tenant = t
  BY DEF Request
<1>7. Request(t).size \in Nat \ {0}
  BY <1>3, <1>4, <1>5, <1>6 DEF Lower
<1>8. Request(t) \in Requests
  BY <1>1, <1>3, <1>6, <1>7 DEF Request, Requests
<1> QED BY <1>1, <1>2, <1>3, <1>4, <1>6, <1>7, <1>8

LEMMA PostInv == ASSUME GoodInv, NEW t \in Tasks, Post(t) PROVE GoodInv'
<1>1. At(t, "send") /\ job[t].step = "send"
  BY DEF Post, At
<1> DEFINE e == [job[t] EXCEPT !.step = "await", !.landed = FALSE]
<1>2. /\ job' = [job EXCEPT ![t] = e] /\ wire' = wire \cup {Request(t)}
      /\ UNCHANGED <<poolVars, rows, proc, runs, clean>>
  BY DEF Post
<1>3. /\ Running(t) /\ job[t] \in Jobs /\ GoodJob(job[t], Size(t))
      /\ Request(t) \in Requests
  BY <1>1, Writing
<1>4. /\ e \in Jobs /\ e.step = "await" /\ e.landed = FALSE /\ e.existing = job[t].existing
      /\ e.plan = job[t].plan /\ e.seg = job[t].seg /\ e.segInserted = job[t].segInserted
  BY <1>3 DEF Jobs
<1>5. GoodJob(e, Size(t))
  BY <1>1, <1>3, <1>4 DEF GoodJob
<1>6. wire' \subseteq Requests /\ clean' \in [Tasks -> BOOLEAN]
  BY <1>2, <1>3 DEF GoodInv, SeederTypeOK
<1> HIDE DEF e
<1> QED BY <1>2, <1>3, <1>4, <1>5, <1>6, JobStep

\* The records that Ack and WriteFails make.
LEMMA AckRecord ==
    ASSUME NEW j \in Jobs, NEW i \in Nat
    PROVE  LET e == [j EXCEPT !.segInserted = i, !.tries = 0, !.landed = FALSE]
           IN /\ e \in Jobs /\ e.segInserted = i /\ e.plan = j.plan
              /\ e.seg = j.seg /\ e.existing = j.existing
<1>1. 0 \in 0..Retries - 1
  OBVIOUS
<1> QED BY <1>1 DEF Jobs

LEMMA RetryRecord ==
    ASSUME NEW j \in Jobs, NEW n \in 0..Retries - 1
    PROVE  LET e == [j EXCEPT !.tries = n, !.step = "send", !.landed = FALSE]
           IN /\ e \in Jobs /\ e.step = "send" /\ e.existing = j.existing
              /\ e.plan = j.plan /\ e.seg = j.seg /\ e.segInserted = j.segInserted
BY DEF Jobs

\* The batch that was acknowledged is stored, so the task may count it as inserted.
LEMMA AckInv == ASSUME GoodInv, NEW t \in Tasks, Ack(t) PROVE GoodInv'
<1> DEFINE i == job[t].segInserted + Request(t).size
           j == [job[t] EXCEPT !.segInserted = i, !.tries = 0, !.landed = FALSE]
<1>1. /\ At(t, "await") /\ job[t].step = "await" /\ job[t].landed
      /\ IF j.segInserted < j.plan[j.seg]
         THEN job' = [job EXCEPT ![t] = [j EXCEPT !.step = "send"]]
         ELSE Enter(t, j, j.seg + 1)
      /\ UNCHANGED <<poolVars, storeVars, proc, runs, clean>>
  BY DEF Ack, At
<1>2. /\ Running(t) /\ job[t] \in Jobs /\ GoodJob(job[t], Size(t)) /\ Size(t) \in Nat
      /\ job[t].plan \in [Segments -> Nat] /\ job[t].existing \in Nat
      /\ job[t].segInserted \in Nat /\ job[t].seg \in Segments
      /\ job[t].plan[job[t].seg] \in Nat /\ Before(job[t].plan, job[t].seg) \in Nat
      /\ Request(t).size \in Nat \ {0}
      /\ Request(t).size = Lower(BatchSize, job[t].plan[job[t].seg] - job[t].segInserted)
  BY <1>1, Writing
<1>3. /\ wire' \subseteq Requests /\ clean' \in [Tasks -> BOOLEAN]
      /\ UNCHANGED <<poolVars, rows, proc, runs>>
  BY <1>1 DEF GoodInv, SeederTypeOK, storeVars
<1>4. /\ i \in Nat /\ i <= job[t].plan[job[t].seg]
      /\ job[t].existing + i + Before(job[t].plan, job[t].seg) <= Size(t)
      /\ job[t].existing + Before(job[t].plan, 4) = EffectiveTotal
  <2>1. /\ job[t].segInserted < job[t].plan[job[t].seg]
        /\ job[t].existing + job[t].segInserted + Before(job[t].plan, job[t].seg)
              + Request(t).size <= Size(t)
        /\ job[t].existing + Before(job[t].plan, 4) = EffectiveTotal
    BY <1>1, <1>2 DEF GoodJob
  <2>2. Request(t).size <= job[t].plan[job[t].seg] - job[t].segInserted
    BY <1>2 DEF Lower
  <2> QED BY <1>2, <2>1, <2>2
<1>5. /\ j \in Jobs /\ j.segInserted = i /\ j.plan = job[t].plan /\ j.seg = job[t].seg
      /\ j.existing = job[t].existing
  <2> HIDE DEF i
  <2> QED BY <1>2, <1>4, AckRecord
<1>6. CASE i < job[t].plan[job[t].seg]
  <2> DEFINE e == [j EXCEPT !.step = "send"]
  <2> HIDE DEF j, i
  <2>1. job' = [job EXCEPT ![t] = e]
    BY <1>1, <1>5, <1>6
  <2>2. /\ e \in Jobs /\ e.step = "send" /\ e.segInserted = i /\ e.plan = job[t].plan
        /\ e.seg = job[t].seg /\ e.existing = job[t].existing
    BY <1>5 DEF Jobs
  <2>3. GoodJob(e, Size(t))
    BY <1>2, <1>4, <1>6, <2>2 DEF GoodJob
  <2> HIDE DEF e
  <2> QED BY <1>2, <1>3, <2>1, <2>2, <2>3, JobStep
<1>7. CASE ~(i < job[t].plan[job[t].seg])
  <2> HIDE DEF j, i
  <2>1. Enter(t, j, job[t].seg + 1)
    BY <1>1, <1>5, <1>7
  <2>2. i = job[t].plan[job[t].seg] /\ job[t].seg + 1 \in 1..4
    BY <1>2, <1>4, <1>7 DEF Segments
  <2>3. Before(j.plan, job[t].seg + 1) = Before(j.plan, j.seg) + i
    BY <1>2, <1>5, <2>2, NextSegment
  <2>4. /\ j.existing + Before(j.plan, 4) = EffectiveTotal
        /\ j.existing + Before(j.plan, job[t].seg + 1) <= Size(t)
        /\ j.existing + j.segInserted + Before(j.plan, j.seg) <= Size(t)
    BY <1>2, <1>4, <1>5, <2>3
  <2>5. PICK k \in 1..4 : /\ FirstToWrite(j.plan, job[t].seg + 1, k)
                          /\ job' = [job EXCEPT ![t] = Entered(j, k)]
    BY <2>1, Zenon DEF Enter, Entered
  <2>6. /\ Entered(j, k) \in Jobs /\ Entered(j, k).step # "count"
        /\ GoodJob(Entered(j, k), Size(t))
    BY <1>2, <1>5, <2>2, <2>4, <2>5, EnterGood
  <2> QED BY <1>2, <1>3, <2>5, <2>6, JobStep
<1> QED BY <1>6, <1>7

LEMMA WriteFailsInv == ASSUME GoodInv, NEW t \in Tasks, WriteFails(t) PROVE GoodInv'
<1> DEFINE e == IF job[t].tries < Retries - 1
                THEN [job[t] EXCEPT !.tries = job[t].tries + 1, !.step = "send", !.landed = FALSE]
                ELSE [job[t] EXCEPT !.step = "throw"]
<1>1. /\ At(t, "await") /\ job[t].step = "await"
      /\ clean' = [clean EXCEPT ![t] = clean[t] /\ ~job[t].landed /\ Request(t) \notin wire]
      /\ UNCHANGED <<poolVars, storeVars, proc, runs>>
  BY DEF WriteFails, At
<1>2. /\ Running(t) /\ job[t] \in Jobs /\ GoodJob(job[t], Size(t)) /\ Size(t) \in Nat
      /\ job[t].existing \in Nat /\ job[t].segInserted \in Nat
      /\ job[t].plan[job[t].seg] \in Nat /\ Before(job[t].plan, job[t].seg) \in Nat
      /\ Request(t).size \in Nat
      /\ Request(t).size = Lower(BatchSize, job[t].plan[job[t].seg] - job[t].segInserted)
  BY <1>1, Writing
<1>3. /\ job \in [Tasks -> Jobs] /\ clean \in [Tasks -> BOOLEAN] /\ wire \subseteq Requests
  BY DEF GoodInv, SeederTypeOK
<1>4. job' = [job EXCEPT ![t] = e]
  BY <1>3 DEF WriteFails
<1>5. /\ e \in Jobs /\ e.step \in {"send", "throw"} /\ e.existing = job[t].existing
      /\ e.plan = job[t].plan /\ e.seg = job[t].seg /\ e.segInserted = job[t].segInserted
  <2>1. CASE job[t].tries < Retries - 1
    <3>1. job[t].tries + 1 \in 0..Retries - 1
      BY <1>2, <2>1 DEF Jobs
    <3>2. e = [job[t] EXCEPT !.tries = job[t].tries + 1, !.step = "send", !.landed = FALSE]
      BY <2>1
    <3> HIDE DEF e
    <3> QED BY <1>2, <3>1, <3>2, RetryRecord, Zenon
  <2>2. CASE ~(job[t].tries < Retries - 1)
    BY <1>2, <2>2 DEF Jobs
  <2> QED BY <2>1, <2>2
<1> HIDE DEF e
<1>6. GoodJob(e, Size(t))
  <2>1. /\ job[t].existing + Before(job[t].plan, 4) = EffectiveTotal
        /\ job[t].segInserted < job[t].plan[job[t].seg]
        /\ job[t].existing + job[t].segInserted + Before(job[t].plan, job[t].seg) <= Size(t)
    BY <1>1, <1>2 DEF GoodJob
  <2> QED BY <1>2, <1>5, <2>1 DEF GoodJob
<1>7. wire' \subseteq Requests /\ clean' \in [Tasks -> BOOLEAN] /\ rows' = rows
  BY <1>1, <1>3 DEF storeVars
<1> QED BY <1>1, <1>2, <1>4, <1>5, <1>6, <1>7, JobStep

\* A request lands: rows are only added, and a task that waits for it has as many more.
LEMMA ApplyInv == ASSUME GoodInv, NEW r \in wire, Apply(r) PROVE GoodInv'
<1> DEFINE u == r.tenant
           awaited == At(u, "await") /\ r = Request(u)
           e == [job[u] EXCEPT !.landed = TRUE]
<1>1. /\ wire' = wire \ {r}
      /\ rows' = [rows EXCEPT ![u][r.seg] = rows[u][r.seg] + r.size]
      /\ job' = IF awaited THEN [job EXCEPT ![u] = e] ELSE job
      /\ UNCHANGED <<poolVars, proc, runs, clean>>
  BY DEF Apply
<1>2. /\ job \in [Tasks -> Jobs] /\ rows \in [Tasks -> [Segments -> Nat]]
      /\ wire \subseteq Requests
  BY DEF GoodInv, SeederTypeOK
<1>3. r \in Requests /\ u \in Tasks /\ r.seg \in Segments /\ r.size \in Nat
  BY <1>2 DEF Requests
<1>4. /\ rows' \in [Tasks -> [Segments -> Nat]]
      /\ \A t \in Tasks : t # u => rows'[t] = rows[t]
      /\ \A s \in Segments : rows'[u][s] = rows[u][s] + (IF s = r.seg THEN r.size ELSE 0)
  BY <1>1, <1>2, <1>3
<1>5. /\ \A t \in Tasks : Size(t) \in Nat /\ Size(t)' \in Nat
      /\ \A t \in Tasks : t # u => Size(t)' = Size(t)
      /\ Size(u)' = Size(u) + r.size
  <2>1. \A t \in Tasks : /\ rows[t][1] \in Nat /\ rows[t][2] \in Nat /\ rows[t][3] \in Nat
                        /\ rows'[t][1] \in Nat /\ rows'[t][2] \in Nat /\ rows'[t][3] \in Nat
    BY <1>2, <1>4 DEF Segments
  <2>2. \A t \in Tasks : Size(t) \in Nat /\ Size(t)' \in Nat
    BY <2>1 DEF Size
  <2>3. \A t \in Tasks : t # u => Size(t)' = Size(t)
    BY <1>4 DEF Size
  <2>4. /\ rows'[u][1] = rows[u][1] + (IF 1 = r.seg THEN r.size ELSE 0)
        /\ rows'[u][2] = rows[u][2] + (IF 2 = r.seg THEN r.size ELSE 0)
        /\ rows'[u][3] = rows[u][3] + (IF 3 = r.seg THEN r.size ELSE 0)
    BY <1>4 DEF Segments
  <2>5. r.seg = 1 \/ r.seg = 2 \/ r.seg = 3
    BY <1>3 DEF Segments
  <2>6. Size(u)' = Size(u) + r.size
    <3> HIDE DEF u
    <3> QED BY <1>3, <2>1, <2>4, <2>5 DEF Size
  <2> QED BY <2>2, <2>3, <2>6
<1>6. /\ job' \in [Tasks -> Jobs]
      /\ \A t \in Tasks : t # u \/ ~awaited => job'[t] = job[t]
      /\ awaited => /\ job'[u].step = "await" /\ job[u].step = "await"
                    /\ job'[u].existing = job[u].existing
                    /\ job'[u].plan = job[u].plan /\ job'[u].seg = job[u].seg
                    /\ job'[u].segInserted = job[u].segInserted
  <2>1. job[u] \in Jobs
    BY <1>2, <1>3
  <2>2. /\ e \in Jobs /\ e.step = job[u].step /\ e.existing = job[u].existing
        /\ e.plan = job[u].plan /\ e.seg = job[u].seg /\ e.segInserted = job[u].segInserted
    <3> HIDE DEF u
    <3> QED BY <2>1 DEF Jobs
  <2>3. awaited => job[u].step = "await"
    BY DEF At
  <2> HIDE DEF e, awaited, u
  <2>4. CASE awaited
    <3>1. job' = [job EXCEPT ![u] = e]
      BY <1>1, <2>4
    <3> QED BY <1>2, <1>3, <2>2, <2>3, <2>4, <3>1
  <2>5. CASE ~awaited
    BY <1>1, <1>2, <2>5
  <2> QED BY <2>4, <2>5
<1>7. PoolInv'
  BY <1>1, PoolUntouched DEF GoodInv
<1>8. SeederTypeOK'
  <2>1. PoolTypeOK' /\ wire' \subseteq Requests
    BY <1>1, <1>2, <1>7 DEF PoolInv
  <2> QED BY <1>1, <1>4, <1>6, <2>1 DEF GoodInv, SeederTypeOK
<1>9. task' = task /\ proc' = proc
  BY <1>1 DEF poolVars
<1>10. EffectiveTotal \in Nat
  BY TotalIsNat
<1>11. \A t \in Tasks : Good(t)'
  <2> SUFFICES ASSUME NEW t \in Tasks PROVE Good(t)'
    OBVIOUS
  <2>1. Good(t) /\ job[t] \in Jobs
    BY <1>2 DEF GoodInv
  <2>2. Good(t)' <=> GoodTask(job'[t], Size(t)', task[t], proc = "up")
    BY <1>9 DEF Good
  <2>3. CASE t = u /\ awaited
    <3>1. At(t, "send") \/ At(t, "await")
      BY <2>3
    <3>2. /\ Running(t) /\ GoodJob(job[t], Size(t)) /\ job[t].existing \in Nat
          /\ job[t].segInserted \in Nat
          /\ job[t].plan[job[t].seg] \in Nat /\ Before(job[t].plan, job[t].seg) \in Nat
          /\ Request(t).size = Lower(BatchSize, job[t].plan[job[t].seg] - job[t].segInserted)
          /\ Request(t).size \in Nat \ {0}
      BY <3>1, Writing
    <3>3. /\ job'[t].step = "await" /\ job[t].step = "await"
          /\ job'[t].existing = job[t].existing
          /\ job'[t].plan = job[t].plan /\ job'[t].seg = job[t].seg
          /\ job'[t].segInserted = job[t].segInserted
      BY <1>6, <2>3
    <3>4. Size(t) \in Nat /\ Size(t)' = Size(t) + Request(t).size
      BY <1>5, <2>3
    <3>5. /\ job[t].existing + Before(job[t].plan, 4) = EffectiveTotal
          /\ job[t].segInserted < job[t].plan[job[t].seg]
          /\ job[t].existing + job[t].segInserted + Before(job[t].plan, job[t].seg) <= Size(t)
      BY <3>2, <3>3, <3>4 DEF GoodJob
    <3>6. GoodJob(job'[t], Size(t)')
      BY <3>2, <3>3, <3>4, <3>5 DEF GoodJob
    <3> QED BY <2>2, <3>2, <3>3, <3>6 DEF GoodTask, Running
  <2>4. CASE ~(t = u /\ awaited)
    <3>1. job'[t] = job[t]
      BY <1>6, <2>4
    <3>2. Size(t) \in Nat /\ Size(t)' \in Nat /\ Size(t)' >= Size(t)
      BY <1>3, <1>5
    <3>3. /\ job[t].existing \in Nat /\ job[t].segInserted \in Nat
          /\ job[t].plan[job[t].seg] \in Nat /\ Before(job[t].plan, job[t].seg) \in Nat
      BY <2>1 DEF Jobs, Before, Segments
    <3>4. GoodJob(job[t], Size(t)) => GoodJob(job[t], Size(t)')
      BY <1>10, <3>2, <3>3 DEF GoodJob, Lower
    <3> QED BY <1>10, <2>1, <2>2, <3>1, <3>2, <3>4 DEF Good, GoodTask
  <2> QED BY <2>3, <2>4
<1>12. proc' = "exit0" => \A t \in Tasks : Size(t)' >= EffectiveTotal
  <2> HIDE DEF u
  <2>1. \A t \in Tasks : Size(t)' >= Size(t)
    BY <1>3, <1>5
  <2> QED BY <1>5, <1>9, <1>10, <2>1 DEF GoodInv
<1> QED BY <1>7, <1>8, <1>11, <1>12 DEF GoodInv

\* A request that is lost changes nothing that the invariant is about.
LEMMA LoseInv == ASSUME GoodInv, NEW r \in wire, Lose(r) PROVE GoodInv'
<1>1. wire' = wire \ {r} /\ UNCHANGED <<poolVars, job, rows, proc, runs, clean>>
  BY DEF Lose
<1>2. PoolInv'
  BY <1>1, PoolUntouched DEF GoodInv
<1>3. SeederTypeOK'
  BY <1>1, <1>2 DEF PoolInv, GoodInv, SeederTypeOK
<1>4. \A t \in Tasks : Size(t)' = Size(t) /\ (Good(t)' <=> Good(t))
  BY <1>1 DEF Size, Good, poolVars
<1> QED BY <1>1, <1>2, <1>3, <1>4 DEF GoodInv

\* What a callback of the pool does to the tasks: one changes its state, and some that
\* were waiting are started.
TaskMoves(t) ==
    \/ task'[t] = task[t]
    \/ task[t] = "waiting" /\ task'[t] = "running"
    \/ task[t] = "running" /\ task'[t] = "fulfilled" /\ job[t].step = "return"
    \/ task[t] = "running" /\ task'[t] = "failed" /\ job[t].step = "throw"
    \/ task[t] = "fulfilled" /\ task'[t] = "done"
    \/ task[t] = "failed" /\ task'[t] = "lost"

LEMMA StartsWaiting ==
    ASSUME PoolInv, NEW f \in Int, NEW t \in Tasks, t \in Started(f)
    PROVE  task[t] = "waiting"
<1>1. next \in Nat /\ Room(f) \in Int
  BY DEF PoolInv, PoolTypeOK, Room, Lower
<1>2. t > next
  BY <1>1 DEF Started, Tasks
<1> QED BY <1>2 DEF PoolInv, StartedInOrder

LEMMA PoolMoves ==
    ASSUME PoolInv, PoolStep, NEW t \in Tasks
    PROVE  TaskMoves(t)
<1>1. task \in [Tasks -> TaskStates] /\ inFlight \in Int
  BY DEF PoolInv, PoolTypeOK
<1>2. CASE Begin
  <2>1. task' = [u \in Tasks |-> IF u \in Started(0) THEN "running" ELSE task[u]]
    BY <1>2 DEF Begin, Drain
  <2>2. t \in Started(0) => task[t] = "waiting"
    BY StartsWaiting
  <2> QED BY <2>1, <2>2 DEF TaskMoves
<1>3. ASSUME NEW u \in Tasks, job[u].step = "return", Then(u) PROVE TaskMoves(t)
  BY <1>1, <1>3 DEF Then, TaskMoves
<1>4. ASSUME NEW u \in Tasks, job[u].step = "throw", Catch(u) PROVE TaskMoves(t)
  BY <1>1, <1>4 DEF Catch, TaskMoves
<1>5. ASSUME NEW u \in Tasks, Finally(u) PROVE TaskMoves(t)
  <2> DEFINE after == [task EXCEPT ![u] = IF task[u] = "fulfilled" THEN "done" ELSE "lost"]
  <2>1. task[u] \in {"fulfilled", "failed"}
    BY <1>5 DEF Finally, Settled
  <2>2. after[t] = IF t # u THEN task[t] ELSE IF task[u] = "fulfilled" THEN "done" ELSE "lost"
    BY <1>1
  <2>3. \/ task' = after
        \/ task' = [v \in Tasks |-> IF v \in Started(inFlight - 1) THEN "running" ELSE after[v]]
    BY <1>5 DEF Finally, Drain
  <2>4. t \in Started(inFlight - 1) => task[t] = "waiting"
    BY <1>1, StartsWaiting
  <2> HIDE DEF after
  <2> QED BY <2>1, <2>2, <2>3, <2>4 DEF TaskMoves
<1> QED BY <1>2, <1>3, <1>4, <1>5 DEF PoolStep

\* .then runs for a task only when its function has returned, with its table full.
LEMMA PoolStepInv == ASSUME GoodInv, PoolStep PROVE GoodInv'
<1>1. proc = "up" /\ UNCHANGED <<job, storeVars, proc, runs, clean>>
  BY DEF PoolStep
<1>2. PoolInv'
  <2>1. PoolNext
    BY DEF PoolStep, PoolNext
  <2> QED BY <2>1, PoolNextInv DEF GoodInv
<1>3. SeederTypeOK'
  BY <1>1, <1>2 DEF GoodInv, PoolInv, SeederTypeOK, storeVars
<1>4. \A t \in Tasks : Good(t)'
  <2> SUFFICES ASSUME NEW t \in Tasks PROVE Good(t)'
    OBVIOUS
  <2>1. Good(t) /\ TaskMoves(t)
    BY PoolMoves DEF GoodInv
  <2>2. Good(t)' <=> GoodTask(job[t], Size(t), task'[t], TRUE)
    BY <1>1 DEF Good, Size, storeVars
  <2>3. GoodJob(job[t], Size(t)) \/ task[t] # "running"
    BY <1>1, <2>1 DEF Good, GoodTask
  <2>4. ASSUME job[t].step = "count" PROVE GoodJob(job[t], Size(t))
    BY <2>4 DEF GoodJob
  <2>5. ASSUME job[t].step = "return", task[t] = "running" PROVE Size(t) >= EffectiveTotal
    BY <2>3, <2>5 DEF GoodJob
  <2> QED BY <1>1, <2>1, <2>2, <2>4, <2>5 DEF Good, GoodTask, TaskMoves
<1>5. proc' # "exit0"
  BY <1>1
<1> QED BY <1>2, <1>3, <1>4, <1>5 DEF GoodInv

\* A record that was just made.
LEMMA FreshIsJob == Fresh \in Jobs /\ Fresh.step = "count" /\ Fresh.seg = 1 /\ Fresh.segInserted = 0
<1>1. 0 \in 0..CountAttempts - 1 /\ 0 \in 0..Retries - 1 /\ 1 \in Segments
  BY DEF Segments
<1> QED BY <1>1 DEF Fresh, Jobs

\* The process may end in any way, and with 0 if the pool has resolved.
LEMMA EndInv ==
    ASSUME GoodInv, NEW how \in {"exit0", "exit1", "killed"}, End(how),
           how = "exit0" => promise = "resolved"
    PROVE  GoodInv'
<1>1. /\ proc = "up" /\ proc' = how /\ job' = [t \in Tasks |-> Fresh]
      /\ clean' \in [Tasks -> BOOLEAN] /\ UNCHANGED <<poolVars, storeVars, runs>>
  <2>1. clean' = [t \in Tasks |-> clean[t] /\ ~Outstanding(t)] /\ clean \in [Tasks -> BOOLEAN]
    BY DEF End, GoodInv, SeederTypeOK
  <2>2. clean' \in [Tasks -> BOOLEAN]
    BY <2>1
  <2> QED BY <2>2 DEF End
<1>2. PoolInv'
  BY <1>1, PoolUntouched DEF GoodInv
<1>3. SeederTypeOK'
  BY <1>1, <1>2, FreshIsJob DEF GoodInv, PoolInv, SeederTypeOK, storeVars
<1>4. \A t \in Tasks : Size(t)' = Size(t) /\ task'[t] = task[t]
  BY <1>1 DEF Size, storeVars, poolVars
<1>5. \A t \in Tasks : Good(t)'
  <2> SUFFICES ASSUME NEW t \in Tasks PROVE Good(t)'
    OBVIOUS
  <2>1. job'[t].step = "count" /\ job'[t].seg = 1 /\ job'[t].segInserted = 0
    BY <1>1, FreshIsJob
  <2> QED BY <1>1, <1>4, <2>1 DEF GoodInv, Good, GoodTask
<1>6. proc' = "exit0" => \A t \in Tasks : Size(t)' >= EffectiveTotal
  <2> SUFFICES ASSUME how = "exit0", NEW t \in Tasks PROVE Size(t) >= EffectiveTotal
    BY <1>1, <1>4
  <2>1. task[t] = "done"
    BY DEF GoodInv, PoolInv, ResolvedMeansAllDone
  <2> QED BY <2>1 DEF GoodInv, Good, GoodTask
<1> QED BY <1>2, <1>3, <1>5, <1>6 DEF GoodInv

LEMMA PoolReset == PoolInit' => PoolInv'
BY PoolInitInv, PTL

\* A new process has a new pool and new tasks; the tables are what they were.
LEMMA RerunInv == ASSUME GoodInv, Rerun PROVE GoodInv'
<1>1. /\ proc # "up" /\ proc' = "up" /\ runs < MaxRuns /\ runs' = runs + 1
      /\ task' = [t \in Tasks |-> "waiting"] /\ UNCHANGED <<job, storeVars, clean>>
  BY DEF Rerun
<1>2. PoolInv'
  <2>1. PoolInit'
    BY DEF Rerun, PoolInit
  <2> QED BY <2>1, PoolReset
<1>3. SeederTypeOK'
  BY <1>1, <1>2 DEF GoodInv, PoolInv, SeederTypeOK, storeVars
<1>4. \A t \in Tasks : Good(t)'
  BY <1>1 DEF GoodInv, Good, GoodTask
<1> QED BY <1>1, <1>2, <1>3, <1>4 DEF GoodInv

LEMMA InitInv == Init => GoodInv
<1> SUFFICES ASSUME Init PROVE GoodInv
  OBVIOUS
<1>1. PoolInv
  BY PoolInitInv DEF Init
<1>2. SeederTypeOK
  BY <1>1, FreshIsJob DEF Init, PoolInv, SeederTypeOK
<1>3. \A t \in Tasks : Good(t)
  BY FreshIsJob DEF Init, PoolInit, Good, GoodTask
<1> QED BY <1>1, <1>2, <1>3 DEF GoodInv, Init

\* Every step preserves the invariant.
LEMMA SeederNextInv == GoodInv /\ [SeederNext]_vars => GoodInv'
<1> SUFFICES ASSUME GoodInv, [SeederNext]_vars PROVE GoodInv'
  OBVIOUS
<1>1. ASSUME NEW t \in Tasks, TaskStep(t) PROVE GoodInv'
  BY <1>1, CountAnswersInv, CountFailsInv, PostInv, AckInv, WriteFailsInv DEF TaskStep
<1>2. CASE PoolStep
  BY <1>2, PoolStepInv
<1>3. CASE ExitOk \/ ExitErr \/ Crash
  BY <1>3, EndInv DEF ExitOk, ExitErr, Crash
<1>4. ASSUME NEW r \in wire, Apply(r) \/ Lose(r) PROVE GoodInv'
  BY <1>4, ApplyInv, LoseInv
<1>5. CASE Rerun
  BY <1>5, RerunInv
<1>6. CASE UNCHANGED vars
  <2>1. UNCHANGED poolVars /\ UNCHANGED <<job, rows, wire, proc, runs, clean>>
    BY <1>6 DEF vars, storeVars
  <2>2. PoolInv'
    BY <2>1, PoolUntouched DEF GoodInv
  <2>3. SeederTypeOK'
    BY <2>1, <2>2 DEF GoodInv, PoolInv, SeederTypeOK
  <2>4. \A t \in Tasks : Size(t)' = Size(t) /\ (Good(t)' <=> Good(t))
    BY <2>1 DEF Size, Good, poolVars
  <2> QED BY <2>1, <2>2, <2>3, <2>4 DEF GoodInv
<1> QED BY <1>1, <1>2, <1>3, <1>4, <1>5, <1>6 DEF SeederNext, Progress

-----------------------------------------------------------------------------
\* Every reachable state satisfies SeederInv, whatever the number and size of the
\* tables, the batch size, and the limits on attempts, retries and reruns.
THEOREM SeederInvariant == SeederSpec => []SeederInv
<1>1. Init => GoodInv
  BY InitInv
<1>2. GoodInv /\ [SeederNext]_vars => GoodInv'
  BY SeederNextInv
<1>3. GoodInv => SeederInv
  BY GoodIsInv
<1> QED BY <1>1, <1>2, <1>3, PTL DEF SeederSpec

\* A worker never reports a tenant it has not filled (spans.ts:153-185).
THEOREM SeedingIsComplete == SeederSpec => []SeededMeansFull
<1>1. SeederInv => SeededMeansFull
  BY DEF SeederInv
<1> QED BY <1>1, SeederInvariant, PTL

\* A task never counts rows as inserted that are not stored (lp.ts:113, spans.ts:181).
THEOREM CountedRowsAreStored == SeederSpec => []AckedIsStored
<1>1. SeederInv => AckedIsStored
  BY DEF SeederInv
<1> QED BY <1>1, SeederInvariant, PTL

-----------------------------------------------------------------------------
(* The worker implements SeedContract: sizes and the exit code are what is seen *)
(* of it.                                                                       *)

sizes  == [t \in Tasks |-> Size(t)]
report == CASE proc = "up" -> "none" [] proc = "exit0" -> "ok" [] OTHER -> "failed"

\* A request that lands makes one tenant's table grow.
LEMMA ApplyGrows == ASSUME GoodInv, NEW r \in wire, Apply(r) PROVE Contract!Next
<1> DEFINE u == r.tenant
<1>1. /\ rows' = [rows EXCEPT ![u][r.seg] = rows[u][r.seg] + r.size]
      /\ proc' = proc
  BY DEF Apply
<1>2. rows \in [Tasks -> [Segments -> Nat]] /\ wire \subseteq Requests
  BY DEF GoodInv, SeederTypeOK
<1>3. u \in Tasks /\ r.seg \in Segments /\ r.size \in Nat
  BY <1>2 DEF Requests
<1>4. /\ rows' \in [Tasks -> [Segments -> Nat]]
      /\ \A t \in Tasks : t # u => rows'[t] = rows[t]
      /\ \A s \in Segments : rows'[u][s] >= rows[u][s]
  BY <1>1, <1>2, <1>3
<1>5. /\ rows'[u][1] >= rows[u][1] /\ rows'[u][2] >= rows[u][2] /\ rows'[u][3] >= rows[u][3]
      /\ rows[u][1] \in Nat /\ rows[u][2] \in Nat /\ rows[u][3] \in Nat
      /\ rows'[u][1] \in Nat /\ rows'[u][2] \in Nat /\ rows'[u][3] \in Nat
  BY <1>2, <1>3, <1>4 DEF Segments
<1>6. Size(u)' \in Nat /\ Size(u)' >= Size(u)
  BY <1>5 DEF Size
<1>7. \A t \in Tasks : t # u => Size(t)' = Size(t)
  BY <1>4 DEF Size
<1>8. sizes' = [sizes EXCEPT ![u] = sizes'[u]]
  BY <1>3, <1>7 DEF sizes
<1>9. sizes'[u] \in Nat /\ sizes'[u] >= sizes[u]
  BY <1>3, <1>6 DEF sizes
<1>10. Contract!Grow(u)
  BY <1>1, <1>8, <1>9 DEF Contract!Grow, sizes
<1> QED BY <1>3, <1>10 DEF Contract!Next

\* The end of the process is its report, and 0 is reported only on full tables.
LEMMA EndReports ==
    ASSUME GoodInv, NEW how \in {"exit0", "exit1", "killed"}, End(how),
           how = "exit0" => promise = "resolved"
    PROVE  Contract!Next
<1>1. proc = "up" /\ proc' = how /\ rows' = rows
  BY DEF End, storeVars
<1>2. [t \in Tasks |-> Size(t)'] = [t \in Tasks |-> Size(t)]
  BY <1>1 DEF Size
<1>3. CASE how = "exit0"
  <2>1. \A t \in Tasks : task[t] = "done"
    BY <1>3 DEF GoodInv, PoolInv, ResolvedMeansAllDone
  <2>2. \A t \in Tasks : Size(t) >= EffectiveTotal
    BY <2>1 DEF GoodInv, Good, GoodTask
  <2>3. Contract!Succeed
    BY <1>1, <1>2, <1>3, <2>2 DEF Contract!Succeed
  <2> QED BY <2>3 DEF Contract!Next
<1>4. CASE how # "exit0"
  <2>1. Contract!Fail
    BY <1>1, <1>2, <1>4 DEF Contract!Fail
  <2> QED BY <2>1 DEF Contract!Next
<1> QED BY <1>3, <1>4

\* Every other step is invisible, or the next run.
LEMMA StepsImplement ==
    GoodInv /\ [SeederNext]_vars => [Contract!Next]_<<[t \in Tasks |-> Size(t)], report>>
<1> SUFFICES ASSUME GoodInv, [SeederNext]_vars
             PROVE  [Contract!Next]_<<[t \in Tasks |-> Size(t)], report>>
  OBVIOUS
<1>1. ASSUME rows' = rows, proc' = proc
      PROVE  UNCHANGED <<[t \in Tasks |-> Size(t)], report>>
  BY <1>1 DEF Size, report
<1>2. ASSUME NEW t \in Tasks, TaskStep(t) PROVE rows' = rows /\ proc' = proc
  BY <1>2 DEF TaskStep, CountAnswers, CountFails, Post, Ack, WriteFails, storeVars
<1>3. CASE PoolStep
  BY <1>1, <1>3 DEF PoolStep, storeVars
<1>4. CASE ExitOk \/ ExitErr \/ Crash
  BY <1>4, EndReports DEF ExitOk, ExitErr, Crash
<1>5. ASSUME NEW r \in wire, Apply(r) PROVE Contract!Next
  BY <1>5, ApplyGrows
<1>6. ASSUME NEW r \in wire, Lose(r) PROVE rows' = rows /\ proc' = proc
  BY <1>6 DEF Lose
<1>7. CASE Rerun
  <2>1. proc # "up" /\ proc' = "up" /\ rows' = rows
    BY <1>7 DEF Rerun, storeVars
  <2>2. [t \in Tasks |-> Size(t)'] = [t \in Tasks |-> Size(t)]
    BY <2>1 DEF Size
  <2>3. Contract!Rerun
    BY <2>1, <2>2 DEF Contract!Rerun
  <2> QED BY <2>3 DEF Contract!Next
<1>8. CASE UNCHANGED vars
  BY <1>1, <1>8 DEF vars, storeVars
<1> QED BY <1>1, <1>2, <1>3, <1>4, <1>5, <1>6, <1>7, <1>8 DEF SeederNext, Progress

\* The worker implements SeedContract (spans.ts:117-254, index.ts:136-176): tables only
\* grow, and exit code 0 is reported only when every one holds its target.
THEOREM WorkerKeepsContract == SeederSpec => KeepsContract
<1>1. Init => GoodInv
  BY InitInv
<1>2. GoodInv /\ [SeederNext]_vars => GoodInv'
  BY SeederNextInv
<1>3. Init => Contract!Init
  BY DEF Init, Contract!Init, Size, Segments
<1>4. GoodInv /\ [SeederNext]_vars => [Contract!Next]_<<[t \in Tasks |-> Size(t)], report>>
  BY StepsImplement
<1> QED BY <1>1, <1>2, <1>3, <1>4, PTL DEF SeederSpec, KeepsContract, Contract!Spec, report

-----------------------------------------------------------------------------
(* Exactness: a worker never stores more rows than a tenant's target by      *)
(* itself.  ExactInv is inductive together with SeederInv.  A table can      *)
(* outgrow its target only where a count or a request was given up, which is *)
(* what `clean` records.                                                     *)

\* Nothing of tenant t is in transit.
Quiet(t) == \A r \in wire : r.tenant # t

\* A task that the step does not touch.
LEMMA ExactKept ==
    ASSUME NEW t \in Tasks, clean[t] => ExactTask(t), clean'[t] => clean[t],
           job'[t] = job[t], rows'[t] = rows[t], runs' = runs,
           Running(t)' <=> Running(t),
           \A r \in wire' : r.tenant = t => r \in wire
    PROVE  clean'[t] => ExactTask(t)'
<1>1. Size(t)' = Size(t) /\ Request(t)' = Request(t) /\ Acked(t)' = Acked(t)
  BY DEF Size, Request, Acked
<1>2. At(t, "await")' <=> At(t, "await")
  BY DEF At
<1> QED BY <1>1, <1>2 DEF ExactTask

\* A task that does not write, with nothing in transit.
LEMMA ExactIdle ==
    ASSUME NEW t \in Tasks, Size(t)' <= EffectiveTotal, Quiet(t)',
           Running(t)' => job'[t].step \notin {"send", "await"}
    PROVE  ExactTask(t)'
BY DEF ExactTask, Quiet

\* A step of task t alone, which leaves the tables alone, keeps the others exact.
LEMMA OthersExact ==
    ASSUME GoodInv, ExactInv, NEW t \in Tasks, NEW u \in Tasks, u # t, NEW e,
           job' = [job EXCEPT ![t] = e], clean'[u] => clean[u],
           \A r \in wire' : r.tenant = u => r \in wire,
           UNCHANGED <<poolVars, rows, proc, runs>>
    PROVE  clean'[u] => ExactTask(u)'
<1>1. job \in [Tasks -> Jobs]
  BY DEF GoodInv, SeederTypeOK
<1>2. job'[u] = job[u] /\ (Running(u)' <=> Running(u))
  BY <1>1 DEF Running, poolVars
<1>3. clean[u] => ExactTask(u)
  BY DEF ExactInv
<1> QED BY <1>2, <1>3, ExactKept

\* Resume changes one job.
LEMMA ResumeMoves == ASSUME NEW t, NEW n, Resume(t, n)
                     PROVE  \E e : job' = [job EXCEPT ![t] = e]
BY Zenon DEF Resume, Enter

\* Resume with the exact count of a quiet tenant.
LEMMA ResumeExact ==
    ASSUME GoodInv, NEW t \in Tasks, At(t, "count"), NEW n \in Nat, n = Size(t),
           Resume(t, n), Size(t) <= EffectiveTotal, Quiet(t),
           UNCHANGED <<poolVars, storeVars, proc, runs>>
    PROVE  ExactTask(t)'
<1>1. /\ job \in [Tasks -> Jobs] /\ job[t] \in Jobs
      /\ job[t].seg = 1 /\ job[t].segInserted = 0 /\ Size(t) \in Nat
  BY SizeIsNat DEF GoodInv, SeederTypeOK, At, Running, Good, GoodTask
<1>2. EffectiveTotal \in Nat
  BY TotalIsNat
<1>3. Size(t)' = Size(t) /\ Quiet(t)'
  BY DEF Size, Quiet, storeVars
<1>4. CASE n >= EffectiveTotal
  <2> DEFINE e == [job[t] EXCEPT !.step = "return", !.existing = n]
  <2>1. job' = [job EXCEPT ![t] = e]
    BY <1>1, <1>4 DEF Resume
  <2>2. e \in Jobs /\ e.step = "return"
    BY <1>1 DEF Jobs
  <2> HIDE DEF e
  <2>3. job'[t].step = "return"
    BY <1>1, <2>1, <2>2
  <2>4. ExactTask(t)'
    BY <1>3, <2>3, ExactIdle
  <2> QED BY <2>4
<1>5. CASE n < EffectiveTotal
  <2>1. PICK p \in Splits(EffectiveTotal - n) :
               Enter(t, [job[t] EXCEPT !.existing = n, !.plan = p], 1)
    <3>1. ~(n >= EffectiveTotal)
      BY <1>2, <1>5
    <3> QED BY <3>1, Zenon DEF Resume
  <2> DEFINE j == [job[t] EXCEPT !.existing = n, !.plan = p]
  <2>2. EffectiveTotal - n \in Nat
    BY <1>2, <1>5
  <2>3. p \in [Segments -> Nat] /\ Before(p, 1) = 0 /\ Before(p, 4) = EffectiveTotal - n
    BY <2>2, SplitsSum
  <2>4. /\ j \in Jobs /\ j.existing = n /\ j.plan = p
        /\ j.seg = 1 /\ j.segInserted = 0
    BY <1>1, <2>3 DEF Jobs
  <2>5. PICK k \in 1..4 : /\ FirstToWrite(j.plan, 1, k)
                          /\ job' = [job EXCEPT ![t] = Entered(j, k)]
    BY <2>1 DEF Enter, Entered
  <2> HIDE DEF j
  <2>6. Before(j.plan, k) = 0
    BY <2>3, <2>4, <2>5, SkipsNothing
  <2>7. job'[t] = Entered(j, k)
    BY <1>1, <2>5
  <2>8. k # 4
    BY <1>2, <1>5, <2>2, <2>3, <2>4, <2>6
  <2>9. /\ job'[t].step = "send" /\ job'[t].existing = n /\ job'[t].plan = j.plan
         /\ job'[t].seg = k /\ job'[t].segInserted = 0
    BY <2>4, <2>7, <2>8 DEF Entered, Jobs
  <2>10. job'[t].existing + Acked(t)' + 0 = Size(t)'
    BY <1>1, <1>3, <2>6, <2>9 DEF Acked
  <2>11. ExactTask(t)'
    BY <1>3, <2>9, <2>10 DEF ExactTask, Quiet
  <2> QED BY <2>11
<1> QED BY <1>1, <1>2, <1>4, <1>5

LEMMA CountExact ==
    ASSUME GoodInv, ExactInv, NEW t \in Tasks, CountAnswers(t) \/ CountFails(t)
    PROVE  ExactInv'
<1>1. /\ At(t, "count") /\ job[t].step = "count" /\ Running(t)
      /\ job \in [Tasks -> Jobs] /\ job[t] \in Jobs /\ clean \in [Tasks -> BOOLEAN]
      /\ UNCHANGED <<poolVars, storeVars, proc, runs>>
  BY DEF GoodInv, SeederTypeOK, CountAnswers, CountFails, At
<1>2. Size(t) \in Nat /\ (clean[t] => Size(t) <= EffectiveTotal /\ Quiet(t))
  BY <1>1, SizeIsNat DEF GoodInv, ExactInv, ExactTask, Quiet, At
<1>3. \A u \in Tasks : \A r \in wire' : r.tenant = u => r \in wire
  BY <1>1 DEF storeVars
<1>4. UNCHANGED <<poolVars, rows, proc, runs>>
  BY <1>1 DEF storeVars
<1>5. ASSUME NEW n \in Nat, Resume(t, n), clean'[t] => clean[t] /\ n = Size(t),
             \A u \in Tasks : clean'[u] => clean[u], n <= Size(t)
      PROVE  ExactInv'
  <2>1. PICK e : job' = [job EXCEPT ![t] = e]
    BY <1>5, ResumeMoves
  <2>2. ASSUME clean'[t] PROVE ExactTask(t)'
    BY <1>1, <1>2, <1>5, <2>2, ResumeExact
  <2>3. ASSUME NEW u \in Tasks, u # t PROVE clean'[u] => ExactTask(u)'
    BY <1>3, <1>4, <1>5, <2>1, <2>3, OthersExact
  <2> QED BY <2>2, <2>3 DEF ExactInv
<1>6. CASE CountAnswers(t)
  <2>1. Resume(t, Size(t)) /\ clean' = clean
    BY <1>6 DEF CountAnswers
  <2> QED BY <1>2, <1>5, <2>1
<1>7. CASE CountFails(t) /\ job[t].attempt < CountAttempts - 1
  <2> DEFINE e == [job[t] EXCEPT !.attempt = job[t].attempt + 1]
  <2>1. job' = [job EXCEPT ![t] = e] /\ clean' = clean
    BY <1>1, <1>7 DEF CountFails
  <2>2. e.step = "count"
    BY <1>1 DEF Jobs
  <2> HIDE DEF e
  <2>3. job'[t].step = "count" /\ Size(t)' = Size(t) /\ Quiet(t)' = Quiet(t)
    BY <1>1, <2>1, <2>2 DEF Size, Quiet, storeVars
  <2>4. clean'[t] => ExactTask(t)'
    BY <1>2, <2>1, <2>3, ExactIdle
  <2>5. ASSUME NEW u \in Tasks, u # t PROVE clean'[u] => ExactTask(u)'
    BY <1>3, <1>4, <2>1, <2>5, OthersExact
  <2> QED BY <2>4, <2>5 DEF ExactInv
<1>8. CASE CountFails(t) /\ ~(job[t].attempt < CountAttempts - 1)
  <2>1. Resume(t, 0) /\ clean' = [clean EXCEPT ![t] = clean[t] /\ Size(t) = 0]
    BY <1>8 DEF CountFails
  <2>2. \A u \in Tasks : clean'[u] => clean[u]
    BY <1>1, <2>1
  <2>3. clean'[t] => clean[t] /\ 0 = Size(t)
    BY <1>1, <2>1
  <2> QED BY <1>2, <1>5, <2>1, <2>2, <2>3
<1> QED BY <1>6, <1>7, <1>8

\* What is exact about a task that waits for a write.
LEMMA AwaitExact ==
    ASSUME GoodInv, ExactInv, NEW t \in Tasks, clean[t], At(t, "await")
    PROVE  /\ Size(t) <= EffectiveTotal
           /\ \A r \in wire : r.tenant = t => ~job[t].landed /\ r = Request(t)
           /\ job[t].existing + job[t].segInserted + Before(job[t].plan, job[t].seg)
                 + (IF job[t].landed THEN Request(t).size ELSE 0) = Size(t)
<1>1. ExactTask(t) /\ Running(t) /\ job[t].step = "await"
  BY DEF ExactInv, At
<1>2. /\ job[t].existing \in Nat /\ job[t].segInserted \in Nat
      /\ Before(job[t].plan, job[t].seg) \in Nat
  BY Writing
<1>3. /\ Size(t) <= EffectiveTotal
      /\ \A r \in wire : r.tenant = t => ~job[t].landed /\ r = Request(t)
      /\ job[t].existing + Acked(t) + (IF job[t].landed THEN Request(t).size ELSE 0) = Size(t)
  BY <1>1 DEF ExactTask
<1>4. job[t].existing + Acked(t)
         = job[t].existing + job[t].segInserted + Before(job[t].plan, job[t].seg)
  BY <1>2 DEF Acked
<1> QED BY <1>3, <1>4

\* The request that is posted is the only one of its tenant.
LEMMA PostExact == ASSUME GoodInv, ExactInv, NEW t \in Tasks, Post(t) PROVE ExactInv'
<1> DEFINE e == [job[t] EXCEPT !.step = "await", !.landed = FALSE]
<1>1. /\ At(t, "send") /\ job[t].step = "send" /\ Running(t)
      /\ job' = [job EXCEPT ![t] = e] /\ wire' = wire \cup {Request(t)}
      /\ UNCHANGED <<poolVars, rows, proc, runs, clean>>
  BY DEF Post, At
<1>2. /\ job \in [Tasks -> Jobs] /\ job[t] \in Jobs /\ Request(t).tenant = t
  BY <1>1, Writing
<1>3. /\ e.step = "await" /\ e.landed = FALSE /\ e.existing = job[t].existing
      /\ e.plan = job[t].plan /\ e.seg = job[t].seg /\ e.segInserted = job[t].segInserted
      /\ e.tries = job[t].tries
  BY <1>2 DEF Jobs
<1> HIDE DEF e
<1>4. job'[t] = e
  BY <1>1, <1>2
<1>5. clean'[t] => ExactTask(t)'
  <2> SUFFICES ASSUME clean[t] PROVE ExactTask(t)'
    BY <1>1
  <2>1. ExactTask(t)
    BY DEF ExactInv
  <2>2. \A r \in wire : r.tenant # t
    BY <1>1, <2>1 DEF ExactTask, At
  <2>3. Request(t)' = Request(t) /\ Size(t)' = Size(t) /\ Acked(t)' = Acked(t)
    BY <1>1, <1>3, <1>4 DEF Request, Size, Acked
  <2>4. At(t, "await")' /\ ~job'[t].landed
    BY <1>1, <1>3, <1>4 DEF At, Running, poolVars
  <2>5. \A r \in wire' : r.tenant = t => At(t, "await")' /\ ~job'[t].landed /\ r = Request(t)'
    BY <1>1, <2>2, <2>3, <2>4
  <2>6. job[t].existing + Acked(t) + 0 = Size(t)
    BY <1>1, <2>1 DEF ExactTask
  <2> QED BY <1>3, <1>4, <2>1, <2>3, <2>4, <2>5, <2>6 DEF ExactTask
<1>6. ASSUME NEW u \in Tasks, u # t PROVE clean'[u] => ExactTask(u)'
  <2>1. \A r \in wire' : r.tenant = u => r \in wire
    BY <1>1, <1>2, <1>6
  <2> QED BY <1>1, <1>6, <2>1, OthersExact
<1> QED BY <1>5, <1>6 DEF ExactInv

\* A batch that is acknowledged was stored, and nothing of it is in transit.
LEMMA AckExact == ASSUME GoodInv, ExactInv, NEW t \in Tasks, Ack(t) PROVE ExactInv'
<1> DEFINE i == job[t].segInserted + Request(t).size
           j == [job[t] EXCEPT !.segInserted = i, !.tries = 0, !.landed = FALSE]
<1>1. /\ At(t, "await") /\ job[t].step = "await" /\ job[t].landed
      /\ IF j.segInserted < j.plan[j.seg]
         THEN job' = [job EXCEPT ![t] = [j EXCEPT !.step = "send"]]
         ELSE Enter(t, j, j.seg + 1)
      /\ UNCHANGED <<poolVars, storeVars, proc, runs, clean>>
  BY DEF Ack, At
<1>2. /\ Running(t) /\ job \in [Tasks -> Jobs] /\ job[t] \in Jobs
      /\ GoodJob(job[t], Size(t)) /\ Size(t) \in Nat
      /\ job[t].plan \in [Segments -> Nat] /\ job[t].existing \in Nat
      /\ job[t].segInserted \in Nat /\ job[t].seg \in Segments
      /\ job[t].plan[job[t].seg] \in Nat /\ Before(job[t].plan, job[t].seg) \in Nat
      /\ Request(t).size \in Nat \ {0}
      /\ Request(t).size = Lower(BatchSize, job[t].plan[job[t].seg] - job[t].segInserted)
  BY <1>1, Writing
<1>3. UNCHANGED <<poolVars, rows, wire, proc, runs, clean>>
  BY <1>1 DEF storeVars
<1>4. i \in Nat /\ i <= job[t].plan[job[t].seg]
  <2>1. job[t].segInserted < job[t].plan[job[t].seg]
    BY <1>1, <1>2 DEF GoodJob
  <2>2. Request(t).size <= job[t].plan[job[t].seg] - job[t].segInserted
    BY <1>2 DEF Lower
  <2> QED BY <1>2, <2>1, <2>2
<1>5. /\ j \in Jobs /\ j.segInserted = i /\ j.plan = job[t].plan /\ j.seg = job[t].seg
      /\ j.existing = job[t].existing
  <2> HIDE DEF i
  <2> QED BY <1>2, <1>4, AckRecord
<1>6. ASSUME clean[t]
      PROVE  /\ Size(t)' <= EffectiveTotal /\ Quiet(t)'
             /\ Size(t)' = j.existing + i + Before(j.plan, j.seg)
  <2>1. Size(t)' = Size(t) /\ Quiet(t)' = Quiet(t)
    BY <1>3 DEF Size, Quiet
  <2>2. /\ Size(t) <= EffectiveTotal /\ Quiet(t)
        /\ job[t].existing + job[t].segInserted + Before(job[t].plan, job[t].seg)
              + Request(t).size = Size(t)
    BY <1>1, <1>6, AwaitExact DEF Quiet
  <2> HIDE DEF j
  <2> QED BY <1>2, <1>5, <2>1, <2>2
<1>7. ASSUME NEW e, job' = [job EXCEPT ![t] = e], clean[t] => ExactTask(t)' PROVE ExactInv'
  <2>1. ASSUME NEW u \in Tasks, u # t PROVE clean'[u] => ExactTask(u)'
    BY <1>3, <1>7, <2>1, OthersExact
  <2> QED BY <1>3, <1>7, <2>1 DEF ExactInv
<1>8. CASE i < job[t].plan[job[t].seg]
  <2> DEFINE e == [j EXCEPT !.step = "send"]
  <2> HIDE DEF j, i
  <2>1. job' = [job EXCEPT ![t] = e]
    BY <1>1, <1>5, <1>8
  <2>2. /\ e.step = "send" /\ e.segInserted = i /\ e.plan = j.plan
        /\ e.seg = j.seg /\ e.existing = j.existing
    BY <1>5 DEF Jobs
  <2> HIDE DEF e
  <2>3. job'[t] = e
    BY <1>2, <2>1
  <2>4. ASSUME clean[t] PROVE ExactTask(t)'
    <3>1. e.existing + (e.segInserted + Before(e.plan, e.seg)) + 0 = Size(t)'
      BY <1>2, <1>4, <1>5, <1>6, <2>2, <2>4
    <3> QED BY <1>6, <2>2, <2>3, <2>4, <3>1 DEF ExactTask, Quiet, Acked
  <2> QED BY <1>7, <2>1, <2>4
<1>9. CASE ~(i < job[t].plan[job[t].seg])
  <2> HIDE DEF j, i
  <2>1. Enter(t, j, job[t].seg + 1)
    BY <1>1, <1>5, <1>9
  <2>2. i = job[t].plan[job[t].seg] /\ job[t].seg + 1 \in 1..4
    BY <1>2, <1>4, <1>9 DEF Segments
  <2>3. Before(j.plan, job[t].seg + 1) = Before(j.plan, j.seg) + i
    BY <1>2, <1>5, <2>2, NextSegment
  <2>4. PICK k \in 1..4 : /\ FirstToWrite(j.plan, job[t].seg + 1, k)
                          /\ job' = [job EXCEPT ![t] = Entered(j, k)]
    BY <2>1, Zenon DEF Enter, Entered
  <2>5. job'[t] = Entered(j, k)
    BY <1>2, <2>4
  <2>6. Before(j.plan, k) = Before(j.plan, j.seg) + i
    BY <1>2, <1>5, <2>2, <2>3, <2>4, SkipsNothing
  <2>7. ASSUME clean[t] PROVE ExactTask(t)'
    <3>1. CASE k = 4
      <4>1. job'[t].step = "return"
        BY <1>5, <2>5, <3>1 DEF Entered, Jobs
      <4> QED BY <1>6, <2>7, <4>1, ExactIdle
    <3>2. CASE k # 4
      <4>1. /\ job'[t].step = "send" /\ job'[t].existing = j.existing
            /\ job'[t].plan = j.plan /\ job'[t].seg = k /\ job'[t].segInserted = 0
        BY <1>5, <2>5, <3>2 DEF Entered, Jobs
      <4>2. j.existing + (0 + Before(j.plan, k)) + 0 = Size(t)'
        BY <1>2, <1>4, <1>5, <1>6, <2>6, <2>7
      <4> QED BY <1>6, <2>7, <4>1, <4>2 DEF ExactTask, Quiet, Acked
    <3> QED BY <3>1, <3>2
  <2> QED BY <1>7, <2>4, <2>7
<1> QED BY <1>8, <1>9

\* A failed write leaves its tenant clean only if the request is known to be gone.
LEMMA WriteFailsExact == ASSUME GoodInv, ExactInv, NEW t \in Tasks, WriteFails(t) PROVE ExactInv'
<1> DEFINE e == IF job[t].tries < Retries - 1
                THEN [job[t] EXCEPT !.tries = job[t].tries + 1, !.step = "send", !.landed = FALSE]
                ELSE [job[t] EXCEPT !.step = "throw"]
<1>1. /\ At(t, "await") /\ job[t].step = "await" /\ job[t] \in Jobs
      /\ job \in [Tasks -> Jobs] /\ clean \in [Tasks -> BOOLEAN]
      /\ clean' = [clean EXCEPT ![t] = clean[t] /\ ~job[t].landed /\ Request(t) \notin wire]
      /\ UNCHANGED <<poolVars, rows, wire, proc, runs>>
  BY DEF WriteFails, At, GoodInv, SeederTypeOK, storeVars
<1>2. job' = [job EXCEPT ![t] = e]
  BY <1>1 DEF WriteFails
<1>3. /\ e.step \in {"send", "throw"} /\ e.existing = job[t].existing
      /\ e.plan = job[t].plan /\ e.seg = job[t].seg /\ e.segInserted = job[t].segInserted
  <2>1. CASE job[t].tries < Retries - 1
    BY <1>1, <2>1 DEF Jobs
  <2>2. CASE ~(job[t].tries < Retries - 1)
    BY <1>1, <2>2 DEF Jobs
  <2> QED BY <2>1, <2>2
<1> HIDE DEF e
<1>4. job'[t] = e
  BY <1>1, <1>2
<1>5. ASSUME clean'[t] PROVE ExactTask(t)'
  <2>1. clean[t] /\ ~job[t].landed /\ Request(t) \notin wire
    BY <1>1, <1>5
  <2>2. /\ Size(t) <= EffectiveTotal /\ Quiet(t)
        /\ job[t].existing + job[t].segInserted + Before(job[t].plan, job[t].seg) + 0 = Size(t)
    BY <1>1, <2>1, AwaitExact DEF Quiet
  <2>3. Size(t)' = Size(t) /\ Quiet(t)'
    BY <1>1, <2>2 DEF Size, Quiet
  <2>4. /\ job[t].existing \in Nat /\ job[t].segInserted \in Nat
        /\ Before(job[t].plan, job[t].seg) \in Nat
    BY <1>1, Writing
  <2>5. e.existing + (e.segInserted + Before(e.plan, e.seg)) + 0 = Size(t)
    BY <1>3, <2>2, <2>4
  <2> QED BY <1>3, <1>4, <2>2, <2>3, <2>5 DEF ExactTask, Quiet, Acked
<1>6. ASSUME NEW u \in Tasks, u # t PROVE clean'[u] => ExactTask(u)'
  <2>1. clean'[u] => clean[u]
    BY <1>1, <1>6
  <2> QED BY <1>1, <1>2, <1>6, <2>1, OthersExact
<1> QED BY <1>5, <1>6 DEF ExactInv

\* A plan has at least the rows of its segments up to s.
LEMMA PlanCovers == ASSUME NEW p \in [Segments -> Nat], NEW s \in Segments
                    PROVE  Before(p, s) + p[s] <= Before(p, 4)
<1>1. p[1] \in Nat /\ p[2] \in Nat /\ p[3] \in Nat
  BY DEF Segments
<1>2. s = 1 \/ s = 2 \/ s = 3
  BY DEF Segments
<1> QED BY <1>1, <1>2 DEF Before

\* The request of a clean tenant that lands is the one its task waits for.
LEMMA ApplyExact == ASSUME GoodInv, ExactInv, NEW r \in wire, Apply(r) PROVE ExactInv'
<1> DEFINE u == r.tenant
           e == [job[u] EXCEPT !.landed = TRUE]
<1>1. /\ wire' = wire \ {r}
      /\ rows' = [rows EXCEPT ![u][r.seg] = rows[u][r.seg] + r.size]
      /\ job' = IF At(u, "await") /\ r = Request(u) THEN [job EXCEPT ![u] = e] ELSE job
      /\ UNCHANGED <<poolVars, proc, runs, clean>>
  BY DEF Apply
<1>2. /\ job \in [Tasks -> Jobs] /\ rows \in [Tasks -> [Segments -> Nat]]
      /\ wire \subseteq Requests
  BY DEF GoodInv, SeederTypeOK
<1>3. r \in Requests /\ u \in Tasks /\ r.seg \in Segments /\ r.size \in Nat
  BY <1>2 DEF Requests
<1>4. ASSUME NEW t \in Tasks, t # u PROVE clean'[t] => ExactTask(t)'
  <2>1. job'[t] = job[t] /\ rows'[t] = rows[t] /\ (Running(t)' <=> Running(t))
    BY <1>1, <1>2, <1>3, <1>4 DEF Running, poolVars
  <2>2. clean[t] => ExactTask(t)
    BY DEF ExactInv
  <2>3. \A q \in wire' : q.tenant = t => q \in wire
    BY <1>1
  <2>4. runs' = runs /\ clean' = clean
    BY <1>1
  <2> QED BY <2>1, <2>2, <2>3, <2>4, ExactKept
<1>5. ASSUME clean[u] PROVE ExactTask(u)'
  <2>1. At(u, "await") /\ ~job[u].landed /\ r = Request(u)
    BY <1>3, <1>5 DEF ExactInv, ExactTask
  <2>2. /\ Running(u) /\ job[u] \in Jobs /\ GoodJob(job[u], Size(u)) /\ Size(u) \in Nat
        /\ job[u].plan \in [Segments -> Nat] /\ job[u].existing \in Nat
        /\ job[u].segInserted \in Nat /\ job[u].seg \in Segments
        /\ job[u].plan[job[u].seg] \in Nat /\ Before(job[u].plan, job[u].seg) \in Nat
        /\ Request(u).size = Lower(BatchSize, job[u].plan[job[u].seg] - job[u].segInserted)
    BY <1>3, <2>1, Writing
  <2>3. /\ \A q \in wire : q.tenant = u => q = r
        /\ job[u].existing + job[u].segInserted + Before(job[u].plan, job[u].seg) + 0 = Size(u)
    BY <1>3, <1>5, <2>1, AwaitExact
  <2>4. Quiet(u)'
    BY <1>1, <2>3 DEF Quiet
  <2>5. Size(u)' = Size(u) + r.size
    <3>1. /\ rows[u] \in [Segments -> Nat]
          /\ \A s \in Segments : rows'[u][s] = rows[u][s] + (IF s = r.seg THEN r.size ELSE 0)
      BY <1>1, <1>2, <1>3
    <3>2. /\ rows'[u][1] = rows[u][1] + (IF 1 = r.seg THEN r.size ELSE 0)
          /\ rows'[u][2] = rows[u][2] + (IF 2 = r.seg THEN r.size ELSE 0)
          /\ rows'[u][3] = rows[u][3] + (IF 3 = r.seg THEN r.size ELSE 0)
          /\ rows[u][1] \in Nat /\ rows[u][2] \in Nat /\ rows[u][3] \in Nat
      BY <3>1 DEF Segments
    <3>3. r.seg = 1 \/ r.seg = 2 \/ r.seg = 3
      BY <1>3 DEF Segments
    <3> HIDE DEF u
    <3> QED BY <1>3, <3>2, <3>3 DEF Size
  <2> HIDE DEF u
  <2>6. /\ job'[u].step = "await" /\ job'[u].landed /\ job'[u].existing = job[u].existing
        /\ job'[u].plan = job[u].plan /\ job'[u].seg = job[u].seg
        /\ job'[u].segInserted = job[u].segInserted /\ job'[u].tries = job[u].tries
    <3>1. job[u].step = "await" /\ job'[u] = e
      BY <1>1, <1>2, <1>3, <2>1 DEF At
    <3> QED BY <2>2, <3>1 DEF Jobs
  <2>7. Request(u)' = Request(u) /\ Acked(u)' = Acked(u)
    BY <1>1, <2>6 DEF Request, Acked
  <2>8. job[u].existing + Acked(u) + Request(u).size = Size(u) + r.size
    BY <2>1, <2>2, <2>3 DEF Acked
  <2>9. Size(u)' <= EffectiveTotal
    <3>1. /\ job[u].existing + Before(job[u].plan, 4) = EffectiveTotal
          /\ job[u].segInserted < job[u].plan[job[u].seg]
      BY <2>1, <2>2 DEF GoodJob, At
    <3>2. Before(job[u].plan, job[u].seg) + job[u].plan[job[u].seg] <= Before(job[u].plan, 4)
      BY <2>2, PlanCovers
    <3>3. r.size <= job[u].plan[job[u].seg] - job[u].segInserted
      BY <2>1, <2>2 DEF Lower
    <3>4. Before(job[u].plan, 4) \in Nat
      BY <2>2 DEF Before, Segments
    <3> QED BY <1>3, <2>2, <2>3, <2>5, <3>1, <3>2, <3>3, <3>4
  <2> QED BY <2>4, <2>5, <2>6, <2>7, <2>8, <2>9 DEF ExactTask, Quiet
<1> QED BY <1>1, <1>4, <1>5 DEF ExactInv

LEMMA LoseExact == ASSUME GoodInv, ExactInv, NEW r \in wire, Lose(r) PROVE ExactInv'
<1>1. wire' = wire \ {r} /\ UNCHANGED <<poolVars, job, rows, proc, runs, clean>>
  BY DEF Lose
<1>2. ASSUME NEW t \in Tasks PROVE clean'[t] => ExactTask(t)'
  <2>1. (Running(t)' <=> Running(t)) /\ (clean[t] => ExactTask(t))
    BY <1>1 DEF Running, poolVars, ExactInv
  <2> QED BY <1>1, <2>1, ExactKept
<1> QED BY <1>2 DEF ExactInv

\* The pool's callbacks leave the tasks that wait for a request running.
LEMMA PoolStepExact == ASSUME GoodInv, ExactInv, PoolStep PROVE ExactInv'
<1>1. proc = "up" /\ UNCHANGED <<job, rows, wire, proc, runs, clean>>
  BY DEF PoolStep, storeVars
<1>2. ASSUME NEW t \in Tasks, clean[t] PROVE ExactTask(t)'
  <2>1. TaskMoves(t) /\ ExactTask(t) /\ Good(t)
    BY <1>2, PoolMoves DEF GoodInv, ExactInv
  <2>2. Size(t)' = Size(t) /\ Request(t)' = Request(t) /\ Acked(t)' = Acked(t)
    BY <1>1 DEF Size, Request, Acked
  <2>3. Running(t)' /\ job[t].step \in {"send", "await"} => Running(t)
    BY <1>1, <2>1 DEF Running, TaskMoves, Good, GoodTask
  <2>4. At(t, "await") => At(t, "await")'
    BY <1>1, <2>1 DEF At, Running, TaskMoves
  <2> QED BY <1>1, <2>1, <2>2, <2>3, <2>4 DEF ExactTask
<1> QED BY <1>1, <1>2 DEF ExactInv

\* A process that ends leaves a tenant clean only with nothing of it in transit.
LEMMA EndExact == ASSUME GoodInv, ExactInv, NEW how \in {"exit0", "exit1", "killed"}, End(how)
                  PROVE  ExactInv'
<1>1. /\ proc' # "up" /\ clean' = [t \in Tasks |-> clean[t] /\ ~Outstanding(t)]
      /\ UNCHANGED <<rows, wire>>
  BY DEF End, storeVars
<1>2. ASSUME NEW t \in Tasks, clean'[t] PROVE ExactTask(t)'
  <2>1. clean[t] /\ ~Outstanding(t)
    BY <1>1, <1>2
  <2>2. ExactTask(t) /\ Quiet(t)
    BY <2>1 DEF ExactInv, ExactTask, Outstanding, Quiet
  <2>3. Size(t)' <= EffectiveTotal /\ Quiet(t)' /\ ~Running(t)'
    BY <1>1, <2>2 DEF ExactTask, Size, Quiet, Running
  <2> QED BY <2>3, ExactIdle
<1> QED BY <1>2 DEF ExactInv

LEMMA RerunExact == ASSUME GoodInv, ExactInv, Rerun PROVE ExactInv'
<1>1. /\ proc # "up" /\ task' = [t \in Tasks |-> "waiting"] /\ UNCHANGED <<rows, wire, clean>>
  BY DEF Rerun, storeVars
<1>2. ASSUME NEW t \in Tasks, clean[t] PROVE ExactTask(t)'
  <2>1. ExactTask(t) /\ Quiet(t)
    BY <1>1, <1>2 DEF ExactInv, ExactTask, At, Running, Quiet
  <2>2. Size(t)' <= EffectiveTotal /\ Quiet(t)' /\ ~Running(t)'
    BY <1>1, <2>1 DEF ExactTask, Size, Quiet, Running
  <2> QED BY <2>2, ExactIdle
<1> QED BY <1>1, <1>2 DEF ExactInv

LEMMA InitExact == Init => ExactInv
<1> SUFFICES ASSUME Init, NEW t \in Tasks PROVE ExactTask(t)
  BY DEF ExactInv
<1>1. Size(t) = 0 /\ wire = {} /\ ~Running(t)
  BY DEF Init, PoolInit, Size, Segments, Running
<1> QED BY <1>1, TotalIsNat DEF ExactTask

\* Every step of a worker preserves both invariants.
LEMMA ExactNext == GoodInv /\ ExactInv /\ [SeederNext]_vars => ExactInv'
<1> SUFFICES ASSUME GoodInv, ExactInv, [SeederNext]_vars PROVE ExactInv'
  OBVIOUS
<1>1. ASSUME NEW t \in Tasks, TaskStep(t) PROVE ExactInv'
  BY <1>1, CountExact, PostExact, AckExact, WriteFailsExact DEF TaskStep
<1>2. CASE PoolStep
  BY <1>2, PoolStepExact
<1>3. CASE ExitOk \/ ExitErr \/ Crash
  BY <1>3, EndExact DEF ExitOk, ExitErr, Crash
<1>4. ASSUME NEW r \in wire, Apply(r) \/ Lose(r) PROVE ExactInv'
  BY <1>4, ApplyExact, LoseExact
<1>5. CASE Rerun
  BY <1>5, RerunExact
<1>6. CASE UNCHANGED vars
  <2>1. UNCHANGED <<poolVars, job, rows, wire, proc, runs, clean>>
    BY <1>6 DEF vars, storeVars
  <2>2. ASSUME NEW t \in Tasks PROVE clean'[t] => ExactTask(t)'
    <3>1. (Running(t)' <=> Running(t)) /\ (clean[t] => ExactTask(t))
      BY <2>1 DEF Running, poolVars, ExactInv
    <3> QED BY <2>1, <3>1, ExactKept
  <2> QED BY <2>2 DEF ExactInv
<1> QED BY <1>1, <1>2, <1>3, <1>4, <1>5, <1>6 DEF SeederNext, Progress

\* Over any number of retries, crashes and reruns a tenant's table outgrows its target
\* only if a count was given up on a table with rows, or a request that the server had
\* stored or could still store (spans.ts:125-128, lp.ts:116-124).
THEOREM SeedingIsExact == SeederSpec => []CleanIsExact
<1>1. Init => GoodInv /\ ExactInv
  BY InitInv, InitExact
<1>2. GoodInv /\ ExactInv /\ [SeederNext]_vars => GoodInv' /\ ExactInv'
  BY SeederNextInv, ExactNext
<1>3. ExactInv => CleanIsExact
  BY DEF ExactInv, ExactTask, CleanIsExact
<1> QED BY <1>1, <1>2, <1>3, PTL DEF SeederSpec
=============================================================================
