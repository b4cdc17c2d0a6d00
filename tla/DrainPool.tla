------------------------------ MODULE DrainPool ------------------------------
(***************************************************************************)
(* The promise pool that seedSpans and seedConversationItems run their     *)
(* tenants in (src/src/seed/spans.ts:226-248, conversations.ts:220-241):   *)
(* a synchronous drain() starts tasks while a slot is free, and every      *)
(* task's .then/.catch and .finally callbacks are separate microtasks, so  *)
(* callbacks of other tasks run between them.                              *)
(***************************************************************************)
EXTENDS Naturals, FiniteSets

CONSTANTS NTasks,        \* tenants.length
          Concurrency    \* config.seedConcurrency

ASSUME PoolAssumption == NTasks \in Nat /\ Concurrency \in Nat \ {0}

VARIABLES next,          \* index of the next tenant to start
          inFlight,      \* slots taken
          completed,     \* tasks whose .then callback ran
          task,          \* where each task's promise chain is
          promise        \* the promise seedSpans awaits

poolVars == <<next, inFlight, completed, task, promise>>

Tasks == 1..NTasks

\* "running": the async function has not settled.  "fulfilled" / "failed": the
\* .then / .catch callback ran and .finally is still queued.  "done" / "lost":
\* .finally ran as well.
TaskStates == {"waiting", "running", "fulfilled", "failed", "done", "lost"}
Settled    == {"fulfilled", "failed"}
Live       == {t \in Tasks : task[t] \in {"running"} \cup Settled}

Lower(a, b) == IF a < b THEN a ELSE b

\* How many tasks one call of drain() starts when f slots are taken.
Room(f) == IF f < Concurrency THEN Lower(Concurrency - f, NTasks - next) ELSE 0

\* The while loop of drain(): it runs to completion without an await.
Started(f) == next + 1 .. next + Room(f)

Drain(f, tasks) ==
    /\ task' = [t \in Tasks |-> IF t \in Started(f) THEN "running" ELSE tasks[t]]
    /\ next' = next + Room(f)
    /\ inFlight' = f + Room(f)

PoolInit ==
    /\ next = 0 /\ inFlight = 0 /\ completed = 0
    /\ task = [t \in Tasks |-> "waiting"]
    /\ promise = "new"

\* The executor of new Promise(...): drain(), and resolve() if there is nothing to do.
Begin ==
    /\ promise = "new"
    /\ Drain(0, task)
    /\ promise' = IF NTasks = 0 THEN "resolved" ELSE "pending"
    /\ UNCHANGED completed

\* .then(() => { completed++; })
Then(t) ==
    /\ task[t] = "running"
    /\ task' = [task EXCEPT ![t] = "fulfilled"]
    /\ completed' = completed + 1
    /\ UNCHANGED <<next, inFlight, promise>>

\* Mutant of Catch: the error is logged and swallowed.
CatchSwallows(t) ==
    /\ task[t] = "running"
    /\ task' = [task EXCEPT ![t] = "failed"]
    /\ UNCHANGED <<next, inFlight, completed, promise>>

\* .catch(reject): settling a settled promise again has no effect.
Catch(t) ==
    /\ task[t] = "running"
    /\ task' = [task EXCEPT ![t] = "failed"]
    /\ promise' = IF promise = "pending" THEN "rejected" ELSE promise
    /\ UNCHANGED <<next, inFlight, completed>>

\* Mutant of Finally: the check for the last task comes before the decrement.
FinallyChecksFirst(t) ==
    /\ task[t] \in Settled
    /\ LET tasks == [task EXCEPT ![t] = IF @ = "fulfilled" THEN "done" ELSE "lost"]
       IN IF next = NTasks /\ inFlight = 0
          THEN promise' = "resolved" /\ task' = tasks /\ UNCHANGED <<next, inFlight>>
          ELSE Drain(inFlight - 1, tasks) /\ UNCHANGED promise
    /\ UNCHANGED completed

\* .finally: give the slot back, then resolve if it was the last task, else drain().
Finally(t) ==
    /\ task[t] \in Settled
    /\ LET tasks == [task EXCEPT ![t] = IF @ = "fulfilled" THEN "done" ELSE "lost"]
           f     == inFlight - 1
       IN IF next = NTasks /\ f = 0
          THEN /\ promise' = IF promise = "pending" THEN "resolved" ELSE promise
               /\ task' = tasks /\ inFlight' = f
               /\ UNCHANGED next
          ELSE /\ Drain(f, tasks)
               /\ UNCHANGED promise
    /\ UNCHANGED completed

PoolNext == \/ Begin
            \/ \E t \in Tasks : Then(t) \/ Catch(t) \/ Finally(t)

\* The event loop runs every queued callback, and every task settles: its awaits
\* are bounded loops over requests that end.
PoolFairness == WF_poolVars(PoolNext)

PoolSpec == PoolInit /\ [][PoolNext]_poolVars /\ PoolFairness

-----------------------------------------------------------------------------
PoolTypeOK ==
    /\ next \in 0..NTasks
    /\ inFlight \in 0..Concurrency
    /\ completed \in 0..NTasks
    /\ task \in [Tasks -> TaskStates]
    /\ promise \in {"new", "pending", "resolved", "rejected"}

\* The counter the loop condition reads is the number of tasks that really hold a
\* slot, so there are never more than Concurrency of them (spans.ts:228,231,237).
SlotsAreCounted == inFlight = Cardinality(Live)

\* Tenants are started in order, each once: those at or past `next` are untouched
\* and every one before it has been started (spans.ts:229).
StartedInOrder == \A t \in Tasks : (t > next) <=> (task[t] = "waiting")

\* The promise resolves only when every tenant was seeded: a failed tenant has
\* rejected it before its own .finally can resolve it (spans.ts:234-240).
ResolvedMeansAllDone ==
    promise = "resolved" => completed = NTasks /\ \A t \in Tasks : task[t] = "done"

\* While the promise is pending no slot stands idle with tenants left to start: a
\* drain() that was skipped after a callback would break this (spans.ts:238-243).
NoIdleSlot == promise \in {"pending", "rejected"} =>
                 next = NTasks \/ inFlight = Concurrency

\* The counter that the progress log prints counts the tasks whose .then ran.
CompletedIsCounted ==
    completed = Cardinality({t \in Tasks : task[t] \in {"fulfilled", "done"}})

\* A failure has rejected the promise, and before the executor ran nothing was started.
FailureRejects == (\E t \in Tasks : task[t] \in {"failed", "lost"}) => promise = "rejected"
NothingBegun   == promise = "new" => next = 0 /\ inFlight = 0

\* The inductive invariant: why resolve() is never called too early.  When the last
\* slot is given back every task has been started and none holds a slot, so each is
\* done or lost; a lost one would have rejected the promise (spans.ts:226-248).
PoolInv ==
    /\ PoolTypeOK
    /\ SlotsAreCounted /\ StartedInOrder /\ CompletedIsCounted
    /\ FailureRejects /\ NothingBegun /\ NoIdleSlot
    /\ ResolvedMeansAllDone
=============================================================================
