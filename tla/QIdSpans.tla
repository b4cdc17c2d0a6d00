------------------------------- MODULE QIdSpans -------------------------------
(***************************************************************************)
(* The Q-id workload over spans (src/src/workloads/q-id.ts:7-8,56-143) as  *)
(* the benchmark runs it: several virtual users draw tenants at random and *)
(* share one cursor per tenant, read before the query and written after it *)
(* (src/src/runner/concurrency.ts:15-30), and the runner goes through the  *)
(* strategies in one process, so the module-level Map outlives a strategy  *)
(* (src/src/runner/index.ts:146-231).                                      *)
(***************************************************************************)
EXTENDS Integers, FiniteSets, FiniteSetsExt, Pages

CONSTANTS VUs,            \* virtual users
          Tenants,
          Strategies,     \* strategies in the order they are run: 1..n
          Seeded,         \* Seeded[s][t]: rows of tenant t's table in strategy s
          MaxInserts,     \* bound: rows W2 adds while the benchmark runs
          MaxErrors       \* bound: calls that fail

ASSUME QIdAssumption ==
    /\ MaxInserts \in Nat /\ MaxErrors \in Nat
    /\ Strategies \in Nat \ {0}
    /\ Seeded \in [1..Strategies -> [Tenants -> SUBSET Rows]]
    /\ \A s \in 1..Strategies, t \in Tenants : IsFiniteSet(Seeded[s][t])

VARIABLES spansCursors,   \* the Map: last row of the page read last, 0 if no entry
          call,           \* what each virtual user is waiting for
          table,          \* rows of the current strategy's tables
          strategy,       \* index of the strategy being run
          inserts, errors,
          served          \* history: rows returned to some call of this strategy

vars == <<spansCursors, call, table, strategy, inserts, errors, served>>

Idle == [at |-> "idle"]

Init ==
    /\ spansCursors = [t \in Tenants |-> NoCursor]
    /\ call = [v \in VUs |-> Idle]
    /\ strategy = 1 /\ table = Seeded[1]
    /\ inserts = 0 /\ errors = 0
    /\ served = [t \in Tenants |-> {}]

\* A virtual user draws a tenant, reads its cursor and sends the query.
Begin(v, t) ==
    /\ call[v] = Idle
    /\ call' = [call EXCEPT ![v] = [at |-> "sent", tenant |-> t, cursor |-> spansCursors[t]]]
    /\ UNCHANGED <<spansCursors, table, strategy, inserts, errors, served>>

\* The database evaluates the query.
Execute(v) ==
    /\ call[v].at = "sent"
    /\ LET t == call[v].tenant
           p == Page(table[t], call[v].cursor)
       IN call' = [call EXCEPT ![v] = [at |-> "answered", tenant |-> t, rows |-> p]]
    /\ UNCHANGED <<spansCursors, table, strategy, inserts, errors, served>>

\* Mutant of Return: the cursor is never stored.
ReturnForgets(v) ==
    /\ call[v].at = "answered"
    /\ served' = [served EXCEPT ![call[v].tenant] = @ \cup call[v].rows]
    /\ call' = [call EXCEPT ![v] = Idle]
    /\ UNCHANGED <<spansCursors, table, strategy, inserts, errors>>

\* The await returns: the last row becomes the cursor, or an empty page deletes it.
Return(v) ==
    /\ call[v].at = "answered"
    /\ spansCursors' = [spansCursors EXCEPT ![call[v].tenant] =
                           IF call[v].rows # {} THEN Min(call[v].rows) ELSE NoCursor]
    /\ served' = [served EXCEPT ![call[v].tenant] = @ \cup call[v].rows]
    /\ call' = [call EXCEPT ![v] = Idle]
    /\ UNCHANGED <<table, strategy, inserts, errors>>

\* Every n-th call only explains its query (BENCH_EXPLAIN_EVERY), and leaves the cursor
\* as it is.  Which ones is left open here: there is no bound on them.
Explained(v) ==
    /\ call[v].at = "sent"
    /\ call' = [call EXCEPT ![v] = Idle]
    /\ UNCHANGED <<spansCursors, table, strategy, inserts, errors, served>>

\* The call throws, before or after the database ran its query: the cursor stays.
Fail(v) ==
    /\ call[v] # Idle /\ errors < MaxErrors
    /\ errors' = errors + 1
    /\ call' = [call EXCEPT ![v] = Idle]
    /\ UNCHANGED <<spansCursors, table, strategy, inserts, served>>

\* W2 of the mixed workloads inserts spans that are newer than all others.
Insert(t) ==
    /\ inserts < MaxInserts
    /\ inserts' = inserts + 1
    /\ table' = [table EXCEPT ![t] = @ \cup {Max(@ \cup {0}) + 1}]
    /\ UNCHANGED <<spansCursors, call, strategy, errors, served>>

\* Every call of a scenario is awaited before the runner goes on to the next strategy.
NextStrategy ==
    /\ strategy < Strategies /\ \A v \in VUs : call[v] = Idle
    /\ strategy' = strategy + 1 /\ table' = Seeded[strategy + 1]
    /\ served' = [t \in Tenants |-> {}]
    /\ UNCHANGED <<spansCursors, call, inserts, errors>>

Next == \/ \E v \in VUs : \/ \E t \in Tenants : Begin(v, t)
                          \/ Execute(v) \/ Return(v) \/ Explained(v) \/ Fail(v)
        \/ \E t \in Tenants : Insert(t)
        \/ NextStrategy

\* Each call is answered, and a random draw neglects no tenant for ever: neither are the
\* calls of a tenant always those that explain.  (With BENCH_EXPLAIN_EVERY=1 they are, and
\* no cursor ever moves.)
Fairness == \A v \in VUs : /\ WF_vars(Return(v))
                           /\ \A t \in Tenants : /\ SF_vars(Begin(v, t))
                                                 /\ SF_vars(Execute(v) /\ call[v].tenant = t)

Spec == Init /\ [][Next]_vars /\ Fairness

-----------------------------------------------------------------------------
Calls ==
    {Idle} \cup [at : {"sent"}, tenant : Tenants, cursor : Nat]
           \cup [at : {"answered"}, tenant : Tenants, rows : SUBSET Rows]

TypeOK ==
    /\ spansCursors \in [Tenants -> Nat]
    /\ call \in [VUs -> Calls]
    /\ table \in [Tenants -> SUBSET Rows]
    /\ strategy \in 1..Strategies
    /\ inserts \in 0..MaxInserts /\ errors \in 0..MaxErrors
    /\ served \in [Tenants -> SUBSET Rows]

\* However the calls of several users interleave, a cursor stands at row r only when
\* every seeded row from r up has been returned to some call: no write of a stale
\* page makes the sweep jump over rows (q-id.ts:58,131-136).  It is so for the first
\* strategy of a command only: the next one begins where this one left the cursors.
Covered(t, cursor) ==
    cursor # NoCursor => \A r \in Seeded[1][t] : r >= cursor => r \in served[t]
CursorCoversPrefix ==
    strategy = 1 => \A t \in Tenants : Covered(t, spansCursors[t])

\* "When results are exhausted the cursor resets" (BENCHMARK.md:291): an empty page,
\* the only thing that deletes a cursor, comes after every seeded row was returned.
ExhaustedMeansSwept ==
    strategy = 1 => \A v \in VUs : call[v].at = "answered" =>
        (call[v].rows = {} => Seeded[1][call[v].tenant] \subseteq served[call[v].tenant])

\* What keeps it so: the cursor that a call was sent with is covered like the Map's own,
\* however long ago it was read, and so is what an answer adds to the rows returned, up
\* to its last row or, if it is empty, altogether.
CallsCover ==
    strategy = 1 =>
        /\ \A t \in Tenants : Seeded[1][t] \subseteq table[t]
        /\ \A v \in VUs :
              /\ call[v].at = "sent" => Covered(call[v].tenant, call[v].cursor)
              /\ call[v].at = "answered" =>
                    \A q \in Seeded[1][call[v].tenant] :
                        call[v].rows = {} \/ (\E r \in call[v].rows : q >= r) =>
                            q \in served[call[v].tenant] \cup call[v].rows

\* The inductive invariant.
TablesAreFinite == \A t \in Tenants : IsFiniteSet(table[t])
QIdInv == TypeOK /\ TablesAreFinite /\ CursorCoversPrefix /\ CallsCover

\* The sweep ends, if the strategy lasts: stale writes move the cursor back, but not
\* for ever, and calls that explain do not move it at all, but not every call explains.
SweepCompletes ==
    \A t \in Tenants : <>(Seeded[1][t] \subseteq served[t] \/ strategy # 1)
=============================================================================
