---------------------------- MODULE ExplainScripts ----------------------------
(***************************************************************************)
(* The four commands that explain queries outside the benchmark (explain.ts,*)
(* explain-qconv-samples.ts, explain-a-regressions.ts and                  *)
(* explain-qconv-under-load.ts in src/src): samples of one or more         *)
(* workloads are explained one after the other and printed as rows.  The   *)
(* last script does so while Concurrency - 1 pressure workers query the    *)
(* same pool of conversations until a module-level flag tells them to stop.*)
(***************************************************************************)
EXTENDS Integers, Sequences, FiniteSets

CONSTANTS Samples,                  \* EXPLAIN_SAMPLES
          ConversationsPerTenant,
          Concurrency,              \* CONCURRENCY
          PoolFlags                 \* the values of POOL

\* With one conversation the clustered half is empty: explain-a-regressions.ts:38 then
\* takes `sample % 0`, which is no number, and explains a conversation nobody seeded.
ASSUME ScriptsAssumption ==
    /\ Samples \in Nat \ {0} /\ Concurrency \in Nat \ {0}
    /\ ConversationsPerTenant \in Nat \ {0, 1}
    /\ \A flag \in PoolFlags : flag \in Seq({"clustered", "scattered"}) \ {<<>>}

VARIABLES script,         \* the command, and what its flags ask for:
          workloads,      \* the pool of conversations of each workload, in order
          strategies,     \* the strategies each sample is explained for, in order
          stage,          \* what main() awaits
          asked,          \* the conversation in the statement it awaits
          rows,           \* the rows printed
          stopPressure,   \* the flag
          worker          \* worker[p][i]: worker i of the p-th pool

flags == <<script, workloads, strategies>>
vars  == <<flags, stage, asked, rows, stopPressure, worker>>

Workers == 1..(Concurrency - 1)
Exited  == {"exit0", "exit1"}
Half    == ConversationsPerTenant \div 2
OnlyInB == ConversationsPerTenant       \* a conversation of W1, not a seeded one
Cutoff  == ConversationsPerTenant + 1   \* the key of a row without a conversation

\* The conversations of a pool; "any" row of the tenant has any of them.
Conversations(pool) ==
    CASE pool = "clustered" -> 0..(Half - 1)
      [] pool = "scattered" -> Half..(ConversationsPerTenant - 1)
      [] pool = "any"       -> 0..OnlyInB
      [] pool = "spans"     -> {Cutoff}

\* Mutants of conversationIndex: both halves taken to be equally long, and `half`
\* mistaken for the total.
conversationIndexHalves(pool, sample) ==
    (IF pool = "clustered" THEN 0 ELSE Half) + (sample % Half)
conversationIndexTotal(pool, sample) ==
    IF pool = "clustered" THEN sample % ConversationsPerTenant
    ELSE Half + (sample % (ConversationsPerTenant - Half))

\* The conversation of a sample, where it is not drawn at random.
conversationIndex(pool, sample) ==
    IF pool = "clustered" THEN sample % Half
    ELSE Half + (sample % (ConversationsPerTenant - Half))

\* The nested loops of a script: what its n-th explain is about.
PerWorkload == (IF script = "explain" THEN 1 ELSE Samples) * Len(strategies)
Explains    == Len(workloads) * PerWorkload
Item(n) ==
    IF script = "explain"
    THEN [workload |-> 2 - (n % 2), sample |-> 0, strategy |-> strategies[(n + 1) \div 2]]
    ELSE [workload |-> (n - 1) \div PerWorkload + 1,
          sample   |-> ((n - 1) % PerWorkload) \div Len(strategies),
          strategy |-> strategies[((n - 1) % Len(strategies)) + 1]]
PoolOf(n) == workloads[Item(n).workload]

\* The conversation the n-th explain may be about.
Keys(n) ==
    CASE script = "under_load" \/ PoolOf(n) = "spans" -> Conversations(PoolOf(n))
      [] script = "explain" -> {asked}
      [] OTHER -> {conversationIndex(PoolOf(n), Item(n).sample)}

NoWorkers == [p \in DOMAIN workloads |-> [i \in Workers |-> "none"]]

Init ==
    /\ \/ /\ script = "under_load" /\ workloads \in PoolFlags
          /\ strategies \in {<<"a">>, <<"b">>}
       \/ /\ script = "regressions" /\ strategies = <<"a", "b">>
          /\ workloads = <<"clustered", "scattered", "scattered", "spans">>
       \/ /\ script = "samples" /\ strategies = <<"a", "b">>
          /\ workloads \in {<<"clustered">>, <<"scattered">>}
       \/ script = "explain" /\ strategies = <<"b", "a">> /\ workloads = <<"any", "any">>
    /\ stage = "start" /\ asked = Cutoff /\ rows = <<>>
    /\ stopPressure = FALSE /\ worker = NoWorkers

\* The n-th explain is sent.
Ask(n) == stage' = "explain" /\ asked' \in Keys(n)

\* runPool: every worker sends its first query; then the warm-up, if there is one.
StartPool(p) ==
    /\ stopPressure' = FALSE
    /\ worker' = [worker EXCEPT ![p] = [i \in Workers |-> "querying"]]
    /\ \/ stage' = "pressure" /\ asked' = asked
       \/ Ask(Len(rows) + 1)

\* The tenants are loaded and the header is printed.
Begin ==
    /\ stage = "start"
    /\ IF script = "under_load" THEN StartPool(1)
       ELSE /\ IF script = "explain" THEN stage' = "row" /\ asked' = asked ELSE Ask(1)
            /\ UNCHANGED <<stopPressure, worker>>
    /\ UNCHANGED <<flags, rows>>

\* explain.ts takes the conversation of any row that B's table has for the tenant.
AnyRow ==
    /\ stage = "row"
    /\ stage' = "explain" /\ asked' \in Conversations("any")
    /\ UNCHANGED <<flags, rows, stopPressure, worker>>

\* The warm-up is over, or MAX("timestamp") of A's spans is known.
Ready ==
    /\ stage \in {"pressure", "max"}
    /\ Ask(Len(rows) + 1)
    /\ UNCHANGED <<flags, rows, stopPressure, worker>>

\* An explain is answered and its row printed.  The last one of a pool sets the flag.
Explained ==
    /\ stage = "explain"
    /\ rows' = Append(rows, [item |-> Item(Len(rows) + 1), key |-> asked])
    /\ LET n == Len(rows) + 2
           next == IF script = "under_load" /\ Len(rows') % PerWorkload = 0 THEN "stopping"
                   ELSE IF n > Explains THEN "closing"
                   ELSE IF PoolOf(n) = "spans" /\ PoolOf(n - 1) # "spans" THEN "max"
                   ELSE "explain"
       IN /\ IF next = "explain" THEN Ask(n) ELSE stage' = next /\ asked' = asked
          /\ stopPressure' = (stopPressure \/ next = "stopping")
    /\ UNCHANGED <<flags, worker>>

\* Mutant of Answered: nobody looks at the flag.
AnsweredUnchecked(p, i) == worker[p][i] = "querying" /\ UNCHANGED vars

\* A pressure query is answered or refused; the worker sends the next one, or ends.
Answered(p, i) ==
    /\ worker[p][i] = "querying"
    /\ worker' = [worker EXCEPT ![p][i] = IF stopPressure THEN "ended" ELSE "querying"]
    /\ UNCHANGED <<flags, stage, asked, rows, stopPressure>>

\* Mutant of Awaited: the flag is thought to be enough.
AwaitedNone(p) == TRUE

\* await Promise.all(pressureWorkers)
Awaited(p) == \A i \in Workers : worker[p][i] = "ended"

EndPool ==
    /\ stage = "stopping"
    /\ LET p == Len(rows) \div PerWorkload
       IN /\ Awaited(p)
          /\ IF p < Len(workloads) THEN StartPool(p + 1)
             ELSE stage' = "closing" /\ UNCHANGED <<asked, stopPressure, worker>>
    /\ UNCHANGED <<flags, rows>>

\* sql.end() is done: main() returns, and nothing keeps the process alive.
Close ==
    /\ stage = "closing" /\ \A p \in DOMAIN worker, i \in Workers : worker[p][i] # "querying"
    /\ stage' = "exit0"
    /\ UNCHANGED <<flags, asked, rows, stopPressure, worker>>

\* A flag, the tenants file or a statement is refused: the process exits at once.
Fail ==
    /\ stage \notin Exited
    /\ stage' = "exit1" /\ worker' = NoWorkers
    /\ UNCHANGED <<flags, asked, rows, stopPressure>>

Main == Begin \/ AnyRow \/ Ready \/ Explained \/ EndPool \/ Close
Next == Main \/ Fail \/ \E p \in DOMAIN worker, i \in Workers : Answered(p, i)

\* Statements are answered or refused, and the warm-up ends.
Fairness == WF_vars(Main) /\ WF_vars(\E p \in DOMAIN worker, i \in Workers : Answered(p, i))

Spec == Init /\ [][Next]_vars /\ Fairness

-----------------------------------------------------------------------------
TypeOK ==
    /\ stage \in {"start", "row", "pressure", "explain", "max", "stopping", "closing"} \cup Exited
    /\ asked \in 0..Cutoff /\ stopPressure \in BOOLEAN
    /\ worker \in [DOMAIN workloads -> [Workers -> {"none", "querying", "ended"}]]
    /\ Len(rows) <= Explains
    /\ \A n \in 1..Len(rows) : rows[n].key \in Conversations(PoolOf(n))

\* An explain runs under all of its own pool's pressure and under no other: from the
\* moment it is sent until it is answered the CONCURRENCY - 1 workers of its pool query,
\* and no worker that an earlier pool left behind was revived by the flag's reset
\* (explain-qconv-under-load.ts:127-132,170-171).  When the connections are closed, no
\* query is in flight (:206).
SampledUnderFullLoad ==
    /\ script = "under_load" /\ stage = "explain" =>
          \A p \in DOMAIN worker, i \in Workers :
              worker[p][i] = "querying" <=> p = Item(Len(rows) + 1).workload
    /\ stage \in {"closing", "exit0"} =>
          \A p \in DOMAIN worker, i \in Workers : worker[p][i] # "querying"

\* What the rows of the other scripts are read for: the two strategies of a sample were
\* explained for the same conversation, and samples of a workload are different
\* conversations until all of its half have been used (explain-a-regressions.ts:35-40,
\* 165-187; explain-qconv-samples.ts:36-41,118-135); with exit code 0 none is missing.
RowsAreComparable ==
    script # "under_load" =>
        /\ \A m, n \in 1..Len(rows) :
              LET one == rows[m].item
                  two == rows[n].item
                  pool == Conversations(PoolOf(m))
              IN /\ one.workload = two.workload /\ one.sample = two.sample =>
                        rows[m].key = rows[n].key
                 /\ one.workload = two.workload /\ PoolOf(m) # "spans"
                    /\ two.sample - one.sample \in 1..(Cardinality(pool) - 1) =>
                        rows[m].key # rows[n].key
        /\ stage = "exit0" =>
              \A w \in DOMAIN workloads, s \in {"a", "b"} :
                  Cardinality({n \in 1..Len(rows) : rows[n].item.workload = w
                                                    /\ rows[n].item.strategy = s})
                      = IF script = "explain" THEN 1 ELSE Samples

\* The script ends: a worker that is told to stop does, so that Promise.all settles.
ScriptEnds == <>(stage \in Exited)
=============================================================================
