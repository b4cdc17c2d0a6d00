----------------------------- MODULE SchemaCreate -----------------------------
(***************************************************************************)
(* schema:create and schema:drop (src/src/schema/create.ts, drop.ts): for  *)
(* each strategy in turn, a queue of names - the shared pair of tables, or *)
(* one pair per tenant of the list - whose statements run DROP spans, DROP *)
(* items, CREATE spans, CREATE items, a few names at a time for A.  A      *)
(* failed DROP ends the command; a failed CREATE is retried (A) and then   *)
(* skipped.  The list is looked for in ./results, but read and written in  *)
(* RESULTS_DIR (seed/tenants.ts:34-44).  A command may be cut off anywhere *)
(* and any command may follow: what was in flight, or was given up, may    *)
(* reach the tables while a later command runs.                            *)
(***************************************************************************)
EXTENDS Naturals, Sequences, SequencesExt

CONSTANTS TenantCount,     \* config.tenantCount
          Concurrency,     \* CONCURRENCY
          Retries,         \* DDL_RETRIES
          SameDir,         \* is RESULTS_DIR the directory ./results?
          MaxInvocations,  \* bound: commands
          MaxRefused,      \* bound: CREATEs of a command that are refused
          MaxLate          \* bound: statements on their way that nobody waits for

ASSUME SchemaAssumption ==
    /\ TenantCount \in Nat \ {0} /\ Concurrency \in Nat \ {0} /\ Retries \in Nat \ {0}
    /\ SameDir \in BOOLEAN /\ MaxInvocations \in Nat \ {0}
    /\ MaxRefused \in Nat /\ MaxLate \in Nat

VARIABLES cmd,                \* the arguments of the command
          invocation,         \* its number
          phase,              \* "start", "strategy" (the loop's head), "saving" (the list),
                              \* "queue" or its exit
          todo,               \* strategies not finished
          here,               \* does ./results/tenants.json exist?
          list,               \* RESULTS_DIR/tenants.json: 0, or how often it was generated
          torn,               \* was its writing cut off?
          tenants,            \* names of strategy A
          queue,              \* the names being processed
          next, inFlight,     \* the pool's counters
          at, tries,          \* each name's statement, and its failed attempts
          created, skipped,   \* the counters that are reported
          refused,            \* statements refused so far (for the bound)
          table,              \* the tables: 0, or the command whose schema it has
          late,               \* statements on their way that nobody waits for any more
          disturbed           \* history: the tables that a late statement of an earlier
                              \* command changed after this command last dropped them

listVars == <<here, list, torn, tenants>>
poolVars == <<queue, next, inFlight, at, tries>>
counters == <<created, skipped, refused>>
cmdVars  == <<cmd, invocation>>
database == <<table, late, disturbed>>
vars     == <<cmdVars, phase, todo, listVars, poolVars, counters, database>>

Kinds    == {"spans", "items"}
Shared   == <<0, 0>>
Names    == {Shared} \cup (1..MaxInvocations + 1) \X (1..TenantCount)
Exited   == {"exit0", "exit1"}
Strategies == {<<"a">>, <<"b">>, <<"a", "b">>}
Commands == [do : {"create"}, strategies : Strategies, drop : BOOLEAN, given : {FALSE}]
       \cup [do : {"create"}, strategies : Strategies \ {<<"b">>}, drop : BOOLEAN, given : {TRUE}]
       \cup [do : {"drop"}, strategies : Strategies, drop : {FALSE}, given : {FALSE}]

\* Statements 1 to 4 of a name; 0 before and 5 after them.
Waiting  == 0
Done     == 5
Drops    == {1, 2}
Creates  == {3, 4}
KindOf(k) == IF k \in {1, 3} THEN "spans" ELSE "items"
First    == IF cmd.do = "drop" \/ cmd.drop THEN 1 ELSE 3
After(k) == IF k = 4 \/ (cmd.do = "drop" /\ k = 2) THEN Done ELSE k + 1

NamesOf(g) == [i \in 1..TenantCount |-> <<g, i>>]
Given      == <<<<1, 1>>>>

Width    == IF Head(todo) = "a" /\ cmd.do = "create" THEN Concurrency ELSE 1
Attempts == IF Head(todo) = "a" THEN Retries ELSE 1

\* The list may have been made before, by the seeder.
Init == /\ cmd \in Commands /\ invocation = 1
        /\ phase = "start" /\ todo = cmd.strategies
        /\ tenants = <<>> /\ queue = <<>> /\ next = 0 /\ inFlight = 0
        /\ at = <<>> /\ tries = <<>> /\ created = 0 /\ skipped = 0 /\ refused = 0
        /\ list \in {0, 1} /\ here \in IF SameDir THEN {list # 0} ELSE BOOLEAN
        /\ torn = FALSE
        /\ table = [e \in Kinds \X Names |-> 0] /\ late = {} /\ disturbed = {}

\* There is no queue between two strategies, or in a process that has ended.
NoQueue == queue' = <<>> /\ next' = 0 /\ inFlight' = 0 /\ at' = <<>> /\ tries' = <<>>

Busy(i) == phase = "queue" /\ at[i] \in Drops \cup Creates

Statement(i) == [stmt |-> at[i], name |-> queue[i], by |-> invocation]
Flying       == {Statement(i) : i \in {j \in DOMAIN queue : Busy(j)}}

\* The process ends.  Any of the statements in flight may still reach the database.
Fail == /\ phase' = "exit1" /\ todo' = <<>> /\ tenants' = <<>> /\ NoQueue
        /\ created' = 0 /\ skipped' = 0 /\ refused' = 0
        /\ \E S \in SUBSET Flying : /\ Cardinality(late \cup S) <= MaxLate
                                    /\ late' = late \cup S
        /\ UNCHANGED <<cmdVars, here, list, torn, table, disturbed>>

\* loadTenants() throws if the list is not there, or not whole.
Readable == list # 0 /\ ~torn

\* schema:create looks for A's names before the loop over the strategies, also when B
\* is going to generate the list.
Start ==
    /\ phase = "start"
    /\ \/ /\ "a" \in ToSet(todo) /\ cmd.do = "create"
          /\ cmd.given \/ (here /\ Readable)
          /\ tenants' = IF cmd.given THEN Given ELSE NamesOf(list)
          /\ phase' = "strategy"
          /\ UNCHANGED <<cmdVars, todo, here, list, torn, poolVars, counters, database>>
       \/ /\ "a" \in ToSet(todo) /\ cmd.do = "create"
          /\ ~cmd.given /\ ~(here /\ Readable)
          /\ Fail
       \/ /\ ~("a" \in ToSet(todo) /\ cmd.do = "create")
          /\ phase' = "strategy"
          /\ UNCHANGED <<cmdVars, todo, listVars, poolVars, counters, database>>

\* drain(): names are begun while a slot is free.
Drain(names, n, f, stmts) ==
    LET room == IF f < Width THEN Min({Width - f, Len(names) - n}) ELSE 0
    IN /\ queue' = names /\ next' = n + room /\ inFlight' = f + room
       /\ at' = [i \in DOMAIN names |-> IF i \in n + 1 .. n + room THEN First ELSE stmts[i]]

Enqueue(names) ==
    /\ Drain(names, 0, 0, [i \in DOMAIN names |-> Waiting])
    /\ tries' = [i \in DOMAIN names |-> 0]
    /\ phase' = "queue"
    /\ UNCHANGED <<cmdVars, todo, counters, database>>

\* Mutant of BeginB: the list is generated whether or not there is one.
BeginBAnew ==
    /\ phase = "strategy" /\ Head(todo) = "b" /\ cmd.do = "create"
    /\ list <= invocation
    /\ list' = list + 1 /\ here' = (here \/ SameDir) /\ torn' = TRUE /\ phase' = "saving"
    /\ UNCHANGED <<cmdVars, todo, tenants, poolVars, counters, database>>

\* Strategy B of schema:create begins to write a list if ./results has none, or else
\* loads the list (which throws if RESULTS_DIR has none that is whole).
BeginB ==
    /\ phase = "strategy" /\ Head(todo) = "b" /\ cmd.do = "create"
    /\ \/ /\ ~here
          /\ list' = list + 1 /\ here' = SameDir /\ torn' = TRUE /\ phase' = "saving"
          /\ UNCHANGED <<cmdVars, todo, tenants, poolVars, counters, database>>
       \/ /\ here /\ Readable
          /\ tenants' = NamesOf(list) /\ Enqueue(<<Shared>>)
          /\ UNCHANGED <<here, list, torn>>
       \/ here /\ ~Readable /\ Fail

\* The list is written.
EndSave ==
    /\ phase = "saving" /\ torn' = FALSE
    /\ tenants' = NamesOf(list) /\ Enqueue(<<Shared>>)
    /\ UNCHANGED <<here, list>>

BeginA ==
    /\ phase = "strategy" /\ Head(todo) = "a" /\ cmd.do = "create"
    /\ Enqueue(tenants) /\ UNCHANGED listVars

\* schema:drop: the shared tables, or those of every tenant of the list.
BeginDrop ==
    /\ phase = "strategy" /\ cmd.do = "drop"
    /\ \/ Head(todo) = "b" /\ Enqueue(<<Shared>>) /\ UNCHANGED listVars
       \/ /\ Head(todo) = "a" /\ here /\ Readable
          /\ tenants' = NamesOf(list) /\ Enqueue(NamesOf(list))
          /\ UNCHANGED <<here, list, torn>>
       \/ Head(todo) = "a" /\ ~(here /\ Readable) /\ Fail

\* The database executes statement k of a command on a name: DROP IF EXISTS, CREATE IF
\* NOT EXISTS.
Executed(k, n, command) ==
    [table EXCEPT ![<<KindOf(k), n>>] =
        IF k \in Drops THEN 0 ELSE IF @ = 0 THEN command ELSE @]

\* Mutant of GoOn: the slot is not given back.
GoOnLeaks(i) ==
    /\ tries' = [tries EXCEPT ![i] = 0]
    /\ IF After(at[i]) = Done
       THEN Drain(queue, next, inFlight, [at EXCEPT ![i] = Done])
       ELSE at' = [at EXCEPT ![i] = After(@)] /\ UNCHANGED <<queue, next, inFlight>>

\* A name goes on to its next statement, or gives its slot back and lets others begin.
GoOn(i) ==
    /\ tries' = [tries EXCEPT ![i] = 0]
    /\ IF After(at[i]) = Done
       THEN Drain(queue, next, inFlight - 1, [at EXCEPT ![i] = Done])
       ELSE at' = [at EXCEPT ![i] = After(@)] /\ UNCHANGED <<queue, next, inFlight>>

\* A statement succeeds.  The step is its execution: nothing but its own name waits for
\* the answer.
Answer(i) ==
    /\ Busy(i)
    /\ table' = Executed(at[i], queue[i], invocation)
    /\ disturbed' = IF at[i] \in Drops THEN disturbed \ {<<KindOf(at[i]), queue[i]>>} ELSE disturbed
    /\ created' = IF at[i] = 3 /\ Head(todo) = "a" THEN created + 1 ELSE created
    /\ GoOn(i)
    /\ UNCHANGED <<cmdVars, phase, todo, listVars, skipped, refused, late>>

\* Mutant of Refuse: the counter of created tables is not behind the catch.
RefuseCounts(i) ==
    /\ Busy(i) /\ at[i] \in Creates
    /\ GoOn(i)
    /\ created' = IF at[i] = 3 /\ Head(todo) = "a" THEN created + 1 ELSE created
    /\ UNCHANGED <<cmdVars, phase, todo, listVars, skipped, refused, database>>

\* A statement throws.  It may still reach the database, at once or later (Land).
Refuse(i) ==
    /\ Busy(i)
    /\ \/ at[i] \in Drops /\ Fail
       \/ /\ at[i] \in Creates /\ refused < MaxRefused /\ refused' = refused + 1
          /\ \/ late' = late
             \/ Cardinality(late) < MaxLate /\ late' = late \cup {Statement(i)}
          /\ \/ /\ tries[i] + 1 < Attempts
                /\ tries' = [tries EXCEPT ![i] = @ + 1]
                /\ UNCHANGED <<queue, next, inFlight, at, skipped>>
             \/ /\ tries[i] + 1 = Attempts
                /\ GoOn(i)
                /\ skipped' = IF at[i] = 3 /\ Head(todo) = "a" THEN skipped + 1 ELSE skipped
          /\ UNCHANGED <<cmdVars, phase, todo, listVars, created, table, disturbed>>

\* The database executes a statement that its command no longer waits for.  Another copy
\* of it may still be on its way if it is one that is retried.
Land(m) ==
    /\ table' = Executed(m.stmt, m.name, m.by)
    /\ \/ late' = late \ {m}
       \/ m.stmt \in Creates /\ Retries > 1 /\ late' = late
    /\ disturbed' = IF m.by < invocation /\ table' # table
                    THEN disturbed \cup {<<KindOf(m.stmt), m.name>>} ELSE disturbed
    /\ UNCHANGED <<cmdVars, phase, todo, listVars, poolVars, counters>>

\* Mutant of EndStrategy: the last name begun is not waited for.
EndStrategyEarly ==
    /\ phase = "queue" /\ next = Len(queue)
    /\ todo' = Tail(todo) /\ NoQueue
    /\ phase' = IF todo' = <<>> THEN "exit0" ELSE "strategy"
    /\ UNCHANGED <<cmdVars, listVars, counters, database>>

\* The queue is empty and every slot given back: on to the next strategy.
EndStrategy ==
    /\ phase = "queue" /\ next = Len(queue) /\ inFlight = 0
    /\ todo' = Tail(todo) /\ NoQueue
    /\ phase' = IF todo' = <<>> THEN "exit0" ELSE "strategy"
    /\ UNCHANGED <<cmdVars, listVars, counters, database>>

Interrupt == phase \notin Exited /\ Fail

\* The operator runs another command.
Rerun ==
    /\ phase \in Exited /\ invocation < MaxInvocations
    /\ cmd' \in Commands /\ invocation' = invocation + 1
    /\ phase' = "start" /\ todo' = cmd'.strategies
    /\ tenants' = <<>> /\ created' = 0 /\ skipped' = 0 /\ refused' = 0
    /\ disturbed' = {}
    /\ UNCHANGED <<here, list, torn, poolVars, table, late>>

Progress == Start \/ BeginB \/ EndSave \/ BeginA \/ BeginDrop \/ EndStrategy
            \/ \E i \in DOMAIN queue : Answer(i) \/ Refuse(i)

Next == Progress \/ Interrupt \/ Rerun \/ \E m \in late : Land(m)

\* Statements are answered, and the retries of a CREATE are counted.  A late statement
\* need not land.
Spec == Init /\ [][Next]_vars /\ WF_vars(Progress)

-----------------------------------------------------------------------------
Statements == [stmt : Drops \cup Creates, name : Names, by : 1..MaxInvocations]

TypeOK ==
    /\ cmd \in Commands /\ invocation \in 1..MaxInvocations
    /\ phase \in {"start", "strategy", "saving", "queue"} \cup Exited
    /\ {here, torn} \subseteq BOOLEAN /\ list \in 0..MaxInvocations + 1
    /\ ToSet(queue) \subseteq Names
    /\ next \in 0..Len(queue) /\ inFlight \in 0..Concurrency
    /\ phase = "queue" => inFlight = Cardinality({i \in DOMAIN queue : Busy(i)})
    /\ table \in [Kinds \X Names -> 0..MaxInvocations]
    /\ late \subseteq Statements /\ disturbed \subseteq Kinds \X Names

NamesOfA == IF cmd.do = "create" /\ cmd.given THEN ToSet(Given) ELSE ToSet(tenants)
Selected == UNION {IF s = "b" THEN {Shared} ELSE NamesOfA : s \in ToSet(cmd.strategies)}

\* After a command that drops and exits with 0 no table of an earlier schema variant is
\* left among the selected ones, unless a CREATE of a command that had ended before
\* landed on it after this command's own DROP (README.md:169-175 relies on it to change
\* ITEM_PK or PARTITION_KEY: CREATE IF NOT EXISTS would silently keep an old table).
DroppedIsGone ==
    phase = "exit0" /\ (cmd.do = "drop" \/ cmd.drop) =>
        \A k \in Kinds, n \in Selected :
            table[<<k, n>>] \in {0, invocation} \/ <<k, n>> \in disturbed

\* "created N tenant table sets, skipped M" (create.ts:144): N and M add up to the
\* tenants, and at least N of them have a spans table, or had it until a DROP of a
\* command that had ended before landed, however the pool's tasks interleave.
ReportIsTrue ==
    phase = "exit0" /\ cmd.do = "create" /\ "a" \in ToSet(cmd.strategies) =>
        /\ created + skipped = Cardinality(NamesOfA)
        /\ created <= Cardinality({n \in NamesOfA :
                                     table[<<"spans", n>>] # 0 \/ <<"spans", n>> \in disturbed})

\* "generates results/tenants.json (if not already present)" (README.md:155): a list
\* that exists is never replaced; the seeded tables carry its tenants' names.
ListIsKept == [][list # 0 => list' = list]_list

\* A command that is not interrupted ends.
CommandEnds == (phase = "start") ~> (phase \in Exited)
=============================================================================
