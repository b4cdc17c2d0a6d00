-------------------------- MODULE SchemaCreate_proof --------------------------
(***************************************************************************)
(* Proofs about SchemaCreate, for any number of tenants, slots, attempts   *)
(* and commands: SchemaInv is inductive.  It relates each name's place in  *)
(* the queue to the tables it names, the counters to the places, the names *)
(* of a strategy that is finished to the list they were read from, and the *)
(* statements on their way to the command that sent them.                  *)
(***************************************************************************)
EXTENDS SchemaCreate, Integers, FiniteSetTheorems, SequenceTheorems, TLAPS

USE SchemaAssumption

Dropping == cmd.do = "drop" \/ cmd.drop
Running  == phase \in {"strategy", "saving", "queue", "exit0"}
Ended(s) == Running /\ s \in ToSet(cmd.strategies) /\ s \notin ToSet(todo)
NamesFor(s) == IF s = "b" THEN {Shared} ELSE NamesOfA

\* What a DROP of this command and a CREATE that it counted leave of a table.
Settled(k, n) == table[<<k, n>>] \in {0, invocation} \/ <<k, n>> \in disturbed
Standing(n)   == table[<<"spans", n>>] # 0 \/ <<"spans", n>> \in disturbed

\* The indexes of the names whose statements are not finished, of those whose spans
\* table was created or skipped, and of those among them that have one.
BusyOnes == {i \in DOMAIN queue : at[i] \in 1..4}
Past     == {i \in DOMAIN queue : at[i] >= 4}
Made     == {i \in Past : Standing(queue[i])}

BaseInv ==
    /\ cmd \in Commands /\ invocation \in 1..MaxInvocations
    /\ phase \in {"start", "strategy", "saving", "queue"} \cup Exited
    /\ here \in BOOLEAN /\ torn \in BOOLEAN /\ list \in 0..invocation + 1
    /\ queue \in Seq(Names) /\ tenants \in Seq(Names)
    /\ next \in 0..Len(queue) /\ inFlight \in 0..Concurrency
    /\ created \in Nat /\ skipped \in Nat
    /\ table \in [Kinds \X Names -> 0..MaxInvocations]
    /\ late \subseteq Statements /\ disturbed \subseteq Kinds \X Names

TodoInv ==
    /\ phase = "start" => todo = cmd.strategies
    /\ phase \in {"strategy", "saving", "queue"} =>
          todo = cmd.strategies \/ (cmd.strategies = <<"a", "b">> /\ todo = <<"b">>)
    /\ phase = "exit0" => todo = <<>>

\* The list is generated at most once by a command, and where SameDir holds it is
\* looked for where it is kept.
ListInv ==
    /\ phase \in {"start", "strategy", "queue"} /\ "b" \in ToSet(todo)
          /\ ~(phase = "queue" /\ Head(todo) = "b") => list <= invocation
    /\ SameDir => (here <=> list # 0)
    /\ phase = "saving" => list # 0 /\ Head(todo) = "b" /\ cmd.do = "create"

\* A's names are those given or those of the list, which cannot be replaced any more.
NamesInv ==
    Running /\ "a" \in ToSet(cmd.strategies) =>
        /\ cmd.do = "create" /\ cmd.given /\ "a" \in ToSet(todo) => tenants = Given
        /\ cmd.do = "create" /\ ~cmd.given => here /\ list # 0 /\ tenants = NamesOf(list)
        /\ cmd.do = "drop" /\ (phase = "queue" \/ "a" \notin ToSet(todo)) =>
              list # 0 /\ tenants = NamesOf(list)

QueueInv ==
    phase = "queue" =>
        /\ queue = IF Head(todo) = "b" THEN <<Shared>> ELSE tenants
        /\ at \in [DOMAIN queue -> 0..5]
        /\ \A i \in DOMAIN queue : i > next <=> at[i] = Waiting
        /\ inFlight = Cardinality(BusyOnes)

\* What is on its way was sent by this command or an earlier one, and a DROP of this
\* command is on its way, with nobody waiting, only if it ended the command.
LateInv ==
    \A m \in late : /\ m.by <= invocation
                    /\ m.by = invocation /\ m.stmt \in Drops => phase = "exit1"

\* What is behind a DROP of this command is settled.
DropInv ==
    Dropping =>
        /\ phase = "queue" => \A i \in DOMAIN queue :
              /\ at[i] >= 2 => Settled("spans", queue[i])
              /\ at[i] >= 3 => Settled("items", queue[i])
        /\ \A s \in {"a", "b"} : Ended(s) =>
              \A k \in Kinds, n \in NamesFor(s) : Settled(k, n)

\* The counters count the names past their spans table, and no table that is not there.
ReportInv ==
    /\ phase = "start" \/ (phase = "strategy" /\ "a" \in ToSet(todo)) =>
          created = 0 /\ skipped = 0
    /\ phase = "queue" /\ Head(todo) = "a" /\ cmd.do = "create" =>
          created + skipped = Cardinality(Past) /\ created <= Cardinality(Made)
    /\ Ended("a") /\ cmd.do = "create" =>
          /\ created + skipped = Cardinality(NamesOfA)
          /\ created <= Cardinality({n \in NamesOfA : Standing(n)})

SchemaInv == /\ BaseInv /\ TodoInv /\ ListInv /\ NamesInv /\ QueueInv
             /\ LateInv /\ DropInv /\ ReportInv

-----------------------------------------------------------------------------
\* The two strategies, one by one and together.
LEMMA StrategyFacts ==
    /\ ToSet(<<>>) = {} /\ ToSet(<<"a">>) = {"a"} /\ ToSet(<<"b">>) = {"b"}
    /\ ToSet(<<"a", "b">>) = {"a", "b"}
    /\ Head(<<"a">>) = "a" /\ Head(<<"b">>) = "b" /\ Head(<<"a", "b">>) = "a"
    /\ Tail(<<"a">>) = <<>> /\ Tail(<<"b">>) = <<>> /\ Tail(<<"a", "b">>) = <<"b">>
    /\ <<"a">> # <<"b">> /\ <<"a">> # <<"a", "b">> /\ <<"b">> # <<"a", "b">>
    /\ <<>> # <<"a">> /\ <<>> # <<"b">> /\ <<>> # <<"a", "b">>
<1>1. /\ ToSet(<<>>) = {} /\ ToSet(<<"a">>) = {"a"} /\ ToSet(<<"b">>) = {"b"}
      /\ ToSet(<<"a", "b">>) = {"a", "b"}
  BY DEF ToSet
<1>2. /\ Head(<<"a">>) = "a" /\ Head(<<"b">>) = "b" /\ Head(<<"a", "b">>) = "a"
      /\ Tail(<<"a">>) = <<>> /\ Tail(<<"b">>) = <<>> /\ Tail(<<"a", "b">>) = <<"b">>
  OBVIOUS
<1>3. /\ <<"a">> # <<"b">> /\ <<"a">> # <<"a", "b">> /\ <<"b">> # <<"a", "b">>
      /\ <<>> # <<"a">> /\ <<>> # <<"b">> /\ <<>> # <<"a", "b">>
  OBVIOUS
<1> QED BY <1>1, <1>2, <1>3

\* A command's arguments.
LEMMA CommandFacts ==
    ASSUME NEW c \in Commands
    PROVE  /\ c.do \in {"create", "drop"} /\ c.drop \in BOOLEAN /\ c.given \in BOOLEAN
           /\ c.strategies \in {<<"a">>, <<"b">>, <<"a", "b">>}
           /\ c.do = "drop" => ~c.drop /\ ~c.given
BY DEF Commands, Strategies

\* The names of a list, and the one given, are distinct and none is the shared pair.
LEMMA ListFacts ==
    ASSUME NEW g \in 1..MaxInvocations + 1
    PROVE  /\ NamesOf(g) \in Seq(Names) /\ DOMAIN NamesOf(g) = 1..TenantCount
           /\ Len(NamesOf(g)) = TenantCount
           /\ \A i \in 1..TenantCount : NamesOf(g)[i] = <<g, i>> /\ <<g, i>> # Shared
<1>1. \A i \in 1..TenantCount : <<g, i>> \in Names /\ <<g, i>> # Shared
  BY DEF Names, Shared
<1>2. NamesOf(g) \in [1..TenantCount -> Names]
  BY <1>1 DEF NamesOf
<1>3. NamesOf(g) \in Seq(Names)
  BY <1>2
<1>4. DOMAIN NamesOf(g) = 1..TenantCount
  BY DEF NamesOf
<1>5. Len(NamesOf(g)) = TenantCount
  BY <1>3, <1>4, LenProperties
<1> QED BY <1>1, <1>3, <1>4, <1>5 DEF NamesOf

LEMMA GivenFacts ==
    /\ Given \in Seq(Names) /\ DOMAIN Given = 1..1 /\ Len(Given) = 1
    /\ Given[1] # Shared
    /\ <<Shared>> \in Seq(Names) /\ DOMAIN <<Shared>> = 1..1 /\ Len(<<Shared>>) = 1
    /\ <<Shared>>[1] = Shared
<1>1. <<1, 1>> \in Names /\ Shared \in Names
  BY DEF Names
<1> QED BY <1>1 DEF Given, Shared

\* Names that are read from one list, given or shared are distinct.
LEMMA QueueFacts ==
    ASSUME BaseInv, TodoInv, NamesInv, QueueInv, phase = "queue"
    PROVE  /\ \A i, j \in DOMAIN queue : queue[i] = queue[j] => i = j
           /\ Head(todo) \in {"a", "b"}
           /\ Head(todo) = "a" => \A i \in DOMAIN queue : queue[i] # Shared
           /\ Head(todo) = "a" => NamesOfA = ToSet(queue)
           /\ Head(todo) = "b" => queue = <<Shared>>
           /\ ToSet(todo) \subseteq ToSet(cmd.strategies)
<1>1. /\ todo = cmd.strategies \/ (cmd.strategies = <<"a", "b">> /\ todo = <<"b">>)
      /\ cmd.strategies \in {<<"a">>, <<"b">>, <<"a", "b">>}
  BY CommandFacts DEF BaseInv, TodoInv
<1>2. Head(todo) \in {"a", "b"} /\ ToSet(todo) \subseteq ToSet(cmd.strategies)
  BY <1>1, StrategyFacts
<1>3. CASE Head(todo) = "b"
  <2>1. queue = <<Shared>>
    BY <1>3 DEF QueueInv
  <2> QED BY <2>1, <1>2, <1>3, GivenFacts
<1>4. CASE Head(todo) = "a"
  <2>1. "a" \in ToSet(todo) /\ "a" \in ToSet(cmd.strategies)
    BY <1>1, <1>4, StrategyFacts
  <2>2. queue = tenants
    BY <1>4 DEF QueueInv
  <2>3. CASE cmd.do = "create" /\ cmd.given
    <3>1. queue = Given
      BY <2>1, <2>2, <2>3 DEF NamesInv, Running
    <3> QED BY <3>1, <1>2, <1>4, <2>3, GivenFacts DEF NamesOfA
  <2>4. CASE ~(cmd.do = "create" /\ cmd.given)
    <3>1. list # 0 /\ queue = NamesOf(list)
      BY <2>1, <2>2, <2>4, CommandFacts DEF NamesInv, Running, BaseInv
    <3>2. list \in 1..MaxInvocations + 1
      BY <3>1 DEF BaseInv
    <3>3. \A i \in DOMAIN queue : queue[i] = <<list, i>> /\ queue[i] # Shared
      BY <3>1, <3>2, ListFacts
    <3>4. NamesOfA = ToSet(queue)
      BY <2>2, <2>4 DEF NamesOfA
    <3> QED BY <3>3, <3>4, <1>2, <1>4
  <2> QED BY <2>3, <2>4
<1> QED BY <1>2, <1>3, <1>4

-----------------------------------------------------------------------------
\* Width is a number of slots, at most CONCURRENCY.
LEMMA WidthFacts == Width \in 1..Concurrency
BY DEF Width

LEMMA StatementFacts ==
    /\ First \in {1, 3} /\ (Dropping => First = 1)
    /\ \A k \in 1..4 : After(k) \in {k + 1, Done}
    /\ \A k \in 1..2 : cmd.do # "drop" => After(k) = k + 1
    /\ After(1) = 2 /\ After(3) = 4 /\ After(4) = Done
BY DEF First, After, Done, Dropping

\* drain() over names of which n were begun and f hold a slot.
LEMMA DrainFacts ==
    ASSUME NEW names \in Seq(Names), NEW n \in 0..Len(names), NEW f \in 0..Concurrency,
           NEW stmts \in [DOMAIN names -> 0..5],
           f = Cardinality({i \in DOMAIN names : stmts[i] \in 1..4}),
           \A i \in DOMAIN names : i > n <=> stmts[i] = Waiting,
           Drain(names, n, f, stmts)
    PROVE  /\ queue' = names
           /\ next' \in 0..Len(names) /\ inFlight' \in 0..Concurrency
           /\ at' \in [DOMAIN names -> 0..5]
           /\ \A i \in DOMAIN names : i > next' <=> at'[i] = Waiting
           /\ inFlight' = Cardinality({i \in DOMAIN names : at'[i] \in 1..4})
           /\ \A i \in DOMAIN names : at'[i] = stmts[i]
                                        \/ (stmts[i] = Waiting /\ at'[i] = First)
<1> DEFINE room == IF f < Width THEN Min({Width - f, Len(names) - n}) ELSE 0
           begun == n + 1 .. n + room
           busy(g) == {i \in DOMAIN names : g[i] \in 1..4}
<1>1. DOMAIN names = 1..Len(names) /\ Len(names) \in Nat
  BY LenProperties
<1>2. room \in Nat /\ n + room <= Len(names) /\ f + room <= Concurrency
  <2>1. Width \in 1..Concurrency
    BY WidthFacts
  <2>2. CASE f < Width
    <3>1. ASSUME NEW a \in Nat, NEW b \in Nat PROVE Min({a, b}) \in {a, b} /\ Min({a, b}) <= a /\ Min({a, b}) <= b
      <4>1. \E x \in {a, b} : \A y \in {a, b} : x <= y
        <5>1. CASE a <= b
          BY <5>1
        <5>2. CASE b <= a
          BY <5>2
        <5> QED BY <5>1, <5>2
      <4> QED BY <4>1 DEF Min
    <3>2. Width - f \in Nat /\ Len(names) - n \in Nat
      BY <2>1, <2>2, <1>1
    <3>3. /\ Min({Width - f, Len(names) - n}) \in Nat
          /\ Min({Width - f, Len(names) - n}) <= Width - f
          /\ Min({Width - f, Len(names) - n}) <= Len(names) - n
      BY <3>1, <3>2
    <3> QED BY <3>2, <3>3, <2>1, <2>2, <1>1
  <2>3. CASE ~(f < Width)
    BY <2>1, <2>3, <1>1
  <2> QED BY <2>2, <2>3
<1>3. /\ queue' = names /\ next' = n + room /\ inFlight' = f + room
      /\ at' = [i \in DOMAIN names |-> IF i \in begun THEN First ELSE stmts[i]]
  BY DEF Drain
<1> HIDE DEF room
<1>4. First \in {1, 3}
  BY StatementFacts
<1>5. \A i \in begun : i \in DOMAIN names /\ stmts[i] = Waiting
  BY <1>1, <1>2
<1>6. /\ at' \in [DOMAIN names -> 0..5]
      /\ \A i \in DOMAIN names : at'[i] = stmts[i] \/ (stmts[i] = Waiting /\ at'[i] = First)
  BY <1>3, <1>4, <1>5
<1>7. \A i \in DOMAIN names : i > next' <=> at'[i] = Waiting
  BY <1>1, <1>2, <1>3, <1>4 DEF Waiting
<1>8. inFlight' = Cardinality(busy(at'))
  <2>1. busy(at') = busy(stmts) \cup begun
    BY <1>3, <1>4, <1>5
  <2>2. busy(stmts) \cap begun = {}
    BY <1>5 DEF Waiting
  <2>3. IsFiniteSet(busy(stmts))
    <3>1. IsFiniteSet(DOMAIN names)
      BY <1>1, FS_Interval
    <3> QED BY <3>1, FS_Subset
  <2>4. IsFiniteSet(begun) /\ Cardinality(begun) = room
    BY <1>2, FS_Interval
  <2>5. Cardinality(busy(stmts) \cup begun) = f + room - Cardinality({})
    BY <2>2, <2>3, <2>4, FS_Union
  <2>6. Cardinality({}) = 0
    BY FS_EmptySet
  <2>7. Cardinality(busy(stmts) \cup begun) = f + room
    BY <1>2, <2>5, <2>6
  <2> QED BY ONLY <1>3, <2>1, <2>7
<1> QED BY <1>2, <1>3, <1>6, <1>7, <1>8

\* A queue is begun.
LEMMA EnqueueFacts ==
    ASSUME NEW names \in Seq(Names), Enqueue(names)
    PROVE  /\ phase' = "queue" /\ queue' = names
           /\ next' \in 0..Len(names) /\ inFlight' \in 0..Concurrency
           /\ at' \in [DOMAIN names -> 0..5]
           /\ \A i \in DOMAIN names : i > next' <=> at'[i] = Waiting
           /\ inFlight' = Cardinality({i \in DOMAIN names : at'[i] \in 1..4})
           /\ \A i \in DOMAIN names : at'[i] \in {Waiting, First}
<1> DEFINE stmts == [i \in DOMAIN names |-> Waiting]
<1>1. DOMAIN names = 1..Len(names) /\ Len(names) \in Nat
  BY LenProperties
<1>2. stmts \in [DOMAIN names -> 0..5]
  BY DEF Waiting
<1>3. {i \in DOMAIN names : stmts[i] \in 1..4} = {}
  BY DEF Waiting
<1>4. Cardinality({i \in DOMAIN names : stmts[i] \in 1..4}) = 0
  BY <1>3, FS_EmptySet
<1>5. \A i \in DOMAIN names : i > 0 <=> stmts[i] = Waiting
  BY <1>1
<1>6. 0 \in 0..Len(names) /\ 0 \in 0..Concurrency
  BY <1>1
<1>7. Drain(names, 0, 0, stmts)
  BY DEF Enqueue
<1>8. \A i \in DOMAIN names : stmts[i] = Waiting
  OBVIOUS
<1> HIDE DEF stmts
<1>9. /\ queue' = names
      /\ next' \in 0..Len(names) /\ inFlight' \in 0..Concurrency
      /\ at' \in [DOMAIN names -> 0..5]
      /\ \A i \in DOMAIN names : i > next' <=> at'[i] = Waiting
      /\ inFlight' = Cardinality({i \in DOMAIN names : at'[i] \in 1..4})
      /\ \A i \in DOMAIN names : at'[i] = stmts[i]
                                   \/ (stmts[i] = Waiting /\ at'[i] = First)
  BY <1>2, <1>4, <1>5, <1>6, <1>7, DrainFacts
<1>10. phase' = "queue"
  BY DEF Enqueue
<1> QED BY <1>8, <1>9, <1>10

\* A name goes on: the slots stay counted, and other names at most begin.
LEMMA GoOnFacts ==
    ASSUME BaseInv, QueueInv, phase = "queue",
           NEW i \in DOMAIN queue, at[i] \in 1..4, GoOn(i)
    PROVE  /\ queue' = queue
           /\ next' \in 0..Len(queue) /\ inFlight' \in 0..Concurrency
           /\ at' \in [DOMAIN queue -> 0..5]
           /\ \A j \in DOMAIN queue : j > next' <=> at'[j] = Waiting
           /\ inFlight' = Cardinality({j \in DOMAIN queue : at'[j] \in 1..4})
           /\ at'[i] = After(at[i])
           /\ \A j \in DOMAIN queue \ {i} : at'[j] = at[j]
                                              \/ (at[j] = Waiting /\ at'[j] = First)
<1>1. DOMAIN queue = 1..Len(queue) /\ Len(queue) \in Nat /\ queue \in Seq(Names)
  BY LenProperties DEF BaseInv
<1>2. /\ next \in 0..Len(queue) /\ inFlight \in 0..Concurrency
      /\ at \in [DOMAIN queue -> 0..5] /\ inFlight = Cardinality(BusyOnes)
      /\ \A j \in DOMAIN queue : j > next <=> at[j] = Waiting
  BY DEF BaseInv, QueueInv
<1>3. IsFiniteSet(BusyOnes)
  <2>1. IsFiniteSet(DOMAIN queue) /\ BusyOnes \subseteq DOMAIN queue
    BY <1>1, FS_Interval DEF BusyOnes
  <2> QED BY <2>1, FS_Subset
<1>4. CASE After(at[i]) = Done
  <2> DEFINE stmts == [at EXCEPT ![i] = Done]
  <2>1. stmts \in [DOMAIN queue -> 0..5]
    BY <1>2 DEF Done
  <2>2. {j \in DOMAIN queue : stmts[j] \in 1..4} = BusyOnes \ {i} /\ i \in BusyOnes
    BY <1>2 DEF Done, BusyOnes
  <2>3. Cardinality(BusyOnes \ {i}) = inFlight - 1 /\ Cardinality(BusyOnes \ {i}) \in Nat
    <3>1. IsFiniteSet(BusyOnes \ {i})
      BY <1>3, FS_RemoveElement
    <3>2. Cardinality(BusyOnes \ {i}) = inFlight - 1
      BY <1>2, <1>3, <2>2, FS_RemoveElement
    <3> QED BY <3>1, <3>2, FS_CardinalityType
  <2>4. Cardinality({j \in DOMAIN queue : stmts[j] \in 1..4}) = inFlight - 1
    BY <2>2, <2>3
  <2>5. inFlight - 1 \in 0..Concurrency
    BY <1>2, <2>3
  <2>6. \A j \in DOMAIN queue : j > next <=> stmts[j] = Waiting
    BY <1>2 DEF Waiting, Done
  <2>7. Drain(queue, next, inFlight - 1, stmts)
    BY <1>4 DEF GoOn
  <2>8. stmts[i] = Done /\ \A j \in DOMAIN queue \ {i} : stmts[j] = at[j]
    BY <1>2
  <2> HIDE DEF stmts
  <2>9. /\ queue' = queue
        /\ next' \in 0..Len(queue) /\ inFlight' \in 0..Concurrency
        /\ at' \in [DOMAIN queue -> 0..5]
        /\ \A j \in DOMAIN queue : j > next' <=> at'[j] = Waiting
        /\ inFlight' = Cardinality({j \in DOMAIN queue : at'[j] \in 1..4})
        /\ \A j \in DOMAIN queue : at'[j] = stmts[j]
                                     \/ (stmts[j] = Waiting /\ at'[j] = First)
    BY <1>1, <1>2, <2>1, <2>4, <2>5, <2>6, <2>7, DrainFacts
  <2>10. at'[i] = After(at[i])
    BY <1>4, <2>8, <2>9 DEF Done, Waiting
  <2>11. \A j \in DOMAIN queue \ {i} : at'[j] = at[j] \/ (at[j] = Waiting /\ at'[j] = First)
    BY <2>8, <2>9
  <2> QED BY <2>9, <2>10, <2>11
<1>5. CASE After(at[i]) # Done
  <2>1. at' = [at EXCEPT ![i] = After(at[i])] /\ UNCHANGED <<queue, next, inFlight>>
    BY <1>5 DEF GoOn
  <2>2. After(at[i]) \in 2..4
    <3>1. After(at[i]) = at[i] + 1 /\ at[i] # 4
      BY <1>5, StatementFacts
    <3> QED BY <3>1
  <2>3. {j \in DOMAIN queue : at'[j] \in 1..4} = BusyOnes
    BY <1>2, <2>1, <2>2 DEF BusyOnes
  <2>4. inFlight' = Cardinality({j \in DOMAIN queue : at'[j] \in 1..4})
    BY <1>2, <2>1, <2>3
  <2>5. /\ at' \in [DOMAIN queue -> 0..5] /\ at'[i] = After(at[i])
        /\ \A j \in DOMAIN queue \ {i} : at'[j] = at[j]
    BY <1>2, <2>1, <2>2
  <2>6. \A j \in DOMAIN queue : j > next <=> at'[j] = Waiting
    BY <1>2, <2>1, <2>2 DEF Waiting
  <2> QED BY <1>2, <2>1, <2>4, <2>5, <2>6
<1> QED BY <1>4, <1>5

\* What statement k of command c on name n, executed or not, may do to the tables.
Effect(k, n, c) ==
    /\ table' \in [Kinds \X Names -> 0..MaxInvocations]
    /\ \A kind \in Kinds, m \in Names :
          /\ kind # KindOf(k) \/ m # n => table'[<<kind, m>>] = table[<<kind, m>>]
          /\ table[<<kind, m>>] \in {0, c} => table'[<<kind, m>>] \in {0, c}
          /\ k \in Creates /\ table[<<kind, m>>] # 0 => table'[<<kind, m>>] # 0
    /\ table' = Executed(k, n, c) =>
          IF k \in Drops THEN table'[<<KindOf(k), n>>] = 0 ELSE table'[<<KindOf(k), n>>] # 0

LEMMA TableFacts ==
    BaseInv => \A k \in 1..4, n \in Names, c \in 1..MaxInvocations :
        table' \in {table, Executed(k, n, c)} => Effect(k, n, c)
<1> SUFFICES ASSUME BaseInv, NEW k \in 1..4, NEW n \in Names, NEW c \in 1..MaxInvocations,
                    table' \in {table, Executed(k, n, c)}
             PROVE  Effect(k, n, c)
  OBVIOUS
<1>1. KindOf(k) \in Kinds /\ table \in [Kinds \X Names -> 0..MaxInvocations]
  BY DEF KindOf, Kinds, BaseInv
<1>2. CASE table' = table /\ table' # Executed(k, n, c)
  BY <1>1, <1>2 DEF Effect
<1>3. CASE table' = Executed(k, n, c)
  <2>1. table' = [table EXCEPT ![<<KindOf(k), n>>] =
                     IF k \in Drops THEN 0
                     ELSE IF table[<<KindOf(k), n>>] = 0 THEN c
                     ELSE table[<<KindOf(k), n>>]]
    BY <1>3 DEF Executed
  <2>2. k \in Creates => k \notin Drops
    BY DEF Creates, Drops
  <2> DEFINE entry == <<KindOf(k), n>>
             new  == table'[entry]
  <2>3. /\ entry \in Kinds \X Names
        /\ \A e \in Kinds \X Names : e # entry => table'[e] = table[e]
        /\ new = IF k \in Drops THEN 0 ELSE IF table[entry] = 0 THEN c ELSE table[entry]
    BY <1>1, <2>1
  <2>4. /\ new \in 0..MaxInvocations /\ new \in {0, c, table[entry]}
        /\ IF k \in Drops THEN new = 0 ELSE new # 0
    BY <1>1, <2>3
  <2>5. table' \in [Kinds \X Names -> 0..MaxInvocations]
    BY <1>1, <2>1, <2>3, <2>4
  <2>6. ASSUME NEW kind \in Kinds, NEW m \in Names
        PROVE  /\ kind # KindOf(k) \/ m # n => table'[<<kind, m>>] = table[<<kind, m>>]
               /\ table[<<kind, m>>] \in {0, c} => table'[<<kind, m>>] \in {0, c}
               /\ k \in Creates /\ table[<<kind, m>>] # 0 => table'[<<kind, m>>] # 0
    BY <2>2, <2>3, <2>4
  <2> QED BY <2>4, <2>5, <2>6 DEF Effect
<1> QED BY <1>2, <1>3

\* A's names, from the moment they are read, are names of tenants.
LEMMA NamesOfAFacts ==
    ASSUME BaseInv, NamesInv, Ended("a")
    PROVE  NamesOfA \subseteq Names /\ Shared \notin NamesOfA
<1>1. Running /\ "a" \in ToSet(cmd.strategies) /\ "a" \notin ToSet(todo)
  BY DEF Ended
<1>2. CASE cmd.do = "create" /\ cmd.given
  <2>1. NamesOfA = ToSet(Given)
    BY <1>2 DEF NamesOfA
  <2> QED BY <2>1, GivenFacts DEF ToSet
<1>3. CASE ~(cmd.do = "create" /\ cmd.given)
  <2>1. list # 0 /\ tenants = NamesOf(list)
    BY <1>1, <1>3, CommandFacts DEF NamesInv, BaseInv
  <2>2. list \in 1..MaxInvocations + 1
    BY <2>1 DEF BaseInv
  <2>3. NamesOfA = ToSet(NamesOf(list))
    BY <1>3, <2>1 DEF NamesOfA
  <2>4. \A i \in DOMAIN NamesOf(list) : NamesOf(list)[i] \in Names /\ NamesOf(list)[i] # Shared
    BY <2>2, ListFacts, ElementOfSeq
  <2> QED BY <2>3, <2>4 DEF ToSet
<1> QED BY <1>2, <1>3

LEMMA NamesOfAFinite ==
    ASSUME BaseInv, NamesInv, Ended("a")
    PROVE  IsFiniteSet(NamesOfA)
<1>1. MaxInvocations + 1 \in Int /\ TenantCount \in Int /\ 1 \in Int
  OBVIOUS
<1>2. IsFiniteSet(1..MaxInvocations + 1) /\ IsFiniteSet(1..TenantCount)
  BY ONLY <1>1, FS_Interval
<1>3. IsFiniteSet((1..MaxInvocations + 1) \X (1..TenantCount))
  BY ONLY <1>2, FS_Product
<1>4. IsFiniteSet({Shared})
  BY ONLY FS_Singleton
<1>5. IsFiniteSet({Shared} \cup (1..MaxInvocations + 1) \X (1..TenantCount))
  BY ONLY <1>3, <1>4, FS_Union
<1>6. NamesOfA \in SUBSET Names
  BY NamesOfAFacts
<1> QED BY ONLY <1>5, <1>6, FS_Subset DEF Names

LEMMA NamesForFacts ==
    ASSUME BaseInv, NamesInv, NEW s \in {"a", "b"}, Ended(s)
    PROVE  NamesFor(s) \subseteq Names
BY NamesOfAFacts, GivenFacts DEF NamesFor, Names

-----------------------------------------------------------------------------
\* A statement of name i ended: other names at most begin, the counters count i when it
\* goes past its spans table, and the slots are counted.
Stepped(i) ==
    /\ phase = "queue" /\ at[i] \in 1..4
    /\ UNCHANGED <<cmdVars, phase, todo, listVars, queue>>
    /\ table' \in {table, Executed(at[i], queue[i], invocation)}
    /\ at[i] \in Drops => table' = Executed(at[i], queue[i], invocation) /\ late' = late
    /\ late' \in {late, late \cup {Statement(i)}}
    /\ disturbed' = IF at[i] \in Drops THEN disturbed \ {<<KindOf(at[i]), queue[i]>>}
                    ELSE disturbed
    /\ next' \in 0..Len(queue) /\ inFlight' \in 0..Concurrency
    /\ at' \in [DOMAIN queue -> 0..5]
    /\ \A j \in DOMAIN queue : j > next' <=> at'[j] = Waiting
    /\ inFlight' = Cardinality({j \in DOMAIN queue : at'[j] \in 1..4})
    /\ at'[i] = After(at[i]) \/ (at[i] \in Creates /\ at'[i] = at[i])
    /\ \A j \in DOMAIN queue \ {i} : at'[j] = at[j] \/ (at[j] = Waiting /\ at'[j] = First)
    /\ IF at[i] = 3 /\ at'[i] # 3 /\ Head(todo) = "a"
       THEN \/ /\ table' = Executed(at[i], queue[i], invocation)
               /\ created' = created + 1 /\ skipped' = skipped
            \/ created' = created /\ skipped' = skipped + 1
       ELSE created' = created /\ skipped' = skipped

\* It unsettles no table, and makes none disappear but by a DROP of its own.
LEMMA SteppedTables ==
    ASSUME SchemaInv, NEW i \in DOMAIN queue, Stepped(i)
    PROVE  /\ queue[i] \in Names
           /\ table' \in [Kinds \X Names -> 0..MaxInvocations]
           /\ disturbed' \subseteq Kinds \X Names
           /\ \A kind \in Kinds, m \in Names : Settled(kind, m) => Settled(kind, m)'
           /\ \A m \in Names \ {queue[i]} : Standing(m)' <=> Standing(m)
           /\ at[i] \in Creates => \A m \in Names : Standing(m) => Standing(m)'
           /\ table' = Executed(at[i], queue[i], invocation) =>
                 IF at[i] \in Drops THEN table'[<<KindOf(at[i]), queue[i]>>] = 0
                 ELSE table'[<<KindOf(at[i]), queue[i]>>] # 0
<1>1. queue \in Seq(Names) /\ BaseInv /\ invocation \in 1..MaxInvocations
      /\ disturbed \subseteq Kinds \X Names
  BY DEF SchemaInv, BaseInv
<1>2. queue[i] \in Names
  BY <1>1, ElementOfSeq
<1>3. /\ at[i] \in 1..4 /\ table' \in {table, Executed(at[i], queue[i], invocation)}
      /\ at[i] \in Drops => table' = Executed(at[i], queue[i], invocation)
      /\ disturbed' = IF at[i] \in Drops THEN disturbed \ {<<KindOf(at[i]), queue[i]>>}
                      ELSE disturbed
      /\ invocation' = invocation
  BY DEF Stepped, cmdVars
<1>4. /\ table' \in [Kinds \X Names -> 0..MaxInvocations]
      /\ \A kind \in Kinds, m \in Names :
            /\ kind # KindOf(at[i]) \/ m # queue[i] => table'[<<kind, m>>] = table[<<kind, m>>]
            /\ table[<<kind, m>>] \in {0, invocation} => table'[<<kind, m>>] \in {0, invocation}
            /\ at[i] \in Creates /\ table[<<kind, m>>] # 0 => table'[<<kind, m>>] # 0
      /\ table' = Executed(at[i], queue[i], invocation) =>
            IF at[i] \in Drops THEN table'[<<KindOf(at[i]), queue[i]>>] = 0
            ELSE table'[<<KindOf(at[i]), queue[i]>>] # 0
  <2>1. PICK k \in 1..4, n \in Names, c \in 1..MaxInvocations :
           k = at[i] /\ n = queue[i] /\ c = invocation
    BY <1>1, <1>2, <1>3
  <2>2. table' \in {table, Executed(k, n, c)}
    BY <1>3, <2>1
  <2>3. Effect(k, n, c)
    <3>1. BaseInv
      BY <1>1
    <3> QED BY ONLY <3>1, <2>2, TableFacts
  <2> QED BY <2>1, <2>3 DEF Effect
<1>5. /\ disturbed' \subseteq Kinds \X Names
      /\ at[i] \in Creates => disturbed' = disturbed
      /\ \A kind \in Kinds, m \in Names : kind # KindOf(at[i]) \/ m # queue[i] =>
            (<<kind, m>> \in disturbed' <=> <<kind, m>> \in disturbed)
  BY <1>1, <1>3 DEF Creates, Drops
<1>6. ASSUME NEW kind \in Kinds, NEW m \in Names, Settled(kind, m)
      PROVE  Settled(kind, m)'
  <2>1. CASE at[i] \in Drops /\ kind = KindOf(at[i]) /\ m = queue[i]
    <3>1. table'[<<kind, m>>] = 0
      BY <1>3, <1>4, <2>1
    <3> QED BY <3>1 DEF Settled
  <2>2. CASE ~(at[i] \in Drops /\ kind = KindOf(at[i]) /\ m = queue[i])
    <3>1. <<kind, m>> \in disturbed => <<kind, m>> \in disturbed'
      BY <1>3, <2>2
    <3>2. table[<<kind, m>>] \in {0, invocation} => table'[<<kind, m>>] \in {0, invocation}
      BY <1>4
    <3> QED BY <3>1, <3>2, <1>3, <1>6 DEF Settled
  <2> QED BY <2>1, <2>2
<1>7. "spans" \in Kinds
  BY DEF Kinds
<1>8. ASSUME NEW m \in Names \ {queue[i]} PROVE Standing(m)' <=> Standing(m)
  <2>1. table'[<<"spans", m>>] = table[<<"spans", m>>]
    BY <1>4, <1>7
  <2>2. <<"spans", m>> \in disturbed' <=> <<"spans", m>> \in disturbed
    BY <1>5, <1>7
  <2> QED BY <2>1, <2>2 DEF Standing
<1>9. ASSUME at[i] \in Creates, NEW m \in Names, Standing(m) PROVE Standing(m)'
  <2>1. table[<<"spans", m>>] # 0 => table'[<<"spans", m>>] # 0
    BY <1>4, <1>7, <1>9
  <2> QED BY <2>1, <1>5, <1>9 DEF Standing
<1> QED BY <1>2, <1>4, <1>5, <1>6, <1>8, <1>9

\* The statements on their way stay this command's CREATEs or an earlier command's.
LEMMA SteppedLateInv ==
    ASSUME SchemaInv, NEW i \in DOMAIN queue, Stepped(i)
    PROVE  late' \subseteq Statements /\ LateInv'
<1>1. /\ late \subseteq Statements /\ LateInv /\ phase = "queue" /\ at[i] \in 1..4
      /\ invocation \in 1..MaxInvocations /\ queue[i] \in Names
      /\ invocation' = invocation /\ phase' = phase
      /\ late' = late \/ (at[i] \notin Drops /\ late' = late \cup {Statement(i)})
  BY SteppedTables DEF SchemaInv, BaseInv, Stepped, cmdVars
<1>2. Statement(i) \in Statements /\ Statement(i).by = invocation /\ Statement(i).stmt = at[i]
  BY <1>1 DEF Statement, Statements, Drops, Creates
<1> QED BY <1>1, <1>2 DEF LateInv

LEMMA SteppedDropInv ==
    ASSUME SchemaInv, NEW i \in DOMAIN queue, Stepped(i)
    PROVE  DropInv'
<1>1. /\ BaseInv /\ NamesInv /\ DropInv /\ QueueInv /\ phase = "queue" /\ queue \in Seq(Names)
      /\ at \in [DOMAIN queue -> 0..5]
  BY DEF SchemaInv, Stepped, BaseInv, QueueInv
<1>2. UNCHANGED <<cmd, invocation, phase, todo, here, list, tenants, queue>>
  BY DEF Stepped, cmdVars, listVars
<1>3. /\ Dropping' = Dropping
      /\ \A s \in {"a", "b"} : Ended(s)' = Ended(s) /\ NamesFor(s)' = NamesFor(s)
  BY <1>2 DEF Dropping, Ended, Running, NamesFor, NamesOfA
<1> SUFFICES ASSUME Dropping PROVE DropInv'
  BY <1>3 DEF DropInv
<1>4. \A kind \in Kinds, m \in Names : Settled(kind, m) => Settled(kind, m)'
  BY SteppedTables
<1>5. ASSUME NEW j \in DOMAIN queue
      PROVE  /\ at'[j] >= 2 => Settled("spans", queue[j])'
             /\ at'[j] >= 3 => Settled("items", queue[j])'
  <2>1. /\ at[j] >= 2 => Settled("spans", queue[j])
        /\ at[j] >= 3 => Settled("items", queue[j])
    BY <1>1 DEF DropInv
  <2>2. queue[j] \in Names /\ "spans" \in Kinds /\ "items" \in Kinds
    BY <1>1, ElementOfSeq DEF Kinds
  <2>3. /\ at[j] >= 2 => Settled("spans", queue[j])'
        /\ at[j] >= 3 => Settled("items", queue[j])'
    <3>1. PICK n \in Names : n = queue[j]
      BY <2>2
    <3>2. n = queue'[j]
      BY <3>1, <1>2
    <3>3. /\ Settled("spans", n) => Settled("spans", n)'
          /\ Settled("items", n) => Settled("items", n)'
      BY <1>4, <2>2
    <3> QED BY <2>1, <3>1, <3>2, <3>3 DEF Settled
  <2>4. CASE j # i
    <3>1. at'[j] = at[j] \/ at'[j] = 1
      BY <2>4, StatementFacts DEF Stepped
    <3> QED BY <3>1, <2>3
  <2>5. CASE j = i
    <3>1. at[i] \in 1..4
      BY DEF Stepped
    <3>2. CASE at[i] = 1
      <4>1. at'[i] = 2 /\ table' = Executed(at[i], queue[i], invocation) /\ KindOf(at[i]) = "spans"
        BY <3>2, StatementFacts DEF Stepped, Creates, Drops, KindOf
      <4>2. table'[<<"spans", queue[i]>>] = 0
        BY <4>1, <3>2, SteppedTables DEF Drops
      <4> QED BY <4>1, <4>2, <2>5, <1>2 DEF Settled
    <3>3. CASE at[i] = 2
      <4>1. table' = Executed(at[i], queue[i], invocation) /\ KindOf(at[i]) = "items"
        BY <3>3 DEF Stepped, Drops, KindOf
      <4>2. table'[<<"items", queue[i]>>] = 0
        BY <4>1, <3>3, SteppedTables DEF Drops
      <4>3. Settled("spans", queue[j])'
        BY <3>3, <2>3, <2>5
      <4>4. Settled("items", queue[j])'
        BY <4>2, <2>5, <1>2 DEF Settled
      <4> QED BY <4>3, <4>4
    <3>4. CASE at[i] \in {3, 4}
      BY <3>4, <2>3, <2>5
    <3> QED BY <3>1, <3>2, <3>3, <3>4
  <2> QED BY <2>4, <2>5
<1>6. ASSUME NEW s \in {"a", "b"}, Ended(s), NEW k \in Kinds, NEW n \in NamesFor(s)
      PROVE  Settled(k, n)'
  <2>1. n \in Names
    BY <1>1, <1>6, NamesForFacts
  <2>2. Settled(k, n)
    BY <1>1, <1>6 DEF DropInv
  <2> QED BY <1>4, <2>1, <2>2
<1> QED BY <1>2, <1>3, <1>5, <1>6 DEF DropInv

LEMMA SteppedReportInv ==
    ASSUME SchemaInv, NEW i \in DOMAIN queue, Stepped(i)
    PROVE  ReportInv'
<1>1. /\ BaseInv /\ TodoInv /\ NamesInv /\ ReportInv /\ QueueInv /\ phase = "queue"
      /\ DOMAIN queue = 1..Len(queue) /\ Len(queue) \in Nat
      /\ at \in [DOMAIN queue -> 0..5] /\ created \in Nat /\ skipped \in Nat
      /\ queue \in Seq(Names) /\ at[i] \in 1..4
  BY LenProperties DEF SchemaInv, Stepped, BaseInv, QueueInv
<1>2. UNCHANGED <<cmd, invocation, phase, todo, here, list, tenants, queue>>
  BY DEF Stepped, cmdVars, listVars
<1>3. Ended("a")' = Ended("a") /\ NamesOfA' = NamesOfA
  BY <1>2 DEF Ended, Running, NamesOfA
<1>4. Head(todo) \in {"a", "b"} /\ \A j, k \in DOMAIN queue : queue[j] = queue[k] => j = k
  BY <1>1, QueueFacts
<1>8. /\ \A m \in Names \ {queue[i]} : Standing(m)' <=> Standing(m)
      /\ at[i] \in Creates => \A m \in Names : Standing(m) => Standing(m)'
  BY SteppedTables
<1>5. ASSUME Head(todo) = "a", cmd.do = "create"
      PROVE  created' + skipped' = Cardinality(Past') /\ created' <= Cardinality(Made')
  <2>1. created + skipped = Cardinality(Past) /\ created <= Cardinality(Made)
    BY <1>1, <1>5 DEF ReportInv
  <2>2. /\ Past' = {j \in DOMAIN queue : at'[j] >= 4}
        /\ Made' = {j \in Past' : Standing(queue[j])'}
        /\ Past' \subseteq DOMAIN queue /\ Made' \subseteq DOMAIN queue
        /\ Past \subseteq DOMAIN queue /\ Made \subseteq DOMAIN queue
    BY <1>2 DEF Past, Made
  <2>3. IsFiniteSet(Past) /\ IsFiniteSet(Made) /\ IsFiniteSet(Past') /\ IsFiniteSet(Made')
    <3>1. IsFiniteSet(DOMAIN queue)
      BY <1>1, FS_Interval
    <3> QED BY <2>2, <3>1, FS_Subset
  <2>4. /\ Cardinality(Past) \in Nat /\ Cardinality(Made) \in Nat /\ Cardinality(Made') \in Nat
    BY <2>3, FS_CardinalityType
  <2>5. \A j \in DOMAIN queue \ {i} : (at'[j] >= 4 <=> at[j] >= 4)
    <3> SUFFICES ASSUME NEW j \in DOMAIN queue \ {i} PROVE at'[j] >= 4 <=> at[j] >= 4
      OBVIOUS
    <3>1. at'[j] = at[j] \/ (at[j] = 0 /\ at'[j] \in {1, 3})
      BY StatementFacts DEF Stepped, Waiting
    <3> QED BY <3>1
  <2>6. IF at[i] = 3 /\ at'[i] # 3 THEN at'[i] = 4 ELSE at'[i] >= 4 <=> at[i] = 4
    <3>1. at'[i] = After(at[i]) \/ (at[i] \in {3, 4} /\ at'[i] = at[i])
      BY DEF Stepped, Creates
    <3> QED BY <3>1, <1>1, <1>5, StatementFacts DEF Done
  <2>7. Made \subseteq Made'
    <3> SUFFICES ASSUME NEW j \in Made PROVE j \in Made'
      OBVIOUS
    <3>1. j \in DOMAIN queue /\ at[j] >= 4 /\ Standing(queue[j])
      BY DEF Made, Past
    <3>2. queue[j] \in Names /\ "spans" \in Kinds
      BY <1>1, <3>1, ElementOfSeq DEF Kinds
    <3>3. CASE j # i
      <4>1. queue[j] # queue[i]
        BY <1>4, <3>1, <3>3
      <4>2. Standing(queue[j])'
        <5>1. PICK n \in Names \ {queue[i]} : n = queue[j]
          BY <4>1, <3>2
        <5>2. Standing(n) /\ (Standing(n)' <=> Standing(n)) /\ n = queue'[j]
          BY <5>1, <3>1, <1>8, <1>2
        <5> QED BY <5>2 DEF Standing
      <4> QED BY <4>2, <3>1, <3>3, <2>2, <2>5
    <3>4. CASE j = i
      <4>1. at[i] = 4 /\ at'[i] >= 4
        BY <3>1, <3>4, <1>1, <2>6
      <4>2. Standing(queue[j])'
        <5>1. PICK n \in Names : n = queue[j]
          BY <3>2
        <5>2. Standing(n)' /\ n = queue'[j]
          BY <5>1, <4>1, <3>1, <3>4, <1>8, <1>2 DEF Creates
        <5> QED BY <5>2 DEF Standing
      <4> QED BY <4>1, <4>2, <3>1, <3>4, <2>2
    <3> QED BY <3>3, <3>4
  <2>8. CASE at[i] = 3 /\ at'[i] # 3
    <3>1. Past' = Past \cup {i} /\ i \notin Past
      BY <2>2, <2>5, <2>6, <2>8 DEF Past
    <3>2. Cardinality(Past') = Cardinality(Past) + 1
      BY <2>3, <3>1, FS_AddElement
    <3>3. CASE created' = created /\ skipped' = skipped + 1
      <4>1. Cardinality(Made) <= Cardinality(Made')
        BY <2>3, <2>7, FS_Subset
      <4> QED BY <4>1, <3>2, <3>3, <2>1, <2>4, <1>1
    <3>4. CASE table' = Executed(at[i], queue[i], invocation) /\ created' = created + 1 /\ skipped' = skipped
      <4>1. Standing(queue[i])'
        <5>1. table'[<<"spans", queue[i]>>] # 0
          BY <3>4, <2>8, SteppedTables DEF Drops, KindOf
        <5> QED BY <5>1, <1>2 DEF Standing
      <4>2. Made \cup {i} \subseteq Made' /\ i \notin Made
        BY <4>1, <3>1, <2>2, <2>7 DEF Made
      <4>3. Cardinality(Made \cup {i}) = Cardinality(Made) + 1
        BY <2>3, <4>2, FS_AddElement
      <4>4. Cardinality(Made \cup {i}) <= Cardinality(Made')
        BY <2>3, <4>2, FS_Subset
      <4> QED BY <4>3, <4>4, <3>2, <3>4, <2>1, <2>4, <1>1
    <3> QED BY <3>3, <3>4, <2>8, <1>5 DEF Stepped
  <2>9. CASE ~(at[i] = 3 /\ at'[i] # 3)
    <3>1. Past' = Past
      BY <1>1, <2>2, <2>5, <2>6, <2>9 DEF Past
    <3>2. created' = created /\ skipped' = skipped
      BY <2>9 DEF Stepped
    <3>3. Cardinality(Made) <= Cardinality(Made')
      BY <2>3, <2>7, FS_Subset
    <3> QED BY <3>1, <3>2, <3>3, <2>1, <2>4, <1>1
  <2> QED BY <2>8, <2>9
<1>6. ASSUME Ended("a"), cmd.do = "create"
      PROVE  /\ created' + skipped' = Cardinality(NamesOfA)
             /\ created' <= Cardinality({n \in NamesOfA : Standing(n)'})
  <2>1. /\ created + skipped = Cardinality(NamesOfA)
        /\ created <= Cardinality({n \in NamesOfA : Standing(n)})
    BY <1>1, <1>6 DEF ReportInv
  <2>2. Head(todo) = "b"
    <3>1. "a" \notin ToSet(todo) /\ todo \in {<<"a">>, <<"b">>, <<"a", "b">>}
      BY <1>1, <1>6, CommandFacts DEF Ended, TodoInv, BaseInv
    <3> QED BY <3>1, StrategyFacts
  <2>3. queue[i] = Shared
    <3>1. queue = <<Shared>>
      BY <1>1, <2>2, QueueFacts
    <3> QED BY <3>1, GivenFacts
  <2>4. \A n \in NamesOfA : Standing(n)' <=> Standing(n)
    <3>1. NamesOfA \subseteq Names /\ Shared \notin NamesOfA
      BY <1>1, <1>6, NamesOfAFacts
    <3>2. NamesOfA \subseteq Names \ {queue[i]}
      BY <3>1, <2>3
    <3> QED BY ONLY <3>2, <1>8
  <2>5. {n \in NamesOfA : Standing(n)'} = {n \in NamesOfA : Standing(n)}
    BY <2>4
  <2>6. created' = created /\ skipped' = skipped
    BY <2>2 DEF Stepped
  <2> QED BY <2>1, <2>5, <2>6
<1>7. phase' = "queue" /\ Head(todo') = Head(todo) /\ cmd' = cmd
  BY <1>1, <1>2
<1> QED BY <1>3, <1>5, <1>6, <1>7 DEF ReportInv

LEMMA SteppedInv ==
    ASSUME SchemaInv, NEW i \in DOMAIN queue, Stepped(i)
    PROVE  SchemaInv'
<1>1. UNCHANGED <<cmd, invocation, phase, todo, here, list, torn, tenants, queue>>
  BY DEF Stepped, cmdVars, listVars
<1>2. BaseInv /\ TodoInv /\ ListInv /\ NamesInv /\ QueueInv
  BY DEF SchemaInv
<1>3. BaseInv'
  <2>1. created' \in Nat /\ skipped' \in Nat
    BY <1>2 DEF BaseInv, Stepped
  <2>2. table' \in [Kinds \X Names -> 0..MaxInvocations]
    BY SteppedTables
  <2>3. next' \in 0..Len(queue) /\ inFlight' \in 0..Concurrency
    BY DEF Stepped
  <2>4. disturbed' \subseteq Kinds \X Names /\ late' \subseteq Statements
    BY SteppedTables, SteppedLateInv
  <2> QED BY <1>1, <1>2, <2>1, <2>2, <2>3, <2>4 DEF BaseInv
<1>4. TodoInv' /\ ListInv' /\ NamesInv'
  BY <1>1, <1>2 DEF TodoInv, ListInv, NamesInv, Running
<1>5. QueueInv'
  <2>1. BusyOnes' = {j \in DOMAIN queue : at'[j] \in 1..4}
    BY <1>1 DEF BusyOnes
  <2>2. /\ at' \in [DOMAIN queue -> 0..5]
        /\ \A j \in DOMAIN queue : j > next' <=> at'[j] = Waiting
        /\ inFlight' = Cardinality({j \in DOMAIN queue : at'[j] \in 1..4})
    BY DEF Stepped
  <2> QED BY <1>1, <1>2, <2>1, <2>2 DEF QueueInv
<1> QED BY <1>3, <1>4, <1>5, SteppedLateInv, SteppedDropInv, SteppedReportInv DEF SchemaInv

\* The process ends: it keeps nothing but the types, the list and what is on its way.
LEMMA FailInv == SchemaInv /\ Fail => SchemaInv'
<1> SUFFICES ASSUME SchemaInv, Fail PROVE SchemaInv'
  OBVIOUS
<1>1. /\ phase' = "exit1" /\ tenants' = <<>> /\ queue' = <<>> /\ next' = 0 /\ inFlight' = 0
      /\ created' = 0 /\ skipped' = 0
      /\ UNCHANGED <<cmd, invocation, here, list, torn, table, disturbed>>
  BY DEF Fail, NoQueue, cmdVars
<1>2. PICK S \in SUBSET Flying : late' = late \cup S
  BY DEF Fail
<1>3. Flying \subseteq Statements /\ \A m \in Flying : m.by = invocation
  <2> SUFFICES ASSUME NEW i \in DOMAIN queue, Busy(i)
               PROVE  Statement(i) \in Statements /\ Statement(i).by = invocation
    BY DEF Flying
  <2>1. queue \in Seq(Names) /\ invocation \in 1..MaxInvocations
    BY DEF SchemaInv, BaseInv
  <2>2. queue[i] \in Names
    BY <2>1, ElementOfSeq
  <2> QED BY <2>1, <2>2 DEF Statement, Statements, Busy
<1>4. BaseInv'
  <2>1. <<>> \in Seq(Names) /\ Len(<<>>) = 0
    OBVIOUS
  <2> QED BY <1>1, <1>2, <1>3, <2>1 DEF SchemaInv, BaseInv, Exited
<1>5. LateInv'
  BY <1>1, <1>2, <1>3 DEF SchemaInv, BaseInv, LateInv
<1>6. TodoInv' /\ ListInv' /\ NamesInv' /\ QueueInv' /\ ReportInv' /\ DropInv'
  BY <1>1 DEF SchemaInv, TodoInv, ListInv, NamesInv, Running, QueueInv, ReportInv, DropInv, Ended
<1> QED BY <1>4, <1>5, <1>6 DEF SchemaInv

LEMMA AnswerInv == ASSUME SchemaInv, NEW i \in DOMAIN queue, Answer(i) PROVE SchemaInv'
<1>1. phase = "queue" /\ at[i] \in 1..4 /\ GoOn(i)
  BY DEF Answer, Busy, Drops, Creates
<1>2. BaseInv /\ QueueInv
  BY DEF SchemaInv
<1>3. /\ queue' = queue
      /\ next' \in 0..Len(queue) /\ inFlight' \in 0..Concurrency
      /\ at' \in [DOMAIN queue -> 0..5]
      /\ \A j \in DOMAIN queue : j > next' <=> at'[j] = Waiting
      /\ inFlight' = Cardinality({j \in DOMAIN queue : at'[j] \in 1..4})
      /\ at'[i] = After(at[i])
      /\ \A j \in DOMAIN queue \ {i} : at'[j] = at[j]
                                         \/ (at[j] = Waiting /\ at'[j] = First)
  BY <1>1, <1>2, GoOnFacts
<1>4. /\ UNCHANGED <<cmdVars, phase, todo, listVars, skipped, late>>
      /\ table' = Executed(at[i], queue[i], invocation)
      /\ disturbed' = IF at[i] \in Drops THEN disturbed \ {<<KindOf(at[i]), queue[i]>>}
                      ELSE disturbed
      /\ created' = IF at[i] = 3 /\ Head(todo) = "a" THEN created + 1 ELSE created
  BY DEF Answer
<1>5. at[i] = 3 => at'[i] # 3
  BY <1>3, StatementFacts
<1>6. Stepped(i)
  BY <1>1, <1>3, <1>4, <1>5 DEF Stepped
<1> QED BY <1>6, SteppedInv

LEMMA RefuseInv == ASSUME SchemaInv, NEW i \in DOMAIN queue, Refuse(i) PROVE SchemaInv'
<1>1. phase = "queue" /\ at[i] \in 1..4
  BY DEF Refuse, Busy, Drops, Creates
<1>2. BaseInv /\ QueueInv
  BY DEF SchemaInv
<1>3. CASE at[i] \in Drops
  <2>1. Fail
    BY <1>3 DEF Refuse, Drops, Creates
  <2> QED BY <2>1, FailInv
<1>4. CASE at[i] \in Creates
  <2>1. /\ UNCHANGED <<cmdVars, phase, todo, listVars, created, table, disturbed>>
        /\ late' \in {late, late \cup {Statement(i)}}
        /\ at[i] \notin Drops
    BY <1>4 DEF Refuse, Drops, Creates
  <2>2. CASE UNCHANGED <<queue, next, inFlight, at, skipped>>
    <3>1. /\ next \in 0..Len(queue) /\ inFlight \in 0..Concurrency
          /\ at \in [DOMAIN queue -> 0..5]
          /\ \A j \in DOMAIN queue : j > next <=> at[j] = Waiting
          /\ inFlight = Cardinality({j \in DOMAIN queue : at[j] \in 1..4})
      BY <1>1, <1>2 DEF BaseInv, QueueInv, BusyOnes
    <3>2. Stepped(i)
      BY <1>1, <1>4, <2>1, <2>2, <3>1 DEF Stepped
    <3> QED BY <3>2, SteppedInv
  <2>3. CASE /\ GoOn(i)
             /\ skipped' = IF at[i] = 3 /\ Head(todo) = "a" THEN skipped + 1 ELSE skipped
    <3>1. /\ queue' = queue
          /\ next' \in 0..Len(queue) /\ inFlight' \in 0..Concurrency
          /\ at' \in [DOMAIN queue -> 0..5]
          /\ \A j \in DOMAIN queue : j > next' <=> at'[j] = Waiting
          /\ inFlight' = Cardinality({j \in DOMAIN queue : at'[j] \in 1..4})
          /\ at'[i] = After(at[i])
          /\ \A j \in DOMAIN queue \ {i} : at'[j] = at[j]
                                             \/ (at[j] = Waiting /\ at'[j] = First)
      BY <1>1, <1>2, <2>3, GoOnFacts
    <3>2. at[i] = 3 => at'[i] # 3
      BY <3>1, StatementFacts
    <3>3. Stepped(i)
      BY <1>1, <2>1, <2>3, <3>1, <3>2 DEF Stepped
    <3> QED BY <3>3, SteppedInv
  <2> QED BY <1>4, <2>2, <2>3 DEF Refuse, Drops, Creates
<1> QED BY <1>1, <1>3, <1>4 DEF Drops, Creates

-----------------------------------------------------------------------------
\* A late statement lands: what it changes of a table that was settled, or counted, is
\* remembered as a disturbance unless it is this command's own CREATE.
LEMMA LandInv == ASSUME SchemaInv, NEW m \in late, Land(m) PROVE SchemaInv'
<1>1. /\ UNCHANGED <<cmd, invocation, phase, todo, here, list, torn, tenants>>
      /\ UNCHANGED <<queue, next, inFlight, at, created, skipped>>
  BY DEF Land, cmdVars, listVars, poolVars, counters
<1>2. /\ BaseInv /\ TodoInv /\ ListInv /\ NamesInv /\ QueueInv
      /\ LateInv /\ DropInv /\ ReportInv
  BY DEF SchemaInv
<1>3. /\ m.stmt \in 1..4 /\ m.name \in Names /\ m.by \in 1..MaxInvocations
      /\ m.by <= invocation /\ invocation \in 1..MaxInvocations
      /\ m.by = invocation /\ m.stmt \in Drops => phase = "exit1"
      /\ KindOf(m.stmt) \in Kinds
  BY <1>2 DEF BaseInv, LateInv, Statements, Drops, Creates, KindOf, Kinds
<1>4. /\ table' \in [Kinds \X Names -> 0..MaxInvocations]
      /\ \A kind \in Kinds, n \in Names :
            /\ kind # KindOf(m.stmt) \/ n # m.name => table'[<<kind, n>>] = table[<<kind, n>>]
            /\ table[<<kind, n>>] \in {0, m.by} => table'[<<kind, n>>] \in {0, m.by}
            /\ m.stmt \in Creates /\ table[<<kind, n>>] # 0 => table'[<<kind, n>>] # 0
  <2>1. table' = Executed(m.stmt, m.name, m.by)
    BY DEF Land
  <2>2. PICK k \in 1..4, x \in Names, c \in 1..MaxInvocations :
           k = m.stmt /\ x = m.name /\ c = m.by
    BY <1>3
  <2>3. table' \in {table, Executed(k, x, c)}
    BY <2>1, <2>2
  <2>4. Effect(k, x, c)
    <3>1. BaseInv
      BY <1>2
    <3> QED BY ONLY <3>1, <2>3, TableFacts
  <2> QED BY <2>2, <2>4 DEF Effect
<1>5. /\ late' \subseteq late
      /\ disturbed \subseteq disturbed' /\ disturbed' \subseteq Kinds \X Names
      /\ m.by < invocation /\ table' # table => <<KindOf(m.stmt), m.name>> \in disturbed'
  BY <1>2, <1>3 DEF Land, BaseInv
<1>6. ASSUME NEW kind \in Kinds, NEW n \in Names
      PROVE  \/ table'[<<kind, n>>] = table[<<kind, n>>]
             \/ <<kind, n>> \in disturbed'
             \/ m.by = invocation
  <2>1. CASE kind = KindOf(m.stmt) /\ n = m.name
    BY <1>3, <1>5, <2>1
  <2>2. CASE ~(kind = KindOf(m.stmt) /\ n = m.name)
    BY <1>4, <2>2
  <2> QED BY <2>1, <2>2
<1>7. ASSUME NEW kind \in Kinds, NEW n \in Names, Settled(kind, n)
      PROVE  Settled(kind, n)'
  <2>1. <<kind, n>> \in disturbed => <<kind, n>> \in disturbed'
    BY <1>5
  <2>2. m.by = invocation /\ table[<<kind, n>>] \in {0, invocation} =>
            table'[<<kind, n>>] \in {0, invocation}
    BY <1>4
  <2> QED BY <1>1, <1>6, <1>7, <2>1, <2>2 DEF Settled
<1>8. ASSUME phase # "exit1", NEW n \in Names, Standing(n)
      PROVE  Standing(n)'
  <2>1. "spans" \in Kinds
    BY DEF Kinds
  <2>2. <<"spans", n>> \in disturbed => <<"spans", n>> \in disturbed'
    BY <1>5
  <2>3. m.by = invocation => m.stmt \in Creates
    BY <1>3, <1>8 DEF Drops, Creates
  <2>4. m.by = invocation /\ table[<<"spans", n>>] # 0 => table'[<<"spans", n>>] # 0
    BY <1>4, <2>1, <2>3
  <2>5. \/ table'[<<"spans", n>>] = table[<<"spans", n>>]
        \/ <<"spans", n>> \in disturbed'
        \/ m.by = invocation
    BY <1>6, <2>1
  <2> QED BY <1>8, <2>2, <2>4, <2>5 DEF Standing
<1>9. BaseInv' /\ TodoInv' /\ ListInv' /\ NamesInv' /\ LateInv'
  BY <1>1, <1>2, <1>4, <1>5 DEF BaseInv, TodoInv, ListInv, NamesInv, Running, LateInv
<1>10. QueueInv'
  BY <1>1, <1>2 DEF QueueInv, BusyOnes
<1>11. /\ Dropping' = Dropping /\ NamesOfA' = NamesOfA
       /\ \A s \in {"a", "b"} : Ended(s)' = Ended(s) /\ NamesFor(s)' = NamesFor(s)
  BY <1>1 DEF Dropping, Ended, Running, NamesFor, NamesOfA
<1>12. \A j \in DOMAIN queue : queue[j] \in Names
  BY <1>2, ElementOfSeq DEF BaseInv
<1>13. DropInv'
  <2> SUFFICES ASSUME Dropping PROVE DropInv'
    BY <1>11 DEF DropInv
  <2>1. ASSUME phase = "queue", NEW j \in DOMAIN queue
        PROVE  /\ at[j] >= 2 => Settled("spans", queue[j])'
               /\ at[j] >= 3 => Settled("items", queue[j])'
    <3>1. queue[j] \in Names /\ "spans" \in Kinds /\ "items" \in Kinds
      BY <1>12 DEF Kinds
    <3>2. /\ at[j] >= 2 => Settled("spans", queue[j])
          /\ at[j] >= 3 => Settled("items", queue[j])
      BY <1>2, <2>1 DEF DropInv
    <3>3. PICK n \in Names : n = queue[j]
      BY <3>1
    <3>4. n = queue'[j]
      BY <3>3, <1>1
    <3>5. /\ Settled("spans", n) => Settled("spans", n)'
          /\ Settled("items", n) => Settled("items", n)'
      BY <1>7, <3>1
    <3> QED BY <3>2, <3>3, <3>4, <3>5 DEF Settled
  <2>2. ASSUME NEW s \in {"a", "b"}, Ended(s), NEW k \in Kinds, NEW n \in NamesFor(s)
        PROVE  Settled(k, n)'
    <3>1. n \in Names
      BY <1>2, <2>2, NamesForFacts
    <3>2. Settled(k, n)
      BY <1>2, <2>2 DEF DropInv
    <3> QED BY <1>7, <3>1, <3>2
  <2> QED BY <1>1, <1>11, <2>1, <2>2 DEF DropInv
<1>14. ReportInv'
  <2>1. ASSUME phase = "queue", Head(todo) = "a", cmd.do = "create"
        PROVE  created + skipped = Cardinality(Past') /\ created <= Cardinality(Made')
    <3>1. created + skipped = Cardinality(Past) /\ created <= Cardinality(Made)
      BY <1>2, <2>1 DEF ReportInv
    <3>2. Past' = Past
      BY <1>1 DEF Past
    <3>3. Made' = {j \in Past : Standing(queue[j])'}
      BY <1>1, <3>2 DEF Made
    <3>4. Made \subseteq Made' /\ Made' \subseteq DOMAIN queue /\ Made \subseteq DOMAIN queue
      <4>1. ASSUME NEW j \in Made PROVE Standing(queue[j])'
        <5>1. j \in DOMAIN queue /\ Standing(queue[j])
          BY DEF Made, Past
        <5>2. PICK n \in Names : n = queue[j]
          BY <1>12, <5>1
        <5>3. Standing(n)' /\ n = queue'[j]
          BY <1>8, <1>1, <2>1, <5>1, <5>2
        <5> QED BY <5>3 DEF Standing
      <4> QED BY <3>3, <4>1 DEF Made, Past
    <3>5. IsFiniteSet(DOMAIN queue)
      <4>1. DOMAIN queue = 1..Len(queue) /\ Len(queue) \in Nat
        BY <1>2, LenProperties DEF BaseInv
      <4> QED BY <4>1, FS_Interval
    <3>6. IsFiniteSet(Made) /\ IsFiniteSet(Made')
      BY <3>4, <3>5, FS_Subset
    <3>7. Cardinality(Made) <= Cardinality(Made')
      BY <3>4, <3>6, FS_Subset
    <3>8. Cardinality(Made) \in Nat /\ Cardinality(Made') \in Nat /\ created \in Nat
      BY <1>2, <3>6, FS_CardinalityType DEF BaseInv
    <3> QED BY <3>1, <3>2, <3>7, <3>8
  <2>2. ASSUME Ended("a"), cmd.do = "create"
        PROVE  /\ created + skipped = Cardinality(NamesOfA)
               /\ created <= Cardinality({n \in NamesOfA : Standing(n)'})
    <3> DEFINE old == {n \in NamesOfA : Standing(n)}
               new == {n \in NamesOfA : Standing(n)'}
    <3>1. created + skipped = Cardinality(NamesOfA) /\ created <= Cardinality(old)
      BY <1>2, <2>2 DEF ReportInv
    <3>2. old \subseteq new
      <4>1. NamesOfA \subseteq Names /\ phase # "exit1"
        BY <1>2, <2>2, NamesOfAFacts DEF Ended, Running
      <4> QED BY <1>8, <4>1
    <3>3. IsFiniteSet(NamesOfA)
      BY <1>2, <2>2, NamesOfAFinite
    <3>4. IsFiniteSet(old) /\ IsFiniteSet(new)
      BY <3>3, FS_Subset
    <3>5. Cardinality(old) <= Cardinality(new)
      BY <3>2, <3>4, FS_Subset
    <3>6. Cardinality(old) \in Nat /\ Cardinality(new) \in Nat /\ created \in Nat
      BY <1>2, <3>4, FS_CardinalityType DEF BaseInv
    <3> QED BY <3>1, <3>5, <3>6
  <2> QED BY <1>1, <1>2, <1>11, <2>1, <2>2 DEF ReportInv
<1> QED BY <1>9, <1>10, <1>13, <1>14 DEF SchemaInv

-----------------------------------------------------------------------------
LEMMA InitInv == Init => SchemaInv
<1> SUFFICES ASSUME Init PROVE SchemaInv
  OBVIOUS
<1>1. here \in BOOLEAN /\ (SameDir => (here <=> list # 0))
  <2>1. here \in IF SameDir THEN {list # 0} ELSE BOOLEAN
    BY DEF Init
  <2>2. CASE SameDir
    <3>1. here = (list # 0)
      BY <2>1, <2>2, Zenon
    <3> QED BY <3>1
  <2>3. CASE ~SameDir
    BY <2>1, <2>3, Zenon
  <2> QED BY <2>2, <2>3
<1>2. BaseInv
  <2>1. <<>> \in Seq(Names) /\ Len(<<>>) = 0
    OBVIOUS
  <2>2. table \in [Kinds \X Names -> 0..MaxInvocations]
    <3>1. 0 \in 0..MaxInvocations /\ table = [e \in Kinds \X Names |-> 0]
      BY DEF Init
    <3> QED BY ONLY <3>1
  <2>3. /\ cmd \in Commands /\ invocation = 1 /\ phase = "start" /\ list \in {0, 1}
        /\ queue = <<>> /\ tenants = <<>> /\ next = 0 /\ inFlight = 0
        /\ created = 0 /\ skipped = 0 /\ torn = FALSE /\ late = {} /\ disturbed = {}
    BY DEF Init
  <2>4. late \subseteq Statements /\ disturbed \subseteq Kinds \X Names /\ torn \in BOOLEAN
    BY <2>3
  <2>5. list \in 0..invocation + 1 /\ invocation \in 1..MaxInvocations
    BY <2>3
  <2>6. created \in Nat /\ skipped \in Nat /\ next \in 0..Len(queue) /\ inFlight \in 0..Concurrency
    BY <2>1, <2>3
  <2> QED BY <1>1, <2>1, <2>2, <2>3, <2>4, <2>5, <2>6 DEF BaseInv
<1>3. ListInv
  BY <1>1 DEF Init, ListInv
<1>4. TodoInv /\ NamesInv /\ QueueInv /\ LateInv /\ ReportInv /\ DropInv
  BY DEF Init, LateInv, TodoInv, NamesInv, Running, QueueInv, ReportInv, DropInv, Ended
<1> QED BY <1>2, <1>3, <1>4 DEF SchemaInv

LEMMA RerunInv == SchemaInv /\ Rerun => SchemaInv'
<1> SUFFICES ASSUME SchemaInv, Rerun PROVE SchemaInv'
  OBVIOUS
<1>1. BaseInv'
  <2>1. <<>> \in Seq(Names) /\ Len(<<>>) = 0
    OBVIOUS
  <2> QED BY <2>1 DEF SchemaInv, BaseInv, Rerun, poolVars
<1>2. ListInv'
  BY DEF SchemaInv, BaseInv, ListInv, Rerun
<1>3. LateInv'
  <2>1. late \subseteq Statements /\ invocation \in 1..MaxInvocations /\ LateInv
    BY DEF SchemaInv, BaseInv
  <2>2. \A m \in late : m.by \in Nat /\ m.by <= invocation
    BY <2>1 DEF Statements, LateInv
  <2> QED BY <2>1, <2>2 DEF Rerun, LateInv
<1>4. TodoInv' /\ NamesInv' /\ QueueInv' /\ ReportInv' /\ DropInv'
  BY DEF Rerun, TodoInv, NamesInv, Running, QueueInv, ReportInv, DropInv, Ended
<1> QED BY <1>1, <1>2, <1>3, <1>4 DEF SchemaInv

LEMMA StartInv == SchemaInv /\ Start => SchemaInv'
<1> SUFFICES ASSUME SchemaInv, Start PROVE SchemaInv'
  OBVIOUS
<1>1. CASE Fail
  BY <1>1, FailInv
<1>2. CASE ~Fail
  <2>1. /\ phase = "start" /\ phase' = "strategy" /\ todo = cmd.strategies
        /\ UNCHANGED <<cmd, invocation, todo, here, list, torn, queue, next, inFlight, created,
                       skipped, table, late, disturbed>>
    BY <1>2 DEF Start, cmdVars, listVars, poolVars, counters, database, SchemaInv, TodoInv
  <2>2. IF "a" \in ToSet(todo) /\ cmd.do = "create"
        THEN IF cmd.given THEN tenants' = Given
             ELSE here /\ list # 0 /\ tenants' = NamesOf(list)
        ELSE tenants' = tenants
    BY <1>2 DEF Start, Readable, listVars
  <2>3. tenants' \in Seq(Names)
    <3>1. BaseInv
      BY DEF SchemaInv
    <3>2. CASE list = 0
      BY <3>1, <3>2, <2>2, GivenFacts DEF BaseInv
    <3>3. CASE list # 0
      <4>1. list \in 1..MaxInvocations + 1
        BY <3>1, <3>3 DEF BaseInv
      <4> QED BY <3>1, <4>1, <2>2, GivenFacts, ListFacts DEF BaseInv
    <3> QED BY <3>2, <3>3
  <2>4. BaseInv' /\ TodoInv' /\ ListInv' /\ QueueInv' /\ LateInv' /\ ReportInv' /\ DropInv'
    BY <2>1, <2>3 DEF SchemaInv, BaseInv, TodoInv, ListInv, QueueInv, LateInv, ReportInv,
                      DropInv, Ended
  <2>5. NamesInv'
    BY <2>1, <2>2 DEF NamesInv, Running
  <2> QED BY <2>4, <2>5 DEF SchemaInv
<1> QED BY <1>1, <1>2

-----------------------------------------------------------------------------
\* A strategy is begun with its names: none of them is behind a statement yet, and what
\* was finished before keeps its names.
LEMMA BegunInv ==
    ASSUME SchemaInv, phase \in {"strategy", "saving"},
           NEW names \in Seq(Names), Enqueue(names),
           names = IF Head(todo) = "b" THEN <<Shared>> ELSE tenants',
           here' \in BOOLEAN, torn' \in BOOLEAN, list' \in 0..invocation + 1, tenants' \in Seq(Names),
           "b" \in ToSet(todo) /\ Head(todo) # "b" => list' <= invocation,
           SameDir => (here' <=> list' # 0),
           NamesInv', Ended("a") => NamesOfA' = NamesOfA
    PROVE  SchemaInv'
<1>1. /\ phase' = "queue" /\ queue' = names
      /\ next' \in 0..Len(names) /\ inFlight' \in 0..Concurrency
      /\ at' \in [DOMAIN names -> 0..5]
      /\ \A i \in DOMAIN names : i > next' <=> at'[i] = Waiting
      /\ inFlight' = Cardinality({i \in DOMAIN names : at'[i] \in 1..4})
      /\ \A i \in DOMAIN names : at'[i] \in {Waiting, First}
  BY EnqueueFacts
<1>2. UNCHANGED <<cmd, invocation, todo, created, skipped, table, late, disturbed>>
  BY DEF Enqueue, cmdVars, counters, database
<1>3. BaseInv'
  BY <1>1, <1>2 DEF SchemaInv, BaseInv
<1>4. TodoInv' /\ ListInv' /\ LateInv'
  BY <1>1, <1>2 DEF SchemaInv, TodoInv, ListInv, LateInv
<1>5. QueueInv'
  <2>1. BusyOnes' = {i \in DOMAIN names : at'[i] \in 1..4}
    BY <1>1 DEF BusyOnes
  <2> QED BY <1>1, <1>2, <2>1 DEF QueueInv
<1>6. \A s \in {"a", "b"} : Ended(s)' = Ended(s)
  BY <1>1, <1>2 DEF Ended, Running
<1>7. DropInv'
  <2> SUFFICES ASSUME Dropping PROVE DropInv'
    BY <1>2 DEF DropInv, Dropping
  <2>1. \A i \in DOMAIN names : at'[i] \in {0, 1}
    BY <1>1, StatementFacts DEF Waiting
  <2>2. ASSUME NEW s \in {"a", "b"}, Ended(s), NEW k \in Kinds, NEW n \in NamesFor(s)'
        PROVE  Settled(k, n)'
    <3>1. NamesFor(s)' = NamesFor(s)
      BY <2>2 DEF NamesFor
    <3> QED BY <1>2, <2>2, <3>1 DEF SchemaInv, DropInv, Settled
  <2>3. \A s \in {"a", "b"} : Ended(s)' =>
           \A k \in Kinds, n \in NamesFor(s)' : Settled(k, n)'
    BY ONLY <1>6, <2>2
  <2>4. \A i \in DOMAIN queue' : ~(at'[i] >= 2) /\ ~(at'[i] >= 3)
    BY ONLY <1>1, <2>1
  <2> QED BY ONLY <2>3, <2>4 DEF DropInv
<1>8. ReportInv'
  <2>1. ASSUME Head(todo) = "a"
        PROVE  created' + skipped' = Cardinality(Past') /\ created' <= Cardinality(Made')
    <3>1. "a" \in ToSet(todo)
      <4>1. todo \in {<<"a">>, <<"b">>, <<"a", "b">>}
        BY CommandFacts DEF SchemaInv, BaseInv, TodoInv
      <4> QED BY <4>1, <2>1, StrategyFacts
    <3>2. created' = 0 /\ skipped' = 0
      <4>1. phase = "strategy"
        BY <2>1 DEF SchemaInv, ListInv
      <4> QED BY <1>2, <3>1, <4>1 DEF SchemaInv, ReportInv
    <3>3. Past' = {} /\ Made' = {}
      <4>1. \A i \in DOMAIN queue' : at'[i] \in {0, 1, 3}
        BY <1>1, StatementFacts DEF Waiting
      <4>2. Past' = {}
        BY <4>1 DEF Past
      <4> QED BY <4>2 DEF Made
    <3> QED BY <3>2, <3>3, FS_EmptySet
  <2>2. ASSUME Ended("a"), cmd.do = "create"
        PROVE  /\ created' + skipped' = Cardinality(NamesOfA')
               /\ created' <= Cardinality({n \in NamesOfA' : Standing(n)'})
    BY <1>2, <2>2 DEF SchemaInv, ReportInv, Standing
  <2> QED BY <1>1, <1>2, <1>6, <2>1, <2>2 DEF ReportInv
<1> QED BY <1>3, <1>4, <1>5, <1>7, <1>8 DEF SchemaInv

\* What the loop over the strategies has to do.
LEMMA TodoFacts ==
    ASSUME SchemaInv, phase = "strategy"
    PROVE  /\ Head(todo) \in {"a", "b"} /\ Head(todo) \in ToSet(todo)
           /\ "a" \in ToSet(todo) => Head(todo) = "a"
           /\ ToSet(todo) \subseteq ToSet(cmd.strategies)
           /\ list # 0 => list \in 1..MaxInvocations + 1
           /\ "b" \in ToSet(todo) => list <= invocation
<1>1. /\ todo = cmd.strategies \/ (cmd.strategies = <<"a", "b">> /\ todo = <<"b">>)
      /\ cmd.strategies \in {<<"a">>, <<"b">>, <<"a", "b">>}
  BY CommandFacts DEF SchemaInv, BaseInv, TodoInv
<1>2. list # 0 => list \in 1..MaxInvocations + 1
  BY DEF SchemaInv, BaseInv
<1>3. "b" \in ToSet(todo) => list <= invocation
  BY DEF SchemaInv, ListInv
<1> QED BY <1>1, <1>2, <1>3, StrategyFacts

LEMMA BeginAInv == SchemaInv /\ BeginA => SchemaInv'
<1> SUFFICES ASSUME SchemaInv, BeginA PROVE SchemaInv'
  OBVIOUS
<1>1. /\ phase = "strategy" /\ Head(todo) = "a" /\ cmd.do = "create" /\ Enqueue(tenants)
      /\ UNCHANGED <<here, list, torn, tenants>> /\ UNCHANGED <<cmd, invocation, todo>>
      /\ phase' = "queue"
  BY DEF BeginA, listVars, Enqueue, cmdVars
<1>2. BaseInv /\ ListInv /\ NamesInv
  BY DEF SchemaInv
<1>3. NamesInv'
  BY <1>1, <1>2 DEF NamesInv, Running
<1>4. NamesOfA' = NamesOfA
  BY <1>1 DEF NamesOfA
<1>5. /\ tenants' \in Seq(Names) /\ here' \in BOOLEAN /\ torn' \in BOOLEAN
      /\ list' \in 0..invocation + 1
      /\ SameDir => (here' <=> list' # 0)
  BY <1>1, <1>2 DEF BaseInv, ListInv
<1>6. "b" \in ToSet(todo) /\ Head(todo) # "b" => list' <= invocation
  BY <1>1, TodoFacts
<1>7. tenants \in Seq(Names) /\ tenants = IF Head(todo) = "b" THEN <<Shared>> ELSE tenants'
  BY <1>1, <1>5
<1> QED BY <1>1, <1>3, <1>4, <1>5, <1>6, <1>7, BegunInv

\* B's names are the shared pair; A's, if A is finished, are those of the list B finds.
LEMMA SharedInv ==
    ASSUME SchemaInv, phase \in {"strategy", "saving"}, Head(todo) = "b", cmd.do = "create",
           list # 0, Enqueue(<<Shared>>), tenants' = NamesOf(list), UNCHANGED <<here, list>>,
           torn' \in BOOLEAN
    PROVE  SchemaInv'
<1>1. BaseInv /\ ListInv /\ NamesInv
  BY DEF SchemaInv
<1>2. UNCHANGED <<cmd, invocation, todo>> /\ phase' = "queue"
  BY DEF Enqueue, cmdVars
<1>3. "a" \notin ToSet(todo)
  <2>1. /\ todo = cmd.strategies \/ (cmd.strategies = <<"a", "b">> /\ todo = <<"b">>)
        /\ cmd.strategies \in {<<"a">>, <<"b">>, <<"a", "b">>}
    BY CommandFacts DEF SchemaInv, BaseInv, TodoInv
  <2> QED BY <2>1, StrategyFacts
<1>4. list \in 1..invocation + 1 /\ list \in 1..MaxInvocations + 1 /\ list \in 0..invocation + 1
  BY <1>1 DEF BaseInv
<1>5. tenants' \in Seq(Names)
  BY <1>4, ListFacts
<1>6. "a" \in ToSet(cmd.strategies) /\ ~cmd.given => here /\ tenants' = tenants
  BY <1>1 DEF NamesInv, Running
<1>7. NamesInv'
  BY <1>2, <1>3, <1>6 DEF NamesInv, Running
<1>8. Ended("a") => NamesOfA' = NamesOfA
  BY <1>2, <1>6 DEF NamesOfA, Ended
<1>9. <<Shared>> \in Seq(Names) /\ <<Shared>> = IF Head(todo) = "b" THEN <<Shared>> ELSE tenants'
  BY GivenFacts
<1>10. here' \in BOOLEAN /\ list' \in 0..invocation + 1 /\ (SameDir => (here' <=> list' # 0))
  BY <1>1, <1>4 DEF BaseInv, ListInv
<1> QED BY <1>5, <1>7, <1>8, <1>9, <1>10, BegunInv

LEMMA BeginBInv == SchemaInv /\ BeginB => SchemaInv'
<1> SUFFICES ASSUME SchemaInv, BeginB PROVE SchemaInv'
  OBVIOUS
<1>1. /\ phase = "strategy" /\ Head(todo) = "b" /\ cmd.do = "create"
      /\ BaseInv /\ TodoInv /\ ListInv /\ NamesInv /\ LateInv /\ DropInv /\ ReportInv
  BY DEF BeginB, SchemaInv
<1>2. "b" \in ToSet(todo) /\ "a" \notin ToSet(todo) /\ list <= invocation
  BY <1>1, TodoFacts
<1>3. CASE Fail
  BY <1>3, FailInv
<1>4. CASE /\ here /\ Readable /\ tenants' = NamesOf(list) /\ Enqueue(<<Shared>>)
           /\ UNCHANGED <<here, list, torn>>
  <2>1. list # 0 /\ torn' \in BOOLEAN
    BY <1>1, <1>4 DEF Readable, BaseInv
  <2> QED BY <1>1, <1>4, <2>1, SharedInv
<1>5. CASE /\ ~here /\ list' = list + 1 /\ here' = SameDir /\ torn' = TRUE /\ phase' = "saving"
           /\ UNCHANGED <<cmdVars, todo, tenants, poolVars, counters, database>>
  <2>1. UNCHANGED <<cmd, invocation, todo, tenants, queue, next, inFlight, at, created, skipped,
                    table, late, disturbed>>
    BY <1>5 DEF cmdVars, poolVars, counters, database
  <2>2. list' \in 1..invocation + 1 /\ here' \in BOOLEAN
    BY <1>1, <1>2, <1>5 DEF BaseInv
  <2>3. BaseInv' /\ TodoInv' /\ LateInv'
    BY <1>1, <1>5, <2>1, <2>2 DEF BaseInv, TodoInv, LateInv
  <2>4. ListInv'
    BY <1>1, <1>5, <2>1, <2>2 DEF ListInv
  <2>5. NamesInv'
    BY <1>1, <1>2, <1>5, <2>1 DEF NamesInv, Running
  <2>6. QueueInv'
    BY <1>5 DEF QueueInv
  <2>7. /\ Dropping' = Dropping /\ NamesOfA' = NamesOfA
        /\ \A s \in {"a", "b"} : Ended(s)' = Ended(s) /\ NamesFor(s)' = NamesFor(s)
    BY <1>1, <1>5, <2>1 DEF Dropping, Ended, Running, NamesFor, NamesOfA
  <2>8. DropInv'
    BY <1>1, <1>5, <2>1, <2>7 DEF DropInv, Settled
  <2>9. ReportInv'
    BY <1>1, <1>2, <1>5, <2>1, <2>7 DEF ReportInv, Standing
  <2> QED BY <2>3, <2>4, <2>5, <2>6, <2>8, <2>9 DEF SchemaInv
<1> QED BY <1>3, <1>4, <1>5 DEF BeginB

LEMMA EndSaveInv == SchemaInv /\ EndSave => SchemaInv'
<1> SUFFICES ASSUME SchemaInv, EndSave PROVE SchemaInv'
  OBVIOUS
<1>1. phase = "saving" /\ Head(todo) = "b" /\ cmd.do = "create" /\ list # 0
  BY DEF EndSave, SchemaInv, ListInv
<1>2. /\ Enqueue(<<Shared>>) /\ tenants' = NamesOf(list) /\ UNCHANGED <<here, list>>
      /\ torn' \in BOOLEAN
  BY DEF EndSave
<1> QED BY <1>1, <1>2, SharedInv

LEMMA BeginDropInv == SchemaInv /\ BeginDrop => SchemaInv'
<1> SUFFICES ASSUME SchemaInv, BeginDrop PROVE SchemaInv'
  OBVIOUS
<1>1. phase = "strategy" /\ cmd.do = "drop"
  BY DEF BeginDrop
<1>2. BaseInv /\ ListInv /\ NamesInv
  BY DEF SchemaInv
<1>3. CASE Fail
  BY <1>3, FailInv
<1>4. CASE Head(todo) = "b" /\ Enqueue(<<Shared>>) /\ UNCHANGED listVars
  <2>1. UNCHANGED <<cmd, invocation, todo, here, list, torn, tenants>> /\ phase' = "queue"
    BY <1>4 DEF Enqueue, cmdVars, listVars
  <2>2. "a" \notin ToSet(todo)
    BY <1>1, <1>4, TodoFacts
  <2>3. NamesInv'
    BY <1>1, <1>2, <2>1, <2>2 DEF NamesInv, Running
  <2>4. NamesOfA' = NamesOfA
    BY <2>1 DEF NamesOfA
  <2>5. /\ tenants' \in Seq(Names) /\ here' \in BOOLEAN /\ torn' \in BOOLEAN
        /\ list' \in 0..invocation + 1
        /\ SameDir => (here' <=> list' # 0)
    BY <1>2, <2>1 DEF BaseInv, ListInv
  <2>6. <<Shared>> \in Seq(Names) /\ <<Shared>> = IF Head(todo) = "b" THEN <<Shared>> ELSE tenants'
    BY <1>4, GivenFacts
  <2> QED BY <1>1, <1>4, <2>3, <2>4, <2>5, <2>6, BegunInv
<1>5. CASE /\ Head(todo) = "a" /\ list # 0 /\ UNCHANGED <<here, list, torn>>
           /\ tenants' = NamesOf(list) /\ Enqueue(NamesOf(list))
  <2>1. UNCHANGED <<cmd, invocation, todo>> /\ phase' = "queue"
    BY <1>5 DEF Enqueue, cmdVars
  <2>2. "a" \in ToSet(todo) /\ ("b" \in ToSet(todo) => list <= invocation)
        /\ list \in 1..MaxInvocations + 1
    BY <1>1, <1>5, TodoFacts
  <2>3. NamesInv'
    BY <1>1, <1>5, <2>1 DEF NamesInv, Running
  <2>4. ~Ended("a")
    BY <2>2 DEF Ended
  <2>5. /\ NamesOf(list) \in Seq(Names) /\ here' \in BOOLEAN /\ torn' \in BOOLEAN
        /\ list' \in 0..invocation + 1
        /\ SameDir => (here' <=> list' # 0)
    BY <1>2, <1>5, <2>2, ListFacts DEF BaseInv, ListInv
  <2>6. NamesOf(list) = IF Head(todo) = "b" THEN <<Shared>> ELSE tenants'
    BY <1>5
  <2>7. "b" \in ToSet(todo) => list' <= invocation
    BY <1>5, <2>2
  <2> QED BY <1>1, <1>5, <2>3, <2>4, <2>5, <2>6, <2>7, BegunInv
<1> QED BY <1>3, <1>4, <1>5 DEF BeginDrop, Readable

-----------------------------------------------------------------------------
\* An injective sequence has as many members as it has indexes, over any of these.
LEMMA ImageCardinality ==
    ASSUME NEW s, NEW D, IsFiniteSet(D), \A i, j \in D : s[i] = s[j] => i = j
    PROVE  Cardinality({s[i] : i \in D}) = Cardinality(D)
<1> DEFINE T == {s[i] : i \in D}
           f == [i \in D |-> s[i]]
<1>1. f \in [D -> T]
  OBVIOUS
<1>2. \A i, j \in D : f[i] = f[j] => i = j
  OBVIOUS
<1>3. \A t \in T : \E i \in D : f[i] = t
  OBVIOUS
<1>4. f \in Bijection(D, T)
  BY <1>1, <1>2, <1>3 DEF Bijection, Injection, Surjection, IsInjective
<1>5. ExistsBijection(D, T)
  BY <1>4 DEF ExistsBijection
<1> QED BY <1>5, FS_Bijection

\* At the end of a strategy every name's statements are behind it.
LEMMA AllDone ==
    ASSUME SchemaInv, EndStrategy
    PROVE  \A i \in DOMAIN queue : at[i] = Done
<1>1. /\ phase = "queue" /\ next = Len(queue) /\ inFlight = 0
      /\ DOMAIN queue = 1..Len(queue) /\ Len(queue) \in Nat
      /\ at \in [DOMAIN queue -> 0..5] /\ inFlight = Cardinality(BusyOnes)
      /\ \A i \in DOMAIN queue : i > next <=> at[i] = Waiting
  BY LenProperties DEF EndStrategy, SchemaInv, BaseInv, QueueInv
<1>2. IsFiniteSet(BusyOnes)
  <2>1. IsFiniteSet(DOMAIN queue) /\ BusyOnes \subseteq DOMAIN queue
    BY <1>1, FS_Interval DEF BusyOnes
  <2> QED BY <2>1, FS_Subset
<1>3. BusyOnes = {}
  BY <1>1, <1>2, FS_EmptySet
<1> SUFFICES ASSUME NEW i \in DOMAIN queue PROVE at[i] = Done
  OBVIOUS
<1>4. at[i] # 0 /\ at[i] \notin 1..4 /\ at[i] \in 0..5
  BY <1>1, <1>3 DEF BusyOnes, Waiting
<1> QED BY <1>4 DEF Done

LEMMA EndStrategyInv == SchemaInv /\ EndStrategy => SchemaInv'
<1> SUFFICES ASSUME SchemaInv, EndStrategy PROVE SchemaInv'
  OBVIOUS
<1>1. /\ phase = "queue" /\ todo' = Tail(todo)
      /\ phase' = IF todo' = <<>> THEN "exit0" ELSE "strategy"
      /\ queue' = <<>> /\ next' = 0 /\ inFlight' = 0
      /\ UNCHANGED <<cmd, invocation, here, list, torn, tenants, created, skipped, table, late,
                     disturbed>>
  BY DEF EndStrategy, NoQueue, cmdVars, listVars, counters, database
<1>2. /\ BaseInv /\ TodoInv /\ ListInv /\ NamesInv /\ QueueInv
      /\ LateInv /\ DropInv /\ ReportInv
  BY DEF SchemaInv
<1>3. /\ todo = cmd.strategies \/ (cmd.strategies = <<"a", "b">> /\ todo = <<"b">>)
      /\ cmd.strategies \in {<<"a">>, <<"b">>, <<"a", "b">>}
  BY <1>1, <1>2, CommandFacts DEF BaseInv, TodoInv
<1>4. /\ ToSet(todo) \subseteq ToSet(cmd.strategies)
      /\ Head(todo) \in ToSet(todo) /\ Head(todo) \in {"a", "b"}
      /\ \A s \in ToSet(todo) : s = Head(todo) \/ s \in ToSet(todo')
      /\ Head(todo) \notin ToSet(todo') /\ ToSet(todo') \subseteq ToSet(todo)
      /\ "a" \notin ToSet(todo')
      /\ todo' # <<>> => cmd.strategies = <<"a", "b">> /\ todo' = <<"b">>
      /\ Head(todo) = "b" => ToSet(todo') = {}
  BY <1>1, <1>3, StrategyFacts
<1>5. Running' /\ Running
  BY <1>1 DEF Running
<1>6. \A s \in {"a", "b"} : Ended(s)' => Ended(s) \/ s = Head(todo)
  BY <1>1, <1>4, <1>5 DEF Ended
<1>7. BaseInv' /\ LateInv'
  <2>1. <<>> \in Seq(Names) /\ Len(<<>>) = 0
    OBVIOUS
  <2> QED BY <1>1, <1>2, <2>1 DEF BaseInv, LateInv, Exited
<1>8. TodoInv'
  BY <1>1, <1>4 DEF TodoInv
<1>9. ListInv'
  <2>1. "b" \in ToSet(todo') => list <= invocation
    BY <1>1, <1>2, <1>4 DEF ListInv
  <2> QED BY <1>1, <1>2, <2>1 DEF ListInv
<1>10. NamesInv'
  BY <1>1, <1>2, <1>4, <1>5 DEF NamesInv
<1>11. QueueInv'
  BY <1>1 DEF QueueInv
<1>12. \A s \in {"a", "b"} : NamesFor(s)' = NamesFor(s)
  BY <1>1 DEF NamesFor, NamesOfA
<1>13. NamesFor(Head(todo)) = ToSet(queue)
  <2>1. CASE Head(todo) = "b"
    <3>1. queue = <<Shared>>
      BY <1>1, <1>2, <2>1 DEF QueueInv
    <3> QED BY <2>1, <3>1, GivenFacts DEF NamesFor, ToSet
  <2>2. CASE Head(todo) = "a"
    BY <1>1, <1>2, <2>2, QueueFacts DEF NamesFor
  <2> QED BY <1>4, <2>1, <2>2
<1>14. DropInv'
  <2> SUFFICES ASSUME Dropping PROVE DropInv'
    BY <1>1 DEF DropInv, Dropping
  <2>1. ASSUME NEW s \in {"a", "b"}, Ended(s)', NEW k \in Kinds, NEW n \in NamesFor(s)'
        PROVE  Settled(k, n)
    <3>1. n \in NamesFor(s)
      BY <1>12
    <3>2. CASE Ended(s)
      BY <1>2, <3>1, <3>2 DEF DropInv
    <3>3. CASE s = Head(todo)
      <4>1. PICK i \in DOMAIN queue : n = queue[i]
        BY <1>13, <3>1, <3>3 DEF ToSet
      <4>2. at[i] = 5
        BY AllDone DEF Done
      <4>3. Settled("spans", queue[i]) /\ Settled("items", queue[i])
        BY <1>1, <1>2, <4>2 DEF DropInv
      <4> QED BY <4>1, <4>3 DEF Kinds
    <3> QED BY <1>6, <2>1, <3>2, <3>3
  <2> QED BY <1>1, <2>1 DEF DropInv, Settled
<1>15. ReportInv'
  <2> SUFFICES ASSUME Ended("a")', cmd.do = "create"
               PROVE  /\ created + skipped = Cardinality(NamesOfA)
                      /\ created <= Cardinality({n \in NamesOfA : Standing(n)})
    <3>1. phase' # "start" /\ phase' # "queue" /\ "a" \notin ToSet(todo')
      BY <1>1, <1>4
    <3>2. NamesOfA' = NamesOfA
      BY <1>1 DEF NamesOfA
    <3> QED BY <1>1, <3>1, <3>2 DEF ReportInv, Standing
  <2>1. CASE Ended("a")
    BY <1>2, <2>1 DEF ReportInv
  <2>2. CASE Head(todo) = "a"
    <3>1. created + skipped = Cardinality(Past) /\ created <= Cardinality(Made)
      BY <1>1, <1>2, <2>2 DEF ReportInv
    <3>2. /\ NamesOfA = {queue[i] : i \in DOMAIN queue}
          /\ \A i, j \in DOMAIN queue : queue[i] = queue[j] => i = j
      BY <1>1, <1>2, <2>2, QueueFacts DEF ToSet
    <3>3. Past = DOMAIN queue /\ Made \subseteq DOMAIN queue
      BY AllDone DEF Past, Made, Done
    <3>4. IsFiniteSet(DOMAIN queue)
      <4>1. DOMAIN queue = 1..Len(queue) /\ Len(queue) \in Nat
        BY <1>2, LenProperties DEF BaseInv
      <4> QED BY <4>1, FS_Interval
    <3>5. IsFiniteSet(Made)
      BY <3>3, <3>4, FS_Subset
    <3>6. Cardinality(NamesOfA) = Cardinality(Past)
      BY <3>2, <3>3, <3>4, ImageCardinality
    <3>7. {n \in NamesOfA : Standing(n)} = {queue[i] : i \in Made}
      <4>1. Made = {i \in DOMAIN queue : Standing(queue[i])}
        BY <3>3 DEF Made
      <4> QED BY ONLY <3>2, <4>1
    <3>8. \A i, j \in Made : queue[i] = queue[j] => i = j
      BY <3>2, <3>3
    <3>9. Cardinality({queue[i] : i \in Made}) = Cardinality(Made)
      BY <3>5, <3>8, ImageCardinality
    <3> QED BY <3>1, <3>6, <3>7, <3>9
  <2> QED BY <1>6, <2>1, <2>2
<1> QED BY <1>7, <1>8, <1>9, <1>10, <1>11, <1>14, <1>15 DEF SchemaInv

-----------------------------------------------------------------------------
LEMMA StutterInv == SchemaInv /\ UNCHANGED vars => SchemaInv'
<1> SUFFICES ASSUME SchemaInv, UNCHANGED vars PROVE SchemaInv'
  OBVIOUS
<1>1. UNCHANGED <<cmd, invocation, phase, todo, here, list, torn, tenants, queue, next, inFlight,
                  at, created, skipped, table, late, disturbed>>
  BY DEF vars, cmdVars, listVars, poolVars, counters, database
<1>2. BaseInv' /\ TodoInv' /\ ListInv' /\ NamesInv' /\ LateInv'
  BY <1>1 DEF SchemaInv, BaseInv, TodoInv, ListInv, NamesInv, Running, LateInv
<1>3. QueueInv' /\ DropInv' /\ ReportInv'
  BY <1>1 DEF SchemaInv, QueueInv, DropInv, ReportInv, BusyOnes, Past, Made, Ended, Running,
              Dropping, NamesFor, NamesOfA, Settled, Standing
<1> QED BY <1>2, <1>3 DEF SchemaInv

LEMMA NextInv == SchemaInv /\ [Next]_vars => SchemaInv'
<1> SUFFICES ASSUME SchemaInv, [Next]_vars PROVE SchemaInv'
  OBVIOUS
<1>1. CASE Start
  BY <1>1, StartInv
<1>2. CASE BeginB
  BY <1>2, BeginBInv
<1>3. CASE BeginA
  BY <1>3, BeginAInv
<1>4. CASE BeginDrop
  BY <1>4, BeginDropInv
<1>5. CASE EndStrategy
  BY <1>5, EndStrategyInv
<1>6. CASE \E i \in DOMAIN queue : Answer(i) \/ Refuse(i)
  BY <1>6, AnswerInv, RefuseInv
<1>7. CASE Interrupt
  BY <1>7, FailInv DEF Interrupt
<1>8. CASE Rerun
  BY <1>8, RerunInv
<1>9. CASE UNCHANGED vars
  BY <1>9, StutterInv
<1>10. CASE EndSave
  BY <1>10, EndSaveInv
<1>11. CASE \E m \in late : Land(m)
  BY <1>11, LandInv
<1> QED BY <1>1, <1>2, <1>3, <1>4, <1>5, <1>6, <1>7, <1>8, <1>9, <1>10, <1>11 DEF Next, Progress

\* The schema commands keep the relation between places, counters, lists and tables.
THEOREM SchemaInvariant == Spec => []SchemaInv
<1>1. Init => SchemaInv
  BY InitInv
<1>2. SchemaInv /\ [Next]_vars => SchemaInv'
  BY NextInv
<1> QED BY <1>1, <1>2, PTL DEF Spec

\* The variables keep their types, and the pool of names its slots (create.ts:81-131).
THEOREM SchemaTypes == Spec => []TypeOK
<1>1. SchemaInv => TypeOK
  <2> SUFFICES ASSUME SchemaInv PROVE TypeOK
    OBVIOUS
  <2>1. BaseInv /\ QueueInv
    BY DEF SchemaInv
  <2>2. list \in 0..MaxInvocations + 1
    BY <2>1 DEF BaseInv
  <2>3. ToSet(queue) \subseteq Names
    <3>1. \A i \in DOMAIN queue : queue[i] \in Names
      BY <2>1, ElementOfSeq DEF BaseInv
    <3> QED BY <3>1 DEF ToSet
  <2>4. phase = "queue" => inFlight = Cardinality({i \in DOMAIN queue : Busy(i)})
    <3> SUFFICES ASSUME phase = "queue"
                 PROVE  inFlight = Cardinality({i \in DOMAIN queue : Busy(i)})
      OBVIOUS
    <3>1. {i \in DOMAIN queue : Busy(i)} = BusyOnes
      BY DEF Busy, BusyOnes, Drops, Creates
    <3> QED BY <2>1, <3>1 DEF QueueInv
  <2> QED BY <2>1, <2>2, <2>3, <2>4 DEF TypeOK, BaseInv
<1> QED BY <1>1, SchemaInvariant, PTL

\* A command that drops and exits with 0 leaves no table of an earlier schema among the
\* tables it was asked for, whatever failed, was retried or interrupted before, except
\* one that a CREATE of an ended command made after this command had dropped it.
THEOREM DropsAreComplete == Spec => []DroppedIsGone
<1>1. SchemaInv => DroppedIsGone
  <2> SUFFICES ASSUME SchemaInv, phase = "exit0", Dropping,
                      NEW k \in Kinds, NEW n \in Selected
               PROVE  Settled(k, n)
    BY DEF DroppedIsGone, Dropping, Settled
  <2>1. PICK s \in ToSet(cmd.strategies) : n \in NamesFor(s)
    BY DEF Selected, NamesFor
  <2>2. s \in {"a", "b"} /\ s \notin ToSet(todo)
    <3>1. todo = <<>> /\ cmd.strategies \in {<<"a">>, <<"b">>, <<"a", "b">>}
      BY CommandFacts DEF SchemaInv, BaseInv, TodoInv
    <3> QED BY <3>1, StrategyFacts
  <2>3. Ended(s)
    BY <2>2 DEF Ended, Running
  <2>4. \A q \in {"a", "b"} : Ended(q) =>
           \A l \in Kinds, m \in NamesFor(q) : Settled(l, m)
    BY DEF SchemaInv, DropInv
  <2> QED BY ONLY <2>1, <2>2, <2>3, <2>4
<1> QED BY <1>1, SchemaInvariant, PTL

\* The report of strategy A adds up to the tenants and claims no table that was not made,
\* however the pool's tasks interleave and fail: one it claims is there, or was until a
\* DROP of an ended command landed.
THEOREM ReportsAreTrue == Spec => []ReportIsTrue
<1>1. SchemaInv => ReportIsTrue
  <2> SUFFICES ASSUME SchemaInv, phase = "exit0", cmd.do = "create",
                      "a" \in ToSet(cmd.strategies)
               PROVE  /\ created + skipped = Cardinality(NamesOfA)
                      /\ created <= Cardinality({n \in NamesOfA : Standing(n)})
    BY DEF ReportIsTrue, Standing
  <2>1. Ended("a")
    <3>1. todo = <<>>
      BY DEF SchemaInv, TodoInv
    <3> QED BY <3>1, StrategyFacts DEF Ended, Running
  <2> QED BY <2>1 DEF SchemaInv, ReportInv
<1> QED BY <1>1, SchemaInvariant, PTL

\* Where RESULTS_DIR is ./results, a list that exists is never replaced (create.ts:37-45).
THEOREM ListIsNeverReplaced == SameDir => (Spec => ListIsKept)
<1> SUFFICES ASSUME SameDir PROVE Spec => ListIsKept
  OBVIOUS
<1>1. SchemaInv /\ [Next]_vars => [list # 0 => list' = list]_list
  <2> SUFFICES ASSUME SchemaInv, [Next]_vars, list # 0 PROVE list' = list
    OBVIOUS
  <2>1. here
    BY DEF SchemaInv, ListInv
  <2>2. CASE BeginB
    BY <2>1, <2>2 DEF BeginB, Fail, listVars
  <2>3. CASE Start \/ EndSave \/ BeginA \/ BeginDrop \/ EndStrategy \/ Interrupt \/ Rerun
    BY <2>3 DEF Start, EndSave, BeginA, BeginDrop, EndStrategy, Interrupt, Rerun, Fail, listVars
  <2>4. CASE (\E i \in DOMAIN queue : Answer(i) \/ Refuse(i)) \/ \E m \in late : Land(m)
    BY <2>4 DEF Answer, Refuse, Land, Fail, listVars
  <2>5. CASE UNCHANGED vars
    BY <2>5 DEF vars, listVars
  <2> QED BY <2>2, <2>3, <2>4, <2>5 DEF Next, Progress
<1> QED BY <1>1, SchemaInvariant, PTL DEF Spec, ListIsKept
=============================================================================
