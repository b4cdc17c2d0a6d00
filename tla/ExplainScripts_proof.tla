------------------------- MODULE ExplainScripts_proof -------------------------
(***************************************************************************)
(* Proofs about ExplainScripts, for any number of samples, conversations,  *)
(* pools and pressure workers: an explain under load runs under exactly    *)
(* its own pool's workers, and the rows of the other scripts are about the *)
(* conversations that make them comparable.                                *)
(***************************************************************************)
EXTENDS ExplainScripts, FunctionTheorems, FiniteSetTheorems, SequenceTheorems, TLAPS

Pools  == {"clustered", "scattered", "any", "spans"}
Stages == {"start", "row", "pressure", "explain", "max", "stopping", "closing"} \cup Exited

\* What the flags of a command can ask for; nothing changes them.
FlagsInv ==
    \/ script = "under_load" /\ workloads \in PoolFlags /\ strategies \in {<<"a">>, <<"b">>}
    \/ /\ script = "regressions" /\ strategies = <<"a", "b">>
       /\ workloads = <<"clustered", "scattered", "scattered", "spans">>
    \/ /\ script = "samples" /\ strategies = <<"a", "b">>
       /\ workloads \in {<<"clustered">>, <<"scattered">>}
    \/ script = "explain" /\ strategies = <<"b", "a">> /\ workloads = <<"any", "any">>

ItemOf == [workload : Nat, sample : Nat, strategy : {"a", "b"}]
RowOf  == [item : ItemOf, key : 0..Cutoff]

\* The rows are those of the first explains, and main() awaits the next one; all are
\* there when the script closes its connections.
RowsInv ==
    /\ stage \in Stages /\ asked \in 0..Cutoff
    /\ rows \in Seq(RowOf)
    /\ Len(rows) <= Explains
    /\ stage \in {"pressure", "explain", "max", "start", "row"} => Len(rows) < Explains
    /\ stage \in {"start", "row"} => rows = <<>>
    /\ stage \in {"closing", "exit0"} => Len(rows) = Explains
    /\ stage = "row" => script = "explain"
    /\ stage = "max" => script = "regressions"
    /\ stage \in {"pressure", "stopping"} => script = "under_load"
    /\ \A n \in 1..Len(rows) : rows[n].item = Item(n) /\ rows[n].key \in Keys(n)
    /\ \A n \in 1..Explains : stage = "explain" /\ n = Len(rows) + 1 => asked \in Keys(n)
    /\ script = "explain" /\ (stage = "explain" \/ rows # <<>>) => asked \in Conversations("any")

\* The pool whose samples are explained, or the last one after that.
Current == IF stage = "stopping" THEN Len(rows) \div PerWorkload
           ELSE Len(rows) \div PerWorkload + 1

\* Only the workers of the current pool query: all of them until the flag is set.
PressureInv ==
    /\ stopPressure \in BOOLEAN
    /\ worker \in [DOMAIN workloads -> [Workers -> {"none", "querying", "ended"}]]
    /\ script # "under_load" => worker = NoWorkers
    /\ script = "under_load" /\ stage \in {"pressure", "explain"} =>
          /\ ~stopPressure
          /\ \A p \in DOMAIN workloads, i \in Workers : worker[p][i] = "querying" <=> p = Current
    /\ stage = "stopping" =>
          /\ stopPressure /\ Len(rows) = Current * PerWorkload /\ Current \in DOMAIN workloads
          /\ \A p \in DOMAIN workloads, i \in Workers :
                p # Current => worker[p][i] # "querying"
    /\ stage \notin {"pressure", "explain", "stopping"} =>
          \A p \in DOMAIN workloads, i \in Workers : worker[p][i] # "querying"

ScriptInv == FlagsInv /\ RowsInv /\ PressureInv

-----------------------------------------------------------------------------
(* The nested loops. *)

LEMMA DivBounds ==
  ASSUME NEW a \in Nat, NEW b \in Nat \ {0}
  PROVE  /\ a \div b \in Nat /\ (a % b) \in 0..(b - 1)
         /\ a = (a \div b) * b + (a % b)
<1>1. a \div b \in Nat /\ (a % b) \in 0..(b - 1)
  OBVIOUS
<1>2. a = b * (a \div b) + (a % b)
  OBVIOUS
<1> QED BY <1>1, <1>2

\* A quotient is known by its multiple.
LEMMA DivUnique ==
  ASSUME NEW a \in Nat, NEW b \in Nat \ {0}, NEW q \in Nat, NEW r \in 0..b - 1, a = q * b + r
  PROVE  a \div b = q /\ (a % b) = r
OBVIOUS

\* Products by a common factor.
LEMMA MulStrict ==
  ASSUME NEW a \in Nat, NEW b \in Nat, NEW n \in Nat \ {0}, a * n < b * n
  PROVE  a < b
OBVIOUS

LEMMA MulMono ==
  ASSUME NEW a \in Nat, NEW b \in Nat, NEW n \in Nat, a <= b
  PROVE  a * n <= b * n
OBVIOUS

LEMMA MulSucc ==
  ASSUME NEW a \in Nat, NEW b \in Nat, NEW n \in Nat, a < b
  PROVE  (a + 1) * n <= b * n /\ (a + 1) * n = a * n + n
<1>1. a + 1 \in Nat /\ a + 1 <= b
  OBVIOUS
<1>2. (a + 1) * n <= b * n
  BY <1>1, MulMono
<1>3. (a + 1) * n = a * n + n
  OBVIOUS
<1> QED BY <1>2, <1>3

LEMMA MulBound ==
  ASSUME NEW a \in Nat \ {0}, NEW b \in Nat, NEW n \in Nat \ {0}, a * n <= b * n
  PROVE  a \in 1..b
OBVIOUS

\* The loops of each command are not empty, and of its own pools and strategies.
LEMMA FlagsFacts ==
  ASSUME FlagsInv
  PROVE  /\ Len(workloads) \in Nat \ {0} /\ DOMAIN workloads = 1..Len(workloads)
         /\ \A w \in 1..Len(workloads) : workloads[w] \in Pools
         /\ Len(strategies) \in {1, 2}
         /\ \A k \in 1..Len(strategies) : strategies[k] \in {"a", "b"}
         /\ PerWorkload \in Nat \ {0}
         /\ Explains = Len(workloads) * PerWorkload /\ Explains \in Nat \ {0}
         /\ script # "explain" => PerWorkload = Samples * Len(strategies)
         /\ script = "under_load" =>
               \A w \in 1..Len(workloads) : workloads[w] \in {"clustered", "scattered"}
         /\ script # "regressions" => \A w \in 1..Len(workloads) : workloads[w] # "spans"
         /\ script = "explain" => workloads = <<"any", "any">> /\ strategies = <<"b", "a">>
                                  /\ PerWorkload = 2 /\ Explains = 4
         /\ script \in {"regressions", "samples"} =>
               /\ strategies = <<"a", "b">> /\ Len(strategies) = 2
               /\ \A w \in 1..Len(workloads) : workloads[w] \in {"clustered", "scattered", "spans"}
<1>1. CASE script = "under_load" /\ workloads \in PoolFlags /\ strategies \in {<<"a">>, <<"b">>}
  <2>1. workloads \in Seq({"clustered", "scattered"}) /\ workloads # <<>>
    BY <1>1, ScriptsAssumption
  <2>2. /\ Len(workloads) \in Nat \ {0} /\ DOMAIN workloads = 1..Len(workloads)
        /\ \A w \in 1..Len(workloads) : workloads[w] \in {"clustered", "scattered"}
    BY <2>1, EmptySeq, LenProperties, ElementOfSeq
  <2>3. Len(strategies) = 1 /\ \A k \in 1..Len(strategies) : strategies[k] \in {"a", "b"}
    BY <1>1
  <2>4. PerWorkload = Samples * Len(strategies) /\ PerWorkload \in Nat \ {0}
    BY <1>1, <2>3, ScriptsAssumption DEF PerWorkload
  <2>5. Explains = Len(workloads) * PerWorkload /\ Explains \in Nat \ {0}
    BY <2>2, <2>4 DEF Explains
  <2> QED BY <1>1, <2>2, <2>3, <2>4, <2>5 DEF Pools
<1>2. CASE /\ script = "regressions" /\ strategies = <<"a", "b">>
           /\ workloads = <<"clustered", "scattered", "scattered", "spans">>
  <2>1. /\ Len(workloads) = 4 /\ DOMAIN workloads = 1..4
        /\ \A w \in 1..4 : workloads[w] \in {"clustered", "scattered", "spans"}
    BY <1>2
  <2>2. Len(strategies) = 2 /\ \A k \in 1..2 : strategies[k] \in {"a", "b"}
    BY <1>2
  <2>3. PerWorkload = Samples * 2 /\ PerWorkload \in Nat \ {0}
    BY <1>2, <2>2, ScriptsAssumption DEF PerWorkload
  <2>4. Explains = 4 * PerWorkload /\ Explains \in Nat \ {0}
    BY <2>1, <2>3 DEF Explains
  <2> QED BY <1>2, <2>1, <2>2, <2>3, <2>4 DEF Pools
<1>3. CASE /\ script = "samples" /\ strategies = <<"a", "b">>
           /\ workloads \in {<<"clustered">>, <<"scattered">>}
  <2>1. /\ Len(workloads) = 1 /\ DOMAIN workloads = 1..1
        /\ \A w \in 1..1 : workloads[w] \in {"clustered", "scattered"}
    BY <1>3
  <2>2. Len(strategies) = 2 /\ \A k \in 1..2 : strategies[k] \in {"a", "b"}
    BY <1>3
  <2>3. PerWorkload = Samples * 2 /\ PerWorkload \in Nat \ {0}
    BY <1>3, <2>2, ScriptsAssumption DEF PerWorkload
  <2>4. Explains = 1 * PerWorkload /\ Explains \in Nat \ {0}
    BY <2>1, <2>3 DEF Explains
  <2> QED BY <1>3, <2>1, <2>2, <2>3, <2>4 DEF Pools
<1>4. CASE script = "explain" /\ strategies = <<"b", "a">> /\ workloads = <<"any", "any">>
  <2>1. /\ Len(workloads) = 2 /\ DOMAIN workloads = 1..2
        /\ \A w \in 1..2 : workloads[w] = "any"
    BY <1>4
  <2>2. Len(strategies) = 2 /\ \A k \in 1..2 : strategies[k] \in {"a", "b"}
    BY <1>4
  <2>3. PerWorkload = 2
    BY <1>4, <2>2 DEF PerWorkload
  <2>4. Explains = 2 * PerWorkload /\ Explains = 4
    BY <2>1, <2>3 DEF Explains
  <2> QED BY <1>4, <2>1, <2>2, <2>3, <2>4 DEF Pools
<1> QED BY <1>1, <1>2, <1>3, <1>4 DEF FlagsInv

\* What the n-th explain is about.
LEMMA ItemFacts ==
  ASSUME FlagsInv, NEW n \in 1..Explains
  PROVE  /\ Item(n) \in ItemOf /\ Item(n).workload \in 1..Len(workloads)
         /\ script = "explain" => Item(n).sample = 0
         /\ script # "explain" =>
               /\ Item(n).workload = (n - 1) \div PerWorkload + 1
               /\ Item(n).sample = ((n - 1) % PerWorkload) \div Len(strategies)
               /\ Item(n).strategy = strategies[((n - 1) % Len(strategies)) + 1]
<1>1. CASE script = "explain"
  <2>1. n \in 1..4 /\ Len(workloads) = 2
    BY <1>1, FlagsFacts
  <2>2. Item(n) = [workload |-> 2 - (n % 2), sample |-> 0, strategy |-> strategies[(n + 1) \div 2]]
    BY <1>1 DEF Item
  <2>3. (2 - (n % 2)) \in 1..2 /\ (n + 1) \div 2 \in 1..2
    BY <2>1
  <2>4. strategies[(n + 1) \div 2] \in {"a", "b"}
    BY <1>1, <2>3, FlagsFacts
  <2> QED BY <1>1, <2>1, <2>2, <2>3, <2>4 DEF ItemOf
<1>2. CASE script # "explain"
  <2> DEFINE P == PerWorkload
             K == Len(strategies)
             w == (n - 1) \div P
  <2>1. P \in Nat \ {0} /\ K \in {1, 2} /\ Explains = Len(workloads) * P /\ Explains \in Nat
        /\ Len(workloads) \in Nat
    BY FlagsFacts
  <2>2. Item(n) = [workload |-> w + 1, sample |-> ((n - 1) % P) \div K,
                   strategy |-> strategies[((n - 1) % K) + 1]]
    BY <1>2 DEF Item
  <2>3. n - 1 \in Nat /\ n - 1 < Len(workloads) * P
    BY <2>1
  <2>4. w \in Nat /\ (n - 1) % P \in Nat /\ w * P <= n - 1
    <3> HIDE DEF P
    <3>1. w \in Nat /\ (n - 1) % P \in 0..(P - 1) /\ n - 1 = w * P + ((n - 1) % P)
      BY <2>1, <2>3, DivBounds
    <3> HIDE DEF w
    <3>2. (n - 1) % P \in Nat
      BY <2>1, <3>1
    <3> QED BY <2>1, <2>3, <3>1, <3>2
  <2>5. w < Len(workloads)
    <3> HIDE DEF P, w
    <3> QED BY <2>1, <2>3, <2>4
  <2>6. ((n - 1) % P) \div K \in Nat /\ ((n - 1) % K) + 1 \in 1..K
    <3> HIDE DEF P, K
    <3> QED BY <2>1, <2>3, <2>4
  <2>7. strategies[((n - 1) % K) + 1] \in {"a", "b"}
    BY <2>6, FlagsFacts
  <2>8. w + 1 \in 1..Len(workloads)
    <3> HIDE DEF w
    <3> QED BY <2>1, <2>4, <2>5
  <2> HIDE DEF P, K, w
  <2>9. Item(n) \in ItemOf /\ Item(n).workload = w + 1
    BY <2>2, <2>4, <2>6, <2>7 DEF ItemOf
  <2> QED BY <1>2, <2>2, <2>8, <2>9 DEF P, K, w
<1> QED BY <1>1, <1>2

LEMMA HalfFacts ==
  /\ Half \in Nat \ {0} /\ ConversationsPerTenant \in Nat
  /\ ConversationsPerTenant - Half \in Nat \ {0} /\ Half < ConversationsPerTenant
BY ScriptsAssumption DEF Half

\* The conversation of a sample is one of its pool.
LEMMA IndexFacts ==
  ASSUME NEW pool \in {"clustered", "scattered"}, NEW sample \in Nat
  PROVE  conversationIndex(pool, sample) \in Conversations(pool)
<1>1. /\ (sample % Half) \in 0..Half - 1
      /\ (sample % (ConversationsPerTenant - Half)) \in 0..(ConversationsPerTenant - Half) - 1
  BY HalfFacts, DivBounds
<1>2. CASE pool = "clustered"
  BY <1>1, <1>2, HalfFacts DEF conversationIndex, Conversations
<1>3. CASE pool = "scattered"
  BY <1>1, <1>3, HalfFacts DEF conversationIndex, Conversations
<1> QED BY <1>2, <1>3

LEMMA KeysFacts ==
  ASSUME FlagsInv, NEW n \in 1..Explains
  PROVE  /\ PoolOf(n) = workloads[Item(n).workload] /\ PoolOf(n) \in Pools
         /\ script = "under_load" => PoolOf(n) \in {"clustered", "scattered"}
         /\ PoolOf(n) = "spans" => script = "regressions" /\ Keys(n) = {Cutoff}
         /\ script = "explain" => Keys(n) = {asked} /\ PoolOf(n) = "any"
         /\ script \in {"regressions", "samples"} /\ PoolOf(n) # "spans" =>
               /\ PoolOf(n) \in {"clustered", "scattered"}
               /\ Keys(n) = {conversationIndex(PoolOf(n), Item(n).sample)}
         /\ (script = "explain" => asked \in Conversations("any")) =>
               Keys(n) \subseteq Conversations(PoolOf(n))
<1>1. Item(n) \in ItemOf /\ Item(n).workload \in 1..Len(workloads) /\ Item(n).sample \in Nat
  BY ItemFacts DEF ItemOf
<1>2. /\ PoolOf(n) = workloads[Item(n).workload] /\ PoolOf(n) \in Pools
      /\ script = "under_load" => PoolOf(n) \in {"clustered", "scattered"}
      /\ script # "regressions" => PoolOf(n) # "spans"
      /\ script \in {"regressions", "samples"} => PoolOf(n) \in {"clustered", "scattered", "spans"}
  BY <1>1, FlagsFacts DEF PoolOf
<1>3. script = "explain" => PoolOf(n) = "any"
  <2>1. script = "explain" => /\ workloads = <<"any", "any">> /\ Len(workloads) = 2
    BY FlagsFacts
  <2> QED BY <1>1, <1>2, <2>1
<1>4. script \in {"under_load", "regressions", "samples", "explain"}
  BY DEF FlagsInv
<1>5. PoolOf(n) = "spans" => Keys(n) = {Cutoff}
  <2>1. Conversations("spans") = {Cutoff}
    BY DEF Conversations
  <2>2. PoolOf(n) = "spans" => Keys(n) = Conversations(PoolOf(n))
    BY <1>3 DEF Keys
  <2> QED BY <2>1, <2>2
<1>6. script = "under_load" => Keys(n) = Conversations(PoolOf(n))
  BY DEF Keys
<1>7. script = "explain" => Keys(n) = {asked}
  BY <1>3 DEF Keys
<1>8. script \in {"regressions", "samples"} /\ PoolOf(n) # "spans" =>
         Keys(n) = {conversationIndex(PoolOf(n), Item(n).sample)}
  BY DEF Keys
<1>9. script \in {"regressions", "samples"} /\ PoolOf(n) # "spans" =>
         conversationIndex(PoolOf(n), Item(n).sample) \in Conversations(PoolOf(n))
  BY <1>1, <1>2, IndexFacts
<1>10. PoolOf(n) = "spans" => script = "regressions"
  BY <1>2, <1>3, <1>4
<1>11. ASSUME script = "explain" => asked \in Conversations("any")
       PROVE  Keys(n) \subseteq Conversations(PoolOf(n))
  <2>1. CASE script = "under_load"
    BY <1>6, <2>1
  <2>2. CASE script = "explain"
    BY <1>3, <1>7, <1>11, <2>2
  <2>3. CASE script \in {"regressions", "samples"} /\ PoolOf(n) # "spans"
    BY <1>8, <1>9, <2>3
  <2>4. CASE PoolOf(n) = "spans"
    BY <1>5, <2>4 DEF Conversations
  <2> QED BY <1>4, <2>1, <2>2, <2>3, <2>4
<1>12. script \in {"regressions", "samples"} /\ PoolOf(n) # "spans" =>
          PoolOf(n) \in {"clustered", "scattered"}
  BY <1>2
<1> QED BY ONLY <1>2, <1>3, <1>5, <1>7, <1>8, <1>10, <1>11, <1>12

LEMMA ConversationsAreKeys ==
  ASSUME NEW pool \in Pools
  PROVE  Conversations(pool) \subseteq 0..Cutoff
BY HalfFacts DEF Pools, Conversations, OnlyInB, Cutoff

-----------------------------------------------------------------------------
(* The invariant. *)

LEMMA FlagsKept ==
  ASSUME FlagsInv, UNCHANGED flags
  PROVE  /\ FlagsInv' /\ PerWorkload' = PerWorkload /\ Explains' = Explains
         /\ workloads' = workloads /\ script' = script /\ strategies' = strategies
         /\ NoWorkers' = NoWorkers
         /\ \A n \in Nat : Item(n)' = Item(n) /\ PoolOf(n)' = PoolOf(n)
<1>1. script' = script /\ workloads' = workloads /\ strategies' = strategies
  BY DEF flags
<1>2. FlagsInv'
  BY <1>1 DEF FlagsInv
<1>3. PerWorkload' = PerWorkload /\ Explains' = Explains /\ NoWorkers' = NoWorkers
  BY <1>1 DEF PerWorkload, Explains, NoWorkers
<1>4. ASSUME NEW n \in Nat PROVE Item(n)' = Item(n) /\ PoolOf(n)' = PoolOf(n)
  <2>1. Item(n)' = Item(n)
    BY <1>1, <1>3 DEF Item
  <2> QED BY <1>1, <2>1 DEF PoolOf
<1> QED BY <1>1, <1>2, <1>3, <1>4

\* Only explain.ts' conversation depends on what main() read, and not once it is asked.
LEMMA KeysKept ==
  ASSUME FlagsInv, UNCHANGED flags, NEW n \in 1..Explains
  PROVE  /\ script # "explain" \/ asked' = asked => Keys(n)' = Keys(n)
         /\ script = "explain" => Keys(n)' = {asked'}
<1>1. script' = script /\ Item(n)' = Item(n) /\ PoolOf(n)' = PoolOf(n)
  <2>1. n \in Nat
    BY FlagsFacts
  <2> QED BY <2>1, FlagsKept
<1>2. script = "explain" => Keys(n)' = {asked'}
  BY <1>1, FlagsKept, KeysFacts DEF Keys
<1>3. script # "explain" => Keys(n)' = Keys(n)
  BY <1>1 DEF Keys
<1>4. script = "explain" => Keys(n) = {asked}
  BY KeysFacts
<1> QED BY <1>2, <1>3, <1>4

LEMMA AskFacts ==
  ASSUME FlagsInv, UNCHANGED flags, NEW n \in 1..Explains, Ask(n),
         script = "explain" => asked \in Conversations("any")
  PROVE  /\ stage' = "explain" /\ asked' \in 0..Cutoff /\ asked' \in Keys(n)'
         /\ script = "explain" => asked' = asked
<1>1. stage' = "explain" /\ asked' \in Keys(n)
  BY DEF Ask
<1>2. Keys(n) \subseteq 0..Cutoff
  BY KeysFacts, ConversationsAreKeys
<1>3. script = "explain" => Keys(n) = {asked}
  BY KeysFacts
<1>4. Keys(n)' = Keys(n)
  BY <1>1, <1>3, KeysKept
<1> QED BY <1>1, <1>2, <1>3, <1>4

\* A step that prints no row.
LEMMA RowsKept ==
  ASSUME FlagsInv, RowsInv, UNCHANGED <<flags, rows>>, stage' \in Stages, asked' \in 0..Cutoff,
         script # "explain" \/ asked' = asked \/ rows = <<>>,
         stage' \in {"pressure", "explain", "max", "start", "row"} => Len(rows) < Explains,
         stage' \in {"start", "row"} => rows = <<>>,
         stage' \in {"closing", "exit0"} => Len(rows) = Explains,
         stage' = "row" => script = "explain",
         stage' = "max" => script = "regressions",
         stage' \in {"pressure", "stopping"} => script = "under_load",
         \A n \in 1..Explains : stage' = "explain" /\ n = Len(rows) + 1 => asked' \in Keys(n)',
         script = "explain" /\ (stage' = "explain" \/ rows # <<>>) => asked' \in Conversations("any")
  PROVE  RowsInv'
<1>1. rows' = rows /\ script' = script /\ Explains' = Explains /\ rows \in Seq(RowOf)
      /\ Len(rows) \in Nat /\ Len(rows) <= Explains /\ Explains \in Nat
  <2>1. rows \in Seq(RowOf) /\ Len(rows) <= Explains
    BY DEF RowsInv
  <2>2. Len(rows) \in Nat
    BY <2>1, LenProperties
  <2> QED BY <2>1, <2>2, FlagsKept, FlagsFacts
<1>2. RowOf' = RowOf /\ Conversations("any")' = Conversations("any")
  BY DEF RowOf, ItemOf, Cutoff, Conversations, OnlyInB, Half
<1>3. ASSUME NEW n \in 1..Len(rows)
      PROVE  rows[n].item = Item(n)' /\ rows[n].key \in Keys(n)'
  <2>1. n \in 1..Explains /\ n \in Nat
    BY <1>1
  <2>2. rows[n].item = Item(n) /\ rows[n].key \in Keys(n)
    BY DEF RowsInv
  <2>3. rows # <<>>
    BY <1>1, EmptySeq
  <2>4. script # "explain" \/ asked' = asked
    BY <2>3
  <2> QED BY <2>1, <2>2, <2>4, FlagsKept, KeysKept
<1>4. \A n \in 1..Len(rows') : rows'[n].item = Item(n)' /\ rows'[n].key \in Keys(n)'
  BY <1>1, <1>3
<1>5. \A n \in 1..Explains' : stage' = "explain" /\ n = Len(rows') + 1 => asked' \in Keys(n)'
  BY <1>1
<1> QED BY <1>1, <1>2, <1>4, <1>5 DEF RowsInv

LEMMA ScriptInit ==
  ASSUME Init
  PROVE  ScriptInv
<1>1. FlagsInv
  BY DEF Init, FlagsInv
<1>2. rows = <<>> /\ stage = "start" /\ asked = Cutoff /\ stopPressure = FALSE /\ worker = NoWorkers
  BY DEF Init
<1>3. Len(rows) = 0 /\ rows \in Seq(RowOf) /\ Explains \in Nat \ {0}
  BY <1>1, <1>2, FlagsFacts, EmptySeq
<1>4. asked \in 0..Cutoff
  BY <1>2, HalfFacts DEF Cutoff
<1>5. RowsInv
  BY <1>2, <1>3, <1>4 DEF RowsInv, Stages
<1>6. /\ worker \in [DOMAIN workloads -> [Workers -> {"none", "querying", "ended"}]]
      /\ \A p \in DOMAIN workloads, i \in Workers : worker[p][i] # "querying"
  BY <1>2 DEF NoWorkers
<1>7. PressureInv
  BY <1>2, <1>6 DEF PressureInv
<1> QED BY <1>1, <1>5, <1>7 DEF ScriptInv

\* All workers of the next pool send their first query, and nobody else queries.
LEMMA StartPoolKeeps ==
  ASSUME ScriptInv, script = "under_load", UNCHANGED <<flags, rows>>, Len(rows) < Explains,
         NEW p \in DOMAIN workloads, p = Len(rows) \div PerWorkload + 1,
         \A q \in DOMAIN workloads, i \in Workers : worker[q][i] # "querying",
         StartPool(p)
  PROVE  ScriptInv'
<1>1. FlagsInv /\ RowsInv /\ PressureInv
  BY DEF ScriptInv
<1>2. /\ FlagsInv' /\ workloads' = workloads /\ script' = script /\ PerWorkload' = PerWorkload
  BY <1>1, FlagsKept
<1>3. /\ stopPressure' = FALSE
      /\ worker' = [worker EXCEPT ![p] = [i \in Workers |-> "querying"]]
      /\ \/ stage' = "pressure" /\ asked' = asked
         \/ Ask(Len(rows) + 1)
  BY DEF StartPool
<1>4. rows \in Seq(RowOf) /\ Len(rows) \in Nat /\ asked \in 0..Cutoff
  BY <1>1, LenProperties DEF RowsInv
<1>5. Len(rows) + 1 \in 1..Explains
  BY <1>1, <1>4, FlagsFacts
<1>6. /\ stage' \in {"pressure", "explain"} /\ asked' \in 0..Cutoff
      /\ \A n \in 1..Explains : stage' = "explain" /\ n = Len(rows) + 1 => asked' \in Keys(n)'
  <2>1. CASE stage' = "pressure" /\ asked' = asked
    BY <1>4, <2>1
  <2>2. CASE Ask(Len(rows) + 1)
    <3> DEFINE n == Len(rows) + 1
    <3>1. n \in 1..Explains /\ Ask(n)
      BY <1>5, <2>2
    <3>2. PICK k \in 1..Explains : k = n
      BY <3>1
    <3>3. stage' = "explain" /\ asked' \in 0..Cutoff /\ asked' \in Keys(k)'
      BY <1>1, <3>1, <3>2, AskFacts
    <3> QED BY <3>2, <3>3
  <2> QED BY <1>3, <2>1, <2>2
<1>7. RowsInv'
  BY <1>1, <1>6, RowsKept DEF Stages
<1>8. worker \in [DOMAIN workloads -> [Workers -> {"none", "querying", "ended"}]]
  BY <1>1 DEF PressureInv
<1>9. /\ worker' \in [DOMAIN workloads -> [Workers -> {"none", "querying", "ended"}]]
      /\ \A q \in DOMAIN workloads, i \in Workers : worker'[q][i] = "querying" <=> q = p
  BY <1>3, <1>8
<1>10. Current' = p
  BY <1>2, <1>6 DEF Current
<1>11. PressureInv'
  BY <1>2, <1>3, <1>6, <1>9, <1>10 DEF PressureInv
<1> QED BY <1>2, <1>7, <1>11 DEF ScriptInv

LEMMA RowCount ==
  ASSUME FlagsInv, RowsInv
  PROVE  /\ rows \in Seq(RowOf) /\ Len(rows) \in Nat /\ Len(rows) <= Explains
         /\ Explains \in Nat /\ Explains = Len(workloads) * PerWorkload
         /\ PerWorkload \in Nat \ {0} /\ Len(workloads) \in Nat \ {0}
         /\ DOMAIN workloads = 1..Len(workloads)
<1>1. rows \in Seq(RowOf) /\ Len(rows) <= Explains
  BY DEF RowsInv
<1>2. Len(rows) \in Nat
  BY <1>1, LenProperties
<1> QED BY <1>1, <1>2, FlagsFacts

\* While nobody queries, and no explain under load is to run.
LEMMA PressureQuiet ==
  ASSUME FlagsInv, PressureInv, UNCHANGED <<flags, stopPressure, worker>>,
         \A p \in DOMAIN workloads, i \in Workers : worker[p][i] # "querying",
         stage' # "stopping",
         script = "under_load" => stage' \notin {"pressure", "explain"}
  PROVE  PressureInv'
<1>1. workloads' = workloads /\ script' = script /\ NoWorkers' = NoWorkers
  BY FlagsKept
<1> QED BY <1>1 DEF PressureInv

LEMMA QuietScripts ==
  ASSUME PressureInv, script # "under_load"
  PROVE  \A p \in DOMAIN workloads, i \in Workers : worker[p][i] # "querying"
BY DEF PressureInv, NoWorkers

LEMMA BeginKeeps == ASSUME ScriptInv, Begin PROVE ScriptInv'
<1>1. FlagsInv /\ RowsInv /\ PressureInv
  BY DEF ScriptInv
<1>2. stage = "start" /\ UNCHANGED <<flags, rows>>
  BY DEF Begin
<1>3. rows = <<>> /\ Len(rows) < Explains /\ asked \in 0..Cutoff
  BY <1>1, <1>2 DEF RowsInv
<1>4. Len(rows) = 0 /\ Explains \in Nat
  BY <1>1, <1>3, RowCount
<1>5. \A p \in DOMAIN workloads, i \in Workers : worker[p][i] # "querying"
  BY <1>1, <1>2 DEF PressureInv
<1>6. CASE script = "under_load"
  <2>1. StartPool(1)
    BY <1>6 DEF Begin
  <2>2. 1 \in DOMAIN workloads
    BY <1>1, RowCount
  <2>3. 0 \div PerWorkload = 0
    <3>1. PerWorkload \in Nat \ {0}
      BY <1>1, RowCount
    <3> HIDE DEF PerWorkload
    <3>2. 0 = 0 * PerWorkload + 0 /\ 0 \in 0..PerWorkload - 1
      BY <3>1
    <3> QED BY <3>1, <3>2, DivUnique
  <2>4. 1 = Len(rows) \div PerWorkload + 1
    BY <1>4, <2>3
  <2> QED BY <1>2, <1>3, <1>5, <1>6, <2>1, <2>2, <2>4, StartPoolKeeps
<1>7. CASE script = "explain"
  <2>1. stage' = "row" /\ asked' = asked /\ UNCHANGED <<stopPressure, worker>>
    BY <1>7 DEF Begin
  <2>2. RowsInv'
    BY <1>1, <1>2, <1>3, <1>7, <2>1, RowsKept DEF Stages
  <2>3. PressureInv'
    BY <1>1, <1>2, <1>5, <1>7, <2>1, PressureQuiet
  <2> QED BY <1>1, <1>2, <2>2, <2>3, FlagsKept DEF ScriptInv
<1>8. CASE script \notin {"under_load", "explain"}
  <2>1. Ask(1) /\ UNCHANGED <<stopPressure, worker>>
    BY <1>8 DEF Begin
  <2>2. PICK k \in 1..Explains : k = 1
    BY <1>3, <1>4
  <2>3. stage' = "explain" /\ asked' \in 0..Cutoff /\ asked' \in Keys(k)'
    BY <1>1, <1>2, <1>8, <2>1, <2>2, AskFacts
  <2>4. \A n \in 1..Explains : n = Len(rows) + 1 => asked' \in Keys(n)'
    BY <1>4, <2>2, <2>3
  <2>5. RowsInv'
    BY <1>1, <1>2, <1>3, <1>8, <2>3, <2>4, RowsKept DEF Stages
  <2>6. PressureInv'
    BY <1>1, <1>2, <1>5, <1>8, <2>1, <2>3, PressureQuiet
  <2> QED BY <1>1, <1>2, <2>5, <2>6, FlagsKept DEF ScriptInv
<1> QED BY <1>6, <1>7, <1>8

LEMMA AnyRowKeeps == ASSUME ScriptInv, AnyRow PROVE ScriptInv'
<1>1. FlagsInv /\ RowsInv /\ PressureInv
  BY DEF ScriptInv
<1>2. /\ stage = "row" /\ stage' = "explain" /\ asked' \in Conversations("any")
      /\ UNCHANGED <<flags, rows, stopPressure, worker>>
  BY DEF AnyRow
<1>3. rows = <<>> /\ script = "explain" /\ Len(rows) < Explains
  BY <1>1, <1>2 DEF RowsInv
<1>4. asked' \in 0..Cutoff
  BY <1>2, ConversationsAreKeys DEF Pools
<1>5. \A n \in 1..Explains : asked' \in Keys(n)'
  BY <1>1, <1>2, <1>3, KeysKept
<1>6. RowsInv'
  BY <1>1, <1>2, <1>3, <1>4, <1>5, RowsKept DEF Stages
<1>7. PressureInv'
  BY <1>1, <1>2, <1>3, QuietScripts, PressureQuiet
<1> QED BY <1>1, <1>2, <1>6, <1>7, FlagsKept DEF ScriptInv

LEMMA ReadyKeeps == ASSUME ScriptInv, Ready PROVE ScriptInv'
<1>1. FlagsInv /\ RowsInv /\ PressureInv
  BY DEF ScriptInv
<1>2. /\ stage \in {"pressure", "max"} /\ Ask(Len(rows) + 1)
      /\ UNCHANGED <<flags, rows, stopPressure, worker>>
  BY DEF Ready
<1>3. /\ Len(rows) < Explains /\ script # "explain"
      /\ stage = "max" => script = "regressions"
      /\ stage = "pressure" => script = "under_load"
  BY <1>1, <1>2 DEF RowsInv
<1>4. Len(rows) \in Nat /\ Explains \in Nat
  BY <1>1, RowCount
<1>5. PICK k \in 1..Explains : k = Len(rows) + 1
  BY <1>3, <1>4
<1>6. stage' = "explain" /\ asked' \in 0..Cutoff /\ asked' \in Keys(k)'
  BY <1>1, <1>2, <1>3, <1>5, AskFacts
<1>7. \A n \in 1..Explains : n = Len(rows) + 1 => asked' \in Keys(n)'
  BY <1>5, <1>6
<1>8. RowsInv'
  BY <1>1, <1>2, <1>3, <1>6, <1>7, RowsKept DEF Stages
<1>9. PressureInv'
  <2>1. CASE stage = "max"
    BY <1>1, <1>2, <1>3, <1>6, <2>1, QuietScripts, PressureQuiet
  <2>2. CASE stage = "pressure"
    <3>1. Current' = Current
      BY <1>1, <1>2, <1>6, <2>2, FlagsKept DEF Current
    <3>2. workloads' = workloads /\ script' = script /\ NoWorkers' = NoWorkers
      BY <1>1, <1>2, FlagsKept
    <3> QED BY <1>1, <1>2, <1>3, <1>6, <2>2, <3>1, <3>2 DEF PressureInv
  <2> QED BY <1>2, <2>1, <2>2
<1> QED BY <1>1, <1>2, <1>8, <1>9, FlagsKept DEF ScriptInv

LEMMA CloseKeeps == ASSUME ScriptInv, Close PROVE ScriptInv'
<1>1. FlagsInv /\ RowsInv /\ PressureInv
  BY DEF ScriptInv
<1>2. stage = "closing" /\ stage' = "exit0" /\ UNCHANGED <<flags, asked, rows, stopPressure, worker>>
  BY DEF Close
<1>3. /\ Len(rows) = Explains /\ asked \in 0..Cutoff
      /\ script = "explain" /\ rows # <<>> => asked \in Conversations("any")
  BY <1>1, <1>2 DEF RowsInv
<1>4. RowsInv'
  BY <1>1, <1>2, <1>3, RowsKept DEF Stages, Exited
<1>5. \A p \in DOMAIN workloads, i \in Workers : worker[p][i] # "querying"
  BY <1>1, <1>2 DEF PressureInv
<1>6. PressureInv'
  BY <1>1, <1>2, <1>5, PressureQuiet
<1> QED BY <1>1, <1>2, <1>4, <1>6, FlagsKept DEF ScriptInv

LEMMA FailKeeps == ASSUME ScriptInv, Fail PROVE ScriptInv'
<1>1. FlagsInv /\ RowsInv /\ PressureInv
  BY DEF ScriptInv
<1>2. stage' = "exit1" /\ worker' = NoWorkers /\ UNCHANGED <<flags, asked, rows, stopPressure>>
  BY DEF Fail
<1>3. /\ asked \in 0..Cutoff
      /\ script = "explain" /\ rows # <<>> => asked \in Conversations("any")
  BY <1>1 DEF RowsInv
<1>4. RowsInv'
  BY <1>1, <1>2, <1>3, RowsKept DEF Stages, Exited
<1>5. workloads' = workloads /\ NoWorkers' = NoWorkers
  BY <1>1, <1>2, FlagsKept
<1>6. /\ NoWorkers \in [DOMAIN workloads -> [Workers -> {"none", "querying", "ended"}]]
      /\ \A p \in DOMAIN workloads, i \in Workers : NoWorkers[p][i] # "querying"
  BY DEF NoWorkers
<1>7. PressureInv'
  BY <1>1, <1>2, <1>5, <1>6 DEF PressureInv
<1> QED BY <1>1, <1>2, <1>4, <1>7, FlagsKept DEF ScriptInv

LEMMA AnsweredKeeps ==
  ASSUME ScriptInv, NEW p \in DOMAIN worker, NEW i \in Workers, Answered(p, i)
  PROVE  ScriptInv'
<1>1. FlagsInv /\ RowsInv /\ PressureInv
  BY DEF ScriptInv
<1>2. /\ worker[p][i] = "querying"
      /\ worker' = [worker EXCEPT ![p][i] = IF stopPressure THEN "ended" ELSE "querying"]
      /\ UNCHANGED <<flags, stage, asked, rows, stopPressure>>
  BY DEF Answered
<1>3. /\ worker \in [DOMAIN workloads -> [Workers -> {"none", "querying", "ended"}]]
      /\ p \in DOMAIN workloads
  BY <1>1 DEF PressureInv
<1>4. stage \in {"pressure", "explain", "stopping"} /\ script = "under_load"
  <2>1. script = "under_load"
    BY <1>1, <1>2, <1>3, QuietScripts
  <2> QED BY <1>1, <1>2, <1>3, <2>1 DEF PressureInv
<1>5. RowsInv'
  <2>1. \A n \in 1..Explains : stage' = "explain" /\ n = Len(rows) + 1 => asked' \in Keys(n)'
    <3>1. \A n \in 1..Explains : stage = "explain" /\ n = Len(rows) + 1 => asked \in Keys(n)
      BY <1>1 DEF RowsInv
    <3> QED BY <1>1, <1>2, <3>1, KeysKept
  <2>2. /\ asked \in 0..Cutoff /\ stage \in Stages
        /\ stage \in {"pressure", "explain"} => Len(rows) < Explains
    BY <1>1 DEF RowsInv
  <2> QED BY <1>1, <1>2, <1>4, <2>1, <2>2, RowsKept
<1>6. /\ worker' \in [DOMAIN workloads -> [Workers -> {"none", "querying", "ended"}]]
      /\ \A q \in DOMAIN workloads, k \in Workers :
            worker'[q][k] = IF q = p /\ k = i THEN (IF stopPressure THEN "ended" ELSE "querying")
                            ELSE worker[q][k]
  BY <1>2, <1>3
<1>7. /\ workloads' = workloads /\ script' = script /\ PerWorkload' = PerWorkload
  BY <1>1, <1>2, FlagsKept
<1>8. Current' = Current
  BY <1>2, <1>7 DEF Current
<1>9. PressureInv'
  <2>1. CASE stage \in {"pressure", "explain"}
    <3>1. ~stopPressure /\ \A q \in DOMAIN workloads, k \in Workers :
                              worker[q][k] = "querying" <=> q = Current
      BY <1>1, <1>4, <2>1 DEF PressureInv
    <3>2. \A q \in DOMAIN workloads, k \in Workers : worker'[q][k] = "querying" <=> q = Current
      BY <1>2, <1>3, <1>6, <3>1
    <3>3. stopPressure' \in BOOLEAN /\ ~stopPressure'
      BY <1>1, <1>2, <3>1 DEF PressureInv
    <3>4. \A q \in DOMAIN workloads', k \in Workers :
             worker'[q][k] = "querying" <=> q = Current'
      BY <1>7, <1>8, <3>2
    <3>5. worker' \in [DOMAIN workloads' -> [Workers -> {"none", "querying", "ended"}]]
      BY <1>6, <1>7
    <3> HIDE DEF Current
    <3>6. stage' \in {"pressure", "explain"} /\ script' = "under_load"
      BY <1>2, <1>4, <1>7, <2>1
    <3> QED BY ONLY <3>3, <3>4, <3>5, <3>6 DEF PressureInv
  <2>2. CASE stage = "stopping"
    <3>1. /\ stopPressure /\ Len(rows) = Current * PerWorkload /\ Current \in DOMAIN workloads
          /\ \A q \in DOMAIN workloads, k \in Workers : q # Current => worker[q][k] # "querying"
      BY <1>1, <2>2 DEF PressureInv
    <3>2. \A q \in DOMAIN workloads, k \in Workers : q # Current => worker'[q][k] # "querying"
      BY <1>6, <3>1
    <3>3. Len(rows') = Current' * PerWorkload' /\ Current' \in DOMAIN workloads'
      BY <1>2, <1>7, <1>8, <3>1
    <3> QED BY <1>2, <1>4, <1>6, <1>7, <1>8, <2>2, <3>1, <3>2, <3>3 DEF PressureInv
  <2> QED BY <1>4, <2>1, <2>2
<1> QED BY <1>1, <1>2, <1>5, <1>9, FlagsKept DEF ScriptInv

LEMMA EndPoolKeeps == ASSUME ScriptInv, EndPool PROVE ScriptInv'
<1>1. FlagsInv /\ RowsInv /\ PressureInv
  BY DEF ScriptInv
<1> DEFINE p == Len(rows) \div PerWorkload
<1>2. stage = "stopping" /\ UNCHANGED <<flags, rows>> /\ Awaited(p)
  BY DEF EndPool
<1>3. IF p < Len(workloads) THEN StartPool(p + 1)
      ELSE stage' = "closing" /\ UNCHANGED <<asked, stopPressure, worker>>
  BY DEF EndPool
<1>4. /\ Current = p /\ script = "under_load"
      /\ Len(rows) = p * PerWorkload /\ p \in DOMAIN workloads
      /\ \A q \in DOMAIN workloads, i \in Workers : q # p => worker[q][i] # "querying"
  BY <1>1, <1>2 DEF RowsInv, PressureInv, Current
<1>5. \A q \in DOMAIN workloads, i \in Workers : worker[q][i] # "querying"
  BY <1>2, <1>4 DEF Awaited
<1>6. /\ Len(rows) \in Nat /\ Explains = Len(workloads) * PerWorkload /\ Explains \in Nat
      /\ PerWorkload \in Nat \ {0} /\ Len(workloads) \in Nat
      /\ DOMAIN workloads = 1..Len(workloads)
  BY <1>1, RowCount
<1>7. CASE p < Len(workloads)
  <2>1. Len(rows) < Explains
    <3> HIDE DEF p
    <3> QED BY <1>4, <1>6, <1>7
  <2>2. p + 1 \in DOMAIN workloads
    <3> HIDE DEF p
    <3> QED BY <1>4, <1>6, <1>7
  <2>3. PICK k \in DOMAIN workloads : k = p + 1
    BY <2>2
  <2>4. StartPool(k) /\ k = Len(rows) \div PerWorkload + 1
    BY <1>3, <1>7, <2>3
  <2> QED BY <1>2, <1>4, <1>5, <2>1, <2>4, StartPoolKeeps
<1>8. CASE ~(p < Len(workloads))
  <2>1. stage' = "closing" /\ UNCHANGED <<asked, stopPressure, worker>>
    BY <1>3, <1>8
  <2>2. Len(rows) = Explains
    <3> HIDE DEF p
    <3>1. p = Len(workloads)
      BY <1>4, <1>6, <1>8
    <3> QED BY <1>4, <1>6, <3>1
  <2>3. asked \in 0..Cutoff
    BY <1>1 DEF RowsInv
  <2>4. RowsInv'
    BY <1>1, <1>2, <1>4, <2>1, <2>2, <2>3, RowsKept DEF Stages
  <2>5. PressureInv'
    BY <1>1, <1>2, <1>5, <2>1, PressureQuiet
  <2> QED BY <1>1, <1>2, <2>4, <2>5, FlagsKept DEF ScriptInv
<1> QED BY <1>7, <1>8

\* What main() awaits after a row.
LEMMA NextStage ==
  ASSUME FlagsInv, RowsInv, stage = "explain", rows' \in Seq(RowOf), Len(rows') = Len(rows) + 1,
         NEW next,
         next = IF script = "under_load" /\ Len(rows') % PerWorkload = 0 THEN "stopping"
                ELSE IF Len(rows) + 2 > Explains THEN "closing"
                ELSE IF PoolOf(Len(rows) + 2) = "spans" /\ PoolOf(Len(rows) + 1) # "spans"
                     THEN "max" ELSE "explain"
  PROVE  /\ next \in {"stopping", "closing", "max", "explain"}
         /\ next = "stopping" => script = "under_load" /\ Len(rows') % PerWorkload = 0
         /\ next = "closing" => script # "under_load" /\ Len(rows') = Explains
         /\ next = "max" => script = "regressions" /\ Len(rows') < Explains
         /\ next = "explain" => /\ Len(rows') < Explains
                                /\ script = "under_load" => Len(rows') % PerWorkload # 0
<1>1. /\ Len(rows) \in Nat /\ Len(rows) < Explains /\ Explains \in Nat
      /\ Explains = Len(workloads) * PerWorkload /\ PerWorkload \in Nat \ {0}
      /\ Len(workloads) \in Nat
  <2>1. Len(rows) < Explains
    BY DEF RowsInv
  <2> QED BY <2>1, RowCount
<1>2. next \in {"stopping", "closing", "max", "explain"}
  OBVIOUS
<1>3. next = "stopping" => script = "under_load" /\ Len(rows') % PerWorkload = 0
  OBVIOUS
<1>4. next = "closing" => Len(rows') = Explains
  BY <1>1
<1>5. next = "closing" => script # "under_load"
  <2> SUFFICES ASSUME next = "closing", script = "under_load" PROVE FALSE
    OBVIOUS
  <2>1. Len(rows') = Len(workloads) * PerWorkload
    BY <1>1, <1>4
  <2>2. Len(workloads) * PerWorkload = Len(workloads) * PerWorkload + 0 /\ 0 \in 0..PerWorkload - 1
        /\ Len(workloads) * PerWorkload \in Nat
    BY <1>1
  <2>3. (Len(workloads) * PerWorkload) % PerWorkload = 0
    BY <1>1, <2>2, DivUnique
  <2> QED BY <2>1, <2>3
<1>6. next \in {"max", "explain"} => Len(rows') < Explains
  BY <1>1
<1>7. next = "max" => script = "regressions"
  <2> SUFFICES ASSUME next = "max" PROVE script = "regressions"
    OBVIOUS
  <2>1. Len(rows) + 2 \in 1..Explains /\ PoolOf(Len(rows) + 2) = "spans"
    BY <1>1
  <2> QED BY <2>1, KeysFacts
<1>8. next = "explain" /\ script = "under_load" => Len(rows') % PerWorkload # 0
  OBVIOUS
<1> QED BY <1>2, <1>3, <1>4, <1>5, <1>6, <1>7, <1>8

LEMMA ExplainedKeeps == ASSUME ScriptInv, Explained PROVE ScriptInv'
<1>1. FlagsInv /\ RowsInv /\ PressureInv
  BY DEF ScriptInv
<1> DEFINE L == Len(rows)
           P == PerWorkload
           row == [item |-> Item(L + 1), key |-> asked]
           next == IF script = "under_load" /\ Len(rows') % PerWorkload = 0 THEN "stopping"
                   ELSE IF L + 2 > Explains THEN "closing"
                   ELSE IF PoolOf(L + 2) = "spans" /\ PoolOf(L + 1) # "spans" THEN "max"
                   ELSE "explain"
<1>2. /\ stage = "explain" /\ rows' = Append(rows, row) /\ UNCHANGED <<flags, worker>>
      /\ IF next = "explain" THEN Ask(L + 2) ELSE stage' = next /\ asked' = asked
      /\ stopPressure' = (stopPressure \/ next = "stopping")
  <2>1. L + 2 - 1 = L + 1
    BY <1>1, RowCount
  <2> QED BY <2>1 DEF Explained
<1>3. /\ rows \in Seq(RowOf) /\ L \in Nat /\ L < Explains /\ Explains \in Nat
      /\ P \in Nat \ {0} /\ Explains = Len(workloads) * P /\ Len(workloads) \in Nat
      /\ DOMAIN workloads = 1..Len(workloads)
  <2>1. L < Explains
    BY <1>1, <1>2 DEF RowsInv
  <2> QED BY <1>1, <2>1, RowCount
<1>4. PICK k \in 1..Explains : k = L + 1
  BY <1>3
<1>5. /\ asked \in Keys(k) /\ asked \in 0..Cutoff
      /\ script = "explain" => asked \in Conversations("any")
  BY <1>1, <1>2, <1>4 DEF RowsInv
<1>6. row \in RowOf
  <2>1. Item(k) \in ItemOf
    BY <1>1, ItemFacts
  <2> QED BY <1>4, <1>5, <2>1 DEF RowOf
<1>7. /\ rows' \in Seq(RowOf) /\ Len(rows') = L + 1
      /\ \A j \in 1..L : rows'[j] = rows[j]
      /\ rows'[L + 1] = row
  <2> HIDE DEF row
  <2> QED BY <1>2, <1>3, <1>6, AppendProperties
<1>8. /\ next \in {"stopping", "closing", "max", "explain"}
      /\ next = "stopping" => script = "under_load" /\ Len(rows') % PerWorkload = 0
      /\ next = "closing" => script # "under_load" /\ Len(rows') = Explains
      /\ next = "max" => script = "regressions" /\ Len(rows') < Explains
      /\ next = "explain" => /\ Len(rows') < Explains
                             /\ script = "under_load" => Len(rows') % PerWorkload # 0
  <2> HIDE DEF row
  <2>1. PICK nxt : nxt = next
    OBVIOUS
  <2> QED BY <1>1, <1>2, <1>7, <2>1, NextStage
<1> HIDE DEF row, next
<1>9. /\ stage' = next /\ asked' \in 0..Cutoff
      /\ script = "explain" => asked' = asked
      /\ \A m \in 1..Explains : stage' = "explain" /\ m = L + 2 => asked' \in Keys(m)'
  <2>1. CASE next = "explain"
    <3>1. PICK m \in 1..Explains : m = L + 2
      BY <1>3, <1>7, <1>8, <2>1
    <3>2. Ask(m)
      BY <1>2, <2>1, <3>1
    <3>3. /\ stage' = "explain" /\ asked' \in 0..Cutoff /\ asked' \in Keys(m)'
          /\ script = "explain" => asked' = asked
      BY <1>1, <1>2, <1>5, <3>2, AskFacts
    <3> QED BY <2>1, <3>1, <3>3
  <2>2. CASE next # "explain"
    BY <1>2, <1>5, <2>2
  <2> QED BY <2>1, <2>2
<1>10. script' = script /\ workloads' = workloads /\ P' = P /\ Explains' = Explains /\ FlagsInv'
  BY <1>1, <1>2, FlagsKept
<1>11. ASSUME NEW j \in 1..L + 1
       PROVE  rows'[j].item = Item(j)' /\ rows'[j].key \in Keys(j)'
  <2>1. j \in 1..Explains /\ j \in Nat
    BY <1>3
  <2>2. Item(j)' = Item(j) /\ Keys(j)' = Keys(j)
    BY <1>1, <1>2, <1>9, <2>1, FlagsKept, KeysKept
  <2>3. CASE j = L + 1
    <3>1. rows'[j] = row /\ k = j
      BY <1>4, <1>7, <2>3
    <3> QED BY <1>4, <1>5, <2>2, <3>1 DEF row
  <2>4. CASE j \in 1..L
    <3>1. rows[j].item = Item(j) /\ rows[j].key \in Keys(j)
      BY <1>1, <2>4 DEF RowsInv
    <3> QED BY <1>7, <2>2, <2>4, <3>1
  <2> QED BY <1>3, <2>3, <2>4
<1>12. RowsInv'
  <2>1. RowOf' = RowOf /\ Conversations("any")' = Conversations("any") /\ Cutoff' = Cutoff
    BY DEF RowOf, ItemOf, Cutoff, Conversations, OnlyInB, Half
  <2>2. \A m \in 1..Explains' : stage' = "explain" /\ m = Len(rows') + 1 => asked' \in Keys(m)'
    BY <1>3, <1>7, <1>9, <1>10
  <2>3. \A j \in 1..Len(rows') : rows'[j].item = Item(j)' /\ rows'[j].key \in Keys(j)'
    BY <1>7, <1>11
  <2>4. Len(rows') <= Explains'
    BY <1>3, <1>7, <1>10
  <2>5. script' = "explain" => asked' \in Conversations("any")
    BY <1>5, <1>9, <1>10
  <2>6. /\ stage' \in Stages /\ stage' \notin {"pressure", "start", "row", "exit0"}
        /\ stage' \in {"explain", "max"} => Len(rows') < Explains'
        /\ stage' = "closing" => Len(rows') = Explains'
        /\ stage' = "max" => script' = "regressions"
        /\ stage' = "stopping" => script' = "under_load"
    BY <1>8, <1>9, <1>10 DEF Stages
  <2> QED BY <1>7, <1>9, <2>1, <2>2, <2>3, <2>4, <2>5, <2>6 DEF RowsInv
<1>13. PressureInv'
  <2>1. stopPressure \in BOOLEAN /\ NoWorkers' = NoWorkers
    BY <1>1, <1>2, FlagsKept DEF PressureInv
  <2>2. CASE script # "under_load"
    <3>1. \A p \in DOMAIN workloads, i \in Workers : worker[p][i] # "querying"
      BY <1>1, <2>2, QuietScripts
    <3> QED BY <1>1, <1>2, <1>8, <1>9, <1>10, <2>1, <2>2, <3>1 DEF PressureInv
  <2>3. CASE script = "under_load"
    <3>1. /\ ~stopPressure
          /\ \A p \in DOMAIN workloads, i \in Workers : worker[p][i] = "querying" <=> p = Current
      BY <1>1, <1>2, <2>3 DEF PressureInv
    <3>2. Current = L \div P + 1
      BY <1>2 DEF Current
    <3> DEFINE q == (L + 1) \div P
               r == (L + 1) % P
    <3>3. q \in Nat /\ r \in 0..P - 1 /\ L + 1 = q * P + r
      <4>1. L + 1 \in Nat /\ P \in Nat \ {0}
        BY <1>3
      <4> HIDE DEF L, P
      <4>2. q \in Nat /\ r \in 0..(P - 1) /\ L + 1 = q * P + r
        BY <4>1, DivBounds
      <4> QED BY <4>2
    <3>4. CASE next = "stopping"
      <4>1. r = 0
        BY <1>7, <1>8, <3>4
      <4> HIDE DEF q, r, L, P
      <4>2. L + 1 = q * P /\ q # 0
        BY <1>3, <3>3, <4>1
      <4>3. L = (q - 1) * P + (P - 1) /\ q - 1 \in Nat /\ P - 1 \in 0..P - 1
        BY <1>3, <3>3, <4>2
      <4>4. L \div P = q - 1
        BY <1>3, <4>3, DivUnique
      <4>5. Current = q
        BY <3>2, <3>3, <4>4
      <4>6. q \in 1..Len(workloads)
        BY <1>3, <3>3, <4>2, MulBound
      <4>7. Current' = q
        <5>1. stage' = "stopping"
          BY <1>9, <3>4
        <5> QED BY <1>7, <1>10, <5>1 DEF Current, q, L, P
      <4>8. stopPressure' /\ stage' = "stopping"
        BY <1>2, <1>9, <3>4
      <4>9. Len(rows') = Current' * PerWorkload' /\ Current' \in DOMAIN workloads'
        BY <1>3, <1>7, <1>10, <4>2, <4>6, <4>7 DEF P
      <4>10. \A p \in DOMAIN workloads, i \in Workers : p # Current' => worker'[p][i] # "querying"
        BY <1>2, <3>1, <4>5, <4>7
      <4> QED BY <1>1, <1>2, <1>10, <2>3, <4>8, <4>9, <4>10 DEF PressureInv
    <3>5. CASE next = "explain"
      <4>1. r # 0
        BY <1>7, <1>8, <2>3, <3>5
      <4> HIDE DEF q, r, L, P
      <4>2. L = q * P + (r - 1) /\ r - 1 \in 0..P - 1
        BY <1>3, <3>3, <4>1
      <4>3. L \div P = q
        BY <1>3, <3>3, <4>2, DivUnique
      <4>4. Current' = Current
        <5>1. stage' = "explain"
          BY <1>9, <3>5
        <5>2. Current' = q + 1
          BY <1>7, <1>10, <5>1 DEF Current, q, L, P
        <5> QED BY <3>2, <4>3, <5>2
      <4>5. stage' = "explain" /\ stopPressure' = stopPressure
        BY <1>2, <1>9, <2>1, <3>5
      <4> QED BY <1>1, <1>2, <1>10, <2>3, <3>1, <4>4, <4>5 DEF PressureInv
    <3> QED BY <1>8, <2>3, <3>4, <3>5
  <2> QED BY <2>2, <2>3
<1> QED BY <1>10, <1>12, <1>13 DEF ScriptInv

LEMMA ScriptNext == ASSUME ScriptInv, [Next]_vars PROVE ScriptInv'
<1>1. CASE Begin
  BY <1>1, BeginKeeps
<1>2. CASE AnyRow
  BY <1>2, AnyRowKeeps
<1>3. CASE Ready
  BY <1>3, ReadyKeeps
<1>4. CASE Explained
  BY <1>4, ExplainedKeeps
<1>5. CASE EndPool
  BY <1>5, EndPoolKeeps
<1>6. CASE Close
  BY <1>6, CloseKeeps
<1>7. CASE Fail
  BY <1>7, FailKeeps
<1>8. ASSUME NEW p \in DOMAIN worker, NEW i \in Workers, Answered(p, i) PROVE ScriptInv'
  BY <1>8, AnsweredKeeps
<1>9. CASE UNCHANGED vars
  <2>1. FlagsInv /\ RowsInv /\ PressureInv
    BY DEF ScriptInv
  <2>2. UNCHANGED <<flags, stage, asked, rows, stopPressure, worker>>
    BY <1>9 DEF vars
  <2>3. RowsInv'
    <3>1. \A n \in 1..Explains : stage = "explain" /\ n = Len(rows) + 1 => asked \in Keys(n)
      BY <2>1 DEF RowsInv
    <3>2. \A n \in 1..Explains : stage' = "explain" /\ n = Len(rows) + 1 => asked' \in Keys(n)'
      BY <2>1, <2>2, <3>1, KeysKept
    <3>3. /\ stage \in Stages /\ asked \in 0..Cutoff
          /\ stage \in {"pressure", "explain", "max", "start", "row"} => Len(rows) < Explains
          /\ stage \in {"start", "row"} => rows = <<>>
          /\ stage \in {"closing", "exit0"} => Len(rows) = Explains
          /\ stage = "row" => script = "explain"
          /\ stage = "max" => script = "regressions"
          /\ stage \in {"pressure", "stopping"} => script = "under_load"
          /\ script = "explain" /\ (stage = "explain" \/ rows # <<>>) => asked \in Conversations("any")
      BY <2>1 DEF RowsInv
    <3> QED BY <2>1, <2>2, <3>2, <3>3, RowsKept
  <2>4. PressureInv'
    <3>1. workloads' = workloads /\ script' = script /\ PerWorkload' = PerWorkload
          /\ NoWorkers' = NoWorkers
      BY <2>1, <2>2, FlagsKept
    <3>2. Current' = Current
      BY <2>2, <3>1 DEF Current
    <3> QED BY <2>1, <2>2, <3>1, <3>2 DEF PressureInv
  <2> QED BY <2>1, <2>2, <2>3, <2>4, FlagsKept DEF ScriptInv
<1> QED BY <1>1, <1>2, <1>3, <1>4, <1>5, <1>6, <1>7, <1>8, <1>9 DEF Next, Main

\* The rows of the script are those of its first explains, and only the workers of the
\* pool that is being explained query (see ScriptInv).
THEOREM ScriptInvariant == Spec => []ScriptInv
BY ScriptInit, ScriptNext, PTL DEF Spec

-----------------------------------------------------------------------------
(* What the rows are read for. *)

LEMMA RowFacts ==
  ASSUME ScriptInv, NEW n \in 1..Len(rows)
  PROVE  /\ n \in 1..Explains /\ rows[n].item = Item(n) /\ rows[n].key \in Keys(n)
         /\ script = "explain" => asked \in Conversations("any")
<1>1. FlagsInv /\ RowsInv
  BY DEF ScriptInv
<1>2. n \in 1..Explains
  BY <1>1, RowCount
<1>3. rows # <<>>
  BY <1>1, RowCount, EmptySeq
<1> QED BY <1>1, <1>2, <1>3 DEF RowsInv

LEMMA TypesFollow == ScriptInv => TypeOK
<1> SUFFICES ASSUME ScriptInv PROVE TypeOK
  OBVIOUS
<1>1. FlagsInv /\ RowsInv /\ PressureInv
  BY DEF ScriptInv
<1>2. ASSUME NEW n \in 1..Len(rows) PROVE rows[n].key \in Conversations(PoolOf(n))
  <2>1. /\ n \in 1..Explains /\ rows[n].key \in Keys(n)
        /\ script = "explain" => asked \in Conversations("any")
    BY RowFacts
  <2> QED BY <1>1, <2>1, KeysFacts
<1> QED BY <1>1, <1>2 DEF TypeOK, RowsInv, PressureInv, Stages

LEMMA LoadFollows == ScriptInv => SampledUnderFullLoad
<1> SUFFICES ASSUME ScriptInv PROVE SampledUnderFullLoad
  OBVIOUS
<1>1. FlagsInv /\ RowsInv /\ PressureInv /\ DOMAIN worker = DOMAIN workloads
  BY DEF ScriptInv, PressureInv
<1>2. ASSUME script = "under_load", stage = "explain"
      PROVE  \A p \in DOMAIN worker, i \in Workers :
                worker[p][i] = "querying" <=> p = Item(Len(rows) + 1).workload
  <2>1. Len(rows) < Explains
    BY <1>1, <1>2 DEF RowsInv
  <2>2. PICK k \in 1..Explains : k = Len(rows) + 1
    BY <1>1, <2>1, RowCount
  <2>3. Item(k).workload = (k - 1) \div PerWorkload + 1
    BY <1>1, <1>2, ItemFacts
  <2>4. k - 1 = Len(rows)
    BY <1>1, <2>2, RowCount
  <2>5. Item(Len(rows) + 1).workload = Current
    BY <1>2, <2>2, <2>3, <2>4 DEF Current
  <2> QED BY <1>1, <1>2, <2>5 DEF PressureInv
<1>3. stage \in {"closing", "exit0"} =>
         \A p \in DOMAIN worker, i \in Workers : worker[p][i] # "querying"
  BY <1>1 DEF PressureInv
<1> QED BY <1>2, <1>3 DEF SampledUnderFullLoad

\* Numbers closer than c have different remainders.
LEMMA ModDistinct ==
  ASSUME NEW a \in Nat, NEW b \in Nat, NEW c \in Nat \ {0}, b - a \in 1..c - 1
  PROVE  a % c # b % c
<1> DEFINE p == a \div c
           q == b \div c
           r == a % c
<1> SUFFICES ASSUME b % c = r PROVE FALSE
  OBVIOUS
<1>1. p \in Nat /\ r \in 0..(c - 1) /\ a = p * c + r
  BY DivBounds
<1>2. q \in Nat /\ b = q * c + r
  BY DivBounds
<1> HIDE DEF p, q, r
<1>3. p * c \in Nat /\ q * c \in Nat /\ p * c < q * c /\ q * c < p * c + c
  BY <1>1, <1>2
<1>4. p < q
  BY <1>1, <1>2, <1>3, MulStrict
<1>5. (p + 1) * c <= q * c /\ (p + 1) * c = p * c + c
  BY <1>1, <1>2, <1>4, MulSucc
<1> QED BY <1>1, <1>3, <1>5

LEMMA Parity ==
  ASSUME NEW a \in Nat, NEW q \in Nat, NEW e \in {0, 1}, a = q * 2 + e
  PROVE  a % 2 = e
OBVIOUS

LEMMA Halves ==
  ASSUME NEW a \in Nat
  PROVE  a \div 2 \in Nat /\ a % 2 \in {0, 1} /\ a = (a \div 2) * 2 + (a % 2)
OBVIOUS

\* As many rows as indices, when each index has one.
LEMMA CountByIndex ==
  ASSUME NEW T, NEW n \in Nat, NEW f \in [0..n - 1 -> T],
         \A j, k \in 0..n - 1 : f[j] = f[k] => j = k,
         \A t \in T : \E k \in 0..n - 1 : f[k] = t
  PROVE  Cardinality(T) = n
<1>1. f \in Bijection(0..n - 1, T)
  BY Fun_IsBij
<1>2. ExistsBijection(0..n - 1, T)
  BY <1>1 DEF ExistsBijection
<1>3. IsFiniteSet(0..n - 1) /\ Cardinality(0..n - 1) = n
  <2>1. 0 \in Int /\ n - 1 \in Int
    OBVIOUS
  <2>2. IsFiniteSet(0..n - 1) /\ Cardinality(0..n - 1) = IF 0 > n - 1 THEN 0 ELSE (n - 1) - 0 + 1
    BY <2>1, FS_Interval
  <2> QED BY <2>2
<1> QED BY <1>2, <1>3, FS_Bijection

\* The rows of one workload and strategy, where every sample is explained for two.
LEMMA SampleRows ==
  ASSUME FlagsInv, script \in {"regressions", "samples"},
         NEW w \in 1..Len(workloads), NEW s \in {"a", "b"}
  PROVE  Cardinality({n \in 1..Explains : Item(n).workload = w /\ Item(n).strategy = s}) = Samples
<1> DEFINE e == IF s = "a" THEN 0 ELSE 1
           base == (w - 1) * PerWorkload
           T == {n \in 1..Explains : Item(n).workload = w /\ Item(n).strategy = s}
           f == [k \in 0..Samples - 1 |-> base + 2 * k + e + 1]
<1>1. /\ Samples \in Nat \ {0} /\ PerWorkload = Samples * 2 /\ PerWorkload \in Nat \ {0}
      /\ Len(workloads) \in Nat /\ Explains = Len(workloads) * PerWorkload
      /\ strategies = <<"a", "b">> /\ Len(strategies) = 2 /\ Explains \in Nat
  BY FlagsFacts, ScriptsAssumption
<1>2. /\ w - 1 \in Nat /\ base \in Nat /\ e \in 0..1 /\ base + PerWorkload <= Explains
      /\ base = ((w - 1) * Samples) * 2 /\ (w - 1) * Samples \in Nat
  <2>1. w - 1 \in Nat /\ base \in Nat /\ (w - 1) * Samples \in Nat
    BY <1>1
  <2>2. w * PerWorkload <= Len(workloads) * PerWorkload
    <3> HIDE DEF PerWorkload
    <3> QED BY <1>1, MulMono
  <2>3. w * PerWorkload = (w - 1) * PerWorkload + PerWorkload
    BY <1>1
  <2>4. (w - 1) * (Samples * 2) = ((w - 1) * Samples) * 2
    BY <1>1
  <2> QED BY <1>1, <2>1, <2>2, <2>3, <2>4
<1>3. ASSUME NEW n \in 1..Explains
      PROVE  /\ Item(n).workload = (n - 1) \div PerWorkload + 1
             /\ Item(n).strategy = strategies[((n - 1) % 2) + 1]
  BY <1>1, ItemFacts
<1>4. ASSUME NEW k \in 0..Samples - 1 PROVE f[k] \in T
  <2> DEFINE m == base + (2 * k + e)
  <2>1. 2 * k + e \in 0..PerWorkload - 1 /\ m \in Nat /\ m + 1 \in 1..Explains /\ f[k] = m + 1
    BY <1>1, <1>2
  <2>2. m \div PerWorkload = w - 1
    <3>1. m = (w - 1) * PerWorkload + (2 * k + e)
      OBVIOUS
    <3> HIDE DEF m, e
    <3> QED BY <1>1, <1>2, <2>1, <3>1, DivUnique
  <2>3. m % 2 = e
    <3> DEFINE q == (w - 1) * Samples + k
    <3>1. q \in Nat /\ e \in {0, 1}
      BY <1>2
    <3>2. m = q * 2 + e
      BY <1>2
    <3> HIDE DEF m, e, q
    <3> QED BY <2>1, <3>1, <3>2, Parity
  <2>4. strategies[e + 1] = s
    BY <1>1
  <2>5. (m + 1) - 1 = m
    BY <2>1
  <2> HIDE DEF m, e, f
  <2>6. Item(m + 1).workload = (w - 1) + 1 /\ Item(m + 1).strategy = s
    BY <1>3, <2>1, <2>2, <2>3, <2>4, <2>5
  <2> QED BY <1>2, <2>1, <2>6
<1>5. f \in [0..Samples - 1 -> T]
  <2> HIDE DEF T, e, base
  <2> QED BY <1>4
<1>6. \A j, k \in 0..Samples - 1 : f[j] = f[k] => j = k
  <2> HIDE DEF e, base
  <2> QED BY <1>1, <1>2
<1>7. ASSUME NEW n \in T PROVE \E k \in 0..Samples - 1 : f[k] = n
  <2> DEFINE m == n - 1
             r == m % PerWorkload
             k == r \div 2
  <2>1. /\ n \in 1..Explains /\ m \in Nat /\ m \div PerWorkload + 1 = w
        /\ strategies[(m % 2) + 1] = s
    BY <1>1, <1>3
  <2>2. m \div PerWorkload \in Nat /\ m \div PerWorkload = w - 1
    <3> DEFINE d == m \div PerWorkload
    <3>1. d \in Nat
      <4> HIDE DEF m
      <4> QED BY <1>1, <2>1, DivBounds
    <3>2. d + 1 = w
      BY <2>1
    <3> HIDE DEF d
    <3>3. d = w - 1
      BY <3>1, <3>2
    <3> QED BY <3>1, <3>3 DEF d
  <2>3. r \in 0..PerWorkload - 1 /\ m = base + r
    <3>1. r \in 0..(PerWorkload - 1) /\ m = (m \div PerWorkload) * PerWorkload + r
      <4> HIDE DEF m
      <4> QED BY <1>1, <2>1, DivBounds
    <3> QED BY <2>2, <3>1
  <2> HIDE DEF r
  <2>4. k \in Nat /\ r % 2 \in {0, 1} /\ r = k * 2 + (r % 2)
    <3>1. r \in Nat
      BY <1>1, <2>3
    <3> QED BY <3>1, Halves
  <2> HIDE DEF k
  <2>5. m % 2 = r % 2
    <3> DEFINE q == (w - 1) * Samples + k
               c == r % 2
    <3>1. q \in Nat
      BY <1>2, <2>4
    <3>2. m = ((w - 1) * Samples) * 2 + (k * 2 + c)
      BY <1>2, <2>3, <2>4
    <3>3. c \in {0, 1}
      BY <2>4
    <3>4. m = q * 2 + c
      <4> DEFINE z == (w - 1) * Samples
      <4>1. z \in Nat
        BY <1>2
      <4> HIDE DEF z, m, c
      <4> QED BY <2>4, <3>2, <3>3, <4>1 DEF z
    <3> HIDE DEF m, q, c
    <3>5. m % 2 = c
      BY <2>1, <3>1, <3>3, <3>4, Parity
    <3> QED BY <3>5 DEF c
  <2>6. r % 2 = e
    <3>1. m % 2 \in {0, 1}
      BY <2>4, <2>5
    <3> HIDE DEF m
    <3> QED BY <1>1, <2>1, <2>5, <3>1
  <2>7. k \in 0..Samples - 1
    BY <1>1, <2>3, <2>4
  <2>8. n = base + 2 * k + e + 1
    <3>1. n \in Nat /\ n - 1 = base + r
      BY <2>1, <2>3
    <3>2. r = k * 2 + e
      BY <2>4, <2>6
    <3> HIDE DEF e, base
    <3>3. e \in 0..1 /\ base \in Nat /\ k \in Nat
      BY <1>2, <2>4
    <3> QED BY ONLY <3>1, <3>2, <3>3
  <2> QED BY <2>7, <2>8
<1> HIDE DEF f, T
<1>8. Cardinality(T) = Samples
  BY <1>1, <1>5, <1>6, <1>7, CountByIndex
<1> QED BY <1>8 DEF T

\* The four rows of explain.ts: two workloads, for B and then for A.
LEMMA AnyRows ==
  ASSUME FlagsInv, script = "explain", NEW w \in 1..Len(workloads), NEW s \in {"a", "b"}
  PROVE  Cardinality({n \in 1..Explains : Item(n).workload = w /\ Item(n).strategy = s}) = 1
<1> DEFINE T == {n \in 1..Explains : Item(n).workload = w /\ Item(n).strategy = s}
           x == IF s = "b" THEN w ELSE w + 2
<1>1. strategies = <<"b", "a">> /\ Explains = 4 /\ w \in {1, 2}
  BY FlagsFacts
<1>2. \A n \in 1..4 : /\ Item(n).workload = 2 - (n % 2)
                      /\ Item(n).strategy = strategies[(n + 1) \div 2]
  BY DEF Item
<1>3. /\ 1 % 2 = 1 /\ 2 % 2 = 0 /\ 3 % 2 = 1 /\ 4 % 2 = 0
      /\ (1 + 1) \div 2 = 1 /\ (2 + 1) \div 2 = 1 /\ (3 + 1) \div 2 = 2 /\ (4 + 1) \div 2 = 2
  OBVIOUS
<1>4. /\ Item(1).workload = 1 /\ Item(2).workload = 2 /\ Item(3).workload = 1
      /\ Item(4).workload = 2
      /\ Item(1).strategy = "b" /\ Item(2).strategy = "b" /\ Item(3).strategy = "a"
      /\ Item(4).strategy = "a"
  BY <1>1, <1>2, <1>3
<1>5. x \in 1..4
  BY <1>1
<1>6. Item(x).workload = w /\ Item(x).strategy = s
  BY <1>1, <1>4
<1>7. \A n \in 1..4 : Item(n).workload = w /\ Item(n).strategy = s => n = x
  <2>1. \A n \in 1..4 : n = 1 \/ n = 2 \/ n = 3 \/ n = 4
    OBVIOUS
  <2> QED BY <1>1, <1>4, <2>1
<1> HIDE DEF x
<1>8. T = {x}
  BY <1>1, <1>5, <1>6, <1>7
<1> QED BY <1>8, FS_Singleton

\* Samples closer than the size of their half are about different conversations.
LEMMA DistinctSamples ==
  ASSUME NEW pool \in {"clustered", "scattered"}, NEW a \in Nat, NEW b \in Nat,
         b - a \in 1..Cardinality(Conversations(pool)) - 1
  PROVE  conversationIndex(pool, a) # conversationIndex(pool, b)
<1>1. CASE pool = "clustered"
  <2>1. Conversations(pool) = 0..Half - 1
    BY <1>1 DEF Conversations
  <2>2. 0 \in Int /\ Half - 1 \in Int /\ Half \in Nat \ {0}
    BY HalfFacts
  <2>3. Cardinality(0..Half - 1) = IF 0 > Half - 1 THEN 0 ELSE (Half - 1) - 0 + 1
    BY <2>2, FS_Interval
  <2>4. Cardinality(Conversations(pool)) = Half
    BY <2>1, <2>2, <2>3
  <2>5. a % Half # b % Half
    BY <2>2, <2>4, ModDistinct
  <2> QED BY <1>1, <2>5 DEF conversationIndex
<1>2. CASE pool = "scattered"
  <2> DEFINE c == ConversationsPerTenant - Half
  <2>1. Conversations(pool) = Half..ConversationsPerTenant - 1
    BY <1>2 DEF Conversations
  <2>2. Half \in Int /\ ConversationsPerTenant - 1 \in Int /\ c \in Nat \ {0}
        /\ Half \in Nat /\ ConversationsPerTenant \in Nat /\ Half < ConversationsPerTenant
    BY HalfFacts
  <2>3. Cardinality(Half..ConversationsPerTenant - 1)
           = IF Half > ConversationsPerTenant - 1 THEN 0 ELSE (ConversationsPerTenant - 1) - Half + 1
    BY <2>2, FS_Interval
  <2>4. Cardinality(Conversations(pool)) = c
    BY <2>1, <2>2, <2>3
  <2> HIDE DEF c
  <2>5. a % c # b % c
    BY <2>2, <2>4, ModDistinct
  <2>6. a % c \in Nat /\ b % c \in Nat
    <3>1. a % c \in 0..(c - 1) /\ b % c \in 0..(c - 1)
      BY <2>2, DivBounds
    <3> QED BY <2>2, <3>1
  <2>7. Half + (a % c) # Half + (b % c)
    BY <2>2, <2>5, <2>6
  <2> QED BY <1>2, <2>7 DEF conversationIndex, c
<1> QED BY <1>1, <1>2

LEMMA ComparableFollows == ScriptInv => RowsAreComparable
<1> SUFFICES ASSUME ScriptInv, script # "under_load" PROVE RowsAreComparable
  BY DEF RowsAreComparable
<1>1. FlagsInv /\ RowsInv /\ script \in {"regressions", "samples", "explain"}
  BY DEF ScriptInv, FlagsInv
<1>2. ASSUME NEW m \in 1..Len(rows), NEW n \in 1..Len(rows),
             rows[m].item.workload = rows[n].item.workload,
             rows[m].item.sample = rows[n].item.sample
      PROVE  rows[m].key = rows[n].key
  <2>1. /\ m \in 1..Explains /\ rows[m].item = Item(m) /\ rows[m].key \in Keys(m)
        /\ n \in 1..Explains /\ rows[n].item = Item(n) /\ rows[n].key \in Keys(n)
    BY RowFacts
  <2>2. PoolOf(m) = PoolOf(n)
    BY <1>2, <2>1 DEF PoolOf
  <2>3. CASE script = "explain"
    BY <1>1, <2>1, <2>3, KeysFacts
  <2>4. CASE script # "explain" /\ PoolOf(m) = "spans"
    <3>1. Keys(m) = {Cutoff} /\ Keys(n) = {Cutoff}
      BY <1>1, <2>1, <2>2, <2>4, KeysFacts
    <3> QED BY <2>1, <3>1
  <2>5. CASE script # "explain" /\ PoolOf(m) # "spans"
    <3>1. /\ Keys(m) = {conversationIndex(PoolOf(m), Item(m).sample)}
          /\ Keys(n) = {conversationIndex(PoolOf(n), Item(n).sample)}
      BY <1>1, <2>1, <2>2, <2>5, KeysFacts
    <3> QED BY <1>2, <2>1, <2>2, <3>1
  <2> QED BY <2>3, <2>4, <2>5
<1>3. ASSUME NEW m \in 1..Len(rows), NEW n \in 1..Len(rows),
             rows[m].item.workload = rows[n].item.workload, PoolOf(m) # "spans",
             rows[n].item.sample - rows[m].item.sample
                \in 1..(Cardinality(Conversations(PoolOf(m))) - 1)
      PROVE  rows[m].key # rows[n].key
  <2>1. /\ m \in 1..Explains /\ rows[m].item = Item(m) /\ rows[m].key \in Keys(m)
        /\ n \in 1..Explains /\ rows[n].item = Item(n) /\ rows[n].key \in Keys(n)
    BY RowFacts
  <2>2. PoolOf(m) = PoolOf(n)
    BY <1>3, <2>1 DEF PoolOf
  <2>3. Item(m).sample \in Nat /\ Item(n).sample \in Nat
    BY <1>1, <2>1, ItemFacts DEF ItemOf
  <2>4. script # "explain"
    <3> SUFFICES ASSUME script = "explain" PROVE FALSE
      OBVIOUS
    <3>1. Item(m).sample = 0 /\ Item(n).sample = 0
      BY <1>1, <2>1, ItemFacts
    <3>2. 0 - 0 \in 1..(Cardinality(Conversations(PoolOf(m))) - 1)
      BY <1>3, <2>1, <3>1
    <3> QED BY <3>2
  <2>5. /\ PoolOf(m) \in {"clustered", "scattered"}
        /\ Keys(m) = {conversationIndex(PoolOf(m), Item(m).sample)}
        /\ Keys(n) = {conversationIndex(PoolOf(m), Item(n).sample)}
    BY <1>1, <1>3, <2>1, <2>2, <2>4, KeysFacts
  <2>6. Item(n).sample - Item(m).sample \in 1..(Cardinality(Conversations(PoolOf(m))) - 1)
    BY <1>3, <2>1
  <2>7. conversationIndex(PoolOf(m), Item(m).sample) # conversationIndex(PoolOf(m), Item(n).sample)
    BY <2>3, <2>5, <2>6, DistinctSamples
  <2> QED BY <2>1, <2>5, <2>7
<1>4. ASSUME stage = "exit0", NEW w \in DOMAIN workloads, NEW s \in {"a", "b"}
      PROVE  Cardinality({n \in 1..Len(rows) : rows[n].item.workload = w
                                               /\ rows[n].item.strategy = s})
                = IF script = "explain" THEN 1 ELSE Samples
  <2>1. Len(rows) = Explains /\ w \in 1..Len(workloads)
    BY <1>1, <1>4, RowCount DEF RowsInv
  <2>2. \A n \in 1..Len(rows) : rows[n].item = Item(n)
    BY RowFacts
  <2>3. {n \in 1..Len(rows) : rows[n].item.workload = w /\ rows[n].item.strategy = s}
           = {n \in 1..Explains : Item(n).workload = w /\ Item(n).strategy = s}
    BY <2>1, <2>2
  <2>4. CASE script = "explain"
    BY <1>1, <2>1, <2>3, <2>4, AnyRows
  <2>5. CASE script # "explain"
    BY <1>1, <2>1, <2>3, <2>5, SampleRows
  <2> QED BY <2>4, <2>5
<1> QED BY <1>2, <1>3, <1>4 DEF RowsAreComparable

-----------------------------------------------------------------------------

\* The variables of the explain scripts have their types, no script prints more rows than
\* it has explains to send, and the row of an explain is about a conversation of the pool
\* it asked for (explain-a-regressions.ts:35-40).
THEOREM ScriptTypes == Spec => []TypeOK
BY ScriptInvariant, TypesFollow, PTL

\* For any pools, samples and CONCURRENCY: an explain under load runs while the workers of
\* its own pool all query and no worker an earlier pool left behind does, and no query is
\* in flight when the connections are closed (explain-qconv-under-load.ts:127-132,170-171,206).
THEOREM LoadIsFull == Spec => []SampledUnderFullLoad
BY ScriptInvariant, LoadFollows, PTL

\* For any number of samples and conversations: the strategies of a sample are explained
\* for one conversation, samples repeat none before all of their half are used, and with
\* exit code 0 every row is there (explain-a-regressions.ts:35-40,165-187;
\* explain-qconv-samples.ts:36-41,118-135).
THEOREM SamplesAreComparable == Spec => []RowsAreComparable
BY ScriptInvariant, ComparableFollows, PTL
=============================================================================
