---------------------------- MODULE SeedTimes_proof ----------------------------
(***************************************************************************)
(* Proofs about SeedTimes, for any clock, segments and batch size, however *)
(* a seeding is interrupted and resumed: the items that one call gives a   *)
(* clustered conversation are one session and none of them is recent; the  *)
(* slots of a call that went through are filled one by one, so that every  *)
(* window of the recent segments has a row; and a tenant that one call has *)
(* seeded alone is dated by the configured shares.                         *)
(***************************************************************************)
EXTENDS SeedTimes, FiniteSetTheorems, SequenceTheorems, TLAPS

Generated == stored \cup batch

\* The clock readings only grow, and the variables that the rest reads are what they
\* should be.
ClockInv ==
    /\ started \in Seq(Clock)
    /\ \A i, j \in 1..Len(started) : i <= j => started[i] <= started[j]
    /\ anchors \in [Clustered -> Int]
    /\ job.step = "rows" => job.seg \in Segments /\ started # <<>>

\* A row belongs to a call there was; one of the batch to the last.
CallsInv ==
    /\ \A r \in Generated : r.call \in 1..Len(started)
    /\ \A r \in batch : r.call = Len(started)

\* A clustered row lies in the historical segment of its call; if this is the last call,
\* near its conversation's present anchor.
DatedInv ==
    \A r \in Generated : r.conversation \in Clustered =>
        /\ r.at \in Int /\ r.at <= End(started[r.call], 1)
        /\ r.call = Len(started) => r.at \in ItemTimes(now, 1, anchors[r.conversation])

\* Two clustered rows of one call and conversation are close, those of the batch included.
SessionInv ==
    \A r, q \in Generated :
        r.conversation \in Clustered /\ q.conversation = r.conversation /\ q.call = r.call
            => r.at - q.at <= 2 * Pad(1)

\* The inductive invariant.
TimesInv == ClockInv /\ CallsInv /\ DatedInv /\ SessionInv

-----------------------------------------------------------------------------
(* Arithmetic of the segments. *)

LEMMA SegmentTimes ==
  /\ \A s \in Segments : From[s] \in Nat /\ To[s] \in Nat /\ From[s] > To[s] /\ Pad(s) \in Nat
  /\ To[1] > From[3]
<1>1. ASSUME NEW s \in Segments
      PROVE  From[s] \in Nat /\ To[s] \in Nat /\ From[s] > To[s] /\ Pad(s) \in Nat
  <2>1. From[s] \in Nat /\ To[s] \in Nat /\ Length(s) > 0 /\ HalfWindow \in Nat
    BY TimesAssumption
  <2>2. From[s] > To[s] /\ Length(s) \div 2 \in Nat
    BY <2>1 DEF Length
  <2> QED BY <2>1, <2>2 DEF Pad
<1>2. 1 \in Segments /\ 2 \in Segments /\ 3 \in Segments
  BY DEF Segments
<1>3. To[1] > From[2] /\ To[2] > From[3]
  BY TimesAssumption
<1> QED BY <1>1, <1>2, <1>3

LEMMA ClockIsNat == Clock \subseteq Nat
BY TimesAssumption

\* Clamping moves two times no further apart: times near one anchor are within twice
\* the window of each other, and none is after the end of the segment.
LEMMA ItemTimesAreClose ==
  ASSUME NEW base \in Nat, NEW anchor \in Int,
         NEW t \in ItemTimes(base, 1, anchor), NEW u \in ItemTimes(base, 1, anchor)
  PROVE  /\ t \in Int /\ t <= End(base, 1)
         /\ t - u <= 2 * Pad(1)
<1>1. /\ Pad(1) \in Nat /\ Start(base, 1) \in Int /\ End(base, 1) \in Int
      /\ Start(base, 1) < End(base, 1)
  BY SegmentTimes DEF Start, End, Segments
<1>2. PICK d \in 0 - Pad(1)..Pad(1) : t = Clamp(base, 1, anchor + d)
  BY DEF ItemTimes
<1>3. PICK e \in 0 - Pad(1)..Pad(1) : u = Clamp(base, 1, anchor + e)
  BY DEF ItemTimes
<1> QED BY <1>1, <1>2, <1>3 DEF Clamp

\* The pools have no conversation in common, unless there is only one.
LEMMA PoolsAreDisjoint ==
  ASSUME ConversationsPerTenant > 1 PROVE Clustered \cap Scattered = {}
<1>1. ConversationsPerTenant \in Nat
  BY TimesAssumption
<1>2. Half \in Nat /\ Half # 0
  BY <1>1 DEF Half
<1> QED BY <1>1, <1>2 DEF Clustered, Scattered

-----------------------------------------------------------------------------
(* Every step keeps the invariant. *)

LEMMA TimesInit == Init => TimesInv
BY DEF Init, TimesInv, ClockInv, CallsInv, DatedInv, SessionInv, Generated, Exited, Segments

\* Nothing but rows disappears, and rows are only stored.
LEMMA FewerRowsKeep ==
  ASSUME TimesInv, Generated' \subseteq Generated, batch' \subseteq batch,
         UNCHANGED <<started, anchors>>,
         job'.step = "rows" => job'.seg \in Segments /\ started # <<>>
  PROVE  TimesInv'
BY DEF TimesInv, ClockInv, CallsInv, DatedInv, SessionInv, now, Last

LEMMA EnterSegment ==
  ASSUME NEW plan, NEW s \in 1..4, Enter(plan, s)
  PROVE  job'.step = "rows" => job'.seg \in Segments
<1>1. PICK k \in s..4 : \/ k = 4 /\ job' = Exited("done")
                        \/ /\ k < 4
                           /\ job' = [step |-> "rows", plan |-> plan, seg |-> k, segInserted |-> 0]
  BY DEF Enter
<1> QED BY <1>1 DEF Exited, Segments

LEMMA WriteKeeps == ASSUME TimesInv, Write PROVE TimesInv'
<1>1. Generated' \subseteq Generated /\ batch' \subseteq batch /\ UNCHANGED <<started, anchors>>
  BY DEF Write, Written, Generated
<1>2. job.seg \in Segments /\ started # <<>>
  BY DEF TimesInv, ClockInv, Write
<1>3. job'.step = "rows" => job'.seg \in Segments
  <2>1. CASE \E n : job' = [job EXCEPT !.segInserted = n]
    <3>1. job'.seg = job.seg
      BY <2>1
    <3> QED BY <3>1, <1>2
  <2>2. CASE Enter(job.plan, job.seg + 1)
    BY <2>2, <1>2, EnterSegment DEF Segments
  <2> QED BY <2>1, <2>2 DEF Write, Written
<1> QED BY <1>1, <1>2, <1>3, FewerRowsKeep

LEMMA CrashKeeps == ASSUME TimesInv, Crash PROVE TimesInv'
<1>1. Generated' \subseteq Generated /\ batch' \subseteq batch /\ UNCHANGED <<started, anchors>>
  BY DEF Crash, Generated
<1>2. job'.step # "rows"
  BY DEF Crash, Exited
<1> QED BY <1>1, <1>2, FewerRowsKeep

\* A new call: no row is of it yet, and those there are keep their calls' times.
LEMMA RunKeeps == ASSUME TimesInv, NEW base \in Clock, Run(base) PROVE TimesInv'
<1> DEFINE n == Len(started)
<1>1. /\ started' = Append(started, base) /\ Begin(base) /\ UNCHANGED stored
      /\ started # <<>> => base >= Last(started)
  BY DEF Run
<1>2. started \in Seq(Clock) /\ n \in Nat
  BY DEF TimesInv, ClockInv
<1>3. /\ started' \in Seq(Clock) /\ Len(started') = n + 1 /\ started'[n + 1] = base
      /\ \A i \in 1..n : started'[i] = started[i]
  BY <1>1, <1>2, AppendProperties
<1>4. batch' = {} /\ Generated' \subseteq Generated
  BY <1>1 DEF Begin, Generated
<1>5. ClockInv'
  <2>1. ASSUME NEW i \in 1..n PROVE started[i] <= base
    <3>1. started # <<>> /\ n \in 1..n
      <4>1. n # 0 /\ n \in 1..n
        BY <1>2
      <4> QED BY <4>1, <1>2, EmptySeq
    <3>2. base >= started[n] /\ started[i] <= started[n]
      BY <1>1, <3>1 DEF Last, TimesInv, ClockInv
    <3>3. base \in Nat /\ started[n] \in Nat /\ started[i] \in Nat
      BY <1>2, <3>1, ElementOfSeq, ClockIsNat
    <3> QED BY <3>2, <3>3
  <2>2. base <= base
    BY ClockIsNat
  <2>3. \A i, j \in 1..(n + 1) : i <= j => started'[i] <= started'[j]
    <3> SUFFICES ASSUME NEW i \in 1..(n + 1), NEW j \in 1..(n + 1), i <= j
                 PROVE  started'[i] <= started'[j]
      OBVIOUS
    <3>1. CASE j \in 1..n
      BY <3>1, <1>2, <1>3 DEF TimesInv, ClockInv
    <3>2. CASE j = n + 1 /\ i \in 1..n
      BY <3>2, <1>3, <2>1
    <3>3. CASE j = n + 1 /\ i = n + 1
      BY <3>3, <1>3, <2>2
    <3> QED BY <3>1, <3>2, <3>3, <1>2
  <2>4. anchors' \in [Clustered -> Int]
    <3>1. anchors' \in buildConversationAnchors(base)
      BY <1>1 DEF Begin
    <3>2. anchors' \in [Clustered -> base - From[1]..base]
      BY <3>1 DEF buildConversationAnchors
    <3> QED BY <3>2
  <2>5. job'.step = "rows" => job'.seg \in Segments
    <3>1. job' = Exited("done") \/ \E plan : Enter(plan, 1)
      BY <1>1 DEF Begin
    <3> QED BY <3>1, EnterSegment DEF Exited
  <2>6. started' # <<>>
    BY <1>2, <1>3, EmptySeq
  <2> QED BY <1>3, <2>3, <2>4, <2>5, <2>6 DEF ClockInv
<1>6. ASSUME NEW r \in Generated'
      PROVE  r \in Generated /\ r.call \in 1..n /\ started'[r.call] = started[r.call]
  BY <1>3, <1>4 DEF TimesInv, CallsInv
<1>7. CallsInv'
  BY <1>2, <1>3, <1>4, <1>6 DEF CallsInv
<1>8. DatedInv'
  BY <1>2, <1>3, <1>6 DEF TimesInv, DatedInv
<1>9. SessionInv'
  BY <1>6 DEF TimesInv, SessionInv
<1> QED BY <1>5, <1>7, <1>8, <1>9 DEF TimesInv

\* One more row in the batch.
LEMMA GenerateKeeps ==
  ASSUME ConversationsPerTenant > 1, TimesInv, Generate PROVE TimesInv'
<1>1. /\ job.step = "rows" /\ UNCHANGED <<started, anchors, job, stored>>
      /\ job.seg \in Segments /\ started # <<>>
  BY DEF Generate, TimesInv, ClockInv
<1>2. PICK new :
        /\ batch' = batch \cup {new} /\ new.call = Len(started)
        /\ new.conversation \in Clustered =>
              new.at \in ItemTimes(now, 1, anchors[new.conversation])
  <2> DEFINE Row(c, t) == [conversation |-> c, at |-> t, call |-> call, seg |-> job.seg,
                           nth |-> job.segInserted + Cardinality(batch)]
  <2>1. CASE /\ ClusteredOk(job.seg)
             /\ \E c \in Clustered : \E t \in ItemTimes(now, job.seg, anchors[c]) :
                   batch' = batch \cup {Row(c, t)}
    <3>1. job.seg = 1
      BY <2>1 DEF ClusteredOk
    <3>2. PICK c \in Clustered : \E t \in ItemTimes(now, 1, anchors[c]) :
             batch' = batch \cup {Row(c, t)}
      BY <2>1, <3>1
    <3>3. PICK t \in ItemTimes(now, 1, anchors[c]) : batch' = batch \cup {Row(c, t)}
      BY <3>2
    <3>4. /\ Row(c, t).call = Len(started) /\ Row(c, t).conversation = c
          /\ Row(c, t).at = t
      BY DEF call
    <3> QED BY <3>3, <3>4
  <2>2. CASE \E c \in Scattered, t \in SlotTimes(now, job.seg, Slot, job.plan[job.seg]) :
                batch' = batch \cup {Row(c, t)}
    <3>1. PICK c \in Scattered, t \in SlotTimes(now, job.seg, Slot, job.plan[job.seg]) :
             batch' = batch \cup {Row(c, t)}
      BY <2>2
    <3>2. Row(c, t).call = Len(started) /\ Row(c, t).conversation \notin Clustered
      BY PoolsAreDisjoint DEF call
    <3> QED BY <3>1, <3>2
  <2> QED BY <2>1, <2>2 DEF Generate
<1>3. Generated' = Generated \cup {new}
  BY <1>1, <1>2 DEF Generated
<1>4. ClockInv'
  BY <1>1 DEF TimesInv, ClockInv
<1>5. Len(started) \in 1..Len(started) /\ now \in Nat /\ now = started[Len(started)]
  <2>1. started \in Seq(Clock)
    BY DEF TimesInv, ClockInv
  <2>2. Len(started) \in 1..Len(started)
    BY <1>1, <2>1, EmptySeq
  <2> QED BY <2>1, <2>2, ElementOfSeq, ClockIsNat DEF now, Last
<1>6. CallsInv'
  BY <1>1, <1>2, <1>3, <1>5 DEF TimesInv, CallsInv
<1>7. ASSUME NEW c \in Clustered PROVE anchors[c] \in Int
  BY DEF TimesInv, ClockInv
<1>8. now' = now
  BY <1>1 DEF now
<1>9. DatedInv'
  <2> SUFFICES ASSUME NEW r \in Generated', r.conversation \in Clustered
               PROVE  /\ r.at \in Int /\ r.at <= End(started[r.call], 1)
                      /\ r.call = Len(started) =>
                            r.at \in ItemTimes(now, 1, anchors[r.conversation])
    BY <1>1, <1>8 DEF DatedInv
  <2>1. CASE r \in Generated
    BY <2>1 DEF TimesInv, DatedInv
  <2>2. CASE r = new
    BY <2>2, <1>2, <1>5, <1>7, ItemTimesAreClose
  <2> QED BY <2>1, <2>2, <1>3
<1>10. SessionInv'
  <2> SUFFICES ASSUME NEW r \in Generated', NEW q \in Generated', r.conversation \in Clustered,
                      q.conversation = r.conversation, q.call = r.call
               PROVE  r.at - q.at <= 2 * Pad(1)
    BY DEF SessionInv
  <2>1. CASE r \in Generated /\ q \in Generated
    BY <2>1 DEF TimesInv, SessionInv
  <2>2. CASE r = new \/ q = new
    <3>1. r.call = Len(started) /\ q.call = Len(started)
      BY <2>2, <1>2
    <3>2. /\ r.at \in ItemTimes(now, 1, anchors[r.conversation])
          /\ q.at \in ItemTimes(now, 1, anchors[r.conversation])
      BY <1>1, <1>8, <1>9, <3>1 DEF DatedInv
    <3> QED BY <3>2, <1>5, <1>7, ItemTimesAreClose
  <2> QED BY <2>1, <2>2, <1>3
<1> QED BY <1>4, <1>6, <1>9, <1>10 DEF TimesInv

LEMMA TimesNext ==
  ASSUME ConversationsPerTenant > 1, TimesInv, [Next]_vars PROVE TimesInv'
<1>1. CASE Generate
  BY <1>1, GenerateKeeps
<1>2. CASE Write
  BY <1>2, WriteKeeps
<1>3. CASE Crash
  BY <1>3, CrashKeeps
<1>4. ASSUME NEW base \in Clock, Run(base) PROVE TimesInv'
  BY <1>4, RunKeeps
<1>5. CASE UNCHANGED vars
  BY <1>5 DEF vars, TimesInv, ClockInv, CallsInv, DatedInv, SessionInv, Generated, now, Last
<1> QED BY <1>1, <1>2, <1>3, <1>4, <1>5 DEF Next

-----------------------------------------------------------------------------
LEMMA SessionFollows == TimesInv => SessionPerCall
BY DEF TimesInv, DatedInv, SessionInv, SessionPerCall, Generated

LEMMA OldFollows == TimesInv => ClusteredAreOld
<1> SUFFICES ASSUME TimesInv, started # <<>>, NEW c \in Clustered,
                    NEW r \in qTimeS2(c, now, From[3])
             PROVE  FALSE
  BY DEF ClusteredAreOld
<1>1. r \in Generated /\ r.conversation \in Clustered /\ r.at > now - From[3]
  BY DEF qTimeS2, Generated
<1>2. r.call \in 1..Len(started) /\ r.at \in Int /\ r.at <= End(started[r.call], 1)
  BY <1>1 DEF TimesInv, CallsInv, DatedInv
<1>3. started \in Seq(Clock) /\ Len(started) \in 1..Len(started)
  <2>1. started \in Seq(Clock)
    BY DEF TimesInv, ClockInv
  <2> QED BY <2>1, EmptySeq
<1>4. started[r.call] <= now
  BY <1>2, <1>3 DEF TimesInv, ClockInv, now, Last
<1>5. started[r.call] \in Nat /\ now \in Nat
  BY <1>2, <1>3, ElementOfSeq, ClockIsNat DEF now, Last
<1>6. To[1] \in Nat /\ From[3] \in Nat /\ To[1] > From[3]
  BY SegmentTimes DEF Segments
<1> QED BY <1>1, <1>2, <1>4, <1>5, <1>6 DEF End

LEMMA TimesInvariant == ASSUME ConversationsPerTenant > 1 PROVE Spec => []TimesInv
<1>1. Init => TimesInv
  BY TimesInit
<1>2. TimesInv /\ [Next]_vars => TimesInv'
  BY TimesNext
<1> QED BY <1>1, <1>2, PTL DEF Spec

\* With more than one conversation per tenant: what one call of the seeder puts into a
\* conversation of the clustered pool is one session of the historical segment, whenever
\* the worker is killed and whatever time it is when it is run again
\* (conversations.ts:92-97,139-144).
THEOREM SessionsKept ==
  ASSUME ConversationsPerTenant > 1 PROVE Spec => []SessionPerCall
BY TimesInvariant, SessionFollows, PTL

\* With more than one conversation per tenant: no time-range query over the last seven
\* days returns an item of the clustered pool, however often the seeding was resumed
\* (q-time.ts:96-99, conversations.ts:144).
THEOREM ClusteredStayOld ==
  ASSUME ConversationsPerTenant > 1 PROVE Spec => []ClusteredAreOld
BY TimesInvariant, OldFollows, PTL

-----------------------------------------------------------------------------
(* The rows of a call: how many of each segment, and in which slots. *)

JobType == [step : {"new", "rows", "done", "killed"}, plan : [Segments -> Nat],
            seg : Segments, segInserted : Nat]

\* The variables have their types, and a row is dated within its segment.
RowsInv ==
    /\ started \in Seq(Clock) /\ Len(started) <= MaxRuns
    /\ anchors \in [Clustered -> Nat] /\ job \in JobType
    /\ job.step # "new" => started # <<>>
    /\ job.step # "rows" => batch = {}
    /\ IsFiniteSet(stored) /\ IsFiniteSet(batch) /\ Cardinality(batch) <= BatchSize
    /\ \A r \in Generated :
          /\ r \in Rows /\ r.call \in 1..Len(started)
          /\ r.at \in Start(started[r.call], r.seg)..End(started[r.call], r.seg)

\* The rows of S have the numbers from..to-1, one row each.
Numbered(S, from, to) ==
    /\ IsFiniteSet(S) /\ Cardinality(S) = to - from
    /\ \A r \in S : r.nth \in from..to - 1
    /\ \A k \in from..to - 1 : \E r \in S : r.nth = k

\* Rows of the recent and the fresh segment are dated in the slots of their numbers.
InSlots(S, s, n) == s # 1 => \A r \in S : r.at \in SlotTimes(now, s, r.nth, n)

\* The stored rows of the present call in segment s, and how many there should be.
Mine(s)    == {r \in stored : r.call = call /\ r.seg = s}
Reached(s) == IF s < job.seg THEN job.plan[s] ELSE IF s = job.seg THEN job.segInserted ELSE 0

\* While the rows are generated: the segments before the present one are complete, of the
\* present one all full batches, and the batch goes on where they end.
RunningInv == job.step = "rows" =>
    /\ job.segInserted + Cardinality(batch) <= job.plan[job.seg]
    /\ Numbered(batch, job.segInserted, job.segInserted + Cardinality(batch))
    /\ \A r \in batch : r.call = call /\ r.seg = job.seg
    /\ InSlots(batch, job.seg, job.plan[job.seg])
    /\ \A s \in Segments : /\ Reached(s) <= job.plan[s]
                           /\ Numbered(Mine(s), 0, Reached(s))
                           /\ InSlots(Mine(s), s, job.plan[s])
    /\ Cardinality(stored) + (job.plan[1] - Reached(1)) + (job.plan[2] - Reached(2))
          + (job.plan[3] - Reached(3)) = EffectiveTotal
    /\ call = 1 => job.plan \in Splits(EffectiveTotal)

\* A call that is over has filled up the table, and each of its segments is complete.
DoneInv == job.step = "done" =>
    /\ \A s \in Segments : /\ Numbered(Mine(s), 0, Cardinality(Mine(s)))
                           /\ InSlots(Mine(s), s, Cardinality(Mine(s)))
    /\ Cardinality(stored) >= EffectiveTotal

\* What the first call has stored is part of a split of the whole total.
First(s) == {r \in stored : r.call = 1 /\ r.seg = s}
FirstInv ==
    (\E r \in stored : r.call = 1) =>
        \E plan \in Splits(EffectiveTotal) :
            \A s \in Segments : Cardinality(First(s)) <= plan[s]

SlotsInv == RowsInv /\ RunningInv /\ DoneInv /\ FirstInv

-----------------------------------------------------------------------------
(* Numbered sets of rows. *)

LEMMA NumberedUnion ==
  ASSUME NEW S, NEW T, NEW a \in Nat, NEW b \in Nat, NEW c \in Nat, a <= b, b <= c,
         Numbered(S, a, b), Numbered(T, b, c)
  PROVE  Numbered(S \cup T, a, c) /\ S \cap T = {}
<1>1. S \cap T = {}
  <2>1. \A r \in S : r.nth \in a..b - 1
    BY DEF Numbered
  <2>2. \A r \in T : r.nth \in b..c - 1
    BY DEF Numbered
  <2>3. \A r \in S \cap T : FALSE
    BY <2>1, <2>2
  <2> QED BY <2>3
<1>2. IsFiniteSet(S \cup T) /\ Cardinality(S \cup T) = c - a
  <2>1. IsFiniteSet(S) /\ IsFiniteSet(T) /\ Cardinality(S) = b - a /\ Cardinality(T) = c - b
    BY DEF Numbered
  <2>2. Cardinality(S \cap T) = 0
    BY <1>1, FS_EmptySet
  <2>3. IsFiniteSet(S \cup T)
        /\ Cardinality(S \cup T) = Cardinality(S) + Cardinality(T) - Cardinality(S \cap T)
    BY <2>1, FS_Union
  <2> QED BY <2>1, <2>2, <2>3
<1>3. \A r \in S \cup T : r.nth \in a..c - 1
  BY DEF Numbered
<1>4. ASSUME NEW k \in a..c - 1 PROVE \E r \in S \cup T : r.nth = k
  <2>1. CASE k \in a..b - 1
    BY <2>1 DEF Numbered
  <2>2. CASE k \in b..c - 1
    BY <2>2 DEF Numbered
  <2> QED BY <2>1, <2>2
<1> QED BY <1>1, <1>2, <1>3, <1>4 DEF Numbered

LEMMA NumberedNext ==
  ASSUME NEW S, NEW a \in Nat, NEW b \in Nat, a <= b, Numbered(S, a, b), NEW r, r.nth = b
  PROVE  /\ Numbered(S \cup {r}, a, b + 1) /\ r \notin S
         /\ Cardinality(S \cup {r}) = Cardinality(S) + 1
<1>1. Numbered({r}, b, b + 1)
  <2>1. IsFiniteSet({r}) /\ Cardinality({r}) = (b + 1) - b
    <3>1. IsFiniteSet({r}) /\ Cardinality({r}) = 1
      BY FS_Singleton
    <3>2. (b + 1) - b = 1
      OBVIOUS
    <3> QED BY <3>1, <3>2
  <2>2. \A k \in b..(b + 1) - 1 : k = b
    OBVIOUS
  <2>3. b \in b..(b + 1) - 1
    OBVIOUS
  <2> QED BY <2>1, <2>2, <2>3 DEF Numbered
<1>2. Numbered(S \cup {r}, a, b + 1) /\ S \cap {r} = {}
  BY <1>1, NumberedUnion
<1> QED BY <1>2 DEF Numbered

LEMMA NumberedNone == ASSUME NEW a \in Nat PROVE Numbered({}, a, a)
<1>1. IsFiniteSet({}) /\ Cardinality({}) = 0 /\ a - a = 0
  BY FS_EmptySet
<1> QED BY <1>1 DEF Numbered

LEMMA NothingNumbered == ASSUME NEW S, Numbered(S, 0, 0) PROVE S = {}
BY DEF Numbered

-----------------------------------------------------------------------------
(* Every step keeps the slots. *)

LEMMA ClockTimes ==
  ASSUME RowsInv, NEW i \in 1..Len(started)
  PROVE  started[i] \in Clock /\ started[i] \in Nat
BY ElementOfSeq, ClockIsNat DEF RowsInv

LEMMA PresentCall ==
  ASSUME RowsInv, job.step # "new"
  PROVE  /\ call \in 1..Len(started) /\ call \in 1..MaxRuns /\ now = started[call]
         /\ now \in Clock /\ now \in Nat
<1>1. started \in Seq(Clock) /\ started # <<>> /\ Len(started) <= MaxRuns
  BY DEF RowsInv
<1>2. call \in 1..Len(started) /\ call \in 1..MaxRuns /\ now = started[call]
  BY <1>1, EmptySeq, TimesAssumption DEF call, now, Last
<1> QED BY <1>2, ClockTimes

\* A segment lies in the natural numbers.
LEMMA SegmentBounds ==
  ASSUME NEW base \in Clock, NEW s \in Segments
  PROVE  /\ base \in Nat /\ Start(base, s) \in Nat /\ End(base, s) \in Nat
         /\ Start(base, s) < End(base, s) /\ End(base, s) = Start(base, s) + Length(s)
<1>1. base \in Nat /\ base >= From[1]
  BY TimesAssumption
<1>2. /\ From[1] \in Nat /\ To[1] \in Nat /\ From[2] \in Nat /\ To[2] \in Nat
      /\ From[3] \in Nat /\ To[3] \in Nat /\ From[s] \in Nat /\ To[s] \in Nat
      /\ From[1] > To[1] /\ From[2] > To[2] /\ From[3] > To[3] /\ From[s] > To[s]
  BY SegmentTimes DEF Segments
<1>3. To[1] > From[2] /\ To[2] > From[3]
  BY TimesAssumption
<1>4. s = 1 \/ s = 2 \/ s = 3
  BY DEF Segments
<1>5. From[s] <= From[1]
  BY <1>2, <1>3, <1>4
<1> QED BY <1>1, <1>2, <1>5 DEF Start, End, Length

\* The row that is generated.
LEMMA NewRow ==
  ASSUME RowsInv, Generate
  PROVE  \E new \in Rows :
            /\ batch' = batch \cup {new} /\ new.call = call /\ new.seg = job.seg
            /\ new.nth = job.segInserted + Cardinality(batch)
            /\ new.at \in Start(now, job.seg)..End(now, job.seg)
            /\ job.seg # 1 => new.at \in SlotTimes(now, job.seg, new.nth, job.plan[job.seg])
<1> DEFINE s == job.seg
           nth == job.segInserted + Cardinality(batch)
           Row(c, t) == [conversation |-> c, at |-> t, call |-> call, seg |-> s, nth |-> nth]
<1>1. /\ job.step = "rows" /\ s \in Segments /\ nth \in Nat
      /\ call \in 1..MaxRuns /\ now \in Clock
  <2>1. job.step = "rows" /\ job \in JobType /\ IsFiniteSet(batch)
    BY DEF Generate, RowsInv
  <2>2. call \in 1..MaxRuns /\ now \in Clock
    BY <2>1, PresentCall
  <2>3. Cardinality(batch) \in Nat
    BY <2>1, FS_CardinalityType
  <2> QED BY <2>1, <2>2, <2>3 DEF JobType
<1>2. /\ Start(now, s) \in Nat /\ End(now, s) \in Nat /\ Start(now, s) < End(now, s)
  BY <1>1, SegmentBounds
<1>3. PICK c \in 0..ConversationsPerTenant - 1, t \in Start(now, s)..End(now, s) :
         /\ batch' = batch \cup {Row(c, t)}
         /\ s # 1 => t \in SlotTimes(now, s, nth, job.plan[s])
  <2>1. CASE /\ ClusteredOk(s)
             /\ \E c \in Clustered : \E t \in ItemTimes(now, s, anchors[c]) :
                   batch' = batch \cup {Row(c, t)}
    <3>1. PICK c \in Clustered : \E t \in ItemTimes(now, s, anchors[c]) :
             batch' = batch \cup {Row(c, t)}
      BY <2>1
    <3>2. PICK t \in ItemTimes(now, s, anchors[c]) : batch' = batch \cup {Row(c, t)}
      BY <3>1
    <3>3. c \in 0..ConversationsPerTenant - 1
      BY TimesAssumption DEF Clustered, Half
    <3>4. t \in Start(now, s)..End(now, s)
      <4>1. anchors[c] \in Nat /\ Pad(s) \in Nat
        BY <1>1, SegmentTimes DEF RowsInv
      <4>2. PICK d \in 0 - Pad(s)..Pad(s) : t = Clamp(now, s, anchors[c] + d)
        BY DEF ItemTimes
      <4> QED BY <1>2, <4>1, <4>2 DEF Clamp
    <3> QED BY <2>1, <3>2, <3>3, <3>4 DEF ClusteredOk
  <2>2. CASE \E c \in Scattered, t \in SlotTimes(now, s, nth, job.plan[s]) :
                batch' = batch \cup {Row(c, t)}
    <3>1. PICK c \in Scattered, t \in SlotTimes(now, s, nth, job.plan[s]) :
             batch' = batch \cup {Row(c, t)}
      BY <2>2
    <3>2. c \in 0..ConversationsPerTenant - 1
      BY TimesAssumption DEF Scattered, Half
    <3>3. t \in Start(now, s)..End(now, s)
      BY DEF SlotTimes
    <3> QED BY <3>1, <3>2, <3>3
  <2> QED BY <2>1, <2>2 DEF Generate, Slot
<1>4. t \in Nat
  BY <1>2
<1>5. Row(c, t) \in Rows
  BY <1>1, <1>4 DEF Rows
<1>6. /\ Row(c, t).call = call /\ Row(c, t).seg = job.seg /\ Row(c, t).nth = nth
      /\ Row(c, t).at = t
  OBVIOUS
<1> QED BY <1>3, <1>5, <1>6

LEMMA GenerateKeepsSlots == ASSUME SlotsInv, Generate PROVE SlotsInv'
<1>1. /\ job.step = "rows" /\ Room /\ UNCHANGED <<started, anchors, job, stored>>
      /\ RowsInv /\ RunningInv /\ job \in JobType
  BY DEF Generate, SlotsInv, RowsInv
<1>2. /\ call \in 1..Len(started) /\ now = started[call] /\ now' = now /\ call' = call
  BY <1>1, PresentCall DEF now, call
<1>3. PICK new \in Rows :
        /\ batch' = batch \cup {new} /\ new.call = call /\ new.seg = job.seg
        /\ new.nth = job.segInserted + Cardinality(batch)
        /\ new.at \in Start(now, job.seg)..End(now, job.seg)
        /\ job.seg # 1 => new.at \in SlotTimes(now, job.seg, new.nth, job.plan[job.seg])
  BY <1>1, NewRow
<1>4. /\ job.segInserted \in Nat /\ Cardinality(batch) \in Nat /\ IsFiniteSet(batch)
      /\ job.plan[job.seg] \in Nat /\ job.plan \in [Segments -> Nat] /\ job.seg \in Segments
  <2>1. IsFiniteSet(batch)
    BY <1>1 DEF RowsInv
  <2> QED BY <1>1, <2>1, FS_CardinalityType DEF JobType
<1>5. Numbered(batch, job.segInserted, job.segInserted + Cardinality(batch))
  BY <1>1 DEF RunningInv
<1>6. /\ Numbered(batch', job.segInserted, (job.segInserted + Cardinality(batch)) + 1)
      /\ Cardinality(batch') = Cardinality(batch) + 1 /\ IsFiniteSet(batch')
  <2>1. job.segInserted + Cardinality(batch) \in Nat
        /\ job.segInserted <= job.segInserted + Cardinality(batch)
    BY <1>4
  <2>2. /\ Numbered(batch \cup {new}, job.segInserted, (job.segInserted + Cardinality(batch)) + 1)
        /\ Cardinality(batch \cup {new}) = Cardinality(batch) + 1
    BY <1>3, <1>4, <1>5, <2>1, NumberedNext
  <2> QED BY <1>3, <2>2 DEF Numbered
<1>7. (job.segInserted + Cardinality(batch)) + 1 = job.segInserted + Cardinality(batch')
  BY <1>4, <1>6
<1>8. Cardinality(batch') <= BatchSize
      /\ job.segInserted + Cardinality(batch') <= job.plan[job.seg]
  BY <1>1, <1>4, <1>6, TimesAssumption DEF Room
<1>9. RowsInv'
  <2>1. ASSUME NEW r \in Generated'
        PROVE  /\ r \in Rows /\ r.call \in 1..Len(started)
               /\ r.at \in Start(started[r.call], r.seg)..End(started[r.call], r.seg)
    <3>1. r \in Generated \/ r = new
      BY <1>1, <1>3 DEF Generated
    <3>2. CASE r \in Generated
      BY <1>1, <3>2 DEF RowsInv
    <3>3. CASE r = new
      BY <1>2, <1>3, <3>3
    <3> QED BY <3>1, <3>2, <3>3
  <2> QED BY <1>1, <1>6, <1>8, <2>1 DEF RowsInv
<1>10. RunningInv'
  <2>1. \A r \in batch' : r.call = call /\ r.seg = job.seg
    BY <1>1, <1>3 DEF RunningInv
  <2>2. InSlots(batch', job.seg, job.plan[job.seg])
    BY <1>1, <1>3 DEF RunningInv, InSlots
  <2>3. InSlots(batch, job.seg, job.plan[job.seg])'
    BY <1>1, <1>2, <2>2 DEF InSlots
  <2>4. \A s \in Segments : Mine(s)' = Mine(s) /\ Reached(s)' = Reached(s)
    BY <1>1, <1>2 DEF Mine, Reached
  <2>5. \A s \in Segments : InSlots(Mine(s), s, job.plan[s])'
    BY <1>1, <1>2, <2>4 DEF RunningInv, InSlots
  <2>6. Numbered(batch, job.segInserted, job.segInserted + Cardinality(batch))'
    BY <1>1, <1>6, <1>7 DEF Numbered
  <2>7. \A s \in Segments : Numbered(Mine(s), 0, Reached(s))'
    BY <1>1, <2>4 DEF RunningInv, Numbered
  <2>8. 1 \in Segments /\ 2 \in Segments /\ 3 \in Segments
    BY DEF Segments
  <2> QED BY <1>1, <1>2, <1>8, <2>1, <2>3, <2>4, <2>5, <2>6, <2>7, <2>8 DEF RunningInv
<1>11. DoneInv'
  BY <1>1 DEF DoneInv
<1>12. FirstInv'
  BY <1>1 DEF SlotsInv, FirstInv, First
<1> QED BY <1>9, <1>10, <1>11, <1>12 DEF SlotsInv

\* The loop goes on: with the next segment that has rows, or not at all.
LEMMA NextSegment ==
  ASSUME NEW plan \in [Segments -> Nat], NEW s \in 1..4, Enter(plan, s)
  PROVE  /\ job' \in JobType
         /\ \/ /\ job' = Exited("done") /\ \A i \in Segments : i >= s => plan[i] = 0
            \/ /\ job'.step = "rows" /\ job'.plan = plan /\ job'.segInserted = 0
               /\ job'.seg \in Segments /\ job'.seg >= s
               /\ \A i \in Segments : i >= s /\ i < job'.seg => plan[i] = 0
<1>1. PICK k \in s..4 :
        /\ \A i \in s..k - 1 : plan[i] = 0
        /\ \/ k = 4 /\ job' = Exited("done")
           \/ /\ k < 4 /\ plan[k] > 0
              /\ job' = [step |-> "rows", plan |-> plan, seg |-> k, segInserted |-> 0]
  BY DEF Enter
<1>2. CASE k = 4 /\ job' = Exited("done")
  <2>1. job' \in JobType
    BY <1>2 DEF Exited, JobType, Segments
  <2>2. \A i \in Segments : i >= s => i \in s..k - 1
    BY <1>2 DEF Segments
  <2> QED BY <1>1, <1>2, <2>1, <2>2
<1>3. CASE /\ k < 4
           /\ job' = [step |-> "rows", plan |-> plan, seg |-> k, segInserted |-> 0]
  <2>1. k \in Segments
    BY <1>3 DEF Segments
  <2>2. job' \in JobType
    BY <1>3, <2>1 DEF JobType
  <2>3. \A i \in Segments : i >= s /\ i < k => i \in s..k - 1
    BY DEF Segments
  <2> QED BY <1>1, <1>3, <2>1, <2>2, <2>3
<1> QED BY <1>1, <1>2, <1>3

LEMMA SplitsAreSums ==
  ASSUME NEW n \in Nat, NEW plan \in Splits(n)
  PROVE  /\ plan \in [Segments -> Nat]
         /\ plan[1] \in Nat /\ plan[2] \in Nat /\ plan[3] \in Nat
         /\ plan[1] + plan[2] + plan[3] = n
<1>1. plan \in [Segments -> 0..n] /\ plan[3] + plan[1] + plan[2] = n
  BY DEF Splits
<1>2. plan[1] \in Nat /\ plan[2] \in Nat /\ plan[3] \in Nat
  BY <1>1 DEF Segments
<1>3. plan \in [Segments -> Nat]
  BY <1>1
<1> QED BY <1>1, <1>2, <1>3

LEMMA EffectiveTotalIsNat ==
  EffectiveTotal \in Nat /\ TotalPct \in Nat \ {0} /\ HistoricalPct \in Nat
<1>1. TotalPerTenant \in Nat /\ HistoricalPct \in Nat
  BY SharesAssumption
<1>2. TotalPct \in Nat \ {0}
  BY <1>1 DEF TotalPct
<1>3. 2 * TotalPerTenant * TotalPct + 100 \in Nat
  BY <1>1, <1>2
<1> QED BY <1>1, <1>2, <1>3 DEF EffectiveTotal

\* A call begins: no row is of it yet.
LEMMA RunKeepsSlots == ASSUME SlotsInv, NEW base \in Clock, Run(base) PROVE SlotsInv'
<1> DEFINE n == Len(started)
<1>1. /\ RowsInv /\ started' = Append(started, base) /\ Begin(base) /\ stored' = stored
      /\ batch' = {} /\ n < MaxRuns
  BY DEF SlotsInv, Run, Begin
<1>2. started \in Seq(Clock) /\ n \in Nat
  BY <1>1 DEF RowsInv
<1>3. /\ started' \in Seq(Clock) /\ Len(started') = n + 1 /\ started'[n + 1] = base
      /\ \A i \in 1..n : started'[i] = started[i]
  BY <1>1, <1>2, AppendProperties
<1>4. started' # <<>> /\ call' = n + 1
  BY <1>2, <1>3, EmptySeq DEF call
<1>5. \A r \in stored : r \in Generated /\ r.call \in 1..n
  BY <1>1 DEF RowsInv, Generated
<1>6. \A s : Mine(s)' = {}
  BY <1>1, <1>2, <1>4, <1>5 DEF Mine
<1>7. /\ IsFiniteSet({}) /\ Cardinality({}) = 0 /\ IsFiniteSet(stored)
      /\ Cardinality(stored) \in Nat
  BY <1>1, FS_EmptySet, FS_CardinalityType DEF RowsInv
<1> DEFINE missing == EffectiveTotal - Cardinality(stored)
<1>8. \/ missing <= 0 /\ job' = Exited("done")
      \/ missing > 0 /\ \E plan \in Splits(missing) : Enter(plan, 1)
  <2>1. missing \in Int
    BY <1>7, EffectiveTotalIsNat
  <2> QED BY <1>1, <2>1 DEF Begin
<1>9. /\ job' \in JobType
      /\ \/ job' = Exited("done") /\ missing <= 0
         \/ /\ job'.step = "rows" /\ job'.plan \in Splits(missing) /\ missing > 0
            /\ job'.segInserted = 0 /\ job'.seg \in Segments
            /\ \A i \in Segments : i < job'.seg => job'.plan[i] = 0
  <2>1. CASE missing <= 0 /\ job' = Exited("done")
    BY <2>1 DEF Exited, JobType, Segments
  <2>2. CASE missing > 0 /\ \E plan \in Splits(missing) : Enter(plan, 1)
    <3>1. PICK plan \in Splits(missing) : Enter(plan, 1)
      BY <2>2
    <3>2. missing \in Nat
      BY <2>2, <1>7, EffectiveTotalIsNat
    <3>3. /\ plan \in [Segments -> Nat] /\ plan[1] + plan[2] + plan[3] = missing
      BY <3>2, SplitsAreSums
    <3>4. /\ job' \in JobType
          /\ \/ /\ job' = Exited("done") /\ \A i \in Segments : i >= 1 => plan[i] = 0
             \/ /\ job'.step = "rows" /\ job'.plan = plan /\ job'.segInserted = 0
                /\ job'.seg \in Segments /\ job'.seg >= 1
                /\ \A i \in Segments : i >= 1 /\ i < job'.seg => plan[i] = 0
      BY <3>1, <3>3, NextSegment
    <3>5. ~(\A i \in Segments : i >= 1 => plan[i] = 0)
      BY <2>2, <3>3 DEF Segments
    <3>6. \A i \in Segments : i >= 1
      BY DEF Segments
    <3> QED BY <2>2, <3>1, <3>4, <3>5, <3>6
  <2> QED BY <1>8, <2>1, <2>2
<1>10. RowsInv'
  <2>1. anchors' \in [Clustered -> Nat]
    <3>1. anchors' \in [Clustered -> base - From[1]..base]
      BY <1>1 DEF Begin, buildConversationAnchors
    <3>2. base - From[1]..base \subseteq Nat
      BY TimesAssumption, SegmentTimes DEF Segments
    <3> QED BY <3>1, <3>2
  <2>2. ASSUME NEW r \in Generated'
        PROVE  /\ r \in Rows /\ r.call \in 1..Len(started')
               /\ r.at \in Start(started'[r.call], r.seg)..End(started'[r.call], r.seg)
    <3>1. r \in Generated /\ r.call \in 1..n
      BY <1>1, <1>5, <2>2 DEF Generated
    <3> QED BY <1>1, <1>2, <1>3, <3>1 DEF RowsInv
  <2>3. Cardinality(batch') <= BatchSize /\ IsFiniteSet(batch')
    BY <1>1, <1>7, TimesAssumption
  <2>4. Len(started') <= MaxRuns
    BY <1>1, <1>2, <1>3, TimesAssumption
  <2> QED BY <1>1, <1>3, <1>4, <1>7, <1>9, <2>1, <2>2, <2>3, <2>4 DEF RowsInv
<1>11. RunningInv'
  <2> SUFFICES ASSUME job'.step = "rows" PROVE RunningInv'
    BY DEF RunningInv
  <2>1. /\ job'.plan \in Splits(missing) /\ missing > 0 /\ missing \in Nat
        /\ job'.segInserted = 0 /\ job'.seg \in Segments
        /\ \A i \in Segments : i < job'.seg => job'.plan[i] = 0
    BY <1>7, <1>9, EffectiveTotalIsNat DEF Exited
  <2>2. /\ job'.plan \in [Segments -> Nat]
        /\ job'.plan[1] \in Nat /\ job'.plan[2] \in Nat /\ job'.plan[3] \in Nat
        /\ job'.plan[1] + job'.plan[2] + job'.plan[3] = missing
    BY <2>1, SplitsAreSums
  <2>3. \A s \in Segments : Reached(s)' = 0
    BY <2>1 DEF Reached
  <2>4. Numbered({}, 0, 0)
    BY NumberedNone
  <2>5. \A s \in Segments : /\ Reached(s)' <= job'.plan[s]
                            /\ Numbered(Mine(s), 0, Reached(s))'
                            /\ InSlots(Mine(s), s, job.plan[s])'
    <3> SUFFICES ASSUME NEW s \in Segments
                 PROVE  /\ Reached(s)' <= job'.plan[s]
                        /\ Numbered(Mine(s), 0, Reached(s))'
                        /\ InSlots(Mine(s), s, job.plan[s])'
      OBVIOUS
    <3>1. Mine(s)' = {} /\ Reached(s)' = 0 /\ job'.plan[s] \in Nat
      BY <1>6, <2>2, <2>3
    <3>2. Numbered(Mine(s), 0, Reached(s))'
      BY <2>4, <3>1 DEF Numbered
    <3> QED BY <3>1, <3>2 DEF InSlots
  <2>6. 1 \in Segments /\ 2 \in Segments /\ 3 \in Segments
    BY DEF Segments
  <2>7. Cardinality(stored') + (job'.plan[1] - Reached(1)') + (job'.plan[2] - Reached(2)')
          + (job'.plan[3] - Reached(3)') = EffectiveTotal
    <3>1. Reached(1)' = 0 /\ Reached(2)' = 0 /\ Reached(3)' = 0
      BY <2>3, <2>6
    <3>2. Cardinality(stored') = Cardinality(stored)
      BY <1>1
    <3>3. job'.plan[1] + job'.plan[2] + job'.plan[3] = EffectiveTotal - Cardinality(stored)
      BY <2>2
    <3>4. EffectiveTotal \in Nat /\ Cardinality(stored) \in Nat
      BY <1>7, EffectiveTotalIsNat
    <3> HIDE DEF missing
    <3> QED BY ONLY <2>2, <3>1, <3>2, <3>3, <3>4
  <2>8. call' = 1 => job'.plan \in Splits(EffectiveTotal)
    <3>1. call' = 1 => stored = {}
      BY <1>2, <1>4, <1>5
    <3>2. call' = 1 => missing = EffectiveTotal
      BY <1>7, <3>1, EffectiveTotalIsNat
    <3> QED BY <2>1, <3>2
  <2>9. /\ job'.segInserted + Cardinality(batch') <= job'.plan[job'.seg]
        /\ Numbered(batch, job.segInserted, job.segInserted + Cardinality(batch))'
        /\ InSlots(batch, job.seg, job.plan[job.seg])'
    <3>1. job'.segInserted + Cardinality(batch') = 0
      BY <1>1, <1>7, <2>1
    <3> QED BY <1>1, <2>1, <2>2, <2>4, <3>1 DEF InSlots, Numbered
  <2> QED BY <1>1, <2>5, <2>7, <2>8, <2>9 DEF RunningInv
<1>12. DoneInv'
  <2> SUFFICES ASSUME job'.step = "done"
               PROVE  /\ \A s \in Segments : /\ Numbered(Mine(s), 0, Cardinality(Mine(s)))'
                                             /\ InSlots(Mine(s), s, Cardinality(Mine(s)))'
                      /\ Cardinality(stored') >= EffectiveTotal
    BY DEF DoneInv
  <2>1. Cardinality(stored') >= EffectiveTotal
    BY <1>1, <1>7, <1>9, EffectiveTotalIsNat
  <2>2. Numbered({}, 0, 0)
    BY NumberedNone
  <2> QED BY <1>6, <1>7, <2>1, <2>2 DEF InSlots, Numbered
<1>13. FirstInv'
  BY <1>1 DEF SlotsInv, FirstInv, First
<1> QED BY <1>10, <1>11, <1>12, <1>13 DEF SlotsInv

LEMMA CrashKeepsSlots == ASSUME SlotsInv, Crash PROVE SlotsInv'
<1>1. /\ job.step = "rows" /\ job' = Exited("killed") /\ batch' = {}
      /\ UNCHANGED <<started, anchors, stored>> /\ RowsInv /\ FirstInv
  BY DEF Crash, SlotsInv
<1>2. job' \in JobType /\ job'.step = "killed"
  BY <1>1 DEF Exited, JobType, Segments
<1>3. IsFiniteSet(batch') /\ Cardinality(batch') <= BatchSize
  BY <1>1, FS_EmptySet, TimesAssumption
<1>4. Generated' \subseteq Generated
  BY <1>1 DEF Generated
<1>5. RowsInv'
  BY <1>1, <1>2, <1>3, <1>4 DEF RowsInv
<1>6. FirstInv'
  BY <1>1 DEF FirstInv, First
<1> QED BY <1>2, <1>5, <1>6 DEF SlotsInv, RunningInv, DoneInv

\* The batch is stored: its rows are the next ones of their segment.
LEMMA WriteKeepsSlots == ASSUME SlotsInv, Write PROVE SlotsInv'
<1> DEFINE n == job.segInserted + Cardinality(batch)
           After(s) == IF s < job.seg THEN job.plan[s] ELSE IF s = job.seg THEN n ELSE 0
<1>1. /\ job.step = "rows" /\ ~Room /\ UNCHANGED <<started, anchors>>
      /\ stored' = stored \cup batch /\ batch' = {}
      /\ IF n < job.plan[job.seg] THEN job' = [job EXCEPT !.segInserted = n]
         ELSE Enter(job.plan, job.seg + 1)
      /\ RowsInv /\ RunningInv /\ FirstInv /\ job \in JobType
  BY DEF Write, Written, SlotsInv, RowsInv
<1>2. /\ IsFiniteSet(batch) /\ Cardinality(batch) \in Nat /\ job.segInserted \in Nat
      /\ IsFiniteSet(stored) /\ Cardinality(stored) \in Nat
      /\ job.seg \in Segments /\ job.plan \in [Segments -> Nat] /\ job.plan[job.seg] \in Nat
  <2>1. IsFiniteSet(batch) /\ IsFiniteSet(stored)
    BY <1>1 DEF RowsInv
  <2> QED BY <1>1, <2>1, FS_CardinalityType DEF JobType
<1>3. n \in Nat /\ n <= job.plan[job.seg] /\ job.segInserted <= n
  BY <1>1, <1>2 DEF RunningInv
<1>4. now' = now /\ call' = call
  BY <1>1 DEF now, call
<1>5. \A r \in batch : r.call = call /\ r.seg = job.seg
  BY <1>1 DEF RunningInv
<1>6. \A s \in Segments : Mine(s)' = IF s = job.seg THEN Mine(s) \cup batch ELSE Mine(s)
  <2> SUFFICES ASSUME NEW s \in Segments
               PROVE  Mine(s)' = IF s = job.seg THEN Mine(s) \cup batch ELSE Mine(s)
    OBVIOUS
  <2>1. Mine(s)' = {r \in stored \cup batch : r.call = call /\ r.seg = s}
    BY <1>1, <1>4 DEF Mine
  <2> QED BY <1>5, <2>1 DEF Mine
<1>7. Numbered(Mine(job.seg) \cup batch, 0, n) /\ Mine(job.seg) \cap batch = {}
  <2>1. Numbered(Mine(job.seg), 0, job.segInserted) /\ Numbered(batch, job.segInserted, n)
    BY <1>1, <1>2 DEF RunningInv, Reached, Segments
  <2>2. 0 \in Nat /\ 0 <= job.segInserted
    BY <1>2
  <2> HIDE DEF n
  <2> QED BY ONLY <1>2, <1>3, <2>1, <2>2, NumberedUnion
<1>8. IsFiniteSet(stored') /\ Cardinality(stored') = Cardinality(stored) + Cardinality(batch)
  <2>1. stored \cap batch = {}
    <3>1. \A r \in stored \cap batch : r \in Mine(job.seg) \cap batch
      BY <1>5 DEF Mine
    <3> QED BY <1>7, <3>1
  <2>2. Cardinality(stored \cap batch) = 0
    BY <2>1, FS_EmptySet
  <2>3. IsFiniteSet(stored \cup batch) /\ Cardinality(stored \cup batch)
           = Cardinality(stored) + Cardinality(batch) - Cardinality(stored \cap batch)
    BY <1>2, FS_Union
  <2> QED BY <1>1, <1>2, <2>2, <2>3
<1> DEFINE plan == job.plan
<1>9. ASSUME NEW s \in Segments
      PROVE  /\ After(s) \in Nat /\ After(s) <= plan[s]
             /\ Numbered(Mine(s)', 0, After(s))
             /\ s # 1 => \A r \in Mine(s)' : r.at \in SlotTimes(now, s, r.nth, plan[s])
             /\ After(s) = Reached(s) + (IF s = job.seg THEN Cardinality(batch) ELSE 0)
             /\ Reached(s) \in Nat /\ plan[s] \in Nat
  <2>1. /\ Numbered(Mine(s), 0, Reached(s)) /\ InSlots(Mine(s), s, plan[s])
        /\ InSlots(batch, job.seg, plan[job.seg])
    BY <1>1 DEF RunningInv
  <2>2. CASE s = job.seg
    <3>1. After(s) = n /\ Reached(s) = job.segInserted
      BY <2>2, <1>2 DEF Reached, Segments
    <3>2. s # 1 => \A r \in Mine(s)' : r.at \in SlotTimes(now, s, r.nth, plan[s])
      BY <1>6, <2>1, <2>2 DEF InSlots
    <3>3. Numbered(Mine(s)', 0, After(s))
      BY <1>6, <1>7, <2>2, <3>1
    <3>4. n = job.segInserted + Cardinality(batch)
      OBVIOUS
    <3> HIDE DEF n
    <3> QED BY <1>2, <1>3, <2>2, <3>1, <3>2, <3>3, <3>4
  <2>3. CASE s # job.seg
    <3>1. After(s) = Reached(s) /\ Reached(s) \in {plan[s], 0} /\ plan[s] \in Nat
      BY <1>2, <2>3 DEF Reached
    <3>2. Mine(s)' = Mine(s)
      BY <1>6, <2>3
    <3> HIDE DEF After
    <3> QED BY <2>1, <2>3, <3>1, <3>2 DEF InSlots
  <2> QED BY <2>2, <2>3
<1>10. 1 \in Segments /\ 2 \in Segments /\ 3 \in Segments
       /\ (job.seg = 1 \/ job.seg = 2 \/ job.seg = 3)
  BY <1>2 DEF Segments
<1>11. Cardinality(stored') + (plan[1] - After(1)) + (plan[2] - After(2))
          + (plan[3] - After(3)) = EffectiveTotal
  <2>1. Cardinality(stored) + (plan[1] - Reached(1)) + (plan[2] - Reached(2))
          + (plan[3] - Reached(3)) = EffectiveTotal
    BY <1>1 DEF RunningInv
  <2>2. /\ After(1) = Reached(1) + (IF 1 = job.seg THEN Cardinality(batch) ELSE 0)
        /\ After(2) = Reached(2) + (IF 2 = job.seg THEN Cardinality(batch) ELSE 0)
        /\ After(3) = Reached(3) + (IF 3 = job.seg THEN Cardinality(batch) ELSE 0)
        /\ Reached(1) \in Nat /\ Reached(2) \in Nat /\ Reached(3) \in Nat
        /\ plan[1] \in Nat /\ plan[2] \in Nat /\ plan[3] \in Nat
    BY <1>9, <1>10
  <2> HIDE DEF After, plan
  <2> QED BY <1>2, <1>8, <1>10, <2>1, <2>2
<1>12. /\ job' \in JobType
       /\ \/ job' = Exited("done") /\ \A s \in Segments : After(s) = plan[s]
          \/ /\ job'.step = "rows" /\ job'.plan = plan /\ job'.seg \in Segments
             /\ job'.segInserted \in Nat
             /\ \A s \in Segments : Reached(s)' = After(s)
  <2>1. CASE n < plan[job.seg]
    <3>1. job' = [job EXCEPT !.segInserted = n]
      BY <1>1, <2>1
    <3>2. job' \in JobType
      BY <1>1, <1>3, <3>1 DEF JobType
    <3>3. /\ job'.step = "rows" /\ job'.plan = plan /\ job'.seg = job.seg
          /\ job'.segInserted = n
      BY <1>1, <3>1 DEF JobType
    <3>4. \A s \in Segments : Reached(s)' = After(s)
      BY <3>3 DEF Reached
    <3> QED BY <1>2, <1>3, <3>2, <3>3, <3>4
  <2>2. CASE ~(n < plan[job.seg])
    <3>1. Enter(plan, job.seg + 1) /\ n = plan[job.seg]
      BY <1>1, <1>2, <1>3, <2>2
    <3>2. job.seg + 1 \in 1..4
      BY <1>2 DEF Segments
    <3>3. /\ job' \in JobType
          /\ \/ /\ job' = Exited("done") /\ \A i \in Segments : i >= job.seg + 1 => plan[i] = 0
             \/ /\ job'.step = "rows" /\ job'.plan = plan /\ job'.segInserted = 0
                /\ job'.seg \in Segments /\ job'.seg >= job.seg + 1
                /\ \A i \in Segments : i >= job.seg + 1 /\ i < job'.seg => plan[i] = 0
      BY <1>2, <3>1, <3>2, NextSegment
    <3>4. \A i \in Segments : i \in Nat /\ job.seg \in Nat
      BY <1>2 DEF Segments
    <3>5. CASE /\ job' = Exited("done") /\ \A i \in Segments : i >= job.seg + 1 => plan[i] = 0
      <4>1. \A s \in Segments : After(s) = plan[s]
        BY <3>1, <3>4, <3>5
      <4> QED BY <3>3, <3>5, <4>1
    <3>6. CASE /\ job'.step = "rows" /\ job'.plan = plan /\ job'.segInserted = 0
               /\ job'.seg \in Segments /\ job'.seg >= job.seg + 1
               /\ \A i \in Segments : i >= job.seg + 1 /\ i < job'.seg => plan[i] = 0
      <4>1. ASSUME NEW s \in Segments PROVE Reached(s)' = After(s)
        <5>1. Reached(s)' = IF s < job'.seg THEN plan[s] ELSE 0
          BY <3>6 DEF Reached
        <5>2. CASE s < job.seg \/ s = job.seg
          BY <3>1, <3>4, <3>6, <5>1, <5>2
        <5>3. CASE s > job.seg
          BY <3>1, <3>4, <3>6, <5>1, <5>3
        <5> QED BY <3>4, <5>2, <5>3
      <4> QED BY <3>3, <3>6, <4>1
    <3> QED BY <3>3, <3>5, <3>6
  <2> QED BY <2>1, <2>2
<1> HIDE DEF After, plan, n
<1>13. RowsInv'
  <2>1. Generated' = Generated
    BY <1>1 DEF Generated
  <2>2. Cardinality({}) = 0 /\ IsFiniteSet({})
    BY FS_EmptySet
  <2>3. started # <<>>
    BY <1>1 DEF RowsInv
  <2> QED BY <1>1, <1>8, <1>12, <2>1, <2>2, <2>3, TimesAssumption DEF RowsInv
<1>14. RunningInv'
  <2> SUFFICES ASSUME job'.step = "rows" PROVE RunningInv'
    BY DEF RunningInv
  <2>1. /\ job'.plan = plan /\ job'.seg \in Segments /\ job'.segInserted \in Nat
        /\ \A s \in Segments : Reached(s)' = After(s)
    BY <1>12 DEF Exited
  <2>2. job'.segInserted = After(job'.seg)
    BY <2>1 DEF Reached, Segments
  <2>3. /\ job'.segInserted + Cardinality(batch') <= job'.plan[job'.seg]
        /\ Numbered(batch, job.segInserted, job.segInserted + Cardinality(batch))'
    <3>1. Cardinality(batch') = 0 /\ job'.segInserted + 0 = job'.segInserted
      BY <1>1, <2>1, FS_EmptySet
    <3>2. Numbered({}, job'.segInserted, job'.segInserted)
      BY <2>1, NumberedNone
    <3>3. Numbered(batch, job.segInserted, job.segInserted + Cardinality(batch))'
      BY <1>1, <3>1, <3>2 DEF Numbered
    <3> QED BY <1>9, <2>1, <2>2, <3>1, <3>3
  <2>4. /\ \A r \in batch' : r.call = call' /\ r.seg = job'.seg
        /\ InSlots(batch, job.seg, job.plan[job.seg])'
    BY <1>1 DEF InSlots
  <2>5. ASSUME NEW s \in Segments
        PROVE  /\ Reached(s)' <= job'.plan[s]
               /\ Numbered(Mine(s), 0, Reached(s))'
               /\ InSlots(Mine(s), s, job.plan[s])'
    <3>1. /\ Reached(s)' = After(s) /\ After(s) <= plan[s] /\ Numbered(Mine(s)', 0, After(s))
          /\ s # 1 => \A r \in Mine(s)' : r.at \in SlotTimes(now, s, r.nth, plan[s])
      BY <1>9, <2>1
    <3>2. Numbered(Mine(s), 0, Reached(s))'
      BY <3>1 DEF Numbered
    <3> QED BY <1>4, <2>1, <3>1, <3>2 DEF InSlots
  <2>6. Cardinality(stored') + (job'.plan[1] - Reached(1)') + (job'.plan[2] - Reached(2)')
          + (job'.plan[3] - Reached(3)') = EffectiveTotal
    BY <1>10, <1>11, <2>1
  <2>7. call' = 1 => job'.plan \in Splits(EffectiveTotal)
    BY <1>1, <1>4, <2>1 DEF RunningInv, plan
  <2> QED BY <2>3, <2>4, <2>5, <2>6, <2>7 DEF RunningInv
<1>15. DoneInv'
  <2> SUFFICES ASSUME job'.step = "done"
               PROVE  /\ \A s \in Segments : /\ Numbered(Mine(s), 0, Cardinality(Mine(s)))'
                                             /\ InSlots(Mine(s), s, Cardinality(Mine(s)))'
                      /\ Cardinality(stored') >= EffectiveTotal
    BY DEF DoneInv
  <2>1. \A s \in Segments : After(s) = plan[s]
    BY <1>12
  <2>2. Cardinality(stored') >= EffectiveTotal
    <3>1. /\ After(1) = plan[1] /\ After(2) = plan[2] /\ After(3) = plan[3]
          /\ plan[1] \in Nat /\ plan[2] \in Nat /\ plan[3] \in Nat
      BY <1>9, <1>10, <2>1
    <3>2. Cardinality(stored') \in Nat
      BY <1>8, FS_CardinalityType
    <3> QED BY <1>11, <3>1, <3>2
  <2>3. ASSUME NEW s \in Segments
        PROVE  /\ Numbered(Mine(s), 0, Cardinality(Mine(s)))'
               /\ InSlots(Mine(s), s, Cardinality(Mine(s)))'
    <3>1. /\ After(s) = plan[s] /\ plan[s] \in Nat /\ Numbered(Mine(s)', 0, plan[s])
          /\ s # 1 => \A r \in Mine(s)' : r.at \in SlotTimes(now, s, r.nth, plan[s])
      BY <1>9, <2>1
    <3>2. Cardinality(Mine(s)') = plan[s]
      BY <3>1 DEF Numbered
    <3>3. Numbered(Mine(s), 0, Cardinality(Mine(s)))'
      BY <3>1, <3>2 DEF Numbered
    <3> QED BY <1>4, <3>1, <3>2, <3>3 DEF InSlots
  <2> QED BY <2>2, <2>3
<1>16. FirstInv'
  <2>1. CASE call = 1
    <3>1. plan \in Splits(EffectiveTotal)
      BY <1>1, <2>1 DEF RunningInv, plan
    <3>2. \A s \in Segments : First(s)' = Mine(s)'
      BY <1>4, <2>1 DEF First, Mine
    <3>3. \A s \in Segments : Cardinality(First(s)') <= plan[s]
      BY <1>9, <3>2 DEF Numbered
    <3> QED BY <3>1, <3>3 DEF FirstInv
  <2>2. CASE call # 1
    <3>1. \A s \in Segments : First(s)' = First(s)
      BY <1>1, <1>5, <2>2 DEF First
    <3>2. (\E r \in stored' : r.call = 1) => \E r \in stored : r.call = 1
      BY <1>1, <1>5, <2>2
    <3> QED BY <1>1, <3>1, <3>2 DEF FirstInv
  <2> QED BY <2>1, <2>2
<1> QED BY <1>13, <1>14, <1>15, <1>16 DEF SlotsInv

LEMMA SlotsInit == Init => SlotsInv
<1> SUFFICES ASSUME Init PROVE SlotsInv
  OBVIOUS
<1>1. /\ started = <<>> /\ batch = {} /\ stored = {} /\ job = Exited("new")
      /\ anchors = [i \in Clustered |-> 0]
  BY DEF Init
<1>2. job \in JobType /\ job.step = "new"
  BY <1>1 DEF Exited, JobType, Segments
<1>3. IsFiniteSet({}) /\ Cardinality({}) = 0
  BY FS_EmptySet
<1>4. started \in Seq(Clock) /\ Len(started) = 0
  BY <1>1
<1>5. RowsInv
  BY <1>1, <1>2, <1>3, <1>4, TimesAssumption DEF RowsInv, Generated
<1> QED BY <1>1, <1>2, <1>5 DEF SlotsInv, RunningInv, DoneInv, FirstInv

LEMMA SlotsNext == ASSUME SlotsInv, [Next]_vars PROVE SlotsInv'
<1>1. CASE Generate
  BY <1>1, GenerateKeepsSlots
<1>2. CASE Write
  BY <1>2, WriteKeepsSlots
<1>3. CASE Crash
  BY <1>3, CrashKeepsSlots
<1>4. ASSUME NEW base \in Clock, Run(base) PROVE SlotsInv'
  BY <1>4, RunKeepsSlots
<1>5. CASE UNCHANGED vars
  <2>1. /\ started' = started /\ anchors' = anchors /\ job' = job
        /\ batch' = batch /\ stored' = stored
    BY <1>5 DEF vars
  <2>2. /\ Generated' = Generated /\ now' = now /\ call' = call
        /\ \A s \in Segments : Mine(s)' = Mine(s) /\ Reached(s)' = Reached(s)
    BY <2>1 DEF Generated, now, call, Mine, Reached
  <2>3. RowsInv'
    BY <2>1, <2>2 DEF SlotsInv, RowsInv
  <2>4. RunningInv'
    <3> SUFFICES ASSUME job.step = "rows" PROVE RunningInv'
      BY <2>1 DEF RunningInv
    <3>1. RunningInv
      BY DEF SlotsInv
    <3>2. /\ job'.segInserted + Cardinality(batch') <= job'.plan[job'.seg]
          /\ \A r \in batch' : r.call = call' /\ r.seg = job'.seg
          /\ call' = 1 => job'.plan \in Splits(EffectiveTotal)
      BY <2>1, <2>2, <3>1 DEF RunningInv
    <3>3. Numbered(batch, job.segInserted, job.segInserted + Cardinality(batch))'
      BY <2>1, <3>1 DEF RunningInv, Numbered
    <3>4. InSlots(batch, job.seg, job.plan[job.seg])'
      BY <2>1, <2>2, <3>1 DEF RunningInv, InSlots
    <3>5. ASSUME NEW s \in Segments
          PROVE  /\ Reached(s)' <= job'.plan[s]
                 /\ Numbered(Mine(s), 0, Reached(s))'
                 /\ InSlots(Mine(s), s, job.plan[s])'
      <4>1. /\ Reached(s) <= job.plan[s] /\ Numbered(Mine(s), 0, Reached(s))
            /\ InSlots(Mine(s), s, job.plan[s])
        BY <3>1 DEF RunningInv
      <4>2. Numbered(Mine(s), 0, Reached(s))'
        BY <2>2, <4>1 DEF Numbered
      <4>3. InSlots(Mine(s), s, job.plan[s])'
        BY <2>1, <2>2, <4>1 DEF InSlots
      <4> QED BY <2>1, <2>2, <4>1, <4>2, <4>3
    <3>6. Cardinality(stored') + (job'.plan[1] - Reached(1)') + (job'.plan[2] - Reached(2)')
             + (job'.plan[3] - Reached(3)') = EffectiveTotal
      <4>1. Reached(1)' = Reached(1) /\ Reached(2)' = Reached(2) /\ Reached(3)' = Reached(3)
        BY <2>2 DEF Segments
      <4> QED BY <2>1, <3>1, <4>1 DEF RunningInv
    <3> QED BY <3>2, <3>3, <3>4, <3>5, <3>6 DEF RunningInv
  <2>5. DoneInv'
    BY <2>1, <2>2 DEF SlotsInv, DoneInv, Numbered, InSlots
  <2>6. FirstInv'
    BY <2>1 DEF SlotsInv, FirstInv, First
  <2> QED BY <2>3, <2>4, <2>5, <2>6 DEF SlotsInv
<1> QED BY <1>1, <1>2, <1>3, <1>4, <1>5 DEF Next

LEMMA SlotsInvariant == Spec => []SlotsInv
<1>1. Init => SlotsInv
  BY SlotsInit
<1>2. SlotsInv /\ [Next]_vars => SlotsInv'
  BY SlotsNext
<1> QED BY <1>1, <1>2, PTL DEF Spec

LEMMA TypesFollow == RowsInv => TypeOK
BY DEF RowsInv, TypeOK, JobType, Generated

-----------------------------------------------------------------------------
(* The windows are populated: some arithmetic of equal slots. *)

LEMMA DivBounds ==
  ASSUME NEW a \in Nat, NEW b \in Nat \ {0}
  PROVE  a \div b \in Nat /\ (a \div b) * b <= a /\ a < (a \div b) * b + b
OBVIOUS

LEMMA MulCancel ==
  ASSUME NEW x \in Int, NEW y \in Int, NEW n \in Nat \ {0}, x * n < y * n
  PROVE  x < y
OBVIOUS

LEMMA DivLower ==
  ASSUME NEW a \in Nat, NEW b \in Nat \ {0}, NEW x \in Nat, x * b <= a
  PROVE  x <= a \div b
<1> DEFINE q == a \div b
<1>1. q \in Nat /\ a < q * b + b
  BY DivBounds
<1> HIDE DEF q
<1>2. x * b < (q + 1) * b
  BY <1>1
<1>3. x < q + 1
  BY <1>1, <1>2, MulCancel
<1> QED BY <1>1, <1>3 DEF q

\* n equal slots of a segment of length L are no longer than `slot`, rounded up.
LEMMA SlotLength ==
  ASSUME NEW L \in Nat \ {0}, NEW n \in Nat \ {0}
  PROVE  /\ (L - 1) \div n + 1 \in Nat \ {0}
         /\ L <= ((L - 1) \div n + 1) * n
<1> DEFINE q == (L - 1) \div n
<1>1. L - 1 \in Nat
  OBVIOUS
<1>2. q \in Nat /\ L - 1 < q * n + n
  BY <1>1, DivBounds
<1> HIDE DEF q
<1>3. (q + 1) * n = q * n + n
  BY <1>2
<1> QED BY <1>2, <1>3 DEF q

\* A stretch of two slots holds a whole slot: the row of slot k, where k is the first
\* slot that begins at x or later, is dated within it.
LEMMA SlotWithin ==
  ASSUME NEW L \in Nat \ {0}, NEW n \in Nat \ {0}, NEW slot \in Nat \ {0}, L <= slot * n,
         NEW x \in Nat, x + 2 * slot <= L
  PROVE  \E k \in 0..n - 1 :
            \A y \in Nat : y >= (k * L) \div n /\ y * n < (k + 1) * L
                              => y >= x /\ y <= x + 2 * slot
<1> DEFINE q == (x * n) \div L
           k == IF q * L = x * n THEN q ELSE q + 1
<1>1. x * n \in Nat
  OBVIOUS
<1>2. q \in Nat /\ q * L <= x * n /\ x * n < q * L + L
  BY <1>1, DivBounds
<1> HIDE DEF q
<1>3. (q + 1) * L = q * L + L
  BY <1>2
<1>4. k \in Nat /\ x * n <= k * L /\ k * L < x * n + L
  BY <1>1, <1>2, <1>3
<1> HIDE DEF k
<1>5. (x + 2 * slot) * n = x * n + 2 * (slot * n)
  OBVIOUS
<1>6. (x + 2 * slot) * n <= L * n
  OBVIOUS
<1>7. k * L < n * L
  <2>1. slot * n \in Nat /\ L * n = n * L /\ k * L \in Nat /\ L * n \in Nat
    BY <1>4
  <2> QED BY <1>1, <1>4, <1>5, <1>6, <2>1
<1>8. k < n
  BY <1>4, <1>7, MulCancel
<1>9. ASSUME NEW y \in Nat, y >= (k * L) \div n, y * n < (k + 1) * L
      PROVE  y >= x /\ y <= x + 2 * slot
  <2>1. x <= (k * L) \div n
    <3>1. k * L \in Nat
      BY <1>4
    <3> QED BY <1>4, <3>1, DivLower
  <2>2. y * n < (x + 2 * slot) * n
    <3>1. (k + 1) * L = k * L + L
      BY <1>4
    <3>2. y * n \in Nat /\ slot * n \in Nat /\ k * L \in Nat /\ (x + 2 * slot) * n \in Nat
      BY <1>4
    <3> QED BY <1>1, <1>4, <1>5, <1>9, <3>1, <3>2
  <2>3. y < x + 2 * slot
    BY <2>2, MulCancel
  <2>4. (k * L) \div n \in Nat
    <3>1. k * L \in Nat
      BY <1>4
    <3> QED BY <3>1, DivBounds
  <2> DEFINE d == (k * L) \div n
  <2>5. d \in Nat /\ x <= d /\ y >= d
    BY <1>9, <2>1, <2>4
  <2>6. y \in Nat /\ x \in Nat /\ slot \in Nat
    BY <1>9
  <2> HIDE DEF d
  <2> QED BY ONLY <2>3, <2>5, <2>6
<1>10. k \in 0..n - 1
  BY <1>4, <1>8
<1> WITNESS <1>10
<1> QED BY <1>9

\* The last slot is within `slot` of the end.
LEMMA LastSlot ==
  ASSUME NEW L \in Nat \ {0}, NEW n \in Nat \ {0}, NEW slot \in Nat \ {0}, L <= slot * n
  PROVE  ((n - 1) * L) \div n >= L - slot
<1>1. (n - 1) * L \in Nat
  OBVIOUS
<1>2. CASE slot >= L
  <2>1. ((n - 1) * L) \div n \in Nat
    BY <1>1, DivBounds
  <2> QED BY <1>2, <2>1
<1>3. CASE slot < L
  <2>1. L - slot \in Nat
    BY <1>3
  <2>2. (L - slot) * n = L * n - slot * n /\ (n - 1) * L = L * n - L
    OBVIOUS
  <2>3. (L - slot) * n <= (n - 1) * L
    <3>1. L * n \in Nat /\ slot * n \in Nat
      OBVIOUS
    <3> QED BY <2>2, <3>1
  <2> QED BY <1>1, <2>1, <2>3, DivLower
<1> QED BY <1>2, <1>3

LEMMA WindowsFollow == SlotsInv => WindowsArePopulated
<1> SUFFICES ASSUME SlotsInv, job.step = "done", NEW s \in {2, 3}, Mine(s) # {}
             PROVE  LET slot == (Length(s) - 1) \div Cardinality(Mine(s)) + 1
                    IN /\ \A t \in Start(now, s)..End(now, s) - 2 * slot :
                             \E r \in Mine(s) : r.at \in t..t + 2 * slot
                       /\ \E r \in Mine(s) : r.at \in End(now, s) - slot..End(now, s)
  BY DEF WindowsArePopulated, Mine
<1> DEFINE n == Cardinality(Mine(s))
           L == Length(s)
           slot == (L - 1) \div n + 1
           first == Start(now, s)
<1>1. RowsInv /\ DoneInv /\ s \in Segments /\ s # 1
  BY DEF SlotsInv, Segments
<1>2. now \in Clock
  BY <1>1, PresentCall
<1>3. /\ first \in Nat /\ End(now, s) \in Nat /\ End(now, s) = first + L /\ L \in Nat \ {0}
  <2>1. /\ first \in Nat /\ End(now, s) \in Nat /\ first < End(now, s)
        /\ End(now, s) = first + Length(s)
    BY <1>1, <1>2, SegmentBounds
  <2>2. Length(s) \in Int
    BY <1>1, SegmentTimes DEF Length
  <2> QED BY <2>1, <2>2
<1>4. Numbered(Mine(s), 0, n) /\ \A r \in Mine(s) : r.at \in SlotTimes(now, s, r.nth, n)
  BY <1>1 DEF DoneInv, InSlots
<1>5. n \in Nat \ {0}
  <2>1. IsFiniteSet(Mine(s))
    BY <1>4 DEF Numbered
  <2>2. n \in Nat /\ (n = 0 <=> Mine(s) = {})
    BY <2>1, FS_CardinalityType, FS_EmptySet
  <2> QED BY <2>2
<1>6. \A k \in 0..n - 1 : \E r \in Mine(s) : r.nth = k
  BY <1>4, <1>5 DEF Numbered
<1>7. slot \in Nat \ {0} /\ L <= slot * n
  BY <1>3, <1>5, SlotLength
<1>8. \A k \in 0..n - 1 : \E r \in Mine(s) :
         /\ r.at - first \in Nat /\ r.at \in Nat /\ r.at <= End(now, s)
         /\ r.at - first >= (k * L) \div n
         /\ (r.at - first) * n < (k + 1) * L
  <2> SUFFICES ASSUME NEW k \in 0..n - 1
               PROVE  \E r \in Mine(s) :
                         /\ r.at - first \in Nat /\ r.at \in Nat /\ r.at <= End(now, s)
                         /\ r.at - first >= (k * L) \div n
                         /\ (r.at - first) * n < (k + 1) * L
    OBVIOUS
  <2>1. PICK r \in Mine(s) : r.nth = k
    BY <1>6
  <2>2. r.at \in SlotTimes(now, s, k, n)
    BY <1>4, <2>1
  <2>3. r.at \in first..End(now, s)
    BY <2>2 DEF SlotTimes
  <2>4. r.at - first >= (k * L) \div n /\ (r.at - first) * n < (k + 1) * L
    BY <2>2 DEF SlotTimes
  <2> HIDE DEF L, first, n
  <2>5. r.at - first \in Nat /\ r.at \in Nat /\ r.at <= End(now, s)
    BY <1>3, <2>3
  <2> QED BY <2>4, <2>5
<1> HIDE DEF n, L, slot, first
<1>9. ASSUME NEW t \in first..End(now, s) - 2 * slot
      PROVE  \E r \in Mine(s) : r.at \in t..t + 2 * slot
  <2> DEFINE x == t - first
  <2>1. x \in Nat /\ x + 2 * slot <= L /\ t = first + x
    BY <1>3, <1>7
  <2> HIDE DEF x
  <2>2. PICK k \in 0..n - 1 :
           \A y \in Nat : y >= (k * L) \div n /\ y * n < (k + 1) * L
                             => y >= x /\ y <= x + 2 * slot
    BY <1>3, <1>5, <1>7, <2>1, SlotWithin
  <2>3. PICK r \in Mine(s) : /\ r.at - first \in Nat /\ r.at \in Nat
                             /\ r.at - first >= (k * L) \div n
                             /\ (r.at - first) * n < (k + 1) * L
    BY <1>8
  <2>4. r.at - first >= x /\ r.at - first <= x + 2 * slot
    BY <2>2, <2>3
  <2> QED BY <1>3, <1>7, <2>1, <2>3, <2>4
<1>10. \E r \in Mine(s) : r.at \in End(now, s) - slot..End(now, s)
  <2>1. PICK r \in Mine(s) : /\ r.at - first \in Nat /\ r.at \in Nat /\ r.at <= End(now, s)
                             /\ r.at - first >= ((n - 1) * L) \div n
    BY <1>5, <1>8
  <2>2. ((n - 1) * L) \div n >= L - slot
    BY <1>3, <1>5, <1>7, LastSlot
  <2>3. ((n - 1) * L) \div n \in Nat
    <3>1. (n - 1) * L \in Nat
      BY <1>3, <1>5
    <3> QED BY <1>5, <3>1, DivBounds
  <2> QED BY <1>3, <1>7, <2>1, <2>2, <2>3
<1> QED BY <1>9, <1>10 DEF n, L, slot, first

-----------------------------------------------------------------------------
(* The shares. *)

\* The segments of one call have no time in common.
LEMMA SegmentsAreDisjoint ==
  ASSUME NEW base \in Clock, NEW s \in Segments, NEW u \in Segments, NEW t \in Nat,
         t \in Start(base, s)..End(base, s), t \in Start(base, u)..End(base, u)
  PROVE  s = u
<1>1. /\ To[1] \in Nat /\ From[2] \in Nat /\ To[2] \in Nat /\ From[3] \in Nat
      /\ From[1] \in Nat /\ To[3] \in Nat /\ From[2] > To[2] /\ base \in Nat
  BY SegmentTimes, ClockIsNat DEF Segments
<1>2. To[1] > From[2] /\ To[2] > From[3]
  BY TimesAssumption
<1>3. (s = 1 \/ s = 2 \/ s = 3) /\ (u = 1 \/ u = 2 \/ u = 3)
  BY DEF Segments
<1> QED BY <1>1, <1>2, <1>3 DEF Start, End

\* A floored share is less than two rows short of the exact one.
LEMMA FlooredIsClose ==
  ASSUME NEW m \in Nat, NEW pct \in Nat, NEW q \in Nat, q \in Floored(m, pct)
  PROVE  m * pct - q * TotalPct \in 0..2 * TotalPct - 1
<1> DEFINE a == m * pct
           p == a \div TotalPct
<1>1. TotalPct \in Nat \ {0} /\ a \in Nat
  BY EffectiveTotalIsNat
<1>2. p \in Nat /\ p * TotalPct <= a /\ a < p * TotalPct + TotalPct
  BY <1>1, DivBounds
<1>3. q = p \/ (q = p - 1 /\ a % TotalPct = 0)
  BY DEF Floored
<1> SUFFICES a - q * TotalPct \in 0..2 * TotalPct - 1
  OBVIOUS
<1> HIDE DEF a, p
<1>4. CASE q = p
  BY <1>1, <1>2, <1>4
<1>5. CASE q = p - 1
  <2>1. q * TotalPct = p * TotalPct - TotalPct
    BY <1>1, <1>2, <1>5
  <2>2. p * TotalPct \in Nat
    BY <1>1, <1>2
  <2> QED BY <1>1, <1>2, <2>1, <2>2
<1> QED BY <1>3, <1>4, <1>5

\* Three numbers below three others whose sum they reach.
LEMMA Squeeze ==
  ASSUME NEW a \in Nat, NEW b \in Nat, NEW c \in Nat, NEW x \in Nat, NEW y \in Nat,
         NEW z \in Nat, a <= x, b <= y, c <= z, a + b + c >= x + y + z
  PROVE  a = x /\ b = y /\ c = z
OBVIOUS

LEMMA SharesFollow == SlotsInv => SharesUnlessResumed
<1> SUFFICES ASSUME SlotsInv, job.step = "done", stored # {}, \A r \in stored : r.call = 1
             PROVE  LET dated(s) == Cardinality({r \in stored :
                               r.at \in Start(started[1], s)..End(started[1], s)})
                        short(s, pct) == EffectiveTotal * pct - dated(s) * TotalPct
                    IN /\ dated(1) + dated(2) + dated(3) = EffectiveTotal
                       /\ short(1, HistoricalPct) \in 0..2 * TotalPct - 1
                       /\ short(2, 15) \in 0..2 * TotalPct - 1
  BY DEF SharesUnlessResumed
<1>1. RowsInv /\ FirstInv /\ Cardinality(stored) >= EffectiveTotal /\ IsFiniteSet(stored)
  BY DEF SlotsInv, DoneInv, RowsInv
<1>2. 1 \in 1..Len(started) /\ started[1] \in Clock
  <2>1. PICK r \in stored : TRUE
    OBVIOUS
  <2>2. 1 \in 1..Len(started)
    BY <1>1, <2>1 DEF RowsInv, Generated
  <2> QED BY <1>1, <2>2, ClockTimes
<1>3. 1 \in Segments /\ 2 \in Segments /\ 3 \in Segments
      /\ \A s \in Segments : s = 1 \/ s = 2 \/ s = 3
  BY DEF Segments
<1>4. ASSUME NEW s \in Segments
      PROVE  {r \in stored : r.at \in Start(started[1], s)..End(started[1], s)} = First(s)
  <2>1. \A r \in stored : /\ r.seg \in Segments /\ r.at \in Nat /\ r.call = 1
                          /\ r.at \in Start(started[1], r.seg)..End(started[1], r.seg)
    BY <1>1 DEF RowsInv, Generated, Rows
  <2>2. \A r \in stored : r.at \in Start(started[1], s)..End(started[1], s) => r.seg = s
    BY <1>2, <2>1, SegmentsAreDisjoint
  <2> QED BY <2>1, <2>2 DEF First
<1>5. /\ IsFiniteSet(First(1)) /\ IsFiniteSet(First(2)) /\ IsFiniteSet(First(3))
      /\ Cardinality(First(1)) \in Nat /\ Cardinality(First(2)) \in Nat
      /\ Cardinality(First(3)) \in Nat
      /\ Cardinality(stored)
            = Cardinality(First(1)) + Cardinality(First(2)) + Cardinality(First(3))
  <2>1. First(1) \subseteq stored /\ First(2) \subseteq stored /\ First(3) \subseteq stored
    BY DEF First
  <2>2. IsFiniteSet(First(1)) /\ IsFiniteSet(First(2)) /\ IsFiniteSet(First(3))
    BY <1>1, <2>1, FS_Subset
  <2>3. /\ Cardinality(First(1)) \in Nat /\ Cardinality(First(2)) \in Nat
        /\ Cardinality(First(3)) \in Nat
    BY <2>2, FS_CardinalityType
  <2>4. First(1) \cap First(2) = {} /\ (First(1) \cup First(2)) \cap First(3) = {}
    BY DEF First
  <2>5. stored = (First(1) \cup First(2)) \cup First(3)
    <3>1. \A r \in stored : r.seg \in Segments
      BY <1>1 DEF RowsInv, Generated, Rows
    <3> QED BY <1>3, <3>1 DEF First
  <2>6. /\ IsFiniteSet(First(1) \cup First(2))
        /\ Cardinality(First(1) \cup First(2)) = Cardinality(First(1)) + Cardinality(First(2))
              - Cardinality(First(1) \cap First(2))
    BY <2>2, FS_Union
  <2>7. Cardinality((First(1) \cup First(2)) \cup First(3))
           = Cardinality(First(1) \cup First(2)) + Cardinality(First(3))
             - Cardinality((First(1) \cup First(2)) \cap First(3))
    BY <2>2, <2>6, FS_Union
  <2>8. Cardinality({}) = 0
    BY FS_EmptySet
  <2>9. /\ Cardinality(First(1) \cap First(2)) = 0
        /\ Cardinality((First(1) \cup First(2)) \cap First(3)) = 0
    BY <2>4, <2>8
  <2>10. Cardinality(stored) = Cardinality((First(1) \cup First(2)) \cup First(3))
    BY <2>5
  <2> QED BY ONLY <2>2, <2>3, <2>6, <2>7, <2>9, <2>10
<1>6. PICK plan \in Splits(EffectiveTotal) :
         \A s \in Segments : Cardinality(First(s)) <= plan[s]
  BY <1>1 DEF FirstInv
<1>7. /\ plan[1] \in Nat /\ plan[2] \in Nat /\ plan[3] \in Nat
      /\ plan[1] + plan[2] + plan[3] = EffectiveTotal /\ EffectiveTotal \in Nat
      /\ TotalPct \in Nat /\ HistoricalPct \in Nat
  BY SplitsAreSums, EffectiveTotalIsNat
<1>8. /\ Cardinality(First(1)) = plan[1] /\ Cardinality(First(2)) = plan[2]
      /\ Cardinality(First(3)) = plan[3]
  <2>1. /\ Cardinality(First(1)) <= plan[1] /\ Cardinality(First(2)) <= plan[2]
        /\ Cardinality(First(3)) <= plan[3]
    BY <1>3, <1>6
  <2>2. Cardinality(First(1)) + Cardinality(First(2)) + Cardinality(First(3))
           >= plan[1] + plan[2] + plan[3]
    BY <1>1, <1>5, <1>7
  <2> DEFINE a == Cardinality(First(1))
             b == Cardinality(First(2))
             c == Cardinality(First(3))
  <2>3. a \in Nat /\ b \in Nat /\ c \in Nat
    BY <1>5
  <2>4. a <= plan[1] /\ b <= plan[2] /\ c <= plan[3] /\ a + b + c >= plan[1] + plan[2] + plan[3]
    BY <2>1, <2>2
  <2> SUFFICES a = plan[1] /\ b = plan[2] /\ c = plan[3]
    OBVIOUS
  <2> HIDE DEF a, b, c
  <2> QED BY <1>7, <2>3, <2>4, Squeeze
<1>9. plan[1] \in Floored(EffectiveTotal, HistoricalPct) /\ plan[2] \in Floored(EffectiveTotal, 15)
  BY <1>6 DEF Splits
<1>10. /\ EffectiveTotal * HistoricalPct - plan[1] * TotalPct \in 0..2 * TotalPct - 1
       /\ EffectiveTotal * 15 - plan[2] * TotalPct \in 0..2 * TotalPct - 1
  BY <1>7, <1>9, FlooredIsClose
<1> QED BY <1>3, <1>4, <1>7, <1>8, <1>10

\* The variables of the seeder of conversation items have their types, a batch is never
\* larger than seedBatchSize (conversations.ts:163-166), and every row is dated at a
\* time of the epoch and belongs to a call there was.
THEOREM TimesTypes == Spec => []TypeOK
<1>1. SlotsInv => TypeOK
  BY TypesFollow DEF SlotsInv
<1> QED BY <1>1, SlotsInvariant, PTL

\* For any segments, batch size and clock: a call that went through leaves no two
\* neighbouring slots of the recent and the fresh segment without a row, nor the last
\* one, among the rows of all its conversations (conversations.ts:50-53,161-170).
THEOREM WindowsStayPopulated == Spec => []WindowsArePopulated
BY SlotsInvariant, WindowsFollow, PTL

\* A tenant that one call has seeded alone has as many rows as configured, dated by the
\* configured shares, the historical and the recent one less than two rows short
\* (config.ts:36-40, conversations.ts:149-155).
THEOREM SharesAreKept == Spec => []SharesUnlessResumed
BY SlotsInvariant, SharesFollow, PTL
=============================================================================
