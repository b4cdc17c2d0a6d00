------------------------------ MODULE SeedTimes ------------------------------
(***************************************************************************)
(* When the conversation items of one tenant are dated, and to which       *)
(* conversation they belong: seedItemsForTenant and the functions it calls *)
(* (src/src/seed/conversations.ts:50-96,117-199), with the conversation    *)
(* pools of src/src/workloads/helpers.ts:1-10 that the workloads read by.  *)
(* The worker may be killed anywhere and be run again later: then `now` is *)
(* another, the conversation anchors are drawn anew, and what is missing   *)
(* is spread over all three segments again.  A batch is stored at once     *)
(* here; lost and late requests are in Seeder.                             *)
(***************************************************************************)
EXTENDS SeedShares, Integers, FiniteSets, Sequences, SequencesExt

CONSTANTS ConversationsPerTenant,
          BatchSize,    \* config.seedBatchSize
          From, To,     \* how long before now each segment begins and ends
          HalfWindow,   \* SESSION_HALF_WINDOW_MS
          Clock,        \* the times a worker can be started at
          MaxRuns       \* bound: how often the worker is run

Length(s) == From[s] - To[s]

ASSUME TimesAssumption ==
    /\ ConversationsPerTenant \in Nat \ {0} /\ BatchSize \in Nat \ {0}
    /\ HalfWindow \in Nat \ {0} /\ MaxRuns \in Nat \ {0}
    /\ From \in [Segments -> Nat] /\ To \in [Segments -> Nat]
    /\ \A s \in Segments : Length(s) > 0 /\ Length(s) % 2 = 0
    /\ To[1] > From[2] /\ To[2] > From[3] /\ To[3] = 0
    /\ \A c \in Clock : c \in Nat /\ c >= From[1]

VARIABLES started,    \* the clock readings of the runs so far; the last is `now`
          anchors,    \* where the conversations of the clustered pool are anchored
          job,        \* the local variables of seedItemsForTenant
          batch,      \* the rows of the batch being generated
          stored      \* the rows in the table

vars == <<started, anchors, job, batch, stored>>

Start(base, s) == base - From[s]
End(base, s)   == base - To[s]

\* sessionPad
Pad(s) == LET half == Length(s) \div 2 IN IF HalfWindow < half THEN HalfWindow ELSE half

\* pickConversationIndex: the indices of each pool.
Half      == ConversationsPerTenant \div 2
Clustered == IF Half = 0 THEN {0} ELSE 0..Half - 1

\* Mutant of Scattered: drawn from all conversations.
ScatteredAnywhere == 0..ConversationsPerTenant - 1

Scattered == Half..ConversationsPerTenant - 1

\* The times an anchor is drawn from, Pad away from both ends of the segment.
AnchorTimes(base, s) ==
    LET first == Start(base, s) + Pad(s)
        last  == End(base, s) - Pad(s)
    IN IF first = last THEN {first} ELSE first..last - 1

\* buildConversationAnchors: conversations are dealt to the segments by their index,
\* the first h to the historical one and the next r to the recent one.  Only the
\* anchors of the clustered pool are ever read.
buildConversationAnchors(base) ==
    UNION {{a \in [Clustered -> base - From[1]..base] :
               \A i \in Clustered : a[i] \in AnchorTimes(base,
                   IF i < h THEN 1 ELSE IF i < h + r THEN 2 ELSE 3)} :
           h \in Floored(ConversationsPerTenant, HistoricalPct),
           r \in Floored(ConversationsPerTenant, 15)}

Clamp(base, s, t) ==
    IF t < Start(base, s) THEN Start(base, s) ELSE IF t > End(base, s) THEN End(base, s) ELSE t

\* itemTimestampForConversation: within Pad of the anchor, clamped to the segment.
ItemTimes(base, s, anchor) == {Clamp(base, s, anchor + d) : d \in 0 - Pad(s)..Pad(s)}

\* stratifiedTimestamp, cut to a whole unit: a time in one of `total` equal slots.
SlotTimes(base, s, slot, total) ==
    {t \in Start(base, s)..End(base, s) :
        /\ t - Start(base, s) >= (slot * Length(s)) \div total
        /\ (t - Start(base, s)) * total < (slot + 1) * Length(s)}

\* Only the historical segment has items of the clustered pool.
ClusteredOk(s) == s = 1

Exited(how) == [step |-> how, plan |-> [s \in Segments |-> 0], seg |-> 1, segInserted |-> 0]

\* The loop goes on with the first segment from s on that has rows, or is over.
Enter(plan, s) ==
    \E k \in s..4 :
        /\ \A i \in s..k - 1 : plan[i] = 0
        /\ \/ k = 4 /\ job' = Exited("done")
           \/ /\ k < 4 /\ plan[k] > 0
              /\ job' = [step |-> "rows", plan |-> plan, seg |-> k, segInserted |-> 0]

\* seedItemsForTenant up to its loop: the table is counted and, unless the tenant is
\* full, the anchors are drawn and what is missing is split.
Begin(base) ==
    /\ anchors' \in buildConversationAnchors(base)
    /\ batch' = {}
    /\ LET missing == EffectiveTotal - Cardinality(stored)
       IN IF missing <= 0 THEN job' = Exited("done")
          ELSE \E plan \in Splits(missing) : Enter(plan, 1)

Init ==
    /\ started = <<>> /\ batch = {} /\ stored = {}
    /\ anchors = [i \in Clustered |-> 0] /\ job = Exited("new")

\* The worker is started, for the first time or again after it ended.
Run(base) ==
    /\ job.step # "rows" /\ Len(started) < MaxRuns
    /\ started # <<>> => base >= Last(started)
    /\ started' = Append(started, base)
    /\ Begin(base)
    /\ UNCHANGED stored

now  == Last(started)
call == Len(started)

\* Mutant of Slot: counted from the beginning of the batch.
SlotInBatch == Cardinality(batch)

\* The slot of the next row: segInserted + i
Slot == job.segInserted + Cardinality(batch)

\* Mutant of Room: one row too many.
RoomForOneMore == /\ Cardinality(batch) <= BatchSize
                  /\ job.segInserted + Cardinality(batch) < job.plan[job.seg]

\* batchCount: the batch is filled up unless the segment ends before.
Room == /\ Cardinality(batch) < BatchSize
        /\ job.segInserted + Cardinality(batch) < job.plan[job.seg]

\* A row is generated: its pool, its conversation and its timestamp.
Generate ==
    /\ job.step = "rows" /\ Room
    /\ LET s == job.seg
           Row(c, t) == [conversation |-> c, at |-> t, call |-> call, seg |-> s,
                         nth |-> job.segInserted + Cardinality(batch)]
       IN \/ /\ ClusteredOk(s)
             /\ \E c \in Clustered : \E t \in ItemTimes(now, s, anchors[c]) :
                   batch' = batch \cup {Row(c, t)}
          \/ \E c \in Scattered, t \in SlotTimes(now, s, Slot, job.plan[s]) :
                batch' = batch \cup {Row(c, t)}
    /\ UNCHANGED <<started, anchors, job, stored>>

Written ==
    /\ stored' = stored \cup batch /\ batch' = {}
    /\ LET n == job.segInserted + Cardinality(batch)
       IN IF n < job.plan[job.seg] THEN job' = [job EXCEPT !.segInserted = n]
          ELSE Enter(job.plan, job.seg + 1)
    /\ UNCHANGED started

\* Mutant of Write: the anchors are drawn for each batch.
WriteRedraws ==
    /\ job.step = "rows" /\ ~Room /\ Written
    /\ anchors' \in buildConversationAnchors(now)

\* lpWriteBatch: the batch is stored and counted.
Write ==
    /\ job.step = "rows" /\ ~Room /\ Written
    /\ UNCHANGED anchors

\* The process dies; the batch it generated is lost, the table stays.
Crash ==
    /\ job.step = "rows"
    /\ job' = Exited("killed") /\ batch' = {}
    /\ UNCHANGED <<started, anchors, stored>>

Next == Generate \/ Write \/ Crash \/ \E base \in Clock : Run(base)

Spec == Init /\ [][Next]_vars

-----------------------------------------------------------------------------
Rows == [conversation : 0..ConversationsPerTenant - 1, at : Nat, call : 1..MaxRuns,
         seg : Segments, nth : Nat]

TypeOK ==
    /\ started \in Seq(Clock) /\ Len(started) <= MaxRuns
    /\ anchors \in [Clustered -> Nat]
    /\ job.step \in {"new", "rows", "done", "killed"}
    /\ job.seg \in Segments /\ job.plan \in [Segments -> Nat]
    /\ batch \subseteq Rows /\ stored \subseteq Rows
    /\ Cardinality(batch) <= BatchSize

\* The rows that q-time.ts, qTimeS2 (and the probe after W1, scenarios.ts:49-63,86) asks
\* for at time t: those of one conversation in a recent window.
qTimeS2(conversation, t, window) ==
    {r \in stored : r.conversation = conversation /\ r.at > t - window}

\* What one call of the seeder puts into a conversation of the clustered pool is one
\* session: all within twice the window around an anchor, however many batches it takes
\* and however it is interrupted, and none in another segment (conversations.ts:46-51,
\* 92-97,139-144).
SessionPerCall ==
    \A r, q \in stored : r.conversation \in Clustered /\ q.conversation = r.conversation
                         /\ q.call = r.call
        => r.at - q.at <= 2 * Pad(1) /\ r.at <= End(started[r.call], 1)

\* A finished call leaves no two neighbouring slots of the recent and the fresh segment
\* empty, nor the last one, whatever the batch boundaries (conversations.ts:50-53,161-170).
\* The slots are those of all the call's rows: of a single conversation, which is what
\* qTimeS2 asks for, a window may still be empty, since each row draws its conversation.
WindowsArePopulated ==
    job.step = "done" => \A s \in {2, 3} :
        LET mine == {r \in stored : r.call = call /\ r.seg = s}
            slot == (Length(s) - 1) \div Cardinality(mine) + 1
            Populated(from, to) == \E r \in mine : r.at \in from..to
        IN mine # {} =>
               /\ \A t \in Start(now, s)..End(now, s) - 2 * slot : Populated(t, t + 2 * slot)
               /\ Populated(End(now, s) - slot, End(now, s))

\* A tenant that one call has seeded has its rows dated by the configured shares, the
\* historical and the recent one at most two rows short (config.ts:36-40,
\* conversations.ts:149-155).  README.md:209 promises it of all tenants, which holds
\* only as long as no seeding is resumed.
SharesUnlessResumed ==
    job.step = "done" /\ stored # {} /\ (\A r \in stored : r.call = 1) =>
        LET dated(s) == Cardinality({r \in stored :
                            r.at \in Start(started[1], s)..End(started[1], s)})
            short(s, pct) == EffectiveTotal * pct - dated(s) * TotalPct
        IN /\ dated(1) + dated(2) + dated(3) = EffectiveTotal
           /\ short(1, HistoricalPct) \in 0..2 * TotalPct - 1
           /\ short(2, 15) \in 0..2 * TotalPct - 1

\* No time-range query over the last seven days ever returns an item of the clustered
\* pool, whatever was resumed: half of the conversations that qTimeS2 draws, and the
\* one that the probe after W1 reads, have nothing there (q-time.ts:96-99).
ClusteredAreOld ==
    started # <<>> => \A c \in Clustered : qTimeS2(c, now, From[3]) = {}

\* "items seeded within +-48h of a single anchor (single-session)" (helpers.ts:2).
SingleSession ==
    \A r, q \in stored : r.conversation \in Clustered /\ q.conversation = r.conversation
        => r.at - q.at <= 2 * Pad(1)
=============================================================================
