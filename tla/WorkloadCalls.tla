---------------------------- MODULE WorkloadCalls ----------------------------
(***************************************************************************)
(* The calls of the workload functions (src/src/workloads), between their  *)
(* awaits.  A read or W2 is one statement; W1 inserts the items of a new   *)
(* conversation one after the other (w1.ts); and every n-th read of a      *)
(* family is an EXPLAIN instead (explain.ts): wait for the output files,   *)
(* EXPLAIN and append to the log, append to the CSV.  The families share a *)
(* memoised promise that opens the files.  A call may throw at each await. *)
(***************************************************************************)
EXTENDS Naturals, Sequences, SequencesExt, Scenarios

CONSTANTS Users,    \* bound: virtual users of a scenario
          Every,    \* BENCH_EXPLAIN_EVERY, 0 for never
          Items     \* itemCount, the items of a W1 conversation

ASSUME CallsAssumption == Users \in Nat \ {0} /\ Every \in Nat /\ Items \in Nat \ {0}

VARIABLES counter,              \* qTimeCounter, qIdCounter, qConvCounter
          explainOutputReady,   \* the memoised promise
          at,                   \* what each user's call awaits
          kind,                 \* the workload it runs
          seq,                  \* the number a read has drawn; the items W1 has stored
          explainLog,           \* <<kind, seq>>, in the order they were appended
          explainCsv,           \* the same, and Header
          conversations         \* how many W1 conversations have all or a part of their
                                \* items in the table

explainFiles == <<explainLog, explainCsv>>
callVars     == <<counter, explainOutputReady, at, kind, seq, explainFiles, conversations>>

VUs     == 1..Users
Header  == <<"header", 0>>
Extents == {"part", "whole"}
Awaits  == {"idle", "query", "insert", "files", "log", "csv"}
Line(u) == <<kind[u], seq[u]>>
shouldExplain(n) == Every > 0 /\ n % Every = 0

CallsInit ==
    /\ counter = [k \in Reads |-> 0] /\ explainOutputReady = "none"
    /\ at = [u \in VUs |-> "idle"] /\ kind = [u \in VUs |-> "none"] /\ seq = [u \in VUs |-> 0]
    /\ explainLog = <<>> /\ explainCsv = <<>>
    /\ conversations = [e \in Extents |-> 0]

\* The users in the domain of draws call the workload drawn, one after the other, each
\* up to its first await; all others stay where they are, or stop if in `stopped`.
Call(draws, stopped) ==
    LET callers == DOMAIN draws
        earlier(u) == {v \in callers : v <= u /\ draws[v] = draws[u]}
        number(u) == IF draws[u] \in Reads THEN counter[draws[u]] + Cardinality(earlier(u)) ELSE 0
        explains(u) == draws[u] \in Reads /\ shouldExplain(number(u))
        awaits(u) == IF explains(u) THEN "files" ELSE IF draws[u] = "w1" THEN "insert" ELSE "query"
        Set(f, value(_), none) == [u \in VUs |-> IF u \in callers THEN value(u)
                                                 ELSE IF u \in stopped THEN none ELSE f[u]]
    IN /\ counter' = [k \in Reads |-> counter[k] + Cardinality({u \in callers : draws[u] = k})]
       /\ kind' = Set(kind, LAMBDA u : draws[u], "none")
       /\ seq' = Set(seq, number, 0)
       /\ at' = Set(at, awaits, "idle")
       /\ explainOutputReady' =
             IF explainOutputReady = "none" /\ \E u \in callers : explains(u)
             THEN "pending" ELSE explainOutputReady

\* The process is gone, with every call in progress; files and tables stay.
CallsEnd ==
    /\ counter' = [k \in Reads |-> 0] /\ explainOutputReady' = "none"
    /\ at' = [u \in VUs |-> "idle"] /\ kind' = [u \in VUs |-> "none"]
    /\ seq' = [u \in VUs |-> 0]
    /\ UNCHANGED <<explainFiles, conversations>>

\* ensureExplainOutput(): mkdir and the header line, once per process; a failure is
\* memoised as well.
OpenFiles ==
    /\ explainOutputReady = "pending"
    /\ \/ explainOutputReady' = "ready" /\ explainCsv' = Append(explainCsv, Header)
       \/ explainOutputReady' = "failed" /\ UNCHANGED explainCsv
    /\ UNCHANGED <<counter, at, kind, seq, explainLog, conversations>>

\* Mutant of FilesReady: the promise is not awaited.
FilesReadyUnawaited(u) ==
    /\ at[u] = "files"
    /\ at' = [at EXCEPT ![u] = "log"]
    /\ UNCHANGED <<counter, explainOutputReady, kind, seq, explainFiles, conversations>>

FilesReady(u) ==
    /\ at[u] = "files" /\ explainOutputReady = "ready"
    /\ at' = [at EXCEPT ![u] = "log"]
    /\ UNCHANGED <<counter, explainOutputReady, kind, seq, explainFiles, conversations>>

\* EXPLAIN ANALYZE VERBOSE is answered and its plan appended to the log.
LogAppended(u) ==
    /\ at[u] = "log"
    /\ at' = [at EXCEPT ![u] = "csv"]
    /\ explainLog' = Append(explainLog, Line(u))
    /\ UNCHANGED <<counter, explainOutputReady, kind, seq, explainCsv, conversations>>

\* Mutant of ItemStored: a refused insert is passed over.
ItemPassedOver(u) == UNCHANGED conversations

\* One more item of u's conversation is in the table.
Extent(n) == IF n = 0 THEN "nothing" ELSE IF n < Items THEN "part" ELSE "whole"
ItemStored(u) ==
    conversations' = [e \in Extents |-> conversations[e]
        + (IF e = Extent(seq[u] + 1) THEN 1 ELSE 0) - (IF e = Extent(seq[u]) THEN 1 ELSE 0)]

\* An insert of W1 that is not the last one is answered.
Inserted(u) ==
    /\ at[u] = "insert" /\ seq[u] + 1 < Items
    /\ ItemStored(u) /\ seq' = [seq EXCEPT ![u] = @ + 1]
    /\ UNCHANGED <<counter, explainOutputReady, at, kind, explainFiles>>

\* u's call returns: its statement was answered, or the CSV line was appended.
Returns(u) ==
    \/ at[u] = "query" /\ UNCHANGED <<explainFiles, conversations>>
    \/ at[u] = "insert" /\ seq[u] + 1 = Items /\ ItemStored(u) /\ UNCHANGED explainFiles
    \/ /\ at[u] = "csv" /\ explainCsv' = Append(explainCsv, Line(u))
       /\ UNCHANGED <<explainLog, conversations>>

\* Mutant of Throws: a failed initialisation leaves the memoised promise pending.
ThrowsButHangs(u) ==
    /\ at[u] \in Awaits \ {"idle", "files"}
    /\ UNCHANGED <<explainFiles, conversations>>

\* u's call throws: a file or the database refuses, though an insert may have been
\* executed nevertheless; or the files never opened.
Throws(u) ==
    /\ \/ at[u] \in Awaits \ {"idle", "files"}
       \/ at[u] = "files" /\ explainOutputReady = "failed"
    /\ UNCHANGED explainFiles
    /\ UNCHANGED conversations \/ (at[u] = "insert" /\ ItemStored(u))

CallStep == OpenFiles \/ \E u \in VUs : FilesReady(u) \/ LogAppended(u) \/ Inserted(u)

-----------------------------------------------------------------------------
CallsTypeOK ==
    /\ counter \in [Reads -> Nat]
    /\ explainOutputReady \in {"none", "pending", "ready", "failed"}
    /\ at \in [VUs -> Awaits] /\ kind \in [VUs -> Kinds \cup {"none"}] /\ seq \in [VUs -> Nat]
    /\ ToSet(explainLog) \subseteq Kinds \X Nat
    /\ ToSet(explainCsv) \subseteq (Kinds \X Nat) \cup {Header}
    /\ conversations \in [Extents -> Nat]

\* The files can be joined whatever the calls in progress: the CSV begins with its one
\* header line, no two of its rows have the same family and number, and each row belongs
\* to an explained call whose plan is in the log (explain.ts:47-105); the log may hold
\* plans of calls that failed afterwards.
ExplainFilesAgree ==
    /\ \A i \in 1..Len(explainCsv) : (explainCsv[i] = Header) <=> i = 1
    /\ IsInjective(explainCsv)
    /\ \A line \in ToSet(explainCsv) \ {Header} :
          line \in ToSet(explainLog) /\ shouldExplain(line[2])
=============================================================================
