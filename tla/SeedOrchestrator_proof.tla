------------------------ MODULE SeedOrchestrator_proof ------------------------
(***************************************************************************)
(* Proofs about SeedOrchestrator, for any number of tenants and workers:   *)
(* the slices cover the tenant list without overlapping, so exit codes of  *)
(* processes that each know only their slice add up to a statement about   *)
(* the whole list.                                                         *)
(***************************************************************************)
EXTENDS SeedOrchestrator, Integers, TLAPS

USE OrchestratorAssumption

LEMMA Division == ASSUME NEW a \in Nat, NEW b \in Nat \ {0}
                  PROVE  /\ a \div b \in Nat
                         /\ b * (a \div b) <= a
                         /\ a < b * (a \div b) + b
OBVIOUS

LEMMA TimesGrows == ASSUME NEW a \in Nat, NEW b \in Nat, NEW c \in Nat, a <= b
                    PROVE  a * c <= b * c
OBVIOUS

\* WorkerCount chunks hold the whole list.
LEMMA ChunksSuffice == ChunkSize \in Nat /\ TenantCount <= WorkerCount * ChunkSize
<1> DEFINE a == TenantCount + WorkerCount - 1
<1>1. a \in Nat /\ WorkerCount \in Nat \ {0}
  OBVIOUS
<1>2. /\ a \div WorkerCount \in Nat
      /\ a < WorkerCount * (a \div WorkerCount) + WorkerCount
  <2> HIDE DEF a
  <2> QED BY <1>1, Division
<1>3. ChunkSize = a \div WorkerCount
  BY DEF ChunkSize
<1>4. WorkerCount * ChunkSize \in Nat
  BY <1>1, <1>2, <1>3
<1> QED BY <1>1, <1>2, <1>3, <1>4

\* Every tenant is seeded by some worker (index.ts:118-124).
THEOREM SlicesCoverTenants == SlicesCover
<1> SUFFICES ASSUME NEW t \in Tenants PROVE \E w \in Indexes : t \in Slice(w)
  BY DEF SlicesCover
<1>1. t \in Nat /\ t < TenantCount
  BY DEF Tenants
<1>2. ChunkSize \in Nat \ {0} /\ TenantCount <= WorkerCount * ChunkSize
  <2>1. ChunkSize # 0
    BY <1>1, ChunksSuffice
  <2> QED BY <2>1, ChunksSuffice
<1> DEFINE w == t \div ChunkSize
<1>3. w \in Nat /\ ChunkSize * w <= t /\ t < ChunkSize * w + ChunkSize
  BY <1>1, <1>2, Division
<1> HIDE DEF w
<1>4. w * ChunkSize <= t /\ t < (w + 1) * ChunkSize
  BY <1>1, <1>2, <1>3
<1>5. w < WorkerCount
  <2> SUFFICES ASSUME WorkerCount <= w PROVE FALSE
    BY <1>3
  <2>1. WorkerCount * ChunkSize <= w * ChunkSize
    BY <1>2, <1>3, TimesGrows
  <2> QED BY <1>1, <1>2, <1>3, <1>4, <2>1
<1>6. w \in Indexes
  BY <1>3, <1>5 DEF Indexes
<1> QED BY <1>4, <1>6 DEF Slice

\* No tenant is seeded by two workers, whose counts would each miss the other's rows.
THEOREM SlicesNeverOverlap == SlicesDisjoint
<1> SUFFICES ASSUME NEW v \in Indexes, NEW w \in Indexes, v < w, NEW t \in Slice(v), t \in Slice(w)
             PROVE  FALSE
  <2>1. \A v, w \in Indexes : v # w => v < w \/ w < v
    BY DEF Indexes
  <2> QED BY <2>1 DEF SlicesDisjoint
<1>1. v \in Nat /\ w \in Nat /\ v + 1 <= w /\ ChunkSize \in Nat /\ t \in Nat
  BY ChunksSuffice DEF Indexes, Slice, Tenants
<1>2. (v + 1) * ChunkSize <= w * ChunkSize
  BY <1>1, TimesGrows
<1>3. t < (v + 1) * ChunkSize /\ w * ChunkSize <= t
  BY DEF Slice
<1>4. (v + 1) * ChunkSize \in Nat /\ w * ChunkSize \in Nat
  BY <1>1
<1> QED BY <1>1, <1>2, <1>3, <1>4

LEMMA InitInv == Init => OrchestratorInv
BY DEF Init, OrchestratorInv, TypeOK, WorkerInv, Ended, Kinds

\* The next phase of a worker, and what it has behind it then.
LEMMA AfterIs ==
    /\ \A k \in {"load"} \cup Kinds : After(k) \in Kinds \cup {"exit0"}
    /\ \A k \in {"load"} \cup Kinds : After(k) \in Kinds => After(k) \in Selected
    /\ After("load") = "items" => "spans" \notin Selected
    /\ After("load") = "exit0" => Selected = {}
    /\ After("spans") # "spans"
    /\ After("spans") = "exit0" => "items" \notin Selected
    /\ After("items") = "exit0"
    /\ Selected \subseteq Kinds
<1>1. After("load") = IF "spans" \in Selected THEN "spans"
                      ELSE IF "items" \in Selected THEN "items" ELSE "exit0"
  BY DEF After
<1>2. After("spans") = IF "items" \in Selected THEN "items" ELSE "exit0"
  BY DEF After
<1>3. After("items") = "exit0"
  BY DEF After
<1>4. Selected \subseteq Kinds
  BY DEF Selected
<1>5. After("load") = "exit0" => Selected = {}
  BY <1>1, <1>4 DEF Kinds
<1> QED BY <1>1, <1>2, <1>3, <1>4, <1>5 DEF Kinds

\* A step of worker w that changes its state to s, and at most adds seeded tenants.
LEMMA WorkerMoves ==
    ASSUME OrchestratorInv, NEW w \in Indexes, NEW s \in Kinds \cup Ended,
           worker[w] \notin Ended, worker' = [worker EXCEPT ![w] = s],
           UNCHANGED <<scenario, given, file, orch, seeded, invocations>>,
           s \in Kinds => s \in Selected,
           s = "items" /\ "spans" \in Selected => SliceSeeded(w, "spans"),
           s = "exit0" => \A k \in Selected : SliceSeeded(w, k)
    PROVE  OrchestratorInv'
<1>1. TypeOK'
  BY DEF OrchestratorInv, TypeOK
<1>2. Selected' = Selected
  BY DEF Selected
<1>3. \A v \in Indexes : worker'[v] = IF v = w THEN s ELSE worker[v]
  BY DEF OrchestratorInv, TypeOK
<1>4. \A v \in Indexes, k \in Kinds : SliceSeeded(v, k)' <=> SliceSeeded(v, k)
  BY DEF SliceSeeded
<1>5. Selected \subseteq Kinds
  BY AfterIs
<1>6. \A v \in Indexes : WorkerInv(v)'
  BY <1>2, <1>3, <1>4, <1>5 DEF OrchestratorInv, WorkerInv, Kinds
<1>7. orch' # "exit0"
  BY DEF OrchestratorInv, Ended
<1> QED BY <1>1, <1>6, <1>7 DEF OrchestratorInv

LEMMA LoadInv == ASSUME OrchestratorInv, NEW w \in Indexes, Load(w) PROVE OrchestratorInv'
<1> DEFINE s == IF given \/ file = "full" THEN After("load") ELSE "exit1"
<1>1. /\ worker[w] = "load" /\ worker' = [worker EXCEPT ![w] = s]
      /\ UNCHANGED <<scenario, given, file, orch, seeded, invocations>>
  BY DEF Load
<1>2. s \in Kinds \cup Ended
  BY AfterIs DEF Ended
<1>3. /\ s \in Kinds => s \in Selected
      /\ s = "items" /\ "spans" \in Selected => SliceSeeded(w, "spans")
      /\ s = "exit0" => \A k \in Selected : SliceSeeded(w, k)
  BY AfterIs DEF Kinds
<1> HIDE DEF s
<1> QED BY <1>1, <1>2, <1>3, WorkerMoves DEF Ended

LEMMA EndPhaseInv == ASSUME OrchestratorInv, NEW w \in Indexes, EndPhase(w) PROVE OrchestratorInv'
<1> DEFINE k == worker[w]
           s == After(k)
<1>1. /\ k \in Kinds /\ SliceSeeded(w, k) /\ worker' = [worker EXCEPT ![w] = s]
      /\ UNCHANGED <<scenario, given, file, orch, seeded, invocations>>
  BY DEF EndPhase, SliceSeeded
<1>2. s \in Kinds \cup Ended /\ (s \in Kinds => s \in Selected)
  BY <1>1, AfterIs DEF Ended
<1>3. k = "items" /\ "spans" \in Selected => SliceSeeded(w, "spans")
  BY DEF OrchestratorInv, WorkerInv
<1>4. s = "items" => k = "spans"
  BY <1>1, AfterIs DEF Kinds
<1>5. s = "exit0" => \A i \in Selected : SliceSeeded(w, i)
  BY <1>1, <1>3, AfterIs DEF Kinds
<1>6. worker[w] \notin Ended
  BY <1>1 DEF Kinds, Ended
<1> HIDE DEF k, s
<1> QED BY <1>1, <1>2, <1>4, <1>5, <1>6, WorkerMoves

LEMMA WorkerFailsInv ==
    ASSUME OrchestratorInv, NEW w \in Indexes, WorkerFails(w) PROVE OrchestratorInv'
<1>1. /\ worker[w] \notin Ended /\ worker' = [worker EXCEPT ![w] = "exit1"]
      /\ UNCHANGED <<scenario, given, file, orch, seeded, invocations>>
  BY DEF WorkerFails
<1>2. "exit1" \in Kinds \cup Ended /\ "exit1" \notin Kinds
  BY DEF Kinds, Ended
<1> QED BY <1>1, <1>2, WorkerMoves

LEMMA SeedTenantInv ==
    ASSUME OrchestratorInv, NEW w \in Indexes, NEW t \in Slice(w), SeedTenant(w, t)
    PROVE  OrchestratorInv'
<1>1. /\ worker[w] \in Kinds /\ seeded' = seeded \cup {<<worker[w], t>>} /\ t \in Tenants
      /\ UNCHANGED <<scenario, given, file, orch, worker, invocations>>
  BY DEF SeedTenant, Slice
<1>2. TypeOK'
  BY <1>1 DEF OrchestratorInv, TypeOK
<1>3. Selected' = Selected /\ \A v, k : SliceSeeded(v, k) => SliceSeeded(v, k)'
  BY <1>1 DEF Selected, SliceSeeded
<1>4. \A v \in Indexes : WorkerInv(v)'
  BY <1>1, <1>3 DEF OrchestratorInv, WorkerInv
<1> QED BY <1>1, <1>2, <1>4 DEF OrchestratorInv

\* The steps of the orchestrator and its operator, none of which needs more than the
\* shape of the state.
LEMMA OrchestratorSteps ==
    ASSUME OrchestratorInv,
           FileExists \/ BeginSave \/ EndSave \/ Join \/ Interrupt \/ Rerun
    PROVE  OrchestratorInv'
<1> USE DEF OrchestratorInv
<1>1. Indexes \subseteq Nat
  BY DEF Indexes
<1>2. CASE FileExists \/ EndSave
  <2>1. /\ worker' = [w \in Indexes |-> "load"] /\ orch' = "waiting" /\ TypeOK'
    BY <1>2 DEF FileExists, EndSave, Spawn, TypeOK
  <2> QED BY <2>1 DEF WorkerInv, Kinds
<1>3. CASE BeginSave
  <2>1. TypeOK' /\ orch' = "saving" /\ UNCHANGED <<worker, scenario, seeded>>
    BY <1>3 DEF BeginSave, TypeOK
  <2> QED BY <2>1 DEF WorkerInv, Selected, SliceSeeded
<1>4. CASE Join
  <2>1. /\ UNCHANGED <<scenario, given, file, worker, seeded, invocations>>
        /\ orch' = IF \E w \in Indexes : worker[w] # "exit0" THEN "exit1" ELSE "exit0"
    BY <1>4 DEF Join
  <2>2. TypeOK' /\ \A w \in Indexes : WorkerInv(w)'
    BY <2>1 DEF TypeOK, WorkerInv, Selected, SliceSeeded
  <2> QED BY <2>1, <2>2
<1>5. CASE Interrupt
  <2>1. /\ UNCHANGED <<scenario, given, file, seeded, invocations>> /\ orch' = "exit1"
        /\ worker' = [w \in Indexes |-> IF worker[w] \in Ended THEN worker[w] ELSE "exit1"]
    BY <1>5 DEF Interrupt
  <2>2. TypeOK'
    BY <2>1 DEF TypeOK, Ended
  <2>3. \A w \in Indexes : WorkerInv(w)'
    BY <2>1 DEF WorkerInv, Selected, SliceSeeded, Kinds, Ended
  <2> QED BY <2>1, <2>2, <2>3
<1>6. CASE Rerun
  <2>1. TypeOK' /\ orch' = "start" /\ worker' = [w \in Indexes |-> "none"]
    BY <1>6 DEF Rerun, TypeOK, Ended
  <2> QED BY <2>1 DEF WorkerInv, Kinds
<1> QED BY <1>2, <1>3, <1>4, <1>5, <1>6

LEMMA NextInv == OrchestratorInv /\ [Next]_vars => OrchestratorInv'
<1> SUFFICES ASSUME OrchestratorInv, [Next]_vars PROVE OrchestratorInv'
  OBVIOUS
<1>1. CASE FileExists \/ BeginSave \/ EndSave \/ Join \/ Interrupt \/ Rerun
  BY <1>1, OrchestratorSteps
<1>2. ASSUME NEW w \in Indexes, WorkerStep(w) \/ WorkerFails(w) PROVE OrchestratorInv'
  BY <1>2, LoadInv, EndPhaseInv, SeedTenantInv, WorkerFailsInv DEF WorkerStep
<1>3. CASE UNCHANGED vars
  <2>1. UNCHANGED <<scenario, given, file, orch, worker, seeded, invocations>>
    BY <1>3 DEF vars
  <2> QED BY <2>1 DEF OrchestratorInv, TypeOK, WorkerInv, Selected, SliceSeeded
<1> QED BY <1>1, <1>2, <1>3 DEF Next

\* Exit code 0 means that every tenant of the list is seeded in every selected table,
\* for any number of tenants, workers and invocations (index.ts:77-146).
THEOREM ExitZeroIsHonest == Spec => []ExitZeroMeansSeeded
<1>1. Init => OrchestratorInv
  BY InitInv
<1>2. OrchestratorInv /\ [Next]_vars => OrchestratorInv'
  BY NextInv
<1>3. OrchestratorInv => ExitZeroMeansSeeded
  <2> SUFFICES ASSUME OrchestratorInv, orch = "exit0", NEW k \in Selected, NEW t \in Tenants
               PROVE  <<k, t>> \in seeded
    BY DEF ExitZeroMeansSeeded
  <2>1. PICK w \in Indexes : t \in Slice(w)
    BY SlicesCoverTenants DEF SlicesCover
  <2>2. SliceSeeded(w, k)
    BY DEF OrchestratorInv, WorkerInv
  <2> QED BY <2>1, <2>2 DEF SliceSeeded
<1> QED BY <1>1, <1>2, <1>3, PTL DEF Spec
=============================================================================
