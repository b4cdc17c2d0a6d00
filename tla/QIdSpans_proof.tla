---------------------------- MODULE QIdSpans_proof ----------------------------
(***************************************************************************)
(* Proofs about QIdSpans: QIdInv is inductive for any number of virtual    *)
(* users, tenants, rows and strategies and any page size, so no            *)
(* interleaving of calls makes a cursor jump over seeded rows.             *)
(***************************************************************************)
EXTENDS QIdSpans, FiniteSetTheorems, WellFoundedInduction, TLAPS

-----------------------------------------------------------------------------
(* What a page is: the upper end of the rows that match, and empty only when *)
(* none does.                                                                *)

\* A set of finite sets of numbers has a member that no other one is a part of.
LEMMA SmallestSet ==
  ASSUME NEW F, F # {}, \A T \in F : T \in SUBSET Nat /\ IsFiniteSet(T)
  PROVE  \E T \in F : \A U \in F : U \subseteq T => U = T
<1>1. F \subseteq FiniteSubsetsOf(Nat)
  BY DEF FiniteSubsetsOf
<1>2. \E T \in F : \A U \in F : <<U, T>> \notin StrictSubsetOrdering(Nat)
  BY <1>1, WFMin, FS_StrictSubsetOrderingWellFounded
<1> QED BY <1>2 DEF StrictSubsetOrdering

LEMMA LeastExists ==
  ASSUME NEW S \in SUBSET Nat, S # {}
  PROVE  \E x \in S : \A y \in S : x <= y
<1> DEFINE F == {0..x : x \in S}
<1>1. ASSUME NEW T \in F PROVE T \in SUBSET Nat /\ IsFiniteSet(T)
  <2>1. PICK x \in S : T = 0..x
    OBVIOUS
  <2>2. 0 \in Int /\ x \in Int
    OBVIOUS
  <2>3. IsFiniteSet(0..x)
    BY <2>2, FS_Interval
  <2> QED BY <2>1, <2>3
<1>0. F # {}
  OBVIOUS
<1> HIDE DEF F
<1>2. PICK T \in F : \A U \in F : U \subseteq T => U = T
  BY <1>0, <1>1, SmallestSet
<1>3. PICK x \in S : T = 0..x
  BY DEF F
<1>4. ASSUME NEW y \in S, y < x PROVE FALSE
  <2>1. 0..y \in F /\ 0..y \subseteq 0..x /\ x \in 0..x /\ x \notin 0..y
    BY <1>4 DEF F
  <2> QED BY <1>2, <1>3, <2>1
<1> QED BY <1>4

LEMMA MinIsMember ==
  ASSUME NEW S \in SUBSET Nat, S # {}
  PROVE  Min(S) \in S
BY LeastExists DEF Min

\* The rows above a row of a finite set.
Above(S, r) == {q \in S : q > r}

LEMMA AboveFacts ==
  ASSUME NEW S \in SUBSET Nat, IsFiniteSet(S), NEW r \in S
  PROVE  /\ IsFiniteSet(Above(S, r)) /\ Cardinality(Above(S, r)) \in Nat
         /\ \A q \in S : q >= r => /\ Above(S, q) \subseteq Above(S, r)
                                   /\ Cardinality(Above(S, q)) <= Cardinality(Above(S, r))
<1>1. Above(S, r) \in SUBSET S
  BY DEF Above
<1>2. IsFiniteSet(Above(S, r)) /\ Cardinality(Above(S, r)) \in Nat
  BY <1>1, FS_Subset, FS_CardinalityType
<1>3. ASSUME NEW q \in S, q >= r PROVE Above(S, q) \in SUBSET Above(S, r)
  <2>1. ASSUME NEW x \in S, x > q PROVE x > r
    <3>1. x \in Nat /\ q \in Nat /\ r \in Nat
      OBVIOUS
    <3> QED BY <1>3, <2>1, <3>1
  <2> QED BY <2>1 DEF Above
<1> QED BY <1>2, <1>3, FS_Subset

LEMMA GreatestExists ==
  ASSUME NEW S \in SUBSET Nat, IsFiniteSet(S), S # {}
  PROVE  \E x \in S : Above(S, x) = {}
<1> DEFINE F == {Above(S, x) : x \in S}
<1>1. ASSUME NEW T \in F PROVE T \in SUBSET Nat /\ IsFiniteSet(T)
  <2>1. PICK x \in S : T = Above(S, x)
    OBVIOUS
  <2> QED BY <2>1, AboveFacts DEF Above
<1>0. F # {}
  OBVIOUS
<1> HIDE DEF F
<1>2. PICK T \in F : \A U \in F : U \subseteq T => U = T
  BY <1>0, <1>1, SmallestSet
<1>3. PICK x \in S : T = Above(S, x)
  BY DEF F
<1>4. ASSUME NEW y \in S, y > x PROVE FALSE
  <2>1. Above(S, y) \subseteq Above(S, x)
    BY <1>4, y >= x, AboveFacts
  <2>2. y \in Above(S, x) /\ y \notin Above(S, y)
    BY <1>4 DEF Above
  <2>3. Above(S, y) \in F
    BY DEF F
  <2> QED BY <1>2, <1>3, <2>1, <2>2, <2>3
<1> QED BY <1>4 DEF Above

LEMMA MaxIsMember ==
  ASSUME NEW S \in SUBSET Nat, IsFiniteSet(S), S # {}
  PROVE  Max(S) \in S
<1>1. PICK x \in S : Above(S, x) = {}
  BY GreatestExists
<1>2. \A y \in S : x >= y
  BY <1>1 DEF Above
<1> QED BY <1>2 DEF Max

\* A page holds what matches from its lowest row on, and everything when it is empty.
LEMMA PageIsClosed ==
  ASSUME NEW all \in SUBSET Rows, IsFiniteSet(all), NEW from \in Nat,
         NEW q \in Matching(all, from), Page(all, from) = {} \/ \E r \in Page(all, from) : q >= r
  PROVE  q \in Page(all, from)
<1> DEFINE m == Matching(all, from)
<1>1. m \in SUBSET all
  BY DEF Matching
<1>2. m \in SUBSET Nat /\ IsFiniteSet(m)
  BY <1>1, FS_Subset DEF Rows
<1>3. Page(all, from) = {r \in m : Cardinality(Above(m, r)) < PageSize}
  BY DEF Page, Above
<1> HIDE DEF m
<1>4. CASE Page(all, from) = {}
  <2>1. PICK x \in m : Above(m, x) = {}
    BY <1>2, GreatestExists DEF m
  <2>2. Cardinality(Above(m, x)) = 0
    BY <2>1, FS_EmptySet
  <2>3. x \in Page(all, from)
    BY <1>3, <2>1, <2>2, PageAssumption
  <2> QED BY <1>4, <2>3
<1>5. ASSUME NEW r \in Page(all, from), q >= r PROVE q \in Page(all, from)
  <2>1. q \in m /\ r \in m /\ Cardinality(Above(m, r)) < PageSize
    BY <1>3 DEF m
  <2>2. /\ Cardinality(Above(m, q)) <= Cardinality(Above(m, r))
        /\ Cardinality(Above(m, q)) \in Nat /\ Cardinality(Above(m, r)) \in Nat
    BY <1>2, <1>5, <2>1, AboveFacts
  <2>3. Cardinality(Above(m, q)) < PageSize
    BY <2>1, <2>2, PageAssumption
  <2> QED BY <1>3, <2>1, <2>3
<1> QED BY <1>4, <1>5

-----------------------------------------------------------------------------
(* The invariant. *)

LEMMA QIdInit == Init => QIdInv
<1> SUFFICES ASSUME Init PROVE QIdInv
  OBVIOUS
<1> USE QIdAssumption DEF Init, NoCursor
<1>1. TypeOK
  BY DEF TypeOK, Calls, Idle, Rows
<1>2. TablesAreFinite
  BY DEF TablesAreFinite
<1>3. CursorCoversPrefix
  BY DEF CursorCoversPrefix, Covered
<1>4. CallsCover
  BY DEF CallsCover, Idle
<1> QED BY <1>1, <1>2, <1>3, <1>4 DEF QIdInv

LEMMA BeginKeeps ==
  ASSUME QIdInv, NEW v \in VUs, NEW t \in Tenants, Begin(v, t)
  PROVE  QIdInv'
<1> USE DEF QIdInv, Begin
<1>1. TypeOK'
  BY DEF TypeOK, Calls, Idle
<1>2. TablesAreFinite'
  BY DEF TablesAreFinite
<1>3. CursorCoversPrefix'
  BY DEF CursorCoversPrefix, Covered
<1>4. CallsCover'
  BY DEF CallsCover, Covered, CursorCoversPrefix, TypeOK
<1> QED BY <1>1, <1>2, <1>3, <1>4

LEMMA ExecuteKeeps ==
  ASSUME QIdInv, NEW v \in VUs, Execute(v)
  PROVE  QIdInv'
<1> USE DEF QIdInv, Execute
<1> DEFINE t == call[v].tenant
           cursor == call[v].cursor
           p == Page(table[t], cursor)
<1>1. call[v] \in [at : {"sent"}, tenant : Tenants, cursor : Nat]
  BY DEF TypeOK, Calls, Idle
<1>2. t \in Tenants /\ cursor \in Nat /\ table[t] \in SUBSET Rows /\ IsFiniteSet(table[t])
  BY <1>1 DEF TypeOK, TablesAreFinite
<1>3. p \in SUBSET Rows
  BY <1>2 DEF Page, Matching
<1>4. call' = [call EXCEPT ![v] = [at |-> "answered", tenant |-> t, rows |-> p]]
  OBVIOUS
<1>5. TypeOK'
  BY <1>2, <1>3, <1>4 DEF TypeOK, Calls
<1>6. TablesAreFinite' /\ CursorCoversPrefix'
  BY DEF TablesAreFinite, CursorCoversPrefix, Covered
<1>7. ASSUME strategy = 1, NEW q \in Seeded[1][t], p = {} \/ \E r \in p : q >= r
      PROVE  q \in served[t] \cup p
  <2>1. q \in table[t] /\ Covered(t, cursor)
    BY <1>1, <1>2, <1>7 DEF CallsCover
  <2>2. CASE q \in Matching(table[t], cursor)
    BY <1>2, <1>7, <2>2, PageIsClosed
  <2>3. CASE q \notin Matching(table[t], cursor)
    <3>1. cursor # NoCursor /\ q >= cursor
      BY <1>2, <2>1, <2>3 DEF Matching, Rows
    <3> QED BY <2>1, <3>1 DEF Covered
  <2> QED BY <2>2, <2>3
<1>8. CallsCover'
  BY <1>2, <1>4, <1>7 DEF CallsCover, Covered, TypeOK
<1> QED BY <1>5, <1>6, <1>8

LEMMA ReturnKeeps ==
  ASSUME QIdInv, NEW v \in VUs, Return(v)
  PROVE  QIdInv'
<1> USE DEF QIdInv, Return
<1> DEFINE t == call[v].tenant
           p == call[v].rows
           c == IF p # {} THEN Min(p) ELSE NoCursor
<1>1. call[v] \in [at : {"answered"}, tenant : Tenants, rows : SUBSET Rows]
  BY DEF TypeOK, Calls, Idle
<1>2. t \in Tenants /\ p \in SUBSET Nat
  BY <1>1 DEF Rows
<1>3. p # {} => c \in p
  BY <1>2, MinIsMember
<1>4. /\ spansCursors' = [spansCursors EXCEPT ![t] = c]
      /\ served' = [served EXCEPT ![t] = @ \cup p]
      /\ call' = [call EXCEPT ![v] = Idle]
  OBVIOUS
<1>5. TypeOK'
  BY <1>1, <1>2, <1>3, <1>4 DEF TypeOK, Calls, NoCursor
<1>6. TablesAreFinite'
  BY DEF TablesAreFinite
<1>7. \A u \in Tenants : served[u] \subseteq served'[u]
  BY <1>2, <1>4 DEF TypeOK
<1>8. ASSUME strategy = 1, NEW u \in Tenants PROVE Covered(u, spansCursors[u])'
  <2>1. CASE u # t
    BY <1>2, <1>4, <1>7, <1>8, <2>1 DEF CursorCoversPrefix, Covered, TypeOK
  <2>2. CASE u = t /\ p # {}
    <3>1. spansCursors'[t] = c /\ served'[t] = served[t] \cup p
      BY <1>2, <1>4 DEF TypeOK
    <3>2. \A q \in Seeded[1][t] : q >= c => q \in served[t] \cup p
      BY <1>1, <1>3, <1>8, <2>2 DEF CallsCover
    <3> QED BY <2>2, <3>1, <3>2 DEF Covered
  <2>3. CASE u = t /\ p = {}
    BY <1>2, <1>4, <2>3 DEF Covered, TypeOK
  <2> QED BY <2>1, <2>2, <2>3
<1>9. CursorCoversPrefix'
  BY <1>8 DEF CursorCoversPrefix
<1>10. CallsCover'
  BY <1>4, <1>7 DEF CallsCover, Covered, TypeOK, Idle, Calls
<1> QED BY <1>5, <1>6, <1>9, <1>10

\* A call that only explains, or fails, changes nothing but itself.
LEMMA FailKeeps ==
  ASSUME QIdInv, NEW v \in VUs, Explained(v) \/ Fail(v)
  PROVE  QIdInv'
<1> USE DEF QIdInv, Explained, Fail
<1>1. TypeOK'
  <2>1. errors' \in 0..MaxErrors
    BY QIdAssumption DEF TypeOK
  <2>2. call' \in [VUs -> Calls]
    BY DEF TypeOK, Calls
  <2> QED BY <2>1, <2>2 DEF TypeOK
<1>2. TablesAreFinite' /\ CursorCoversPrefix'
  BY DEF TablesAreFinite, CursorCoversPrefix, Covered
<1>3. CallsCover'
  BY DEF CallsCover, Covered, TypeOK, Idle
<1> QED BY <1>1, <1>2, <1>3

LEMMA InsertKeeps ==
  ASSUME QIdInv, NEW t \in Tenants, Insert(t)
  PROVE  QIdInv'
<1> USE DEF QIdInv, Insert
<1> DEFINE new == Max(table[t] \cup {0}) + 1
<1>1. table[t] \in SUBSET Nat /\ IsFiniteSet(table[t])
  BY DEF TypeOK, TablesAreFinite, Rows
<1>2. table[t] \cup {0} \in SUBSET Nat /\ IsFiniteSet(table[t] \cup {0})
  BY <1>1, FS_AddElement
<1>3. Max(table[t] \cup {0}) \in Nat
  BY <1>2, MaxIsMember
<1>4. new \in Rows
  BY <1>3 DEF Rows
<1>5. table' = [table EXCEPT ![t] = @ \cup {new}]
  OBVIOUS
<1> HIDE DEF new
<1>6. TypeOK'
  <2>1. inserts' \in 0..MaxInserts
    BY QIdAssumption DEF TypeOK
  <2>2. table' \in [Tenants -> SUBSET Rows]
    BY <1>4, <1>5 DEF TypeOK
  <2>3. UNCHANGED <<spansCursors, call, strategy, errors, served>>
    OBVIOUS
  <2> QED BY <2>1, <2>2, <2>3 DEF TypeOK
<1>7. IsFiniteSet(table[t] \cup {new})
  BY <1>1, FS_AddElement
<1>8. TablesAreFinite'
  BY <1>5, <1>7 DEF TablesAreFinite, TypeOK
<1>9. \A u \in Tenants : table[u] \subseteq table'[u]
  BY <1>5 DEF TypeOK
<1>10. CursorCoversPrefix'
  BY DEF CursorCoversPrefix, Covered
<1>11. CallsCover'
  BY <1>9 DEF CallsCover, Covered
<1> QED BY <1>6, <1>8, <1>10, <1>11

LEMMA NextStrategyKeeps ==
  ASSUME QIdInv, NextStrategy
  PROVE  QIdInv'
<1> USE DEF QIdInv, NextStrategy
<1>1. strategy + 1 \in 1..Strategies /\ strategy' # 1
  BY QIdAssumption DEF TypeOK
<1>2. TypeOK'
  BY <1>1, QIdAssumption DEF TypeOK, Rows
<1>3. TablesAreFinite'
  BY <1>1, QIdAssumption DEF TablesAreFinite
<1>4. CursorCoversPrefix' /\ CallsCover'
  BY <1>1 DEF CursorCoversPrefix, CallsCover
<1> QED BY <1>2, <1>3, <1>4

LEMMA QIdNext == QIdInv /\ [Next]_vars => QIdInv'
<1> SUFFICES ASSUME QIdInv, [Next]_vars PROVE QIdInv'
  OBVIOUS
<1>1. ASSUME NEW v \in VUs, NEW t \in Tenants, Begin(v, t) PROVE QIdInv'
  BY <1>1, BeginKeeps
<1>2. ASSUME NEW v \in VUs, Execute(v) PROVE QIdInv'
  BY <1>2, ExecuteKeeps
<1>3. ASSUME NEW v \in VUs, Return(v) PROVE QIdInv'
  BY <1>3, ReturnKeeps
<1>4. ASSUME NEW v \in VUs, Explained(v) \/ Fail(v) PROVE QIdInv'
  BY <1>4, FailKeeps
<1>5. ASSUME NEW t \in Tenants, Insert(t) PROVE QIdInv'
  BY <1>5, InsertKeeps
<1>6. CASE NextStrategy
  BY <1>6, NextStrategyKeeps
<1>7. CASE UNCHANGED vars
  BY <1>7 DEF QIdInv, vars, TypeOK, TablesAreFinite, CursorCoversPrefix, CallsCover, Covered
<1> QED BY <1>1, <1>2, <1>3, <1>4, <1>5, <1>6, <1>7 DEF Next

\* QIdInv holds for any users, tenants, tables, strategies and page size.
THEOREM QIdInvariant == Spec => []QIdInv
<1>1. Init => QIdInv
  BY QIdInit
<1>2. QIdInv /\ [Next]_vars => QIdInv'
  BY QIdNext
<1> QED BY <1>1, <1>2, PTL DEF Spec

\* However calls interleave, a stored cursor has no seeded row behind it that no call has
\* returned: neither a stale page nor an insert makes the sweep jump (q-id.ts:58,131-136).
THEOREM CursorsNeverJump == Spec => []CursorCoversPrefix
<1>1. QIdInv => CursorCoversPrefix
  BY DEF QIdInv
<1> QED BY <1>1, QIdInvariant, PTL

\* An empty page, the only thing that deletes a cursor, comes after every seeded row of
\* the tenant was returned: "when results are exhausted the cursor resets"
\* (BENCHMARK.md:291).
THEOREM ExhaustedIsSwept == Spec => []ExhaustedMeansSwept
<1>1. QIdInv => ExhaustedMeansSwept
  BY DEF QIdInv, CallsCover, ExhaustedMeansSwept
<1> QED BY <1>1, QIdInvariant, PTL
=============================================================================
