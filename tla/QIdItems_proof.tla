---------------------------- MODULE QIdItems_proof ----------------------------
(***************************************************************************)
(* Proofs about QIdItems: QIdItemsInv is inductive for any virtual users,  *)
(* conversations, items, page size and number of state objects.            *)
(***************************************************************************)
EXTENDS QIdItems, FiniteSetTheorems, WellFoundedInduction, SequenceTheorems, TLAPS

-----------------------------------------------------------------------------
(* What a page is: the upper end of the rows that match, and empty only when *)
(* none does.                                                                *)

\* A set of finite sets of numbers has a member that no other one is a part of.
LEMMA SmallestSet ==
  ASSUME NEW F, F # {}, \A T \in F : T \in SUBSET Nat /\ IsFiniteSet(T)
  PROVE  \E T \in F : \A U \in F : U \subseteq T => U = T
<1>1. F \subseteq FiniteSubsetsOf(Nat)
  BY DEF FiniteSubsetsOf
<1>2. \E T \in F : \A U \in F : <<U, T>> \notin StrictSubsetOrdering(Nat)
  BY <1>1, WFMin, FS_StrictSubsetOrderingWellFounded
<1> QED BY <1>2 DEF StrictSubsetOrdering

LEMMA LeastExists ==
  ASSUME NEW S \in SUBSET Nat, S # {}
  PROVE  \E x \in S : \A y \in S : x <= y
<1> DEFINE F == {0..x : x \in S}
<1>1. ASSUME NEW T \in F PROVE T \in SUBSET Nat /\ IsFiniteSet(T)
  <2>1. PICK x \in S : T = 0..x
    OBVIOUS
  <2>2. 0 \in Int /\ x \in Int
    OBVIOUS
  <2>3. IsFiniteSet(0..x)
    BY <2>2, FS_Interval
  <2> QED BY <2>1, <2>3
<1>0. F # {}
  OBVIOUS
<1> HIDE DEF F
<1>2. PICK T \in F : \A U \in F : U \subseteq T => U = T
  BY <1>0, <1>1, SmallestSet
<1>3. PICK x \in S : T = 0..x
  BY DEF F
<1>4. ASSUME NEW y \in S, y < x PROVE FALSE
  <2>1. 0..y \in F /\ 0..y \subseteq 0..x /\ x \in 0..x /\ x \notin 0..y
    BY <1>4 DEF F
  <2> QED BY <1>2, <1>3, <2>1
<1> QED BY <1>4

LEMMA MinIsMember ==
  ASSUME NEW S \in SUBSET Nat, S # {}
  PROVE  Min(S) \in S
BY LeastExists DEF Min

\* The rows above a row of a finite set.
Above(S, r) == {q \in S : q > r}

LEMMA AboveFacts ==
  ASSUME NEW S \in SUBSET Nat, IsFiniteSet(S), NEW r \in S
  PROVE  /\ IsFiniteSet(Above(S, r)) /\ Cardinality(Above(S, r)) \in Nat
         /\ \A q \in S : q >= r => /\ Above(S, q) \subseteq Above(S, r)
                                   /\ Cardinality(Above(S, q)) <= Cardinality(Above(S, r))
<1>1. Above(S, r) \in SUBSET S
  BY DEF Above
<1>2. IsFiniteSet(Above(S, r)) /\ Cardinality(Above(S, r)) \in Nat
  BY <1>1, FS_Subset, FS_CardinalityType
<1>3. ASSUME NEW q \in S, q >= r PROVE Above(S, q) \in SUBSET Above(S, r)
  <2>1. ASSUME NEW x \in S, x > q PROVE x > r
    <3>1. x \in Nat /\ q \in Nat /\ r \in Nat
      OBVIOUS
    <3> QED BY <1>3, <2>1, <3>1
  <2> QED BY <2>1 DEF Above
<1> QED BY <1>2, <1>3, FS_Subset

LEMMA GreatestExists ==
  ASSUME NEW S \in SUBSET Nat, IsFiniteSet(S), S # {}
  PROVE  \E x \in S : Above(S, x) = {}
<1> DEFINE F == {Above(S, x) : x \in S}
<1>1. ASSUME NEW T \in F PROVE T \in SUBSET Nat /\ IsFiniteSet(T)
  <2>1. PICK x \in S : T = Above(S, x)
    OBVIOUS
  <2> QED BY <2>1, AboveFacts DEF Above
<1>0. F # {}
  OBVIOUS
<1> HIDE DEF F
<1>2. PICK T \in F : \A U \in F : U \subseteq T => U = T
  BY <1>0, <1>1, SmallestSet
<1>3. PICK x \in S : T = Above(S, x)
  BY DEF F
<1>4. ASSUME NEW y \in S, y > x PROVE FALSE
  <2>1. Above(S, y) \subseteq Above(S, x)
    BY <1>4, y >= x, AboveFacts
  <2>2. y \in Above(S, x) /\ y \notin Above(S, y)
    BY <1>4 DEF Above
  <2>3. Above(S, y) \in F
    BY DEF F
  <2> QED BY <1>2, <1>3, <2>1, <2>2, <2>3
<1> QED BY <1>4 DEF Above

\* A page holds what matches from its lowest row on, and everything when it is empty.
LEMMA PageIsClosed ==
  ASSUME NEW all \in SUBSET Rows, IsFiniteSet(all), NEW from \in Nat,
         NEW q \in Matching(all, from), Page(all, from) = {} \/ \E r \in Page(all, from) : q >= r
  PROVE  q \in Page(all, from)
<1> DEFINE m == Matching(all, from)
<1>1. m \in SUBSET all
  BY DEF Matching
<1>2. m \in SUBSET Nat /\ IsFiniteSet(m)
  BY <1>1, FS_Subset DEF Rows
<1>3. Page(all, from) = {r \in m : Cardinality(Above(m, r)) < PageSize}
  BY DEF Page, Above
<1> HIDE DEF m
<1>4. CASE Page(all, from) = {}
  <2>1. PICK x \in m : Above(m, x) = {}
    BY <1>2, GreatestExists DEF m
  <2>2. Cardinality(Above(m, x)) = 0
    BY <2>1, FS_EmptySet
  <2>3. x \in Page(all, from)
    BY <1>3, <2>1, <2>2, PageAssumption
  <2> QED BY <1>4, <2>3
<1>5. ASSUME NEW r \in Page(all, from), q >= r PROVE q \in Page(all, from)
  <2>1. q \in m /\ r \in m /\ Cardinality(Above(m, r)) < PageSize
    BY <1>3 DEF m
  <2>2. /\ Cardinality(Above(m, q)) <= Cardinality(Above(m, r))
        /\ Cardinality(Above(m, q)) \in Nat /\ Cardinality(Above(m, r)) \in Nat
    BY <1>2, <1>5, <2>1, AboveFacts
  <2>3. Cardinality(Above(m, q)) < PageSize
    BY <2>1, <2>2, PageAssumption
  <2> QED BY <1>3, <2>1, <2>3
<1> QED BY <1>4, <1>5

-----------------------------------------------------------------------------
(* The invariant. *)

\* The state objects that exist, and what a call knows of one.
LEMMA MadeIsInterval == ASSUME TypeOK PROVE Made = 1..Len(objects)
BY DEF TypeOK, Made

LEMMA QIdItemsInit == Init => QIdItemsInv
<1> SUFFICES ASSUME Init PROVE QIdItemsInv
  OBVIOUS
<1>1. TypeOK
  BY QIdItemsAssumption DEF Init, TypeOK, Calls, Idle
<1>2. Made = {}
  BY <1>1, MadeIsInterval DEF Init
<1>3. CursorCoversPrefix /\ CallsCover
  BY <1>2 DEF Init, CursorCoversPrefix, CallsCover, Idle
<1> QED BY <1>1, <1>3 DEF QIdItemsInv

\* A call that begins, with an object there is, from the cursor it has.
LEMMA BeginKnownKeeps ==
  ASSUME QIdItemsInv, NEW v \in VUs, BeginKnown(v)
  PROVE  QIdItemsInv'
<1> USE DEF QIdItemsInv, BeginKnown
<1> DEFINE o == itemsState
<1>1. o \in 1..Len(objects) /\ objects[o] \in States
  BY DEF TypeOK
<1>2. call' = [call EXCEPT ![v] = [at |-> "sent", object |-> o,
                  conversation |-> objects[o].conversation, cursor |-> objects[o].cursor]]
  BY DEF Send
<1>3. TypeOK'
  BY <1>1, <1>2, MadeIsInterval DEF TypeOK, Calls, States, Made
<1>4. CursorCoversPrefix'
  BY DEF CursorCoversPrefix, Covered, Made
<1>5. Covered(o, objects[o].cursor)
  BY <1>1, MadeIsInterval DEF CursorCoversPrefix
<1>6. CallsCover'
  BY <1>1, <1>2, <1>5 DEF CallsCover, Covered, TypeOK
<1> QED BY <1>3, <1>4, <1>6

LEMMA BeginNewKeeps ==
  ASSUME QIdItemsInv, NEW v \in VUs, NEW c \in Conversations, BeginNew(v, c)
  PROVE  QIdItemsInv'
<1> USE DEF QIdItemsInv
<1> DEFINE n == Len(objects)
           state == [conversation |-> c, cursor |-> NoCursor]
<1>1. /\ objects' = Append(objects, state) /\ paged' = Append(paged, {})
      /\ itemsState' = n + 1 /\ n < MaxObjects /\ UNCHANGED errors
      /\ call' = [call EXCEPT ![v] = [at |-> "sent", object |-> n + 1,
                     conversation |-> c, cursor |-> NoCursor]]
  BY DEF BeginNew, Send
<1>2. state \in States /\ {} \in SUBSET Rows
  BY DEF States, NoCursor
<1>3. /\ objects' \in Seq(States) /\ Len(objects') = n + 1 /\ objects'[n + 1] = state
      /\ \A o \in 1..n : objects'[o] = objects[o]
  BY <1>1, <1>2, AppendProperties DEF TypeOK
<1>4. /\ paged' \in Seq(SUBSET Rows) /\ Len(paged') = n + 1
      /\ \A o \in 1..n : paged'[o] = paged[o]
  BY <1>1, <1>2, AppendProperties DEF TypeOK
<1>5. n \in Nat /\ Made = 1..n /\ Made' = 1..(n + 1) /\ n + 1 <= MaxObjects
  BY <1>1, <1>3, MadeIsInterval, QIdItemsAssumption DEF TypeOK, Made
<1> HIDE DEF n, state
<1>6. call' \in [VUs -> Calls']
  BY <1>1, <1>5 DEF TypeOK, Calls, NoCursor
<1>7. TypeOK'
  BY <1>1, <1>3, <1>4, <1>5, <1>6 DEF TypeOK
<1>8. ASSUME NEW o \in 1..n, NEW cursor
      PROVE  Covered(o, cursor)' = Covered(o, cursor)
  BY <1>3, <1>4 DEF Covered
<1>9. CursorCoversPrefix'
  <2> SUFFICES ASSUME NEW o \in 1..(n + 1) PROVE Covered(o, objects[o].cursor)'
    BY <1>5 DEF CursorCoversPrefix
  <2>1. CASE o \in 1..n
    BY <2>1, <1>3, <1>4, <1>5 DEF CursorCoversPrefix, Covered
  <2>2. CASE o = n + 1
    BY <2>2, <1>3 DEF Covered, state
  <2> QED BY <2>1, <2>2, <1>5
<1>10. CallsCover'
  <2> SUFFICES ASSUME NEW u \in VUs
               PROVE  /\ call'[u].at = "sent" =>
                            /\ call'[u].conversation = objects'[call'[u].object].conversation
                            /\ Covered(call[u].object, call[u].cursor)'
                      /\ call'[u].at = "answered" =>
                            \A q \in Items[objects'[call'[u].object].conversation] :
                                call'[u].rows = {} \/ (\E r \in call'[u].rows : q >= r) =>
                                    q \in paged'[call'[u].object] \cup call'[u].rows
    BY DEF CallsCover
  <2>1. CASE u = v
    BY <1>1, <1>3, <2>1 DEF Covered, state, TypeOK
  <2>2. CASE u # v
    <3>1. call'[u] = call[u] /\ call[u] \in Calls
      BY <1>1, <2>2 DEF TypeOK
    <3>2. CASE call[u].at = "sent"
      <4>1. call[u].object \in 1..n
        BY <3>1, <3>2, <1>5 DEF Calls, Idle
      <4> QED BY <3>1, <3>2, <4>1, <1>3, <1>4 DEF CallsCover, Covered
    <3>3. CASE call[u].at = "answered"
      <4>1. call[u].object \in 1..n
        BY <3>1, <3>3, <1>5 DEF Calls, Idle
      <4> QED BY <3>1, <3>3, <4>1, <1>3, <1>4 DEF CallsCover
    <3> QED BY <3>1, <3>2, <3>3
  <2> QED BY <2>1, <2>2
<1> QED BY <1>7, <1>9, <1>10

LEMMA ExecuteKeeps ==
  ASSUME QIdItemsInv, NEW v \in VUs, Execute(v)
  PROVE  QIdItemsInv'
<1> USE DEF QIdItemsInv, Execute
<1> DEFINE o == call[v].object
           rows == Items[call[v].conversation]
           cursor == call[v].cursor
           p == Page(rows, cursor)
<1>1. call[v] \in [at : {"sent"}, object : Made, conversation : Conversations, cursor : Nat]
  BY DEF TypeOK, Calls, Idle
<1>2. o \in Made /\ cursor \in Nat /\ rows \in SUBSET Rows /\ IsFiniteSet(rows)
  BY <1>1, QIdItemsAssumption
<1>3. p \in SUBSET Rows
  BY <1>2 DEF Page, Matching
<1>4. call' = [call EXCEPT ![v] = [at |-> "answered", object |-> o, rows |-> p]]
  OBVIOUS
<1>5. TypeOK'
  BY <1>2, <1>3, <1>4 DEF TypeOK, Calls, Made
<1>6. CursorCoversPrefix'
  BY DEF CursorCoversPrefix, Covered, Made
<1>7. rows = Items[objects[o].conversation] /\ Covered(o, cursor)
  BY <1>1 DEF CallsCover
<1>8. ASSUME NEW q \in rows, p = {} \/ \E r \in p : q >= r
      PROVE  q \in paged[o] \cup p
  <2>1. CASE q \in Matching(rows, cursor)
    BY <1>2, <1>8, <2>1, PageIsClosed
  <2>2. CASE q \notin Matching(rows, cursor)
    <3>1. cursor # NoCursor /\ q >= cursor
      BY <1>2, <2>2 DEF Matching, Rows
    <3> QED BY <1>7, <3>1 DEF Covered
  <2> QED BY <2>1, <2>2
<1>9. CallsCover'
  <2>1. UNCHANGED <<objects, paged>>
    OBVIOUS
  <2>2. /\ call'[v] = [at |-> "answered", object |-> o, rows |-> p]
        /\ \A u \in VUs : u # v => call'[u] = call[u]
    BY <1>4 DEF TypeOK
  <2>3. ASSUME NEW u \in VUs, u = v, call'[u].at = "answered",
               NEW q \in Items[objects'[call'[u].object].conversation],
               call'[u].rows = {} \/ \E r \in call'[u].rows : q >= r
        PROVE  q \in paged'[call'[u].object] \cup call'[u].rows
    BY <1>7, <1>8, <2>1, <2>2, <2>3
  <2>4. CallsCover
    OBVIOUS
  <2> HIDE DEF QIdItemsInv, Execute, o, rows, cursor, p
  <2> QED BY <2>1, <2>2, <2>3, <2>4 DEF CallsCover, Covered
<1> QED BY <1>5, <1>6, <1>9

LEMMA ReturnRowsKeeps ==
  ASSUME QIdItemsInv, NEW v \in VUs, ReturnRows(v)
  PROVE  QIdItemsInv'
<1> USE DEF QIdItemsInv
<1> DEFINE o == call[v].object
           p == call[v].rows
           n == Len(objects)
           state == [objects[o] EXCEPT !.cursor = Min(p)]
<1>1. /\ call[v].at = "answered" /\ p # {}
      /\ call[v] \in [at : {"answered"}, object : Made, rows : SUBSET Rows]
  BY DEF ReturnRows, TypeOK, Calls, Idle
<1>2. n \in Nat /\ Made = 1..n /\ o \in 1..n /\ p \in SUBSET Rows /\ p \in SUBSET Nat
  BY <1>1, MadeIsInterval DEF TypeOK, Rows
<1>3. Min(p) \in p
  BY <1>1, <1>2, MinIsMember
<1>4. /\ objects' = [objects EXCEPT ![o] = state]
      /\ paged' = [paged EXCEPT ![o] = paged[o] \cup p]
      /\ call' = [call EXCEPT ![v] = Idle] /\ UNCHANGED <<itemsState, errors>>
  BY DEF ReturnRows
<1>5. /\ objects[o] \in States /\ paged[o] \in SUBSET Rows
      /\ state = [conversation |-> objects[o].conversation, cursor |-> Min(p)]
  <2>1. objects[o] \in States /\ paged[o] \in SUBSET Rows
    BY <1>2 DEF TypeOK
  <2> QED BY <2>1 DEF States
<1>6. state \in States /\ paged[o] \cup p \in SUBSET Rows
  BY <1>2, <1>3, <1>5 DEF States
<1>7. /\ objects' \in Seq(States) /\ Len(objects') = n
      /\ \A u \in 1..n : objects'[u] = IF u = o THEN state ELSE objects[u]
  BY <1>2, <1>4, <1>6, ExceptSeq DEF TypeOK
<1>8. /\ paged' \in Seq(SUBSET Rows) /\ Len(paged') = n
      /\ \A u \in 1..n : paged'[u] = IF u = o THEN paged[o] \cup p ELSE paged[u]
  BY <1>2, <1>4, <1>6, ExceptSeq DEF TypeOK
<1>9. Made' = 1..n
  BY <1>7 DEF Made
<1>10. TypeOK'
  BY <1>2, <1>4, <1>7, <1>8, <1>9 DEF TypeOK, Calls
<1>11. /\ \A u \in 1..n : objects'[u].conversation = objects[u].conversation
       /\ \A u \in 1..n : paged[u] \subseteq paged'[u]
  BY <1>5, <1>7, <1>8
<1>12. CursorCoversPrefix'
  <2> SUFFICES ASSUME NEW u \in 1..n PROVE Covered(u, objects[u].cursor)'
    BY <1>9 DEF CursorCoversPrefix
  <2>1. CASE u = o
    <3>1. \A q \in Items[objects[o].conversation] : q >= Min(p) => q \in paged[o] \cup p
      BY <1>1, <1>3 DEF CallsCover
    <3> QED BY <2>1, <3>1, <1>5, <1>7, <1>8 DEF Covered
  <2>2. CASE u # o
    BY <2>2, <1>2, <1>7, <1>8 DEF CursorCoversPrefix, Covered
  <2> QED BY <2>1, <2>2
<1>13. CallsCover'
  <2> SUFFICES ASSUME NEW u \in VUs
               PROVE  /\ call'[u].at = "sent" =>
                            /\ call'[u].conversation = objects'[call'[u].object].conversation
                            /\ Covered(call[u].object, call[u].cursor)'
                      /\ call'[u].at = "answered" =>
                            \A q \in Items[objects'[call'[u].object].conversation] :
                                call'[u].rows = {} \/ (\E r \in call'[u].rows : q >= r) =>
                                    q \in paged'[call'[u].object] \cup call'[u].rows
    BY DEF CallsCover
  <2>1. CASE u = v
    BY <1>4, <2>1 DEF Idle, TypeOK
  <2>2. CASE u # v
    <3>1. call'[u] = call[u] /\ call[u] \in Calls
      BY <1>4, <2>2 DEF TypeOK
    <3>2. CASE call[u].at = "sent"
      <4>1. call[u].object \in 1..n
        BY <3>1, <3>2, <1>2 DEF Calls, Idle
      <4> QED BY <3>1, <3>2, <4>1, <1>11 DEF CallsCover, Covered
    <3>3. CASE call[u].at = "answered"
      <4>1. call[u].object \in 1..n
        BY <3>1, <3>3, <1>2 DEF Calls, Idle
      <4> QED BY <3>1, <3>3, <4>1, <1>11 DEF CallsCover
    <3> QED BY <3>1, <3>2, <3>3
  <2> QED BY <2>1, <2>2
<1> QED BY <1>10, <1>12, <1>13

\* A call that ends without a row, only explains, or fails, takes nothing away.
LEMMA EndingKeeps ==
  ASSUME QIdItemsInv, NEW v \in VUs, ReturnEmpty(v) \/ Explained(v) \/ Fail(v)
  PROVE  QIdItemsInv'
<1> USE DEF QIdItemsInv, ReturnEmpty, Explained, Fail
<1>1. call' = [call EXCEPT ![v] = Idle] /\ UNCHANGED <<objects, paged>>
  OBVIOUS
<1>2. TypeOK'
  BY QIdItemsAssumption DEF TypeOK, Calls, Made
<1>3. CursorCoversPrefix'
  BY <1>1 DEF CursorCoversPrefix, Covered, Made
<1>4. CallsCover'
  BY <1>1 DEF CallsCover, Covered, TypeOK, Idle
<1> QED BY <1>2, <1>3, <1>4

LEMMA QIdItemsNext == QIdItemsInv /\ [Next]_vars => QIdItemsInv'
<1> SUFFICES ASSUME QIdItemsInv, [Next]_vars PROVE QIdItemsInv'
  OBVIOUS
<1>1. ASSUME NEW v \in VUs, BeginKnown(v) PROVE QIdItemsInv'
  BY <1>1, BeginKnownKeeps
<1>2. ASSUME NEW v \in VUs, NEW c \in Conversations, BeginNew(v, c) PROVE QIdItemsInv'
  BY <1>2, BeginNewKeeps
<1>3. ASSUME NEW v \in VUs, Execute(v) PROVE QIdItemsInv'
  BY <1>3, ExecuteKeeps
<1>4. ASSUME NEW v \in VUs, ReturnRows(v) PROVE QIdItemsInv'
  BY <1>4, ReturnRowsKeeps
<1>5. ASSUME NEW v \in VUs, ReturnEmpty(v) \/ Explained(v) \/ Fail(v) PROVE QIdItemsInv'
  BY <1>5, EndingKeeps
<1>6. CASE UNCHANGED vars
  BY <1>6 DEF QIdItemsInv, vars, TypeOK, Calls, Made, CursorCoversPrefix, CallsCover, Covered
<1> QED BY <1>1, <1>2, <1>3, <1>4, <1>5, <1>6 DEF Next

\* QIdItemsInv holds for any users, conversations, items and page size.
THEOREM QIdItemsInvariant == Spec => []QIdItemsInv
<1>1. Init => QIdItemsInv
  BY QIdItemsInit
<1>2. QIdItemsInv /\ [Next]_vars => QIdItemsInv'
  BY QIdItemsNext
<1> QED BY <1>1, <1>2, PTL DEF Spec

\* A state object's cursor has no item of its conversation behind it that no call which
\* held the object has returned, in the Map or not (q-id.ts:147-148,212-214).
THEOREM ObjectsNeverJump == Spec => []CursorCoversPrefix
<1>1. QIdItemsInv => CursorCoversPrefix
  BY DEF QIdItemsInv
<1> QED BY <1>1, QIdItemsInvariant, PTL

\* An empty page comes only when the conversation of the call's own object was paged to
\* the end (q-id.ts:215-218).
THEOREM EmptyPageMeansPaged == Spec => []EmptyMeansPaged
<1>1. QIdItemsInv => EmptyMeansPaged
  BY DEF QIdItemsInv, CallsCover, EmptyMeansPaged
<1> QED BY <1>1, QIdItemsInvariant, PTL
=============================================================================
