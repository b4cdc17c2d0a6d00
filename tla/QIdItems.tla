------------------------------- MODULE QIdItems -------------------------------
(***************************************************************************)
(* The Q-id workload over conversation items                               *)
(* (src/src/workloads/q-id.ts:10-23,145-222) for one tenant.  The Map      *)
(* holds one S2State object per tenant; a call keeps the object it found   *)
(* across its await, so it may write to an object that has left the Map.   *)
(* Objects are numbered in the order they are made.                        *)
(***************************************************************************)
EXTENDS Naturals, Sequences, FiniteSets, FiniteSetsExt, Pages

CONSTANTS VUs,             \* virtual users
          Conversations,   \* the scattered half of the tenant's conversations
          Items,           \* Items[c]: ranks of the items of conversation c
          MaxObjects,      \* bound: state objects made
          MaxErrors        \* bound: calls that fail

ASSUME QIdItemsAssumption ==
    /\ MaxObjects \in Nat /\ MaxErrors \in Nat
    /\ Items \in [Conversations -> SUBSET Rows]
    /\ \A c \in Conversations : IsFiniteSet(Items[c])

VARIABLES itemsState,   \* the Map's entry for the tenant: an object, 0 if none
          objects,      \* the objects made so far
          call,         \* what each virtual user is waiting for
          errors,
          paged         \* history: rows each object's pages have returned

vars == <<itemsState, objects, call, errors, paged>>

Idle == [at |-> "idle"]
Made == DOMAIN objects

Init == /\ itemsState = 0
        /\ objects = << >> /\ paged = << >>
        /\ call = [v \in VUs |-> Idle]
        /\ errors = 0

\* The query is sent for object o's conversation, from the cursor it holds now.
Send(v, o, state) ==
    call' = [call EXCEPT ![v] = [at |-> "sent", object |-> o, conversation |-> state.conversation,
                                 cursor |-> state.cursor]]

\* getOrInitS2State finds the tenant's object ...
BeginKnown(v) ==
    /\ call[v] = Idle /\ itemsState # 0
    /\ Send(v, itemsState, objects[itemsState])
    /\ UNCHANGED <<itemsState, objects, errors, paged>>

\* ... or makes one for a conversation drawn from the scattered pool.
BeginNew(v, c) ==
    /\ call[v] = Idle /\ itemsState = 0 /\ Len(objects) < MaxObjects
    /\ LET state == [conversation |-> c, cursor |-> NoCursor]
       IN /\ objects' = Append(objects, state)
          /\ paged' = Append(paged, {})
          /\ itemsState' = Len(objects) + 1
          /\ Send(v, Len(objects) + 1, state)
    /\ UNCHANGED errors

\* The database evaluates the query.
Execute(v) ==
    /\ call[v].at = "sent"
    /\ call' = [call EXCEPT ![v] = [at |-> "answered", object |-> @.object,
                                    rows |-> Page(Items[@.conversation], @.cursor)]]
    /\ UNCHANGED <<itemsState, objects, errors, paged>>

\* Rows: the cursor of the object the call started from moves to the last one.
ReturnRows(v) ==
    /\ call[v].at = "answered" /\ call[v].rows # {}
    /\ objects' = [objects EXCEPT ![call[v].object].cursor = Min(call[v].rows)]
    /\ paged' = [paged EXCEPT ![call[v].object] = @ \cup call[v].rows]
    /\ call' = [call EXCEPT ![v] = Idle]
    /\ UNCHANGED <<itemsState, errors>>

\* Mutant of ReturnEmpty: the entry stays.
ReturnEmptyKeeps(v) ==
    /\ call[v].at = "answered" /\ call[v].rows = {}
    /\ call' = [call EXCEPT ![v] = Idle]
    /\ UNCHANGED <<itemsState, objects, errors, paged>>

\* No rows: whatever object the Map holds for the tenant by now is deleted.
ReturnEmpty(v) ==
    /\ call[v].at = "answered" /\ call[v].rows = {}
    /\ itemsState' = 0
    /\ call' = [call EXCEPT ![v] = Idle]
    /\ UNCHANGED <<objects, errors, paged>>

\* Every n-th call only explains its query, and leaves the object as it is; which ones is
\* left open, without a bound.
Explained(v) ==
    /\ call[v].at = "sent"
    /\ call' = [call EXCEPT ![v] = Idle]
    /\ UNCHANGED <<itemsState, objects, errors, paged>>

\* The call throws: the object is left as it is.
Fail(v) ==
    /\ call[v] # Idle /\ errors < MaxErrors
    /\ errors' = errors + 1
    /\ call' = [call EXCEPT ![v] = Idle]
    /\ UNCHANGED <<itemsState, objects, paged>>

Next == \E v \in VUs : \/ BeginKnown(v) \/ \E c \in Conversations : BeginNew(v, c)
                       \/ Execute(v) \/ ReturnRows(v) \/ ReturnEmpty(v)
                       \/ Explained(v) \/ Fail(v)

\* A virtual user loops: it starts a call, the database answers, the call returns.
Step(v) == BeginKnown(v) \/ Execute(v) \/ ReturnRows(v) \/ ReturnEmpty(v)

\* Each call is answered, and not every call is one that explains (as with
\* BENCH_EXPLAIN_EVERY=1, when no cursor ever moves).
Fairness == \A v \in VUs : WF_vars(Step(v)) /\ SF_vars(Execute(v))

Spec == Init /\ [][Next]_vars /\ Fairness

-----------------------------------------------------------------------------
States == [conversation : Conversations, cursor : Nat]
Calls ==
    {Idle} \cup [at : {"sent"}, object : Made, conversation : Conversations, cursor : Nat]
           \cup [at : {"answered"}, object : Made, rows : SUBSET Rows]

TypeOK ==
    /\ itemsState \in 0..Len(objects)
    /\ Len(objects) <= MaxObjects /\ Len(paged) = Len(objects)
    /\ objects \in Seq(States) /\ paged \in Seq(SUBSET Rows)
    /\ call \in [VUs -> Calls]
    /\ errors \in 0..MaxErrors

\* However calls interleave, and whether or not the object is still in the Map, its
\* cursor stands at row r only when the rows of its conversation from r up have been
\* returned to calls that held it (q-id.ts:147-148,212-214).
Covered(o, cursor) ==
    cursor # NoCursor =>
        \A r \in Items[objects[o].conversation] : r >= cursor => r \in paged[o]
CursorCoversPrefix == \A o \in Made : Covered(o, objects[o].cursor)

\* What keeps it so: a call asks for the conversation of the object it holds, from a
\* cursor that is covered, and what its answer adds is covered up to the last row.
CallsCover ==
    \A v \in VUs :
        /\ call[v].at = "sent" =>
              /\ call[v].conversation = objects[call[v].object].conversation
              /\ Covered(call[v].object, call[v].cursor)
        /\ call[v].at = "answered" =>
              \A q \in Items[objects[call[v].object].conversation] :
                  call[v].rows = {} \/ (\E r \in call[v].rows : q >= r) =>
                      q \in paged[call[v].object] \cup call[v].rows

\* The inductive invariant.
QIdItemsInv == TypeOK /\ CursorCoversPrefix /\ CallsCover

\* An empty page tells that the conversation of the object the call holds was paged to
\* the end (q-id.ts:215-218).
EmptyMeansPaged ==
    \A v \in VUs : call[v].at = "answered" =>
        (call[v].rows = {} =>
            Items[objects[call[v].object].conversation] \subseteq paged[call[v].object])

\* An object is not kept for ever: the Map's entry is deleted in the end, so the tenant
\* moves on to another conversation, unless every call explains (Fairness).
EntryIsReplaced == \A o \in 1..MaxObjects : itemsState = o ~> itemsState # o

\* "One active conversation per tenant. Pages through it until exhausted, then picks a
\* new one" (q-id.ts:10): an object leaves the Map only when its conversation was paged
\* to the end.
LeavesWhenExhausted ==
    [][itemsState # 0 /\ itemsState' # itemsState =>
          Items[objects[itemsState].conversation] \subseteq paged'[itemsState]]_vars
=============================================================================
