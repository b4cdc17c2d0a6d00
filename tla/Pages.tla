-------------------------------- MODULE Pages --------------------------------
(***************************************************************************)
(* Keyset pagination as the two Q-id workloads do it                       *)
(* (src/src/workloads/q-id.ts:25-54).  A row is its rank in the order of   *)
(* the columns a page is sorted by: a larger number is a newer row.        *)
(***************************************************************************)
EXTENDS Naturals, FiniteSets

CONSTANT PageSize   \* LIMIT 50

ASSUME PageAssumption == PageSize \in Nat \ {0}

Rows     == Nat \ {0}
NoCursor == 0

\* Mutant of Matching: a comparison that skips a row.
MatchingSkips(rows, cursor) == {r \in rows : cursor = NoCursor \/ r + 1 < cursor}

\* Rows that match the filter of the query: those after the cursor, in descending
\* order, or all of them (none is in the future) without a cursor.
Matching(rows, cursor) == {r \in rows : cursor = NoCursor \/ r < cursor}

\* Mutant of Page: DESC is missing.
PageAscending(rows, cursor) ==
    LET m == Matching(rows, cursor)
    IN {r \in m : Cardinality({q \in m : q < r}) < PageSize}

\* ORDER BY ... DESC LIMIT 50
Page(rows, cursor) ==
    LET m == Matching(rows, cursor)
    IN {r \in m : Cardinality({q \in m : q > r}) < PageSize}
=============================================================================
