------------------------------ MODULE SeedShares ------------------------------
(***************************************************************************)
(* How many rows a tenant gets and how they are shared out over the three  *)
(* segments of time: the arithmetic at the head of seedSpansForTenant      *)
(* (src/src/seed/spans.ts:146-165) and of seedItemsForTenant               *)
(* (src/src/seed/conversations.ts:131-155).                                *)
(***************************************************************************)
EXTENDS Naturals

CONSTANTS TotalPerTenant,   \* spansPerTenant or itemsPerTenant
          HistoricalPct     \* 100 * config.historicalShare

ASSUME SharesAssumption == TotalPerTenant \in Nat \ {0} /\ HistoricalPct \in Nat

Segments == 1..3    \* historical, recent, fresh

\* totalShare in percent: recent and fresh are fixed at 15 and 10.
TotalPct == HistoricalPct + 25

\* Math.round(totalPerTenant * totalShare)
EffectiveTotal == (2 * TotalPerTenant * TotalPct + 100) \div 200

\* Math.floor(n * share / totalShare) in doubles: a quotient that is exact can come
\* out one lower (119 * 0.6 / 0.85 is floored to 83).
Floored(n, pct) ==
    LET q == (n * pct) \div TotalPct
    IN IF (n * pct) % TotalPct = 0 /\ q > 0 THEN {q - 1, q} ELSE {q}

\* Mutant of Splits: the fresh share is computed like the others, the remainder is lost.
SplitsNoRemainder(n) ==
    {s \in [Segments -> 0..n] : /\ s[1] \in Floored(n, HistoricalPct)
                                /\ s[2] \in Floored(n, 15)
                                /\ s[3] \in Floored(n, 10)}

\* The three segment counts for n rows to insert; the last takes the remainder.
Splits(n) == {s \in [Segments -> 0..n] : /\ s[1] \in Floored(n, HistoricalPct)
                                         /\ s[2] \in Floored(n, 15)
                                         /\ s[3] + s[1] + s[2] = n}
=============================================================================
