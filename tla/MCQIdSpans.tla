------------------------------ MODULE MCQIdSpans ------------------------------
\* Model checking of QIdSpans: rows are ranked over the tables of both strategies.
EXTENDS QIdSpans

CONSTANTS v1, v2, t1, t2

BothStrategies == <<[t \in {t1, t2} |-> IF t = t1 THEN {1, 3, 5, 6} ELSE {2, 4}],
                    [t \in {t1, t2} |-> IF t = t1 THEN {2, 4} ELSE {3}]>>

TwoUsers   == {v1, v2}
TwoTenants == {t1, t2}
=============================================================================
