----------------------------- MODULE MCSeedTimes -----------------------------
\* Model checking of SeedTimes: segments of 4, 2 and 6 units, a window of one unit.
EXTENDS SeedTimes

Begins  == <<16, 10, 6>>
Ends    == <<12, 8, 0>>
TwoDays == {16, 17}
=============================================================================
