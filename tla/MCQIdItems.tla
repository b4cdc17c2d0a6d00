------------------------------ MODULE MCQIdItems ------------------------------
\* Model checking of QIdItems: one conversation of five items and one of two.
EXTENDS QIdItems

CONSTANTS v1, v2, c1, c2

TwoUsers == {v1, v2}
TwoConversations == {c1, c2}
ItemsOf == [c \in {c1, c2} |-> IF c = c1 THEN 1..5 ELSE {2, 4}]
=============================================================================
