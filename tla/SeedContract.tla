----------------------------- MODULE SeedContract -----------------------------
(***************************************************************************)
(* What a seeding run promises whoever reads its exit code (the README     *)
(* chains runs with &&): tables only grow, and success is reported only    *)
(* when every tenant's table holds at least its target number of rows.     *)
(* A reported run may be followed by another one.                          *)
(***************************************************************************)
EXTENDS Naturals

CONSTANTS Tenants, Target

VARIABLES size,     \* rows stored for each tenant
          report    \* what the current run has reported

Init == size = [t \in Tenants |-> 0] /\ report = "none"

\* Rows may land at any time, even after the run that sent them has ended.
Grow(t) == /\ size'[t] \in Nat /\ size'[t] >= size[t]
           /\ size' = [size EXCEPT ![t] = size'[t]]
           /\ UNCHANGED report

Succeed == /\ report = "none"
           /\ \A t \in Tenants : size[t] >= Target
           /\ report' = "ok"
           /\ UNCHANGED size

Fail == report = "none" /\ report' = "failed" /\ UNCHANGED size

Rerun == report # "none" /\ report' = "none" /\ UNCHANGED size

Next == (\E t \in Tenants : Grow(t)) \/ Succeed \/ Fail \/ Rerun

Spec == Init /\ [][Next]_<<size, report>>
=============================================================================
