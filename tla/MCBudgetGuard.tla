---------------------------- MODULE MCBudgetGuard ----------------------------
(* Small instances of BudgetGuard: the day changes with every tick, the   *)
(* fuses look one tick back, the month never ends.                         *)
EXTENDS BudgetGuard, TLC

CONSTANTS c1, c2, c3, a1, a2, daily, monthly, allotted, burst, fanout

MCRank == [g \in Rail |-> CASE g = daily -> 1 [] g = allotted -> 2
                            [] g = monthly -> 3 [] g = burst -> 4
                            [] g = fanout -> 5 [] OTHER -> 6]
MCDay == [t \in Time |-> t]
MCSince == [g \in Rail |-> [t \in Time |->
              CASE g = monthly -> 0
                [] g \in {burst, fanout} -> t - 1
                [] OTHER -> t]]

B(n) == [kind |-> "bounded", usd |-> n]
NoBound == [kind |-> "unbounded", usd |-> 0]
NoPrice == [kind |-> "unpriced", usd |-> 0]

\* Exactly the rails of S armed, all with the limit v.
ArmedAt(S, v) == [g \in Rail |-> IF g \in S THEN v ELSE 0]

MCServeLimits == {ArmedAt({daily}, 4), ArmedAt({a1, fanout}, 2),
                  [ArmedAt({burst}, 2) EXCEPT ![allotted] = 4]}
MCAdminLimits == {ArmedAt({daily}, 1)}
MCExclusiveLimits == {ArmedAt({daily}, 3)}
MCServeEstimates == {B(2), NoBound}
MCAdminEstimates == {B(1), NoPrice}
MCExclusiveEstimates == {B(2), NoBound}
Symmetry == Permutations(Call)
=============================================================================
