------------------------------ MODULE MCLogProvider ------------------------------
(* Values of LogProvider's constants for TLC.                                *)
EXTENDS LogProvider

OneLogPerBlock == [u \in Upkeeps |-> 1]
MoreOfTheFirst == [u \in Upkeeps |-> IF u = Min(Upkeeps) THEN 2 ELSE 1]
OneLimit == {[blockRate |-> 2, logLimit |-> 1]}
TwoLimits == {[blockRate |-> 2, logLimit |-> k] : k \in {1, 2}}
===============================================================================
