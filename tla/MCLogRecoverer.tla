----------------------------- MODULE MCLogRecoverer -----------------------------
(* Values of LogRecoverer's constants for TLC.                               *)
EXTENDS LogRecoverer

(* One log of the first upkeep in each of two blocks.                        *)
TwoLogs == {[upkeep |-> Min(Upkeeps), block |-> n, index |-> 1] : n \in {1, 2}}
===============================================================================
