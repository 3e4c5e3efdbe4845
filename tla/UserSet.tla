-------------------------------- MODULE UserSet --------------------------------
(*****************************************************************************)
(* What the registry of active users promises, without array, index or flag: *)
(* a set of accounts to which _activateUser adds and from which              *)
(* _deactivateUser removes exactly the account they are called for.  call is *)
(* the interface: the last call, as its caller sees it.                      *)
(*****************************************************************************)
CONSTANT Accounts

VARIABLES members, call

NoCall == <<"deployed">>

Init == members = {} /\ call = NoCall

Add(u) == members' = members \cup {u} /\ call' = <<"activate", u>>

Remove(u) == members' = members \ {u} /\ call' = <<"deactivate", u>>

Next == \E u \in Accounts : Add(u) \/ Remove(u)

Spec == Init /\ [][Next]_<<members, call>>
===============================================================================
