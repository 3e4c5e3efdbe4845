-------------------------------- MODULE UserList -------------------------------
(*****************************************************************************)
(* The registry on its own, driven through every order of activations and    *)
(* deactivations.  The contract calls the two functions only from bet and    *)
(* from _settleRound; here they may be called for any account at any time,   *)
(* because both begin by looking at the flag and must tolerate a call that   *)
(* finds nothing to do.  The array is large enough in these runs for the     *)
(* swap to happen at its head, in its middle and at its end.                 *)
(*****************************************************************************)
EXTENDS ActiveUsers, FiniteSets

VARIABLES
  registry,
  call          \* the last call, which UserSet must answer in the same way

vars == <<registry, call>>

Init == registry = EmptyRegistry /\ call = <<"deployed">>

Activate(u) ==
  /\ registry' = ActivateUser(registry, u)
  /\ call' = <<"activate", u>>

Deactivate(u) ==
  /\ registry' = DeactivateUser(registry, u)
  /\ call' = <<"deactivate", u>>

Next == \E u \in Accounts : Activate(u) \/ Deactivate(u)

Spec == Init /\ [][Next]_vars

-------------------------------------------------------------------------------
(* The three slots hold values of their Solidity types, the array only       *)
(* accounts that called the contract (activeUsers, activeUserIndex,          *)
(* isActiveUser).                                                            *)
TypeOK == registry \in Registry

(* After any history of _activateUser and _deactivateUser the flag, the      *)
(* index and the array describe the same members.                            *)
ListConsistent == RegistryConsistent(registry)

(* activeUsersCount returns the number of distinct listed accounts: the      *)
(* frame's queue length counts nobody twice and forgets nobody.              *)
CountIsExact == ActiveUsersCount(registry) = Cardinality(Listed(registry))

(* An enumeration of the array sees exactly the set UserSet promises:        *)
(* _deactivateUser removes the account it was called for and never the one   *)
(* it swaps into the gap.                                                    *)
Set == INSTANCE UserSet WITH members <- Listed(registry)

ImplementsSet == Set!Spec
===============================================================================
