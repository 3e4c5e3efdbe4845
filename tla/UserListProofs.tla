---------------------------- MODULE UserListProofs ----------------------------
(*****************************************************************************)
(* The promises of the active-user registry, for every set of accounts and   *)
(* every history of activations and deactivations: the three slots agree,    *)
(* the count is exact, and the array enumerates the set UserSet describes.   *)
(*****************************************************************************)
EXTENDS UserList, ActiveUsersProofs, FiniteSetTheorems

(* The invariant of the proofs.  TypeOK alone is inductive only together     *)
(* with the agreement of the slots: popping an array that a stale flag       *)
(* believed to be non-empty would leave the type.                            *)
ListInv == TypeOK /\ ListConsistent

(* Every history of _activateUser and _deactivateUser keeps ListInv.         *)
LEMMA ListInvHolds == Spec => []ListInv
<1>1. Init => ListInv
  BY EmptyRegistryConsistent DEF Init, ListInv, TypeOK, ListConsistent
<1>2. ListInv /\ [Next]_vars => ListInv'
  <2> SUFFICES ASSUME ListInv, [Next]_vars
               PROVE  ListInv'
    OBVIOUS
  <2> USE DEF ListInv, TypeOK, ListConsistent
  <2>1. ASSUME NEW u \in Accounts, Activate(u)
        PROVE  ListInv'
    BY <2>1, ActivateUserLists DEF Activate
  <2>2. ASSUME NEW u \in Accounts, Deactivate(u)
        PROVE  ListInv'
    BY <2>2, DeactivateUserUnlists DEF Deactivate
  <2>3. CASE UNCHANGED vars
    BY <2>3 DEF vars
  <2>4. QED
    BY <2>1, <2>2, <2>3 DEF Next
<1>3. QED
  BY <1>1, <1>2, PTL DEF Spec

(* The slots always hold values of their Solidity types; in particular       *)
(* activeUsers.length - 1 in _deactivateUser never underflows, and no        *)
(* position outside the array is ever written.                               *)
THEOREM TypeCorrect == Spec => []TypeOK
<1>1. ListInv => TypeOK
  BY DEF ListInv
<1>2. QED
  BY <1>1, ListInvHolds, PTL

(* Array, positions and flags always agree.                                  *)
THEOREM SlotsAgree == Spec => []ListConsistent
<1>1. ListInv => ListConsistent
  BY DEF ListInv
<1>2. QED
  BY <1>1, ListInvHolds, PTL

(* activeUsersCount is the number of distinct listed accounts.               *)
THEOREM CountIsAlwaysExact == Spec => []CountIsExact
<1>1. ListInv => CountIsExact
  <2> SUFFICES ASSUME ListInv
               PROVE  CountIsExact
    OBVIOUS
  <2> DEFINE n     == Len(registry.activeUsers)
             entry == [i \in 1 .. n |-> registry.activeUsers[i]]
  <2>1. n \in Nat /\ registry.activeUsers \in Seq(Accounts)
    BY DEF ListInv, TypeOK, Registry
  <2>2. \A i, j \in 1 .. n : entry[i] = entry[j] => i = j
    <3>1. \A i \in 1 .. n : registry.activeUserIndex[entry[i]] = i - 1
      BY DEF ListInv, ListConsistent, RegistryConsistent
    <3> HIDE DEF entry
    <3>2. QED
      BY <2>1, <3>1
  <2>3. entry \in Bijection(1 .. n, Listed(registry))
    <3>1. /\ Listed(registry) = { entry[i] : i \in 1 .. n }
          /\ entry \in [1 .. n -> Listed(registry)]
      BY DEF Listed
    <3> HIDE DEF entry
    <3>2. QED
      BY <2>2, <3>1, Zenon DEF Bijection, Injection, Surjection, IsInjective
  <2>4. ExistsBijection(1 .. n, Listed(registry))
    BY <2>3 DEF ExistsBijection
  <2>5. Cardinality(Listed(registry)) = n
    BY <2>1, <2>4, FS_CountingElements
  <2>6. QED
    BY <2>5 DEF CountIsExact, ActiveUsersCount
<1>2. QED
  BY <1>1, ListInvHolds, PTL

(* The list implements the set: each call maps to an addition or a removal,  *)
(* or leaves the set as it is.                                               *)
THEOREM ListImplementsSet == Spec => ImplementsSet
<1>1. Init => Set!Init
  BY EmptyRegistryConsistent DEF Init, Set!Init, Set!NoCall
<1>2. ListInv /\ [Next]_vars => [Set!Next]_<<Listed(registry), call>>
  <2> SUFFICES ASSUME ListInv, [Next]_vars
               PROVE  [Set!Next]_<<Listed(registry), call>>
    OBVIOUS
  <2> USE DEF ListInv, TypeOK, ListConsistent
  <2>1. ASSUME NEW u \in Accounts, Activate(u)
        PROVE  Set!Add(u)
    BY <2>1, ActivateUserLists DEF Activate, Set!Add
  <2>2. ASSUME NEW u \in Accounts, Deactivate(u)
        PROVE  Set!Remove(u)
    BY <2>2, DeactivateUserUnlists DEF Deactivate, Set!Remove
  <2>3. CASE UNCHANGED vars
    BY <2>3 DEF vars
  <2>4. QED
    BY <2>1, <2>2, <2>3 DEF Next, Set!Next
<1>3. QED
  BY <1>1, <1>2, ListInvHolds, PTL DEF Spec, ImplementsSet, Set!Spec
===============================================================================
