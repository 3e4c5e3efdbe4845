------------------------------ MODULE ActiveUsers ------------------------------
(*****************************************************************************)
(* The registry of players with an open round, which GlowStick.sol keeps in  *)
(* three storage slots: the array activeUsers, the position activeUserIndex  *)
(* of every listed account in it, and the membership flag isActiveUser.      *)
(*                                                                           *)
(* A registry is a record of the three, and the two internal functions that  *)
(* change it are operators from a registry to a registry, so that the module *)
(* of the contract can apply them in the middle of a transaction.  Solidity  *)
(* arrays start at 0 and TLA+ sequences at 1: activeUserIndex holds the      *)
(* source's values, and every access to the array adds 1.                    *)
(*****************************************************************************)
EXTENDS Integers, Sequences

CONSTANT Accounts      \* the addresses that call the contract

Registry == [activeUsers     : Seq(Accounts),
             activeUserIndex : [Accounts -> Nat],
             isActiveUser    : [Accounts -> BOOLEAN]]

EmptyRegistry == [activeUsers     |-> << >>,
                  activeUserIndex |-> [u \in Accounts |-> 0],
                  isActiveUser    |-> [u \in Accounts |-> FALSE]]

(* The accounts an enumeration of the array meets.                           *)
Listed(reg) == { reg.activeUsers[i] : i \in 1 .. Len(reg.activeUsers) }

-------------------------------------------------------------------------------
(* Four slips a maintainer could make in the functions below; the model     *)
(* checker is run with each of them to show that the properties notice.      *)

ActivateUserUnguarded(reg, u) ==
  [activeUsers     |-> Append(reg.activeUsers, u),
   activeUserIndex |-> [reg.activeUserIndex EXCEPT ![u] = Len(reg.activeUsers)],
   isActiveUser    |-> [reg.isActiveUser EXCEPT ![u] = TRUE]]

ActivateUserIndexBelow(reg, u) ==
  IF reg.isActiveUser[u]
  THEN reg
  ELSE [activeUsers     |-> Append(reg.activeUsers, u),
        activeUserIndex |-> [reg.activeUserIndex EXCEPT ![u] = Len(reg.activeUsers) - 1],
        isActiveUser    |-> [reg.isActiveUser EXCEPT ![u] = TRUE]]

MoveLastWithoutIndex(reg, idx, lastIdx) ==
  [reg EXCEPT !.activeUsers[idx + 1] = reg.activeUsers[lastIdx + 1]]

DeactivateUserPopOnly(reg, u) ==
  IF reg.isActiveUser[u]
  THEN [activeUsers     |-> SubSeq(reg.activeUsers, 1, Len(reg.activeUsers) - 1),
        activeUserIndex |-> [reg.activeUserIndex EXCEPT ![u] = 0],
        isActiveUser    |-> [reg.isActiveUser EXCEPT ![u] = FALSE]]
  ELSE reg

-------------------------------------------------------------------------------
(* _activateUser: append u unless the flag says it is listed already.        *)
ActivateUser(reg, u) ==
  IF reg.isActiveUser[u]
  THEN reg
  ELSE [activeUsers     |-> Append(reg.activeUsers, u),
        activeUserIndex |-> [reg.activeUserIndex EXCEPT ![u] = Len(reg.activeUsers)],
        isActiveUser    |-> [reg.isActiveUser EXCEPT ![u] = TRUE]]

(* The branch idx # lastIdx of _deactivateUser: the last user moves into the *)
(* gap, and its recorded position moves with it.                             *)
MoveLast(reg, idx, lastIdx) ==
  LET lastUser == reg.activeUsers[lastIdx + 1]
  IN  [reg EXCEPT !.activeUsers[idx + 1]       = lastUser,
                  !.activeUserIndex[lastUser] = idx]

(* _deactivateUser: swap with the last entry, pop, clear the two slots of u. *)
DeactivateUser(reg, u) ==
  LET idx     == reg.activeUserIndex[u]
      lastIdx == Len(reg.activeUsers) - 1
      moved   == IF idx = lastIdx THEN reg ELSE MoveLast(reg, idx, lastIdx)
  IN  IF reg.isActiveUser[u]
      THEN [activeUsers     |-> SubSeq(moved.activeUsers, 1, lastIdx),
            activeUserIndex |-> [moved.activeUserIndex EXCEPT ![u] = 0],
            isActiveUser    |-> [moved.isActiveUser EXCEPT ![u] = FALSE]]
      ELSE reg

(* activeUsersCount: what the frame shows as the length of the queue.        *)
ActiveUsersCount(reg) == Len(reg.activeUsers)

-------------------------------------------------------------------------------
(* Flag, index and array agree: every flagged account sits in the array at   *)
(* its recorded position, and every entry of the array is flagged and knows  *)
(* its position (so no account is listed twice and no entry is lost by the   *)
(* swap of _deactivateUser).                                                 *)
RegistryConsistent(reg) ==
  /\ \A u \in Accounts :
        reg.isActiveUser[u] =>
          /\ reg.activeUserIndex[u] < Len(reg.activeUsers)
          /\ reg.activeUsers[reg.activeUserIndex[u] + 1] = u
  /\ \A i \in 1 .. Len(reg.activeUsers) :
        /\ reg.isActiveUser[reg.activeUsers[i]]
        /\ reg.activeUserIndex[reg.activeUsers[i]] = i - 1
===============================================================================
