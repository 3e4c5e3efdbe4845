--------------------------- MODULE ActiveUsersProofs ---------------------------
(*****************************************************************************)
(* What _activateUser and _deactivateUser do to a consistent registry, for   *)
(* any set of accounts.  The proofs about the list on its own and about the  *)
(* contract both cite these lemmas and never look at the array again.        *)
(*****************************************************************************)
EXTENDS ActiveUsers, SequenceTheorems, TLAPS

(* A freshly deployed contract has a consistent, empty registry.             *)
LEMMA EmptyRegistryConsistent ==
  /\ EmptyRegistry \in Registry
  /\ RegistryConsistent(EmptyRegistry)
  /\ Listed(EmptyRegistry) = {}
<1>1. EmptyRegistry \in Registry
  BY DEF EmptyRegistry, Registry
<1>2. Len(EmptyRegistry.activeUsers) = 0
  BY DEF EmptyRegistry
<1>3. QED
  BY <1>1, <1>2 DEF EmptyRegistry, RegistryConsistent, Listed

(* In a consistent registry an enumeration of the array meets exactly the    *)
(* accounts whose flag is set.                                               *)
LEMMA ListedIsFlagged ==
  ASSUME NEW reg \in Registry, RegistryConsistent(reg)
  PROVE  Listed(reg) = { u \in Accounts : reg.isActiveUser[u] }
<1>1. /\ reg.activeUsers \in Seq(Accounts)
      /\ reg.activeUserIndex \in [Accounts -> Nat]
      /\ Len(reg.activeUsers) \in Nat
  BY DEF Registry
<1>2. ASSUME NEW i \in 1 .. Len(reg.activeUsers)
      PROVE  reg.activeUsers[i] \in { u \in Accounts : reg.isActiveUser[u] }
  BY <1>1, ElementOfSeq DEF RegistryConsistent
<1>3. ASSUME NEW u \in Accounts, reg.isActiveUser[u]
      PROVE  u \in Listed(reg)
  <2>1. /\ reg.activeUserIndex[u] + 1 \in 1 .. Len(reg.activeUsers)
        /\ reg.activeUsers[reg.activeUserIndex[u] + 1] = u
    BY <1>1, <1>3 DEF RegistryConsistent
  <2>2. QED
    BY <2>1 DEF Listed
<1>4. QED
  BY <1>2, <1>3 DEF Listed

(* _activateUser lists u, keeps everybody else and keeps the three slots in  *)
(* agreement; calling it for a listed account changes nothing.               *)
LEMMA ActivateUserLists ==
  ASSUME NEW reg \in Registry, RegistryConsistent(reg), NEW u \in Accounts
  PROVE  LET new == ActivateUser(reg, u)
         IN  /\ new \in Registry
             /\ RegistryConsistent(new)
             /\ Listed(new) = Listed(reg) \cup {u}
             /\ new.isActiveUser = [reg.isActiveUser EXCEPT ![u] = TRUE]
<1> DEFINE new == ActivateUser(reg, u)
           n   == Len(reg.activeUsers)
<1>1. /\ reg.activeUsers \in Seq(Accounts)
      /\ reg.activeUserIndex \in [Accounts -> Nat]
      /\ reg.isActiveUser \in [Accounts -> BOOLEAN]
      /\ n \in Nat
  BY DEF Registry
<1>2. \A i \in 1 .. n : reg.activeUsers[i] \in Accounts
  BY <1>1, ElementOfSeq
<1>3. CASE reg.isActiveUser[u]
  <2>1. new = reg
    BY <1>3 DEF ActivateUser
  <2>2. u \in Listed(reg)
    BY <1>1, <1>3 DEF RegistryConsistent, Listed
  <2>3. reg.isActiveUser = [reg.isActiveUser EXCEPT ![u] = TRUE]
    BY <1>1, <1>3
  <2>4. QED
    BY <2>1, <2>2, <2>3
<1>4. CASE ~reg.isActiveUser[u]
  <2>1. /\ new.activeUsers = Append(reg.activeUsers, u)
        /\ new.activeUserIndex = [reg.activeUserIndex EXCEPT ![u] = n]
        /\ new.isActiveUser = [reg.isActiveUser EXCEPT ![u] = TRUE]
    BY <1>4 DEF ActivateUser
  <2>2. /\ new.activeUsers \in Seq(Accounts)
        /\ Len(new.activeUsers) = n + 1
        /\ \A i \in 1 .. n : new.activeUsers[i] = reg.activeUsers[i]
        /\ new.activeUsers[n + 1] = u
    BY <1>1, <2>1, AppendProperties
  <2>3. new \in Registry
    <3>1. new = [activeUsers     |-> new.activeUsers,
                 activeUserIndex |-> new.activeUserIndex,
                 isActiveUser    |-> new.isActiveUser]
      BY <1>4 DEF ActivateUser
    <3>2. /\ new.activeUserIndex \in [Accounts -> Nat]
          /\ new.isActiveUser \in [Accounts -> BOOLEAN]
      BY <1>1, <2>1
    <3> HIDE DEF new
    <3>3. QED
      BY <2>2, <3>1, <3>2 DEF Registry
  <2>4. \A i \in 1 .. n : reg.activeUsers[i] # u
    BY <1>4 DEF RegistryConsistent
  <2>5. ASSUME NEW v \in Accounts, new.isActiveUser[v]
        PROVE  /\ new.activeUserIndex[v] < Len(new.activeUsers)
               /\ new.activeUsers[new.activeUserIndex[v] + 1] = v
    <3>1. CASE v = u
      BY <1>1, <2>1, <2>2, <3>1
    <3>2. CASE v # u
      <4>1. reg.isActiveUser[v] /\ new.activeUserIndex[v] = reg.activeUserIndex[v]
        BY <1>1, <2>1, <2>5, <3>2
      <4>2. /\ reg.activeUserIndex[v] \in Nat
            /\ reg.activeUserIndex[v] < n
            /\ reg.activeUsers[reg.activeUserIndex[v] + 1] = v
        BY <1>1, <4>1 DEF RegistryConsistent
      <4>3. reg.activeUserIndex[v] + 1 \in 1 .. n
        BY <1>1, <4>2
      <4>4. new.activeUsers[reg.activeUserIndex[v] + 1] = v
        BY <2>2, <4>2, <4>3
      <4> HIDE DEF new
      <4>5. QED
        BY <1>1, <2>2, <4>1, <4>2, <4>4
    <3>3. QED
      BY <3>1, <3>2
  <2>6. ASSUME NEW i \in 1 .. Len(new.activeUsers)
        PROVE  /\ new.isActiveUser[new.activeUsers[i]]
               /\ new.activeUserIndex[new.activeUsers[i]] = i - 1
    <3>1. CASE i = n + 1
      BY <1>1, <2>1, <2>2, <3>1
    <3>2. CASE i \in 1 .. n
      <4> DEFINE v == reg.activeUsers[i]
      <4>1. v \in Accounts /\ reg.isActiveUser[v] /\ reg.activeUserIndex[v] = i - 1
        BY <1>2, <3>2 DEF RegistryConsistent
      <4>2. new.activeUsers[i] = v /\ v # u
        BY <2>2, <2>4, <3>2
      <4> HIDE DEF v, new
      <4>3. /\ new.isActiveUser[v] = reg.isActiveUser[v]
            /\ new.activeUserIndex[v] = reg.activeUserIndex[v]
        <5>1. /\ new.activeUserIndex = [reg.activeUserIndex EXCEPT ![u] = n]
              /\ new.isActiveUser = [reg.isActiveUser EXCEPT ![u] = TRUE]
          BY <2>1
        <5>2. QED
          BY <1>1, <4>1, <4>2, <5>1
      <4>4. QED
        BY <4>1, <4>2, <4>3
    <3>3. QED
      BY <1>1, <2>2, <3>1, <3>2
  <2>7. RegistryConsistent(new)
    BY <2>5, <2>6 DEF RegistryConsistent
  <2>8. Listed(new) = Listed(reg) \cup {u}
    <3> HIDE DEF new
    <3>1. 1 .. Len(new.activeUsers) = (1 .. n) \cup {n + 1}
      BY <1>1, <2>2
    <3>2. Listed(new) = { new.activeUsers[i] : i \in (1 .. n) \cup {n + 1} }
      BY <3>1 DEF Listed
    <3>3. Listed(reg) = { new.activeUsers[i] : i \in 1 .. n }
      BY <2>2, Zenon DEF Listed
    <3>4. QED
      BY <2>2, <3>2, <3>3, Zenon
  <2>9. QED
    BY <2>1, <2>3, <2>7, <2>8
<1>5. QED
  BY <1>3, <1>4

(* _deactivateUser unlists u and nobody else: the account the swap moves     *)
(* into the gap stays listed, at its new position.  For an account that is   *)
(* not listed nothing changes.                                               *)
LEMMA DeactivateUserUnlists ==
  ASSUME NEW reg \in Registry, RegistryConsistent(reg), NEW u \in Accounts
  PROVE  LET new == DeactivateUser(reg, u)
         IN  /\ new \in Registry
             /\ RegistryConsistent(new)
             /\ Listed(new) = Listed(reg) \ {u}
             /\ new.isActiveUser = [reg.isActiveUser EXCEPT ![u] = FALSE]
<1> DEFINE new  == DeactivateUser(reg, u)
           n    == Len(reg.activeUsers)
           idx  == reg.activeUserIndex[u]
           last == reg.activeUsers[n]
<1>1. /\ reg.activeUsers \in Seq(Accounts)
      /\ reg.activeUserIndex \in [Accounts -> Nat]
      /\ reg.isActiveUser \in [Accounts -> BOOLEAN]
      /\ n \in Nat
  BY DEF Registry
<1>2. \A i \in 1 .. n : reg.activeUsers[i] \in Accounts
  BY <1>1, ElementOfSeq
<1>3. \A i \in 1 .. n : /\ reg.isActiveUser[reg.activeUsers[i]]
                        /\ reg.activeUserIndex[reg.activeUsers[i]] = i - 1
  BY DEF RegistryConsistent
<1>4. CASE ~reg.isActiveUser[u]
  <2>1. new = reg
    BY <1>4 DEF DeactivateUser
  <2>2. u \notin Listed(reg)
    BY <1>3, <1>4 DEF Listed
  <2>3. reg.isActiveUser = [reg.isActiveUser EXCEPT ![u] = FALSE]
    BY <1>1, <1>4
  <2>4. QED
    BY <2>1, <2>2, <2>3
<1>5. CASE reg.isActiveUser[u]
  <2>1. idx \in 0 .. n - 1 /\ n \in 1 .. n /\ reg.activeUsers[idx + 1] = u
    BY <1>1, <1>5 DEF RegistryConsistent
  <2>2. last \in Accounts /\ reg.activeUserIndex[last] = n - 1
    BY <1>2, <1>3, <2>1
  <2>3. /\ new.activeUsers \in Seq(Accounts)
        /\ Len(new.activeUsers) = n - 1
        /\ \A i \in 1 .. n - 1 :
              new.activeUsers[i] = IF i = idx + 1 THEN last ELSE reg.activeUsers[i]
    <3> DEFINE moved == IF idx = n - 1 THEN reg.activeUsers
                                       ELSE [reg.activeUsers EXCEPT ![idx + 1] = last]
    <3>1. new.activeUsers = SubSeq(moved, 1, n - 1)
      <4>1. CASE idx = n - 1
        BY <1>5, <4>1 DEF DeactivateUser
      <4>2. CASE idx # n - 1
        BY <1>5, <4>2 DEF DeactivateUser, MoveLast
      <4>3. QED
        BY <4>1, <4>2
    <3>2. /\ moved \in Seq(Accounts)
          /\ Len(moved) = n
          /\ \A i \in 1 .. n - 1 :
                moved[i] = IF i = idx + 1 THEN last ELSE reg.activeUsers[i]
      <4>1. CASE idx = n - 1
        BY <1>1, <2>1, <4>1
      <4>2. CASE idx # n - 1
        <5> DEFINE q == reg.activeUsers
        <5>1. moved = [q EXCEPT ![idx + 1] = last]
          BY <4>2
        <5>2. idx + 1 \in 1 .. n
          BY <1>1, <2>1
        <5>3. q \in Seq(Accounts) /\ Len(q) = n /\ n \in Nat /\ last \in Accounts
          BY <1>1, <2>2
        <5>4. /\ moved \in Seq(Accounts)
              /\ Len(moved) = n
              /\ \A i \in 1 .. n : moved[i] = IF i = idx + 1 THEN last ELSE q[i]
          <6> HIDE DEF moved, q, idx, last, n
          <6>1. idx + 1 \in 1 .. Len(q)
            BY <5>2, <5>3
          <6>2. /\ [q EXCEPT ![idx + 1] = last] \in Seq(Accounts)
                /\ Len([q EXCEPT ![idx + 1] = last]) = Len(q)
                /\ \A i \in 1 .. Len(q) : [q EXCEPT ![idx + 1] = last][i]
                                            = IF i = idx + 1 THEN last ELSE q[i]
            BY <5>3, <6>1, ExceptSeq
          <6>3. QED
            BY <5>1, <5>3, <6>2
        <5> HIDE DEF moved
        <5>5. QED
          BY <5>3, <5>4
      <4>3. QED
        BY <4>1, <4>2
    <3> HIDE DEF moved
    <3>3. QED
      BY <1>1, <2>1, <3>1, <3>2, SubSeqProperties
  <2>4. /\ new.activeUserIndex \in [Accounts -> Nat]
        /\ \A v \in Accounts : new.activeUserIndex[v] =
              IF v = u THEN 0 ELSE IF v = last THEN idx ELSE reg.activeUserIndex[v]
    <3>1. CASE idx = n - 1
      <4>1. last = u
        BY <2>1, <3>1
      <4>2. new.activeUserIndex = [reg.activeUserIndex EXCEPT ![u] = 0]
        BY <1>5, <3>1 DEF DeactivateUser
      <4>3. QED
        BY <1>1, <4>1, <4>2
    <3>2. CASE idx # n - 1
      <4>1. new.activeUserIndex
              = [[reg.activeUserIndex EXCEPT ![last] = idx] EXCEPT ![u] = 0]
        BY <1>1, <1>5, <3>2 DEF DeactivateUser, MoveLast
      <4>2. idx \in Nat /\ last # u
        BY <1>1, <2>1, <2>2, <3>2
      <4> HIDE DEF new, idx, last, n
      <4>3. QED
        BY <1>1, <2>2, <4>1, <4>2
    <3>3. QED
      BY <3>1, <3>2
  <2>5. new.isActiveUser = [reg.isActiveUser EXCEPT ![u] = FALSE]
    BY <1>5 DEF DeactivateUser, MoveLast
  <2>6. new = [activeUsers     |-> new.activeUsers,
               activeUserIndex |-> new.activeUserIndex,
               isActiveUser    |-> new.isActiveUser]
    BY <1>5 DEF DeactivateUser
  <2> HIDE DEF new
  <2>7. new \in Registry
    <3>1. new.isActiveUser \in [Accounts -> BOOLEAN]
      BY <1>1, <2>5
    <3> HIDE DEF last, idx, n
    <3>2. QED
      BY <2>3, <2>4, <2>6, <3>1 DEF Registry
  <2>8. /\ \A v \in Accounts : new.isActiveUser[v] <=> (v # u /\ reg.isActiveUser[v])
        /\ \A v \in Accounts : reg.isActiveUser[v] =>
              /\ reg.activeUserIndex[v] \in 0 .. n - 1
              /\ reg.activeUsers[reg.activeUserIndex[v] + 1] = v
    BY <1>1, <2>5 DEF RegistryConsistent
  <2>9. /\ \A v \in Accounts : new.isActiveUser[v] =>
              /\ new.activeUserIndex[v] < n - 1
              /\ new.activeUsers[new.activeUserIndex[v] + 1] = v
        /\ \A i \in 1 .. n - 1 : /\ new.isActiveUser[new.activeUsers[i]]
                                 /\ new.activeUserIndex[new.activeUsers[i]] = i - 1
    <3> DEFINE q   == reg.activeUsers       q2   == new.activeUsers
               pos == reg.activeUserIndex   pos2 == new.activeUserIndex
               flag == reg.isActiveUser     flag2 == new.isActiveUser
    <3>1. /\ n \in Nat
          /\ last \in Accounts
          /\ last = q[n]
          /\ flag[u]
      BY <1>1, <1>5, <2>2
    <3>2. \A i \in 1 .. n : q[i] \in Accounts /\ flag[q[i]] /\ pos[q[i]] = i - 1
      BY <1>2, <1>3
    <3>3. \A v \in Accounts : flag[v] => pos[v] \in 0 .. n - 1 /\ q[pos[v] + 1] = v
      BY <2>8
    <3>4. \A i \in 1 .. n - 1 : q2[i] = IF i = pos[u] + 1 THEN last ELSE q[i]
      BY <2>3
    <3>5. \A v \in Accounts :
            pos2[v] = IF v = u THEN 0 ELSE IF v = last THEN pos[u] ELSE pos[v]
      BY <2>4
    <3>6. \A v \in Accounts : flag2[v] <=> (v # u /\ flag[v])
      BY <2>8
    <3> HIDE DEF n, idx, last, q, q2, pos, pos2, flag, flag2
    <3>7. /\ \A v \in Accounts : flag2[v] =>
               pos2[v] < n - 1 /\ q2[pos2[v] + 1] = v
          /\ \A i \in 1 .. n - 1 : flag2[q2[i]] /\ pos2[q2[i]] = i - 1
      <4>1. /\ n \in 1 .. n
            /\ pos[u] \in 0 .. n - 1
            /\ pos[last] = n - 1
            /\ flag[last]
        BY <3>1, <3>2, <3>3
      <4>2. ASSUME NEW v \in Accounts, flag2[v]
            PROVE  pos2[v] < n - 1 /\ q2[pos2[v] + 1] = v
        <5>1. /\ v # u
              /\ flag[v]
              /\ pos[v] \in 0 .. n - 1
              /\ q[pos[v] + 1] = v
          BY <3>3, <3>6, <4>2
        <5>2. CASE v = last
          <6>1. pos2[v] = pos[u] /\ pos[u] # n - 1
            BY <3>1, <3>3, <3>5, <4>1, <5>1, <5>2
          <6>2. QED
            BY <3>1, <3>3, <3>4, <4>1, <5>2, <6>1
        <5>3. CASE v # last
          <6>1. pos2[v] = pos[v] /\ pos[v] # n - 1 /\ pos[v] # pos[u]
            BY <3>1, <3>3, <3>5, <4>1, <5>1, <5>3
          <6>2. QED
            BY <3>1, <3>4, <4>1, <5>1, <6>1
        <5>4. QED
          BY <5>2, <5>3
      <4>3. ASSUME NEW i \in 1 .. n - 1
            PROVE  flag2[q2[i]] /\ pos2[q2[i]] = i - 1
        <5>1. CASE i = pos[u] + 1
          <6>1. q2[i] = last /\ last # u
            BY <3>1, <3>4, <4>1, <5>1
          <6>2. QED
            BY <3>1, <3>5, <3>6, <4>1, <5>1, <6>1
        <5>2. CASE i # pos[u] + 1
          <6>1. /\ q2[i] = q[i]
                /\ q[i] \in Accounts
                /\ flag[q[i]]
                /\ pos[q[i]] = i - 1
            BY <3>1, <3>2, <3>4, <4>1, <5>2
          <6>2. q[i] # u /\ q[i] # last
            BY <3>1, <4>1, <5>2, <6>1
          <6>3. QED
            BY <3>5, <3>6, <6>1, <6>2
        <5>3. QED
          BY <5>1, <5>2
      <4>4. QED
        BY <4>2, <4>3
    <3>8. QED
      BY <3>7 DEF q2, pos2, flag2
  <2>10. RegistryConsistent(new)
    BY <2>3, <2>9 DEF RegistryConsistent
  <2>11. Listed(new) = Listed(reg) \ {u}
    BY <2>7, <2>8, <2>10, ListedIsFlagged
  <2>12. QED
    BY <2>5, <2>7, <2>10, <2>11 DEF new
<1>6. QED
  BY <1>4, <1>5
===============================================================================
