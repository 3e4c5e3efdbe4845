---------------------------- MODULE GlowStickProofs ----------------------------
(*****************************************************************************)
(* The accounting of GlowStick.sol, for every set of accounts, every stake,  *)
(* price and duration, and every nesting of calls.                           *)
(*                                                                           *)
(* A failed call restores a storage that was saved earlier, so an invariant  *)
(* of store alone is not inductive: nothing would be known of the storage    *)
(* that comes back.  The invariant below holds of every saved storage too,   *)
(* and says of the one saved before a payout that it falls short by exactly  *)
(* that payout, which is what makes queueing it correct.                     *)
(*                                                                           *)
(* The totals over all accounts come last: sums over a finite set, whose     *)
(* laws are proved by induction on the set, then what each handler moves.    *)
(*****************************************************************************)
EXTENDS GlowStickBooks, ActiveUsersProofs, FiniteSetTheorems, WellFoundedInduction

PayoutBooks(s) ==
  \A v \in Accounts :
    s.ledger.entitled[v] = s.ledger.paid[v] + s.pendingWithdrawals[v]

PayoutBooksBut(s, u, amount) ==
  \A v \in Accounts :
    s.ledger.entitled[v] =
      s.ledger.paid[v] + s.pendingWithdrawals[v] + (IF v = u THEN amount ELSE 0)

GiftBooks(s) ==
  \A v \in Accounts :
    s.ledger.gifts[v] = IF s.hasUsedFaucet[v] THEN FAUCET_AMOUNT ELSE 0

StakeBooks(s) ==
  \A v \in Accounts :
    s.ledger.staked[v] = s.ledger.resolved[v] + OpenStake(s, v) + s.ledger.replaced[v]

(* All the books but those of the payouts.                                   *)
OtherBooks(s) ==
  /\ s \in Store
  /\ RegistryConsistent(s.registry)
  /\ GiftBooks(s)
  /\ s.treasuryFees + s.ledger.withdrawn = s.ledger.earned
  /\ StakeBooks(s)

(* The books are balanced, except that u has yet to receive amount.          *)
Short(s, u, amount) == OtherBooks(s) /\ PayoutBooksBut(s, u, amount)

(* The books are balanced.                                                   *)
Balanced(s) == OtherBooks(s) /\ PayoutBooks(s)

FrameInv(f) ==
  /\ Balanced(f.entry)
  /\ f.kind = "settle" => Short(f.atCall, f.callee, f.amount)

BooksInv ==
  /\ Balanced(store)
  /\ stack \in Seq(Frames)
  /\ \A i \in 1 .. Len(stack) : FrameInv(stack[i])
  /\ now \in Nat

-------------------------------------------------------------------------------
(* The fee is between nothing and the whole stake.                           *)
LEMMA FeeWithinStake ==
  ASSUME NEW amount \in Nat
  PROVE  Fee(amount) \in 0 .. amount
<1>1. /\ amount * 15 \in Nat
      /\ (amount * 15) \div 1000 \in Int
      /\ 1000 * ((amount * 15) \div 1000) <= amount * 15
      /\ (amount * 15) \div 1000 >= 0
  OBVIOUS
<1>2. QED
  BY <1>1 DEF Fee, FEE_PERCENTAGE

(* Whatever the stake, a win pays between the stake and its double, and what *)
(* it does not pay of the double is the fee (calculateWinPayout).            *)
THEOREM WinPaysBetweenStakeAndDouble ==
  ASSUME NEW amount \in Nat
  PROVE  /\ CalculateWinPayout(amount) \in amount .. 2 * amount
         /\ CalculateWinPayout(amount) + Fee(amount) = 2 * amount
BY FeeWithinStake DEF CalculateWinPayout

(* Payout and share of the house are amounts, and together they are what the *)
(* round has to distribute: its stake, and as much again if it is won.       *)
LEMMA PayoutsAreZeroSum ==
  ASSUME NEW r \in UserRound, NEW price \in Int
  PROVE  /\ Payout(r, price) \in Nat
         /\ HouseShare(r, price) \in Nat
         /\ Payout(r, price) + HouseShare(r, price)
              = r.amount + IF IsWon(r, price) THEN r.amount ELSE 0
<1>1. r.amount \in Nat
  BY DEF UserRound
<1>2. /\ CalculateWinPayout(r.amount) \in Nat
      /\ Fee(r.amount) \in Nat
      /\ CalculateWinPayout(r.amount) + Fee(r.amount) = r.amount + r.amount
  BY <1>1, FeeWithinStake DEF CalculateWinPayout
<1>3. CASE IsDraw(r, price)
  BY <1>1, <1>3 DEF Payout, HouseShare, IsWon
<1>4. CASE ~IsDraw(r, price) /\ IsWon(r, price)
  BY <1>1, <1>2, <1>4 DEF Payout, HouseShare
<1>5. CASE ~IsDraw(r, price) /\ ~IsWon(r, price)
  BY <1>1, <1>5 DEF Payout, HouseShare
<1>6. QED
  BY <1>3, <1>4, <1>5

-------------------------------------------------------------------------------
(* What each piece of a function does to the books.                          *)

(* The types of the parts of a storage, for the provers.                     *)
LEMMA StoreParts ==
  ASSUME NEW s \in Store
  PROVE  /\ s.balance \in Nat /\ s.treasuryFees \in Nat
         /\ s.pendingWithdrawals \in [Accounts -> Nat]
         /\ s.activeRounds \in [Accounts -> UserRound]
         /\ s.userRoundNonce \in [Accounts -> Nat]
         /\ s.registry \in Registry
         /\ s.hasUsedFaucet \in [Accounts -> BOOLEAN]
         /\ s.ledger \in Ledger
         /\ s.ledger.staked \in [Accounts -> Nat]
         /\ s.ledger.resolved \in [Accounts -> Nat]
         /\ s.ledger.replaced \in [Accounts -> Nat]
         /\ s.ledger.entitled \in [Accounts -> Nat]
         /\ s.ledger.paid \in [Accounts -> Nat]
         /\ s.ledger.gifts \in [Accounts -> Nat]
         /\ s.ledger.won \in Nat /\ s.ledger.earned \in Nat
         /\ s.ledger.withdrawn \in Nat /\ s.ledger.donated \in Nat
BY DEF Store, Ledger

(* The stake that arrives with a bet changes no account of the books.        *)
LEMMA AcceptKeepsBooks ==
  ASSUME NEW s, Balanced(s), NEW amount \in Nat
  PROVE  Balanced(Accept(s, amount))
<1> DEFINE new == Accept(s, amount)
<1>1. s \in Store
  BY DEF Balanced, OtherBooks
<1>2. new \in Store
  BY <1>1 DEF Accept, Store
<1>3. /\ new.ledger = s.ledger
      /\ new.pendingWithdrawals = s.pendingWithdrawals
      /\ new.hasUsedFaucet = s.hasUsedFaucet
      /\ new.activeRounds = s.activeRounds
      /\ new.treasuryFees = s.treasuryFees
      /\ new.registry = s.registry
  BY <1>1 DEF Accept, Store
<1> HIDE DEF new
<1>4. Balanced(new)
  BY <1>2, <1>3
     DEF Balanced, OtherBooks, PayoutBooks, GiftBooks, StakeBooks, OpenStake, HasActiveRound
<1>5. QED
  BY <1>4 DEF new

(* new is s after the transfer of a call of this kind.                       *)
Sends(s, new, kind, u, amount) ==
  /\ new \in Store
  /\ new.balance = s.balance - amount
  /\ new.pendingWithdrawals = s.pendingWithdrawals
  /\ new.hasUsedFaucet = s.hasUsedFaucet
  /\ new.activeRounds = s.activeRounds
  /\ new.treasuryFees = s.treasuryFees
  /\ new.registry = s.registry
  /\ new.ledger.staked = s.ledger.staked
  /\ new.ledger.resolved = s.ledger.resolved
  /\ new.ledger.replaced = s.ledger.replaced
  /\ new.ledger.entitled = s.ledger.entitled
  /\ new.ledger.won = s.ledger.won
  /\ new.ledger.earned = s.ledger.earned
  /\ new.ledger.donated = s.ledger.donated
  /\ new.ledger.paid = IF kind \in {"settle", "claim"}
                       THEN [s.ledger.paid EXCEPT ![u] = @ + amount] ELSE s.ledger.paid
  /\ new.ledger.gifts = IF kind = "faucet"
                        THEN [s.ledger.gifts EXCEPT ![u] = @ + amount] ELSE s.ledger.gifts
  /\ new.ledger.withdrawn = IF kind = "fees"
                            THEN s.ledger.withdrawn + amount ELSE s.ledger.withdrawn

(* A low-level call moves ether and is counted by what it pays for.          *)
LEMMA SendSends ==
  ASSUME NEW s \in Store, NEW u \in Accounts, NEW amount \in Nat, amount <= s.balance,
         NEW kind \in {"settle", "claim", "faucet", "fees"}
  PROVE  Sends(s, Send(s, kind, u, amount), kind, u, amount)
<1> DEFINE new == Send(s, kind, u, amount)
<1>1. ASSUME NEW l \in Ledger, new = [s EXCEPT !.balance = @ - amount, !.ledger = l]
      PROVE  /\ new \in Store
             /\ new.balance = s.balance - amount
             /\ new.ledger = l
             /\ new.pendingWithdrawals = s.pendingWithdrawals
             /\ new.hasUsedFaucet = s.hasUsedFaucet
             /\ new.activeRounds = s.activeRounds
             /\ new.treasuryFees = s.treasuryFees
             /\ new.registry = s.registry
  <2>1. s.balance - amount \in Nat
    BY StoreParts
  <2> HIDE DEF new
  <2>2. QED
    BY <1>1, <2>1 DEF Store
<1>2. CASE kind \in {"settle", "claim"}
  <2> DEFINE l == [s.ledger EXCEPT !.paid[u] = @ + amount]
  <2>1. new = [s EXCEPT !.balance = @ - amount, !.ledger = l]
    BY <1>2, Zenon DEF Send
  <2>2. /\ l \in Ledger
        /\ l.paid = [s.ledger.paid EXCEPT ![u] = @ + amount]
        /\ l.staked = s.ledger.staked
        /\ l.resolved = s.ledger.resolved
        /\ l.replaced = s.ledger.replaced
        /\ l.entitled = s.ledger.entitled
        /\ l.gifts = s.ledger.gifts
        /\ l.won = s.ledger.won
        /\ l.earned = s.ledger.earned
        /\ l.withdrawn = s.ledger.withdrawn
        /\ l.donated = s.ledger.donated
    <3>1. l = [s.ledger EXCEPT !.paid = [s.ledger.paid EXCEPT ![u] = @ + amount]]
      BY StoreParts DEF Ledger
    <3>2. [s.ledger.paid EXCEPT ![u] = @ + amount] \in [Accounts -> Nat]
      BY StoreParts
    <3> HIDE DEF l
    <3>3. QED
      BY <3>1, <3>2, StoreParts DEF Ledger
  <2> HIDE DEF l, new
  <2>3. Sends(s, new, kind, u, amount)
    BY <1>1, <1>2, <2>1, <2>2 DEF Sends
  <2>4. QED
    BY <2>3 DEF new
<1>3. CASE kind = "faucet"
  <2> DEFINE l == [s.ledger EXCEPT !.gifts[u] = @ + amount]
  <2>1. new = [s EXCEPT !.balance = @ - amount, !.ledger = l]
    BY <1>3, Zenon DEF Send
  <2>2. /\ l \in Ledger
        /\ l.gifts = [s.ledger.gifts EXCEPT ![u] = @ + amount]
        /\ l.staked = s.ledger.staked
        /\ l.resolved = s.ledger.resolved
        /\ l.replaced = s.ledger.replaced
        /\ l.entitled = s.ledger.entitled
        /\ l.paid = s.ledger.paid
        /\ l.won = s.ledger.won
        /\ l.earned = s.ledger.earned
        /\ l.withdrawn = s.ledger.withdrawn
        /\ l.donated = s.ledger.donated
    <3>1. l = [s.ledger EXCEPT !.gifts = [s.ledger.gifts EXCEPT ![u] = @ + amount]]
      BY StoreParts DEF Ledger
    <3>2. [s.ledger.gifts EXCEPT ![u] = @ + amount] \in [Accounts -> Nat]
      BY StoreParts
    <3> HIDE DEF l
    <3>3. QED
      BY <3>1, <3>2, StoreParts DEF Ledger
  <2> HIDE DEF l, new
  <2>3. Sends(s, new, kind, u, amount)
    BY <1>1, <1>3, <2>1, <2>2 DEF Sends
  <2>4. QED
    BY <2>3 DEF new
<1>4. CASE kind = "fees"
  <2> DEFINE l == [s.ledger EXCEPT !.withdrawn = @ + amount]
  <2>1. new = [s EXCEPT !.balance = @ - amount, !.ledger = l]
    BY <1>4, Zenon DEF Send
  <2>2. /\ l \in Ledger
        /\ l.withdrawn = s.ledger.withdrawn + amount
        /\ l.staked = s.ledger.staked
        /\ l.resolved = s.ledger.resolved
        /\ l.replaced = s.ledger.replaced
        /\ l.entitled = s.ledger.entitled
        /\ l.paid = s.ledger.paid
        /\ l.gifts = s.ledger.gifts
        /\ l.won = s.ledger.won
        /\ l.earned = s.ledger.earned
        /\ l.donated = s.ledger.donated
    BY StoreParts DEF Ledger
  <2> HIDE DEF l, new
  <2>3. Sends(s, new, kind, u, amount)
    BY <1>1, <1>4, <2>1, <2>2 DEF Sends
  <2>4. QED
    BY <2>3 DEF new
<1>5. QED
  BY <1>2, <1>3, <1>4

(* The ether of a payout makes good what the resolved round is short of.     *)
LEMMA SendBalances ==
  ASSUME NEW s, NEW u \in Accounts, NEW amount \in Nat, Short(s, u, amount),
         amount <= s.balance, NEW kind \in {"settle", "claim"}
  PROVE  Balanced(Send(s, kind, u, amount))
<1> DEFINE new == Send(s, kind, u, amount)
<1>1. s \in Store
  BY DEF Short, OtherBooks
<1>2. Sends(s, new, kind, u, amount)
  BY <1>1, SendSends
<1> HIDE DEF new
<1>3. OtherBooks(new)
  BY <1>1, <1>2, StoreParts
     DEF Sends, Short, OtherBooks, GiftBooks, StakeBooks, OpenStake, HasActiveRound
<1>4. ASSUME NEW v \in Accounts
      PROVE  new.ledger.entitled[v] = new.ledger.paid[v] + new.pendingWithdrawals[v]
  <2>1. /\ s.ledger.paid \in [Accounts -> Nat]
        /\ s.pendingWithdrawals[v] \in Nat
        /\ s.ledger.entitled[v] \in Nat
    BY <1>1, StoreParts
  <2>2. s.ledger.entitled[v] =
           s.ledger.paid[v] + s.pendingWithdrawals[v] + (IF v = u THEN amount ELSE 0)
    BY DEF Short, PayoutBooksBut
  <2>3. QED
    BY <1>2, <2>1, <2>2 DEF Sends
<1>5. QED
  BY <1>3, <1>4 DEF Balanced, PayoutBooks, new

(* So does the entry in pendingWithdrawals, when the transfer fails.         *)
LEMMA QueueBalances ==
  ASSUME NEW s, NEW u \in Accounts, NEW amount \in Nat, Short(s, u, amount)
  PROVE  Balanced(QueuePayout(s, u, amount))
<1> DEFINE new == QueuePayout(s, u, amount)
<1>1. s \in Store
  BY DEF Short, OtherBooks
<1>2. new \in Store
  BY <1>1 DEF QueuePayout, Store
<1>3. /\ new.pendingWithdrawals = [s.pendingWithdrawals EXCEPT ![u] = @ + amount]
      /\ new.ledger = s.ledger
      /\ new.hasUsedFaucet = s.hasUsedFaucet
      /\ new.activeRounds = s.activeRounds
      /\ new.treasuryFees = s.treasuryFees
      /\ new.registry = s.registry
  BY <1>1 DEF QueuePayout, Store
<1> HIDE DEF new
<1>4. OtherBooks(new)
  BY <1>2, <1>3
     DEF Short, OtherBooks, GiftBooks, StakeBooks, OpenStake, HasActiveRound
<1>5. ASSUME NEW v \in Accounts
      PROVE  new.ledger.entitled[v] = new.ledger.paid[v] + new.pendingWithdrawals[v]
  <2>1. /\ s.ledger.paid[v] \in Nat
        /\ s.pendingWithdrawals \in [Accounts -> Nat]
        /\ s.ledger.entitled[v] \in Nat
    BY <1>1, StoreParts
  <2>2. s.ledger.entitled[v] =
           s.ledger.paid[v] + s.pendingWithdrawals[v] + (IF v = u THEN amount ELSE 0)
    BY DEF Short, PayoutBooksBut
  <2>3. QED
    BY <1>3, <2>1, <2>2
<1>6. QED
  BY <1>4, <1>5 DEF Balanced, PayoutBooks, new

(* A lost round has no payout to make good.                                  *)
LEMMA NothingShort ==
  ASSUME NEW s, NEW u, Short(s, u, 0)
  PROVE  Balanced(s)
<1>1. s \in Store
  BY DEF Short, OtherBooks
<1>2. ASSUME NEW v \in Accounts
      PROVE  s.ledger.entitled[v] = s.ledger.paid[v] + s.pendingWithdrawals[v]
  <2>1. s.ledger.paid[v] \in Nat /\ s.pendingWithdrawals[v] \in Nat
    BY <1>1, StoreParts
  <2>2. s.ledger.entitled[v] =
           s.ledger.paid[v] + s.pendingWithdrawals[v] + (IF v = u THEN 0 ELSE 0)
    BY DEF Short, PayoutBooksBut
  <2>3. QED
    BY <2>1, <2>2
<1>3. QED
  BY <1>2 DEF Short, Balanced, PayoutBooks

(* new is s after _settleRound up to the transfer, for the round r of u.     *)
Resolves(s, new, u, r, price) ==
  /\ new \in Store
  /\ new.activeRounds = [s.activeRounds EXCEPT ![u] = Settled(r, price)]
  /\ new.treasuryFees = s.treasuryFees + HouseShare(r, price)
  /\ new.ledger.resolved = [s.ledger.resolved EXCEPT ![u] = @ + r.amount]
  /\ new.ledger.entitled = [s.ledger.entitled EXCEPT ![u] = @ + Payout(r, price)]
  /\ new.ledger.won = s.ledger.won + (IF IsWon(r, price) THEN r.amount ELSE 0)
  /\ new.ledger.earned = s.ledger.earned + HouseShare(r, price)
  /\ new.ledger.staked = s.ledger.staked
  /\ new.ledger.replaced = s.ledger.replaced
  /\ new.ledger.paid = s.ledger.paid
  /\ new.ledger.gifts = s.ledger.gifts
  /\ new.ledger.withdrawn = s.ledger.withdrawn
  /\ new.ledger.donated = s.ledger.donated
  /\ new.balance = s.balance
  /\ new.pendingWithdrawals = s.pendingWithdrawals
  /\ new.hasUsedFaucet = s.hasUsedFaucet
  /\ new.registry = s.registry

(* A settled round keeps its number.                                         *)
LEMMA SettledIsRound ==
  ASSUME NEW r \in UserRound, NEW price \in Int
  PROVE  /\ Settled(r, price) \in UserRound
         /\ Settled(r, price).roundId = r.roundId
         /\ Settled(r, price).settled
BY DEF Settled, UserRound

(* What _settleRound has written when it comes to the transfer.              *)
LEMMA ResolveRoundResolves ==
  ASSUME NEW s \in Store, NEW u \in Accounts, NEW price \in Int
  PROVE  Resolves(s, ResolveRound(s, u, price), u, s.activeRounds[u], price)
<1> DEFINE r      == s.activeRounds[u]
           new    == ResolveRound(s, u, price)
           payout == Payout(r, price)
           share  == HouseShare(r, price)
           extra  == IF IsWon(r, price) THEN r.amount ELSE 0
           old    == s.ledger
           l      == Distribute(old, u, r, price)
<1>1. r \in UserRound /\ r.amount \in Nat
  BY StoreParts DEF UserRound
<1>2. payout \in Nat /\ share \in Nat /\ extra \in Nat
  BY <1>1, PayoutsAreZeroSum
<1>3. Settled(r, price) \in UserRound
  BY <1>1, SettledIsRound
<1>4. l = [old EXCEPT !.resolved[u] = @ + r.amount,
                      !.entitled[u] = @ + payout,
                      !.won         = @ + extra,
                      !.earned      = @ + share]
  BY DEF Distribute
<1> HIDE DEF payout, share, extra, l, r
<1>5. /\ new.activeRounds = [s.activeRounds EXCEPT ![u] = Settled(r, price)]
      /\ new.treasuryFees = s.treasuryFees + share
      /\ new.ledger = l
      /\ new = [s EXCEPT !.activeRounds = new.activeRounds,
                         !.treasuryFees = new.treasuryFees,
                         !.ledger       = new.ledger]
  BY DEF ResolveRound, Store, share, l, r
<1>6. /\ old \in Ledger
      /\ old.resolved \in [Accounts -> Nat]
      /\ old.entitled \in [Accounts -> Nat]
      /\ old.won \in Nat
      /\ old.earned \in Nat
  BY StoreParts
<1> HIDE DEF old
<1>7. /\ l.resolved = [old.resolved EXCEPT ![u] = @ + r.amount]
      /\ l.entitled = [old.entitled EXCEPT ![u] = @ + payout]
      /\ l.won = old.won + extra
      /\ l.earned = old.earned + share
      /\ l.staked = old.staked
      /\ l.replaced = old.replaced
      /\ l.paid = old.paid
      /\ l.gifts = old.gifts
      /\ l.withdrawn = old.withdrawn
      /\ l.donated = old.donated
      /\ l = [staked |-> l.staked, resolved |-> l.resolved,
              replaced |-> l.replaced, entitled |-> l.entitled,
              paid |-> l.paid, gifts |-> l.gifts, won |-> l.won,
              earned |-> l.earned, withdrawn |-> l.withdrawn,
              donated |-> l.donated]
  BY <1>4, <1>6 DEF Ledger
<1>8. /\ l.resolved \in [Accounts -> Nat]
      /\ l.entitled \in [Accounts -> Nat]
      /\ l.won \in Nat
      /\ l.earned \in Nat
  BY <1>1, <1>2, <1>6, <1>7
<1>9. /\ old.staked \in [Accounts -> Nat]
      /\ old.replaced \in [Accounts -> Nat]
      /\ old.paid \in [Accounts -> Nat]
      /\ old.gifts \in [Accounts -> Nat]
      /\ old.withdrawn \in Nat
      /\ old.donated \in Nat
  BY <1>6 DEF Ledger
<1>10. l \in Ledger
  BY <1>7, <1>8, <1>9 DEF Ledger
<1>11. /\ new \in Store
       /\ new.balance = s.balance
       /\ new.pendingWithdrawals = s.pendingWithdrawals
       /\ new.hasUsedFaucet = s.hasUsedFaucet
       /\ new.registry = s.registry
  <2>1. new.treasuryFees \in Nat /\ new.activeRounds \in [Accounts -> UserRound]
    BY <1>1, <1>2, <1>3, <1>5, StoreParts
  <2>2. QED
    BY <1>5, <1>10, <2>1 DEF Store
<1>12. Resolves(s, new, u, r, price)
  BY <1>5, <1>7, <1>11 DEF Resolves, payout, share, extra, old
<1>13. QED
  BY <1>12 DEF new, r

(* _settleRound up to the transfer leaves the player short of the payout,    *)
(* and only that: the stake moves from the open round to the settled ones,   *)
(* and the treasury has its share.                                           *)
LEMMA ResolveLeavesShort ==
  ASSUME NEW s, Balanced(s), NEW u \in Accounts, HasActiveRound(s, u),
         NEW price \in Int
  PROVE  /\ Payout(s.activeRounds[u], price) \in Nat
         /\ Short(ResolveRound(s, u, price), u, Payout(s.activeRounds[u], price))
<1> DEFINE r      == s.activeRounds[u]
           new    == ResolveRound(s, u, price)
           payout == Payout(r, price)
           share  == HouseShare(r, price)
           extra  == IF IsWon(r, price) THEN r.amount ELSE 0
<1>1. s \in Store /\ r \in UserRound /\ r.amount \in Nat
  BY StoreParts DEF Balanced, OtherBooks, UserRound
<1>2. payout \in Nat /\ share \in Nat /\ extra \in Nat
  BY <1>1, PayoutsAreZeroSum
<1>3. /\ Resolves(s, new, u, r, price)
      /\ Settled(r, price).roundId = r.roundId
      /\ Settled(r, price).settled
  BY <1>1, ResolveRoundResolves, SettledIsRound
<1> HIDE DEF new
<1>4. /\ new \in Store
      /\ new.activeRounds = [s.activeRounds EXCEPT ![u] = Settled(r, price)]
      /\ new.treasuryFees = s.treasuryFees + share
      /\ new.pendingWithdrawals = s.pendingWithdrawals
      /\ new.hasUsedFaucet = s.hasUsedFaucet
      /\ new.registry = s.registry
      /\ new.ledger.resolved = [s.ledger.resolved EXCEPT ![u] = @ + r.amount]
      /\ new.ledger.entitled = [s.ledger.entitled EXCEPT ![u] = @ + payout]
      /\ new.ledger.earned = s.ledger.earned + share
      /\ new.ledger.staked = s.ledger.staked
      /\ new.ledger.replaced = s.ledger.replaced
      /\ new.ledger.paid = s.ledger.paid
      /\ new.ledger.gifts = s.ledger.gifts
      /\ new.ledger.withdrawn = s.ledger.withdrawn
  BY <1>3 DEF Resolves
<1> HIDE DEF payout, share, extra
<1>5. StakeBooks(new)
  <2> SUFFICES ASSUME NEW v \in Accounts
               PROVE  new.ledger.staked[v] =
                        new.ledger.resolved[v] + OpenStake(new, v) + new.ledger.replaced[v]
    BY DEF StakeBooks
  <2>1. /\ s.ledger.resolved \in [Accounts -> Nat]
        /\ s.ledger.replaced[v] \in Nat
        /\ s.activeRounds \in [Accounts -> UserRound]
    BY <1>1, StoreParts
  <2>2. s.ledger.staked[v] =
          s.ledger.resolved[v] + OpenStake(s, v) + s.ledger.replaced[v]
    BY DEF Balanced, OtherBooks, StakeBooks
  <2>3. CASE v = u
    <3>1. OpenStake(s, v) = r.amount
      BY <2>3 DEF OpenStake
    <3>2. OpenStake(new, v) = 0
      BY <1>3, <1>4, <2>1, <2>3 DEF OpenStake, HasActiveRound
    <3>3. QED
      BY <1>1, <1>4, <2>1, <2>2, <2>3, <3>1, <3>2
  <2>4. CASE v # u
    <3>1. OpenStake(new, v) = OpenStake(s, v)
      BY <1>4, <2>1, <2>4 DEF OpenStake, HasActiveRound
    <3>2. QED
      BY <1>4, <2>1, <2>2, <2>4, <3>1
  <2>5. QED
    BY <2>3, <2>4
<1>6. OtherBooks(new)
  <2>1. /\ s.treasuryFees + s.ledger.withdrawn = s.ledger.earned
        /\ s.treasuryFees \in Nat
        /\ s.ledger.withdrawn \in Nat
    BY <1>1, StoreParts DEF Balanced, OtherBooks
  <2>2. new.treasuryFees + new.ledger.withdrawn = new.ledger.earned
    BY <1>2, <1>4, <2>1
  <2>3. QED
    BY <1>4, <1>5, <2>2 DEF Balanced, OtherBooks, GiftBooks
<1>7. PayoutBooksBut(new, u, payout)
  <2> SUFFICES ASSUME NEW v \in Accounts
               PROVE  new.ledger.entitled[v] = new.ledger.paid[v]
                        + new.pendingWithdrawals[v] + (IF v = u THEN payout ELSE 0)
    BY DEF PayoutBooksBut
  <2>1. /\ s.ledger.entitled \in [Accounts -> Nat]
        /\ s.ledger.paid[v] \in Nat
        /\ s.pendingWithdrawals[v] \in Nat
    BY <1>1, StoreParts
  <2>2. s.ledger.entitled[v] = s.ledger.paid[v] + s.pendingWithdrawals[v]
    BY DEF Balanced, PayoutBooks
  <2>3. QED
    BY <1>2, <1>4, <2>1, <2>2
<1>8. QED
  BY <1>2, <1>6, <1>7 DEF Short, new, payout

(* Unlisting an account concerns the registry only.                          *)
LEMMA DelistKeepsBooks ==
  ASSUME NEW s, Balanced(s), NEW u \in Accounts
  PROVE  Balanced(Delist(s, u))
<1> DEFINE new == Delist(s, u)
<1>1. s \in Store /\ s.registry \in Registry /\ RegistryConsistent(s.registry)
  BY StoreParts DEF Balanced, OtherBooks
<1>2. new = [s EXCEPT !.registry = DeactivateUser(s.registry, u)]
  BY DEF Delist
<1>3. /\ DeactivateUser(s.registry, u) \in Registry
      /\ RegistryConsistent(DeactivateUser(s.registry, u))
  BY <1>1, DeactivateUserUnlists
<1>4. /\ new \in Store
      /\ new.ledger = s.ledger
      /\ new.pendingWithdrawals = s.pendingWithdrawals
      /\ new.hasUsedFaucet = s.hasUsedFaucet
      /\ new.activeRounds = s.activeRounds
      /\ new.treasuryFees = s.treasuryFees
      /\ new.registry = DeactivateUser(s.registry, u)
  BY <1>1, <1>2, <1>3 DEF Store
<1> HIDE DEF new
<1>5. Balanced(new)
  BY <1>3, <1>4
     DEF Balanced, OtherBooks, PayoutBooks, GiftBooks, StakeBooks, OpenStake, HasActiveRound
<1>6. QED
  BY <1>5 DEF new

(* new is s after the end of bet, with the bet b.                            *)
Places(s, new, u, b) ==
  /\ new \in Store
  /\ \A v \in Accounts : OpenStake(new, v) = IF v = u THEN b.amount ELSE OpenStake(s, v)
  /\ new.registry = ActivateUser(s.registry, u)
  /\ new.balance = s.balance
  /\ new.pendingWithdrawals = s.pendingWithdrawals
  /\ new.hasUsedFaucet = s.hasUsedFaucet
  /\ new.treasuryFees = s.treasuryFees
  /\ new.ledger.staked = [s.ledger.staked EXCEPT ![u] = @ + b.amount]
  /\ new.ledger.replaced = [s.ledger.replaced EXCEPT ![u] = @ + OpenStake(s, u)]
  /\ new.ledger.resolved = s.ledger.resolved
  /\ new.ledger.entitled = s.ledger.entitled
  /\ new.ledger.paid = s.ledger.paid
  /\ new.ledger.gifts = s.ledger.gifts
  /\ new.ledger.won = s.ledger.won
  /\ new.ledger.earned = s.ledger.earned
  /\ new.ledger.withdrawn = s.ledger.withdrawn
  /\ new.ledger.donated = s.ledger.donated

(* The stake of an account is an amount.                                     *)
LEMMA OpenStakeIsAmount ==
  ASSUME NEW s \in Store, NEW u \in Accounts
  PROVE  OpenStake(s, u) \in Nat
BY StoreParts DEF OpenStake, UserRound

(* bet writes a new round over whatever activeRounds holds.                  *)
LEMMA PlaceBetPlaces ==
  ASSUME NEW s \in Store, RegistryConsistent(s.registry), NEW u \in Accounts,
         NEW b \in Bets, now \in Nat
  PROVE  Places(s, PlaceBet(s, u, b), u, b)
<1> DEFINE new   == PlaceBet(s, u, b)
           newRoundId == s.userRoundNonce[u] + 1
           round == [roundId |-> newRoundId, startTime |-> now, startPrice |-> b.price,
                     endPrice |-> 0, amount |-> b.amount, isUp |-> b.isUp,
                     settled |-> FALSE, won |-> FALSE]
           over  == OpenStake(s, u)
           l     == Stake(s.ledger, u, b.amount, over)
           reg   == ActivateUser(s.registry, u)
<1>1. /\ s.registry \in Registry
      /\ newRoundId \in Nat \ {0}
      /\ b.amount \in Nat
      /\ over \in Nat
  BY StoreParts, OpenStakeIsAmount DEF Bets
<1>2. reg \in Registry
  BY <1>1, ActivateUserLists
<1>3. round \in UserRound
  BY <1>1 DEF UserRound, Bets
<1>4. /\ round.amount = b.amount
      /\ round.roundId # 0
      /\ ~round.settled
  BY <1>1
<1>5. new = [s EXCEPT !.userRoundNonce[u] = newRoundId,
                      !.activeRounds[u]   = round,
                      !.registry          = reg,
                      !.ledger            = l]
  BY DEF PlaceBet
<1> HIDE DEF newRoundId, round, over, reg
<1>6. /\ l \in Ledger
      /\ l.staked = [s.ledger.staked EXCEPT ![u] = @ + b.amount]
      /\ l.replaced = [s.ledger.replaced EXCEPT ![u] = @ + over]
      /\ l.resolved = s.ledger.resolved
      /\ l.entitled = s.ledger.entitled
      /\ l.paid = s.ledger.paid
      /\ l.gifts = s.ledger.gifts
      /\ l.won = s.ledger.won
      /\ l.earned = s.ledger.earned
      /\ l.withdrawn = s.ledger.withdrawn
      /\ l.donated = s.ledger.donated
  <2>1. /\ l.staked = [s.ledger.staked EXCEPT ![u] = @ + b.amount]
        /\ l.replaced = [s.ledger.replaced EXCEPT ![u] = @ + over]
        /\ l = [s.ledger EXCEPT !.staked = l.staked, !.replaced = l.replaced]
    BY <1>1, StoreParts DEF Stake, Ledger
  <2> HIDE DEF l
  <2>2. /\ l.staked \in [Accounts -> Nat]
        /\ l.replaced \in [Accounts -> Nat]
    BY <1>1, <2>1, StoreParts
  <2>3. QED
    BY <1>1, <2>1, <2>2, StoreParts DEF Ledger
<1> HIDE DEF new, l
<1>7. /\ new.activeRounds = [s.activeRounds EXCEPT ![u] = round]
      /\ new.userRoundNonce = [s.userRoundNonce EXCEPT ![u] = newRoundId]
      /\ new.registry = reg
      /\ new.ledger = l
      /\ new.balance = s.balance
      /\ new.pendingWithdrawals = s.pendingWithdrawals
      /\ new.hasUsedFaucet = s.hasUsedFaucet
      /\ new.treasuryFees = s.treasuryFees
      /\ new = [s EXCEPT !.userRoundNonce = new.userRoundNonce,
                         !.activeRounds   = new.activeRounds,
                         !.registry       = new.registry,
                         !.ledger         = new.ledger]
  BY <1>1, <1>5 DEF Store
<1>8. new \in Store
  <2>1. /\ new.activeRounds \in [Accounts -> UserRound]
        /\ new.userRoundNonce \in [Accounts -> Nat]
    BY <1>1, <1>3, <1>7, StoreParts
  <2>2. QED
    BY <1>1, <1>2, <1>6, <1>7, <2>1 DEF Store
<1>9. ASSUME NEW v \in Accounts
      PROVE  OpenStake(new, v) = IF v = u THEN b.amount ELSE OpenStake(s, v)
  BY <1>4, <1>7, StoreParts DEF OpenStake, HasActiveRound
<1>10. Places(s, new, u, b)
  BY <1>6, <1>7, <1>8, <1>9 DEF Places, over, reg
<1>11. QED
  BY <1>10 DEF new

(* A new round brings its stake with it; the stake of an open round it       *)
(* overwrites is counted as replaced.                                        *)
LEMMA PlaceBetKeepsBooks ==
  ASSUME NEW s, Balanced(s), NEW u \in Accounts, NEW b \in Bets, now \in Nat
  PROVE  Balanced(PlaceBet(s, u, b))
<1> DEFINE new == PlaceBet(s, u, b)
<1>1. /\ s \in Store /\ s.registry \in Registry /\ RegistryConsistent(s.registry)
      /\ b.amount \in Nat /\ OpenStake(s, u) \in Nat
  BY StoreParts, OpenStakeIsAmount DEF Balanced, OtherBooks, Bets
<1>2. Places(s, new, u, b)
  BY <1>1, PlaceBetPlaces
<1>3. RegistryConsistent(ActivateUser(s.registry, u))
  BY <1>1, ActivateUserLists
<1> HIDE DEF new
<1>4. StakeBooks(new)
  <2> SUFFICES ASSUME NEW v \in Accounts
               PROVE  new.ledger.staked[v] =
                        new.ledger.resolved[v] + OpenStake(new, v) + new.ledger.replaced[v]
    BY DEF StakeBooks
  <2>1. /\ s.ledger.resolved[v] \in Nat
        /\ s.ledger.replaced \in [Accounts -> Nat]
        /\ s.ledger.staked \in [Accounts -> Nat]
        /\ OpenStake(s, v) \in Nat
    BY <1>1, StoreParts, OpenStakeIsAmount
  <2>2. s.ledger.staked[v] =
          s.ledger.resolved[v] + OpenStake(s, v) + s.ledger.replaced[v]
    BY DEF Balanced, OtherBooks, StakeBooks
  <2>3. /\ OpenStake(new, v) = IF v = u THEN b.amount ELSE OpenStake(s, v)
        /\ new.ledger.staked = [s.ledger.staked EXCEPT ![u] = @ + b.amount]
        /\ new.ledger.replaced = [s.ledger.replaced EXCEPT ![u] = @ + OpenStake(s, u)]
        /\ new.ledger.resolved = s.ledger.resolved
    BY <1>2 DEF Places
  <2>4. QED
    BY <1>1, <2>1, <2>2, <2>3
<1>5. Balanced(new)
  BY <1>2, <1>3, <1>4 DEF Places, Balanced, OtherBooks, PayoutBooks, GiftBooks
<1>6. QED
  BY <1>5 DEF new

(* The end of _settleRound, and of bet after it, keeps the books balanced.   *)
LEMMA FinishSettleKeepsBooks ==
  ASSUME NEW s, Balanced(s), NEW u \in Accounts, NEW next \in Bets, now \in Nat
  PROVE  Balanced(FinishSettle(s, u, next))
BY DelistKeepsBooks, PlaceBetKeepsBooks DEF FinishSettle

(* claim owes nobody anything in between: what it takes off                  *)
(* pendingWithdrawals is what it sends.                                      *)
LEMMA ClaimKeepsBooks ==
  ASSUME NEW s, Balanced(s), NEW u \in Accounts,
         s.pendingWithdrawals[u] <= s.balance
  PROVE  /\ BookClaim(s, u) \in Store
         /\ Balanced(Send(BookClaim(s, u), "claim", u, s.pendingWithdrawals[u]))
<1> DEFINE new    == BookClaim(s, u)
           amount == s.pendingWithdrawals[u]
<1>1. s \in Store /\ amount \in Nat
  BY StoreParts DEF Balanced, OtherBooks
<1>2. /\ new \in Store
      /\ new.balance = s.balance
      /\ new.pendingWithdrawals = [s.pendingWithdrawals EXCEPT ![u] = 0]
      /\ new.ledger = s.ledger
      /\ new.hasUsedFaucet = s.hasUsedFaucet
      /\ new.activeRounds = s.activeRounds
      /\ new.treasuryFees = s.treasuryFees
      /\ new.registry = s.registry
  BY <1>1 DEF BookClaim, Store
<1> HIDE DEF new
<1>3. OtherBooks(new)
  BY <1>2 DEF Balanced, OtherBooks, GiftBooks, StakeBooks, OpenStake, HasActiveRound
<1>4. PayoutBooksBut(new, u, amount)
  <2> SUFFICES ASSUME NEW v \in Accounts
               PROVE  new.ledger.entitled[v] = new.ledger.paid[v]
                        + new.pendingWithdrawals[v] + (IF v = u THEN amount ELSE 0)
    BY DEF PayoutBooksBut
  <2>1. /\ s.ledger.paid[v] \in Nat
        /\ s.pendingWithdrawals \in [Accounts -> Nat]
    BY <1>1, StoreParts
  <2>2. s.ledger.entitled[v] = s.ledger.paid[v] + s.pendingWithdrawals[v]
    BY DEF Balanced, PayoutBooks
  <2>3. QED
    BY <1>2, <2>1, <2>2
<1>5. Balanced(Send(new, "claim", u, amount))
  <2>1. Short(new, u, amount)
    BY <1>3, <1>4 DEF Short
  <2>2. amount <= new.balance
    BY <1>2
  <2> HIDE DEF amount
  <2>3. QED
    BY <1>1, <2>1, <2>2, SendBalances
<1>6. QED
  BY <1>2, <1>5 DEF new

(* The faucet sets the flag of the account it pays, once.                    *)
LEMMA FaucetKeepsBooks ==
  ASSUME NEW s, Balanced(s), NEW u \in Accounts,
         ~s.hasUsedFaucet[u], FAUCET_AMOUNT <= s.balance
  PROVE  /\ BookFaucet(s, u) \in Store
         /\ Balanced(Send(BookFaucet(s, u), "faucet", u, FAUCET_AMOUNT))
<1> DEFINE booked == BookFaucet(s, u)
           new    == Send(booked, "faucet", u, FAUCET_AMOUNT)
<1>1. s \in Store /\ FAUCET_AMOUNT \in Nat
  BY AmountsAssumption DEF Balanced, OtherBooks
<1>2. /\ booked \in Store
      /\ booked.balance = s.balance
      /\ booked.hasUsedFaucet = [s.hasUsedFaucet EXCEPT ![u] = TRUE]
      /\ booked.ledger = s.ledger
      /\ booked.pendingWithdrawals = s.pendingWithdrawals
      /\ booked.activeRounds = s.activeRounds
      /\ booked.treasuryFees = s.treasuryFees
      /\ booked.registry = s.registry
  BY <1>1 DEF BookFaucet, Store
<1>3. Sends(booked, new, "faucet", u, FAUCET_AMOUNT)
  BY <1>1, <1>2, SendSends
<1> HIDE DEF booked, new
<1>4. GiftBooks(new)
  <2> SUFFICES ASSUME NEW v \in Accounts
               PROVE  new.ledger.gifts[v] = IF new.hasUsedFaucet[v] THEN FAUCET_AMOUNT ELSE 0
    BY DEF GiftBooks
  <2>1. /\ s.ledger.gifts \in [Accounts -> Nat]
        /\ s.hasUsedFaucet \in [Accounts -> BOOLEAN]
        /\ s.ledger.gifts[u] = 0
        /\ s.ledger.gifts[v] = IF s.hasUsedFaucet[v] THEN FAUCET_AMOUNT ELSE 0
    BY <1>1, StoreParts DEF Balanced, OtherBooks, GiftBooks
  <2>2. QED
    BY <1>1, <1>2, <1>3, <2>1 DEF Sends
<1>5. Balanced(new)
  BY <1>1, <1>2, <1>3, <1>4, StoreParts
     DEF Sends, Balanced, OtherBooks, PayoutBooks, StakeBooks, OpenStake, HasActiveRound
<1>6. QED
  BY <1>2, <1>5 DEF new, booked

(* withdrawFees hands out what it takes off treasuryFees.                    *)
LEMMA WithdrawFeesKeepsBooks ==
  ASSUME NEW s, Balanced(s), NEW u \in Accounts, s.treasuryFees <= s.balance
  PROVE  /\ BookWithdrawal(s) \in Store
         /\ Balanced(Send(BookWithdrawal(s), "fees", u, s.treasuryFees))
<1> DEFINE amount == s.treasuryFees
           booked == BookWithdrawal(s)
           new    == Send(booked, "fees", u, amount)
<1>1. s \in Store /\ amount \in Nat
  BY StoreParts DEF Balanced, OtherBooks
<1>2. /\ booked \in Store
      /\ booked.balance = s.balance
      /\ booked.treasuryFees = 0
      /\ booked.ledger = s.ledger
      /\ booked.pendingWithdrawals = s.pendingWithdrawals
      /\ booked.activeRounds = s.activeRounds
      /\ booked.hasUsedFaucet = s.hasUsedFaucet
      /\ booked.registry = s.registry
  BY <1>1 DEF BookWithdrawal, Store
<1>3. Sends(booked, new, "fees", u, amount)
  BY <1>1, <1>2, SendSends
<1> HIDE DEF booked, amount, new
<1>4. new.treasuryFees + new.ledger.withdrawn = new.ledger.earned
  <2>1. amount + s.ledger.withdrawn = s.ledger.earned /\ s.ledger.withdrawn \in Nat
    BY <1>1, StoreParts DEF Balanced, OtherBooks, amount
  <2>2. QED
    BY <1>1, <1>2, <1>3, <2>1 DEF Sends
<1>5. Balanced(new)
  BY <1>2, <1>3, <1>4
     DEF Sends, Balanced, OtherBooks, PayoutBooks, GiftBooks, StakeBooks, OpenStake, HasActiveRound
<1>6. QED
  BY <1>2, <1>5 DEF new, booked, amount

(* A plain transfer to the vault belongs to nobody.                          *)
LEMMA ReceiveKeepsBooks ==
  ASSUME NEW s, Balanced(s), NEW amount \in Nat
  PROVE  Balanced([Accept(s, amount) EXCEPT !.ledger.donated = @ + amount])
<1> DEFINE got == Accept(s, amount)
           new == [got EXCEPT !.ledger.donated = @ + amount]
<1>1. Balanced(got) /\ got \in Store
  BY AcceptKeepsBooks DEF Balanced, OtherBooks
<1> HIDE DEF got
<1>2. /\ new.ledger = [got.ledger EXCEPT !.donated = @ + amount]
      /\ new = [got EXCEPT !.ledger = new.ledger]
  BY <1>1 DEF Store
<1> HIDE DEF new
<1>3. /\ new.ledger \in Ledger
      /\ new.ledger.withdrawn = got.ledger.withdrawn
      /\ new.ledger.entitled = got.ledger.entitled
      /\ new.ledger.paid = got.ledger.paid
      /\ new.ledger.gifts = got.ledger.gifts
      /\ new.ledger.earned = got.ledger.earned
      /\ new.ledger.staked = got.ledger.staked
      /\ new.ledger.resolved = got.ledger.resolved
      /\ new.ledger.replaced = got.ledger.replaced
  BY <1>1, <1>2, StoreParts DEF Ledger
<1>4. /\ new \in Store
      /\ new.hasUsedFaucet = got.hasUsedFaucet
      /\ new.pendingWithdrawals = got.pendingWithdrawals
      /\ new.activeRounds = got.activeRounds
      /\ new.treasuryFees = got.treasuryFees
      /\ new.registry = got.registry
  BY <1>1, <1>2, <1>3 DEF Store
<1>5. Balanced(new)
  BY <1>1, <1>3, <1>4
     DEF Balanced, OtherBooks, PayoutBooks, GiftBooks, StakeBooks, OpenStake, HasActiveRound
<1>6. QED
  BY <1>5 DEF new, got

(* authorizer and owner are no part of the books.                            *)
LEMMA AdminKeepsBooks ==
  ASSUME NEW s, Balanced(s),
         NEW a \in Signers, NEW o \in Accounts \cup {NoAccount}
  PROVE  Balanced([s EXCEPT !.authorizer = a]) /\ Balanced([s EXCEPT !.owner = o])
<1>1. s \in Store
  BY DEF Balanced, OtherBooks
<1>2. ASSUME NEW new, \/ new = [s EXCEPT !.authorizer = a]
                      \/ new = [s EXCEPT !.owner = o]
      PROVE  Balanced(new)
  <2>1. /\ new \in Store
        /\ new.ledger = s.ledger
        /\ new.hasUsedFaucet = s.hasUsedFaucet
        /\ new.pendingWithdrawals = s.pendingWithdrawals
        /\ new.activeRounds = s.activeRounds
        /\ new.treasuryFees = s.treasuryFees
        /\ new.registry = s.registry
    BY <1>1, <1>2 DEF Store
  <2>2. QED
    BY <2>1
       DEF Balanced, OtherBooks, PayoutBooks, GiftBooks, StakeBooks, OpenStake, HasActiveRound
<1>3. QED
  BY <1>2

-------------------------------------------------------------------------------
(* The steps of the contract.                                                *)

(* A call out of the contract that starts from sound storages.               *)
LEMMA PushKeepsInv ==
  ASSUME BooksInv, NEW f \in Frames, FrameInv(f), Balanced(store'),
         stack' = Append(stack, f), now' = now
  PROVE  BooksInv'
<1>1. /\ stack' \in Seq(Frames)
      /\ Len(stack') = Len(stack) + 1
      /\ \A i \in 1 .. Len(stack) : stack'[i] = stack[i]
      /\ stack'[Len(stack) + 1] = f
  BY AppendProperties DEF BooksInv
<1>2. ASSUME NEW i \in 1 .. Len(stack')
      PROVE  FrameInv(stack'[i])
  <2>1. CASE i \in 1 .. Len(stack)
    BY <1>1, <2>1 DEF BooksInv
  <2>2. CASE i = Len(stack) + 1
    BY <1>1, <2>2
  <2>3. QED
    BY <1>1, <2>1, <2>2 DEF BooksInv
<1>3. QED
  BY <1>1, <1>2 DEF BooksInv

(* The stack without its innermost frame.                                    *)
LEMMA PopDropsTop ==
  ASSUME BooksInv, stack # << >>
  PROVE  /\ Len(stack) \in Nat \ {0}
         /\ Pop \in Seq(Frames)
         /\ Len(Pop) = Len(stack) - 1
         /\ \A i \in 1 .. Len(stack) - 1 : Pop[i] = stack[i]
<1> DEFINE n == Len(stack) - 1
<1>1. /\ Len(stack) \in Nat \ {0}
      /\ stack \in Seq(Frames)
      /\ n \in Nat /\ n <= Len(stack)
  BY EmptySeq DEF BooksInv
<1>2. \A i \in 1 .. n : stack[i] \in Frames
  BY <1>1, ElementOfSeq
<1>3. Pop = SubSeq(stack, 1, n)
  BY DEF Pop
<1> HIDE DEF n
<1>4. /\ Pop \in Seq(Frames)
      /\ Len(Pop) = n
      /\ \A i \in 1 .. n : Pop[i] = stack[i]
  BY <1>1, <1>2, <1>3, SubSeqProperties
<1>5. QED
  BY <1>1, <1>4 DEF n

(* The innermost call comes back to a sound storage.                         *)
LEMMA PopKeepsInv ==
  ASSUME BooksInv, stack # << >>, Balanced(store'), stack' = Pop, now' = now
  PROVE  BooksInv'
<1>1. /\ Len(stack) \in Nat \ {0}
      /\ stack' \in Seq(Frames)
      /\ Len(stack') = Len(stack) - 1
      /\ \A i \in 1 .. Len(stack') : stack'[i] = stack[i]
  BY PopDropsTop
<1>2. \A i \in 1 .. Len(stack') : FrameInv(stack'[i])
  BY <1>1 DEF BooksInv
<1>3. QED
  BY <1>1, <1>2 DEF BooksInv

(* What is known of the innermost frame.                                     *)
LEMMA TopIsSound ==
  ASSUME BooksInv, stack # << >>
  PROVE  Top \in Frames /\ FrameInv(Top)
<1>1. Len(stack) \in 1 .. Len(stack)
  BY EmptySeq DEF BooksInv
<1>2. QED
  BY <1>1, ElementOfSeq DEF BooksInv, Top

(* _settleRound, called with balanced books for an open round, keeps the     *)
(* invariant in each of its three endings.                                   *)
LEMMA SettleRoundKeepsInv ==
  ASSUME BooksInv, NEW s, Balanced(s), NEW u \in Accounts, HasActiveRound(s, u),
         NEW price \in Int, NEW next \in Bets,
         SettleRound(s, u, price, next), now' = now
  PROVE  BooksInv'
<1> DEFINE resolved == ResolveRound(s, u, price)
           payout   == Payout(s.activeRounds[u], price)
<1>1. payout \in Nat /\ Short(resolved, u, payout) /\ now \in Nat
  BY ResolveLeavesShort DEF BooksInv
<1>2. \/ payout > 0 /\ CallOut("settle", u, payout, store, resolved, next)
      \/ /\ payout > resolved.balance
         /\ store' = FinishSettle(QueuePayout(resolved, u, payout), u, next)
         /\ UNCHANGED stack
      \/ /\ payout = 0
         /\ store' = FinishSettle(resolved, u, next)
         /\ UNCHANGED stack
  BY DEF SettleRound
<1> HIDE DEF resolved, payout
<1>3. CASE CallOut("settle", u, payout, store, resolved, next)
  <2> DEFINE f == [kind |-> "settle", callee |-> u, amount |-> payout,
                   entry |-> store, atCall |-> resolved, next |-> next]
  <2>1. /\ payout <= resolved.balance
        /\ store' = Send(resolved, "settle", u, payout)
        /\ stack' = Append(stack, f)
    BY <1>3 DEF CallOut
  <2>2. f \in Frames
    BY <1>1 DEF Frames, BooksInv, Balanced, Short, OtherBooks
  <2>3. FrameInv(f)
    BY <1>1 DEF FrameInv, BooksInv
  <2>4. Balanced(store')
    BY <1>1, <2>1, SendBalances
  <2> HIDE DEF f
  <2>5. QED
    BY <2>1, <2>2, <2>3, <2>4, PushKeepsInv
<1>4. CASE /\ store' = FinishSettle(QueuePayout(resolved, u, payout), u, next)
           /\ UNCHANGED stack
  <2>1. Balanced(store')
    BY <1>1, <1>4, QueueBalances, FinishSettleKeepsBooks
  <2>2. QED
    BY <1>4, <2>1 DEF BooksInv
<1>5. CASE /\ payout = 0
           /\ store' = FinishSettle(resolved, u, next)
           /\ UNCHANGED stack
  <2>1. Balanced(store')
    BY <1>1, <1>5, NothingShort, FinishSettleKeepsBooks
  <2>2. QED
    BY <1>5, <2>1 DEF BooksInv
<1>6. QED
  BY <1>2, <1>3, <1>4, <1>5

(* claim, faucet and withdrawFees: a call out after which nothing is left to *)
(* do but to check that it succeeded.                                        *)
LEMMA PlainCallKeepsInv ==
  ASSUME BooksInv, NEW kind \in {"claim", "faucet", "fees"}, NEW u \in Accounts,
         NEW amount \in Nat, NEW s \in Store,
         Balanced(Send(s, kind, u, amount)),
         CallOut(kind, u, amount, store, s, NoBet), now' = now
  PROVE  BooksInv'
<1> DEFINE f == [kind |-> kind, callee |-> u, amount |-> amount,
                 entry |-> store, atCall |-> s, next |-> NoBet]
<1>1. store' = Send(s, kind, u, amount) /\ stack' = Append(stack, f)
  BY DEF CallOut
<1>2. f \in Frames
  BY DEF Frames, Bets, NoBet, BooksInv, Balanced, OtherBooks
<1>3. FrameInv(f)
  BY DEF FrameInv, BooksInv
<1> HIDE DEF f
<1>4. QED
  BY <1>1, <1>2, <1>3, PushKeepsInv

(* bet, with whatever quote the contract accepts.                            *)
LEMMA BetKeepsInv ==
  ASSUME BooksInv, NEW u \in Accounts, NEW amount \in Nat,
         NEW sig, sig.price \in Int, sig.isUp \in BOOLEAN, Bet(u, amount, sig)
  PROVE  BooksInv'
<1> DEFINE b  == [amount |-> amount, isUp |-> sig.isUp, price |-> sig.price]
           in == Accept(store, amount)
<1>1. b \in Bets
  BY DEF Bets
<1>2. store \in Store /\ now \in Nat /\ Balanced(in)
  BY AcceptKeepsBooks DEF BooksInv, Balanced, OtherBooks
<1>3. CASE HasActiveRound(store, u)
  <2>1. HasActiveRound(in, u)
    BY <1>2, <1>3 DEF Accept, Store, HasActiveRound
  <2>2. SettleRound(in, u, sig.price, b) /\ now' = now
    BY <1>3 DEF Bet
  <2> HIDE DEF b, in
  <2>3. QED
    BY <1>1, <1>2, <2>1, <2>2, SettleRoundKeepsInv
<1>4. CASE ~HasActiveRound(store, u)
  <2>1. store' = PlaceBet(in, u, b) /\ UNCHANGED <<stack, now>>
    BY <1>4 DEF Bet
  <2>2. Balanced(store')
    BY <1>1, <1>2, <2>1, PlaceBetKeepsBooks
  <2>3. QED
    BY <2>1, <2>2 DEF BooksInv
<1>5. QED
  BY <1>3, <1>4

(* settleMyRound, likewise.                                                  *)
LEMMA SettleMyRoundKeepsInv ==
  ASSUME BooksInv, NEW u \in Accounts, NEW sig, sig.price \in Int, SettleMyRound(u, sig)
  PROVE  BooksInv'
<1>1. NoBet \in Bets
  BY DEF NoBet, Bets
<1>2. Balanced(store)
  BY DEF BooksInv
<1>3. HasActiveRound(store, u) /\ SettleRound(store, u, sig.price, NoBet) /\ now' = now
  BY DEF SettleMyRound
<1>4. QED
  BY <1>1, <1>2, <1>3, SettleRoundKeepsInv

(* Every step keeps the invariant.                                           *)
LEMMA NextKeepsInv == BooksInv /\ [Next]_vars => BooksInv'
<1> SUFFICES ASSUME BooksInv, [Next]_vars
             PROVE  BooksInv'
  OBVIOUS
<1>1. /\ Balanced(store)
      /\ store \in Store
      /\ now \in Nat
  BY DEF BooksInv, Balanced, OtherBooks
<1>2. CASE Tick
  BY <1>1, <1>2 DEF Tick, BooksInv
<1>3. ASSUME NEW u \in Accounts, NEW amount \in Amounts, NEW sig \in BetSigs,
             Bet(u, amount, sig)
      PROVE  BooksInv'
  <2>1. amount \in Nat /\ sig.price \in Int /\ sig.isUp \in BOOLEAN
    BY AmountsAssumption DEF BetSigs
  <2>2. QED
    BY <1>3, <2>1, BetKeepsInv
<1>4. ASSUME NEW u \in Accounts, NEW sig \in SettleSigs, SettleMyRound(u, sig)
      PROVE  BooksInv'
  <2>1. sig.price \in Int
    BY AmountsAssumption DEF SettleSigs
  <2>2. QED
    BY <1>4, <2>1, SettleMyRoundKeepsInv
<1>5. ASSUME NEW u \in Accounts, Claim(u)
      PROVE  BooksInv'
  <2> DEFINE amount == store.pendingWithdrawals[u]
  <2>1. CallOut("claim", u, amount, store, BookClaim(store, u), NoBet) /\ now' = now
    BY <1>5 DEF Claim
  <2>2. amount <= store.balance /\ amount \in Nat
    BY <1>1, <2>1, StoreParts DEF CallOut, BookClaim, Store
  <2>3. /\ BookClaim(store, u) \in Store
        /\ Balanced(Send(BookClaim(store, u), "claim", u, amount))
    BY <1>1, <2>2, ClaimKeepsBooks
  <2> HIDE DEF amount
  <2>4. QED
    BY <2>1, <2>2, <2>3, PlainCallKeepsInv
<1>6. ASSUME NEW u \in Accounts, Faucet(u)
      PROVE  BooksInv'
  <2>1. /\ ~store.hasUsedFaucet[u]
        /\ FAUCET_AMOUNT <= store.balance
        /\ CallOut("faucet", u, FAUCET_AMOUNT, store, BookFaucet(store, u), NoBet)
        /\ now' = now
    BY <1>1, <1>6, StoreParts, AmountsAssumption DEF Faucet
  <2>2. /\ BookFaucet(store, u) \in Store
        /\ Balanced(Send(BookFaucet(store, u), "faucet", u, FAUCET_AMOUNT))
    BY <1>1, <2>1, FaucetKeepsBooks
  <2>3. QED
    BY <2>1, <2>2, AmountsAssumption, PlainCallKeepsInv
<1>7. ASSUME NEW u \in Accounts, WithdrawFees(u)
      PROVE  BooksInv'
  <2> DEFINE amount == store.treasuryFees
  <2>1. CallOut("fees", u, amount, store, BookWithdrawal(store), NoBet) /\ now' = now
    BY <1>7 DEF WithdrawFees
  <2>2. amount <= store.balance /\ amount \in Nat
    BY <1>1, <2>1, StoreParts DEF CallOut, BookWithdrawal, Store
  <2>3. /\ BookWithdrawal(store) \in Store
        /\ Balanced(Send(BookWithdrawal(store), "fees", u, amount))
    BY <1>1, <2>2, WithdrawFeesKeepsBooks
  <2> HIDE DEF amount
  <2>4. QED
    BY <2>1, <2>2, <2>3, PlainCallKeepsInv
<1>8. ASSUME NEW u \in Accounts, NEW amount \in Donations, Receive(u, amount)
      PROVE  BooksInv'
  <2>1. Balanced(store')
    BY <1>1, <1>8, AmountsAssumption, ReceiveKeepsBooks DEF Receive
  <2>2. QED
    BY <1>8, <2>1 DEF Receive, BooksInv
<1>9. ASSUME NEW u \in Accounts,
             \/ \E a \in Signers : SetAuthorizer(u, a)
             \/ \E o \in NewOwners : TransferOwnership(u, o)
      PROVE  BooksInv'
  <2>1. Balanced(store') /\ UNCHANGED <<stack, now>>
    BY <1>1, <1>9, AccountsAssumption, AdminKeepsBooks
       DEF SetAuthorizer, TransferOwnership, Store
  <2>2. QED
    BY <2>1 DEF BooksInv
<1>10. CASE CallReturns
  <2>1. stack # << >> /\ stack' = Pop /\ now' = now
    BY <1>10 DEF CallReturns
  <2>2. Top.callee \in Accounts /\ Top.next \in Bets
    BY <2>1, TopIsSound DEF Frames
  <2>3. Balanced(store')
    BY <1>1, <1>10, <2>2, FinishSettleKeepsBooks DEF CallReturns
  <2>4. QED
    BY <2>1, <2>3, PopKeepsInv
<1>11. CASE PayoutFails
  <2>1. stack # << >> /\ stack' = Pop /\ now' = now /\ Top.kind = "settle"
    BY <1>11 DEF PayoutFails
  <2>2. /\ Top.callee \in Accounts /\ Top.amount \in Nat /\ Top.next \in Bets
        /\ Short(Top.atCall, Top.callee, Top.amount)
    BY <2>1, TopIsSound DEF Frames, FrameInv
  <2>3. Balanced(store')
    BY <1>1, <1>11, <2>2, QueueBalances, FinishSettleKeepsBooks DEF PayoutFails
  <2>4. QED
    BY <2>1, <2>3, PopKeepsInv
<1>12. CASE FunctionReverts
  <2>1. stack # << >> /\ stack' = Pop /\ now' = now /\ store' = Top.entry
    BY <1>12 DEF FunctionReverts
  <2>2. Balanced(store')
    BY <2>1, TopIsSound DEF FrameInv
  <2>3. QED
    BY <2>1, <2>2, PopKeepsInv
<1>13. CASE UNCHANGED vars
  BY <1>13 DEF vars, BooksInv
<1>14. QED
  BY <1>2, <1>3, <1>4, <1>5, <1>6, <1>7, <1>8, <1>9, <1>10, <1>11, <1>12, <1>13
     DEF Next, Play, Admin

(* A freshly deployed contract has empty books.                              *)
LEMMA InitSatisfiesInv == Init => BooksInv
<1> SUFFICES ASSUME Init
             PROVE  BooksInv
  OBVIOUS
<1>1. /\ NoRound \in UserRound
      /\ Nothing \in [Accounts -> Nat]
      /\ EmptyRegistry \in Registry /\ RegistryConsistent(EmptyRegistry)
  BY EmptyRegistryConsistent DEF NoRound, UserRound, Nothing
<1>2. EmptyLedger \in Ledger
  BY <1>1 DEF EmptyLedger, Ledger
<1>3. Deployed \in Store
  BY <1>1, <1>2, AccountsAssumption DEF Deployed, Store
<1>4. Balanced(Deployed)
  BY <1>1, <1>3 DEF Deployed, EmptyLedger, Nothing, NoRound, Balanced, OtherBooks,
                    PayoutBooks, GiftBooks, StakeBooks, OpenStake, HasActiveRound
<1>5. QED
  BY <1>4, EmptySeq DEF Init, BooksInv

(* The books are balanced in every reachable state, and so is every storage  *)
(* a failing call may restore.                                               *)
THEOREM BooksInvHolds == Spec => []BooksInv
BY InitSatisfiesInv, NextKeepsInv, PTL DEF Spec

-------------------------------------------------------------------------------
(* The promises of the contract.                                             *)

(* Storage and frames keep their types: no balance, fee or pending           *)
(* withdrawal underflows, whatever a receiver does.                          *)
THEOREM TypeCorrect == Spec => []TypeOK
<1>1. BooksInv => TypeOK
  BY DEF BooksInv, TypeOK, Balanced, OtherBooks
<1>2. QED
  BY <1>1, BooksInvHolds, PTL

(* Every payout reaches its player exactly once.                             *)
THEOREM PayoutsAlwaysAccounted == Spec => []PayoutsAccounted
<1>1. BooksInv => PayoutsAccounted
  BY DEF BooksInv, PayoutsAccounted, Balanced, PayoutBooks
<1>2. QED
  BY <1>1, BooksInvHolds, PTL

(* The treasury is handed out once.                                          *)
THEOREM TreasuryAlwaysAccounted == Spec => []TreasuryAccounted
<1>1. BooksInv => TreasuryAccounted
  BY DEF BooksInv, TreasuryAccounted, Balanced, OtherBooks
<1>2. QED
  BY <1>1, BooksInvHolds, PTL

(* Nobody gets the faucet's ether twice.                                     *)
THEOREM FaucetAlwaysOnce == Spec => []FaucetOnce
<1>1. BooksInv => FaucetOnce
  BY DEF BooksInv, FaucetOnce, Balanced, OtherBooks, GiftBooks
<1>2. QED
  BY <1>1, BooksInvHolds, PTL

-------------------------------------------------------------------------------
(* Sums.  SumFunction is a fold of the community modules: a function chosen  *)
(* for satisfying a recursive equation.  What it computes is proved by       *)
(* induction over finite sets, here with a set G of the arguments for which  *)
(* a statement holds in the place of a predicate.                            *)

(* The element a fold over T takes first.                                    *)
One(T) == CHOOSE x \in T : TRUE

(* sum adds up f over every subset of S, one chosen element at a time.       *)
AddsUp(sum, f, S) ==
  sum = [T \in SUBSET S |-> IF T = {} THEN 0 ELSE f[One(T)] + sum[T \ {One(T)}]]

Without(f, x) == [y \in DOMAIN f \ {x} |-> f[y]]

(* SumFunction in terms of AddsUp.                                           *)
LEMMA SumIsSome ==
  ASSUME NEW f
  PROVE SumFunction(f) = (CHOOSE sum : AddsUp(sum, f, DOMAIN f))[DOMAIN f]
BY DEF SumFunction, SumFunctionOnSet, FoldFunctionOnSet, MapThenFoldSet, AddsUp, One

(* Induction over the natural numbers.                                       *)
LEMMA NatSet ==
  ASSUME NEW S, 0 \in S, \A n \in Nat : n \in S => n + 1 \in S
  PROVE Nat \subseteq S
<1> DEFINE T == Nat \ S
           R == OpToRel(<, Nat)
<1>1. \A m, n \in Nat : m < n => <<m, n>> \in R
  BY DEF OpToRel
<1>2. IsWellFoundedOn(R, Nat)
  BY NatLessThanWellFounded
<1> HIDE DEF R
<1>3. SUFFICES ASSUME T # {} PROVE FALSE
  OBVIOUS
<1>4. PICK x \in T : \A y \in T : <<y, x>> \notin R
  BY <1>2, <1>3, WFMin
<1>5. x \in Nat /\ x # 0
  OBVIOUS
<1>6. x - 1 \in Nat /\ x - 1 \in T
  BY <1>5
<1>7. <<x - 1, x>> \in R
  BY <1>1, <1>5, <1>6
<1>8. QED
  BY <1>4, <1>6, <1>7

(* A set that holds a set as soon as it holds all smaller ones holds all.    *)
LEMMA SubsetInduction ==
  ASSUME NEW S, IsFiniteSet(S), NEW G,
         \A T \in SUBSET S : (\A U \in SUBSET T : U # T => U \in G) => T \in G
  PROVE  SUBSET S \subseteq G
<1> DEFINE B == (SUBSET S) \ G
           R == StrictSubsetOrdering(S)
<1>1. \A T \in SUBSET S : \A U \in SUBSET T : U # T => <<U, T>> \in R
  BY DEF StrictSubsetOrdering
<1>2. IsWellFoundedOn(R, SUBSET S)
  BY FS_StrictSubsetOrderingWellFounded, FS_FiniteSubsetsOfFinite
<1>3. B \subseteq SUBSET S /\ \A U \in SUBSET S : U \in B \/ U \in G
  OBVIOUS
<1>4. ASSUME NEW T \in B, \A U \in B : ~ (<<U, T>> \in R)
      PROVE  FALSE
  <2>1. T \in SUBSET S /\ T \notin G
    BY <1>4
  <2>2. \A U \in SUBSET T : U # T => U \in SUBSET S /\ <<U, T>> \in R
    BY <1>1, <2>1
  <2> HIDE DEF R, B
  <2>3. \A U \in SUBSET T : U # T => U \in G
    BY <1>3, <1>4, <2>2, Zenon
  <2>4. QED
    BY <2>1, <2>3
<1> HIDE DEF R, B
<1>5. B = {}
  <2>1. B # {} => \E T \in B : \A U \in B : ~ (<<U, T>> \in R)
    BY <1>2, <1>3, WFMin
  <2>2. QED
    BY <1>4, <2>1
<1>6. QED
  BY <1>5 DEF B

(* Over a finite set there is such a function: it is built up by the size    *)
(* of the subsets.                                                           *)
LEMMA SumExists ==
  ASSUME NEW S, IsFiniteSet(S), NEW f
  PROVE  \E sum : AddsUp(sum, f, S)
<1> DEFINE UpTo(n) == {T \in SUBSET S : Cardinality(T) <= n}
           Body(g, T) == IF T = {} THEN 0 ELSE f[One(T)] + g[T \ {One(T)}]
           Adds(g, n) == g = [T \in UpTo(n) |-> Body(g, T)]
           G == {m \in Nat : \E g : Adds(g, m)}
<1>1. \A T \in SUBSET S : /\ IsFiniteSet(T) /\ Cardinality(T) \in Nat
                          /\ Cardinality(T) <= Cardinality(S)
                          /\ Cardinality(T) = 0 => T = {}
  BY FS_Subset, FS_CardinalityType, FS_EmptySet
<1>2. \A T \in SUBSET S : T # {} => /\ One(T) \in T
                                    /\ T \ {One(T)} \in SUBSET S
                                    /\ Cardinality(T \ {One(T)}) = Cardinality(T) - 1
  BY <1>1, FS_RemoveElement DEF One
<1>3. 0 \in G
  <2> DEFINE g == [T \in UpTo(0) |-> 0]
  <2>1. \A T \in UpTo(0) : T = {}
    BY <1>1
  <2>2. Adds(g, 0)
    BY <2>1
  <2>3. QED
    BY <2>2
<1>4. ASSUME NEW n \in Nat, n \in G
      PROVE  n + 1 \in G
  <2>1. PICK g : Adds(g, n)
    BY <1>4
  <2> DEFINE h == [T \in UpTo(n + 1) |-> Body(g, T)]
  <2>2. \A T \in UpTo(n) : h[T] = g[T]
    <3>1. \A T \in UpTo(n) : T \in UpTo(n + 1)
      BY <1>1
    <3>2. QED
      BY <2>1, <3>1
  <2>3. \A T \in UpTo(n + 1) : T # {} => T \ {One(T)} \in UpTo(n)
    BY <1>1, <1>2
  <2>4. \A T \in UpTo(n + 1) : Body(g, T) = Body(h, T)
    BY <2>2, <2>3
  <2>5. Adds(h, n + 1)
    BY <2>4
  <2>6. \E k : Adds(k, n + 1)
    BY <2>5
  <2> HIDE DEF Adds
  <2>7. QED
    BY <2>6
<1> HIDE DEF G
<1>5. Cardinality(S) \in G
  BY <1>1, <1>3, <1>4, NatSet
<1>6. PICK g : Adds(g, Cardinality(S))
  BY <1>5 DEF G
<1>7. UpTo(Cardinality(S)) = SUBSET S
  BY <1>1
<1>8. QED
  BY <1>6, <1>7 DEF AddsUp

(* It adds up to integers.                                                   *)
LEMMA SumIsInt ==
  ASSUME NEW S, IsFiniteSet(S), NEW f \in [S -> Int], NEW sum, AddsUp(sum, f, S)
  PROVE  \A T \in SUBSET S : sum[T] \in Int
<1> DEFINE G == {T \in SUBSET S : sum[T] \in Int}
<1>1. ASSUME NEW T \in SUBSET S, \A U \in SUBSET T : U # T => U \in G
      PROVE  T \in G
  <2>1. sum[T] = IF T = {} THEN 0 ELSE f[One(T)] + sum[T \ {One(T)}]
    BY DEF AddsUp
  <2>2. CASE T = {}
    BY <2>1, <2>2
  <2>3. CASE T # {}
    <3>1. One(T) \in T
      BY <2>3 DEF One
    <3>2. T \ {One(T)} \in SUBSET T /\ T \ {One(T)} # T
      BY <3>1
    <3>3. sum[T \ {One(T)}] \in Int /\ f[One(T)] \in Int
      BY <1>1, <3>1, <3>2
    <3>4. QED
      BY <2>1, <2>3, <3>3
  <2>4. QED
    BY <2>2, <2>3
<1> HIDE DEF G
<1>2. SUBSET S \subseteq G
  BY <1>1, SubsetInduction
<1>3. QED
  BY <1>2 DEF G

(* Two of them agree on what they have in common.                            *)
LEMMA SumsAgree ==
  ASSUME NEW S, IsFiniteSet(S), NEW f, NEW a, AddsUp(a, f, S),
         NEW R, NEW g, NEW b, AddsUp(b, g, R),
         NEW Q \in SUBSET (S \cap R), \A x \in Q : f[x] = g[x]
  PROVE  a[Q] = b[Q]
<1> DEFINE G == {T \in SUBSET Q : a[T] = b[T]}
<1>0. IsFiniteSet(Q)
  BY FS_Subset
<1>1. ASSUME NEW T \in SUBSET Q, \A U \in SUBSET T : U # T => U \in G
      PROVE  T \in G
  <2>1. /\ a[T] = IF T = {} THEN 0 ELSE f[One(T)] + a[T \ {One(T)}]
        /\ b[T] = IF T = {} THEN 0 ELSE g[One(T)] + b[T \ {One(T)}]
    BY DEF AddsUp
  <2>2. CASE T = {}
    BY <2>1, <2>2
  <2>3. CASE T # {}
    <3>1. One(T) \in T
      BY <2>3 DEF One
    <3>2. T \ {One(T)} \in SUBSET T /\ T \ {One(T)} # T
      BY <3>1
    <3>3. a[T \ {One(T)}] = b[T \ {One(T)}] /\ f[One(T)] = g[One(T)]
      BY <1>1, <3>1, <3>2
    <3>4. QED
      BY <2>1, <2>3, <3>3
  <2>4. QED
    BY <2>2, <2>3
<1> HIDE DEF G
<1>2. SUBSET Q \subseteq G
  BY <1>0, <1>1, SubsetInduction
<1>3. QED
  BY <1>2 DEF G

(* The order in which summands are added does not matter.                    *)
LEMMA SumTakesOut ==
  ASSUME NEW S, IsFiniteSet(S), NEW f \in [S -> Int], NEW sum, AddsUp(sum, f, S)
  PROVE  \A x \in S : sum[S] = f[x] + sum[S \ {x}]
<1> DEFINE G == {T \in SUBSET S : \A x \in T : sum[T] = f[x] + sum[T \ {x}]}
<1>0. \A T \in SUBSET S : sum[T] \in Int
  BY SumIsInt
<1>1. ASSUME NEW T \in SUBSET S, \A U \in SUBSET T : U # T => U \in G
      PROVE  T \in G
  <2>1. SUFFICES ASSUME NEW x \in T
                 PROVE  sum[T] = f[x] + sum[T \ {x}]
    OBVIOUS
  <2> DEFINE y == One(T)
  <2>2. y \in T
    BY DEF One
  <2> HIDE DEF y
  <2>3. sum[T] = f[y] + sum[T \ {y}]
    BY DEF AddsUp, y
  <2>4. CASE x = y
    BY <2>3, <2>4
  <2>5. CASE x # y
    <3>1. sum[T \ {y}] = f[x] + sum[(T \ {y}) \ {x}]
      <4>1. T \ {y} \in SUBSET T /\ T \ {y} # T /\ x \in T \ {y}
        BY <2>2, <2>5
      <4>2. QED
        BY <1>1, <4>1
    <3>2. sum[T \ {x}] = f[y] + sum[(T \ {x}) \ {y}]
      <4>1. T \ {x} \in SUBSET T /\ T \ {x} # T /\ y \in T \ {x}
        BY <2>1, <2>2, <2>5
      <4>2. QED
        BY <1>1, <4>1
    <3>3. (T \ {y}) \ {x} = (T \ {x}) \ {y}
      OBVIOUS
    <3>4. f[x] \in Int /\ f[y] \in Int /\ sum[(T \ {x}) \ {y}] \in Int
      BY <1>0, <2>2
    <3>5. sum[T] = f[y] + (f[x] + sum[(T \ {x}) \ {y}])
      BY <2>3, <3>1, <3>3
    <3>6. f[x] + sum[T \ {x}] = f[x] + (f[y] + sum[(T \ {x}) \ {y}])
      BY <3>2
    <3>7. QED
      BY <3>4, <3>5, <3>6
  <2>6. QED
    BY <2>4, <2>5
<1> HIDE DEF G
<1>2. SUBSET S \subseteq G
  BY <1>1, SubsetInduction
<1>3. QED
  BY <1>2 DEF G

(* A sum is any one of its summands and the sum of the others.               *)
LEMMA SumSplit ==
  ASSUME NEW S, IsFiniteSet(S), NEW f \in [S -> Int], NEW x \in S
  PROVE  /\ SumFunction(f) \in Int
         /\ SumFunction(Without(f, x)) \in Int
         /\ SumFunction(f) = f[x] + SumFunction(Without(f, x))
<1> DEFINE R == S \ {x}
           g == [y \in R |-> f[y]]
           a == CHOOSE sum : AddsUp(sum, f, S)
           b == CHOOSE sum : AddsUp(sum, g, R)
<1>1. IsFiniteSet(R) /\ g \in [R -> Int]
  BY FS_Subset
<1>2. SumFunction(f) = a[S] /\ SumFunction(g) = b[R]
  BY SumIsSome
<1>3. AddsUp(a, f, S) /\ AddsUp(b, g, R)
  BY <1>1, SumExists
<1>4. \A y \in R : f[y] = g[y]
  OBVIOUS
<1> HIDE DEF a, b, g
<1>5. a[R] = b[R]
  <2>1. R \in SUBSET (S \cap R)
    OBVIOUS
  <2>2. QED
    BY <1>3, <1>4, <2>1, SumsAgree
<1>6. a[S] = f[x] + a[R]
  BY <1>3, SumTakesOut
<1>7. a[S] \in Int /\ b[R] \in Int
  BY <1>1, <1>3, SumIsInt
<1>8. g = Without(f, x)
  BY DEF g, Without
<1>9. QED
  BY <1>2, <1>5, <1>6, <1>7, <1>8

(* The sum of no summands.                                                   *)
LEMMA SumOfNothing ==
  ASSUME NEW f, DOMAIN f = {}
  PROVE  SumFunction(f) = 0
<1>1. PICK sum : AddsUp(sum, f, {})
  BY FS_EmptySet, SumExists
<1>2. AddsUp(CHOOSE s : AddsUp(s, f, {}), f, {})
  BY <1>1
<1>3. QED
  BY <1>2, SumIsSome DEF AddsUp

(* A sum of amounts is an amount.                                            *)
LEMMA SumOfNaturals ==
  ASSUME NEW S, IsFiniteSet(S), NEW f \in [S -> Nat]
  PROVE  SumFunction(f) \in Nat
<1> DEFINE a == CHOOSE sum : AddsUp(sum, f, S)
           G == {T \in SUBSET S : a[T] \in Nat}
<1>1. AddsUp(a, f, S) /\ SumFunction(f) = a[S]
  BY SumExists, SumIsSome
<1> HIDE DEF a
<1>2. ASSUME NEW T \in SUBSET S, \A U \in SUBSET T : U # T => U \in G
      PROVE  T \in G
  <2>1. a[T] = IF T = {} THEN 0 ELSE f[One(T)] + a[T \ {One(T)}]
    BY <1>1 DEF AddsUp
  <2>2. CASE T = {}
    BY <2>1, <2>2
  <2>3. CASE T # {}
    <3>1. One(T) \in T
      BY <2>3 DEF One
    <3>2. T \ {One(T)} \in SUBSET T /\ T \ {One(T)} # T
      BY <3>1
    <3>3. a[T \ {One(T)}] \in Nat /\ f[One(T)] \in Nat
      BY <1>2, <3>1, <3>2
    <3>4. QED
      BY <2>1, <2>3, <3>3
  <2>4. QED
    BY <2>2, <2>3
<1> HIDE DEF G
<1>3. SUBSET S \subseteq G
  BY <1>2, SubsetInduction
<1>4. QED
  BY <1>1, <1>3 DEF G

(* A sum of nothings is nothing.                                             *)
LEMMA SumOfZeros ==
  ASSUME NEW S, IsFiniteSet(S), NEW f, DOMAIN f = S, \A x \in S : f[x] = 0
  PROVE  SumFunction(f) = 0
<1> DEFINE a == CHOOSE sum : AddsUp(sum, f, S)
           G == {T \in SUBSET S : a[T] = 0}
<1>1. AddsUp(a, f, S) /\ SumFunction(f) = a[S]
  BY SumExists, SumIsSome
<1> HIDE DEF a
<1>2. ASSUME NEW T \in SUBSET S, \A U \in SUBSET T : U # T => U \in G
      PROVE  T \in G
  <2>1. a[T] = IF T = {} THEN 0 ELSE f[One(T)] + a[T \ {One(T)}]
    BY <1>1 DEF AddsUp
  <2>2. CASE T = {}
    BY <2>1, <2>2
  <2>3. CASE T # {}
    <3>1. One(T) \in T
      BY <2>3 DEF One
    <3>2. T \ {One(T)} \in SUBSET T /\ T \ {One(T)} # T
      BY <3>1
    <3>3. a[T \ {One(T)}] = 0 /\ f[One(T)] = 0
      BY <1>2, <3>1, <3>2
    <3>4. QED
      BY <2>1, <2>3, <3>3
  <2>4. QED
    BY <2>2, <2>3
<1> HIDE DEF G
<1>3. SUBSET S \subseteq G
  BY <1>2, SubsetInduction
<1>4. QED
  BY <1>1, <1>3 DEF G

(* Sums that differ in one summand differ by as much.                        *)
LEMMA SumUpdate ==
  ASSUME NEW S, IsFiniteSet(S), NEW f \in [S -> Int], NEW g \in [S -> Int],
         NEW x \in S, \A y \in S \ {x} : g[y] = f[y]
  PROVE  SumFunction(g) = SumFunction(f) - f[x] + g[x]
<1>1. Without(g, x) = Without(f, x)
  BY DEF Without
<1>2. /\ SumFunction(f) = f[x] + SumFunction(Without(f, x))
      /\ SumFunction(Without(f, x)) \in Int
      /\ SumFunction(f) \in Int
  BY SumSplit
<1>3. SumFunction(g) = g[x] + SumFunction(Without(g, x))
  BY SumSplit
<1>4. f[x] \in Int /\ g[x] \in Int
  OBVIOUS
<1>5. QED
  BY <1>1, <1>2, <1>3, <1>4

-------------------------------------------------------------------------------
(* The totals.  A step moves two numbers: the excess, what the vault holds   *)
(* beyond what it owes, and the spread, what the settled rounds distribute   *)
(* beyond what they have.                                                    *)

StakesOf(s) == [u \in Accounts |-> OpenStake(s, u)]

Excess(s) ==
  s.balance + s.ledger.won + SumFunction(s.ledger.gifts)
    - (SumFunction(StakesOf(s)) + SumFunction(s.pendingWithdrawals) + s.treasuryFees
         + s.ledger.donated + SumFunction(s.ledger.replaced))

Spread(s) ==
  SumFunction(s.ledger.entitled) + s.ledger.earned
    - (SumFunction(s.ledger.resolved) + s.ledger.won)

(* The stakes that arrived with the bets waiting in the first n frames.      *)
Arrived(frames, n) == SumFunction([i \in 1 .. n |-> frames[i].next.amount])

Totalled(s, excess) == Excess(s) = excess /\ Spread(s) = 0

(* A storage kept in a frame was current when only the frames below it were  *)
(* there.  The one saved before a payout still has the payout, and the stake *)
(* that came with the bet behind it.                                         *)
FrameTotalled(frames, i) ==
  /\ Totalled(frames[i].entry, Arrived(frames, i - 1))
  /\ frames[i].kind = "settle"
       => Totalled(frames[i].atCall, Arrived(frames, i) + frames[i].amount)
  /\ frames[i].kind # "settle" => frames[i].next.amount = 0

TotalsInv ==
  /\ Totalled(store, Arrived(stack, Len(stack)))
  /\ \A i \in 1 .. Len(stack) : FrameTotalled(stack, i)

(* The sums that occur in the totals are amounts.                            *)
LEMMA TotalsAreAmounts ==
  ASSUME NEW s \in Store
  PROVE  /\ SumFunction(s.ledger.gifts) \in Nat
         /\ SumFunction(StakesOf(s)) \in Nat
         /\ SumFunction(s.pendingWithdrawals) \in Nat
         /\ SumFunction(s.ledger.replaced) \in Nat
         /\ SumFunction(s.ledger.entitled) \in Nat
         /\ SumFunction(s.ledger.resolved) \in Nat
         /\ StakesOf(s) \in [Accounts -> Nat]
         /\ Excess(s) \in Int
         /\ Spread(s) \in Int
<1>1. StakesOf(s) \in [Accounts -> Nat]
  BY OpenStakeIsAmount DEF StakesOf
<1>2. /\ SumFunction(s.ledger.gifts) \in Nat
      /\ SumFunction(StakesOf(s)) \in Nat
      /\ SumFunction(s.pendingWithdrawals) \in Nat
      /\ SumFunction(s.ledger.replaced) \in Nat
      /\ SumFunction(s.ledger.entitled) \in Nat
      /\ SumFunction(s.ledger.resolved) \in Nat
  <2>1. /\ s.ledger.gifts \in [Accounts -> Nat]
        /\ s.pendingWithdrawals \in [Accounts -> Nat]
        /\ s.ledger.replaced \in [Accounts -> Nat]
        /\ s.ledger.entitled \in [Accounts -> Nat]
        /\ s.ledger.resolved \in [Accounts -> Nat]
    BY StoreParts
  <2>2. QED
    BY <1>1, <2>1, FiniteAccounts, SumOfNaturals
<1>3. QED
  BY <1>1, <1>2, StoreParts DEF Excess, Spread

(* What changes of the amount of one account changes of the total.           *)
LEMMA TotalUpdate ==
  ASSUME NEW f \in [Accounts -> Nat], NEW g \in [Accounts -> Nat], NEW u \in Accounts,
         \A v \in Accounts \ {u} : g[v] = f[v]
  PROVE  /\ SumFunction(f) \in Nat
         /\ SumFunction(g) = SumFunction(f) - f[u] + g[u]
<1>1. f \in [Accounts -> Int] /\ g \in [Accounts -> Int]
  OBVIOUS
<1>2. SumFunction(f) \in Nat
  BY FiniteAccounts, SumOfNaturals
<1>3. SumFunction(g) = SumFunction(f) - f[u] + g[u]
  BY <1>1, FiniteAccounts, SumUpdate
<1>4. QED
  BY <1>2, <1>3

(* Adding to the amount of one account adds to the total.                    *)
LEMMA TotalRaised ==
  ASSUME NEW f \in [Accounts -> Nat], NEW u \in Accounts, NEW amount \in Nat,
         NEW g, g = [f EXCEPT ![u] = @ + amount]
  PROVE  SumFunction(g) = SumFunction(f) + amount
<1>1. /\ g \in [Accounts -> Nat] /\ f[u] \in Nat /\ g[u] = f[u] + amount
      /\ \A v \in Accounts \ {u} : g[v] = f[v]
  OBVIOUS
<1>2. SumFunction(f) \in Nat /\ SumFunction(g) = SumFunction(f) - f[u] + g[u]
  BY <1>1, TotalUpdate
<1>3. QED
  BY <1>1, <1>2

(* A step that changes neither rounds nor books moves the excess by what it  *)
(* moves of the balance.                                                     *)
LEMMA BalanceMovesTotals ==
  ASSUME NEW s \in Store, NEW new \in Store,
         new.ledger = s.ledger, new.activeRounds = s.activeRounds,
         new.pendingWithdrawals = s.pendingWithdrawals,
         new.treasuryFees = s.treasuryFees
  PROVE  /\ Excess(new) = Excess(s) + (new.balance - s.balance)
         /\ Spread(new) = Spread(s)
<1>1. StakesOf(new) = StakesOf(s)
  BY DEF StakesOf, OpenStake, HasActiveRound
<1>2. QED
  BY <1>1, TotalsAreAmounts, StoreParts DEF Excess, Spread

(* The stake of a bet is in excess until the round is placed.                *)
LEMMA AcceptMovesTotals ==
  ASSUME NEW s \in Store, NEW amount \in Nat
  PROVE  /\ Excess(Accept(s, amount)) = Excess(s) + amount
         /\ Spread(Accept(s, amount)) = Spread(s)
<1> DEFINE new == Accept(s, amount)
<1>1. /\ new \in Store
      /\ new.ledger = s.ledger
      /\ new.activeRounds = s.activeRounds
      /\ new.pendingWithdrawals = s.pendingWithdrawals
      /\ new.treasuryFees = s.treasuryFees
      /\ new.balance = s.balance + amount
  BY DEF Accept, Store
<1> HIDE DEF new
<1>2. Excess(new) = Excess(s) + amount /\ Spread(new) = Spread(s)
  BY <1>1, BalanceMovesTotals, TotalsAreAmounts, StoreParts
<1>3. QED
  BY <1>2 DEF new

(* A donation is in excess of nothing.                                       *)
LEMMA ReceiveMovesTotals ==
  ASSUME NEW s \in Store, NEW amount \in Nat
  PROVE  LET new == [Accept(s, amount) EXCEPT !.ledger.donated = @ + amount]
         IN  Excess(new) = Excess(s) /\ Spread(new) = Spread(s)
<1> DEFINE got == Accept(s, amount)
           new == [got EXCEPT !.ledger.donated = @ + amount]
<1>1. /\ got \in Store
      /\ got.ledger = s.ledger
      /\ Excess(got) = Excess(s) + amount /\ Spread(got) = Spread(s)
  BY AcceptMovesTotals DEF Accept, Store
<1> HIDE DEF got
<1>2. /\ new.ledger = [got.ledger EXCEPT !.donated = @ + amount]
      /\ new.balance = got.balance
      /\ new.activeRounds = got.activeRounds
      /\ new.pendingWithdrawals = got.pendingWithdrawals
      /\ new.treasuryFees = got.treasuryFees
  BY <1>1 DEF Store
<1> HIDE DEF new
<1>3. /\ new.ledger.donated = got.ledger.donated + amount
      /\ new.ledger.gifts = got.ledger.gifts
      /\ new.ledger.replaced = got.ledger.replaced
      /\ new.ledger.entitled = got.ledger.entitled
      /\ new.ledger.resolved = got.ledger.resolved
      /\ new.ledger.won = got.ledger.won
      /\ new.ledger.earned = got.ledger.earned
  BY <1>1, <1>2, StoreParts DEF Ledger
<1>4. StakesOf(new) = StakesOf(got)
  BY <1>2 DEF StakesOf, OpenStake, HasActiveRound
<1>5. Spread(new) = Spread(got)
  BY <1>3 DEF Spread
<1>6. Excess(new) = Excess(got) - amount
  BY <1>1, <1>2, <1>3, <1>4, TotalsAreAmounts, StoreParts DEF Excess
<1>7. Excess(new) = Excess(s) /\ Spread(new) = Spread(s)
  BY <1>1, <1>5, <1>6, TotalsAreAmounts
<1>8. QED
  BY <1>7 DEF new, got

(* A settled round leaves the payout in excess until it is sent or queued,   *)
(* and distributes all it has to.                                            *)
LEMMA ResolveMovesTotals ==
  ASSUME NEW s \in Store, NEW u \in Accounts, HasActiveRound(s, u), NEW price \in Int
  PROVE  /\ Payout(s.activeRounds[u], price) \in Nat
         /\ Excess(ResolveRound(s, u, price)) = Excess(s) + Payout(s.activeRounds[u], price)
         /\ Spread(ResolveRound(s, u, price)) = Spread(s)
<1> DEFINE r      == s.activeRounds[u]
           new    == ResolveRound(s, u, price)
           payout == Payout(r, price)
           share  == HouseShare(r, price)
           extra  == IF IsWon(r, price) THEN r.amount ELSE 0
<1>1. r \in UserRound /\ r.amount \in Nat
  BY StoreParts DEF UserRound
<1>2. /\ payout \in Nat /\ share \in Nat /\ extra \in Nat
      /\ payout + share = r.amount + extra
  BY <1>1, PayoutsAreZeroSum
<1>3. /\ Resolves(s, new, u, r, price)
      /\ Settled(r, price).roundId = r.roundId
      /\ Settled(r, price).settled
  BY <1>1, ResolveRoundResolves, SettledIsRound
<1>4. OpenStake(s, u) = r.amount
  BY DEF OpenStake
<1> HIDE DEF new
<1>5. /\ new \in Store
      /\ new.activeRounds = [s.activeRounds EXCEPT ![u] = Settled(r, price)]
      /\ new.treasuryFees = s.treasuryFees + share
      /\ new.ledger.resolved = [s.ledger.resolved EXCEPT ![u] = @ + r.amount]
      /\ new.ledger.entitled = [s.ledger.entitled EXCEPT ![u] = @ + payout]
      /\ new.ledger.won = s.ledger.won + extra
      /\ new.ledger.earned = s.ledger.earned + share
      /\ new.ledger.replaced = s.ledger.replaced
      /\ new.ledger.gifts = s.ledger.gifts
      /\ new.ledger.donated = s.ledger.donated
      /\ new.balance = s.balance
      /\ new.pendingWithdrawals = s.pendingWithdrawals
  BY <1>3 DEF Resolves
<1> HIDE DEF payout, share, extra
<1> HIDE DEF r
<1>6. SumFunction(StakesOf(new)) = SumFunction(StakesOf(s)) - r.amount
  <2>1. OpenStake(new, u) = 0
    BY <1>3, <1>5, StoreParts DEF OpenStake, HasActiveRound
  <2>2. \A v \in Accounts : v # u => OpenStake(new, v) = OpenStake(s, v)
    BY <1>5, StoreParts DEF OpenStake, HasActiveRound
  <2>3. /\ StakesOf(s) \in [Accounts -> Nat] /\ StakesOf(s)[u] = r.amount
        /\ StakesOf(new) \in [Accounts -> Nat] /\ StakesOf(new)[u] = 0
        /\ \A v \in Accounts \ {u} : StakesOf(new)[v] = StakesOf(s)[v]
    BY <1>4, <1>5, <2>1, <2>2, OpenStakeIsAmount DEF StakesOf
  <2>4. QED
    BY <1>1, <2>3, TotalUpdate
<1>7. SumFunction(new.ledger.resolved) = SumFunction(s.ledger.resolved) + r.amount
  <2>1. s.ledger.resolved \in [Accounts -> Nat]
    BY StoreParts
  <2>2. QED
    BY <1>1, <1>5, <2>1, TotalRaised
<1>8. SumFunction(new.ledger.entitled) = SumFunction(s.ledger.entitled) + payout
  <2>1. s.ledger.entitled \in [Accounts -> Nat]
    BY StoreParts
  <2>2. QED
    BY <1>2, <1>5, <2>1, TotalRaised
<1>9. Excess(new) = Excess(s) + payout
  <2>1. /\ s.balance \in Nat /\ s.treasuryFees \in Nat
        /\ s.ledger.won \in Nat /\ s.ledger.earned \in Nat /\ s.ledger.donated \in Nat
        /\ SumFunction(s.ledger.gifts) \in Nat
        /\ SumFunction(StakesOf(s)) \in Nat
        /\ SumFunction(s.pendingWithdrawals) \in Nat
        /\ SumFunction(s.ledger.replaced) \in Nat
    BY StoreParts, TotalsAreAmounts
  <2>2. QED
    BY <1>1, <1>2, <1>5, <1>6, <2>1 DEF Excess
<1>10. Spread(new) = Spread(s)
  <2>1. /\ s.ledger.won \in Nat /\ s.ledger.earned \in Nat
        /\ SumFunction(s.ledger.entitled) \in Nat
        /\ SumFunction(s.ledger.resolved) \in Nat
    BY StoreParts, TotalsAreAmounts
  <2>2. QED
    BY <1>1, <1>2, <1>5, <1>7, <1>8, <2>1 DEF Spread
<1>11. QED
  BY <1>2, <1>9, <1>10 DEF new, payout, r

(* A payout and the owner's fees leave the vault; the faucet's gifts do, but *)
(* the donors pay for them.                                                  *)
LEMMA SendMovesTotals ==
  ASSUME NEW s \in Store, NEW u \in Accounts, NEW amount \in Nat, amount <= s.balance,
         NEW kind \in {"settle", "claim", "faucet", "fees"}
  PROVE  /\ Excess(Send(s, kind, u, amount)) =
              Excess(s) - (IF kind = "faucet" THEN 0 ELSE amount)
         /\ Spread(Send(s, kind, u, amount)) = Spread(s)
<1> DEFINE new == Send(s, kind, u, amount)
<1>1. Sends(s, new, kind, u, amount)
  BY SendSends
<1> HIDE DEF new
<1>2. /\ new \in Store
      /\ new.balance = s.balance - amount
      /\ new.pendingWithdrawals = s.pendingWithdrawals
      /\ new.activeRounds = s.activeRounds
      /\ new.treasuryFees = s.treasuryFees
      /\ new.ledger.resolved = s.ledger.resolved
      /\ new.ledger.replaced = s.ledger.replaced
      /\ new.ledger.entitled = s.ledger.entitled
      /\ new.ledger.won = s.ledger.won
      /\ new.ledger.earned = s.ledger.earned
      /\ new.ledger.donated = s.ledger.donated
      /\ new.ledger.gifts = IF kind = "faucet"
                            THEN [s.ledger.gifts EXCEPT ![u] = @ + amount] ELSE s.ledger.gifts
  BY <1>1 DEF Sends
<1>3. StakesOf(new) = StakesOf(s)
  BY <1>2 DEF StakesOf, OpenStake, HasActiveRound
<1>4. SumFunction(new.ledger.gifts) =
        SumFunction(s.ledger.gifts) + (IF kind = "faucet" THEN amount ELSE 0)
  <2>1. s.ledger.gifts \in [Accounts -> Nat] /\ SumFunction(s.ledger.gifts) \in Nat
    BY StoreParts, TotalsAreAmounts
  <2>2. SumFunction([s.ledger.gifts EXCEPT ![u] = @ + amount])
          = SumFunction(s.ledger.gifts) + amount
    BY <2>1, TotalRaised
  <2>3. QED
    BY <1>2, <2>1, <2>2
<1>5. Excess(new) = Excess(s) - (IF kind = "faucet" THEN 0 ELSE amount)
  BY <1>2, <1>3, <1>4, TotalsAreAmounts, StoreParts DEF Excess
<1>6. Spread(new) = Spread(s)
  BY <1>2 DEF Spread
<1>7. QED
  BY <1>5, <1>6 DEF new

(* A payout that is queued is owed.                                          *)
LEMMA QueueMovesTotals ==
  ASSUME NEW s \in Store, NEW u \in Accounts, NEW amount \in Nat
  PROVE  /\ QueuePayout(s, u, amount) \in Store
         /\ Excess(QueuePayout(s, u, amount)) = Excess(s) - amount
         /\ Spread(QueuePayout(s, u, amount)) = Spread(s)
<1> DEFINE new == QueuePayout(s, u, amount)
<1>1. /\ new \in Store
      /\ new.pendingWithdrawals = [s.pendingWithdrawals EXCEPT ![u] = @ + amount]
      /\ new.ledger = s.ledger
      /\ new.balance = s.balance
      /\ new.activeRounds = s.activeRounds
      /\ new.treasuryFees = s.treasuryFees
  BY DEF QueuePayout, Store
<1> HIDE DEF new
<1>2. SumFunction(new.pendingWithdrawals) = SumFunction(s.pendingWithdrawals) + amount
  <2>1. s.pendingWithdrawals \in [Accounts -> Nat]
    BY StoreParts
  <2>2. QED
    BY <1>1, <2>1, TotalRaised
<1>3. StakesOf(new) = StakesOf(s)
  BY <1>1 DEF StakesOf, OpenStake, HasActiveRound
<1>4. Excess(new) = Excess(s) - amount /\ Spread(new) = Spread(s)
  BY <1>1, <1>2, <1>3, StoreParts, TotalsAreAmounts DEF Excess, Spread
<1>5. QED
  BY <1>1, <1>4 DEF new

(* Unlisting an account moves nothing.                                       *)
LEMMA DelistMovesTotals ==
  ASSUME NEW s, Balanced(s), NEW u \in Accounts
  PROVE  /\ Excess(Delist(s, u)) = Excess(s)
         /\ Spread(Delist(s, u)) = Spread(s)
<1> DEFINE new == Delist(s, u)
<1>1. s \in Store /\ new \in Store
  BY DelistKeepsBooks DEF Balanced, OtherBooks
<1>2. /\ new.ledger = s.ledger
      /\ new.balance = s.balance
      /\ new.pendingWithdrawals = s.pendingWithdrawals
      /\ new.activeRounds = s.activeRounds
      /\ new.treasuryFees = s.treasuryFees
  BY <1>1 DEF Delist, Store
<1> HIDE DEF new
<1>3. Excess(new) = Excess(s) /\ Spread(new) = Spread(s)
  BY <1>1, <1>2, BalanceMovesTotals, TotalsAreAmounts, StoreParts
<1>4. QED
  BY <1>3 DEF new

(* A new round takes the stake that was waiting for it; what an open round   *)
(* it overwrites had staked is owed as before.                               *)
LEMMA PlaceBetMovesTotals ==
  ASSUME NEW s, Balanced(s), NEW u \in Accounts, NEW b \in Bets, now \in Nat
  PROVE  /\ Excess(PlaceBet(s, u, b)) = Excess(s) - b.amount
         /\ Spread(PlaceBet(s, u, b)) = Spread(s)
<1> DEFINE new  == PlaceBet(s, u, b)
           over == OpenStake(s, u)
<1>1. s \in Store /\ RegistryConsistent(s.registry) /\ b.amount \in Nat
  BY DEF Balanced, OtherBooks, Bets
<1>2. over \in Nat /\ Places(s, new, u, b)
  BY <1>1, OpenStakeIsAmount, PlaceBetPlaces
<1> HIDE DEF new
<1>3. /\ new \in Store
      /\ new.balance = s.balance
      /\ new.pendingWithdrawals = s.pendingWithdrawals
      /\ new.treasuryFees = s.treasuryFees
      /\ new.ledger.replaced = [s.ledger.replaced EXCEPT ![u] = @ + over]
      /\ new.ledger.resolved = s.ledger.resolved
      /\ new.ledger.entitled = s.ledger.entitled
      /\ new.ledger.gifts = s.ledger.gifts
      /\ new.ledger.won = s.ledger.won
      /\ new.ledger.earned = s.ledger.earned
      /\ new.ledger.donated = s.ledger.donated
  BY <1>2 DEF Places
<1>4. SumFunction(StakesOf(new)) = SumFunction(StakesOf(s)) - over + b.amount
  <2>1. \A v \in Accounts : OpenStake(new, v) = IF v = u THEN b.amount ELSE OpenStake(s, v)
    BY <1>2 DEF Places
  <2>2. /\ StakesOf(s) \in [Accounts -> Nat] /\ StakesOf(s)[u] = over
        /\ StakesOf(new) \in [Accounts -> Nat] /\ StakesOf(new)[u] = b.amount
        /\ \A v \in Accounts \ {u} : StakesOf(new)[v] = StakesOf(s)[v]
    BY <1>1, <1>3, <2>1, OpenStakeIsAmount DEF StakesOf
  <2>3. QED
    BY <2>2, TotalUpdate
<1> HIDE DEF over
<1>5. SumFunction(new.ledger.replaced) = SumFunction(s.ledger.replaced) + over
  BY <1>1, <1>2, <1>3, StoreParts, TotalRaised
<1>6. Excess(new) = Excess(s) - b.amount
  <2>1. /\ s.balance \in Nat /\ s.treasuryFees \in Nat
        /\ s.ledger.won \in Nat /\ s.ledger.donated \in Nat
        /\ SumFunction(s.ledger.gifts) \in Nat
        /\ SumFunction(StakesOf(s)) \in Nat
        /\ SumFunction(s.pendingWithdrawals) \in Nat
        /\ SumFunction(s.ledger.replaced) \in Nat
    BY <1>1, StoreParts, TotalsAreAmounts
  <2>2. QED
    BY <1>1, <1>2, <1>3, <1>4, <1>5, <2>1 DEF Excess
<1>7. Spread(new) = Spread(s)
  BY <1>3 DEF Spread
<1>8. QED
  BY <1>6, <1>7 DEF new

(* The end of _settleRound, and of bet after it, takes the stake of the bet  *)
(* that waited.                                                              *)
LEMMA FinishSettleMovesTotals ==
  ASSUME NEW s, Balanced(s), NEW u \in Accounts, NEW next \in Bets, now \in Nat
  PROVE  /\ Excess(FinishSettle(s, u, next)) = Excess(s) - next.amount
         /\ Spread(FinishSettle(s, u, next)) = Spread(s)
<1>1. s \in Store /\ Balanced(Delist(s, u))
  BY DelistKeepsBooks DEF Balanced, OtherBooks
<1>2. Excess(Delist(s, u)) = Excess(s) /\ Spread(Delist(s, u)) = Spread(s)
  BY DelistMovesTotals
<1>3. CASE next = NoBet
  <2>1. next.amount = 0 /\ Excess(s) \in Int
    BY <1>1, <1>3, TotalsAreAmounts DEF NoBet
  <2>2. FinishSettle(s, u, next) = Delist(s, u)
    BY <1>3 DEF FinishSettle
  <2>3. QED
    BY <1>2, <2>1, <2>2
<1>4. CASE next # NoBet
  <2>1. FinishSettle(s, u, next) = PlaceBet(Delist(s, u), u, next)
    BY <1>4 DEF FinishSettle
  <2>2. QED
    BY <1>1, <1>2, <2>1, PlaceBetMovesTotals
<1>5. QED
  BY <1>3, <1>4

(* claim owes less by what it is about to send, withdrawFees likewise;       *)
(* the flag of the faucet owes nobody anything.                              *)
LEMMA BookingMovesTotals ==
  ASSUME NEW s \in Store, NEW u \in Accounts
  PROVE  /\ BookClaim(s, u) \in Store
         /\ Excess(BookClaim(s, u)) = Excess(s) + s.pendingWithdrawals[u]
         /\ Spread(BookClaim(s, u)) = Spread(s)
         /\ BookFaucet(s, u) \in Store
         /\ Excess(BookFaucet(s, u)) = Excess(s)
         /\ Spread(BookFaucet(s, u)) = Spread(s)
         /\ BookWithdrawal(s) \in Store
         /\ Excess(BookWithdrawal(s)) = Excess(s) + s.treasuryFees
         /\ Spread(BookWithdrawal(s)) = Spread(s)
<1>1. ASSUME NEW new, new = BookClaim(s, u)
      PROVE  /\ new \in Store
             /\ Excess(new) = Excess(s) + s.pendingWithdrawals[u]
             /\ Spread(new) = Spread(s)
  <2>1. /\ new \in Store
        /\ new.balance = s.balance
        /\ new.pendingWithdrawals = [s.pendingWithdrawals EXCEPT ![u] = 0]
        /\ new.ledger = s.ledger
        /\ new.activeRounds = s.activeRounds
        /\ new.treasuryFees = s.treasuryFees
    BY <1>1 DEF BookClaim, Store
  <2>2. /\ s.pendingWithdrawals \in [Accounts -> Nat]
        /\ new.pendingWithdrawals \in [Accounts -> Nat]
        /\ s.pendingWithdrawals[u] \in Nat
        /\ new.pendingWithdrawals[u] = 0
        /\ \A v \in Accounts \ {u} : new.pendingWithdrawals[v] = s.pendingWithdrawals[v]
    BY <2>1, StoreParts
  <2>3. SumFunction(new.pendingWithdrawals) =
          SumFunction(s.pendingWithdrawals) - s.pendingWithdrawals[u] + 0
    BY <2>2, TotalUpdate
  <2>4. StakesOf(new) = StakesOf(s)
    BY <2>1 DEF StakesOf, OpenStake, HasActiveRound
  <2>5. QED
    BY <2>1, <2>2, <2>3, <2>4, StoreParts, TotalsAreAmounts DEF Excess, Spread
<1>2. ASSUME NEW new, new = BookFaucet(s, u)
      PROVE  /\ new \in Store
             /\ Excess(new) = Excess(s)
             /\ Spread(new) = Spread(s)
  <2>1. /\ new \in Store
        /\ new.balance = s.balance
        /\ new.pendingWithdrawals = s.pendingWithdrawals
        /\ new.ledger = s.ledger
        /\ new.activeRounds = s.activeRounds
        /\ new.treasuryFees = s.treasuryFees
    BY <1>2 DEF BookFaucet, Store
  <2>2. QED
    BY <2>1, BalanceMovesTotals, StoreParts, TotalsAreAmounts
<1>3. ASSUME NEW new, new = BookWithdrawal(s)
      PROVE  /\ new \in Store
             /\ Excess(new) = Excess(s) + s.treasuryFees
             /\ Spread(new) = Spread(s)
  <2>1. /\ new \in Store
        /\ new.balance = s.balance
        /\ new.pendingWithdrawals = s.pendingWithdrawals
        /\ new.ledger = s.ledger
        /\ new.activeRounds = s.activeRounds
        /\ new.treasuryFees = 0
    BY <1>3 DEF BookWithdrawal, Store
  <2>2. StakesOf(new) = StakesOf(s)
    BY <2>1 DEF StakesOf, OpenStake, HasActiveRound
  <2>3. QED
    BY <2>1, <2>2, StoreParts, TotalsAreAmounts DEF Excess, Spread
<1>4. QED
  BY <1>1, <1>2, <1>3

(* authorizer and owner move nothing.                                        *)
LEMMA AdminMovesTotals ==
  ASSUME NEW s \in Store, NEW a \in Signers, NEW o \in Accounts \cup {NoAccount},
         NEW new, \/ new = [s EXCEPT !.authorizer = a]
                  \/ new = [s EXCEPT !.owner = o]
  PROVE  Excess(new) = Excess(s) /\ Spread(new) = Spread(s)
<1>1. /\ new \in Store
      /\ new.balance = s.balance
      /\ new.ledger = s.ledger
      /\ new.pendingWithdrawals = s.pendingWithdrawals
      /\ new.activeRounds = s.activeRounds
      /\ new.treasuryFees = s.treasuryFees
  BY DEF Store
<1>2. QED
  BY <1>1, BalanceMovesTotals, StoreParts, TotalsAreAmounts

(* One frame more brings its stake along.                                    *)
LEMMA ArrivedNext ==
  ASSUME NEW frames, NEW n \in Nat, \A i \in 1 .. n + 1 : frames[i].next.amount \in Nat
  PROVE  /\ Arrived(frames, n) \in Nat
         /\ Arrived(frames, n + 1) = Arrived(frames, n) + frames[n + 1].next.amount
<1> DEFINE f == [i \in 1 .. n + 1 |-> frames[i].next.amount]
           g == [i \in 1 .. n |-> frames[i].next.amount]
<1>1. IsFiniteSet(1 .. n + 1) /\ IsFiniteSet(1 .. n)
  BY FS_Interval
<1>2. /\ f \in [1 .. n + 1 -> Int] /\ f[n + 1] = frames[n + 1].next.amount
      /\ g \in [1 .. n -> Nat]
  OBVIOUS
<1>3. n + 1 \in 1 .. n + 1
  OBVIOUS
<1>4. Without(f, n + 1) = g
  <2>1. (1 .. n + 1) \ {n + 1} = 1 .. n
    OBVIOUS
  <2>2. QED
    BY <2>1 DEF Without
<1> HIDE DEF f, g
<1>5. SumFunction(f) = f[n + 1] + SumFunction(g)
  BY <1>1, <1>2, <1>3, <1>4, SumSplit
<1>6. SumFunction(g) \in Nat
  BY <1>1, <1>2, SumOfNaturals
<1>7. f[n + 1] \in Nat
  BY <1>2
<1>8. QED
  BY <1>2, <1>5, <1>6, <1>7 DEF Arrived, f, g

(* Only the frames that are counted matter.                                  *)
LEMMA ArrivedSame ==
  ASSUME NEW frames, NEW others, NEW n \in Nat, \A i \in 1 .. n : frames[i] = others[i]
  PROVE  Arrived(frames, n) = Arrived(others, n)
BY DEF Arrived

(* In a stack of frames all stakes are amounts.                              *)
LEMMA FramesHaveStakes ==
  ASSUME NEW frames \in Seq(Frames), NEW n \in 0 .. Len(frames)
  PROVE  /\ Arrived(frames, n) \in Nat
         /\ n # 0 => Arrived(frames, n) = Arrived(frames, n - 1) + frames[n].next.amount
<1>1. \A i \in 1 .. Len(frames) : frames[i].next.amount \in Nat
  <2>1. \A i \in 1 .. Len(frames) : frames[i] \in Frames
    BY ElementOfSeq
  <2>2. \A f \in Frames : f.next.amount \in Nat
    BY DEF Frames, Bets
  <2>3. QED
    BY <2>1, <2>2
<1>2. CASE n = 0
  <2>1. DOMAIN [i \in 1 .. 0 |-> frames[i].next.amount] = {}
    OBVIOUS
  <2>2. QED
    BY <1>2, <2>1, SumOfNothing DEF Arrived
<1>3. CASE n # 0
  <2> DEFINE m == n - 1
  <2>1. m \in Nat /\ n = m + 1 /\ \A i \in 1 .. m + 1 : frames[i].next.amount \in Nat
    BY <1>1, <1>3
  <2> HIDE DEF m
  <2>2. /\ Arrived(frames, m) \in Nat
        /\ Arrived(frames, m + 1) = Arrived(frames, m) + frames[m + 1].next.amount
    BY <2>1, ArrivedNext
  <2>3. frames[m + 1].next.amount \in Nat
    BY <2>1
  <2>4. QED
    BY <2>1, <2>2, <2>3 DEF m
<1>4. QED
  BY <1>2, <1>3

(* What is said of a frame depends on it and on the frames below it.         *)
LEMMA FrameTotalledSame ==
  ASSUME NEW frames, NEW others, NEW n \in Nat, \A i \in 1 .. n : frames[i] = others[i],
         NEW i \in 1 .. n, FrameTotalled(frames, i)
  PROVE  FrameTotalled(others, i)
<1>1. i - 1 \in Nat /\ i \in Nat /\ frames[i] = others[i]
  OBVIOUS
<1>2. /\ Arrived(frames, i - 1) = Arrived(others, i - 1)
      /\ Arrived(frames, i) = Arrived(others, i)
  BY <1>1, ArrivedSame
<1>3. QED
  BY <1>1, <1>2 DEF FrameTotalled

(* A call out of the contract from storages with the right totals.           *)
LEMMA PushKeepsTotals ==
  ASSUME BooksInv, TotalsInv, NEW f \in Frames, stack' = Append(stack, f),
         Totalled(f.entry, Arrived(stack, Len(stack))),
         f.kind = "settle"
           => Totalled(f.atCall, Arrived(stack, Len(stack)) + f.next.amount + f.amount),
         f.kind # "settle" => f.next.amount = 0,
         Totalled(store', Arrived(stack, Len(stack)) + f.next.amount)
  PROVE  TotalsInv'
<1> DEFINE n == Len(stack)
           new == stack'
<1>1. /\ stack \in Seq(Frames)
      /\ new \in Seq(Frames)
      /\ n \in Nat
      /\ Len(new) = n + 1
      /\ \A i \in 1 .. n : new[i] = stack[i]
      /\ new[n + 1] = f
  BY AppendProperties DEF BooksInv
<1> HIDE DEF n, new
<1>2. Arrived(new, n) = Arrived(stack, n)
  BY <1>1, ArrivedSame
<1>3. Arrived(new, n + 1) = Arrived(stack, n) + f.next.amount
  <2>1. n + 1 \in 0 .. Len(new) /\ n + 1 # 0 /\ (n + 1) - 1 = n
    BY <1>1
  <2>2. Arrived(new, n + 1) = Arrived(new, n) + new[n + 1].next.amount
    BY <1>1, <2>1, FramesHaveStakes
  <2>3. QED
    BY <1>1, <1>2, <2>2
<1>4. ASSUME NEW i \in 1 .. n + 1
      PROVE  FrameTotalled(new, i)
  <2>1. CASE i \in 1 .. n
    <3>1. FrameTotalled(stack, i)
      BY <2>1 DEF TotalsInv, n
    <3>2. QED
      BY <1>1, <2>1, <3>1, FrameTotalledSame
  <2>2. CASE i = n + 1
    <3>1. i - 1 = n /\ new[i] = f
      BY <1>1, <2>2
    <3>2. QED
      BY <1>2, <1>3, <2>2, <3>1 DEF FrameTotalled, n
  <2>3. QED
    BY <1>1, <2>1, <2>2
<1>5. Totalled(store', Arrived(new, Len(new)))
  BY <1>1, <1>3 DEF n
<1>6. QED
  BY <1>1, <1>4, <1>5 DEF TotalsInv, new

(* The innermost call comes back to a storage with the right totals.         *)
LEMMA PopKeepsTotals ==
  ASSUME BooksInv, TotalsInv, stack # << >>, stack' = Pop,
         Totalled(store', Arrived(stack, Len(stack) - 1))
  PROVE  TotalsInv'
<1> DEFINE m == Len(stack) - 1
           new == stack'
<1>1. /\ m \in Nat /\ m < Len(stack)
      /\ Len(new) = m
      /\ \A i \in 1 .. m : new[i] = stack[i]
  BY PopDropsTop
<1> HIDE DEF m, new
<1>2. Arrived(new, m) = Arrived(stack, m)
  BY <1>1, ArrivedSame
<1>3. ASSUME NEW i \in 1 .. m
      PROVE  FrameTotalled(new, i)
  <2>1. FrameTotalled(stack, i)
    BY <1>1 DEF TotalsInv, m
  <2>2. QED
    BY <1>1, <2>1, FrameTotalledSame
<1>4. Totalled(store', Arrived(new, m))
  BY <1>1, <1>2 DEF m
<1>5. QED
  BY <1>1, <1>3, <1>4 DEF TotalsInv, new

(* _settleRound, called with a storage that has the stake of the bet behind  *)
(* it in excess.                                                             *)
LEMMA SettleRoundKeepsTotals ==
  ASSUME BooksInv, TotalsInv, NEW s, Balanced(s), NEW u \in Accounts, HasActiveRound(s, u),
         NEW price \in Int, NEW next \in Bets,
         Totalled(s, Arrived(stack, Len(stack)) + next.amount),
         SettleRound(s, u, price, next)
  PROVE  TotalsInv'
<1> DEFINE resolved == ResolveRound(s, u, price)
           payout   == Payout(s.activeRounds[u], price)
           waiting  == Arrived(stack, Len(stack))
<1>1. /\ s \in Store /\ now \in Nat /\ stack \in Seq(Frames)
      /\ payout \in Nat /\ Short(resolved, u, payout)
      /\ next.amount \in Nat /\ waiting \in Nat
  <2>1. Len(stack) \in 0 .. Len(stack)
    BY EmptySeq DEF BooksInv
  <2>2. QED
    BY <2>1, ResolveLeavesShort, FramesHaveStakes DEF BooksInv, Balanced, OtherBooks, Bets
<1>2. resolved \in Store /\ Totalled(resolved, waiting + next.amount + payout)
  BY <1>1, ResolveMovesTotals DEF Totalled, Short, OtherBooks
<1>3. \/ payout > 0 /\ CallOut("settle", u, payout, store, resolved, next)
      \/ /\ payout > resolved.balance
         /\ store' = FinishSettle(QueuePayout(resolved, u, payout), u, next)
         /\ UNCHANGED stack
      \/ /\ payout = 0
         /\ store' = FinishSettle(resolved, u, next)
         /\ UNCHANGED stack
  BY DEF SettleRound
<1> HIDE DEF resolved, payout, waiting
<1>4. CASE CallOut("settle", u, payout, store, resolved, next)
  <2> DEFINE f == [kind |-> "settle", callee |-> u, amount |-> payout,
                   entry |-> store, atCall |-> resolved, next |-> next]
  <2>1. /\ payout <= resolved.balance
        /\ store' = Send(resolved, "settle", u, payout)
        /\ stack' = Append(stack, f)
    BY <1>4 DEF CallOut
  <2>2. f \in Frames
    BY <1>1, <1>2 DEF Frames, BooksInv, Balanced, OtherBooks
  <2>3. Totalled(f.entry, waiting)
    BY DEF TotalsInv, waiting
  <2>4. Totalled(f.atCall, waiting + f.next.amount + f.amount) /\ f.kind = "settle"
    BY <1>2
  <2>5. Totalled(store', waiting + f.next.amount)
    BY <1>1, <1>2, <2>1, SendMovesTotals DEF Totalled
  <2> HIDE DEF f
  <2>6. QED
    BY <2>1, <2>2, <2>3, <2>4, <2>5, PushKeepsTotals DEF waiting
<1>5. CASE /\ store' = FinishSettle(QueuePayout(resolved, u, payout), u, next)
           /\ UNCHANGED stack
  <2> DEFINE queued == QueuePayout(resolved, u, payout)
  <2>1. Balanced(queued) /\ Totalled(queued, waiting + next.amount)
    BY <1>1, <1>2, QueueBalances, QueueMovesTotals DEF Totalled
  <2> HIDE DEF queued
  <2>2. Totalled(FinishSettle(queued, u, next), waiting)
    BY <1>1, <2>1, FinishSettleMovesTotals DEF Totalled
  <2>3. QED
    BY <1>5, <2>2 DEF TotalsInv, waiting, queued
<1>6. CASE /\ payout = 0
           /\ store' = FinishSettle(resolved, u, next)
           /\ UNCHANGED stack
  <2>1. Balanced(resolved) /\ Totalled(resolved, waiting + next.amount)
    BY <1>1, <1>2, <1>6, NothingShort
  <2>2. Totalled(FinishSettle(resolved, u, next), waiting)
    BY <1>1, <2>1, FinishSettleMovesTotals DEF Totalled
  <2>3. QED
    BY <1>6, <2>2 DEF TotalsInv, waiting
<1>7. QED
  BY <1>3, <1>4, <1>5, <1>6

(* claim, faucet and withdrawFees have in excess what they send.             *)
LEMMA PlainCallKeepsTotals ==
  ASSUME BooksInv, TotalsInv, NEW kind \in {"claim", "faucet", "fees"}, NEW u \in Accounts,
         NEW amount \in Nat, NEW s \in Store,
         Totalled(s, Arrived(stack, Len(stack)) + (IF kind = "faucet" THEN 0 ELSE amount)),
         CallOut(kind, u, amount, store, s, NoBet)
  PROVE  TotalsInv'
<1> DEFINE f == [kind |-> kind, callee |-> u, amount |-> amount,
                 entry |-> store, atCall |-> s, next |-> NoBet]
           waiting == Arrived(stack, Len(stack))
<1>1. /\ amount <= s.balance
      /\ store' = Send(s, kind, u, amount)
      /\ stack' = Append(stack, f)
  BY DEF CallOut
<1>2. f \in Frames /\ f.kind # "settle" /\ f.next.amount = 0
  BY DEF Frames, Bets, NoBet, BooksInv, Balanced, OtherBooks
<1>3. waiting \in Nat
  <2>1. Len(stack) \in 0 .. Len(stack)
    BY EmptySeq DEF BooksInv
  <2>2. QED
    BY <2>1, FramesHaveStakes DEF BooksInv
<1>4. Totalled(f.entry, waiting)
  BY DEF TotalsInv
<1> HIDE DEF f, waiting
<1>5. Totalled(store', waiting + f.next.amount)
  <2>1. Totalled(s, waiting + (IF kind = "faucet" THEN 0 ELSE amount))
    BY DEF waiting
  <2>2. QED
    BY <1>1, <1>2, <1>3, <2>1, SendMovesTotals DEF Totalled
<1>6. QED
  BY <1>1, <1>2, <1>4, <1>5, PushKeepsTotals DEF waiting

(* Every step keeps the totals.                                              *)
LEMMA NextKeepsTotals == BooksInv /\ TotalsInv /\ [Next]_vars => TotalsInv'
<1> SUFFICES ASSUME BooksInv, TotalsInv, [Next]_vars
             PROVE  TotalsInv'
  OBVIOUS
<1> DEFINE n       == Len(stack)
           waiting == Arrived(stack, n)
<1>1. /\ Balanced(store)
      /\ store \in Store
      /\ stack \in Seq(Frames)
      /\ now \in Nat
      /\ n \in Nat
  BY EmptySeq DEF BooksInv, Balanced, OtherBooks
<1>2. /\ waiting \in Nat
      /\ Totalled(store, waiting)
      /\ waiting + 0 = waiting
  BY <1>1, FramesHaveStakes DEF TotalsInv
<1> HIDE DEF waiting, n
<1>3. ASSUME stack # << >>
      PROVE  /\ Top \in Frames /\ FrameInv(Top)
             /\ Top.callee \in Accounts /\ Top.next \in Bets /\ Top.amount \in Nat
             /\ Arrived(stack, n - 1) \in Nat
             /\ waiting = Arrived(stack, n - 1) + Top.next.amount
             /\ Totalled(Top.entry, Arrived(stack, n - 1))
             /\ Top.kind = "settle" => Totalled(Top.atCall, waiting + Top.amount)
             /\ Top.kind # "settle" => Top.next.amount = 0
  <2>1. n \in Nat \ {0} /\ n \in 1 .. Len(stack) /\ Top = stack[n]
    BY <1>1, <1>3, EmptySeq DEF Top, n
  <2>2. FrameTotalled(stack, n)
    BY <2>1 DEF TotalsInv
  <2>3. Top \in Frames /\ FrameInv(Top)
    BY <1>3, TopIsSound
  <2>4. /\ waiting = Arrived(stack, n - 1) + Top.next.amount
        /\ Arrived(stack, n - 1) \in Nat
    BY <1>1, <2>1, FramesHaveStakes DEF waiting
  <2>5. QED
    BY <2>1, <2>2, <2>3, <2>4 DEF FrameTotalled, Frames, waiting
<1>4. ASSUME NEW u \in Accounts, NEW amount \in Amounts, NEW sig \in BetSigs,
             Bet(u, amount, sig)
      PROVE  TotalsInv'
  <2> DEFINE b  == [amount |-> amount, isUp |-> sig.isUp, price |-> sig.price]
             in == Accept(store, amount)
  <2>1. /\ amount \in Nat /\ sig.price \in Int
        /\ b \in Bets /\ b.amount = amount
    BY AmountsAssumption DEF BetSigs, Bets
  <2>2. Balanced(in) /\ Totalled(in, waiting + b.amount)
    BY <1>1, <1>2, <2>1, AcceptKeepsBooks, AcceptMovesTotals DEF Totalled
  <2>3. CASE HasActiveRound(store, u)
    <3>1. HasActiveRound(in, u)
      BY <1>1, <2>3 DEF Accept, Store, HasActiveRound
    <3>2. SettleRound(in, u, sig.price, b)
      BY <1>4, <2>3 DEF Bet
    <3> HIDE DEF b, in
    <3>3. QED
      BY <2>1, <2>2, <3>1, <3>2, SettleRoundKeepsTotals DEF waiting, n
  <2>4. CASE ~HasActiveRound(store, u)
    <3>1. store' = PlaceBet(in, u, b) /\ UNCHANGED stack
      BY <1>4, <2>4 DEF Bet
    <3> HIDE DEF b, in
    <3>2. Totalled(store', waiting)
      BY <1>1, <1>2, <2>1, <2>2, <3>1, PlaceBetMovesTotals DEF Totalled
    <3>3. QED
      BY <3>1, <3>2 DEF TotalsInv, waiting, n
  <2>5. QED
    BY <2>3, <2>4
<1>5. ASSUME NEW u \in Accounts, NEW sig \in SettleSigs, SettleMyRound(u, sig)
      PROVE  TotalsInv'
  <2>1. sig.price \in Int
    BY AmountsAssumption DEF SettleSigs
  <2>2. NoBet \in Bets /\ NoBet.amount = 0
    BY DEF NoBet, Bets
  <2>3. HasActiveRound(store, u) /\ SettleRound(store, u, sig.price, NoBet)
    BY <1>5 DEF SettleMyRound
  <2>4. Totalled(store, waiting + NoBet.amount)
    BY <1>2, <2>2
  <2>5. QED
    BY <1>1, <2>1, <2>2, <2>3, <2>4, SettleRoundKeepsTotals DEF waiting, n
<1>6. ASSUME NEW u \in Accounts, Claim(u)
      PROVE  TotalsInv'
  <2> DEFINE amount == store.pendingWithdrawals[u]
             booked == BookClaim(store, u)
  <2>1. CallOut("claim", u, amount, store, booked, NoBet)
    BY <1>6 DEF Claim
  <2>2. amount \in Nat /\ booked \in Store /\ Totalled(booked, waiting + amount)
    BY <1>1, <1>2, StoreParts, BookingMovesTotals DEF Totalled
  <2> HIDE DEF amount, booked
  <2>3. QED
    BY <2>1, <2>2, PlainCallKeepsTotals DEF waiting, n
<1>7. ASSUME NEW u \in Accounts, Faucet(u)
      PROVE  TotalsInv'
  <2> DEFINE booked == BookFaucet(store, u)
  <2>1. CallOut("faucet", u, FAUCET_AMOUNT, store, booked, NoBet)
    BY <1>7 DEF Faucet
  <2>2. FAUCET_AMOUNT \in Nat /\ booked \in Store /\ Totalled(booked, waiting + 0)
    BY <1>1, <1>2, AmountsAssumption, BookingMovesTotals DEF Totalled
  <2> HIDE DEF booked
  <2>3. QED
    BY <2>1, <2>2, PlainCallKeepsTotals DEF waiting, n
<1>8. ASSUME NEW u \in Accounts, WithdrawFees(u)
      PROVE  TotalsInv'
  <2> DEFINE amount == store.treasuryFees
             booked == BookWithdrawal(store)
  <2>1. CallOut("fees", u, amount, store, booked, NoBet)
    BY <1>8 DEF WithdrawFees
  <2>2. amount \in Nat /\ booked \in Store /\ Totalled(booked, waiting + amount)
    BY <1>1, <1>2, <1>8, StoreParts, BookingMovesTotals DEF Totalled
  <2> HIDE DEF amount, booked
  <2>3. QED
    BY <2>1, <2>2, PlainCallKeepsTotals DEF waiting, n
<1>9. ASSUME NEW u \in Accounts, NEW amount \in Donations, Receive(u, amount)
      PROVE  TotalsInv'
  <2>1. Excess(store') = Excess(store) /\ Spread(store') = Spread(store)
    BY <1>1, <1>9, AmountsAssumption, ReceiveMovesTotals DEF Receive
  <2>2. UNCHANGED stack
    BY <1>9 DEF Receive
  <2>3. QED
    BY <2>1, <2>2 DEF TotalsInv, Totalled
<1>10. ASSUME NEW u \in Accounts,
              \/ \E a \in Signers : SetAuthorizer(u, a)
              \/ \E o \in NewOwners : TransferOwnership(u, o)
       PROVE  TotalsInv'
  <2>1. /\ Excess(store') = Excess(store) /\ Spread(store') = Spread(store)
        /\ UNCHANGED stack
    BY <1>1, <1>10, AccountsAssumption, AdminMovesTotals DEF SetAuthorizer, TransferOwnership
  <2>2. QED
    BY <2>1 DEF TotalsInv, Totalled
<1>11. CASE CallReturns
  <2>1. stack # << >> /\ stack' = Pop
    BY <1>11 DEF CallReturns
  <2>2. CASE Top.kind = "settle"
    <3>1. store' = FinishSettle(store, Top.callee, Top.next)
      BY <1>11, <2>2 DEF CallReturns
    <3>2. Totalled(store', Arrived(stack, n - 1))
      BY <1>1, <1>2, <1>3, <2>1, <3>1, FinishSettleMovesTotals DEF Totalled, Bets
    <3>3. QED
      BY <2>1, <3>2, PopKeepsTotals DEF n
  <2>3. CASE Top.kind # "settle"
    <3>1. store' = store
      BY <1>11, <2>3 DEF CallReturns
    <3>2. Totalled(store', Arrived(stack, n - 1))
      BY <1>2, <1>3, <2>1, <2>3, <3>1
    <3>3. QED
      BY <2>1, <3>2, PopKeepsTotals DEF n
  <2>4. QED
    BY <2>2, <2>3
<1>12. CASE PayoutFails
  <2> DEFINE queued == QueuePayout(Top.atCall, Top.callee, Top.amount)
  <2>1. /\ stack # << >> /\ stack' = Pop /\ Top.kind = "settle"
        /\ store' = FinishSettle(queued, Top.callee, Top.next)
    BY <1>12 DEF PayoutFails
  <2>2. /\ Top.callee \in Accounts /\ Top.next \in Bets /\ Top.amount \in Nat
        /\ Short(Top.atCall, Top.callee, Top.amount)
        /\ Totalled(Top.atCall, waiting + Top.amount)
        /\ Top.atCall \in Store
    BY <1>3, <2>1 DEF FrameInv, Short, OtherBooks
  <2>3. Balanced(queued) /\ Totalled(queued, waiting)
    BY <1>2, <2>2, QueueBalances, QueueMovesTotals DEF Totalled
  <2> HIDE DEF queued
  <2>4. Totalled(store', Arrived(stack, n - 1))
    BY <1>1, <1>2, <1>3, <2>1, <2>2, <2>3, FinishSettleMovesTotals DEF Totalled, Bets
  <2>5. QED
    BY <2>1, <2>4, PopKeepsTotals DEF n
<1>13. CASE FunctionReverts
  <2>1. stack # << >> /\ stack' = Pop /\ store' = Top.entry
    BY <1>13 DEF FunctionReverts
  <2>2. QED
    BY <1>3, <2>1, PopKeepsTotals DEF n
<1>14. CASE Tick \/ UNCHANGED vars
  BY <1>14 DEF Tick, vars, TotalsInv
<1>15. QED
  BY <1>4, <1>5, <1>6, <1>7, <1>8, <1>9, <1>10, <1>11, <1>12, <1>13, <1>14
     DEF Next, Play, Admin

(* A freshly deployed contract holds nothing and owes nothing.               *)
LEMMA InitSatisfiesTotals == Init => TotalsInv
<1> SUFFICES ASSUME Init
             PROVE  TotalsInv
  OBVIOUS
<1>1. store \in Store /\ stack \in Seq(Frames)
  BY InitSatisfiesInv DEF BooksInv, Balanced, OtherBooks
<1>2. /\ SumFunction(Nothing) = 0
      /\ StakesOf(store) = Nothing
  <2>1. StakesOf(store) = Nothing
    BY DEF Init, Deployed, StakesOf, OpenStake, HasActiveRound, NoRound, Nothing
  <2>2. SumFunction(Nothing) = 0
    <3>1. \A u \in Accounts : Nothing[u] = 0
      BY DEF Nothing
    <3>2. QED
      BY <3>1, FiniteAccounts, SumOfZeros DEF Nothing
  <2>3. QED
    BY <2>1, <2>2
<1>3. Arrived(stack, Len(stack)) = 0
  <2>1. DOMAIN [i \in 1 .. 0 |-> stack[i].next.amount] = {}
    OBVIOUS
  <2>2. Len(stack) = 0
    BY EmptySeq DEF Init
  <2>3. QED
    BY <2>1, <2>2, SumOfNothing DEF Arrived
<1>4. Excess(store) = 0 /\ Spread(store) = 0
  BY <1>2 DEF Init, Deployed, EmptyLedger, Excess, Spread
<1>5. QED
  BY <1>1, <1>3, <1>4, EmptySeq DEF Init, TotalsInv, Totalled

(* The totals are right in every reachable state, and so are those of every  *)
(* storage a failing call may restore.                                       *)
THEOREM TotalsInvHolds == Spec => [](BooksInv /\ TotalsInv)
<1>1. Init => BooksInv /\ TotalsInv
  BY InitSatisfiesInv, InitSatisfiesTotals
<1>2. BooksInv /\ TotalsInv /\ [Next]_vars => (BooksInv /\ TotalsInv)'
  BY NextKeepsInv, NextKeepsTotals
<1>3. QED
  BY <1>1, <1>2, PTL DEF Spec

(* Between transactions a storage from which a payout cannot be made, queued *)
(* or not, has been donated less than the winnings and the gifts.            *)
LEMMA ShortMeansUnderfunded ==
  ASSUME NEW s \in Store, NEW owed \in Nat, Excess(s) = owed, s.balance < owed
  PROVE  s.ledger.donated < s.ledger.won + SumFunction(s.ledger.gifts)
<1>1. /\ s.balance \in Nat /\ s.treasuryFees \in Nat
      /\ s.ledger.won \in Nat /\ s.ledger.donated \in Nat
      /\ SumFunction(s.ledger.gifts) \in Nat
      /\ SumFunction(StakesOf(s)) \in Nat
      /\ SumFunction(s.pendingWithdrawals) \in Nat
      /\ SumFunction(s.ledger.replaced) \in Nat
  BY StoreParts, TotalsAreAmounts
<1>2. QED
  BY <1>1 DEF Excess

(* The end of _settleRound and of bet touches neither the queue nor the      *)
(* donations, the winnings or the gifts.                                     *)
LEMMA FinishSettleKeepsQueue ==
  ASSUME NEW s, Balanced(s), NEW u \in Accounts, NEW next \in Bets, now \in Nat,
         NEW new, new = FinishSettle(s, u, next)
  PROVE  /\ new.pendingWithdrawals = s.pendingWithdrawals
         /\ new.ledger.donated = s.ledger.donated
         /\ new.ledger.won = s.ledger.won
         /\ new.ledger.gifts = s.ledger.gifts
<1> DEFINE off == Delist(s, u)
<1>1. Balanced(off) /\ off \in Store /\ RegistryConsistent(off.registry)
  BY DelistKeepsBooks DEF Balanced, OtherBooks
<1>2. off.pendingWithdrawals = s.pendingWithdrawals /\ off.ledger = s.ledger
  BY DEF Delist, Balanced, OtherBooks, Store
<1> HIDE DEF off
<1>3. CASE next = NoBet
  <2>1. new = off
    BY <1>3 DEF FinishSettle, off
  <2>2. QED
    BY <1>2, <2>1
<1>4. CASE next # NoBet
  <2>1. new = PlaceBet(off, u, next)
    BY <1>4 DEF FinishSettle, off
  <2>2. Places(off, new, u, next)
    BY <1>1, <2>1, PlaceBetPlaces
  <2>3. QED
    BY <1>2, <2>2 DEF Places
<1>5. QED
  BY <1>3, <1>4

(* _settleRound in a transaction of its own adds to the queue only in an     *)
(* underfunded vault.                                                        *)
LEMMA SettleRoundQueuesWhenUnderfunded ==
  ASSUME BooksInv, TotalsInv, NEW s, Balanced(s), NEW u \in Accounts, HasActiveRound(s, u),
         s.pendingWithdrawals = store.pendingWithdrawals,
         NEW price \in Int, NEW next \in Bets,
         Totalled(s, next.amount), SettleRound(s, u, price, next),
         NEW v \in Accounts, store'.pendingWithdrawals[v] > store.pendingWithdrawals[v]
  PROVE  store'.ledger.donated < store'.ledger.won + SumFunction(store'.ledger.gifts)
<1> DEFINE resolved == ResolveRound(s, u, price)
           payout   == Payout(s.activeRounds[u], price)
<1>1. /\ s \in Store /\ now \in Nat /\ payout \in Nat /\ next.amount \in Nat
      /\ Short(resolved, u, payout)
  BY ResolveLeavesShort DEF BooksInv, Balanced, OtherBooks, Bets
<1>2. /\ resolved \in Store
      /\ resolved.pendingWithdrawals = store.pendingWithdrawals
      /\ Excess(resolved) = next.amount + payout
  <2>1. Excess(resolved) = next.amount + payout /\ resolved \in Store
    BY <1>1, ResolveMovesTotals DEF Totalled, Short, OtherBooks
  <2>2. Resolves(s, resolved, u, s.activeRounds[u], price)
    BY <1>1, ResolveRoundResolves
  <2>3. QED
    BY <2>1, <2>2 DEF Resolves
<1>3. \/ CallOut("settle", u, payout, store, resolved, next)
      \/ /\ payout > resolved.balance
         /\ store' = FinishSettle(QueuePayout(resolved, u, payout), u, next)
      \/ /\ payout = 0
         /\ store' = FinishSettle(resolved, u, next)
  BY DEF SettleRound
<1> HIDE DEF resolved, payout
<1>4. store.pendingWithdrawals[v] \in Nat
  BY StoreParts DEF BooksInv, Balanced, OtherBooks
<1>5. CASE CallOut("settle", u, payout, store, resolved, next)
  <2>1. payout <= resolved.balance /\ store' = Send(resolved, "settle", u, payout)
    BY <1>5 DEF CallOut
  <2>2. Sends(resolved, store', "settle", u, payout)
    BY <1>1, <1>2, <2>1, SendSends
  <2>3. store'.pendingWithdrawals = resolved.pendingWithdrawals
    BY <2>2 DEF Sends
  <2>4. QED
    BY <1>2, <1>4, <2>3
<1>6. CASE /\ payout > resolved.balance
           /\ store' = FinishSettle(QueuePayout(resolved, u, payout), u, next)
  <2> DEFINE queued == QueuePayout(resolved, u, payout)
  <2>1. Balanced(queued) /\ queued.ledger = resolved.ledger
    BY <1>1, <1>2, QueueBalances DEF QueuePayout, Store
  <2>2. resolved.ledger.donated < resolved.ledger.won + SumFunction(resolved.ledger.gifts)
    <3>1. next.amount + payout \in Nat /\ resolved.balance < next.amount + payout
      BY <1>1, <1>2, <1>6, StoreParts
    <3>2. QED
      BY <1>2, <3>1, ShortMeansUnderfunded
  <2>3. store' = FinishSettle(queued, u, next)
    BY <1>6
  <2> HIDE DEF queued
  <2>4. QED
    BY <1>1, <2>1, <2>2, <2>3, FinishSettleKeepsQueue
<1>7. CASE payout = 0 /\ store' = FinishSettle(resolved, u, next)
  <2>1. Balanced(resolved)
    BY <1>1, <1>7, NothingShort
  <2>2. store'.pendingWithdrawals = resolved.pendingWithdrawals
    BY <1>1, <1>7, <2>1, FinishSettleKeepsQueue
  <2>3. QED
    BY <1>2, <1>4, <2>2
<1>8. QED
  BY <1>3, <1>5, <1>6, <1>7

(* Nothing is lost or made in the settlement of rounds, whatever the stakes  *)
(* and the rounding of the fee.                                              *)
THEOREM AlwaysZeroSum == Spec => []ZeroSum
<1>1. BooksInv /\ TotalsInv => ZeroSum
  <2> SUFFICES ASSUME BooksInv, TotalsInv
               PROVE  ZeroSum
    OBVIOUS
  <2>1. store \in Store /\ Spread(store) = 0
    BY DEF BooksInv, Balanced, OtherBooks, TotalsInv, Totalled
  <2>2. QED
    BY <2>1, StoreParts, TotalsAreAmounts DEF Spread, ZeroSum
<1>2. QED
  BY <1>1, TotalsInvHolds, PTL

(* The excess, written as the equation of the vault.                         *)
LEMMA ExcessAsEquation ==
  ASSUME NEW balance \in Int, NEW won \in Int, NEW gifts \in Int, NEW open \in Int,
         NEW pending \in Int, NEW fees \in Int, NEW donated \in Int,
         NEW replaced \in Int, NEW excess \in Int,
         balance + won + gifts - (open + pending + fees + donated + replaced) = excess
  PROVE  balance + won + gifts = open + pending + fees + excess + donated + replaced
OBVIOUS

(* At every moment the vault holds what it owes and what was donated, less   *)
(* the winnings and the gifts.                                               *)
THEOREM VaultEquationAlwaysHolds == Spec => []VaultEquation
<1>1. BooksInv /\ TotalsInv => VaultEquation
  <2> SUFFICES ASSUME BooksInv, TotalsInv
               PROVE  VaultEquation
    OBVIOUS
  <2>1. store \in Store /\ stack \in Seq(Frames) /\ Len(stack) \in 0 .. Len(stack)
    BY EmptySeq DEF BooksInv, Balanced, OtherBooks
  <2>2. OpenStakes = SumFunction(StakesOf(store))
    BY DEF OpenStakes, StakesOf
  <2>3. InTransit = Arrived(stack, Len(stack))
    <3>1. DOMAIN stack = 1 .. Len(stack)
      BY <2>1
    <3>2. QED
      BY <3>1 DEF InTransit, Arrived
  <2>4. Arrived(stack, Len(stack)) \in Nat
    BY <2>1, FramesHaveStakes
  <2>5. Excess(store) = Arrived(stack, Len(stack))
    BY DEF TotalsInv, Totalled
  <2>6. /\ store.balance \in Nat /\ store.treasuryFees \in Nat
        /\ store.ledger.won \in Nat /\ store.ledger.donated \in Nat
        /\ SumFunction(store.ledger.gifts) \in Nat
        /\ SumFunction(StakesOf(store)) \in Nat
        /\ SumFunction(store.pendingWithdrawals) \in Nat
        /\ SumFunction(store.ledger.replaced) \in Nat
    BY <2>1, StoreParts, TotalsAreAmounts
  <2> DEFINE open     == SumFunction(StakesOf(store))
             pending  == SumFunction(store.pendingWithdrawals)
             gifts    == SumFunction(store.ledger.gifts)
             replaced == SumFunction(store.ledger.replaced)
             excess   == Arrived(stack, Len(stack))
  <2>7. store.balance + store.ledger.won + gifts
          - (open + pending + store.treasuryFees + store.ledger.donated + replaced) = excess
    BY <2>5 DEF Excess
  <2>8. VaultEquation
          <=> store.balance + store.ledger.won + gifts
                = open + pending + store.treasuryFees + excess + store.ledger.donated + replaced
    BY <2>2, <2>3 DEF VaultEquation, Debts
  <2>9. /\ store.balance \in Int /\ store.treasuryFees \in Int
        /\ store.ledger.won \in Int /\ store.ledger.donated \in Int
        /\ open \in Int /\ pending \in Int /\ gifts \in Int
        /\ replaced \in Int /\ excess \in Int
    BY <2>4, <2>6
  <2> HIDE DEF open, pending, gifts, replaced, excess
  <2>10. store.balance + store.ledger.won + gifts
           = open + pending + store.treasuryFees + excess + store.ledger.donated + replaced
    BY ONLY <2>7, <2>9, ExcessAsEquation
  <2>11. QED
    BY <2>8, <2>10
<1>2. QED
  BY <1>1, TotalsInvHolds, PTL

(* In a vault whose donations cover the winnings and the gifts a player      *)
(* without code is paid in the settling transaction.                         *)
THEOREM QueuesOnlyWhenUnderfunded == Spec => QueuedOnlyWhenUnderfunded
<1> DEFINE Funded(u) ==
             store'.pendingWithdrawals[u] > store.pendingWithdrawals[u] /\ stack = << >>
               => store'.ledger.donated < store'.ledger.won + SumFunction(store'.ledger.gifts)
<1>1. BooksInv /\ TotalsInv /\ [Next]_vars => [\A u \in Accounts \ Contracts : Funded(u)]_vars
  <2> SUFFICES ASSUME BooksInv, TotalsInv, [Next]_vars, NEW v \in Accounts, stack = << >>,
                      store'.pendingWithdrawals[v] > store.pendingWithdrawals[v]
               PROVE  store'.ledger.donated
                        < store'.ledger.won + SumFunction(store'.ledger.gifts)
    OBVIOUS
  <2>1. /\ Balanced(store) /\ store \in Store /\ now \in Nat
        /\ store.pendingWithdrawals \in [Accounts -> Nat]
    BY StoreParts DEF BooksInv, Balanced, OtherBooks
  <2>2. Totalled(store, 0)
    <3>1. Len(stack) = 0
      BY EmptySeq
    <3>2. DOMAIN [i \in 1 .. 0 |-> stack[i].next.amount] = {}
      OBVIOUS
    <3>3. Arrived(stack, 0) = 0
      BY <3>2, SumOfNothing DEF Arrived
    <3>4. QED
      BY <3>1, <3>3 DEF TotalsInv
  <2>3. ASSUME store'.pendingWithdrawals = store.pendingWithdrawals
        PROVE  FALSE
    BY <2>1, <2>3
  <2>4. ASSUME NEW u \in Accounts, NEW amount \in Amounts, NEW sig \in BetSigs,
               Bet(u, amount, sig)
        PROVE  store'.ledger.donated < store'.ledger.won + SumFunction(store'.ledger.gifts)
    <3> DEFINE b  == [amount |-> amount, isUp |-> sig.isUp, price |-> sig.price]
               in == Accept(store, amount)
    <3>1. amount \in Nat /\ sig.price \in Int /\ b \in Bets /\ b.amount = amount
      BY AmountsAssumption DEF BetSigs, Bets
    <3>2. /\ Balanced(in) /\ in \in Store /\ RegistryConsistent(in.registry)
          /\ in.pendingWithdrawals = store.pendingWithdrawals
          /\ in.activeRounds = store.activeRounds
      BY <2>1, <3>1, AcceptKeepsBooks DEF Accept, Store, Balanced, OtherBooks
    <3>3. Totalled(in, b.amount)
      BY <2>1, <2>2, <3>1, AcceptMovesTotals DEF Totalled
    <3>4. CASE HasActiveRound(store, u)
      <4>1. HasActiveRound(in, u)
        BY <3>2, <3>4 DEF HasActiveRound
      <4>2. SettleRound(in, u, sig.price, b)
        BY <2>4, <3>4 DEF Bet
      <4> HIDE DEF b, in
      <4>3. QED
        BY <3>1, <3>2, <3>3, <4>1, <4>2, SettleRoundQueuesWhenUnderfunded
    <3>5. CASE ~HasActiveRound(store, u)
      <4>1. store' = PlaceBet(in, u, b)
        BY <2>4, <3>5 DEF Bet
      <4> HIDE DEF b, in
      <4>2. Places(in, store', u, b)
        BY <2>1, <3>1, <3>2, <4>1, PlaceBetPlaces
      <4>3. QED
        BY <2>3, <3>2, <4>2 DEF Places
    <3>6. QED
      BY <3>4, <3>5
  <2>5. ASSUME NEW u \in Accounts, NEW sig \in SettleSigs, SettleMyRound(u, sig)
        PROVE  store'.ledger.donated < store'.ledger.won + SumFunction(store'.ledger.gifts)
    <3>1. sig.price \in Int
      BY AmountsAssumption DEF SettleSigs
    <3>2. NoBet \in Bets /\ NoBet.amount = 0
      BY DEF NoBet, Bets
    <3>3. HasActiveRound(store, u) /\ SettleRound(store, u, sig.price, NoBet)
      BY <2>5 DEF SettleMyRound
    <3>4. QED
      BY <2>1, <2>2, <3>1, <3>2, <3>3, SettleRoundQueuesWhenUnderfunded
  <2>6. ASSUME NEW u \in Accounts, NEW kind \in {"claim", "faucet", "fees"},
               NEW amount \in Nat, NEW s \in Store,
               CallOut(kind, u, amount, store, s, NoBet),
               s.pendingWithdrawals[v] <= store.pendingWithdrawals[v]
        PROVE  FALSE
    <3>1. amount <= s.balance /\ store' = Send(s, kind, u, amount)
      BY <2>6 DEF CallOut
    <3>2. Sends(s, store', kind, u, amount)
      BY <2>6, <3>1, SendSends
    <3>3. s.pendingWithdrawals[v] \in Nat /\ store.pendingWithdrawals[v] \in Nat
      BY <2>1, <2>6, StoreParts
    <3>4. QED
      BY <2>6, <3>2, <3>3 DEF Sends
  <2>7. ASSUME NEW u \in Accounts, Claim(u) \/ Faucet(u) \/ WithdrawFees(u)
        PROVE  FALSE
    <3>1. /\ BookClaim(store, u) \in Store
          /\ BookClaim(store, u).pendingWithdrawals = [store.pendingWithdrawals EXCEPT ![u] = 0]
          /\ BookFaucet(store, u) \in Store
          /\ BookFaucet(store, u).pendingWithdrawals = store.pendingWithdrawals
          /\ BookWithdrawal(store) \in Store
          /\ BookWithdrawal(store).pendingWithdrawals = store.pendingWithdrawals
      BY <2>1 DEF BookClaim, BookFaucet, BookWithdrawal, Store
    <3>2. /\ store.pendingWithdrawals[u] \in Nat /\ store.pendingWithdrawals[v] \in Nat
          /\ store.treasuryFees \in Nat /\ FAUCET_AMOUNT \in Nat
          /\ BookClaim(store, u).pendingWithdrawals[v] <= store.pendingWithdrawals[v]
          /\ BookFaucet(store, u).pendingWithdrawals[v] <= store.pendingWithdrawals[v]
          /\ BookWithdrawal(store).pendingWithdrawals[v] <= store.pendingWithdrawals[v]
      BY <2>1, <3>1, StoreParts, AmountsAssumption
    <3>3. CASE Claim(u)
      <4>1. CallOut("claim", u, store.pendingWithdrawals[u], store, BookClaim(store, u), NoBet)
        BY <3>3 DEF Claim
      <4>2. QED
        BY <2>6, <3>1, <3>2, <4>1
    <3>4. CASE Faucet(u)
      <4>1. CallOut("faucet", u, FAUCET_AMOUNT, store, BookFaucet(store, u), NoBet)
        BY <3>4 DEF Faucet
      <4>2. QED
        BY <2>6, <3>1, <3>2, <4>1
    <3>5. CASE WithdrawFees(u)
      <4>1. CallOut("fees", u, store.treasuryFees, store, BookWithdrawal(store), NoBet)
        BY <3>5 DEF WithdrawFees
      <4>2. QED
        BY <2>6, <3>1, <3>2, <4>1
    <3>6. QED
      BY <2>7, <3>3, <3>4, <3>5
  <2>8. ASSUME \/ \E u \in Accounts, amount \in Donations : Receive(u, amount)
               \/ \E u \in Accounts, a \in Signers : SetAuthorizer(u, a)
               \/ \E u \in Accounts, o \in NewOwners : TransferOwnership(u, o)
               \/ Tick \/ UNCHANGED vars
        PROVE  FALSE
    <3>1. store'.pendingWithdrawals = store.pendingWithdrawals
      BY <2>1, <2>8 DEF Receive, Accept, SetAuthorizer, TransferOwnership, Tick, vars, Store
    <3>2. QED
      BY <2>3, <3>1
  <2>9. ~CallReturns /\ ~PayoutFails /\ ~FunctionReverts
    BY DEF CallReturns, PayoutFails, FunctionReverts
  <2>10. QED
    BY <2>4, <2>5, <2>7, <2>8, <2>9 DEF Next, Play, Admin
<1>2. QED
  BY <1>1, TotalsInvHolds, PTL DEF QueuedOnlyWhenUnderfunded, Spec
===============================================================================
