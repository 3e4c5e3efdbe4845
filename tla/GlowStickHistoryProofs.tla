------------------------- MODULE GlowStickHistoryProofs -------------------------
(*****************************************************************************)
(* What GlowStick.sol never takes back, for every set of accounts and every  *)
(* nesting of calls: results of rounds, the time a round runs, a renounced   *)
(* ownership, and the stake of an account without code.                      *)
(* The list of active users against the rounds comes second, the atomic game *)
(* that an account without code plays third, the prices of the quotes last.  *)
(*                                                                           *)
(* The promises compare the storage other transactions see before and after  *)
(* a step.  While a transaction runs that storage stands still, and at its   *)
(* end it becomes whatever execution has arrived at, by returning or by      *)
(* falling back.  So the invariant compares it with every storage that may   *)
(* come to be the last one: the current one and those the frames keep.       *)
(*****************************************************************************)
EXTENDS GlowStickProofs, Market

Elapsed(r, time) == time >= r.startTime + ROUND_DURATION

(* A round r may become r2.                                                  *)
Revised(r, r2) ==
  r2 # r => \/ r2.roundId > r.roundId
            \/ r2.roundId = r.roundId /\ ~r.settled /\ r2.settled

RoundsFollow(c, s) ==
  \A u \in Accounts : Revised(c.activeRounds[u], s.activeRounds[u])

RoundsRan(c, s, time) ==
  \A u \in Accounts :
    HasActiveRound(c, u) /\ s.activeRounds[u] # c.activeRounds[u]
      => Elapsed(c.activeRounds[u], time)

StaysRenounced(c, s) ==
  c.owner = NoAccount =>
    /\ s.owner = NoAccount
    /\ s.authorizer = c.authorizer
    /\ s.ledger.withdrawn = c.ledger.withdrawn

(* Seen from outside, the storage may go from c to s at this time.           *)
Follows(c, s, time) == RoundsFollow(c, s) /\ RoundsRan(c, s, time) /\ StaysRenounced(c, s)

(* The nonce is ahead of the rounds, and no stake of an account without code *)
(* was overwritten.                                                          *)
Sound(s) ==
  /\ \A u \in Accounts : s.activeRounds[u].roundId <= s.userRoundNonce[u]
  /\ \A u \in Accounts \ Contracts : s.ledger.replaced[u] = 0

After(c, s, time) == Follows(c, s, time) /\ Sound(s)

(* Frame i: a payout leaves a settled round behind, and no code runs in a    *)
(* transfer to an account without any.                                       *)
FrameHistory(i) ==
  LET f == stack[i]
  IN  /\ After(Committed, f.entry, now)
      /\ f.kind = "settle" => /\ After(Committed, f.atCall, now)
                              /\ f.atCall.activeRounds[f.callee].settled
      /\ f.callee \notin Contracts =>
           /\ i = Len(stack)
           /\ f.kind = "settle" => store.activeRounds[f.callee].settled

HistoryInv ==
  /\ After(Committed, store, now)
  /\ \A i \in 1 .. Len(stack) : FrameHistory(i)

(* What a step does.                                                         *)
StepFollows == HistoryInv' /\ Follows(Committed, Committed', now)

-------------------------------------------------------------------------------
(* Storages.                                                                 *)

(* Nothing happened, at any time.                                            *)
LEMMA FollowsItself ==
  ASSUME NEW s, NEW time
  PROVE  Follows(s, s, time)
BY DEF Follows, RoundsFollow, RoundsRan, StaysRenounced, Revised

(* What changes neither rounds nor nonces, nor anything of a renounced       *)
(* contract.                                                                 *)
LEMMA OtherChangesFollow ==
  ASSUME NEW c, NEW s, NEW t, NEW time, After(c, s, time),
         t.activeRounds = s.activeRounds,
         t.userRoundNonce = s.userRoundNonce,
         t.ledger.replaced = s.ledger.replaced,
         StaysRenounced(s, t)
  PROVE  After(c, t, time)
BY DEF After, Follows, RoundsFollow, RoundsRan, StaysRenounced, Sound

(* A round that is not open any more, or not yet, has had its time.          *)
LEMMA ClosedRoundRan ==
  ASSUME NEW c, NEW s, NEW time, After(c, s, time), NEW u \in Accounts,
         ~HasActiveRound(s, u), HasActiveRound(c, u)
  PROVE  Elapsed(c.activeRounds[u], time)
BY DEF After, Follows, RoundsRan, HasActiveRound

(* Settling a matured round.                                                 *)
LEMMA ResolveFollows ==
  ASSUME NEW c, NEW s \in Store, NEW time, After(c, s, time), NEW u \in Accounts,
         HasActiveRound(s, u), Elapsed(s.activeRounds[u], time), NEW price \in Int
  PROVE  /\ After(c, ResolveRound(s, u, price), time)
         /\ ResolveRound(s, u, price).activeRounds[u].settled
<1> DEFINE new == ResolveRound(s, u, price)
           r   == s.activeRounds[u]
           r2  == Settled(r, price)
<1>1. /\ s.activeRounds \in [Accounts -> UserRound]
      /\ r \in UserRound
  BY StoreParts
<1>2. r2.settled /\ r2.roundId = r.roundId
  BY <1>1 DEF Settled, UserRound
<1>3. /\ new.activeRounds = [s.activeRounds EXCEPT ![u] = r2]
      /\ new.userRoundNonce = s.userRoundNonce
      /\ new.owner = s.owner
      /\ new.authorizer = s.authorizer
      /\ new.ledger.withdrawn = s.ledger.withdrawn
      /\ new.ledger.replaced = s.ledger.replaced
  BY StoreParts DEF ResolveRound, Distribute, Store, Ledger
<1> HIDE DEF new, r2
<1>4. /\ new.activeRounds[u] = r2
      /\ \A v \in Accounts \ {u} : new.activeRounds[v] = s.activeRounds[v]
  BY <1>1, <1>3
<1>5. RoundsFollow(c, new)
  <2>1. Revised(c.activeRounds[u], r2)
    BY <1>2 DEF After, Follows, RoundsFollow, Revised, HasActiveRound
  <2>2. QED
    BY <1>4, <2>1 DEF After, Follows, RoundsFollow
<1>6. RoundsRan(c, new, time)
  BY <1>4 DEF After, Follows, RoundsRan
<1>7. StaysRenounced(c, new)
  BY <1>3 DEF After, Follows, StaysRenounced
<1>8. Sound(new)
  BY <1>2, <1>3, <1>4 DEF After, Sound
<1>9. QED
  BY <1>2, <1>4, <1>5, <1>6, <1>7, <1>8 DEF After, Follows, new

(* A new round, when the round seen from outside has had its time.           *)
LEMMA PlaceBetFollows ==
  ASSUME NEW c \in Store, NEW s \in Store, NEW time, After(c, s, time), NEW u \in Accounts,
         NEW b, HasActiveRound(c, u) => Elapsed(c.activeRounds[u], time),
         u \notin Contracts => ~HasActiveRound(s, u)
  PROVE  After(c, PlaceBet(s, u, b), time)
<1> DEFINE new        == PlaceBet(s, u, b)
           newRoundId == s.userRoundNonce[u] + 1
<1>1. /\ s.activeRounds \in [Accounts -> UserRound]
      /\ s.userRoundNonce \in [Accounts -> Nat]
      /\ c.activeRounds \in [Accounts -> UserRound]
      /\ s.ledger.replaced \in [Accounts -> Nat]
  BY StoreParts
<1>2. /\ s.activeRounds[u].roundId \in Nat
      /\ c.activeRounds[u].roundId \in Nat
      /\ s.userRoundNonce[u] \in Nat
  BY <1>1 DEF UserRound
<1>3. /\ new.activeRounds[u].roundId = newRoundId
      /\ \A v \in Accounts \ {u} : new.activeRounds[v] = s.activeRounds[v]
      /\ new.userRoundNonce = [s.userRoundNonce EXCEPT ![u] = newRoundId]
      /\ new.owner = s.owner
      /\ new.authorizer = s.authorizer
      /\ new.ledger.withdrawn = s.ledger.withdrawn
      /\ new.ledger.replaced = [s.ledger.replaced EXCEPT ![u] = @ + OpenStake(s, u)]
  BY <1>1, StoreParts DEF PlaceBet, Stake, Store, Ledger
<1> HIDE DEF new
<1>4. newRoundId > c.activeRounds[u].roundId
  BY <1>2 DEF After, Follows, RoundsFollow, Revised, Sound
<1>5. RoundsFollow(c, new)
  BY <1>3, <1>4 DEF After, Follows, RoundsFollow, Revised
<1>6. RoundsRan(c, new, time)
  BY <1>3 DEF After, Follows, RoundsRan
<1>7. StaysRenounced(c, new)
  BY <1>3 DEF After, Follows, StaysRenounced
<1>8. Sound(new)
  <2>1. ASSUME NEW v \in Accounts
        PROVE  new.activeRounds[v].roundId <= new.userRoundNonce[v]
    <3>1. CASE v = u
      BY <1>1, <1>2, <1>3, <3>1
    <3>2. CASE v # u
      BY <1>1, <1>3, <3>2 DEF After, Sound
    <3>3. QED
      BY <3>1, <3>2
  <2>2. ASSUME NEW v \in Accounts \ Contracts
        PROVE  new.ledger.replaced[v] = 0
    <3>1. s.ledger.replaced[v] = 0
      BY DEF After, Sound
    <3>2. CASE v = u
      <4>1. OpenStake(s, u) = 0
        BY <3>2 DEF OpenStake
      <4>2. QED
        BY <1>1, <1>3, <3>1, <3>2, <4>1
    <3>3. CASE v # u
      BY <1>1, <1>3, <3>1, <3>3
    <3>4. QED
      BY <3>2, <3>3
  <2>3. QED
    BY <2>1, <2>2 DEF Sound
<1>9. QED
  BY <1>5, <1>6, <1>7, <1>8 DEF After, Follows, new

(* The end of _settleRound, with or without a new round.                     *)
LEMMA FinishSettleFollows ==
  ASSUME NEW c \in Store, NEW s \in Store, Balanced(s), NEW time, After(c, s, time),
         NEW u \in Accounts, NEW next,
         HasActiveRound(c, u) => Elapsed(c.activeRounds[u], time),
         u \notin Contracts => ~HasActiveRound(s, u)
  PROVE  After(c, FinishSettle(s, u, next), time)
<1> DEFINE new == Delist(s, u)
<1>1. new \in Store
  BY DelistKeepsBooks DEF Balanced, OtherBooks
<1>2. /\ new.activeRounds = s.activeRounds
      /\ new.userRoundNonce = s.userRoundNonce
      /\ new.ledger = s.ledger
      /\ new.owner = s.owner
      /\ new.authorizer = s.authorizer
  BY DEF Delist, Store
<1> HIDE DEF new
<1>3. After(c, new, time)
  BY <1>2, OtherChangesFollow DEF StaysRenounced
<1>4. u \notin Contracts => ~HasActiveRound(new, u)
  BY <1>2 DEF HasActiveRound
<1>5. After(c, PlaceBet(new, u, next), time)
  BY <1>1, <1>3, <1>4, PlaceBetFollows
<1>6. QED
  BY <1>3, <1>5 DEF FinishSettle, new

-------------------------------------------------------------------------------
(* The stack.                                                                *)

(* What other transactions see is a storage: the current one, or the one the *)
(* first call of the transaction found.                                      *)
LEMMA CommittedIsStored ==
  ASSUME BooksInv
  PROVE  Committed \in Store
<1>1. store \in Store
  BY DEF BooksInv, Balanced, OtherBooks
<1>2. CASE stack # << >>
  <2>1. 1 \in 1 .. Len(stack)
    BY <1>2, EmptySeq DEF BooksInv
  <2>2. stack[1] \in Frames
    BY <2>1, ElementOfSeq DEF BooksInv
  <2>3. QED
    BY <1>2, <2>2 DEF Committed, Frames
<1>3. QED
  BY <1>1, <1>2 DEF Committed

(* Nobody but code in a transfer calls while a transaction runs.             *)
LEMMA CallersMeetNoPlainFrame ==
  ASSUME BooksInv, HistoryInv, NEW u, MayCall(u), NEW i \in 1 .. Len(stack)
  PROVE  stack[i].callee \in Contracts
<1>1. stack # << >>
  BY EmptySeq DEF BooksInv
<1>2. Top.callee \in Contracts
  BY <1>1 DEF MayCall
<1>3. QED
  BY <1>2 DEF HistoryInv, FrameHistory, Top

(* A call that ends at once.                                                 *)
LEMMA PlainStepFollows ==
  ASSUME BooksInv, HistoryInv, NEW u, MayCall(u),
         After(Committed, store', now), stack' = stack, now' = now
  PROVE  StepFollows
<1>1. CASE stack = << >>
  <2>1. Committed' = store' /\ Committed = store /\ Len(stack) = 0
    BY <1>1, EmptySeq DEF Committed
  <2>2. After(store', store', now)
    BY FollowsItself DEF After
  <2>3. HistoryInv'
    BY <2>1, <2>2 DEF HistoryInv
  <2>4. QED
    BY <2>1, <2>3 DEF StepFollows, After
<1>2. CASE stack # << >>
  <2>1. Committed' = Committed
    BY <1>2 DEF Committed
  <2>2. ASSUME NEW i \in 1 .. Len(stack)
        PROVE  FrameHistory(i)'
    <3>1. stack[i].callee \in Contracts
      BY CallersMeetNoPlainFrame
    <3>2. QED
      BY <2>1, <3>1 DEF HistoryInv, FrameHistory
  <2>3. HistoryInv'
    BY <2>1, <2>2 DEF HistoryInv
  <2>4. QED
    BY <2>1, <2>3, FollowsItself DEF StepFollows
<1>3. QED
  BY <1>1, <1>2

(* A call that hands over control.                                           *)
LEMMA PushFollows ==
  ASSUME BooksInv, HistoryInv, NEW u, MayCall(u),
         NEW f, f.entry = store, stack' = Append(stack, f), now' = now,
         After(Committed, store', now),
         f.kind = "settle" =>
           /\ After(Committed, f.atCall, now)
           /\ f.atCall.activeRounds[f.callee].settled
           /\ store'.activeRounds = f.atCall.activeRounds,
         f \in Frames
  PROVE  StepFollows
<1>1. /\ stack \in Seq(Frames)
      /\ Len(stack') = Len(stack) + 1
      /\ \A i \in 1 .. Len(stack) : stack'[i] = stack[i]
      /\ stack'[Len(stack) + 1] = f
      /\ Len(stack) \in Nat
  BY AppendProperties DEF BooksInv
<1>2. stack' # << >>
  BY <1>1, EmptySeq
<1>3. Committed' = Committed
  <2>1. CASE stack = << >>
    BY <1>1, <1>2, <2>1, EmptySeq DEF Committed
  <2>2. CASE stack # << >>
    <3>1. 1 \in 1 .. Len(stack)
      BY <1>1, <2>2, EmptySeq
    <3>2. QED
      BY <1>1, <1>2, <2>2, <3>1 DEF Committed
  <2>3. QED
    BY <2>1, <2>2
<1>4. ASSUME NEW i \in 1 .. Len(stack')
      PROVE  FrameHistory(i)'
  <2>1. CASE i \in 1 .. Len(stack)
    <3>1. stack[i].callee \in Contracts
      BY <2>1, CallersMeetNoPlainFrame
    <3>2. QED
      BY <1>1, <1>3, <2>1, <3>1 DEF HistoryInv, FrameHistory
  <2>2. CASE i = Len(stack) + 1
    BY <1>1, <1>3, <2>2 DEF HistoryInv, FrameHistory
  <2>3. QED
    BY <1>1, <2>1, <2>2
<1>5. HistoryInv'
  BY <1>3, <1>4 DEF HistoryInv
<1>6. QED
  BY <1>3, <1>5, FollowsItself DEF StepFollows

(* The innermost call ends.                                                  *)
LEMMA PopFollows ==
  ASSUME BooksInv, HistoryInv, stack # << >>, stack' = Pop, now' = now,
         After(Committed, store', now)
  PROVE  StepFollows
<1>1. Len(stack) \in Nat \ {0}
  BY EmptySeq DEF BooksInv
<1>2. /\ Len(stack') = Len(stack) - 1
      /\ \A i \in 1 .. Len(stack') : stack'[i] = stack[i]
      /\ stack' \in Seq(Frames)
  <2> DEFINE n == Len(stack) - 1
  <2>1. stack \in Seq(Frames) /\ n \in Nat /\ n <= Len(stack)
    BY <1>1 DEF BooksInv
  <2>2. \A i \in 1 .. n : stack[i] \in Frames
    BY <2>1, ElementOfSeq
  <2>3. stack' = SubSeq(stack, 1, n)
    BY DEF Pop
  <2> HIDE DEF n
  <2>4. /\ stack' \in Seq(Frames)
        /\ Len(stack') = n
        /\ \A i \in 1 .. n : stack'[i] = stack[i]
    BY <2>1, <2>2, <2>3, SubSeqProperties
  <2>5. QED
    BY <2>4 DEF n
<1>3. CASE stack' = << >>
  <2>1. Committed' = store' /\ Len(stack') = 0
    BY <1>3, EmptySeq DEF Committed
  <2>2. After(store', store', now)
    BY FollowsItself DEF After
  <2>3. HistoryInv'
    BY <2>1, <2>2 DEF HistoryInv
  <2>4. QED
    BY <2>1, <2>3 DEF StepFollows, After
<1>4. CASE stack' # << >>
  <2>1. 1 \in 1 .. Len(stack')
    BY <1>1, <1>2, <1>4, EmptySeq
  <2>2. Committed' = Committed
    BY <1>2, <1>4, <2>1 DEF Committed
  <2>3. ASSUME NEW i \in 1 .. Len(stack')
        PROVE  FrameHistory(i)'
    <3>1. i \in 1 .. Len(stack) /\ i # Len(stack)
      BY <1>1, <1>2
    <3>2. stack[i].callee \in Contracts
      BY <3>1 DEF HistoryInv, FrameHistory
    <3>3. QED
      BY <1>2, <2>2, <3>1, <3>2 DEF HistoryInv, FrameHistory
  <2>4. HistoryInv'
    BY <2>2, <2>3 DEF HistoryInv
  <2>5. QED
    BY <2>2, <2>4, FollowsItself DEF StepFollows
<1>5. QED
  BY <1>3, <1>4

-------------------------------------------------------------------------------
(* The steps of the contract.                                                *)

(* _settleRound in each of its three endings, for a matured open round.      *)
LEMMA SettleRoundFollows ==
  ASSUME BooksInv, HistoryInv, NEW u \in Accounts, MayCall(u),
         NEW s, Balanced(s), After(Committed, s, now),
         HasActiveRound(s, u), Matured(s.activeRounds[u]),
         NEW price \in Int, NEW next \in Bets,
         SettleRound(s, u, price, next), now' = now
  PROVE  StepFollows
<1> DEFINE resolved == ResolveRound(s, u, price)
           payout   == Payout(s.activeRounds[u], price)
<1>1. payout \in Nat /\ Short(resolved, u, payout)
  BY ResolveLeavesShort
<1>2. s \in Store /\ resolved \in Store /\ Committed \in Store
  BY <1>1, CommittedIsStored DEF Balanced, Short, OtherBooks
<1>3. After(Committed, resolved, now) /\ resolved.activeRounds[u].settled
  BY <1>2, ResolveFollows DEF Matured, Elapsed
<1>4. HasActiveRound(Committed, u) => Elapsed(Committed.activeRounds[u], now)
  BY <1>3, ClosedRoundRan DEF HasActiveRound
<1>5. \/ CallOut("settle", u, payout, store, resolved, next)
      \/ /\ store' = FinishSettle(QueuePayout(resolved, u, payout), u, next)
         /\ stack' = stack
      \/ /\ payout = 0
         /\ store' = FinishSettle(resolved, u, next)
         /\ stack' = stack
  BY DEF SettleRound
<1> HIDE DEF resolved, payout
<1>6. CASE CallOut("settle", u, payout, store, resolved, next)
  <2> DEFINE f == [kind |-> "settle", callee |-> u, amount |-> payout,
                   entry |-> store, atCall |-> resolved, next |-> next]
  <2>1. store' = Send(resolved, "settle", u, payout) /\ stack' = Append(stack, f)
    BY <1>6 DEF CallOut
  <2>2. /\ f \in Frames
        /\ f.entry = store /\ f.atCall = resolved /\ f.callee = u
    BY <1>1, <1>2 DEF Frames, BooksInv, Balanced, OtherBooks
  <2>3. /\ store'.activeRounds = resolved.activeRounds
        /\ store'.userRoundNonce = resolved.userRoundNonce
        /\ store'.ledger.replaced = resolved.ledger.replaced
        /\ StaysRenounced(resolved, store')
    BY <1>2, <2>1, StoreParts DEF Send, Store, Ledger, StaysRenounced
  <2>4. After(Committed, store', now)
    BY <1>3, <2>3, OtherChangesFollow
  <2> HIDE DEF f
  <2>5. QED
    BY <1>3, <2>1, <2>2, <2>3, <2>4, PushFollows
<1>7. CASE /\ store' = FinishSettle(QueuePayout(resolved, u, payout), u, next)
           /\ stack' = stack
  <2> DEFINE queued == QueuePayout(resolved, u, payout)
  <2>1. Balanced(queued) /\ queued \in Store
    BY <1>1, QueueBalances DEF Balanced, OtherBooks
  <2>2. /\ queued.activeRounds = resolved.activeRounds
        /\ queued.userRoundNonce = resolved.userRoundNonce
        /\ queued.ledger = resolved.ledger
        /\ StaysRenounced(resolved, queued)
    BY <1>2 DEF QueuePayout, Store, StaysRenounced
  <2> HIDE DEF queued
  <2>3. After(Committed, queued, now) /\ ~HasActiveRound(queued, u)
    BY <1>3, <2>2, OtherChangesFollow DEF HasActiveRound
  <2>4. After(Committed, FinishSettle(queued, u, next), now)
    BY <1>2, <1>4, <2>1, <2>3, FinishSettleFollows
  <2>5. QED
    BY <1>7, <2>4, PlainStepFollows DEF queued
<1>8. CASE /\ payout = 0
           /\ store' = FinishSettle(resolved, u, next)
           /\ stack' = stack
  <2>1. Balanced(resolved) /\ ~HasActiveRound(resolved, u)
    BY <1>1, <1>3, <1>8, NothingShort DEF HasActiveRound
  <2>2. After(Committed, FinishSettle(resolved, u, next), now)
    BY <1>2, <1>3, <1>4, <2>1, FinishSettleFollows
  <2>3. QED
    BY <1>8, <2>2, PlainStepFollows
<1>9. QED
  BY <1>5, <1>6, <1>7, <1>8

(* claim, faucet and withdrawFees, which touch no round; only an owner can   *)
(* withdraw, so a renounced contract is not concerned.                       *)
LEMMA PlainCallFollows ==
  ASSUME BooksInv, HistoryInv, NEW u \in Accounts, MayCall(u),
         NEW kind \in {"claim", "faucet", "fees"}, NEW amount \in Nat, NEW s \in Store,
         s.activeRounds = store.activeRounds,
         s.userRoundNonce = store.userRoundNonce,
         s.ledger = store.ledger,
         s.owner = store.owner /\ s.authorizer = store.authorizer,
         kind = "fees" => store.owner # NoAccount,
         CallOut(kind, u, amount, store, s, NoBet), now' = now
  PROVE  StepFollows
<1> DEFINE f == [kind |-> kind, callee |-> u, amount |-> amount,
                 entry |-> store, atCall |-> s, next |-> NoBet]
<1>1. store' = Send(s, kind, u, amount) /\ stack' = Append(stack, f)
  BY DEF CallOut
<1>2. f \in Frames /\ f.entry = store /\ f.kind # "settle"
  BY DEF Frames, Bets, NoBet, BooksInv, Balanced, OtherBooks
<1>3. /\ store'.activeRounds = store.activeRounds
      /\ store'.userRoundNonce = store.userRoundNonce
      /\ store'.ledger.replaced = store.ledger.replaced
      /\ StaysRenounced(store, store')
  BY <1>1, StoreParts DEF Send, Store, Ledger, StaysRenounced
<1>4. After(Committed, store', now)
  BY <1>3, OtherChangesFollow DEF HistoryInv
<1> HIDE DEF f
<1>5. QED
  BY <1>1, <1>2, <1>4, PushFollows

(* Every step leads from the storage seen outside to one that may follow it. *)
LEMMA NextFollows == BooksInv /\ HistoryInv /\ [Next]_vars => StepFollows
<1> SUFFICES ASSUME BooksInv, HistoryInv, [Next]_vars
             PROVE  StepFollows
  OBVIOUS
<1>1. /\ Balanced(store)
      /\ store \in Store
      /\ Committed \in Store
      /\ now \in Nat
      /\ After(Committed, store, now)
  BY CommittedIsStored DEF BooksInv, Balanced, OtherBooks, HistoryInv
<1>2. CASE Tick
  <2>1. stack = << >> /\ stack' = stack /\ store' = store /\ Len(stack) = 0
    BY <1>2, EmptySeq DEF Tick
  <2>2. Committed = store /\ Committed' = store
    BY <2>1 DEF Committed
  <2>3. After(store, store, now')
    BY <1>1, FollowsItself DEF After
  <2>4. HistoryInv'
    BY <2>1, <2>2, <2>3 DEF HistoryInv
  <2>5. QED
    BY <2>2, <2>4, FollowsItself DEF StepFollows
<1>3. ASSUME NEW u \in Accounts, NEW amount \in Amounts, NEW sig \in BetSigs,
             Bet(u, amount, sig)
      PROVE  StepFollows
  <2> DEFINE b  == [amount |-> amount, isUp |-> sig.isUp, price |-> sig.price]
             in == Accept(store, amount)
  <2>1. b \in Bets /\ amount \in Nat /\ sig.price \in Int
    BY AmountsAssumption DEF Bets, BetSigs
  <2>2. Balanced(in) /\ in \in Store
    BY <1>1, <2>1, AcceptKeepsBooks DEF Balanced, OtherBooks
  <2>3. /\ in.activeRounds = store.activeRounds
        /\ in.userRoundNonce = store.userRoundNonce
        /\ in.ledger = store.ledger
        /\ StaysRenounced(store, in)
    BY <1>1 DEF Accept, Store, StaysRenounced
  <2>4. MayCall(u) /\ now' = now
    BY <1>3 DEF Bet
  <2>5. CASE HasActiveRound(store, u)
    <3>1. Matured(store.activeRounds[u]) /\ SettleRound(in, u, sig.price, b)
      BY <1>3, <2>5 DEF Bet
    <3> HIDE DEF b, in
    <3>2. After(Committed, in, now) /\ HasActiveRound(in, u) /\ Matured(in.activeRounds[u])
      BY <1>1, <2>3, <2>5, <3>1, OtherChangesFollow DEF HasActiveRound
    <3>3. QED
      BY <2>1, <2>2, <2>4, <3>1, <3>2, SettleRoundFollows
  <2>6. CASE ~HasActiveRound(store, u)
    <3>1. store' = PlaceBet(in, u, b) /\ stack' = stack
      BY <1>3, <2>6 DEF Bet
    <3> HIDE DEF b, in
    <3>2. After(Committed, in, now) /\ ~HasActiveRound(in, u)
      BY <1>1, <2>3, <2>6, OtherChangesFollow DEF HasActiveRound
    <3>3. HasActiveRound(Committed, u) => Elapsed(Committed.activeRounds[u], now)
      BY <3>2, ClosedRoundRan
    <3>4. After(Committed, store', now)
      BY <1>1, <2>2, <3>1, <3>2, <3>3, PlaceBetFollows
    <3>5. QED
      BY <2>4, <3>1, <3>4, PlainStepFollows
  <2>7. QED
    BY <2>5, <2>6
<1>4. ASSUME NEW u \in Accounts, NEW sig \in SettleSigs, SettleMyRound(u, sig)
      PROVE  StepFollows
  <2>1. NoBet \in Bets /\ sig.price \in Int
    <3>1. NoBet \in Bets
      BY DEF NoBet, Bets
    <3>2. sig.price \in Prices
      BY DEF SettleSigs
    <3>3. QED
      BY <3>1, <3>2, AmountsAssumption
  <2>2. /\ HasActiveRound(store, u)
        /\ Matured(store.activeRounds[u])
        /\ SettleRound(store, u, sig.price, NoBet)
        /\ MayCall(u)
        /\ now' = now
    BY <1>4 DEF SettleMyRound
  <2>3. QED
    BY <1>1, <2>1, <2>2, SettleRoundFollows
<1>5. ASSUME NEW u \in Accounts, Claim(u)
      PROVE  StepFollows
  <2> DEFINE amount == store.pendingWithdrawals[u]
             booked == BookClaim(store, u)
  <2>1. CallOut("claim", u, amount, store, booked, NoBet) /\ now' = now /\ MayCall(u)
    BY <1>5 DEF Claim
  <2>2. amount <= store.balance /\ amount \in Nat
    BY <1>1, <2>1, StoreParts DEF CallOut, BookClaim, Store
  <2>3. booked \in Store
    BY <1>1, <2>2, ClaimKeepsBooks
  <2>4. /\ booked.activeRounds = store.activeRounds
        /\ booked.userRoundNonce = store.userRoundNonce
        /\ booked.ledger = store.ledger
        /\ booked.owner = store.owner /\ booked.authorizer = store.authorizer
    BY <1>1 DEF BookClaim, Store
  <2> HIDE DEF amount, booked
  <2>5. QED
    BY <2>1, <2>2, <2>3, <2>4, PlainCallFollows
<1>6. ASSUME NEW u \in Accounts, Faucet(u)
      PROVE  StepFollows
  <2> DEFINE booked == BookFaucet(store, u)
  <2>1. /\ ~store.hasUsedFaucet[u]
        /\ FAUCET_AMOUNT <= store.balance
        /\ CallOut("faucet", u, FAUCET_AMOUNT, store, booked, NoBet)
        /\ now' = now
        /\ MayCall(u)
    BY <1>1, <1>6, StoreParts, AmountsAssumption DEF Faucet
  <2>2. booked \in Store
    BY <1>1, <2>1, FaucetKeepsBooks
  <2>3. /\ booked.activeRounds = store.activeRounds
        /\ booked.userRoundNonce = store.userRoundNonce
        /\ booked.ledger = store.ledger
        /\ booked.owner = store.owner /\ booked.authorizer = store.authorizer
    BY <1>1 DEF BookFaucet, Store
  <2> HIDE DEF booked
  <2>4. QED
    BY <2>1, <2>2, <2>3, AmountsAssumption, PlainCallFollows
<1>7. ASSUME NEW u \in Accounts, WithdrawFees(u)
      PROVE  StepFollows
  <2> DEFINE amount == store.treasuryFees
             booked == BookWithdrawal(store)
  <2>1. /\ CallOut("fees", u, amount, store, booked, NoBet)
        /\ now' = now
        /\ MayCall(u)
        /\ store.owner # NoAccount
    BY <1>7, AccountsAssumption DEF WithdrawFees, OnlyOwner
  <2>2. amount <= store.balance /\ amount \in Nat
    BY <1>1, <2>1, StoreParts DEF CallOut, BookWithdrawal, Store
  <2>3. booked \in Store
    BY <1>1, <2>2, WithdrawFeesKeepsBooks
  <2>4. /\ booked.activeRounds = store.activeRounds
        /\ booked.userRoundNonce = store.userRoundNonce
        /\ booked.ledger = store.ledger
        /\ booked.owner = store.owner /\ booked.authorizer = store.authorizer
    BY <1>1 DEF BookWithdrawal, Store
  <2> HIDE DEF amount, booked
  <2>5. QED
    BY <2>1, <2>2, <2>3, <2>4, PlainCallFollows
<1>8. ASSUME NEW u \in Accounts, NEW amount \in Donations, Receive(u, amount)
      PROVE  StepFollows
  <2>1. MayCall(u) /\ stack' = stack /\ now' = now
    BY <1>8 DEF Receive
  <2>2. /\ store'.activeRounds = store.activeRounds
        /\ store'.userRoundNonce = store.userRoundNonce
        /\ store'.ledger.replaced = store.ledger.replaced
        /\ StaysRenounced(store, store')
    BY <1>1, <1>8, StoreParts DEF Receive, Accept, Store, Ledger, StaysRenounced
  <2>3. After(Committed, store', now)
    BY <1>1, <2>2, OtherChangesFollow
  <2>4. QED
    BY <2>1, <2>3, PlainStepFollows
<1>9. ASSUME NEW u \in Accounts,
             \/ \E a \in Signers : SetAuthorizer(u, a)
             \/ \E o \in NewOwners : TransferOwnership(u, o)
      PROVE  StepFollows
  <2>1. MayCall(u) /\ stack' = stack /\ now' = now /\ store.owner # NoAccount
    BY <1>9, AccountsAssumption DEF SetAuthorizer, TransferOwnership, OnlyOwner
  <2>2. /\ store'.activeRounds = store.activeRounds
        /\ store'.userRoundNonce = store.userRoundNonce
        /\ store'.ledger = store.ledger
    BY <1>1, <1>9 DEF SetAuthorizer, TransferOwnership, Store
  <2>3. After(Committed, store', now)
    BY <1>1, <2>1, <2>2, OtherChangesFollow DEF StaysRenounced
  <2>4. QED
    BY <2>1, <2>3, PlainStepFollows
<1>10. ASSUME stack # << >>
       PROVE  /\ Len(stack) \in 1 .. Len(stack)
              /\ Top \in Frames
              /\ FrameHistory(Len(stack))
  BY <1>10, EmptySeq, TopIsSound DEF BooksInv, HistoryInv
<1>11. CASE CallReturns
  <2>1. stack # << >> /\ stack' = Pop /\ now' = now
    BY <1>11 DEF CallReturns
  <2>2. CASE Top.kind = "settle"
    <3>1. /\ After(Committed, Top.atCall, now)
          /\ ~HasActiveRound(Top.atCall, Top.callee)
          /\ Top.callee \notin Contracts => ~HasActiveRound(store, Top.callee)
      BY <1>10, <2>1, <2>2 DEF FrameHistory, Top, HasActiveRound
    <3>2. Top.callee \in Accounts
      BY <1>10, <2>1 DEF Frames
    <3>3. HasActiveRound(Committed, Top.callee)
            => Elapsed(Committed.activeRounds[Top.callee], now)
      BY <3>1, <3>2, ClosedRoundRan
    <3>4. After(Committed, FinishSettle(store, Top.callee, Top.next), now)
      BY <1>1, <3>1, <3>2, <3>3, FinishSettleFollows
    <3>5. QED
      BY <1>11, <2>1, <2>2, <3>4, PopFollows DEF CallReturns
  <2>3. CASE Top.kind # "settle"
    BY <1>1, <1>11, <2>1, <2>3, PopFollows DEF CallReturns
  <2>4. QED
    BY <2>2, <2>3
<1>12. CASE PayoutFails
  <2> DEFINE queued == QueuePayout(Top.atCall, Top.callee, Top.amount)
  <2>1. /\ stack # << >> /\ stack' = Pop /\ now' = now /\ Top.kind = "settle"
        /\ store' = FinishSettle(queued, Top.callee, Top.next)
    BY <1>12 DEF PayoutFails
  <2>2. /\ Top.callee \in Accounts /\ Top.amount \in Nat /\ Top.atCall \in Store
        /\ Short(Top.atCall, Top.callee, Top.amount)
    BY <2>1, TopIsSound DEF Frames, FrameInv
  <2>3. Balanced(queued) /\ queued \in Store
    BY <2>2, QueueBalances DEF Balanced, OtherBooks
  <2>4. /\ queued.activeRounds = Top.atCall.activeRounds
        /\ queued.userRoundNonce = Top.atCall.userRoundNonce
        /\ queued.ledger = Top.atCall.ledger
        /\ StaysRenounced(Top.atCall, queued)
    BY <2>2 DEF QueuePayout, Store, StaysRenounced
  <2> HIDE DEF queued
  <2>5. /\ After(Committed, Top.atCall, now)
        /\ Top.atCall.activeRounds[Top.callee].settled
    BY <1>10, <2>1 DEF FrameHistory, Top
  <2>6. After(Committed, queued, now) /\ ~HasActiveRound(queued, Top.callee)
    BY <2>4, <2>5, OtherChangesFollow DEF HasActiveRound
  <2>7. HasActiveRound(Committed, Top.callee)
          => Elapsed(Committed.activeRounds[Top.callee], now)
    BY <2>2, <2>6, ClosedRoundRan
  <2>8. After(Committed, store', now)
    BY <1>1, <2>1, <2>2, <2>3, <2>6, <2>7, FinishSettleFollows
  <2>9. QED
    BY <2>1, <2>8, PopFollows
<1>13. CASE FunctionReverts
  <2>1. stack # << >> /\ stack' = Pop /\ now' = now /\ store' = Top.entry
    BY <1>13 DEF FunctionReverts
  <2>2. After(Committed, Top.entry, now)
    BY <1>10, <2>1 DEF FrameHistory, Top
  <2>3. QED
    BY <2>1, <2>2, PopFollows
<1>14. CASE UNCHANGED vars
  <2>1. Committed' = Committed
    BY <1>14 DEF vars, Committed
  <2>2. HistoryInv'
    BY <1>14, <2>1 DEF vars, HistoryInv, FrameHistory
  <2>3. QED
    BY <2>1, <2>2, FollowsItself DEF StepFollows
<1>15. QED
  BY <1>2, <1>3, <1>4, <1>5, <1>6, <1>7, <1>8, <1>9, <1>11, <1>12, <1>13, <1>14
     DEF Next, Play, Admin

(* Nothing has happened to a freshly deployed contract.                      *)
LEMMA InitHasHistory == Init => HistoryInv
<1> SUFFICES ASSUME Init
             PROVE  HistoryInv
  OBVIOUS
<1>1. Committed = store /\ Len(stack) = 0
  BY EmptySeq DEF Init, Committed
<1>2. Sound(store)
  BY AccountsAssumption DEF Init, Deployed, EmptyLedger, Nothing, NoRound, Sound
<1>3. QED
  BY <1>1, <1>2, FollowsItself DEF HistoryInv, After

(* Every storage execution may arrive at follows the one seen from outside.  *)
THEOREM HistoryInvHolds == Spec => []HistoryInv
<1>1. BooksInv /\ HistoryInv /\ [Next]_vars => HistoryInv'
  BY NextFollows DEF StepFollows
<1>2. QED
  BY <1>1, InitHasHistory, BooksInvHolds, PTL DEF Spec

-------------------------------------------------------------------------------
(* The promises.                                                             *)

(* No result of a round is ever revised, whatever receivers of payments do   *)
(* and however the calls end.                                                *)
THEOREM ResultsAlwaysFinal == Spec => ResultsAreFinal
<1> DEFINE Step == \A u \in Accounts :
                     LET r == Committed.activeRounds[u]  r2 == Committed'.activeRounds[u]
                     IN  r2 # r => \/ r2.roundId > r.roundId
                                   \/ r2.roundId = r.roundId /\ ~r.settled /\ r2.settled
<1>1. BooksInv /\ HistoryInv /\ [Next]_vars => [Step]_vars
  BY NextFollows DEF StepFollows, Follows, RoundsFollow, Revised
<1>2. QED
  BY <1>1, BooksInvHolds, HistoryInvHolds, PTL DEF Spec, ResultsAreFinal

(* No open round is taken away before its time, also from inside a payment.  *)
THEOREM RoundsAlwaysRunFullDuration == Spec => RoundRunsFullDuration
<1> DEFINE Step == \A u \in Accounts :
                     HasActiveRound(Committed, u)
                         /\ Committed'.activeRounds[u] # Committed.activeRounds[u]
                       => now >= Committed.activeRounds[u].startTime + ROUND_DURATION
<1>1. BooksInv /\ HistoryInv /\ [Next]_vars => [Step]_vars
  BY NextFollows DEF StepFollows, Follows, RoundsRan, Elapsed
<1>2. QED
  BY <1>1, BooksInvHolds, HistoryInvHolds, PTL DEF Spec, RoundRunsFullDuration

(* A renounced contract has no owner any more, whatever call it was          *)
(* renounced in.                                                             *)
THEOREM AlwaysRenouncedForGood == Spec => RenouncedForGood
<1> DEFINE Step == Committed.owner = NoAccount =>
                     /\ Committed'.owner = NoAccount
                     /\ Committed'.authorizer = Committed.authorizer
                     /\ Committed'.ledger.withdrawn = Committed.ledger.withdrawn
<1>1. BooksInv /\ HistoryInv /\ [Next]_vars => [Step]_vars
  BY NextFollows DEF StepFollows, Follows, StaysRenounced
<1>2. QED
  BY <1>1, BooksInvHolds, HistoryInvHolds, PTL DEF Spec, RenouncedForGood

(* Every stake is in one round, and an account without code never loses one. *)
THEOREM StakesAlwaysAccounted == Spec => []StakesAccounted
<1>1. BooksInv /\ HistoryInv => StakesAccounted
  BY DEF BooksInv, Balanced, OtherBooks, StakeBooks, HistoryInv, After, Sound, StakesAccounted
<1>2. QED
  BY <1>1, BooksInvHolds, HistoryInvHolds, PTL

-------------------------------------------------------------------------------
(* The list of active users against the rounds.                              *)
(*                                                                           *)
(* _settleRound settles a round before the payment and takes the player off  *)
(* the list after it, so in between the player is listed without an open     *)
(* round.  The invariant counts those players: they are the receivers of the *)
(* payouts under way, and a storage kept in a frame knows of the frames      *)
(* below it.                                                                 *)

(* The players whose settlement waits in the first n frames.                 *)
Settling(frames, n) == {frames[j].callee : j \in {k \in 1 .. n : frames[k].kind = "settle"}}

(* List and rounds of s agree but for the players in pending.                *)
ListFits(s, pending) ==
  \A u \in Accounts :
    /\ s.registry.isActiveUser[u] => HasActiveRound(s, u) \/ u \in pending
    /\ u \notin Contracts /\ HasActiveRound(s, u) => s.registry.isActiveUser[u]

FrameListFits(i) ==
  /\ ListFits(stack[i].entry, Settling(stack, i - 1))
  /\ stack[i].kind = "settle" => ListFits(stack[i].atCall, Settling(stack, i))

ListInv ==
  /\ ListFits(store, Settling(stack, Len(stack)))
  /\ \A i \in 1 .. Len(stack) : FrameListFits(i)

-------------------------------------------------------------------------------
(* Storages.                                                                 *)

(* What touches neither list nor rounds.                                     *)
LEMMA OtherChangesFit ==
  ASSUME NEW s, NEW t, NEW pending, ListFits(s, pending),
         t.registry = s.registry, t.activeRounds = s.activeRounds
  PROVE  ListFits(t, pending)
BY DEF ListFits, HasActiveRound

(* A settled round waits for its player to be unlisted.                      *)
LEMMA ResolveFits ==
  ASSUME NEW s \in Store, NEW pending, ListFits(s, pending),
         NEW u \in Accounts, NEW price
  PROVE  /\ ListFits(ResolveRound(s, u, price), pending \cup {u})
         /\ ~HasActiveRound(ResolveRound(s, u, price), u)
<1> DEFINE new == ResolveRound(s, u, price)
<1>1. /\ new.registry = s.registry
      /\ new.activeRounds[u].settled
      /\ \A v \in Accounts \ {u} : new.activeRounds[v] = s.activeRounds[v]
  <2>1. s.activeRounds \in [Accounts -> UserRound]
    BY StoreParts
  <2>2. /\ new.registry = s.registry
        /\ new.activeRounds = [s.activeRounds EXCEPT ![u] = Settled(s.activeRounds[u], price)]
    BY DEF ResolveRound, Store
  <2>3. Settled(s.activeRounds[u], price).settled
    BY <2>1 DEF Settled, UserRound
  <2> HIDE DEF new
  <2>4. QED
    BY <2>1, <2>2, <2>3
<1> HIDE DEF new
<1>2. QED
  BY <1>1 DEF ListFits, HasActiveRound, new

(* Unlisting a player without an open round.                                 *)
LEMMA DelistFits ==
  ASSUME NEW s, Balanced(s), NEW pending, NEW u \in Accounts,
         ListFits(s, pending \cup {u}), u \notin Contracts => ~HasActiveRound(s, u)
  PROVE  ListFits(Delist(s, u), pending)
<1> DEFINE new == Delist(s, u)
<1>1. s \in Store /\ s.registry \in Registry /\ RegistryConsistent(s.registry)
  BY StoreParts DEF Balanced, OtherBooks
<1>2. /\ new.registry = DeactivateUser(s.registry, u)
      /\ new.activeRounds = s.activeRounds
  BY <1>1 DEF Delist, Store
<1> HIDE DEF new
<1>3. /\ s.registry.isActiveUser \in [Accounts -> BOOLEAN]
      /\ new.registry.isActiveUser = [s.registry.isActiveUser EXCEPT ![u] = FALSE]
  BY <1>1, <1>2, DeactivateUserUnlists DEF Registry
<1>4. ASSUME NEW v \in Accounts
      PROVE  /\ new.registry.isActiveUser[v] => HasActiveRound(new, v) \/ v \in pending
             /\ v \notin Contracts /\ HasActiveRound(new, v) => new.registry.isActiveUser[v]
  <2>1. HasActiveRound(new, v) = HasActiveRound(s, v)
    BY <1>2 DEF HasActiveRound
  <2>2. CASE v = u
    BY <1>3, <2>1, <2>2
  <2>3. CASE v # u
    BY <1>3, <2>1, <2>3 DEF ListFits
  <2>4. QED
    BY <2>2, <2>3
<1>5. QED
  BY <1>4 DEF ListFits, new

(* A new round and its place on the list.                                    *)
LEMMA PlaceBetFits ==
  ASSUME NEW s, Balanced(s), NEW pending, NEW u \in Accounts, NEW b,
         ListFits(s, pending)
  PROVE  ListFits(PlaceBet(s, u, b), pending)
<1> DEFINE new == PlaceBet(s, u, b)
<1>1. /\ s \in Store /\ s.registry \in Registry /\ RegistryConsistent(s.registry)
      /\ s.activeRounds \in [Accounts -> UserRound]
      /\ s.userRoundNonce[u] \in Nat
  BY StoreParts DEF Balanced, OtherBooks
<1>2. /\ new.registry = ActivateUser(s.registry, u)
      /\ new.activeRounds[u].roundId = s.userRoundNonce[u] + 1
      /\ ~new.activeRounds[u].settled
      /\ \A v \in Accounts \ {u} : new.activeRounds[v] = s.activeRounds[v]
  BY <1>1 DEF PlaceBet, Store
<1> HIDE DEF new
<1>3. /\ s.registry.isActiveUser \in [Accounts -> BOOLEAN]
      /\ new.registry.isActiveUser = [s.registry.isActiveUser EXCEPT ![u] = TRUE]
  BY <1>1, <1>2, ActivateUserLists DEF Registry
<1>4. ASSUME NEW v \in Accounts
      PROVE  /\ new.registry.isActiveUser[v] => HasActiveRound(new, v) \/ v \in pending
             /\ v \notin Contracts /\ HasActiveRound(new, v) => new.registry.isActiveUser[v]
  <2>1. CASE v = u
    <3>1. HasActiveRound(new, u)
      BY <1>1, <1>2 DEF HasActiveRound
    <3>2. QED
      BY <1>3, <2>1, <3>1
  <2>2. CASE v # u
    <3>1. HasActiveRound(new, v) = HasActiveRound(s, v)
      BY <1>2, <2>2 DEF HasActiveRound
    <3>2. QED
      BY <1>3, <2>2, <3>1 DEF ListFits
  <2>3. QED
    BY <2>1, <2>2
<1>5. QED
  BY <1>4 DEF ListFits, new

(* The end of _settleRound, with or without a new round.                     *)
LEMMA FinishSettleFits ==
  ASSUME NEW s, Balanced(s), NEW pending, NEW u \in Accounts, NEW next,
         ListFits(s, pending \cup {u}), u \notin Contracts => ~HasActiveRound(s, u)
  PROVE  ListFits(FinishSettle(s, u, next), pending)
<1>1. Balanced(Delist(s, u)) /\ ListFits(Delist(s, u), pending)
  BY DelistKeepsBooks, DelistFits
<1>2. QED
  BY <1>1, PlaceBetFits DEF FinishSettle

-------------------------------------------------------------------------------
(* The stack.                                                                *)

(* A call that ends at once.                                                 *)
LEMMA PlainStepFits ==
  ASSUME BooksInv, ListInv, stack' = stack, ListFits(store', Settling(stack, Len(stack)))
  PROVE  ListInv'
BY DEF ListInv, FrameListFits

(* A call that hands over control.                                           *)
LEMMA PushFits ==
  ASSUME BooksInv, ListInv, NEW f \in Frames, f.entry = store,
         stack' = Append(stack, f),
         LET waiting == Settling(stack, Len(stack)) \cup
                          (IF f.kind = "settle" THEN {f.callee} ELSE {})
         IN  /\ ListFits(store', waiting)
             /\ f.kind = "settle" => ListFits(f.atCall, waiting)
  PROVE  ListInv'
<1>1. /\ Len(stack') = Len(stack) + 1
      /\ \A i \in 1 .. Len(stack) : stack'[i] = stack[i]
      /\ stack'[Len(stack) + 1] = f
      /\ Len(stack) \in Nat
  BY AppendProperties DEF BooksInv
<1>2. \A n \in 0 .. Len(stack) : Settling(stack', n) = Settling(stack, n)
  BY <1>1 DEF Settling
<1>3. Settling(stack', Len(stack')) =
        Settling(stack, Len(stack)) \cup (IF f.kind = "settle" THEN {f.callee} ELSE {})
  BY <1>1 DEF Settling
<1>4. ASSUME NEW i \in 1 .. Len(stack')
      PROVE  FrameListFits(i)'
  <2>1. CASE i \in 1 .. Len(stack)
    <3>1. i \in 0 .. Len(stack) /\ i - 1 \in 0 .. Len(stack)
      BY <1>1, <2>1
    <3>2. Settling(stack', i) = Settling(stack, i) /\ Settling(stack', i - 1) = Settling(stack, i - 1)
      BY <1>2, <3>1
    <3>3. QED
      BY <1>1, <2>1, <3>2 DEF ListInv, FrameListFits
  <2>2. CASE i = Len(stack) + 1
    <3>1. Settling(stack', i - 1) = Settling(stack, Len(stack))
      BY <1>1, <1>2, <2>2
    <3>2. Settling(stack', i) =
            Settling(stack, Len(stack)) \cup (IF f.kind = "settle" THEN {f.callee} ELSE {})
      BY <1>1, <1>3, <2>2
    <3>3. QED
      BY <1>1, <2>2, <3>1, <3>2 DEF ListInv, FrameListFits
  <2>3. QED
    BY <1>1, <2>1, <2>2
<1>5. QED
  BY <1>3, <1>4 DEF ListInv

(* The innermost call ends.                                                  *)
LEMMA PopFits ==
  ASSUME BooksInv, ListInv, stack # << >>, stack' = Pop,
         ListFits(store', Settling(stack, Len(stack) - 1))
  PROVE  ListInv'
<1>1. Len(stack) \in Nat \ {0}
  BY EmptySeq DEF BooksInv
<1>2. /\ Len(stack') = Len(stack) - 1
      /\ \A i \in 1 .. Len(stack') : stack'[i] = stack[i]
  <2> DEFINE n == Len(stack) - 1
  <2>1. stack \in Seq(Frames) /\ n \in Nat /\ n <= Len(stack)
    BY <1>1 DEF BooksInv
  <2>2. \A i \in 1 .. n : stack[i] \in Frames
    BY <2>1, ElementOfSeq
  <2>3. stack' = SubSeq(stack, 1, n)
    BY DEF Pop
  <2> HIDE DEF n
  <2>4. Len(stack') = n /\ \A i \in 1 .. n : stack'[i] = stack[i]
    BY <2>1, <2>2, <2>3, SubSeqProperties
  <2>5. QED
    BY <2>4 DEF n
<1>3. \A n \in 0 .. Len(stack') : Settling(stack', n) = Settling(stack, n)
  BY <1>1, <1>2 DEF Settling
<1>4. ASSUME NEW i \in 1 .. Len(stack')
      PROVE  FrameListFits(i)'
  <2>1. i \in 0 .. Len(stack') /\ i - 1 \in 0 .. Len(stack') /\ i \in 1 .. Len(stack)
    BY <1>1, <1>2
  <2>2. Settling(stack', i) = Settling(stack, i) /\ Settling(stack', i - 1) = Settling(stack, i - 1)
    BY <1>3, <2>1
  <2>3. QED
    BY <1>2, <2>1, <2>2 DEF ListInv, FrameListFits
<1>5. Len(stack') \in 0 .. Len(stack')
  BY <1>1, <1>2
<1>6. Settling(stack', Len(stack')) = Settling(stack, Len(stack) - 1)
  BY <1>2, <1>3, <1>5
<1>7. QED
  BY <1>4, <1>6 DEF ListInv

-------------------------------------------------------------------------------
(* The steps of the contract.                                                *)

(* _settleRound in each of its three endings.                                *)
LEMMA SettleRoundFits ==
  ASSUME BooksInv, ListInv, NEW u \in Accounts,
         NEW s, Balanced(s), ListFits(s, Settling(stack, Len(stack))),
         HasActiveRound(s, u), NEW price \in Int, NEW next \in Bets,
         SettleRound(s, u, price, next)
  PROVE  ListInv'
<1> DEFINE resolved == ResolveRound(s, u, price)
           payout   == Payout(s.activeRounds[u], price)
           waiting  == Settling(stack, Len(stack))
<1>1. payout \in Nat /\ Short(resolved, u, payout)
  BY ResolveLeavesShort
<1>2. s \in Store /\ resolved \in Store
  BY <1>1 DEF Balanced, Short, OtherBooks
<1>3. ListFits(resolved, waiting \cup {u}) /\ ~HasActiveRound(resolved, u)
  BY <1>2, ResolveFits
<1>4. \/ CallOut("settle", u, payout, store, resolved, next)
      \/ /\ store' = FinishSettle(QueuePayout(resolved, u, payout), u, next)
         /\ stack' = stack
      \/ /\ payout = 0
         /\ store' = FinishSettle(resolved, u, next)
         /\ stack' = stack
  BY DEF SettleRound
<1> HIDE DEF resolved, payout
<1>5. CASE CallOut("settle", u, payout, store, resolved, next)
  <2> DEFINE f == [kind |-> "settle", callee |-> u, amount |-> payout,
                   entry |-> store, atCall |-> resolved, next |-> next]
  <2>1. store' = Send(resolved, "settle", u, payout) /\ stack' = Append(stack, f)
    BY <1>5 DEF CallOut
  <2>2. /\ f \in Frames
        /\ f.kind = "settle" /\ f.callee = u /\ f.entry = store /\ f.atCall = resolved
    BY <1>1, <1>2 DEF Frames, BooksInv, Balanced, OtherBooks
  <2>3. store'.registry = resolved.registry /\ store'.activeRounds = resolved.activeRounds
    BY <1>2, <2>1 DEF Send, Store
  <2>4. ListFits(store', waiting \cup {u})
    BY <1>3, <2>3, OtherChangesFit
  <2> HIDE DEF f
  <2>5. QED
    BY <1>3, <2>1, <2>2, <2>4, PushFits
<1>6. CASE /\ store' = FinishSettle(QueuePayout(resolved, u, payout), u, next)
           /\ stack' = stack
  <2> DEFINE queued == QueuePayout(resolved, u, payout)
  <2>1. Balanced(queued)
    BY <1>1, QueueBalances
  <2>2. queued.registry = resolved.registry /\ queued.activeRounds = resolved.activeRounds
    BY <1>2 DEF QueuePayout, Store
  <2> HIDE DEF queued
  <2>3. ListFits(queued, waiting \cup {u}) /\ ~HasActiveRound(queued, u)
    BY <1>3, <2>2, OtherChangesFit DEF HasActiveRound
  <2>4. ListFits(FinishSettle(queued, u, next), waiting)
    BY <2>1, <2>3, FinishSettleFits
  <2>5. QED
    BY <1>6, <2>4, PlainStepFits DEF queued
<1>7. CASE /\ payout = 0
           /\ store' = FinishSettle(resolved, u, next)
           /\ stack' = stack
  <2>1. Balanced(resolved)
    BY <1>1, <1>7, NothingShort
  <2>2. ListFits(FinishSettle(resolved, u, next), waiting)
    BY <1>3, <2>1, FinishSettleFits
  <2>3. QED
    BY <1>7, <2>2, PlainStepFits
<1>8. QED
  BY <1>4, <1>5, <1>6, <1>7

(* claim, faucet and withdrawFees.                                           *)
LEMMA PlainCallFits ==
  ASSUME BooksInv, ListInv, NEW u \in Accounts,
         NEW kind \in {"claim", "faucet", "fees"}, NEW amount \in Nat, NEW s \in Store,
         s.activeRounds = store.activeRounds, s.registry = store.registry,
         CallOut(kind, u, amount, store, s, NoBet)
  PROVE  ListInv'
<1> DEFINE f == [kind |-> kind, callee |-> u, amount |-> amount,
                 entry |-> store, atCall |-> s, next |-> NoBet]
<1>1. store' = Send(s, kind, u, amount) /\ stack' = Append(stack, f)
  BY DEF CallOut
<1>2. f \in Frames /\ f.entry = store /\ f.kind # "settle"
  BY DEF Frames, Bets, NoBet, BooksInv, Balanced, OtherBooks
<1>3. store'.registry = store.registry /\ store'.activeRounds = store.activeRounds
  BY <1>1 DEF Send, Store
<1>4. ListFits(store', Settling(stack, Len(stack)))
  BY <1>3, OtherChangesFit DEF ListInv
<1> HIDE DEF f
<1>5. QED
  BY <1>1, <1>2, <1>4, PushFits

(* Every step keeps list and rounds in agreement.                            *)
LEMMA NextFits == BooksInv /\ HistoryInv /\ ListInv /\ [Next]_vars => ListInv'
<1> SUFFICES ASSUME BooksInv, HistoryInv, ListInv, [Next]_vars
             PROVE  ListInv'
  OBVIOUS
<1> DEFINE waiting == Settling(stack, Len(stack))
<1>1. /\ Balanced(store)
      /\ store \in Store
      /\ ListFits(store, waiting)
  BY DEF BooksInv, Balanced, OtherBooks, ListInv
<1>2. CASE Tick
  BY <1>1, <1>2, PlainStepFits DEF Tick
<1>3. ASSUME NEW u \in Accounts, NEW amount \in Amounts, NEW sig \in BetSigs,
             Bet(u, amount, sig)
      PROVE  ListInv'
  <2> DEFINE b  == [amount |-> amount, isUp |-> sig.isUp, price |-> sig.price]
             in == Accept(store, amount)
  <2>1. b \in Bets /\ amount \in Nat /\ sig.price \in Int
    BY AmountsAssumption DEF Bets, BetSigs
  <2>2. Balanced(in)
    BY <1>1, <2>1, AcceptKeepsBooks
  <2>3. in.activeRounds = store.activeRounds /\ in.registry = store.registry
    BY <1>1 DEF Accept, Store
  <2>4. \/ HasActiveRound(store, u) /\ SettleRound(in, u, sig.price, b)
        \/ store' = PlaceBet(in, u, b) /\ stack' = stack
    BY <1>3 DEF Bet
  <2> HIDE DEF b, in
  <2>5. ListFits(in, waiting)
    BY <1>1, <2>3, OtherChangesFit
  <2>6. CASE HasActiveRound(store, u) /\ SettleRound(in, u, sig.price, b)
    <3>1. HasActiveRound(in, u)
      BY <2>3, <2>6 DEF HasActiveRound
    <3>2. QED
      BY <2>1, <2>2, <2>5, <2>6, <3>1, SettleRoundFits
  <2>7. CASE store' = PlaceBet(in, u, b) /\ stack' = stack
    BY <2>2, <2>5, <2>7, PlaceBetFits, PlainStepFits
  <2>8. QED
    BY <2>4, <2>6, <2>7
<1>4. ASSUME NEW u \in Accounts, NEW sig \in SettleSigs, SettleMyRound(u, sig)
      PROVE  ListInv'
  <2>1. NoBet \in Bets /\ sig.price \in Int
    <3>1. NoBet \in Bets
      BY DEF NoBet, Bets
    <3>2. sig.price \in Prices
      BY DEF SettleSigs
    <3>3. QED
      BY <3>1, <3>2, AmountsAssumption
  <2>2. HasActiveRound(store, u) /\ SettleRound(store, u, sig.price, NoBet)
    BY <1>4 DEF SettleMyRound
  <2>3. QED
    BY <1>1, <2>1, <2>2, SettleRoundFits
<1>5. ASSUME NEW u \in Accounts, Claim(u)
      PROVE  ListInv'
  <2> DEFINE amount == store.pendingWithdrawals[u]
             booked == BookClaim(store, u)
  <2>1. CallOut("claim", u, amount, store, booked, NoBet)
    BY <1>5 DEF Claim
  <2>2. amount <= store.balance /\ amount \in Nat
    BY <1>1, <2>1, StoreParts DEF CallOut, BookClaim, Store
  <2>3. booked \in Store
    BY <1>1, <2>2, ClaimKeepsBooks
  <2>4. booked.activeRounds = store.activeRounds /\ booked.registry = store.registry
    BY <1>1 DEF BookClaim, Store
  <2> HIDE DEF amount, booked
  <2>5. QED
    BY <2>1, <2>2, <2>3, <2>4, PlainCallFits
<1>6. ASSUME NEW u \in Accounts, Faucet(u)
      PROVE  ListInv'
  <2> DEFINE booked == BookFaucet(store, u)
  <2>1. /\ ~store.hasUsedFaucet[u]
        /\ FAUCET_AMOUNT <= store.balance
        /\ CallOut("faucet", u, FAUCET_AMOUNT, store, booked, NoBet)
    BY <1>1, <1>6, StoreParts, AmountsAssumption DEF Faucet
  <2>2. booked \in Store
    BY <1>1, <2>1, FaucetKeepsBooks
  <2>3. booked.activeRounds = store.activeRounds /\ booked.registry = store.registry
    BY <1>1 DEF BookFaucet, Store
  <2> HIDE DEF booked
  <2>4. QED
    BY <2>1, <2>2, <2>3, AmountsAssumption, PlainCallFits
<1>7. ASSUME NEW u \in Accounts, WithdrawFees(u)
      PROVE  ListInv'
  <2> DEFINE amount == store.treasuryFees
             booked == BookWithdrawal(store)
  <2>1. CallOut("fees", u, amount, store, booked, NoBet)
    BY <1>7 DEF WithdrawFees
  <2>2. amount <= store.balance /\ amount \in Nat
    BY <1>1, <2>1, StoreParts DEF CallOut, BookWithdrawal, Store
  <2>3. booked \in Store
    BY <1>1, <2>2, WithdrawFeesKeepsBooks
  <2>4. booked.activeRounds = store.activeRounds /\ booked.registry = store.registry
    BY <1>1 DEF BookWithdrawal, Store
  <2> HIDE DEF amount, booked
  <2>5. QED
    BY <2>1, <2>2, <2>3, <2>4, PlainCallFits
<1>8. ASSUME NEW u \in Accounts,
             \/ \E amount \in Donations : Receive(u, amount)
             \/ \E a \in Signers : SetAuthorizer(u, a)
             \/ \E o \in NewOwners : TransferOwnership(u, o)
      PROVE  ListInv'
  <2>1. /\ stack' = stack
        /\ store'.activeRounds = store.activeRounds
        /\ store'.registry = store.registry
    BY <1>1, <1>8 DEF Receive, Accept, SetAuthorizer, TransferOwnership, Store
  <2>2. QED
    BY <1>1, <2>1, OtherChangesFit, PlainStepFits
<1>9. ASSUME stack # << >>
      PROVE  /\ Len(stack) \in 1 .. Len(stack)
             /\ Top \in Frames
             /\ FrameHistory(Len(stack))
             /\ FrameListFits(Len(stack))
             /\ Top.kind = "settle"
                  => waiting = Settling(stack, Len(stack) - 1) \cup {Top.callee}
             /\ Top.kind # "settle" => waiting = Settling(stack, Len(stack) - 1)
  <2>1. Len(stack) \in Nat \ {0}
    BY <1>9, EmptySeq DEF BooksInv
  <2>2. Len(stack) \in 1 .. Len(stack) /\ Top \in Frames
    BY <1>9, <2>1, TopIsSound
  <2>3. \A j : j \in 1 .. Len(stack) <=> j \in 1 .. Len(stack) - 1 \/ j = Len(stack)
    BY <2>1
  <2>4. QED
    BY <2>2, <2>3 DEF HistoryInv, ListInv, Settling, Top
<1>10. CASE CallReturns
  <2>1. stack # << >> /\ stack' = Pop
    BY <1>10 DEF CallReturns
  <2>2. CASE Top.kind = "settle"
    <3>1. /\ Top.callee \in Accounts
          /\ Top.callee \notin Contracts => ~HasActiveRound(store, Top.callee)
          /\ store' = FinishSettle(store, Top.callee, Top.next)
      BY <1>9, <1>10, <2>1, <2>2
         DEF Frames, FrameHistory, Top, HasActiveRound, CallReturns
    <3>2. ListFits(store, Settling(stack, Len(stack) - 1) \cup {Top.callee})
      BY <1>1, <1>9, <2>1, <2>2
    <3>3. ListFits(store', Settling(stack, Len(stack) - 1))
      BY <1>1, <3>1, <3>2, FinishSettleFits
    <3>4. QED
      BY <2>1, <3>3, PopFits
  <2>3. CASE Top.kind # "settle"
    <3>1. ListFits(store, Settling(stack, Len(stack) - 1))
      BY <1>1, <1>9, <2>1, <2>3
    <3>2. store' = store
      BY <1>10, <2>3 DEF CallReturns
    <3>3. QED
      BY <2>1, <3>1, <3>2, PopFits
  <2>4. QED
    BY <2>2, <2>3
<1>11. CASE PayoutFails
  <2> DEFINE queued == QueuePayout(Top.atCall, Top.callee, Top.amount)
  <2>1. /\ stack # << >> /\ stack' = Pop /\ Top.kind = "settle"
        /\ store' = FinishSettle(queued, Top.callee, Top.next)
    BY <1>11 DEF PayoutFails
  <2>2. /\ Top.callee \in Accounts /\ Top.amount \in Nat /\ Top.atCall \in Store
        /\ Short(Top.atCall, Top.callee, Top.amount)
    BY <2>1, TopIsSound DEF Frames, FrameInv
  <2>3. Balanced(queued)
    BY <2>2, QueueBalances
  <2>4. /\ queued.activeRounds = Top.atCall.activeRounds
        /\ queued.registry = Top.atCall.registry
    BY <2>2 DEF QueuePayout, Store
  <2> HIDE DEF queued
  <2>5. /\ ListFits(Top.atCall, waiting)
        /\ ~HasActiveRound(Top.atCall, Top.callee)
    BY <1>9, <2>1 DEF FrameHistory, FrameListFits, Top, HasActiveRound
  <2>6. /\ ListFits(queued, Settling(stack, Len(stack) - 1) \cup {Top.callee})
        /\ ~HasActiveRound(queued, Top.callee)
    BY <1>9, <2>1, <2>4, <2>5, OtherChangesFit DEF HasActiveRound
  <2>7. ListFits(store', Settling(stack, Len(stack) - 1))
    BY <2>1, <2>2, <2>3, <2>6, FinishSettleFits
  <2>8. QED
    BY <2>1, <2>7, PopFits
<1>12. CASE FunctionReverts
  <2>1. stack # << >> /\ stack' = Pop /\ store' = Top.entry
    BY <1>12 DEF FunctionReverts
  <2>2. ListFits(store', Settling(stack, Len(stack) - 1))
    BY <1>9, <2>1 DEF FrameListFits, Top
  <2>3. QED
    BY <2>1, <2>2, PopFits
<1>13. CASE UNCHANGED vars
  BY <1>1, <1>13, PlainStepFits DEF vars
<1>14. QED
  BY <1>2, <1>3, <1>4, <1>5, <1>6, <1>7, <1>8, <1>10, <1>11, <1>12, <1>13
     DEF Next, Play, Admin

(* Nobody is listed and nobody plays.                                        *)
LEMMA InitFits == Init => ListInv
<1> SUFFICES ASSUME Init
             PROVE  ListInv
  OBVIOUS
<1>1. Len(stack) = 0
  BY EmptySeq DEF Init
<1>2. ListFits(store, Settling(stack, Len(stack)))
  BY DEF Init, Deployed, EmptyRegistry, NoRound, ListFits, HasActiveRound
<1>3. QED
  BY <1>1, <1>2 DEF ListInv

(* List and rounds agree in every storage execution may arrive at, but for   *)
(* the players whose settlement is under way there.                          *)
THEOREM ListInvHolds == Spec => []ListInv
BY InitFits, NextFits, BooksInvHolds, HistoryInvHolds, PTL DEF Spec

(* Between transactions the list holds no player without an open round, and  *)
(* every account without code that has one.                                  *)
THEOREM ListAlwaysMatchesRounds == Spec => []ListMatchesRounds
<1>1. BooksInv /\ ListInv => ListMatchesRounds
  <2> SUFFICES ASSUME BooksInv, ListInv, stack = << >>
               PROVE  /\ RegistryConsistent(store.registry)
                      /\ \A u \in Accounts :
                           /\ store.registry.isActiveUser[u] => HasActiveRound(store, u)
                           /\ u \notin Contracts /\ HasActiveRound(store, u)
                                => store.registry.isActiveUser[u]
    BY DEF ListMatchesRounds
  <2>1. Settling(stack, Len(stack)) = {}
    BY EmptySeq DEF Settling
  <2>2. QED
    BY <2>1 DEF BooksInv, Balanced, OtherBooks, ListInv, ListFits
<1>2. QED
  BY <1>1, BooksInvHolds, ListInvHolds, PTL

-------------------------------------------------------------------------------
(* The atomic game.                                                          *)
(*                                                                           *)
(* A move of a player without code shows when its transaction is over.       *)
(* Nothing runs in a transfer to such a player, so its frame is alone on the *)
(* stack: what store has by then is known exactly (Underway), and all that   *)
(* can follow is the end of the function or a fall back to its beginning.    *)
(* While contracts are being called the players are in all storages, current *)
(* and kept, as other transactions see them (Alike).                         *)

Players == Accounts \ Contracts

(* The number of a player's round is its nonce, and a round is not won       *)
(* before it is settled.                                                     *)
Regular(s) ==
  \A p \in Players : LET r == s.activeRounds[p]
                     IN  s.userRoundNonce[p] = r.roundId /\ (~r.settled => ~r.won)

AlikeBut(c, s, u) == \A p \in Players \ {u} : PlayerIn(s, p) = PlayerIn(c, p)

Alike(c, s) == \A p \in Players : PlayerIn(s, p) = PlayerIn(c, p)

(* What player p has in s follows by a move on what it has in c.             *)
Moved(c, s, p) ==
  LET q == PlayerIn(c, p)  q2 == PlayerIn(s, p)
  IN  \/ \E price \in Prices, stake \in Amounts, up \in BOOLEAN :
           \/ q.result # "open" /\ q2 = AtomicGame!Begun(q, stake, up, price)
           \/ \E sent \in BOOLEAN :
                /\ AtomicGame!Ripe(q)
                /\ q2 = AtomicGame!Begun(AtomicGame!Decided(q, price, sent), stake, up, price)
      \/ \E price \in Prices, sent \in BOOLEAN :
           AtomicGame!Ripe(q) /\ q2 = AtomicGame!Decided(q, price, sent)
      \/ q.owed > 0 /\ q2 = AtomicGame!Collected(q)

(* The bet a function goes on to place may begin a round at this price.      *)
Continues(next, price) ==
  next # NoBet => next.amount \in Amounts /\ next.price = price

(* Frame f of a player without code, called with storage c, has led to s.    *)
Underway(f, c, s) ==
  LET q == PlayerIn(c, f.callee)  q2 == PlayerIn(s, f.callee)
  IN  CASE f.kind = "settle" -> \E price \in Prices :
                                  /\ AtomicGame!Ripe(q)
                                  /\ q2 = AtomicGame!Decided(q, price, TRUE)
                                  /\ Continues(f.next, price)
        [] f.kind = "claim"  -> q.owed > 0 /\ q2 = AtomicGame!Collected(q)
        [] OTHER             -> q2 = q

FrameInGame(i) ==
  LET f == stack[i]
  IN  /\ Regular(f.entry) /\ Alike(Committed, f.entry)
      /\ f.callee \in Contracts /\ f.kind = "settle"
           => Regular(f.atCall) /\ Alike(Committed, f.atCall)
      /\ f.callee \notin Contracts => /\ Len(stack) = 1
                                      /\ AlikeBut(Committed, store, f.callee)
                                      /\ Underway(f, Committed, store)

GameInv ==
  /\ Regular(store)
  /\ \A i \in 1 .. Len(stack) : FrameInGame(i)
  /\ (\A i \in 1 .. Len(stack) : stack[i].callee \in Contracts) => Alike(Committed, store)

StepInGame ==
  GameInv' /\ [AtomicGame!Next]_<<[p \in Players |-> PlayerIn(Committed, p)], now>>

-------------------------------------------------------------------------------
(* What each piece of a function does to the players.                        *)

(* Between alike storages everything is as between the same.                 *)
LEMMA AlikeComposes ==
  ASSUME NEW c, NEW s, NEW t, NEW u
  PROVE  /\ Alike(c, s) /\ Alike(s, t) => Alike(c, t)
         /\ Alike(c, s) /\ AlikeBut(s, t, u) => AlikeBut(c, t, u)
         /\ AlikeBut(c, s, u) /\ AlikeBut(s, t, u) => AlikeBut(c, t, u)
         /\ u \notin Players /\ AlikeBut(c, s, u) => Alike(c, s)
         /\ Alike(c, s) => AlikeBut(c, s, u)
BY DEF Alike, AlikeBut

(* What touches no round, no queued payout and nothing paid for rounds.      *)
LEMMA OtherChangesAreNoMove ==
  ASSUME NEW s, Regular(s), NEW t,
         t.activeRounds = s.activeRounds,
         t.userRoundNonce = s.userRoundNonce,
         t.pendingWithdrawals = s.pendingWithdrawals,
         t.ledger.paid = s.ledger.paid
  PROVE  Regular(t) /\ Alike(s, t)
BY DEF Regular, Alike, PlayerIn

(* The prize by the rules is the payout of _settleRound.                     *)
LEMMA PrizeIsPayout ==
  ASSUME NEW r \in UserRound, NEW price \in Int, NEW q,
         q.from = r.startPrice, q.up = r.isUp, q.stake = r.amount
  PROVE  /\ AtomicGame!Prize(q, price) = Payout(r, price)
         /\ AtomicGame!Result(q, price) = IF IsDraw(r, price) THEN "draw"
                                          ELSE IF IsWon(r, price) THEN "won" ELSE "lost"
<1>1. r.startPrice \in Int /\ r.isUp \in BOOLEAN /\ r.amount \in Nat
  BY DEF UserRound
<1>2. AtomicGame!Result(q, price) = IF IsDraw(r, price) THEN "draw"
                                    ELSE IF IsWon(r, price) THEN "won" ELSE "lost"
  BY <1>1 DEF AtomicGame!Result, IsDraw, IsWon
<1>3. 2 * q.stake - (15 * q.stake) \div 1000 = CalculateWinPayout(r.amount)
  <2>1. Fee(r.amount) = (15 * r.amount) \div 1000 /\ Fee(r.amount) \in Int
    BY <1>1, FeeWithinStake DEF Fee, FEE_PERCENTAGE
  <2>2. QED
    BY <1>1, <2>1 DEF CalculateWinPayout
<1>4. AtomicGame!Prize(q, price) = Payout(r, price)
  <2>1. CASE IsDraw(r, price)
    BY <1>2, <2>1 DEF AtomicGame!Prize, Payout, IsWon
  <2>2. CASE ~IsDraw(r, price) /\ IsWon(r, price)
    BY <1>2, <1>3, <2>2 DEF AtomicGame!Prize, Payout
  <2>3. CASE ~IsDraw(r, price) /\ ~IsWon(r, price)
    BY <1>2, <2>3 DEF AtomicGame!Prize, Payout
  <2>4. QED
    BY <2>1, <2>2, <2>3
<1>5. QED
  BY <1>2, <1>4

(* An open round that is settled: the result shows, the prize is still due.  *)
LEMMA ResolveDecides ==
  ASSUME NEW s \in Store, Regular(s), NEW u \in Accounts, NEW price \in Int,
         HasActiveRound(s, u)
  PROVE  LET new == ResolveRound(s, u, price)
             q   == PlayerIn(s, u)
         IN  /\ Regular(new)
             /\ AlikeBut(s, new, u)
             /\ u \in Players =>
                  /\ PlayerIn(new, u) = [q EXCEPT !.result = AtomicGame!Result(q, price)]
                  /\ AtomicGame!Prize(q, price) = Payout(s.activeRounds[u], price)
<1> DEFINE new == ResolveRound(s, u, price)
           q   == PlayerIn(s, u)
           r   == s.activeRounds[u]
           r2  == Settled(r, price)
<1>1. s.activeRounds \in [Accounts -> UserRound] /\ r \in UserRound
  BY StoreParts
<1>2. /\ new.activeRounds = [s.activeRounds EXCEPT ![u] = r2]
      /\ new.userRoundNonce = s.userRoundNonce
      /\ new.pendingWithdrawals = s.pendingWithdrawals
      /\ new.ledger.paid = s.ledger.paid
  <2>1. Resolves(s, new, u, r, price)
    BY ResolveRoundResolves
  <2>2. new.userRoundNonce = s.userRoundNonce
    BY DEF ResolveRound, Store
  <2> HIDE DEF new
  <2>3. QED
    BY <2>1, <2>2 DEF Resolves
<1>3. /\ r2.roundId = r.roundId /\ r2.startTime = r.startTime /\ r2.startPrice = r.startPrice
      /\ r2.amount = r.amount /\ r2.isUp = r.isUp
      /\ r2.endPrice = price /\ r2.settled /\ r2.won = (r.won \/ IsWon(r, price))
  BY <1>1 DEF Settled, UserRound
<1> HIDE DEF new, r2
<1>4. /\ new.activeRounds[u] = r2
      /\ \A v \in Accounts \ {u} : new.activeRounds[v] = s.activeRounds[v]
  BY <1>1, <1>2
<1>5. Regular(new)
  <2>1. ASSUME NEW p \in Players
        PROVE  /\ new.userRoundNonce[p] = new.activeRounds[p].roundId
               /\ ~new.activeRounds[p].settled => ~new.activeRounds[p].won
    <3>1. CASE p = u
      BY <1>2, <1>3, <1>4, <2>1, <3>1 DEF Regular
    <3>2. CASE p # u
      BY <1>2, <1>4, <2>1, <3>2 DEF Regular, Players
    <3>3. QED
      BY <3>1, <3>2
  <2>2. QED
    BY <2>1 DEF Regular
<1>6. AlikeBut(s, new, u)
  BY <1>2, <1>4 DEF AlikeBut, PlayerIn, Players
<1>7. ASSUME u \in Players
      PROVE  /\ PlayerIn(new, u) = [q EXCEPT !.result = AtomicGame!Result(q, price)]
             /\ AtomicGame!Prize(q, price) = Payout(r, price)
  <2>1. q.from = r.startPrice /\ q.up = r.isUp /\ q.stake = r.amount
    BY DEF PlayerIn
  <2>2. ~r.won /\ r.roundId # 0
    BY <1>7 DEF Regular, HasActiveRound
  <2>3. r2.won = IsWon(r, price) /\ IsDraw(r, price) = (price = r.startPrice)
    BY <1>3, <2>2 DEF IsDraw, IsWon
  <2>4. Result(r2) = AtomicGame!Result(q, price)
    <3> HIDE DEF q
    <3>1. AtomicGame!Result(q, price) = IF IsDraw(r, price) THEN "draw"
                                        ELSE IF IsWon(r, price) THEN "won" ELSE "lost"
      BY <1>1, <2>1, PrizeIsPayout
    <3>2. QED
      BY <1>3, <2>2, <2>3, <3>1 DEF Result
  <2>5. AtomicGame!Prize(q, price) = Payout(r, price)
    <3> HIDE DEF q
    <3>1. QED
      BY <1>1, <2>1, PrizeIsPayout
  <2>6. PlayerIn(new, u) = [q EXCEPT !.result = Result(r2)]
    BY <1>2, <1>3, <1>4 DEF PlayerIn
  <2>7. QED
    BY <2>4, <2>5, <2>6
<1>8. QED
  BY <1>5, <1>6, <1>7 DEF new

(* Queueing a payout, and sending one, credit it to its player.              *)
LEMMA QueueCredits ==
  ASSUME NEW s \in Store, Regular(s), NEW u \in Accounts, NEW amount \in Nat
  PROVE  LET new == QueuePayout(s, u, amount)
         IN  /\ Regular(new)
             /\ AlikeBut(s, new, u)
             /\ PlayerIn(new, u) = [PlayerIn(s, u) EXCEPT !.owed = @ + amount]
<1> DEFINE new == QueuePayout(s, u, amount)
<1>1. /\ new.activeRounds = s.activeRounds
      /\ new.userRoundNonce = s.userRoundNonce
      /\ new.pendingWithdrawals = [s.pendingWithdrawals EXCEPT ![u] = @ + amount]
      /\ new.ledger = s.ledger
      /\ s.pendingWithdrawals \in [Accounts -> Nat]
  BY StoreParts DEF QueuePayout, Store
<1> HIDE DEF new
<1>2. Regular(new)
  BY <1>1 DEF Regular
<1>3. AlikeBut(s, new, u) /\ PlayerIn(new, u) = [PlayerIn(s, u) EXCEPT !.owed = @ + amount]
  BY <1>1 DEF AlikeBut, PlayerIn, Players
<1>4. QED
  BY <1>2, <1>3 DEF new

LEMMA SendCredits ==
  ASSUME NEW s \in Store, Regular(s), NEW u \in Accounts, NEW amount \in Nat,
         amount <= s.balance, NEW kind \in {"settle", "claim", "faucet", "fees"}
  PROVE  LET new == Send(s, kind, u, amount)
         IN  /\ Regular(new)
             /\ AlikeBut(s, new, u)
             /\ PlayerIn(new, u) = IF kind \in {"settle", "claim"}
                                   THEN [PlayerIn(s, u) EXCEPT !.received = @ + amount]
                                   ELSE PlayerIn(s, u)
<1> DEFINE new == Send(s, kind, u, amount)
<1>1. Sends(s, new, kind, u, amount)
  BY SendSends
<1>2. new.userRoundNonce = s.userRoundNonce
  BY DEF Send, Store
<1>3. s.ledger.paid \in [Accounts -> Nat]
  BY StoreParts
<1> HIDE DEF new
<1>4. Regular(new)
  BY <1>1, <1>2 DEF Regular, Sends
<1>5. new.ledger.paid = IF kind \in {"settle", "claim"}
                        THEN [s.ledger.paid EXCEPT ![u] = @ + amount] ELSE s.ledger.paid
  BY <1>1 DEF Sends
<1>6. /\ new.ledger.paid[u] = IF kind \in {"settle", "claim"}
                              THEN s.ledger.paid[u] + amount ELSE s.ledger.paid[u]
      /\ \A v \in Accounts \ {u} : new.ledger.paid[v] = s.ledger.paid[v]
  BY <1>3, <1>5
<1>7. AlikeBut(s, new, u)
  BY <1>1, <1>6 DEF Sends, AlikeBut, PlayerIn, Players
<1>8. PlayerIn(new, u) = IF kind \in {"settle", "claim"}
                         THEN [PlayerIn(s, u) EXCEPT !.received = @ + amount]
                         ELSE PlayerIn(s, u)
  BY <1>1, <1>6 DEF Sends, PlayerIn
<1>9. QED
  BY <1>4, <1>7, <1>8 DEF new

(* A bet begins a round of its account.                                      *)
LEMMA PlaceBetBegins ==
  ASSUME NEW s \in Store, Regular(s), NEW u \in Accounts, NEW b \in Bets
  PROVE  LET new == PlaceBet(s, u, b)
         IN  /\ Regular(new)
             /\ AlikeBut(s, new, u)
             /\ u \in Players =>
                  PlayerIn(new, u)
                    = AtomicGame!Begun(PlayerIn(s, u), b.amount, b.isUp, b.price)
<1> DEFINE new == PlaceBet(s, u, b)
           id  == s.userRoundNonce[u] + 1
           r2  == [roundId |-> id, startTime |-> now, startPrice |-> b.price,
                   endPrice |-> 0, amount |-> b.amount, isUp |-> b.isUp,
                   settled |-> FALSE, won |-> FALSE]
<1>1. /\ new.activeRounds = [s.activeRounds EXCEPT ![u] = r2]
      /\ new.userRoundNonce = [s.userRoundNonce EXCEPT ![u] = id]
      /\ new.pendingWithdrawals = s.pendingWithdrawals
      /\ new.ledger.paid = s.ledger.paid
  BY StoreParts DEF PlaceBet, Stake, Store, Ledger
<1>2. /\ s.activeRounds \in [Accounts -> UserRound]
      /\ s.userRoundNonce \in [Accounts -> Nat]
  BY StoreParts
<1> HIDE DEF new
<1>3. /\ new.activeRounds[u] = r2 /\ new.userRoundNonce[u] = id
      /\ \A v \in Accounts \ {u} : /\ new.activeRounds[v] = s.activeRounds[v]
                                   /\ new.userRoundNonce[v] = s.userRoundNonce[v]
  BY <1>1, <1>2
<1>4. Regular(new)
  <2>1. ASSUME NEW p \in Players
        PROVE  /\ new.userRoundNonce[p] = new.activeRounds[p].roundId
               /\ ~new.activeRounds[p].settled => ~new.activeRounds[p].won
    <3>1. CASE p = u
      BY <1>3, <3>1
    <3>2. CASE p # u
      BY <1>3, <2>1, <3>2 DEF Regular, Players
    <3>3. QED
      BY <3>1, <3>2
  <2>2. QED
    BY <2>1 DEF Regular
<1>5. AlikeBut(s, new, u)
  BY <1>1, <1>3 DEF AlikeBut, PlayerIn, Players
<1>6. ASSUME u \in Players
      PROVE  PlayerIn(new, u) = AtomicGame!Begun(PlayerIn(s, u), b.amount, b.isUp, b.price)
  <2>1. s.activeRounds[u].roundId = s.userRoundNonce[u] /\ s.userRoundNonce[u] \in Nat
    BY <1>2, <1>6 DEF Regular
  <2>2. id # 0
    BY <2>1
  <2>3. Result(r2) = "open"
    BY <2>2 DEF Result
  <2>4. PlayerIn(new, u) = [round |-> id, since |-> now, from |-> b.price,
                            stake |-> b.amount, up |-> b.isUp, result |-> "open",
                            owed |-> s.pendingWithdrawals[u], received |-> s.ledger.paid[u]]
    BY <1>1, <1>3, <2>3 DEF PlayerIn
  <2>5. PlayerIn(s, u).round + 1 = id
    BY <2>1 DEF PlayerIn
  <2>6. AtomicGame!Begun(PlayerIn(s, u), b.amount, b.isUp, b.price)
          = [round |-> PlayerIn(s, u).round + 1, since |-> now, from |-> b.price,
             stake |-> b.amount, up |-> b.isUp, result |-> "open",
             owed |-> s.pendingWithdrawals[u], received |-> s.ledger.paid[u]]
    BY DEF AtomicGame!Begun, PlayerIn
  <2>7. QED
    BY <2>4, <2>5, <2>6
<1>7. QED
  BY <1>4, <1>5, <1>6 DEF new

(* The end of _settleRound, with or without a new round.                     *)
LEMMA FinishSettleBegins ==
  ASSUME NEW s, Balanced(s), Regular(s), NEW u \in Accounts, NEW next \in Bets
  PROVE  LET new == FinishSettle(s, u, next)
         IN  /\ Regular(new)
             /\ AlikeBut(s, new, u)
             /\ u \in Players =>
                  PlayerIn(new, u)
                    = IF next = NoBet THEN PlayerIn(s, u)
                      ELSE AtomicGame!Begun(PlayerIn(s, u), next.amount, next.isUp, next.price)
<1> DEFINE new == Delist(s, u)
<1>1. s \in Store /\ new \in Store
  BY DelistKeepsBooks DEF Balanced, OtherBooks
<1>2. /\ new.activeRounds = s.activeRounds
      /\ new.userRoundNonce = s.userRoundNonce
      /\ new.pendingWithdrawals = s.pendingWithdrawals
      /\ new.ledger = s.ledger
  BY <1>1 DEF Delist, Store
<1> HIDE DEF new
<1>3. Regular(new) /\ Alike(s, new)
  BY <1>2, OtherChangesAreNoMove
<1>4. u \in Players => PlayerIn(new, u) = PlayerIn(s, u)
  BY <1>3 DEF Alike
<1>5. CASE next = NoBet
  BY <1>3, <1>4, <1>5, AlikeComposes DEF FinishSettle, new
<1>6. CASE next # NoBet
  <2>1. FinishSettle(s, u, next) = PlaceBet(new, u, next)
    BY <1>6 DEF FinishSettle, new
  <2>2. /\ Regular(PlaceBet(new, u, next))
        /\ AlikeBut(new, PlaceBet(new, u, next), u)
        /\ u \in Players =>
             PlayerIn(PlaceBet(new, u, next), u)
               = AtomicGame!Begun(PlayerIn(new, u), next.amount, next.isUp, next.price)
    BY <1>1, <1>3, PlaceBetBegins
  <2>3. AlikeBut(s, PlaceBet(new, u, next), u)
    BY <1>3, <2>2, AlikeComposes
  <2>4. QED
    BY <1>4, <1>6, <2>1, <2>2, <2>3
<1>7. QED
  BY <1>5, <1>6

-------------------------------------------------------------------------------
(* The stack.                                                                *)

(* One player's move, seen by everybody.                                     *)
LEMMA MoveIsStep ==
  ASSUME NEW p \in Players, AlikeBut(Committed, Committed', p), Moved(Committed, Committed', p),
         now' = now
  PROVE  AtomicGame!Next
<1> DEFINE q      == PlayerIn(Committed, p)
           q2     == PlayerIn(Committed', p)
           before == [v \in Players |-> PlayerIn(Committed, v)]
           after  == [v \in Players |-> PlayerIn(Committed', v)]
<1>1. before[p] = q /\ after = [before EXCEPT ![p] = q2]
  BY DEF AlikeBut
<1>2. CASE \E price \in Prices, stake \in Amounts, up \in BOOLEAN :
             q.result # "open" /\ q2 = AtomicGame!Begun(q, stake, up, price)
  <2>1. PICK price \in Prices, stake \in Amounts, up \in BOOLEAN :
          q.result # "open" /\ q2 = AtomicGame!Begun(q, stake, up, price)
    BY <1>2
  <2>2. AtomicGame!Begin(p, stake, up, price)
    BY <1>1, <2>1 DEF AtomicGame!Begin, Players
  <2>3. QED
    BY <2>2 DEF AtomicGame!Next, AtomicGame!Move, Players
<1>3. CASE \E price \in Prices, stake \in Amounts, up \in BOOLEAN, sent \in BOOLEAN :
             /\ AtomicGame!Ripe(q)
             /\ q2 = AtomicGame!Begun(AtomicGame!Decided(q, price, sent), stake, up, price)
  <2>1. PICK price \in Prices, stake \in Amounts, up \in BOOLEAN, sent \in BOOLEAN :
          /\ AtomicGame!Ripe(q)
          /\ q2 = AtomicGame!Begun(AtomicGame!Decided(q, price, sent), stake, up, price)
    BY <1>3
  <2>2. AtomicGame!DecideAndBegin(p, price, sent, stake, up)
    BY <1>1, <2>1 DEF AtomicGame!DecideAndBegin, Players
  <2>3. QED
    BY <2>2 DEF AtomicGame!Next, AtomicGame!Move, Players
<1>4. CASE \E price \in Prices, sent \in BOOLEAN :
             AtomicGame!Ripe(q) /\ q2 = AtomicGame!Decided(q, price, sent)
  <2>1. PICK price \in Prices, sent \in BOOLEAN :
          AtomicGame!Ripe(q) /\ q2 = AtomicGame!Decided(q, price, sent)
    BY <1>4
  <2>2. AtomicGame!Decide(p, price, sent)
    BY <1>1, <2>1 DEF AtomicGame!Decide, Players
  <2>3. QED
    BY <2>2 DEF AtomicGame!Next, AtomicGame!Move, Players
<1>5. CASE q.owed > 0 /\ q2 = AtomicGame!Collected(q)
  <2>1. AtomicGame!Collect(p)
    BY <1>1, <1>5 DEF AtomicGame!Collect, Players
  <2>2. QED
    BY <2>1 DEF AtomicGame!Next, AtomicGame!Move, Players
<1>6. QED
  BY <1>2, <1>3, <1>4, <1>5 DEF Moved

(* What nobody sees of the game is no step of it.                            *)
LEMMA AlikeIsStutter ==
  ASSUME Alike(Committed, Committed'), now' = now
  PROVE  UNCHANGED <<[p \in Players |-> PlayerIn(Committed, p)], now>>
BY DEF Alike

(* Whoever calls meets frames of contracts only, and players as others see   *)
(* them; a player without code finds no frame at all.                        *)
LEMMA CallersMeetContracts ==
  ASSUME BooksInv, GameInv, NEW u, MayCall(u)
  PROVE  /\ \A i \in 1 .. Len(stack) : stack[i].callee \in Contracts
         /\ Alike(Committed, store)
         /\ u \notin Contracts => stack = << >> /\ Len(stack) = 0
<1>1. CASE stack = << >>
  <2>1. Len(stack) = 0
    BY <1>1, EmptySeq
  <2>2. QED
    BY <1>1, <2>1 DEF GameInv
<1>2. CASE stack # << >>
  <2>1. Top.callee \in Contracts /\ u \in Contracts /\ Len(stack) \in Nat
    BY <1>2, EmptySeq DEF MayCall, BooksInv
  <2>2. ASSUME NEW i \in 1 .. Len(stack)
        PROVE  stack[i].callee \in Contracts
    <3>1. stack[i].callee \notin Contracts => Len(stack) = 1
      BY DEF GameInv, FrameInGame
    <3>2. QED
      BY <2>1, <3>1 DEF Top
  <2>3. QED
    BY <2>1, <2>2 DEF GameInv
<1>3. QED
  BY <1>1, <1>2

(* A call that ends at once: a move of its caller or nothing.                *)
LEMMA PlainStepInGame ==
  ASSUME BooksInv, GameInv, NEW u, MayCall(u), stack' = stack, now' = now,
         Regular(store'),
         \/ Alike(store, store')
         \/ u \in Players /\ AlikeBut(store, store', u) /\ Moved(store, store', u)
  PROVE  StepInGame
<1>1. /\ \A i \in 1 .. Len(stack) : stack[i].callee \in Contracts
      /\ Alike(Committed, store)
      /\ u \in Players => stack = << >>
  BY CallersMeetContracts DEF Players
<1>2. CASE stack = << >>
  <2>1. Committed = store /\ Committed' = store' /\ Len(stack) = 0
    BY <1>2, EmptySeq DEF Committed
  <2>2. Alike(store', store')
    BY DEF Alike
  <2>3. GameInv'
    BY <2>1, <2>2 DEF GameInv
  <2>4. CASE Alike(store, store')
    BY <2>1, <2>3, <2>4, AlikeIsStutter DEF StepInGame
  <2>5. CASE u \in Players /\ AlikeBut(store, store', u) /\ Moved(store, store', u)
    BY <2>1, <2>3, <2>5, MoveIsStep DEF StepInGame
  <2>6. QED
    BY <2>4, <2>5
<1>3. CASE stack # << >>
  <2>1. Committed' = Committed
    BY <1>3 DEF Committed
  <2>2. Alike(Committed, store')
    BY <1>1, <1>3, AlikeComposes
  <2>3. ASSUME NEW i \in 1 .. Len(stack)
        PROVE  FrameInGame(i)'
    BY <1>1, <2>1 DEF GameInv, FrameInGame
  <2>4. GameInv'
    BY <2>1, <2>2, <2>3 DEF GameInv
  <2>5. Alike(Committed, Committed')
    BY <2>1 DEF Alike
  <2>6. QED
    BY <2>4, <2>5, AlikeIsStutter DEF StepInGame
<1>4. QED
  BY <1>2, <1>3

(* A call that hands over control shows nothing yet.                         *)
LEMMA PushInGame ==
  ASSUME BooksInv, GameInv, NEW u \in Accounts, MayCall(u),
         NEW f \in Frames, f.entry = store, f.callee = u,
         stack' = Append(stack, f), now' = now, Regular(store'),
         u \in Contracts => /\ Alike(store, store')
                            /\ f.kind = "settle" => Regular(f.atCall) /\ Alike(store, f.atCall),
         u \notin Contracts => AlikeBut(store, store', u) /\ Underway(f, store, store')
  PROVE  StepInGame
<1>1. /\ stack \in Seq(Frames)
      /\ Len(stack') = Len(stack) + 1
      /\ \A i \in 1 .. Len(stack) : stack'[i] = stack[i]
      /\ stack'[Len(stack) + 1] = f
      /\ Len(stack) \in Nat
  BY AppendProperties DEF BooksInv
<1>2. stack' # << >>
  BY <1>1, EmptySeq
<1>3. Committed' = Committed
  <2>1. CASE stack = << >>
    BY <1>1, <1>2, <2>1, EmptySeq DEF Committed
  <2>2. CASE stack # << >>
    <3>1. 1 \in 1 .. Len(stack)
      BY <1>1, <2>2, EmptySeq
    <3>2. QED
      BY <1>1, <1>2, <2>2, <3>1 DEF Committed
  <2>3. QED
    BY <2>1, <2>2
<1>4. /\ \A i \in 1 .. Len(stack) : stack[i].callee \in Contracts
      /\ Alike(Committed, store)
      /\ u \notin Contracts => stack = << >> /\ Len(stack) = 0
  BY CallersMeetContracts
<1>5. ASSUME NEW i \in 1 .. Len(stack)
      PROVE  FrameInGame(i)'
  <2>1. stack'[i] = stack[i] /\ stack[i].callee \in Contracts
    BY <1>1, <1>4
  <2>2. QED
    BY <1>3, <2>1 DEF GameInv, FrameInGame
<1>6. ASSUME NEW i \in 1 .. Len(stack'), i = Len(stack) + 1
      PROVE  FrameInGame(i)'
  <2>1. stack'[i] = f
    BY <1>1, <1>6
  <2>2. Regular(f.entry) /\ Alike(Committed', f.entry)
    BY <1>3, <1>4 DEF GameInv
  <2>3. f.callee \in Contracts /\ f.kind = "settle"
          => Regular(f.atCall) /\ Alike(Committed', f.atCall)
    BY <1>3, <1>4, AlikeComposes
  <2>4. ASSUME f.callee \notin Contracts
        PROVE  Len(stack') = 1 /\ AlikeBut(Committed', store', f.callee)
    <3>1. Len(stack') = 1 /\ Committed = store
      BY <1>1, <1>4, <2>4 DEF Committed
    <3>2. QED
      BY <1>3, <2>4, <3>1
  <2>5. ASSUME f.callee \notin Contracts
        PROVE  Underway(f, Committed, store)'
    <3>1. Committed' = store
      BY <1>3, <1>4, <2>5 DEF Committed
    <3>2. Underway(f, store, store')
      BY <2>5
    <3>3. QED
      BY <3>1, <3>2 DEF Underway, AtomicGame!Ripe
  <2>6. QED
    BY <2>1, <2>2, <2>3, <2>4, <2>5 DEF FrameInGame
<1>7. (\A i \in 1 .. Len(stack') : stack'[i].callee \in Contracts) => Alike(Committed', store')
  <2>1. SUFFICES ASSUME \A i \in 1 .. Len(stack') : stack'[i].callee \in Contracts
                 PROVE  Alike(Committed', store')
    OBVIOUS
  <2>2. u \in Contracts
    BY <1>1, <2>1
  <2>3. QED
    BY <1>3, <1>4, <2>2, AlikeComposes
<1>8. \A i \in 1 .. Len(stack') : FrameInGame(i)'
  BY <1>1, <1>5, <1>6
<1>9. GameInv'
  BY <1>7, <1>8 DEF GameInv
<1>10. Alike(Committed, Committed')
  BY <1>3 DEF Alike
<1>11. QED
  BY <1>9, <1>10, AlikeIsStutter DEF StepInGame

(* The innermost call ends.  If it is the last one, the move shows.          *)
LEMMA PopInGame ==
  ASSUME BooksInv, GameInv, stack # << >>, stack' = Pop, now' = now, Regular(store'),
         \/ Alike(Committed, store')
         \/ /\ Top.callee \in Players
            /\ AlikeBut(Committed, store', Top.callee)
            /\ Moved(Committed, store', Top.callee)
  PROVE  StepInGame
<1>1. /\ Len(stack) \in Nat \ {0}
      /\ stack' \in Seq(Frames)
      /\ Len(stack') = Len(stack) - 1
      /\ \A i \in 1 .. Len(stack') : stack'[i] = stack[i]
  BY PopDropsTop
<1>2. CASE stack' = << >>
  <2>1. Committed' = store' /\ Len(stack') = 0
    BY <1>2, EmptySeq DEF Committed
  <2>2. Alike(store', store')
    BY DEF Alike
  <2>3. GameInv'
    BY <2>1, <2>2 DEF GameInv
  <2>4. CASE Alike(Committed, store')
    BY <2>1, <2>3, <2>4, AlikeIsStutter DEF StepInGame
  <2>5. CASE /\ Top.callee \in Players
             /\ AlikeBut(Committed, store', Top.callee)
             /\ Moved(Committed, store', Top.callee)
    BY <2>1, <2>3, <2>5, MoveIsStep DEF StepInGame
  <2>6. QED
    BY <2>4, <2>5
<1>3. CASE stack' # << >>
  <2>1. 1 \in 1 .. Len(stack') /\ Len(stack) # 1
    BY <1>1, <1>3, EmptySeq
  <2>2. Committed' = Committed
    BY <1>1, <1>3, <2>1 DEF Committed
  <2>3. \A i \in 1 .. Len(stack) : stack[i].callee \in Contracts
    BY <2>1 DEF GameInv, FrameInGame
  <2>4. Alike(Committed, store')
    BY <1>1, <2>3 DEF Players, Top
  <2>5. ASSUME NEW i \in 1 .. Len(stack')
        PROVE  FrameInGame(i)'
    <3>1. i \in 1 .. Len(stack) /\ stack'[i] = stack[i]
      BY <1>1
    <3>2. QED
      BY <2>2, <2>3, <3>1 DEF GameInv, FrameInGame
  <2>6. GameInv'
    BY <2>2, <2>4, <2>5 DEF GameInv
  <2>7. Alike(Committed, Committed')
    BY <2>2 DEF Alike
  <2>8. QED
    BY <2>6, <2>7, AlikeIsStutter DEF StepInGame
<1>4. QED
  BY <1>2, <1>3

-------------------------------------------------------------------------------
(* The steps of the contract, as moves.                                      *)

(* An open round that is matured is ripe.                                    *)
LEMMA MaturedIsRipe ==
  ASSUME NEW s, NEW u \in Players, HasActiveRound(s, u), Matured(s.activeRounds[u])
  PROVE  AtomicGame!Ripe(PlayerIn(s, u))
BY DEF AtomicGame!Ripe, PlayerIn, Result, HasActiveRound, Matured

(* Settling and sending, or queueing, or having nothing to pay: decided.     *)
LEMMA SettlementDecides ==
  ASSUME NEW s, Balanced(s), Regular(s), NEW u \in Players, HasActiveRound(s, u),
         NEW price \in Int
  PROVE  LET resolved == ResolveRound(s, u, price)
             payout   == Payout(s.activeRounds[u], price)
             q        == PlayerIn(s, u)
         IN  /\ payout <= resolved.balance
                  => PlayerIn(Send(resolved, "settle", u, payout), u)
                       = AtomicGame!Decided(q, price, TRUE)
             /\ PlayerIn(QueuePayout(resolved, u, payout), u)
                  = AtomicGame!Decided(q, price, FALSE)
             /\ payout = 0 => PlayerIn(resolved, u) = AtomicGame!Decided(q, price, TRUE)
<1> DEFINE resolved == ResolveRound(s, u, price)
           payout   == Payout(s.activeRounds[u], price)
           q        == PlayerIn(s, u)
           ended    == [q EXCEPT !.result = AtomicGame!Result(q, price)]
<1>1. /\ u \in Accounts /\ s \in Store
      /\ payout \in Nat /\ Short(resolved, u, payout) /\ resolved \in Store
  BY ResolveLeavesShort DEF Players, Balanced, Short, OtherBooks
<1>2. /\ Regular(resolved)
      /\ PlayerIn(resolved, u) = ended
      /\ AtomicGame!Prize(q, price) = payout
  BY <1>1, ResolveDecides
<1>3. resolved.ledger.paid[u] \in Nat
  BY <1>1, StoreParts
<1> HIDE DEF resolved, payout
<1>4. ASSUME payout <= resolved.balance
      PROVE  PlayerIn(Send(resolved, "settle", u, payout), u)
               = AtomicGame!Decided(q, price, TRUE)
  <2>1. AtomicGame!Decided(q, price, TRUE) = [ended EXCEPT !.received = @ + payout]
    BY <1>2 DEF AtomicGame!Decided
  <2> HIDE DEF ended
  <2>2. PlayerIn(Send(resolved, "settle", u, payout), u)
          = [PlayerIn(resolved, u) EXCEPT !.received = @ + payout]
    BY <1>1, <1>2, <1>4, SendCredits
  <2>3. QED
    BY <1>2, <2>1, <2>2
<1>5. PlayerIn(QueuePayout(resolved, u, payout), u) = AtomicGame!Decided(q, price, FALSE)
  <2>1. AtomicGame!Decided(q, price, FALSE) = [ended EXCEPT !.owed = @ + payout]
    BY <1>2 DEF AtomicGame!Decided
  <2> HIDE DEF ended
  <2>2. PlayerIn(QueuePayout(resolved, u, payout), u)
          = [PlayerIn(resolved, u) EXCEPT !.owed = @ + payout]
    BY <1>1, <1>2, QueueCredits
  <2>3. QED
    BY <1>2, <2>1, <2>2
<1>6. ASSUME payout = 0
      PROVE  PlayerIn(resolved, u) = AtomicGame!Decided(q, price, TRUE)
  <2>1. AtomicGame!Decided(q, price, TRUE) = [ended EXCEPT !.received = @ + 0]
    BY <1>2, <1>6 DEF AtomicGame!Decided
  <2>2. [ended EXCEPT !.received = @ + 0] = [PlayerIn(resolved, u) EXCEPT !.received = @ + 0]
    BY <1>2
  <2>3. [PlayerIn(resolved, u) EXCEPT !.received = @ + 0] = PlayerIn(resolved, u)
    BY <1>3 DEF PlayerIn
  <2>4. QED
    BY <2>1, <2>2, <2>3
<1>7. QED
  BY <1>4, <1>5, <1>6 DEF resolved, payout

(* A decided round, and the bet that waited for it: one move.                *)
LEMMA FinishIsMove ==
  ASSUME NEW c, NEW t, Balanced(t), Regular(t), NEW u \in Players, NEW next \in Bets,
         NEW price \in Prices, NEW sent \in BOOLEAN,
         AtomicGame!Ripe(PlayerIn(c, u)),
         PlayerIn(t, u) = AtomicGame!Decided(PlayerIn(c, u), price, sent),
         Continues(next, price)
  PROVE  Moved(c, FinishSettle(t, u, next), u)
<1> DEFINE q == PlayerIn(c, u)  q2 == PlayerIn(FinishSettle(t, u, next), u)
<1>1. q2 = IF next = NoBet THEN AtomicGame!Decided(q, price, sent)
           ELSE AtomicGame!Begun(AtomicGame!Decided(q, price, sent),
                                 next.amount, next.isUp, next.price)
  BY FinishSettleBegins DEF Players
<1> HIDE DEF q2
<1>2. CASE next = NoBet
  <2>1. AtomicGame!Ripe(q) /\ q2 = AtomicGame!Decided(q, price, sent)
    BY <1>1, <1>2
  <2>2. QED
    BY <2>1 DEF Moved, q2
<1>3. CASE next # NoBet
  <2>1. next.amount \in Amounts /\ next.price = price /\ next.isUp \in BOOLEAN
    BY <1>3 DEF Continues, Bets
  <2>2. /\ AtomicGame!Ripe(q)
        /\ q2 = AtomicGame!Begun(AtomicGame!Decided(q, price, sent),
                                 next.amount, next.isUp, price)
    BY <1>1, <1>3, <2>1
  <2>3. QED
    BY <2>1, <2>2 DEF Moved, q2
<1>4. QED
  BY <1>2, <1>3

(* _settleRound in each of its three endings.                                *)
LEMMA SettleRoundInGame ==
  ASSUME BooksInv, GameInv, NEW u \in Accounts, MayCall(u),
         NEW s, Balanced(s), Regular(s), Alike(store, s),
         HasActiveRound(s, u), Matured(s.activeRounds[u]),
         NEW price \in Prices, NEW next \in Bets, Continues(next, price),
         SettleRound(s, u, price, next), now' = now
  PROVE  StepInGame
<1> DEFINE resolved == ResolveRound(s, u, price)
           payout   == Payout(s.activeRounds[u], price)
<1>1. price \in Int /\ payout \in Nat /\ Short(resolved, u, payout) /\ now \in Nat
  BY ResolveLeavesShort, AmountsAssumption DEF BooksInv
<1>2. s \in Store /\ resolved \in Store
  BY <1>1 DEF Balanced, Short, OtherBooks
<1>3. Regular(resolved) /\ AlikeBut(store, resolved, u)
  BY <1>1, <1>2, ResolveDecides, AlikeComposes
<1>4. ASSUME u \in Players
      PROVE  /\ PlayerIn(s, u) = PlayerIn(store, u)
             /\ AtomicGame!Ripe(PlayerIn(store, u))
  BY <1>4, MaturedIsRipe DEF Alike
<1>5. \/ CallOut("settle", u, payout, store, resolved, next)
      \/ /\ store' = FinishSettle(QueuePayout(resolved, u, payout), u, next)
         /\ stack' = stack
      \/ /\ payout = 0
         /\ store' = FinishSettle(resolved, u, next)
         /\ stack' = stack
  BY DEF SettleRound
<1>6. u \in Players =>
        /\ payout <= resolved.balance
             => PlayerIn(Send(resolved, "settle", u, payout), u)
                  = AtomicGame!Decided(PlayerIn(s, u), price, TRUE)
        /\ PlayerIn(QueuePayout(resolved, u, payout), u)
             = AtomicGame!Decided(PlayerIn(s, u), price, FALSE)
        /\ payout = 0 => PlayerIn(resolved, u) = AtomicGame!Decided(PlayerIn(s, u), price, TRUE)
  BY <1>1, SettlementDecides
<1> HIDE DEF resolved, payout
<1>7. CASE CallOut("settle", u, payout, store, resolved, next)
  <2> DEFINE f == [kind |-> "settle", callee |-> u, amount |-> payout,
                   entry |-> store, atCall |-> resolved, next |-> next]
  <2>1. /\ payout <= resolved.balance
        /\ store' = Send(resolved, "settle", u, payout) /\ stack' = Append(stack, f)
    BY <1>7 DEF CallOut
  <2>2. /\ f \in Frames
        /\ f.entry = store /\ f.atCall = resolved /\ f.callee = u
        /\ f.kind = "settle" /\ f.next = next
    BY <1>1, <1>2 DEF Frames, BooksInv, Balanced, OtherBooks
  <2>3. Regular(store') /\ AlikeBut(resolved, store', u)
    BY <1>1, <1>2, <1>3, <2>1, SendCredits
  <2>4. AlikeBut(store, store', u)
    BY <1>3, <2>3, AlikeComposes
  <2>5. u \in Contracts => Alike(store, store') /\ Alike(store, resolved)
    BY <1>3, <2>4, AlikeComposes DEF Players
  <2> HIDE DEF f
  <2>6. ASSUME u \notin Contracts
        PROVE  Underway(f, store, store')
    <3>1. u \in Players
      BY <2>6 DEF Players
    <3>2. PlayerIn(store', u) = AtomicGame!Decided(PlayerIn(store, u), price, TRUE)
      BY <1>4, <1>6, <2>1, <3>1
    <3>3. QED
      BY <1>4, <2>2, <3>1, <3>2 DEF Underway
  <2>7. QED
    BY <1>3, <2>1, <2>2, <2>3, <2>4, <2>5, <2>6, PushInGame
<1>8. ASSUME NEW t, NEW sent \in BOOLEAN, Balanced(t), Regular(t), AlikeBut(store, t, u),
             u \in Players => PlayerIn(t, u) = AtomicGame!Decided(PlayerIn(s, u), price, sent),
             store' = FinishSettle(t, u, next), stack' = stack
      PROVE  StepInGame
  <2>1. Regular(store') /\ AlikeBut(t, store', u)
    BY <1>8, FinishSettleBegins
  <2>2. AlikeBut(store, store', u)
    BY <1>8, <2>1, AlikeComposes
  <2>3. CASE u \in Players
    <3>1. Moved(store, store', u)
      BY <1>4, <1>8, <2>3, FinishIsMove
    <3>2. QED
      BY <1>8, <2>1, <2>2, <2>3, <3>1, PlainStepInGame
  <2>4. CASE u \notin Players
    BY <1>8, <2>1, <2>2, <2>4, PlainStepInGame, AlikeComposes
  <2>5. QED
    BY <2>3, <2>4
<1>9. CASE /\ store' = FinishSettle(QueuePayout(resolved, u, payout), u, next)
           /\ stack' = stack
  <2> DEFINE queued == QueuePayout(resolved, u, payout)
  <2>1. Balanced(queued) /\ Regular(queued) /\ AlikeBut(resolved, queued, u)
    BY <1>1, <1>2, <1>3, QueueBalances, QueueCredits
  <2> HIDE DEF queued
  <2>2. AlikeBut(store, queued, u)
    BY <1>3, <2>1, AlikeComposes
  <2>3. u \in Players => PlayerIn(queued, u) = AtomicGame!Decided(PlayerIn(s, u), price, FALSE)
    BY <1>6 DEF queued
  <2>4. QED
    BY <1>8, <1>9, <2>1, <2>2, <2>3 DEF queued
<1>10. CASE /\ payout = 0
            /\ store' = FinishSettle(resolved, u, next)
            /\ stack' = stack
  <2>1. Balanced(resolved)
    BY <1>1, <1>10, NothingShort
  <2>2. QED
    BY <1>3, <1>6, <1>8, <1>10, <2>1
<1>11. QED
  BY <1>5, <1>7, <1>9, <1>10

(* claim empties what is owed and sends it; the gifts of the faucet and the  *)
(* fees are nothing of the game.                                             *)
LEMMA PlainCallInGame ==
  ASSUME BooksInv, GameInv, NEW u \in Accounts, MayCall(u),
         NEW kind \in {"claim", "faucet", "fees"}, NEW amount \in Nat, NEW s \in Store,
         s.activeRounds = store.activeRounds,
         s.userRoundNonce = store.userRoundNonce,
         s.ledger = store.ledger,
         IF kind = "claim"
         THEN /\ s.pendingWithdrawals = [store.pendingWithdrawals EXCEPT ![u] = 0]
              /\ amount = store.pendingWithdrawals[u] /\ amount > 0
         ELSE s.pendingWithdrawals = store.pendingWithdrawals,
         CallOut(kind, u, amount, store, s, NoBet), now' = now
  PROVE  StepInGame
<1> DEFINE f == [kind |-> kind, callee |-> u, amount |-> amount,
                 entry |-> store, atCall |-> s, next |-> NoBet]
           q == PlayerIn(store, u)
<1>1. /\ amount <= s.balance
      /\ store' = Send(s, kind, u, amount) /\ stack' = Append(stack, f)
  BY DEF CallOut
<1>2. f \in Frames /\ f.entry = store /\ f.callee = u /\ f.kind = kind
  BY DEF Frames, Bets, NoBet, BooksInv, Balanced, OtherBooks
<1>3. /\ Regular(s)
      /\ store.pendingWithdrawals \in [Accounts -> Nat]
  BY StoreParts DEF GameInv, Regular, BooksInv, Balanced, OtherBooks
<1>4. AlikeBut(store, s, u)
  BY <1>3 DEF AlikeBut, PlayerIn, Players
<1>5. PlayerIn(s, u) = IF kind = "claim" THEN [q EXCEPT !.owed = 0] ELSE q
  <2>1. s.pendingWithdrawals[u] = IF kind = "claim" THEN 0 ELSE store.pendingWithdrawals[u]
    BY <1>3
  <2>2. QED
    BY <2>1 DEF PlayerIn
<1>6. /\ Regular(store')
      /\ AlikeBut(s, store', u)
      /\ PlayerIn(store', u) = IF kind = "claim"
                               THEN [PlayerIn(s, u) EXCEPT !.received = @ + amount]
                               ELSE PlayerIn(s, u)
  BY <1>1, <1>3, SendCredits
<1>7. AlikeBut(store, store', u)
  BY <1>4, <1>6, AlikeComposes
<1>8. u \in Contracts => Alike(store, store')
  BY <1>7, AlikeComposes DEF Players
<1> HIDE DEF f
<1>9. Underway(f, store, store')
  <2>1. CASE kind = "claim"
    <3>1. q.owed = amount
      BY <2>1 DEF PlayerIn
    <3>2. PlayerIn(store', u) = AtomicGame!Collected(q)
      BY <1>5, <1>6, <2>1, <3>1 DEF AtomicGame!Collected
    <3>3. QED
      BY <1>2, <2>1, <3>1, <3>2 DEF Underway
  <2>2. CASE kind # "claim"
    <3>1. PlayerIn(store', u) = q
      BY <1>5, <1>6, <2>2
    <3>2. QED
      BY <1>2, <2>2, <3>1 DEF Underway
  <2>3. QED
    BY <2>1, <2>2
<1>10. QED
  BY <1>1, <1>2, <1>6, <1>7, <1>8, <1>9, PushInGame

(* Every step of the contract is a move of one player, or none.              *)
LEMMA NextInGame == BooksInv /\ GameInv /\ [Next]_vars => StepInGame
<1> SUFFICES ASSUME BooksInv, GameInv, [Next]_vars
             PROVE  StepInGame
  OBVIOUS
<1>1. /\ Balanced(store)
      /\ store \in Store
      /\ Regular(store)
      /\ now \in Nat
  BY DEF BooksInv, Balanced, OtherBooks, GameInv
<1>2. CASE Tick
  <2>1. /\ stack = << >> /\ stack' = stack /\ store' = store /\ now' = now + 1
        /\ Len(stack) = 0
    BY <1>2, EmptySeq DEF Tick
  <2>2. Committed = store /\ Committed' = store
    BY <2>1 DEF Committed
  <2>3. GameInv'
    BY <1>1, <2>1, <2>2 DEF GameInv, Alike
  <2>4. AtomicGame!Wait
    BY <2>1, <2>2 DEF AtomicGame!Wait, Players
  <2>5. QED
    BY <2>3, <2>4 DEF StepInGame, AtomicGame!Next
<1>3. ASSUME NEW u \in Accounts, NEW amount \in Amounts, NEW sig \in BetSigs,
             Bet(u, amount, sig)
      PROVE  StepInGame
  <2> DEFINE b  == [amount |-> amount, isUp |-> sig.isUp, price |-> sig.price]
             in == Accept(store, amount)
  <2>1. /\ b \in Bets /\ amount \in Nat /\ sig.price \in Prices
        /\ Continues(b, sig.price) /\ b.amount \in Amounts /\ b.price = sig.price
        /\ b.isUp \in BOOLEAN
    BY AmountsAssumption DEF Bets, BetSigs, Continues
  <2>2. Balanced(in) /\ in \in Store
    BY <1>1, <2>1, AcceptKeepsBooks DEF Balanced, OtherBooks
  <2>3. /\ in.activeRounds = store.activeRounds
        /\ in.userRoundNonce = store.userRoundNonce
        /\ in.pendingWithdrawals = store.pendingWithdrawals
        /\ in.ledger = store.ledger
    BY <1>1 DEF Accept, Store
  <2>4. MayCall(u) /\ now' = now
    BY <1>3 DEF Bet
  <2>5. CASE HasActiveRound(store, u)
    <3>1. Matured(store.activeRounds[u]) /\ SettleRound(in, u, sig.price, b)
      BY <1>3, <2>5 DEF Bet
    <3> HIDE DEF b, in
    <3>2. Regular(in) /\ Alike(store, in)
      BY <1>1, <2>3, OtherChangesAreNoMove
    <3>3. HasActiveRound(in, u) /\ Matured(in.activeRounds[u])
      BY <2>3, <2>5, <3>1 DEF HasActiveRound
    <3>4. QED
      BY <2>1, <2>2, <2>4, <3>1, <3>2, <3>3, SettleRoundInGame
  <2>6. CASE ~HasActiveRound(store, u)
    <3>1. store' = PlaceBet(in, u, b) /\ stack' = stack
      BY <1>3, <2>6 DEF Bet
    <3> HIDE DEF b, in
    <3>2. Regular(in) /\ Alike(store, in)
      BY <1>1, <2>3, OtherChangesAreNoMove
    <3>3. /\ Regular(store') /\ AlikeBut(in, store', u)
          /\ u \in Players =>
               PlayerIn(store', u)
                 = AtomicGame!Begun(PlayerIn(in, u), b.amount, b.isUp, b.price)
      BY <2>1, <2>2, <3>1, <3>2, PlaceBetBegins
    <3>4. AlikeBut(store, store', u)
      BY <3>2, <3>3, AlikeComposes
    <3>5. CASE u \in Players
      <4>1. PlayerIn(in, u) = PlayerIn(store, u)
        BY <3>2, <3>5 DEF Alike
      <4>2. PlayerIn(store, u).result # "open"
        BY <2>6 DEF PlayerIn, Result, HasActiveRound
      <4>3. PlayerIn(store', u)
              = AtomicGame!Begun(PlayerIn(store, u), b.amount, b.isUp, sig.price)
        BY <2>1, <3>3, <3>5, <4>1
      <4>4. Moved(store, store', u)
        BY <2>1, <4>2, <4>3 DEF Moved
      <4>5. QED
        BY <2>4, <3>1, <3>3, <3>4, <3>5, <4>4, PlainStepInGame
    <3>6. CASE u \notin Players
      BY <2>4, <3>1, <3>3, <3>4, <3>6, PlainStepInGame, AlikeComposes
    <3>7. QED
      BY <3>5, <3>6
  <2>7. QED
    BY <2>5, <2>6
<1>4. ASSUME NEW u \in Accounts, NEW sig \in SettleSigs, SettleMyRound(u, sig)
      PROVE  StepInGame
  <2>1. NoBet \in Bets /\ sig.price \in Prices /\ Continues(NoBet, sig.price)
    BY DEF NoBet, Bets, SettleSigs, Continues
  <2>2. /\ HasActiveRound(store, u)
        /\ Matured(store.activeRounds[u])
        /\ SettleRound(store, u, sig.price, NoBet)
        /\ MayCall(u)
        /\ now' = now
    BY <1>4 DEF SettleMyRound
  <2>3. Alike(store, store)
    BY DEF Alike
  <2>4. QED
    BY <1>1, <2>1, <2>2, <2>3, SettleRoundInGame
<1>5. ASSUME NEW u \in Accounts, Claim(u)
      PROVE  StepInGame
  <2> DEFINE amount == store.pendingWithdrawals[u]
             booked == BookClaim(store, u)
  <2>1. /\ CallOut("claim", u, amount, store, booked, NoBet) /\ now' = now /\ MayCall(u)
        /\ amount > 0
    BY <1>5 DEF Claim
  <2>2. amount <= store.balance /\ amount \in Nat
    BY <1>1, <2>1, StoreParts DEF CallOut, BookClaim, Store
  <2>3. booked \in Store
    BY <1>1, <2>2, ClaimKeepsBooks
  <2>4. /\ booked.activeRounds = store.activeRounds
        /\ booked.userRoundNonce = store.userRoundNonce
        /\ booked.ledger = store.ledger
        /\ booked.pendingWithdrawals = [store.pendingWithdrawals EXCEPT ![u] = 0]
    BY <1>1 DEF BookClaim, Store
  <2>5. amount = store.pendingWithdrawals[u]
    OBVIOUS
  <2> HIDE DEF amount, booked
  <2>6. QED
    BY <2>1, <2>2, <2>3, <2>4, <2>5, PlainCallInGame
<1>6. ASSUME NEW u \in Accounts, Faucet(u)
      PROVE  StepInGame
  <2> DEFINE booked == BookFaucet(store, u)
  <2>1. /\ ~store.hasUsedFaucet[u]
        /\ FAUCET_AMOUNT <= store.balance
        /\ CallOut("faucet", u, FAUCET_AMOUNT, store, booked, NoBet)
        /\ now' = now
        /\ MayCall(u)
    BY <1>1, <1>6, StoreParts, AmountsAssumption DEF Faucet
  <2>2. booked \in Store
    BY <1>1, <2>1, FaucetKeepsBooks
  <2>3. /\ booked.activeRounds = store.activeRounds
        /\ booked.userRoundNonce = store.userRoundNonce
        /\ booked.ledger = store.ledger
        /\ booked.pendingWithdrawals = store.pendingWithdrawals
    BY <1>1 DEF BookFaucet, Store
  <2> HIDE DEF booked
  <2>4. QED
    BY <2>1, <2>2, <2>3, AmountsAssumption, PlainCallInGame
<1>7. ASSUME NEW u \in Accounts, WithdrawFees(u)
      PROVE  StepInGame
  <2> DEFINE amount == store.treasuryFees
             booked == BookWithdrawal(store)
  <2>1. CallOut("fees", u, amount, store, booked, NoBet) /\ now' = now /\ MayCall(u)
    BY <1>7 DEF WithdrawFees
  <2>2. amount <= store.balance /\ amount \in Nat
    BY <1>1, <2>1, StoreParts DEF CallOut, BookWithdrawal, Store
  <2>3. booked \in Store
    BY <1>1, <2>2, WithdrawFeesKeepsBooks
  <2>4. /\ booked.activeRounds = store.activeRounds
        /\ booked.userRoundNonce = store.userRoundNonce
        /\ booked.ledger = store.ledger
        /\ booked.pendingWithdrawals = store.pendingWithdrawals
    BY <1>1 DEF BookWithdrawal, Store
  <2> HIDE DEF amount, booked
  <2>5. QED
    BY <2>1, <2>2, <2>3, <2>4, PlainCallInGame
<1>8. ASSUME NEW u \in Accounts, NEW amount \in Donations, Receive(u, amount)
      PROVE  StepInGame
  <2>1. MayCall(u) /\ stack' = stack /\ now' = now
    BY <1>8 DEF Receive
  <2>2. /\ store'.activeRounds = store.activeRounds
        /\ store'.userRoundNonce = store.userRoundNonce
        /\ store'.pendingWithdrawals = store.pendingWithdrawals
        /\ store'.ledger.paid = store.ledger.paid
    BY <1>1, <1>8, StoreParts DEF Receive, Accept, Store, Ledger
  <2>3. QED
    BY <1>1, <2>1, <2>2, OtherChangesAreNoMove, PlainStepInGame
<1>9. ASSUME NEW u \in Accounts,
             \/ \E a \in Signers : SetAuthorizer(u, a)
             \/ \E o \in NewOwners : TransferOwnership(u, o)
      PROVE  StepInGame
  <2>1. MayCall(u) /\ stack' = stack /\ now' = now
    BY <1>9 DEF SetAuthorizer, TransferOwnership
  <2>2. /\ store'.activeRounds = store.activeRounds
        /\ store'.userRoundNonce = store.userRoundNonce
        /\ store'.pendingWithdrawals = store.pendingWithdrawals
        /\ store'.ledger = store.ledger
    BY <1>1, <1>9 DEF SetAuthorizer, TransferOwnership, Store
  <2>3. QED
    BY <1>1, <2>1, <2>2, OtherChangesAreNoMove, PlainStepInGame
<1>10. ASSUME stack # << >>
       PROVE  /\ Top \in Frames /\ FrameInv(Top)
              /\ Regular(Top.entry) /\ Alike(Committed, Top.entry)
              /\ Top.callee \in Contracts
                   => /\ Alike(Committed, store)
                      /\ Top.kind = "settle"
                           => Regular(Top.atCall) /\ Alike(Committed, Top.atCall)
              /\ Top.callee \notin Contracts
                   => AlikeBut(Committed, store, Top.callee) /\ Underway(Top, Committed, store)
  <2>1. Len(stack) \in 1 .. Len(stack) /\ Top \in Frames /\ FrameInv(Top)
    BY <1>10, EmptySeq, TopIsSound DEF BooksInv
  <2>2. FrameInGame(Len(stack))
    BY <2>1 DEF GameInv
  <2>3. ASSUME Top.callee \in Contracts
        PROVE  Alike(Committed, store)
    <3>1. ASSUME NEW i \in 1 .. Len(stack)
          PROVE  stack[i].callee \in Contracts
      <4>1. stack[i].callee \notin Contracts => Len(stack) = 1
        BY DEF GameInv, FrameInGame
      <4>2. QED
        BY <2>1, <2>3, <4>1 DEF Top
    <3>2. QED
      BY <3>1 DEF GameInv
  <2>4. QED
    BY <2>1, <2>2, <2>3 DEF FrameInGame, Top
<1>11. CASE CallReturns
  <2> DEFINE u == Top.callee
  <2>1. stack # << >> /\ stack' = Pop /\ now' = now
    BY <1>11 DEF CallReturns
  <2>2. u \in Accounts /\ Top.next \in Bets
    BY <1>10, <2>1 DEF Frames
  <2>3. CASE Top.kind = "settle"
    <3>1. store' = FinishSettle(store, u, Top.next)
      BY <1>11, <2>3 DEF CallReturns
    <3>2. Regular(store') /\ AlikeBut(store, store', u)
      BY <1>1, <2>2, <3>1, FinishSettleBegins
    <3>3. CASE u \in Contracts
      <4>1. Alike(Committed, store')
        BY <1>10, <2>1, <3>2, <3>3, AlikeComposes DEF Players
      <4>2. QED
        BY <2>1, <3>2, <4>1, PopInGame
    <3>4. CASE u \notin Contracts
      <4>1. AlikeBut(Committed, store', u) /\ u \in Players
        BY <1>10, <2>1, <2>2, <3>2, <3>4, AlikeComposes DEF Players
      <4>2. PICK price \in Prices :
              /\ AtomicGame!Ripe(PlayerIn(Committed, u))
              /\ PlayerIn(store, u) = AtomicGame!Decided(PlayerIn(Committed, u), price, TRUE)
              /\ Continues(Top.next, price)
        BY <1>10, <2>1, <2>3, <3>4 DEF Underway
      <4>3. Moved(Committed, store', u)
        BY <1>1, <2>2, <3>1, <4>1, <4>2, FinishIsMove
      <4>4. QED
        BY <2>1, <3>2, <4>1, <4>3, PopInGame
    <3>5. QED
      BY <3>3, <3>4
  <2>4. CASE Top.kind # "settle"
    <3>1. store' = store
      BY <1>11, <2>4 DEF CallReturns
    <3>2. CASE u \in Contracts
      BY <1>1, <1>10, <2>1, <3>1, <3>2, PopInGame
    <3>3. CASE u \notin Contracts /\ Top.kind = "claim"
      <4>1. Moved(Committed, store', u) /\ u \in Players
        BY <1>10, <2>1, <2>2, <3>1, <3>3 DEF Underway, Moved, Players
      <4>2. QED
        BY <1>1, <1>10, <2>1, <3>1, <3>3, <4>1, PopInGame
    <3>4. CASE u \notin Contracts /\ Top.kind # "claim"
      <4>1. PlayerIn(store', u) = PlayerIn(Committed, u)
        BY <1>10, <2>1, <2>4, <3>1, <3>4 DEF Underway
      <4>2. Alike(Committed, store')
        BY <1>10, <2>1, <3>1, <3>4, <4>1 DEF Alike, AlikeBut
      <4>3. QED
        BY <1>1, <2>1, <3>1, <4>2, PopInGame
    <3>5. QED
      BY <3>2, <3>3, <3>4
  <2>5. QED
    BY <2>3, <2>4
<1>12. CASE PayoutFails
  <2> DEFINE queued == QueuePayout(Top.atCall, Top.callee, Top.amount)
  <2>1. /\ stack # << >> /\ stack' = Pop /\ now' = now /\ Top.kind = "settle"
        /\ Top.callee \in Contracts
        /\ store' = FinishSettle(queued, Top.callee, Top.next)
    BY <1>12 DEF PayoutFails
  <2>2. /\ Top.callee \in Accounts /\ Top.amount \in Nat /\ Top.atCall \in Store
        /\ Top.next \in Bets
        /\ Short(Top.atCall, Top.callee, Top.amount)
    BY <2>1, TopIsSound DEF Frames, FrameInv
  <2>3. Regular(Top.atCall) /\ Alike(Committed, Top.atCall)
    BY <1>10, <2>1
  <2>4. Balanced(queued) /\ Regular(queued) /\ AlikeBut(Top.atCall, queued, Top.callee)
    BY <2>2, <2>3, QueueBalances, QueueCredits
  <2> HIDE DEF queued
  <2>5. Regular(store') /\ AlikeBut(queued, store', Top.callee)
    BY <2>1, <2>2, <2>4, FinishSettleBegins
  <2>6. AlikeBut(Committed, store', Top.callee) /\ Top.callee \notin Players
    BY <2>1, <2>3, <2>4, <2>5, AlikeComposes DEF Players
  <2>7. Alike(Committed, store')
    BY <2>6, AlikeComposes
  <2>8. QED
    BY <2>1, <2>5, <2>7, PopInGame
<1>13. CASE FunctionReverts
  <2>1. stack # << >> /\ stack' = Pop /\ now' = now /\ store' = Top.entry
    BY <1>13 DEF FunctionReverts
  <2>2. QED
    BY <1>10, <2>1, PopInGame
<1>14. CASE UNCHANGED vars
  <2>1. Committed' = Committed /\ stack' = stack /\ store' = store /\ now' = now
    BY <1>14 DEF vars, Committed
  <2>2. ASSUME NEW i \in 1 .. Len(stack)
        PROVE  FrameInGame(i)'
    <3>1. FrameInGame(i)
      BY DEF GameInv
    <3>2. Underway(stack[i], Committed, store)' <=> Underway(stack[i], Committed, store)
      BY <2>1 DEF Underway, AtomicGame!Ripe
    <3>3. QED
      BY <2>1, <3>1, <3>2 DEF FrameInGame
  <2>3. GameInv'
    BY <2>1, <2>2 DEF GameInv
  <2>4. Alike(Committed, Committed')
    BY <2>1 DEF Alike
  <2>5. QED
    BY <2>1, <2>3, <2>4, AlikeIsStutter DEF StepInGame
<1>15. QED
  BY <1>2, <1>3, <1>4, <1>5, <1>6, <1>7, <1>8, <1>9, <1>11, <1>12, <1>13, <1>14
     DEF Next, Play, Admin

(* A freshly deployed contract knows its players as newcomers.               *)
LEMMA InitInGame == Init => GameInv /\ AtomicGame!Init
<1> SUFFICES ASSUME Init
             PROVE  GameInv /\ AtomicGame!Init
  OBVIOUS
<1>1. Committed = store /\ Len(stack) = 0 /\ now = 0 /\ store = Deployed
  BY EmptySeq DEF Init, Committed
<1>2. GameInv
  BY <1>1 DEF GameInv, Regular, Alike, Deployed, Nothing, NoRound, Players
<1>3. ASSUME NEW p \in Players
      PROVE  PlayerIn(store, p) = AtomicGame!Newcomer
  BY <1>1, <1>3 DEF PlayerIn, Result, Deployed, Nothing, NoRound, EmptyLedger,
                    AtomicGame!Newcomer, Players
<1>4. AtomicGame!Init
  BY <1>1, <1>3 DEF AtomicGame!Init, Players
<1>5. QED
  BY <1>2, <1>4

(* Whatever is running, players without code are alone in it.                *)
THEOREM GameInvHolds == Spec => []GameInv
<1>1. BooksInv /\ GameInv /\ [Next]_vars => GameInv'
  BY NextInGame DEF StepInGame
<1>2. Init => GameInv
  BY InitInGame
<1>3. QED
  BY <1>1, <1>2, BooksInvHolds, PTL DEF Spec

(* To its players without code the contract is the atomic game, whatever     *)
(* contracts do in the middle of their payments.                             *)
THEOREM ContractIsAtomicGame == Spec => ImplementsGame
<1>1. BooksInv /\ GameInv /\ [Next]_vars
        => [AtomicGame!Next]_<<[p \in Accounts \ Contracts |-> PlayerIn(Committed, p)], now>>
  BY NextInGame DEF StepInGame, Players
<1>2. Init => AtomicGame!Init
  BY InitInGame
<1>3. QED
  BY <1>1, <1>2, BooksInvHolds, GameInvHolds, PTL DEF Spec, ImplementsGame, AtomicGame!Spec

-------------------------------------------------------------------------------
(* The prices of the rounds, for every course of the exchange, and any       *)
(* number of requests and quotes under way.                                  *)
(*                                                                           *)
(* A quote carries no time.  What its fields say of the time of its price    *)
(* differs: the deadline of a bet quote bounds the age of the price, whatever*)
(* has happened since; the round's number in a settlement quote says that    *)
(* the price is not older than the round if, and only if, that round is in   *)
(* storage.  So the invariant relates the quotes to the storage, also to the *)
(* one a payment under way may fall back to, and round numbers must never be *)
(* taken a second time.                                                      *)
(* The exchange had this price at most a quote's lifetime before start.      *)
RecentAt(price, start, m) == \E t \in 0 .. start : t >= start - LIFETIME /\ m[t] = price

(* The exchange had this price between start and time.                       *)
Since(price, start, m, time) == \E t \in start .. time : m[t] = price

BetQuotes    == [signer : {Backend}, user : Accounts, isUp : BOOLEAN,
                 price : Prices, deadline : Nat]
SettleQuotes == [signer : {Backend}, user : Accounts, roundId : Nat,
                 price : Prices, deadline : Nat]
Requests     == [user : Accounts, roundId : Nat]

(* The quotes in the wallets.                                                *)
QuotesSound ==
  /\ market \in [0 .. now -> Prices]
  /\ asked \subseteq Requests
  /\ settleQuotes \subseteq SettleQuotes
  /\ betQuotes \subseteq BetQuotes
  /\ \A q \in betQuotes :
       \E t \in 0 .. now : market[t] = q.price /\ q.deadline = t + LIFETIME

StartFits(s, u, m, time) ==
  LET r == s.activeRounds[u]
  IN  /\ r.startTime <= time
      /\ r.roundId <= s.userRoundNonce[u]
      /\ r.roundId # 0 => RecentAt(r.startPrice, r.startTime, m)

EndFits(s, u, m, time) ==
  LET r == s.activeRounds[u]
  IN  r.settled => Since(r.endPrice, r.startTime, m, time)

(* A request or a quote may be for a round before the one in storage, never  *)
(* for a later one; a quote for the one in storage has a price of its time.  *)
RequestFits(s, a) == a.roundId <= s.activeRounds[a.user].roundId

QuoteFits(s, q, m, time) ==
  LET r == s.activeRounds[q.user]
  IN  /\ q.roundId <= r.roundId
      /\ q.roundId = r.roundId => Since(q.price, r.startTime, m, time)

Fits(s, m, time, requests, quotes) ==
  /\ \A u \in Accounts : StartFits(s, u, m, time)
  /\ \A a \in requests : RequestFits(s, a)
  /\ \A q \in quotes : QuoteFits(s, q, m, time)

(* A payout under way.  The round it settles has a price of a bet quote, if  *)
(* a bet settles it, and gives way to a new round at that price.             *)
PayoutFits(f, s, m, time, requests, quotes) ==
  /\ f.kind = "settle"
  /\ Fits(f.entry, m, time, requests, quotes)
  /\ \A u \in Accounts :
       /\ f.entry.activeRounds[u].roundId = s.activeRounds[u].roundId
       /\ EndFits(f.entry, u, m, time)
       /\ u # f.callee \/ f.next = NoBet => EndFits(s, u, m, time)
  /\ f.next # NoBet => RecentAt(f.next.price, time, m)

PricesFit ==
  /\ Fits(store, market, now, asked, settleQuotes)
  /\ stack = << >> => \A u \in Accounts : EndFits(store, u, market, now)
  /\ stack # << >> => /\ Len(stack) = 1
                      /\ PayoutFits(stack[1], store, market, now, asked, settleQuotes)

MarketInv == BooksInv /\ QuotesSound /\ PricesFit

-------------------------------------------------------------------------------
(* Storages.                                                                 *)

(* What changes neither rounds nor nonces.                                   *)
LEMMA OtherChangesKeepPrices ==
  ASSUME NEW s, NEW t, NEW m, NEW time, NEW requests, NEW quotes,
         Fits(s, m, time, requests, quotes),
         t.activeRounds = s.activeRounds, t.userRoundNonce = s.userRoundNonce
  PROVE  Fits(t, m, time, requests, quotes)
BY DEF Fits, StartFits, RequestFits, QuoteFits

(* Settling a round leaves its number, its start and its player's nonce.     *)
LEMMA ResolveKeepsPrices ==
  ASSUME NEW s \in Store, NEW u \in Accounts, NEW price \in Int,
         NEW m, NEW time, NEW requests \in SUBSET Requests,
         NEW quotes \in SUBSET SettleQuotes, Fits(s, m, time, requests, quotes)
  PROVE  LET new == ResolveRound(s, u, price)
             r   == s.activeRounds[u]
         IN  /\ Fits(new, m, time, requests, quotes)
             /\ \A v \in Accounts :
                  new.activeRounds[v].roundId = s.activeRounds[v].roundId
             /\ \A v \in Accounts \ {u} : new.activeRounds[v] = s.activeRounds[v]
             /\ new.activeRounds[u].startTime = r.startTime
             /\ new.activeRounds[u].endPrice = price
<1> DEFINE new == ResolveRound(s, u, price)
           r   == s.activeRounds[u]
           r2  == Settled(r, price)
<1>1. s.activeRounds \in [Accounts -> UserRound] /\ r \in UserRound
  BY StoreParts
<1>2. /\ r2.roundId = r.roundId
      /\ r2.startTime = r.startTime
      /\ r2.startPrice = r.startPrice
      /\ r2.endPrice = price
  BY <1>1 DEF Settled, UserRound
<1>3. /\ new.activeRounds = [s.activeRounds EXCEPT ![u] = r2]
      /\ new.userRoundNonce = s.userRoundNonce
  BY DEF ResolveRound, Store
<1> HIDE DEF new, r2
<1>4. /\ new.activeRounds[u] = r2
      /\ \A v \in Accounts \ {u} : new.activeRounds[v] = s.activeRounds[v]
  BY <1>1, <1>3
<1>5. \A v \in Accounts :
        /\ new.activeRounds[v].roundId = s.activeRounds[v].roundId
        /\ new.activeRounds[v].startTime = s.activeRounds[v].startTime
        /\ new.activeRounds[v].startPrice = s.activeRounds[v].startPrice
  BY <1>2, <1>4
<1>6. \A a \in requests : a.user \in Accounts
  BY DEF Requests
<1>7. \A q \in quotes : q.user \in Accounts
  BY DEF SettleQuotes
<1>8. Fits(new, m, time, requests, quotes)
  BY <1>3, <1>5, <1>6, <1>7 DEF Fits, StartFits, RequestFits, QuoteFits
<1>9. QED
  BY <1>2, <1>4, <1>5, <1>8 DEF new

(* A new round has a number that no request and no quote mentions yet.       *)
LEMMA PlaceBetKeepsPrices ==
  ASSUME NEW s \in Store, NEW u \in Accounts, NEW b,
         NEW m, now \in Nat, NEW requests \in SUBSET Requests,
         NEW quotes \in SUBSET SettleQuotes, Fits(s, m, now, requests, quotes),
         RecentAt(b.price, now, m)
  PROVE  LET new == PlaceBet(s, u, b)
         IN  /\ Fits(new, m, now, requests, quotes)
             /\ \A v \in Accounts \ {u} : new.activeRounds[v] = s.activeRounds[v]
             /\ ~new.activeRounds[u].settled
<1> DEFINE new        == PlaceBet(s, u, b)
           newRoundId == s.userRoundNonce[u] + 1
<1>1. /\ s.activeRounds \in [Accounts -> UserRound]
      /\ s.userRoundNonce \in [Accounts -> Nat]
  BY StoreParts
<1>2. s.activeRounds[u].roundId \in Nat /\ s.userRoundNonce[u] \in Nat
  BY <1>1 DEF UserRound
<1>3. /\ new.activeRounds[u].roundId = newRoundId
      /\ new.activeRounds[u].startTime = now
      /\ new.activeRounds[u].startPrice = b.price
      /\ ~new.activeRounds[u].settled
      /\ \A v \in Accounts \ {u} : new.activeRounds[v] = s.activeRounds[v]
      /\ new.userRoundNonce = [s.userRoundNonce EXCEPT ![u] = newRoundId]
  BY <1>1 DEF PlaceBet, Store
<1> HIDE DEF new
<1>4. \A v \in Accounts : StartFits(new, v, m, now)
  <2>1. StartFits(new, u, m, now)
    BY <1>1, <1>2, <1>3 DEF StartFits
  <2>2. \A v \in Accounts \ {u} : StartFits(new, v, m, now)
    BY <1>1, <1>3 DEF Fits, StartFits
  <2>3. QED
    BY <2>1, <2>2
<1>5. s.activeRounds[u].roundId < newRoundId
  BY <1>2 DEF Fits, StartFits
<1>6. ASSUME NEW a \in requests
      PROVE  RequestFits(new, a)
  <2>1. a.user \in Accounts /\ a.roundId \in Nat /\ RequestFits(s, a)
    BY DEF Requests, Fits
  <2>2. CASE a.user = u
    BY <1>2, <1>3, <1>5, <2>1, <2>2 DEF RequestFits
  <2>3. CASE a.user # u
    BY <1>3, <2>1, <2>3 DEF RequestFits
  <2>4. QED
    BY <2>2, <2>3
<1>7. ASSUME NEW q \in quotes
      PROVE  QuoteFits(new, q, m, now)
  <2>1. q.user \in Accounts /\ q.roundId \in Nat /\ QuoteFits(s, q, m, now)
    BY DEF SettleQuotes, Fits
  <2>2. CASE q.user = u
    BY <1>2, <1>3, <1>5, <2>1, <2>2 DEF QuoteFits
  <2>3. CASE q.user # u
    BY <1>3, <2>1, <2>3 DEF QuoteFits
  <2>4. QED
    BY <2>2, <2>3
<1>8. QED
  BY <1>3, <1>4, <1>6, <1>7 DEF Fits, new

(* The end of _settleRound, with or without a new round.                     *)
LEMMA FinishSettleKeepsPrices ==
  ASSUME NEW s, Balanced(s), NEW u \in Accounts, NEW next,
         NEW m, now \in Nat, NEW requests \in SUBSET Requests,
         NEW quotes \in SUBSET SettleQuotes, Fits(s, m, now, requests, quotes),
         next # NoBet => RecentAt(next.price, now, m),
         \A v \in Accounts : v # u \/ next = NoBet => EndFits(s, v, m, now)
  PROVE  /\ Fits(FinishSettle(s, u, next), m, now, requests, quotes)
         /\ \A v \in Accounts : EndFits(FinishSettle(s, u, next), v, m, now)
<1> DEFINE new    == Delist(s, u)
           placed == PlaceBet(new, u, next)
<1>1. new \in Store /\ s \in Store
  BY DelistKeepsBooks DEF Balanced, OtherBooks
<1>2. /\ new.activeRounds = s.activeRounds
      /\ new.userRoundNonce = s.userRoundNonce
  BY <1>1 DEF Delist, Store
<1> HIDE DEF new
<1>3. Fits(new, m, now, requests, quotes)
  BY <1>2, OtherChangesKeepPrices
<1>4. CASE next = NoBet
  BY <1>2, <1>3, <1>4 DEF FinishSettle, EndFits, new
<1>5. CASE next # NoBet
  <2>1. /\ Fits(placed, m, now, requests, quotes)
        /\ \A v \in Accounts \ {u} : placed.activeRounds[v] = new.activeRounds[v]
        /\ ~placed.activeRounds[u].settled
    BY <1>1, <1>3, <1>5, PlaceBetKeepsPrices
  <2> HIDE DEF placed
  <2>2. \A v \in Accounts : EndFits(placed, v, m, now)
    BY <1>2, <2>1 DEF EndFits
  <2>3. FinishSettle(s, u, next) = placed
    BY <1>5 DEF FinishSettle, placed, new
  <2>4. QED
    BY <2>1, <2>2, <2>3
<1>6. QED
  BY <1>4, <1>5

(* The clock goes on and the exchange adds a price to those it had.          *)
LEMMA TimeKeepsPrices ==
  ASSUME NEW s \in Store, NEW m, NEW m2, NEW time \in Nat,
         \A t \in 0 .. time : m2[t] = m[t],
         NEW requests \in SUBSET Requests, NEW quotes \in SUBSET SettleQuotes,
         Fits(s, m, time, requests, quotes)
  PROVE  /\ Fits(s, m2, time + 1, requests, quotes)
         /\ \A u \in Accounts : EndFits(s, u, m, time) => EndFits(s, u, m2, time + 1)
<1>1. ASSUME NEW u \in Accounts
      PROVE  s.activeRounds[u].startTime \in 0 .. time
  <2>1. s.activeRounds[u] \in UserRound
    BY StoreParts
  <2>2. s.activeRounds[u].startTime \in Nat
    BY <2>1 DEF UserRound
  <2>3. s.activeRounds[u].startTime <= time
    BY DEF Fits, StartFits
  <2>4. QED
    BY <2>2, <2>3
<1>2. \A price, start : start \in Nat /\ Since(price, start, m, time)
                          => Since(price, start, m2, time + 1)
  BY DEF Since
<1>3. \A price, start : start \in 0 .. time /\ RecentAt(price, start, m)
                          => RecentAt(price, start, m2)
  BY DEF RecentAt
<1>4. ASSUME NEW u \in Accounts
      PROVE  StartFits(s, u, m2, time + 1)
  BY <1>1, <1>3 DEF Fits, StartFits
<1>5. ASSUME NEW q \in quotes
      PROVE  QuoteFits(s, q, m2, time + 1)
  BY <1>1, <1>2 DEF Fits, QuoteFits, SettleQuotes
<1>6. \A u \in Accounts : EndFits(s, u, m, time) => EndFits(s, u, m2, time + 1)
  BY <1>1, <1>2 DEF EndFits
<1>7. QED
  BY <1>4, <1>5, <1>6 DEF Fits

-------------------------------------------------------------------------------
(* The steps of the contract.                                                *)

(* Nobody has code, so a call comes between transactions.                    *)
LEMMA CallsAreNotNested ==
  ASSUME NEW u, MayCall(u)
  PROVE  stack = << >>
BY MarketAssumption DEF MayCall

(* Without the only frame nothing is under way.                              *)
LEMMA OneFramePops ==
  ASSUME Len(stack) = 1
  PROVE  Pop = << >>
BY DEF Pop

(* A call that ends at once, with a storage at rest.                         *)
LEMMA PlainStepKeepsPrices ==
  ASSUME stack = << >>, UNCHANGED <<stack, now, server>>,
         Fits(store', market, now, asked, settleQuotes),
         \A u \in Accounts : EndFits(store', u, market, now)
  PROVE  PricesFit'
BY DEF PricesFit, server

(* _settleRound in each of its three endings.  Without a bet to follow the   *)
(* round ends at a price of its own time.                                    *)
LEMMA SettleRoundKeepsPrices ==
  ASSUME MarketInv, stack = << >>, NEW s, Balanced(s),
         s.activeRounds = store.activeRounds, s.userRoundNonce = store.userRoundNonce,
         NEW u \in Accounts, HasActiveRound(s, u), NEW price \in Int, NEW next \in Bets,
         next # NoBet => RecentAt(next.price, now, market),
         next = NoBet => Since(price, s.activeRounds[u].startTime, market, now),
         SettleRound(s, u, price, next), UNCHANGED <<now, server>>
  PROVE  PricesFit'
<1> DEFINE resolved == ResolveRound(s, u, price)
           payout   == Payout(s.activeRounds[u], price)
           queued   == QueuePayout(resolved, u, payout)
<1>1. payout \in Nat /\ Short(resolved, u, payout)
  BY ResolveLeavesShort
<1>2. /\ s \in Store /\ resolved \in Store /\ store \in Store /\ now \in Nat
      /\ asked \in SUBSET Requests /\ settleQuotes \in SUBSET SettleQuotes
      /\ stack \in Seq(Frames)
  BY <1>1 DEF Balanced, Short, OtherBooks, MarketInv, BooksInv, QuotesSound
<1>3. Fits(s, market, now, asked, settleQuotes)
  BY OtherChangesKeepPrices DEF MarketInv, PricesFit
<1>4. /\ Fits(resolved, market, now, asked, settleQuotes)
      /\ \A v \in Accounts : resolved.activeRounds[v].roundId = store.activeRounds[v].roundId
      /\ \A v \in Accounts \ {u} : resolved.activeRounds[v] = store.activeRounds[v]
      /\ resolved.activeRounds[u].startTime = s.activeRounds[u].startTime
      /\ resolved.activeRounds[u].endPrice = price
  <2> HIDE DEF resolved, payout, queued
  <2>1. /\ Fits(resolved, market, now, asked, settleQuotes)
        /\ \A v \in Accounts : resolved.activeRounds[v].roundId = s.activeRounds[v].roundId
        /\ \A v \in Accounts \ {u} : resolved.activeRounds[v] = s.activeRounds[v]
        /\ resolved.activeRounds[u].startTime = s.activeRounds[u].startTime
        /\ resolved.activeRounds[u].endPrice = price
    BY <1>2, <1>3, ResolveKeepsPrices DEF resolved
  <2>2. QED
    BY <2>1
<1>5. \/ CallOut("settle", u, payout, store, resolved, next)
      \/ /\ store' = FinishSettle(queued, u, next)
         /\ UNCHANGED stack
      \/ /\ payout = 0
         /\ store' = FinishSettle(resolved, u, next)
         /\ UNCHANGED stack
  BY DEF SettleRound
<1> HIDE DEF resolved, payout
<1>6. \A v \in Accounts : EndFits(store, v, market, now)
  BY DEF MarketInv, PricesFit
<1>7. \A v \in Accounts : v # u \/ next = NoBet => EndFits(resolved, v, market, now)
  BY <1>4, <1>6 DEF EndFits
<1>8. CASE CallOut("settle", u, payout, store, resolved, next)
  <2> DEFINE f == [kind |-> "settle", callee |-> u, amount |-> payout,
                   entry |-> store, atCall |-> resolved, next |-> next]
  <2>1. store' = Send(resolved, "settle", u, payout) /\ stack' = Append(stack, f)
    BY <1>8 DEF CallOut
  <2>2. /\ f.kind = "settle" /\ f.callee = u /\ f.entry = store /\ f.next = next
        /\ f \in Frames
    BY <1>1, <1>2 DEF Frames
  <2> HIDE DEF f
  <2>3. stack' # << >> /\ Len(stack') = 1 /\ stack'[1] = f
    BY <1>2, <2>1, <2>2, AppendProperties, EmptySeq
  <2>4. store' = [resolved EXCEPT !.balance = @ - payout, !.ledger.paid[u] = @ + payout]
    BY <2>1, Zenon DEF Send
  <2>5. /\ store'.activeRounds = resolved.activeRounds
        /\ store'.userRoundNonce = resolved.userRoundNonce
    BY <1>2, <2>4 DEF Store
  <2>6. Fits(store', market, now, asked, settleQuotes)
    BY <1>4, <2>5, OtherChangesKeepPrices
  <2>7. PayoutFits(f, store', market, now, asked, settleQuotes)
    <3>1. Fits(f.entry, market, now, asked, settleQuotes)
      BY <2>2 DEF MarketInv, PricesFit
    <3>2. \A v \in Accounts :
            /\ f.entry.activeRounds[v].roundId = store'.activeRounds[v].roundId
            /\ EndFits(f.entry, v, market, now)
            /\ v # f.callee \/ f.next = NoBet => EndFits(store', v, market, now)
      BY <1>4, <1>6, <1>7, <2>2, <2>5 DEF EndFits
    <3>3. QED
      BY <2>2, <3>1, <3>2 DEF PayoutFits
  <2>8. QED
    BY <2>3, <2>6, <2>7 DEF PricesFit, server
<1>9. CASE store' = FinishSettle(queued, u, next) /\ UNCHANGED stack
  <2>1. Balanced(queued)
    BY <1>1, QueueBalances
  <2>2. /\ queued.activeRounds = resolved.activeRounds
        /\ queued.userRoundNonce = resolved.userRoundNonce
    BY <1>2 DEF QueuePayout, Store
  <2> HIDE DEF queued
  <2>3. Fits(queued, market, now, asked, settleQuotes)
    BY <1>4, <2>2, OtherChangesKeepPrices
  <2>4. \A v \in Accounts : v # u \/ next = NoBet => EndFits(queued, v, market, now)
    BY <1>7, <2>2 DEF EndFits
  <2>5. /\ Fits(store', market, now, asked, settleQuotes)
        /\ \A v \in Accounts : EndFits(store', v, market, now)
    BY <1>2, <1>9, <2>1, <2>3, <2>4, FinishSettleKeepsPrices
  <2>6. QED
    BY <1>9, <2>5, PlainStepKeepsPrices
<1>10. CASE /\ payout = 0
            /\ store' = FinishSettle(resolved, u, next)
            /\ UNCHANGED stack
  <2>1. Balanced(resolved)
    BY <1>1, <1>10, NothingShort
  <2>2. /\ Fits(store', market, now, asked, settleQuotes)
        /\ \A v \in Accounts : EndFits(store', v, market, now)
    BY <1>2, <1>4, <1>7, <1>10, <2>1, FinishSettleKeepsPrices
  <2>3. QED
    BY <1>10, <2>2, PlainStepKeepsPrices
<1>11. QED
  BY <1>5, <1>8, <1>9, <1>10

(* bet, with a quote the server has signed: the deadline has not passed, so  *)
(* the price is recent.                                                      *)
LEMMA BetKeepsPrices ==
  ASSUME MarketInv, NEW u \in Accounts, NEW amount \in Amounts, NEW sig \in betQuotes,
         Bet(u, amount, sig), UNCHANGED server
  PROVE  BooksInv' /\ PricesFit'
<1> DEFINE b  == [amount |-> amount, isUp |-> sig.isUp, price |-> sig.price]
           in == Accept(store, amount)
<1>1. sig \in BetQuotes /\ amount \in Nat /\ amount # 0 /\ Balanced(store) /\ now \in Nat
  BY AmountsAssumption DEF MarketInv, QuotesSound, BooksInv
<1>2. sig.price \in Int /\ sig.isUp \in BOOLEAN /\ sig.deadline \in Nat
  BY <1>1, AmountsAssumption DEF BetQuotes
<1>3. stack = << >> /\ now' = now /\ now <= sig.deadline
  BY CallsAreNotNested DEF Bet, Unexpired
<1>4. RecentAt(sig.price, now, market)
  <2>1. PICK t \in 0 .. now : market[t] = sig.price /\ sig.deadline = t + LIFETIME
    BY DEF MarketInv, QuotesSound
  <2>2. t >= now - LIFETIME
    BY <1>1, <1>3, <2>1, MarketAssumption
  <2>3. QED
    BY <2>1, <2>2 DEF RecentAt
<1>5. b \in Bets /\ b # NoBet /\ b.price = sig.price
  BY <1>1, <1>2 DEF Bets, NoBet
<1>6. Balanced(in) /\ store \in Store
  BY <1>1, AcceptKeepsBooks DEF Balanced, OtherBooks
<1>7. /\ in.activeRounds = store.activeRounds
      /\ in.userRoundNonce = store.userRoundNonce
  BY <1>6 DEF Accept, Store
<1>8. BooksInv'
  BY <1>1, <1>2, BetKeepsInv DEF MarketInv
<1>9. CASE HasActiveRound(store, u)
  <2>1. SettleRound(in, u, sig.price, b)
    BY <1>9 DEF Bet
  <2> HIDE DEF b, in
  <2>2. HasActiveRound(in, u)
    BY <1>7, <1>9 DEF HasActiveRound
  <2>3. PricesFit'
    BY <1>2, <1>3, <1>4, <1>5, <1>6, <1>7, <2>1, <2>2, SettleRoundKeepsPrices
  <2>4. QED
    BY <1>8, <2>3
<1>10. CASE ~HasActiveRound(store, u)
  <2>1. store' = PlaceBet(in, u, b) /\ UNCHANGED <<stack, now>>
    BY <1>10 DEF Bet
  <2> HIDE DEF b, in
  <2>2. in \in Store /\ asked \in SUBSET Requests /\ settleQuotes \in SUBSET SettleQuotes
    BY <1>6 DEF Balanced, OtherBooks, MarketInv, QuotesSound
  <2>3. /\ Fits(in, market, now, asked, settleQuotes)
        /\ \A v \in Accounts : EndFits(in, v, market, now)
    BY <1>3, <1>7, OtherChangesKeepPrices DEF MarketInv, PricesFit, EndFits
  <2>4. /\ Fits(store', market, now, asked, settleQuotes)
        /\ \A v \in Accounts \ {u} : store'.activeRounds[v] = in.activeRounds[v]
        /\ ~store'.activeRounds[u].settled
    BY <1>1, <1>4, <1>5, <2>1, <2>2, <2>3, PlaceBetKeepsPrices
  <2>5. \A v \in Accounts : EndFits(store', v, market, now)
    BY <2>3, <2>4 DEF EndFits
  <2>6. PricesFit'
    BY <1>3, <2>1, <2>4, <2>5, PlainStepKeepsPrices
  <2>7. QED
    BY <1>8, <2>6
<1>11. QED
  BY <1>9, <1>10

(* settleMyRound, with a quote the server has signed: its number is that of  *)
(* the round, so its price is not older than the round.                      *)
LEMMA SettleMyRoundKeepsPrices ==
  ASSUME MarketInv, NEW u \in Accounts, NEW sig \in settleQuotes,
         SettleMyRound(u, sig), UNCHANGED server
  PROVE  BooksInv' /\ PricesFit'
<1>1. sig \in SettleQuotes /\ Balanced(store)
  BY DEF MarketInv, QuotesSound, BooksInv
<1>2. sig.price \in Int
  BY <1>1, AmountsAssumption DEF SettleQuotes
<1>3. /\ stack = << >> /\ now' = now
      /\ sig.user = u /\ sig.roundId = store.activeRounds[u].roundId
      /\ HasActiveRound(store, u)
      /\ SettleRound(store, u, sig.price, NoBet)
  BY CallsAreNotNested DEF SettleMyRound, Signed, ForRound
<1>4. NoBet \in Bets
  BY DEF NoBet, Bets
<1>5. Since(sig.price, store.activeRounds[u].startTime, market, now)
  BY <1>3 DEF MarketInv, PricesFit, Fits, QuoteFits
<1>6. PricesFit'
  BY <1>1, <1>2, <1>3, <1>4, <1>5, SettleRoundKeepsPrices
<1>7. BooksInv'
  BY <1>2, SettleMyRoundKeepsInv DEF MarketInv
<1>8. QED
  BY <1>6, <1>7

(* The payout arrives, and the rest of the function runs.                    *)
LEMMA ReturnKeepsPrices ==
  ASSUME MarketInv, CallReturns, UNCHANGED server
  PROVE  BooksInv' /\ PricesFit'
<1>1. stack # << >> /\ stack' = Pop /\ now' = now
  BY DEF CallReturns
<1>2. /\ Len(stack) = 1 /\ Top = stack[1]
      /\ PayoutFits(Top, store, market, now, asked, settleQuotes)
  BY <1>1 DEF MarketInv, PricesFit, Top
<1>3. /\ Top \in Frames /\ Balanced(store) /\ now \in Nat
      /\ asked \in SUBSET Requests /\ settleQuotes \in SUBSET SettleQuotes
      /\ Fits(store, market, now, asked, settleQuotes)
  BY <1>1, TopIsSound DEF MarketInv, BooksInv, QuotesSound, PricesFit
<1>4. Top.callee \in Accounts /\ Top.next \in Bets /\ Top.kind = "settle"
  BY <1>2, <1>3 DEF Frames, PayoutFits
<1>5. store' = FinishSettle(store, Top.callee, Top.next)
  BY <1>4 DEF CallReturns
<1>6. /\ Fits(store', market, now, asked, settleQuotes)
      /\ \A v \in Accounts : EndFits(store', v, market, now)
  BY <1>2, <1>3, <1>4, <1>5, FinishSettleKeepsPrices DEF PayoutFits
<1>7. stack' = << >>
  BY <1>1, <1>2, OneFramePops
<1>8. PricesFit'
  BY <1>1, <1>6, <1>7 DEF PricesFit, server
<1>9. BooksInv'
  BY <1>1, <1>3, <1>4, <1>5, FinishSettleKeepsBooks, PopKeepsInv DEF MarketInv
<1>10. QED
  BY <1>8, <1>9

(* The gas runs out during the payout: the storage before it comes back.     *)
LEMMA RevertKeepsPrices ==
  ASSUME MarketInv, FunctionReverts, UNCHANGED server
  PROVE  BooksInv' /\ PricesFit'
<1>1. stack # << >> /\ stack' = Pop /\ now' = now /\ store' = Top.entry
  BY DEF FunctionReverts
<1>2. /\ Len(stack) = 1 /\ Top = stack[1]
      /\ PayoutFits(Top, store, market, now, asked, settleQuotes)
  BY <1>1 DEF MarketInv, PricesFit, Top
<1>3. stack' = << >>
  BY <1>1, <1>2, OneFramePops
<1>4. PricesFit'
  BY <1>1, <1>2, <1>3 DEF PricesFit, PayoutFits, server
<1>5. BooksInv'
  <2>1. Balanced(store')
    BY <1>1, TopIsSound DEF FrameInv, MarketInv
  <2>2. QED
    BY <1>1, <2>1, PopKeepsInv DEF MarketInv
<1>6. QED
  BY <1>4, <1>5

-------------------------------------------------------------------------------
(* The steps of the server, the exchange and the wallets.                    *)

(* With fewer requests and quotes under way there is less to say.            *)
LEMMA FewerQuotesKeepPrices ==
  ASSUME MarketInv, UNCHANGED <<game, market>>, asked' \subseteq asked,
         betQuotes' \subseteq betQuotes, settleQuotes' \subseteq settleQuotes
  PROVE  MarketInv'
<1>1. UNCHANGED <<store, stack, now, market>>
  BY DEF game
<1>2. BooksInv'
  BY <1>1 DEF MarketInv, BooksInv
<1>3. QuotesSound'
  BY <1>1 DEF MarketInv, QuotesSound
<1>4. \A s : Fits(s, market, now, asked, settleQuotes)
               => Fits(s, market, now, asked', settleQuotes')
  BY DEF Fits
<1>5. PricesFit'
  BY <1>1, <1>4 DEF MarketInv, PricesFit, PayoutFits
<1>6. QED
  BY <1>2, <1>3, <1>5 DEF MarketInv

(* /bet: the price and the deadline are of the same moment.                  *)
LEMMA BetRouteKeepsPrices ==
  ASSUME MarketInv, NEW user \in Accounts, NEW isUp \in BOOLEAN, BetRoute(user, isUp)
  PROVE  MarketInv'
<1> DEFINE q == [signer |-> Backend, user |-> user, isUp |-> isUp,
                 price |-> market[now], deadline |-> Deadline]
<1>1. /\ betQuotes' = betQuotes \cup {q}
      /\ UNCHANGED <<store, stack, now, market, asked, settleQuotes>>
  BY DEF BetRoute, game
<1>2. now \in 0 .. now /\ market[now] \in Prices /\ Deadline \in Nat
  BY MarketAssumption DEF MarketInv, BooksInv, QuotesSound, Deadline
<1>3. q \in BetQuotes /\ q.price = market[now] /\ q.deadline = now + LIFETIME
  BY <1>2 DEF BetQuotes, Deadline
<1> HIDE DEF q
<1>4. QuotesSound'
  <2>1. \A r \in betQuotes' :
          \E t \in 0 .. now : market[t] = r.price /\ r.deadline = t + LIFETIME
    BY <1>1, <1>2, <1>3 DEF MarketInv, QuotesSound
  <2>2. QED
    BY <1>1, <1>3, <2>1 DEF MarketInv, QuotesSound
<1>5. BooksInv' /\ PricesFit'
  BY <1>1 DEF MarketInv, BooksInv, PricesFit
<1>6. QED
  BY <1>4, <1>5 DEF MarketInv

(* /settle reads a number the player's rounds have reached by now.           *)
LEMMA ReadKeepsPrices ==
  ASSUME MarketInv, NEW user \in Accounts, NEW roundId \in RoundIdsRead(user),
         SettleRouteReads(user, roundId)
  PROVE  MarketInv'
<1> DEFINE a == [user |-> user, roundId |-> roundId]
<1>1. /\ asked' = asked \cup {a}
      /\ UNCHANGED <<store, stack, now, market, betQuotes, settleQuotes>>
  BY DEF SettleRouteReads, game
<1>2. roundId \in Nat /\ roundId <= Committed.activeRounds[user].roundId
  <2>1. Committed \in Store
    <3>1. CASE stack = << >>
      BY <3>1 DEF Committed, MarketInv, BooksInv, Balanced, OtherBooks
    <3>2. CASE stack # << >>
      <4>1. Top = stack[1] /\ Top \in Frames
        BY <3>2, TopIsSound DEF Top, MarketInv, PricesFit
      <4>2. QED
        BY <3>2, <4>1 DEF Committed, Frames
    <3>3. QED
      BY <3>1, <3>2
  <2>2. Committed.activeRounds[user] \in UserRound
    BY <2>1, StoreParts
  <2>3. Committed.activeRounds[user].roundId \in Nat
    BY <2>2 DEF UserRound
  <2>4. QED
    BY <2>3 DEF RoundIdsRead
<1>3. a \in Requests /\ a.user = user /\ a.roundId = roundId
  BY <1>2 DEF Requests
<1> HIDE DEF a
<1>4. ASSUME NEW s, Fits(s, market, now, asked, settleQuotes),
             s.activeRounds[user].roundId = Committed.activeRounds[user].roundId
      PROVE  Fits(s, market, now, asked', settleQuotes)
  BY <1>1, <1>2, <1>3, <1>4 DEF Fits, RequestFits
<1>5. PricesFit'
  <2>1. CASE stack = << >>
    BY <1>1, <1>4, <2>1 DEF MarketInv, PricesFit, Committed
  <2>2. CASE stack # << >>
    BY <1>1, <1>4, <2>2 DEF MarketInv, PricesFit, PayoutFits, Committed
  <2>3. QED
    BY <2>1, <2>2
<1>6. QuotesSound' /\ BooksInv'
  BY <1>1, <1>3 DEF MarketInv, QuotesSound, BooksInv
<1>7. QED
  BY <1>5, <1>6 DEF MarketInv

(* /settle signs a price of now, which is a time of the round, if the number *)
(* it has read is still that of the round.                                   *)
LEMMA SignKeepsPrices ==
  ASSUME MarketInv, NEW user \in Accounts, NEW roundId, SettleRouteSigns(user, roundId)
  PROVE  MarketInv'
<1> DEFINE a == [user |-> user, roundId |-> roundId]
           q == [signer |-> Backend, user |-> user, roundId |-> roundId,
                 price |-> market[now], deadline |-> Deadline]
<1>1. /\ a \in asked
      /\ asked' = asked \ {a}
      /\ settleQuotes' = settleQuotes \cup {q}
      /\ UNCHANGED <<store, stack, now, market, betQuotes>>
  BY DEF SettleRouteSigns, game
<1>2. now \in Nat /\ now \in 0 .. now /\ market[now] \in Prices /\ Deadline \in Nat
  BY MarketAssumption DEF MarketInv, BooksInv, QuotesSound, Deadline
<1>3. roundId \in Nat
  BY <1>1 DEF MarketInv, QuotesSound, Requests
<1>4. /\ q \in SettleQuotes /\ q.user = user /\ q.roundId = roundId
      /\ q.price = market[now] /\ a.user = user /\ a.roundId = roundId
  BY <1>2, <1>3 DEF SettleQuotes
<1> HIDE DEF a, q
<1>5. ASSUME NEW s \in Store, Fits(s, market, now, asked, settleQuotes)
      PROVE  Fits(s, market, now, asked', settleQuotes')
  <2>1. s.activeRounds[user] \in UserRound
    BY StoreParts
  <2>2. s.activeRounds[user].startTime \in 0 .. now
    <3>1. s.activeRounds[user].startTime \in Nat
      BY <2>1 DEF UserRound
    <3>2. s.activeRounds[user].startTime <= now
      BY <1>5 DEF Fits, StartFits
    <3>3. QED
      BY <1>2, <3>1, <3>2
  <2>3. now \in s.activeRounds[user].startTime .. now
    BY <1>2, <2>2
  <2>4. QuoteFits(s, q, market, now)
    BY <1>1, <1>4, <1>5, <2>3 DEF Fits, RequestFits, QuoteFits, Since
  <2>5. QED
    BY <1>1, <1>5, <2>4 DEF Fits
<1>6. PricesFit'
  <2>1. store \in Store
    BY DEF MarketInv, BooksInv, Balanced, OtherBooks
  <2>2. CASE stack = << >>
    BY <1>1, <1>5, <2>1, <2>2 DEF MarketInv, PricesFit
  <2>3. CASE stack # << >>
    <3>1. Top = stack[1] /\ Top \in Frames
      BY <2>3, TopIsSound DEF Top, MarketInv, PricesFit
    <3>2. stack[1].entry \in Store
      BY <3>1 DEF Frames
    <3>3. QED
      BY <1>1, <1>5, <2>1, <2>3, <3>2 DEF MarketInv, PricesFit, PayoutFits
  <2>4. QED
    BY <2>2, <2>3
<1>7. QuotesSound' /\ BooksInv'
  BY <1>1, <1>4 DEF MarketInv, QuotesSound, BooksInv
<1>8. QED
  BY <1>6, <1>7 DEF MarketInv

(* A block later.                                                            *)
LEMMA AdvanceKeepsPrices ==
  ASSUME MarketInv, NEW price \in Prices, Advance(price)
  PROVE  MarketInv'
<1>1. /\ stack = << >> /\ now' = now + 1 /\ UNCHANGED <<store, stack>>
      /\ market' = [t \in 0 .. now + 1 |-> IF t = now + 1 THEN price ELSE market[t]]
      /\ UNCHANGED <<asked, betQuotes, settleQuotes>>
  BY DEF Advance, Tick
<1>2. now \in Nat /\ market \in [0 .. now -> Prices] /\ store \in Store
  BY DEF MarketInv, BooksInv, QuotesSound, Balanced, OtherBooks
<1>3. /\ market' \in [0 .. now' -> Prices]
      /\ \A t \in 0 .. now : market'[t] = market[t] /\ t \in 0 .. now'
  BY <1>1, <1>2
<1>4. QuotesSound'
  <2>1. ASSUME NEW q \in betQuotes
        PROVE  \E t \in 0 .. now' : market'[t] = q.price /\ q.deadline = t + LIFETIME
    <3>1. PICK t \in 0 .. now : market[t] = q.price /\ q.deadline = t + LIFETIME
      BY DEF MarketInv, QuotesSound
    <3>2. QED
      BY <1>3, <3>1
  <2>2. QED
    BY <1>1, <1>3, <2>1 DEF MarketInv, QuotesSound
<1>5. PricesFit'
  <2>1. /\ Fits(store, market, now, asked, settleQuotes)
        /\ \A u \in Accounts : EndFits(store, u, market, now)
        /\ asked \in SUBSET Requests /\ settleQuotes \in SUBSET SettleQuotes
    BY <1>1 DEF MarketInv, PricesFit, QuotesSound
  <2>2. /\ Fits(store, market', now', asked, settleQuotes)
        /\ \A u \in Accounts : EndFits(store, u, market', now')
    BY <1>1, <1>2, <1>3, <2>1, TimeKeepsPrices
  <2>3. QED
    BY <1>1, <2>2 DEF PricesFit
<1>6. BooksInv'
  BY <1>1, <1>2 DEF MarketInv, BooksInv
<1>7. QED
  BY <1>4, <1>5, <1>6 DEF MarketInv

(* Every step keeps the invariant.                                           *)
LEMMA MarketNextKeepsInv == MarketInv /\ [MarketNext]_marketVars => MarketInv'
<1> SUFFICES ASSUME MarketInv, [MarketNext]_marketVars
             PROVE  MarketInv'
  OBVIOUS
<1>1. ASSUME UNCHANGED <<now, server>>, BooksInv', PricesFit'
      PROVE  MarketInv'
  BY <1>1 DEF MarketInv, QuotesSound, server
<1>2. ASSUME NEW price \in Prices, Advance(price)
      PROVE  MarketInv'
  BY <1>2, AdvanceKeepsPrices
<1>3. ASSUME NEW user \in Accounts, NEW isUp \in BOOLEAN, BetRoute(user, isUp)
      PROVE  MarketInv'
  BY <1>3, BetRouteKeepsPrices
<1>4. ASSUME NEW user \in Accounts, NEW roundId \in RoundIdsRead(user),
             SettleRouteReads(user, roundId)
      PROVE  MarketInv'
  BY <1>4, ReadKeepsPrices
<1>5. ASSUME NEW user \in Accounts, NEW roundId \in 0 .. MaxRounds,
             SettleRouteSigns(user, roundId)
      PROVE  MarketInv'
  BY <1>5, SignKeepsPrices
<1>6. ASSUME NEW u \in Accounts, SendBet(u)
      PROVE  MarketInv'
  <2>1. PICK amount \in Amounts, sig \in betQuotes : Bet(u, amount, sig)
    BY <1>6 DEF SendBet
  <2>2. UNCHANGED server /\ now' = now
    BY <1>6, <2>1 DEF SendBet, Bet
  <2>3. QED
    BY <1>1, <2>1, <2>2, BetKeepsPrices
<1>7. ASSUME NEW u \in Accounts, SendSettle(u)
      PROVE  MarketInv'
  <2>1. PICK sig \in settleQuotes : SettleMyRound(u, sig)
    BY <1>7 DEF SendSettle
  <2>2. UNCHANGED server /\ now' = now
    BY <1>7, <2>1 DEF SendSettle, SettleMyRound
  <2>3. QED
    BY <1>1, <2>1, <2>2, SettleMyRoundKeepsPrices
<1>8. CASE Discard
  BY <1>8, FewerQuotesKeepPrices DEF Discard
<1>9. CASE ChangeAuthorizer
  <2>1. PICK u \in Accounts, authorizer \in Signers : SetAuthorizer(u, authorizer)
    BY <1>9 DEF ChangeAuthorizer
  <2>2. /\ store' = [store EXCEPT !.authorizer = authorizer]
        /\ stack = << >> /\ UNCHANGED <<stack, now, server>>
    BY <1>9, <2>1, CallsAreNotNested DEF SetAuthorizer, ChangeAuthorizer
  <2>3. store \in Store /\ Balanced(store) /\ NoAccount \in Accounts \cup {NoAccount}
    BY DEF MarketInv, BooksInv, Balanced, OtherBooks
  <2>4. Balanced(store')
    BY <2>2, <2>3, AdminKeepsBooks
  <2>5. /\ store'.activeRounds = store.activeRounds
        /\ store'.userRoundNonce = store.userRoundNonce
    BY <2>2, <2>3 DEF Store
  <2>6. /\ Fits(store', market, now, asked, settleQuotes)
        /\ \A v \in Accounts : EndFits(store', v, market, now)
    BY <2>2, <2>5, OtherChangesKeepPrices DEF MarketInv, PricesFit, EndFits
  <2>7. PricesFit'
    BY <2>2, <2>6, PlainStepKeepsPrices
  <2>8. BooksInv'
    BY <2>2, <2>4 DEF MarketInv, BooksInv
  <2>9. QED
    BY <1>1, <2>2, <2>7, <2>8
<1>10. CASE PayoutArrives
  <2>1. CallReturns /\ UNCHANGED <<now, server>>
    BY <1>10 DEF PayoutArrives, CallReturns
  <2>2. QED
    BY <1>1, <2>1, ReturnKeepsPrices
<1>11. CASE GasRunsOut
  <2>1. FunctionReverts /\ UNCHANGED <<now, server>>
    BY <1>11 DEF GasRunsOut, FunctionReverts
  <2>2. QED
    BY <1>1, <2>1, RevertKeepsPrices
<1>12. CASE UNCHANGED marketVars
  BY <1>12, FewerQuotesKeepPrices DEF marketVars, server
<1>13. QED
  BY <1>2, <1>3, <1>4, <1>5, <1>6, <1>7, <1>8, <1>9, <1>10, <1>11, <1>12 DEF MarketNext

(* There are no rounds and no quotes yet.                                    *)
LEMMA MarketInitSatisfiesInv == MarketInit => MarketInv
<1> SUFFICES ASSUME MarketInit
             PROVE  MarketInv
  OBVIOUS
<1>1. BooksInv
  BY InitSatisfiesInv DEF MarketInit
<1>2. /\ now = 0 /\ stack = << >> /\ store = Deployed
      /\ asked = {} /\ betQuotes = {} /\ settleQuotes = {}
  BY DEF MarketInit, Init
<1>3. market \in [0 .. now -> Prices]
  BY <1>2 DEF MarketInit
<1>4. \A u \in Accounts : /\ store.activeRounds[u] = NoRound
                          /\ store.userRoundNonce[u] = 0
  BY <1>2 DEF Deployed, Nothing
<1>5. PricesFit
  BY <1>2, <1>4 DEF PricesFit, Fits, StartFits, EndFits, NoRound
<1>6. QED
  BY <1>1, <1>2, <1>3, <1>5 DEF MarketInv, QuotesSound

-------------------------------------------------------------------------------
(* What the quotes promise the players.                                      *)

(* Quotes, requests and storage agree in every reachable state, and so does  *)
(* the storage a payout under way may fall back to.                          *)
THEOREM MarketInvHolds == MarketSpec => []MarketInv
BY MarketInitSatisfiesInv, MarketNextKeepsInv, PTL DEF MarketSpec

(* Every round starts at a price the exchange had within a quote's lifetime  *)
(* before the bet.                                                           *)
THEOREM StartPriceAlwaysRecent == MarketSpec => []StartPriceIsRecent
<1>1. MarketInv => StartPriceIsRecent
  BY DEF MarketInv, PricesFit, Fits, StartFits, RecentAt, StartPriceIsRecent
<1>2. QED
  BY <1>1, MarketInvHolds, PTL

(* Every round settled by its player ends at a price the exchange had since  *)
(* the round began.                                                          *)
THEOREM EndPriceAlwaysFromRound == MarketSpec => []EndPriceFromRound
<1>1. MarketInv => EndPriceFromRound
  BY DEF MarketInv, PricesFit, EndFits, Since, EndPriceFromRound
<1>2. QED
  BY <1>1, MarketInvHolds, PTL
===============================================================================
