------------------------------- MODULE GlowStick -------------------------------
(*****************************************************************************)
(* GlowStick.sol, the contract that holds the stakes of the game.            *)
(*                                                                           *)
(* store is the contract's storage together with its ether balance.  A       *)
(* transaction that meets a failed require leaves no trace, so a step whose  *)
(* require does not hold is simply not enabled.                              *)
(*                                                                           *)
(* Four functions send ether with a low-level call: _settleRound (through    *)
(* _safePayoutOrQueue), claim, faucet and withdrawFees.  When the receiver   *)
(* is a contract its code runs in the middle of the function, on the storage *)
(* as it is at that moment, and may call the contract again.  stack holds    *)
(* one frame for each function that is waiting for such a call, the last one *)
(* innermost.  A call that fails undoes everything that happened inside it,  *)
(* so a frame also keeps the storage at the two points execution may fall    *)
(* back to: where the function began, and where it made the call.            *)
(*                                                                           *)
(* The record store.ledger is no part of the contract.  It counts the ether  *)
(* that was staked, resolved, owed and paid since deployment, is rolled back *)
(* with the rest of the storage, and exists to state the properties.         *)
(*****************************************************************************)
EXTENDS ActiveUsers

CONSTANTS
  Contracts,           \* the accounts with code: a transfer to them runs it
  Deployer,            \* msg.sender of the constructor, the first owner
  NoAccount,           \* address(0), the owner after renounceOwnership
  NewOwners,           \* arguments of transferOwnership; NoAccount: renounced
  Signers,             \* the addresses authorizer may be set to
  InitialAuthorizer,   \* the constructor's argument
  Amounts,             \* msg.value of a bet
  Donations,           \* msg.value of a plain transfer to the vault
  Prices,              \* ETH/USDT quotes
  Deadlines,           \* deadlines the quotes carry
  ROUND_DURATION,
  FAUCET_AMOUNT,
  MaxNow,              \* bound: the clock stops here
  MaxRounds,           \* bound: no bet after this many rounds of a user
  MaxDonated,          \* bound: total of the plain transfers
  MaxDepth             \* bound: nesting of calls back into the contract

ASSUME AccountsAssumption ==
  /\ Contracts \subseteq Accounts
  /\ Deployer \in Accounts
  /\ NoAccount \notin Accounts
  /\ NewOwners \subseteq Accounts \cup {NoAccount}
  /\ InitialAuthorizer \in Signers

ASSUME AmountsAssumption ==
  /\ Amounts \subseteq Nat \ {0}
  /\ Donations \subseteq Nat
  /\ Prices \subseteq Int
  /\ Deadlines \subseteq Nat
  /\ ROUND_DURATION \in Nat \ {0}
  /\ FAUCET_AMOUNT \in Nat \ {0}

ASSUME BoundsAssumption ==
  /\ MaxNow \in Nat
  /\ MaxRounds \in Nat
  /\ MaxDonated \in Nat
  /\ MaxDepth \in Nat \ {0}

FEE_PERCENTAGE == 15      \* in thousandths

VARIABLES
  store,    \* the contract's storage, balance and ledger
  stack,    \* the functions waiting for an external call to come back
  now       \* block.timestamp

vars == <<store, stack, now>>

-------------------------------------------------------------------------------
(* Storage.                                                                  *)

UserRound == [roundId    : Nat,
              startTime  : Nat,
              startPrice : Int,
              endPrice   : Int,
              amount     : Nat,
              isUp       : BOOLEAN,
              settled    : BOOLEAN,
              won        : BOOLEAN]

(* What the mapping activeRounds returns for an account that never bet.      *)
NoRound == [roundId |-> 0, startTime |-> 0, startPrice |-> 0, endPrice |-> 0,
            amount |-> 0, isUp |-> FALSE, settled |-> FALSE, won |-> FALSE]

Ledger == [staked    : [Accounts -> Nat],   \* stakes of all rounds begun
           resolved  : [Accounts -> Nat],   \* stakes of the rounds settled
           replaced  : [Accounts -> Nat],   \* stakes of open rounds overwritten
           entitled  : [Accounts -> Nat],   \* payouts of the rounds settled
           paid      : [Accounts -> Nat],   \* received by payout or claim
           gifts     : [Accounts -> Nat],   \* received from the faucet
           won       : Nat,                 \* stakes of the rounds won
           earned    : Nat,                 \* credited to treasuryFees
           withdrawn : Nat,                 \* received by the owner
           donated   : Nat]                 \* plain transfers to the vault

Store == [balance            : Nat,
          authorizer         : Signers,
          owner              : Accounts \cup {NoAccount},
          treasuryFees       : Nat,
          pendingWithdrawals : [Accounts -> Nat],
          activeRounds       : [Accounts -> UserRound],
          userRoundNonce     : [Accounts -> Nat],
          registry           : Registry,
          hasUsedFaucet      : [Accounts -> BOOLEAN],
          ledger             : Ledger]

Nothing == [u \in Accounts |-> 0]

EmptyLedger == [staked |-> Nothing, resolved |-> Nothing, replaced |-> Nothing,
                entitled |-> Nothing, paid |-> Nothing, gifts |-> Nothing,
                won |-> 0, earned |-> 0, withdrawn |-> 0, donated |-> 0]

Deployed == [balance            |-> 0,
             authorizer         |-> InitialAuthorizer,
             owner              |-> Deployer,
             treasuryFees       |-> 0,
             pendingWithdrawals |-> Nothing,
             activeRounds       |-> [u \in Accounts |-> NoRound],
             userRoundNonce     |-> Nothing,
             registry           |-> EmptyRegistry,
             hasUsedFaucet      |-> [u \in Accounts |-> FALSE],
             ledger             |-> EmptyLedger]

(* The bet a function places once the round before it is settled.            *)
Bets  == [amount : Nat, isUp : BOOLEAN, price : Int]
NoBet == [amount |-> 0, isUp |-> FALSE, price |-> 0]

Frames == [kind   : {"settle", "claim", "faucet", "fees"},
           callee : Accounts,
           amount : Nat,
           entry  : Store,     \* when the function began
           atCall : Store,     \* just before the ether leaves
           next   : Bets]

(* Signed quotes: the fields of the hash and the address it recovers to.     *)
RoundIds == 1 .. MaxRounds + MaxDepth

BetSigs    == [signer : Signers, user : Accounts, isUp : BOOLEAN,
               price : Prices, deadline : Deadlines]
SettleSigs == [signer : Signers, user : Accounts, roundId : RoundIds,
               price : Prices, deadline : Deadlines]

-------------------------------------------------------------------------------
(* Slips a maintainer could make in the operators below.  The model checker  *)
(* is run with each in place of the operator it is a variant of, to show     *)
(* that the properties notice.                                               *)

MaturedEarly(r) == now + 1 >= r.startTime + ROUND_DURATION

CalculateWinPayoutWithoutFee(amount) == amount + amount

SettledButOpen(r, price) == [r EXCEPT !.endPrice = price]

SettledWithoutPrice(r, price) ==
  LET won == r.isUp = (price > r.startPrice)
  IN  [r EXCEPT !.settled = TRUE, !.won = @ \/ (won /\ price # r.startPrice)]

DelistNobody(s, u) == s

BookClaimNothing(s, u) == s

BookFaucetNothing(s, u) == s

BookWithdrawalNothing(s) == s

AnyAccount(u) == u \in Accounts

UnexpiredAlways(sig) == sig.deadline \in Int

ForAnyRound(sig, u) == sig.roundId # 0 /\ u \in Accounts

-------------------------------------------------------------------------------
(* Rounds.                                                                   *)

HasActiveRound(s, u) ==
  s.activeRounds[u].roundId # 0 /\ ~s.activeRounds[u].settled

OpenStake(s, u) == IF HasActiveRound(s, u) THEN s.activeRounds[u].amount ELSE 0

(* The test both bet and _settleRound make before a round may be settled.    *)
Matured(r) == now >= r.startTime + ROUND_DURATION

Fee(amount) == (amount * FEE_PERCENTAGE) \div 1000

CalculateWinPayout(amount) == amount + (amount - Fee(amount))

(* The three results of _settleRound: draw, right guess, wrong guess.        *)
IsDraw(r, price) == price = r.startPrice

IsWon(r, price) == ~IsDraw(r, price) /\ r.isUp = (price > r.startPrice)

Payout(r, price) ==
  CASE IsDraw(r, price) -> r.amount
    [] IsWon(r, price)  -> CalculateWinPayout(r.amount)
    [] OTHER            -> 0

(* What _settleRound adds to treasuryFees.                                   *)
HouseShare(r, price) ==
  CASE IsDraw(r, price) -> 0
    [] IsWon(r, price)  -> Fee(r.amount)
    [] OTHER            -> r.amount

(* The round as _settleRound leaves it.                                      *)
Settled(r, price) ==
  [r EXCEPT !.endPrice = price, !.settled = TRUE, !.won = @ \/ IsWon(r, price)]

(* In the ledger a settled round distributes its stake, and the same amount  *)
(* of the vault's if it is won, between the player and the house.            *)
Distribute(l, u, r, price) ==
  [l EXCEPT !.resolved[u] = @ + r.amount,
            !.entitled[u] = @ + Payout(r, price),
            !.won         = @ + (IF IsWon(r, price) THEN r.amount ELSE 0),
            !.earned      = @ + HouseShare(r, price)]

(* _settleRound up to the transfer.                                          *)
ResolveRound(s, u, price) ==
  LET r == s.activeRounds[u]
  IN  [s EXCEPT !.activeRounds[u] = Settled(r, price),
                !.treasuryFees    = @ + HouseShare(r, price),
                !.ledger          = Distribute(@, u, r, price)]

(* In the ledger a new round adds its stake, and one that overwrites an open *)
(* round leaves the stake of that round without a round.                     *)
Stake(l, u, amount, overwritten) ==
  [l EXCEPT !.staked[u] = @ + amount, !.replaced[u] = @ + overwritten]

(* The end of bet: the next number from the nonce as it is now, a new round  *)
(* in place of whatever activeRounds holds, the account on the list.         *)
PlaceBet(s, u, b) ==
  LET newRoundId == s.userRoundNonce[u] + 1
      round == [roundId |-> newRoundId, startTime |-> now, startPrice |-> b.price,
                endPrice |-> 0, amount |-> b.amount, isUp |-> b.isUp,
                settled |-> FALSE, won |-> FALSE]
  IN  [s EXCEPT !.userRoundNonce[u] = newRoundId,
                !.activeRounds[u]   = round,
                !.registry          = ActivateUser(@, u),
                !.ledger            = Stake(@, u, b.amount, OpenStake(s, u))]

(* The rest of _settleRound after the transfer and, when bet made the call,  *)
(* the rest of bet.                                                          *)
Delist(s, u) == [s EXCEPT !.registry = DeactivateUser(@, u)]

FinishSettle(s, u, next) ==
  IF next = NoBet THEN Delist(s, u) ELSE PlaceBet(Delist(s, u), u, next)

-------------------------------------------------------------------------------
(* Ether.                                                                    *)

(* msg.value arrives with the call.                                          *)
Accept(s, amount) == [s EXCEPT !.balance = @ + amount]

(* The transfer of a low-level call, counted by what it pays for.            *)
Send(s, kind, u, amount) ==
  CASE kind \in {"settle", "claim"} ->
         [s EXCEPT !.balance = @ - amount, !.ledger.paid[u] = @ + amount]
    [] kind = "faucet" ->
         [s EXCEPT !.balance = @ - amount, !.ledger.gifts[u] = @ + amount]
    [] kind = "fees" ->
         [s EXCEPT !.balance = @ - amount, !.ledger.withdrawn = @ + amount]

(* The failure branch of _safePayoutOrQueue.                                 *)
QueuePayout(s, u, amount) == [s EXCEPT !.pendingWithdrawals[u] = @ + amount]

(* What claim, faucet and withdrawFees write before they call.               *)
BookClaim(s, u) == [s EXCEPT !.pendingWithdrawals[u] = 0]

BookFaucet(s, u) == [s EXCEPT !.hasUsedFaucet[u] = TRUE]

BookWithdrawal(s) == [s EXCEPT !.treasuryFees = 0]

-------------------------------------------------------------------------------
(* Calls out of the contract.                                                *)

Top == stack[Len(stack)]

Pop == SubSeq(stack, 1, Len(stack) - 1)

(* Any account starts a transaction when none is running; while one waits    *)
(* for a contract, the code of the contracts runs and may call.              *)
MayCall(u) ==
  \/ stack = << >>
  \/ /\ stack # << >>
     /\ Len(stack) < MaxDepth
     /\ Top.callee \in Contracts
     /\ u \in Contracts

(* s, the storage at the call, loses the ether and the callee takes over.    *)
CallOut(kind, u, amount, entry, s, next) ==
  /\ amount <= s.balance
  /\ store' = Send(s, kind, u, amount)
  /\ stack' = Append(stack, [kind |-> kind, callee |-> u, amount |-> amount,
                             entry |-> entry, atCall |-> s, next |-> next])

(* A slip like those above: the failed payment fails the settlement.         *)
SettleRoundOrRevert(s, u, price, next) ==
  LET resolved == ResolveRound(s, u, price)
      payout   == Payout(s.activeRounds[u], price)
  IN  \/ /\ payout > 0
         /\ CallOut("settle", u, payout, store, resolved, next)
      \/ /\ payout = 0
         /\ store' = FinishSettle(resolved, u, next)
         /\ UNCHANGED stack

(* _settleRound for a round found open and matured, called with storage s in *)
(* a function that began with the current store.  The payout goes out, or    *)
(* cannot go out because the vault is short, or there is none.               *)
SettleRound(s, u, price, next) ==
  LET resolved == ResolveRound(s, u, price)
      payout   == Payout(s.activeRounds[u], price)
  IN  \/ /\ payout > 0
         /\ CallOut("settle", u, payout, store, resolved, next)
      \/ /\ payout > resolved.balance
         /\ store' = FinishSettle(QueuePayout(resolved, u, payout), u, next)
         /\ UNCHANGED stack
      \/ /\ payout = 0
         /\ store' = FinishSettle(resolved, u, next)
         /\ UNCHANGED stack

-------------------------------------------------------------------------------
(* The functions.                                                            *)

Init == store = Deployed /\ stack = << >> /\ now = 0

(* A block later.  All of a transaction happens in one block.                *)
Tick ==
  /\ stack = << >>
  /\ now < MaxNow
  /\ now' = now + 1
  /\ UNCHANGED <<store, stack>>

(* _verifySignature: the quote was signed for the caller, by the authorizer. *)
Signed(sig, u) == sig.user = u /\ sig.signer = store.authorizer

(* The deadline of the quote has not passed.                                 *)
Unexpired(sig) == now <= sig.deadline

(* The number settleMyRound puts into the hash is that of the round it finds *)
(* in storage, so only a quote for this round verifies.                      *)
ForRound(sig, u) == sig.roundId = store.activeRounds[u].roundId

(* onlyOwner.                                                                *)
OnlyOwner(u) == u = store.owner

(* bet: a matured round is settled first, at the price of the new quote.     *)
Bet(u, amount, sig) ==
  /\ MayCall(u)
  /\ store.userRoundNonce[u] < MaxRounds
  /\ amount > 0
  /\ Unexpired(sig)
  /\ Signed(sig, u)
  /\ LET b == [amount |-> amount, isUp |-> sig.isUp, price |-> sig.price]
     IN  IF HasActiveRound(store, u)
         THEN /\ Matured(store.activeRounds[u])
              /\ SettleRound(Accept(store, amount), u, sig.price, b)
         ELSE /\ store' = PlaceBet(Accept(store, amount), u, b)
              /\ UNCHANGED stack
  /\ UNCHANGED now

SettleMyRound(u, sig) ==
  /\ MayCall(u)
  /\ Unexpired(sig)
  /\ Signed(sig, u)
  /\ ForRound(sig, u)
  /\ HasActiveRound(store, u)
  /\ Matured(store.activeRounds[u])
  /\ SettleRound(store, u, sig.price, NoBet)
  /\ UNCHANGED now

Claim(u) ==
  /\ MayCall(u)
  /\ store.pendingWithdrawals[u] > 0
  /\ CallOut("claim", u, store.pendingWithdrawals[u], store, BookClaim(store, u), NoBet)
  /\ UNCHANGED now

Faucet(u) ==
  /\ MayCall(u)
  /\ ~store.hasUsedFaucet[u]
  /\ store.balance >= FAUCET_AMOUNT
  /\ CallOut("faucet", u, FAUCET_AMOUNT, store, BookFaucet(store, u), NoBet)
  /\ UNCHANGED now

WithdrawFees(u) ==
  /\ MayCall(u)
  /\ OnlyOwner(u)
  /\ CallOut("fees", u, store.treasuryFees, store, BookWithdrawal(store), NoBet)
  /\ UNCHANGED now

(* A plain transfer reaches receive().                                       *)
Receive(u, amount) ==
  /\ MayCall(u)
  /\ store.ledger.donated + amount <= MaxDonated
  /\ store' = [Accept(store, amount) EXCEPT !.ledger.donated = @ + amount]
  /\ UNCHANGED <<stack, now>>

SetAuthorizer(u, authorizer) ==
  /\ MayCall(u)
  /\ OnlyOwner(u)
  /\ store' = [store EXCEPT !.authorizer = authorizer]
  /\ UNCHANGED <<stack, now>>

(* Ownable's _transferOwnership, which transferOwnership calls with an       *)
(* account and renounceOwnership with address(0).                            *)
TransferOwnership(u, newOwner) ==
  /\ MayCall(u)
  /\ OnlyOwner(u)
  /\ store' = [store EXCEPT !.owner = newOwner]
  /\ UNCHANGED <<stack, now>>

(* The innermost call succeeds, and its function runs to its end on the      *)
(* storage the callee leaves behind.                                         *)
CallReturns ==
  /\ stack # << >>
  /\ store' = IF Top.kind = "settle"
              THEN FinishSettle(store, Top.callee, Top.next)
              ELSE store
  /\ stack' = Pop
  /\ UNCHANGED now

(* A contract refuses its payout: what it did in the call is undone and the  *)
(* payout is queued.                                                         *)
PayoutFails ==
  /\ stack # << >>
  /\ Top.kind = "settle"
  /\ Top.callee \in Contracts
  /\ store' = FinishSettle(QueuePayout(Top.atCall, Top.callee, Top.amount),
                           Top.callee, Top.next)
  /\ stack' = Pop
  /\ UNCHANGED now

(* The innermost function itself fails: the require after the call of claim, *)
(* faucet and withdrawFees, or the gas runs out.  Everything it did is       *)
(* undone, down to its first line.                                           *)
FunctionReverts ==
  /\ stack # << >>
  /\ store' = Top.entry
  /\ stack' = Pop
  /\ UNCHANGED now

(* checkUpkeep is a constant no and performUpkeep always reverts: no step of *)
(* the contract comes from the automation network.                           *)

Admin(u) ==
  \/ WithdrawFees(u)
  \/ \E authorizer \in Signers : SetAuthorizer(u, authorizer)
  \/ \E newOwner \in NewOwners : TransferOwnership(u, newOwner)

Play(u) ==
  \/ \E amount \in Amounts, sig \in BetSigs : Bet(u, amount, sig)
  \/ \E sig \in SettleSigs : SettleMyRound(u, sig)
  \/ Claim(u)
  \/ Faucet(u)
  \/ \E amount \in Donations : Receive(u, amount)

Next ==
  \/ Tick
  \/ \E u \in Accounts : Play(u) \/ Admin(u)
  \/ CallReturns
  \/ PayoutFails
  \/ FunctionReverts

Spec == Init /\ [][Next]_vars

-------------------------------------------------------------------------------
(* Properties.                                                               *)

(* Storage and frames hold values of their Solidity types; no balance, fee   *)
(* or pending withdrawal is ever negative (with checked arithmetic the       *)
(* transaction would revert there).                                          *)
TypeOK ==
  /\ store \in Store
  /\ stack \in Seq(Frames)
  /\ now \in Nat

(* Every settled round's payout reaches its player exactly once: what an     *)
(* account is entitled to was paid out or waits in pendingWithdrawals,       *)
(* whatever the receiver does in the middle of the transfer, and however the *)
(* transfer ends (_safePayoutOrQueue, claim).                                *)
PayoutsAccounted ==
  \A u \in Accounts :
    store.ledger.entitled[u] = store.ledger.paid[u] + store.pendingWithdrawals[u]

(* Every stake is in the open round or in exactly one settled round, and     *)
(* for an account without code no open round is ever overwritten (bet,       *)
(* _settleRound).                                                            *)
StakesAccounted ==
  \A u \in Accounts :
    /\ store.ledger.staked[u] =
         store.ledger.resolved[u] + OpenStake(store, u) + store.ledger.replaced[u]
    /\ u \notin Contracts => store.ledger.replaced[u] = 0

(* What _settleRound credits to the treasury is in treasuryFees until        *)
(* withdrawFees hands it out, once.                                          *)
TreasuryAccounted ==
  store.treasuryFees + store.ledger.withdrawn = store.ledger.earned

(* "ONLY ONCE": an account has the faucet's ether if and only if its flag is *)
(* set, although the flag and the transfer are separate steps of faucet and  *)
(* the receiver may call again in between.                                   *)
FaucetOnce ==
  \A u \in Accounts :
    store.ledger.gifts[u] = IF store.hasUsedFaucet[u] THEN FAUCET_AMOUNT ELSE 0

(* Between transactions an account on the list has an open round, and an     *)
(* account without code that has an open round is on the list, in agreement  *)
(* of array, index and flag (_activateUser and _deactivateUser against bet   *)
(* and _settleRound).                                                        *)
ListMatchesRounds ==
  stack = << >> =>
    /\ RegistryConsistent(store.registry)
    /\ \A u \in Accounts :
         /\ store.registry.isActiveUser[u] => HasActiveRound(store, u)
         /\ u \notin Contracts /\ HasActiveRound(store, u)
              => store.registry.isActiveUser[u]

(* The storage other transactions see.                                       *)
Committed == IF stack = << >> THEN store ELSE stack[1].entry

(* No transaction, bet on top of it or settlement, takes away an open round  *)
(* before it has run for ROUND_DURATION.                                     *)
RoundRunsFullDuration ==
  [][\A u \in Accounts :
       HasActiveRound(Committed, u) /\ Committed'.activeRounds[u] # Committed.activeRounds[u]
         => now >= Committed.activeRounds[u].startTime + ROUND_DURATION]_vars

(* Seen from outside a transaction a round that is not open never changes,   *)
(* except that a later round takes its place: neither its result nor its     *)
(* prices are revised, and round numbers only grow.                          *)
ResultsAreFinal ==
  [][\A u \in Accounts :
       LET r == Committed.activeRounds[u]  r2 == Committed'.activeRounds[u]
       IN  r2 # r => \/ r2.roundId > r.roundId
                     \/ r2.roundId = r.roundId /\ ~r.settled /\ r2.settled]_vars

(* Once ownership is renounced nobody can take fees or replace the           *)
(* authorizer again, even if the renouncing call came in the middle of       *)
(* withdrawFees (Ownable, withdrawFees, setAuthorizer).                      *)
RenouncedForGood ==
  [][Committed.owner = NoAccount =>
       /\ Committed'.owner = NoAccount
       /\ Committed'.authorizer = Committed.authorizer
       /\ Committed'.ledger.withdrawn = Committed.ledger.withdrawn]_vars
===============================================================================
