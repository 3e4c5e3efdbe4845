----------------------------- MODULE GlowStickBooks -----------------------------
(*****************************************************************************)
(* The books of GlowStick.sol added up over all accounts: what the vault     *)
(* holds against what it owes.  The contract keeps no such totals; whether a *)
(* payout can be sent depends on them.                                       *)
(*                                                                           *)
(* And the game as its players see it, whatever the vault holds.             *)
(*****************************************************************************)
EXTENDS GlowStick, Functions, FiniteSets

(* Addresses have 160 bits.                                                  *)
ASSUME FiniteAccounts == IsFiniteSet(Accounts)

(* Stakes that arrived with a bet which is still settling the round before.  *)
InTransit == SumFunction([i \in DOMAIN stack |-> stack[i].next.amount])

OpenStakes == SumFunction([u \in Accounts |-> OpenStake(store, u)])

(* What the contract owes to players and owner.                              *)
Debts == OpenStakes + SumFunction(store.pendingWithdrawals) + store.treasuryFees

-------------------------------------------------------------------------------
(* The game is a zero-sum bet against the vault: the payouts of the settled  *)
(* rounds and the share of the house are the stakes of these rounds and, for *)
(* each round won, as much again (_settleRound, calculateWinPayout).  No wei *)
(* is lost in the rounding of the fee.                                       *)
ZeroSum ==
  SumFunction(store.ledger.entitled) + store.ledger.earned
    = SumFunction(store.ledger.resolved) + store.ledger.won

(* At every moment, in the middle of a call as well, the vault holds what it *)
(* owes (open stakes, queued payouts, the treasury, a stake in transit) plus *)
(* what was donated, less the winnings and the faucet's gifts, which nobody  *)
(* but the donors pays for.                                                  *)
VaultEquation ==
  store.balance + store.ledger.won + SumFunction(store.ledger.gifts)
    = Debts + InTransit + store.ledger.donated + SumFunction(store.ledger.replaced)

(* A payout to an account without code is queued only when the donations do  *)
(* not cover the winnings and the gifts so far (_safePayoutOrQueue): in a    *)
(* funded vault every such player is paid in the settling transaction.       *)
QueuedOnlyWhenUnderfunded ==
  [][\A u \in Accounts \ Contracts :
       store'.pendingWithdrawals[u] > store.pendingWithdrawals[u] /\ stack = << >>
         => store'.ledger.donated
              < store'.ledger.won + SumFunction(store'.ledger.gifts)]_vars

-------------------------------------------------------------------------------
(* What storage s tells about account u: the last round as the result frame  *)
(* presents it, the queued payouts and the ether received for rounds.        *)
Result(r) ==
  IF r.roundId = 0 THEN "none"
  ELSE IF ~r.settled THEN "open"
  ELSE IF r.endPrice = r.startPrice THEN "draw"
  ELSE IF r.won THEN "won" ELSE "lost"

PlayerIn(s, u) ==
  LET r == s.activeRounds[u]
  IN  [round    |-> r.roundId,
       since    |-> r.startTime,
       from     |-> r.startPrice,
       stake    |-> r.amount,
       up       |-> r.isUp,
       result   |-> Result(r),
       owed     |-> s.pendingWithdrawals[u],
       received |-> s.ledger.paid[u]]

(* To players without code the contract is the atomic game: though their     *)
(* functions stop in the middle for a transfer, contracts call each other in *)
(* theirs, and any of it may fail and be undone, what other transactions see *)
(* of such a player changes by whole moves only, each decided at one price,  *)
(* paid or queued once, and by nobody else's transaction (bet,               *)
(* settleMyRound, claim).                                                    *)
AtomicGame == INSTANCE Game WITH
  Players  <- Accounts \ Contracts,
  Stakes   <- Amounts,
  Quotes   <- Prices,
  Duration <- ROUND_DURATION,
  player   <- [p \in Accounts \ Contracts |-> PlayerIn(Committed, p)],
  time     <- now

ImplementsGame == AtomicGame!Spec
===============================================================================
