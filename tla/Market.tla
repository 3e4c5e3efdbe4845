--------------------------------- MODULE Market ---------------------------------
(*****************************************************************************)
(* The server that signs quotes (routes /bet and /settle of route.tsx), the  *)
(* exchange it asks for prices, and the wallets that send the signed quotes  *)
(* to the contract some time later, again, or never.                         *)
(*                                                                           *)
(* Module GlowStick lets every quote exist at any time; here a quote exists  *)
(* once the server has signed it.  The players are accounts without code.    *)
(* The functions of the contract that touch neither rounds nor quotes        *)
(* (claim, faucet, withdrawFees, receive and the transfer of ownership) are  *)
(* left to GlowStick's own runs.                                             *)
(*****************************************************************************)
EXTENDS GlowStick, FiniteSets

CONSTANTS
  Backend,       \* the address of the server's key
  LIFETIME,      \* how long a quote is valid by the chain's clock: 3600 s
                 \* and what the server's clock is ahead (less: behind)
  MaxAsked,      \* bound: settlement quotes in preparation
  MaxQuotes      \* bound: quotes the wallets hold

ASSUME MarketAssumption ==
  /\ Contracts = {}
  /\ Backend \in Signers
  /\ LIFETIME \in Nat
  /\ MaxAsked \in Nat
  /\ MaxQuotes \in Nat

VARIABLES
  market,         \* market[t] is the exchange's price at time t
  asked,          \* requests of /settle that have read the round's number
  betQuotes,      \* signed quotes in the wallets
  settleQuotes

game == <<store, stack, now>>
server == <<market, asked, betQuotes, settleQuotes>>

-------------------------------------------------------------------------------
(* The server.  A route signs for the address getUserAddress finds, which    *)
(* need not be the one that sends the transaction.  Quotes for the zero      *)
(* address, when it finds none, are of no use to any wallet and left out.    *)

(* Both routes: the server's clock plus an hour.                             *)
Deadline == now + LIFETIME

RoomForQuote == Cardinality(betQuotes) + Cardinality(settleQuotes) < MaxQuotes

(* The numbers a read of activeRounds may leave in roundId: 0 when it fails  *)
(* and the catch ignores that, or the number at any time up to now, as nodes *)
(* lag behind the chain.                                                     *)
RoundIdsRead(user) == 0 .. Committed.activeRounds[user].roundId

(* /bet/:direction.                                                          *)
BetRoute(user, isUp) ==
  /\ RoomForQuote
  /\ betQuotes' = betQuotes \cup {[signer |-> Backend, user |-> user, isUp |-> isUp,
                                   price |-> market[now], deadline |-> Deadline]}
  /\ UNCHANGED <<game, market, asked, settleQuotes>>

(* /settle up to the read of the round's number ...                          *)
SettleRouteReads(user, roundId) ==
  /\ Cardinality(asked) < MaxAsked
  /\ asked' = asked \cup {[user |-> user, roundId |-> roundId]}
  /\ UNCHANGED <<game, market, betQuotes, settleQuotes>>

(* ... and from the price on.  In between the chain and the market move on.  *)
SettleRouteSigns(user, roundId) ==
  /\ [user |-> user, roundId |-> roundId] \in asked
  /\ RoomForQuote
  /\ asked' = asked \ {[user |-> user, roundId |-> roundId]}
  /\ settleQuotes' = settleQuotes \cup
       {[signer |-> Backend, user |-> user, roundId |-> roundId,
         price |-> market[now], deadline |-> Deadline]}
  /\ UNCHANGED <<game, market, betQuotes>>

-------------------------------------------------------------------------------
(* Exchange, wallets and contract.                                           *)

(* A block later, at another price.                                          *)
Advance(price) ==
  /\ Tick
  /\ market' = [t \in 0 .. now + 1 |-> IF t = now + 1 THEN price ELSE market[t]]
  /\ UNCHANGED <<asked, betQuotes, settleQuotes>>

(* The wallet keeps the quote it has sent.                                   *)
SendBet(u) ==
  /\ \E amount \in Amounts, sig \in betQuotes : Bet(u, amount, sig)
  /\ UNCHANGED server

SendSettle(u) ==
  /\ \E sig \in settleQuotes : SettleMyRound(u, sig)
  /\ UNCHANGED server

(* The dialog is closed.                                                     *)
Discard ==
  /\ \/ \E sig \in betQuotes : betQuotes' = betQuotes \ {sig} /\ UNCHANGED settleQuotes
     \/ \E sig \in settleQuotes : settleQuotes' = settleQuotes \ {sig} /\ UNCHANGED betQuotes
  /\ UNCHANGED <<game, market, asked>>

ChangeAuthorizer ==
  /\ \E u \in Accounts, authorizer \in Signers : SetAuthorizer(u, authorizer)
  /\ UNCHANGED server

PayoutArrives == CallReturns /\ UNCHANGED server

GasRunsOut == FunctionReverts /\ UNCHANGED server

MarketInit ==
  /\ Init
  /\ \E price \in Prices : market = [t \in {0} |-> price]
  /\ asked = {}
  /\ betQuotes = {}
  /\ settleQuotes = {}

MarketNext ==
  \/ \E price \in Prices : Advance(price)
  \/ \E user \in Accounts, isUp \in BOOLEAN : BetRoute(user, isUp)
  \/ \E user \in Accounts : \E roundId \in RoundIdsRead(user) : SettleRouteReads(user, roundId)
  \/ \E user \in Accounts, roundId \in 0 .. MaxRounds : SettleRouteSigns(user, roundId)
  \/ \E u \in Accounts : SendBet(u) \/ SendSettle(u)
  \/ Discard
  \/ ChangeAuthorizer
  \/ PayoutArrives
  \/ GasRunsOut

marketVars == <<game, server>>

MarketSpec == MarketInit /\ [][MarketNext]_marketVars

(* A player who keeps trying.  The clock runs; every request that read a     *)
(* number is answered, and of the reads infinitely many are up to date; the  *)
(* wallet makes room for new quotes, does not close every dialog, and does   *)
(* not always run out of gas.                                                *)
Persistence ==
  /\ WF_marketVars(\E price \in Prices : Advance(price))
  /\ WF_marketVars(Discard)
  /\ \A u \in Accounts :
        /\ \A n \in 0 .. MaxRounds : SF_marketVars(SettleRouteSigns(u, n))
        /\ SF_marketVars(SettleRouteReads(u, Committed.activeRounds[u].roundId))
        /\ SF_marketVars(SendSettle(u))
  /\ SF_marketVars(PayoutArrives)

FairMarketSpec == MarketSpec /\ Persistence

-------------------------------------------------------------------------------
(* Properties.                                                               *)

(* A round starts at a price the exchange had within the lifetime of a       *)
(* quote before the bet, however late, often or out of order the wallet uses *)
(* the quotes it holds (/bet and bet).                                       *)
StartPriceIsRecent ==
  \A u \in Accounts :
    LET r == store.activeRounds[u]
    IN  r.roundId # 0 =>
          \E t \in 0 .. r.startTime :
            t >= r.startTime - LIFETIME /\ market[t] = r.startPrice

(* settleMyRound ends a round at a price the exchange had since the round    *)
(* began: neither a late answer of /settle, nor a read of an outdated node,  *)
(* nor a quote left over from an earlier round brings in an older price.     *)
EndPriceFromRound ==
  stack = << >> =>
    \A u \in Accounts :
      LET r == store.activeRounds[u]
      IN  r.settled => \E t \in r.startTime .. now : market[t] = r.endPrice

(* A round of a player who keeps trying is settled once it has matured, as   *)
(* long as the server's key remains the authorizer: never does the state of  *)
(* the vault, of the queue or of the quotes leave a round that no quote can  *)
(* settle.                                                                   *)
PersistentPlayerSettles ==
  <>[](store.authorizer = Backend) =>
    \A u \in Accounts, n \in 1 .. MaxRounds :
      /\ Committed.activeRounds[u].roundId = n
      /\ Matured(Committed.activeRounds[u])
      ~> \/ Committed.activeRounds[u].roundId # n
         \/ Committed.activeRounds[u].settled
===============================================================================
