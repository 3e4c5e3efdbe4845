------------------------------ MODULE GlowStickDocs -----------------------------
(*****************************************************************************)
(* A message of the contract, stated as a property.  GlowStick.sol does not  *)
(* keep it; the run DocReplaced shows how.                                   *)
(*****************************************************************************)
EXTENDS GlowStickBooks

(* The require of bet: "Active round exists".  No bet takes the place of a   *)
(* round that is still open, so no stake ends up in no round at all.         *)
ActiveRoundNotReplaced ==
  \A u \in Accounts : store.ledger.replaced[u] = 0
===============================================================================
