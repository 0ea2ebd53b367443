---------------------------- MODULE MCOrderBook -----------------------------
(* The orders that arrive at a small book.                                 *)
EXTENDS OrderBook

Of(type, matchType, price, quantity) ==
  [type |-> type, matchType |-> matchType, price |-> price, quantity |-> quantity]

(* Of both sides and kinds, with one lot or two, at two prices; a cancel.  *)
Mixed ==
  {Of("Ask", "Limit", 1, 1), Of("Ask", "Limit", 1, 2), Of("Ask", "Limit", 2, 1),
   Of("Ask", "Market", 2, 1), Of("Bid", "Limit", 1, 1), Of("Bid", "Limit", 2, 1),
   Of("Bid", "Limit", 2, 2), Of("Bid", "Market", 1, 1), Of("Cancel", "Limit", 1, 1)}

(* README.md: MatchOrderService returns a result for the orders it gets.   *)
(* It can only once match() has returned.                                  *)
ResultReturned == batched ~> (pc = "adding" /\ ~batched)
==============================================================================
