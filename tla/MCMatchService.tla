--------------------------- MODULE MCMatchService ----------------------------
(* Orders of two sides that leave a rest of each other, and a cancel.      *)
EXTENDS MatchService

CONSTANT tklam

Of(type, matchType, price, quantity) ==
  [type |-> type, matchType |-> matchType, price |-> price, quantity |-> quantity]

Various ==
  {Of("Ask", "Limit", 1, 2), Of("Bid", "Market", 4, 3), Of("Cancel", "Limit", 2, 1)}
==============================================================================
