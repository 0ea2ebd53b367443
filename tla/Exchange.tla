------------------------------ MODULE Exchange ------------------------------
(***************************************************************************)
(* What the order book of an asset promises, without deques, positions or  *)
(* loops: a set of open orders.  Two of them trade when each accepts the   *)
(* other's price, the bid is the one that outranks all other bids, and no  *)
(* older limit ask waits at the same price.                                *)
(***************************************************************************)
EXTENDS Integers, Sequences

CONSTANT Orders \* all orders: [sequence, type, matchType, price, quantity]

VARIABLES
  open,  \* the orders with a quantity left
  trades \* the trades, each with its two orders as they were before it

vars == <<open, trades>>

Asks == {o \in open : o.type = "Ask"}
Bids == {o \in open : o.type = "Bid"}

(* Market before limit, then the higher price among limits, then the older.*)
Outranks(a, b) ==
  \/ a.matchType = "Market" /\ b.matchType = "Limit"
  \/ a.matchType = "Limit" /\ b.matchType = "Limit" /\ a.price > b.price
  \/ /\ a.matchType = b.matchType
     /\ a.matchType = "Limit" => a.price = b.price
     /\ a.sequence < b.sequence

BestBid(b) == b \in Bids /\ \A c \in Bids \ {b} : Outranks(b, c)

OldestAtPrice(a) ==
  /\ a \in Asks
  /\ \A c \in Asks : a.matchType = "Limit" /\ c.matchType = "Limit" /\ c.price = a.price
                       => a.sequence <= c.sequence

(* The market price: that of the last trade, 0 before the first.           *)
LastPrice == IF trades = <<>> THEN 0 ELSE trades[Len(trades)].tradedPrice

(* A limit order trades at its limit or better, a bid at its own price, and*)
(* two market orders at the market price.                                  *)
Acceptable(a, b, price) ==
  /\ a.matchType = "Limit" => price >= a.price
  /\ b.matchType = "Limit" => price <= b.price
  /\ a.matchType = "Market" /\ b.matchType = "Market" => price = LastPrice

(* What is left of o once q of it is traded.                               *)
Rest(o, q) == IF o.quantity > q THEN {[o EXCEPT !.quantity = @ - q]} ELSE {}

Init ==
  /\ open = {}
  /\ trades = <<>>

Enter(o) ==
  /\ o.quantity > 0
  /\ \A p \in open : p.sequence < o.sequence
  /\ open' = open \cup {o}
  /\ UNCHANGED trades

Trade(a, b, q, price) ==
  /\ OldestAtPrice(a)
  /\ BestBid(b)
  /\ Acceptable(a, b, price)
  /\ 0 < q /\ q <= a.quantity /\ q <= b.quantity /\ q \in {a.quantity, b.quantity}
  /\ open' = (open \ {a, b}) \cup Rest(a, q) \cup Rest(b, q)
  /\ trades' = Append(trades, [askOrder |-> a, bidOrder |-> b,
                               tradedQuantity |-> q, tradedPrice |-> price])

Next ==
  \/ \E o \in Orders : Enter(o)
  \/ \E a \in Asks, b \in Bids :
       \E q \in {a.quantity, b.quantity}, price \in {a.price, b.price, LastPrice} :
         Trade(a, b, q, price)

Spec == Init /\ [][Next]_vars
==============================================================================
