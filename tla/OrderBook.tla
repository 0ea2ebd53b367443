----------------------------- MODULE OrderBook ------------------------------
(***************************************************************************)
(* The order book of an asset (OrderBook.cpp, OrderBook.h) and the thread  *)
(* of MatchEngineService that works on it (MatchOrderBook.hxx): add every  *)
(* order of a batch to the asks or the bids, each deque kept in order of   *)
(* priority by a binary search, then match the two deques.                 *)
(*                                                                         *)
(* A step is one order taken from the batch, one call of addOrder_R, one   *)
(* turn of match()'s inner loop that trades, or one end of that loop.      *)
(* Prices and quantities count ten-thousandths, the unit of PutOrder, far  *)
(* above the epsilon the code compares with.                               *)
(***************************************************************************)
EXTENDS Integers, Sequences, SequencesExt

CONSTANTS
  Requests,       \* the orders that arrive, without their sequence number
  TradedRingSize, \* slots of the ring the trades are committed to
  NoOrder,        \* no order is being placed
  MaxOrders       \* bound: the highest sequence number

ASSUME RequestAssumption ==
  Requests \subseteq [type : {"Ask", "Bid", "Cancel"}, matchType : {"Market", "Limit"},
                      price : Nat, quantity : Nat \ {0}]

ASSUME BoundAssumption == MaxOrders \in Nat /\ TradedRingSize \in Nat \ {0}

VARIABLES
  asks, bids,           \* _asks and _bids
  totalAsks, totalBids, \* _totalAsksSize and _totalBidsSize
  marketPrice,
  trades,               \* what was committed to the ring of traded orders
  pc,                   \* "adding", "placing" (in addOrder_R) or "matching"
  sequence,             \* the least sequence number the next order can have
  batched,              \* the batch has given an order already
  order, first, last,   \* the arguments of addOrder_R, positions from 0
  askIt, bidIt,         \* match()'s iterators, positions from 1
  isMatchAsk,           \* the ask at askIt has traded in this call
  before                \* history: how many trades preceded this match()

vars == <<asks, bids, totalAsks, totalBids, marketPrice, trades, pc, sequence, batched,
          order, first, last, askIt, bidIt, isMatchAsk, before>>
book == <<asks, bids, totalAsks, totalBids>>
search == <<order, first, last>>
loops == <<askIt, bidIt, isMatchAsk, before>>

(* A request with the number PutOrder gave it.                             *)
Numbered(r, n) ==
  [sequence |-> n, type |-> r.type, matchType |-> r.matchType,
   price |-> r.price, quantity |-> r.quantity]

(* The orders that can enter the book, and what they can become.           *)
Entrants == {Numbered(r, n) : r \in {x \in Requests : x.type # "Cancel"}, n \in 1 .. MaxOrders}

Orders ==
  [sequence : Nat, type : {"Ask", "Bid"}, matchType : {"Market", "Limit"},
   price : Nat, quantity : Nat]

Init ==
  /\ asks = <<>> /\ bids = <<>>
  /\ totalAsks = 0 /\ totalBids = 0
  /\ marketPrice = 0
  /\ trades = <<>>
  /\ pc = "adding"
  /\ sequence = 1
  /\ batched = FALSE
  /\ order = NoOrder /\ first = 0 /\ last = 0
  /\ askIt = 1 /\ bidIt = 1 /\ isMatchAsk = FALSE /\ before = 0

------------------------------------------------------------------------------
(* MatchOrderBook::match, for(const Order & o : Get()) addOrder(o).        *)

(* SortBidOrders and SortAskOrders, whose bodies are the same.             *)
HigherPriority(a, b) ==
  \/ a.matchType = "Market" /\ b.matchType = "Limit"
  \/ /\ a.matchType = "Market" /\ b.matchType = "Market"
     /\ a.sequence < b.sequence
  \/ /\ a.matchType = "Limit" /\ b.matchType = "Limit"
     /\ a.price > b.price \/ (a.price = b.price /\ a.sequence < b.sequence)

(* The deque the order being placed belongs to.                            *)
Side == IF order.type = "Ask" THEN asks ELSE bids

(* Orders arrive with ascending numbers, and gaps where some were dropped. *)
Arrives(r, n) ==
  /\ pc = "adding"
  /\ n \in sequence .. MaxOrders
  /\ sequence' = n + 1
  /\ batched' = TRUE
  /\ UNCHANGED <<book, marketPrice, trades, loops>>

(* addOrder on an ask or a bid: the first call of addOrder_R.              *)
AddOrder(r, n) ==
  /\ Arrives(r, n)
  /\ r.type # "Cancel"
  /\ pc' = "placing"
  /\ order' = Numbered(r, n)
  /\ first' = 0
  /\ last' = Len(IF r.type = "Ask" THEN asks ELSE bids)

(* addOrder on a cancel does nothing.                                      *)
AddCancel(r, n) ==
  /\ Arrives(r, n)
  /\ r.type = "Cancel"
  /\ UNCHANGED <<pc, search>>

(* Mutant: the two halves are swapped.                                     *)
HalveSwapped ==
  LET mid == (first + last) \div 2 IN
  /\ pc = "placing"
  /\ first # last
  /\ IF HigherPriority(order, Side[mid + 1])
     THEN first' = mid + 1 /\ UNCHANGED last
     ELSE last' = mid /\ UNCHANGED first
  /\ UNCHANGED <<book, marketPrice, trades, pc, sequence, batched, order, loops>>

(* addOrder_R calls itself on one half of [first, last).                   *)
Halve ==
  LET mid == (first + last) \div 2 IN
  /\ pc = "placing"
  /\ first # last
  /\ IF HigherPriority(order, Side[mid + 1])
     THEN last' = mid /\ UNCHANGED first
     ELSE first' = mid + 1 /\ UNCHANGED last
  /\ UNCHANGED <<book, marketPrice, trades, pc, sequence, batched, order, loops>>

(* addOrder_R inserts; addOrder counts.                                    *)
Insert ==
  /\ pc = "placing"
  /\ first = last
  /\ IF order.type = "Ask"
     THEN /\ asks' = InsertAt(asks, first + 1, order)
          /\ totalAsks' = totalAsks + 1
          /\ UNCHANGED <<bids, totalBids>>
     ELSE /\ bids' = InsertAt(bids, first + 1, order)
          /\ totalBids' = totalBids + 1
          /\ UNCHANGED <<asks, totalAsks>>
  /\ pc' = "adding"
  /\ order' = NoOrder /\ first' = 0 /\ last' = 0
  /\ UNCHANGED <<marketPrice, trades, sequence, batched, loops>>

------------------------------------------------------------------------------
(* OrderBook::match.                                                       *)

(* The batch, of one order at least, is over.                              *)
BeginMatch ==
  /\ pc = "adding"
  /\ batched
  /\ pc' = "matching"
  /\ batched' = FALSE
  /\ before' = Len(trades)
  /\ UNCHANGED <<book, marketPrice, trades, sequence, search, askIt, bidIt, isMatchAsk>>

(* The four branches: a limit ask accepts a bid's price or better, a limit *)
(* bid is met only by an ask priced at it or above.                        *)
Matches(a, b) ==
  /\ a.matchType = "Limit" => a.price <= b.price
  /\ b.matchType = "Limit" => b.price <= a.price

(* Mutant: the trade is at the price of the ask.                           *)
AskPrice(a, b) ==
  IF a.matchType = "Market" /\ b.matchType = "Market" THEN marketPrice ELSE a.price

TradePrice(a, b) ==
  IF a.matchType = "Market" /\ b.matchType = "Market" THEN marketPrice ELSE b.price

(* Mutant: a trade is of the whole bid.                                    *)
BidQuantity(a, b) == b.quantity

TradeQuantity(a, b) == IF b.quantity < a.quantity THEN b.quantity ELSE a.quantity

(* The inner loop is at a pair of orders that match.                       *)
AtMatch ==
  /\ askIt <= Len(asks) /\ bidIt <= Len(bids)
  /\ asks[askIt].quantity # 0
  /\ Matches(asks[askIt], bids[bidIt])

(* A turn of the inner loop that trades.  The commit is a Put on a ring    *)
(* whose one Get, PUB_TRADED_ORDER_GET, no thread runs: it returns as long *)
(* as the ring has a slot never used.                                      *)
Trade ==
  LET a == asks[askIt]
      b == bids[bidIt]
      q == TradeQuantity(a, b)
  IN
  /\ pc = "matching"
  /\ AtMatch
  /\ Len(trades) < TradedRingSize
  /\ trades' = Append(trades, [askOrder |-> a, bidOrder |-> b,
                               tradedQuantity |-> q, tradedPrice |-> TradePrice(a, b)])
  /\ marketPrice' = TradePrice(a, b)
  /\ asks' = [asks EXCEPT ![askIt].quantity = @ - q]
  /\ IF b.quantity = q
     THEN bids' = RemoveAt(bids, bidIt) /\ UNCHANGED bidIt
     ELSE bids' = [bids EXCEPT ![bidIt].quantity = @ - q] /\ bidIt' = bidIt + 1
  /\ isMatchAsk' = TRUE
  /\ UNCHANGED <<totalAsks, totalBids, pc, sequence, batched, search, askIt, before>>

(* Mutant: an ask that has traded counts as filled.                        *)
TradedSome == isMatchAsk

(* The inner loop ends, with the ask that traded in it filled.             *)
Filled == isMatchAsk /\ asks[askIt].quantity = 0

(* Mutant: the inner loop goes on from where the last one ended.           *)
LeaveAskOnly ==
  /\ pc = "matching"
  /\ askIt <= Len(asks)
  /\ ~AtMatch
  /\ isMatchAsk' = FALSE
  /\ UNCHANGED <<bids, totalAsks, totalBids, marketPrice, trades, pc, sequence, batched,
                 search, bidIt, before>>

LeaveAsk ==
  /\ pc = "matching"
  /\ askIt <= Len(asks)
  /\ ~AtMatch
  /\ bidIt' = 1
  /\ isMatchAsk' = FALSE
  /\ UNCHANGED <<bids, totalAsks, totalBids, marketPrice, trades, pc, sequence, batched,
                 search, before>>

EraseAsk ==
  /\ LeaveAsk
  /\ Filled
  /\ asks' = RemoveAt(asks, askIt)
  /\ UNCHANGED askIt

(* Mutant: pass over two asks.                                             *)
PassTwo ==
  /\ LeaveAsk
  /\ ~Filled
  /\ askIt' = askIt + 2
  /\ UNCHANGED asks

PassAsk ==
  /\ LeaveAsk
  /\ ~Filled
  /\ askIt' = askIt + 1
  /\ UNCHANGED asks

(* Mutant: the outer loop stops at the last ask.                           *)
MatchReturnsEarly ==
  /\ pc = "matching"
  /\ askIt >= Len(asks)
  /\ pc' = "adding"
  /\ askIt' = 1
  /\ UNCHANGED <<book, marketPrice, trades, sequence, batched, search, bidIt, isMatchAsk, before>>

MatchReturns ==
  /\ pc = "matching"
  /\ askIt > Len(asks)
  /\ pc' = "adding"
  /\ askIt' = 1
  /\ UNCHANGED <<book, marketPrice, trades, sequence, batched, search, bidIt, isMatchAsk, before>>

------------------------------------------------------------------------------
Place == Halve \/ Insert
Match == Trade \/ EraseAsk \/ PassAsk \/ MatchReturns

Next ==
  \/ \E r \in Requests, n \in 1 .. MaxOrders : AddOrder(r, n) \/ AddCancel(r, n)
  \/ Place
  \/ BeginMatch
  \/ Match

Spec == Init /\ [][Next]_vars

(* The matching thread keeps running, and the end of a batch is fixed when *)
(* the batch begins.                                                       *)
FairSpec == Spec /\ WF_vars(Place) /\ WF_vars(BeginMatch) /\ WF_vars(Match)
------------------------------------------------------------------------------
(* Type correctness.                                                       *)
TypeOK ==
  /\ asks \in Seq(Orders) /\ bids \in Seq(Orders)
  /\ totalAsks \in Nat /\ totalBids \in Nat
  /\ marketPrice \in Nat
  /\ trades \in Seq([askOrder : Orders, bidOrder : Orders,
                     tradedQuantity : Nat, tradedPrice : Nat])
  /\ pc \in {"adding", "placing", "matching"}
  /\ sequence \in Nat \ {0}
  /\ batched \in BOOLEAN
  /\ order \in Orders \cup {NoOrder}
  /\ pc = "placing" => order \in Orders
  /\ first \in Nat /\ last \in Nat
  /\ askIt \in Nat \ {0} /\ bidIt \in Nat \ {0}
  /\ isMatchAsk \in BOOLEAN
  /\ before \in Nat

------------------------------------------------------------------------------
(* The parts of the inductive invariant.                                   *)

Sorted(s) == \A i, j \in 1 .. Len(s) : i < j => HigherPriority(s[i], s[j])

(* Every order is in the deque of its type, and older than the next one.   *)
Placed ==
  /\ \A i \in 1 .. Len(asks) : asks[i].type = "Ask" /\ asks[i].sequence < sequence
  /\ \A i \in 1 .. Len(bids) : bids[i].type = "Bid" /\ bids[i].sequence < sequence

(* addOrder_R's call: everything before first has a higher priority than   *)
(* the order, everything from last on a lower one.                         *)
SearchBounds ==
  pc = "placing" =>
    /\ batched
    /\ order \in Entrants /\ order.sequence = sequence - 1
    /\ first <= last /\ last <= Len(Side)
    /\ \A i \in 1 .. Len(asks) : asks[i].sequence < order.sequence
    /\ \A i \in 1 .. Len(bids) : bids[i].sequence < order.sequence
    /\ \A i \in 1 .. first : HigherPriority(Side[i], order)
    /\ \A i \in last + 1 .. Len(Side) : HigherPriority(order, Side[i])

(* The inner loop never goes past the first bid unless the ask is filled.  *)
LoopShape ==
  /\ pc # "matching" => askIt = 1
  /\ askIt <= Len(asks) + 1
  /\ isMatchAsk => pc = "matching" /\ askIt <= Len(asks) /\ before < Len(trades)
  /\ before <= Len(trades)
  /\ bidIt = 1 \/ (bidIt = 2 /\ isMatchAsk /\ asks[askIt].quantity = 0)

(* Every resting order has a quantity, but for an ask just filled.         *)
Remaining ==
  /\ \A i \in 1 .. Len(bids) : bids[i].quantity > 0
  /\ \A i \in 1 .. Len(asks) : asks[i].quantity = 0 => i = askIt /\ isMatchAsk

------------------------------------------------------------------------------
(* Properties.                                                             *)

(* OrderBook.h, SortBidOrders and SortAskOrders: addOrder_R's binary search*)
(* keeps both deques strictly in order of priority, in the middle of a     *)
(* match as well, so that the first bid is the best one.                   *)
BooksSorted == Sorted(asks) /\ Sorted(bids)

(* match() trades in time priority at a limit price: an older limit ask    *)
(* that was passed over in this call never matches the first bid while a   *)
(* younger one at the same price has its turn.                             *)
NoYoungerFirst ==
  pc = "matching" /\ askIt <= Len(asks) =>
    \A i \in 1 .. askIt - 1 :
      /\ asks[i].matchType = "Limit" /\ asks[askIt].matchType = "Limit"
      /\ asks[i].price = asks[askIt].price
      => ~isMatchAsk /\ (bids # <<>> => ~Matches(asks[i], bids[1]))

(* marketPrice is the price of the last trade, 0 before the first, which   *)
(* is what two market orders trade at.                                     *)
MarketPriceIsLast ==
  marketPrice = IF trades = <<>> THEN 0 ELSE trades[Len(trades)].tradedPrice

(* A call of match() that trades nothing leaves no ask that matches the    *)
(* first bid: it is enough to look at the first bid for every ask.  (A call*)
(* that does trade may leave one, which waits for the next batch.)         *)
QuietWhenDone ==
  bids # <<>> /\ Len(trades) = before =>
    /\ pc = "matching" => \A i \in 1 .. askIt - 1 : ~Matches(asks[i], bids[1])
    /\ pc = "adding" /\ ~batched => \A i \in 1 .. Len(asks) : ~Matches(asks[i], bids[1])

(* Every trade fills one of its orders, so that the ring of traded orders  *)
(* never holds more trades than orders have left the book.                 *)
TradesAreFills ==
  Len(trades) <= (totalAsks - Len(asks)) + (totalBids - Len(bids))
                 + (IF \E i \in 1 .. Len(asks) : asks[i].quantity = 0 THEN 1 ELSE 0)

(* The inductive invariant.                                                *)
IInv ==
  /\ TypeOK
  /\ BooksSorted
  /\ Placed
  /\ SearchBounds
  /\ LoopShape
  /\ Remaining
  /\ NoYoungerFirst
  /\ MarketPriceIsLast
  /\ QuietWhenDone
  /\ TradesAreFills

(* What the book promises to those who trade.                              *)
Open == {o \in ToSet(asks) \cup ToSet(bids) : o.quantity # 0}
Promise == INSTANCE Exchange WITH Orders <- Entrants, open <- Open, trades <- trades
ExchangePromise == Promise!Spec
==============================================================================
