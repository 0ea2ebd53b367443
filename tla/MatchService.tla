---------------------------- MODULE MatchService -----------------------------
(***************************************************************************)
(* A process of MatchEngineService: the thread that receives orders        *)
(* (MatchEngineService.cpp, FillOrderBook.hxx), the ring of orders, the    *)
(* thread that adds and matches a batch (MatchOrderBook.hxx), the book and *)
(* the ring of trades nobody reads.                                        *)
(*                                                                         *)
(* The book is OrderBook, whose orders come off the ring here; the commands*)
(* are those of Wire; the ring is that of Disruptor, with one producer and *)
(* one reader, and a Put that has room is a step.                          *)
(***************************************************************************)
EXTENDS OrderBook, Wire

CONSTANTS
  Code,      \* the asset of this service
  Size,      \* slots in the ring of orders
  HighWater, \* messages the pipe from the broker holds
  NoRequest, \* the request thread has no command
  NoValue    \* what type and matchType hold in a new Order

(* An order as PutOrder makes it.                                          *)
WithCode(o) ==
  [sequence |-> o.sequence, type |-> o.type, matchType |-> o.matchType,
   code |-> Code, quantity |-> o.quantity, price |-> o.price]

(* The orders that can arrive, and their commands.                         *)
Arriving == {WithCode(Numbered(r, k)) : r \in Requests, k \in 1 .. MaxOrders}
Commands == {CmdStr(o) : o \in Arriving}

(* PutOrder stops at the number 1000000, which is an int.                  *)
ASSUME ServiceAssumption ==
  /\ Size \in Nat \ {0} /\ HighWater \in Nat \ {0} /\ MaxOrders <= IntMax
  /\ NoRequest \notin Commands

VARIABLES
  next,     \* the number of the next order the broker has for this asset
  inbox,    \* the pipe from the broker
  request,  \* the command the request thread has received and not put
  orderTemplate, \* fill's static order
  log,      \* the orders on the ring, in commit order
  released, \* Get::cursor of the matching thread
  taken,    \* its position in the batch
  end,      \* the end of its batch
  accepted  \* history: the orders that got into the pipe

serviceVars == <<next, inbox, request, orderTemplate, log, released, taken, end, accepted>>
allVars == <<vars, serviceVars>>

(* Order's constructor.                                                    *)
NewOrder == [sequence |-> 0, type |-> NoValue, matchType |-> NoValue,
             code |-> NoValue, quantity |-> 0, price |-> 0]

ServiceInit ==
  /\ Init
  /\ next = 1
  /\ inbox = <<>>
  /\ request = NoRequest
  /\ orderTemplate = NewOrder
  /\ log = <<>>
  /\ released = 0 /\ taken = 0 /\ end = 0
  /\ accepted = <<>>

------------------------------------------------------------------------------
(* The broker sends an order; the ROUTER drops it when the pipe is full.   *)
Deliver(r) ==
  /\ next <= MaxOrders
  /\ next' = next + 1
  /\ IF Len(inbox) < HighWater
     THEN /\ inbox' = Append(inbox, CmdStr(WithCode(Numbered(r, next))))
          /\ accepted' = Append(accepted, WithCode(Numbered(r, next)))
     ELSE UNCHANGED <<inbox, accepted>>
  /\ UNCHANGED <<vars, request, orderTemplate, log, released, taken, end>>

(* Mutant: what is received stays in the pipe.                             *)
PeekRequest ==
  /\ request = NoRequest
  /\ inbox # <<>>
  /\ request' = Head(inbox)
  /\ UNCHANGED <<vars, next, inbox, orderTemplate, log, released, taken, end, accepted>>

(* waitRequest_t: s_recv.                                                  *)
Receive ==
  /\ request = NoRequest
  /\ inbox # <<>>
  /\ request' = Head(inbox)
  /\ inbox' = Tail(inbox)
  /\ UNCHANGED <<vars, next, orderTemplate, log, released, taken, end, accepted>>

(* Mutant: the slot the matching thread reads may be written.              *)
HasRoomOneMore == Len(log) <= released + Size

HasRoom == Len(log) < released + Size

(* FillOrderBook::fill: parse the command into the static order, and put a *)
(* copy of it; the Put waits for room.  A command that makes fromCmdStr    *)
(* throw, which nothing catches, would end the process here.               *)
Fill ==
  /\ request # NoRequest
  /\ ~Throws(request)
  /\ HasRoom
  /\ orderTemplate' = FromCmdStr(orderTemplate, request)
  /\ log' = Append(log, orderTemplate')
  /\ request' = NoRequest
  /\ UNCHANGED <<vars, next, inbox, released, taken, end, accepted>>

------------------------------------------------------------------------------
(* MatchOrderBook::match: Get(), a batch.                                  *)
ClaimBatch ==
  /\ pc = "adding"
  /\ taken = end /\ ~batched
  /\ released < Len(log)
  /\ end' = Len(log)
  /\ UNCHANGED <<vars, next, inbox, request, orderTemplate, log, released, taken, accepted>>

NextOrder == log[taken + 1]

(* Mutant: two fields change places.                                       *)
BodySwapped(o) ==
  [type |-> o.type, matchType |-> o.matchType, price |-> o.quantity, quantity |-> o.price]

(* An order of the batch, without its number.                              *)
Body(o) == [type |-> o.type, matchType |-> o.matchType, price |-> o.price, quantity |-> o.quantity]

(* orderBook.addOrder(o) begins.                                           *)
TakeOrder ==
  /\ taken < end
  /\ \/ AddOrder(Body(NextOrder), NextOrder.sequence)
     \/ AddCancel(Body(NextOrder), NextOrder.sequence)
  /\ taken' = taken + 1
  /\ UNCHANGED <<next, inbox, request, orderTemplate, log, released, end, accepted>>

(* Mutant: the cursor is not stored at the end of a batch.                 *)
KeepBatch ==
  /\ taken = end
  /\ BeginMatch
  /\ UNCHANGED serviceVars

(* The loop ends, its Get is destroyed, and orderBook.match() begins.      *)
ReleaseBatch ==
  /\ taken = end
  /\ BeginMatch
  /\ released' = end
  /\ UNCHANGED <<next, inbox, request, orderTemplate, log, taken, end, accepted>>

Work == (Place \/ Match) /\ UNCHANGED serviceVars

------------------------------------------------------------------------------
RequestStep == Receive \/ Fill
MatchStep == ClaimBatch \/ TakeOrder \/ Work \/ ReleaseBatch

ServiceNext == (\E r \in Requests : Deliver(r)) \/ RequestStep \/ MatchStep

ServiceSpec == ServiceInit /\ [][ServiceNext]_allVars

(* The two threads run.                                                    *)
ServiceFairSpec == ServiceSpec /\ WF_allVars(RequestStep) /\ WF_allVars(MatchStep)
------------------------------------------------------------------------------
(* Type correctness.  A batch never laps the ring.                         *)
ServiceTypeOK ==
  /\ next \in 1 .. MaxOrders + 1
  /\ inbox \in Seq(Commands) /\ log \in Seq(Arriving) /\ accepted \in Seq(Arriving)
  /\ request \in Commands \cup {NoRequest}
  /\ orderTemplate \in Arriving \cup {NewOrder}
  /\ released \in Nat /\ taken \in Nat /\ end \in released .. released + Size

------------------------------------------------------------------------------
(* The parts of the inductive invariant.                                   *)

Held == IF request = NoRequest THEN <<>> ELSE <<request>>

(* The commands that are on their way, oldest first.                       *)
Coming == Held \o inbox

Cursors ==
  /\ released <= taken /\ taken <= end /\ end <= Len(log)
  /\ Len(log) <= released + Size

(* The sums of the first elements of a sequence of numbers, and of all.    *)
Partial(q) == LET s[k \in 0 .. Len(q)] == IF k = 0 THEN 0 ELSE s[k - 1] + q[k] IN s
Total(q) == Partial(q)[Len(q)]

(* The lots of the orders numbered n that rest in a deque.                 *)
Lots(s, n) == Total([i \in 1 .. Len(s) |-> IF s[i].sequence = n THEN s[i].quantity ELSE 0])

(* The lots of the order numbered n that some trades have moved.           *)
Traded(s, n) ==
  Total([i \in 1 .. Len(s) |-> IF n \in {s[i].askOrder.sequence, s[i].bidOrder.sequence}
                               THEN s[i].tradedQuantity ELSE 0])

(* No number rests on both sides, and none that was traded is yet to come. *)
NumbersUsed ==
  /\ \A i \in 1 .. Len(asks), j \in 1 .. Len(bids) : asks[i].sequence # bids[j].sequence
  /\ \A i \in 1 .. Len(trades) :
       trades[i].askOrder.sequence < sequence /\ trades[i].bidOrder.sequence < sequence

------------------------------------------------------------------------------
(* Properties.                                                             *)

(* Between the pipe and the book no order is lost, doubled, overtaken or   *)
(* changed by its way through a string and the static order, whatever the  *)
(* broker dropped; the numbers rise, and the book has seen none that is    *)
(* still to come, which is what its tie-break rests on.                    *)
NothingLost ==
  /\ Len(accepted) = Len(log) + Len(Coming)
  /\ \A i \in 1 .. Len(accepted) :
       IF i <= Len(log) THEN log[i] = accepted[i]
       ELSE Coming[i - Len(log)] = CmdStr(accepted[i]) /\ ~Throws(Coming[i - Len(log)])
  /\ \A i, j \in 1 .. Len(accepted) : i < j => accepted[i].sequence < accepted[j].sequence
  /\ \A i \in taken + 1 .. Len(accepted) : accepted[i].sequence >= sequence

(* The inductive invariant.                                                *)
ServiceIInv ==
  /\ ServiceTypeOK
  /\ Cursors
  /\ NothingLost
  /\ Len(inbox) <= HighWater
  /\ \A i \in 1 .. Len(accepted) : accepted[i].sequence < next
  /\ sequence \in 1 .. next

(* A service holds back so many orders and no more before the broker's     *)
(* ROUTER drops the next, wherever the matching thread is.                 *)
Backlog == Len(accepted) - released <= Size + 1 + HighWater

(* Every lot of an order taken from the ring rests in the book, is being   *)
(* placed, or was traded: partial fills, both sides filled at once and the *)
(* erasures in match() lose none and trade none twice.                     *)
LotsConserved ==
  \A i \in 1 .. taken : log[i].type # "Cancel" =>
    LET n == log[i].sequence IN
    log[i].quantity = Lots(asks, n) + Lots(bids, n) + Traded(trades, n)
                      + (IF pc = "placing" /\ order.sequence = n THEN order.quantity ELSE 0)

(* The inductive invariant of the lots.                                    *)
LotsIInv == NumbersUsed /\ LotsConserved

(* Order o of the book is order e of the ring, or what is left of it.      *)
RestOf(o, e) ==
  /\ o.sequence = e.sequence /\ o.type = e.type /\ o.matchType = e.matchType
  /\ o.price = e.price /\ o.quantity <= e.quantity

(* It is a rest of one of the first n orders of s.                         *)
CameIn(o, s, n) == \E i \in 1 .. n : RestOf(o, s[i])

(* Whatever the book holds, places or has traded came through the ring.    *)
AllCame ==
  /\ \A i \in 1 .. Len(asks) : CameIn(asks[i], log, taken)
  /\ \A i \in 1 .. Len(bids) : CameIn(bids[i], log, taken)
  /\ pc = "placing" => CameIn(order, log, taken)
  /\ \A i \in 1 .. Len(trades) :
       /\ trades[i].askOrder.type = "Ask" /\ CameIn(trades[i].askOrder, log, taken)
       /\ trades[i].bidOrder.type = "Bid" /\ CameIn(trades[i].bidOrder, log, taken)

(* From the pipe to the ring of trades: a trade is of an ask and a bid that*)
(* got into the pipe, with the number and the terms they had there, and no *)
(* order is traded beyond its quantity, however often it is filled in part.*)
TradesAsOrdered ==
  /\ \A i \in 1 .. Len(trades) : \E j, k \in 1 .. Len(accepted) :
       /\ accepted[j].type = "Ask" /\ RestOf(trades[i].askOrder, accepted[j])
       /\ accepted[k].type = "Bid" /\ RestOf(trades[i].bidOrder, accepted[k])
  /\ \A i \in 1 .. taken : accepted[i].type # "Cancel" =>
       Traded(trades, accepted[i].sequence) <= accepted[i].quantity

(* The waits of the two threads for each other, a full ring and an empty   *)
(* one, and for the pipe: while the ring of trades has room and an order   *)
(* is not in the book, one of the threads does not wait.                   *)
RequestWaits == IF request = NoRequest THEN inbox = <<>> ELSE ~HasRoom
MatchWaits ==
  \/ pc = "adding" /\ ~batched /\ taken = end /\ ~(released < Len(log))
  \/ pc = "matching" /\ AtMatch /\ ~(Len(trades) < TradedRingSize)
NoStandoff ==
  taken < Len(accepted) /\ Len(trades) < TradedRingSize => ~RequestWaits \/ ~MatchWaits

(* The service uses the ring as Stream promises it: what Disruptor shows of*)
(* its ring is what the two threads count on.                              *)
Ring == INSTANCE Stream WITH
  Consumers <- {Code},
  Barrier <- [c \in {Code} |-> {}],
  Msgs <- Arriving,
  got <- [c \in {Code} |-> SubSeq(log, 1, taken)]
RingPromise == Ring!Spec

(* What has entered the pipe is taken into the book, as long as the ring   *)
(* of trades has room: no wait of the two threads for each other is final. *)
TakesAll ==
  \A n \in 1 .. MaxOrders :
    Len(accepted) >= n ~> (taken >= n \/ Len(trades) = TradedRingSize)

(* The book works as OrderBook says, whose orders are any.                 *)
BookPromise == Spec
==============================================================================
