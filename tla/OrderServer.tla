----------------------------- MODULE OrderServer -----------------------------
(***************************************************************************)
(* The OrderRingServer (OrderRingServer.cpp): a thread that makes orders   *)
(* (PutOrder.hxx), one that saves them (JournalOrder.hxx) and one that     *)
(* sends them to the broker (RouteOrder.hxx), around one ring.  Route      *)
(* follows journal, and put follows route.                                 *)
(*                                                                         *)
(* The ring is that of Disruptor.  An order is numbered and priced first   *)
(* and put when the ring has room, so that a full ring finds the put thread*)
(* with one in hand.  A Put that has room is a step, a Get is the claim of *)
(* a batch, its messages one by one, and the release of the whole batch.   *)
(* The pipe to the broker is a sequence; the route thread waits in s_send  *)
(* while it is full, as a DEALER does.                                     *)
(***************************************************************************)
EXTENDS Integers, Sequences

CONSTANTS
  AssetCodes,  \* asset codes; PutOrder has only "TKLAM"
  Spread,      \* the double 0.0001
  FirstPrices, \* prices of the first order, decimals: no multiples of Spread
  Dirs,        \* what rand() % 3 gives for the next price
  Size,        \* slots in the ring, 2 ^ RING_SIZE
  HighWater,   \* messages the pipe to the broker holds
  MaxOrders,   \* the orders PutOrder makes, 1000000
  Journal, Route,
  NoOrder      \* the put thread has no order in hand

ASSUME ServerAssumption ==
  /\ Dirs \subseteq 0 .. 2
  /\ Spread \in Nat \ {0} /\ FirstPrices \subseteq Nat \ {0}
  /\ Size \in Nat \ {0} /\ HighWater \in Nat \ {0} /\ MaxOrders \in Nat
  /\ Journal # Route

VARIABLES
  sequence,  \* PutOrder::sequence, the number of the next order
  prevPrice,
  order,     \* the order it has made and not put
  log,       \* the orders on the ring, in commit order
  released,  \* Get::cursor of journal and of route
  end,       \* the end of the batch of each
  saved,     \* what journal has written
  sent,      \* what route has sent
  frontend   \* the pipe to the broker

vars == <<sequence, prevPrice, order, log, released, end, saved, sent, frontend>>

Readers == {Journal, Route}

(* What the walk from one of the first prices can reach.                   *)
Prices == UNION {1 - Spread .. p + Spread * MaxOrders : p \in FirstPrices}

Orders == [sequence : 1 .. MaxOrders, code : AssetCodes, price : Prices]

ASSUME HandAssumption == NoOrder \notin Orders

Init ==
  /\ sequence = 1
  /\ prevPrice = 0
  /\ order = NoOrder
  /\ log = <<>>
  /\ released = [g \in Readers |-> 0]
  /\ end = [g \in Readers |-> 0]
  /\ saved = <<>> /\ sent = <<>>
  /\ frontend = <<>>

------------------------------------------------------------------------------
(* PutOrder::put.                                                          *)

(* Mutant: a price at or below nothing goes down as well.                  *)
DownFromZero(dir) ==
  CASE dir = 0 -> prevPrice + Spread
    [] dir = 1 -> prevPrice - Spread
    [] dir = 2 -> prevPrice

(* One spread up, one down, or as it was.  When the last price is not above*)
(* zero, an order that should go down keeps the zero it is constructed with*)
Moved(dir) ==
  CASE dir = 0 -> prevPrice + Spread
    [] dir = 1 -> IF prevPrice > 0 THEN prevPrice - Spread ELSE 0
    [] dir = 2 -> prevPrice

NextPrices == IF sequence = 1 THEN FirstPrices ELSE {Moved(dir) : dir \in Dirs}

(* Mutant: the ring is followed by journal only.                           *)
HasRoomBehindJournal == Len(log) < released[Journal] + Size

HasRoom == Len(log) < released[Route] + Size

(* A turn of the loop up to its Put: the order has its number, and the next*)
(* price is counted from its price, whether the ring has room or not.      *)
MakeOrder(code, price) ==
  /\ order = NoOrder
  /\ sequence <= MaxOrders
  /\ price \in NextPrices
  /\ order' = [sequence |-> sequence, code |-> code, price |-> price]
  /\ sequence' = sequence + 1
  /\ prevPrice' = price
  /\ UNCHANGED <<log, released, end, saved, sent, frontend>>

(* Put() = order: the put waits for room.                                  *)
PutOrder ==
  /\ order # NoOrder
  /\ HasRoom
  /\ log' = Append(log, order)
  /\ order' = NoOrder
  /\ UNCHANGED <<sequence, prevPrice, released, end, saved, sent, frontend>>

------------------------------------------------------------------------------
(* JournalOrder::save and RouteOrder::route.                               *)

(* How many orders each has read.                                          *)
Done(g) == IF g = Journal THEN Len(saved) ELSE Len(sent)

(* Mutant: route follows the ring, not journal.                            *)
LeastOfRing(g) == Len(log)

(* Barrier::least() of each.                                               *)
Least(g) == IF g = Journal THEN Len(log) ELSE released[Journal]

(* Get(): wait for a batch.                                                *)
ClaimBatch(g) ==
  /\ Done(g) = end[g] /\ released[g] = end[g]
  /\ released[g] < Least(g)
  /\ end' = [end EXCEPT ![g] = Least(g)]
  /\ UNCHANGED <<sequence, prevPrice, order, log, released, saved, sent, frontend>>

(* Journal writes an order of its batch.                                   *)
Save ==
  /\ Len(saved) < end[Journal]
  /\ saved' = Append(saved, log[Len(saved) + 1])
  /\ UNCHANGED <<sequence, prevPrice, order, log, released, end, sent, frontend>>

(* What the command string of an order tells the broker.                   *)
Command(o) == [sequence |-> o.sequence, code |-> o.code]

(* Route sends an order of its batch.                                      *)
Send ==
  /\ Len(sent) < end[Route]
  /\ Len(frontend) < HighWater
  /\ sent' = Append(sent, log[Len(sent) + 1])
  /\ frontend' = Append(frontend, Command(log[Len(sent) + 1]))
  /\ UNCHANGED <<sequence, prevPrice, order, log, released, end, saved>>

(* Mutant: the cursor of route is not stored.                              *)
ReleaseOfJournal(g) ==
  /\ g = Journal
  /\ Done(g) = end[g]
  /\ released[g] # end[g]
  /\ released' = [released EXCEPT ![g] = end[g]]
  /\ UNCHANGED <<sequence, prevPrice, order, log, end, saved, sent, frontend>>

(* The end of  for(Order & o : Get()).                                     *)
ReleaseBatch(g) ==
  /\ Done(g) = end[g]
  /\ released[g] # end[g]
  /\ released' = [released EXCEPT ![g] = end[g]]
  /\ UNCHANGED <<sequence, prevPrice, order, log, end, saved, sent, frontend>>

------------------------------------------------------------------------------
(* The broker receives an order.                                           *)
Receive ==
  /\ frontend # <<>>
  /\ frontend' = Tail(frontend)
  /\ UNCHANGED <<sequence, prevPrice, order, log, released, end, saved, sent>>

Put == (\E code \in AssetCodes, price \in NextPrices : MakeOrder(code, price)) \/ PutOrder
JournalStep == ClaimBatch(Journal) \/ Save \/ ReleaseBatch(Journal)
RouteStep == ClaimBatch(Route) \/ Send \/ ReleaseBatch(Route)

Next == Put \/ JournalStep \/ RouteStep \/ Receive

Spec == Init /\ [][Next]_vars

(* The three threads run.  Nothing obliges the broker to receive.          *)
Fairness == WF_vars(Put) /\ WF_vars(JournalStep) /\ WF_vars(RouteStep)

FairSpec == Spec /\ Fairness
------------------------------------------------------------------------------
(* Type correctness.  A price may fall below zero, by less than a spread.  *)
TypeOK ==
  /\ sequence \in 1 .. MaxOrders + 1
  /\ prevPrice \in Prices \cup {0}
  /\ order \in Orders \cup {NoOrder}
  /\ log \in Seq(Orders) /\ saved \in Seq(Orders) /\ sent \in Seq(Orders)
  /\ released \in [Readers -> Nat] /\ end \in [Readers -> Nat]
  /\ frontend \in Seq([sequence : 1 .. MaxOrders, code : AssetCodes])

------------------------------------------------------------------------------
(* The parts of the inductive invariant.                                   *)

(* How many orders the put thread has in hand.                             *)
InHand == IF order = NoOrder THEN 0 ELSE 1

(* The orders on the ring are numbered from 1, the one in hand follows, and*)
(* the price has risen by one spread at most for each behind the first.    *)
Numbered ==
  /\ Len(log) + InHand = sequence - 1
  /\ order # NoOrder => order.sequence = sequence - 1
  /\ \A i \in 1 .. Len(log) : log[i].sequence = i
  /\ sequence > 1 => \E p \in FirstPrices : prevPrice <= p + Spread * (sequence - 2)

(* Route's batch lies behind what journal has released, journal's behind   *)
(* the ring's cursor, and the ring ahead of route by its size at most.     *)
Cursors ==
  /\ \A g \in Readers : released[g] <= Done(g) /\ Done(g) <= end[g]
  /\ end[Route] <= released[Journal]
  /\ end[Journal] <= Len(log)
  /\ Len(log) <= released[Route] + Size

(* Each has read a prefix of the ring.                                     *)
PrefixesRead ==
  /\ \A i \in 1 .. Len(saved) : saved[i] = log[i]
  /\ \A i \in 1 .. Len(sent) : sent[i] = log[i]

(* The pipe holds the commands sent last.                                  *)
PipeHolds ==
  /\ Len(frontend) <= HighWater /\ Len(frontend) <= Len(sent)
  /\ \A i \in 1 .. Len(frontend) :
       frontend[i] = Command(sent[Len(sent) - Len(frontend) + i])

------------------------------------------------------------------------------
(* Properties.                                                             *)

(* Whenever the server is stopped, the journal holds every order the broker*)
(* may have seen, in the order they were sent, although the two threads    *)
(* meet only at the cursor journal stores once per batch.                  *)
JournalFirst ==
  /\ Len(sent) <= Len(saved)
  /\ \A i \in 1 .. Len(sent) : sent[i] = saved[i]

(* OrderRing.h: the sequence is the "order ID of the day which is given out*)
(* sequentially".  The numbers on their way to the broker follow each other*)
(* without a gap, and every one below is received.                         *)
SentInSequence ==
  /\ \A i \in 1 .. Len(sent) : sent[i].sequence = i
  /\ \A i \in 1 .. Len(frontend) : frontend[i].sequence = Len(sent) - Len(frontend) + i

(* A broker that stops receiving stops the whole server: not more orders   *)
(* are numbered than the ring and the pipe hold, and the one the put thread*)
(* has in hand when it finds the ring full.                                *)
BoundedLead == sequence - 1 <= (Len(sent) - Len(frontend)) + HighWater + Size + 1

(* Nothing but the broker holds the server up: while there are orders to   *)
(* make or to put and the pipe has room, put does not wait or one of its   *)
(* readers has something to do.                                            *)
Busy(g) ==
  \/ Done(g) < end[g]
  \/ released[g] # end[g]
  \/ released[g] < Least(g)
PutWaits == order # NoOrder /\ ~HasRoom
NoStandoff ==
  (sequence <= MaxOrders \/ order # NoOrder) /\ Len(frontend) < HighWater =>
    ~PutWaits \/ \E g \in Readers : Busy(g)

(* The inductive invariant.                                                *)
IInv == TypeOK /\ Numbered /\ Cursors /\ PrefixesRead /\ PipeHolds

(* The server uses the ring as Stream promises it.                         *)
ReadBy == [g \in Readers |-> IF g = Journal THEN saved ELSE sent]
Ring == INSTANCE Stream WITH
  Consumers <- Readers,
  Barrier <- [g \in Readers |-> IF g = Route THEN {Journal} ELSE {}],
  Msgs <- Orders,
  got <- ReadBy
RingPromise == Ring!Spec
==============================================================================
