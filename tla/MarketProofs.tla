---------------------------- MODULE MarketProofs -----------------------------
(***************************************************************************)
(* Proofs about OrderServer, and about Market, which extends it: for any   *)
(* number of services, codes and orders, any first prices and spread, and  *)
(* any sizes of the ring and the pipes.  Put together, the server is still *)
(* that of OrderServer and the broker still that of Broker, so that what is*)
(* proved of each holds of the whole; and from both follows what a service *)
(* is given.                                                               *)
(***************************************************************************)
EXTENDS Market, TLAPS

B == INSTANCE BrokerProofs WITH sequence <- Len(sent) + 1, Assets <- AssetCodes

------------------------------------------------------------------------------
(* The server: sequences.                                                  *)

LEMMA AppendElements ==
  ASSUME NEW S, NEW s \in Seq(S), NEW e \in S
  PROVE  /\ Append(s, e) \in Seq(S)
         /\ Len(s) \in Nat /\ Len(Append(s, e)) = Len(s) + 1
         /\ \A i \in 1 .. Len(s) : Append(s, e)[i] = s[i]
         /\ Append(s, e)[Len(s) + 1] = e
  OBVIOUS

LEMMA TailElements ==
  ASSUME NEW S, NEW s \in Seq(S), s # <<>>
  PROVE  /\ Len(s) \in Nat \ {0}
         /\ Tail(s) \in Seq(S) /\ Len(Tail(s)) = Len(s) - 1
         /\ \A i \in 1 .. Len(s) - 1 : Tail(s)[i] = s[i + 1]
  OBVIOUS

LEMMA Lengths ==
  ASSUME TypeOK
  PROVE  /\ Len(log) \in Nat /\ Len(saved) \in Nat /\ Len(sent) \in Nat /\ Len(frontend) \in Nat
         /\ released[Journal] \in Nat /\ released[Route] \in Nat
         /\ end[Journal] \in Nat /\ end[Route] \in Nat
  BY DEF TypeOK, Readers

(* Route is behind journal, and journal behind the ring.                   *)
LEMMA Behind ==
  ASSUME TypeOK, Cursors
  PROVE  /\ Len(sent) <= end[Route] /\ end[Route] <= released[Journal]
         /\ released[Journal] <= Len(saved) /\ Len(saved) <= end[Journal]
         /\ end[Journal] <= Len(log)
         /\ Len(sent) <= Len(saved) /\ Len(saved) <= Len(log) /\ Len(sent) <= Len(log)
<1>1. Done(Journal) = Len(saved) /\ Done(Route) = Len(sent)
  BY ServerAssumption DEF Done
<1>2. /\ Len(sent) <= end[Route] /\ end[Route] <= released[Journal]
      /\ released[Journal] <= Len(saved) /\ Len(saved) <= end[Journal]
      /\ end[Journal] <= Len(log)
  BY <1>1 DEF Cursors, Readers
<1> QED
  BY <1>2, Lengths

------------------------------------------------------------------------------
(* Prices.                                                                 *)

(* One spread more for each order but the first.                           *)
LEMMA Rise ==
  ASSUME NEW k \in Nat, NEW q \in Int, NEW p \in Nat,
         q <= p + Spread * k
  PROVE  /\ q + Spread <= p + Spread * (k + 1)
         /\ q <= p + Spread * (k + 1)
<1>1. Spread \in Nat
  BY ServerAssumption
<1>2. Spread * (k + 1) = Spread * k + Spread /\ Spread * k \in Nat
  BY <1>1
<1> QED
  BY <1>1, <1>2

LEMMA RiseBelow ==
  ASSUME NEW k \in Nat, NEW m \in Nat, k <= m
  PROVE  Spread * k <= Spread * m
<1>1. Spread \in Nat /\ m - k \in Nat
  BY ServerAssumption
<1>2. Spread * m = Spread * k + Spread * (m - k) /\ Spread * (m - k) \in Nat /\ Spread * k \in Nat
  BY <1>1
<1> QED
  BY <1>2

LEMMA PricesAreInts == Prices \subseteq Int
  BY ServerAssumption DEF Prices

(* The walk stays above a spread below zero and below its rise.            *)
LEMMA NextPriceInPrices ==
  ASSUME TypeOK, Numbered, sequence <= MaxOrders, NEW price \in NextPrices
  PROVE  /\ price \in Prices
         /\ \E p \in FirstPrices : price <= p + Spread * (sequence - 1)
<1> USE ServerAssumption
<1>1. sequence \in Nat \ {0} /\ MaxOrders \in Nat /\ Spread \in Nat \ {0}
  BY DEF TypeOK
<1>2. CASE sequence = 1
  <2>1. price \in FirstPrices /\ price \in Nat /\ Spread * MaxOrders \in Nat /\ Spread * 0 = 0
    BY <1>1, <1>2 DEF NextPrices
  <2>2. price \in 1 - Spread .. price + Spread * MaxOrders
    BY <1>1, <2>1
  <2> QED
    BY <1>2, <2>1, <2>2 DEF Prices
<1>3. CASE sequence # 1
  <2>1. sequence > 1 /\ sequence - 2 \in Nat /\ (sequence - 2) + 1 = sequence - 1
    BY <1>1, <1>3
  <2>2. PICK p \in FirstPrices : prevPrice <= p + Spread * (sequence - 2)
    BY <2>1 DEF Numbered
  <2>3. prevPrice \in Int /\ prevPrice > 0 - Spread
    BY <1>1, PricesAreInts DEF TypeOK, Prices
  <2>4. prevPrice + Spread <= p + Spread * (sequence - 1) /\ prevPrice <= p + Spread * (sequence - 1)
    BY <2>1, <2>2, <2>3, Rise
  <2>5. Spread * (sequence - 1) <= Spread * MaxOrders /\ Spread * (sequence - 1) \in Nat
    BY <1>1, <2>1, RiseBelow
  <2>6. /\ price \in Int /\ price >= 1 - Spread
        /\ price <= p + Spread * (sequence - 1)
    <3>1. price = prevPrice + Spread \/ price = prevPrice
          \/ (prevPrice > 0 /\ price = prevPrice - Spread) \/ price = 0
      BY <1>3 DEF NextPrices, Moved
    <3> QED
      BY <1>1, <2>3, <2>4, <2>5, <3>1
  <2>7. p \in Nat /\ Spread * MaxOrders \in Nat
    BY <1>1
  <2>8. price \in 1 - Spread .. p + Spread * MaxOrders
    BY <1>1, <2>5, <2>6, <2>7
  <2> QED
    BY <2>6, <2>8 DEF Prices
<1> QED
  BY <1>2, <1>3

LEMMA MakeOrderPrice ==
  ASSUME TypeOK, Numbered, NEW code \in AssetCodes, NEW price \in NextPrices, MakeOrder(code, price)
  PROVE  /\ [sequence |-> sequence, code |-> code, price |-> price] \in Orders
         /\ price \in Prices
         /\ \E p \in FirstPrices : price <= p + Spread * (sequence - 1)
<1>1. /\ price \in Prices
      /\ \E p \in FirstPrices : price <= p + Spread * (sequence - 1)
  BY NextPriceInPrices DEF MakeOrder
<1>2. sequence \in 1 .. MaxOrders
  BY ServerAssumption DEF TypeOK, MakeOrder
<1> QED
  BY <1>1, <1>2 DEF Orders

------------------------------------------------------------------------------
(* The inductive invariant: how each action keeps it.                      *)

LEMMA InitIInv == Init => IInv
<1> SUFFICES ASSUME Init PROVE IInv
  OBVIOUS
<1>1. TypeOK
  BY ServerAssumption DEF Init, TypeOK, Readers
<1>2. Numbered
  BY DEF Init, Numbered, InHand
<1>3. Cursors
  BY ServerAssumption DEF Init, Cursors, Readers, Done
<1>4. PrefixesRead
  BY DEF Init, PrefixesRead
<1>5. PipeHolds
  BY ServerAssumption DEF Init, PipeHolds
<1> QED
  BY <1>1, <1>2, <1>3, <1>4, <1>5 DEF IInv

(* The number goes to the order in hand, that of the ring follows later.   *)
LEMMA MakeOrderKeeps ==
  ASSUME IInv, NEW code \in AssetCodes, NEW price \in NextPrices, MakeOrder(code, price)
  PROVE  IInv'
<1> DEFINE o == [sequence |-> sequence, code |-> code, price |-> price]
<1>1. /\ TypeOK /\ Numbered /\ Cursors /\ PrefixesRead /\ PipeHolds
      /\ sequence \in Nat \ {0} /\ sequence <= MaxOrders
  BY DEF IInv, TypeOK, MakeOrder
<1>2. o \in Orders /\ price \in Prices
      /\ \E p \in FirstPrices : price <= p + Spread * (sequence - 1)
  BY <1>1, MakeOrderPrice
<1>3. /\ order = NoOrder /\ order' = o /\ o.sequence = sequence
      /\ sequence' = sequence + 1 /\ prevPrice' = price
      /\ UNCHANGED <<log, released, end, saved, sent, frontend>>
  BY DEF MakeOrder
<1> HIDE DEF o
<1>4. TypeOK'
  BY <1>1, <1>2, <1>3, ServerAssumption DEF TypeOK
<1>5. Numbered'
  <2>1. InHand = 0 /\ InHand' = 1
    BY <1>2, <1>3, HandAssumption DEF InHand
  <2>2. Len(log') + InHand' = sequence' - 1
    BY <1>1, <1>3, <2>1, Lengths DEF Numbered
  <2>3. order'.sequence = sequence' - 1 /\ sequence' - 2 = sequence - 1
    BY <1>1, <1>3
  <2> QED
    BY <1>1, <1>2, <1>3, <2>2, <2>3 DEF Numbered
<1>6. Cursors' /\ PrefixesRead' /\ PipeHolds'
  BY <1>1, <1>3 DEF Cursors, Done, PrefixesRead, PipeHolds
<1> QED
  BY <1>4, <1>5, <1>6 DEF IInv

LEMMA PutOrderKeeps ==
  ASSUME IInv, PutOrder
  PROVE  IInv'
<1>1. /\ TypeOK /\ Numbered /\ Cursors /\ PrefixesRead /\ PipeHolds
      /\ order # NoOrder /\ order' = NoOrder /\ order \in Orders
      /\ UNCHANGED <<sequence, prevPrice, released, end, saved, sent, frontend>>
  BY DEF IInv, TypeOK, PutOrder
<1>2. /\ log' = Append(log, order) /\ log' \in Seq(Orders)
      /\ Len(log) \in Nat /\ Len(log') = Len(log) + 1
      /\ \A i \in 1 .. Len(log) : log'[i] = log[i]
      /\ log'[Len(log) + 1] = order
  <2>1. log' = Append(log, order)
    BY DEF PutOrder
  <2> QED
    BY <1>1, <2>1, AppendElements DEF TypeOK
<1>3. TypeOK'
  BY <1>1, <1>2 DEF TypeOK
<1>4. Numbered'
  <2>1. InHand = 1 /\ InHand' = 0
    BY <1>1 DEF InHand
  <2>2. Len(log') + InHand' = sequence - 1 /\ order.sequence = Len(log) + 1
    <3>1. /\ Len(log) + InHand = sequence - 1 /\ order.sequence = sequence - 1
          /\ sequence \in Int
      BY <1>1 DEF Numbered, TypeOK
    <3> QED
      BY <1>2, <2>1, <3>1
  <2>3. \A i \in 1 .. Len(log') : log'[i].sequence = i
    BY <1>1, <1>2, <2>2 DEF Numbered
  <2> QED
    BY <1>1, <2>2, <2>3 DEF Numbered
<1>5. Cursors'
  <2>1. Len(log) < released[Route] + Size
    BY DEF PutOrder, HasRoom
  <2>2. \A g \in Readers : Done(g)' = Done(g)
    BY <1>1 DEF Done
  <2> QED
    BY <1>1, <1>2, <2>1, <2>2, Lengths, ServerAssumption DEF Cursors
<1>6. PrefixesRead'
  <2>1. /\ \A i \in 1 .. Len(saved) : log'[i] = log[i]
        /\ \A i \in 1 .. Len(sent) : log'[i] = log[i]
    BY <1>1, <1>2, Lengths, Behind
  <2> QED
    BY <1>1, <2>1 DEF PrefixesRead
<1>7. PipeHolds'
  BY <1>1 DEF PipeHolds
<1> QED
  BY <1>3, <1>4, <1>5, <1>6, <1>7 DEF IInv

LEMMA ClaimBatchKeeps ==
  ASSUME IInv, NEW g \in Readers, ClaimBatch(g)
  PROVE  IInv'
<1>1. /\ TypeOK /\ Numbered /\ Cursors /\ PrefixesRead /\ PipeHolds
      /\ UNCHANGED <<sequence, prevPrice, order, log, released, saved, sent, frontend>>
  BY DEF IInv, ClaimBatch
<1>2. Least(g) \in Nat /\ end' = [end EXCEPT ![g] = Least(g)]
  BY <1>1, Lengths DEF Least, ClaimBatch
<1>3. TypeOK'
  BY <1>1, <1>2 DEF TypeOK
<1>4. Numbered' /\ PrefixesRead' /\ PipeHolds'
  BY <1>1 DEF Numbered, InHand, PrefixesRead, PipeHolds
<1>5. Cursors'
  <2>1. \A h \in Readers : Done(h)' = Done(h)
    BY <1>1 DEF Done
  <2>2. end'[g] = Least(g) /\ \A h \in Readers \ {g} : end'[h] = end[h]
    BY <1>1, <1>2 DEF TypeOK
  <2>3. Done(g) = end[g] /\ released[g] = end[g] /\ released[g] < Least(g)
    BY DEF ClaimBatch
  <2>4. \A h \in Readers : released[h]' <= Done(h)' /\ Done(h)' <= end[h]'
    <3> SUFFICES ASSUME NEW h \in Readers
                 PROVE  released'[h] <= Done(h) /\ Done(h) <= end'[h]
      BY <2>1
    <3>1. CASE h = g
      BY <1>1, <1>2, <2>2, <2>3, <3>1, Lengths DEF TypeOK
    <3>2. CASE h # g
      BY <1>1, <2>2, <3>2 DEF Cursors
    <3> QED
      BY <3>1, <3>2
  <2>5. CASE g = Journal
    <3>1. end'[Journal] = Len(log) /\ end'[Route] = end[Route]
      BY <2>2, <2>5, ServerAssumption DEF Least, Readers
    <3> QED
      BY <1>1, <2>4, <3>1, Lengths DEF Cursors
  <2>6. CASE g = Route
    <3>1. end'[Route] = released[Journal] /\ end'[Journal] = end[Journal]
      BY <2>2, <2>6, ServerAssumption DEF Least, Readers
    <3> QED
      BY <1>1, <2>4, <3>1, Lengths DEF Cursors
  <2> QED
    BY <2>5, <2>6 DEF Readers
<1> QED
  BY <1>3, <1>4, <1>5 DEF IInv

LEMMA SaveKeeps ==
  ASSUME IInv, Save
  PROVE  IInv'
<1>1. /\ TypeOK /\ Numbered /\ Cursors /\ PrefixesRead /\ PipeHolds
      /\ UNCHANGED <<sequence, prevPrice, order, log, released, end, sent, frontend>>
      /\ Len(saved) < end[Journal]
  BY DEF IInv, Save
<1> DEFINE o == log[Len(saved) + 1]
<1>2. o \in Orders /\ saved' = Append(saved, o)
  BY <1>1, Lengths DEF Save, Cursors, TypeOK
<1> HIDE DEF o
<1>3. /\ saved' \in Seq(Orders) /\ Len(saved') = Len(saved) + 1
      /\ \A i \in 1 .. Len(saved) : saved'[i] = saved[i]
      /\ saved'[Len(saved) + 1] = o
  BY <1>1, <1>2, AppendElements DEF TypeOK
<1>4. TypeOK'
  BY <1>1, <1>3 DEF TypeOK
<1>5. Numbered' /\ PipeHolds'
  BY <1>1 DEF Numbered, InHand, PipeHolds
<1>6. Cursors'
  <2>1. Done(Journal) = Len(saved) /\ Done(Journal)' = Len(saved) + 1
        /\ Done(Route)' = Done(Route)
    BY <1>1, <1>3, ServerAssumption DEF Done
  <2> QED
    BY <1>1, <2>1, Lengths DEF Cursors, Readers
<1>7. PrefixesRead'
  <2>1. \A i \in 1 .. Len(saved) + 1 : saved'[i] = log[i]
    BY <1>1, <1>3, Lengths DEF PrefixesRead, o
  <2> QED
    BY <1>1, <1>3, <2>1 DEF PrefixesRead
<1> QED
  BY <1>4, <1>5, <1>6, <1>7 DEF IInv

LEMMA SendKeeps ==
  ASSUME IInv, Send
  PROVE  IInv'
<1>1. /\ TypeOK /\ Numbered /\ Cursors /\ PrefixesRead /\ PipeHolds
      /\ UNCHANGED <<sequence, prevPrice, order, log, released, end, saved>>
      /\ Len(sent) < end[Route] /\ Len(frontend) < HighWater
  BY DEF IInv, Send
<1> DEFINE o == log[Len(sent) + 1]
<1>2. Len(sent) < Len(log)
  BY <1>1, Lengths, Behind
<1>3. o \in Orders /\ sent' = Append(sent, o) /\ frontend' = Append(frontend, Command(o))
  BY <1>1, <1>2, Lengths DEF Send, TypeOK
<1> HIDE DEF o
<1>4. Command(o) \in [sequence : 1 .. MaxOrders, code : AssetCodes]
  BY <1>3 DEF Command, Orders
<1>5. /\ sent' \in Seq(Orders) /\ Len(sent') = Len(sent) + 1
      /\ \A i \in 1 .. Len(sent) : sent'[i] = sent[i]
      /\ sent'[Len(sent) + 1] = o
  BY <1>1, <1>3, AppendElements DEF TypeOK
<1>6. /\ frontend' \in Seq([sequence : 1 .. MaxOrders, code : AssetCodes])
      /\ Len(frontend') = Len(frontend) + 1
      /\ \A i \in 1 .. Len(frontend) : frontend'[i] = frontend[i]
      /\ frontend'[Len(frontend) + 1] = Command(o)
  BY <1>1, <1>3, <1>4, AppendElements DEF TypeOK
<1>7. TypeOK'
  BY <1>1, <1>5, <1>6 DEF TypeOK
<1>8. Numbered'
  BY <1>1 DEF Numbered, InHand
<1>9. Cursors'
  <2>1. Done(Route) = Len(sent) /\ Done(Route)' = Len(sent) + 1
        /\ Done(Journal)' = Done(Journal)
    BY <1>1, <1>5, ServerAssumption DEF Done
  <2> QED
    BY <1>1, <2>1, Lengths DEF Cursors, Readers
<1>10. PrefixesRead'
  <2>1. \A i \in 1 .. Len(sent) + 1 : sent'[i] = log[i]
    BY <1>1, <1>5, Lengths DEF PrefixesRead, o
  <2> QED
    BY <1>1, <1>5, <2>1 DEF PrefixesRead
<1>11. PipeHolds'
  <2> SUFFICES ASSUME NEW i \in 1 .. Len(frontend) + 1
               PROVE  frontend'[i] = Command(sent'[(Len(sent) + 1) - (Len(frontend) + 1) + i])
    BY <1>1, <1>5, <1>6, Lengths, ServerAssumption DEF PipeHolds
  <2>1. (Len(sent) + 1) - (Len(frontend) + 1) + i = Len(sent) - Len(frontend) + i
    BY <1>1, Lengths
  <2>2. CASE i = Len(frontend) + 1
    <3>1. Len(sent) - Len(frontend) + i = Len(sent) + 1
      BY <1>1, <2>2, Lengths
    <3> QED
      BY <1>5, <1>6, <2>1, <2>2, <3>1
  <2>3. CASE i \in 1 .. Len(frontend)
    <3>1. Len(sent) - Len(frontend) + i \in 1 .. Len(sent)
      BY <1>1, <2>3, Lengths DEF PipeHolds
    <3> QED
      BY <1>1, <1>5, <1>6, <2>1, <2>3, <3>1 DEF PipeHolds
  <2> QED
    BY <1>1, <2>2, <2>3, Lengths
<1> QED
  BY <1>7, <1>8, <1>9, <1>10, <1>11 DEF IInv

LEMMA ReleaseBatchKeeps ==
  ASSUME IInv, NEW g \in Readers, ReleaseBatch(g)
  PROVE  IInv'
<1>1. /\ TypeOK /\ Numbered /\ Cursors /\ PrefixesRead /\ PipeHolds
      /\ UNCHANGED <<sequence, prevPrice, order, log, end, saved, sent, frontend>>
      /\ released' = [released EXCEPT ![g] = end[g]] /\ Done(g) = end[g]
  BY DEF IInv, ReleaseBatch
<1>2. released'[g] = end[g] /\ \A h \in Readers \ {g} : released'[h] = released[h]
  BY <1>1 DEF TypeOK
<1>3. TypeOK'
  BY <1>1 DEF TypeOK
<1>4. Numbered' /\ PrefixesRead' /\ PipeHolds'
  BY <1>1 DEF Numbered, InHand, PrefixesRead, PipeHolds
<1>5. Cursors'
  <2>1. \A h \in Readers : Done(h)' = Done(h)
    BY <1>1 DEF Done
  <2>2. \A h \in Readers : released[h] <= released'[h] /\ released'[h] <= Done(h)
    <3> SUFFICES ASSUME NEW h \in Readers
                 PROVE  released[h] <= released'[h] /\ released'[h] <= Done(h)
      OBVIOUS
    <3>1. CASE h = g
      BY <1>1, <1>2, <3>1, Lengths DEF Cursors, TypeOK
    <3>2. CASE h # g
      BY <1>1, <1>2, <3>2, Lengths DEF Cursors, Readers
    <3> QED
      BY <3>1, <3>2
  <2>3. released'[Journal] \in Nat /\ released'[Route] \in Nat /\ Size \in Nat
    BY <1>3, ServerAssumption DEF TypeOK, Readers
  <2>4. end[Route] <= released'[Journal] /\ Len(log) <= released'[Route] + Size
    BY <1>1, <2>2, <2>3, Lengths DEF Cursors, Readers
  <2> QED
    BY <1>1, <2>1, <2>2, <2>4 DEF Cursors
<1> QED
  BY <1>3, <1>4, <1>5 DEF IInv

LEMMA ReceiveKeeps ==
  ASSUME IInv, Receive
  PROVE  IInv'
<1>1. /\ TypeOK /\ Numbered /\ Cursors /\ PrefixesRead /\ PipeHolds
      /\ UNCHANGED <<sequence, prevPrice, order, log, released, end, saved, sent>>
      /\ frontend # <<>> /\ frontend' = Tail(frontend)
  BY DEF IInv, Receive
<1>2. /\ Len(frontend) \in Nat \ {0} /\ Len(frontend') = Len(frontend) - 1
      /\ frontend' \in Seq([sequence : 1 .. MaxOrders, code : AssetCodes])
      /\ \A i \in 1 .. Len(frontend) - 1 : frontend'[i] = frontend[i + 1]
  BY <1>1, TailElements DEF TypeOK
<1>3. TypeOK'
  BY <1>1, <1>2 DEF TypeOK
<1>4. Numbered' /\ PrefixesRead'
  BY <1>1 DEF Numbered, InHand, PrefixesRead
<1>5. Cursors'
  BY <1>1 DEF Cursors, Done
<1>6. PipeHolds'
  <2> SUFFICES ASSUME NEW i \in 1 .. Len(frontend) - 1
               PROVE  frontend'[i] = Command(sent[Len(sent) - (Len(frontend) - 1) + i])
    BY <1>1, <1>2, Lengths, ServerAssumption DEF PipeHolds
  <2>1. i + 1 \in 1 .. Len(frontend)
        /\ Len(sent) - (Len(frontend) - 1) + i = Len(sent) - Len(frontend) + (i + 1)
    BY <1>1, <1>2, Lengths
  <2> QED
    BY <1>1, <1>2, <2>1 DEF PipeHolds
<1> QED
  BY <1>3, <1>4, <1>5, <1>6 DEF IInv

LEMMA StutterKeeps ==
  ASSUME IInv, UNCHANGED vars
  PROVE  IInv'
  BY DEF IInv, vars, TypeOK, Numbered, InHand, Cursors, Done, PrefixesRead, PipeHolds

------------------------------------------------------------------------------
(* Theorems.                                                               *)

(* The inductive invariant holds throughout: the cursors of journal and    *)
(* route bound each other and the ring, each has read a prefix of it, the  *)
(* pipe holds what was sent last, and the price stays in its range.        *)
THEOREM Invariance == Spec => []IInv
<1>1. IInv /\ [Next]_vars => IInv'
  <2> SUFFICES ASSUME IInv, [Next]_vars PROVE IInv'
    OBVIOUS
  <2>1. CASE Put
    BY <2>1, MakeOrderKeeps, PutOrderKeeps DEF Put
  <2>2. CASE JournalStep
    BY <2>2, ClaimBatchKeeps, SaveKeeps, ReleaseBatchKeeps DEF JournalStep, Readers
  <2>3. CASE RouteStep
    BY <2>3, ClaimBatchKeeps, SendKeeps, ReleaseBatchKeeps DEF RouteStep, Readers
  <2>4. CASE Receive
    BY <2>4, ReceiveKeeps
  <2>5. CASE UNCHANGED vars
    BY <2>5, StutterKeeps
  <2> QED
    BY <2>1, <2>2, <2>3, <2>4, <2>5 DEF Next
<1> QED
  BY <1>1, InitIInv, PTL DEF Spec

(* Type correctness, with it that PutOrder's walk from a positive first    *)
(* price never falls by a whole spread below zero.                         *)
THEOREM TypeCorrect == Spec => []TypeOK
<1>1. IInv => TypeOK
  BY DEF IInv
<1> QED
  BY <1>1, Invariance, PTL

(* The journal holds what the broker may have seen: route's batch ends at a*)
(* cursor journal has stored when all of its own batch was written.        *)
THEOREM JournalIsFirst == Spec => []JournalFirst
<1>1. IInv => JournalFirst
  <2> SUFFICES ASSUME IInv PROVE JournalFirst
    OBVIOUS
  <2>1. TypeOK /\ Cursors /\ PrefixesRead
    BY DEF IInv
  <2>2. Len(sent) <= Len(saved) /\ Len(saved) <= Len(log)
    BY <2>1, Behind
  <2> QED
    BY <2>1, <2>2, Lengths DEF JournalFirst, PrefixesRead
<1> QED
  BY <1>1, Invariance, PTL

(* The numbers that go out follow each other without a gap, and those in   *)
(* the pipe are the last that went.                                        *)
THEOREM InSequence == Spec => []SentInSequence
<1>1. IInv => SentInSequence
  <2> SUFFICES ASSUME IInv PROVE SentInSequence
    OBVIOUS
  <2>1. TypeOK /\ Cursors /\ PrefixesRead /\ Numbered /\ PipeHolds
    BY DEF IInv
  <2>2. Len(sent) <= Len(log)
    BY <2>1, Behind
  <2>3. \A i \in 1 .. Len(sent) : sent[i].sequence = i
    BY <2>1, <2>2, Lengths DEF PrefixesRead, Numbered
  <2>4. ASSUME NEW i \in 1 .. Len(frontend)
        PROVE  frontend[i].sequence = Len(sent) - Len(frontend) + i
    <3>1. Len(sent) - Len(frontend) + i \in 1 .. Len(sent)
      BY <2>1, Lengths DEF PipeHolds
    <3>2. frontend[i] = Command(sent[Len(sent) - Len(frontend) + i])
      BY <2>1 DEF PipeHolds
    <3>3. frontend[i].sequence = sent[Len(sent) - Len(frontend) + i].sequence
      BY <3>2 DEF Command
    <3> QED
      BY <2>3, <3>1, <3>3
  <2> QED
    BY <2>3, <2>4 DEF SentInSequence
<1> QED
  BY <1>1, Invariance, PTL

(* A broker that stops receiving stops the server: the orders numbered and *)
(* not received fit in the ring, the pipe and the hand of the put thread.  *)
THEOREM LeadIsBounded == Spec => []BoundedLead
<1>1. IInv => BoundedLead
  <2> SUFFICES ASSUME IInv PROVE BoundedLead
    OBVIOUS
  <2>1. TypeOK /\ Cursors /\ Numbered /\ PipeHolds
    BY DEF IInv
  <2>2. released[Route] <= Len(sent) /\ Len(log) <= released[Route] + Size
    BY <2>1, ServerAssumption DEF Cursors, Readers, Done
  <2>3. Len(log) + InHand = sequence - 1 /\ InHand \in {0, 1}
    BY <2>1 DEF Numbered, InHand
  <2>4. sequence \in Int /\ Len(frontend) <= HighWater
    BY <2>1 DEF TypeOK, PipeHolds
  <2> QED
    BY <2>1, <2>2, <2>3, <2>4, Lengths, ServerAssumption DEF BoundedLead
<1> QED
  BY <1>1, Invariance, PTL

(* A server with orders to make or to put and a pipe with room is never    *)
(* held up: a full ring is one that journal or route has still to read or  *)
(* to release, route's whole ring behind included.                         *)
THEOREM OnlyBrokerStops == Spec => []NoStandoff
<1>1. IInv => NoStandoff
  <2> SUFFICES ASSUME IInv, ~HasRoom, \A g \in Readers : ~Busy(g) PROVE FALSE
    BY DEF NoStandoff, PutWaits
  <2>1. TypeOK /\ Cursors
    BY DEF IInv
  <2>2. /\ released[Journal] \in Nat /\ released[Route] \in Nat /\ Len(log) \in Nat
        /\ Journal \in Readers /\ Route \in Readers
    BY <2>1, Lengths, ServerAssumption DEF TypeOK, Readers
  <2>3. ~(released[Route] < released[Journal]) /\ ~(released[Journal] < Len(log))
    BY <2>2, ServerAssumption DEF Busy, Least
  <2>4. ~(Len(log) < released[Route] + Size)
    BY DEF HasRoom
  <2> QED
    BY <2>2, <2>3, <2>4, ServerAssumption
<1> QED
  BY <1>1, Invariance, PTL

(* The server implements the abstract stream of its two readers: PutOrder  *)
(* publishes, Save and Send deliver, the rest stutters.                    *)
LEMMA ReaderSequences == ReadBy[Journal] = saved /\ ReadBy[Route] = sent
  BY ServerAssumption DEF ReadBy, Readers

LEMMA PutPublishes ==
  ASSUME IInv, PutOrder
  PROVE  Ring!Next
<1>1. TypeOK /\ Cursors
  BY DEF IInv
<1>2. order \in Orders
  BY <1>1 DEF TypeOK, PutOrder
<1>3. log' = Append(log, order) /\ UNCHANGED <<saved, sent>> /\ Len(log) < released[Route] + Size
  BY DEF PutOrder, HasRoom
<1>4. released[Route] <= Len(sent)
  BY <1>1, ServerAssumption DEF Cursors, Readers, Done
<1>5. Len(log) < Len(sent) + Size /\ Len(log) < Len(saved) + Size
  <2>1. /\ Len(log) \in Nat /\ Len(saved) \in Nat /\ Len(sent) \in Nat
        /\ released[Route] \in Nat /\ Size \in Nat
    BY <1>1, Lengths, ServerAssumption
  <2>2. Len(sent) <= Len(saved)
    BY <1>1, Behind
  <2> QED
    BY ONLY <1>3, <1>4, <2>1, <2>2
<1>6. \A c \in Readers : Len(log) < Len(ReadBy[c]) + Size
  BY <1>5, ReaderSequences DEF Readers
<1>7. UNCHANGED ReadBy
  BY <1>3 DEF ReadBy
<1>8. Ring!Publish(order)
  BY <1>3, <1>6, <1>7 DEF Ring!Publish
<1> QED
  BY <1>2, <1>8 DEF Ring!Next

LEMMA SaveDelivers ==
  ASSUME IInv, Save
  PROVE  Ring!Next
<1>1. TypeOK /\ Cursors
  BY DEF IInv
<1>2. UNCHANGED <<log, sent>> /\ saved' = Append(saved, log[Len(saved) + 1]) /\ Len(saved) < end[Journal]
  BY DEF Save
<1>3. Len(saved) < Len(log)
  BY <1>1, <1>2, Lengths, Behind
<1>4. ReadBy' = [ReadBy EXCEPT ![Journal] = Append(@, log[Len(@) + 1])]
  BY <1>2, ServerAssumption DEF ReadBy, Readers
<1>5. Ring!Deliver(Journal)
  BY <1>2, <1>3, <1>4, ReaderSequences, ServerAssumption DEF Ring!Deliver, Readers
<1> QED
  BY <1>5 DEF Ring!Next, Readers

LEMMA SendDelivers ==
  ASSUME IInv, Send
  PROVE  Ring!Next
<1>1. TypeOK /\ Cursors
  BY DEF IInv
<1>2. UNCHANGED <<log, saved>> /\ sent' = Append(sent, log[Len(sent) + 1]) /\ Len(sent) < end[Route]
  BY DEF Send
<1>3. Len(sent) < Len(saved) /\ Len(sent) < Len(log)
  BY <1>1, <1>2, Lengths, Behind
<1>4. ReadBy' = [ReadBy EXCEPT ![Route] = Append(@, log[Len(@) + 1])]
  <2> DEFINE now == Append(sent, log[Len(sent) + 1])
  <2>1. sent' = now /\ saved' = saved
    BY <1>2
  <2> HIDE DEF now
  <2>2. ReadBy' = [ReadBy EXCEPT ![Route] = now]
    <3>1. ReadBy' = [g \in Readers |-> IF g = Journal THEN saved ELSE now]
      BY <2>1 DEF ReadBy
    <3>2. \A g \in Readers : IF g = Journal THEN g # Route ELSE g = Route
      BY ServerAssumption DEF Readers
    <3>3. [ReadBy EXCEPT ![Route] = now] = [g \in Readers |-> IF g = Route THEN now ELSE ReadBy[g]]
      BY DEF ReadBy
    <3>4. \A g \in Readers : (IF g = Journal THEN saved ELSE now) = (IF g = Route THEN now ELSE ReadBy[g])
      BY <3>2, ReaderSequences
    <3> QED
      BY <3>1, <3>3, <3>4
  <2>3. now = Append(ReadBy[Route], log[Len(ReadBy[Route]) + 1])
    BY ReaderSequences DEF now
  <2> QED
    BY <2>2, <2>3
<1>5. Ring!Deliver(Route)
  BY <1>2, <1>3, <1>4, ReaderSequences, ServerAssumption DEF Ring!Deliver, Readers
<1> QED
  BY <1>5 DEF Ring!Next, Readers

(* Journal and route each read the one sequence of orders from its start,  *)
(* route never ahead of journal, and put never laps either.                *)
THEOREM ImplementsStream == Spec => RingPromise
<1>1. Init => Ring!Init
  BY DEF Init, Ring!Init, ReadBy
<1>2. IInv /\ [Next]_vars => [Ring!Next]_(Ring!vars)
  <2> SUFFICES ASSUME IInv, [Next]_vars PROVE [Ring!Next]_(Ring!vars)
    OBVIOUS
  <2>1. CASE PutOrder
    BY <2>1, PutPublishes
  <2>2. CASE Save
    BY <2>2, SaveDelivers
  <2>3. CASE Send
    BY <2>3, SendDelivers
  <2>4. CASE UNCHANGED <<log, saved, sent>>
    BY <2>4 DEF Ring!vars, ReadBy
  <2>5. ASSUME NEW g \in Readers, ClaimBatch(g) \/ ReleaseBatch(g)
        PROVE  UNCHANGED <<log, saved, sent>>
    BY <2>5 DEF ClaimBatch, ReleaseBatch
  <2>6. Receive \/ UNCHANGED vars => UNCHANGED <<log, saved, sent>>
    BY DEF Receive, vars
  <2>7. Put => PutOrder \/ UNCHANGED <<log, saved, sent>>
    BY DEF Put, MakeOrder
  <2> QED
    BY <2>1, <2>2, <2>3, <2>4, <2>5, <2>6, <2>7 DEF Next, JournalStep, RouteStep, Readers
<1> QED
  BY <1>1, <1>2, Invariance, PTL DEF Spec, RingPromise, Ring!Spec

------------------------------------------------------------------------------
(* The market: its two parts.                                              *)

LEMMA BrokerAssumptions == B!ServiceAssumption /\ B!BoundAssumption
  BY MarketAssumption, ServerAssumption DEF B!ServiceAssumption, B!BoundAssumption

(* The broker either leaves the frontend alone or receives its first order.*)
LEMMA BrokerReceives ==
  ASSUME MatchBroker!BrokerStep
  PROVE  UNCHANGED frontend \/ (frontend # <<>> /\ frontend' = Tail(frontend))
<1>1. MatchBroker!Poll => UNCHANGED frontend
  BY DEF MatchBroker!Poll
<1>2. ASSUME NEW w \in Services,
             MatchBroker!ReceiveMotto(w) \/ MatchBroker!IgnoreMessage(w) \/ MatchBroker!Register(w)
      PROVE  UNCHANGED frontend
  BY <1>2 DEF MatchBroker!ReceiveMotto, MatchBroker!IgnoreMessage, MatchBroker!Register,
     MatchBroker!ReceiveMessage
<1>3. ASSUME NEW o, MatchBroker!RouteOrder(o) \/ MatchBroker!DropOrder(o) \/ MatchBroker!Crash(o)
      PROVE  frontend' = Tail(frontend)
  BY <1>3 DEF MatchBroker!RouteOrder, MatchBroker!DropOrder, MatchBroker!Crash,
     MatchBroker!ReceiveOrder
<1> QED
  BY <1>1, <1>2, <1>3 DEF MatchBroker!BrokerStep

(* The server works in the market as it does with any reader of its pipe.  *)
THEOREM ServerInMarket == MarketSpec => Spec
<1>1. MarketInit => Init
  BY DEF MarketInit
<1>2. [MarketNext]_marketVars => [Next]_vars
  <2> SUFFICES ASSUME [MarketNext]_marketVars PROVE [Next]_vars
    OBVIOUS
  <2>1. ServerWork => Next
    BY DEF ServerWork, Next, JournalStep, RouteStep
  <2>2. SendToBroker => Next
    BY DEF SendToBroker, Next, RouteStep
  <2>3. ASSUME NEW w \in Services, ServiceStep(w) PROVE UNCHANGED vars
    <3>1. UNCHANGED frontend
      BY <2>3 DEF ServiceStep, MatchBroker!Greet, MatchBroker!Fill, MatchBroker!Stop
    <3> QED
      BY <2>3, <3>1 DEF ServiceStep, serverVars, vars
  <2>4. CASE BrokerStep
    <3>1. UNCHANGED serverVars /\ MatchBroker!BrokerStep
      BY <2>4 DEF BrokerStep
    <3>2. CASE UNCHANGED frontend
      BY <3>1, <3>2 DEF serverVars, vars
    <3>3. CASE frontend # <<>> /\ frontend' = Tail(frontend)
      BY <3>1, <3>3 DEF serverVars, Receive, Next
    <3> QED
      BY <3>1, <3>2, <3>3, BrokerReceives
  <2>5. UNCHANGED marketVars => UNCHANGED vars
    BY DEF marketVars
  <2> QED
    BY <2>1, <2>2, <2>3, <2>4, <2>5 DEF MarketNext
<1> QED
  BY <1>1, <1>2, PTL DEF MarketSpec, Spec

(* The broker and the services work behind the server as they do behind any*)
(* sender of numbered orders: by the way Market is put together, so that   *)
(* what BrokerProofs shows can be cited.                                   *)
LEMMA BrokerInMarket == MarketSpec => MatchBroker!Spec
<1>1. MarketInit => MatchBroker!Init
  BY DEF MarketInit
<1>2. [MarketNext]_marketVars => [MatchBroker!Next]_(MatchBroker!vars)
  <2> SUFFICES ASSUME [MarketNext]_marketVars PROVE [MatchBroker!Next]_(MatchBroker!vars)
    OBVIOUS
  <2>1. ServerWork => UNCHANGED <<sent, frontend, brokerVars>>
    BY DEF ServerWork, Put, MakeOrder, PutOrder, ClaimBatch, ReleaseBatch, Save
  <2>2. UNCHANGED <<sent, frontend, brokerVars>> => UNCHANGED MatchBroker!vars
    BY DEF brokerVars, MatchBroker!vars
  <2>3. SendToBroker => MatchBroker!Next
    BY DEF SendToBroker, MatchBroker!Next
  <2>4. ASSUME NEW w \in Services, ServiceStep(w) PROVE MatchBroker!Next
    BY <2>4 DEF ServiceStep, MatchBroker!Next
  <2>5. BrokerStep => MatchBroker!Next
    BY DEF BrokerStep, MatchBroker!Next
  <2>6. UNCHANGED marketVars => UNCHANGED <<sent, frontend, brokerVars>>
    BY DEF marketVars, vars
  <2> QED
    BY <2>1, <2>2, <2>3, <2>4, <2>5, <2>6 DEF MarketNext
<1> QED
  BY <1>1, <1>2, PTL DEF MarketSpec, MatchBroker!Spec

(* The instance of BrokerProofs is of the same state as that of Broker:    *)
(* once expanded, their definitions are the same formulas.                 *)
LEMMA SameBroker == MarketSpec => B!Spec
<1>1. MatchBroker!Init => B!Init
  BY DEF MatchBroker!Init, B!Init, MatchBroker!Codes, B!Codes
<1>2. [MatchBroker!Next]_(MatchBroker!vars) => [B!Next]_(B!vars)
  BY DEF MatchBroker!vars, B!vars, MatchBroker!broker, B!broker, MatchBroker!Next, B!Next,
     MatchBroker!SendOrder, B!SendOrder, MatchBroker!Greet, B!Greet, MatchBroker!Fill, B!Fill,
     MatchBroker!Stop, B!Stop, MatchBroker!BrokerStep, B!BrokerStep, MatchBroker!Poll, B!Poll,
     MatchBroker!Readable, B!Readable, MatchBroker!Handled, B!Handled,
     MatchBroker!ReceiveOrder, B!ReceiveOrder, MatchBroker!Registered, B!Registered,
     MatchBroker!FirstWorker, B!FirstWorker, MatchBroker!Reachable, B!Reachable,
     MatchBroker!RouteOrder, B!RouteOrder, MatchBroker!DropOrder, B!DropOrder,
     MatchBroker!Crash, B!Crash, MatchBroker!IsMotto, B!IsMotto,
     MatchBroker!ReceiveMessage, B!ReceiveMessage, MatchBroker!ReceiveMotto, B!ReceiveMotto,
     MatchBroker!IgnoreMessage, B!IgnoreMessage, MatchBroker!Register, B!Register
<1> QED
  BY <1>1, <1>2, BrokerInMarket, PTL DEF MatchBroker!Spec, B!Spec

LEMMA BrokerKeeps == MarketSpec => [](B!TypeOK /\ B!InOrder /\ B!OneBook)
<1>1. B!Spec => []B!TypeOK
  BY BrokerAssumptions, B!TypeCorrect, PTL
<1>2. B!Spec => []B!InOrder
  BY BrokerAssumptions, B!StaysInOrder, PTL
<1>3. B!Spec => []B!OneBook
  BY BrokerAssumptions, B!NeverSplit, PTL
<1> QED
  BY <1>1, <1>2, <1>3, SameBroker, PTL
------------------------------------------------------------------------------
(* What a service is given.                                                *)

AllSaved ==
  \A w \in Services :
    /\ \A i \in 1 .. Len(filled[w]) : IsSaved(filled[w][i])
    /\ \A i \in 1 .. Len(inbox[w]) : IsSaved(inbox[w][i])

LEMMA ServiceSequences ==
  ASSUME B!TypeOK, NEW w \in Services
  PROVE  /\ inbox[w] \in Seq(B!Orders) /\ filled[w] \in Seq(B!Orders)
         /\ Len(inbox[w]) \in Nat /\ Len(filled[w]) \in Nat
  BY DEF B!TypeOK

(* What the journal holds it keeps.                                        *)
LEMMA StaysSaved ==
  ASSUME TypeOK, UNCHANGED saved \/ Save, TypeOK',
         NEW o, IsSaved(o)
  PROVE  IsSaved(o)'
<1>1. CASE UNCHANGED saved
  BY <1>1 DEF IsSaved, Command
<1>2. CASE Save
  <2>1. saved' = Append(saved, log[Len(saved) + 1]) /\ Len(saved) \in Nat
    BY <1>2, Lengths DEF Save
  <2>2. Len(saved') = Len(saved) + 1 /\ \A i \in 1 .. Len(saved) : saved'[i] = saved[i]
    BY <2>1 DEF TypeOK
  <2>3. o.sequence \in 1 .. Len(saved) /\ o = Command(saved[o.sequence])
    BY DEF IsSaved
  <2>4. o.sequence \in 1 .. Len(saved') /\ saved'[o.sequence] = saved[o.sequence]
    BY <2>1, <2>2, <2>3
  <2> QED
    BY <2>3, <2>4 DEF IsSaved, Command
<1> QED
  BY <1>1, <1>2

(* What is in the pipe to the broker was sent, hence saved.                *)
LEMMA PipeIsSaved ==
  ASSUME IInv, frontend # <<>>
  PROVE  IsSaved(Head(frontend))
<1> DEFINE k == Len(sent) - Len(frontend) + 1
<1>1. TypeOK /\ Cursors /\ PrefixesRead /\ Numbered /\ PipeHolds
  BY DEF IInv
<1>2. Len(frontend) \in Nat \ {0} /\ Head(frontend) = frontend[1]
  BY <1>1, TailElements DEF TypeOK
<1>3. k \in 1 .. Len(sent) /\ k \in 1 .. Len(saved) /\ k \in 1 .. Len(log)
  BY <1>1, <1>2, Lengths, Behind DEF PipeHolds
<1>4. frontend[1] = Command(sent[k])
  BY <1>1, <1>2 DEF PipeHolds
<1>5. sent[k] = saved[k] /\ sent[k].sequence = k
  BY <1>1, <1>3 DEF PrefixesRead, Numbered
<1> HIDE DEF k
<1> QED
  BY <1>2, <1>3, <1>4, <1>5 DEF IsSaved, Command

LEMMA FillKeeps ==
  ASSUME AllSaved, B!TypeOK, NEW w \in Services, MatchBroker!Fill(w), UNCHANGED saved
  PROVE  AllSaved'
<1>1. /\ inbox[w] # <<>>
      /\ filled' = [filled EXCEPT ![w] = Append(@, Head(inbox[w]))]
      /\ inbox' = [inbox EXCEPT ![w] = Tail(@)]
  BY DEF MatchBroker!Fill
<1>2. filled \in [Services -> Seq(B!Orders)] /\ inbox \in [Services -> Seq(B!Orders)]
  BY DEF B!TypeOK
<1>3. /\ Len(inbox[w]) \in Nat \ {0} /\ Head(inbox[w]) = inbox[w][1]
      /\ Head(inbox[w]) \in B!Orders
      /\ Len(Tail(inbox[w])) = Len(inbox[w]) - 1
      /\ \A i \in 1 .. Len(inbox[w]) - 1 : Tail(inbox[w])[i] = inbox[w][i + 1]
  BY <1>1, <1>2
<1>4. /\ Len(Append(filled[w], Head(inbox[w]))) = Len(filled[w]) + 1 /\ Len(filled[w]) \in Nat
      /\ \A i \in 1 .. Len(filled[w]) : Append(filled[w], Head(inbox[w]))[i] = filled[w][i]
      /\ Append(filled[w], Head(inbox[w]))[Len(filled[w]) + 1] = Head(inbox[w])
  BY <1>2, <1>3, AppendElements
<1>5. \A o : IsSaved(o) => IsSaved(o)'
  BY DEF IsSaved, Command
<1>6. ASSUME NEW v \in Services
      PROVE  /\ \A i \in 1 .. Len(filled'[v]) : IsSaved(filled'[v][i])
             /\ \A i \in 1 .. Len(inbox'[v]) : IsSaved(inbox'[v][i])
  <2>1. CASE v = w
    <3>1. filled'[v] = Append(filled[w], Head(inbox[w])) /\ inbox'[v] = Tail(inbox[w])
      BY <1>1, <1>2, <2>1
    <3>2. ASSUME NEW i \in 1 .. Len(filled[w]) + 1
          PROVE  IsSaved(Append(filled[w], Head(inbox[w]))[i])
      <4>1. IsSaved(Head(inbox[w]))
        BY <1>3 DEF AllSaved
      <4>2. i \in 1 .. Len(filled[w]) \/ i = Len(filled[w]) + 1
        BY <1>4
      <4> QED
        BY <1>4, <4>1, <4>2 DEF AllSaved
    <3>3. ASSUME NEW i \in 1 .. Len(inbox[w]) - 1
          PROVE  IsSaved(Tail(inbox[w])[i])
      <4>1. i + 1 \in 1 .. Len(inbox[w]) /\ Tail(inbox[w])[i] = inbox[w][i + 1]
        BY <1>3
      <4> QED
        BY <4>1 DEF AllSaved
    <3> QED
      BY <1>3, <1>4, <3>1, <3>2, <3>3
  <2>2. CASE v # w
    BY <1>1, <1>2, <2>2 DEF AllSaved
  <2> QED
    BY <2>1, <2>2
<1> QED
  BY <1>5, <1>6 DEF AllSaved, IsSaved, Command

LEMMA StopKeeps ==
  ASSUME AllSaved, B!TypeOK, NEW w \in Services, MatchBroker!Stop(w), UNCHANGED saved
  PROVE  AllSaved'
<1>1. UNCHANGED filled /\ inbox' = [inbox EXCEPT ![w] = <<>>]
  BY DEF MatchBroker!Stop
<1>2. inbox \in [Services -> Seq(B!Orders)]
  BY DEF B!TypeOK
<1>3. \A v \in Services : inbox'[v] = inbox[v] \/ inbox'[v] = <<>>
  BY <1>1, <1>2
<1>4. \A v \in Services : \A i \in 1 .. Len(inbox'[v]) : IsSaved(inbox'[v][i])
  BY <1>3 DEF AllSaved
<1> QED
  BY <1>1, <1>4 DEF AllSaved, IsSaved, Command

LEMMA RouteKeeps ==
  ASSUME AllSaved, B!TypeOK, IInv, frontend # <<>>,
         MatchBroker!RouteOrder(Head(frontend)), UNCHANGED saved
  PROVE  AllSaved'
<1> DEFINE o == Head(frontend)
           w == MatchBroker!FirstWorker(o.code)
<1>1. UNCHANGED filled /\ inbox' = [inbox EXCEPT ![w] = Append(@, o)]
  BY DEF MatchBroker!RouteOrder, MatchBroker!ReceiveOrder
<1>2. inbox \in [Services -> Seq(B!Orders)] /\ o \in B!Orders
  BY DEF B!TypeOK
<1>3. IsSaved(o)
  BY PipeIsSaved
<1> HIDE DEF o, w
<1>4. ASSUME NEW v \in Services, NEW i \in 1 .. Len(inbox'[v])
      PROVE  IsSaved(inbox'[v][i])
  <2>1. CASE v = w
    <3>1. inbox'[v] = Append(inbox[v], o)
      BY <1>1, <1>2, <2>1
    <3>2. /\ Len(inbox'[v]) = Len(inbox[v]) + 1 /\ Len(inbox[v]) \in Nat
          /\ \A j \in 1 .. Len(inbox[v]) : inbox'[v][j] = inbox[v][j]
          /\ inbox'[v][Len(inbox[v]) + 1] = o
      BY <1>2, <3>1, AppendElements
    <3>3. i \in 1 .. Len(inbox[v]) \/ i = Len(inbox[v]) + 1
      BY <3>2
    <3> QED
      BY <1>3, <3>2, <3>3 DEF AllSaved
  <2>2. CASE v # w
    <3>1. inbox'[v] = inbox[v]
      BY <1>1, <1>2, <2>2
    <3> QED
      BY <3>1 DEF AllSaved
  <2> QED
    BY <2>1, <2>2
<1> QED
  <2>1. \A v \in Services : \A i \in 1 .. Len(filled[v]) : IsSaved(filled[v][i])
    BY DEF AllSaved
  <2>2. /\ \A v \in Services : \A i \in 1 .. Len(filled'[v]) : IsSaved(filled'[v][i])
        /\ \A v \in Services : \A i \in 1 .. Len(inbox'[v]) : IsSaved(inbox'[v][i])
    BY ONLY <1>1, <1>4, <2>1
  <2> QED
    BY ONLY <2>2, UNCHANGED saved DEF AllSaved, IsSaved, Command

LEMMA AllSavedKeeps ==
  ASSUME AllSaved, B!TypeOK, IInv, IInv', [MarketNext]_marketVars
  PROVE  AllSaved'
<1>1. TypeOK /\ TypeOK'
  BY DEF IInv
<1>2. ASSUME UNCHANGED <<filled, inbox>>, UNCHANGED saved \/ Save PROVE AllSaved'
  BY <1>1, <1>2, StaysSaved DEF AllSaved
<1>3. CASE ServerWork
  <2>1. UNCHANGED saved \/ Save
    BY <1>3 DEF ServerWork, Put, MakeOrder, PutOrder, ClaimBatch, ReleaseBatch
  <2> QED
    BY <1>2, <1>3, <2>1 DEF ServerWork, brokerVars
<1>4. CASE SendToBroker
  <2>1. UNCHANGED <<filled, inbox, saved>>
    BY <1>4 DEF SendToBroker, Send, MatchBroker!SendOrder
  <2> QED
    BY <1>2, <2>1
<1>5. ASSUME NEW w \in Services, ServiceStep(w) PROVE AllSaved'
  <2>1. UNCHANGED saved
    BY <1>5 DEF ServiceStep, serverVars
  <2>2. CASE MatchBroker!Greet(w)
    <3>1. UNCHANGED <<filled, inbox>>
      BY <2>2 DEF MatchBroker!Greet
    <3> QED
      BY <1>2, <2>1, <3>1
  <2>3. CASE MatchBroker!Fill(w)
    BY <2>1, <2>3, FillKeeps
  <2>4. CASE MatchBroker!Stop(w)
    BY <2>1, <2>4, StopKeeps
  <2> QED
    BY <1>5, <2>2, <2>3, <2>4 DEF ServiceStep
<1>6. CASE BrokerStep
  <2>1. UNCHANGED saved /\ MatchBroker!BrokerStep
    BY <1>6 DEF BrokerStep, serverVars
  <2>2. CASE UNCHANGED <<filled, inbox>>
    BY <1>2, <2>1, <2>2
  <2>3. MatchBroker!Poll => UNCHANGED <<filled, inbox>>
    BY DEF MatchBroker!Poll
  <2>4. ASSUME NEW w \in Services,
               MatchBroker!ReceiveMotto(w) \/ MatchBroker!IgnoreMessage(w) \/ MatchBroker!Register(w)
        PROVE  UNCHANGED <<filled, inbox>>
    BY <2>4 DEF MatchBroker!ReceiveMotto, MatchBroker!IgnoreMessage, MatchBroker!Register,
       MatchBroker!ReceiveMessage
  <2>5. MatchBroker!DropOrder(Head(frontend)) \/ MatchBroker!Crash(Head(frontend))
          => UNCHANGED <<filled, inbox>>
    BY DEF MatchBroker!DropOrder, MatchBroker!Crash, MatchBroker!ReceiveOrder
  <2>6. CASE frontend # <<>> /\ MatchBroker!RouteOrder(Head(frontend))
    BY <2>1, <2>6, RouteKeeps
  <2> QED
    BY <2>1, <2>2, <2>3, <2>4, <2>5, <2>6 DEF MatchBroker!BrokerStep
<1>7. CASE UNCHANGED marketVars
  BY <1>2, <1>7 DEF marketVars, vars, brokerVars
<1> QED
  BY <1>3, <1>4, <1>5, <1>6, <1>7 DEF MarketNext

LEMMA ConcatPrefix ==
  ASSUME NEW S, NEW s \in Seq(S), NEW t \in Seq(S)
  PROVE  \A i \in 1 .. Len(s) : i \in 1 .. Len(s \o t) /\ (s \o t)[i] = s[i]
  OBVIOUS

(* The orders of one code are those of one service, so that two rings never*)
(* hold the same.                                                          *)
LEMMA InOneRing ==
  ASSUME AllSaved, B!TypeOK, B!InOrder, B!OneBook
  PROVE  FilledWasSaved
<1> SUFFICES ASSUME NEW w \in Services
             PROVE  /\ \A i, j \in 1 .. Len(filled[w]) :
                         i < j => filled[w][i].sequence < filled[w][j].sequence
                    /\ \A v \in Services \ {w} :
                         \A i \in 1 .. Len(filled[w]), j \in 1 .. Len(filled[v]) :
                           filled[w][i].sequence # filled[v][j].sequence
  BY DEF AllSaved, FilledWasSaved
<1>1. ASSUME NEW v \in Services
      PROVE  \A i \in 1 .. Len(filled[v]) :
               i \in 1 .. Len(B!Received(v)) /\ B!Received(v)[i] = filled[v][i]
  <2>1. filled[v] \in Seq(B!Orders) /\ inbox[v] \in Seq(B!Orders)
    BY ServiceSequences
  <2> QED
    BY <2>1, ConcatPrefix DEF B!Received
<1>2. \A i, j \in 1 .. Len(filled[w]) :
        i < j => filled[w][i].sequence < filled[w][j].sequence
  BY <1>1 DEF B!InOrder, B!Ascending
<1>3. ASSUME NEW v \in Services \ {w},
             NEW i \in 1 .. Len(filled[w]), NEW j \in 1 .. Len(filled[v]),
             filled[w][i].sequence = filled[v][j].sequence
      PROVE  FALSE
  <2>1. filled[w][i].code # filled[v][j].code
    <3>1. /\ i \in 1 .. Len(B!Received(w)) /\ B!Received(w)[i] = filled[w][i]
          /\ j \in 1 .. Len(B!Received(v)) /\ B!Received(v)[j] = filled[v][j]
      BY <1>1
    <3>2. v \in Services /\ w \in Services /\ w # v
      OBVIOUS
    <3>3. B!Received(w)[i].code # B!Received(v)[j].code
      BY ONLY <3>1, <3>2, B!OneBook DEF B!OneBook
    <3> QED
      BY <3>1, <3>3
  <2>2. IsSaved(filled[w][i]) /\ IsSaved(filled[v][j])
    BY DEF AllSaved
  <2>3. filled[w][i] = filled[v][j]
    BY <1>3, <2>2 DEF IsSaved
  <2> QED
    BY <2>1, <2>3
<1> QED
  BY <1>2, <1>3

(* From the journal to the ring of a book: what a service receives was     *)
(* saved, in the order it was numbered, and by no other service.           *)
THEOREM SavedBeforeFilled == MarketSpec => []FilledWasSaved
<1>1. MarketInit => AllSaved
  BY DEF MarketInit, MatchBroker!Init, AllSaved
<1>2. MarketSpec => []IInv
  BY ServerInMarket, Invariance, PTL
<1>3. MarketSpec => [](B!TypeOK /\ B!InOrder /\ B!OneBook)
  BY BrokerKeeps
<1>4. AllSaved /\ B!TypeOK /\ IInv /\ IInv' /\ [MarketNext]_marketVars => AllSaved'
  BY AllSavedKeeps
<1>5. AllSaved /\ B!TypeOK /\ B!InOrder /\ B!OneBook => FilledWasSaved
  BY InOneRing
<1> QED
  BY <1>1, <1>2, <1>3, <1>4, <1>5, PTL DEF MarketSpec
==============================================================================
