------------------------------- MODULE Broker -------------------------------
(***************************************************************************)
(* How orders find the order book of their asset: the route thread of the  *)
(* OrderRingServer (RouteOrder.hxx), the broker (MatchEngineBroker.cpp) and*)
(* the match services (MatchEngineService.cpp), joined by 0mq sockets.     *)
(*                                                                         *)
(* A service greets the broker with two messages, the motto and the code   *)
(* of its asset.  The broker polls its two ROUTER sockets; after each poll *)
(* it routes one order, if there is one, to the first service of the       *)
(* order's asset, then receives one greeting, if there is one.             *)
(*                                                                         *)
(* A pipe between two sockets is a sequence of whole messages.  A DEALER   *)
(* waits while its pipe is full; a ROUTER drops what it cannot send, and   *)
(* receives from any of its pipes that has a message.                      *)
(***************************************************************************)
EXTENDS Integers, Sequences

CONSTANTS
  Services,  \* the processes of MatchEngineService, by 0mq identity
  Assets,    \* asset codes
  Asset,     \* service -> the code of its asset
  Motto,     \* "Caelum non animum muto"
  NoService,
  Mortal,    \* the services that may stop
  HighWater, \* messages a pipe holds
  MaxOrders  \* bound: orders routed in a behaviour

ASSUME ServiceAssumption ==
  /\ Asset \in [Services -> Assets]
  /\ Motto \notin Assets
  /\ NoService \notin Services

ASSUME BoundAssumption == HighWater \in Nat \ {0} /\ MaxOrders \in Nat

VARIABLES
  sequence,        \* the number of the next order
  frontend,        \* the pipe from the OrderRingServer
  backend,         \* the pipe from each service
  inbox,           \* the pipe to each service
  workersPerAsset, \* code -> the services that gave it
  pc,              \* where the broker is: "polling", "handling", "greeting" or "crashed"
  items,           \* what poll() reported and the loop has not handled
  workerAddress,   \* the service whose motto was received
  said,            \* how many messages of its greeting a service has sent
  up,              \* the services that have not stopped
  filled           \* history: the orders each service put in its book's ring

vars == <<sequence, frontend, backend, inbox, workersPerAsset, pc, items, workerAddress,
          said, up, filled>>
broker == <<workersPerAsset, pc, items, workerAddress>>

Codes == Assets \cup {Motto}
Orders == [sequence : Nat, code : Assets]

Init ==
  /\ sequence = 1
  /\ frontend = <<>>
  /\ backend = [w \in Services |-> <<>>]
  /\ inbox = [w \in Services |-> <<>>]
  /\ workersPerAsset = [c \in Codes |-> <<>>]
  /\ pc = "polling"
  /\ items = {}
  /\ workerAddress = NoService
  /\ said = [w \in Services |-> 0]
  /\ up = Services
  /\ filled = [w \in Services |-> <<>>]

------------------------------------------------------------------------------
(* RouteOrder::route: send the next order of the ring.                     *)
SendOrder(code) ==
  /\ sequence <= MaxOrders
  /\ Len(frontend) < HighWater
  /\ frontend' = Append(frontend, [sequence |-> sequence, code |-> code])
  /\ sequence' = sequence + 1
  /\ UNCHANGED <<backend, inbox, broker, said, up, filled>>

(* MatchEngineService: the two messages of a greeting.                     *)
Greet(w) ==
  /\ w \in up
  /\ said[w] < 2
  /\ backend' = [backend EXCEPT ![w] = Append(@, IF said[w] = 0 THEN Motto ELSE Asset[w])]
  /\ said' = [said EXCEPT ![w] = @ + 1]
  /\ UNCHANGED <<sequence, frontend, inbox, broker, up, filled>>

(* MatchEngineService, waitRequest_t: receive an order, put it in the ring.*)
Fill(w) ==
  /\ w \in up
  /\ said[w] = 2
  /\ inbox[w] # <<>>
  /\ filled' = [filled EXCEPT ![w] = Append(@, Head(inbox[w]))]
  /\ inbox' = [inbox EXCEPT ![w] = Tail(@)]
  /\ UNCHANGED <<sequence, frontend, backend, broker, said, up>>

(* The process of a service ends, and with it the pipe to it; what it sent *)
(* is still received.  Started again it has another identity.              *)
Stop(w) ==
  /\ w \in up \cap Mortal
  /\ up' = up \ {w}
  /\ inbox' = [inbox EXCEPT ![w] = <<>>]
  /\ UNCHANGED <<sequence, frontend, backend, broker, said, filled>>

------------------------------------------------------------------------------
(* The broker's loop.                                                      *)

Readable ==
  {s \in {"frontend", "backend"} :
     \/ s = "frontend" /\ frontend # <<>>
     \/ s = "backend" /\ \E w \in Services : backend[w] # <<>>}

Poll ==
  /\ pc = "polling"
  /\ Readable # {}
  /\ items' = Readable
  /\ pc' = "handling"
  /\ UNCHANGED <<sequence, frontend, backend, inbox, workersPerAsset, workerAddress,
                 said, up, filled>>

Handled(item) ==
  /\ items' = items \ {item}
  /\ pc' = IF items' = {} THEN "polling" ELSE "handling"

(* Mutant: what is received stays in the pipe.                             *)
PeekOrder(o) ==
  /\ pc = "handling"
  /\ "frontend" \in items
  /\ o = Head(frontend)
  /\ UNCHANGED <<sequence, frontend, backend, workersPerAsset, workerAddress, said, up, filled>>

(* s_recv of an order.                                                     *)
ReceiveOrder(o) ==
  /\ pc = "handling"
  /\ "frontend" \in items
  /\ o = Head(frontend)
  /\ frontend' = Tail(frontend)
  /\ UNCHANGED <<sequence, backend, workersPerAsset, workerAddress, said, up, filled>>

Registered(code) == workersPerAsset[code] # <<>>

(* Mutant: the service that registered last.                               *)
LatestWorker(code) == workersPerAsset[code][Len(workersPerAsset[code])]

FirstWorker(code) == Head(workersPerAsset[code])

Reachable(w) == w \in up /\ Len(inbox[w]) < HighWater

RouteOrder(o) ==
  /\ ReceiveOrder(o)
  /\ Registered(o.code)
  /\ Reachable(FirstWorker(o.code))
  /\ inbox' = [inbox EXCEPT ![FirstWorker(o.code)] = Append(@, o)]
  /\ Handled("frontend")

(* The service has stopped or its pipe is full: the order is dropped.      *)
DropOrder(o) ==
  /\ ReceiveOrder(o)
  /\ Registered(o.code)
  /\ ~Reachable(FirstWorker(o.code))
  /\ UNCHANGED inbox
  /\ Handled("frontend")

(* No service of the order's asset: find() returns end(), and reading what *)
(* that stands for is undefined; it faults, and the broker is gone.        *)
Crash(o) ==
  /\ ReceiveOrder(o)
  /\ ~Registered(o.code)
  /\ pc' = "crashed"
  /\ items' = {}
  /\ UNCHANGED inbox

(* Mutant: any message is a greeting.                                      *)
AnyMessage(m) == TRUE

IsMotto(m) == m = Motto

(* s_recv of an identity and a message, from any service that sent one.    *)
ReceiveMessage(w) ==
  /\ pc = "handling"
  /\ items = {"backend"}
  /\ backend[w] # <<>>
  /\ backend' = [backend EXCEPT ![w] = Tail(@)]
  /\ UNCHANGED <<sequence, frontend, inbox, workersPerAsset, said, up, filled>>

ReceiveMotto(w) ==
  /\ ReceiveMessage(w)
  /\ IsMotto(Head(backend[w]))
  /\ workerAddress' = w
  /\ pc' = "greeting"
  /\ items' = {}

(* Mutant: go on receiving until it is the motto.                          *)
WaitForMotto(w) ==
  /\ ReceiveMessage(w)
  /\ ~IsMotto(Head(backend[w]))
  /\ UNCHANGED <<workerAddress, pc, items>>

(* A message that is not the motto is received and forgotten.              *)
IgnoreMessage(w) ==
  /\ ReceiveMessage(w)
  /\ ~IsMotto(Head(backend[w]))
  /\ UNCHANGED workerAddress
  /\ Handled("backend")

(* The message received next gives the code, whichever service sent it.    *)
Register(w) ==
  /\ pc = "greeting"
  /\ backend[w] # <<>>
  /\ workersPerAsset' = [workersPerAsset EXCEPT ![Head(backend[w])] = Append(@, workerAddress)]
  /\ backend' = [backend EXCEPT ![w] = Tail(@)]
  /\ workerAddress' = NoService
  /\ pc' = "polling"
  /\ UNCHANGED <<sequence, frontend, inbox, items, said, up, filled>>

------------------------------------------------------------------------------
BrokerStep ==
  \/ Poll
  \/ frontend # <<>> /\ LET o == Head(frontend) IN RouteOrder(o) \/ DropOrder(o) \/ Crash(o)
  \/ \E w \in Services : ReceiveMotto(w) \/ IgnoreMessage(w) \/ Register(w)

Next ==
  \/ \E code \in Assets : SendOrder(code)
  \/ \E w \in Services : Greet(w) \/ Fill(w) \/ Stop(w)
  \/ BrokerStep

Spec == Init /\ [][Next]_vars

(* The broker's process keeps running, and a service that has begun its    *)
(* greeting ends it.                                                       *)
FairSpec == Spec /\ WF_vars(BrokerStep) /\ \A w \in Services : WF_vars(said[w] = 1 /\ Greet(w))
------------------------------------------------------------------------------
(* Type correctness.                                                       *)
TypeOK ==
  /\ sequence \in Nat \ {0}
  /\ frontend \in Seq(Orders)
  /\ backend \in [Services -> Seq(Codes)]
  /\ inbox \in [Services -> Seq(Orders)]
  /\ workersPerAsset \in [Codes -> Seq(Services)]
  /\ pc \in {"polling", "handling", "greeting", "crashed"}
  /\ items \subseteq {"frontend", "backend"}
  /\ pc = "handling" <=> items # {}
  /\ workerAddress \in Services \cup {NoService}
  /\ pc = "greeting" => workerAddress \in Services
  /\ said \in [Services -> 0 .. 2]
  /\ up \subseteq Services
  /\ filled \in [Services -> Seq(Orders)]

------------------------------------------------------------------------------
(* The parts of the inductive invariant.                                   *)

(* What has gone to a service, in the order it went.                       *)
Received(w) == filled[w] \o inbox[w]

(* Strictly in the order the orders were sent.                             *)
Ascending(s) == \A i, j \in 1 .. Len(s) : i < j => s[i].sequence < s[j].sequence

(* The orders under way are younger than those a service has received.     *)
FrontendYounger ==
  /\ Ascending(frontend)
  /\ \A i \in 1 .. Len(frontend) :
       /\ frontend[i].sequence < sequence
       /\ \A w \in Services : \A k \in 1 .. Len(Received(w)) :
            Received(w)[k].sequence < frontend[i].sequence
  /\ \A w \in Services : \A k \in 1 .. Len(Received(w)) : Received(w)[k].sequence < sequence

(* Whoever received an order of an asset is the asset's first service.     *)
RoutedToFirst ==
  \A w \in Services : \A k \in 1 .. Len(Received(w)) :
    LET code == Received(w)[k].code IN Registered(code) /\ FirstWorker(code) = w

(* The broker has not received the motto of w.                             *)
Stranger(w) == said[w] = 0 \/ (backend[w] # <<>> /\ Head(backend[w]) = Motto)

InTable(w) == \E c \in Codes : \E i \in 1 .. Len(workersPerAsset[c]) : workersPerAsset[c][i] = w

(* A service says its motto once, first, and is registered after that.     *)
GreetingsShape ==
  /\ \A w \in Services :
       /\ said[w] = 0 => backend[w] = <<>>
       /\ \A i \in 1 .. Len(backend[w]) : backend[w][i] = Motto => i = 1
       /\ Stranger(w) => ~InTable(w) /\ workerAddress # w
  /\ workerAddress # NoService => pc = "greeting" /\ ~InTable(workerAddress)

------------------------------------------------------------------------------
(* Properties.                                                             *)

(* A service gets its orders in the order they were put on the ring of the *)
(* OrderRingServer and none of them twice, whatever the broker dropped in  *)
(* between: OrderBook breaks ties by sequence and counts on it.            *)
InOrder == \A w \in Services : Ascending(Received(w))

(* The orders of an asset are never split over two books, whoever else     *)
(* registers for the asset, starts again or stops.                         *)
OneBook ==
  \A v, w \in Services : v # w =>
    \A i \in 1 .. Len(Received(v)), j \in 1 .. Len(Received(w)) :
      Received(v)[i].code # Received(w)[j].code

(* However greetings mix, no service is registered twice, under one code or*)
(* under two.                                                              *)
RegisteredOnce ==
  \A c, d \in Codes :
    \A i \in 1 .. Len(workersPerAsset[c]), j \in 1 .. Len(workersPerAsset[d]) :
      workersPerAsset[c][i] = workersPerAsset[d][j] => c = d /\ i = j

(* The inductive invariant.                                                *)
IInv ==
  /\ TypeOK
  /\ FrontendYounger
  /\ RoutedToFirst
  /\ GreetingsShape
  /\ InOrder
  /\ RegisteredOnce

(* Every order that was sent leaves the frontend, however the greetings    *)
(* mix, unless the broker crashes on one or a service stops halfway through*)
(* its greeting, which leaves the broker waiting for the code.             *)
RoutesOn ==
  \A n \in 1 .. MaxOrders :
    (\E i \in 1 .. Len(frontend) : frontend[i].sequence = n) ~>
      \/ \A i \in 1 .. Len(frontend) : frontend[i].sequence # n
      \/ pc = "crashed"
      \/ \E w \in Services \ up : said[w] = 1
==============================================================================
