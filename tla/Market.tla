------------------------------- MODULE Market --------------------------------
(***************************************************************************)
(* The three programs together: the OrderRingServer makes, saves and sends *)
(* orders (OrderServer), the broker routes them to the services, and each  *)
(* service puts what it receives in the ring of its book (Broker).         *)
(*                                                                         *)
(* The two modules meet in the pipe from the server to the broker: the     *)
(* route thread's s_send is Send of OrderServer and SendOrder of Broker in *)
(* one step, and every step of the broker leaves the server's memory alone.*)
(***************************************************************************)
EXTENDS OrderServer

CONSTANTS Services, Asset, Motto, NoService, Mortal \* as in Broker

ASSUME MarketAssumption ==
  Asset \in [Services -> AssetCodes] /\ Motto \notin AssetCodes /\ NoService \notin Services

VARIABLES
  backend, inbox, workersPerAsset, pc, items, workerAddress, said, up, filled \* as in Broker

MatchBroker == INSTANCE Broker WITH sequence <- Len(sent) + 1, Assets <- AssetCodes

serverVars == <<sequence, prevPrice, order, log, released, end, saved, sent>>
brokerVars == <<backend, inbox, workersPerAsset, pc, items, workerAddress, said, up, filled>>
marketVars == <<vars, brokerVars>>

MarketInit == Init /\ MatchBroker!Init

------------------------------------------------------------------------------
(* A step of the server's threads other than a send.                       *)
ServerWork ==
  /\ \/ Put
     \/ \E g \in {Journal, Route} : ClaimBatch(g) \/ ReleaseBatch(g)
     \/ Save
  /\ UNCHANGED brokerVars

(* Mutant: route sends without waiting for its batch.                      *)
SendUnsaved ==
  /\ Len(sent) < Len(log)
  /\ Len(frontend) < HighWater
  /\ sent' = Append(sent, log[Len(sent) + 1])
  /\ frontend' = Append(frontend, Command(log[Len(sent) + 1]))
  /\ UNCHANGED <<sequence, prevPrice, order, log, released, end, saved, brokerVars>>

(* RouteOrder::route, s_send.                                              *)
SendToBroker ==
  /\ Send
  /\ \E code \in AssetCodes : MatchBroker!SendOrder(code)

(* A step of a service: a greeting, an order received, its end.            *)
ServiceStep(w) ==
  /\ UNCHANGED serverVars
  /\ MatchBroker!Greet(w) \/ MatchBroker!Fill(w) \/ MatchBroker!Stop(w)

BrokerStep == UNCHANGED serverVars /\ MatchBroker!BrokerStep

MarketNext ==
  \/ ServerWork
  \/ SendToBroker
  \/ \E w \in Services : ServiceStep(w)
  \/ BrokerStep

MarketSpec == MarketInit /\ [][MarketNext]_marketVars

(* The threads of the server and the broker run, and a service that has    *)
(* begun its greeting ends it.                                             *)
MarketFairness ==
  /\ WF_marketVars(Put /\ UNCHANGED brokerVars)
  /\ WF_marketVars((ClaimBatch(Journal) \/ Save \/ ReleaseBatch(Journal))
             /\ UNCHANGED brokerVars)
  /\ WF_marketVars(\/ (ClaimBatch(Route) \/ ReleaseBatch(Route)) /\ UNCHANGED brokerVars
             \/ SendToBroker)
  /\ WF_marketVars(BrokerStep)
  /\ \A w \in Services : WF_marketVars(said[w] = 1 /\ ServiceStep(w))

MarketFairSpec == MarketSpec /\ MarketFairness
------------------------------------------------------------------------------
(* Properties.                                                             *)

IsSaved(o) == o.sequence \in 1 .. Len(saved) /\ o = Command(saved[o.sequence])

(* From end to end: what a service has put in its book's ring or has still *)
(* to receive are commands of orders the journal holds; the numbers in a   *)
(* ring rise, and no order is in the rings of two services.                *)
FilledWasSaved ==
  \A w \in Services :
    /\ \A i \in 1 .. Len(filled[w]) : IsSaved(filled[w][i])
    /\ \A i \in 1 .. Len(inbox[w]) : IsSaved(inbox[w][i])
    /\ \A i, j \in 1 .. Len(filled[w]) : i < j => filled[w][i].sequence < filled[w][j].sequence
    /\ \A v \in Services \ {w} : \A i \in 1 .. Len(filled[w]), j \in 1 .. Len(filled[v]) :
         filled[w][i].sequence # filled[v][j].sequence

(* Every order is sent to the broker, unless it crashes on one or a service*)
(* stops halfway through its greeting.                                     *)
GetsSent ==
  <>(Len(sent) = MaxOrders \/ pc = "crashed" \/ \E w \in Services \ up : said[w] = 1)
==============================================================================
