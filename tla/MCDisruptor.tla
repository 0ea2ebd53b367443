---------------------------- MODULE MCDisruptor -----------------------------
(* Two producers, and the three shapes of barrier the programs build: a    *)
(* consumer behind the ring (OrderRingServer.cpp: the journal; here also   *)
(* an audit beside it), one behind another consumer (route), and a Put     *)
(* behind several (Barrier<Get, Get>).                                     *)
EXTENDS Disruptor

CONSTANTS p1, p2, journal, route, audit, m1, m2

RingBarrier ==
  [t \in {p1, p2, journal, route, audit} |->
     CASE t \in {journal, audit} -> {Published}
       [] t = route -> {journal}
       [] OTHER -> {route, audit}]
==============================================================================
