----------------------------- MODULE MCFlexiFifo -----------------------------
(* Two producers and two consumers, with Queues of half the ring.          *)
EXTENDS FlexiFifo

CONSTANTS p1, p2, c1, c2
==============================================================================
