------------------------------- MODULE MCFifo --------------------------------
(* A queue that wraps, with producers that commit out of turn.             *)
EXTENDS Fifo

CONSTANTS p1, p2, p3, m1, m2
==============================================================================
