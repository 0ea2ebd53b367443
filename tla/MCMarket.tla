------------------------------ MODULE MCMarket -------------------------------
(* Two services of the same asset or of two, behind a short ring.          *)
EXTENDS Market

CONSTANTS s1, s2, tklam, other, journal, route

AssetOf == [w \in Services |-> IF w = s2 THEN other ELSE tklam]
==============================================================================
