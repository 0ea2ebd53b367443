------------------------------ MODULE MCBroker ------------------------------
(* A few services of two assets.                                           *)
EXTENDS Broker

CONSTANTS s1, s2, s3, tklam, other

(* s3 is the second service of an asset, as after a restart.               *)
AssetOf == [w \in Services |-> IF w = s2 THEN other ELSE tklam]

(* README.md, "Initialization": once both messages of a greeting are       *)
(* received, the broker knows the service by the code of its asset.        *)
GreetingRegisters ==
  \A w \in Services :
    said[w] = 2 /\ pc = "polling" /\ (\A v \in Services : backend[v] = <<>>) =>
      \E i \in 1 .. Len(workersPerAsset[Asset[w]]) : workersPerAsset[Asset[w]][i] = w
==============================================================================
