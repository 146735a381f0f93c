---------------------------- MODULE MCStoreCalls ----------------------------
(* An RSA and an ECDSA identity, an authority and two systems.              *)
EXTENDS StoreCalls

MCItem == {"x", "y"}
MCCa == {"ca"}
MCPath == [item \in MCItem |-> <<item, "ca">>]
MCKeyType == [item \in MCItem |-> IF item = "x" THEN "rsa" ELSE "ecdsa"]
=============================================================================
