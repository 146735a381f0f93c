---------------------------- MODULE MCCertBundle ----------------------------
(* Certificate files for TLC: a four-level hierarchy with and without AIA,  *)
(* a self-signed leaf, in any order and with repetitions.                   *)
EXTENDS CertBundle

MCCert ==
  { [subject |-> "leaf", issuer |-> "int1", aia |-> FALSE],
    [subject |-> "leaf", issuer |-> "int1", aia |-> TRUE],
    [subject |-> "self", issuer |-> "self", aia |-> FALSE],
    [subject |-> "int1", issuer |-> "int2", aia |-> FALSE],
    [subject |-> "int1", issuer |-> "int2", aia |-> TRUE],
    [subject |-> "int2", issuer |-> "root", aia |-> FALSE],
    [subject |-> "root", issuer |-> "root", aia |-> FALSE] }

MCIncludes == {-4, -3, -2, -1, 0, 1, 2, 5}
=============================================================================
