------------------------- MODULE MCSignedDataCalls -------------------------
(* An RSA and a P-384 signer under one intermediate that another algorithm   *)
(* signs for, chains with the leaf first, last or not at all, and a signer   *)
(* whose certificate is missing.                                             *)
EXTENDS SignedDataCalls

Key(id, alg, curve) == [id |-> id, alg |-> alg, curve |-> curve]
Cert(subject, issuer, serial, key) ==
  [subject |-> subject, issuer |-> issuer, serial |-> serial, key |-> key,
   alg |-> key.alg, certAlg |-> Alg("RSA", "SHA384")]
Rsa == Key("ka", "RSA", "none")
Ecdsa == Key("kb", "ECDSA", "P-384")
Intermediate == Cert("int", "root", 1, Key("ki", "RSA", "none"))
LeafA == Cert("a", "int", 2, Rsa)
LeafB == Cert("b", "int", 3, Ecdsa)

MCChains == {<<>>, <<LeafA>>, <<Intermediate, LeafB>>}
MCPublicKeys == {Rsa, Ecdsa}
=============================================================================
