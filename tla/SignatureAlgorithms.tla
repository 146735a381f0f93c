------------------------ MODULE SignatureAlgorithms ------------------------
(***************************************************************************)
(* Which algorithms a signature is made with, what is written about them,  *)
(* and what it is verified with: digestAlgorithmForPublicKey and           *)
(* AddSignerInfo (protocol.go), the OID tables (oid.go), the signers'      *)
(* checks (azuresign/signer.go), SIG_CREATED's arguments (status.go) and   *)
(* X509SignatureAlgorithm (protocol.go).                                   *)
(***************************************************************************)
Hashes == {"MD5", "SHA1", "SHA256", "SHA384", "SHA512"}
Alg(key, hash) == [key |-> key, hash |-> hash]
None == Alg("none", "none")

\* The signature OIDs of the tables; x509.SignatureAlgorithm has the same names.
SignatureAlgorithm ==
  {Alg("RSA", h) : h \in Hashes} \cup {Alg("ECDSA", h) : h \in Hashes \ {"MD5"}}

\* The OID of a public key in the place of a signature's.
PublicKeyAlgorithm == {Alg("RSA", "none"), Alg("ECDSA", "none")}

\* Mutant of DigestAlgorithmForPublicKey: one stronger digest for every key.
StrongestDigest(pub) == "SHA512"

\* The type switch on *ecdsa.PublicKey.
DigestAlgorithmForPublicKey(pub) ==
  CASE pub.type = "*ecdsa.PublicKey" /\ pub.curve = "P-384" -> "SHA384"
    [] pub.type = "*ecdsa.PublicKey" /\ pub.curve = "P-521" -> "SHA512"
    [] OTHER -> "SHA256"

\* x509.MarshalPKIXPublicKey: what AddSignerInfo passes is octets.
Marshaled(key) == [type |-> "[]byte", curve |-> key.curve]

X509PublicKeyAndDigestAlgorithmToSignatureAlgorithm(alg, hash) ==
  IF Alg(alg, hash) \in SignatureAlgorithm THEN Alg(alg, hash) ELSE None

\* The hashes a signer takes: RS256 only from the vault, four from the system's keys.
Supported(signer) ==
  IF signer = "vault" THEN {"SHA256"} ELSE {"SHA1", "SHA256", "SHA384", "SHA512"}

\* emitSigCreated: the two switches on the certificate's SignatureAlgorithm, which
\* know neither MD5 nor anything but PKCS#1 v1.5 and ECDSA.
EmitSigCreated(certAlg) ==
  IF certAlg \in SignatureAlgorithm /\ certAlg.hash # "MD5" THEN certAlg ELSE None

X509SignatureAlgorithm(sigAlg, digest) ==
  IF sigAlg \in SignatureAlgorithm THEN sigAlg
  ELSE IF sigAlg \in PublicKeyAlgorithm /\ Alg(sigAlg.key, digest) \in SignatureAlgorithm
  THEN Alg(sigAlg.key, digest)
  ELSE None

\* Certificate.CheckSignature: MD5 is refused, and the key must be of the kind.
CheckSignature(key, algo, signature) ==
  algo # None /\ algo.hash # "MD5" /\ algo.key = key.alg /\ algo = signature
=============================================================================
