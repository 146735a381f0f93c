----------------------------- MODULE SignedData -----------------------------
(***************************************************************************)
(* The CMS SignedData object (ietf-cms/signed_data.go, timestamp.go and    *)
(* protocol.SignedData) as a record, and the operations on it that change  *)
(* it.  A digest is modelled by the message it is the digest of, and a     *)
(* signature by the key that made it and the signed attributes it is over, *)
(* so "the signature verifies" is an equation.                             *)
(*                                                                         *)
(* A certificate is a record with at least the fields subject, issuer,     *)
(* serial, key (its public key) and alg (the public key algorithm).        *)
(***************************************************************************)
EXTENDS Integers, Sequences

CONSTANTS Message,    \* the byte strings that can be signed
          NoContent   \* EncapContentInfo.EContent without bytes

ASSUME SignedDataAssumption == NoContent \notin Message

-----------------------------------------------------------------------------
(* Certificates of the message *)

\* The DER of a certificate is an outer SEQUENCE header around its body; an
\* asn1.RawValue keeps the two apart (FullBytes and Bytes).
Der(cert) == [header |-> "SEQUENCE", body |-> cert]

\* AddCertificate's test compares a stored RawValue's Bytes, the body, with the
\* whole DER of the new certificate.
AlreadyAdded(certs, cert) == \E k \in DOMAIN certs : certs[k].body = Der(cert)

\* Adding a list of certificates one after the other: the first one refused
\* ends the loop and leaves those added before it in place.
AddCertificates(certs, chain) ==
  LET before(n) == certs \o [k \in 1 .. n - 1 |-> Der(chain[k])]
      refused == {n \in DOMAIN chain : AlreadyAdded(before(n), chain[n])}
  IN IF refused = {}
     THEN [certs |-> before(Len(chain) + 1), ok |-> TRUE]
     ELSE [certs |-> before(CHOOSE n \in refused : \A m \in refused : n <= m), ok |-> FALSE]

-----------------------------------------------------------------------------
(* The object and its operations *)

\* cms.NewSignedData: no certificates, no signers.
NewSignedData(message) ==
  [content |-> message, certs |-> <<>>, signers |-> <<>>]

\* NewIssuerAndSerialNumber
SID(cert) == [issuer |-> cert.issuer, serial |-> cert.serial]

\* The signed attributes, over which the signature is made: content type and
\* signing time are the same in every signature, the message digest is not.
SignedAttrs(message) == [digest |-> message]

\* The algorithms X509PublicKeyAndDigestAlgorithmToSignatureAlgorithm knows for
\* SHA-256, the digest digestAlgorithmForPublicKey picks.
SupportedAlgorithm == {"RSA", "ECDSA"}

\* x509.MarshalPKIXPublicKey knows no other key types than these.
MarshalableAlgorithm == {"RSA", "ECDSA", "Ed25519"}
Unmarshalable(chain) == {k \in DOMAIN chain : chain[k].alg \notin MarshalableAlgorithm}

\* The certificates the loop of AddSignerInfo adds: up to the first one whose
\* key cannot be marshaled, that one included.
Walked(chain) ==
  IF Unmarshalable(chain) = {} THEN chain
  ELSE SubSeq(chain, 1, CHOOSE k \in Unmarshalable(chain) :
                          \A j \in Unmarshalable(chain) : k <= j)

\* The certificate of the signer: the last one in chain that has its key.
IsSignerCert(chain, pub, k) ==
  /\ k \in DOMAIN chain /\ chain[k].key = pub
  /\ \A j \in DOMAIN chain : chain[j].key = pub => j <= k
SignerCert(chain, pub) == chain[CHOOSE k \in DOMAIN chain : IsSignerCert(chain, pub, k)]

\* Mutant of PrepareSigner: a detached object is signed like any other.
PrepareSignerDetached(sd, chain, pub) ==
  LET adding == AddCertificates(sd.certs, Walked(chain))
  IN [sd  |-> [sd EXCEPT !.certs = adding.certs],
      err |-> IF adding.ok /\ \E k \in DOMAIN chain : chain[k].key = pub THEN "none"
              ELSE "no certificate found"]

\* AddSignerInfo up to the call of signer.Sign: the certificates of chain are
\* added, then each reason to give up is tried in the order of the code.
PrepareSigner(sd, chain, pub) ==
  LET adding == AddCertificates(sd.certs, Walked(chain))
      upto(err) == [sd |-> [sd EXCEPT !.certs = adding.certs], err |-> err]
  IN CASE ~adding.ok -> upto("certificate already added")
       [] Unmarshalable(chain) # {} -> upto("unsupported public key type")
       [] \A k \in DOMAIN chain : chain[k].key # pub -> upto("no certificate found")
       [] SignerCert(chain, pub).alg \notin SupportedAlgorithm -> upto("unsupported algorithm")
       [] sd.content = NoContent -> upto("already detached")
       [] OTHER -> upto("none")

\* The rest of AddSignerInfo, once signer.Sign has answered.
AddSigner(sd, cert, sig) ==
  [sd EXCEPT !.signers = Append(@, [sid    |-> SID(cert),
                                    attrs  |-> SignedAttrs(sd.content),
                                    sig    |-> sig,
                                    tokens |-> <<>>])]

\* Detached: the content goes; the signers stay.
Detached(sd) == [sd EXCEPT !.content = NoContent]
IsDetached(sd) == sd.content = NoContent

\* Mutant of AttachTokens: the attribute is added twice.
AttachTokensTwice(sd, token) ==
  [sd EXCEPT !.signers =
     [k \in DOMAIN sd.signers |->
        [sd.signers[k] EXCEPT !.tokens = @ \o <<token[k], token[k]>>]]]

\* The second loop of AddTimestamps: one more token for every signer.
AttachTokens(sd, token) ==
  [sd EXCEPT !.signers =
     [k \in DOMAIN sd.signers |->
        [sd.signers[k] EXCEPT !.tokens = Append(@, token[k])]]]

\* Mutant of SetCertificates: the certificates are not cleared first.
SetCertificatesNoClear(sd, chain) ==
  LET adding == AddCertificates(sd.certs, chain)
  IN [sd |-> [sd EXCEPT !.certs = adding.certs], ok |-> adding.ok]

\* SetCertificates: clear, then add one by one.
SetCertificates(sd, chain) ==
  LET adding == AddCertificates(<<>>, chain)
  IN [sd |-> [sd EXCEPT !.certs = adding.certs], ok |-> adding.ok]

-----------------------------------------------------------------------------
(* Timestamp responses (ietf-cms/timestamp) *)

\* Mutant of Matches: the nonce is not compared.
MatchesAnyNonce(request, info) == info.imprint = request.imprint

\* Request.Matches: the imprint is of the signature sent, the nonce is present
\* and is the one sent.
Matches(request, info) ==
  /\ info.imprint = request.imprint
  /\ info.nonce = request.nonce

\* fetchTS accepts a response whose status is granted (0) and whose token
\* matches the request.  The token's own signature is not looked at.
Acceptable(request, reply) ==
  /\ reply.wellFormed
  /\ reply.status = 0
  /\ Matches(request, reply.token)
=============================================================================
