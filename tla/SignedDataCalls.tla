--------------------------- MODULE SignedDataCalls ---------------------------
(***************************************************************************)
(* The cms package as a caller may use it: any sequence of Sign, Detached, *)
(* SetCertificates, AddTimestamps and a trip through ToDER and             *)
(* ParseSignedData on one SignedData, new or parsed from what another      *)
(* implementation made.  CommandSign makes one such sequence; the package  *)
(* allows all of them.  AddTimestamps is one step per request, any of      *)
(* which may fail.                                                         *)
(***************************************************************************)
EXTENDS SignedData, SignatureAlgorithms, Attributes, FiniteSets

CONSTANTS Chains,     \* what Sign and SetCertificates may be given
          PublicKeys, \* of the signers: [id, alg, curve]
          Times,      \* what time.Now is encoded as: UTCTime up to 2049, then GeneralizedTime
          MaxSigners, MaxCerts, MaxStamps \* bounds on what the object may hold

Certificates == UNION {Range(chain) : chain \in Chains}

\* What an authority guarantees, and x509.ParseCertificate: an issuer and serial number
\* name one certificate's key, and a certificate has the algorithm of its key.
ASSUME CertificatesAssumption ==
  /\ Chains \subseteq Seq(Certificates)
  /\ \A c, d \in Certificates : SID(c) = SID(d) => c.key = d.key
  /\ \A c \in Certificates : c.alg = c.key.alg

ASSUME SignedDataCallsAssumption ==
  /\ MaxSigners \in Nat \ {0} /\ MaxCerts \in Nat \ {0} /\ MaxStamps \in Nat \ {0}
  /\ Chains # {} /\ PublicKeys \subseteq [id : {k.id : k \in PublicKeys},
                                          alg : {"RSA", "ECDSA", "Ed25519"},
                                          curve : {"none", "P-256", "P-384", "P-521"}]
  /\ Times \subseteq {"UTCTime", "GeneralizedTime"}

VARIABLES message, \* what NewSignedData was given
          sd,
          infos,   \* the other fields of each signer's SignerInfo, and, as a history,
                   \* stamps: the AddTimestamps it has lived through
          next,    \* AddTimestamps: the signer to fetch a token for, 0 outside it
          tokens,  \* AddTimestamps: attrs
          result   \* of the last call

vars == <<message, sd, infos, next, tokens, result>>

Idle == next = 0

-----------------------------------------------------------------------------
(* SignerInfos *)

Info(digest, sigAlg, attrs) ==
  [digest |-> digest, sigAlg |-> sigAlg, attrs |-> attrs, stamps |-> 0]

DigestLength(hash) ==
  CASE hash = "MD5" -> 16 [] hash = "SHA1" -> 20 [] hash = "SHA256" -> 32
    [] hash = "SHA384" -> 48 [] hash = "SHA512" -> 64

ContentType == NewAttribute(3, Value(6, 9, <<"data">>))
MessageDigest(hash, m) == NewAttribute(4, Value(4, DigestLength(hash), <<hash, m>>))
SigningTime(time) ==
  NewAttribute(5, IF time = "UTCTime" THEN Value(23, 13, <<"now">>) ELSE Value(24, 15, <<"now">>))

\* What the signature of pub over these octets is of.
Signature(pub, hash, over) == [key |-> pub, alg |-> Alg(pub.alg, hash), over |-> over]

\* A message of another implementation's, with one signer: a digest of its choice, the
\* OID of the signature or of the key, signed attributes in the order of DER or none.
Parsed(cert) ==
  \E a \in SignatureAlgorithm, time \in Times :
    LET full == MarshaledForSigning(<<ContentType, MessageDigest(a.hash, message), SigningTime(time)>>)
    IN \E attrs \in {<<>>, full}, named \in {a.hash, "none"} :
         /\ a.key = cert.key.alg
         /\ sd = AddSigner([NewSignedData(message) EXCEPT !.certs = <<Der(cert)>>], cert,
                          Signature(cert.key, a.hash, IF attrs = <<>> THEN message ELSE attrs))
         /\ infos = <<Info(a.hash, Alg(a.key, named), attrs)>>

Init ==
  /\ message \in Message
  /\ \/ sd = NewSignedData(message) /\ infos = <<>>
     \/ \E chain \in Chains : \E k \in DOMAIN chain : Parsed(chain[k])
  /\ next = 0 /\ tokens = <<>> /\ result = "ok"

-----------------------------------------------------------------------------
(* The calls *)

\* NewSigner and the stores: the vault's signer exists for RSA keys only.
Signers(pub) == IF pub.alg = "RSA" THEN {"vault", "local"} ELSE {"local"}

\* AddSignerInfo once the certificates are added: the algorithms, the attributes and
\* what the key signs.
SignerInfo(pub, m, time) ==
  LET digest == DigestAlgorithmForPublicKey(Marshaled(pub))
      sigAlg == X509PublicKeyAndDigestAlgorithmToSignatureAlgorithm(pub.alg, digest)
  IN Info(digest, sigAlg,
          SortAttributes(<<SigningTime(time), MessageDigest(digest, m), ContentType>>))

\* Sign: the certificates are added before anything can fail, and stay.  The
\* signer itself may fail too.
Sign ==
  /\ Idle /\ Len(sd.signers) < MaxSigners
  /\ \E chain \in Chains, pub \in PublicKeys :
       LET prepared == PrepareSigner(sd, chain, pub)
       IN /\ Len(sd.certs) + Len(chain) <= MaxCerts
          /\ \/ /\ prepared.err = "none"
                /\ \E time \in Times, signer \in Signers(pub) :
                     LET info == SignerInfo(pub, sd.content, time)
                         sig  == Signature(pub, info.digest, MarshaledForSigning(info.attrs))
                     IN IF info.digest \in Supported(signer)
                        THEN /\ sd' = AddSigner(prepared.sd, SignerCert(chain, pub), sig)
                             /\ infos' = Append(infos, info) /\ result' = "ok"
                        ELSE /\ sd' = prepared.sd /\ result' = "unsupported hash"
                             /\ UNCHANGED infos
             \/ sd' = prepared.sd /\ result' = "error" /\ UNCHANGED infos
  /\ UNCHANGED <<message, next, tokens>>

Detach ==
  /\ Idle
  /\ sd' = Detached(sd) /\ result' = "ok"
  /\ UNCHANGED <<message, infos, next, tokens>>

ReplaceCertificates ==
  /\ Idle
  /\ \E chain \in Chains :
       LET set == SetCertificates(sd, chain)
       IN sd' = set.sd /\ result' = IF set.ok THEN "ok" ELSE "error"
  /\ UNCHANGED <<message, infos, next, tokens>>

BeginTimestamps ==
  /\ Idle /\ \A k \in DOMAIN infos : infos[k].stamps < MaxStamps
  /\ next' = 1 /\ tokens' = <<>>
  /\ UNCHANGED <<message, sd, infos, result>>

\* Mutant of FetchToken: each token is attached as it comes.
FetchAndAttachToken ==
  /\ next \in DOMAIN sd.signers
  /\ \/ /\ tokens' = Append(tokens, [imprint |-> sd.signers[next].sig])
        /\ sd' = [sd EXCEPT !.signers[next].tokens = Append(@, tokens'[next])]
        /\ next' = next + 1 /\ UNCHANGED result
     \/ next' = 0 /\ result' = "error" /\ UNCHANGED <<tokens, sd>>
  /\ UNCHANGED <<message, infos>>

\* fetchTS for one signer: a token for its signature, or an error that ends it.
FetchToken ==
  /\ next \in DOMAIN sd.signers
  /\ \/ /\ tokens' = Append(tokens, [imprint |-> sd.signers[next].sig])
        /\ next' = next + 1 /\ UNCHANGED result
     \/ next' = 0 /\ result' = "error" /\ UNCHANGED tokens
  /\ UNCHANGED <<message, sd, infos>>

\* The second loop, once every token is there.
EndTimestamps ==
  /\ next = Len(sd.signers) + 1
  /\ sd' = AttachTokens(sd, tokens)
  /\ infos' = [k \in DOMAIN infos |-> [infos[k] EXCEPT !.stamps = @ + 1]]
  /\ next' = 0 /\ result' = "ok"
  /\ UNCHANGED <<message, tokens>>

\* eContent is OPTIONAL: no octets of it are written when it is the zero RawValue, which
\* it stays when none are read.  A message, of no octets too, has a header at least.
EncodedContent(content) == IF content = NoContent THEN <<>> ELSE <<content>>
ParsedContent(field) == IF field = <<>> THEN NoContent ELSE field[1]

\* ToDER, and ParseSignedData of the result.  certificates and signerInfos are SETs
\* OF, which asn1.Marshal sorts by their encodings: any order is possible.
EncodeAndParse ==
  /\ Idle
  /\ \E p \in Bijection(DOMAIN sd.signers, DOMAIN sd.signers),
        q \in Bijection(DOMAIN sd.certs, DOMAIN sd.certs) :
       /\ sd' = [sd EXCEPT !.content = ParsedContent(EncodedContent(@)),
                           !.signers = [k \in DOMAIN p |-> sd.signers[p[k]]],
                           !.certs = [k \in DOMAIN q |-> sd.certs[q[k]]]]
       /\ infos' = [k \in DOMAIN p |-> infos[p[k]]]
  /\ result' = "ok"
  /\ UNCHANGED <<message, next, tokens>>

Next == \/ Sign \/ Detach \/ ReplaceCertificates \/ BeginTimestamps
        \/ FetchToken \/ EndTimestamps \/ EncodeAndParse

Spec == Init /\ [][Next]_vars

-----------------------------------------------------------------------------
(* What verify asks of a signer before it builds a chain (verify.go:69-162) *)

Named(k) == {j \in DOMAIN sd.certs : SID(sd.certs[j].body) = sd.signers[k].sid}

\* The attributes, when there are any, are of this message, and the octets signed.
SignedMessage(info) ==
  IF info.attrs = <<>> THEN message ELSE MarshaledForVerification(info.attrs)

AttributesMatch(info) ==
  info.attrs # <<>> =>
    /\ IsOnlyAttribute(info.attrs, ContentType)
    /\ IsOnlyAttribute(info.attrs, MessageDigest(info.digest, message))

SignerVerifies(k) ==
  LET signer == sd.signers[k]
      info   == infos[k]
  IN /\ AttributesMatch(info)
     /\ \E j \in Named(k) :
          LET cert == sd.certs[j].body
          IN /\ \A i \in Named(k) : j <= i
             /\ CheckSignature(cert.key, X509SignatureAlgorithm(info.sigAlg, info.digest),
                               signer.sig.alg)
             /\ cert.key = signer.sig.key /\ SignedMessage(info) = signer.sig.over
     /\ \/ signer.tokens = <<>>
        \/ Len(signer.tokens) = 1 /\ signer.tokens[1].imprint = signer.sig

-----------------------------------------------------------------------------
(* Properties *)

\* After any calls, failed ones included, exactly those signers verify whose
\* certificate the object still has, which have been timestamped at most once and
\* whose digest is not MD5: neither the order of the calls, nor the sorting of the
\* sets and of the attributes, nor the table an algorithm is looked up in spoils a
\* signature, made here or elsewhere.
VerifiesUnlessMisused ==
  Idle => \A k \in DOMAIN sd.signers :
            SignerVerifies(k) <=>
              Named(k) # {} /\ infos[k].stamps <= 1 /\ infos[k].digest # "MD5"

\* The hash chosen for a key is one that every signer for such a key takes: AddSignerInfo
\* chooses it without asking the signer, and the vault's takes one only.
SignerNeverRefuses == result # "unsupported hash"

\* "Fetch all timestamp tokens before adding any to sd.  This avoids a partial
\* failure" (timestamp.go:23-24): AddTimestamps changes all the signers, when it
\* succeeds, or nothing.
NoPartialFailure ==
  [][next # 0 /\ sd' # sd =>
       /\ next' = 0 /\ result' = "ok"
       /\ \A k \in DOMAIN sd.signers :
            Len(sd'.signers[k].tokens) = Len(sd.signers[k].tokens) + 1]_vars

\* "No more signatures can be added after this method has been called"
\* (signed_data.go:118-119), a trip through DER or not.
DetachedIsFinal ==
  [][IsDetached(sd) => IsDetached(sd') /\ Len(sd'.signers) = Len(sd.signers)]_vars

\* AddCertificate refuses what is there ("certificate already added",
\* protocol.go:777), and sign_test.go:45 calls a second one "duplicate cert in sd".
\* It does not hold of the code: see "Divergences" in the README.
NoDuplicateCertificate ==
  \A i, j \in DOMAIN sd.certs : i # j => sd.certs[i] # sd.certs[j]

\* "algorithmsForPublicKey takes an opinionated stance on what algorithms to use for
\* the given public key" (protocol.go:753), SHA-384 for P-384 and SHA-512 for P-521.
\* It does not hold of the code: see "Divergences" in the README.
DigestSuitsKey ==
  \A pub \in PublicKeys :
    pub.alg = "ECDSA" =>
      SignerInfo(pub, message, "UTCTime").digest =
        CASE pub.curve = "P-384" -> "SHA384" [] pub.curve = "P-521" -> "SHA512"
          [] OTHER -> "SHA256"

\* SIG_CREATED <type> <pk_algo> <hash_algo>: "A signature has been created using
\* these parameters" (status.go:28-29).
\* It does not hold of the code: see "Divergences" in the README.
CreatedWithTheseParameters ==
  \A k \in DOMAIN sd.signers : \A j \in Named(k) :
    EmitSigCreated(sd.certs[j].body.certAlg) = sd.signers[k].sig.alg
=============================================================================
