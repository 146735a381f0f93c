-------------------------- MODULE SignatureVerify --------------------------
(***************************************************************************)
(* SignedData.Verify and SignedData.VerifyDetached (ietf-cms/verify.go)    *)
(* with the timestamp checks they call (getTimestamp, ietf-cms/timestamp.go)*)
(* and the certificate look-up of protocol.SignerInfo.  One call is made,  *)
(* with any of the objects in Calls; the signers are checked one after the *)
(* other, and the pool of intermediate certificates is the shared object   *)
(* it is in the code.                                                      *)
(*                                                                         *)
(* A digest is modelled by what it is the digest of and a signature by the *)
(* key that made it and the value it is over.  Times are positive numbers; *)
(* 0 is Go's zero Time.  A timestamp token has one signer, which is not    *)
(* timestamped itself.                                                     *)
(***************************************************************************)
EXTENDS X509, Sequences

CONSTANTS Calls,      \* calls of Verify and VerifyDetached, see below
          Now,        \* time.Now() during the call
          NoContent,  \* EContent without bytes
          Malformed,  \* EContent that is no OCTET STRING
          NoAttrs,    \* SignedAttrs == nil
          Missing,    \* an attribute that is absent or there twice
          MaxDuration \* half the values of a time.Duration, 2^63 nanoseconds

Elements(seq) == {seq[n] : n \in DOMAIN seq}
IsSequence(seq) == seq \in Seq(Elements(seq))

\* The message a call verifies against: EContentValue, or the argument.
Content(c) == IF c.message = NoContent THEN c.sd.content ELSE c.message

NoCall == [sd |-> NoContent]

\* call.sd      [type, content, certs, certsParse, signers], the object
\* call.message what VerifyDetached is given, NoContent for Verify
\* call.roots   VerifyOptions.Roots
\* call.given   VerifyOptions.Intermediates, {} for nil
\* call.time    VerifyOptions.CurrentTime
\* A signer is [version, sid, attrs, digestAlg, sigAlg, sig, tokens]; a token is
\* [parses, type, info, certs, signer].  What the types of the code guarantee of a call.
IsCall(c) ==
  /\ c # NoCall /\ c.time \in Nat
  /\ Missing \notin {c.sd.type, Content(c)}
  /\ NoAttrs # [type |-> c.sd.type, digest |-> Content(c)]
  /\ IsSequence(c.sd.certs) /\ IsSequence(c.sd.signers)
  /\ \A cert \in Elements(c.sd.certs) : {cert.notBefore, cert.notAfter} \subseteq Int
  /\ \A si \in Elements(c.sd.signers) :
       /\ IsSequence(si.tokens)
       /\ \A token \in Elements(si.tokens) :
            /\ token.info.genTime \in Nat \ {0} /\ token.info.accuracy \in Int
            /\ IsSequence(token.certs)

ASSUME CallsAssumption ==
  /\ Now \in Nat \ {0}
  /\ MaxDuration \in Nat \ {0}
  /\ \A c \in Calls : IsCall(c)

VARIABLES
  call,    \* the call, NoCall before it is made
  pc,      \* "idle", then the check that comes next, "done" after the last
  pool,    \* *opts.Intermediates
  k,       \* the signer being checked
  time,    \* optsCopy.CurrentTime, 0 when it is not set
  chains,  \* what is returned: for each signer [cert, pool, at], or <<>>
  result   \* "ok", or the error

verifyVars == <<call, pc, pool, k, time, chains, result>>

VerifyInit ==
  /\ call = NoCall /\ pc = "idle" /\ pool = {} /\ k = 0 /\ time = 0
  /\ chains = <<>> /\ result = "none"

-----------------------------------------------------------------------------
(* The checks of one signer *)

\* What is wrong with a call before any signer is looked at.
CallError(c) ==
  CASE c.message = NoContent /\ c.sd.content = Malformed -> "bad tag or class"
    [] c.message = NoContent /\ c.sd.content = NoContent -> "detached signature"
    [] c.message # NoContent /\ c.sd.content # NoContent -> "signature not detached"
    [] c.sd.signers = <<>> -> "no signatures found"
    [] ~c.sd.certsParse -> "bad certificate"
    [] OTHER -> "none"

\* Mutant of AttributesError: the digests are not compared.
AttributesErrorNoDigest(si, type, content) ==
  CASE si.attrs = NoAttrs -> IF type = "data" THEN "none" ELSE "missing SignedAttrs"
    [] si.attrs.type # type -> "invalid ContentType"
    [] OTHER -> "none"

\* The signed attributes, when there are any, name the content type and hold the
\* digest of the content.
AttributesError(si, type, content) ==
  CASE si.attrs = NoAttrs -> IF type = "data" THEN "none" ELSE "missing SignedAttrs"
    [] si.attrs.type = Missing -> "bad attribute count"
    [] si.attrs.type # type -> "invalid ContentType"
    [] si.digestAlg = "unknown" -> "unsupported"
    [] si.attrs.digest = Missing -> "bad attribute count"
    [] si.attrs.digest # content -> "invalid message digest"
    [] OTHER -> "none"

\* What the signature is over.
SignedMessage(si, content) == IF si.attrs = NoAttrs THEN content ELSE si.attrs

\* The value of the subject key identifier extension is an OCTET STRING in DER;
\* the identifier of a version 3 signer is the bare bytes.
OctetString(bytes) == [octets |-> bytes]

Names(si, cert) ==
  CASE si.version = 1 -> si.sid = [issuer |-> cert.issuer, serial |-> cert.serial]
    [] si.version = 3 -> si.sid = OctetString(cert.ski)
    [] OTHER -> FALSE

Named(si, certs) == {n \in DOMAIN certs : Names(si, certs[n])}

\* FindCertificate: the first one the signer names.
FindCertificate(si, certs) ==
  certs[CHOOSE n \in Named(si, certs) : \A j \in Named(si, certs) : n <= j]

\* Certificate.CheckSignature
SignatureHolds(cert, si, content) ==
  si.sig = [key |-> cert.key, over |-> SignedMessage(si, content)]

SignatureError(si, type, content, certs) ==
  CASE AttributesError(si, type, content) # "none" -> AttributesError(si, type, content)
    [] Named(si, certs) = {} -> "no certificate"
    [] si.sigAlg = "unknown" -> "unsupported"
    [] ~SignatureHolds(FindCertificate(si, certs), si, content) -> "verification error"
    [] OTHER -> "none"

\* getTimestamp up to the call of tst.Verify, and after it.  at is the time of
\* the check of the token: the time of the caller, not that of the token.
CheckTime == IF call.time = 0 THEN Now ELSE call.time

TokenError(si, roots, certPool) ==
  LET token == si.tokens[1]
  IN CASE Len(si.tokens) # 1 -> "bad attribute count"
       [] ~token.parses -> "bad token"
       [] token.type # "tst" -> "wrong type"
       [] token.info.version # 1 -> "unsupported"
       [] SignatureError(token.signer, "tst", token.info, token.certs) # "none" ->
            "bad token signature"
       [] ~ChainExists(FindCertificate(token.signer, token.certs), roots,
                       certPool \cup Elements(token.certs), CheckTime, "stamping") ->
            "unknown authority"
       [] token.info.imprint # si.sig -> "invalid message imprint"
       [] OTHER -> "none"

\* tst.Verify has been called, and has put the token's certificates into the
\* pool it shares with its caller.
TokenVerified(si) ==
  /\ Len(si.tokens) = 1
  /\ si.tokens[1].parses /\ si.tokens[1].type = "tst" /\ si.tokens[1].info.version = 1

\* Mutant of PoolAfter: the token's certificates take the place of the others.
PoolReplaced(si, certPool) ==
  IF TokenVerified(si) THEN Elements(si.tokens[1].certs) ELSE certPool

PoolAfter(si, certPool) ==
  IF TokenVerified(si) THEN certPool \cup Elements(si.tokens[1].certs) ELSE certPool

\* Accuracy.Duration: seconds, an integer of the token's, times 10^9, in 64 bits.
Duration(accuracy) == ((accuracy + MaxDuration) % (2 * MaxDuration)) - MaxDuration

\* Info.Before(NotAfter) and Info.After(NotBefore): the latest and the earliest
\* time the token may be of.
WithinValidity(info, cert) ==
  /\ info.genTime + Duration(info.accuracy) <= cert.notAfter
  /\ info.genTime + Duration(-info.accuracy) >= cert.notBefore

-----------------------------------------------------------------------------
(* The call *)

Reject(err) == pc' = "done" /\ result' = err /\ chains' = <<>>

Signer == call.sd.signers[k]
SignerCertificate == FindCertificate(Signer, call.sd.certs)

Call(c) ==
  /\ pc = "idle"
  /\ call' = c
  /\ IF CallError(c) = "none"
     THEN /\ pool' = c.given \cup Elements(c.sd.certs)
          /\ k' = 1 /\ pc' = "signature"
          /\ UNCHANGED <<chains, result>>
     ELSE /\ Reject(CallError(c))
          /\ UNCHANGED <<pool, k>>
  /\ time' = c.time

CheckSignature ==
  /\ pc = "signature"
  /\ LET err == SignatureError(Signer, call.sd.type, Content(call), call.sd.certs)
     IN IF err = "none" THEN pc' = "timestamp" /\ UNCHANGED <<chains, result>>
                        ELSE Reject(err)
  /\ UNCHANGED <<call, pool, k, time>>

\* hasTimestamp
NoTimestamp ==
  /\ pc = "timestamp" /\ Signer.tokens = <<>>
  /\ pc' = "chain"
  /\ UNCHANGED <<call, pool, k, time, chains, result>>

CheckTimestamp ==
  /\ pc = "timestamp" /\ Signer.tokens # <<>>
  /\ pool' = PoolAfter(Signer, pool)
  /\ LET err == TokenError(Signer, call.roots, pool)
     IN IF err # "none" THEN Reject(err) /\ UNCHANGED time
        ELSE IF ~WithinValidity(Signer.tokens[1].info, SignerCertificate)
        THEN Reject("expired") /\ UNCHANGED time
        ELSE /\ time' = IF time = 0 THEN Signer.tokens[1].info.genTime ELSE time
             /\ pc' = "chain"
             /\ UNCHANGED <<chains, result>>
  /\ UNCHANGED <<call, k>>

\* Mutant of VerifyChain: the time is set in opts, not in a copy.
VerifyChainSharedTime ==
  /\ pc = "chain"
  /\ LET at == IF time = 0 THEN Now ELSE time
     IN IF ~ChainExists(SignerCertificate, call.roots, pool, at, "any")
        THEN Reject("unknown authority") /\ UNCHANGED k
        ELSE /\ chains' = Append(chains, [cert |-> SignerCertificate, pool |-> pool, at |-> at])
             /\ k' = k + 1
             /\ IF k = Len(call.sd.signers)
                THEN pc' = "done" /\ result' = "ok"
                ELSE pc' = "signature" /\ UNCHANGED result
  /\ UNCHANGED <<call, pool, time>>

\* Mutant of VerifyChain: one signer too many.
VerifyChainPast ==
  /\ pc = "chain"
  /\ chains' = Append(chains, [cert |-> SignerCertificate, pool |-> pool, at |-> time])
  /\ k' = k + 1
  /\ IF k > Len(call.sd.signers)
     THEN pc' = "done" /\ result' = "ok"
     ELSE pc' = "signature" /\ UNCHANGED result
  /\ UNCHANGED <<call, pool, time>>

\* Certificate.Verify with optsCopy; the next signer gets a new copy of opts.
VerifyChain ==
  /\ pc = "chain"
  /\ LET at == IF time = 0 THEN Now ELSE time
     IN IF ~ChainExists(SignerCertificate, call.roots, pool, at, "any")
        THEN Reject("unknown authority") /\ UNCHANGED <<k, time>>
        ELSE /\ chains' = Append(chains, [cert |-> SignerCertificate, pool |-> pool, at |-> at])
             /\ time' = call.time
             /\ k' = k + 1
             /\ IF k = Len(call.sd.signers)
                THEN pc' = "done" /\ result' = "ok"
                ELSE pc' = "signature" /\ UNCHANGED result
  /\ UNCHANGED <<call, pool>>

VerifyStep == CheckSignature \/ NoTimestamp \/ CheckTimestamp \/ VerifyChain

VerifyNext == (\E c \in Calls : Call(c)) \/ VerifyStep

VerifySpec == VerifyInit /\ [][VerifyNext]_verifyVars
-----------------------------------------------------------------------------
(* Properties *)

\* The types, and that the loop stays within the signers.
TypeOK ==
  /\ pc \in {"idle", "signature", "timestamp", "chain", "done"}
  /\ pc = "idle" <=> call = NoCall
  /\ pc \in {"signature", "timestamp", "chain"} => k \in DOMAIN call.sd.signers
  /\ time \in Nat
  /\ result = "ok" => pc = "done"

\* The time a signer's certificate is to be valid at: the caller's, else the one
\* its own timestamp proves, else now.
SigningTime(c, si) ==
  IF c.time # 0 THEN c.time
  ELSE IF si.tokens = <<>> THEN Now ELSE si.tokens[1].info.genTime

\* Everything a path may be built from.
TokenCerts(si) == UNION {Elements(si.tokens[n].certs) : n \in DOMAIN si.tokens}
AllCerts(c) == c.given \cup Elements(c.sd.certs)
               \cup UNION {TokenCerts(si) : si \in Elements(c.sd.signers)}

\* All the times a token may be of fall in the certificate's lifetime.
Covered(info, cert) ==
  /\ info.genTime + info.accuracy <= cert.notAfter
  /\ info.genTime - info.accuracy >= cert.notBefore

\* A signature over this content, by the key of a certificate that comes with it
\* and leads to a root at the time the signature was made; that time is known as
\* well as its timestamp says, when that fits a Duration.
GenuineSigner(c, si) ==
  \E cert \in Elements(c.sd.certs) :
    /\ Names(si, cert) /\ si.sig.key = cert.key
    /\ \/ si.attrs = NoAttrs /\ c.sd.type = "data" /\ si.sig.over = Content(c)
       \/ /\ si.attrs # NoAttrs /\ si.sig.over = si.attrs
          /\ si.attrs.type = c.sd.type /\ si.attrs.digest = Content(c)
    /\ ChainExists(cert, c.roots, AllCerts(c), SigningTime(c, si), "any")
    /\ si.tokens # <<>> =>
         /\ si.tokens[1].info.imprint = si.sig
         /\ si.tokens[1].info.accuracy \in 0 .. MaxDuration - 1 =>
              Covered(si.tokens[1].info, cert)

Genuine(c) ==
  /\ c.sd.signers # <<>>
  /\ c.message # NoContent => c.sd.content = NoContent
  /\ \A si \in Elements(c.sd.signers) : GenuineSigner(c, si)

\* Verification never accepts an object one of whose signers did not sign this
\* content, or signed it with a key no root vouches for at the time it signed.
VerdictSound == result = "ok" => Genuine(call)

\* A signer as AddSignerInfo makes it, whose certificates are all in the object,
\* with at most one timestamp, by an authority known now.
HonestSigner(c, si) ==
  LET own == c.given \cup Elements(c.sd.certs)
      cert == FindCertificate(si, c.sd.certs)
      token == si.tokens[1]
  IN /\ Named(si, c.sd.certs) # {}
     /\ si.version = 1 /\ si.digestAlg = "known" /\ si.sigAlg = "known"
     /\ si.attrs = [type |-> c.sd.type, digest |-> Content(c)]
     /\ SignatureHolds(cert, si, Content(c))
     /\ ChainExists(cert, c.roots, own, SigningTime(c, si), "any")
     /\ Len(si.tokens) <= 1
     /\ si.tokens # <<>> =>
          /\ token.parses /\ token.type = "tst"
          /\ token.info.version = 1 /\ token.info.imprint = si.sig
          /\ SignatureError(token.signer, "tst", token.info, token.certs) = "none"
          /\ ChainExists(FindCertificate(token.signer, token.certs), c.roots,
                         Elements(token.certs), IF c.time = 0 THEN Now ELSE c.time,
                         "stamping")
          /\ token.info.accuracy \in 0 .. MaxDuration - 1
          /\ Covered(token.info, cert)

\* An object all of whose signers are honest is accepted, in whatever order the
\* signers come and whatever the other timestamps are.
HonestAccepted ==
  pc = "done" /\ CallError(call) = "none"
    /\ (\A si \in Elements(call.sd.signers) : HonestSigner(call, si))
  => result = "ok"

\* "only want the timestamp to affect this one" (verify): each signer's chain is
\* checked at the time of its own timestamp, never of an earlier signer's.
DatedByOwnTimestamp ==
  \A n \in DOMAIN chains : chains[n].at = SigningTime(call, call.sd.signers[n])

\* The same comment, of the certificates: no signer's chain is built from the
\* certificates of another signer's timestamp token.
OnlyOwnTimestamp ==
  \A n \in DOMAIN chains :
    chains[n].pool \subseteq call.given \cup Elements(call.sd.certs)
                              \cup TokenCerts(call.sd.signers[n])

\* "We take the timestamp accuracy into account here" (verify): what is accepted
\* was signed in the lifetime of its certificate, whatever the accuracy.  It does
\* not hold of an accuracy beyond a Duration, of 292 years: see "Divergences".
AccuracyCounts ==
  result = "ok" =>
    \A si \in Elements(call.sd.signers) :
      si.tokens # <<>> => Covered(si.tokens[1].info, FindCertificate(si, call.sd.certs))

\* "FindCertificate finds this SignerInfo's certificate in a slice of
\* certificates" (protocol.go): a signer that names one of the certificates by
\* its subject key identifier is not rejected for want of a certificate.
\* It does not hold of the code: see "Divergences" in the README.
SubjectKeyIdentifierFound ==
  result = "no certificate" =>
    ~\E cert \in Elements(call.sd.certs) :
       Signer.version = 3 /\ Signer.sid = [bytes |-> cert.ski]
=============================================================================
