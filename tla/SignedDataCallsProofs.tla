------------------------ MODULE SignedDataCallsProofs ------------------------
(***************************************************************************)
(* Theorems about SignedDataCalls, for any chains, keys, messages and any  *)
(* number of signers, certificates and rounds of timestamps.               *)
(***************************************************************************)
EXTENDS SignedDataCalls, SequenceTheorems, WellFoundedInduction, TLAPS

-----------------------------------------------------------------------------
(* Sequences of anything *)

IsSeq(s) == \E S : s \in Seq(S)

\* A sequence of anything has a length and is indexed by it.
LEMMA SeqDomain ==
  ASSUME NEW s, IsSeq(s)
  PROVE  Len(s) \in Nat /\ DOMAIN s = 1 .. Len(s)
  BY LenProperties DEF IsSeq

\* A function on 1 .. n is a sequence.
LEMMA FunctionIsSeq ==
  ASSUME NEW s, NEW n \in Nat, s = [k \in 1 .. n |-> s[k]]
  PROVE  IsSeq(s) /\ Len(s) = n
  <1> DEFINE S == {s[k] : k \in 1 .. n}
  <1>1. s \in [1 .. n -> S]
    <2>1. \A k \in 1 .. n : s[k] \in S
      OBVIOUS
    <2> HIDE DEF S
    <2> QED
      BY <2>1
  <1> HIDE DEF S
  <1>2. s \in Seq(S)
    BY <1>1, SeqDef
  <1>3. Len(s) \in Nat /\ DOMAIN s = 1 .. Len(s) /\ DOMAIN s = 1 .. n
    BY <1>1, <1>2, LenProperties
  <1> QED
    BY <1>2, <1>3 DEF IsSeq

\* A sequence of anything with one thing more.
LEMMA AppendToSeq ==
  ASSUME NEW s, IsSeq(s), NEW e
  PROVE  /\ IsSeq(Append(s, e)) /\ Len(Append(s, e)) = Len(s) + 1
         /\ \A k \in 1 .. Len(s) : Append(s, e)[k] = s[k]
         /\ Append(s, e)[Len(s) + 1] = e
  <1>1. PICK S : s \in Seq(S)
    BY DEF IsSeq
  <1> DEFINE T == S \cup {e}
  <1>2. S \subseteq T /\ e \in T
    OBVIOUS
  <1> HIDE DEF T
  <1>3. s \in Seq(T)
    BY <1>1, <1>2, SeqMonotonic
  <1> QED
    BY <1>2, <1>3, AppendProperties DEF IsSeq

\* Numbers have a least one.
LEMMA Least ==
  ASSUME NEW T \in SUBSET Nat, T # {}
  PROVE  \E x \in T : \A y \in T : x <= y
  <1> DEFINE R == OpToRel(<, Nat)
  <1>1. \A x, y \in Nat : x < y => <<x, y>> \in R
    BY DEF OpToRel
  <1>2. IsWellFoundedOn(R, Nat)
    BY NatLessThanWellFounded
  <1> HIDE DEF R
  <1>3. PICK x \in T : \A y \in T : <<y, x>> \notin R
    BY <1>2, WFMin
  <1>4. ASSUME NEW y \in T
        PROVE  x <= y
    <2>1. x \in Nat /\ y \in Nat
      OBVIOUS
    <2>2. ~(y < x)
      BY <1>1, <1>3, <2>1
    <2> QED
      BY <2>1, <2>2
  <1> QED
    BY <1>4

-----------------------------------------------------------------------------
(* The object *)

\* A SignerInfo and a SignedData, as far as their fields.
SignerShape(signer) ==
  /\ signer = [sid |-> signer.sid, attrs |-> signer.attrs, sig |-> signer.sig,
               tokens |-> signer.tokens]
  /\ IsSeq(signer.tokens)

Shape(object) ==
  /\ object = [content |-> object.content, certs |-> object.certs, signers |-> object.signers]
  /\ IsSeq(object.signers)
  /\ \A k \in 1 .. Len(object.signers) : SignerShape(object.signers[k])

CallsInv == Shape(sd) /\ next \in Nat

WithCerts(object, certs) == [object EXCEPT !.certs = certs]

\* AddSignerInfo before the signature: only the certificates change, and it gives up
\* on a detached object.
LEMMA PrepareEffect ==
  ASSUME NEW object, NEW chain, NEW pub
  PROVE  /\ PrepareSigner(object, chain, pub).sd
              = WithCerts(object, AddCertificates(object.certs, Walked(chain)).certs)
         /\ PrepareSigner(object, chain, pub).err = "none" => ~IsDetached(object)
  <1> DEFINE certs == AddCertificates(object.certs, Walked(chain)).certs
             sdOf == [object EXCEPT !.certs = certs]
  <1> HIDE DEF sdOf
  <1>1. /\ PrepareSigner(object, chain, pub).sd = sdOf
        /\ PrepareSigner(object, chain, pub).err = "none" => object.content # NoContent
    BY DEF PrepareSigner, sdOf
  <1> QED
    BY <1>1 DEF sdOf, WithCerts, IsDetached

\* Changing the certificates or the content of an object.
LEMMA OtherFields ==
  ASSUME NEW object, Shape(object), NEW x
  PROVE  /\ Shape([object EXCEPT !.certs = x])
         /\ [object EXCEPT !.certs = x].content = object.content
         /\ [object EXCEPT !.certs = x].signers = object.signers
         /\ Shape([object EXCEPT !.content = x])
         /\ [object EXCEPT !.content = x].content = x
         /\ [object EXCEPT !.content = x].signers = object.signers
  <1> DEFINE c == object.content
             d == object.certs
             s == object.signers
  <1>1. object = [content |-> c, certs |-> d, signers |-> s]
    BY DEF Shape
  <1> HIDE DEF c, d, s
  <1>2. /\ [object EXCEPT !.certs = x] = [content |-> c, certs |-> x, signers |-> s]
        /\ [object EXCEPT !.content = x] = [content |-> x, certs |-> d, signers |-> s]
    BY <1>1
  <1>3. IsSeq(s) /\ \A k \in 1 .. Len(s) : SignerShape(s[k])
    BY DEF Shape, s
  <1> QED
    BY <1>1, <1>2, <1>3 DEF Shape, c, s

\* One more signer.
LEMMA AddSignerEffect ==
  ASSUME NEW object, Shape(object), NEW cert, NEW sig
  PROVE  LET other == AddSigner(object, cert, sig)
             n == Len(object.signers)
         IN /\ Shape(other)
            /\ other.content = object.content /\ other.certs = object.certs
            /\ Len(other.signers) = n + 1
            /\ \A k \in 1 .. n : other.signers[k] = object.signers[k]
            /\ other.signers[n + 1].sid = SID(cert)
            /\ other.signers[n + 1].sig = sig
            /\ other.signers[n + 1].tokens = <<>>
  <1> DEFINE new == [sid |-> SID(cert), attrs |-> SignedAttrs(object.content), sig |-> sig,
                     tokens |-> <<>>]
             c == object.content
             d == object.certs
             s == object.signers
  <1>0. new.sid = SID(cert) /\ new.sig = sig /\ new.tokens = <<>>
    OBVIOUS
  <1>1. SignerShape(new)
    <2>1. <<>> \in Seq({})
      BY EmptySeq
    <2> QED
      BY <2>1 DEF SignerShape, IsSeq
  <1>2. AddSigner(object, cert, sig) = [object EXCEPT !.signers = Append(s, new)]
    BY DEF AddSigner
  <1>3. object = [content |-> c, certs |-> d, signers |-> s] /\ IsSeq(s)
        /\ \A k \in 1 .. Len(s) : SignerShape(s[k])
    BY DEF Shape
  <1> HIDE DEF c, d, s, new
  <1>4. \A t : [object EXCEPT !.signers = t] = [content |-> c, certs |-> d, signers |-> t]
    BY <1>3
  <1>5. /\ IsSeq(Append(s, new)) /\ Len(Append(s, new)) = Len(s) + 1 /\ Len(s) \in Nat
        /\ \A k \in 1 .. Len(s) : Append(s, new)[k] = s[k]
        /\ Append(s, new)[Len(s) + 1] = new
    BY <1>3, AppendToSeq, SeqDomain
  <1>6. \A k \in 1 .. Len(s) + 1 : SignerShape(Append(s, new)[k])
    <2> TAKE k \in 1 .. Len(s) + 1
    <2>1. CASE k = Len(s) + 1
      BY <1>1, <1>5, <2>1
    <2>2. CASE k # Len(s) + 1
      <3>1. k \in 1 .. Len(s)
        BY <1>5, <2>2
      <3> QED
        BY <1>3, <1>5, <3>1
    <2> QED
      BY <2>1, <2>2
  <1>7. LET other == [object EXCEPT !.signers = Append(s, new)]
        IN /\ other.content = c /\ other.certs = d /\ other.signers = Append(s, new)
           /\ other = [content |-> c, certs |-> d, signers |-> Append(s, new)]
    BY <1>4
  <1>8. Shape([object EXCEPT !.signers = Append(s, new)])
    BY <1>5, <1>6, <1>7 DEF Shape
  <1> QED
    BY <1>0, <1>2, <1>5, <1>7, <1>8 DEF c, d, s

\* A signer with one token more.
WithToken(other, signer, token) ==
  /\ other.sid = signer.sid /\ other.sig = signer.sig
  /\ other.tokens = Append(signer.tokens, token)
  /\ Len(other.tokens) = Len(signer.tokens) + 1

\* The second loop of AddTimestamps: every signer has one token more.
LEMMA AttachEffect ==
  ASSUME NEW object, Shape(object), NEW token
  PROVE  /\ Shape(AttachTokens(object, token))
         /\ AttachTokens(object, token).content = object.content
         /\ AttachTokens(object, token).certs = object.certs
         /\ Len(AttachTokens(object, token).signers) = Len(object.signers)
         /\ \A k \in 1 .. Len(object.signers) :
              WithToken(AttachTokens(object, token).signers[k], object.signers[k], token[k])
  <1> DEFINE c == object.content
             d == object.certs
             s == object.signers
             n == Len(s)
             more(k) == [s[k] EXCEPT !.tokens = Append(@, token[k])]
             t == [k \in DOMAIN s |-> more(k)]
  <1>1. object = [content |-> c, certs |-> d, signers |-> s] /\ IsSeq(s)
        /\ \A k \in 1 .. n : SignerShape(s[k])
    BY DEF Shape
  <1>2. AttachTokens(object, token) = [object EXCEPT !.signers = t]
    BY DEF AttachTokens
  <1>3. n \in Nat /\ DOMAIN s = 1 .. n
    BY <1>1, SeqDomain
  <1>4. ASSUME NEW k \in 1 .. n
        PROVE  SignerShape(more(k)) /\ WithToken(more(k), s[k], token[k])
    <2> DEFINE r == s[k]
               e == token[k]
               x == r.sid
               y == r.attrs
               z == r.sig
               old == r.tokens
               new == Append(old, e)
    <2>1. r = [sid |-> x, attrs |-> y, sig |-> z, tokens |-> old] /\ IsSeq(old)
      BY <1>1 DEF SignerShape
    <2>2. more(k) = [r EXCEPT !.tokens = new]
      OBVIOUS
    <2> HIDE DEF r, e, s, x, y, z, old, more
    <2>3. IsSeq(new) /\ Len(new) = Len(old) + 1
      BY <2>1, AppendToSeq
    <2> HIDE DEF new
    <2>4. more(k) = [sid |-> x, attrs |-> y, sig |-> z, tokens |-> new]
      BY <2>1, <2>2
    <2>5. /\ more(k).sid = x /\ more(k).attrs = y /\ more(k).sig = z /\ more(k).tokens = new
      BY <2>4
    <2>6. SignerShape(more(k))
      BY <2>3, <2>4, <2>5 DEF SignerShape
    <2>7. WithToken(more(k), r, e)
      BY <2>3, <2>5 DEF WithToken, x, z, old, new
    <2> QED
      BY <2>6, <2>7 DEF r, e
  <1>5. /\ t = [k \in 1 .. n |-> t[k]] /\ \A k \in 1 .. n : t[k] = more(k)
    BY <1>3
  <1> HIDE DEF more, t, c, d, s, n
  <1>6. IsSeq(t) /\ Len(t) = n
    BY <1>3, <1>5, FunctionIsSeq
  <1>7. [object EXCEPT !.signers = t] = [content |-> c, certs |-> d, signers |-> t]
    BY <1>1
  <1> DEFINE other == AttachTokens(object, token)
  <1>8. /\ other = [content |-> other.content, certs |-> other.certs, signers |-> other.signers]
        /\ other.content = c /\ other.certs = d /\ other.signers = t
    BY <1>2, <1>7
  <1> HIDE DEF other
  <1>9. \A k \in 1 .. n : SignerShape(t[k]) /\ WithToken(t[k], s[k], token[k])
    BY <1>4, <1>5
  <1>10. Shape(other)
    BY <1>6, <1>8, <1>9 DEF Shape
  <1> QED
    BY <1>6, <1>8, <1>9, <1>10 DEF c, d, s, n, other

\* What was encoded is what is parsed; what was absent is absent.
LEMMA ContentKept == \A content : ParsedContent(EncodedContent(content)) = content
  BY DEF ParsedContent, EncodedContent

Permuted(object, p, certs) ==
  [object EXCEPT !.content = ParsedContent(EncodedContent(@)),
                 !.signers = [k \in DOMAIN p |-> object.signers[p[k]]],
                 !.certs = certs]

\* Another order of the signers, after a trip through DER.
LEMMA PermuteEffect ==
  ASSUME NEW object, Shape(object), NEW certs, NEW other,
         NEW p \in Bijection(DOMAIN object.signers, DOMAIN object.signers),
         other = Permuted(object, p, certs)
  PROVE  /\ Shape(other) /\ other.content = object.content
         /\ Len(other.signers) = Len(object.signers) /\ other.certs = certs
         /\ \A k \in 1 .. Len(object.signers) : other.signers[k] = object.signers[p[k]]
  <1> DEFINE c == object.content
             d == object.certs
             s == object.signers
             n == Len(s)
             t == [k \in DOMAIN p |-> s[p[k]]]
  <1>1. object = [content |-> c, certs |-> d, signers |-> s] /\ IsSeq(s)
        /\ \A k \in 1 .. n : SignerShape(s[k])
    BY DEF Shape
  <1>2. n \in Nat /\ DOMAIN s = 1 .. n
    BY <1>1, SeqDomain
  <1>3. p \in [1 .. n -> 1 .. n]
    BY <1>2 DEF Bijection, Injection
  <1>4. /\ t = [k \in 1 .. n |-> t[k]]
        /\ \A k \in 1 .. n : SignerShape(t[k]) /\ t[k] = s[p[k]]
    BY <1>1, <1>3
  <1>5. other = [object EXCEPT !.content = c, !.signers = t, !.certs = certs]
    BY ContentKept DEF Permuted
  <1> HIDE DEF t, c, d, s, n
  <1>6. IsSeq(t) /\ Len(t) = n
    BY <1>2, <1>4, FunctionIsSeq
  <1>7. other = [content |-> c, certs |-> certs, signers |-> t]
    BY <1>1, <1>5
  <1>8. other.content = c /\ other.signers = t /\ other.certs = certs
    BY <1>7
  <1>9. Shape(other)
    BY <1>4, <1>6, <1>7, <1>8 DEF Shape
  <1> QED
    BY <1>4, <1>6, <1>8, <1>9 DEF c, s, n

-----------------------------------------------------------------------------
(* The calls *)

\* The signer of another implementation's message.
OtherSigner(cert, a, attrs, named) ==
  /\ a.key = cert.key.alg
  /\ sd = AddSigner(WithCerts(NewSignedData(message), <<Der(cert)>>), cert,
                    Signature(cert.key, a.hash, IF attrs = <<>> THEN message ELSE attrs))
  /\ infos = <<Info(a.hash, Alg(a.key, named), attrs)>>

\* What Parsed allows is such a signer.
LEMMA ParsedSigner ==
  ASSUME NEW cert, Parsed(cert)
  PROVE  \E a \in SignatureAlgorithm, time \in Times :
           \E attrs \in {<<>>, MarshaledForSigning(<<ContentType, MessageDigest(a.hash, message),
                                                    SigningTime(time)>>)},
              named \in {a.hash, "none"} : OtherSigner(cert, a, attrs, named)
  BY Zenon DEF Parsed, OtherSigner, WithCerts

\* A new object.
LEMMA NewShape ==
  ASSUME NEW m, NEW certs
  PROVE  /\ Shape(NewSignedData(m)) /\ Shape(WithCerts(NewSignedData(m), certs))
         /\ NewSignedData(m).content = m /\ WithCerts(NewSignedData(m), certs).content = m
         /\ NewSignedData(m).certs = <<>> /\ WithCerts(NewSignedData(m), certs).certs = certs
         /\ NewSignedData(m).signers = <<>> /\ WithCerts(NewSignedData(m), certs).signers = <<>>
  <1>1. IsSeq(<<>>) /\ Len(<<>>) = 0
    BY EmptySeq DEF IsSeq
  <1>2. /\ NewSignedData(m) = [content |-> m, certs |-> <<>>, signers |-> <<>>]
        /\ WithCerts(NewSignedData(m), certs) = [content |-> m, certs |-> certs, signers |-> <<>>]
    BY DEF NewSignedData, WithCerts
  <1> QED
    BY <1>1, <1>2 DEF Shape

\* A new object, and one of another implementation's.
LEMMA CallsInit == Init => CallsInv
  <1> SUFFICES ASSUME Init PROVE CallsInv
    OBVIOUS
  <1>1. CASE sd = NewSignedData(message)
    BY <1>1, NewShape DEF Init, CallsInv
  <1>2. CASE \E chain \in Chains : \E k \in DOMAIN chain : Parsed(chain[k])
    <2>1. PICK cert : Parsed(cert)
      BY <1>2
    <2>2. PICK sig : sd = AddSigner(WithCerts(NewSignedData(message), <<Der(cert)>>), cert, sig)
      BY <2>1, ParsedSigner DEF OtherSigner
    <2>3. Shape(sd)
      BY <2>2, NewShape, AddSignerEffect
    <2> QED
      BY <2>3 DEF Init, CallsInv
  <1> QED
    BY <1>1, <1>2 DEF Init

\* The two outcomes of Sign: one more signer, or only more certificates.
SignsWith(chain, pub, time) ==
  LET info == SignerInfo(pub, sd.content, time)
  IN /\ PrepareSigner(sd, chain, pub).err = "none"
     /\ sd' = AddSigner(PrepareSigner(sd, chain, pub).sd, SignerCert(chain, pub),
                        Signature(pub, info.digest, MarshaledForSigning(info.attrs)))
     /\ infos' = Append(infos, info) /\ result' = "ok"
SignFails(chain, pub) ==
  /\ sd' = PrepareSigner(sd, chain, pub).sd /\ UNCHANGED infos
  /\ result' # "error" => \E time \in Times, signer \in Signers(pub) :
                             SignerInfo(pub, sd.content, time).digest \notin Supported(signer)

\* Sign has no other outcome.
LEMMA SignCases ==
  ASSUME Sign
  PROVE  \E chain \in Chains, pub \in PublicKeys :
           SignFails(chain, pub) \/ \E time \in Times : SignsWith(chain, pub, time)
  <1>1. PICK chain \in Chains, pub \in PublicKeys :
          LET prepared == PrepareSigner(sd, chain, pub)
          IN \/ /\ prepared.err = "none"
                /\ \E time \in Times, signer \in Signers(pub) :
                     LET info == SignerInfo(pub, sd.content, time)
                         sig  == Signature(pub, info.digest, MarshaledForSigning(info.attrs))
                     IN IF info.digest \in Supported(signer)
                        THEN /\ sd' = AddSigner(prepared.sd, SignerCert(chain, pub), sig)
                             /\ infos' = Append(infos, info) /\ result' = "ok"
                        ELSE /\ sd' = prepared.sd /\ result' = "unsupported hash"
                             /\ UNCHANGED infos
             \/ sd' = prepared.sd /\ result' = "error" /\ UNCHANGED infos
    BY Zenon DEF Sign
  <1> QED
    BY <1>1, Zenon DEF SignsWith, SignFails

\* What each call does to the object.
LEMMA SignEffect ==
  ASSUME CallsInv, Sign
  PROVE  /\ Shape(sd') /\ sd'.content = sd.content
         /\ IsDetached(sd) => sd'.signers = sd.signers
  <1>1. PICK chain \in Chains, pub \in PublicKeys :
          LET prepared == PrepareSigner(sd, chain, pub)
          IN \/ sd' = prepared.sd
             \/ prepared.err = "none" /\ \E cert, sig : sd' = AddSigner(prepared.sd, cert, sig)
    BY SignCases, Zenon DEF SignsWith, SignFails
  <1> DEFINE prepared == PrepareSigner(sd, chain, pub)
             certs == AddCertificates(sd.certs, Walked(chain)).certs
  <1>2. /\ prepared.sd = WithCerts(sd, certs)
        /\ prepared.err = "none" => ~IsDetached(sd)
    BY ONLY PrepareEffect
  <1>3. prepared.err = "none" => ~IsDetached(sd)
    BY <1>2
  <1>4. /\ Shape(prepared.sd) /\ prepared.sd.content = sd.content
        /\ prepared.sd.signers = sd.signers
    <2> HIDE DEF prepared, certs
    <2> DEFINE other == [sd EXCEPT !.certs = certs]
    <2>1. Shape(other) /\ other.content = sd.content /\ other.signers = sd.signers
      BY OtherFields DEF CallsInv
    <2> QED
      BY <1>2, <2>1 DEF WithCerts
  <1>5. CASE sd' = prepared.sd
    BY <1>4, <1>5
  <1>6. CASE prepared.err = "none" /\ \E cert, sig : sd' = AddSigner(prepared.sd, cert, sig)
    <2>1. PICK cert, sig : sd' = AddSigner(prepared.sd, cert, sig)
      BY <1>6
    <2> HIDE DEF prepared
    <2>2. Shape(sd')
      BY <1>4, <2>1, AddSignerEffect
    <2>3. sd'.content = prepared.sd.content
      BY <1>4, <2>1 DEF AddSigner, Shape
    <2> QED
      BY <1>3, <1>4, <1>6, <2>2, <2>3
  <1> QED
    BY <1>1, <1>5, <1>6

\* Every call leaves an object of the same shape.
LEMMA CallsNext == CallsInv /\ [Next]_vars => CallsInv'
  <1> SUFFICES ASSUME CallsInv, [Next]_vars PROVE CallsInv'
    OBVIOUS
  <1>1. CASE Sign
    BY <1>1, SignEffect DEF Sign, CallsInv
  <1>2. CASE Detach
    BY <1>2, OtherFields DEF Detach, Detached, CallsInv
  <1>3. CASE ReplaceCertificates
    <2>1. PICK certs : sd' = [sd EXCEPT !.certs = certs]
      BY <1>3 DEF ReplaceCertificates, SetCertificates
    <2> QED
      BY <1>3, <2>1, OtherFields DEF ReplaceCertificates, CallsInv
  <1>4. CASE BeginTimestamps \/ FetchToken
    BY <1>4 DEF BeginTimestamps, FetchToken, CallsInv
  <1>5. CASE EndTimestamps
    BY <1>5, AttachEffect DEF EndTimestamps, CallsInv
  <1>6. CASE EncodeAndParse
    <2>1. PICK p \in Bijection(DOMAIN sd.signers, DOMAIN sd.signers) : \E certs :
            sd' = Permuted(sd, p, certs)
      BY <1>6 DEF EncodeAndParse, Permuted
    <2>2. Shape(sd')
      BY <2>1, PermuteEffect DEF CallsInv
    <2> QED
      BY <1>6, <2>2 DEF EncodeAndParse, CallsInv
  <1>7. CASE UNCHANGED vars
    BY <1>7 DEF vars, CallsInv
  <1> QED
    BY <1>1, <1>2, <1>3, <1>4, <1>5, <1>6, <1>7 DEF Next

\* Every object the calls can make has the shape.
LEMMA Inductive == Spec => []CallsInv
  BY CallsInit, CallsNext, PTL DEF Spec

-----------------------------------------------------------------------------
(* The order of the attributes *)

\* Octets that differ in the second first, and there only are compared.
LEMMA SecondOctet ==
  ASSUME NEW a, NEW b, DOMAIN a \subseteq Nat \ {0}, DOMAIN b \subseteq Nat \ {0},
         2 \in DOMAIN a, 2 \in DOMAIN b,
         a[1] = b[1], a[1] \in Nat, a[2] \in Nat, b[2] \in Nat, a[2] < b[2]
  PROVE  Less(a, b) /\ ~Less(b, a)
  <1>1. Less(a, b)
    <2>1. \A j \in 1 .. 2 - 1 : a[j] = b[j]
      OBVIOUS
    <2> QED
      BY <2>1 DEF Less
  <1>2. ASSUME NEW k \in DOMAIN b, b[k] < a[k], \A j \in 1 .. k - 1 : b[j] = a[j]
        PROVE  FALSE
    <2>1. k \in Nat /\ k # 0
      OBVIOUS
    <2>2. CASE k <= 1
      <3>1. k = 1
        BY <2>1, <2>2
      <3>2. b[1] < a[1]
        BY <1>2, <3>1
      <3> QED
        BY <3>2
    <2>3. CASE k = 2
      <3>1. b[2] < a[2]
        BY <1>2, <2>3
      <3> QED
        BY <3>1
    <2>4. CASE k > 2
      <3>1. 2 \in 1 .. k - 1
        BY <2>1, <2>4
      <3> QED
        BY <1>2, <3>1
    <2> QED
      BY <2>1, <2>2, <2>3, <2>4
  <1> QED
    BY <1>1, <1>2 DEF Less

\* The octets of an attribute whose value has that length.
LEMMA OctetsOf ==
  ASSUME NEW type, NEW tag, NEW len \in Nat, NEW content
  PROVE  LET attr == NewAttribute(type, Value(tag, len, content))
         IN /\ DOMAIN AnySetOctets(attr.set) = 1 .. 4
            /\ AnySetOctets(attr.set)[1] = 49 /\ AnySetOctets(attr.set)[2] = 2 + len
            /\ DOMAIN AttributeOctets(attr) = 1 .. 9
            /\ AttributeOctets(attr)[1] = 48 /\ AttributeOctets(attr)[2] = 15 + len
  <1> DEFINE attr == NewAttribute(type, Value(tag, len, content))
             set == <<49, 2 + len, tag, len>>
             head == <<48, 15 + len, 6, 9, type>>
  <1>1. attr.type = type /\ attr.set[1].len = len /\ attr.set[1].tag = tag
    BY DEF NewAttribute, Value
  <1>2. AnySetOctets(attr.set) = set
    BY <1>1 DEF AnySetOctets
  <1>3. AttributeOctets(attr) = head \o set
    <2>1. 11 + 4 + len = 15 + len
      OBVIOUS
    <2> HIDE DEF attr
    <2> QED
      BY <1>1, <1>2, <2>1 DEF AttributeOctets
  <1>4. DOMAIN set = 1 .. 4 /\ set[1] = 49 /\ set[2] = 2 + len
    OBVIOUS
  <1>5. DOMAIN (head \o set) = 1 .. 9 /\ (head \o set)[1] = 48 /\ (head \o set)[2] = 15 + len
    OBVIOUS
  <1> HIDE DEF attr, head, set
  <1> QED
    BY <1>2, <1>3, <1>4, <1>5 DEF attr

\* Three things in the order of R, and of no other.
Line(a, b, c, R) ==
  /\ <<a, b>> \in R /\ <<b, c>> \in R /\ <<a, c>> \in R
  /\ <<b, a>> \notin R /\ <<c, b>> \notin R /\ <<c, a>> \notin R
  /\ a # b /\ b # c /\ a # c

\* t is the only order of s with nothing before what it comes after, and all it has is in
\* set.
InOrder(t, R) == \A j, k \in 1 .. 3 : j < k => <<t[k], t[j]>> \notin R
OnlyOrder(t, s, R, set) ==
  /\ t \in Orders(s) /\ InOrder(t, R)
  /\ \A u \in Orders(s) : (\A k \in 1 .. 3 : u[k] \in set) /\ (InOrder(u, R) => u = t)

\* Three things in order are the only order of them in which none is before what it
\* comes after.
LEMMA OrderOfThree ==
  ASSUME NEW a, NEW b, NEW c, NEW R, Line(a, b, c, R),
         NEW s \in {<<a, b, c>>, <<a, c, b>>, <<b, c, a>>}
  PROVE  OnlyOrder(<<a, b, c>>, s, R, {a, b, c})
  <1> USE DEF Line
  <1>1. DOMAIN s = 1 .. 3
    OBVIOUS
  <1>2. PICK p \in Bijection(1 .. 3, 1 .. 3) :
          /\ s[p[1]] = a /\ s[p[2]] = b /\ s[p[3]] = c
    <2> DEFINE id == [k \in 1 .. 3 |-> k]
               swap == [k \in 1 .. 3 |-> IF k = 1 THEN 1 ELSE IF k = 2 THEN 3 ELSE 2]
               turn == [k \in 1 .. 3 |-> IF k = 1 THEN 3 ELSE IF k = 2 THEN 1 ELSE 2]
    <2>1. id \in Bijection(1 .. 3, 1 .. 3)
      BY DEF Bijection, Injection, Surjection, IsInjective
    <2>2. swap \in Bijection(1 .. 3, 1 .. 3)
      BY DEF Bijection, Injection, Surjection, IsInjective
    <2>3. turn \in Bijection(1 .. 3, 1 .. 3)
      BY DEF Bijection, Injection, Surjection, IsInjective
    <2> QED
      BY <2>1, <2>2, <2>3
  <1>3. [k \in DOMAIN s |-> s[p[k]]] = <<a, b, c>>
    BY <1>1, <1>2
  <1>4. <<a, b, c>> \in Orders(s)
    BY <1>1, <1>2, <1>3, Zenon DEF Orders
  <1>5. ASSUME NEW t \in Orders(s)
        PROVE  /\ DOMAIN t = 1 .. 3 /\ t = <<t[1], t[2], t[3]>>
               /\ t[1] \in {a, b, c} /\ t[2] \in {a, b, c} /\ t[3] \in {a, b, c}
               /\ t[1] # t[2] /\ t[2] # t[3] /\ t[1] # t[3]
    <2>1. PICK q \in Bijection(1 .. 3, 1 .. 3) : t = [k \in 1 .. 3 |-> s[q[k]]]
      BY <1>1, <1>5 DEF Orders
    <2>2. /\ q[1] \in 1 .. 3 /\ q[2] \in 1 .. 3 /\ q[3] \in 1 .. 3
          /\ q[1] # q[2] /\ q[2] # q[3] /\ q[1] # q[3]
      BY DEF Bijection, Injection, IsInjective
    <2>3. \A j, k \in 1 .. 3 : s[j] = s[k] => j = k
      OBVIOUS
    <2>4. \A j \in 1 .. 3 : s[j] \in {a, b, c}
      OBVIOUS
    <2>5. t[1] = s[q[1]] /\ t[2] = s[q[2]] /\ t[3] = s[q[3]] /\ t = <<t[1], t[2], t[3]>>
      BY <2>1
    <2> QED
      BY <2>1, <2>2, <2>3, <2>4, <2>5
  <1>6. ASSUME NEW t \in Orders(s), \A j, k \in 1 .. 3 : j < k => <<t[k], t[j]>> \notin R
        PROVE  t = <<a, b, c>>
    <2>1. <<t[2], t[1]>> \notin R /\ <<t[3], t[2]>> \notin R /\ <<t[3], t[1]>> \notin R
      BY <1>6
    <2>2. t[1] = a /\ t[2] = b /\ t[3] = c
      BY <1>5, <2>1
    <2> QED
      BY <1>5, <2>2
  <1>7. \A j, k \in 1 .. 3 : j < k => <<<<a, b, c>>[k], <<a, b, c>>[j]>> \notin R
    OBVIOUS
  <1> QED
    BY <1>4, <1>5, <1>6, <1>7 DEF OnlyOrder, InOrder

\* The signed attributes, in the order of their lengths.
Full(hash, time, m) == <<ContentType, SigningTime(time), MessageDigest(hash, m)>>

\* The three attributes of a signature are ordered by their lengths, as values and as
\* attributes, whatever the digest and the time.
LEMMA AttributesOrdered ==
  ASSUME NEW hash \in Hashes, NEW time, NEW m
  PROVE  LET a == ContentType
             b == SigningTime(time)
             c == MessageDigest(hash, m)
         IN /\ a # b /\ b # c /\ a # c
            /\ \A p \in {<<a, b>>, <<b, c>>, <<a, c>>} :
                 /\ Less(AnySetOctets(p[1].set), AnySetOctets(p[2].set))
                 /\ ~Less(AnySetOctets(p[2].set), AnySetOctets(p[1].set))
                 /\ Less(AttributeOctets(p[1]), AttributeOctets(p[2]))
                 /\ ~Less(AttributeOctets(p[2]), AttributeOctets(p[1]))
  <1> DEFINE a == ContentType
             b == SigningTime(time)
             c == MessageDigest(hash, m)
             Is(x, type, tag, len, content) == x = NewAttribute(type, Value(tag, len, content))
  <1>1. \E content : Is(a, 3, 6, 9, content)
    BY DEF ContentType
  <1>2. \E tag, len, content : len \in {13, 15} /\ Is(b, 5, tag, len, content)
    BY DEF SigningTime
  <1>3. \E len, content : len \in {16, 20, 32, 48, 64} /\ Is(c, 4, 4, len, content)
    BY DEF MessageDigest, DigestLength, Hashes
  <1>4. \A type, tag, len, content, x : Is(x, type, tag, len, content) => x.type = type
    BY DEF NewAttribute
  <1>5. a # b /\ b # c /\ a # c
    <2> HIDE DEF a, b, c, Is
    <2>1. a.type = 3 /\ b.type = 5 /\ c.type = 4
      BY <1>1, <1>2, <1>3, <1>4
    <2> QED
      BY <2>1
  <1>6. ASSUME NEW x, NEW y, NEW s, NEW t, NEW k, NEW n, NEW l1 \in Nat, NEW l2 \in Nat,
               NEW u, NEW v, Is(x, s, k, l1, u), Is(y, t, n, l2, v), l1 < l2
        PROVE  /\ Less(AnySetOctets(x.set), AnySetOctets(y.set))
               /\ ~Less(AnySetOctets(y.set), AnySetOctets(x.set))
               /\ Less(AttributeOctets(x), AttributeOctets(y))
               /\ ~Less(AttributeOctets(y), AttributeOctets(x))
    <2> DEFINE p == AnySetOctets(x.set)
               q == AnySetOctets(y.set)
               f == AttributeOctets(x)
               g == AttributeOctets(y)
    <2>1. /\ DOMAIN p = 1 .. 4 /\ p[1] = 49 /\ p[2] = 2 + l1
          /\ DOMAIN f = 1 .. 9 /\ f[1] = 48 /\ f[2] = 15 + l1
      BY <1>6, OctetsOf
    <2>2. /\ DOMAIN q = 1 .. 4 /\ q[1] = 49 /\ q[2] = 2 + l2
          /\ DOMAIN g = 1 .. 9 /\ g[1] = 48 /\ g[2] = 15 + l2
      BY <1>6, OctetsOf
    <2> HIDE DEF p, q, f, g, Is
    <2>3. /\ 2 \in 1 .. 4 /\ 1 .. 4 \subseteq Nat \ {0} /\ 2 + l1 \in Nat /\ 2 + l2 \in Nat
          /\ 2 \in 1 .. 9 /\ 1 .. 9 \subseteq Nat \ {0} /\ 15 + l1 \in Nat /\ 15 + l2 \in Nat
          /\ 2 + l1 < 2 + l2 /\ 15 + l1 < 15 + l2 /\ 49 \in Nat /\ 48 \in Nat
      BY <1>6
    <2>4. Less(p, q) /\ ~Less(q, p)
      BY <2>1, <2>2, <2>3, SecondOctet
    <2>5. Less(f, g) /\ ~Less(g, f)
      BY <2>1, <2>2, <2>3, SecondOctet
    <2> QED
      BY <2>4, <2>5 DEF p, q, f, g
  <1>7. PICK x : Is(a, 3, 6, 9, x)
    BY <1>1
  <1>8. PICK tag, len, y : len \in {13, 15} /\ Is(b, 5, tag, len, y)
    BY <1>2
  <1>9. PICK size, z : size \in {16, 20, 32, 48, 64} /\ Is(c, 4, 4, size, z)
    BY <1>3
  <1> HIDE DEF a, b, c, Is
  <1>10. 9 \in Nat /\ len \in Nat /\ size \in Nat /\ 9 < len /\ len < size /\ 9 < size
    BY <1>8, <1>9
  <1>11. ASSUME NEW p \in {<<a, b>>, <<b, c>>, <<a, c>>}
         PROVE  /\ Less(AnySetOctets(p[1].set), AnySetOctets(p[2].set))
                /\ ~Less(AnySetOctets(p[2].set), AnySetOctets(p[1].set))
                /\ Less(AttributeOctets(p[1]), AttributeOctets(p[2]))
                /\ ~Less(AttributeOctets(p[2]), AttributeOctets(p[1]))
    <2>1. CASE p = <<a, b>>
      BY <1>6, <1>7, <1>8, <1>10, <2>1
    <2>2. CASE p = <<b, c>>
      BY <1>6, <1>8, <1>9, <1>10, <2>2
    <2>3. CASE p = <<a, c>>
      BY <1>6, <1>7, <1>9, <1>10, <2>3
    <2> QED
      BY <2>1, <2>2, <2>3
  <1> QED
    BY <1>5, <1>11 DEF a, b, c

\* Whichever of these orders they are in, sortAttributes and the SET OF put them in that
\* of their lengths.
LEMMA Sorted ==
  ASSUME NEW hash \in Hashes, NEW time, NEW m
  PROVE  LET a == ContentType
             b == SigningTime(time)
             c == MessageDigest(hash, m)
         IN \A s \in {<<a, b, c>>, <<a, c, b>>, <<b, c, a>>} :
              SortAttributes(s) = <<a, b, c>> /\ MarshaledForSigning(s) = <<a, b, c>>
  <1> DEFINE a == ContentType
             b == SigningTime(time)
             c == MessageDigest(hash, m)
             All == {a, b, c}
             Values == {p \in All \X All : Less(AnySetOctets(p[1].set), AnySetOctets(p[2].set))}
             Whole == {p \in All \X All : Less(AttributeOctets(p[1]), AttributeOctets(p[2]))}
  <1>1. /\ a # b /\ b # c /\ a # c
        /\ \A p \in {<<a, b>>, <<b, c>>, <<a, c>>} :
             /\ Less(AnySetOctets(p[1].set), AnySetOctets(p[2].set))
             /\ ~Less(AnySetOctets(p[2].set), AnySetOctets(p[1].set))
             /\ Less(AttributeOctets(p[1]), AttributeOctets(p[2]))
             /\ ~Less(AttributeOctets(p[2]), AttributeOctets(p[1]))
    BY AttributesOrdered
  <1> HIDE DEF a, b, c
  <1>2. Line(a, b, c, Values) /\ Line(a, b, c, Whole)
    BY <1>1 DEF Line
  <1>3. ASSUME NEW s \in {<<a, b, c>>, <<a, c, b>>, <<b, c, a>>}
        PROVE  SortAttributes(s) = <<a, b, c>> /\ MarshaledForSigning(s) = <<a, b, c>>
    <2> DEFINE t == <<a, b, c>>
    <2>1. DOMAIN s = 1 .. 3
      OBVIOUS
    <2>2. OnlyOrder(t, s, Values, All) /\ OnlyOrder(t, s, Whole, All)
      <3> HIDE DEF Values, Whole
      <3> QED
        BY <1>2, OrderOfThree
    <2>3. \A u \in Orders(s) : \A j, k \in 1 .. 3 :
            /\ <<u[k], u[j]>> \in Values <=> Less(AnySetOctets(u[k].set), AnySetOctets(u[j].set))
            /\ <<u[k], u[j]>> \in Whole <=> Less(AttributeOctets(u[k]), AttributeOctets(u[j]))
      <3>1. \A u \in Orders(s) : \A k \in 1 .. 3 : u[k] \in All
        BY <2>2 DEF OnlyOrder
      <3> HIDE DEF All
      <3> QED
        BY <3>1
    <2> HIDE DEF Values, Whole, All, t
    <2>4. SortAttributes(s) = t
      <3>1. SortAttributes(s) = CHOOSE u \in Orders(s) : \A j, k \in 1 .. 3 :
              j < k => ~Less(AnySetOctets(u[k].set), AnySetOctets(u[j].set))
        BY ONLY <2>1 DEF SortAttributes
      <3>2. /\ t \in Orders(s) /\ \A j, k \in 1 .. 3 : j < k => <<t[k], t[j]>> \notin Values
            /\ \A u \in Orders(s) :
                 (\A j, k \in 1 .. 3 : j < k => <<u[k], u[j]>> \notin Values) => u = t
        BY <2>2 DEF OnlyOrder, InOrder
      <3>3. \A u \in Orders(s) :
              (\A j, k \in 1 .. 3 : j < k => ~Less(AnySetOctets(u[k].set), AnySetOctets(u[j].set)))
                <=> u = t
        BY ONLY <2>3, <3>2, Zenon
      <3> QED
        BY ONLY <3>1, <3>2, <3>3, Zenon
    <2>5. MarshaledForSigning(s) = t
      <3>1. MarshaledForSigning(s) = CHOOSE u \in Orders(s) : \A j, k \in 1 .. 3 :
              j < k => ~Less(AttributeOctets(u[k]), AttributeOctets(u[j]))
        BY ONLY <2>1 DEF MarshaledForSigning
      <3>2. /\ t \in Orders(s) /\ \A j, k \in 1 .. 3 : j < k => <<t[k], t[j]>> \notin Whole
            /\ \A u \in Orders(s) :
                 (\A j, k \in 1 .. 3 : j < k => <<u[k], u[j]>> \notin Whole) => u = t
        BY <2>2 DEF OnlyOrder, InOrder
      <3>3. \A u \in Orders(s) :
              (\A j, k \in 1 .. 3 : j < k => ~Less(AttributeOctets(u[k]), AttributeOctets(u[j])))
                <=> u = t
        BY ONLY <2>3, <3>2, Zenon
      <3> QED
        BY ONLY <3>1, <3>2, <3>3, Zenon
    <2> QED
      BY <2>4, <2>5 DEF t
  <1> QED
    BY <1>3 DEF a, b, c

-----------------------------------------------------------------------------
(* What every signer of the object is *)

Ders == {Der(c) : c \in Certificates}

\* A signature, here or elsewhere, by the key of a certificate with the signer's name,
\* over the attributes in order or, without any, over the message; with the algorithm
\* that the fields of the SignerInfo give back; and as many tokens, all for the
\* signature, as it has lived through calls of AddTimestamps.
Made(m, signer, info) ==
  \E cert \in Certificates, hash \in Hashes :
    /\ Alg(cert.key.alg, hash) \in SignatureAlgorithm
    /\ signer.sid = SID(cert)
    /\ info.digest = hash
    /\ info.sigAlg \in {Alg(cert.key.alg, hash), Alg(cert.key.alg, "none")}
    /\ info.attrs = <<>> \/ \E time \in Times : info.attrs = Full(hash, time, m)
    /\ signer.sig = Signature(cert.key, hash, IF info.attrs = <<>> THEN m ELSE info.attrs)
    /\ Len(signer.tokens) = info.stamps
    /\ \A j \in 1 .. Len(signer.tokens) : signer.tokens[j].imprint = signer.sig

InfoShape(info) ==
  info = [digest |-> info.digest, sigAlg |-> info.sigAlg, attrs |-> info.attrs,
          stamps |-> info.stamps]

\* The tokens fetched so far, one for each signature in turn.
Fetching ==
  next # 0 =>
    /\ IsSeq(tokens) /\ Len(tokens) = next - 1
    /\ \A j \in 1 .. Len(tokens) : tokens[j].imprint = sd.signers[j].sig

\* Each signer was made of what is known of it beside it.
Genuine(m, signers, is) ==
  /\ IsSeq(is) /\ Len(is) = Len(signers)
  /\ \A k \in 1 .. Len(is) : InfoShape(is[k]) /\ Made(m, signers[k], is[k])

GenuineInv ==
  /\ CallsInv
  /\ sd.content \in {message, NoContent} /\ sd.certs \in Seq(Ders)
  /\ Genuine(message, sd.signers, infos)
  /\ Fetching

\* The algorithm that verifies a signature is the one that made it, whichever of the two
\* OIDs the SignerInfo has.
LEMMA AlgorithmFound ==
  ASSUME NEW key, NEW hash, Alg(key, hash) \in SignatureAlgorithm,
         NEW sigAlg \in {Alg(key, hash), Alg(key, "none")}
  PROVE  X509SignatureAlgorithm(sigAlg, hash) = Alg(key, hash) /\ Alg(key, hash) # None
  <1>1. key \in {"RSA", "ECDSA"} /\ hash # "none"
    BY DEF SignatureAlgorithm, Alg, Hashes
  <1>2. Alg(key, hash) # None
    BY <1>1 DEF Alg, None
  <1>3. CASE sigAlg = Alg(key, hash)
    BY <1>2, <1>3 DEF X509SignatureAlgorithm
  <1>4. CASE sigAlg = Alg(key, "none")
    <2>1. sigAlg \notin SignatureAlgorithm
      BY <1>4 DEF SignatureAlgorithm, Alg, Hashes
    <2>2. sigAlg \in PublicKeyAlgorithm
      BY <1>1, <1>4 DEF PublicKeyAlgorithm
    <2>3. sigAlg.key = key
      BY <1>4 DEF Alg
    <2> QED
      BY <1>2, <2>1, <2>2, <2>3 DEF X509SignatureAlgorithm
  <1> QED
    BY <1>2, <1>3, <1>4

\* The attributes say what verify looks for, each once.
LEMMA AttributesFound ==
  ASSUME NEW hash, NEW time, NEW m
  PROVE  /\ IsOnlyAttribute(Full(hash, time, m), ContentType)
         /\ IsOnlyAttribute(Full(hash, time, m), MessageDigest(hash, m))
         /\ Full(hash, time, m) # <<>>
  <1> DEFINE a == ContentType
             b == SigningTime(time)
             c == MessageDigest(hash, m)
  <1>1. a.type = 3 /\ b.type = 5 /\ c.type = 4
    <2>1. \A type, value : NewAttribute(type, value).type = type
      BY DEF NewAttribute
    <2> QED
      BY <2>1, Zenon DEF ContentType, SigningTime, MessageDigest
  <1> HIDE DEF a, b, c
  <1>2. IsOnlyAttribute(<<a, b, c>>, a) /\ IsOnlyAttribute(<<a, b, c>>, c)
    BY <1>1 DEF IsOnlyAttribute
  <1>3. <<a, b, c>> # <<>>
    OBVIOUS
  <1> QED
    BY <1>2, <1>3 DEF Full, a, b, c

\* What verify finds of a genuine signer.
LEMMA GenuineVerifies ==
  ASSUME GenuineInv, NEW k \in 1 .. Len(infos)
  PROVE  SignerVerifies(k) <=>
           Named(k) # {} /\ infos[k].stamps <= 1 /\ infos[k].digest # "MD5"
  <1> DEFINE signer == sd.signers[k]
             info == infos[k]
  <1>1. PICK cert \in Certificates, hash \in Hashes :
          /\ Alg(cert.key.alg, hash) \in SignatureAlgorithm
          /\ signer.sid = SID(cert)
          /\ info.digest = hash
          /\ info.sigAlg \in {Alg(cert.key.alg, hash), Alg(cert.key.alg, "none")}
          /\ info.attrs = <<>> \/ \E time \in Times : info.attrs = Full(hash, time, message)
          /\ signer.sig
               = Signature(cert.key, hash, IF info.attrs = <<>> THEN message ELSE info.attrs)
          /\ Len(signer.tokens) = info.stamps
          /\ \A j \in 1 .. Len(signer.tokens) : signer.tokens[j].imprint = signer.sig
    BY DEF GenuineInv, Genuine, Made
  <1>2. AttributesMatch(info)
    BY <1>1, AttributesFound DEF AttributesMatch
  <1>3. /\ signer.sig.key = cert.key /\ signer.sig.alg = Alg(cert.key.alg, hash)
        /\ signer.sig.over = SignedMessage(info)
    BY <1>1 DEF Signature, SignedMessage, MarshaledForVerification
  <1>4. ASSUME NEW j \in Named(k)
        PROVE  sd.certs[j].body.key = cert.key
    <2>1. j \in DOMAIN sd.certs /\ SID(sd.certs[j].body) = SID(cert)
      BY <1>1 DEF Named
    <2>2. sd.certs[j] \in Ders
      BY <2>1, LenProperties DEF GenuineInv
    <2>3. sd.certs[j].body \in Certificates
      BY <2>2 DEF Ders, Der
    <2> QED
      BY <2>1, <2>3, CertificatesAssumption
  <1>5. Named(k) # {} => \E j \in Named(k) : \A i \in Named(k) : j <= i
    <2>1. DOMAIN sd.certs \subseteq Nat
      BY LenProperties DEF GenuineInv
    <2>2. Named(k) \in SUBSET Nat
      BY <2>1 DEF Named
    <2> QED
      BY <2>2, Least
  <1>6. CheckSignature(cert.key, X509SignatureAlgorithm(info.sigAlg, info.digest),
                       signer.sig.alg) <=> hash # "MD5"
    <2>1. /\ X509SignatureAlgorithm(info.sigAlg, hash) = Alg(cert.key.alg, hash)
          /\ Alg(cert.key.alg, hash) # None
      BY <1>1, AlgorithmFound
    <2>2. Alg(cert.key.alg, hash).hash = hash /\ Alg(cert.key.alg, hash).key = cert.key.alg
      BY DEF Alg
    <2> QED
      BY <1>1, <1>3, <2>1, <2>2 DEF CheckSignature
  <1>7. (signer.tokens = <<>> \/ (Len(signer.tokens) = 1 /\ signer.tokens[1].imprint = signer.sig))
          <=> info.stamps <= 1
    <2>1. PICK S : signer.tokens \in Seq(S)
      <3>1. IsSeq(signer.tokens)
        BY DEF GenuineInv, Genuine, CallsInv, Shape, SignerShape
      <3> QED
        BY <3>1 DEF IsSeq
    <2>2. info.stamps \in Nat /\ info.stamps = Len(signer.tokens)
      BY <1>1, <2>1, LenProperties
    <2>3. signer.tokens = <<>> <=> Len(signer.tokens) = 0
      BY <2>1, EmptySeq, LenProperties
    <2>4. Len(signer.tokens) = 1 => signer.tokens[1].imprint = signer.sig
      BY <1>1
    <2> HIDE DEF signer, info
    <2>5. \A n \in Nat : (n = 0 \/ n = 1) <=> n <= 1
      OBVIOUS
    <2> QED
      BY <2>2, <2>3, <2>4, <2>5, Zenon
  <1> HIDE DEF signer, info
  <1>8. SignerVerifies(k) <=>
          /\ AttributesMatch(info)
          /\ \E j \in Named(k) :
               /\ \A i \in Named(k) : j <= i
               /\ CheckSignature(sd.certs[j].body.key,
                                 X509SignatureAlgorithm(info.sigAlg, info.digest),
                                 signer.sig.alg)
               /\ sd.certs[j].body.key = signer.sig.key
               /\ SignedMessage(info) = signer.sig.over
          /\ \/ signer.tokens = <<>>
             \/ (Len(signer.tokens) = 1 /\ signer.tokens[1].imprint = signer.sig)
    BY ONLY Zenon DEF SignerVerifies, signer, info
  <1> DEFINE Stamped == \/ signer.tokens = <<>>
                        \/ (Len(signer.tokens) = 1 /\ signer.tokens[1].imprint = signer.sig)
             Checked == CheckSignature(cert.key, X509SignatureAlgorithm(info.sigAlg, info.digest),
                                       signer.sig.alg)
  <1>9. SignerVerifies(k) <=>
          (\E j \in Named(k) : (\A i \in Named(k) : j <= i) /\ Checked) /\ Stamped
    BY <1>2, <1>3, <1>4, <1>8, Zenon
  <1>10. Stamped <=> info.stamps <= 1
    BY <1>7
  <1>11. Checked <=> info.digest # "MD5"
    BY <1>1, <1>6
  <1> HIDE DEF Stamped, Checked
  <1> QED
    BY <1>5, <1>9, <1>10, <1>11, Zenon DEF info

-----------------------------------------------------------------------------
(* What the calls add *)

\* Adding certificates leaves certificates, the first one refused or not.
LEMMA AddedType ==
  ASSUME NEW certs \in Seq(Ders), NEW chain \in Seq(Certificates)
  PROVE  AddCertificates(certs, chain).certs \in Seq(Ders)
  <1> DEFINE before(n) == certs \o [k \in 1 .. n - 1 |-> Der(chain[k])]
             refused == {n \in DOMAIN chain : AlreadyAdded(before(n), chain[n])}
             first == CHOOSE n \in refused : \A m \in refused : n <= m
  <1>1. Len(chain) \in Nat /\ DOMAIN chain = 1 .. Len(chain)
    BY LenProperties
  <1>2. ASSUME NEW n \in 1 .. Len(chain) + 1
        PROVE  before(n) \in Seq(Ders)
    <2> DEFINE new == [k \in 1 .. n - 1 |-> Der(chain[k])]
    <2>1. \A k \in 1 .. n - 1 : chain[k] \in Certificates
      <3>1. \A k \in 1 .. n - 1 : k \in 1 .. Len(chain)
        BY <1>1
      <3> QED
        BY <3>1, ElementOfSeq
    <2>2. new \in [1 .. n - 1 -> Ders]
      BY <2>1 DEF Ders
    <2>3. n - 1 \in Nat
      BY <1>1
    <2> HIDE DEF new
    <2>4. new \in Seq(Ders)
      BY <2>2, <2>3, SeqDef
    <2> QED
      BY <2>4, ConcatProperties DEF new
  <1>3. AddCertificates(certs, chain).certs
          = before(IF refused = {} THEN Len(chain) + 1 ELSE first)
    BY DEF AddCertificates
  <1>4. refused # {} => first \in refused
    <2>1. refused \in SUBSET Nat
      BY <1>1
    <2> HIDE DEF refused
    <2> QED
      BY <2>1, Least
  <1>5. refused \subseteq 1 .. Len(chain)
    BY <1>1
  <1> HIDE DEF refused, first, before
  <1>6. 1 .. Len(chain) \subseteq 1 .. Len(chain) + 1 /\ Len(chain) + 1 \in 1 .. Len(chain) + 1
    BY <1>1
  <1>7. before(Len(chain) + 1) \in Seq(Ders)
    BY <1>2, <1>6
  <1>8. refused # {} => before(first) \in Seq(Ders)
    BY <1>2, <1>4, <1>5, <1>6
  <1> QED
    BY <1>3, <1>7, <1>8

\* What AddSignerInfo walks through is of the chain.
LEMMA WalkedType ==
  ASSUME NEW chain \in Seq(Certificates)
  PROVE  Walked(chain) \in Seq(Certificates)
  <1> DEFINE first == CHOOSE k \in Unmarshalable(chain) : \A j \in Unmarshalable(chain) : k <= j
  <1>1. Len(chain) \in Nat /\ DOMAIN chain = 1 .. Len(chain)
    BY LenProperties
  <1>2. Unmarshalable(chain) \subseteq 1 .. Len(chain)
    BY <1>1 DEF Unmarshalable
  <1>3. CASE Unmarshalable(chain) = {}
    BY <1>3 DEF Walked
  <1>4. CASE Unmarshalable(chain) # {}
    <2>1. first \in Unmarshalable(chain)
      <3>1. Unmarshalable(chain) \in SUBSET Nat
        BY <1>1, <1>2
      <3> QED
        BY <1>4, <3>1, Least
    <2>2. Walked(chain) = SubSeq(chain, 1, first)
      BY <1>4 DEF Walked
    <2> HIDE DEF first
    <2>3. first \in 1 .. Len(chain)
      BY <1>2, <2>1
    <2>4. first \in Int /\ \A k \in 1 .. first : chain[k] \in Certificates
      <3>1. \A k \in 1 .. first : k \in 1 .. Len(chain)
        BY <1>1, <2>3
      <3> QED
        BY <2>3, <3>1, ElementOfSeq
    <2> QED
      BY <2>2, <2>4, SubSeqProperties
  <1> QED
    BY <1>3, <1>4

\* The certificate of the signer is one of the chain with its key.
LEMMA SignerFound ==
  ASSUME NEW chain \in Seq(Certificates), NEW pub, \E k \in DOMAIN chain : chain[k].key = pub
  PROVE  SignerCert(chain, pub) \in Certificates /\ SignerCert(chain, pub).key = pub
  <1> DEFINE After == {Len(chain) - k : k \in {j \in DOMAIN chain : chain[j].key = pub}}
  <1>1. Len(chain) \in Nat /\ DOMAIN chain = 1 .. Len(chain)
    BY LenProperties
  <1>2. PICK n \in After : \A m \in After : n <= m
    <2>1. After \in SUBSET Nat /\ After # {}
      BY <1>1
    <2> HIDE DEF After
    <2> QED
      BY <2>1, Least
  <1>3. PICK k \in DOMAIN chain : chain[k].key = pub /\ n = Len(chain) - k
    BY <1>2
  <1>4. \A j \in DOMAIN chain : chain[j].key = pub => j <= k
    <2> TAKE j \in DOMAIN chain
    <2> HAVE chain[j].key = pub
    <2>1. n <= Len(chain) - j
      BY <1>2
    <2> QED
      BY <1>1, <1>3, <2>1
  <1>5. IsSignerCert(chain, pub, k)
    BY <1>3, <1>4 DEF IsSignerCert
  <1>6. PICK last \in DOMAIN chain :
          IsSignerCert(chain, pub, last) /\ SignerCert(chain, pub) = chain[last]
    BY <1>3, <1>5, Zenon DEF SignerCert
  <1>7. chain[last].key = pub
    BY <1>6 DEF IsSignerCert
  <1>8. chain[last] \in Certificates
    BY <1>1, <1>6, ElementOfSeq
  <1> QED
    BY <1>6, <1>7, <1>8

\* Where AddSignerInfo does not give up before it signs.
LEMMA PreparedToSign ==
  ASSUME NEW object, NEW chain, NEW pub, PrepareSigner(object, chain, pub).err = "none"
  PROVE  /\ \E k \in DOMAIN chain : chain[k].key = pub
         /\ SignerCert(chain, pub).alg \in SupportedAlgorithm
         /\ object.content # NoContent
  BY DEF PrepareSigner

\* The SignerInfo of a signature made here.
LEMMA SignedHere ==
  ASSUME NEW cert \in Certificates, cert.alg \in SupportedAlgorithm, NEW m, NEW time \in Times,
         NEW signer, signer.sid = SID(cert), signer.tokens = <<>>,
         signer.sig = Signature(cert.key, SignerInfo(cert.key, m, time).digest,
                                MarshaledForSigning(SignerInfo(cert.key, m, time).attrs))
  PROVE  /\ InfoShape(SignerInfo(cert.key, m, time))
         /\ Made(m, signer, SignerInfo(cert.key, m, time))
  <1> DEFINE pub == cert.key
             info == SignerInfo(pub, m, time)
             hash == "SHA256"
  <1>1. DigestAlgorithmForPublicKey(Marshaled(pub)) = hash
    BY DEF DigestAlgorithmForPublicKey, Marshaled
  <1>2. info = Info(hash, X509PublicKeyAndDigestAlgorithmToSignatureAlgorithm(pub.alg, hash),
                    SortAttributes(<<SigningTime(time), MessageDigest(hash, m), ContentType>>))
    BY <1>1 DEF SignerInfo
  <1>3. hash \in Hashes
    BY DEF Hashes
  <1>4. /\ SortAttributes(<<SigningTime(time), MessageDigest(hash, m), ContentType>>)
             = Full(hash, time, m)
        /\ MarshaledForSigning(Full(hash, time, m)) = Full(hash, time, m)
    BY <1>3, Sorted DEF Full
  <1>5. Alg(pub.alg, hash) \in SignatureAlgorithm
    <2>1. pub.alg \in {"RSA", "ECDSA"}
      BY CertificatesAssumption DEF SupportedAlgorithm
    <2> QED
      BY <2>1 DEF SignatureAlgorithm, Hashes
  <1>6. info = Info(hash, Alg(pub.alg, hash), Full(hash, time, m))
    BY <1>2, <1>4, <1>5 DEF X509PublicKeyAndDigestAlgorithmToSignatureAlgorithm
  <1> HIDE DEF info
  <1>7. /\ info.digest = hash /\ info.sigAlg = Alg(pub.alg, hash)
        /\ info.attrs = Full(hash, time, m) /\ info.stamps = 0 /\ InfoShape(info)
    BY <1>6 DEF Info, InfoShape
  <1>8. Full(hash, time, m) # <<>>
    BY AttributesFound
  <1>9. signer.sig = Signature(pub, hash, IF info.attrs = <<>> THEN m ELSE info.attrs)
    BY <1>4, <1>7, <1>8 DEF info
  <1>10. Len(signer.tokens) = 0
    BY EmptySeq
  <1> HIDE DEF pub, hash
  <1>11. Made(m, signer, info)
    BY <1>3, <1>5, <1>7, <1>9, <1>10 DEF Made, pub
  <1> QED
    BY <1>7, <1>11 DEF info, pub

\* One signer more, with a SignerInfo it is genuine with.
LEMMA OneMoreSigner ==
  ASSUME NEW object, Shape(object), NEW m, NEW is, Genuine(m, object.signers, is),
         NEW cert, NEW sig, NEW info, InfoShape(info),
         \A signer : signer.sid = SID(cert) /\ signer.sig = sig /\ signer.tokens = <<>>
                       => Made(m, signer, info)
  PROVE  Genuine(m, AddSigner(object, cert, sig).signers, Append(is, info))
  <1> DEFINE t == AddSigner(object, cert, sig).signers
             s == object.signers
             n == Len(s)
             more == Append(is, info)
  <1>1. /\ Len(t) = n + 1 /\ \A k \in 1 .. n : t[k] = s[k]
        /\ t[n + 1].sid = SID(cert) /\ t[n + 1].sig = sig /\ t[n + 1].tokens = <<>>
    BY AddSignerEffect
  <1>2. IsSeq(is) /\ Len(is) = n /\ \A k \in 1 .. n : InfoShape(is[k]) /\ Made(m, s[k], is[k])
    BY DEF Genuine
  <1>3. Made(m, t[n + 1], info)
    BY <1>1
  <1> HIDE DEF t, s, n, more
  <1>4. n \in Nat
    BY <1>2, SeqDomain
  <1>5. /\ IsSeq(more) /\ Len(more) = n + 1
        /\ \A k \in 1 .. n : more[k] = is[k]
        /\ more[n + 1] = info
    BY <1>2, AppendToSeq DEF more
  <1>6. ASSUME NEW k \in 1 .. n + 1
        PROVE  InfoShape(more[k]) /\ Made(m, t[k], more[k])
    <2>1. CASE k = n + 1
      BY <1>3, <1>5, <2>1
    <2>2. CASE k # n + 1
      <3>1. k \in 1 .. n
        BY <1>4, <2>2
      <3> QED
        BY <1>1, <1>2, <1>5, <3>1
    <2> QED
      BY <2>1, <2>2
  <1> QED
    BY <1>1, <1>5, <1>6 DEF Genuine, t, more

\* One token more, for the signature.
LEMMA TokenAttached ==
  ASSUME NEW m, NEW signer, SignerShape(signer), NEW info, InfoShape(info), Made(m, signer, info),
         NEW token, token.imprint = signer.sig, NEW other, WithToken(other, signer, token),
         NEW new, new = [info EXCEPT !.stamps = @ + 1]
  PROVE  InfoShape(new) /\ Made(m, other, new)
  <1> DEFINE n == Len(signer.tokens)
  <1>1. /\ new.digest = info.digest /\ new.sigAlg = info.sigAlg /\ new.attrs = info.attrs
        /\ new.stamps = info.stamps + 1 /\ InfoShape(new)
    <2>1. new = [digest |-> info.digest, sigAlg |-> info.sigAlg, attrs |-> info.attrs,
                 stamps |-> info.stamps + 1]
      BY DEF InfoShape
    <2> QED
      BY <2>1 DEF InfoShape
  <1>2. /\ other.sid = signer.sid /\ other.sig = signer.sig /\ Len(other.tokens) = n + 1
        /\ \A j \in 1 .. n : other.tokens[j] = signer.tokens[j]
        /\ other.tokens[n + 1] = token /\ n \in Nat
    BY AppendToSeq, SeqDomain DEF SignerShape, WithToken
  <1>3. PICK cert \in Certificates, hash \in Hashes :
          /\ Alg(cert.key.alg, hash) \in SignatureAlgorithm
          /\ signer.sid = SID(cert)
          /\ info.digest = hash
          /\ info.sigAlg \in {Alg(cert.key.alg, hash), Alg(cert.key.alg, "none")}
          /\ info.attrs = <<>> \/ \E time \in Times : info.attrs = Full(hash, time, m)
          /\ signer.sig = Signature(cert.key, hash, IF info.attrs = <<>> THEN m ELSE info.attrs)
          /\ Len(signer.tokens) = info.stamps
          /\ \A j \in 1 .. Len(signer.tokens) : signer.tokens[j].imprint = signer.sig
    BY DEF Made
  <1>4. \A j \in 1 .. n + 1 : other.tokens[j].imprint = other.sig
    <2> TAKE j \in 1 .. n + 1
    <2>1. CASE j = n + 1
      BY <1>2, <2>1
    <2>2. CASE j # n + 1
      <3>1. j \in 1 .. n
        BY <1>2, <2>2
      <3> QED
        BY <1>2, <1>3, <3>1
    <2> QED
      BY <2>1, <2>2
  <1>5. Len(other.tokens) = new.stamps
    BY <1>1, <1>2, <1>3
  <1> QED
    BY <1>1, <1>2, <1>3, <1>4, <1>5 DEF Made

-----------------------------------------------------------------------------
(* The calls leave every signer genuine *)

\* A new object has no signers, and another implementation's has one.
LEMMA GenuineInit == Init => GenuineInv
  <1> SUFFICES ASSUME Init PROVE GenuineInv
    OBVIOUS
  <1>0. CallsInv /\ Fetching
    BY CallsInit DEF Init, Fetching
  <1>1. Genuine(message, <<>>, <<>>)
    <2>1. IsSeq(<<>>) /\ Len(<<>>) = 0
      BY EmptySeq DEF IsSeq
    <2> QED
      BY <2>1 DEF Genuine
  <1>2. CASE sd = NewSignedData(message) /\ infos = <<>>
    <2>1. sd.content = message /\ sd.certs = <<>> /\ sd.signers = <<>>
      BY <1>2, NewShape
    <2>2. <<>> \in Seq(Ders)
      BY EmptySeq
    <2> QED
      BY <1>0, <1>1, <1>2, <2>1, <2>2 DEF GenuineInv
  <1>3. CASE \E chain \in Chains : \E k \in DOMAIN chain : Parsed(chain[k])
    <2>0. PICK chain \in Chains : \E k \in DOMAIN chain : Parsed(chain[k])
      BY <1>3
    <2>1. PICK k \in DOMAIN chain : Parsed(chain[k])
      BY <2>0
    <2> DEFINE cert == chain[k]
               object == WithCerts(NewSignedData(message), <<Der(cert)>>)
    <2>2. cert \in Certificates
      <3>1. chain \in Seq(Certificates)
        BY CertificatesAssumption
      <3> QED
        BY <3>1, LenProperties, ElementOfSeq
    <2>3. PICK a \in SignatureAlgorithm, time \in Times :
            \E attrs \in {<<>>, MarshaledForSigning(<<ContentType, MessageDigest(a.hash, message),
                                                     SigningTime(time)>>)},
               named \in {a.hash, "none"} : OtherSigner(cert, a, attrs, named)
      BY <2>1, ParsedSigner
    <2>4. a.hash \in Hashes /\ a = Alg(a.key, a.hash)
      BY DEF SignatureAlgorithm, Alg, Hashes
    <2>5. MarshaledForSigning(<<ContentType, MessageDigest(a.hash, message), SigningTime(time)>>)
            = Full(a.hash, time, message)
      BY <2>4, Sorted DEF Full
    <2>6. PICK attrs \in {<<>>, Full(a.hash, time, message)}, named \in {a.hash, "none"} :
            OtherSigner(cert, a, attrs, named)
      BY <2>3, <2>5
    <2> DEFINE sig == Signature(cert.key, a.hash, IF attrs = <<>> THEN message ELSE attrs)
               info == Info(a.hash, Alg(a.key, named), attrs)
    <2> HIDE DEF cert
    <2>7. a.key = cert.key.alg /\ sd = AddSigner(object, cert, sig) /\ infos = <<info>>
      BY <2>6 DEF OtherSigner
    <2>8. /\ info.digest = a.hash /\ info.sigAlg = Alg(a.key, named) /\ info.attrs = attrs
          /\ info.stamps = 0 /\ InfoShape(info)
      BY DEF Info, InfoShape
    <2>9. ASSUME NEW signer, signer.sid = SID(cert), signer.sig = sig, signer.tokens = <<>>
          PROVE  Made(message, signer, info)
      <3>1. Len(signer.tokens) = 0
        BY <2>9, EmptySeq
      <3>2. Alg(cert.key.alg, a.hash) \in SignatureAlgorithm
        BY <2>4, <2>7
      <3>3. info.sigAlg \in {Alg(cert.key.alg, a.hash), Alg(cert.key.alg, "none")}
        BY <2>7, <2>8
      <3>4. signer.sig
              = Signature(cert.key, a.hash, IF info.attrs = <<>> THEN message ELSE info.attrs)
        BY <2>8, <2>9
      <3>5. info.attrs = <<>> \/ \E t \in Times : info.attrs = Full(a.hash, t, message)
        BY <2>6, <2>8
      <3> HIDE DEF info
      <3> QED
        BY <2>2, <2>4, <2>8, <2>9, <3>1, <3>2, <3>3, <3>4, <3>5 DEF Made
    <2>10. Shape(object) /\ object.content = message /\ object.certs = <<Der(cert)>>
           /\ object.signers = <<>>
      BY NewShape
    <2> HIDE DEF object, info, sig
    <2>11. Genuine(message, AddSigner(object, cert, sig).signers, Append(<<>>, info))
      BY <1>1, <2>8, <2>9, <2>10, OneMoreSigner
    <2>12. Append(<<>>, info) = <<info>>
      OBVIOUS
    <2>13. sd.content = message /\ sd.certs = <<Der(cert)>>
      BY <2>7, <2>10, AddSignerEffect
    <2>14. <<Der(cert)>> \in Seq(Ders)
      BY <2>2 DEF Ders
    <2> QED
      BY <1>0, <2>7, <2>11, <2>12, <2>13, <2>14 DEF GenuineInv
  <1> QED
    BY <1>2, <1>3 DEF Init

\* Sign adds a genuine signer, or certificates only.
LEMMA GenuineSign ==
  ASSUME GenuineInv, CallsInv', Sign
  PROVE  GenuineInv'
  <1>1. PICK chain \in Chains, pub \in PublicKeys :
          SignFails(chain, pub) \/ \E time \in Times : SignsWith(chain, pub, time)
    BY SignCases
  <1> DEFINE certs == AddCertificates(sd.certs, Walked(chain)).certs
             object == PrepareSigner(sd, chain, pub).sd
  <1>2. chain \in Seq(Certificates)
    BY CertificatesAssumption
  <1>3. certs \in Seq(Ders)
    BY <1>2, WalkedType, AddedType DEF GenuineInv
  <1>4. object = WithCerts(sd, certs)
    BY ONLY PrepareEffect
  <1> HIDE DEF certs
  <1>5. /\ Shape(object) /\ object.content = sd.content /\ object.certs = certs
        /\ object.signers = sd.signers
    <2>1. Shape(sd)
      BY DEF GenuineInv, CallsInv
    <2>2. WithCerts(sd, certs).certs = certs
      BY <2>1 DEF Shape, WithCerts
    <2> HIDE DEF object
    <2> QED
      BY <1>4, <2>1, <2>2, OtherFields DEF WithCerts
  <1>6. message' = message /\ next' = 0 /\ Fetching'
    BY DEF Sign, Idle, Fetching
  <1>7. CASE SignFails(chain, pub)
    <2>1. sd' = object /\ infos' = infos
      BY <1>7 DEF SignFails
    <2> HIDE DEF object
    <2> QED
      BY <1>3, <1>5, <1>6, <2>1 DEF GenuineInv
  <1>8. CASE \E time \in Times : SignsWith(chain, pub, time)
    <2>1. PICK time \in Times : SignsWith(chain, pub, time)
      BY <1>8
    <2> DEFINE cert == SignerCert(chain, pub)
               info == SignerInfo(pub, sd.content, time)
               sig == Signature(pub, info.digest, MarshaledForSigning(info.attrs))
    <2>2. sd' = AddSigner(object, cert, sig) /\ infos' = Append(infos, info)
      BY <2>1, Zenon DEF SignsWith
    <2>3. /\ \E k \in DOMAIN chain : chain[k].key = pub
          /\ cert.alg \in SupportedAlgorithm /\ sd.content # NoContent
      BY <2>1, PreparedToSign DEF SignsWith
    <2>4. cert \in Certificates /\ cert.key = pub
      BY <1>2, <2>3, SignerFound
    <2>5. sd.content = message
      BY <2>3 DEF GenuineInv
    <2> HIDE DEF cert, object
    <2>6. ASSUME NEW signer, signer.sid = SID(cert), signer.sig = sig, signer.tokens = <<>>
          PROVE  InfoShape(info) /\ Made(message, signer, info)
      BY <2>3, <2>4, <2>5, <2>6, SignedHere
    <2>7. InfoShape(info)
      <3> DEFINE signer == [sid |-> SID(cert), sig |-> sig, tokens |-> <<>>]
      <3>1. signer.sid = SID(cert) /\ signer.sig = sig /\ signer.tokens = <<>>
        OBVIOUS
      <3> HIDE DEF signer, info, sig
      <3> QED
        BY <2>6, <3>1
    <2> HIDE DEF info, sig
    <2>8. Genuine(message, object.signers, infos)
      BY <1>5 DEF GenuineInv
    <2>9. Genuine(message, sd'.signers, infos')
      BY <1>5, <2>2, <2>6, <2>7, <2>8, OneMoreSigner
    <2>10. sd'.content = sd.content /\ sd'.certs = certs
      BY <1>5, <2>2, AddSignerEffect
    <2> QED
      BY <1>3, <1>6, <2>9, <2>10 DEF GenuineInv
  <1> QED
    BY <1>1, <1>7, <1>8

\* The content and the certificates are not what a signer is genuine by.
LEMMA GenuineReplace ==
  ASSUME GenuineInv, CallsInv', Detach \/ ReplaceCertificates
  PROVE  GenuineInv'
  <1>1. /\ message' = message /\ infos' = infos /\ next' = 0 /\ Fetching'
        /\ Shape(sd)
    BY DEF Detach, ReplaceCertificates, Idle, Fetching, GenuineInv, CallsInv
  <1>2. CASE Detach
    <2>1. sd' = [sd EXCEPT !.content = NoContent]
      BY <1>2 DEF Detach, Detached
    <2>2. sd'.certs = sd.certs
      BY <1>1, <2>1 DEF Shape
    <2>3. sd'.content = NoContent /\ sd'.signers = sd.signers
      BY <1>1, <2>1, OtherFields
    <2> QED
      BY <1>1, <2>2, <2>3 DEF GenuineInv
  <1>3. CASE ReplaceCertificates
    <2>1. PICK chain \in Chains : sd' = SetCertificates(sd, chain).sd
      BY <1>3 DEF ReplaceCertificates
    <2> DEFINE certs == AddCertificates(<<>>, chain).certs
    <2>2. sd' = [sd EXCEPT !.certs = certs]
      BY <2>1 DEF SetCertificates
    <2>3. certs \in Seq(Ders)
      <3>1. <<>> \in Seq(Ders) /\ chain \in Seq(Certificates)
        BY EmptySeq, CertificatesAssumption
      <3> QED
        BY <3>1, AddedType
    <2> HIDE DEF certs
    <2>4. sd'.certs = certs
      BY <1>1, <2>2 DEF Shape
    <2>5. sd'.content = sd.content /\ sd'.signers = sd.signers
      BY <1>1, <2>2, OtherFields
    <2> QED
      BY <1>1, <2>3, <2>4, <2>5 DEF GenuineInv
  <1> QED
    BY <1>2, <1>3

\* AddTimestamps fetches a token for each signature in turn.
LEMMA GenuineFetch ==
  ASSUME GenuineInv, CallsInv', BeginTimestamps \/ FetchToken
  PROVE  GenuineInv'
  <1>1. message' = message /\ sd' = sd /\ infos' = infos
    BY DEF BeginTimestamps, FetchToken
  <1>2. CASE BeginTimestamps
    <2>1. next' = 1 /\ tokens' = <<>>
      BY <1>2 DEF BeginTimestamps
    <2>2. IsSeq(<<>>) /\ Len(<<>>) = 0
      BY EmptySeq DEF IsSeq
    <2> QED
      BY <1>1, <2>1, <2>2 DEF GenuineInv, Fetching
  <1>3. CASE FetchToken
    <2>1. CASE next' = 0
      BY <1>1, <2>1 DEF GenuineInv, Fetching
    <2>2. CASE next' # 0
      <3> DEFINE token == [imprint |-> sd.signers[next].sig]
      <3>1. /\ next \in DOMAIN sd.signers /\ next' = next + 1
            /\ tokens' = Append(tokens, token)
        BY <1>3, <2>2 DEF FetchToken
      <3>2. next \in Nat /\ next # 0
        <4>1. IsSeq(sd.signers)
          BY DEF GenuineInv, CallsInv, Shape
        <4>2. DOMAIN sd.signers = 1 .. Len(sd.signers) /\ Len(sd.signers) \in Nat
          BY <4>1, SeqDomain
        <4> QED
          BY <3>1, <4>2
      <3>3. /\ IsSeq(tokens) /\ Len(tokens) = next - 1
            /\ \A j \in 1 .. next - 1 : tokens[j].imprint = sd.signers[j].sig
        BY <3>2 DEF GenuineInv, Fetching
      <3>4. token.imprint = sd.signers[next].sig
        OBVIOUS
      <3> HIDE DEF token
      <3>5. next - 1 + 1 = next /\ next + 1 - 1 = next
        BY <3>2
      <3>6. /\ IsSeq(tokens') /\ Len(tokens') = next
            /\ \A j \in 1 .. next - 1 : tokens'[j] = tokens[j]
            /\ tokens'[next] = token
        BY <3>1, <3>3, <3>5, AppendToSeq
      <3>7. \A j \in 1 .. next : tokens'[j].imprint = sd.signers[j].sig
        <4> TAKE j \in 1 .. next
        <4>1. j = next \/ j \in 1 .. next - 1
          BY <3>2
        <4> QED
          BY <3>3, <3>4, <3>6, <4>1
      <3>8. Fetching'
        BY <1>1, <3>1, <3>5, <3>6, <3>7 DEF Fetching
      <3> QED
        BY <1>1, <3>8 DEF GenuineInv
    <2> QED
      BY <2>1, <2>2
  <1> QED
    BY <1>2, <1>3

\* The tokens go to the signers whose signatures they are for.
LEMMA GenuineAttach ==
  ASSUME GenuineInv, CallsInv', EndTimestamps
  PROVE  GenuineInv'
  <1> DEFINE n == Len(sd.signers)
  <1>1. Shape(sd) /\ n \in Nat /\ DOMAIN infos = 1 .. n /\ Len(infos) = n
    BY SeqDomain DEF GenuineInv, CallsInv, Genuine, Shape
  <1>2. /\ sd' = AttachTokens(sd, tokens) /\ next' = 0 /\ message' = message
        /\ next = n + 1
        /\ infos' = [k \in DOMAIN infos |-> [infos[k] EXCEPT !.stamps = @ + 1]]
    BY DEF EndTimestamps
  <1>3. \A k \in 1 .. n : tokens[k].imprint = sd.signers[k].sig
    BY <1>1, <1>2 DEF GenuineInv, Fetching
  <1>4. /\ sd'.content = sd.content /\ sd'.certs = sd.certs /\ Len(sd'.signers) = n
        /\ \A k \in 1 .. n : WithToken(sd'.signers[k], sd.signers[k], tokens[k])
    BY <1>1, <1>2, AttachEffect
  <1>5. IsSeq(infos') /\ Len(infos') = n
    <2>1. infos' = [k \in 1 .. n |-> infos'[k]]
      BY <1>1, <1>2
    <2> HIDE DEF n
    <2> QED
      BY <1>1, <2>1, FunctionIsSeq
  <1>6. ASSUME NEW k \in 1 .. n
        PROVE  InfoShape(infos'[k]) /\ Made(message, sd'.signers[k], infos'[k])
    <2>1. infos'[k] = [infos[k] EXCEPT !.stamps = @ + 1]
      BY <1>1, <1>2
    <2>2. InfoShape(infos[k]) /\ Made(message, sd.signers[k], infos[k])
      BY <1>1 DEF GenuineInv, Genuine
    <2>3. SignerShape(sd.signers[k])
      BY <1>1 DEF Shape
    <2>4. tokens[k].imprint = sd.signers[k].sig
      BY <1>3
    <2>5. WithToken(sd'.signers[k], sd.signers[k], tokens[k])
      BY <1>4
    <2> QED
      BY <2>1, <2>2, <2>3, <2>4, <2>5, TokenAttached
  <1>7. Genuine(message, sd'.signers, infos')
    BY <1>4, <1>5, <1>6 DEF Genuine
  <1> QED
    BY <1>2, <1>4, <1>7 DEF GenuineInv, Fetching

\* Another order of the signers, of their SignerInfos and of the certificates.
LEMMA GenuineEncode ==
  ASSUME GenuineInv, CallsInv', EncodeAndParse
  PROVE  GenuineInv'
  <1> DEFINE n == Len(sd.signers)
             l == Len(sd.certs)
  <1>1. PICK p \in Bijection(DOMAIN sd.signers, DOMAIN sd.signers),
             q \in Bijection(DOMAIN sd.certs, DOMAIN sd.certs) :
          /\ sd' = Permuted(sd, p, [k \in DOMAIN q |-> sd.certs[q[k]]])
          /\ infos' = [k \in DOMAIN p |-> infos[p[k]]]
    BY DEF EncodeAndParse, Permuted
  <1> DEFINE certs == [k \in DOMAIN q |-> sd.certs[q[k]]]
  <1>2. Shape(sd) /\ n \in Nat /\ DOMAIN sd.signers = 1 .. n /\ Len(infos) = n
    BY SeqDomain DEF GenuineInv, CallsInv, Genuine, Shape
  <1>3. p \in [1 .. n -> 1 .. n]
    BY <1>2 DEF Bijection, Injection
  <1>4. certs \in Seq(Ders)
    <2>1. sd.certs \in Seq(Ders)
      BY DEF GenuineInv
    <2>2. l \in Nat /\ DOMAIN sd.certs = 1 .. l /\ sd.certs \in [1 .. l -> Ders]
      BY <2>1, LenProperties
    <2>3. q \in [1 .. l -> 1 .. l]
      BY <2>2 DEF Bijection, Injection
    <2>4. certs \in [1 .. l -> Ders]
      BY <2>2, <2>3
    <2> HIDE DEF certs, l
    <2> QED
      BY <2>2, <2>4, SeqDef
  <1> HIDE DEF certs
  <1>5. /\ sd'.content = sd.content /\ sd'.certs = certs /\ Len(sd'.signers) = n
        /\ \A k \in 1 .. n : sd'.signers[k] = sd.signers[p[k]]
    <2>1. sd' = Permuted(sd, p, certs)
      BY <1>1 DEF certs
    <2> QED
      BY <1>2, <2>1, PermuteEffect
  <1>6. infos' = [k \in 1 .. n |-> infos'[k]] /\ \A k \in 1 .. n : infos'[k] = infos[p[k]]
    BY <1>1, <1>3
  <1>7. IsSeq(infos') /\ Len(infos') = n
    BY <1>2, <1>6, FunctionIsSeq
  <1>8. ASSUME NEW k \in 1 .. n
        PROVE  InfoShape(infos'[k]) /\ Made(message, sd'.signers[k], infos'[k])
    <2>1. p[k] \in 1 .. n
      BY <1>3
    <2>2. InfoShape(infos[p[k]]) /\ Made(message, sd.signers[p[k]], infos[p[k]])
      BY <1>2, <2>1 DEF GenuineInv, Genuine
    <2> QED
      BY <1>5, <1>6, <2>2
  <1>9. message' = message /\ next' = 0
    BY DEF EncodeAndParse, Idle
  <1>10. Genuine(message, sd'.signers, infos')
    BY <1>5, <1>7, <1>8 DEF Genuine
  <1> QED
    BY <1>4, <1>5, <1>9, <1>10 DEF GenuineInv, Fetching

\* Every call leaves every signer genuine.
LEMMA GenuineNext == GenuineInv /\ [Next]_vars => GenuineInv'
  <1> SUFFICES ASSUME GenuineInv, [Next]_vars PROVE GenuineInv'
    OBVIOUS
  <1>1. CallsInv'
    BY CallsNext DEF GenuineInv
  <1>2. CASE UNCHANGED vars
    BY <1>1, <1>2 DEF vars, GenuineInv, Fetching
  <1> QED
    BY <1>1, <1>2, GenuineSign, GenuineReplace, GenuineFetch, GenuineAttach, GenuineEncode
       DEF Next

\* Every signer of every object the calls can make is genuine.
LEMMA GenuineInductive == Spec => []GenuineInv
  BY GenuineInit, GenuineNext, PTL DEF Spec

-----------------------------------------------------------------------------
(* Theorems *)

\* AddTimestamps gives every signer one token more, or changes nothing, whichever of its
\* requests fails.
THEOREM AllOrNothing == Spec => NoPartialFailure
  <1>1. ASSUME CallsInv, Next, next # 0, sd' # sd
        PROVE  /\ next' = 0 /\ result' = "ok"
               /\ \A k \in DOMAIN sd.signers :
                    Len(sd'.signers[k].tokens) = Len(sd.signers[k].tokens) + 1
    <2>1. EndTimestamps
      BY <1>1 DEF Next, Sign, Detach, ReplaceCertificates, BeginTimestamps, FetchToken,
                  EncodeAndParse, Idle
    <2>2. DOMAIN sd.signers = 1 .. Len(sd.signers)
      BY <1>1, SeqDomain DEF CallsInv, Shape
    <2>3. Shape(sd) /\ sd' = AttachTokens(sd, tokens) /\ next' = 0 /\ result' = "ok"
      BY <1>1, <2>1 DEF EndTimestamps, CallsInv
    <2>4. \A k \in 1 .. Len(sd.signers) : WithToken(sd'.signers[k], sd.signers[k], tokens[k])
      <3> DEFINE other == AttachTokens(sd, tokens)
      <3>1. \A k \in 1 .. Len(sd.signers) : WithToken(other.signers[k], sd.signers[k], tokens[k])
        BY <2>3, AttachEffect
      <3> QED
        BY <2>3, <3>1, Zenon
    <2> QED
      BY <2>2, <2>3, <2>4 DEF WithToken
  <1>2. UNCHANGED vars => sd' = sd
    BY DEF vars
  <1> QED
    BY <1>1, <1>2, Inductive, PTL DEF Spec, NoPartialFailure

\* A detached object stays detached and is never given another signer, by any call.
THEOREM StaysDetached == Spec => DetachedIsFinal
  <1>1. ASSUME CallsInv, [Next]_vars, IsDetached(sd)
        PROVE  IsDetached(sd') /\ Len(sd'.signers) = Len(sd.signers)
    <2>1. CASE Sign
      BY <1>1, <2>1, SignEffect DEF IsDetached
    <2>2. CASE Detach
      BY <1>1, <2>2, OtherFields DEF Detach, Detached, CallsInv, IsDetached
    <2>3. CASE ReplaceCertificates
      <3>1. PICK certs : sd' = [sd EXCEPT !.certs = certs]
        BY <2>3 DEF ReplaceCertificates, SetCertificates
      <3> QED
        BY <1>1, <3>1, OtherFields DEF CallsInv, IsDetached
    <2>4. CASE BeginTimestamps \/ FetchToken \/ UNCHANGED vars
      BY <1>1, <2>4 DEF BeginTimestamps, FetchToken, vars
    <2>5. CASE EndTimestamps
      BY <1>1, <2>5, AttachEffect DEF EndTimestamps, CallsInv, IsDetached
    <2>6. CASE EncodeAndParse
      <3>1. PICK p \in Bijection(DOMAIN sd.signers, DOMAIN sd.signers) : \E certs :
              sd' = Permuted(sd, p, certs)
        BY <2>6 DEF EncodeAndParse, Permuted
      <3>2. PICK certs : sd' = Permuted(sd, p, certs)
        BY <3>1
      <3>3. Shape(sd)
        BY <1>1 DEF CallsInv
      <3>4. sd'.content = sd.content /\ Len(sd'.signers) = Len(sd.signers)
        BY <3>2, <3>3, PermuteEffect
      <3> QED
        BY <1>1, <3>4 DEF IsDetached
    <2> QED
      BY <1>1, <2>1, <2>2, <2>3, <2>4, <2>5, <2>6 DEF Next
  <1> QED
    BY <1>1, Inductive, PTL DEF Spec, DetachedIsFinal

\* No signer, of the vault or of a system's store, refuses the hash chosen for its key.
THEOREM HashTaken == Spec => []SignerNeverRefuses
  <1>1. Init => SignerNeverRefuses
    BY DEF Init, SignerNeverRefuses
  <1>2. SignerNeverRefuses /\ [Next]_vars => SignerNeverRefuses'
    <2> SUFFICES ASSUME SignerNeverRefuses, [Next]_vars PROVE SignerNeverRefuses'
      OBVIOUS
    <2>1. ASSUME NEW pub, NEW m, NEW time, NEW signer
          PROVE  SignerInfo(pub, m, time).digest \in Supported(signer)
      <3>1. SignerInfo(pub, m, time).digest = "SHA256"
        BY DEF SignerInfo, Info, DigestAlgorithmForPublicKey, Marshaled
      <3> QED
        BY <3>1 DEF Supported
    <2>2. CASE Sign
      <3>1. PICK chain \in Chains, pub \in PublicKeys :
              \/ result' \in {"ok", "error"}
              \/ \E time \in Times, signer \in Signers(pub) :
                   SignerInfo(pub, sd.content, time).digest \notin Supported(signer)
        BY <2>2, SignCases DEF SignsWith, SignFails
      <3>2. result' \in {"ok", "error"}
        BY <2>1, <3>1
      <3> QED
        BY <3>2 DEF SignerNeverRefuses
    <2>3. CASE ~Sign
      BY <2>3 DEF Next, vars, Detach, ReplaceCertificates, BeginTimestamps, FetchToken,
                  EndTimestamps, EncodeAndParse, SignerNeverRefuses
    <2> QED
      BY <2>2, <2>3
  <1> QED
    BY <1>1, <1>2, PTL DEF Spec

\* After any calls, failed ones included, exactly those signers verify whose certificate
\* the object has, that were timestamped at most once and whose digest is not MD5.
THEOREM Verifies == Spec => []VerifiesUnlessMisused
  <1>1. ASSUME GenuineInv
        PROVE  VerifiesUnlessMisused
    <2>1. DOMAIN sd.signers = 1 .. Len(infos)
      BY <1>1, SeqDomain DEF GenuineInv, CallsInv, Genuine, Shape
    <2> QED
      BY <1>1, <2>1, GenuineVerifies DEF VerifiesUnlessMisused
  <1> QED
    BY <1>1, GenuineInductive, PTL
=============================================================================
