------------------------- MODULE CommandVerifyProofs -------------------------
(***************************************************************************)
(* Theorems about SignatureVerify, for every set of calls: any number of   *)
(* signers, certificates and timestamps, in any order; and about           *)
(* CommandVerify, for every set of files, roots and identities.  The       *)
(* command calls Verify and keeps its invariant; what is added to it is    *)
(* what the command has said by each of its steps.                         *)
(***************************************************************************)
EXTENDS CommandVerify, SequenceTheorems, WellFoundedInduction, TLAPS

-----------------------------------------------------------------------------
(* Paths, certificates and durations *)

\* More certificates in the pool never take a path away.
LEMMA MorePool ==
  ASSUME NEW cert, NEW roots, NEW small, NEW large, NEW t, NEW usage,
         small \subseteq large, ChainExists(cert, roots, small, t, usage)
  PROVE  ChainExists(cert, roots, large, t, usage)
  <1> DEFINE Fit(certs) == {c \in certs : ValidAt(c, t) /\ Permits(c, usage)}
             IsClosed(S, pl) == \A c \in Fit(pl) :
                                  (\E p \in Fit(roots) \cup S : Issues(p, c)) => c \in S
             R(pl) == Fit(roots) \cup
                        {c \in Fit(pl) : \A S \in SUBSET Fit(pl) : IsClosed(S, pl) => c \in S}
  <1>1. R(small) \subseteq R(large)
    <2> SUFFICES ASSUME NEW c \in Fit(small),
                        \A S \in SUBSET Fit(small) : IsClosed(S, small) => c \in S,
                        NEW T \in SUBSET Fit(large), IsClosed(T, large)
                 PROVE  c \in T
      OBVIOUS
    <2>1. T \cap Fit(small) \in SUBSET Fit(small)
      OBVIOUS
    <2>2. IsClosed(T \cap Fit(small), small)
      OBVIOUS
    <2> QED
      BY <2>1, <2>2
  <1>2. R(small) = Reached(roots, small, t, usage) /\ R(large) = Reached(roots, large, t, usage)
    BY Zenon DEF Reached
  <1> HIDE DEF R
  <1> QED
    BY <1>1, <1>2 DEF ChainExists

\* A set of natural numbers that is not empty has a least element.
LEMMA Least ==
  ASSUME NEW S \in SUBSET Nat, S # {}
  PROVE  \E n \in S : \A m \in S : n <= m
  <1> DEFINE R == OpToRel(<, Nat)
  <1>1. \E x \in S : \A y \in S : ~(<<y, x>> \in R)
    <2>1. IsWellFoundedOn(R, Nat)
      BY NatLessThanWellFounded
    <2> HIDE DEF R
    <2> QED
      BY <2>1, WFMin
  <1>2. \A x, y \in Nat : <<y, x>> \in R <=> y < x
    BY DEF OpToRel
  <1>3. PICK x \in S : \A y \in S : ~(<<y, x>> \in R)
    BY <1>1
  <1> HIDE DEF R
  <1>4. ASSUME NEW y \in S PROVE x <= y
    <2>1. x \in Nat /\ y \in Nat
      OBVIOUS
    <2>2. ~(y < x)
      BY <1>2, <1>3, <2>1
    <2> QED
      BY <2>1, <2>2
  <1> QED
    BY <1>4

\* The certificate found is one of those given, and the signer names it.
LEMMA Found ==
  ASSUME NEW si, NEW certs, IsSequence(certs), Named(si, certs) # {}
  PROVE  /\ FindCertificate(si, certs) \in Elements(certs)
         /\ Names(si, FindCertificate(si, certs))
  <1>1. DOMAIN certs \subseteq Nat
    <2>1. DOMAIN certs = 1 .. Len(certs) /\ Len(certs) \in Nat
      BY LenProperties DEF IsSequence
    <2> QED
      BY <2>1
  <1>2. Named(si, certs) \in SUBSET Nat /\ Named(si, certs) \subseteq DOMAIN certs
    BY <1>1 DEF Named
  <1> DEFINE least == CHOOSE n \in Named(si, certs) : \A j \in Named(si, certs) : n <= j
  <1>3. least \in Named(si, certs)
    BY <1>2, Least
  <1> HIDE DEF least
  <1>4. least \in DOMAIN certs /\ Names(si, certs[least])
    BY <1>3 DEF Named
  <1>5. FindCertificate(si, certs) = certs[least]
    BY DEF FindCertificate, least
  <1> QED
    BY <1>4, <1>5 DEF Elements

\* An accuracy that fits a Duration is the duration, forwards and backwards.
LEMMA FittingDuration ==
  ASSUME NEW a \in 0 .. MaxDuration - 1
  PROVE  Duration(a) = a /\ Duration(-a) = -a
  BY CallsAssumption DEF Duration

\* A lifetime with an accuracy that fits is compared as numbers are.
LEMMA FittingValidity ==
  ASSUME NEW info, NEW cert, info.accuracy \in 0 .. MaxDuration - 1,
         info.genTime \in Nat, cert.notBefore \in Int, cert.notAfter \in Int
  PROVE  WithinValidity(info, cert) <=> Covered(info, cert)
  BY FittingDuration, CallsAssumption DEF WithinValidity, Covered

\* What a sequence has at one of its places is one of its elements.
LEMMA AtPlace ==
  ASSUME NEW seq, IsSequence(seq)
  PROVE  /\ Len(seq) \in Nat /\ DOMAIN seq = 1 .. Len(seq)
         /\ \A n \in DOMAIN seq : seq[n] \in Elements(seq)
         /\ seq # <<>> => 1 \in DOMAIN seq
  <1>1. Len(seq) \in Nat /\ DOMAIN seq = 1 .. Len(seq)
    BY LenProperties DEF IsSequence
  <1>2. seq # <<>> => Len(seq) # 0
    BY EmptySeq DEF IsSequence
  <1> QED
    BY <1>1, <1>2 DEF Elements

-----------------------------------------------------------------------------
(* One signer *)

\* A signer that has passed the checks of the loop is genuine, the chain having
\* been built from certificates that came with the call.
LEMMA PassedIsGenuine ==
  ASSUME NEW c, IsCall(c), NEW si \in Elements(c.sd.signers), NEW certPool,
         SignatureError(si, c.sd.type, Content(c), c.sd.certs) = "none",
         certPool \subseteq AllCerts(c),
         ChainExists(FindCertificate(si, c.sd.certs), c.roots, certPool,
                     SigningTime(c, si), "any"),
         si.tokens # <<>> => /\ si.tokens[1].info.imprint = si.sig
                             /\ WithinValidity(si.tokens[1].info,
                                               FindCertificate(si, c.sd.certs))
  PROVE  GenuineSigner(c, si)
  <1> DEFINE cert == FindCertificate(si, c.sd.certs)
  <1>1. /\ AttributesError(si, c.sd.type, Content(c)) = "none"
        /\ Named(si, c.sd.certs) # {}
        /\ SignatureHolds(cert, si, Content(c))
    BY DEF SignatureError
  <1>2. cert \in Elements(c.sd.certs) /\ Names(si, cert)
    BY <1>1, Found DEF IsCall
  <1>3. si.sig.key = cert.key /\ si.sig.over = SignedMessage(si, Content(c))
    BY <1>1 DEF SignatureHolds
  <1>4. \/ si.attrs = NoAttrs /\ c.sd.type = "data" /\ si.sig.over = Content(c)
        \/ /\ si.attrs # NoAttrs /\ si.sig.over = si.attrs
           /\ si.attrs.type = c.sd.type /\ si.attrs.digest = Content(c)
    BY <1>1, <1>3 DEF AttributesError, SignedMessage
  <1>5. ChainExists(cert, c.roots, AllCerts(c), SigningTime(c, si), "any")
    BY MorePool
  <1>6. ASSUME si.tokens # <<>>, si.tokens[1].info.accuracy \in 0 .. MaxDuration - 1
        PROVE  Covered(si.tokens[1].info, cert)
    <2>1. si.tokens[1] \in Elements(si.tokens)
      BY <1>6, AtPlace DEF IsCall
    <2>2. si.tokens[1].info.genTime \in Nat
      BY <2>1 DEF IsCall
    <2>3. cert.notBefore \in Int /\ cert.notAfter \in Int
      BY <1>2 DEF IsCall
    <2> QED
      BY <1>6, <2>2, <2>3, FittingValidity
  <1> HIDE DEF cert
  <1> QED
    BY <1>2, <1>3, <1>4, <1>5, <1>6 DEF GenuineSigner

\* The signature of an honest signer passes.
LEMMA HonestSignaturePasses ==
  ASSUME NEW c, IsCall(c), NEW si, HonestSigner(c, si)
  PROVE  SignatureError(si, c.sd.type, Content(c), c.sd.certs) = "none"
  <1>1. si.attrs # NoAttrs /\ si.attrs.type = c.sd.type /\ si.attrs.digest = Content(c)
    BY DEF IsCall, HonestSigner
  <1>2. AttributesError(si, c.sd.type, Content(c)) = "none"
    BY <1>1 DEF AttributesError, IsCall, HonestSigner
  <1> QED
    BY <1>2 DEF SignatureError, HonestSigner

\* The timestamp of an honest signer passes, whatever else is in the pool.
LEMMA HonestTokenPasses ==
  ASSUME IsCall(call), NEW si \in Elements(call.sd.signers), HonestSigner(call, si),
         si.tokens # <<>>, NEW certPool
  PROVE  /\ TokenError(si, call.roots, certPool) = "none"
         /\ WithinValidity(si.tokens[1].info, FindCertificate(si, call.sd.certs))
  <1> DEFINE token == si.tokens[1]
             cert == FindCertificate(si, call.sd.certs)
             authority == FindCertificate(token.signer, token.certs)
  <1>1. Len(si.tokens) = 1 /\ token \in Elements(si.tokens)
    <2>1. IsSequence(si.tokens) /\ Len(si.tokens) <= 1
      BY DEF IsCall, HonestSigner
    <2>2. /\ Len(si.tokens) \in Nat /\ DOMAIN si.tokens = 1 .. Len(si.tokens)
          /\ 1 \in DOMAIN si.tokens /\ si.tokens[1] \in Elements(si.tokens)
      BY <2>1, AtPlace
    <2>3. ASSUME NEW n \in Nat, n <= 1, 1 \in 1 .. n
          PROVE  n = 1
      BY <2>3
    <2> QED
      BY <2>1, <2>2, <2>3
  <1>2. ChainExists(authority, call.roots, Elements(token.certs), CheckTime, "stamping")
    BY DEF HonestSigner, CheckTime
  <1>3. ChainExists(authority, call.roots, certPool \cup Elements(token.certs), CheckTime,
                    "stamping")
    BY <1>2, MorePool
  <1>4. TokenError(si, call.roots, certPool) = "none"
    BY <1>1, <1>3 DEF TokenError, HonestSigner
  <1>5. cert.notBefore \in Int /\ cert.notAfter \in Int
    BY Found DEF HonestSigner, IsCall
  <1>6. WithinValidity(token.info, cert)
    BY <1>1, <1>5, FittingValidity DEF HonestSigner, IsCall
  <1> QED
    BY <1>4, <1>6

-----------------------------------------------------------------------------
(* The inductive invariant *)

Own(c) == c.given \cup Elements(c.sd.certs)
AllHonest(c) == \A si \in Elements(c.sd.signers) : HonestSigner(c, si)

\* The loop is over the signers of a call that was not refused; the pool holds the
\* certificates of the call, and none that did not come with it.
LoopInv ==
  pc \in {"signature", "timestamp", "chain"} =>
    /\ CallError(call) = "none" /\ result = "none"
    /\ k \in DOMAIN call.sd.signers /\ Len(chains) = k - 1
    /\ Own(call) \subseteq pool /\ pool \subseteq AllCerts(call)

\* The time is that of the signer being checked.
TimeInv ==
  /\ pc \in {"signature", "timestamp"} => time = call.time
  /\ pc = "chain" => (IF time = 0 THEN Now ELSE time) = SigningTime(call, Signer)

\* What the signer being checked has passed.
SignerInv ==
  /\ pc \in {"timestamp", "chain"} =>
       SignatureError(Signer, call.sd.type, Content(call), call.sd.certs) = "none"
  /\ pc = "chain" /\ Signer.tokens # <<>> =>
       /\ Signer.tokens[1].info.imprint = Signer.sig
       /\ WithinValidity(Signer.tokens[1].info, SignerCertificate)

\* The signers already passed are genuine, each at its own time.
ChainsInv ==
  pc # "idle" =>
    /\ chains \in Seq([cert : Elements(call.sd.certs), pool : SUBSET AllCerts(call), at : Nat])
    /\ \A n \in DOMAIN chains :
         /\ GenuineSigner(call, call.sd.signers[n])
         /\ chains[n].at = SigningTime(call, call.sd.signers[n])

\* A call that has ended well has passed all its signers, and one whose signers
\* are honest ends well.
ResultInv ==
  /\ result = "ok" => CallError(call) = "none" /\ Len(chains) = Len(call.sd.signers)
  /\ pc = "done" /\ CallError(call) = "none" /\ AllHonest(call) => result = "ok"

VerifyInv ==
  /\ TypeOK /\ (pc # "idle" => IsCall(call)) /\ (pc = "idle" => chains = <<>> /\ result = "none")
  /\ LoopInv /\ TimeInv /\ SignerInv /\ ChainsInv /\ ResultInv

\* The call is refused, or the loop begins with the first signer.
LEMMA CallInv ==
  ASSUME NEW c, IsCall(c), VerifyInv, Call(c)
  PROVE  VerifyInv'
  <1> USE DEF Call, Reject
  <1>1. pc = "idle" /\ call' = c /\ chains' = <<>> /\ time' = c.time /\ c.time \in Nat
        /\ c # NoCall
    BY DEF VerifyInv, IsCall
  <1>2. ChainsInv'
    BY <1>1, EmptySeq DEF ChainsInv
  <1>3. CASE CallError(c) = "none"
    <2>1. pool' = Own(c) /\ k' = 1 /\ pc' = "signature" /\ result' = "none"
      BY <1>3 DEF VerifyInv, Own
    <2>2. 1 \in DOMAIN c.sd.signers
      <3>1. c.sd.signers # <<>>
        BY <1>3 DEF CallError
      <3> QED
        BY <3>1, AtPlace DEF IsCall
    <2>3. LoopInv'
      BY <1>1, <1>3, <2>1, <2>2, EmptySeq DEF LoopInv, Own, AllCerts
    <2>4. TypeOK' /\ TimeInv' /\ SignerInv' /\ ResultInv'
      BY <1>1, <2>1, <2>2 DEF TypeOK, TimeInv, SignerInv, ResultInv
    <2> QED
      BY <1>1, <1>2, <2>1, <2>3, <2>4 DEF VerifyInv
  <1>4. CASE CallError(c) # "none"
    <2>1. pc' = "done" /\ result' = CallError(c) /\ result' # "ok"
      BY <1>4 DEF CallError
    <2> QED
      BY <1>1, <1>2, <1>4, <2>1
         DEF VerifyInv, TypeOK, LoopInv, TimeInv, SignerInv, ResultInv
  <1> QED
    BY <1>3, <1>4

\* Whoever is refused in the loop is not honest.
LEMMA RejectInv ==
  ASSUME NEW err, VerifyInv, Reject(err), err # "ok", UNCHANGED call, time' \in Nat,
         pc \in {"signature", "timestamp", "chain"}, ~AllHonest(call)
  PROVE  VerifyInv'
  <1>1. /\ pc' = "done" /\ chains' = <<>> /\ call' = call /\ call # NoCall
        /\ result' # "ok" /\ IsCall(call)
    BY DEF Reject, VerifyInv, TypeOK
  <1>2. ChainsInv'
    BY <1>1, EmptySeq DEF ChainsInv
  <1> QED
    BY <1>1, <1>2 DEF VerifyInv, TypeOK, LoopInv, TimeInv, SignerInv, ResultInv

\* A signer of the loop is one of the call, and so is its certificate.
LEMMA InLoop ==
  ASSUME VerifyInv, pc \in {"signature", "timestamp", "chain"}
  PROVE  /\ IsCall(call) /\ Signer \in Elements(call.sd.signers)
         /\ AllHonest(call) => HonestSigner(call, Signer)
         /\ k \in Nat /\ k <= Len(call.sd.signers) /\ Len(call.sd.signers) \in Nat
         /\ DOMAIN call.sd.signers = 1 .. Len(call.sd.signers)
  <1>1. IsCall(call) /\ k \in DOMAIN call.sd.signers
    BY DEF VerifyInv, LoopInv
  <1>2. IsSequence(call.sd.signers)
    BY <1>1 DEF IsCall
  <1>3. /\ Len(call.sd.signers) \in Nat
        /\ DOMAIN call.sd.signers = 1 .. Len(call.sd.signers)
        /\ call.sd.signers[k] \in Elements(call.sd.signers)
    BY <1>1, <1>2, AtPlace
  <1> QED
    BY <1>1, <1>3 DEF Signer, AllHonest

\* The attributes, the certificate and the signature of one signer.
LEMMA CheckSignatureInv ==
  ASSUME VerifyInv, CheckSignature
  PROVE  VerifyInv'
  <1> DEFINE err == SignatureError(Signer, call.sd.type, Content(call), call.sd.certs)
  <1>1. pc = "signature" /\ UNCHANGED <<call, pool, k, time>>
    BY DEF CheckSignature
  <1>2. CASE err = "none"
    <2>1. pc' = "timestamp" /\ UNCHANGED <<chains, result, Signer>>
      BY <1>1, <1>2 DEF CheckSignature, Signer
    <2> QED
      BY <1>1, <1>2, <2>1
         DEF VerifyInv, TypeOK, LoopInv, TimeInv, SignerInv, ChainsInv, ResultInv
  <1>3. CASE err # "none"
    <2>1. ~AllHonest(call)
      BY <1>1, <1>3, InLoop, HonestSignaturePasses
    <2>2. err # "ok"
      BY DEF SignatureError, AttributesError
    <2>3. Reject(err) /\ time' \in Nat
      BY <1>1, <1>3 DEF CheckSignature, VerifyInv, TypeOK
    <2> HIDE DEF err
    <2> QED
      BY <1>1, <2>1, <2>2, <2>3, RejectInv
  <1> QED
    BY <1>2, <1>3

\* A signer without a timestamp: its time is the caller's.
LEMMA NoTimestampInv ==
  ASSUME VerifyInv, NoTimestamp
  PROVE  VerifyInv'
  <1>1. /\ pc = "timestamp" /\ Signer.tokens = <<>> /\ pc' = "chain"
        /\ UNCHANGED <<call, pool, k, time, chains, result>> /\ UNCHANGED Signer
    BY DEF NoTimestamp, Signer
  <1>2. (IF time = 0 THEN Now ELSE time) = SigningTime(call, Signer)
    BY <1>1 DEF VerifyInv, TimeInv, SigningTime
  <1>3. TimeInv'
    BY <1>1, <1>2 DEF TimeInv
  <1> QED
    BY <1>1, <1>3
       DEF VerifyInv, TypeOK, LoopInv, SignerInv, ChainsInv, ResultInv

\* What the pool of a token's check leaves came with the call.
LEMMA PoolGrows ==
  ASSUME VerifyInv, pc = "timestamp"
  PROVE  Own(call) \subseteq PoolAfter(Signer, pool)
         /\ PoolAfter(Signer, pool) \subseteq AllCerts(call)
  <1>1. Own(call) \subseteq pool /\ pool \subseteq AllCerts(call)
    BY DEF VerifyInv, LoopInv
  <1>2. ASSUME Len(Signer.tokens) = 1
        PROVE  Elements(Signer.tokens[1].certs) \subseteq AllCerts(call)
    <2>1. Signer \in Elements(call.sd.signers) /\ IsCall(call)
      BY InLoop
    <2>2. IsSequence(Signer.tokens)
      BY <2>1 DEF IsCall
    <2>3. 1 \in DOMAIN Signer.tokens
      BY <1>2, <2>2, AtPlace
    <2>4. Elements(Signer.tokens[1].certs) \subseteq TokenCerts(Signer)
      BY <2>3 DEF TokenCerts
    <2>5. TokenCerts(Signer) \subseteq AllCerts(call)
      BY <2>1 DEF AllCerts
    <2> QED
      BY <2>4, <2>5
  <1> QED
    BY <1>1, <1>2 DEF PoolAfter, TokenVerified

\* A signer with one: its time is the token's.
LEMMA CheckTimestampInv ==
  ASSUME VerifyInv, CheckTimestamp
  PROVE  VerifyInv'
  <1> DEFINE err == TokenError(Signer, call.roots, pool)
             info == Signer.tokens[1].info
  <1>1. /\ pc = "timestamp" /\ Signer.tokens # <<>> /\ pool' = PoolAfter(Signer, pool)
        /\ UNCHANGED <<call, k>> /\ UNCHANGED Signer /\ UNCHANGED SignerCertificate
    BY DEF CheckTimestamp, Signer, SignerCertificate
  <1>2. err # "ok" /\ time \in Nat /\ time = call.time
    BY <1>1 DEF TokenError, VerifyInv, TypeOK, TimeInv
  <1>3. info.genTime \in Nat \ {0}
    <2>1. Signer \in Elements(call.sd.signers) /\ IsCall(call)
      BY <1>1, InLoop
    <2>2. IsSequence(Signer.tokens)
      BY <2>1 DEF IsCall
    <2>3. Signer.tokens[1] \in Elements(Signer.tokens)
      BY <1>1, <2>2, AtPlace
    <2> QED
      BY <2>1, <2>3 DEF IsCall
  <1>4. CASE err # "none" \/ ~WithinValidity(info, SignerCertificate)
    <2>1. PICK e : Reject(e) /\ e # "ok" /\ UNCHANGED time
      BY <1>1, <1>2, <1>4 DEF CheckTimestamp
    <2>2. ~AllHonest(call)
      BY <1>1, <1>4, InLoop, HonestTokenPasses DEF SignerCertificate
    <2> QED
      BY <1>1, <1>2, <2>1, <2>2, RejectInv
  <1>5. CASE err = "none" /\ WithinValidity(info, SignerCertificate)
    <2>1. /\ time' = IF time = 0 THEN info.genTime ELSE time
          /\ pc' = "chain" /\ UNCHANGED <<chains, result>>
      BY <1>1, <1>5 DEF CheckTimestamp
    <2>2. info.imprint = Signer.sig
      BY <1>5 DEF TokenError
    <2>3. time' \in Nat /\ (IF time' = 0 THEN Now ELSE time') = SigningTime(call, Signer)
      BY <1>1, <1>2, <1>3, <2>1 DEF SigningTime
    <2>4. LoopInv'
      BY <1>1, <2>1, PoolGrows DEF VerifyInv, LoopInv
    <2>5. TimeInv' /\ SignerInv'
      BY <1>1, <1>5, <2>1, <2>2, <2>3 DEF VerifyInv, TimeInv, SignerInv
    <2>6. TypeOK' /\ ChainsInv' /\ ResultInv'
      BY <1>1, <2>1, <2>3 DEF VerifyInv, TypeOK, ChainsInv, ResultInv
    <2> QED
      BY <1>1, <2>1, <2>4, <2>5, <2>6 DEF VerifyInv
  <1> QED
    BY <1>4, <1>5

\* The chain, and the next signer or the end.
LEMMA VerifyChainInv ==
  ASSUME VerifyInv, VerifyChain
  PROVE  VerifyInv'
  <1> DEFINE at == IF time = 0 THEN Now ELSE time
             link == [cert |-> SignerCertificate, pool |-> pool, at |-> at]
             Links == [cert : Elements(call.sd.certs), pool : SUBSET AllCerts(call), at : Nat]
  <1>1. pc = "chain" /\ UNCHANGED <<call, pool>>
    BY DEF VerifyChain
  <1>2. /\ IsCall(call) /\ Signer \in Elements(call.sd.signers)
        /\ k \in Nat /\ k <= Len(call.sd.signers) /\ Len(call.sd.signers) \in Nat
        /\ DOMAIN call.sd.signers = 1 .. Len(call.sd.signers)
        /\ k \in DOMAIN call.sd.signers
    BY <1>1, InLoop DEF VerifyInv, LoopInv
  <1>3. /\ at = SigningTime(call, Signer) /\ at \in Nat
        /\ Own(call) \subseteq pool /\ pool \subseteq AllCerts(call)
    BY <1>1, CallsAssumption DEF VerifyInv, TypeOK, TimeInv, LoopInv
  <1>4. SignatureError(Signer, call.sd.type, Content(call), call.sd.certs) = "none"
    BY <1>1 DEF VerifyInv, SignerInv
  <1>5. CASE ~ChainExists(SignerCertificate, call.roots, pool, at, "any")
    <2>1. Reject("unknown authority") /\ UNCHANGED <<k, time>>
      BY <1>1, <1>5 DEF VerifyChain
    <2>2. ~AllHonest(call)
      <3> SUFFICES ASSUME HonestSigner(call, Signer) PROVE FALSE
        BY <1>1, InLoop
      <3>1. ChainExists(SignerCertificate, call.roots, Own(call), at, "any")
        BY <1>3 DEF HonestSigner, SignerCertificate, Own
      <3> QED
        BY <1>3, <1>5, <3>1, MorePool
    <2> QED
      BY <1>1, <2>1, <2>2, RejectInv DEF VerifyInv, TypeOK
  <1>6. CASE ChainExists(SignerCertificate, call.roots, pool, at, "any")
    <2>1. /\ chains' = Append(chains, link) /\ time' = call.time /\ k' = k + 1
          /\ IF k = Len(call.sd.signers) THEN pc' = "done" /\ result' = "ok"
             ELSE pc' = "signature" /\ UNCHANGED result
      BY <1>6 DEF VerifyChain
    <2>2. GenuineSigner(call, Signer)
      BY <1>1, <1>2, <1>3, <1>4, <1>6, PassedIsGenuine
         DEF VerifyInv, SignerInv, SignerCertificate
    <2>3. link \in Links
      <3>1. SignerCertificate \in Elements(call.sd.certs)
        BY <1>2, <1>4, Found DEF SignerCertificate, SignatureError, IsCall
      <3> HIDE DEF at
      <3> QED
        BY <1>3, <3>1
    <2>4. chains \in Seq(Links) /\ Len(chains) = k - 1 /\ CallError(call) = "none"
      BY <1>1 DEF VerifyInv, ChainsInv, LoopInv
    <2> HIDE DEF link, Links
    <2>5. /\ chains' \in Seq(Links) /\ Len(chains') = k
          /\ \A n \in 1 .. k - 1 : chains'[n] = chains[n]
          /\ chains'[k] = link
          /\ DOMAIN chains' = 1 .. k /\ DOMAIN chains = 1 .. k - 1
      BY <1>2, <2>1, <2>3, <2>4, AppendProperties, LenProperties
    <2>6. ChainsInv'
      <3>1. ASSUME NEW n \in 1 .. k
            PROVE  /\ GenuineSigner(call, call.sd.signers[n])
                   /\ chains'[n].at = SigningTime(call, call.sd.signers[n])
        <4>1. CASE n = k
          BY <1>3, <2>2, <2>5, <4>1 DEF Signer, link
        <4>2. CASE n # k
          <5>1. n \in 1 .. k - 1
            BY <1>2, <4>2
          <5> QED
            BY <1>1, <2>5, <5>1 DEF VerifyInv, ChainsInv
        <4> QED
          BY <4>1, <4>2
      <3> QED
        BY <1>1, <2>5, <3>1 DEF ChainsInv, Links
    <2>7. TypeOK' /\ LoopInv' /\ TimeInv' /\ SignerInv' /\ ResultInv'
      <3>1. call # NoCall /\ call.time \in Nat /\ result = "none"
        BY <1>1, <1>2 DEF IsCall, VerifyInv, LoopInv
      <3>2. CASE k = Len(call.sd.signers)
        BY <1>1, <2>1, <2>4, <2>5, <3>1, <3>2
           DEF TypeOK, LoopInv, TimeInv, SignerInv, ResultInv
      <3>3. CASE k # Len(call.sd.signers)
        <4>1. k + 1 \in DOMAIN call.sd.signers
          BY <1>2, <3>3
        <4> QED
          BY <1>1, <1>2, <1>3, <2>1, <2>4, <2>5, <3>1, <3>3, <4>1
             DEF TypeOK, LoopInv, TimeInv, SignerInv, ResultInv
      <3> QED
        BY <3>2, <3>3
    <2>8. pc' # "idle" /\ IsCall(call)'
      BY <1>1, <1>2, <2>1
    <2> QED
      BY <2>6, <2>7, <2>8 DEF VerifyInv
  <1> QED
    BY <1>5, <1>6

\* Every step of the loop.
LEMMA StepInv ==
  ASSUME VerifyInv, VerifyStep
  PROVE  VerifyInv'
  BY CheckSignatureInv, NoTimestampInv, CheckTimestampInv, VerifyChainInv DEF VerifyStep

\* And none.
LEMMA StutterInv ==
  ASSUME VerifyInv, UNCHANGED verifyVars
  PROVE  VerifyInv'
  BY DEF VerifyInv, TypeOK, LoopInv, TimeInv, SignerInv, ChainsInv, ResultInv, verifyVars,
         Signer, SignerCertificate

\* Before the call.
LEMMA InitInv == VerifyInit => VerifyInv
  BY DEF VerifyInit, VerifyInv, TypeOK, LoopInv, TimeInv, SignerInv, ChainsInv, ResultInv

LEMMA Inductive == VerifySpec => []VerifyInv
  <1>1. VerifyInv /\ [VerifyNext]_verifyVars => VerifyInv'
    <2> SUFFICES ASSUME VerifyInv, [VerifyNext]_verifyVars PROVE VerifyInv'
      OBVIOUS
    <2>1. CASE \E c \in Calls : Call(c)
      BY <2>1, CallInv, CallsAssumption
    <2>2. CASE VerifyStep
      BY <2>2, StepInv
    <2>3. CASE UNCHANGED verifyVars
      BY <2>3, StutterInv
    <2> QED
      BY <2>1, <2>2, <2>3 DEF VerifyNext
  <1> QED
    BY <1>1, InitInv, PTL DEF VerifySpec

-----------------------------------------------------------------------------
(* Theorems *)

\* What the invariant says of a verdict.
LEMMA VerdictOfInv ==
  ASSUME VerifyInv
  PROVE  VerdictSound /\ HonestAccepted /\ DatedByOwnTimestamp
  <1>1. VerdictSound
    <2> SUFFICES ASSUME result = "ok" PROVE Genuine(call)
      BY DEF VerdictSound
    <2>1. /\ CallError(call) = "none" /\ Len(chains) = Len(call.sd.signers)
          /\ IsCall(call) /\ pc = "done"
      BY DEF VerifyInv, TypeOK, ResultInv
    <2>2. DOMAIN chains = 1 .. Len(chains)
      BY <2>1, LenProperties DEF VerifyInv, ChainsInv
    <2>3. DOMAIN call.sd.signers = 1 .. Len(call.sd.signers)
      BY <2>1, AtPlace DEF IsCall
    <2>4. \A n \in DOMAIN call.sd.signers : GenuineSigner(call, call.sd.signers[n])
      BY <2>1, <2>2, <2>3 DEF VerifyInv, ChainsInv
    <2> QED
      BY <2>1, <2>4 DEF Genuine, Elements, CallError
  <1>2. HonestAccepted
    BY DEF HonestAccepted, VerifyInv, ResultInv, AllHonest
  <1>3. DatedByOwnTimestamp
    <2>1. CASE pc = "idle"
      BY <2>1 DEF VerifyInv, DatedByOwnTimestamp
    <2>2. CASE pc # "idle"
      BY <2>2 DEF VerifyInv, ChainsInv, DatedByOwnTimestamp
    <2> QED
      BY <2>1, <2>2
  <1> QED
    BY <1>1, <1>2, <1>3

\* Every call keeps the types and stays within its signers.
THEOREM Typing == VerifySpec => []TypeOK
  BY Inductive, PTL DEF VerifyInv

\* Nothing but a genuine object is accepted.
THEOREM Sound == VerifySpec => []VerdictSound
  BY Inductive, VerdictOfInv, PTL

\* An object all of whose signers are honest is accepted.
THEOREM Complete == VerifySpec => []HonestAccepted
  BY Inductive, VerdictOfInv, PTL

\* Each signer's chain is checked at the signer's own time.
THEOREM Dated == VerifySpec => []DatedByOwnTimestamp
  BY Inductive, VerdictOfInv, PTL

-----------------------------------------------------------------------------
(* Why an authority is unknown *)

\* A chain is refused to a signer with a timestamp, or whose certificate is no root
\* or not valid now.
Doubtful(c, si) ==
  \/ si.tokens # <<>>
  \/ Named(si, c.sd.certs) = {}
  \/ LET cert == FindCertificate(si, c.sd.certs)
     IN cert \notin c.roots \/ ~ValidAt(cert, IF c.time = 0 THEN Now ELSE c.time)

AuthorityInv ==
  result = "unknown authority" => \E si \in Elements(call.sd.signers) : Doubtful(call, si)

\* No check of the call answers that the authority is unknown.
LEMMA CallErrorNotAuthority ==
  ASSUME NEW c PROVE CallError(c) # "unknown authority"
  BY DEF CallError

\* No check of a signature does: it is the answer of the building of a chain only.
LEMMA SignatureErrorNotAuthority ==
  ASSUME NEW si, NEW type, NEW content, NEW certs
  PROVE  SignatureError(si, type, content, certs) # "unknown authority"
  BY DEF SignatureError, AttributesError

\* So that answer is about a signer that can be doubted.
LEMMA AuthorityStep ==
  ASSUME VerifyInv, AuthorityInv, VerifyStep
  PROVE  AuthorityInv'
  <1>1. CASE CheckSignature
    <2>1. result' # "unknown authority"
      BY <1>1, SignatureErrorNotAuthority DEF CheckSignature, Reject, VerifyInv, LoopInv
    <2> QED
      BY <2>1 DEF AuthorityInv
  <1>2. CASE NoTimestamp
    BY <1>2 DEF NoTimestamp, AuthorityInv
  <1>3. CASE CheckTimestamp
    <2>1. Signer \in Elements(call.sd.signers) /\ Doubtful(call, Signer) /\ call' = call
      BY <1>3, InLoop DEF CheckTimestamp, Doubtful
    <2> QED
      BY <2>1 DEF AuthorityInv
  <1>4. CASE VerifyChain
    <2> DEFINE at == IF time = 0 THEN Now ELSE time
    <2>1. pc = "chain" /\ UNCHANGED call /\ Signer \in Elements(call.sd.signers)
          /\ at = SigningTime(call, Signer) /\ result = "none"
      BY <1>4, InLoop DEF VerifyChain, VerifyInv, TimeInv, LoopInv
    <2>2. CASE ChainExists(SignerCertificate, call.roots, pool, at, "any")
      <3>1. result' # "unknown authority"
        BY <1>4, <2>1, <2>2 DEF VerifyChain
      <3> QED
        BY <3>1 DEF AuthorityInv
    <2>3. CASE ~ChainExists(SignerCertificate, call.roots, pool, at, "any")
      <3>1. SignerCertificate \notin call.roots \/ ~ValidAt(SignerCertificate, at)
        BY <2>3 DEF ChainExists, Permits
      <3>2. Doubtful(call, Signer)
        BY <2>1, <3>1 DEF Doubtful, SigningTime, SignerCertificate
      <3> QED
        BY <2>1, <3>2 DEF AuthorityInv
    <2> QED
      BY <2>2, <2>3
  <1> QED
    BY <1>1, <1>2, <1>3, <1>4 DEF VerifyStep

-----------------------------------------------------------------------------
(* The inductive invariant *)

Before == {"begin", "open", "read", "message", "readMessage", "call"}

\* The call is made once, of what the user asks about, when it could be read.
QuestionInv ==
  /\ step \in Before => call = NoCall
  /\ call # NoCall => call = Question(run) /\ Readable(run)
  /\ step \in {"message", "readMessage", "call"} => run.signature \notin {Absent, Unparsable}
  /\ step = "call" /\ run.args = 2 => run.message # Absent
  /\ step \in {"trust", "return"} \/ exit = "ok" => pc = "done" /\ result = "ok"

Begun    == {<<>>, <<"NEWSIG">>}
Called   == Begun \cup {<<"NEWSIG", "GOODSIG">>}
Trusting == Called \cup {<<"NEWSIG", "GOODSIG", "TRUST_FULLY">>}
Refused  == Begun \cup {<<"NEWSIG", "BADSIG">>, <<"NEWSIG", "ERRSIG">>}

\* What has been written by each step: all of it while there is a reader, and no
\* more once there is none.
StatusInv ==
  /\ step = "begin" => status = <<>>
  /\ step \in (Before \ {"begin"}) \cup {"verify"} =>
       status \in Begun /\ (statusUp => status = <<"NEWSIG">>)
  /\ step = "trust" => status \in Called /\ (statusUp => status = <<"NEWSIG", "GOODSIG">>)
  /\ step = "return" \/ exit = "ok" =>
       status \in Trusting /\ (statusUp => status = <<"NEWSIG", "GOODSIG", "TRUST_FULLY">>)
  /\ exit = "failed" => status \in Refused
  /\ exit = "killed" => status \in Trusting

RunInv ==
  /\ run \in Runs /\ statusUp \in BOOLEAN
  /\ step \in Before \cup {"verify", "trust", "return", "done"}
  /\ exit \in {"running", "ok", "failed", "killed"}
  /\ step = "done" <=> exit # "running"
  /\ VerifyInv /\ AuthorityInv /\ QuestionInv /\ StatusInv

\* A run begins before its call of Verify.
LEMMA RunInitInv == Init => RunInv
  <1> SUFFICES ASSUME Init PROVE RunInv
    OBVIOUS
  <1>1. VerifyInv
    BY InitInv DEF Init
  <1>2. run.statusFd \in BOOLEAN
    BY RunsAssumption DEF Init
  <1> QED
    BY <1>1, <1>2
       DEF Init, VerifyInit, RunInv, AuthorityInv, QuestionInv, StatusInv, Before

\* What the status stream reads after a line.
LEMMA SecondLine ==
  ASSUME NEW a, NEW b
  PROVE  Append(<<a>>, b) = <<a, b>>
  <1> DEFINE S == {a, b}
             s == Append(<<a>>, b)
             t == <<a, b>>
  <1>1. <<a>> \in Seq(S) /\ Len(<<a>>) = 1
    OBVIOUS
  <1>2. t \in Seq(S) /\ Len(t) = 2 /\ t[1] = a /\ t[2] = b
    OBVIOUS
  <1>3. s \in Seq(S) /\ Len(s) = 2 /\ s[1] = a /\ s[2] = b
    BY <1>1, AppendProperties
  <1> HIDE DEF s, t
  <1>4. \A i \in 1 .. Len(s) : i = 1 \/ i = 2
    BY <1>3
  <1>5. s = t
    BY <1>2, <1>3, <1>4, SeqEqual
  <1> QED
    BY <1>5 DEF s, t

\* And after two lines.
LEMMA ThirdLine ==
  ASSUME NEW a, NEW b, NEW c
  PROVE  Append(<<a, b>>, c) = <<a, b, c>>
  <1> DEFINE S == {a, b, c}
             s == Append(<<a, b>>, c)
             t == <<a, b, c>>
  <1>1. <<a, b>> \in Seq(S) /\ Len(<<a, b>>) = 2
    OBVIOUS
  <1>2. t \in Seq(S) /\ Len(t) = 3 /\ t[1] = a /\ t[2] = b /\ t[3] = c
    OBVIOUS
  <1>3. s \in Seq(S) /\ Len(s) = 3 /\ s[1] = a /\ s[2] = b /\ s[3] = c
    <2>1. /\ s \in Seq(S) /\ Len(s) = 3 /\ s[3] = c
          /\ \A i \in 1 .. 2 : s[i] = <<a, b>>[i]
      BY <1>1, AppendProperties
    <2> QED
      BY <2>1
  <1> HIDE DEF s, t
  <1>4. \A i \in 1 .. Len(s) : i = 1 \/ i = 2 \/ i = 3
    BY <1>3
  <1>5. s = t
    BY <1>2, <1>3, <1>4, SeqEqual
  <1> QED
    BY <1>5 DEF s, t

\* A step that leaves the call alone keeps what is known of it.
LEMMA CallUntouched ==
  ASSUME RunInv, UNCHANGED verifyVars
  PROVE  VerifyInv' /\ AuthorityInv'
  BY StutterInv DEF RunInv, AuthorityInv, verifyVars

\* Every step, of the command and of Verify inside it.
LEMMA RunNextInv == RunInv /\ [Next]_vars => RunInv'
  <1> SUFFICES ASSUME RunInv, [Next]_vars PROVE RunInv'
    OBVIOUS
  <1> USE DEF At, Goto, Fail, Quiet, Before
  <1>1. CASE EmitNewSig
    <2>1. VerifyInv' /\ AuthorityInv'
      BY <1>1, CallUntouched DEF EmitNewSig
    <2>2. status' = IF statusUp THEN <<"NEWSIG">> ELSE <<>>
      BY <1>1 DEF EmitNewSig, Emit, RunInv, StatusInv
    <2>3. StatusInv'
      BY <1>1, <2>2 DEF EmitNewSig, StatusInv, Begun, RunInv
    <2>4. QuestionInv'
      BY <1>1 DEF EmitNewSig, QuestionInv, RunInv, verifyVars
    <2> QED
      BY <1>1, <2>1, <2>3, <2>4 DEF EmitNewSig, RunInv
  <1>2. CASE OpenSignature \/ ReadSignature \/ ReadError \/ OpenMessage \/ ReadMessage
    <2>1. VerifyInv' /\ AuthorityInv' /\ UNCHANGED <<verifyVars, run, statusUp, status>>
      BY <1>2, CallUntouched
         DEF OpenSignature, ReadSignature, ReadError, OpenMessage, ReadMessage
    <2>2. /\ step \in Before \ {"begin", "call"} /\ exit = "running"
          /\ \/ step' \in Before \ {"begin"} /\ exit' = "running"
             \/ step' = "done" /\ exit' = "failed"
      BY <1>2 DEF OpenSignature, ReadSignature, ReadError, OpenMessage, ReadMessage
    <2>3. StatusInv'
      BY <2>1, <2>2 DEF StatusInv, RunInv, Refused, Begun
    <2>4. QuestionInv'
      <3>1. call = NoCall /\ call' = NoCall /\ UNCHANGED pc /\ UNCHANGED result
        BY <2>1, <2>2 DEF RunInv, QuestionInv, verifyVars
      <3>2. run \in Runs /\ run.args \in 0 .. 2
        BY RunsAssumption DEF RunInv
      <3>3. step' \in {"message", "readMessage", "call"} =>
              run.signature \notin {Absent, Unparsable}
        BY <1>2, <2>1, <2>2
           DEF RunInv, QuestionInv, OpenSignature, ReadSignature, ReadError, OpenMessage, ReadMessage
      <3>4. step' = "call" /\ run.args = 2 => run.message # Absent
        BY <1>2, <2>2, <3>2
           DEF OpenSignature, ReadSignature, ReadError, OpenMessage, ReadMessage
      <3> QED
        BY <2>1, <2>2, <3>1, <3>3, <3>4 DEF QuestionInv
    <2> QED
      BY <2>1, <2>2, <2>3, <2>4 DEF RunInv
  <1>3. CASE CallVerify
    <2>1. Readable(run) /\ IsCall(Question(run)) /\ run \in Runs
      BY <1>3, RunsAssumption DEF CallVerify, RunInv, QuestionInv, Readable
    <2>2. Call(Question(run)) /\ UNCHANGED <<run, exit, status, statusUp>>
          /\ step = "call" /\ step' = "verify" /\ exit = "running"
      BY <1>3 DEF CallVerify, Question, VerifyOpts
    <2>3. VerifyInv' /\ call' = Question(run) /\ call' # NoCall
      BY <2>1, <2>2, CallInv DEF RunInv, Call, IsCall
    <2>4. AuthorityInv'
      <3>1. result' # "unknown authority"
        BY <2>2, CallErrorNotAuthority DEF Call, Reject, RunInv, VerifyInv
      <3> QED
        BY <3>1 DEF AuthorityInv
    <2>5. QuestionInv' /\ StatusInv'
      BY <2>1, <2>2, <2>3 DEF RunInv, QuestionInv, StatusInv, Readable, Question
    <2> QED
      BY <2>2, <2>3, <2>4, <2>5 DEF RunInv
  <1>4. CASE Verifying
    <2>1. VerifyInv' /\ AuthorityInv' /\ UNCHANGED <<run, step, exit, statusUp, status>>
          /\ step = "verify" /\ exit = "running"
      BY <1>4, StepInv, AuthorityStep DEF Verifying, RunInv, ownVars
    <2>2. UNCHANGED call
      BY <1>4 DEF Verifying, VerifyStep, CheckSignature, NoTimestamp, CheckTimestamp, VerifyChain
    <2>3. QuestionInv' /\ StatusInv'
      BY <2>1, <2>2 DEF RunInv, QuestionInv, StatusInv, Readable, Question
    <2> QED
      BY <2>1, <2>3 DEF RunInv
  <1>5. CASE EmitVerdict
    <2>1. VerifyInv' /\ AuthorityInv' /\ UNCHANGED <<verifyVars, run, statusUp>>
          /\ step = "verify" /\ step' = "done" /\ exit' = "failed"
      BY <1>5, CallUntouched DEF EmitVerdict
    <2>2. status' \in Refused
      <3>1. status \in Begun /\ (statusUp => status = <<"NEWSIG">>)
        BY <2>1 DEF RunInv, StatusInv
      <3>2. PICK line \in {"BADSIG", "ERRSIG"} : Emit(line)
        BY <1>5 DEF EmitVerdict
      <3>3. Append(<<"NEWSIG">>, line) = <<"NEWSIG", line>>
        BY SecondLine
      <3> QED
        BY <3>1, <3>2, <3>3 DEF Emit, Refused
    <2>3. QuestionInv' /\ StatusInv'
      BY <2>1, <2>2 DEF RunInv, QuestionInv, StatusInv, verifyVars
    <2> QED
      BY <2>1, <2>3 DEF RunInv
  <1>6. CASE EmitGoodSig
    <2>1. VerifyInv' /\ AuthorityInv' /\ UNCHANGED <<verifyVars, run, statusUp, exit>>
          /\ step = "verify" /\ step' = "trust" /\ exit = "running" /\ pc = "done" /\ result = "ok"
      BY <1>6, CallUntouched DEF EmitGoodSig
    <2>2. status' \in Called /\ (statusUp => status' = <<"NEWSIG", "GOODSIG">>)
      <3>1. status \in Begun /\ (statusUp => status = <<"NEWSIG">>)
        BY <2>1 DEF RunInv, StatusInv
      <3>2. Append(<<"NEWSIG">>, "GOODSIG") = <<"NEWSIG", "GOODSIG">>
        BY SecondLine
      <3> QED
        BY <1>6, <3>1, <3>2 DEF EmitGoodSig, Emit, Called
    <2>3. QuestionInv' /\ StatusInv'
      BY <2>1, <2>2 DEF RunInv, QuestionInv, StatusInv, verifyVars
    <2> QED
      BY <2>1, <2>3 DEF RunInv
  <1>7. CASE EmitTrustFully
    <2>1. VerifyInv' /\ AuthorityInv' /\ UNCHANGED <<verifyVars, run, statusUp, exit>>
          /\ step = "trust" /\ step' = "return" /\ exit = "running"
      BY <1>7, CallUntouched DEF EmitTrustFully
    <2>2. status' \in Trusting
          /\ (statusUp => status' = <<"NEWSIG", "GOODSIG", "TRUST_FULLY">>)
      <3>1. status \in Called /\ (statusUp => status = <<"NEWSIG", "GOODSIG">>)
        BY <2>1 DEF RunInv, StatusInv
      <3>2. Append(<<"NEWSIG", "GOODSIG">>, "TRUST_FULLY")
              = <<"NEWSIG", "GOODSIG", "TRUST_FULLY">>
        BY ThirdLine
      <3> QED
        BY <1>7, <3>1, <3>2 DEF EmitTrustFully, Emit, Trusting
    <2>3. QuestionInv' /\ StatusInv'
      BY <2>1, <2>2 DEF RunInv, QuestionInv, StatusInv, verifyVars
    <2> QED
      BY <2>1, <2>3 DEF RunInv
  <1>8. CASE Return
    <2>1. VerifyInv' /\ AuthorityInv' /\ UNCHANGED <<verifyVars, run, statusUp, status>>
          /\ step = "return" /\ step' = "done" /\ exit' = "ok"
      BY <1>8, CallUntouched DEF Return
    <2>2. QuestionInv' /\ StatusInv'
      BY <2>1 DEF RunInv, QuestionInv, StatusInv, verifyVars
    <2> QED
      BY <2>1, <2>2 DEF RunInv
  <1>9. CASE StatusReaderLeaves
    <2>1. VerifyInv' /\ AuthorityInv' /\ UNCHANGED <<verifyVars, run, step, exit, status>>
          /\ statusUp' = FALSE
      BY <1>9, CallUntouched DEF StatusReaderLeaves
    <2>2. QuestionInv' /\ StatusInv'
      BY <2>1 DEF RunInv, QuestionInv, StatusInv, verifyVars
    <2> QED
      BY <2>1, <2>2 DEF RunInv
  <1>10. CASE Kill
    <2>1. VerifyInv' /\ AuthorityInv' /\ UNCHANGED <<verifyVars, run, statusUp, status>>
          /\ exit = "running" /\ step' = "done" /\ exit' = "killed"
      BY <1>10, CallUntouched DEF Kill
    <2>2. status \in Trusting
      BY <2>1 DEF RunInv, StatusInv, Begun, Called, Trusting
    <2>3. QuestionInv' /\ StatusInv'
      BY <2>1, <2>2 DEF RunInv, QuestionInv, StatusInv, verifyVars
    <2> QED
      BY <2>1, <2>3 DEF RunInv
  <1>11. CASE UNCHANGED vars
    <2>1. VerifyInv' /\ AuthorityInv' /\ UNCHANGED <<verifyVars, run, step, exit, statusUp, status>>
      BY <1>11, CallUntouched DEF vars, verifyVars
    <2> QED
      BY <2>1 DEF RunInv, QuestionInv, StatusInv, verifyVars
  <1> QED
    BY <1>1, <1>2, <1>3, <1>4, <1>5, <1>6, <1>7, <1>8, <1>9, <1>10, <1>11
       DEF Next, Program

LEMMA RunInductive == Spec => []RunInv
  BY RunInitInv, RunNextInv, PTL DEF Spec

-----------------------------------------------------------------------------
(* What the status stream can read *)

\* The lines of a stream, as a set.
LEMMA LinesOfOne ==
  ASSUME NEW a PROVE Elements(<<a>>) = {a}
  BY DEF Elements

LEMMA LinesOfTwo ==
  ASSUME NEW a, NEW b PROVE Elements(<<a, b>>) = {a, b}
  BY DEF Elements

LEMMA LinesOfThree ==
  ASSUME NEW a, NEW b, NEW c PROVE Elements(<<a, b, c>>) = {a, b, c}
  BY DEF Elements

\* Every stream is one of these six.
LEMMA SixStreams ==
  ASSUME RunInv
  PROVE  /\ status \in Trusting \cup Refused
         /\ exit = "failed" => status \in Refused
  BY DEF RunInv, StatusInv, Before, Begun, Called, Trusting, Refused

\* The lines of each of the six.
LEMMA LinesRead ==
  /\ Elements(<<>>) = {}
  /\ Elements(<<"NEWSIG">>) = {"NEWSIG"}
  /\ Elements(<<"NEWSIG", "BADSIG">>) = {"NEWSIG", "BADSIG"}
  /\ Elements(<<"NEWSIG", "ERRSIG">>) = {"NEWSIG", "ERRSIG"}
  /\ Elements(<<"NEWSIG", "GOODSIG">>) = {"NEWSIG", "GOODSIG"}
  /\ Elements(<<"NEWSIG", "GOODSIG", "TRUST_FULLY">>) = {"NEWSIG", "GOODSIG", "TRUST_FULLY"}
  <1>1. Elements(<<>>) = {}
    BY DEF Elements
  <1> QED
    BY <1>1, LinesOfOne, LinesOfTwo, LinesOfThree

\* What the invariant says of a run at any moment.
LEMMA RunProperties ==
  ASSUME RunInv
  PROVE  RunTypeOK /\ CodesInOrder /\ ExitAgreesWithStatus /\ OwnSignatureTrusted
  <1>1. RunTypeOK
    <2>1. Lines \subseteq {"NEWSIG", "TRUST_FULLY"} \cup Codes
      BY SixStreams, LinesRead DEF Lines, Begun, Called, Trusting, Refused, Codes
    <2> QED
      BY <2>1 DEF RunInv, QuestionInv, RunTypeOK, Before
  <1>2. CodesInOrder
    <2>1. CASE status \in Trusting
      BY <2>1 DEF Begun, Called, Trusting, Codes, CodesInOrder
    <2>2. CASE status \in Refused
      BY <2>2 DEF Begun, Refused, Codes, CodesInOrder
    <2> QED
      BY <2>1, <2>2, SixStreams
  <1>3. ExitAgreesWithStatus
    <2>1. exit = "failed" => {"GOODSIG", "TRUST_FULLY"} \cap Lines = {}
      BY SixStreams, LinesRead DEF Lines, Begun, Refused
    <2> QED
      BY <2>1 DEF RunInv, StatusInv, ExitAgreesWithStatus
  <1>4. OwnSignatureTrusted
    <2> SUFFICES ASSUME result = "unknown authority" PROVE OwnSignatureTrusted
      BY DEF OwnSignatureTrusted
    <2>1. PICK si \in Elements(call.sd.signers) : Doubtful(call, si)
      BY DEF RunInv, AuthorityInv
    <2>2. call = Question(run)
      BY DEF RunInv, VerifyInv, TypeOK, QuestionInv
    <2>3. call.time = 0 /\ run.idents \subseteq call.roots
      BY <2>2 DEF Question
    <2> QED
      BY <2>1, <2>3 DEF Doubtful, OwnSignatureTrusted
  <1> QED
    BY <1>1, <1>2, <1>3, <1>4

-----------------------------------------------------------------------------
(* Theorems *)

\* Every run of --verify keeps the types, calls Verify once, and says and returns
\* nothing good without its success.
THEOREM RunTyping == Spec => []RunTypeOK
  BY RunInductive, RunProperties, PTL

\* The lines come in the order git reads them in.
THEOREM LinesInOrder == Spec => []CodesInOrder
  BY RunInductive, RunProperties, PTL

\* The exit code and the status lines agree.
THEOREM ExitTruthful == Spec => []ExitAgreesWithStatus
  BY RunInductive, RunProperties, PTL

\* A valid signature by one of the user's own certificates never lacks an authority.
THEOREM OwnTrusted == Spec => []OwnSignatureTrusted
  BY RunInductive, RunProperties, PTL

\* A call that ended well was about a genuine signature.
LEMMA OkIsGenuine ==
  ASSUME RunInv, pc = "done", result = "ok"
  PROVE  GenuineRun
  <1>1. call # NoCall /\ Genuine(call)
    BY VerdictOfInv DEF RunInv, VerifyInv, TypeOK, VerdictSound
  <1> QED
    BY <1>1 DEF RunInv, QuestionInv, GenuineRun

\* What git makes of the lines.
Code(lines) == IF Elements(lines) \cap Codes = {} THEN "none" ELSE lines[2]
Trusted(lines) == "TRUST_FULLY" \in Elements(lines)

\* What git makes of each of the six streams.
LEMMA GitReads ==
  /\ \A lines \in Begun : Code(lines) = "none" /\ Trusted(lines) = FALSE
  /\ \A line \in {"BADSIG", "ERRSIG", "GOODSIG"} :
       Code(<<"NEWSIG", line>>) = line /\ Trusted(<<"NEWSIG", line>>) = FALSE
  /\ Code(<<"NEWSIG", "GOODSIG", "TRUST_FULLY">>) = "GOODSIG"
  /\ Trusted(<<"NEWSIG", "GOODSIG", "TRUST_FULLY">>) = TRUE
  BY LinesRead, LinesOfTwo DEF Begun, Code, Trusted, Codes

\* Every step of a run is a step of VerifyPromise, or none.
LEMMA VerifyPromiseStep ==
  RunInv /\ RunInv' /\ [Next]_vars => [Promise!Next]_(Promise!vars)
  <1> SUFFICES ASSUME RunInv, RunInv', [Next]_vars
               PROVE  Promise!Next \/ UNCHANGED Promise!vars
    OBVIOUS
  <1> USE DEF At, Goto, Fail, Quiet, Before
  <1> DEFINE Fact == UNCHANGED GenuineRun
  <1>1. Fact
    <2>1. UNCHANGED run
      BY DEF Next, Program, vars, EmitNewSig, OpenSignature, ReadSignature, ReadError,
             OpenMessage, ReadMessage, CallVerify, Verifying, ownVars, EmitVerdict,
             EmitGoodSig, EmitTrustFully, Return, StatusReaderLeaves, Kill
    <2> QED
      BY <2>1 DEF GenuineRun
  <1>2. ASSUME UNCHANGED <<status, statusUp, exit>>
        PROVE  UNCHANGED Promise!vars
    BY <1>1, <1>2 DEF Promise!vars, Lines
  <1>3. ASSUME UNCHANGED <<status, statusUp>>, exit = "running", exit' \in {"failed", "killed"}
        PROVE  Promise!Next
    BY <1>1, <1>3 DEF Promise!Next, Promise!GiveUp, Lines
  <1>4. CASE EmitNewSig
    <2>1. status \in Begun /\ status' \in Begun /\ UNCHANGED <<statusUp, exit>>
      BY <1>4 DEF EmitNewSig, RunInv, StatusInv, Begun
    <2>2. Code(status') = Code(status) /\ Trusted(status') = Trusted(status)
      BY <2>1, GitReads
    <2> QED
      BY <1>1, <2>1, <2>2 DEF Promise!vars, Code, Trusted, Lines
  <1>5. CASE OpenSignature \/ ReadSignature \/ ReadError \/ OpenMessage \/ ReadMessage \/ Kill
    <2>1. UNCHANGED <<status, statusUp>> /\ exit = "running"
          /\ exit' \in {"running", "failed", "killed"}
      BY <1>5 DEF OpenSignature, ReadSignature, ReadError, OpenMessage, ReadMessage, Kill
    <2> QED
      BY <2>1, <1>2, <1>3
  <1>6. CASE CallVerify \/ Verifying \/ UNCHANGED vars
    BY <1>6, <1>2 DEF CallVerify, Verifying, ownVars, vars
  <1>7. CASE EmitVerdict
    <2>1. exit = "running" /\ exit' = "failed" /\ UNCHANGED statusUp
          /\ status \in Begun /\ (statusUp => status = <<"NEWSIG">>)
      BY <1>7 DEF EmitVerdict, RunInv, StatusInv
    <2>2. CASE ~statusUp
      BY <1>7, <2>1, <2>2, <1>3 DEF EmitVerdict, Emit
    <2>3. CASE statusUp
      <3>1. status' \in {<<"NEWSIG", "BADSIG">>, <<"NEWSIG", "ERRSIG">>}
        BY <1>7, <2>1, <2>3, SecondLine DEF EmitVerdict, Emit
      <3>2. /\ Code(status) = "none" /\ Code(status') \in {"BADSIG", "ERRSIG"}
            /\ Trusted(status') = Trusted(status)
        BY <2>1, <3>1, GitReads
      <3> QED
        BY <1>1, <2>1, <2>3, <3>2 DEF Promise!Next, Promise!Say, Code, Trusted, Lines
    <2> QED
      BY <2>2, <2>3
  <1>8. CASE EmitGoodSig
    <2>1. exit = "running" /\ UNCHANGED <<statusUp, exit>> /\ GenuineRun
          /\ (statusUp => status = <<"NEWSIG">>)
      BY <1>8, OkIsGenuine DEF EmitGoodSig, RunInv, StatusInv
    <2>2. CASE ~statusUp
      BY <1>8, <2>1, <2>2, <1>2 DEF EmitGoodSig, Emit
    <2>3. CASE statusUp
      <3>1. status' = <<"NEWSIG", "GOODSIG">> /\ status \in Begun
        BY <1>8, <2>1, <2>3, SecondLine DEF EmitGoodSig, Emit, Begun
      <3>2. /\ Code(status) = "none" /\ Code(status') = "GOODSIG"
            /\ Trusted(status') = Trusted(status)
        BY <3>1, GitReads
      <3> QED
        BY <1>1, <2>1, <2>3, <3>2 DEF Promise!Next, Promise!Say, Code, Trusted, Lines
    <2> QED
      BY <2>2, <2>3
  <1>9. CASE EmitTrustFully
    <2>1. exit = "running" /\ UNCHANGED <<statusUp, exit>>
          /\ (statusUp => status = <<"NEWSIG", "GOODSIG">>)
      BY <1>9 DEF EmitTrustFully, RunInv, StatusInv
    <2>2. CASE ~statusUp
      BY <1>9, <2>1, <2>2, <1>2 DEF EmitTrustFully, Emit
    <2>3. CASE statusUp
      <3>1. status' = <<"NEWSIG", "GOODSIG", "TRUST_FULLY">>
        BY <1>9, <2>1, <2>3, ThirdLine DEF EmitTrustFully, Emit
      <3>2. /\ Code(status) = "GOODSIG" /\ Code(status') = "GOODSIG"
            /\ Trusted(status') = TRUE
        BY <2>1, <2>3, <3>1, GitReads
      <3> QED
        BY <1>1, <2>1, <2>3, <3>2 DEF Promise!Next, Promise!Trust, Code, Trusted, Lines
    <2> QED
      BY <2>2, <2>3
  <1>10. CASE Return
    <2>1. exit = "running" /\ exit' = "ok" /\ UNCHANGED <<status, statusUp>> /\ GenuineRun
          /\ (statusUp => status = <<"NEWSIG", "GOODSIG", "TRUST_FULLY">>)
      BY <1>10, OkIsGenuine DEF Return, RunInv, StatusInv, QuestionInv
    <2>2. Trusted(status) \/ ~statusUp
      BY <2>1, GitReads
    <2> QED
      BY <1>1, <2>1, <2>2 DEF Promise!Next, Promise!Succeed, Trusted, Lines
  <1>11. CASE StatusReaderLeaves
    BY <1>1, <1>11 DEF StatusReaderLeaves, Promise!Next, Promise!FallSilent, Lines
  <1> QED
    BY <1>4, <1>5, <1>6, <1>7, <1>8, <1>9, <1>10, <1>11 DEF Next, Program

\* Every run of --verify is a run of VerifyPromise.
THEOREM VerifyImplementation == Spec => KeepsPromise
  <1>1. Init => Promise!Init
    <2> SUFFICES ASSUME Init PROVE Promise!Init
      OBVIOUS
    <2>1. status \in Begun /\ exit = "running" /\ statusUp \in BOOLEAN /\ RunInv
      BY RunInitInv DEF Init, Begun, RunInv
    <2>2. Code(status) = "none" /\ Trusted(status) = FALSE
      BY <2>1, GitReads
    <2>3. GenuineRun \in BOOLEAN
      BY DEF GenuineRun
    <2> QED
      BY <2>1, <2>2, <2>3 DEF Promise!Init, Code, Trusted, Lines
  <1> QED
    BY <1>1, VerifyPromiseStep, RunInductive, PTL DEF Spec, KeepsPromise, Promise!Spec
=============================================================================
