------------------------- MODULE CommandSignProofs -------------------------
(***************************************************************************)
(* Theorems about CommandSign, for every set of options, messages, nonces, *)
(* key versions and every bound.                                           *)
(***************************************************************************)
EXTENDS CommandSign, SequenceTheorems, WellFoundedInduction, TLAPS

-----------------------------------------------------------------------------
(* What the operators of SignedData return *)

\* A failed or prepared sd.Sign has changed nothing but the certificates.
LEMMA PrepareKeeps ==
  ASSUME NEW s, NEW chain, NEW pub
  PROVE  PrepareSigner(s, chain, pub).sd
           = [s EXCEPT !.certs = AddCertificates(s.certs, Walked(chain)).certs]
  BY DEF PrepareSigner

\* The object is prepared for a signature only while it has content.
LEMMA PrepareHasContent ==
  ASSUME NEW s, NEW chain, NEW pub, PrepareSigner(s, chain, pub).err = "none"
  PROVE  s.content # NoContent
  BY DEF PrepareSigner

\* A leaf certificate has the fields the model uses, with their types.
LEMMA LeafType ==
  ASSUME opts \in Options
  PROVE  /\ Leaf.issuer \in STRING /\ Leaf.serial \in Nat /\ Leaf.key \in Versions
         /\ opts.detach \in BOOLEAN /\ opts.tsa \in BOOLEAN /\ opts.statusFd \in BOOLEAN
         /\ opts.version \in {Latest} \cup Versions
  <1> DEFINE C == [subject : STRING, issuer : STRING, serial : Nat, aia : BOOLEAN,
                   key : Versions, alg : {"RSA"}]
  <1>1. opts.chain # <<>> /\ opts.chain \in Seq(C)
    BY OptionsAssumption
  <1>2. Leaf \in C
    <2> HIDE DEF C
    <2>1. Len(opts.chain) \in Nat \ {0}
      BY <1>1, EmptySeq
    <2>2. 1 \in 1 .. Len(opts.chain)
      BY <2>1
    <2> QED
      BY <1>1, <2>2, ElementOfSeq DEF Leaf
  <1>3. QED
    BY <1>2, OptionsAssumption

\* Attaching a token to the only signer appends it to that signer's tokens.
LEMMA AttachOne ==
  ASSUME NEW signers \in Seq(SignerInfos), Len(signers) = 1,
         NEW content, NEW certs, NEW token \in Token
  PROVE  LET new == AttachTokens([content |-> content, certs |-> certs,
                                  signers |-> signers], <<token>>)
         IN /\ new = [content |-> content, certs |-> certs, signers |-> new.signers]
            /\ new.signers \in Seq(SignerInfos) /\ Len(new.signers) = 1
            /\ new.signers[1].sid = signers[1].sid
            /\ new.signers[1].sig = signers[1].sig
            /\ new.signers[1].attrs = signers[1].attrs
            /\ new.signers[1].tokens = Append(signers[1].tokens, token)
  <1> DEFINE si == [signers[1] EXCEPT !.tokens = Append(@, token)]
  <1>1. signers[1] \in SignerInfos /\ DOMAIN signers = 1 .. 1
    BY LenProperties, ElementOfSeq
  <1>2. signers[1].tokens \in Seq(Token)
    BY <1>1 DEF SignerInfos
  <1>3. Append(signers[1].tokens, token) \in Seq(Token)
    BY <1>2, AppendProperties
  <1>4. si \in SignerInfos
    BY <1>1, <1>3 DEF SignerInfos
  <1>5. si.sid = signers[1].sid /\ si.sig = signers[1].sig
        /\ si.attrs = signers[1].attrs /\ si.tokens = Append(signers[1].tokens, token)
    BY <1>1 DEF SignerInfos
  <1> DEFINE new == [k \in DOMAIN signers |->
                       [signers[k] EXCEPT !.tokens = Append(@, <<token>>[k])]]
  <1>6. new[1] = si
    <2>1. 1 \in DOMAIN signers /\ <<token>>[1] = token
      BY <1>1
    <2> QED
      BY <2>1, Zenon
  <1> DEFINE old == [content |-> content, certs |-> certs, signers |-> signers]
  <1>7. AttachTokens(old, <<token>>) = [content |-> content, certs |-> certs, signers |-> new]
    <2>1. old.signers = signers
      OBVIOUS
    <2>2. AttachTokens(old, <<token>>) = [old EXCEPT !.signers = new]
      BY <2>1, Zenon DEF AttachTokens
    <2> HIDE DEF new
    <2> QED
      BY <2>2
  <1>8. new \in [1 .. 1 -> SignerInfos]
    <2> HIDE DEF si
    <2>1. \A k \in 1 .. 1 : new[k] = si
      BY <1>6
    <2>2. new = [k \in 1 .. 1 |-> new[k]]
      BY <1>1
    <2> QED
      BY <2>1, <2>2, <1>4
  <1> HIDE DEF si, new
  <1>9. new \in Seq(SignerInfos)
    BY <1>8, SeqDef
  <1>10. Len(new) = 1
    BY <1>8, <1>9, LenProperties
  <1> QED
    BY <1>5, <1>6, <1>7, <1>9, <1>10

-----------------------------------------------------------------------------
(* Type correctness *)

\* The types hold at first.
LEMMA InitTypeOK == Init => TypeOK
  <1> SUFFICES ASSUME Init PROVE TypeOK
    OBVIOUS
  <1>1. opts.statusFd \in BOOLEAN /\ opts \in Options
    BY LeafType DEF Init
  <1>2. sd = [content |-> NoContent, certs |-> <<>>, signers |-> <<>>]
    BY DEF Init, NewSignedData
  <1>3. /\ sd = [content |-> sd.content, certs |-> sd.certs, signers |-> sd.signers]
        /\ sd.content = NoContent /\ sd.signers \in Seq(SignerInfos)
    BY <1>2
  <1>4. status \in Seq(Line) /\ tries \in 0 .. MaxTries /\ sent \in 0 .. Chunks
    BY BoundsAssumption DEF Init
  <1> QED
    BY <1>1, <1>3, <1>4 DEF Init, TypeOK, Answers

\* Every step keeps the types.
LEMMA NextTypeOK == TypeOK /\ StageInv /\ [Next]_vars => TypeOK'
  <1> SUFFICES ASSUME TypeOK, StageInv, [Next]_vars PROVE TypeOK'
    OBVIOUS
  <1> USE DEF TypeOK, runVars, vaultVars, tsaVars, outputVars, At, Goto, Fail, Emit
  <1>1. CASE IdentityNotFound
    BY <1>1 DEF IdentityNotFound
  <1>2. CASE BeginSigning
    BY <1>2, AppendProperties DEF BeginSigning, Line
  <1>3. CASE GetSigner
    BY <1>3 DEF GetSigner
  <1>4. CASE SignerError
    BY <1>4 DEF SignerError
  <1>5. CASE ReadMessage
    BY <1>5 DEF ReadMessage, NewSignedData
  <1>6. CASE ReadError
    BY <1>6 DEF ReadError
  <1>7. CASE RequestSignature
    <2>1. sd'.content = sd.content /\ sd'.signers = sd.signers
          /\ sd' = [content |-> sd'.content, certs |-> sd'.certs, signers |-> sd'.signers]
      <3>1. sd' = PrepareSigner(sd, <<Leaf>>, Leaf.key).sd
        BY <1>7 DEF RequestSignature
      <3> DEFINE c == AddCertificates(sd.certs, Walked(<<Leaf>>)).certs
      <3>2. sd' = [sd EXCEPT !.certs = c]
        BY ONLY <3>1, PrepareKeeps
      <3> HIDE DEF c
      <3>3. sd = [content |-> sd.content, certs |-> sd.certs, signers |-> sd.signers]
        OBVIOUS
      <3> QED
        BY <3>2, <3>3
    <2>2. tries' \in 0 .. MaxTries
      BY <1>7, BoundsAssumption DEF RequestSignature
    <2> QED
      BY <1>7, <2>1, <2>2 DEF RequestSignature
  <1>8. CASE AddSignerInfo
    <2> DEFINE si == [sid |-> SID(Leaf), attrs |-> SignedAttrs(sd.content),
                      sig |-> answer.sig, tokens |-> <<>>]
    <2>1. si \in SignerInfos
      <3>1. answer.sig \in Signature
        BY <1>8 DEF AddSignerInfo, Answers, NoAnswer, Refused, Empty, Lost, Signed
      <3>2. sd.content \in Message
        BY <1>8 DEF AddSignerInfo, StageInv, SignerStage
      <3> QED
        BY <3>1, <3>2, LeafType DEF SignerInfos, SID, SignedAttrs
    <2>2. sd' = [content |-> sd.content, certs |-> sd.certs,
                 signers |-> Append(sd.signers, si)]
      BY <1>8 DEF AddSignerInfo, AddSigner
    <2>3. Append(sd.signers, si) \in Seq(SignerInfos)
      <3> HIDE DEF si
      <3> QED
        BY <2>1, AppendProperties
    <2> HIDE DEF si
    <2> QED
      BY <1>8, <2>2, <2>3 DEF AddSignerInfo, Answers
  <1>9. CASE VaultError
    BY <1>9 DEF VaultError
  <1>10. CASE Retry
    BY <1>10, BoundsAssumption DEF Retry, Answers
  <1>11. CASE Seal
    BY <1>11 DEF Seal, Detached
  <1>12. CASE RequestTimestamp
    <2>1. sd.signers[1].sig \in Signature
      <3>1. sd.signers[1] \in SignerInfos
        BY <1>12, ElementOfSeq DEF RequestTimestamp, StageInv, SignerStage, SignerDone
      <3> QED
        BY <3>1 DEF SignerInfos
    <2> QED
      BY <1>12, <2>1 DEF RequestTimestamp, Requests
  <1>13. CASE AddTimestamp
    <2>1. reply.token \in Token
      BY <1>13 DEF AddTimestamp, NoReply, Replies
    <2>2. Len(sd.signers) = 1
      BY <1>13 DEF AddTimestamp, StageInv, SignerStage, SignerDone
    <2>3. /\ sd' = [content |-> sd.content, certs |-> sd.certs, signers |-> sd'.signers]
          /\ sd'.signers \in Seq(SignerInfos)
      BY <1>13, <2>1, <2>2, AttachOne DEF AddTimestamp
    <2> QED
      BY <1>13, <2>3 DEF AddTimestamp
  <1>14. CASE TimestampError
    BY <1>14 DEF TimestampError
  <1>15. CASE TimestampPanic
    BY <1>15 DEF TimestampPanic
  <1>16. CASE IncludeCertificates
    BY <1>16 DEF IncludeCertificates, SetCertificates
  <1>17. CASE ChainError
    BY <1>17 DEF ChainError
  <1>18. CASE EmitSigCreated
    BY <1>18, AppendProperties DEF EmitSigCreated, Line
  <1>19. CASE WriteChunk
    BY <1>19, BoundsAssumption DEF WriteChunk
  <1>20. CASE WriteError
    BY <1>20 DEF WriteError
  <1>21. CASE Return
    BY <1>21 DEF Return
  <1>22. CASE VaultTimeout
    BY <1>22 DEF VaultTimeout
  <1>23. CASE VaultSigns
    <2> DEFINE sig == [key |-> Resolve(opts.version), over |-> SignedAttrs(message)]
    <2>1. sig \in Signature
      <3>1. message \in Message
        BY <1>23 DEF VaultSigns, StageInv, VaultStage
      <3>2. Resolve(opts.version) \in Versions
        BY LeafType DEF Resolve, Latest
      <3> QED
        BY <3>1, <3>2 DEF Signature, SignedAttrs
    <2>2. produced' \subseteq Signature /\ answer' \in Answers
      BY <1>23, <2>1 DEF VaultSigns, Answers
    <2>3. /\ inVault' \in BOOLEAN
          /\ UNCHANGED <<pc, exit, runVars, latest, tries, tsaVars, outputVars>>
      BY <1>23 DEF VaultSigns
    <2> QED
      BY <2>2, <2>3
  <1>24. CASE VaultFails
    <2>1. answer' \in Answers
      BY <1>24 DEF VaultFails, Answers
    <2>2. /\ inVault' \in BOOLEAN
          /\ UNCHANGED <<pc, exit, runVars, latest, tries, produced, tsaVars, outputVars>>
      BY <1>24 DEF VaultFails
    <2> QED
      BY <2>1, <2>2
  <1>25. CASE RotateKey
    BY <1>25, BoundsAssumption DEF RotateKey, Versions
  <1>26. CASE TSAReplies
    BY <1>26 DEF TSAReplies
  <1>27. CASE TSAUnreachable
    BY <1>27 DEF TSAUnreachable
  <1>28. CASE StatusReaderLeaves
    <2>1. /\ statusUp' \in BOOLEAN
          /\ UNCHANGED <<pc, exit, runVars, vaultVars, tsaVars, status, sent>>
      BY <1>28 DEF StatusReaderLeaves
    <2> QED
      BY <2>1
  <1>29. CASE Kill
    BY <1>29 DEF Kill
  <1>30. CASE UNCHANGED vars
    BY <1>30 DEF vars
  <1>31. QED
    BY <1>1, <1>2, <1>3, <1>4, <1>5, <1>6, <1>7, <1>8, <1>9, <1>10, <1>11, <1>12,
       <1>13, <1>14, <1>15, <1>16, <1>17, <1>18, <1>19, <1>20, <1>21, <1>22, <1>23,
       <1>24, <1>25, <1>26, <1>27, <1>28, <1>29, <1>30 DEF Next, Program, Environment
-----------------------------------------------------------------------------
(* What the steps that change the SignedData do to it *)

\* What each of these steps makes of the object.
LEMMA ReadMessageEffect ==
  ASSUME ReadMessage
  PROVE  message' \in Message /\ sd'.content = message' /\ sd'.signers = <<>>
  BY DEF ReadMessage, NewSignedData

LEMMA RequestSignatureEffect ==
  ASSUME TypeOK, RequestSignature
  PROVE  sd'.content = sd.content /\ sd'.signers = sd.signers
  <1> DEFINE c == AddCertificates(sd.certs, Walked(<<Leaf>>)).certs
  <1>1. sd' = PrepareSigner(sd, <<Leaf>>, Leaf.key).sd
    BY DEF RequestSignature
  <1>2. sd' = [sd EXCEPT !.certs = c]
    BY ONLY <1>1, PrepareKeeps
  <1>3. sd = [content |-> sd.content, certs |-> sd.certs, signers |-> sd.signers]
    BY DEF TypeOK
  <1> HIDE DEF c
  <1> QED
    BY <1>2, <1>3

LEMMA AddSignerInfoEffect ==
  ASSUME TypeOK, StageInv, AddSignerInfo
  PROVE  /\ sd'.content = sd.content
         /\ Len(sd'.signers) = 1 /\ DOMAIN sd'.signers = 1 .. 1
         /\ sd'.signers[1].sig = answer.sig
         /\ sd'.signers[1].attrs = SignedAttrs(message)
         /\ sd'.signers[1].tokens = <<>>
  <1> DEFINE si == [sid |-> SID(Leaf), attrs |-> SignedAttrs(sd.content),
                    sig |-> answer.sig, tokens |-> <<>>]
  <1>1. sd.signers = <<>> /\ sd.content = message
    BY DEF AddSignerInfo, At, StageInv, SignerStage
  <1>2. sd = [content |-> sd.content, certs |-> sd.certs, signers |-> sd.signers]
    BY DEF TypeOK
  <1>3. sd' = [content |-> sd.content, certs |-> sd.certs,
               signers |-> Append(sd.signers, si)]
    BY <1>2 DEF AddSignerInfo, AddSigner
  <1>4. si.sig = answer.sig /\ si.attrs = SignedAttrs(message) /\ si.tokens = <<>>
    BY <1>1
  <1> HIDE DEF si
  <1>5. sd'.signers = <<si>> /\ sd'.content = sd.content
    BY <1>1, <1>3
  <1> QED
    BY <1>4, <1>5

LEMMA SealEffect ==
  ASSUME TypeOK, Seal
  PROVE  /\ sd'.signers = sd.signers
         /\ sd'.content = IF opts.detach THEN NoContent ELSE sd.content
  BY DEF TypeOK, Seal, Detached

LEMMA AddTimestampEffect ==
  ASSUME TypeOK, StageInv, AddTimestamp
  PROVE  /\ sd'.content = sd.content
         /\ Len(sd'.signers) = 1 /\ DOMAIN sd'.signers = 1 .. 1
         /\ sd'.signers[1].sig = sd.signers[1].sig
         /\ sd'.signers[1].attrs = sd.signers[1].attrs
         /\ sd'.signers[1].tokens = <<reply.token>>
         /\ 1 \in DOMAIN sd.signers /\ sd.signers # <<>>
  <1>1. reply.token \in Token
    BY DEF AddTimestamp, TypeOK, NoReply, Replies
  <1>2. Len(sd.signers) = 1 /\ sd.signers \in Seq(SignerInfos)
        /\ sd = [content |-> sd.content, certs |-> sd.certs, signers |-> sd.signers]
        /\ sd.signers[1].tokens = <<>>
    BY DEF AddTimestamp, At, TypeOK, StageInv, SignerStage, SignerDone
  <1>3. sd' = AttachTokens(sd, <<reply.token>>)
    BY DEF AddTimestamp
  <1>4. /\ sd' = [content |-> sd.content, certs |-> sd.certs, signers |-> sd'.signers]
        /\ sd'.signers \in Seq(SignerInfos) /\ Len(sd'.signers) = 1
        /\ sd'.signers[1].sig = sd.signers[1].sig
        /\ sd'.signers[1].attrs = sd.signers[1].attrs
        /\ sd'.signers[1].tokens = Append(sd.signers[1].tokens, reply.token)
    BY <1>1, <1>2, <1>3, AttachOne
  <1>5. DOMAIN sd'.signers = 1 .. 1
    BY <1>4, LenProperties
  <1>6. Append(sd.signers[1].tokens, reply.token) = <<reply.token>>
    BY <1>2
  <1>7. 1 \in DOMAIN sd.signers /\ sd.signers # <<>>
    BY <1>2, LenProperties
  <1> QED
    BY <1>4, <1>5, <1>6, <1>7

LEMMA IncludeCertificatesEffect ==
  ASSUME TypeOK, IncludeCertificates
  PROVE  sd'.content = sd.content /\ sd'.signers = sd.signers
  <1> DEFINE set == SetCertificates(sd, CertsForSignature(opts.include, opts.chain))
             c == AddCertificates(<<>>, CertsForSignature(opts.include, opts.chain)).certs
  <1>1. sd' = set.sd
    BY DEF IncludeCertificates
  <1>2. set.sd = [sd EXCEPT !.certs = c]
    BY DEF SetCertificates
  <1>3. sd = [content |-> sd.content, certs |-> sd.certs, signers |-> sd.signers]
    BY DEF TypeOK
  <1> HIDE DEF c, set
  <1> QED
    BY <1>1, <1>2, <1>3

-----------------------------------------------------------------------------
(* The certificates of a message *)

\* Numbers have a least one: the induction over a list goes by its first
\* counterexample.
LEMMA Least ==
  ASSUME NEW T \in SUBSET Nat, T # {}
  PROVE  \E x \in T : \A y \in T : x <= y
  <1> DEFINE R == OpToRel(<, Nat)
  <1>1. \A x, y \in Nat : x < y => <<x, y>> \in R
    BY DEF OpToRel
  <1>2. IsWellFoundedOn(R, Nat)
    BY NatLessThanWellFounded
  <1> HIDE DEF R
  <1>3. PICK x \in T : \A y \in T : <<y, x>> \notin R
    BY <1>2, WFMin
  <1>4. ASSUME NEW y \in T
        PROVE  x <= y
    <2>1. x \in Nat /\ y \in Nat
      OBVIOUS
    <2>2. ~(y < x)
      BY <1>1, <1>3, <2>1
    <2> QED
      BY <2>1, <2>2
  <1> QED
    BY <1>4

\* Certificates added to an empty object without an error are there, in order.
LEMMA AddedInOrder ==
  ASSUME NEW chain, Len(chain) \in Nat, AddCertificates(<<>>, chain).ok
  PROVE  AddCertificates(<<>>, chain).certs = [k \in 1 .. Len(chain) |-> Der(chain[k])]
  <1> DEFINE all == [k \in 1 .. Len(chain) + 1 - 1 |-> Der(chain[k])]
             D == {Der(chain[k]) : k \in 1 .. Len(chain)}
  <1>1. AddCertificates(<<>>, chain).certs = <<>> \o all
    BY DEF AddCertificates
  <1>2. all = [k \in 1 .. Len(chain) |-> Der(chain[k])]
    OBVIOUS
  <1>3. all \in Seq(D)
    <2>1. all \in [1 .. Len(chain) -> D]
      BY <1>2
    <2> QED
      BY <2>1, SeqDef
  <1> HIDE DEF all
  <1>4. <<>> \o all = all
    BY <1>3, ConcatEmptySeq
  <1> QED
    BY <1>1, <1>2, <1>4

\* What --include-certs selects is a list of the chain's certificates.
LEMMA SelectionType ==
  ASSUME NEW C, NEW include \in Int, NEW chain \in Seq(C)
  PROVE  CertsForSignature(include, chain) \in Seq(C)
  <1>1. ASSUME NEW c \in Seq(C), NEW n \in 0 .. Len(c)
        PROVE  Keep(c, n) \in Seq(C)
    BY <1>1 DEF Keep
  <1>2. ASSUME NEW c \in Seq(C)
        PROVE  ChainWithoutRoot(c) \in Seq(C)
    BY <1>1, <1>2 DEF ChainWithoutRoot
  <1>3. OmitIssuers(chain) \in Seq(C)
    <2>0. Len(chain) \in Nat
      OBVIOUS
    <2> DEFINE cuts == {i \in 1 .. Len(chain) - 1 : IssuerFetchable(chain, i)}
               cut == CHOOSE i \in cuts : \A j \in cuts : i <= j
    <2>1. cuts # {} => cut \in cuts
      <3>1. cuts \in SUBSET Nat
        OBVIOUS
      <3> HIDE DEF cuts
      <3> QED
        BY <3>1, Least
    <2>2. cuts # {} => cut \in 0 .. Len(chain)
      <3>1. cuts \subseteq 0 .. Len(chain)
        BY <2>0
      <3> HIDE DEF cuts, cut
      <3> QED
        BY <2>1, <3>1
    <2>3. OmitIssuers(chain) = IF cuts = {} THEN chain ELSE Keep(chain, cut)
      BY Zenon DEF OmitIssuers
    <2> HIDE DEF cut
    <2>4. CASE cuts = {}
      BY <2>3, <2>4
    <2>5. CASE cuts # {}
      <3>1. Keep(chain, cut) \in Seq(C)
        BY <1>1, <2>2, <2>5
      <3> QED
        BY <2>3, <2>5, <3>1
    <2> QED
      BY <2>4, <2>5
  <1>4. CASE EffectiveInclude(include, chain) \in {-3, -2, -1}
    BY <1>2, <1>3, <1>4 DEF CertsForSignature
  <1>5. CASE EffectiveInclude(include, chain) \notin {-3, -2, -1}
    <2>1. EffectiveInclude(include, chain) \in 0 .. Len(chain)
      BY <1>5 DEF EffectiveInclude
    <2> QED
      BY <1>1, <1>5, <2>1 DEF CertsForSignature
  <1> QED
    BY <1>4, <1>5

\* SetCertificates without an error leaves the selection, and nothing else.
LEMMA SelectionIncluded ==
  ASSUME TypeOK, IncludeCertificates, pc' = "announce"
  PROVE  LET bundle == CertsForSignature(opts.include, opts.chain)
         IN sd'.certs = [k \in DOMAIN bundle |-> Der(bundle[k])]
  <1> DEFINE bundle == CertsForSignature(opts.include, opts.chain)
             adding == AddCertificates(<<>>, bundle)
             C == [subject : STRING, issuer : STRING, serial : Nat, aia : BOOLEAN,
                   key : Versions, alg : {"RSA"}]
  <1>1. opts.include \in Int /\ opts.chain \in Seq(C)
    BY OptionsAssumption DEF TypeOK
  <1>2. bundle \in Seq(C)
    <2> HIDE DEF C
    <2> QED
      BY <1>1, SelectionType
  <1>3. Len(bundle) \in Nat /\ DOMAIN bundle = 1 .. Len(bundle)
    <2> HIDE DEF C, bundle
    <2> QED
      BY <1>2, LenProperties
  <1> HIDE DEF bundle
  <1>4. sd' = [sd EXCEPT !.certs = adding.certs] /\ adding.ok
    <2> DEFINE set == SetCertificates(sd, bundle)
    <2>1. sd' = set.sd /\ (set.ok \/ pc' = "done")
      BY DEF IncludeCertificates, Fail, bundle
    <2>2. set.sd = [sd EXCEPT !.certs = adding.certs] /\ set.ok = adding.ok
      BY DEF SetCertificates
    <2> HIDE DEF set, adding
    <2> QED
      BY <2>1, <2>2
  <1>5. sd'.certs = adding.certs
    BY <1>4 DEF TypeOK
  <1> QED
    BY <1>3, <1>4, <1>5, AddedInOrder DEF bundle

-----------------------------------------------------------------------------
(* The stages of a run *)

\* SIG_CREATED has arrived exactly when both lines have.
LEMMA AnnouncedIff ==
  ASSUME LinesInOrder
  PROVE  Announced <=> status = <<"BEGIN_SIGNING", "SIG_CREATED">>
  BY DEF LinesInOrder, Announced

\* What a run has of its signer at each stage.
LEMMA NextSignerStage == TypeOK /\ StageInv /\ [Next]_vars => SignerStage'
  <1> SUFFICES ASSUME TypeOK, StageInv, [Next]_vars PROVE SignerStage'
    OBVIOUS
  <1> USE DEF StageInv, TypeOK, SignerStage, SignerDone, runVars, vaultVars, tsaVars, outputVars, At, Goto, Fail, Emit
  <1>1. CASE IdentityNotFound
    BY <1>1 DEF IdentityNotFound
  <1>2. CASE BeginSigning
    BY <1>2 DEF BeginSigning
  <1>3. CASE GetSigner
    BY <1>3 DEF GetSigner
  <1>4. CASE SignerError
    BY <1>4 DEF SignerError
  <1>5. CASE ReadMessage
    BY <1>5, ReadMessageEffect DEF ReadMessage
  <1>6. CASE ReadError
    BY <1>6 DEF ReadError
  <1>7. CASE RequestSignature
    BY <1>7, RequestSignatureEffect DEF RequestSignature
  <1>8. CASE AddSignerInfo
    BY <1>8, AddSignerInfoEffect DEF AddSignerInfo, VaultStage
  <1>9. CASE VaultError
    BY <1>9 DEF VaultError
  <1>10. CASE Retry
    BY <1>10 DEF Retry
  <1>11. CASE Seal
    BY <1>11, SealEffect DEF Seal
  <1>12. CASE RequestTimestamp
    <2>1. request' \in Requests
      BY <1>12, NextTypeOK DEF RequestTimestamp, NoRequest
    <2> QED
      BY <1>12, <2>1 DEF RequestTimestamp
  <1>13. CASE AddTimestamp
    BY <1>13, AddTimestampEffect DEF AddTimestamp
  <1>14. CASE TimestampError
    BY <1>14 DEF TimestampError
  <1>15. CASE TimestampPanic
    BY <1>15 DEF TimestampPanic
  <1>16. CASE IncludeCertificates
    BY <1>16, IncludeCertificatesEffect DEF IncludeCertificates
  <1>17. CASE ChainError
    BY <1>17 DEF ChainError
  <1>18. CASE EmitSigCreated
    BY <1>18 DEF EmitSigCreated
  <1>19. CASE WriteChunk
    BY <1>19 DEF WriteChunk
  <1>20. CASE WriteError
    BY <1>20 DEF WriteError
  <1>21. CASE Return
    BY <1>21 DEF Return
  <1>22. CASE VaultTimeout
    BY <1>22 DEF VaultTimeout
  <1>23. CASE VaultSigns
    BY <1>23 DEF VaultSigns
  <1>24. CASE VaultFails
    BY <1>24 DEF VaultFails
  <1>25. CASE RotateKey
    BY <1>25 DEF RotateKey
  <1>26. CASE TSAReplies
    BY <1>26 DEF TSAReplies
  <1>27. CASE TSAUnreachable
    BY <1>27 DEF TSAUnreachable
  <1>28. CASE StatusReaderLeaves
    BY <1>28 DEF StatusReaderLeaves
  <1>29. CASE Kill
    BY <1>29 DEF Kill
  <1>30. CASE UNCHANGED vars
    BY <1>30 DEF vars
  <1>31. QED
    BY <1>1, <1>2, <1>3, <1>4, <1>5, <1>6, <1>7, <1>8, <1>9, <1>10, <1>11, <1>12, <1>13, <1>14, <1>15, <1>16, <1>17, <1>18, <1>19, <1>20, <1>21, <1>22, <1>23, <1>24, <1>25, <1>26, <1>27, <1>28, <1>29, <1>30 DEF Next, Program, Environment

\* What is under way between the process and the vault.
LEMMA NextVaultStage == TypeOK /\ StageInv /\ [Next]_vars => VaultStage'
  <1> SUFFICES ASSUME TypeOK, StageInv, [Next]_vars PROVE VaultStage'
    OBVIOUS
  <1> USE DEF StageInv, VaultStage, runVars, vaultVars, tsaVars, outputVars, At, Goto, Fail, Emit
  <1>1. CASE IdentityNotFound
    BY <1>1 DEF IdentityNotFound
  <1>2. CASE BeginSigning
    BY <1>2 DEF BeginSigning
  <1>3. CASE GetSigner
    BY <1>3 DEF GetSigner
  <1>4. CASE SignerError
    BY <1>4 DEF SignerError
  <1>5. CASE ReadMessage
    BY <1>5, ReadMessageEffect DEF ReadMessage, SignerStage, NoAnswer
  <1>6. CASE ReadError
    BY <1>6 DEF ReadError
  <1>7. CASE RequestSignature
    <2>1. sd.signers = <<>> /\ message \in Message
      BY <1>7 DEF RequestSignature, SignerStage
    <2>2. sd'.signers = sd.signers /\ UNCHANGED <<opts, message, answer, produced>>
      BY <1>7, RequestSignatureEffect DEF RequestSignature
    <2> QED
      BY <2>1, <2>2
  <1>8. CASE AddSignerInfo
    BY <1>8, AddSignerInfoEffect DEF AddSignerInfo, NoAnswer
  <1>9. CASE VaultError
    BY <1>9 DEF VaultError
  <1>10. CASE Retry
    BY <1>10 DEF Retry, SignerStage, NoAnswer
  <1>11. CASE Seal
    BY <1>11, SealEffect DEF Seal
  <1>12. CASE RequestTimestamp
    BY <1>12 DEF RequestTimestamp
  <1>13. CASE AddTimestamp
    BY <1>13, AddTimestampEffect DEF AddTimestamp
  <1>14. CASE TimestampError
    BY <1>14 DEF TimestampError
  <1>15. CASE TimestampPanic
    BY <1>15 DEF TimestampPanic
  <1>16. CASE IncludeCertificates
    BY <1>16, IncludeCertificatesEffect DEF IncludeCertificates
  <1>17. CASE ChainError
    BY <1>17 DEF ChainError
  <1>18. CASE EmitSigCreated
    BY <1>18 DEF EmitSigCreated
  <1>19. CASE WriteChunk
    BY <1>19 DEF WriteChunk
  <1>20. CASE WriteError
    BY <1>20 DEF WriteError
  <1>21. CASE Return
    BY <1>21 DEF Return
  <1>22. CASE VaultTimeout
    BY <1>22 DEF VaultTimeout
  <1>23. CASE VaultSigns
    BY <1>23 DEF VaultSigns, Signed, Lost, Resolve
  <1>24. CASE VaultFails
    BY <1>24 DEF VaultFails, Refused, Empty, Lost
  <1>25. CASE RotateKey
    BY <1>25 DEF RotateKey
  <1>26. CASE TSAReplies
    BY <1>26 DEF TSAReplies
  <1>27. CASE TSAUnreachable
    BY <1>27 DEF TSAUnreachable
  <1>28. CASE StatusReaderLeaves
    BY <1>28 DEF StatusReaderLeaves
  <1>29. CASE Kill
    BY <1>29 DEF Kill
  <1>30. CASE UNCHANGED vars
    BY <1>30 DEF vars
  <1>31. QED
    BY <1>1, <1>2, <1>3, <1>4, <1>5, <1>6, <1>7, <1>8, <1>9, <1>10, <1>11, <1>12, <1>13, <1>14, <1>15, <1>16, <1>17, <1>18, <1>19, <1>20, <1>21, <1>22, <1>23, <1>24, <1>25, <1>26, <1>27, <1>28, <1>29, <1>30 DEF Next, Program, Environment

\* What has been said and written.
LEMMA NextOutputStage == TypeOK /\ StageInv /\ [Next]_vars => OutputStage'
  <1> SUFFICES ASSUME TypeOK, StageInv, [Next]_vars PROVE OutputStage'
    OBVIOUS
  <1> USE DEF StageInv, OutputStage, LinesInOrder, runVars, vaultVars, tsaVars, outputVars, At, Goto, Fail, Emit
  <1>1. CASE IdentityNotFound
    BY <1>1 DEF IdentityNotFound
  <1>2. CASE BeginSigning
    BY <1>2 DEF BeginSigning
  <1>3. CASE GetSigner
    BY <1>3 DEF GetSigner
  <1>4. CASE SignerError
    BY <1>4 DEF SignerError
  <1>5. CASE ReadMessage
    BY <1>5, ReadMessageEffect DEF ReadMessage
  <1>6. CASE ReadError
    BY <1>6 DEF ReadError
  <1>7. CASE RequestSignature
    BY <1>7, RequestSignatureEffect DEF RequestSignature
  <1>8. CASE AddSignerInfo
    BY <1>8, AddSignerInfoEffect DEF AddSignerInfo
  <1>9. CASE VaultError
    BY <1>9 DEF VaultError
  <1>10. CASE Retry
    BY <1>10 DEF Retry
  <1>11. CASE Seal
    BY <1>11, SealEffect DEF Seal
  <1>12. CASE RequestTimestamp
    BY <1>12 DEF RequestTimestamp
  <1>13. CASE AddTimestamp
    BY <1>13, AddTimestampEffect DEF AddTimestamp
  <1>14. CASE TimestampError
    BY <1>14 DEF TimestampError
  <1>15. CASE TimestampPanic
    BY <1>15 DEF TimestampPanic
  <1>16. CASE IncludeCertificates
    BY <1>16, IncludeCertificatesEffect DEF IncludeCertificates
  <1>17. CASE ChainError
    BY <1>17 DEF ChainError
  <1>18. CASE EmitSigCreated
    <2>1. statusUp => status = <<"BEGIN_SIGNING">>
      BY <1>18 DEF EmitSigCreated
    <2>2. Append(<<"BEGIN_SIGNING">>, "SIG_CREATED") = <<"BEGIN_SIGNING", "SIG_CREATED">>
      <3> DEFINE a == Append(<<"BEGIN_SIGNING">>, "SIG_CREATED")
                 b == <<"BEGIN_SIGNING", "SIG_CREATED">>
      <3>1. <<"BEGIN_SIGNING">> \in Seq(Line) /\ b \in Seq(Line) /\ "SIG_CREATED" \in Line
        BY DEF Line
      <3>2. /\ a \in Seq(Line) /\ Len(a) = 2
            /\ a[1] = "BEGIN_SIGNING" /\ a[2] = "SIG_CREATED"
        BY <3>1, AppendProperties
      <3>3. \A i \in 1 .. Len(a) : a[i] = b[i]
        BY <3>2
      <3> QED
        BY <3>1, <3>2, <3>3, SeqEqual
    <2> QED
      BY <1>18, <2>1, <2>2 DEF EmitSigCreated
  <1>19. CASE WriteChunk
    BY <1>19 DEF WriteChunk
  <1>20. CASE WriteError
    BY <1>20 DEF WriteError
  <1>21. CASE Return
    BY <1>21 DEF Return
  <1>22. CASE VaultTimeout
    BY <1>22 DEF VaultTimeout
  <1>23. CASE VaultSigns
    BY <1>23 DEF VaultSigns
  <1>24. CASE VaultFails
    BY <1>24 DEF VaultFails
  <1>25. CASE RotateKey
    BY <1>25 DEF RotateKey
  <1>26. CASE TSAReplies
    BY <1>26 DEF TSAReplies
  <1>27. CASE TSAUnreachable
    BY <1>27 DEF TSAUnreachable
  <1>28. CASE StatusReaderLeaves
    BY <1>28 DEF StatusReaderLeaves
  <1>29. CASE Kill
    BY <1>29 DEF Kill
  <1>30. CASE UNCHANGED vars
    BY <1>30 DEF vars
  <1>31. QED
    BY <1>1, <1>2, <1>3, <1>4, <1>5, <1>6, <1>7, <1>8, <1>9, <1>10, <1>11, <1>12, <1>13, <1>14, <1>15, <1>16, <1>17, <1>18, <1>19, <1>20, <1>21, <1>22, <1>23, <1>24, <1>25, <1>26, <1>27, <1>28, <1>29, <1>30 DEF Next, Program, Environment

\* A run begins in the first stage.
LEMMA InitStageInv == Init => StageInv
  <1> SUFFICES ASSUME Init PROVE StageInv
    OBVIOUS
  <1>1. sd.signers = <<>>
    BY DEF Init, NewSignedData
  <1>2. answer.kind = "none" /\ ~inVault /\ pc = "find" /\ exit = "running"
    BY DEF Init, NoAnswer
  <1> QED
    BY <1>1, <1>2 DEF Init, StageInv, SignerStage, SignerDone, VaultStage, OutputStage,
                      LinesInOrder

\* TypeOK and StageInv together are inductive.
LEMMA Inductive == Spec => [](TypeOK /\ StageInv)
  <1>1. Init => TypeOK /\ StageInv
    BY InitTypeOK, InitStageInv
  <1>2. TypeOK /\ StageInv /\ [Next]_vars => (TypeOK /\ StageInv)'
    BY NextTypeOK, NextSignerStage, NextVaultStage, NextOutputStage DEF StageInv
  <1> QED
    BY <1>1, <1>2, PTL DEF Spec

\* A run of git-kmssign --sign keeps the types of its variables.
THEOREM Typing == Spec => []TypeOK
  BY Inductive, PTL

\* At every stage of a run its earlier stages have done their work.
THEOREM Stages == Spec => []StageInv
  BY Inductive, PTL

\* The status stream carries a prefix of BEGIN_SIGNING, SIG_CREATED.
THEOREM StatusLines == Spec => []LinesInOrder
  <1>1. TypeOK /\ StageInv => LinesInOrder
    BY DEF StageInv, OutputStage
  <1> QED
    BY <1>1, Inductive, PTL

-----------------------------------------------------------------------------
(* What SIG_CREATED and exit code 0 stand for *)

\* A step that ends the run, or that others take after its end, writes nothing;
\* once the object is announced it does not change any more.
LEMMA DoneStep ==
  ASSUME TypeOK, StageInv, [Next]_vars, pc' = "done"
  PROVE  /\ UNCHANGED <<opts, message, status, sent>>
         /\ produced \subseteq produced'
         /\ pc \in {"write", "done"} => sd' = sd
  <1> USE DEF runVars, vaultVars, tsaVars, outputVars, At, Goto, Fail
  <1>1. CASE Program
    BY <1>1 DEF Program, IdentityNotFound, BeginSigning, GetSigner, SignerError,
         ReadMessage, ReadError, RequestSignature, AddSignerInfo, VaultError, Retry,
         Seal, RequestTimestamp, AddTimestamp, TimestampError, TimestampPanic,
         IncludeCertificates, ChainError, EmitSigCreated, WriteChunk, WriteError, Return
  <1>2. CASE VaultTimeout
    BY <1>2 DEF VaultTimeout
  <1>3. CASE Environment
    BY <1>3 DEF Environment, VaultSigns, VaultFails, RotateKey, TSAReplies,
         TSAUnreachable, StatusReaderLeaves, Kill
  <1>4. CASE UNCHANGED vars
    BY <1>4 DEF vars
  <1> QED
    BY <1>1, <1>2, <1>3, <1>4 DEF Next

\* The status stream does not come back, and only Return ends a run with 0.
LEMMA OkStep ==
  ASSUME TypeOK, StageInv, [Next]_vars
  PROVE  /\ statusUp' => statusUp
         /\ exit # "ok" /\ exit' = "ok" => Return
  <1> USE DEF runVars, vaultVars, tsaVars, outputVars, At, Goto, Fail
  <1>1. CASE Program /\ ~Return
    BY <1>1 DEF Program, IdentityNotFound, BeginSigning, GetSigner, SignerError,
         ReadMessage, ReadError, RequestSignature, AddSignerInfo, VaultError, Retry,
         Seal, RequestTimestamp, AddTimestamp, TimestampError, TimestampPanic,
         IncludeCertificates, ChainError, EmitSigCreated, WriteChunk, WriteError
  <1>2. CASE VaultTimeout
    BY <1>2 DEF VaultTimeout
  <1>3. CASE Environment
    BY <1>3 DEF Environment, VaultSigns, VaultFails, RotateKey, TSAReplies,
         TSAUnreachable, StatusReaderLeaves, Kill
  <1>4. CASE UNCHANGED vars
    BY <1>4 DEF vars
  <1>5. CASE Return
    BY <1>5 DEF Return
  <1> QED
    BY <1>1, <1>2, <1>3, <1>4, <1>5 DEF Next

\* Only IncludeCertificates makes an object ready to announce, and nothing changes
\* one that is.
LEMMA ReadyStep ==
  ASSUME TypeOK, StageInv, (TypeOK /\ StageInv)', [Next]_vars
  PROVE  /\ pc \in {"announce", "write"} \/ Announced => UNCHANGED <<opts, sd>>
         /\ pc' \in {"announce", "write"} =>
              pc \in {"announce", "write"} \/ (IncludeCertificates /\ pc' = "announce")
         /\ pc' \notin {"announce", "write"} /\ Announced' => Announced
  <1> DEFINE Ready == pc \in {"announce", "write"}
  <1>1. /\ Announced => pc \in {"write", "done"}
        /\ Announced' => pc' \in {"write", "done"}
    BY AnnouncedIff DEF StageInv, OutputStage, LinesInOrder, Announced
  <1>2. ~Ready' /\ Announced' => Announced
    <2> SUFFICES ASSUME ~Ready', Announced' PROVE Announced
      OBVIOUS
    <2>1. pc' = "done"
      BY <1>1
    <2> QED
      BY <2>1, DoneStep DEF Announced
  <1>3. /\ Ready \/ pc = "done" => UNCHANGED <<opts, sd>>
        /\ Ready' => Ready \/ (IncludeCertificates /\ pc' = "announce")
    <2> USE DEF runVars, vaultVars, tsaVars, outputVars, At, Goto, Fail
    <2>1. CASE Program /\ ~IncludeCertificates
      BY <2>1 DEF Program, IdentityNotFound, BeginSigning, GetSigner, SignerError,
           ReadMessage, ReadError, RequestSignature, AddSignerInfo, VaultError, Retry,
           Seal, RequestTimestamp, AddTimestamp, TimestampError, TimestampPanic,
           ChainError, EmitSigCreated, WriteChunk, WriteError, Return
    <2>2. CASE IncludeCertificates
      BY <2>2 DEF IncludeCertificates
    <2>3. CASE VaultTimeout
      BY <2>3 DEF VaultTimeout
    <2>4. CASE Environment
      BY <2>4 DEF Environment, VaultSigns, VaultFails, RotateKey, TSAReplies,
           TSAUnreachable, StatusReaderLeaves, Kill
    <2>5. CASE UNCHANGED vars
      BY <2>5 DEF vars
    <2> QED
      BY <2>1, <2>2, <2>3, <2>4, <2>5 DEF Next
  <1> QED
    BY <1>1, <1>2, <1>3

\* SIG_CREATED is said only of a finished object with a signature the vault made
\* over the message read.
THEOREM Truthful == Spec => []AnnouncementIsTrue
  <1>1. Init => AnnouncementIsTrue
    BY DEF Init, AnnouncementIsTrue, Announced
  <1>2. TypeOK /\ StageInv /\ (TypeOK /\ StageInv)' /\ AnnouncementIsTrue /\ [Next]_vars
          => AnnouncementIsTrue'
    <2> SUFFICES ASSUME TypeOK, StageInv, (TypeOK /\ StageInv)', AnnouncementIsTrue,
                        [Next]_vars, Announced'
                 PROVE  AnnouncementIsTrue'
      BY DEF AnnouncementIsTrue
    <2>1. status' = <<"BEGIN_SIGNING", "SIG_CREATED">>
      BY AnnouncedIff DEF Announced, LinesInOrder, StageInv, OutputStage
    <2>2. pc' \in {"write", "done"}
      BY <2>1 DEF StageInv, OutputStage
    <2>3. CASE pc' = "write"
      BY <2>3 DEF StageInv, SignerStage, SignerDone, AnnouncementIsTrue
    <2>4. CASE pc' = "done"
      <3>1. /\ UNCHANGED <<opts, message, status>> /\ produced \subseteq produced'
            /\ pc \in {"write", "done"} => sd' = sd
        BY <2>4, DoneStep
      <3>2. pc \in {"write", "done"}
        BY <2>1, <3>1 DEF StageInv, OutputStage
      <3>3. Announced
        BY <3>1 DEF Announced
      <3> QED
        BY <3>1, <3>2, <3>3 DEF AnnouncementIsTrue
    <2> QED
      BY <2>2, <2>3, <2>4
  <1> QED
    BY <1>1, <1>2, Inductive, PTL DEF Spec

\* The certificates of an announced signature are those --include-certs selects.
THEOREM Embedded == Spec => []SelectionEmbedded
  <1> DEFINE bundle == CertsForSignature(opts.include, opts.chain)
             Chosen == sd.certs = [k \in DOMAIN bundle |-> Der(bundle[k])]
             Inv == (pc \in {"announce", "write"} \/ Announced) => Chosen
  <1>1. Init => Inv
    BY DEF Init, Announced
  <1>2. TypeOK /\ StageInv /\ (TypeOK /\ StageInv)' /\ Inv /\ [Next]_vars => Inv'
    <2> SUFFICES ASSUME TypeOK, StageInv, (TypeOK /\ StageInv)', Inv, [Next]_vars,
                        pc' \in {"announce", "write"} \/ Announced'
                 PROVE  Chosen'
      OBVIOUS
    <2>1. CASE pc \in {"announce", "write"} \/ Announced
      <3>1. UNCHANGED <<opts, sd>>
        BY <2>1, ReadyStep
      <3> QED
        BY <2>1, <3>1
    <2>2. CASE pc \notin {"announce", "write"} /\ ~Announced
      <3>1. IncludeCertificates /\ pc' = "announce"
        BY <2>2, ReadyStep
      <3>2. opts' = opts
        BY <3>1 DEF IncludeCertificates
      <3> QED
        BY <3>1, <3>2, SelectionIncluded
    <2> QED
      BY <2>1, <2>2
  <1>3. Inv => SelectionEmbedded
    BY DEF SelectionEmbedded
  <1> QED
    BY <1>1, <1>2, <1>3, Inductive, PTL DEF Spec

\* Exit code 0 is returned only after the whole output has been written.
THEOREM Delivered == Spec => []SuccessIsDelivered
  <1>1. Init => SuccessIsDelivered
    BY DEF Init, SuccessIsDelivered
  <1>2. TypeOK /\ StageInv /\ (TypeOK /\ StageInv)' /\ SuccessIsDelivered /\ [Next]_vars
          => SuccessIsDelivered'
    <2> SUFFICES ASSUME TypeOK, StageInv, (TypeOK /\ StageInv)', SuccessIsDelivered,
                        [Next]_vars, exit' = "ok"
                 PROVE  SuccessIsDelivered'
      BY DEF SuccessIsDelivered
    <2>1. pc' = "done"
      BY DEF StageInv, SignerStage, TypeOK
    <2>2. UNCHANGED <<status, sent>> /\ (pc \in {"write", "done"} => sd' = sd)
      BY <2>1, DoneStep
    <2>3. CASE exit = "ok"
      <3>1. pc = "done"
        BY <2>3 DEF StageInv, SignerStage, TypeOK
      <3> QED
        BY <2>2, <2>3, <3>1, OkStep DEF SuccessIsDelivered
    <2>4. CASE exit # "ok"
      <3>1. Return
        BY <2>4, OkStep
      <3>2. /\ sent = Chunks /\ UNCHANGED <<sd, status, statusUp, sent>>
            /\ pc = "write" /\ Len(sd.signers) = 1
        BY <3>1 DEF Return, At, runVars, outputVars, StageInv, SignerStage, SignerDone
      <3>3. sd.signers # <<>>
        BY <3>2
      <3> QED
        BY <3>2, <3>3 DEF SuccessIsDelivered, StageInv, OutputStage
    <2> QED
      BY <2>3, <2>4
  <1> QED
    BY <1>1, <1>2, Inductive, PTL DEF Spec

\* Every token attached is for the signature it is attached to and answers the
\* request of this run.
THEOREM Fresh == Spec => []TimestampsAreFresh
  <1>1. Init => TimestampsAreFresh
    BY DEF Init, NewSignedData, TimestampsAreFresh
  <1>2. TypeOK /\ StageInv /\ TimestampsAreFresh /\ [Next]_vars => TimestampsAreFresh'
    <2> SUFFICES ASSUME TypeOK, StageInv, TimestampsAreFresh, [Next]_vars
                 PROVE  TimestampsAreFresh'
      OBVIOUS
    <2>1. CASE sd'.signers = sd.signers
      BY <2>1 DEF TimestampsAreFresh
    <2>2. CASE ReadMessage
      BY <2>2, ReadMessageEffect DEF TimestampsAreFresh
    <2>3. CASE AddSignerInfo
      BY <2>3, AddSignerInfoEffect DEF TimestampsAreFresh
    <2>4. CASE AddTimestamp
      <3>1. /\ request \in Requests /\ request.imprint = sd.signers[1].sig
            /\ reply.token.imprint = request.imprint /\ reply.token.nonce = request.nonce
        BY <2>4 DEF AddTimestamp, At, Acceptable, Matches, StageInv, SignerStage
      <3>2. request.nonce \notin StaleNonce
        BY <3>1 DEF Requests
      <3>3. /\ DOMAIN sd'.signers = 1 .. 1 /\ sd'.signers[1].tokens = <<reply.token>>
            /\ sd'.signers[1].sig = sd.signers[1].sig
        BY <2>4, AddTimestampEffect
      <3>4. DOMAIN sd'.signers[1].tokens = {1} /\ sd'.signers[1].tokens[1] = reply.token
        BY <3>3
      <3> QED
        BY <3>1, <3>2, <3>3, <3>4 DEF TimestampsAreFresh
    <2>5. ReadMessage \/ AddSignerInfo \/ AddTimestamp \/ sd'.signers = sd.signers
      <3> USE DEF runVars
      <3>1. CASE RequestSignature \/ Seal \/ IncludeCertificates
        BY <3>1, RequestSignatureEffect, SealEffect, IncludeCertificatesEffect
      <3>2. CASE Program /\ ~(RequestSignature \/ Seal \/ IncludeCertificates)
        BY <3>2 DEF Program, IdentityNotFound, BeginSigning, GetSigner, SignerError,
             ReadError, VaultError, Retry, RequestTimestamp, TimestampError,
             TimestampPanic, ChainError, EmitSigCreated, WriteChunk, WriteError, Return
      <3>3. CASE VaultTimeout
        BY <3>3 DEF VaultTimeout
      <3>4. CASE Environment
        BY <3>4 DEF Environment, VaultSigns, VaultFails, RotateKey, TSAReplies,
             TSAUnreachable, StatusReaderLeaves, Kill
      <3>5. CASE UNCHANGED vars
        BY <3>5 DEF vars
      <3> QED
        BY <3>1, <3>2, <3>3, <3>4, <3>5 DEF Next
    <2> QED
      BY <2>1, <2>2, <2>3, <2>4, <2>5
  <1> QED
    BY <1>1, <1>2, Inductive, PTL DEF Spec

\* With the key version pinned to the certificate's, a rotation of the key or a
\* retried request never yields a signature the certificate does not verify.
THEOREM Pinned == Spec => []PinnedKeyMatches
  <1>1. TypeOK /\ StageInv => PinnedKeyMatches
    <2> SUFFICES ASSUME TypeOK, StageInv PROVE PinnedKeyMatches
      OBVIOUS
    <2>1. Leaf.key # Latest
      BY LeafType DEF TypeOK, Versions, Latest
    <2> QED
      BY <2>1 DEF PinnedKeyMatches, StageInv, VaultStage
  <1> QED
    BY <1>1, Inductive, PTL

-----------------------------------------------------------------------------
(* The order of the output, and the end of a run *)

\* Output is written only in the last stage, after SIG_CREATED.
THEOREM Ordered == Spec => OutputAfterAnnouncement
  <1>1. TypeOK /\ StageInv /\ [Next]_vars => (sent' > sent => Announced \/ ~statusUp)
    <2> SUFFICES ASSUME TypeOK, StageInv, [Next]_vars, sent' > sent
                 PROVE  Announced \/ ~statusUp
      OBVIOUS
    <2>1. sent' # sent
      BY DEF TypeOK
    <2>2. WriteChunk
      <3> USE <2>1 DEF outputVars
      <3>1. CASE Program
        BY <3>1 DEF Program, IdentityNotFound, BeginSigning, GetSigner, SignerError,
             ReadMessage, ReadError, RequestSignature, AddSignerInfo, VaultError, Retry,
             Seal, RequestTimestamp, AddTimestamp, TimestampError, TimestampPanic,
             IncludeCertificates, ChainError, EmitSigCreated, WriteError, Return
      <3>2. CASE VaultTimeout
        BY <3>2 DEF VaultTimeout
      <3>3. CASE Environment
        BY <3>3 DEF Environment, VaultSigns, VaultFails, RotateKey, TSAReplies,
             TSAUnreachable, StatusReaderLeaves, Kill
      <3>4. CASE UNCHANGED vars
        BY <3>4 DEF vars
      <3> QED
        BY <3>1, <3>2, <3>3, <3>4 DEF Next
    <2> QED
      BY <2>2, AnnouncedIff DEF WriteChunk, At, StageInv, OutputStage
  <1> QED
    BY <1>1, Inductive, PTL DEF Spec, OutputAfterAnnouncement

\* After the end of the run nothing git can see changes.
THEOREM Final == Spec => DoneIsDone
  <1>1. TypeOK /\ StageInv /\ [Next]_vars
          => (exit # "running" => UNCHANGED <<sd, status, sent, exit, cause>>)
    <2> SUFFICES ASSUME TypeOK, StageInv, [Next]_vars, exit # "running"
                 PROVE  UNCHANGED <<sd, status, sent, exit, cause>>
      OBVIOUS
    <2> USE DEF runVars, outputVars
    <2>1. CASE Program
      BY <2>1 DEF Program, At, IdentityNotFound, BeginSigning, GetSigner, SignerError,
           ReadMessage, ReadError, RequestSignature, AddSignerInfo, VaultError, Retry,
           Seal, RequestTimestamp, AddTimestamp, TimestampError, TimestampPanic,
           IncludeCertificates, ChainError, EmitSigCreated, WriteChunk, WriteError, Return
    <2>2. CASE VaultTimeout
      BY <2>2 DEF VaultTimeout, At
    <2>3. CASE Environment
      BY <2>3 DEF Environment, VaultSigns, VaultFails, RotateKey, TSAReplies,
           TSAUnreachable, StatusReaderLeaves, Kill, At
    <2>4. CASE UNCHANGED vars
      BY <2>4 DEF vars
    <2> QED
      BY <2>1, <2>2, <2>3, <2>4 DEF Next
  <1> QED
    BY <1>1, Inductive, PTL DEF Spec, DoneIsDone

-----------------------------------------------------------------------------
(* commandSign implements what git relies on *)

\* No signature is the absent answer.
LEMMA NoAnswerIsNoSignature ==
  ASSUME NEW sig \in Signature
  PROVE  sig # NoAnswer
  <1>1. DOMAIN sig = {"key", "over"} /\ DOMAIN NoAnswer = {"kind"}
    BY DEF Signature, NoAnswer
  <1> QED
    BY <1>1

\* The promise's view of a step that neither makes a signature, nor changes the
\* status stream, nor writes, nor ends the run.
LEMMA StutterStep ==
  ASSUME sd'.signers = sd.signers, UNCHANGED <<status, statusUp, sent, exit>>
  PROVE  UNCHANGED Promise!vars
  BY DEF Promise!vars, Announced

\* A step that only ends the run with an error is the promise's GiveUp.
LEMMA GiveUpStep ==
  ASSUME sd'.signers = sd.signers, UNCHANGED <<status, statusUp, sent>>,
         exit = "running", exit' \in {"failed", "panic", "killed"}
  PROVE  Promise!GiveUp
  BY DEF Promise!GiveUp, Promise!Running, Announced

\* Every step of a run is a step of SigningPromise, or none.
LEMMA PromiseStep ==
  TypeOK /\ StageInv /\ (TypeOK /\ StageInv)' /\ [Next]_vars => [Promise!Next]_(Promise!vars)
  <1> SUFFICES ASSUME TypeOK, StageInv, (TypeOK /\ StageInv)', [Next]_vars
               PROVE  Promise!Next \/ UNCHANGED Promise!vars
    OBVIOUS
  <1> USE DEF At, Goto, Fail, runVars, outputVars
  <1>1. CASE AddSignerInfo
    <2>1. sd.signers = <<>> /\ answer.sig \in Signature
      BY <1>1 DEF AddSignerInfo, StageInv, SignerStage, TypeOK, Answers,
                  NoAnswer, Refused, Empty, Lost, Signed
    <2>2. sd'.signers # <<>> /\ sd'.signers[1].sig = answer.sig
      BY <1>1, AddSignerInfoEffect
    <2> QED
      BY <1>1, <2>1, <2>2
         DEF AddSignerInfo, Promise!Next, Promise!Make, Promise!Running, Announced
  <1>2. CASE AddTimestamp
    BY <1>2, AddTimestampEffect DEF AddTimestamp, Promise!vars, Announced
  <1>3. CASE EmitSigCreated
    <2>1. sd.signers # <<>> /\ sd.signers[1].sig # NoAnswer /\ sd.signers[1].sig \in Signature
      <3>1. Len(sd.signers) = 1 /\ sd.signers[1] \in SignerInfos
        BY <1>3, ElementOfSeq DEF EmitSigCreated, StageInv, SignerStage, SignerDone, TypeOK
      <3> QED
        BY <3>1, NoAnswerIsNoSignature DEF SignerInfos
    <2>2. CASE statusUp
      <3>1. Announced'
        BY <1>3, <2>2 DEF EmitSigCreated, StageInv, OutputStage, Announced
      <3>2. sent = 0
        BY <1>3 DEF EmitSigCreated, StageInv, OutputStage
      <3> QED
        BY <1>3, <2>1, <2>2, <3>1, <3>2
           DEF EmitSigCreated, Promise!Next, Promise!Announce, Promise!Running
    <2>3. CASE ~statusUp
      BY <1>3, <2>3, StutterStep DEF EmitSigCreated, Emit
    <2> QED
      BY <2>2, <2>3 DEF TypeOK
  <1>4. CASE WriteChunk
    <2>1. sd.signers # <<>> /\ sd.signers[1].sig # NoAnswer
      <3>1. Len(sd.signers) = 1 /\ sd.signers[1] \in SignerInfos
        BY <1>4, ElementOfSeq DEF WriteChunk, StageInv, SignerStage, SignerDone, TypeOK
      <3> QED
        BY <3>1, NoAnswerIsNoSignature DEF SignerInfos
    <2>2. Announced \/ ~statusUp
      BY <1>4, AnnouncedIff DEF WriteChunk, StageInv, OutputStage
    <2> QED
      BY <1>4, <2>1, <2>2
         DEF WriteChunk, Promise!Next, Promise!Deliver, Promise!Running, Announced
  <1>5. CASE Return
    BY <1>5 DEF Return, Promise!Next, Promise!Succeed, Promise!Running, Announced
  <1>6. CASE BeginSigning
    <2>1. status = <<>> /\ status' \in {<<>>, <<"BEGIN_SIGNING">>}
      BY <1>6 DEF BeginSigning, StageInv, OutputStage, Emit
    <2>2. Announced' = Announced
      BY <2>1 DEF Announced
    <2>3. sd'.signers = sd.signers /\ UNCHANGED <<statusUp, sent, exit>>
      BY <1>6 DEF BeginSigning
    <2> QED
      BY <2>2, <2>3 DEF Promise!vars
  <1>7. CASE ReadMessage
    <2>1. sd.signers = <<>> /\ sd'.signers = <<>>
      BY <1>7, ReadMessageEffect DEF ReadMessage, StageInv, SignerStage
    <2> QED
      BY <1>7, <2>1, StutterStep DEF ReadMessage
  <1>8. CASE RequestSignature \/ Seal \/ IncludeCertificates
    <2>1. sd'.signers = sd.signers
      BY <1>8, RequestSignatureEffect, SealEffect, IncludeCertificatesEffect
    <2>2. UNCHANGED <<status, statusUp, sent>> /\ exit = "running" /\ exit' \in {"running", "failed"}
      BY <1>8 DEF RequestSignature, Seal, IncludeCertificates
    <2> QED
      BY <2>1, <2>2, StutterStep, GiveUpStep DEF Promise!Next
  <1>9. CASE GetSigner \/ Retry \/ RequestTimestamp
    BY <1>9, StutterStep DEF GetSigner, Retry, RequestTimestamp
  <1>10. CASE IdentityNotFound \/ SignerError \/ ReadError \/ VaultError \/ TimestampError
              \/ TimestampPanic \/ ChainError \/ WriteError \/ VaultTimeout
              \/ TSAUnreachable \/ Kill
    <2>1. /\ sd'.signers = sd.signers /\ UNCHANGED <<status, statusUp, sent>>
          /\ exit = "running" /\ exit' \in {"failed", "panic", "killed"}
      BY <1>10 DEF IdentityNotFound, SignerError, ReadError, VaultError, TimestampError,
           TimestampPanic, ChainError, WriteError, VaultTimeout, TSAUnreachable, Kill
    <2> QED
      BY <2>1, GiveUpStep DEF Promise!Next
  <1>11. CASE VaultSigns \/ VaultFails \/ RotateKey \/ TSAReplies
    BY <1>11, StutterStep DEF VaultSigns, VaultFails, RotateKey, TSAReplies
  <1>12. CASE StatusReaderLeaves
    BY <1>12 DEF StatusReaderLeaves, Promise!Next, Promise!FallSilent, Announced
  <1>13. CASE UNCHANGED vars
    BY <1>13, StutterStep DEF vars
  <1> QED
    BY <1>1, <1>2, <1>3, <1>4, <1>5, <1>6, <1>7, <1>8, <1>9, <1>10, <1>11, <1>12, <1>13
       DEF Next, Program, Environment

\* Every run of commandSign is a run of SigningPromise.
THEOREM Implementation == Spec => KeepsPromise
  <1>1. Init => Promise!Init
    <2> SUFFICES ASSUME Init PROVE Promise!Init
      OBVIOUS
    <2>1. statusUp \in BOOLEAN
      BY LeafType DEF Init
    <2> QED
      BY <2>1 DEF Init, NewSignedData, Announced, Promise!Init
  <1> QED
    BY <1>1, PromiseStep, Inductive, PTL DEF Spec, KeepsPromise, Promise!Spec
=============================================================================
