--------------------------- MODULE CertBundleProofs ---------------------------
(***************************************************************************)
(* Theorems about CertBundle: for any file and any --include-certs the     *)
(* loops of LoadCertificates and certsForSignature stay in bounds and come *)
(* to the closed form of CertSelection, which is a prefix of the chain that*)
(* starts with the leaf and, of a chain in order, holds no root.           *)
(***************************************************************************)
EXTENDS CertBundle, SequenceTheorems, TLAPS

-----------------------------------------------------------------------------
(* Prefixes *)

\* What Go's s[0:n] is.
LEMMA KeepProperties ==
  ASSUME NEW S, NEW s \in Seq(S), NEW n \in 0 .. Len(s)
  PROVE  /\ Keep(s, n) \in Seq(S) /\ Len(Keep(s, n)) = n
         /\ \A k \in 1 .. n : Keep(s, n)[k] = s[k]
  <1>1. n \in Nat /\ n <= Len(s) /\ \A k \in 1 .. n : s[k] \in S
    BY LenProperties, ElementOfSeq
  <1>2. /\ SubSeq(s, 1, n) \in Seq(S)
        /\ Len(SubSeq(s, 1, n)) = IF 1 <= n THEN n - 1 + 1 ELSE 0
        /\ \A k \in 1 .. n - 1 + 1 : SubSeq(s, 1, n)[k] = s[1 + k - 1]
    BY <1>1, SubSeqProperties
  <1>3. Len(SubSeq(s, 1, n)) = n
    BY <1>1, <1>2
  <1>4. ASSUME NEW k \in 1 .. n
        PROVE  SubSeq(s, 1, n)[k] = s[k]
    <2>1. k \in 1 .. n - 1 + 1 /\ 1 + k - 1 = k
      BY <1>1
    <2> QED
      BY <1>2, <2>1
  <1> QED
    BY <1>2, <1>3, <1>4 DEF Keep

\* A prefix of a prefix.
LEMMA KeepKeep ==
  ASSUME NEW S, NEW s \in Seq(S), NEW n \in 0 .. Len(s), NEW m \in 0 .. n
  PROVE  Keep(Keep(s, n), m) = Keep(s, m)
  <1>1. Len(s) \in Nat /\ m \in 0 .. Len(s) /\ \A k \in 1 .. m : k \in 1 .. n
    BY LenProperties
  <1>2. /\ Keep(s, n) \in Seq(S) /\ Len(Keep(s, n)) = n
        /\ \A k \in 1 .. n : Keep(s, n)[k] = s[k]
    BY KeepProperties
  <1>3. /\ Keep(s, m) \in Seq(S) /\ Len(Keep(s, m)) = m
        /\ \A k \in 1 .. m : Keep(s, m)[k] = s[k]
    BY <1>1, KeepProperties
  <1> DEFINE t == Keep(s, n)
  <1> HIDE DEF t
  <1>4. /\ Keep(t, m) \in Seq(S) /\ Len(Keep(t, m)) = m
        /\ \A k \in 1 .. m : Keep(t, m)[k] = t[k]
    BY <1>2, KeepProperties DEF t
  <1>5. \A k \in 1 .. m : Keep(t, m)[k] = Keep(s, m)[k]
    BY <1>1, <1>2, <1>3, <1>4 DEF t
  <1>6. Keep(t, m) = Keep(s, m)
    BY <1>3, <1>4, <1>5, SeqEqual
  <1> QED
    BY <1>6 DEF t

\* Keeping all of a chain keeps the chain.
LEMMA KeepAll ==
  ASSUME NEW S, NEW s \in Seq(S)
  PROVE  Keep(s, Len(s)) = s
  BY SubSeqFull DEF Keep

\* chainWithoutRoot of a prefix that is not empty.
LEMMA WithoutRootOfKeep ==
  ASSUME NEW S, NEW s \in Seq(S), NEW n \in 1 .. Len(s)
  PROVE  ChainWithoutRoot(Keep(s, n)) =
           IF SelfIssued(s[n]) THEN Keep(s, n - 1) ELSE Keep(s, n)
  <1>1. n \in 0 .. Len(s) /\ n - 1 \in 0 .. n /\ n > 0 /\ n \in 1 .. n
    BY LenProperties
  <1>2. Len(Keep(s, n)) = n /\ Keep(s, n)[n] = s[n]
    BY <1>1, KeepProperties
  <1>3. Keep(Keep(s, n), n - 1) = Keep(s, n - 1)
    BY <1>1, KeepKeep
  <1> QED
    BY <1>1, <1>2, <1>3 DEF ChainWithoutRoot

\* chainWithoutRoot of a prefix is a list of the same certificates.
LEMMA WithoutRootType ==
  ASSUME NEW S, NEW s \in Seq(S), NEW n \in 1 .. Len(s)
  PROVE  ChainWithoutRoot(Keep(s, n)) \in Seq(S)
  <1>1. n \in 0 .. Len(s) /\ n - 1 \in 0 .. Len(s)
    BY LenProperties
  <1>2. Keep(s, n) \in Seq(S)
    BY <1>1, KeepProperties
  <1>3. Keep(s, n - 1) \in Seq(S)
    BY <1>1, KeepProperties
  <1> QED
    BY <1>2, <1>3, WithoutRootOfKeep

-----------------------------------------------------------------------------
(* The loop of -3 *)

\* The chain s is to be cut at n when no certificate from position low on and below n
\* has a fetchable issuer, and n itself has, or is the last.
CutAt(s, low, n) ==
  /\ n \in low .. Len(s)
  /\ n = Len(s) \/ IssuerFetchable(s, n)
  /\ \A k \in low .. n - 1 : ~IssuerFetchable(s, k)

\* The closed form cuts there.
LEMMA FirstCut ==
  ASSUME NEW S, NEW s \in Seq(S), NEW n, CutAt(s, 1, n)
  PROVE  OmitIssuers(s) = Keep(s, n)
  <1> DEFINE cuts == {k \in 1 .. Len(s) - 1 : IssuerFetchable(s, k)}
  <1>1. Len(s) \in Nat /\ n \in 1 .. Len(s)
    BY LenProperties DEF CutAt
  <1>2. \A k \in cuts : n <= k
    <2> SUFFICES ASSUME NEW k \in cuts, ~(n <= k) PROVE FALSE
      OBVIOUS
    <2>1. k \in 1 .. n - 1
      BY <1>1
    <2> QED
      BY <2>1 DEF CutAt
  <1>3. CASE cuts = {}
    <2>1. n = Len(s)
      <3> SUFFICES ASSUME n # Len(s) PROVE FALSE
        OBVIOUS
      <3>1. IssuerFetchable(s, n) /\ n \in 1 .. Len(s) - 1
        BY <1>1 DEF CutAt
      <3> QED
        BY <1>3, <3>1
    <2> QED
      BY <1>3, <2>1, KeepAll DEF OmitIssuers
  <1>4. CASE cuts # {}
    <2>1. n \in cuts
      <3>1. PICK k \in cuts : n <= k
        BY <1>2, <1>4
      <3>2. n # Len(s) /\ n \in 1 .. Len(s) - 1
        BY <1>1, <3>1
      <3> QED
        BY <3>2 DEF CutAt
    <2>2. \A k \in cuts : (\A j \in cuts : k <= j) => k = n
      <3> TAKE k \in cuts
      <3> HAVE \A j \in cuts : k <= j
      <3>1. k <= n /\ n <= k /\ k \in Int /\ n \in Int
        BY <1>1, <1>2, <2>1
      <3> QED
        BY <3>1
    <2>3. (CHOOSE k \in cuts : \A j \in cuts : k <= j) = n
      BY <1>2, <2>1, <2>2
    <2> QED
      BY <1>4, <2>3 DEF OmitIssuers
  <1> QED
    BY <1>3, <1>4

\* One iteration, at index low - 1, of a chain already cut at n.
LEMMA CutStep ==
  ASSUME NEW S, NEW s \in Seq(S), NEW low \in Nat, low > 1, NEW n, CutAt(s, low, n)
  PROVE  /\ IssuerFetchable(Keep(s, n), low - 1) <=> IssuerFetchable(s, low - 1)
         /\ IssuerFetchable(s, low - 1) => CutAt(s, low - 1, low - 1)
                                           /\ Keep(Keep(s, n), low - 1) = Keep(s, low - 1)
         /\ ~IssuerFetchable(s, low - 1) => CutAt(s, low - 1, n)
  <1> DEFINE m == low - 1
  <1>1. /\ Len(s) \in Nat /\ n \in low .. Len(s) /\ n \in 0 .. Len(s)
        /\ m \in 1 .. n /\ m + 1 \in 1 .. n /\ m \in 0 .. n /\ m \in 1 .. Len(s)
    BY LenProperties DEF CutAt
  <1>2. Keep(s, n)[m] = s[m] /\ Keep(s, n)[m + 1] = s[m + 1]
    BY <1>1, KeepProperties
  <1>3. IssuerFetchable(Keep(s, n), m) <=> IssuerFetchable(s, m)
    BY <1>2 DEF IssuerFetchable
  <1>4. Keep(Keep(s, n), m) = Keep(s, m)
    BY <1>1, KeepKeep
  <1>5. ASSUME IssuerFetchable(s, m)
        PROVE  CutAt(s, m, m)
    <2>1. m \in m .. Len(s) /\ m .. m - 1 = {}
      BY <1>1
    <2> QED
      BY <1>5, <2>1 DEF CutAt
  <1>6. ASSUME ~IssuerFetchable(s, m)
        PROVE  CutAt(s, m, n)
    <2>1. n \in m .. Len(s) /\ \A k \in m .. n - 1 : k = m \/ k \in low .. n - 1
      BY <1>1
    <2> QED
      BY <1>6, <2>1 DEF CutAt
  <1> QED
    BY <1>3, <1>4, <1>5, <1>6

-----------------------------------------------------------------------------
(* The invariant *)

\* The types, with what bounds the loop's index.
FileInv ==
  /\ file \in Seq(Blocks) /\ certs \in Seq(Cert) /\ chain \in Seq(Cert)
  /\ Len(file) + Len(certs) <= MaxBlocks
  /\ include \in Int /\ i \in Nat /\ i <= MaxBlocks
  /\ phase \in {"load", "omit", "root", "take", "done", "error"}

\* What the loop has come to when it is about to look at position i, and what the
\* chain is at each of the other phases.
SelectInv ==
  /\ phase \in {"omit", "root", "take", "done"} =>
       Len(certs) > 0 /\ include \in -3 .. Len(certs)
  /\ phase = "omit" => include = -3 /\ \E n : CutAt(certs, i + 1, n) /\ chain = Keep(certs, n)
  /\ phase = "root" =>
       \/ include = -2 /\ chain = certs
       \/ include = -3 /\ \E n : CutAt(certs, 1, n) /\ chain = Keep(certs, n)
  /\ phase = "take" => include >= -1 /\ chain = certs
  /\ phase = "done" => chain = CertsForSignature(include, certs)
  /\ phase = "done" /\ include = -3 =>
       \E n : CutAt(certs, 1, n) /\ chain = ChainWithoutRoot(Keep(certs, n))

BundleInv == FileInv /\ SelectInv

\* The normalised value is one the switch knows, and normal.
LEMMA NormalInclude ==
  ASSUME NEW n \in Int, NEW s \in Seq(Cert)
  PROVE  /\ EffectiveInclude(n, s) \in -3 .. Len(s)
         /\ n \in -3 .. Len(s) => EffectiveInclude(n, s) = n
         /\ n # 0 /\ Len(s) > 0 => EffectiveInclude(n, s) # 0
  BY LenProperties DEF EffectiveInclude

\* Before anything is read.
LEMMA BundleInit == Init => BundleInv
  <1> SUFFICES ASSUME Init PROVE BundleInv
    OBVIOUS
  <1>1. certs \in Seq(Cert) /\ chain \in Seq(Cert) /\ Len(certs) = 0
    BY EmptySeq DEF Init
  <1>2. PICK n \in 0 .. MaxBlocks : file \in [1 .. n -> Blocks]
    BY DEF Init
  <1>3. n \in Nat /\ MaxBlocks \in Nat /\ Includes \subseteq Int
    BY CertBundleAssumption
  <1>4. file \in Seq(Blocks)
    BY <1>2, <1>3, SeqDef
  <1>5. Len(file) = n
    BY <1>2, <1>3, <1>4, LenProperties
  <1> QED
    BY <1>1, <1>3, <1>4, <1>5 DEF Init, BundleInv, FileInv, SelectInv

\* The block loop.
LEMMA LoadStep ==
  ASSUME BundleInv, SkipBlock \/ AppendCertificate \/ RejectBlock \/ NoCertificates
  PROVE  BundleInv'
  <1>1. /\ file \in Seq(Blocks) /\ certs \in Seq(Cert) /\ Len(file) \in Nat /\ Len(certs) \in Nat
        /\ MaxBlocks \in Nat
    BY CertBundleAssumption, LenProperties DEF BundleInv, FileInv
  <1>2. CASE SkipBlock
    <2>1. file' \in Seq(Blocks) /\ Len(file') = Len(file) - 1
      BY <1>1, <1>2, HeadTailProperties DEF SkipBlock
    <2> QED
      BY <1>1, <1>2, <2>1 DEF SkipBlock, BundleInv, FileInv, SelectInv
  <1>3. CASE AppendCertificate
    <2>1. Head(file) \in Blocks /\ file' \in Seq(Blocks) /\ Len(file') = Len(file) - 1
      BY <1>1, <1>3, HeadTailProperties DEF AppendCertificate
    <2>2. Head(file).cert \in Cert
      <3>1. Other.type # "CERTIFICATE" /\ Garbage.type # "CERTIFICATE"
        BY DEF Other, Garbage
      <3>2. PICK c \in Cert : Head(file) = Block(c)
        BY <1>3, <2>1, <3>1 DEF AppendCertificate, Blocks
      <3> QED
        BY <3>2 DEF Block
    <2>3. certs' \in Seq(Cert) /\ Len(certs') = Len(certs) + 1
      BY <1>1, <1>3, <2>2, AppendProperties DEF AppendCertificate
    <2> QED
      BY <1>1, <1>3, <2>1, <2>3 DEF AppendCertificate, BundleInv, FileInv, SelectInv
  <1>4. CASE RejectBlock
    <2>1. certs' \in Seq(Cert) /\ Len(certs') = 0
      BY <1>4, EmptySeq DEF RejectBlock
    <2> QED
      BY <1>1, <1>4, <2>1 DEF RejectBlock, BundleInv, FileInv, SelectInv
  <1>5. CASE NoCertificates
    BY <1>1, <1>5 DEF NoCertificates, BundleInv, FileInv, SelectInv
  <1> QED
    BY <1>2, <1>3, <1>4, <1>5

\* What --include-certs is normalised to, and the loop's first index.
LEMMA NormaliseStep ==
  ASSUME BundleInv, Normalise
  PROVE  BundleInv'
  <1>1. /\ file \in Seq(Blocks) /\ certs \in Seq(Cert) /\ include \in Int /\ MaxBlocks \in Nat
        /\ phase = "load" /\ file = <<>> /\ certs # <<>> /\ Len(certs) <= MaxBlocks
    BY CertBundleAssumption, EmptySeq, LenProperties DEF BundleInv, FileInv, Normalise
  <1>2. /\ file' = file /\ certs' = certs /\ chain' = certs /\ i' = Len(certs) - 1
        /\ include' = EffectiveInclude(include, certs)
        /\ phase' = CASE include' = -3 -> "omit" [] include' = -2 -> "root" [] OTHER -> "take"
    BY DEF Normalise
  <1>3. Len(certs) \in Nat \ {0} /\ i' \in Nat /\ i' <= MaxBlocks /\ i' + 1 = Len(certs)
    BY <1>1, <1>2, EmptySeq
  <1>4. include' \in -3 .. Len(certs)
    BY <1>1, <1>2, NormalInclude
  <1>5. FileInv'
    BY <1>1, <1>2, <1>3, <1>4 DEF BundleInv, FileInv
  <1>6. CutAt(certs, Len(certs), Len(certs)) /\ certs = Keep(certs, Len(certs))
    BY <1>1, <1>3, KeepAll DEF CutAt
  <1>7. CASE include' = -3
    BY <1>2, <1>3, <1>4, <1>5, <1>6, <1>7 DEF BundleInv, SelectInv
  <1>8. CASE include' = -2
    BY <1>2, <1>3, <1>4, <1>5, <1>8 DEF BundleInv, SelectInv
  <1>9. CASE include' # -3 /\ include' # -2
    <2>1. phase' = "take" /\ include' >= -1
      BY <1>2, <1>3, <1>4, <1>9
    <2> QED
      BY <1>2, <1>3, <1>4, <1>5, <2>1 DEF BundleInv, SelectInv
  <1> QED
    BY <1>7, <1>8, <1>9

\* The loop of -3, one iteration or its end.
LEMMA OmitLoop ==
  ASSUME BundleInv, OmitStep \/ OmitDone
  PROVE  BundleInv'
  <1>1. /\ certs \in Seq(Cert) /\ Len(certs) > 0 /\ include = -3 /\ i \in Nat /\ phase = "omit"
        /\ file' = file /\ certs' = certs /\ include' = include
    BY DEF BundleInv, FileInv, SelectInv, OmitStep, OmitDone
  <1>2. PICK n : CutAt(certs, i + 1, n) /\ chain = Keep(certs, n)
    BY <1>1 DEF BundleInv, SelectInv
  <1>3. CASE OmitStep
    <2>1. i > 0 /\ i' = i - 1 /\ phase' = "omit"
          /\ chain' = IF IssuerFetchable(chain, i) THEN Keep(chain, i) ELSE chain
      BY <1>1, <1>3 DEF OmitStep
    <2> DEFINE low == i + 1
    <2>2. low \in Nat /\ low > 1 /\ CutAt(certs, low, n) /\ low - 1 = i /\ i' + 1 = i /\ i' \in Nat
      BY <1>1, <1>2, <2>1
    <2>3. /\ IssuerFetchable(chain, i) <=> IssuerFetchable(certs, i)
          /\ IssuerFetchable(certs, i) => CutAt(certs, i, i) /\ Keep(chain, i) = Keep(certs, i)
          /\ ~IssuerFetchable(certs, i) => CutAt(certs, i, n)
      <3> HIDE DEF low
      <3> QED
        BY <1>1, <1>2, <2>2, CutStep
    <2>4. PICK m : CutAt(certs, i, m) /\ chain' = Keep(certs, m)
      BY <1>2, <2>1, <2>3
    <2>5. chain' \in Seq(Cert)
      <3>1. m \in 0 .. Len(certs)
        BY <1>1, <2>1, <2>4, LenProperties DEF CutAt
      <3> QED
        BY <1>1, <2>4, <3>1, KeepProperties
    <2>6. i' <= MaxBlocks
      BY <1>1, <2>1, CertBundleAssumption DEF BundleInv, FileInv
    <2>7. FileInv'
      BY <1>1, <2>1, <2>2, <2>5, <2>6 DEF BundleInv, FileInv
    <2> QED
      BY <1>1, <2>1, <2>2, <2>4, <2>7 DEF BundleInv, SelectInv
  <1>4. CASE OmitDone
    <2>1. i = 0 /\ i + 1 = 1 /\ i' = i /\ phase' = "root" /\ chain' = chain
      BY <1>1, <1>4 DEF OmitDone
    <2> QED
      BY <1>1, <1>2, <2>1 DEF BundleInv, FileInv, SelectInv
  <1> QED
    BY <1>3, <1>4

\* The end of the switch.
LEMMA SelectStep ==
  ASSUME BundleInv, DropRoot \/ TakeCount
  PROVE  BundleInv'
  <1>1. /\ certs \in Seq(Cert) /\ Len(certs) \in Nat \ {0} /\ include \in -3 .. Len(certs)
        /\ include \in Int /\ phase \in {"root", "take"} /\ phase' = "done"
        /\ file' = file /\ certs' = certs /\ include' = include /\ i' = i
    BY LenProperties DEF BundleInv, FileInv, SelectInv, DropRoot, TakeCount
  <1>2. EffectiveInclude(include, certs) = include
    BY <1>1, NormalInclude
  <1>3. /\ chain' \in Seq(Cert) /\ chain' = CertsForSignature(include, certs)
        /\ include = -3 => \E n : CutAt(certs, 1, n) /\ chain' = ChainWithoutRoot(Keep(certs, n))
    <2>1. CASE DropRoot /\ include = -3
      <3>1. PICK n : CutAt(certs, 1, n) /\ chain = Keep(certs, n)
        BY <2>1 DEF BundleInv, SelectInv, DropRoot
      <3>2. chain' = ChainWithoutRoot(Keep(certs, n))
        BY <2>1, <3>1 DEF DropRoot
      <3>3. chain' = CertsForSignature(include, certs)
        BY <1>1, <1>2, <2>1, <3>1, <3>2, FirstCut DEF CertsForSignature
      <3>4. n \in 1 .. Len(certs) /\ n \in 0 .. Len(certs) /\ n - 1 \in 0 .. Len(certs)
        BY <1>1, <3>1 DEF CutAt
      <3>5. chain' \in Seq(Cert)
        BY <1>1, <3>2, <3>4, WithoutRootType
      <3> QED
        BY <3>1, <3>2, <3>3, <3>5
    <2>2. CASE DropRoot /\ include # -3
      <3>1. include = -2 /\ chain' = ChainWithoutRoot(certs)
        BY <2>2 DEF BundleInv, SelectInv, DropRoot
      <3>2. chain' = CertsForSignature(include, certs)
        BY <1>2, <3>1 DEF CertsForSignature
      <3>3. Len(certs) \in 1 .. Len(certs) /\ Keep(certs, Len(certs)) = certs
        BY <1>1, KeepAll
      <3>4. chain' \in Seq(Cert)
        BY <1>1, <3>1, <3>3, WithoutRootType
      <3> QED
        BY <2>2, <3>2, <3>4
    <2>3. CASE TakeCount
      <3>1. include >= -1 /\ chain' = IF include = -1 THEN certs ELSE Keep(certs, include)
        BY <2>3 DEF BundleInv, SelectInv, TakeCount
      <3>2. include = -1 \/ include \in 0 .. Len(certs)
        BY <1>1, <3>1
      <3>3. chain' \in Seq(Cert)
        BY <1>1, <3>1, <3>2, KeepProperties
      <3>4. chain' = CertsForSignature(include, certs) /\ include # -3
        BY <1>1, <1>2, <3>1 DEF CertsForSignature
      <3> QED
        BY <3>3, <3>4
    <2> QED
      BY <2>1, <2>2, <2>3
  <1> QED
    BY <1>1, <1>3 DEF BundleInv, FileInv, SelectInv

\* Every step of the two loops.
LEMMA BundleNext == BundleInv /\ [Next]_vars => BundleInv'
  <1> SUFFICES ASSUME BundleInv, [Next]_vars PROVE BundleInv'
    OBVIOUS
  <1>1. CASE UNCHANGED vars
    BY <1>1 DEF vars, BundleInv, FileInv, SelectInv
  <1> QED
    BY <1>1, LoadStep, NormaliseStep, OmitLoop, SelectStep DEF Next

LEMMA Inductive == Spec => []BundleInv
  BY BundleInit, BundleNext, PTL DEF Spec

-----------------------------------------------------------------------------
(* Theorems *)

\* Every run of the two loops keeps the types, and the index stays within the slice
\* the loop shortens.
THEOREM Typing == Spec => []TypeOK
  <1>1. BundleInv => TypeOK
    <2> SUFFICES ASSUME BundleInv PROVE TypeOK
      OBVIOUS
    <2>1. i \in 0 .. MaxBlocks
      BY CertBundleAssumption DEF BundleInv, FileInv
    <2>2. ASSUME phase = "omit"
          PROVE  i + 1 <= Len(chain)
      <3>1. PICK n : CutAt(certs, i + 1, n) /\ chain = Keep(certs, n)
        BY <2>2 DEF BundleInv, SelectInv
      <3>2. certs \in Seq(Cert) /\ n \in 0 .. Len(certs) /\ i + 1 <= n
        BY <3>1, LenProperties DEF CutAt, BundleInv, FileInv
      <3> QED
        BY <3>1, <3>2, KeepProperties
    <2> QED
      BY <2>1, <2>2 DEF BundleInv, FileInv, TypeOK
  <1> QED
    BY <1>1, Inductive, PTL

\* The loops come to the closed form.
THEOREM Selected == Spec => []BundleIsSelection
  <1>1. BundleInv => BundleIsSelection
    BY DEF BundleInv, SelectInv, BundleIsSelection
  <1> QED
    BY <1>1, Inductive, PTL

\* What a finished selection is: the first n certificates of the chain, with n smaller
\* by one when the last of them is self-issued under -2 and -3.
LEMMA SelectionIsPrefix ==
  ASSUME BundleInv, phase = "done"
  PROVE  /\ certs \in Seq(Cert) /\ Len(certs) \in Nat \ {0}
         /\ include \in {-2, -3} =>
              \E n \in 1 .. Len(certs) :
                /\ chain = IF SelfIssued(certs[n]) THEN Keep(certs, n - 1) ELSE Keep(certs, n)
                /\ include = -2 => n = Len(certs)
         /\ include \notin {-2, -3} =>
              \E n \in 0 .. Len(certs) : chain = Keep(certs, n) /\ (n = 0 => include = 0)
  <1>1. /\ certs \in Seq(Cert) /\ Len(certs) \in Nat \ {0} /\ include \in -3 .. Len(certs)
        /\ include \in Int /\ chain = CertsForSignature(include, certs)
    BY LenProperties DEF BundleInv, FileInv, SelectInv
  <1>2. EffectiveInclude(include, certs) = include
    BY <1>1, NormalInclude
  <1>3. Keep(certs, Len(certs)) = certs /\ Len(certs) \in 1 .. Len(certs)
        /\ Len(certs) \in 0 .. Len(certs)
    BY <1>1, KeepAll
  <1>4. CASE include = -3
    <2>1. PICK n : CutAt(certs, 1, n) /\ chain = ChainWithoutRoot(Keep(certs, n))
      BY <1>4 DEF BundleInv, SelectInv
    <2>2. n \in 1 .. Len(certs)
      BY <2>1 DEF CutAt
    <2>3. chain = IF SelfIssued(certs[n]) THEN Keep(certs, n - 1) ELSE Keep(certs, n)
      BY <1>1, <2>1, <2>2, WithoutRootOfKeep
    <2> QED
      BY <1>1, <1>4, <2>2, <2>3
  <1>5. CASE include = -2
    <2>1. chain = ChainWithoutRoot(Keep(certs, Len(certs)))
      BY <1>1, <1>2, <1>3, <1>5 DEF CertsForSignature
    <2>2. chain = IF SelfIssued(certs[Len(certs)]) THEN Keep(certs, Len(certs) - 1)
                  ELSE Keep(certs, Len(certs))
      BY <1>1, <1>3, <2>1, WithoutRootOfKeep
    <2> QED
      BY <1>1, <1>3, <1>5, <2>2
  <1>6. CASE include \notin {-2, -3}
    <2>1. chain = IF include = -1 THEN certs ELSE Keep(certs, include)
      BY <1>1, <1>2, <1>6 DEF CertsForSignature
    <2>2. include = -1 \/ include \in 0 .. Len(certs)
      BY <1>1, <1>6
    <2> QED
      BY <1>1, <1>3, <1>6, <2>1, <2>2
  <1> QED
    BY <1>4, <1>5, <1>6

\* The certificates embedded start with the signer's own, unless none is asked for or
\* it is self-signed.
THEOREM LeafFirst == Spec => []LeafEmbedded
  <1>1. BundleInv => LeafEmbedded
    <2> SUFFICES ASSUME BundleInv, phase = "done", include # 0, ~SelfIssued(certs[1])
                 PROVE  chain # <<>> /\ chain[1] = certs[1]
      BY DEF LeafEmbedded
    <2>1. certs \in Seq(Cert) /\ Len(certs) \in Nat \ {0}
      BY SelectionIsPrefix
    <2>2. \E m \in 1 .. Len(certs) : chain = Keep(certs, m)
      <3>1. CASE include \in {-2, -3}
        <4>1. PICK n \in 1 .. Len(certs) :
                chain = IF SelfIssued(certs[n]) THEN Keep(certs, n - 1) ELSE Keep(certs, n)
          BY <3>1, SelectionIsPrefix
        <4>2. CASE SelfIssued(certs[n])
          <5>1. n # 1
            BY <4>2
          <5>2. n - 1 \in 1 .. Len(certs)
            BY <2>1, <5>1
          <5> QED
            BY <4>1, <4>2, <5>2
        <4>3. CASE ~SelfIssued(certs[n])
          BY <4>1, <4>3
        <4> QED
          BY <4>2, <4>3
      <3>2. CASE include \notin {-2, -3}
        <4>1. PICK n \in 0 .. Len(certs) : chain = Keep(certs, n) /\ (n = 0 => include = 0)
          BY <3>2, SelectionIsPrefix
        <4>2. n \in 1 .. Len(certs)
          BY <2>1, <4>1
        <4> QED
          BY <4>1, <4>2
      <3> QED
        BY <3>1, <3>2
    <2>3. PICK m \in 1 .. Len(certs) : chain = Keep(certs, m)
      BY <2>2
    <2>4. m \in 0 .. Len(certs) /\ 1 \in 1 .. m /\ m # 0
      BY <2>1
    <2>5. Len(chain) = m /\ chain[1] = certs[1] /\ chain \in Seq(Cert)
      BY <2>1, <2>3, <2>4, KeepProperties
    <2> QED
      BY <2>4, <2>5, EmptySeq
  <1> QED
    BY <1>1, Inductive, PTL

\* Of a chain in order no root is embedded under -2 and -3, and under -2 nothing but it
\* is left out.
THEOREM NoRoot == Spec => []RootStripped
  <1>1. BundleInv => RootStripped
    <2> SUFFICES ASSUME BundleInv, phase = "done", Ordered(certs), include \in {-2, -3}
                 PROVE  /\ \A k \in 1 .. Len(chain) : ~SelfIssued(chain[k])
                        /\ include = -2 => Len(chain) >= Len(certs) - 1
      BY DEF RootStripped
    <2>1. certs \in Seq(Cert) /\ Len(certs) \in Nat \ {0}
      BY SelectionIsPrefix
    <2>2. PICK n \in 1 .. Len(certs) :
            /\ chain = IF SelfIssued(certs[n]) THEN Keep(certs, n - 1) ELSE Keep(certs, n)
            /\ include = -2 => n = Len(certs)
      BY SelectionIsPrefix
    <2> DEFINE m == IF SelfIssued(certs[n]) THEN n - 1 ELSE n
    <2>3. chain = Keep(certs, m) /\ m \in 0 .. Len(certs)
      BY <2>1, <2>2
    <2>4. Len(chain) = m /\ \A k \in 1 .. m : chain[k] = certs[k]
      <3> HIDE DEF m
      <3> QED
        BY <2>1, <2>3, KeepProperties
    <2>5. \A k \in 1 .. m : ~SelfIssued(certs[k])
      <3> TAKE k \in 1 .. m
      <3>1. CASE k = n
        BY <2>1, <3>1
      <3>2. CASE k # n
        <4>1. k \in 1 .. Len(certs) - 1
          BY <2>1, <3>2
        <4> QED
          BY <4>1 DEF Ordered
      <3> QED
        BY <3>1, <3>2
    <2>6. include = -2 => m >= Len(certs) - 1
      BY <2>1, <2>2
    <2> HIDE DEF m
    <2>7. \A k \in 1 .. Len(chain) : ~SelfIssued(chain[k])
      <3> TAKE k \in 1 .. Len(chain)
      <3>1. k \in 1 .. m /\ chain[k] = certs[k]
        BY <2>4
      <3> QED
        BY <2>5, <3>1
    <2> QED
      BY <2>4, <2>6, <2>7
  <1> QED
    BY <1>1, Inductive, PTL
=============================================================================
