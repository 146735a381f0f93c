----------------------------- MODULE CertBundle -----------------------------
(***************************************************************************)
(* From the PEM file to the certificates embedded in a signature: the      *)
(* block loop of azuresign.LoadCertificates followed by certsForSignature, *)
(* with the backward loop of --include-certs=-3 taken one iteration at a   *)
(* time.  CertSelection gives the closed form the loop is compared with.   *)
(***************************************************************************)
EXTENDS CertSelection, FiniteSets

CONSTANTS Cert,       \* the certificates a PEM block can hold
          MaxBlocks,  \* bound: PEM blocks in the file
          Includes    \* the values of --include-certs tried

ASSUME CertBundleAssumption ==
  /\ MaxBlocks \in Nat
  /\ Includes \subseteq Int
  /\ \A c \in Cert : c.aia \in BOOLEAN

Other   == [type |-> "PRIVATE KEY"]      \* skipped by LoadCertificates
Garbage == [type |-> "BROKEN"]           \* a CERTIFICATE that does not parse
Block(c) == [type |-> "CERTIFICATE", cert |-> c]
Blocks == {Other, Garbage} \cup {Block(c) : c \in Cert}

VARIABLES file,     \* the PEM blocks not read yet
          certs,    \* the certificates read: the identity's chain
          include,  \* --include-certs, then its normalised value
          chain,    \* what certsForSignature has kept so far
          i,        \* its loop variable
          phase     \* where the program is

vars == <<file, certs, include, chain, i, phase>>

Init ==
  /\ file \in UNION {[1 .. n -> Blocks] : n \in 0 .. MaxBlocks}
  /\ include \in Includes
  /\ certs = <<>>
  /\ chain = <<>>
  /\ i = 0
  /\ phase = "load"

\* Blocks of another type are passed over.
SkipBlock ==
  /\ phase = "load" /\ file # <<>> /\ Head(file) = Other
  /\ file' = Tail(file)
  /\ UNCHANGED <<certs, include, chain, i, phase>>

AppendCertificate ==
  /\ phase = "load" /\ file # <<>> /\ Head(file).type = "CERTIFICATE"
  /\ file' = Tail(file)
  /\ certs' = Append(certs, Head(file).cert)
  /\ UNCHANGED <<include, chain, i, phase>>

\* One unparsable certificate fails the whole file.
RejectBlock ==
  /\ phase = "load" /\ file # <<>> /\ Head(file) = Garbage
  /\ phase' = "error"
  /\ certs' = <<>>
  /\ UNCHANGED <<file, include, chain, i>>

NoCertificates ==
  /\ phase = "load" /\ file = <<>> /\ certs = <<>>
  /\ phase' = "error"
  /\ UNCHANGED <<file, certs, include, chain, i>>

\* Mutant of Normalise: the loop variable starts one past the last index.
NormalisePast ==
  /\ phase = "load" /\ file = <<>> /\ certs # <<>>
  /\ chain' = certs
  /\ include' = EffectiveInclude(include, certs)
  /\ i' = Len(certs)
  /\ phase' = CASE include' = -3 -> "omit"
                [] include' = -2 -> "root"
                [] OTHER -> "take"
  /\ UNCHANGED <<file, certs>>

\* certsForSignature is called with the whole chain; the switch picks the loop
\* only for -3.
Normalise ==
  /\ phase = "load" /\ file = <<>> /\ certs # <<>>
  /\ chain' = certs
  /\ include' = EffectiveInclude(include, certs)
  /\ i' = Len(certs) - 1
  /\ phase' = CASE include' = -3 -> "omit"
                [] include' = -2 -> "root"
                [] OTHER -> "take"
  /\ UNCHANGED <<file, certs>>

\* Mutant of OmitStep: the issuer itself is kept.
OmitStepKeepsIssuer ==
  /\ phase = "omit" /\ i > 0
  /\ chain' = IF IssuerFetchable(chain, i) THEN Keep(chain, i + 1) ELSE chain
  /\ i' = i - 1
  /\ UNCHANGED <<file, certs, include, phase>>

\* for i := len(chain) - 1; i > 0; i--, in the code's 0-based indices: issuer
\* is chain[i], which is position i + 1 here.
OmitStep ==
  /\ phase = "omit" /\ i > 0
  /\ chain' = IF IssuerFetchable(chain, i) THEN Keep(chain, i) ELSE chain
  /\ i' = i - 1
  /\ UNCHANGED <<file, certs, include, phase>>

OmitDone ==
  /\ phase = "omit" /\ i = 0
  /\ phase' = "root"
  /\ UNCHANGED <<file, certs, include, chain, i>>

DropRoot ==
  /\ phase = "root"
  /\ chain' = ChainWithoutRoot(chain)
  /\ phase' = "done"
  /\ UNCHANGED <<file, certs, include, i>>

TakeCount ==
  /\ phase = "take"
  /\ chain' = IF include = -1 THEN chain ELSE Keep(chain, include)
  /\ phase' = "done"
  /\ UNCHANGED <<file, certs, include, i>>

Next == \/ SkipBlock \/ AppendCertificate \/ RejectBlock \/ NoCertificates
        \/ Normalise \/ OmitStep \/ OmitDone \/ DropRoot \/ TakeCount

Spec == Init /\ [][Next]_vars

-----------------------------------------------------------------------------
(* Properties *)

\* Every variable has its type; in particular the loop index never leaves the
\* chain, so chain[i] and chain[i-1] in case -3 cannot panic.
TypeOK ==
  /\ file \in Seq(Blocks) /\ certs \in Seq(Cert) /\ chain \in Seq(Cert)
  /\ include \in Int
  /\ i \in 0 .. MaxBlocks
  /\ phase \in {"load", "omit", "root", "take", "done", "error"}
  /\ phase = "omit" => i + 1 <= Len(chain)

\* The backward loop, which shortens the slice it walks over, computes the
\* closed form: the chain up to the first fetchable issuer, less a root.
BundleIsSelection ==
  phase = "done" => chain = CertsForSignature(include, certs)

\* However the certificates are chosen, the signer's own certificate is the
\* first one embedded, unless the user asked for none or it is self-signed.
LeafEmbedded ==
  phase = "done" /\ include # 0
    => SelfIssued(certs[1]) \/ (chain # <<>> /\ chain[1] = certs[1])

\* A chain in order: each certificate is followed by its issuer, and only the
\* last one may be self-issued.
Ordered(c) == \A k \in 1 .. Len(c) - 1 :
                c[k].issuer = c[k + 1].subject /\ ~SelfIssued(c[k])

\* "-2 includes all certs except root" (main.go, --include-certs): of a chain in
\* order no root is embedded under -2 or -3, and under -2 nothing else is lost.
RootStripped ==
  phase = "done" /\ Ordered(certs) /\ include \in {-2, -3}
    => /\ \A k \in 1 .. Len(chain) : ~SelfIssued(chain[k])
       /\ include = -2 => Len(chain) >= Len(certs) - 1

\* What the help text of --include-certs says of -3 (main.go): it "is the same
\* as -2, but ommits issuer when cert has Authority Information Access
\* extension", so each certificate missing compared with -2 is the issuer of a
\* certificate with that extension.
\* It does not hold of the code: see "Divergences" in the README.
OmitsOnlyFetchable ==
  phase = "done" /\ include = -3
    => \A k \in Len(chain) + 1 .. Len(ChainWithoutRoot(certs)) :
         k > 1 => certs[k - 1].aia
=============================================================================
