--------------------------- MODULE CertSelection ---------------------------
(***************************************************************************)
(* The pure part of --include-certs (command_sign.go): which prefix of the *)
(* signer's certificate chain goes into the signature.  A chain is a       *)
(* sequence of certificates, leaf first; a certificate is a record with at *)
(* least the fields subject, issuer (raw distinguished names) and aia      *)
(* (whether it carries an Authority Information Access CA-issuers URL).    *)
(***************************************************************************)
EXTENDS Integers, Sequences

\* bytes.Equal(last.RawIssuer, last.RawSubject)
SelfIssued(cert) == cert.issuer = cert.subject

\* The first n certificates, Go's chain[0:n].
Keep(chain, n) == SubSeq(chain, 1, n)

\* Mutant of ChainWithoutRoot: the last certificate goes, root or not.
ChainWithoutLast(chain) ==
  IF Len(chain) > 0 THEN Keep(chain, Len(chain) - 1) ELSE chain

\* Mutant of ChainWithoutRoot: it looks at the first certificate.
ChainWithoutRootFirst(chain) ==
  IF Len(chain) > 0 /\ SelfIssued(chain[1])
  THEN Keep(chain, Len(chain) - 1)
  ELSE chain

\* chainWithoutRoot: drop the last certificate when it is self-issued, even
\* when it is the only one.
ChainWithoutRoot(chain) ==
  IF Len(chain) > 0 /\ SelfIssued(chain[Len(chain)])
  THEN Keep(chain, Len(chain) - 1)
  ELSE chain

\* chain[i] names chain[i + 1] as its issuer and says where to fetch it.
IssuerFetchable(chain, i) ==
  /\ chain[i].issuer = chain[i + 1].subject
  /\ chain[i].aia

\* The loop of case -3 runs from the root end to the leaf and cuts the chain
\* at every fetchable issuer, so what is left ends at the first of them.
OmitIssuers(chain) ==
  LET cuts == {i \in 1 .. Len(chain) - 1 : IssuerFetchable(chain, i)}
  IN IF cuts = {} THEN chain
     ELSE Keep(chain, CHOOSE i \in cuts : \A j \in cuts : i <= j)

\* The normalisation before the switch: anything below -3 is the default.
EffectiveInclude(include, chain) ==
  IF include < -3 THEN -2
  ELSE IF include > Len(chain) THEN Len(chain)
  ELSE include

\* certsForSignature.
CertsForSignature(include, chain) ==
  LET n == EffectiveInclude(include, chain)
  IN CASE n = -3 -> ChainWithoutRoot(OmitIssuers(chain))
       [] n = -2 -> ChainWithoutRoot(chain)
       [] n = -1 -> chain
       [] OTHER  -> Keep(chain, n)
============================================================================
