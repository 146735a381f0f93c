-------------------------------- MODULE X509 --------------------------------
(***************************************************************************)
(* What the program asks of Go's crypto/x509: whether a path leads from a  *)
(* certificate to a trusted root at a given time and for a given use.      *)
(*                                                                         *)
(* A certificate is a record with the fields subject, issuer, serial, ski  *)
(* (its subject key identifier), key, signedBy (the key its own signature  *)
(* verifies with), notBefore, notAfter, ca and usages.                     *)
(***************************************************************************)
EXTENDS Integers

ValidAt(cert, t) == cert.notBefore <= t /\ t <= cert.notAfter

Issues(parent, child) ==
  /\ parent.ca
  /\ parent.subject = child.issuer
  /\ parent.key = child.signedBy

Permits(cert, usage) == usage = "any" \/ usage \in cert.usages

\* The certificates a path from a root reaches, at time t and for the usage, when
\* every one between the two comes from pool: those that no set which has whatever
\* it and the roots issue can be without.
Reached(roots, pool, t, usage) ==
  LET Fit(certs) == {c \in certs : ValidAt(c, t) /\ Permits(c, usage)}
      IsClosed(S) == \A c \in Fit(pool) :
                       (\E p \in Fit(roots) \cup S : Issues(p, c)) => c \in S
  IN Fit(roots) \cup {c \in Fit(pool) : \A S \in SUBSET Fit(pool) : IsClosed(S) => c \in S}

\* Certificate.Verify finds a chain: the certificate is a root itself, or one it
\* reaches has issued it.
ChainExists(cert, roots, pool, t, usage) ==
  /\ ValidAt(cert, t) /\ Permits(cert, usage)
  /\ \/ cert \in roots
     \/ \E p \in Reached(roots, pool, t, usage) : Issues(p, cert)
=============================================================================
