------------------------- MODULE MCSignatureVerify -------------------------
(* Calls of Verify for TLC: a root, two intermediates, three leaves and two *)
(* timestamp authorities; time runs from 1 to 5, the present.               *)
EXTENDS SignatureVerify

CONSTANTS m1, m2    \* messages

Certificate(subject, issuer, serial, key, signedBy, from, to, ca, usages) ==
  [subject |-> subject, issuer |-> issuer, serial |-> serial, ski |-> key, key |-> key,
   signedBy |-> signedBy, notBefore |-> from, notAfter |-> to, ca |-> ca, usages |-> usages]

Root    == Certificate("root", "root", 1, "kr", "kr", 1, 9, TRUE, {"stamping"})
Inter   == Certificate("int", "root", 2, "ki", "kr", 1, 9, TRUE, {"stamping"})
Inter2  == Certificate("int2", "root", 3, "kj", "kr", 1, 9, TRUE, {"stamping"})
Leaf    == Certificate("leaf", "int", 4, "kl", "ki", 1, 9, FALSE, {})
Expired == Certificate("old", "int", 5, "ko", "ki", 1, 3, FALSE, {})
Other   == Certificate("other", "int2", 6, "km", "kj", 1, 9, FALSE, {})
TSA     == Certificate("tsa", "int2", 7, "kt", "kj", 1, 9, FALSE, {"stamping"})
OldTSA  == Certificate("tsa", "int2", 8, "kt", "kj", 1, 4, FALSE, {"stamping"})

SID(cert) == [issuer |-> cert.issuer, serial |-> cert.serial]
Sig(cert, over) == [key |-> cert.key, over |-> over]
Attrs(m) == [type |-> "data", digest |-> m]

Plain(cert, m) ==
  [version |-> 1, sid |-> SID(cert), attrs |-> Attrs(m), digestAlg |-> "known",
   sigAlg |-> "known", sig |-> Sig(cert, Attrs(m)), tokens |-> <<>>]

\* What can be different about a signature.
Variants(cert) ==
  LET good == Plain(cert, m1)
  IN { good, Plain(cert, m2),
       [good EXCEPT !.sig = Sig(Inter, Attrs(m1))],
       [good EXCEPT !.sig = Sig(cert, Attrs(m2))],
       [good EXCEPT !.attrs = NoAttrs, !.sig = Sig(cert, m1)],
       [good EXCEPT !.attrs = [type |-> "tst", digest |-> m1]],
       [good EXCEPT !.attrs = [type |-> Missing, digest |-> m1]],
       [good EXCEPT !.attrs = [type |-> "data", digest |-> Missing]],
       [good EXCEPT !.version = 3, !.sid = [bytes |-> cert.ski]],
       [good EXCEPT !.version = 2],
       [good EXCEPT !.digestAlg = "unknown"],
       [good EXCEPT !.sigAlg = "unknown"] }

Info(sig, gen, accuracy) ==
  [version |-> 1, genTime |-> gen, accuracy |-> accuracy, imprint |-> sig]

Stamp(by, info, certs) ==
  LET attrs == [type |-> "tst", digest |-> info]
  IN [parses |-> TRUE, type |-> "tst", info |-> info, certs |-> certs,
      signer |-> [version |-> 1, sid |-> SID(by), attrs |-> attrs, digestAlg |-> "known",
                  sigAlg |-> "known", sig |-> Sig(by, attrs)]]

Tokens(sig) ==
  { Stamp(TSA, Info(sig, 2, 0), <<TSA, Inter2>>), Stamp(TSA, Info(sig, 2, 1), <<TSA, Inter2>>),
    Stamp(TSA, Info(sig, 2, 2), <<TSA, Inter2>>), Stamp(TSA, Info(sig, 4, 0), <<TSA, Inter2>>),
    Stamp(TSA, Info(sig, 2, 15), <<TSA, Inter2>>), Stamp(TSA, Info(sig, 2, 20), <<TSA, Inter2>>),
    Stamp(TSA, Info(sig, 4, -1), <<TSA, Inter2>>),
    Stamp(TSA, Info(sig, 2, 0), <<TSA>>), Stamp(OldTSA, Info(sig, 2, 0), <<OldTSA, Inter2>>),
    Stamp(Leaf, Info(sig, 2, 0), <<Leaf, Inter>>),
    Stamp(TSA, Info(Sig(Inter, Attrs(m2)), 2, 0), <<TSA, Inter2>>),
    Stamp(TSA, [Info(sig, 2, 0) EXCEPT !.version = 2], <<TSA, Inter2>>),
    [Stamp(TSA, Info(sig, 2, 0), <<TSA, Inter2>>) EXCEPT !.parses = FALSE],
    [Stamp(TSA, Info(sig, 2, 0), <<TSA, Inter2>>) EXCEPT !.type = "data"],
    [Stamp(TSA, Info(sig, 2, 0), <<TSA, Inter2>>) EXCEPT !.signer.sig = Sig(Inter, Attrs(m1))] }

Stamped(si) == {[si EXCEPT !.tokens = <<t>>] : t \in Tokens(si.sig)}
                 \cup {[si EXCEPT !.tokens = <<t, t>>] :
                         t \in {Stamp(TSA, Info(si.sig, 2, 0), <<TSA, Inter2>>)}}

Leaves == {Leaf, Expired, Other}
Singles == UNION {Variants(c) \cup Stamped(Plain(c, m1)) : c \in Leaves}
Few == {Plain(c, m1) : c \in Leaves}
Signers == {<<>>} \cup {<<si>> : si \in Singles}
             \cup {<<si, s2>> : si \in Singles, s2 \in Few}
             \cup {<<si, s2>> : si \in Few, s2 \in Singles}

Object(type, content, certs, parse, signers) ==
  [type |-> type, content |-> content, certs |-> certs, certsParse |-> parse, signers |-> signers]
MkCall(sd, message, roots, given, t) ==
  [sd |-> sd, message |-> message, roots |-> roots, given |-> given, time |-> t]

CertLists == { <<Leaf, Expired, Other, Inter>>, <<Inter, Leaf, Expired, Other, Inter2>>,
               <<Leaf, Expired, Other>>, <<>> }

MCCalls ==
  {MkCall(Object("data", NoContent, certs, TRUE, s), m1, {Root}, {}, 0) :
     certs \in CertLists, s \in Signers}
  \cup
  {MkCall(Object("data", NoContent, <<Leaf, Expired, Other>>, TRUE, s), m1, roots, given, t) :
     roots \in {{}, {Root}, {Root, Leaf}}, given \in {{}, {Inter}}, t \in {0, 2, 4},
     s \in {<<si>> : si \in Singles} \cup {<<si, s2>> : si \in Few, s2 \in Few}}
  \cup
  {MkCall(Object(type, content, <<Leaf, Inter>>, parse, s), message, {Root}, {}, 0) :
     type \in {"data", "tst"}, content \in {m1, m2, NoContent, Malformed},
     parse \in BOOLEAN, message \in {m1, NoContent},
     s \in {<<>>, <<Plain(Leaf, m1)>>, <<[Plain(Leaf, m1) EXCEPT !.attrs = NoAttrs]>>}}
=============================================================================
