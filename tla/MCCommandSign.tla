--------------------------- MODULE MCCommandSign ---------------------------
(* Runs of commandSign for TLC.                                            *)
EXTENDS CommandSign

CONSTANTS m1, m2, n1, old   \* model values: messages and nonces

MCMessage == {m1, m2}
MCNonce == {n1, old}
MCStale == {old}

Certificate(subject, issuer, aia, key) ==
  [subject |-> subject, issuer |-> issuer, serial |-> 1, aia |-> aia,
   key |-> key, alg |-> "RSA"]

\* A leaf issued by a CA, with its chain, and a self-signed one, each for the
\* vault's first key version.
Issued == << Certificate("leaf", "int", FALSE, 1), Certificate("int", "root", FALSE, 2),
             Certificate("root", "root", FALSE, 2) >>
SelfSigned == << Certificate("self", "self", FALSE, 1) >>

MCOptions ==
  [user : {"known"}, detach : BOOLEAN, tsa : BOOLEAN, statusFd : BOOLEAN,
   include : {-2, 0}, version : {Latest, 1}, chain : {Issued}]
  \cup
  [user : {"known"}, detach : {TRUE}, tsa : {FALSE}, statusFd : {TRUE},
   include : {-3, -1, 2}, version : {2}, chain : {Issued, SelfSigned}]
  \cup
  [user : {"unknown", "malformed"}, detach : {FALSE}, tsa : {FALSE}, statusFd : {TRUE},
   include : {-2}, version : {Latest}, chain : {Issued}]

\* Fewer ways to start, for the rotation.
MCFewOptions ==
  [user : {"known"}, detach : {TRUE}, tsa : BOOLEAN, statusFd : {TRUE},
   include : {-2}, version : {Latest, 1}, chain : {Issued}]
============================================================================
