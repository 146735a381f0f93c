-------------------------- MODULE MCCommandVerify --------------------------
(* Runs of --verify for TLC, with the signatures of MCSignatureVerify.      *)
EXTENDS CommandVerify

CONSTANTS m1, m2

MC == INSTANCE MCSignatureVerify

Good == MC!Plain(MC!Leaf, m1)
Old == MC!Plain(MC!Expired, m1)

\* Good and bad ones, by one or two signers, with and without a timestamp.
SignerLists ==
  { <<>>, <<Old>>, <<Good, Good>>, <<Good, Old>> }
  \cup {<<si>> : si \in MC!Variants(MC!Leaf) \cup MC!Stamped(Old)}
  \cup {<<si, Good>> : si \in MC!Stamped(Old)}
  \cup {<<Good, si>> : si \in MC!Variants(MC!Leaf)}

Objects ==
  {MC!Object("data", content, certs, TRUE, s) :
     content \in {m1, NoContent}, s \in SignerLists,
     certs \in {<<MC!Leaf, MC!Expired, MC!Inter>>, <<MC!Leaf, MC!Expired>>}}

Detached(content) ==
  MC!Object("data", content, <<MC!Leaf, MC!Inter>>, TRUE, <<Good>>)

MCRuns ==
  {[args |-> IF sd.content = NoContent THEN 2 ELSE 1, signature |-> sd, message |-> m1,
    idents |-> own, statusFd |-> TRUE] : sd \in Objects, own \in {{}, {MC!Leaf}}}
  \cup
  [args : {0, 1, 2}, message : {m1, m2, Absent}, idents : {{}}, statusFd : BOOLEAN,
   signature : {Absent, Unparsable, Detached(m1), Detached(NoContent)}]

MCRoots == {MC!Root}
=============================================================================
