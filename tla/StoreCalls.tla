----------------------------- MODULE StoreCalls -----------------------------
(***************************************************************************)
(* A caller of certstore on Windows or macOS, making the calls its         *)
(* interfaces allow in any order: none but Close on an identity that is    *)
(* closed or deleted, a failed Delete tried again, identities listed twice *)
(* or kept while the store changes.                                        *)
(***************************************************************************)
EXTENDS WinStore, MacStore

Next == \/ os = "windows" /\ WinNext
        \/ os = "darwin" /\ MacNext
        \/ OtherProgram

Spec == Init /\ [][Next]_vars

-----------------------------------------------------------------------------
(* Properties *)

Thing(x) == CASE x \in certs /\ x \in keys -> "whole"
              [] x \notin certs /\ x \in keys -> "key"
              [] x \in certs /\ x \notin keys -> "certificate"
              [] OTHER -> "none"

Promise == INSTANCE StorePromise WITH
  things  <- [x \in Item |-> Thing(x)],
  calling <- IF call.op \in {"import", "delete"} THEN [op |-> call.op, item |-> call.item]
             ELSE [op |-> "none", item |-> "none"],
  lost    <- gone \cap Item,
  replied <- IF answer.ok /\ answer.op = "import"
             THEN [op |-> "import", item |-> answer.value.item]
             ELSE IF answer.ok /\ answer.op = "delete"
             THEN [op |-> "delete", item |-> answer.value]
             ELSE [op |-> "none", item |-> "none"]

\* What a caller may rely on whatever fails between the steps of Delete and Import:
\* a key goes after its certificate, a call changes no other identity, and nil from
\* Delete means that both are gone.
KeepsPromise == Promise!Spec

\* Every reference the system gave is owned once by the field that holds it, and by
\* nobody once the identity is closed, by the failing end of Identities too: nothing
\* is released twice, used after its release or forgotten.  The one exception is the
\* handle NCryptDeleteKey has freed.
OwnedOnce(d) ==
  /\ \A r \in Resource :
       LET kept == IF r \in d.fields THEN 1 ELSE 0
       IN d.owned[r] = IF r = "key" /\ d.spent THEN kept - 1 ELSE kept
  /\ d.state = "closed" => d.fields = {}
  /\ d.spent => d.api = "cng" /\ d.state # "open"

FieldsOwn ==
  /\ \A i \in DOMAIN idents : OwnedOnce(idents[i])
  /\ call.op = "identities" => \A k \in DOMAIN call.new : OwnedOnce(call.new[k])

\* A list returned without an error names every identity the store still has, and
\* nothing of an imported file is missing, unless the last error was read on another
\* thread than the one that had it.
CompleteOrError ==
  answer.ok /\ ~answer.moved =>
    /\ answer.op = "identities" => certs \cap keys \subseteq answer.value
    /\ answer.op = "import" => answer.value.file \subseteq certs \cup gone

\* Every signature is in the one form crypto.Signer has for its kind of key, over the
\* hash asked for: of the three interfaces, each has its own form and its own hashes.
SignsAsAsked ==
  answer.op = "sign" /\ answer.ok =>
    answer.value.sig = Standard(answer.value.item, answer.value.hash)

\* "Delete deletes this identity from the system" (certstore.go:44), an identity being
\* a certificate and its key (33): a Delete that fails does not leave a key whose
\* certificate it has taken, which no list of identities names any more.
\* It does not hold of the code: see "Divergences" in the README.
NoOrphanKey ==
  [][call.op = "delete" /\ call' = NoCall /\ call.item \in keys'
       => call.item \in certs' \cup gone']_<<world, call>>

\* "first chain cert should be leaf" (certstore_test.go:287).
\* It does not hold of the code: see "Divergences" in the README.
ChainStartsWithLeaf ==
  answer.op = "chain" /\ answer.ok =>
    answer.value.path # <<>> /\ answer.value.path[1] = answer.value.item

\* "Close any manually managed memory held by the Identity" (certstore.go:47), and
\* once.
\* It does not hold of the code: see "Divergences" in the README.
NeverReleasedTwice == \A i \in DOMAIN idents, r \in Resource : idents[i].owned[r] >= 0
=============================================================================
