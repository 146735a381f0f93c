---------------------------- MODULE SystemStore ----------------------------
(***************************************************************************)
(* What the Windows and macOS builds of certstore have in common: the      *)
(* user's certificates and private keys, which the system keeps and other  *)
(* programs share, and the identities a caller holds.  An identity's       *)
(* fields are references of the system's that Go does not collect.         *)
(***************************************************************************)
EXTENDS Integers, Sequences, FiniteSets

CONSTANTS Item,      \* certificates that have a private key of their own
          Ca,        \* certificates of authorities, without one
          Path,      \* the chain the system finds for an item, itself first
          Hashes,    \* what signers are asked for; SHA-224 is one they do not know
          KeyType,   \* of each item's key: "rsa" or "ecdsa"
          Systems,   \* subset of {"windows", "darwin"}
          MaxIdents  \* bound: identities ever listed

ASSUME SystemStoreAssumption ==
  /\ Item \cap Ca = {} /\ Item # {} /\ IsFiniteSet(Item)
  /\ KeyType \in [Item -> {"rsa", "ecdsa"}]
  /\ \A item \in Item : Path[item][1] = item
  /\ Systems \subseteq {"windows", "darwin"}
  /\ MaxIdents \in Nat /\ Hashes \subseteq {"SHA1", "SHA224", "SHA256", "SHA384", "SHA512"}

VARIABLES os,
          certs, keys, \* in the user's store; a key is named by its item
          gone,        \* history: certificates other programs have removed
          store,       \* "none", "open", "closed"
          idents,      \* the identities listed, as the Go objects
          call,        \* the call in progress
          answer       \* of the last call

world == <<os, certs, keys, gone>>
vars == <<world, store, idents, call, answer>>

\* A PKCS#12 file: a certificate with its key, and what the file holds besides.
Files == [item : Item, more : {{}, Ca}]
Copied(file) == {file.item} \cup file.more

\* "ref": the identity, or on Windows the contexts of its chain; "key": the private
\* key; "cert": the certificate.
Resource == {"ref", "key", "cert"}

NoPath == <<>>

\* An identity: its non-nil fields; owned, how many references of each kind it has
\* been given and not released; spent, whether NCryptDeleteKey freed its handle;
\* signed, whether the caller has its signer.
Ident(item, path) ==
  [item |-> item, path |-> path, state |-> "open", api |-> "none",
   fields |-> {}, owned |-> [r \in Resource |-> 0],
   spent |-> FALSE, signer |-> FALSE]

\* A function of the system gives a reference, and it is kept in a field.
Keep(d, r) == [d EXCEPT !.fields = @ \cup {r}, !.owned[r] = @ + 1]

\* if x != nil { release(x); x = nil }
Release(d, rs) ==
  [d EXCEPT !.fields = @ \ rs,
            !.owned = [r \in Resource |-> IF r \in rs \cap d.fields THEN @[r] - 1 ELSE @[r]]]

\* Each import makes a key of its own: an item stands for one import.
Fresh(item) ==
  item \notin certs \cup keys \cup gone /\ \A i \in DOMAIN idents : idents[i].item # item

NoCall == [op |-> "none"]
NoAnswer == [op |-> "none", ok |-> FALSE, value |-> "none", moved |-> FALSE]
Idle == call = NoCall
Usable(i) == i \in DOMAIN idents /\ idents[i].state = "open" /\ Idle

Answer(op, value) == answer' = [op |-> op, ok |-> TRUE, value |-> value, moved |-> FALSE]
\* A call that fails, or has nothing to answer.
Fails == answer' = NoAnswer
Done == answer' = NoAnswer

Put(i, d) == idents' = [idents EXCEPT ![i] = d]

Init ==
  /\ os \in Systems
  /\ certs \in SUBSET Item /\ keys = certs /\ gone = {}
  /\ store = "none" /\ idents = <<>>
  /\ call = NoCall /\ answer = NoAnswer

\* Another program deletes a certificate, with its key or without.
OtherProgram ==
  /\ \E c \in certs :
       /\ certs' = certs \ {c} /\ gone' = gone \cup {c}
       /\ keys' \in {keys, keys \ {c}}
  /\ UNCHANGED <<os, store, idents, call, answer>>

-----------------------------------------------------------------------------
(* Signatures *)

Known == {"SHA1", "SHA256", "SHA384", "SHA512"}

Signature(item, hash, form, order) ==
  [item |-> item, hash |-> hash, form |-> form, order |-> order]

\* What crypto.Signer returns for a key: PKCS#1 v1.5, or the DER of an
\* Ecdsa-Sig-Value, its numbers most significant octet first.
Standard(item, hash) ==
  Signature(item, hash, IF KeyType[item] = "rsa" THEN "pkcs1" ELSE "der", "big")
=============================================================================
