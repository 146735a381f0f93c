------------------------------ MODULE MacStore ------------------------------
(***************************************************************************)
(* certstore_darwin.go: macStore and macIdentity over the keychain.  The   *)
(* store is no object, an identity is its own signer, and each call is one *)
(* of the keychain's.  References that live no longer than a call are left *)
(* out.                                                                    *)
(***************************************************************************)
EXTENDS SystemStore

MacOpen ==
  /\ store = "none"
  /\ store' = "open" /\ Done
  /\ UNCHANGED <<world, idents, call>>

MacCloseStore ==
  /\ store = "open"
  /\ store' = "closed" /\ Done
  /\ UNCHANGED <<world, idents, call>>

NewMacIdentity(item) == Keep(Ident(item, NoPath), "ref")

\* SecItemCopyMatching: the pairs of a certificate and its key, in any order, an
\* empty list where it finds none.
MacIdentities ==
  /\ store = "open"
  /\ LET found == certs \cap keys
     IN \/ /\ Len(idents) + Cardinality(found) <= MaxIdents
           /\ \E order \in {f \in [1 .. Cardinality(found) -> found] :
                              \A x \in found : \E k \in DOMAIN f : f[k] = x} :
                idents' = idents \o [k \in DOMAIN order |-> NewMacIdentity(order[k])]
           /\ Answer("identities", found)
        \/ Fails /\ UNCHANGED idents
  /\ UNCHANGED <<world, store, call>>

MacImport ==
  /\ store = "open"
  /\ \E file \in Files :
       /\ Fresh(file.item)
       /\ \/ /\ certs' = certs \cup Copied(file) /\ keys' = keys \cup {file.item}
             /\ Answer("import", [item |-> file.item, file |-> Copied(file)])
          \/ Fails /\ UNCHANGED <<certs, keys>>
  /\ UNCHANGED <<os, gone, store, idents, call>>

\* getCertRef, getKeyRef: copied once, then kept, also when a later step of the call
\* fails.
Cached(d, r) == IF r \in d.fields THEN d ELSE Keep(d, r)

\* A call that needs these references, got one after the other; it fails after any
\* of them.
MacFails(i, needed) ==
  /\ \E n \in 0 .. Len(needed) :
       Put(i, IF n = 0 THEN idents[i]
              ELSE IF n = 1 THEN Cached(idents[i], needed[1])
              ELSE Cached(Cached(idents[i], needed[1]), needed[2]))
  /\ Fails

\* Signer, which reads the certificate first, and Certificate.
MacSigner(i) ==
  /\ Usable(i)
  /\ \/ /\ Put(i, [Cached(idents[i], "cert") EXCEPT !.signer = TRUE])
        /\ Done
     \/ MacFails(i, <<"cert">>)
  /\ UNCHANGED <<world, store, call>>

\* CertificateChain: SecTrustEvaluateWithError is true of a trusted certificate, and
\* there is no error to return then.
MacChain(i) ==
  /\ Usable(i)
  /\ LET d == Cached(idents[i], "cert")
         chain(path) == Answer("chain", [item |-> d.item, path |-> path])
     IN \/ d.path # NoPath /\ chain(d.path) /\ UNCHANGED idents
        \/ /\ d.path = NoPath
           /\ \/ chain(NoPath) /\ Put(i, d)
              \/ chain(Path[d.item]) /\ Put(i, [d EXCEPT !.path = Path[d.item]])
              \/ MacFails(i, <<"cert">>)
  /\ UNCHANGED <<world, store, call>>

\* getAlgo: four hashes for either type of key.
MacSignatures(item, hash) ==
  IF hash \in Known THEN {Standard(item, hash)} ELSE {}

\* getKeyRef, then getAlgo, which reads the certificate.
MacSign(i) ==
  /\ Usable(i) /\ idents[i].signer
  /\ \/ \E hash \in Hashes : \E sig \in MacSignatures(idents[i].item, hash) :
          /\ Put(i, Cached(Cached(idents[i], "key"), "cert"))
          /\ Answer("sign", [item |-> idents[i].item, hash |-> hash, sig |-> sig])
     \/ MacFails(i, <<"key", "cert">>)
  /\ UNCHANGED <<world, store, call>>

\* SecItemDelete takes the certificate and its key.
MacDelete(i) ==
  /\ Usable(i)
  /\ LET item == idents[i].item
     IN \/ /\ item \in certs \cap keys
           /\ certs' = certs \ {item} /\ keys' = keys \ {item}
           /\ Put(i, [idents[i] EXCEPT !.state = "deleted"])
           /\ Answer("delete", item)
        \/ Fails /\ UNCHANGED <<certs, keys, idents>>
  /\ UNCHANGED <<os, gone, store, call>>

MacClosed(d) == [Release(d, Resource) EXCEPT !.state = "closed"]

MacClose(i) ==
  /\ i \in DOMAIN idents
  /\ Put(i, MacClosed(idents[i])) /\ Done
  /\ UNCHANGED <<world, store, call>>

MacNext ==
  \/ MacOpen \/ MacCloseStore \/ MacIdentities \/ MacImport
  \/ \E i \in DOMAIN idents :
       MacSigner(i) \/ MacChain(i) \/ MacSign(i) \/ MacDelete(i) \/ MacClose(i)
=============================================================================
