------------------------------ MODULE WinStore ------------------------------
(***************************************************************************)
(* certstore_windows.go: winStore, winIdentity and winPrivateKey over      *)
(* CryptoAPI and CNG.  Identities, Import and Delete are several calls of  *)
(* the system's, between which other programs act; the others are one      *)
(* step.  checkError reads the last error in a cgo call of its own, which  *)
(* the scheduler may make on another thread ("moved").                     *)
(***************************************************************************)
EXTENDS SystemStore

\* The last error as checkError sees it, when the call left code on its thread.
LastErrors(code, moved) == IF moved THEN {"none", "not found", "other"} ELSE {code}

WinOpen ==
  /\ store = "none" /\ Idle
  /\ \/ store' = "open" /\ Done
     \/ Fails /\ UNCHANGED store
  /\ UNCHANGED <<world, idents, call>>

WinCloseStore ==
  /\ store = "open" /\ Idle
  /\ store' = "closed" /\ Done
  /\ UNCHANGED <<world, idents, call>>

NewWinIdentity(item) == Keep(Ident(item, Path[item]), "ref")

\* Mutant of WinClosed: the fields of the private key are not zeroed.
WinClosedKeepsHandle(d) ==
  [Release(d, {"key", "ref"}) EXCEPT !.state = "closed", !.fields = d.fields \ {"ref"}]

\* winIdentity.Close: the private key's handle, then the contexts.
WinClosed(d) == [Release(d, {"key", "ref"}) EXCEPT !.state = "closed"]

WinClose(i) ==
  /\ i \in DOMAIN idents /\ Idle
  /\ Put(i, WinClosed(idents[i])) /\ Done
  /\ UNCHANGED <<world, store, call>>

-----------------------------------------------------------------------------
(* Identities and Import: loops over a store, ended by an error *)

WinIdentities ==
  /\ store = "open" /\ Idle
  /\ call' = [op |-> "identities", left |-> certs \cap Item, new |-> <<>>]
  /\ answer' = NoAnswer
  /\ UNCHANGED <<world, store, idents>>

WinFindChain ==
  /\ call.op = "identities" /\ Len(idents) + Len(call.new) < MaxIdents
  /\ \E item \in call.left \cap certs :
       call' = [call EXCEPT !.left = @ \ {item},
                            !.new = Append(@, NewWinIdentity(item))]
  /\ UNCHANGED <<world, store, idents, answer>>

\* fail: what the loop has made is closed.  The objects are kept in idents, where
\* nothing can use them.
CloseNew == idents' = idents \o [k \in DOMAIN call.new |-> WinClosed(call.new[k])]

WinBadChain ==
  /\ call.op = "identities" /\ call.left \cap certs # {}
  /\ CloseNew /\ Fails /\ call' = NoCall
  /\ UNCHANGED <<world, store>>

\* Mutant of WinFindEnds: every error ends the list.
WinFindEndsAnyhow ==
  /\ call.op = "identities"
  /\ idents' = idents \o call.new
  /\ Answer("identities", {call.new[k].item : k \in DOMAIN call.new})
  /\ call' = NoCall
  /\ UNCHANGED <<world, store>>

\* CertFindChainInStore returned nil, at the end of the store or failing.
WinFindEnds ==
  /\ call.op = "identities"
  /\ \E moved \in BOOLEAN, code \in {"not found", "other"} :
       /\ code = "not found" => call.left \cap certs = {}
       /\ \E last \in LastErrors(code, moved) :
            IF last \in {"none", "not found"}
            THEN /\ idents' = idents \o call.new
                 /\ answer' = [op |-> "identities", ok |-> TRUE, moved |-> moved,
                               value |-> {call.new[k].item : k \in DOMAIN call.new}]
            ELSE CloseNew /\ Fails
  /\ call' = NoCall
  /\ UNCHANGED <<world, store>>

\* PFXImportCertStore keeps the key in the user's key set from here on.
WinImport ==
  /\ store = "open" /\ Idle
  /\ \E file \in Files :
       /\ Fresh(file.item)
       /\ \/ /\ keys' = keys \cup {file.item}
             /\ call' = [op |-> "import", item |-> file.item, file |-> Copied(file),
                         left |-> Copied(file)]
             /\ answer' = NoAnswer
          \/ Fails /\ UNCHANGED <<keys, call>>
  /\ UNCHANGED <<os, certs, gone, store, idents>>

WinCopyCertificate ==
  /\ call.op = "import"
  /\ \E c \in call.left :
       \/ /\ certs' = certs \cup {c} /\ call' = [call EXCEPT !.left = @ \ {c}]
          /\ UNCHANGED answer
       \/ Fails /\ call' = NoCall /\ UNCHANGED certs
  /\ UNCHANGED <<os, keys, gone, store, idents>>

WinImportEnds ==
  /\ call.op = "import"
  /\ \E moved \in BOOLEAN, code \in {"not found", "other"} :
       /\ code = "not found" => call.left = {}
       /\ \E last \in LastErrors(code, moved) :
            IF last \in {"none", "not found"}
            THEN answer' = [op |-> "import", ok |-> TRUE, moved |-> moved,
                            value |-> [item |-> call.item, file |-> call.file]]
            ELSE Fails
  /\ call' = NoCall
  /\ UNCHANGED <<world, store, idents>>

-----------------------------------------------------------------------------
(* The private key *)

WinChain(i) ==
  /\ Usable(i)
  /\ \/ Answer("chain", [item |-> idents[i].item, path |-> idents[i].path])
     \/ Fails
  /\ UNCHANGED <<world, store, idents, call>>

\* CryptAcquireCertificatePrivateKey with CRYPT_ACQUIRE_PREFER_NCRYPT_KEY_FLAG: a
\* handle of CNG, or of a CryptoAPI provider where CNG has none, which is RSA.
Apis(item) == IF KeyType[item] = "rsa" THEN {"cng", "capi"} ELSE {"cng"}

NewWinPrivateKey(d) ==
  IF d.item \in keys THEN {[Keep(d, "key") EXCEPT !.api = api] : api \in Apis(d.item)} ELSE {}

\* getPrivateKey: the identity with its signer; acquiring one may fail as well.
GetPrivateKey(d) == IF "key" \in d.fields THEN {d} ELSE NewWinPrivateKey(d)

WinSigner(i) ==
  /\ Usable(i)
  /\ \/ \E d \in GetPrivateKey(idents[i]) :
          Put(i, [d EXCEPT !.signer = TRUE]) /\ Done
     \/ "key" \notin idents[i].fields /\ Fails /\ UNCHANGED idents
  /\ UNCHANGED <<world, store, call>>

\* RSA needs the padding's hash; ECDSA takes any digest, and CNG's r and s side by
\* side become DER.
CngSignHash(item, hash) ==
  IF KeyType[item] = "ecdsa" THEN {Signature(item, hash, "der", "big")}
  ELSE IF hash \in Known THEN {Signature(item, hash, "pkcs1", "big")} ELSE {}

Reversed(sig) == [sig EXCEPT !.order = IF @ = "big" THEN "little" ELSE "big"]

\* Mutant of CapiSignHash: the octets stay as CryptoAPI has them.
CapiSignHashAsIs(item, hash) ==
  IF hash \in Known THEN {Signature(item, hash, "pkcs1", "little")} ELSE {}

\* CryptSignHash writes the least significant octet first.
CapiSignHash(item, hash) ==
  IF hash \in Known THEN {Reversed(Signature(item, hash, "pkcs1", "little"))} ELSE {}

WinSignatures(d, hash) ==
  IF "key" \notin d.fields THEN {}            \* bad private key
  ELSE IF d.api = "capi" THEN CapiSignHash(d.item, hash) ELSE CngSignHash(d.item, hash)

\* The caller may keep the signer beyond the identity's Close.
WinSign(i) ==
  /\ i \in DOMAIN idents /\ Idle
  /\ idents[i].signer /\ idents[i].state \in {"open", "closed"}
  /\ \E hash \in Hashes :
       \/ \E sig \in WinSignatures(idents[i], hash) :
            Answer("sign", [item |-> idents[i].item, hash |-> hash, sig |-> sig])
       \/ Fails
  /\ UNCHANGED <<world, store, idents, call>>

-----------------------------------------------------------------------------
(* Delete: the certificate, then the key *)

\* Mutant of WinDeleteCertificate: its error is not looked at.
WinDeleteCertificateUnchecked(i) ==
  /\ Usable(i)
  /\ certs' \in {certs, certs \ {idents[i].item}}
  /\ call' = [op |-> "delete", item |-> idents[i].item, ident |-> i]
  /\ answer' = NoAnswer
  /\ UNCHANGED <<os, keys, gone, store, idents>>

\* CertDeleteCertificateFromStore frees the duplicate, whatever it returns.
WinDeleteCertificate(i) ==
  /\ Usable(i)
  /\ \/ /\ certs' = certs \ {idents[i].item}
        /\ call' = [op |-> "delete", item |-> idents[i].item, ident |-> i]
        /\ answer' = NoAnswer
     \/ Fails /\ UNCHANGED <<certs, call>>
  /\ UNCHANGED <<os, keys, gone, store, idents>>

Deleting == idents[call.ident]

DeleteFails == Fails /\ call' = NoCall /\ UNCHANGED <<world, store>>

WinDeleteWithoutKey ==
  /\ call.op = "delete" /\ "key" \notin Deleting.fields
  /\ DeleteFails /\ UNCHANGED idents

\* wpk.Delete.  NCryptDeleteKey frees the handle it deletes the key of;
\* CryptAcquireContext with CRYPT_DELETEKEYSET gives no handle and frees none.
WinDeleteKey ==
  /\ call.op = "delete"
  /\ \E d \in GetPrivateKey(Deleting) :
       \/ Put(call.ident, d) /\ DeleteFails
       \/ /\ d.item \in keys /\ keys' = keys \ {d.item}
          /\ Put(call.ident,
                 IF d.api = "capi" THEN [d EXCEPT !.state = "deleted"]
                 ELSE [d EXCEPT !.state = "deleted", !.spent = TRUE, !.owned["key"] = @ - 1])
          /\ Answer("delete", d.item) /\ call' = NoCall
          /\ UNCHANGED <<os, certs, gone, store>>

WinNext ==
  \/ WinOpen \/ WinCloseStore
  \/ WinIdentities \/ WinFindChain \/ WinBadChain \/ WinFindEnds
  \/ WinImport \/ WinCopyCertificate \/ WinImportEnds
  \/ WinDeleteWithoutKey \/ WinDeleteKey
  \/ \E i \in DOMAIN idents :
       WinChain(i) \/ WinSigner(i) \/ WinSign(i) \/ WinDeleteCertificate(i) \/ WinClose(i)
=============================================================================
