--------------------------- MODULE StoreCallsProofs ---------------------------
(***************************************************************************)
(* Theorems about StoreCalls, for any identities, authorities and paths,   *)
(* and any number of identities listed.                                    *)
(***************************************************************************)
EXTENDS StoreCalls, FiniteSetTheorems, SequenceTheorems, TLAPS

-----------------------------------------------------------------------------
(* One identity *)

IdentType ==
  [item : Item, path : {NoPath} \cup {Path[x] : x \in Item},
   state : {"open", "closed", "deleted"}, api : {"none", "cng", "capi"},
   fields : SUBSET Resource, owned : [Resource -> Int], spent : BOOLEAN, signer : BOOLEAN]

\* An identity of a system that owns what its fields hold.  Windows copies no
\* certificate, and its keys have a handle of CNG or, where CNG has no provider, which
\* is for RSA only, of CryptoAPI.
Owner(system) ==
  {d \in IdentType : /\ OwnedOnce(d)
                     /\ system = "windows" => "cert" \notin d.fields
                     /\ system = "windows" /\ "key" \in d.fields => d.api # "none"
                     /\ d.api = "capi" => KeyType[d.item] = "rsa"}

\* The references of an identity are those of its fields.
LEMMA OwnerFields ==
  ASSUME NEW system, NEW d \in Owner(system)
  PROVE  /\ d \in IdentType /\ d.item \in Item /\ d.fields \subseteq Resource
         /\ d.owned \in [Resource -> Int] /\ d.spent \in BOOLEAN
         /\ d.state \in {"open", "closed", "deleted"}
         /\ \A r \in Resource :
              d.owned[r] = IF r \in d.fields THEN IF r = "key" /\ d.spent THEN 0 ELSE 1
                           ELSE IF r = "key" /\ d.spent THEN -1 ELSE 0
         /\ d.state = "closed" => d.fields = {}
         /\ d.spent => d.api = "cng" /\ d.state # "open"
         /\ system = "windows" => "cert" \notin d.fields
         /\ system = "windows" /\ "key" \in d.fields => d.api # "none"
         /\ d.api = "capi" => KeyType[d.item] = "rsa"
  <1>1. d \in IdentType /\ OwnedOnce(d)
    BY DEF Owner
  <1>2. /\ d.item \in Item /\ d.fields \subseteq Resource
        /\ d.owned \in [Resource -> Int] /\ d.spent \in BOOLEAN
        /\ d.state \in {"open", "closed", "deleted"}
    BY <1>1 DEF IdentType
  <1>3. ASSUME NEW r \in Resource
        PROVE  d.owned[r] = IF r \in d.fields THEN IF r = "key" /\ d.spent THEN 0 ELSE 1
                            ELSE IF r = "key" /\ d.spent THEN -1 ELSE 0
    BY <1>1, <1>2 DEF OwnedOnce
  <1>4. /\ d.state = "closed" => d.fields = {}
        /\ d.spent => d.api = "cng" /\ d.state # "open"
    BY <1>1 DEF OwnedOnce
  <1> QED
    BY <1>1, <1>2, <1>3, <1>4 DEF Owner

\* The converse, for a record given by its fields.
LEMMA MakeOwner ==
  ASSUME NEW system, NEW d \in IdentType,
         \A r \in Resource :
           d.owned[r] = IF r \in d.fields THEN IF r = "key" /\ d.spent THEN 0 ELSE 1
                        ELSE IF r = "key" /\ d.spent THEN -1 ELSE 0,
         d.state = "closed" => d.fields = {},
         d.spent => d.api = "cng" /\ d.state # "open",
         system = "windows" => "cert" \notin d.fields,
         system = "windows" /\ "key" \in d.fields => d.api # "none",
         d.api = "capi" => KeyType[d.item] = "rsa"
  PROVE  d \in Owner(system)
  <1>1. OwnedOnce(d)
    <2>1. ASSUME NEW r \in Resource
          PROVE  LET kept == IF r \in d.fields THEN 1 ELSE 0
                 IN d.owned[r] = IF r = "key" /\ d.spent THEN kept - 1 ELSE kept
      OBVIOUS
    <2> QED
      BY <2>1 DEF OwnedOnce
  <1> QED
    BY <1>1 DEF Owner

\* Changes of the fields nothing is owned by.
LEMMA ChangeOther ==
  ASSUME NEW system, NEW d \in Owner(system), NEW x
  PROVE  /\ x \in BOOLEAN => [d EXCEPT !.signer = x] \in Owner(system)
         /\ x \in {NoPath} \cup {Path[y] : y \in Item} => [d EXCEPT !.path = x] \in Owner(system)
         /\ d.state = "open" => [d EXCEPT !.state = "deleted"] \in Owner(system)
         /\ d.state = "open" /\ x \in Apis(d.item) => [d EXCEPT !.api = x] \in Owner(system)
         /\ [d EXCEPT !.signer = x].item = d.item /\ [d EXCEPT !.api = x].item = d.item
         /\ [d EXCEPT !.signer = x].state = d.state /\ [d EXCEPT !.api = x].state = d.state
  <1>1. d \in IdentType /\ d.item \in Item
    BY OwnerFields
  <1>2. /\ [d EXCEPT !.signer = x].item = d.item /\ [d EXCEPT !.api = x].item = d.item
        /\ [d EXCEPT !.signer = x].state = d.state /\ [d EXCEPT !.api = x].state = d.state
    BY <1>1 DEF IdentType
  <1>3. ASSUME x \in BOOLEAN
        PROVE  [d EXCEPT !.signer = x] \in Owner(system)
    <2> DEFINE e == [d EXCEPT !.signer = x]
    <2>1. e \in IdentType
      BY <1>1, <1>3 DEF IdentType
    <2>2. /\ e.owned = d.owned /\ e.fields = d.fields /\ e.spent = d.spent /\ e.state = d.state
          /\ e.api = d.api /\ e.item = d.item
      BY <1>1 DEF IdentType
    <2> HIDE DEF e
    <2>3. e \in Owner(system)
      BY <2>1, <2>2, OwnerFields, MakeOwner
    <2> QED
      BY <2>3 DEF e
  <1>4. ASSUME x \in {NoPath} \cup {Path[y] : y \in Item}
        PROVE  [d EXCEPT !.path = x] \in Owner(system)
    <2> DEFINE e == [d EXCEPT !.path = x]
    <2>1. e \in IdentType
      BY <1>1, <1>4 DEF IdentType
    <2>2. /\ e.owned = d.owned /\ e.fields = d.fields /\ e.spent = d.spent /\ e.state = d.state
          /\ e.api = d.api /\ e.item = d.item
      BY <1>1 DEF IdentType
    <2> HIDE DEF e
    <2>3. e \in Owner(system)
      BY <2>1, <2>2, OwnerFields, MakeOwner
    <2> QED
      BY <2>3 DEF e
  <1>5. ASSUME d.state = "open"
        PROVE  [d EXCEPT !.state = "deleted"] \in Owner(system)
    <2> DEFINE e == [d EXCEPT !.state = "deleted"]
    <2>1. e \in IdentType
      BY <1>1 DEF IdentType
    <2>2. /\ e.owned = d.owned /\ e.fields = d.fields /\ e.spent = d.spent
          /\ e.state = "deleted" /\ e.api = d.api /\ e.item = d.item
      BY <1>1 DEF IdentType
    <2> HIDE DEF e
    <2>3. e \in Owner(system)
      BY <2>1, <2>2, OwnerFields, MakeOwner
    <2> QED
      BY <2>3 DEF e
  <1>6. ASSUME d.state = "open", x \in Apis(d.item)
        PROVE  [d EXCEPT !.api = x] \in Owner(system)
    <2> DEFINE e == [d EXCEPT !.api = x]
    <2>1. x \in {"cng", "capi"} /\ (x = "capi" => KeyType[d.item] = "rsa")
      BY <1>6 DEF Apis
    <2>2. e \in IdentType
      BY <1>1, <2>1 DEF IdentType
    <2>3. /\ e.owned = d.owned /\ e.fields = d.fields /\ e.spent = d.spent /\ e.state = d.state
          /\ e.api = x /\ e.item = d.item
      BY <1>1 DEF IdentType
    <2> HIDE DEF e
    <2>4. ~d.spent
      BY <1>6, OwnerFields
    <2>5. e \in Owner(system)
      BY <2>1, <2>2, <2>3, <2>4, OwnerFields, MakeOwner
    <2> QED
      BY <2>5 DEF e
  <1> QED
    BY <1>2, <1>3, <1>4, <1>5, <1>6

\* A reference got is owned by the field that was empty.
LEMMA KeepOwner ==
  ASSUME NEW system, NEW d \in Owner(system), d.state = "open",
         NEW r \in Resource, r \notin d.fields, system = "windows" => r # "cert",
         system = "windows" /\ r = "key" => d.api # "none"
  PROVE  /\ Keep(d, r) \in Owner(system) /\ Keep(d, r).item = d.item
         /\ Keep(d, r).state = "open" /\ Keep(d, r).path = d.path
  <1> DEFINE e == Keep(d, r)
  <1>1. d \in IdentType /\ d.owned \in [Resource -> Int] /\ ~d.spent
    BY OwnerFields
  <1>2. /\ e.fields = d.fields \cup {r} /\ e.owned = [d.owned EXCEPT ![r] = @ + 1]
        /\ e.item = d.item /\ e.state = d.state /\ e.api = d.api /\ e.spent = d.spent
        /\ e.path = d.path /\ e.signer = d.signer
    BY <1>1 DEF Keep, IdentType
  <1>3. e \in IdentType
    <2> DEFINE more == [d.owned EXCEPT ![r] = @ + 1]
               fs == d.fields \cup {r}
    <2>1. more \in [Resource -> Int] /\ fs \in SUBSET Resource
      BY <1>1, OwnerFields
    <2>2. e = [d EXCEPT !.fields = fs, !.owned = more]
      BY <1>1 DEF Keep, IdentType
    <2> HIDE DEF e, more, fs
    <2> QED
      BY <1>1, <2>1, <2>2 DEF IdentType
  <1>4. \A q \in Resource : e.owned[q] = IF q = r THEN d.owned[q] + 1 ELSE d.owned[q]
    BY <1>1, <1>2
  <1> HIDE DEF e
  <1>5. \A q \in Resource : e.owned[q] = IF q \in e.fields THEN 1 ELSE 0
    BY <1>1, <1>2, <1>4, OwnerFields
  <1>6. e \in Owner(system)
    BY <1>1, <1>2, <1>3, <1>5, OwnerFields, MakeOwner
  <1> QED
    BY <1>2, <1>6 DEF e

\* A new identity has one reference, and holds it.
LEMMA NewOwner ==
  ASSUME NEW system, NEW item \in Item, NEW path \in {NoPath} \cup {Path[x] : x \in Item}
  PROVE  /\ Keep(Ident(item, path), "ref") \in Owner(system)
         /\ Keep(Ident(item, path), "ref").item = item
         /\ Keep(Ident(item, path), "ref").state = "open"
  <1> DEFINE d == Ident(item, path)
  <1>1. d \in IdentType /\ d.fields = {} /\ d.state = "open" /\ d.item = item
        /\ d.spent = FALSE /\ d.api = "none" /\ \A r \in Resource : d.owned[r] = 0
    BY DEF Ident, IdentType, Resource
  <1> HIDE DEF d
  <1>2. d \in Owner(system)
    BY <1>1, MakeOwner
  <1>3. "ref" \in Resource
    BY DEF Resource
  <1>4. Keep(d, "ref") \in Owner(system) /\ Keep(d, "ref").item = item
        /\ Keep(d, "ref").state = "open"
    BY <1>1, <1>2, <1>3, KeepOwner
  <1> QED
    BY <1>4 DEF d

\* Close releases what the fields hold, and nothing twice but a handle already spent.
LEMMA CloseOwner ==
  ASSUME NEW system, NEW d \in Owner(system), NEW rs, d.fields \subseteq rs
  PROVE  /\ [Release(d, rs) EXCEPT !.state = "closed"] \in Owner(system)
         /\ [Release(d, rs) EXCEPT !.state = "closed"].item = d.item
  <1> DEFINE e == [Release(d, rs) EXCEPT !.state = "closed"]
             less == [r \in Resource |-> IF r \in rs \cap d.fields THEN d.owned[r] - 1
                                         ELSE d.owned[r]]
  <1>1. d \in IdentType /\ d.owned \in [Resource -> Int] /\ d.fields \subseteq Resource
    BY OwnerFields
  <1>2. less \in [Resource -> Int]
    BY <1>1
  <1>3. /\ e.fields = {} /\ e.owned = less /\ e.item = d.item /\ e.state = "closed"
        /\ e.api = d.api /\ e.spent = d.spent
    BY <1>1 DEF Release, IdentType
  <1>4. e \in IdentType
    <2> HIDE DEF less
    <2>1. Release(d, rs) = [d EXCEPT !.fields = d.fields \ rs, !.owned = less]
      BY <1>1 DEF Release, IdentType, less
    <2> QED
      BY <1>1, <1>2, <2>1 DEF IdentType
  <1>5. \A r \in Resource : less[r] = IF r \in d.fields THEN d.owned[r] - 1 ELSE d.owned[r]
    OBVIOUS
  <1> HIDE DEF e, less
  <1>6. \A r \in Resource : e.owned[r] = IF r = "key" /\ e.spent THEN -1 ELSE 0
    BY <1>1, <1>3, <1>5, OwnerFields
  <1>7. e \in Owner(system)
    BY <1>3, <1>4, <1>6, OwnerFields, MakeOwner
  <1> QED
    BY <1>3, <1>7 DEF e

\* getCertRef and getKeyRef of macOS.
LEMMA CachedOwner ==
  ASSUME NEW d \in Owner("darwin"), d.state = "open", NEW r \in Resource
  PROVE  /\ Cached(d, r) \in Owner("darwin") /\ Cached(d, r).item = d.item
         /\ Cached(d, r).state = "open"
  BY KeepOwner DEF Cached

\* What a call of macOS that fails halfway leaves.
LEMMA HalfwayOwner ==
  ASSUME NEW d \in Owner("darwin"), d.state = "open", NEW needed,
         needed = <<"cert">> \/ needed = <<"key", "cert">>, NEW n \in 0 .. Len(needed)
  PROVE  LET e == IF n = 0 THEN d ELSE IF n = 1 THEN Cached(d, needed[1])
                  ELSE Cached(Cached(d, needed[1]), needed[2])
         IN e \in Owner("darwin") /\ e.item = d.item /\ e.state = "open"
  <1>1. "key" \in Resource /\ "cert" \in Resource
    BY DEF Resource
  <1>2. CASE needed = <<"cert">>
    <2>1. n \in {0, 1} /\ needed[1] = "cert"
      BY <1>2
    <2> QED
      BY <1>1, <2>1, CachedOwner
  <1>3. CASE needed = <<"key", "cert">>
    <2>1. n \in {0, 1, 2} /\ needed[1] = "key" /\ needed[2] = "cert"
      BY <1>3
    <2>2. /\ Cached(d, "key") \in Owner("darwin") /\ Cached(d, "key").item = d.item
          /\ Cached(d, "key").state = "open"
      BY <1>1, CachedOwner
    <2>3. /\ Cached(Cached(d, "key"), "cert") \in Owner("darwin")
          /\ Cached(Cached(d, "key"), "cert").item = d.item
          /\ Cached(Cached(d, "key"), "cert").state = "open"
      BY <1>1, <2>2, CachedOwner
    <2> QED
      BY <2>1, <2>2, <2>3
  <1> QED
    BY <1>2, <1>3

\* getPrivateKey of Windows.
LEMMA PrivateKeyOwner ==
  ASSUME NEW d \in Owner("windows"), d.state = "open", NEW e \in GetPrivateKey(d)
  PROVE  /\ e \in Owner("windows") /\ e.item = d.item /\ e.state = "open"
         /\ "key" \in e.fields
  <1>1. CASE "key" \in d.fields
    BY <1>1 DEF GetPrivateKey
  <1>2. CASE "key" \notin d.fields
    <2>1. PICK api \in Apis(d.item) : e = [Keep(d, "key") EXCEPT !.api = api]
      BY <1>2 DEF GetPrivateKey, NewWinPrivateKey
    <2> DEFINE k == [d EXCEPT !.api = api]
    <2>2. d \in IdentType /\ api \in {"cng", "capi"}
      BY <2>1, OwnerFields DEF Apis
    <2>3. k.api = api /\ k.fields = d.fields
      BY <2>2 DEF IdentType
    <2>4. e = Keep(k, "key")
      BY <2>1, <2>2 DEF Keep, IdentType
    <2>5. k \in Owner("windows") /\ k.item = d.item /\ k.state = "open"
      BY <2>1, ChangeOther
    <2> HIDE DEF k
    <2>6. Keep(k, "key") \in Owner("windows") /\ Keep(k, "key").item = d.item
          /\ Keep(k, "key").state = "open" /\ "key" \in Keep(k, "key").fields
      <3>1. "key" \in Resource /\ "key" \notin k.fields /\ k.api # "none"
        BY <1>2, <2>2, <2>3 DEF Resource
      <3>2. "key" \in Keep(k, "key").fields
        BY <2>5, OwnerFields DEF Keep, IdentType
      <3> QED
        BY <2>5, <3>1, <3>2, KeepOwner
    <2> QED
      BY <2>4, <2>6
  <1> QED
    BY <1>1, <1>2

\* NCryptDeleteKey frees the handle.
LEMMA SpentOwner ==
  ASSUME NEW d \in Owner("windows"), d.state = "open", d.api # "capi", "key" \in d.fields
  PROVE  [d EXCEPT !.state = "deleted", !.spent = TRUE, !.owned["key"] = @ - 1]
           \in Owner("windows")
  <1> DEFINE less == [d.owned EXCEPT !["key"] = @ - 1]
             e == [d EXCEPT !.state = "deleted", !.spent = TRUE, !.owned = less]
  <1>1. d \in IdentType /\ d.owned \in [Resource -> Int] /\ ~d.spent /\ "key" \in Resource
    BY OwnerFields DEF Resource
  <1>2. /\ less \in [Resource -> Int]
        /\ \A r \in Resource : less[r] = IF r = "key" THEN d.owned[r] - 1 ELSE d.owned[r]
    BY <1>1
  <1>3. [d EXCEPT !.state = "deleted", !.spent = TRUE, !.owned["key"] = @ - 1] = e
    BY <1>1 DEF IdentType
  <1> HIDE DEF less
  <1>4. /\ e \in IdentType /\ e.fields = d.fields /\ e.owned = less /\ e.item = d.item
        /\ e.state = "deleted" /\ e.api = d.api /\ e.spent = TRUE
    BY <1>1, <1>2 DEF IdentType
  <1> HIDE DEF e
  <1>5. e \in Owner("windows")
    <2>0. d.api = "cng"
      BY <1>1, OwnerFields DEF IdentType
    <2>1. \A r \in Resource :
            e.owned[r] = IF r \in e.fields THEN IF r = "key" /\ e.spent THEN 0 ELSE 1
                         ELSE IF r = "key" /\ e.spent THEN -1 ELSE 0
      BY <1>1, <1>2, <1>4, OwnerFields
    <2> QED
      BY <1>4, <2>0, <2>1, OwnerFields, MakeOwner
  <1> QED
    BY <1>3, <1>5

-----------------------------------------------------------------------------
(* The invariant *)

\* No certificate is without its key.
WorldInv ==
  /\ os \in {"windows", "darwin"}
  /\ certs \subseteq Item \cup Ca /\ keys \subseteq Item /\ certs \cap Item \subseteq keys

IdentsInv == idents \in Seq(Owner(os))

\* Identities has met, or has still to meet, every certificate there is.
ListCall ==
  /\ call = [op |-> "identities", left |-> call.left, new |-> call.new]
  /\ call.left \subseteq Item
  /\ call.new \in Seq({d \in Owner("windows") : d.state = "open"})
  /\ \A x \in certs \cap Item :
       x \in call.left \/ \E k \in 1 .. Len(call.new) : call.new[k].item = x

\* Import has the key in the key set until the certificate is with it, and what it has
\* copied is there, or was taken away.
ImportCall ==
  /\ call = [op |-> "import", item |-> call.item, file |-> call.file, left |-> call.left]
  /\ call.item \in Item /\ call.left \subseteq {call.item} \cup Ca
  /\ call.item \in call.left => call.item \in keys \ certs
  /\ call.item \in keys \cup gone
  /\ call.file \subseteq call.left \cup certs \cup gone

\* Delete has deleted the certificate, of an identity still open.
DeleteCall ==
  /\ call = [op |-> "delete", item |-> call.item, ident |-> call.ident]
  /\ call.item \in Item \ certs
  /\ call.ident \in 1 .. Len(idents)
  /\ idents[call.ident].state = "open" /\ idents[call.ident].item = call.item

CallInv == call = NoCall \/ (os = "windows" /\ (ListCall \/ ImportCall \/ DeleteCall))

\* While a call is in progress, nothing is answered.
AnswerInv == CompleteOrError /\ SignsAsAsked /\ (call # NoCall => answer = NoAnswer)

StoreInv == WorldInv /\ IdentsInv /\ CallInv

\* Which call is in progress is told by its name.
LEMMA CallNames ==
  ASSUME CallInv
  PROVE  /\ call.op = "none" \/ os = "windows"
         /\ call.op \in {"none", "identities", "import", "delete"}
         /\ call.op = "none" <=> call = NoCall
         /\ call.op = "identities" => ListCall
         /\ call.op = "import" => ImportCall
         /\ call.op = "delete" => DeleteCall
  <1>1. CASE call = NoCall
    BY <1>1 DEF NoCall
  <1>2. CASE os = "windows" /\ ListCall
    <2>1. call.op = "identities"
      BY <1>2 DEF ListCall
    <2> QED
      BY <1>2, <2>1 DEF NoCall
  <1>3. CASE os = "windows" /\ ImportCall
    <2>1. call.op = "import"
      BY <1>3 DEF ImportCall
    <2> QED
      BY <1>3, <2>1 DEF NoCall
  <1>4. CASE os = "windows" /\ DeleteCall
    <2>1. call.op = "delete"
      BY <1>4 DEF DeleteCall
    <2> QED
      BY <1>4, <2>1 DEF NoCall
  <1> QED
    BY <1>1, <1>2, <1>3, <1>4 DEF CallInv

\* An identity of the list.
LEMMA IdentAt ==
  ASSUME IdentsInv, NEW i \in DOMAIN idents
  PROVE  i \in 1 .. Len(idents) /\ idents[i] \in Owner(os) /\ idents[i].item \in Item
  <1>1. i \in 1 .. Len(idents)
    BY LenProperties DEF IdentsInv
  <1>2. idents[i] \in Owner(os)
    BY <1>1, ElementOfSeq DEF IdentsInv
  <1> QED
    BY <1>1, <1>2, OwnerFields

\* A call on one identity replaces it by one that owns its fields.
LEMMA PutIdent ==
  ASSUME IdentsInv, NEW i \in DOMAIN idents, NEW d \in Owner(os), Put(i, d), os' = os
  PROVE  IdentsInv'
  <1>1. i \in 1 .. Len(idents)
    BY IdentAt
  <1> QED
    BY <1>1, ExceptSeq DEF IdentsInv, Put

\* Nothing is listed and no call is in progress.
LEMMA StoreInit == Init => StoreInv /\ AnswerInv
  <1> SUFFICES ASSUME Init PROVE StoreInv /\ AnswerInv
    OBVIOUS
  <1>1. idents \in Seq(Owner(os))
    BY EmptySeq DEF Init
  <1>2. AnswerInv
    BY DEF Init, NoAnswer, NoCall, AnswerInv, CompleteOrError, SignsAsAsked
  <1> QED
    BY <1>1, <1>2, SystemStoreAssumption DEF Init, StoreInv, WorldInv, IdentsInv, CallInv

-----------------------------------------------------------------------------
(* Windows *)

\* The calls of Windows that read, or that open and close.
LEMMA WinQuiet ==
  ASSUME StoreInv, os = "windows",
         WinOpen \/ WinCloseStore \/ (\E i \in DOMAIN idents : WinChain(i) \/ WinSign(i))
  PROVE  StoreInv'
  <1>1. UNCHANGED <<world, idents, call>>
    BY DEF WinOpen, WinCloseStore, WinChain, WinSign
  <1> QED
    BY <1>1 DEF StoreInv, WorldInv, IdentsInv, CallInv, ListCall, ImportCall, DeleteCall, world

\* Close releases what the fields hold, and empties them.
LEMMA WinCloseStep ==
  ASSUME StoreInv, os = "windows", NEW i \in DOMAIN idents, WinClose(i)
  PROVE  StoreInv'
  <1>1. call = NoCall /\ UNCHANGED world /\ call' = call /\ Put(i, WinClosed(idents[i]))
    BY DEF WinClose, Idle
  <1>2. idents[i] \in Owner("windows")
    BY IdentAt DEF StoreInv
  <1>3. idents[i].fields \subseteq {"key", "ref"}
    BY <1>2, OwnerFields DEF Resource
  <1>4. WinClosed(idents[i]) \in Owner("windows")
    BY <1>2, <1>3, CloseOwner DEF WinClosed
  <1>5. IdentsInv'
    BY <1>1, <1>4, PutIdent DEF StoreInv, world
  <1> QED
    BY <1>1, <1>5 DEF StoreInv, WorldInv, CallInv, NoCall, world

\* Signer acquires a key, or has it.
LEMMA WinSignerStep ==
  ASSUME StoreInv, os = "windows", NEW i \in DOMAIN idents, WinSigner(i)
  PROVE  StoreInv'
  <1>1. call = NoCall /\ UNCHANGED world /\ call' = call /\ idents[i].state = "open"
    BY DEF WinSigner, Usable, Idle
  <1>2. idents[i] \in Owner("windows")
    BY IdentAt DEF StoreInv
  <1>3. IdentsInv'
    <2>1. CASE UNCHANGED idents
      BY <1>1, <2>1 DEF StoreInv, IdentsInv, world
    <2>2. CASE \E d \in GetPrivateKey(idents[i]) : Put(i, [d EXCEPT !.signer = TRUE])
      <3>1. PICK d \in GetPrivateKey(idents[i]) : Put(i, [d EXCEPT !.signer = TRUE])
        BY <2>2
      <3>2. d \in Owner("windows")
        BY <1>1, <1>2, PrivateKeyOwner
      <3>3. [d EXCEPT !.signer = TRUE] \in Owner("windows")
        BY <3>2, ChangeOther
      <3> QED
        BY <1>1, <3>1, <3>3, PutIdent DEF StoreInv, world
    <2> QED
      BY <2>1, <2>2 DEF WinSigner
  <1> QED
    BY <1>1, <1>3 DEF StoreInv, WorldInv, CallInv, NoCall, world

\* The list begins with every certificate still to be met.
LEMMA WinIdentitiesStep ==
  ASSUME StoreInv, os = "windows", WinIdentities
  PROVE  StoreInv'
  <1>1. UNCHANGED world /\ idents' = idents
        /\ call' = [op |-> "identities", left |-> certs \cap Item, new |-> <<>>]
    BY DEF WinIdentities
  <1>2. <<>> \in Seq({d \in Owner("windows") : d.state = "open"})
    BY EmptySeq
  <1>3. ListCall'
    BY <1>1, <1>2 DEF ListCall, world
  <1> QED
    BY <1>1, <1>3 DEF StoreInv, WorldInv, IdentsInv, CallInv, world

\* One more certificate met.
LEMMA WinFindChainStep ==
  ASSUME StoreInv, os = "windows", WinFindChain
  PROVE  StoreInv'
  <1> DEFINE Fresh1 == {d \in Owner("windows") : d.state = "open"}
             left == call.left
             new == call.new
  <1>1. UNCHANGED world /\ idents' = idents /\ ListCall
    BY CallNames DEF StoreInv, WinFindChain
  <1>2. PICK item \in call.left \cap certs :
          call' = [call EXCEPT !.left = @ \ {item}, !.new = Append(@, NewWinIdentity(item))]
    BY DEF WinFindChain
  <1> DEFINE d == NewWinIdentity(item)
  <1>3. item \in Item /\ d \in Fresh1 /\ d.item = item
    <2>1. item \in Item /\ Path[item] \in {NoPath} \cup {Path[x] : x \in Item}
      BY <1>1 DEF ListCall
    <2> QED
      BY <2>1, NewOwner DEF NewWinIdentity
  <1>4. call = [op |-> "identities", left |-> left, new |-> new] /\ new \in Seq(Fresh1)
        /\ left \subseteq Item
        /\ \A x \in certs \cap Item : x \in left \/ \E k \in 1 .. Len(new) : new[k].item = x
    BY <1>1 DEF ListCall
  <1> HIDE DEF left, new, d, Fresh1
  <1>5. call' = [op |-> "identities", left |-> left \ {item}, new |-> Append(new, d)]
    BY <1>2, <1>4 DEF d
  <1>6. /\ Append(new, d) \in Seq(Fresh1) /\ Len(Append(new, d)) = Len(new) + 1
        /\ \A k \in 1 .. Len(new) : Append(new, d)[k] = new[k]
        /\ Append(new, d)[Len(new) + 1] = d /\ Len(new) \in Nat
    BY <1>3, <1>4, AppendProperties, LenProperties
  <1>7. \A x \in certs \cap Item :
          x \in left \ {item} \/ \E k \in 1 .. Len(new) + 1 : Append(new, d)[k].item = x
    <2> TAKE x \in certs \cap Item
    <2>1. CASE x = item
      <3>1. Len(new) + 1 \in 1 .. Len(new) + 1
        BY <1>6
      <3> QED
        BY <1>3, <1>6, <2>1, <3>1
    <2>2. CASE x # item /\ x \notin left
      <3>1. PICK k \in 1 .. Len(new) : new[k].item = x
        BY <1>4, <2>2
      <3>2. k \in 1 .. Len(new) + 1 /\ Append(new, d)[k] = new[k]
        BY <1>6
      <3> QED
        BY <3>1, <3>2
    <2> QED
      BY <2>1, <2>2
  <1>8. ListCall'
    <2>1. /\ call'.left = left \ {item} /\ call'.new = Append(new, d) /\ certs' = certs
          /\ call' = [op |-> "identities", left |-> call'.left, new |-> call'.new]
      BY <1>1, <1>5 DEF world
    <2>2. /\ call'.left \subseteq Item
          /\ call'.new \in Seq({e \in Owner("windows") : e.state = "open"})
      BY <1>4, <1>6, <2>1 DEF Fresh1
    <2>3. \A x \in certs' \cap Item :
            x \in call'.left \/ \E k \in 1 .. Len(call'.new) : call'.new[k].item = x
      BY <1>6, <1>7, <2>1
    <2> QED
      BY <2>1, <2>2, <2>3 DEF ListCall
  <1> QED
    BY <1>1, <1>8 DEF StoreInv, WorldInv, IdentsInv, CallInv, world

\* What the loop has made, kept or closed, joins the identities.
LEMMA JoinNew ==
  ASSUME StoreInv, os = "windows", ListCall, os' = os, idents' = idents \o call.new \/ CloseNew
  PROVE  IdentsInv'
  <1> DEFINE new == call.new
             shut == [k \in DOMAIN new |-> WinClosed(new[k])]
  <1>1. new \in Seq({d \in Owner("windows") : d.state = "open"})
    BY DEF ListCall
  <1>2. Len(new) \in Nat /\ DOMAIN new = 1 .. Len(new)
        /\ \A k \in 1 .. Len(new) : new[k] \in Owner("windows")
    BY <1>1, LenProperties, ElementOfSeq
  <1>3. new \in Seq(Owner("windows"))
    BY <1>1, SeqMonotonic
  <1>4. shut \in Seq(Owner("windows"))
    <2>1. ASSUME NEW k \in 1 .. Len(new)
          PROVE  WinClosed(new[k]) \in Owner("windows")
      <3>1. new[k] \in Owner("windows")
        BY <1>2
      <3>2. new[k].fields \subseteq {"key", "ref"}
        BY <3>1, OwnerFields DEF Resource
      <3> QED
        BY <3>1, <3>2, CloseOwner DEF WinClosed
    <2> HIDE DEF new
    <2>2. shut \in [1 .. Len(new) -> Owner("windows")]
      BY <1>2, <2>1
    <2> HIDE DEF shut
    <2> QED
      BY <1>2, <2>2, SeqDef
  <1>5. idents' = idents \o new \/ idents' = idents \o shut
    BY DEF CloseNew
  <1>6. idents \in Seq(Owner("windows"))
    BY DEF StoreInv, IdentsInv
  <1> HIDE DEF new, shut
  <1> QED
    BY <1>3, <1>4, <1>5, <1>6, ConcatProperties DEF IdentsInv

\* The list ends, kept or closed.
LEMMA WinListEnds ==
  ASSUME StoreInv, os = "windows", WinBadChain \/ WinFindEnds
  PROVE  StoreInv'
  <1>1. UNCHANGED world /\ call' = NoCall /\ ListCall
    BY CallNames DEF StoreInv, WinBadChain, WinFindEnds
  <1>2. idents' = idents \o call.new \/ CloseNew
    BY DEF WinBadChain, WinFindEnds
  <1>3. IdentsInv'
    BY <1>1, <1>2, JoinNew DEF world
  <1> QED
    BY <1>1, <1>3 DEF StoreInv, WorldInv, CallInv, NoCall, world

\* Import begins with the key.
LEMMA WinImportStep ==
  ASSUME StoreInv, os = "windows", WinImport
  PROVE  StoreInv'
  <1>1. UNCHANGED <<os, certs, gone, idents>>
    BY DEF WinImport
  <1>2. IdentsInv'
    BY <1>1 DEF StoreInv, IdentsInv
  <1>3. CASE UNCHANGED <<keys, call>>
    BY <1>1, <1>2, <1>3 DEF StoreInv, WorldInv, CallInv, ListCall, ImportCall, DeleteCall
  <1>4. CASE ~UNCHANGED <<keys, call>>
    <2>1. PICK file \in Files :
            /\ Fresh(file.item) /\ keys' = keys \cup {file.item}
            /\ call' = [op |-> "import", item |-> file.item, file |-> Copied(file),
                        left |-> Copied(file)]
      BY <1>4 DEF WinImport
    <2>2. file.item \in Item /\ file.item \notin certs
          /\ file.item \in Copied(file) /\ Copied(file) \subseteq {file.item} \cup Ca
      BY <2>1 DEF Files, Copied, Fresh
    <2>3. ImportCall'
      BY <1>1, <2>1, <2>2 DEF ImportCall
    <2> QED
      BY <1>1, <1>2, <2>1, <2>2, <2>3 DEF StoreInv, WorldInv, CallInv
  <1> QED
    BY <1>3, <1>4

\* A certificate copied, or the end.
LEMMA WinImportWorks ==
  ASSUME StoreInv, os = "windows", WinCopyCertificate \/ WinImportEnds
  PROVE  StoreInv'
  <1>1. UNCHANGED <<os, keys, gone, idents>> /\ ImportCall
    BY CallNames DEF StoreInv, WinCopyCertificate, WinImportEnds, world
  <1>2. IdentsInv'
    BY <1>1 DEF StoreInv, IdentsInv
  <1>3. CASE call' = NoCall /\ certs' = certs
    BY <1>1, <1>2, <1>3 DEF StoreInv, WorldInv, CallInv
  <1>4. CASE ~(call' = NoCall /\ certs' = certs)
    <2>1. PICK c \in call.left :
            certs' = certs \cup {c} /\ call' = [call EXCEPT !.left = @ \ {c}]
      BY <1>4 DEF WinCopyCertificate, WinImportEnds, world
    <2>2. c \in Item \cup Ca /\ (c \in Item => c \in keys)
      BY <1>1, SystemStoreAssumption DEF ImportCall
    <2> DEFINE x == call.item
               f == call.file
               l == call.left
    <2>3. call = [op |-> "import", item |-> x, file |-> f, left |-> l]
          /\ x \in Item /\ l \subseteq {x} \cup Ca
          /\ (x \in l => x \in keys \ certs)
          /\ x \in keys \cup gone /\ f \subseteq l \cup certs \cup gone
      BY <1>1 DEF ImportCall
    <2>4. c \in l
      OBVIOUS
    <2> HIDE DEF x, f, l
    <2>5. call' = [op |-> "import", item |-> x, file |-> f, left |-> l \ {c}]
      BY <2>1, <2>3
    <2>6. ImportCall'
      BY <1>1, <2>1, <2>3, <2>4, <2>5 DEF ImportCall
    <2> QED
      BY <1>1, <1>2, <2>1, <2>2, <2>6 DEF StoreInv, WorldInv, CallInv
  <1> QED
    BY <1>3, <1>4

\* Delete takes the certificate first.
LEMMA WinDeleteBegins ==
  ASSUME StoreInv, os = "windows", NEW i \in DOMAIN idents, WinDeleteCertificate(i)
  PROVE  StoreInv'
  <1>1. UNCHANGED <<os, keys, gone, idents>> /\ call = NoCall /\ idents[i].state = "open"
    BY DEF WinDeleteCertificate, Usable, Idle
  <1>2. IdentsInv'
    BY <1>1 DEF StoreInv, IdentsInv
  <1>3. i \in 1 .. Len(idents) /\ idents[i].item \in Item
    BY IdentAt DEF StoreInv
  <1>4. CASE UNCHANGED <<certs, call>>
    BY <1>1, <1>2, <1>4 DEF StoreInv, WorldInv, CallInv
  <1>5. CASE ~UNCHANGED <<certs, call>>
    <2>1. certs' = certs \ {idents[i].item}
          /\ call' = [op |-> "delete", item |-> idents[i].item, ident |-> i]
      BY <1>5 DEF WinDeleteCertificate
    <2>2. DeleteCall'
      BY <1>1, <1>3, <2>1 DEF DeleteCall
    <2> QED
      BY <1>1, <1>2, <2>1, <2>2 DEF StoreInv, WorldInv, CallInv
  <1> QED
    BY <1>4, <1>5

\* The identity that Delete is at the key of.
LEMMA DeletingIdent ==
  ASSUME StoreInv, os = "windows", call.op = "delete"
  PROVE  /\ call.ident \in DOMAIN idents /\ Deleting \in Owner("windows")
         /\ Deleting.state = "open" /\ Deleting.item = call.item
         /\ call.item \in Item /\ call.item \notin certs
  <1>1. DeleteCall
    BY CallNames DEF StoreInv
  <1>2. call.ident \in DOMAIN idents
    BY <1>1, LenProperties DEF DeleteCall, StoreInv, IdentsInv
  <1> QED
    BY <1>1, <1>2, IdentAt DEF DeleteCall, StoreInv, Deleting

\* Then the key, unless something fails.
LEMMA WinDeleteEnds ==
  ASSUME StoreInv, os = "windows", WinDeleteWithoutKey \/ WinDeleteKey
  PROVE  StoreInv'
  <1>1. UNCHANGED <<os, certs, gone>> /\ call' = NoCall /\ call.op = "delete"
    BY DEF WinDeleteWithoutKey, WinDeleteKey, DeleteFails, world
  <1>2. CASE UNCHANGED idents /\ keys' = keys
    BY <1>1, <1>2 DEF StoreInv, WorldInv, IdentsInv, CallInv
  <1>3. CASE WinDeleteKey
    <2>1. PICK d \in GetPrivateKey(Deleting) :
            \/ Put(call.ident, d) /\ keys' = keys
            \/ /\ keys' = keys \ {d.item}
               /\ Put(call.ident,
                      IF d.api = "capi" THEN [d EXCEPT !.state = "deleted"]
                      ELSE [d EXCEPT !.state = "deleted", !.spent = TRUE,
                                     !.owned["key"] = @ - 1])
      BY <1>3 DEF WinDeleteKey, DeleteFails, world
    <2>2. /\ d \in Owner("windows") /\ d.item = call.item /\ d.state = "open"
          /\ "key" \in d.fields
      BY <1>1, DeletingIdent, PrivateKeyOwner
    <2>3. [d EXCEPT !.state = "deleted"] \in Owner("windows")
      BY <2>2, ChangeOther
    <2>4. d.api # "capi" =>
            [d EXCEPT !.state = "deleted", !.spent = TRUE, !.owned["key"] = @ - 1]
              \in Owner("windows")
      BY <2>2, SpentOwner
    <2>5. \E e \in Owner("windows") : Put(call.ident, e)
      BY <2>1, <2>2, <2>3, <2>4
    <2>6. IdentsInv'
      BY <1>1, <2>5, DeletingIdent, PutIdent DEF StoreInv
    <2>7. keys' = keys \/ (keys' = keys \ {call.item} /\ call.item \notin certs)
      BY <1>1, <2>1, <2>2, DeletingIdent
    <2>8. WorldInv'
      BY <1>1, <2>7 DEF StoreInv, WorldInv
    <2> QED
      BY <1>1, <2>6, <2>8 DEF StoreInv, CallInv
  <1>4. CASE WinDeleteWithoutKey
    BY <1>2, <1>4 DEF WinDeleteWithoutKey, DeleteFails, world
  <1> QED
    BY <1>3, <1>4

-----------------------------------------------------------------------------
(* macOS and other programs *)

\* No call of macOS is in progress between two steps.
LEMMA MacIdle ==
  ASSUME StoreInv, os = "darwin"
  PROVE  call = NoCall
  BY CallNames DEF StoreInv

\* The keychain's list, in any order.
LEMMA MacListStep ==
  ASSUME StoreInv, os = "darwin", MacIdentities
  PROVE  StoreInv'
  <1> DEFINE found == certs \cap keys
             n == Cardinality(found)
  <1>1. UNCHANGED <<world, call>> /\ call = NoCall
    BY MacIdle DEF MacIdentities
  <1>2. n \in Nat
    BY SystemStoreAssumption, FS_Subset, FS_CardinalityType DEF StoreInv, WorldInv
  <1>3. IdentsInv'
    <2>1. CASE idents' = idents
      BY <1>1, <2>1 DEF StoreInv, IdentsInv, world
    <2>2. CASE idents' # idents
      <3>1. PICK order \in [1 .. n -> found] :
              idents' = idents \o [k \in DOMAIN order |-> NewMacIdentity(order[k])]
        BY <2>2 DEF MacIdentities
      <3>2. ASSUME NEW k \in 1 .. n
            PROVE  NewMacIdentity(order[k]) \in Owner("darwin")
        BY NewOwner DEF StoreInv, WorldInv, NewMacIdentity
      <3> DEFINE listed == [k \in 1 .. n |-> NewMacIdentity(order[k])]
      <3>3. listed \in [1 .. n -> Owner("darwin")]
        BY <3>2
      <3>4. DOMAIN order = 1 .. n
        OBVIOUS
      <3>5. idents' = idents \o listed
        BY <3>1, <3>4
      <3> HIDE DEF listed, n
      <3>6. listed \in Seq(Owner("darwin"))
        BY <1>2, <3>3, SeqDef
      <3>7. idents \in Seq(Owner("darwin"))
        BY DEF StoreInv, IdentsInv
      <3> QED
        BY <1>1, <3>5, <3>6, <3>7, ConcatProperties DEF IdentsInv, world
    <2> QED
      BY <2>1, <2>2
  <1> QED
    BY <1>1, <1>3 DEF StoreInv, WorldInv, CallInv, NoCall, world

\* The calls that change one identity at most, and no certificate.
LEMMA MacPutStep ==
  ASSUME StoreInv, os = "darwin", NEW i \in DOMAIN idents,
         MacSigner(i) \/ MacChain(i) \/ MacSign(i) \/ MacClose(i)
  PROVE  StoreInv'
  <1> DEFINE d == idents[i]
  <1>1. UNCHANGED <<world, call>> /\ call = NoCall
    BY MacIdle DEF MacSigner, MacChain, MacSign, MacClose
  <1>2. d \in Owner("darwin") /\ d.item \in Item
    BY IdentAt DEF StoreInv
  <1>3. "key" \in Resource /\ "cert" \in Resource
    BY DEF Resource
  <1>4. CASE MacClose(i)
    <2>1. MacClosed(d) \in Owner("darwin")
      BY <1>2, OwnerFields, CloseOwner DEF MacClosed
    <2>2. IdentsInv'
      BY <1>1, <1>4, <2>1, PutIdent DEF MacClose, StoreInv, world
    <2> QED
      BY <1>1, <2>2 DEF StoreInv, WorldInv, CallInv, NoCall, world
  <1>5. CASE ~MacClose(i)
    <2>1. d.state = "open"
      BY <1>5 DEF MacSigner, MacChain, MacSign, Usable
    <2> DEFINE c == Cached(d, "cert")
    <2>2. c \in Owner("darwin") /\ c.item = d.item /\ c.state = "open"
      BY <1>2, <1>3, <2>1, CachedOwner
    <2>3. ASSUME NEW needed, needed = <<"cert">> \/ needed = <<"key", "cert">>,
                 MacFails(i, needed)
          PROVE  \E e \in Owner("darwin") : Put(i, e)
      <3>1. PICK n \in 0 .. Len(needed) :
              Put(i, IF n = 0 THEN idents[i]
                     ELSE IF n = 1 THEN Cached(idents[i], needed[1])
                     ELSE Cached(Cached(idents[i], needed[1]), needed[2]))
        BY <2>3 DEF MacFails
      <3> QED
        BY <1>2, <2>1, <2>3, <3>1, HalfwayOwner
    <2>4. UNCHANGED idents \/ \E e \in Owner("darwin") : Put(i, e)
      <3>1. CASE MacSigner(i)
        <4>1. [c EXCEPT !.signer = TRUE] \in Owner("darwin")
          BY <2>2, ChangeOther
        <4> QED
          BY <2>3, <3>1, <4>1 DEF MacSigner
      <3>2. CASE MacChain(i)
        <4>1. [c EXCEPT !.path = Path[c.item]] \in Owner("darwin")
          <5> DEFINE path == Path[c.item]
          <5>1. path \in {NoPath} \cup {Path[y] : y \in Item}
            BY <1>2, <2>2
          <5> HIDE DEF c, path
          <5>2. [c EXCEPT !.path = path] \in Owner("darwin")
            BY ONLY <2>2, <5>1, ChangeOther
          <5> QED
            BY <5>2 DEF path
        <4> QED
          BY <2>2, <2>3, <3>2, <4>1 DEF MacChain
      <3>3. CASE MacSign(i)
        <4>1. Cached(d, "key") \in Owner("darwin") /\ Cached(d, "key").state = "open"
          BY <1>2, <1>3, <2>1, CachedOwner
        <4>2. Cached(Cached(d, "key"), "cert") \in Owner("darwin")
          BY <1>3, <4>1, CachedOwner
        <4> QED
          BY <2>3, <3>3, <4>2 DEF MacSign
      <3> QED
        BY <1>5, <3>1, <3>2, <3>3
    <2>5. IdentsInv'
      <3>1. CASE UNCHANGED idents
        BY <1>1, <3>1 DEF StoreInv, IdentsInv, world
      <3>2. CASE \E e \in Owner("darwin") : Put(i, e)
        BY <1>1, <3>2, PutIdent DEF StoreInv, world
      <3> QED
        BY <2>4, <3>1, <3>2
    <2> QED
      BY <1>1, <2>5 DEF StoreInv, WorldInv, CallInv, NoCall, world
  <1> QED
    BY <1>4, <1>5

\* The calls that change the keychain, and those that open and close it.
LEMMA MacWorldStep ==
  ASSUME StoreInv, os = "darwin",
         \/ MacOpen \/ MacCloseStore \/ MacImport
         \/ \E i \in DOMAIN idents : MacDelete(i)
  PROVE  StoreInv'
  <1>0. call = NoCall
    BY MacIdle
  <1>1. CASE MacOpen \/ MacCloseStore
    BY <1>0, <1>1 DEF MacOpen, MacCloseStore, StoreInv, WorldInv, IdentsInv, CallInv, NoCall, world
  <1>2. CASE MacImport
    <2>1. UNCHANGED <<os, idents, call>>
      BY <1>2 DEF MacImport
    <2>2. PICK file \in Files : \/ UNCHANGED <<certs, keys>>
                                \/ /\ certs' = certs \cup Copied(file)
                                   /\ keys' = keys \cup {file.item}
      BY <1>2 DEF MacImport
    <2>3. file.item \in Item /\ Copied(file) \subseteq {file.item} \cup Ca
      BY DEF Files, Copied
    <2>4. WorldInv'
      BY <2>1, <2>2, <2>3, SystemStoreAssumption DEF StoreInv, WorldInv
    <2> QED
      BY <1>0, <2>1, <2>4 DEF StoreInv, IdentsInv, CallInv, NoCall
  <1>3. ASSUME NEW i \in DOMAIN idents, MacDelete(i)
        PROVE  StoreInv'
    <2>1. UNCHANGED <<os, call>> /\ idents[i].state = "open"
      BY <1>3 DEF MacDelete, Usable
    <2>2. \/ UNCHANGED <<certs, keys, idents>>
          \/ /\ certs' = certs \ {idents[i].item} /\ keys' = keys \ {idents[i].item}
             /\ Put(i, [idents[i] EXCEPT !.state = "deleted"])
      BY <1>3 DEF MacDelete
    <2>3. idents[i] \in Owner(os)
      BY IdentAt DEF StoreInv
    <2>4. [idents[i] EXCEPT !.state = "deleted"] \in Owner(os)
      BY <2>1, <2>3, ChangeOther
    <2>5. IdentsInv'
      <3>1. CASE UNCHANGED idents
        BY <2>1, <3>1 DEF StoreInv, IdentsInv
      <3>2. CASE Put(i, [idents[i] EXCEPT !.state = "deleted"])
        BY <2>1, <2>4, <3>2, PutIdent DEF StoreInv
      <3> QED
        BY <2>2, <3>1, <3>2
    <2>6. WorldInv'
      BY <2>1, <2>2 DEF StoreInv, WorldInv
    <2> QED
      BY <1>0, <2>1, <2>5, <2>6 DEF StoreInv, CallInv, NoCall
  <1> QED
    BY <1>1, <1>2, <1>3

\* Another program takes a certificate, with its key or without, in the middle of any call.
LEMMA OtherProgramStep ==
  ASSUME StoreInv, OtherProgram
  PROVE  StoreInv'
  <1>1. PICK c \in certs : /\ certs' = certs \ {c} /\ gone' = gone \cup {c}
                           /\ keys' = keys \/ keys' = keys \ {c}
    BY DEF OtherProgram
  <1>2. UNCHANGED <<os, idents, call>>
    BY DEF OtherProgram
  <1>3. WorldInv'
    BY <1>1, <1>2 DEF StoreInv, WorldInv
  <1>4. IdentsInv'
    BY <1>2 DEF StoreInv, IdentsInv
  <1>5. CallInv'
    <2>1. ListCall => ListCall'
      BY <1>1, <1>2 DEF ListCall
    <2>2. ImportCall => ImportCall'
      BY <1>1, <1>2 DEF ImportCall
    <2>3. DeleteCall => DeleteCall'
      BY <1>1, <1>2 DEF DeleteCall
    <2> QED
      BY <1>2, <2>1, <2>2, <2>3 DEF StoreInv, CallInv
  <1> QED
    BY <1>3, <1>4, <1>5 DEF StoreInv

\* Every step, of either system or of other programs.
LEMMA StoreNext ==
  ASSUME StoreInv, [Next]_vars
  PROVE  StoreInv'
  <1>1. CASE UNCHANGED vars
    BY <1>1 DEF vars, world, StoreInv, WorldInv, IdentsInv, CallInv, ListCall, ImportCall,
                DeleteCall
  <1>2. CASE os = "windows" /\ WinNext
    BY <1>2, WinQuiet, WinCloseStep, WinSignerStep, WinIdentitiesStep, WinFindChainStep,
       WinListEnds, WinImportStep, WinImportWorks, WinDeleteBegins, WinDeleteEnds DEF WinNext
  <1>3. CASE os = "darwin" /\ MacNext
    BY <1>3, MacListStep, MacPutStep, MacWorldStep DEF MacNext
  <1> QED
    BY <1>1, <1>2, <1>3, OtherProgramStep DEF Next

LEMMA Inductive == Spec => []StoreInv
  <1>1. Init => StoreInv
    BY StoreInit
  <1>2. StoreInv /\ [Next]_vars => StoreInv'
    BY StoreNext
  <1> QED
    BY <1>1, <1>2, PTL DEF Spec

-----------------------------------------------------------------------------
(* The properties *)

\* On both systems, whatever fails and whoever else uses the store: what the fields of
\* an identity hold is owned once, and nothing of one that is closed.
THEOREM NothingForgotten == Spec => []FieldsOwn
  <1>1. StoreInv => FieldsOwn
    <2> SUFFICES ASSUME StoreInv PROVE FieldsOwn
      OBVIOUS
    <2>1. \A i \in DOMAIN idents : OwnedOnce(idents[i])
      BY IdentAt DEF StoreInv, Owner
    <2>2. ASSUME call.op = "identities", NEW k \in DOMAIN call.new
          PROVE  OwnedOnce(call.new[k])
      <3>1. call.new \in Seq({d \in Owner("windows") : d.state = "open"})
        BY <2>2, CallNames DEF StoreInv, ListCall
      <3>2. k \in 1 .. Len(call.new)
        BY <2>2, <3>1, LenProperties
      <3> QED
        BY <3>1, <3>2, ElementOfSeq DEF Owner
    <2> QED
      BY <2>1, <2>2 DEF FieldsOwn
  <1> QED
    BY <1>1, Inductive, PTL

\* A call that fails, or answers something no property is about.
LEMMA QuietAnswer ==
  ASSUME call' = NoCall \/ answer' = NoAnswer,
         answer' = NoAnswer \/ answer'.op \in {"chain", "delete"}
  PROVE  AnswerInv'
  <1>1. answer'.ok = FALSE \/ answer'.op \in {"chain", "delete"}
    BY DEF NoAnswer
  <1> QED
    BY <1>1 DEF AnswerInv, CompleteOrError, SignsAsAsked

\* What is answered stays true while nothing of the store is added.
LEMMA SameAnswer ==
  ASSUME AnswerInv, answer' = answer, call' = NoCall \/ call # NoCall,
         certs' \subseteq certs, certs \cap Item \subseteq keys, certs' \cap Item \subseteq keys',
         certs \subseteq certs' \cup gone', gone \subseteq gone', certs \cap keys \subseteq Item,
         keys' \subseteq keys
  PROVE  AnswerInv'
  <1>1. answer'.ok /\ ~answer'.moved /\ answer'.op = "identities" =>
          certs' \cap keys' \subseteq answer'.value
    BY DEF AnswerInv, CompleteOrError
  <1>2. answer'.ok /\ ~answer'.moved /\ answer'.op = "import" =>
          answer'.value.file \subseteq certs' \cup gone'
    BY DEF AnswerInv, CompleteOrError
  <1>3. SignsAsAsked'
    BY DEF AnswerInv, SignsAsAsked, Standard, Signature
  <1> QED
    BY <1>1, <1>2, <1>3 DEF AnswerInv, CompleteOrError

\* A signature in the standard form is a good answer.
LEMMA SignAnswer ==
  ASSUME call' = NoCall, NEW item, NEW hash, NEW sig, sig = Standard(item, hash),
         Answer("sign", [item |-> item, hash |-> hash, sig |-> sig])
  PROVE  AnswerInv'
  BY DEF Answer, AnswerInv, CompleteOrError, SignsAsAsked, Standard, Signature

\* The answers of the Windows store.
LEMMA WinAnswers ==
  ASSUME StoreInv, AnswerInv, os = "windows", WinNext
  PROVE  AnswerInv'
  <1>1. CASE WinOpen \/ WinCloseStore \/ WinIdentities \/ WinBadChain \/ WinDeleteWithoutKey
    BY <1>1, QuietAnswer
       DEF WinOpen, WinCloseStore, WinIdentities, WinBadChain, WinDeleteWithoutKey, DeleteFails,
           Fails, Done
  <1>2. CASE WinFindChain
    <2>1. call # NoCall /\ answer' = answer /\ UNCHANGED world
      BY <1>2 DEF WinFindChain, NoCall
    <2> QED
      BY <2>1, SameAnswer DEF StoreInv, WorldInv, world
  <1>3. CASE WinFindEnds
    <2>1. call' = NoCall /\ UNCHANGED world /\ ListCall
      BY <1>3, CallNames DEF WinFindEnds, StoreInv
    <2>2. CASE answer' = NoAnswer
      BY <2>2, QuietAnswer
    <2>3. CASE answer' # NoAnswer
      <3>1. PICK moved \in BOOLEAN, code \in {"not found", "other"} :
              /\ code = "not found" => call.left \cap certs = {}
              /\ LastErrors(code, moved) \cap {"none", "not found"} # {}
              /\ answer' = [op |-> "identities", ok |-> TRUE, moved |-> moved,
                            value |-> {call.new[k].item : k \in DOMAIN call.new}]
        BY <1>3, <2>3 DEF WinFindEnds, Fails
      <3>2. ASSUME ~moved
            PROVE  certs \cap keys \subseteq {call.new[k].item : k \in DOMAIN call.new}
        <4>1. call.left \cap certs = {}
          BY <3>1, <3>2 DEF LastErrors
        <4>2. DOMAIN call.new = 1 .. Len(call.new)
          BY <2>1, LenProperties DEF ListCall
        <4> QED
          BY <2>1, <4>1, <4>2 DEF ListCall, StoreInv, WorldInv
      <3> QED
        BY <2>1, <3>1, <3>2 DEF AnswerInv, CompleteOrError, SignsAsAsked, world
    <2> QED
      BY <2>2, <2>3
  <1>4. CASE WinImport
    BY <1>4, QuietAnswer DEF WinImport, Fails
  <1>5. CASE WinCopyCertificate
    <2>1. answer = NoAnswer
      BY <1>5 DEF WinCopyCertificate, AnswerInv, NoCall
    <2> QED
      BY <1>5, <2>1, QuietAnswer DEF WinCopyCertificate, Fails
  <1>6. CASE WinImportEnds
    <2>1. call' = NoCall /\ UNCHANGED world /\ ImportCall
      BY <1>6, CallNames DEF WinImportEnds, StoreInv
    <2>2. CASE answer' = NoAnswer
      BY <2>2, QuietAnswer
    <2>3. CASE answer' # NoAnswer
      <3>1. PICK moved \in BOOLEAN, code \in {"not found", "other"} :
              /\ code = "not found" => call.left = {}
              /\ LastErrors(code, moved) \cap {"none", "not found"} # {}
              /\ answer' = [op |-> "import", ok |-> TRUE, moved |-> moved,
                            value |-> [item |-> call.item, file |-> call.file]]
        BY <1>6, <2>3 DEF WinImportEnds, Fails
      <3>2. ASSUME ~moved
            PROVE  call.file \subseteq certs \cup gone
        <4>1. call.left = {}
          BY <3>1, <3>2 DEF LastErrors
        <4> QED
          BY <2>1, <4>1 DEF ImportCall
      <3> QED
        BY <2>1, <3>1, <3>2 DEF AnswerInv, CompleteOrError, SignsAsAsked, world
    <2> QED
      BY <2>2, <2>3
  <1>7. CASE WinDeleteKey
    BY <1>7, QuietAnswer DEF WinDeleteKey, DeleteFails, Fails, Answer
  <1>8. ASSUME NEW i \in DOMAIN idents,
               WinChain(i) \/ WinSigner(i) \/ WinDeleteCertificate(i) \/ WinClose(i)
        PROVE  AnswerInv'
    <2>1. CASE WinChain(i)
      <3>1. call' = NoCall /\ (answer' = NoAnswer \/ answer'.op = "chain")
        BY <2>1 DEF WinChain, Usable, Idle, Fails, Answer
      <3> QED
        BY <3>1, QuietAnswer
    <2>2. CASE WinSigner(i) \/ WinDeleteCertificate(i) \/ WinClose(i)
      <3>1. answer' = NoAnswer
        BY <2>2 DEF WinSigner, WinDeleteCertificate, WinClose, Fails, Done
      <3> QED
        BY <3>1, QuietAnswer
    <2> QED
      BY <1>8, <2>1, <2>2
  <1>9. ASSUME NEW i \in DOMAIN idents, WinSign(i)
        PROVE  AnswerInv'
    <2>1. call' = NoCall
      BY <1>9 DEF WinSign, Idle
    <2>2. PICK hash \in Hashes :
            \/ \E sig \in WinSignatures(idents[i], hash) :
                 Answer("sign", [item |-> idents[i].item, hash |-> hash, sig |-> sig])
            \/ Fails
      BY <1>9 DEF WinSign
    <2>3. ASSUME NEW sig \in WinSignatures(idents[i], hash)
          PROVE  sig = Standard(idents[i].item, hash)
      <3>1. idents[i].item \in Item /\ (idents[i].api = "capi" => KeyType[idents[i].item] = "rsa")
        BY IdentAt, OwnerFields DEF StoreInv
      <3>2. KeyType[idents[i].item] \in {"rsa", "ecdsa"}
        BY <3>1, SystemStoreAssumption
      <3> QED
        BY <2>3, <3>1, <3>2
           DEF WinSignatures, CapiSignHash, CngSignHash, Reversed, Standard, Signature
    <2>4. CASE Fails
      BY <2>1, <2>4, QuietAnswer DEF Fails
    <2> QED
      BY <2>1, <2>2, <2>3, <2>4, SignAnswer
  <1> QED
    BY <1>1, <1>2, <1>3, <1>4, <1>5, <1>6, <1>7, <1>8, <1>9 DEF WinNext

\* The answers of the macOS store.
LEMMA MacAnswers ==
  ASSUME StoreInv, AnswerInv, os = "darwin", MacNext
  PROVE  AnswerInv'
  <1>0. call = NoCall /\ call' = NoCall
    BY MacIdle DEF MacNext, MacOpen, MacCloseStore, MacIdentities, MacImport, MacSigner, MacChain,
                   MacSign, MacDelete, MacClose
  <1>1. CASE MacOpen \/ MacCloseStore
    BY <1>0, <1>1, QuietAnswer DEF MacOpen, MacCloseStore, Done
  <1>2. CASE MacIdentities
    <2>1. answer' = NoAnswer \/ Answer("identities", certs \cap keys)
      BY <1>2 DEF MacIdentities, Fails
    <2>2. UNCHANGED <<certs, keys, gone>>
      BY <1>2 DEF MacIdentities, world
    <2> QED
      BY <1>0, <2>1, <2>2, QuietAnswer DEF Answer, AnswerInv, CompleteOrError, SignsAsAsked
  <1>3. CASE MacImport
    <2>1. PICK file \in Files :
            \/ /\ certs' = certs \cup Copied(file)
               /\ Answer("import", [item |-> file.item, file |-> Copied(file)])
            \/ answer' = NoAnswer
      BY <1>3 DEF MacImport, Fails
    <2> QED
      BY <1>0, <2>1, QuietAnswer DEF Answer, AnswerInv, CompleteOrError, SignsAsAsked
  <1>4. ASSUME NEW i \in DOMAIN idents, MacSigner(i) \/ MacChain(i) \/ MacDelete(i) \/ MacClose(i)
        PROVE  AnswerInv'
    BY <1>0, <1>4, QuietAnswer
       DEF MacSigner, MacChain, MacDelete, MacClose, MacFails, Fails, Done, Answer
  <1>5. ASSUME NEW i \in DOMAIN idents, MacSign(i)
        PROVE  AnswerInv'
    <2>1. \/ answer' = NoAnswer
          \/ \E hash \in Hashes : \E sig \in MacSignatures(idents[i].item, hash) :
               Answer("sign", [item |-> idents[i].item, hash |-> hash, sig |-> sig])
      BY <1>5 DEF MacSign, MacFails, Fails
    <2>2. \A hash \in Hashes : \A sig \in MacSignatures(idents[i].item, hash) :
            sig = Standard(idents[i].item, hash)
      BY DEF MacSignatures
    <2> QED
      BY <1>0, <2>1, <2>2, QuietAnswer, SignAnswer
  <1> QED
    BY <1>1, <1>2, <1>3, <1>4, <1>5 DEF MacNext

\* What was answered stays true until the next answer.
LEMMA AnswersNext ==
  ASSUME StoreInv, AnswerInv, [Next]_vars
  PROVE  AnswerInv'
  <1>1. CASE UNCHANGED vars
    BY <1>1 DEF vars, world, AnswerInv, CompleteOrError, SignsAsAsked
  <1>2. CASE OtherProgram
    <2>1. /\ answer' = answer /\ call' = call /\ certs' \subseteq certs
          /\ certs \subseteq certs' \cup gone' /\ gone \subseteq gone' /\ keys' \subseteq keys
      BY <1>2 DEF OtherProgram
    <2>2. WorldInv'
      BY <1>2, OtherProgramStep DEF StoreInv
    <2> QED
      BY <2>1, <2>2, SameAnswer DEF StoreInv, WorldInv
  <1> QED
    BY <1>1, <1>2, WinAnswers, MacAnswers DEF Next

LEMMA AnswersInductive == Spec => []AnswerInv
  <1>1. Init => AnswerInv
    BY StoreInit
  <1>2. StoreInv /\ AnswerInv /\ [Next]_vars => AnswerInv'
    BY AnswersNext
  <1> QED
    BY <1>1, <1>2, Inductive, PTL DEF Spec

\* Unless the last error is read on another thread, what Identities and Import answer
\* without an error is complete.
THEOREM AnswersComplete == Spec => []CompleteOrError
  <1>1. AnswerInv => CompleteOrError
    BY DEF AnswerInv
  <1> QED
    BY <1>1, AnswersInductive, PTL

\* Each of the three interfaces, of CNG, CryptoAPI and the keychain, signs in the one
\* form there is for the kind of key.
THEOREM SignaturesStandard == Spec => []SignsAsAsked
  <1>1. AnswerInv => SignsAsAsked
    BY DEF AnswerInv
  <1> QED
    BY <1>1, AnswersInductive, PTL

-----------------------------------------------------------------------------
(* What the store promises *)

\* The abstract variables, as StoreCalls maps them.
Things == [x \in Item |-> Thing(x)]
Calling == IF call.op \in {"import", "delete"} THEN [op |-> call.op, item |-> call.item]
           ELSE [op |-> "none", item |-> "none"]
Lost == gone \cap Item
Replied == IF answer.ok /\ answer.op = "import"
           THEN [op |-> "import", item |-> answer.value.item]
           ELSE IF answer.ok /\ answer.op = "delete"
           THEN [op |-> "delete", item |-> answer.value]
           ELSE [op |-> "none", item |-> "none"]

\* What StorePromise sees of an identity.
LEMMA ThingIs ==
  ASSUME WorldInv, NEW x \in Item
  PROVE  Thing(x) = IF x \in certs THEN "whole" ELSE IF x \in keys THEN "key" ELSE "none"
  BY DEF WorldInv, Thing

\* Nothing has happened to any identity.
LEMMA SameThings ==
  ASSUME WorldInv, WorldInv', certs' \cap Item = certs \cap Item, keys' = keys
  PROVE  Things' = Things
  BY ThingIs DEF Things, Thing

\* A step that concerns one identity, in one of the ways its call has.
LEMMA WorksAt ==
  ASSUME WorldInv, WorldInv', NEW op, NEW x \in Item,
         \A y \in Item \ {x} : (y \in certs' <=> y \in certs) /\ (y \in keys' <=> y \in keys),
         Thing(x)' = Thing(x) \/ <<Thing(x), Thing(x)'>> \in Promise!Changes(op)
  PROVE  Promise!Work(op, x) /\ Things'[x] = Thing(x)'
         /\ (Thing(x)' # Thing(x) => Promise!Change(op, x))
  <1> DEFINE thing == Thing(x)'
  <1>1. thing \in {"none", "key", "whole"}
    BY DEF WorldInv, Thing
  <1>2. Things' = [Things EXCEPT ![x] = thing]
    BY DEF Things, Thing
  <1>3. Things[x] = Thing(x) /\ Things'[x] = thing
    BY <1>2 DEF Things
  <1>4. CASE thing = Thing(x)
    <2>1. Things' = Things
      BY <1>2, <1>4 DEF Things
    <2> QED
      BY <1>3, <1>4, <2>1 DEF Promise!Work, Things
  <1>5. CASE <<Thing(x), thing>> \in Promise!Changes(op)
    BY <1>1, <1>2, <1>3, <1>5 DEF Promise!Work, Promise!Change, Things
  <1> QED
    BY <1>3, <1>4, <1>5

\* The steps of the abstract store, told by the variables they map to.
LEMMA OtherCallStep ==
  ASSUME Calling = Promise!Idle, Calling' = Promise!Idle, Replied' = Promise!Idle,
         Things' = Things, gone' = gone
  PROVE  Promise!Next
  <1>1. Promise!OtherCall
    BY DEF Promise!OtherCall, Promise!Idle, Things, Calling, Replied
  <1> QED
    BY <1>1 DEF Promise!Next

\* How a step of a call is one of StorePromise: the first, one between, the last.
LEMMA BeginStep ==
  ASSUME NEW op \in {"import", "delete"}, NEW x \in Item, Calling = Promise!Idle,
         Calling' = [op |-> op, item |-> x], Replied' = Promise!Idle, gone' = gone,
         Promise!Work(op, x)
  PROVE  Promise!Next
  <1>1. Promise!Begin(op, x)
    BY DEF Promise!Begin, Promise!Idle, Calling, Replied
  <1> QED
    BY <1>1 DEF Promise!Next

LEMMA ContinueStep ==
  ASSUME NEW op \in {"import", "delete"}, NEW x \in Item, Calling = [op |-> op, item |-> x],
         Calling' = Calling, Replied' = Replied, gone' = gone, Promise!Work(op, x)
  PROVE  Promise!Next
  <1>1. Promise!Continue(op, x)
    BY DEF Promise!Continue, Calling, Replied
  <1> QED
    BY <1>1 DEF Promise!Next

LEMMA EndStep ==
  ASSUME NEW op \in {"import", "delete"}, NEW x \in Item,
         Calling \in {Promise!Idle, [op |-> op, item |-> x]},
         Calling' = Promise!Idle, gone' = gone, Promise!Work(op, x),
         \/ Replied' = Promise!Idle
         \/ /\ Replied' = [op |-> op, item |-> x]
            /\ op = "delete" => Things'[x] = "none"
            /\ op = "import" => Things'[x] # "none" \/ x \in gone
  PROVE  Promise!Next
  <1>1. Promise!End(op, x)
    BY DEF Promise!End, Promise!Idle, Calling, Replied, Things
  <1> QED
    BY <1>1 DEF Promise!Next

\* The calls in progress, and the answers, of the concrete store as the abstract one
\* has them.
LEMMA CallMaps ==
  /\ call = NoCall => Calling = Promise!Idle
  /\ call.op = "identities" => Calling = Promise!Idle
  /\ call' = NoCall => Calling' = Promise!Idle
  /\ call'.op = "identities" => Calling' = Promise!Idle
  /\ answer = NoAnswer => Replied = Promise!Idle
  /\ answer' = NoAnswer => Replied' = Promise!Idle
  /\ answer'.op \notin {"import", "delete"} => Replied' = Promise!Idle
  BY DEF NoCall, NoAnswer, Calling, Replied, Promise!Idle

\* The calls that change no identity of the store.
LEMMA WinOtherCalls ==
  ASSUME StoreInv, StoreInv', os = "windows",
         \/ WinOpen \/ WinCloseStore \/ WinIdentities \/ WinBadChain \/ WinFindEnds
         \/ \E i \in DOMAIN idents : WinChain(i) \/ WinSigner(i) \/ WinSign(i) \/ WinClose(i)
  PROVE  Promise!Next
  <1>1. UNCHANGED world
    BY DEF WinOpen, WinCloseStore, WinIdentities, WinBadChain, WinFindEnds, WinChain, WinSigner,
           WinSign, WinClose
  <1>2. Things' = Things /\ gone' = gone
    BY <1>1, SameThings DEF StoreInv, world
  <1>3. call = NoCall \/ call.op = "identities"
    BY DEF WinOpen, WinCloseStore, WinIdentities, WinBadChain, WinFindEnds, WinChain, WinSigner,
           WinSign, WinClose, Usable, Idle
  <1>4. call' = NoCall \/ call'.op = "identities"
    <2>1. CASE WinIdentities \/ WinBadChain \/ WinFindEnds
      <3>1. WinIdentities => call'.op = "identities"
        BY DEF WinIdentities
      <3>2. WinBadChain \/ WinFindEnds => call' = NoCall
        BY DEF WinBadChain, WinFindEnds
      <3> QED
        BY <2>1, <3>1, <3>2
    <2>2. CASE WinOpen \/ WinCloseStore
      BY <2>2 DEF WinOpen, WinCloseStore, Idle
    <2>3. ASSUME NEW i \in DOMAIN idents, WinChain(i) \/ WinSigner(i) \/ WinSign(i) \/ WinClose(i)
          PROVE  call' = NoCall
      BY <2>3 DEF WinChain, WinSigner, WinSign, WinClose, Usable, Idle
    <2> QED
      BY <2>1, <2>2, <2>3
  <1>5. answer' = NoAnswer \/ answer'.op \notin {"import", "delete"}
    <2>1. CASE WinOpen \/ WinCloseStore \/ WinIdentities \/ WinBadChain
      BY <2>1 DEF WinOpen, WinCloseStore, WinIdentities, WinBadChain, Fails, Done
    <2>2. CASE WinFindEnds
      <3>1. answer' = NoAnswer
            \/ \E moved \in BOOLEAN :
                 answer' = [op |-> "identities", ok |-> TRUE, moved |-> moved,
                            value |-> {call.new[k].item : k \in DOMAIN call.new}]
        BY <2>2 DEF WinFindEnds, Fails
      <3> QED
        BY <3>1
    <2>3. ASSUME NEW i \in DOMAIN idents, WinChain(i) \/ WinSigner(i) \/ WinSign(i) \/ WinClose(i)
          PROVE  answer' = NoAnswer \/ answer'.op \notin {"import", "delete"}
      <3>1. CASE WinChain(i)
        BY <3>1 DEF WinChain, Fails, Answer
      <3>2. CASE WinSigner(i) \/ WinClose(i)
        BY <3>2 DEF WinSigner, WinClose, Fails, Done
      <3>3. CASE WinSign(i)
        BY <3>3 DEF WinSign, Fails, Answer
      <3> QED
        BY <2>3, <3>1, <3>2, <3>3
    <2> QED
      BY <2>1, <2>2, <2>3
  <1> QED
    BY <1>2, <1>3, <1>4, <1>5, CallMaps, OtherCallStep

\* Import, step by step.
LEMMA WinImports ==
  ASSUME StoreInv, StoreInv', AnswerInv, os = "windows",
         WinImport \/ WinCopyCertificate \/ WinImportEnds
  PROVE  Promise!Next
  <1>0. gone' = gone /\ WorldInv /\ WorldInv'
    BY DEF WinImport, WinCopyCertificate, WinImportEnds, StoreInv, world
  <1>1. CASE WinImport
    <2>1. call = NoCall /\ certs' = certs /\ answer' = NoAnswer
      BY <1>1 DEF WinImport, Idle, Fails
    <2>2. PICK file \in Files :
            /\ Fresh(file.item)
            /\ \/ /\ keys' = keys \cup {file.item}
                  /\ call' = [op |-> "import", item |-> file.item, file |-> Copied(file),
                              left |-> Copied(file)]
               \/ UNCHANGED <<keys, call>>
      BY <1>1 DEF WinImport
    <2> DEFINE x == file.item
    <2>3. x \in Item /\ x \notin certs /\ x \notin keys
      BY <2>2 DEF Files, Fresh
    <2>4. CASE UNCHANGED <<keys, call>>
      BY <1>0, <2>1, <2>4, SameThings, CallMaps, OtherCallStep
    <2>5. CASE ~UNCHANGED <<keys, call>>
      <3>1. keys' = keys \cup {x}
            /\ call' = [op |-> "import", item |-> x, file |-> Copied(file), left |-> Copied(file)]
        BY <2>2, <2>5
      <3> HIDE DEF x
      <3>2. Thing(x) = "none" /\ Thing(x)' = "key"
        BY <2>1, <2>3, <3>1 DEF Thing
      <3>3. <<Thing(x), Thing(x)'>> \in Promise!Changes("import")
        BY <3>2 DEF Promise!Changes
      <3>4. Promise!Work("import", x)
        BY <1>0, <2>1, <2>3, <3>1, <3>3, WorksAt
      <3>5. Calling' = [op |-> "import", item |-> x]
        BY <3>1 DEF Calling
      <3> QED
        BY <1>0, <2>1, <2>3, <3>4, <3>5, CallMaps, BeginStep
    <2> QED
      BY <2>4, <2>5
  <1>2. CASE WinCopyCertificate
    <2>0. PICK x \in Item : x = call.item
      BY <1>2, CallNames DEF WinCopyCertificate, StoreInv, ImportCall
    <2>1. /\ ImportCall /\ keys' = keys /\ Calling = [op |-> "import", item |-> x]
          /\ answer = NoAnswer
      BY <1>2, <2>0, CallNames DEF WinCopyCertificate, StoreInv, AnswerInv, ImportCall, Calling, NoCall
    <2>2. PICK c \in call.left :
            \/ certs' = certs \cup {c} /\ call' = [call EXCEPT !.left = @ \ {c}] /\ answer' = answer
            \/ answer' = NoAnswer /\ call' = NoCall /\ certs' = certs
      BY <1>2 DEF WinCopyCertificate, Fails
    <2>3. CASE certs' = certs /\ call' = NoCall
      <3>1. Promise!Work("import", x)
        BY <1>0, <2>1, <2>3, WorksAt DEF Thing
      <3>2. answer' = NoAnswer
        BY <2>1, <2>2
      <3> QED
        BY <1>0, <2>1, <2>3, <3>1, <3>2, CallMaps, EndStep
    <2>4. CASE certs' = certs \cup {c} /\ call' = [call EXCEPT !.left = @ \ {c}] /\ answer' = answer
      <3>1. Calling' = Calling /\ Replied' = Replied
        <4>1. call = [op |-> "import", item |-> call.item, file |-> call.file, left |-> call.left]
          BY <2>1 DEF ImportCall
        <4>2. call'.op = call.op /\ call'.item = call.item
          BY <2>4, <4>1
        <4> QED
          BY <2>4, <4>2 DEF Calling, Replied
      <3>2. \A y \in Item \ {x} : y \in certs' <=> y \in certs
        BY <2>0, <2>1, <2>4, SystemStoreAssumption DEF ImportCall
      <3>3. Thing(x)' = Thing(x) \/ <<Thing(x), Thing(x)'>> \in Promise!Changes("import")
        <4>1. CASE c = x
          <5>1. Thing(x) = "key" /\ Thing(x)' = "whole"
            BY <2>0, <2>1, <2>4, <4>1 DEF ImportCall, Thing
          <5> QED
            BY <5>1 DEF Promise!Changes
        <4>2. CASE c # x
          BY <2>1, <2>4, <4>2 DEF Thing
        <4> QED
          BY <4>1, <4>2
      <3>4. Promise!Work("import", x)
        BY <1>0, <2>1, <3>2, <3>3, WorksAt
      <3> QED
        BY <1>0, <2>1, <3>1, <3>4, ContinueStep
    <2> QED
      BY <2>2, <2>3, <2>4
  <1>3. CASE WinImportEnds
    <2>0. PICK x \in Item : x = call.item
      BY <1>3, CallNames DEF WinImportEnds, StoreInv, ImportCall
    <2>1. /\ ImportCall /\ UNCHANGED world /\ call' = NoCall
          /\ Calling = [op |-> "import", item |-> x]
      BY <1>3, <2>0, CallNames DEF WinImportEnds, StoreInv, ImportCall, Calling
    <2>2. \/ answer' = NoAnswer
          \/ \E moved \in BOOLEAN :
               answer' = [op |-> "import", ok |-> TRUE, moved |-> moved,
                          value |-> [item |-> x, file |-> call.file]]
      BY <1>3, <2>0 DEF WinImportEnds, Fails
    <2>3. Replied' = Promise!Idle \/ Replied' = [op |-> "import", item |-> x]
      BY <2>2, CallMaps DEF Replied
    <2>4. x \in keys \/ x \in gone
      BY <2>0, <2>1 DEF ImportCall
    <2>5. Thing(x)' = Thing(x)
      BY <2>1 DEF world, Thing
    <2>6. Promise!Work("import", x) /\ Things'[x] = Thing(x)
      BY <1>0, <2>1, <2>5, WorksAt DEF world
    <2>7. x \in keys => Thing(x) # "none"
      BY <1>0, <2>1, ThingIs
    <2> QED
      BY <1>0, <2>1, <2>3, <2>4, <2>6, <2>7, CallMaps, EndStep
  <1> QED
    BY <1>1, <1>2, <1>3

\* Delete, step by step.
LEMMA WinDeletes ==
  ASSUME StoreInv, StoreInv', AnswerInv, os = "windows",
         \/ WinDeleteWithoutKey \/ WinDeleteKey
         \/ \E i \in DOMAIN idents : WinDeleteCertificate(i)
  PROVE  Promise!Next
  <1>0. gone' = gone /\ WorldInv /\ WorldInv'
    BY DEF WinDeleteWithoutKey, WinDeleteKey, WinDeleteCertificate, DeleteFails, StoreInv, world
  <1>1. ASSUME NEW i \in DOMAIN idents, WinDeleteCertificate(i)
        PROVE  Promise!Next
    <2>1. call = NoCall /\ keys' = keys /\ answer' = NoAnswer
      BY <1>1 DEF WinDeleteCertificate, Usable, Idle, Fails
    <2>2. PICK x \in Item : x = idents[i].item
      BY IdentAt DEF StoreInv
    <2>3. CASE UNCHANGED <<certs, call>>
      BY <1>0, <2>1, <2>3, SameThings, CallMaps, OtherCallStep
    <2>4. CASE ~UNCHANGED <<certs, call>>
      <3>1. certs' = certs \ {x} /\ call' = [op |-> "delete", item |-> x, ident |-> i]
        BY <1>1, <2>2, <2>4 DEF WinDeleteCertificate
      <3>2. Thing(x)' = Thing(x) \/ <<Thing(x), Thing(x)'>> \in Promise!Changes("delete")
        <4>1. CASE x \in certs
          <5>1. Thing(x) = "whole" /\ Thing(x)' = "key"
            BY <1>0, <2>1, <3>1, <4>1 DEF WorldInv, Thing
          <5> QED
            BY <5>1 DEF Promise!Changes
        <4>2. CASE x \notin certs
          BY <2>1, <3>1, <4>2 DEF Thing
        <4> QED
          BY <4>1, <4>2
      <3>3. Promise!Work("delete", x)
        BY <1>0, <2>1, <3>1, <3>2, WorksAt
      <3>4. Calling' = [op |-> "delete", item |-> x]
        BY <3>1 DEF Calling
      <3> QED
        BY <1>0, <2>1, <3>3, <3>4, CallMaps, BeginStep
    <2> QED
      BY <2>3, <2>4
  <1>2. CASE WinDeleteWithoutKey \/ WinDeleteKey
    <2>1. call.op = "delete" /\ call' = NoCall /\ certs' = certs
      BY <1>2 DEF WinDeleteWithoutKey, WinDeleteKey, DeleteFails, world
    <2>2. PICK x \in Item : x = call.item /\ x \notin certs
      BY <2>1, DeletingIdent
    <2>3. Calling = [op |-> "delete", item |-> x]
      BY <2>1, <2>2 DEF Calling
    <2>4. \/ keys' = keys /\ answer' = NoAnswer
          \/ x \in keys /\ keys' = keys \ {x} /\ Answer("delete", x)
      <3>1. CASE WinDeleteWithoutKey
        BY <3>1 DEF WinDeleteWithoutKey, DeleteFails, Fails, world
      <3>2. CASE WinDeleteKey
        <4>1. PICK d \in GetPrivateKey(Deleting) :
                \/ keys' = keys /\ answer' = NoAnswer
                \/ d.item \in keys /\ keys' = keys \ {d.item} /\ Answer("delete", d.item)
          BY <3>2 DEF WinDeleteKey, DeleteFails, Fails, world
        <4>2. d.item = x
          BY <2>1, <2>2, DeletingIdent, PrivateKeyOwner
        <4> QED
          BY <4>1, <4>2
      <3> QED
        BY <1>2, <3>1, <3>2
    <2>5. CASE keys' = keys /\ answer' = NoAnswer
      <3>1. Promise!Work("delete", x)
        BY <1>0, <2>1, <2>5, WorksAt DEF Thing
      <3> QED
        BY <1>0, <2>1, <2>3, <2>5, <3>1, CallMaps, EndStep
    <2>6. CASE x \in keys /\ keys' = keys \ {x} /\ Answer("delete", x)
      <3>1. Thing(x) = "key" /\ Thing(x)' = "none"
        BY <2>1, <2>2, <2>6 DEF Thing
      <3>2. <<Thing(x), Thing(x)'>> \in Promise!Changes("delete")
        BY <3>1 DEF Promise!Changes
      <3>3. Promise!Work("delete", x) /\ Things'[x] = "none"
        BY <1>0, <2>1, <2>6, <3>1, <3>2, WorksAt
      <3>4. Replied' = [op |-> "delete", item |-> x]
        BY <2>6 DEF Answer, Replied
      <3> QED
        BY <1>0, <2>1, <2>3, <3>3, <3>4, CallMaps, EndStep
    <2> QED
      BY <2>4, <2>5, <2>6
  <1> QED
    BY <1>1, <1>2

\* Calls of macOS begin and end in one step.
LEMMA MacCalls ==
  ASSUME StoreInv, StoreInv', AnswerInv, os = "darwin", MacNext
  PROVE  Promise!Next
  <1>0. /\ call = NoCall /\ call' = NoCall /\ gone' = gone /\ WorldInv /\ WorldInv'
        /\ Calling = Promise!Idle /\ Calling' = Promise!Idle
    <2>1. call = NoCall /\ call' = call /\ gone' = gone
      BY MacIdle DEF MacNext, MacOpen, MacCloseStore, MacIdentities, MacImport, MacSigner, MacChain,
                     MacSign, MacDelete, MacClose, world
    <2> QED
      BY <2>1, CallMaps DEF StoreInv
  <1>1. ASSUME UNCHANGED world, answer' = NoAnswer \/ answer'.op \notin {"import", "delete"}
        PROVE  Promise!Next
    BY <1>0, <1>1, SameThings, CallMaps, OtherCallStep DEF world
  <1>2. CASE MacOpen \/ MacCloseStore
    BY <1>1, <1>2 DEF MacOpen, MacCloseStore, Done
  <1>3. CASE MacIdentities
    BY <1>1, <1>3 DEF MacIdentities, Fails, Answer
  <1>4. ASSUME NEW i \in DOMAIN idents, MacSigner(i) \/ MacChain(i) \/ MacSign(i) \/ MacClose(i)
        PROVE  Promise!Next
    <2>1. UNCHANGED world
      BY <1>4 DEF MacSigner, MacChain, MacSign, MacClose
    <2>2. CASE MacSigner(i) \/ MacClose(i)
      BY <1>1, <2>1, <2>2 DEF MacSigner, MacClose, MacFails, Fails, Done
    <2>3. CASE MacChain(i)
      BY <1>1, <2>1, <2>3 DEF MacChain, MacFails, Fails, Answer
    <2>4. CASE MacSign(i)
      BY <1>1, <2>1, <2>4 DEF MacSign, MacFails, Fails, Answer
    <2> QED
      BY <1>4, <2>2, <2>3, <2>4
  <1>5. CASE MacImport
    <2>1. PICK file \in Files :
            /\ Fresh(file.item)
            /\ \/ /\ certs' = certs \cup Copied(file) /\ keys' = keys \cup {file.item}
                  /\ Answer("import", [item |-> file.item, file |-> Copied(file)])
               \/ answer' = NoAnswer /\ certs' = certs /\ keys' = keys
      BY <1>5 DEF MacImport, Fails
    <2>2. PICK x \in Item : x = file.item
      BY DEF Files
    <2>3. Copied(file) \subseteq {x} \cup Ca /\ x \in Copied(file) /\ x \notin certs /\ x \notin keys
      BY <2>1, <2>2 DEF Files, Copied, Fresh
    <2>4. CASE answer' = NoAnswer /\ certs' = certs /\ keys' = keys
      BY <1>0, <2>4, SameThings, CallMaps, OtherCallStep
    <2>5. CASE certs' = certs \cup Copied(file) /\ keys' = keys \cup {file.item}
               /\ Answer("import", [item |-> file.item, file |-> Copied(file)])
      <3>1. Thing(x) = "none" /\ Thing(x)' = "whole"
        BY <2>2, <2>3, <2>5 DEF Thing
      <3>2. <<Thing(x), Thing(x)'>> \in Promise!Changes("import")
        BY <3>1 DEF Promise!Changes
      <3>3. \A y \in Item \ {x} : (y \in certs' <=> y \in certs) /\ (y \in keys' <=> y \in keys)
        BY <2>2, <2>3, <2>5, SystemStoreAssumption
      <3>4. Promise!Work("import", x) /\ Things'[x] = "whole"
        BY <1>0, <3>1, <3>2, <3>3, WorksAt
      <3>5. Replied' = [op |-> "import", item |-> x]
        BY <2>2, <2>5 DEF Answer, Replied
      <3> QED
        BY <1>0, <3>4, <3>5, EndStep
    <2> QED
      BY <2>1, <2>4, <2>5
  <1>6. ASSUME NEW i \in DOMAIN idents, MacDelete(i)
        PROVE  Promise!Next
    <2>1. PICK x \in Item : x = idents[i].item
      BY IdentAt DEF StoreInv
    <2>2. \/ /\ x \in certs \cap keys /\ certs' = certs \ {x} /\ keys' = keys \ {x}
             /\ Answer("delete", x)
          \/ answer' = NoAnswer /\ certs' = certs /\ keys' = keys
      BY <1>6, <2>1 DEF MacDelete, Fails
    <2>3. CASE answer' = NoAnswer /\ certs' = certs /\ keys' = keys
      BY <1>0, <2>3, SameThings, CallMaps, OtherCallStep
    <2>4. CASE /\ x \in certs \cap keys /\ certs' = certs \ {x} /\ keys' = keys \ {x}
               /\ Answer("delete", x)
      <3>1. Thing(x) = "whole" /\ Thing(x)' = "none"
        BY <2>4 DEF Thing
      <3>2. <<Thing(x), Thing(x)'>> \in Promise!Changes("delete")
        BY <3>1 DEF Promise!Changes
      <3>3. Promise!Work("delete", x) /\ Things'[x] = "none"
        BY <1>0, <2>4, <3>1, <3>2, WorksAt
      <3>4. Replied' = [op |-> "delete", item |-> x]
        BY <2>4 DEF Answer, Replied
      <3> QED
        BY <1>0, <3>3, <3>4, EndStep
    <2> QED
      BY <2>2, <2>3, <2>4
  <1> QED
    BY <1>2, <1>3, <1>4, <1>5, <1>6 DEF MacNext

\* Other programs follow the same rules.
LEMMA OthersUse ==
  ASSUME StoreInv, StoreInv', OtherProgram
  PROVE  Promise!Next \/ UNCHANGED Promise!vars
  <1>1. PICK c \in certs : /\ certs' = certs \ {c} /\ gone' = gone \cup {c}
                           /\ keys' = keys \/ keys' = keys \ {c}
    BY DEF OtherProgram
  <1>2. UNCHANGED <<call, answer>> /\ WorldInv /\ WorldInv'
    BY DEF OtherProgram, StoreInv
  <1>3. Calling' = Calling /\ Replied' = Replied
    BY <1>2 DEF Calling, Replied
  <1>4. CASE c \in Item
    <2>1. Thing(c) = "whole" /\ Thing(c)' \in {"key", "none"}
      BY <1>1, <1>2, <1>4 DEF WorldInv, Thing
    <2>2. <<Thing(c), Thing(c)'>> \in Promise!Changes("delete")
      BY <2>1 DEF Promise!Changes
    <2>3. Promise!Change("delete", c)
      BY <1>1, <1>2, <1>4, <2>1, <2>2, WorksAt
    <2>4. Lost' = Lost \cup {c}
      BY <1>1, <1>4 DEF Lost
    <2>5. Promise!OtherProgram(c)
      BY <1>3, <2>3, <2>4 DEF Promise!OtherProgram, Calling, Replied, Lost
    <2> QED
      BY <1>4, <2>5 DEF Promise!Next
  <1>5. CASE c \notin Item
    <2>1. Things' = Things
      BY <1>1, <1>2, <1>5, SameThings DEF WorldInv
    <2>2. Lost' = Lost
      BY <1>1, <1>5 DEF Lost
    <2> QED
      BY <1>3, <2>1, <2>2 DEF Promise!vars, Things, Calling, Replied, Lost
  <1> QED
    BY <1>4, <1>5

\* Every step is a step of StorePromise, or none.
LEMMA PromiseStep ==
  ASSUME StoreInv, StoreInv', AnswerInv, [Next]_vars
  PROVE  [Promise!Next]_(Promise!vars)
  <1>1. CASE UNCHANGED vars
    <2>1. Things' = Things /\ Calling' = Calling /\ Replied' = Replied /\ Lost' = Lost
      BY <1>1 DEF vars, world, Things, Thing, Calling, Replied, Lost
    <2> QED
      BY <2>1 DEF Promise!vars, Things, Calling, Replied, Lost
  <1>2. CASE os = "windows" /\ WinNext
    <2>1. CASE WinFindChain
      <3>1. /\ UNCHANGED <<world, answer>> /\ call.op = "identities"
            /\ call'.op = "identities"
        <4>1. call = [op |-> "identities", left |-> call.left, new |-> call.new]
          BY <2>1, CallNames DEF WinFindChain, StoreInv, ListCall
        <4> QED
          BY <2>1, <4>1 DEF WinFindChain
      <3>2. Things' = Things /\ Calling' = Calling /\ Replied' = Replied /\ Lost' = Lost
        BY <3>1, SameThings, CallMaps DEF StoreInv, world, Replied, Lost
      <3> QED
        BY <3>2 DEF Promise!vars, Things, Calling, Replied, Lost
    <2> QED
      BY <1>2, <2>1, WinOtherCalls, WinImports, WinDeletes DEF WinNext
  <1> QED
    BY <1>1, <1>2, MacCalls, OthersUse DEF Next

\* Every store can be the first.
LEMMA PromiseInit == Init => Promise!Init
  <1> SUFFICES ASSUME Init PROVE Promise!Init
    OBVIOUS
  <1>1. Things \in [Item -> {"none", "whole"}]
    BY DEF Init, Things, Thing
  <1>2. Calling = Promise!Idle /\ Replied = Promise!Idle /\ Lost = {}
    BY DEF Init, NoCall, NoAnswer, Calling, Replied, Lost, Promise!Idle
  <1> QED
    BY <1>1, <1>2 DEF Promise!Init, Things, Calling, Replied, Lost

\* The calls of either system, interrupted at every step, keep what the interfaces
\* promise of an identity and of the others.
THEOREM StorePromiseKept == Spec => KeepsPromise
  <1>1. StoreInv /\ StoreInv' /\ AnswerInv /\ [Next]_vars => [Promise!Next]_(Promise!vars)
    BY PromiseStep
  <1> QED
    BY <1>1, Inductive, AnswersInductive, PromiseInit, PTL DEF Spec, KeepsPromise, Promise!Spec
=============================================================================
