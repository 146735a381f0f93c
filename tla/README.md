# git-kmssign in TLA+

git-kmssign signs git commits and tags with an X.509 certificate whose private
key stays in Azure Key Vault. git starts it as its `gpg.x509.program`, gives it a
user-id and a message, reads status lines from a file descriptor, the signature
from standard output, and the exit code. It descends from smimesign, with the
store of the Linux build replaced by the vault, and carries its own CMS library.

These modules model the program from its source under `src/`, check it with TLC
on small instances, and prove with TLAPS, for all instances, what its properties
say of signing, verifying, matching, the command line, the CMS object and the
system stores. `PROJECT.json` maps every definition to the lines it stands for.

Contents: 1 the system, 2 the modules, 3 the runs, 4 fairness, 5 what is proved,
6 findings and divergences, 7 what is not modelled, 8 the plan.


## 1. The system

### Components

| Component | Code | State | Operations | What makes it correct |
| --- | --- | --- | --- | --- |
| command line | `main.go`, `list_keys_command.go` | flags, environment, open store and identities, deferred closes | `runCommand`, `commandListKeys` | one command at most; the settings asked for; whatever was opened is closed, in order |
| signing command | `command_sign.go` | the SignedData being built | `commandSign`, `certsForSignature`, `findUserIdentity` | says SIG_CREATED of a finished signature only, exit code 0 of a written one only |
| verify command | `command_verify.go` | the parsed signature | `commandVerify`, `verifyAttached`, `verifyDetached`, `verifyOpts` | GOODSIG of genuine signatures only; status and exit code agree |
| status protocol | `status.go` | the descriptor | one `emit` per line | lines in an order git can parse, on a stream that may vanish |
| user-id matching | `parse_user_id.go`, `utils.go` | the scanner's state | `parseUserID`, `normalizeEmail`, `certHasFingerprint`, ... | the certificate the user named signs, and no other |
| Key Vault signer | `azuresign/` | the certificate, the client, the key version | `LoadConfig`, `LoadCertificates`, `NewSigner`, `Sign` | the vault's signature is over the digest asked for, by the certificate's key |
| certificate store, Linux | `certstore/certstore_linux.go` | the vault's identity | `Open`, `Identities`, `Certificate`, `CertificateChain`, `Signer`, `Close` | part of the signing command and the command line |
| certificate store, Windows | `certstore/certstore_windows.go` | the store's handle; of an identity, the contexts of its chain and the key's handle, of CNG or CryptoAPI; the system's certificates and keys | the same, `Import`, `Delete`, `Sign` | every handle released once; no certificate without its key; lists complete or an error; signatures in the form `crypto.Signer` has |
| certificate store, macOS | `certstore/certstore_darwin.go` | references to the identity, the key and the certificate, got when needed; the chain, kept once found; the keychain | the same | the same |
| CMS object | `ietf-cms/signed_data.go`, `sign.go`, `protocol/protocol.go` | content, certificates, signers | `Sign`, `Detached`, `SetCertificates`, `AddTimestamps`, `ToDER`, `ParseSignedData` | any order of calls leaves an object that verifies when it should |
| CMS verification | `ietf-cms/verify.go`, `timestamp.go` | a pool of intermediates, a time | `Verify`, `VerifyDetached` | accepts genuine signers only, each at its own time |
| timestamps | `ietf-cms/timestamp/` | request and response | `Do`, `Matches`, `Info.Before`, `Info.After` | a token is for this signature and this request |
| algorithms | `ietf-cms/oid/`, `protocol.go` | tables | look-ups both ways | what is signed with one table verifies with the other |
| BER to DER | `protocol/ber.go` | an octet string | `BER2DER` | the same objects with DER's lengths, or an error |
| SET OF ANY | `protocol/any_set.go` | | `NewAnySet`, `Encode` | the octets signed are those verified |
| test authority, packaging | `fakeca/`, `scripts/`, ... | | | no logic of the program |

### How they interact

`main` parses flags, opens the store, loads its identities, and only then chooses
a command; deferred calls close all of it. `commandSign` asks the store for an
identity, the CMS object for a signature, the CMS object asks the identity's
`crypto.Signer`, and that one the vault, through the Azure SDK, over a network
that loses requests and answers. A timestamp is asked of another server over
HTTP. Both are synchronous calls; the program has no goroutines of its own, but
the vault, the authority, whoever rotates the key, the reader of the status
stream and whoever kills the process act between any two of its steps.

### What is hard

- The vault may sign after the program has given up, sign twice because the SDK
  sent the request again, or sign with a newer key than the certificate's.
- Status lines are written before the output they speak of; the write may fail,
  the descriptor may be absent, the reader may leave, the process may be killed.
- The timestamp authority can answer anything, or never.
- One signer's timestamp must not bear on another signer.
- The system stores are shared with other programs, which act between the calls of
  one operation; a list ends with an error code that belongs to a thread; references
  are counted by hand, some of them got when first needed.
- Three sorts decide one order: attributes are sorted by value, signed as a SET,
  verified as received.
- Loops that shorten the slice they walk, scanners whose spans become slice
  bounds, length fields that change size at 127 and 255.

`PROJECT.json` lists each hazard at its line with the properties that watch it.


## 2. The modules

| Module | Stands for | Uses |
| --- | --- | --- |
| `CertSelection` | `certsForSignature`, `chainWithoutRoot` in closed form | |
| `CertBundle` | `LoadCertificates` and the loops of `certsForSignature`, step by step | `CertSelection` |
| `SignedData` | the CMS object as a record, its operations as operators | |
| `SignatureAlgorithms` | the choice of algorithms when signing and verifying, as operators | |
| `Attributes` | signed attributes, their encodings' order, as operators | |
| `SigningPromise` | abstract: what git relies on of a signing program | |
| `CommandSign` | one run of `--sign` with vault, authority, readers, kill | `SignedData`, `CertSelection`; implements `SigningPromise` |
| `X509` | external: the path building of `crypto/x509` | |
| `SignatureVerify` | one call of `Verify` or `VerifyDetached` | `X509` |
| `VerifyPromise` | abstract: what git relies on of a verifying program | |
| `CommandVerify` | one run of `--verify` | `SignatureVerify`; implements `VerifyPromise` |
| `UserIdentity` | `findUserIdentity` with `parseUserID`, a rune at a time | |
| `RunCommand` | `runCommand`, `commandListKeys`, the store's life | |
| `Ber` | `BER2DER`, octet by octet, and a program that writes its input | |
| `SignedDataCalls` | any sequence of calls on one CMS object, own or another implementation's | `SignedData`, `SignatureAlgorithms`, `Attributes` |
| `StorePromise` | abstract: what a caller relies on of a system's store | |
| `SystemStore` | what the Windows and macOS stores have in common | |
| `WinStore` | the operations of the Windows store | `SystemStore` |
| `MacStore` | the operations of the macOS store | `SystemStore` |
| `StoreCalls` | any calls on a store of either system, beside other programs | `WinStore`, `MacStore`; implements `StorePromise` |
| `...Proofs` | the theorems about a module: `CommandSign`, `CertBundle`, `CommandVerify` with `SignatureVerify`, `UserIdentity`, `RunCommand`, `Ber`, `SignedDataCalls`, `StoreCalls` | TLAPS |
| `MC...` | values of the constants for TLC | one each |

Common conventions: a digest is modelled by what it is the digest of, and a
signature by the key that made it and the value it is over, so "it verifies" is
an equation. Definitions commented "Mutant of ..." are plausible mistakes in the
one they name; nothing uses them, they are there to show that each property
notices one.

**CommandSign.** `pc` names the call `commandSign` makes next; each call is one
action, or two or three, one per outcome (`ReadMessage` and `ReadError`, and so
on). An error sets `exit` and remembers in `cause` which call it came from. `sd`
is the object under construction. On the other side, `latest` is the newest
version of the vault's key, `inVault` a request it has not handled, `answer` the
response on its way, `tries` what the SDK has sent, `produced` what the vault has
ever signed for this run (history, for the properties). `request` and `reply` are
the exchange with the timestamp authority, `statusUp`, `status` and `sent` what
git can observe. `Retry` is the SDK's, `VaultTimeout` is
`context.WithTimeout` in `Sign`, `RotateKey` renewal in the vault,
`TimestampPanic` the `make([]byte, 0, -1)` of a response without a length. What
the abstract `SigningPromise` sees is written under `Promise == INSTANCE`.

**CertBundle.** `file` is the PEM file as its blocks, `certs` what
`LoadCertificates` has appended, `chain` the slice of `certsForSignature`, `i` its
loop variable counted down by `OmitStep`. `BundleIsSelection` ties the loop to the
closed form, which is what `CommandSign` uses.

**SignatureVerify.** `CheckSignature`, `NoTimestamp` or `CheckTimestamp`, and
`VerifyChain` are the body of `verify`'s loop, for signer `k`; `pool` is
the one `*x509.CertPool` shared between the signers and their tokens, `time` is
`optsCopy.CurrentTime`. `VerdictSound` compares the verdict with `Genuine`, which
is written without reference to the order or the helper functions of the code.
`X509` is external: `Reached` is the least set closed under signing, as
`crypto/x509` builds its paths. A timestamp's accuracy goes through `Duration`,
which wraps as `time.Duration` does, at `MaxDuration`.

**CommandVerify** steps through opening, reading and parsing, calls
`SignatureVerify` as a component (`Verifying` is one of its steps) and writes the
lines. A message file that cannot be opened goes on as a nil file, as in the code.

**RunCommand** keeps the open store and identities beside the stack of deferred
calls; `RunDeferred` pops it, after a panic too. The system stores are modelled by
what the `certstore` interfaces allow: `Open` and `Identities` may fail and a
certificate may be unreadable. The commands return or panic.

**UserIdentity** has `parseUserID`'s states and start and end indices as they are;
`InName`, `InComment`, `Between`, `InEmail`, `AfterEmail` are its cases, with
the fall-through of the states that enter a part. Characters are single bytes.

**Ber** is `readObject` with its offsets; indexing past the end is the outcome
"panic". The two recursive functions of the code, reading and encoding, are one here:
the DER of an object is put together when it has been read. Reading is a recursive
function of where its loop stands (`Reading`). What it reads is written by another
program, which begins and ends objects and, as X.690 says of lengths and independently
of the code, keeps what it writes with DER's lengths beside the BER (`Place`, `Objects`).
The code is about lengths only, and so is this: what else DER asks for (strings in one
piece, sets in order, one form of each primitive value) is as it was written, on both
sides. Lengths with a leading zero and empty objects in the indefinite form, legal too,
are written with `RefusedForms` only.

**SignatureAlgorithms** has `digestAlgorithmForPublicKey`, the tables, what each kind
of signer accepts, SIG_CREATED's arguments and `X509SignatureAlgorithm`. It keeps
that the digest is chosen from a value of another type than the switch expects
(`Marshaled`), so every key gets SHA-256.

**Attributes.** A signed attribute is what decides its place: type, lengths, tags and
what it says. `SortAttributes` compares values, as `sortAttributes` does;
`MarshaledForSigning` sorts whole encodings, as DER does; `MarshaledForVerification`
keeps the order received. A signature is over the sequence that comes out. A sort is
stated by what it returns: of the orders of its argument (`Orders`), one in which
nothing stands before what it comes after.

**SignedDataCalls** lets a caller make any calls in any order, with failures, on an
object of its own or one that another implementation made (`Parsed`, with a digest
and a kind of OID of its choice). `infos` holds what a SignerInfo says beside the
signature; its `stamps` is a history of the rounds of timestamps. `Sign` follows one
signature through key, digest, signer, attributes and tables; `AddTimestamps` takes a
step per request. `EncodeAndParse` permutes signers and certificates by any
bijection, since DER sorts a SET OF by encodings the model does not have, and takes the
content through its optional field (`EncodedContent`, `ParsedContent`).

**SystemStore** keeps the system's state, `certs` and `keys`, and the Go objects,
`idents`. An identity's `fields` are the references it holds, `owned` counts what the
system has handed out to it and not got back: Go has only the first, so a mistake
shows in a difference. `OtherProgram` removes a certificate, with its key or not,
between any two steps; `gone` is what it took (history).

**WinStore.** `Identities`, `Import` and `Delete` are several calls of the system's and
so several steps, with the call in progress in `call`: the loop of `Identities` meets
the certificates in any order and ends with "not found", another error, or, when the
last error is read on another thread (`moved`), with anything. The private key is
acquired when first needed and is one of CNG or of CryptoAPI (`api`); CryptoAPI's
signatures are the other way round and are turned; `NCryptDeleteKey` frees the handle
it deletes (`spent`), and `Close` frees it again.

**MacStore.** Each operation is one step of the keychain's. `Cached` is a reference got
when first needed, which stays when a later part of the call fails (`MacFails`); the
chain is kept once found, and found only when it is not trusted (`MacChain`).

**StoreCalls** has a caller who makes any of these in any order, and maps the store to
`StorePromise`: of each identity, whether it is whole, a key without its certificate
or gone, the call in progress and the last answer.

## 3. The runs

Every run stops somewhere: a process ends, a call returns. So none checks for
deadlock; the liveness properties say what must end instead.

| Run | Shows | Bounds, and why they suffice |
| --- | --- | --- |
| `cert_bundle` | reading a file and selecting from it never leaves the slice; the loop is the closed form; the leaf is there; no root under -2 and -3 | four blocks of seven certificates, a foreign or a broken block, in any order: a leaf, two intermediates and a root, plus every disorder of them; `--include-certs` at each boundary |
| `command_sign` | the safety of a signing run, the implementation of `SigningPromise`, the end of every run | two messages (one to confuse with the other), a fresh and a stale nonce, two key versions (one rotation), two tries (one retry, and giving up), two chunks (a partial output); every mix of detach, timestamp, status stream, pinned or newest key. The theorems of section 5 remove the bounds for all but liveness |
| `signature_verify` | what is accepted is genuine; what is honest is accepted; each signer at its own time | up to two signers, since what one signer can do to another shows with two; eleven ways a signature can be wrong, or unusual, and fifteen timestamps, among them accuracies on both sides of a lifetime's end, a negative one and two that wrap (`MaxDuration` 16); a root, two intermediates, expired and valid leaves and authorities |
| `command_verify` | status lines and exit code of verification, the implementation of `VerifyPromise`, the end of every run | good and bad signatures of one or two signers, missing and unparsable files, with and without own identities, with a status reader that leaves at any point |
| `user_identity` | the spans stay in the string; the address of an id in an address's form is the one looked for; the first matching identity is returned | all ids of up to six characters over brackets, parentheses, `@`, a letter and a space: enough for a name, a comment and an address (`(@)<a>`), nested and unclosed ones; fingerprints of up to five with stores in which none, one or several match or cannot be read |
| `run_command` | the command asked for, with the settings asked for, and nothing else; all that is opened is closed, in order | all sets of flags, the variable absent, good or bad; each configuration of the vault store; system stores of up to two identities, the smallest number with an order of closing |
| `ber` | every length, and the indefinite form, becomes what DER has for it, DER itself included, whatever follows; a cut input never passes for a shorter value | four objects, nested and side by side, a tag of three octets, contents of nothing and of zeros, which look like a terminator, and of 126 octets, so that the length around one is 128 and around two 256, each length in each form without a leading zero, three ways to go on after the end, every place to cut. The theorems of section 5 are for any of them |
| `signed_data_calls` | any calls in any order: exactly those signers verify which should; timestamps are all or nothing; detached is final; a signer takes the hash chosen for it | two signers, one RSA and one P-384, three certificates, two rounds of timestamps (the second makes the first unreadable), both encodings of the time, every algorithm of the tables for an object made elsewhere |
| `store_calls` | on both systems: each reference released once; lists and imports complete or an error; signatures in one form; the implementation of `StorePromise` | an RSA and an ECDSA identity (one for each of the interfaces' forms) and an authority; two identities listed, so two of one certificate or one of each; a hash the interfaces know and one they do not; another program at every step |
| `command_sign_rotation` | violated: see 6 | |
| `signature_verify_pool` | violated: see 6 | |
| `command_verify_bad` | violated: see 6 | |

What the properties say in detail stands before each in its module. Of those of
`command_sign`:

- `AnnouncementIsTrue`: when SIG_CREATED has been said there is one signer, its
  signature was made by the vault in this run, over this message's attributes,
  with content and timestamp as asked for.
- `PinnedKeyMatches`: with the key version pinned to the certificate's, rotations,
  lost answers and retries cannot make another key sign.
- `TimestampsAreFresh`: an old response or one for other data is never attached.
- `SuccessIsDelivered`: what exit code 0 means.
- `KeepsPromise`: what git sees, as an implementation of `SigningPromise`. It
  implies `OutputAfterAnnouncement`, as `StageInv` contains `LinesInOrder`: those two,
  and `DoneIsDone` (a vault that signs late changes nothing any more), are stated, and
  proved, for the reader, and not run on their own.

Of the others:

- `VerdictSound` and `HonestAccepted` are the two halves of what `Verify` is for. The
  first needs every signer genuine, in time by its own timestamp or the clock; the
  second needs nothing of the other signers but that they are honest too.
- `CommandAsAsked`: how a run ends, as a function of the flags, the variable and the
  store, whatever the order they are looked at in.
- `VerifiesUnlessMisused` has an equivalence: a signer verifies exactly when its
  certificate is still there, it was stamped at most once and its digest is not MD5.
- `FieldsOwn` and `CompleteOrError` each name the one case they except (the handle
  `NCryptDeleteKey` frees, the error read on another thread); see 6.

## 4. Fairness

`CommandSign!FairSpec` has weak fairness of `Program`, the program's own next step
when it can take one, and of `VaultTimeout`. The process is scheduled by the
system, and Go's timer of `context.WithTimeout` fires. Nothing is assumed of the
vault, the timestamp authority, the key's owner or the readers of the outputs: a
vault that never answers is what the timeout is for, and an authority that never
answers is the exception `EndsOrAwaitsTSA` names, `http.DefaultClient` having no
timeout. Reading the message and writing the output are steps of the program: that
a read of the input returns is thereby assumed.

`CommandVerify!FairSpec` has weak fairness of `Program`. Every step of it is
computation or a read of a file that is assumed to return.

The other modules state safety only: their operations are calls, made when and as
often as a caller likes.


## 5. What is proved

Eight modules hold theorems, each about any value of the constants that satisfies the
named assumptions of its module, which TLC evaluates in that module's run. Each
safety property of a passing run is proved, and all three refinements are.
The table has the theorem, what it proves, and the invariant the proof goes by.

| Module | Theorems (property) | Inductive invariant |
| --- | --- | --- |
| `CommandSignProofs` | `Typing` (`TypeOK`), `Stages` (`StageInv`), `Truthful` (`AnnouncementIsTrue`), `Embedded` (`SelectionEmbedded`), `StatusLines` (`LinesInOrder`), `Delivered` (`SuccessIsDelivered`), `Fresh` (`TimestampsAreFresh`), `Pinned` (`PinnedKeyMatches`), `Ordered` (`OutputAfterAnnouncement`), `Final` (`DoneIsDone`), `Implementation` (`KeepsPromise`) | `TypeOK /\ StageInv` |
| `CertBundleProofs` | `Typing` (`TypeOK`), `Selected` (`BundleIsSelection`), `LeafFirst` (`LeafEmbedded`), `NoRoot` (`RootStripped`) | `BundleInv` |
| `CommandVerifyProofs`, of `SignatureVerify` | `Typing` (`TypeOK`), `Sound` (`VerdictSound`), `Complete` (`HonestAccepted`), `Dated` (`DatedByOwnTimestamp`) | `VerifyInv` |
| `CommandVerifyProofs`, of `CommandVerify` | `RunTyping` (`RunTypeOK`), `LinesInOrder` (`CodesInOrder`), `ExitTruthful` (`ExitAgreesWithStatus`), `OwnTrusted` (`OwnSignatureTrusted`), `VerifyImplementation` (`KeepsPromise`) | `RunInv`, which contains `VerifyInv` |
| `UserIdentityProofs` | `Typing` (`TypeOK`), `AddressFound` (`FormattedIdParsed`), `FirstOfAll` (`FirstMatchFound`) | `SpanInv`, `ScanInv`, `SearchInv` |
| `RunCommandProofs` | `Typing` (`TypeOK`), `AllClosed` (`NothingLeftOpen`), `ClosedInOrder` (`StoreClosedLast`), `Asked` (`CommandAsAsked`) | `StackInv /\ OpenedInv /\ SystemInv`, `AskedInv`, `KindsInv` |
| `BerProofs` | `Converted` (`ConvertedToDer`), `Refused` (`CutIsRefused`), for encodings without an empty object in the indefinite form and without leading zeros in lengths | `ReadInv` (`ReadAsWritten`) |
| `SignedDataCallsProofs` | `AllOrNothing` (`NoPartialFailure`), `StaysDetached` (`DetachedIsFinal`), `HashTaken` (`SignerNeverRefuses`), `Verifies` (`VerifiesUnlessMisused`) | `CallsInv`, `GenuineInv` |
| `StoreCallsProofs` | `NothingForgotten` (`FieldsOwn`), `AnswersComplete` (`CompleteOrError`), `SignaturesStandard` (`SignsAsAsked`), `StorePromiseKept` (`KeepsPromise`) | `StoreInv`, `AnswerInv` |

### Assumptions

- `OptionsAssumption` (each option has its type, and the certificate file holds a
  certificate), `BoundsAssumption` (bounds are positive, stale nonces are nonces),
  `SignedDataAssumption` (no message is the absent one): `CommandSign`.
- `CertBundleAssumption`: `--include-certs` is an integer, a certificate says whether
  it has an AIA extension.
- `CallsAssumption`, by `IsCall`: what Go's types guarantee of a call of `Verify`, with
  times that are numbers, and the generation time of a token not the zero time.
  `RunsAssumption`: a run has at most two files, and what can be read is such a call.
- `RunCommandAssumption`: `--include-certs` is an integer.
- `UserIdentityAssumption`, by `IsIdent`: user-ids are strings of characters, the
  store's identities a list, and no certificate has an empty address (see 7).
- `BerAssumption`: tags are tags as X.690 has them, of any length, with the terminator's
  tag 0 left out; contents, and what follows an encoding, are octets; an encoding is shorter than 2^31 octets, which
  is as far as the four octets of a length go that the code reads. The theorems have
  `~RefusedForms` as a hypothesis: see `EveryFormConverted` in 6.
- `SignedDataCallsAssumption`: keys are of the three kinds there are.
  `CertificatesAssumption`: an issuer and a serial number name one certificate's key,
  which is what an authority guarantees and `FindCertificate` relies on, and a parsed
  certificate has the algorithm of its key.
- `SystemStoreAssumption`: items and authorities differ, there are finitely many
  items, and the chain of an item begins with it.

Besides, the proofs about `SignatureVerify` take `X509` as it is written, and those
about `StoreCalls` take the system's calls as `WinStore` and `MacStore` have them.

### The arguments

**CommandSign.** None of the properties is inductive: `AnnouncementIsTrue` speaks of
the moment SIG_CREATED has been said, but what makes it true happened several
calls before. `StageInv` says what each stage has behind it, in three parts:

- `SignerStage`: up to the vault's answer there is no signer and the content is
  the message; from `AddSignerInfo` on there is one, whose signature the vault has
  produced over this message; after `Seal` the content is as `--detach-sign`
  wants it; after the timestamp there is exactly one token, or none was asked for.
- `VaultStage`: an answer under way, or one taken, is for this message and by the
  pinned version, if one is pinned.
- `OutputStage`: which lines the stream can hold, and that output starts in
  `write` only.

There is a lemma per part (`NextTypeOK`, `NextSignerStage`, `NextVaultStage`,
`NextOutputStage`) and one step per action in each; the effects of the record
operators are lemmas of their own (`AddSignerInfoEffect`, `SealEffect`,
`AddTimestampEffect`, ...). `Truthful`, `Embedded`, `Delivered`, `Fresh` and `Pinned`
speak of a process that has ended too, for which the stage says nothing any more; they
combine the invariant before the last step with `OkStep`, `DoneStep` and `ReadyStep`.
`Implementation` maps each step to a step of `SigningPromise` or to a stutter
(`PromiseStep`): taking the answer is `Make`, SIG_CREATED is `Announce`, a chunk is
`Deliver`, `Return` is `Succeed`, an error, a panic or a kill is `GiveUp`.

`Embedded` rests on `AddedInOrder`: certificates added one by one to an empty object,
without an error, are all there, in order.

**CertBundle.** `CutAt(s, low, n)`: looking from position `low` up, the chain `s` is to be
cut at `n`. The loop counting down keeps it true of what is left of the chain, with
`low` at the loop variable; at the end `low` is 1, where it is the closed form's cut.

**SignatureVerify.** `LoopInv`: while the loop runs, the pool holds the object's own
certificates and none but those that are somewhere in the call. `TimeInv`: the time in
use is the caller's, or that of the present signer's own timestamp. `SignerInv`: what
the present signer has passed. `ChainsInv`: the signers before it are genuine, each at
its own time. `ResultInv`: an object of honest signers is not refused.
`VerdictSound` does not need the pool to be the signer's own, only that it is not
arbitrary: a chain ends in a root and every link of it is signed. `HonestAccepted`
needs the other inclusion: what is shared only ever adds certificates.

**CommandVerify.** The invariant of the component is carried along (`VerifyInv`), and
`AuthorityInv`, `QuestionInv` and `StatusInv` tie it to the lines written. The steps
inside `Verify` are stutters of `VerifyPromise`.

**UserIdentity.** `SpanInv`: an open span begins behind the scanner, a closed one
begins before it ends. `SearchInv`: nothing before `found`, or before the identity
looked at, is a match. `ScanInv` has two parts, for ids in the form of an address
(`FormInv`: the scanner's state tells which part of the id it has reached) and for ids
without any bracket (`PlainInv`).
That `Trim` keeps what lies between the first and last character that is no space
takes the least and the greatest element of a set (`Least`, `Greatest`).

**RunCommand.** `StackInv`: the stack of deferred calls is `0 .. n` with the store at
the bottom, and exactly the identities below its height are open. Everything else
follows from how high the stack is at each label (`OpenedInv`). `AskedInv` says how
far the environment, the store and the flags have been looked at by each label, and
`Outcome` what they came to.

**Ber.** That a reader inverts a writer is an induction over what is written, and the
writer's steps are that induction: `ReadInv` says of each object it has placed, and of
the content of each that is still open, that it is read as it was written *wherever*
it stands, in any octets, at any offset, in content of either form (`Reads`, `ReadsOn`).
`ConvertedToDer` alone says something of offset 0 only, and nothing before the end.
Both predicates have a second half, for `CutIsRefused`: where the data ends within the
object (`Ends`), the reader fails. What is written grows by one object at a time, so the
invariant needs that content that is read as it was written, and an object after it,
are so together (`ReadsOnThen`), and that an object around such content is
(`DefiniteReads`, `IndefiniteReads`, by `ObjectsRead`). In the indefinite form this is
where a terminator is told from content: no object begins with a zero octet, and after
an object `Termination` looks at the next one only (`NoTermination`, `Terminator`).
`AllAnswered` gives the recursive function (`RunCases`), by induction over
the octets that are left; `EncodedLength` and `LengthForms` are the arithmetic of the
lengths, for every length of up to four octets (`Digits`).

**SignedDataCalls.** The shape of the object (`Shape`) is all that the action
properties need; objects of other implementations and permuted ones have it too.
`VerifiesUnlessMisused` says nothing of how a signer came to be, so `GenuineInv` does:
the certificates are encodings of certificates that were given (`AddedType`), and each
signer was `Made` by the key of one of them, over the attributes in order or over the
message, with an algorithm that the two OIDs of its SignerInfo give back, and has one
token for its signature per round of timestamps. `Fetching` keeps the tokens of a round
under way beside the signatures they are for. A lemma per call keeps it
(`GenuineSign`, `GenuineReplace`, `GenuineFetch`, `GenuineAttach`, `GenuineEncode`);
`GenuineVerifies` is what `verify` makes of such a signer. The attributes are in one
order however they are sorted since the lengths of their values decide both sorts
(`AttributesOrdered`): 11 octets, then 15 or 17, then at least 18, for any digest and
either form of the time. `Sorted` follows, because among the orders of three things one
only has nothing before what it comes after (`OrderOfThree`). Choices of a least index,
the first certificate refused or the certificate found, are by `Least`.

**StoreCalls.** `WorldInv`: no certificate is without its key. `IdentsInv`: every
identity, open, deleted or closed, has exactly the references of its fields. `CallInv`:
what the call in progress has done so far, above all that a list under way has met, or
has still to meet, every certificate there is, and that what Import has copied is
there or was taken away. `AnswerInv` says of the last answer what the properties say.
The refinement takes one step of `StorePromise` for each step of a call
(`BeginStep`, `ContinueStep`, `EndStep`), of either system, and `OthersUse` for the
other programs.

### Left to TLC

Liveness (`EndsOrAwaitsTSA`, `VerifyEnds`), which is out of the proof system's reach.


## 6. Findings and divergences

Three runs show the code to do other than its comments say.

1. `command_sign_rotation`. `Public` in `azuresign/signer.go` (lines 74-75) says
   the key "must exactly match the certificate the CMS layer signs with"; `Sign`
   asks the vault for the newest version unless one is pinned and nobody compares.
   A rotation before the call, and exit code 0 goes with a signature the embedded
   certificate does not verify. `PinnedKeyMatches` shows that pinning helps.
2. `signature_verify_pool`. The copy of the options in `verify` (lines 141-142 of
   `ietf-cms/verify.go`: "only want the timestamp to affect this one") shares a
   pointer to the pool: one signer's token lends its certificates to the next
   signers, so the verdict can depend on their order. `VerdictSound` holds all the
   same, since what is accepted still leads to a root.
3. `command_verify_bad`. A signature that was checked and does not hold (in the run, one
   by another key than that of the certificate it names) is reported with ERRSIG ("not
   possible to check") and never with BADSIG, since `Verify` returns no chains with an
   error.

### Divergences

These are stated in the modules, do not hold, and are checked by no run of the
list; adding the name to the INVARIANTS of the cfg (or as that row says) shows the
counterexample.

| Definition | Module, cfg | Code | Against |
| --- | --- | --- | --- |
| `OmitsOnlyFetchable` | `CertBundle`, `CertBundle.cfg` | `command_sign.go:150` cuts everything above the first issuer that can be fetched, issuers of certificates without an AIA extension included | `main.go:39`, -3 "ommits issuer when cert has Authority Information Access extension" |
| `BeginMeansKeyReady` | `CommandSign`, `CommandSign.cfg` | `command_sign.go:29` writes BEGIN_SIGNING before the vault is asked anything | `status.go:24-25`, "an indication that all requested secret keys are ready for use" |
| `SubjectKeyIdentifierFound` | `SignatureVerify`, `SignatureVerify.cfg` | `protocol.go:443` compares the identifier with the extension's DER | `protocol.go:419-420`, "finds this SignerInfo's certificate" |
| `VerifyIsCarriedOver` | `RunCommand`, `RunCommand.cfg` | `main.go:99` loads the vault's identity first, so `--verify` fails without a configured vault | `docs/kmssign.md:28-34`, verification "carried over unchanged" |
| `EveryFormConverted` | `Ber`, `Ber.cfg` with `RefusedForms = TRUE` | `ber.go:211` reads an object before it looks for the end: `30 80 00 00` is an error; `ber.go:173` refuses a length with a leading zero, which X.690 (8.1.3.5) allows and `ber_test.go:48` expects to be refused: `04 82 00 00` is an error | `ber.go:56`, converts BER to DER |
| `StringsPrimitive` | `Ber`, `Ber.cfg` with the tag `<<36>>` among `Tags` | `readObject` keeps the tag of a string in pieces, an OCTET STRING of gpgsm's for example, and does not join them; `protocol.go:159-164` says so and does it by hand for the content | `ber.go:56`, converts BER to DER |
| `CutIsAnError` | `Ber`, `Ber.cfg` | `ber.go:138`, `143`, `162`, `173` and `179` index past the end of an input that ends inside a tag or before or inside a length, as `04` does, and panic | `ber_test.go:50`, "length is more than available data" |
| `AccuracyCounts` | `SignatureVerify`, `SignatureVerify.cfg` | `timestamp.go:427` multiplies seconds of any size into a `Duration`, which wraps: an accuracy of more than 292 years can count as none | `verify.go:153-155`, the signature was made within the certificate's lifetime, accuracy included |
| `DigestSuitsKey` | `SignedDataCalls`, `SignedDataCalls.cfg` | `protocol.go:662` passes octets to a switch over key types: every key gets SHA-256 | `protocol.go:753-754`, by key |
| `CreatedWithTheseParameters` | `SignedDataCalls`, `SignedDataCalls.cfg` | `status.go:182` tells the certificate's signature algorithm | `status.go:28-29`, "created using these parameters" |
| `NoDuplicateCertificate` | `SignedDataCalls`, `SignedDataCalls.cfg` | `protocol.go:776` compares a body with a whole encoding, never equal | `protocol.go:777`, "certificate already added" |
| `ChainStartsWithLeaf` | `StoreCalls`, `StoreCalls.cfg` | `certstore_darwin.go:164` takes a true answer of `SecTrustEvaluateWithError`, which is given of a trusted certificate, for an error: no chain and no error are returned | `certstore_test.go:287`, "first chain cert should be leaf" |
| `NoOrphanKey` | `StoreCalls`, `StoreCalls.cfg` as a PROPERTY | `certstore_windows.go:276-288` removes the certificate before it acquires the key: when that fails, or the key cannot be deleted, the key stays and no list names it any more | `certstore.go:33`, `44`, "Delete deletes this identity", a certificate and its key |
| `NeverReleasedTwice` | `StoreCalls`, `StoreCalls.cfg` | `certstore_windows.go:591` frees in `Close` the handle `NCryptDeleteKey` has freed in `Delete` | `certstore.go:47`, "Close any manually managed memory held by the Identity" |

`ConvertedToDer` holds with `RefusedForms = FALSE` only, the setting of its run,
because of `EveryFormConverted`. Nothing recovers the panic of `CutIsAnError`: a cut
signature ends `--verify` as an unparsable one does, with an exit code other than 0 and
no line but NEWSIG, which is all git sees. `StorePromise` allows what `NoOrphanKey`
does not. `CompleteOrError` excepts lists that ended while the last
error was read on another thread: `checkError` (`certstore_windows.go:628`) makes a cgo
call of its own, between which and the failed one the scheduler may move the goroutine,
so an error can pass for the end of a list.

One sentence of the docs is more cautious than the code and no divergence:
`docs/kmssign.md:251-253` says that `verify-commit` "may report the signer as untrusted"
of a self-signed test certificate. Where the store that is open has that certificate,
it is a root by `verifyOpts` and the signature is trusted fully (`OwnSignatureTrusted`);
elsewhere it leads to no root, and ERRSIG is said.


## 7. What is not modelled

- References of the system stores that live no longer than one call: the policy and the
  trust of `CertificateChain`, `cfError`'s, the chain context of a bad chain, the copies
  of `getProviderParam`. Whether they leak is not looked at.
- `crypt_strings_windows.go`, a table of names of errors.
- A SET OF ANY of more than one element: the program makes none.
- The order of certificates and signers after encoding: any, see `SignedDataCalls`.
- ASN.1 struct tags, PEM text, the wording of status lines, lists and usage.
- Credentials, the SDK's host name check, TLS: the client can be had or not.
- The tables' object identifiers: data. `certHexFingerprint`: wording. `setupStatus`'
  parsing of the descriptor's number.
- `fakeca`, `scripts`, `windows-installer`, `.github`: not part of the program.

Assumptions in what is modelled: a user-id's characters are single bytes; no
certificate has an empty address among its alternative names (an empty one would
match every search by fingerprint, `certHasEmail` not excluding it); a timestamp
token has one signer; the commands return or panic (`RunCommand`).


## 8. The plan

The order in which the modules were, and are to be, written: the signing command
first, because it is what git relies on and where the remote parties are; then
verification, then the parts that decide who signs, with what and how it is
written; then the parts of the program other systems use.

Done: `CertSelection`, `CertBundle`, `SignedData`, `SigningPromise`, `CommandSign`;
`X509`, `SignatureVerify`, `VerifyPromise`, `CommandVerify`; `UserIdentity`,
`RunCommand`, `Ber`; `SignatureAlgorithms`, `Attributes`, `SignedDataCalls`;
`StorePromise`, `SystemStore`, `WinStore`, `MacStore`, `StoreCalls`; and the proofs of
the nine of these that have theorems.

Next, to extend the model:

1. `SignThenVerify`: `CommandSign` and `CommandVerify` composed over one object:
   what the first announces the second calls good, while roots and rotation allow.
2. `CertificatesMatch` in the composition of `UserIdentity` and `CommandSign`: the
   identity found is the one whose chain is embedded.
