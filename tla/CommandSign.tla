---------------------------- MODULE CommandSign ----------------------------
(***************************************************************************)
(* One run of git-kmssign --sign: commandSign (command_sign.go), the Key   *)
(* Vault signer it calls (azuresign/signer.go), the timestamp request it   *)
(* makes (ietf-cms/timestamp.go) and the status lines it writes            *)
(* (status.go), against an environment that answers late, more than once,  *)
(* with an error or not at all, that rotates the vault's key, closes the   *)
(* status stream, breaks the output and kills the process.  The identity   *)
(* is the Key Vault store's; the errors the certstore.Identity interface   *)
(* lets the stores of other systems return are kept.                       *)
(***************************************************************************)
EXTENDS SignedData, CertSelection, FiniteSets

CONSTANTS Options,      \* the ways the program is run, see OptionsAssumption
          MaxVersion,   \* bound: versions of the vault's key
          MaxTries,     \* tries of the Azure SDK for one Sign operation
          Chunks,       \* writes it takes to output a signature
          Nonce,        \* values of a timestamp nonce, as 128 random bits
          StaleNonce    \* those of earlier requests: the new one is none of them

Versions == 1 .. MaxVersion
Latest == 0             \* GIT_KMSSIGN_KEY_VERSION is empty

ASSUME OptionsAssumption ==
  \A o \in Options :
    /\ o.user \in {"known", "unknown", "malformed"}  \* what -u finds
    /\ o.detach \in BOOLEAN                          \* -b
    /\ o.tsa \in BOOLEAN                             \* -t, or defaultTSA
    /\ o.statusFd \in BOOLEAN                        \* --status-fd names a writable fd
    /\ o.include \in Int                             \* --include-certs
    /\ o.version \in {Latest} \cup Versions          \* GIT_KMSSIGN_KEY_VERSION
    /\ o.chain \in Seq([subject : STRING, issuer : STRING, serial : Nat, aia : BOOLEAN,
                        key : Versions, alg : {"RSA"}])
    /\ o.chain # <<>>                                \* GIT_KMSSIGN_CERT, leaf first

ASSUME BoundsAssumption ==
  /\ MaxVersion \in Nat \ {0} /\ MaxTries \in Nat \ {0} /\ Chunks \in Nat \ {0}
  /\ StaleNonce \subseteq Nonce

VARIABLES
  opts,      \* how this run was started; never changes
  pc,        \* the call commandSign is about to make
  exit,      \* "running", or how the process ended
  cause,     \* the call whose error ended it
  message,   \* the message read, NoContent before
  sd,        \* the SignedData under construction
  latest,    \* Key Vault: the newest version of the key
  inVault,   \* Key Vault: a request of this run not handled yet
  answer,    \* the response under way to this run
  tries,     \* requests the SDK has sent
  produced,  \* history: the signatures the vault has made for this run
  request,   \* the timestamp request, NoRequest before
  reply,     \* the TSA's HTTP response, NoReply before
  statusUp,  \* the status stream exists and is read
  status,    \* the lines that have reached it
  sent       \* chunks of the signature written to stdout

runVars    == <<opts, message, sd>>
vaultVars  == <<latest, inVault, answer, tries, produced>>
tsaVars    == <<request, reply>>
outputVars == <<statusUp, status, sent>>
vars == <<opts, pc, exit, cause, message, sd, latest, inVault, answer, tries,
          produced, request, reply, statusUp, status, sent>>

-----------------------------------------------------------------------------
(* Values *)

Leaf == opts.chain[1]

\* The digest azuresign's Sign is given is that of the marshaled attributes.
Signature == [key : Versions, over : [digest : Message]]
NoAnswer == [kind |-> "none"]
Signed(sig) == [kind |-> "signature", sig |-> sig]
Refused == [kind |-> "error"]           \* err # nil
Empty == [kind |-> "empty"]             \* len(resp.Result) == 0
Lost == [kind |-> "lost"]               \* a transport error the SDK retries
Answers == {NoAnswer, Refused, Empty, Lost} \cup {Signed(s) : s \in Signature}

NoRequest == [kind |-> "none"]
Requests == [kind : {"request"}, imprint : Signature, nonce : Nonce \ StaleNonce]

Token == [imprint : Signature, nonce : Nonce]
\* An HTTP response: its media type, whether it has a Content-Length, and the
\* TimeStampResp in it.  A response may be an old one, or one for other data.
NoReply == [kind |-> "none"]
Replies == [kind : {"reply"}, media : BOOLEAN, sized : BOOLEAN,
            wellFormed : BOOLEAN, status : 0 .. 2, token : Token]

Init ==
  /\ opts \in Options
  /\ pc = "find" /\ exit = "running" /\ cause = "none"
  /\ message = NoContent
  /\ sd = NewSignedData(NoContent)
  /\ latest \in Versions
  /\ inVault = FALSE /\ answer = NoAnswer /\ tries = 0 /\ produced = {}
  /\ request = NoRequest /\ reply = NoReply
  /\ statusUp = opts.statusFd /\ status = <<>> /\ sent = 0

-----------------------------------------------------------------------------
(* Leaving commandSign, and the status stream *)

At(label) == pc = label /\ exit = "running"
Goto(label) == pc' = label /\ UNCHANGED <<exit, cause>>

\* return errors.Wrap(err, ...): main prints the error and exits with 1.
Fail(reason) == pc' = "done" /\ exit' = "failed" /\ cause' = reason

\* status.emit and emitf drop the errors of their writes.
Emit(line) == status' = IF statusUp THEN Append(status, line) ELSE status

-----------------------------------------------------------------------------
(* commandSign, in the order of the code *)

\* findUserIdentity: a user-id that is neither an email nor a fingerprint, or
\* that matches no identity.
IdentityNotFound ==
  /\ At("find") /\ opts.user # "known"
  /\ Fail("identity")
  /\ UNCHANGED <<runVars, vaultVars, tsaVars, outputVars>>

BeginSigning ==
  /\ At("find") /\ opts.user = "known"
  /\ Emit("BEGIN_SIGNING")
  /\ Goto("signer")
  /\ UNCHANGED <<runVars, vaultVars, tsaVars, statusUp, sent>>

\* Certificate() and Signer() of the certstore.Identity.
GetSigner ==
  /\ At("signer")
  /\ Goto("read")
  /\ UNCHANGED <<runVars, vaultVars, tsaVars, outputVars>>

SignerError ==
  /\ At("signer")
  /\ Fail("signer")
  /\ UNCHANGED <<runVars, vaultVars, tsaVars, outputVars>>

\* The message, from the file argument or from stdin, into a SignedData.
ReadMessage ==
  /\ At("read")
  /\ \E m \in Message : message' = m /\ sd' = NewSignedData(m)
  /\ Goto("sign")
  /\ UNCHANGED <<opts, vaultVars, tsaVars, outputVars>>

ReadError ==
  /\ At("read")
  /\ Fail("read")
  /\ UNCHANGED <<runVars, vaultVars, tsaVars, outputVars>>

\* sd.Sign up to azuresign's call of the vault.  Signer.Public() is the public
\* key of the leaf certificate, never asked of the vault.
RequestSignature ==
  /\ At("sign")
  /\ LET p == PrepareSigner(sd, <<Leaf>>, Leaf.key)
     IN /\ sd' = p.sd
        /\ IF p.err = "none"
           THEN Goto("vault") /\ inVault' = TRUE /\ tries' = 1
           ELSE Fail(p.err) /\ UNCHANGED <<inVault, tries>>
  /\ UNCHANGED <<opts, message, latest, answer, produced, tsaVars, outputVars>>

\* A usable answer: the signature is taken as it is.
AddSignerInfo ==
  /\ At("vault") /\ answer.kind = "signature"
  /\ sd' = AddSigner(sd, Leaf, answer.sig)
  /\ answer' = NoAnswer
  /\ Goto("seal")
  /\ UNCHANGED <<opts, message, latest, inVault, tries, produced, tsaVars, outputVars>>

VaultError ==
  /\ At("vault")
  /\ \/ answer \in {Refused, Empty}
     \/ answer = Lost /\ tries = MaxTries
  /\ Fail("vault")
  /\ UNCHANGED <<runVars, vaultVars, tsaVars, outputVars>>

\* Mutant of VaultTimeout: there is no timeout.
NoVaultTimeout == FALSE

\* Mutant of VaultTimeout: the error of the call is not looked at.
IgnoreVaultTimeout ==
  /\ At("vault")
  /\ Goto("announce")
  /\ UNCHANGED <<runVars, vaultVars, tsaVars, outputVars>>

\* context.WithTimeout(defaultSignTimeout): the call returns, whatever the
\* vault does with the request later.
VaultTimeout ==
  /\ At("vault")
  /\ Fail("vault")
  /\ UNCHANGED <<runVars, vaultVars, tsaVars, outputVars>>

\* Mutant of Seal: the content is detached whatever the flag says.
SealAlwaysDetached ==
  /\ At("seal")
  /\ sd' = Detached(sd)
  /\ Goto(IF opts.tsa THEN "timestamp" ELSE "chain")
  /\ UNCHANGED <<opts, message, vaultVars, tsaVars, outputVars>>

\* if *detachSignFlag, and the branch on *tsaOpt.
Seal ==
  /\ At("seal")
  /\ sd' = IF opts.detach THEN Detached(sd) ELSE sd
  /\ Goto(IF opts.tsa THEN "timestamp" ELSE "chain")
  /\ UNCHANGED <<opts, message, vaultVars, tsaVars, outputVars>>

\* AddTimestamps, fetchTS, tsRequest: the imprint is of the signature, the
\* nonce is new.
RequestTimestamp ==
  /\ At("timestamp")
  /\ \E n \in Nonce \ StaleNonce :
       request' = [kind |-> "request", imprint |-> sd.signers[1].sig, nonce |-> n]
  /\ Goto("tsa")
  /\ UNCHANGED <<runVars, vaultVars, reply, outputVars>>

AddTimestamp ==
  /\ At("tsa") /\ reply.kind = "reply"
  /\ reply.media /\ reply.sized /\ Acceptable(request, reply)
  /\ sd' = AttachTokens(sd, <<reply.token>>)
  /\ Goto("chain")
  /\ UNCHANGED <<opts, message, vaultVars, tsaVars, outputVars>>

\* A wrong media type, a response that does not parse, a status other than
\* granted, a token for something else.
TimestampError ==
  /\ At("tsa") /\ reply.kind = "reply"
  /\ ~reply.media \/ (reply.sized /\ ~Acceptable(request, reply))
  /\ Fail("timestamp")
  /\ UNCHANGED <<runVars, vaultVars, tsaVars, outputVars>>

\* make([]byte, 0, -1): ContentLength is -1 when the length is not known.
TimestampPanic ==
  /\ At("tsa") /\ reply.kind = "reply" /\ reply.media /\ ~reply.sized
  /\ pc' = "done" /\ exit' = "panic" /\ cause' = "timestamp"
  /\ UNCHANGED <<runVars, vaultVars, tsaVars, outputVars>>

\* CertificateChain, certsForSignature, SetCertificates, ToDER.
IncludeCertificates ==
  /\ At("chain")
  /\ LET set == SetCertificates(sd, CertsForSignature(opts.include, opts.chain))
     IN sd' = set.sd /\ IF set.ok THEN Goto("announce") ELSE Fail("certificates")
  /\ UNCHANGED <<opts, message, vaultVars, tsaVars, outputVars>>

ChainError ==
  /\ At("chain")
  /\ Fail("chain")
  /\ UNCHANGED <<runVars, vaultVars, tsaVars, outputVars>>

EmitSigCreated ==
  /\ At("announce")
  /\ Emit("SIG_CREATED")
  /\ Goto("write")
  /\ UNCHANGED <<runVars, vaultVars, tsaVars, statusUp, sent>>

\* pem.Encode or stdout.Write, one write at a time.
WriteChunk ==
  /\ At("write") /\ sent < Chunks
  /\ sent' = sent + 1
  /\ UNCHANGED <<pc, exit, cause, runVars, vaultVars, tsaVars, statusUp, status>>

\* Mutant of WriteError: the error of the write is dropped.
WriteErrorDropped ==
  /\ At("write") /\ sent < Chunks
  /\ pc' = "done" /\ exit' = "ok"
  /\ UNCHANGED <<cause, runVars, vaultVars, tsaVars, outputVars>>

WriteError ==
  /\ At("write") /\ sent < Chunks
  /\ Fail("write")
  /\ UNCHANGED <<runVars, vaultVars, tsaVars, outputVars>>

Return ==
  /\ At("write") /\ sent = Chunks
  /\ pc' = "done" /\ exit' = "ok"
  /\ UNCHANGED <<cause, runVars, vaultVars, tsaVars, outputVars>>

-----------------------------------------------------------------------------
(* Azure Key Vault and its SDK *)

\* Mutant of Resolve: the version asked for is ignored.
ResolveNewest(version) == latest

\* The version a Sign operation uses: the one named, or the newest.
Resolve(version) == IF version = Latest THEN latest ELSE version

\* The vault handles the request, whether or not the program still waits; the
\* response may get lost on the way back.
VaultSigns ==
  /\ inVault /\ Resolve(opts.version) <= latest
  /\ LET sig == [key |-> Resolve(opts.version), over |-> SignedAttrs(message)]
     IN /\ produced' = produced \cup {sig}
        /\ answer' \in IF pc = "vault" THEN {Signed(sig), Lost} ELSE {answer}
  /\ inVault' = FALSE
  /\ UNCHANGED <<pc, exit, cause, runVars, latest, tries, tsaVars, outputVars>>

\* It refuses (permission, no such version), answers without a result, or never
\* gets the request.
VaultFails ==
  /\ inVault
  /\ answer' \in IF pc = "vault" THEN {Refused, Empty, Lost} ELSE {answer}
  /\ inVault' = FALSE
  /\ UNCHANGED <<pc, exit, cause, runVars, latest, tries, produced, tsaVars, outputVars>>

\* Mutant of Retry: it never gives up.
RetryForever ==
  /\ At("vault") /\ answer = Lost
  /\ inVault' = TRUE /\ answer' = NoAnswer /\ tries' = tries + 1
  /\ UNCHANGED <<pc, exit, cause, runVars, latest, produced, tsaVars, outputVars>>

\* The SDK's retry policy sends a request again after a transport error.
Retry ==
  /\ At("vault") /\ answer = Lost /\ tries < MaxTries
  /\ inVault' = TRUE /\ answer' = NoAnswer /\ tries' = tries + 1
  /\ UNCHANGED <<pc, exit, cause, runVars, latest, produced, tsaVars, outputVars>>

\* Renewing the certificate in the vault makes a new version of the key; the
\* PEM file of this run stays as it is.
RotateKey ==
  /\ latest < MaxVersion
  /\ latest' = latest + 1
  /\ UNCHANGED <<pc, exit, cause, runVars, inVault, answer, tries, produced,
                 tsaVars, outputVars>>

-----------------------------------------------------------------------------
(* The timestamp authority, and the rest of the world *)

TSAReplies ==
  /\ At("tsa") /\ reply = NoReply
  /\ reply' \in Replies
  /\ UNCHANGED <<pc, exit, cause, runVars, vaultVars, request, outputVars>>

\* No connection, or one that breaks: an error of http.Client.Do.
TSAUnreachable ==
  /\ At("tsa") /\ reply = NoReply
  /\ Fail("timestamp")
  /\ UNCHANGED <<runVars, vaultVars, tsaVars, outputVars>>

StatusReaderLeaves ==
  /\ statusUp
  /\ statusUp' = FALSE
  /\ UNCHANGED <<pc, exit, cause, runVars, vaultVars, tsaVars, status, sent>>

Kill ==
  /\ exit = "running"
  /\ pc' = "done" /\ exit' = "killed"
  /\ UNCHANGED <<cause, runVars, vaultVars, tsaVars, outputVars>>

-----------------------------------------------------------------------------

\* What the program does itself, once it is its turn.
Program ==
  \/ IdentityNotFound \/ BeginSigning \/ GetSigner \/ SignerError
  \/ ReadMessage \/ ReadError \/ RequestSignature \/ AddSignerInfo
  \/ VaultError \/ Retry \/ Seal \/ RequestTimestamp \/ AddTimestamp \/ TimestampError
  \/ TimestampPanic \/ IncludeCertificates \/ ChainError \/ EmitSigCreated
  \/ WriteChunk \/ WriteError \/ Return

Environment ==
  \/ VaultSigns \/ VaultFails \/ RotateKey
  \/ TSAReplies \/ TSAUnreachable \/ StatusReaderLeaves \/ Kill

Next == Program \/ VaultTimeout \/ Environment

Spec == Init /\ [][Next]_vars

\* The process is scheduled and the context's timer fires; nothing is assumed of
\* the vault, the timestamp authority or the readers of the output.
FairSpec == Spec /\ WF_vars(Program) /\ WF_vars(VaultTimeout)

-----------------------------------------------------------------------------
(* Properties *)

Announced == \E k \in DOMAIN status : status[k] = "SIG_CREATED"

Line == {"BEGIN_SIGNING", "SIG_CREATED"}

SignerInfos == [sid : [issuer : STRING, serial : Nat], attrs : [digest : Message],
                sig : Signature, tokens : Seq(Token)]

\* The types of the variables of a run, of the vault and of the output.
TypeOK ==
  /\ opts \in Options
  /\ pc \in {"find", "signer", "read", "sign", "vault", "seal", "timestamp", "tsa",
             "chain", "announce", "write", "done"}
  /\ exit \in {"running", "ok", "failed", "panic", "killed"}
  /\ message \in Message \cup {NoContent}
  /\ sd = [content |-> sd.content, certs |-> sd.certs, signers |-> sd.signers]
  /\ sd.content \in Message \cup {NoContent}
  /\ sd.signers \in Seq(SignerInfos)
  /\ latest \in Versions
  /\ inVault \in BOOLEAN
  /\ answer \in Answers
  /\ tries \in 0 .. MaxTries
  /\ produced \subseteq Signature
  /\ request \in Requests \cup {NoRequest}
  /\ reply \in Replies \cup {NoReply}
  /\ statusUp \in BOOLEAN
  /\ status \in Seq(Line)
  /\ sent \in 0 .. Chunks

\* SIG_CREATED is said of a finished object only: one signer, whose signature
\* the vault made in this run over the very message read, the content detached
\* and a timestamp present exactly when asked for.
AnnouncementIsTrue ==
  Announced =>
    /\ Len(sd.signers) = 1
    /\ sd.signers[1].sig \in produced
    /\ sd.signers[1].sig.over = sd.signers[1].attrs
    /\ sd.signers[1].attrs = SignedAttrs(message)
    /\ sd.content = IF opts.detach THEN NoContent ELSE message
    /\ Len(sd.signers[1].tokens) = IF opts.tsa THEN 1 ELSE 0

\* The certificates announced are those --include-certs selects, in order, with
\* none left over from sd.Sign, which has added the leaf before.
SelectionEmbedded ==
  Announced =>
    LET bundle == CertsForSignature(opts.include, opts.chain)
    IN sd.certs = [k \in DOMAIN bundle |-> Der(bundle[k])]

\* What arrives on the status stream is a prefix of BEGIN_SIGNING, SIG_CREATED:
\* git looks for "\n[GNUPG:] SIG_CREATED ", so SIG_CREATED never comes first
\* (the comment in commandSign), and neither line comes twice.
LinesInOrder ==
  status \in {<<>>, <<"BEGIN_SIGNING">>, <<"BEGIN_SIGNING", "SIG_CREATED">>}

\* Exit code 0 means the whole signature was written, and that both status
\* lines arrived unless the status stream was never there or went away.
SuccessIsDelivered ==
  exit = "ok" => /\ sent = Chunks
                 /\ sd.signers # <<>>
                 /\ statusUp => status = <<"BEGIN_SIGNING", "SIG_CREATED">>

\* A timestamp in the signature is for this signature and answers this run's
\* request: neither an old response nor one for other data is ever attached.
TimestampsAreFresh ==
  \A k \in DOMAIN sd.signers : \A t \in DOMAIN sd.signers[k].tokens :
    /\ sd.signers[k].tokens[t].imprint = sd.signers[k].sig
    /\ sd.signers[k].tokens[t].nonce \notin StaleNonce

\* With GIT_KMSSIGN_KEY_VERSION set to the version the certificate is for, the
\* signature verifies with the certificate, whatever rotations, lost responses
\* and retries happen meanwhile (docs/kmssign.md: "pin ... if you need
\* stability").
PinnedKeyMatches ==
  exit = "ok" /\ opts.version = Leaf.key
    => \A k \in DOMAIN sd.signers : sd.signers[k].sig.key = Leaf.key

\* No byte of the signature is written before SIG_CREATED is, as long as there
\* is a status stream to write it to.
OutputAfterAnnouncement == [][sent' > sent => Announced \/ ~statusUp]_vars

\* Once the process is done, an answer still under way and a request still in
\* the vault change nothing git can see.
DoneIsDone == [][exit # "running" => UNCHANGED <<sd, status, sent, exit, cause>>]_vars

\* A run ends whatever the vault does, because every Sign operation is under a
\* timeout; the only thing it can wait for forever is the timestamp authority,
\* since http.DefaultClient has none.
EndsOrAwaitsTSA == <>(exit # "running") \/ <>[](pc = "tsa" /\ exit = "running")

\* What each stage of commandSign has done already: the strengthening of the
\* properties above that every step preserves.  Before the vault's answer is
\* taken there is no signer; from then on there is one, over the message read;
\* the content, the token and the status lines follow as the stages pass.
SignerDone == {"seal", "timestamp", "tsa", "chain", "announce", "write"}

SignerStage ==
  /\ (exit = "running") = (pc # "done")
  /\ pc \in {"find", "signer", "read"} =>
       sd.signers = <<>> /\ ~inVault /\ answer = NoAnswer
  /\ pc \in {"sign", "vault"} =>
       sd.signers = <<>> /\ message \in Message /\ sd.content = message
  /\ pc = "seal" => sd.content = message /\ sd.signers[1].tokens = <<>>
  /\ pc \in SignerDone =>
       /\ Len(sd.signers) = 1
       /\ sd.signers[1].sig \in produced
       /\ sd.signers[1].sig.over = sd.signers[1].attrs
       /\ sd.signers[1].attrs = SignedAttrs(message)
  /\ pc \in SignerDone \ {"seal"} =>
       sd.content = IF opts.detach THEN NoContent ELSE message
  /\ pc \in {"timestamp", "tsa"} => opts.tsa /\ sd.signers[1].tokens = <<>>
  /\ pc = "tsa" => request \in Requests /\ request.imprint = sd.signers[1].sig
  /\ pc \in {"chain", "announce", "write"} =>
       Len(sd.signers[1].tokens) = IF opts.tsa THEN 1 ELSE 0

VaultStage ==
  /\ inVault => message \in Message
  /\ answer.kind = "signature" =>
       /\ answer.sig \in produced
       /\ answer.sig.over = SignedAttrs(message)
       /\ opts.version # Latest => answer.sig.key = opts.version
  /\ \A k \in DOMAIN sd.signers :
       opts.version # Latest => sd.signers[k].sig.key = opts.version

OutputStage ==
  /\ LinesInOrder
  /\ pc = "find" => status = <<>>
  /\ pc \notin {"find", "write", "done"} =>
       status # <<"BEGIN_SIGNING", "SIG_CREATED">> /\ (statusUp => status # <<>>)
  /\ pc = "write" /\ statusUp => status = <<"BEGIN_SIGNING", "SIG_CREATED">>
  /\ pc \notin {"write", "done"} => sent = 0

StageInv == SignerStage /\ VaultStage /\ OutputStage

\* git's view of the run.
Promise == INSTANCE SigningPromise WITH
  Signature   <- Signature,
  NoSignature <- NoAnswer,
  Chunks      <- Chunks,
  signature   <- IF sd.signers = <<>> THEN NoAnswer ELSE sd.signers[1].sig,
  announced   <- Announced,
  silent      <- ~statusUp,
  delivered   <- sent,
  verdict     <- exit

\* A run of commandSign is a run git may rely on.
KeepsPromise == Promise!Spec

\* status.go of BEGIN_SIGNING: "This may be used as an indication that all
\* requested secret keys are ready for use."  So once it has been said the run
\* does not fail for want of the key.
\* It does not hold of the code: see "Divergences" in the README.
BeginMeansKeyReady ==
  ~(status # <<>> /\ exit = "failed" /\ cause = "vault")

\* azuresign/signer.go of Signer.Public: "It must exactly match the certificate
\* the CMS layer signs with", that is, the key the vault signs with is the
\* certificate's.
SignatureMatchesCertificate ==
  exit = "ok" => \A k \in DOMAIN sd.signers : sd.signers[k].sig.key = Leaf.key
============================================================================
