---------------------------- MODULE CommandVerify ----------------------------
(***************************************************************************)
(* One run of git-kmssign --verify: commandVerify with verifyAttached and  *)
(* verifyDetached (command_verify.go), which read files, call              *)
(* SignatureVerify and write status lines (status.go).                     *)
(***************************************************************************)
EXTENDS SignatureVerify

CONSTANTS Runs,         \* the ways the program is run, see RunsAssumption
          SystemRoots,  \* x509.SystemCertPool()
          Absent,       \* a file that cannot be opened
          Unparsable    \* a file that is no CMS SignedData

\* run.args      the number of files named: none, the signature, or the
\*               signature and the message ("-", or a third one, make no odds)
\* run.signature what the signature file holds: an object as in SignatureVerify
\* run.message   what the message file holds
\* run.idents    the certificates of the store's identities
\* run.statusFd  whether --status-fd names a writable descriptor

\* What the user asks about: the object in the signature file, alone or with the
\* message file, under the system's roots and the user's own certificates.
Question(r) ==
  [sd |-> r.signature, roots |-> SystemRoots \cup r.idents, given |-> {}, time |-> 0,
   message |-> IF r.args < 2 THEN NoContent ELSE r.message]

Readable(r) ==
  r.signature \notin {Absent, Unparsable} /\ (r.args = 2 => r.message # Absent)

ASSUME RunsAssumption ==
  \A r \in Runs : /\ r.args \in 0 .. 2 /\ r.statusFd \in BOOLEAN
                  /\ Readable(r) => IsCall(Question(r))

VARIABLES run, step, exit, statusUp, status

ownVars == <<run, step, exit, statusUp, status>>
vars == <<run, step, exit, statusUp, status, call, pc, pool, k, time, chains, result>>

Init ==
  /\ run \in Runs
  /\ step = "begin" /\ exit = "running"
  /\ statusUp = run.statusFd /\ status = <<>>
  /\ VerifyInit

-----------------------------------------------------------------------------

At(label) == step = label /\ exit = "running"
Goto(label) == step' = label /\ UNCHANGED <<run, exit>>
Fail == step' = "done" /\ exit' = "failed" /\ UNCHANGED run

\* status.emit and emitf drop the errors of their writes.
Emit(line) == status' = IF statusUp THEN Append(status, line) ELSE status

Quiet == UNCHANGED <<statusUp, status>>

\* Mutant of EmitNewSig: nothing is said.
BeginSilently ==
  /\ At("begin")
  /\ Goto("open")
  /\ Quiet /\ UNCHANGED verifyVars

EmitNewSig ==
  /\ At("begin")
  /\ Emit("NEWSIG") /\ UNCHANGED statusUp
  /\ Goto("open")
  /\ UNCHANGED verifyVars

\* The signature is on stdin, or in the first file.
OpenSignature ==
  /\ At("open")
  /\ IF run.args = 0 \/ run.signature # Absent THEN Goto("read") ELSE Fail
  /\ Quiet /\ UNCHANGED verifyVars

\* io.Copy, pem.Decode, cms.ParseSignedData.  What is no SignedData is an error, or a
\* panic of BER2DER, which nothing recovers: the exit code is not 0 either way.
ReadSignature ==
  /\ At("read")
  /\ IF run.signature \in {Absent, Unparsable} THEN Fail
     ELSE Goto(IF run.args < 2 THEN "call" ELSE "message")
  /\ Quiet /\ UNCHANGED verifyVars

ReadError ==
  /\ step \in {"read", "readMessage"} /\ exit = "running"
  /\ Fail
  /\ Quiet /\ UNCHANGED verifyVars

\* Mutant of OpenMessage: a file that does not open is tried again.
OpenMessageRetry ==
  /\ At("message") /\ run.message # Absent
  /\ Goto("readMessage")
  /\ Quiet /\ UNCHANGED verifyVars

\* The error of os.Open is made into one that nothing returns.
OpenMessage ==
  /\ At("message")
  /\ Goto("readMessage")
  /\ Quiet /\ UNCHANGED verifyVars

\* A file that did not open is a nil *os.File, which cannot be read either.
ReadMessage ==
  /\ At("readMessage")
  /\ IF run.message = Absent THEN Fail ELSE Goto("call")
  /\ Quiet /\ UNCHANGED verifyVars

\* Mutant of VerifyOpts: the user's certificates are left out.
SystemOnly == SystemRoots

\* verifyOpts: the system's roots and the certificates of the user's own
\* identities.
VerifyOpts == SystemRoots \cup run.idents

CallVerify ==
  /\ At("call")
  /\ Goto("verify")
  /\ Call([sd |-> run.signature, roots |-> VerifyOpts, given |-> {}, time |-> 0,
           message |-> IF run.args < 2 THEN NoContent ELSE run.message])
  /\ Quiet

Verifying ==
  /\ At("verify")
  /\ VerifyStep
  /\ UNCHANGED ownVars

\* Mutant of EmitVerdict: it does not return.
EmitVerdictGoOn ==
  /\ At("verify") /\ pc = "done" /\ result # "ok"
  /\ Emit(IF chains # <<>> THEN "BADSIG" ELSE "ERRSIG") /\ UNCHANGED statusUp
  /\ Goto("return")
  /\ UNCHANGED verifyVars

\* emitBadSig when verify has returned chains with the error, else ERRSIG.
EmitVerdict ==
  /\ At("verify") /\ pc = "done" /\ result # "ok"
  /\ Emit(IF chains # <<>> THEN "BADSIG" ELSE "ERRSIG") /\ UNCHANGED statusUp
  /\ Fail
  /\ UNCHANGED verifyVars

\* Mutant of EmitGoodSig: the error of Verify is not looked at.
EmitGoodSigUnchecked ==
  /\ At("verify") /\ pc = "done"
  /\ Emit("GOODSIG") /\ UNCHANGED statusUp
  /\ Goto("trust")
  /\ UNCHANGED verifyVars

\* Mutant of EmitGoodSig: the trust line is forgotten.
EmitGoodSigOnly ==
  /\ At("verify") /\ pc = "done" /\ result = "ok"
  /\ Emit("GOODSIG") /\ UNCHANGED statusUp
  /\ Goto("return")
  /\ UNCHANGED verifyVars

\* GOODSIG names chains[0][0][0]
EmitGoodSig ==
  /\ At("verify") /\ pc = "done" /\ result = "ok"
  /\ Emit("GOODSIG") /\ UNCHANGED statusUp
  /\ Goto("trust")
  /\ UNCHANGED verifyVars

EmitTrustFully ==
  /\ At("trust")
  /\ Emit("TRUST_FULLY") /\ UNCHANGED statusUp
  /\ Goto("return")
  /\ UNCHANGED verifyVars

Return ==
  /\ At("return")
  /\ step' = "done" /\ exit' = "ok" /\ UNCHANGED run
  /\ Quiet /\ UNCHANGED verifyVars

StatusReaderLeaves ==
  /\ statusUp
  /\ statusUp' = FALSE
  /\ UNCHANGED <<run, step, exit, status>> /\ UNCHANGED verifyVars

Kill ==
  /\ exit = "running"
  /\ step' = "done" /\ exit' = "killed"
  /\ UNCHANGED run /\ Quiet /\ UNCHANGED verifyVars

Program ==
  \/ EmitNewSig \/ OpenSignature \/ ReadSignature \/ ReadError \/ OpenMessage
  \/ ReadMessage \/ CallVerify \/ Verifying \/ EmitVerdict \/ EmitGoodSig
  \/ EmitTrustFully \/ Return

Next == Program \/ StatusReaderLeaves \/ Kill

Spec == Init /\ [][Next]_vars
FairSpec == Spec /\ WF_vars(Program)

-----------------------------------------------------------------------------
(* Properties *)

Lines == Elements(status)
Codes == {"GOODSIG", "BADSIG", "ERRSIG"}

\* The types, and what a step has behind it: the call is made once, and nothing
\* good is said or returned without its success.
RunTypeOK ==
  /\ step \in {"begin", "open", "read", "message", "readMessage", "call", "verify",
               "trust", "return", "done"}
  /\ exit \in {"running", "ok", "failed", "killed"}
  /\ statusUp \in BOOLEAN
  /\ Lines \subseteq {"NEWSIG", "TRUST_FULLY"} \cup Codes
  /\ step = "done" <=> exit # "running"
  /\ step \in {"begin", "open", "read", "message", "readMessage", "call"} => call = NoCall
  /\ step \in {"trust", "return"} \/ exit = "ok" => result = "ok"

GenuineRun == Readable(run) /\ Genuine(Question(run))

\* "For each signature only one of the codes ... will be emitted", and NEWSIG
\* "is issued right before a signature verification starts" (status.go): every
\* code comes after NEWSIG, only one comes, and trust follows a good one.
CodesInOrder ==
  \A n \in DOMAIN status :
    /\ status[n] = "NEWSIG" <=> n = 1
    /\ status[n] \in Codes <=> n = 2
    /\ status[n] = "TRUST_FULLY" => n = 3 /\ status[2] = "GOODSIG"

\* The exit code and the status lines agree: success with both lines of a good
\* signature, failure with neither of them, whatever failed and whenever, as
\* long as there is somebody to read the lines.
ExitAgreesWithStatus ==
  /\ exit = "ok" /\ statusUp => status = <<"NEWSIG", "GOODSIG", "TRUST_FULLY">>
  /\ exit = "failed" => {"GOODSIG", "TRUST_FULLY"} \cap Lines = {}

\* A signature by one of the user's own keys verifies without any chain, since
\* verifyOpts makes the identities' certificates roots: when all signers are the
\* user's, and valid when they signed, none lacks an authority.
OwnSignatureTrusted ==
  result = "unknown authority" =>
    \E si \in Elements(call.sd.signers) :
      \/ si.tokens # <<>>
      \/ Named(si, call.sd.certs) = {}
      \/ LET cert == FindCertificate(si, call.sd.certs)
         IN cert \notin run.idents \/ ~ValidAt(cert, Now)

\* Every run ends: nothing in a verification waits for anyone but the files.
VerifyEnds == <>(exit # "running")

\* git's view.
Promise == INSTANCE VerifyPromise WITH
  genuine <- GenuineRun,
  code    <- IF Lines \cap Codes = {} THEN "none" ELSE status[2],
  trusted <- "TRUST_FULLY" \in Lines,
  silent  <- ~statusUp,
  verdict <- exit

\* A verification is one git may rely on.
KeepsPromise == Promise!Spec

\* status.go of BADSIG: "The signature with the keyid has not been verified
\* okay", and of ERRSIG: "It was not possible to check the signature".  So a
\* signature that was checked and does not hold is BADSIG.
BadSignatureSaid ==
  step = "done" /\ exit = "failed" /\ result \in {"verification error", "invalid message digest"}
    => "ERRSIG" \notin Lines
=============================================================================
