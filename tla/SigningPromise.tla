--------------------------- MODULE SigningPromise ---------------------------
(***************************************************************************)
(* What git may rely on when it runs a signing program and watches its     *)
(* status stream, its standard output and its exit code.  The program may  *)
(* give up at any time, but output starts only once a signature exists,    *)
(* SIG_CREATED is said before the output and only of an existing           *)
(* signature, and success is reported for a complete output only.          *)
(* Nothing is said of how the signature comes about.                       *)
(***************************************************************************)
EXTENDS Integers

CONSTANTS Signature,    \* the signatures there can be
          NoSignature,
          Chunks        \* writes the output takes

VARIABLES signature,   \* the signature made in this run
          announced,   \* whether SIG_CREATED has reached the status stream
          silent,      \* nobody reads, or can read, the status stream any more
          delivered,   \* how many chunks of the output have been written
          verdict      \* the exit code, "running" before there is one

vars == <<signature, announced, silent, delivered, verdict>>

Init ==
  /\ signature = NoSignature
  /\ announced = FALSE
  /\ silent \in BOOLEAN
  /\ delivered = 0
  /\ verdict = "running"

Running == verdict = "running"

Make ==
  /\ Running /\ signature = NoSignature
  /\ signature' \in Signature
  /\ UNCHANGED <<announced, silent, delivered, verdict>>

Announce ==
  /\ Running /\ signature # NoSignature /\ ~silent /\ delivered = 0
  /\ announced' = TRUE
  /\ UNCHANGED <<signature, silent, delivered, verdict>>

Deliver ==
  /\ Running /\ signature # NoSignature
  /\ announced \/ silent
  /\ delivered < Chunks
  /\ delivered' = delivered + 1
  /\ UNCHANGED <<signature, announced, silent, verdict>>

Succeed ==
  /\ Running /\ delivered = Chunks
  /\ verdict' = "ok"
  /\ UNCHANGED <<signature, announced, silent, delivered>>

GiveUp ==
  /\ Running
  /\ verdict' \in {"failed", "panic", "killed"}
  /\ UNCHANGED <<signature, announced, silent, delivered>>

FallSilent ==
  /\ silent' = TRUE
  /\ UNCHANGED <<signature, announced, delivered, verdict>>

Next == Make \/ Announce \/ Deliver \/ Succeed \/ GiveUp \/ FallSilent

Spec == Init /\ [][Next]_vars
=============================================================================
