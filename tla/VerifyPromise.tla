---------------------------- MODULE VerifyPromise ----------------------------
(***************************************************************************)
(* What git may rely on when it runs a program to verify a signature: the  *)
(* program says GOODSIG of a genuine signature only, says at most one of   *)
(* GOODSIG, BADSIG and ERRSIG, speaks of trust after GOODSIG only, and     *)
(* exits with success only then.  How it finds out is left open.           *)
(***************************************************************************)

VARIABLES genuine,   \* whether the signature is one; a fact, never changes
          code,      \* which of the three codes has reached the status stream
          trusted,   \* whether TRUST_FULLY has
          silent,    \* nobody reads, or can read, the status stream any more
          verdict    \* the exit code, "running" before there is one

vars == <<code, trusted, silent, verdict, genuine>>

Init ==
  /\ genuine \in BOOLEAN
  /\ code = "none" /\ trusted = FALSE
  /\ silent \in BOOLEAN
  /\ verdict = "running"

Say ==
  /\ verdict = "running" /\ code = "none" /\ ~silent
  /\ code' \in {"GOODSIG", "BADSIG", "ERRSIG"}
  /\ verdict' = IF code' = "GOODSIG" THEN "running" ELSE "failed"
  /\ code' = "GOODSIG" => genuine
  /\ UNCHANGED <<trusted, silent, genuine>>

Trust ==
  /\ verdict = "running" /\ code = "GOODSIG" /\ ~silent
  /\ trusted' = TRUE
  /\ UNCHANGED <<code, silent, verdict, genuine>>

Succeed ==
  /\ verdict = "running"
  /\ trusted \/ silent
  /\ verdict' = "ok"
  /\ genuine
  /\ UNCHANGED <<code, trusted, silent, genuine>>

GiveUp ==
  /\ verdict = "running"
  /\ verdict' \in {"failed", "killed"}
  /\ UNCHANGED <<code, trusted, silent, genuine>>

FallSilent ==
  /\ silent' = TRUE
  /\ UNCHANGED <<code, trusted, verdict, genuine>>

Next == Say \/ Trust \/ Succeed \/ GiveUp \/ FallSilent

Spec == Init /\ [][Next]_vars
=============================================================================
