---------------------------- MODULE MCRunCommand ----------------------------
(* All flags, the Key Vault store in every configuration and system stores   *)
(* of up to two identities.                                                  *)
EXTENDS RunCommand

\* One value that is not the default.
MCIncludes == {1}
=============================================================================
