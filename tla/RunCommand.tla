----------------------------- MODULE RunCommand -----------------------------
(***************************************************************************)
(* runCommand (main.go): from flags and environment to one of the three    *)
(* commands, with the certificate store and its identities opened before   *)
(* the flags are looked at and closed by deferred calls whatever the       *)
(* command does, a panic included.  On Linux the store is the Key Vault    *)
(* one (certstore_linux.go), whose only identity comes from the            *)
(* environment (azuresign); elsewhere it is the system's, which is modelled*)
(* by what certstore.Store and Identity allow.  The commands themselves    *)
(* are in CommandSign and CommandVerify; commandListKeys is here.          *)
(***************************************************************************)
EXTENDS Integers, Sequences, FiniteSets, SequencesExt

CONSTANTS Includes,  \* the integers given for --include-certs, or by the environment
          MaxIdents  \* bound: identities in a system store

ASSUME RunCommandAssumption == Includes \subseteq Int /\ MaxIdents \in Nat

Required == {"GIT_KMSSIGN_VAULT_URL", "GIT_KMSSIGN_KEY_NAME", "GIT_KMSSIGN_CERT"}
Default == -2

\* A flag or variable that may be absent, and one that may be no integer.
Absent == [given |-> FALSE]
Given(n) == [given |-> TRUE, n |-> n]
NotAnInteger == [given |-> TRUE, bad |-> TRUE]

Flags == {"help", "version", "sign", "verify", "list-keys", "local-user", "detach-sign", "armor"}

\* store: what the environment makes of certstore.Open and Identities.
KmsStores == [kms : {TRUE}, set : SUBSET Required, client : BOOLEAN,
              file : {"unreadable", "no certificate", "bad certificate", "rsa", "ecdsa"}]
SystemStores == [kms : {FALSE}, opens : BOOLEAN, lists : BOOLEAN,
                 certs : UNION {[1 .. n -> BOOLEAN] : n \in 0 .. MaxIdents}]

VARIABLES flags,           \* those given; for --local-user, with a value not empty
          includeFlag,     \* --include-certs
          variable,        \* GIT_KMSSIGN_INCLUDE_CERTS
          system,          \* in KmsStores or SystemStores
          pc,
          include,         \* *includeCertsOpt
          store,           \* "none", "open", "closed"
          idents,          \* of each: [readable, open]
          deferred,        \* the deferred Closes: 0 is the store, i the identity i
          command,         \* the command called, "none" before
          listed, warned,  \* of commandListKeys: the identities printed, or warned of
          result           \* "none", "ok", "error", "panic", "killed"

input == <<flags, includeFlag, variable, system>>
resources == <<store, idents, deferred>>
output == <<listed, warned>>
vars == <<input, pc, include, resources, command, output, result>>

Init ==
  /\ flags \in SUBSET Flags
  /\ includeFlag \in {Absent} \cup {Given(n) : n \in Includes}
  /\ variable \in {Absent, NotAnInteger} \cup {Given(n) : n \in Includes}
  /\ system \in KmsStores \cup SystemStores
  /\ pc = "flags" /\ include = (IF includeFlag.given THEN includeFlag.n ELSE Default)
  /\ store = "none" /\ idents = <<>> /\ deferred = <<>>
  /\ command = "none" /\ listed = {} /\ warned = {} /\ result = "none"

Return(r) == pc' = "returning" /\ result' = r

\* --help and --version touch nothing.
HelpOrVersion ==
  /\ pc = "flags" /\ ("help" \in flags \/ "version" \in flags)
  /\ Return("ok")
  /\ UNCHANGED <<input, include, resources, command, output>>

\* Mutant of ReadEnvironment: whether the flag was seen is not asked.
ReadEnvironmentAlways ==
  /\ pc = "flags" /\ "help" \notin flags /\ "version" \notin flags
  /\ IF variable = NotAnInteger
     THEN Return("error") /\ UNCHANGED include
     ELSE /\ include' = IF variable.given THEN variable.n ELSE include
          /\ pc' = "open" /\ UNCHANGED result
  /\ UNCHANGED <<input, resources, command, output>>

\* The variable counts only when the flag was not given.
ReadEnvironment ==
  /\ pc = "flags" /\ "help" \notin flags /\ "version" \notin flags
  /\ IF ~includeFlag.given /\ variable = NotAnInteger
     THEN Return("error") /\ UNCHANGED include
     ELSE /\ include' = IF ~includeFlag.given /\ variable.given
                        THEN variable.n ELSE include
          /\ pc' = "open" /\ UNCHANGED result
  /\ UNCHANGED <<input, resources, command, output>>

\* Open, and defer store.Close().
OpenStore ==
  /\ pc = "open"
  /\ IF system.kms \/ system.opens
     THEN /\ store' = "open" /\ deferred' = <<0>>
          /\ pc' = "identities" /\ UNCHANGED result
     ELSE Return("error") /\ UNCHANGED <<store, deferred>>
  /\ UNCHANGED <<input, include, idents, command, output>>

\* LoadConfig, LoadCertificates, NewClient and NewSigner each end it in an error.
KmsIdentities == Required \subseteq system.set /\ system.file = "rsa" /\ system.client

Identities == IF system.kms THEN <<TRUE>> ELSE system.certs

\* Mutant of LoadIdentities: the Closes are not deferred one by one.
LoadIdentitiesLast ==
  /\ pc = "identities"
  /\ IF IF system.kms THEN KmsIdentities ELSE system.lists
     THEN /\ idents' = [i \in DOMAIN Identities |-> [readable |-> Identities[i], open |-> TRUE]]
          /\ deferred' = IF Identities = <<>> THEN deferred ELSE Append(deferred, Len(Identities))
          /\ pc' = "dispatch" /\ UNCHANGED result
     ELSE Return("error") /\ UNCHANGED <<idents, deferred>>
  /\ UNCHANGED <<input, include, store, command, output>>

\* Identities, and one defer ident.Close() each.
LoadIdentities ==
  /\ pc = "identities"
  /\ IF IF system.kms THEN KmsIdentities ELSE system.lists
     THEN /\ idents' = [i \in DOMAIN Identities |-> [readable |-> Identities[i], open |-> TRUE]]
          /\ deferred' = deferred \o [i \in DOMAIN Identities |-> i]
          /\ pc' = "dispatch" /\ UNCHANGED result
     ELSE Return("error") /\ UNCHANGED <<idents, deferred>>
  /\ UNCHANGED <<input, include, store, command, output>>

Modes == flags \cap {"sign", "verify", "list-keys"}
MaySign == Modes = {"sign"} /\ "local-user" \in flags
MayVerify == Modes = {"verify"} /\ flags \cap {"local-user", "detach-sign", "armor"} = {}
MayList == Modes = {"list-keys"} /\ flags \cap {"local-user", "detach-sign", "armor"} = {}

\* The tests that follow the store: at most one command.
Dispatch ==
  /\ pc = "dispatch"
  /\ command' = CASE MaySign -> "sign" [] MayVerify -> "verify" [] MayList -> "list"
                  [] OTHER -> "none"
  /\ IF command' = "none" THEN Return("error") ELSE pc' = "command" /\ UNCHANGED result
  /\ UNCHANGED <<input, include, resources, output>>

\* commandSign and commandVerify return, or panic.
RunSignOrVerify ==
  /\ pc = "command" /\ command \in {"sign", "verify"}
  /\ \E r \in {"ok", "error", "panic"} : Return(r)
  /\ UNCHANGED <<input, include, resources, command, output>>

Handled == listed \cup warned
NextIdent == Cardinality(Handled) + 1

\* One iteration of commandListKeys: an unreadable certificate is a warning.
ListIdentity ==
  /\ pc = "command" /\ command = "list" /\ NextIdent \in DOMAIN idents
  /\ IF idents[NextIdent].readable
     THEN listed' = listed \cup {NextIdent} /\ UNCHANGED warned
     ELSE warned' = warned \cup {NextIdent} /\ UNCHANGED listed
  /\ UNCHANGED <<input, pc, include, resources, command, result>>

ListEnd ==
  /\ pc = "command" /\ command = "list" /\ NextIdent > Len(idents)
  /\ Return("ok")
  /\ UNCHANGED <<input, include, resources, command, output>>

\* Mutant of RunDeferred: they run in the order they were deferred.
RunDeferredInOrder ==
  /\ pc = "returning" /\ deferred # <<>>
  /\ deferred' = Tail(deferred)
  /\ LET i == Head(deferred)
     IN IF i = 0 THEN store' = "closed" /\ UNCHANGED idents
        ELSE idents' = [idents EXCEPT ![i].open = FALSE] /\ UNCHANGED store
  /\ UNCHANGED <<input, pc, include, command, output, result>>

\* Mutant of RunDeferred: a panic ends the process at once.
RunDeferredUnlessPanic ==
  /\ pc = "returning" /\ deferred # <<>>
  /\ deferred' = IF result = "panic" THEN <<>> ELSE Front(deferred)
  /\ LET i == Last(deferred)
     IN IF i = 0 THEN store' = "closed" /\ UNCHANGED idents
        ELSE idents' = [idents EXCEPT ![i].open = FALSE] /\ UNCHANGED store
  /\ UNCHANGED <<input, pc, include, command, output, result>>

\* The deferred calls, last one first.
RunDeferred ==
  /\ pc = "returning" /\ deferred # <<>>
  /\ deferred' = Front(deferred)
  /\ LET i == Last(deferred)
     IN IF i = 0 THEN store' = "closed" /\ UNCHANGED idents
        ELSE idents' = [idents EXCEPT ![i].open = FALSE] /\ UNCHANGED store
  /\ UNCHANGED <<input, pc, include, command, output, result>>

\* main: the exit code is 0 for nil, 1 for an error, 2 for a panic.
Exit ==
  /\ pc = "returning" /\ deferred = <<>>
  /\ pc' = "exited"
  /\ UNCHANGED <<input, include, resources, command, output, result>>

Kill ==
  /\ pc # "exited"
  /\ pc' = "exited" /\ result' = "killed"
  /\ UNCHANGED <<input, include, resources, command, output>>

Next == \/ HelpOrVersion \/ ReadEnvironment \/ OpenStore \/ LoadIdentities
        \/ Dispatch \/ RunSignOrVerify \/ ListIdentity \/ ListEnd
        \/ RunDeferred \/ Exit \/ Kill

Spec == Init /\ [][Next]_vars

-----------------------------------------------------------------------------
(* Properties *)

\* The types; the deferred calls stand for exactly what is open, and a store is
\* open wherever a command runs.
TypeOK ==
  /\ pc \in {"flags", "open", "identities", "dispatch", "command", "returning", "exited"}
  /\ store \in {"none", "open", "closed"}
  /\ result \in {"none", "ok", "error", "panic", "killed"}
  /\ command \in {"none", "sign", "verify", "list"}
  /\ include \in Includes \cup {Default}
  /\ ToSet(deferred) = {i \in DOMAIN idents : idents[i].open}
                         \cup (IF store = "open" THEN {0} ELSE {})
  /\ Len(deferred) = Cardinality(ToSet(deferred))
  /\ pc = "command" => store = "open" /\ \A i \in DOMAIN idents : idents[i].open

\* However a run ends other than by a kill, after an error halfway or a panic in
\* the command, it has closed the store and every identity it was handed.
NothingLeftOpen ==
  pc = "exited" /\ result # "killed" =>
    store # "open" /\ \A i \in DOMAIN idents : ~idents[i].open

\* An identity is never left to a store already closed: the deferred calls run
\* last in, first out, and none runs before the command has returned.
StoreClosedLast ==
  [][/\ store = "open" /\ store' = "closed" => \A i \in DOMAIN idents : ~idents[i].open
     /\ (\E i \in DOMAIN idents : idents[i].open /\ ~idents'[i].open) =>
          store = "open" /\ pc = "returning"]_vars

\* The options a mode allows.
Options(mode) == IF mode = "sign" THEN {"local-user", "detach-sign", "armor"} ELSE {}

WellFormed(mode) ==
  /\ mode \in Modes /\ flags \subseteq {mode} \cup Options(mode)
  /\ mode = "sign" => "local-user" \in flags

CommandOf(mode) == IF mode = "list-keys" THEN "list" ELSE mode

\* Whether the settings can be read and an identity loaded, which has nothing to do
\* with the command.
ConfigurationWorks ==
  /\ includeFlag.given \/ variable # NotAnInteger
  /\ IF system.kms THEN KmsIdentities ELSE system.opens /\ system.lists

\* A run that is not killed calls exactly the command it was asked for, under the
\* --include-certs asked for, "an explicit [...] flag always takes precedence over
\* the environment variable" (main.go:79); asked for two things, or for one with the
\* options of another, it calls none; and it calls none whenever the configuration
\* does not work, though the command needs nothing of it.
CommandAsAsked ==
  pc = "exited" /\ result # "killed" =>
    IF {"help", "version"} \cap flags # {} THEN command = "none" /\ result = "ok"
    ELSE IF ConfigurationWorks /\ \E mode \in Modes : WellFormed(mode)
    THEN /\ \E mode \in Modes : WellFormed(mode) /\ command = CommandOf(mode)
         /\ include = IF includeFlag.given THEN includeFlag.n
                      ELSE IF variable.given THEN variable.n ELSE Default
    ELSE command = "none" /\ result = "error"

\* "Everything else from smimesign is carried over unchanged: [...] signature
\* verification (--verify)" (docs/kmssign.md:28-34): a well-formed --verify that is
\* not killed reaches commandVerify.  It needs no key and no vault.
\* It does not hold of the code: see "Divergences" in the README.
VerifyIsCarriedOver ==
  /\ pc = "exited" /\ result # "killed" /\ "help" \notin flags /\ "version" \notin flags
  /\ MayVerify /\ variable # NotAnInteger /\ system.kms
  => command = "verify"
=============================================================================
