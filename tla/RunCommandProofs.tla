--------------------------- MODULE RunCommandProofs ---------------------------
(***************************************************************************)
(* Theorems about RunCommand, for any number of identities in the store and*)
(* any values of --include-certs.                                          *)
(***************************************************************************)
EXTENDS RunCommand, SequenceTheorems, FiniteSetTheorems, TLAPS

-----------------------------------------------------------------------------
(* The stack of deferred calls *)

\* The stack holds 0 .. n, in this order: it stands for the store, and for the first
\* n of the identities, which are the ones open.
StackInv ==
  /\ deferred \in Seq(Nat)
  /\ \A n \in 1 .. Len(deferred) : deferred[n] = n - 1
  /\ store \in {"none", "open", "closed"}
  /\ store = "open" <=> Len(deferred) > 0
  /\ idents \in Seq([readable : BOOLEAN, open : BOOLEAN])
  /\ \A i \in 1 .. Len(idents) : idents[i].open <=> i < Len(deferred)
  /\ Len(deferred) <= Len(idents) + 1

Labels == {"flags", "open", "identities", "dispatch", "command", "returning", "exited"}

\* How far the opening has come by each call, and that nothing is left at the end.
OpenedInv ==
  /\ pc \in Labels
  /\ result \in {"none", "ok", "error", "panic", "killed"}
  /\ result = "killed" => pc = "exited"
  /\ pc \in {"flags", "open"} => store = "none" /\ Len(deferred) = 0 /\ Len(idents) = 0
  /\ pc = "identities" => Len(deferred) = 1 /\ Len(idents) = 0
  /\ pc \in {"dispatch", "command"} => Len(deferred) = Len(idents) + 1
  /\ pc = "exited" /\ result # "killed" => Len(deferred) = 0

\* The store's configuration and the identities in it.
SystemInv == system \in KmsStores \cup SystemStores

\* The identities a store lists, each readable or not.
LEMMA IdentitiesType ==
  ASSUME SystemInv
  PROVE  Identities \in Seq(BOOLEAN)
  <1>1. CASE system.kms
    BY <1>1 DEF Identities
  <1>2. CASE ~system.kms
    <2>1. system \in SystemStores
      BY <1>2 DEF SystemInv, KmsStores
    <2>2. PICK n \in 0 .. MaxIdents : system.certs \in [1 .. n -> BOOLEAN]
      BY <2>1 DEF SystemStores
    <2>3. n \in Nat
      BY RunCommandAssumption
    <2> QED
      BY <1>2, <2>2, <2>3, SeqDef DEF Identities
  <1> QED
    BY <1>1, <1>2

\* Popping the stack leaves the calls below.
LEMMA FrontOfStack ==
  ASSUME NEW s \in Seq(Nat), Len(s) > 0
  PROVE  /\ Front(s) \in Seq(Nat) /\ Len(Front(s)) = Len(s) - 1
         /\ \A n \in 1 .. Len(s) - 1 : Front(s)[n] = s[n]
         /\ Last(s) = s[Len(s)]
  <1> DEFINE k == Len(s) - 1
  <1>1. k \in Nat /\ Len(s) = k + 1 /\ \A i \in 1 .. k : s[i] \in Nat
    BY LenProperties, ElementOfSeq
  <1>2. Front(s) = SubSeq(s, 1, k) /\ Last(s) = s[Len(s)]
    BY DEF Front, Last
  <1> HIDE DEF k
  <1>3. /\ SubSeq(s, 1, k) \in Seq(Nat)
        /\ Len(SubSeq(s, 1, k)) = IF 1 <= k THEN k - 1 + 1 ELSE 0
        /\ \A i \in 1 .. k - 1 + 1 : SubSeq(s, 1, k)[i] = s[1 + i - 1]
    BY <1>1, SubSeqProperties
  <1>4. Len(SubSeq(s, 1, k)) = k
    BY <1>1, <1>3
  <1>5. ASSUME NEW n \in 1 .. k
        PROVE  SubSeq(s, 1, k)[n] = s[n]
    <2>1. n \in 1 .. k - 1 + 1 /\ 1 + n - 1 = n
      BY <1>1
    <2> QED
      BY <1>3, <2>1
  <1> QED
    BY <1>2, <1>3, <1>4, <1>5 DEF k

\* Nothing is open at first.
LEMMA StackInit == Init => StackInv /\ OpenedInv /\ SystemInv
  <1> SUFFICES ASSUME Init PROVE StackInv /\ OpenedInv /\ SystemInv
    OBVIOUS
  <1>1. Len(deferred) = 0 /\ Len(idents) = 0
    BY EmptySeq DEF Init
  <1>2. deferred \in Seq(Nat) /\ idents \in Seq([readable : BOOLEAN, open : BOOLEAN])
    BY EmptySeq DEF Init
  <1> QED
    BY <1>1, <1>2 DEF Init, StackInv, OpenedInv, SystemInv, Labels

\* Opening the store defers its Close.
LEMMA OpenStoreStack ==
  ASSUME StackInv, OpenedInv, OpenStore
  PROVE  StackInv' /\ OpenedInv'
  <1>1. pc = "open" /\ idents' = idents /\ Len(idents) = 0 /\ Len(deferred) = 0 /\ store = "none"
    BY DEF OpenStore, OpenedInv
  <1>2. CASE system.kms \/ system.opens
    <2>1. store' = "open" /\ deferred' = <<0>> /\ pc' = "identities" /\ result' = result
      BY <1>2 DEF OpenStore
    <2>2. deferred' \in Seq(Nat) /\ Len(deferred') = 1 /\ deferred'[1] = 0
      BY <2>1
    <2> QED
      BY <1>1, <2>1, <2>2 DEF StackInv, OpenedInv, Labels
  <1>3. CASE ~(system.kms \/ system.opens)
    BY <1>1, <1>3 DEF OpenStore, Return, StackInv, OpenedInv, Labels
  <1> QED
    BY <1>2, <1>3

\* Loading the identities defers the Close of each.
LEMMA LoadIdentitiesStack ==
  ASSUME StackInv, OpenedInv, SystemInv, LoadIdentities
  PROVE  StackInv' /\ OpenedInv'
  <1> DEFINE Loads == IF system.kms THEN KmsIdentities ELSE system.lists
             Idents == [readable : BOOLEAN, open : BOOLEAN]
             n == Len(Identities)
             new == [i \in DOMAIN Identities |-> i]
             opened == [i \in DOMAIN Identities |-> [readable |-> Identities[i], open |-> TRUE]]
  <1>1. pc = "identities" /\ store' = store /\ Len(idents) = 0 /\ Len(deferred) = 1
    BY DEF LoadIdentities, OpenedInv
  <1>2. CASE ~Loads
    BY <1>1, <1>2 DEF LoadIdentities, Return, StackInv, OpenedInv, Labels
  <1>3. CASE Loads
    <2>1. idents' = opened /\ deferred' = deferred \o new /\ pc' = "dispatch" /\ result' = result
      BY <1>3 DEF LoadIdentities
    <2>2. n \in Nat /\ DOMAIN Identities = 1 .. n /\ \A i \in 1 .. n : Identities[i] \in BOOLEAN
      BY IdentitiesType, LenProperties, ElementOfSeq
    <2> HIDE DEF n
    <2>3. new \in Seq(Nat) /\ Len(new) = n /\ \A i \in 1 .. n : new[i] = i
      <3>1. new \in [1 .. n -> Nat]
        BY <2>2
      <3>2. new \in Seq(Nat)
        BY <2>2, <3>1, SeqDef
      <3> QED
        BY <2>2, <3>1, <3>2, LenProperties
    <2>4. opened \in Seq(Idents) /\ Len(opened) = n /\ \A i \in 1 .. n : opened[i].open = TRUE
      <3>1. opened \in [1 .. n -> Idents]
        BY <2>2
      <3>2. \A S : opened \in [1 .. n -> S] => opened \in Seq(S)
        <4> HIDE DEF opened
        <4> QED
          BY <2>2, SeqDef
      <3>3. \A i \in 1 .. n : opened[i].open = TRUE
        BY <2>2
      <3>4. DOMAIN opened = 1 .. n
        BY <2>2
      <3>5. opened \in Seq(Idents)
        BY <3>1, <3>2
      <3>6. Len(opened) = n
        <4> HIDE DEF opened, Idents
        <4>1. Len(opened) \in Nat /\ DOMAIN opened = 1 .. Len(opened)
          BY <3>5, LenProperties
        <4> QED
          BY <2>2, <3>4, <4>1
      <3> QED
        BY <3>3, <3>5, <3>6
    <2> HIDE DEF new, opened
    <2>5. /\ deferred' \in Seq(Nat) /\ Len(deferred') = n + 1
          /\ \A j \in 1 .. n + 1 : deferred'[j] = IF j <= 1 THEN deferred[j] ELSE new[j - 1]
      <3>1. deferred \in Seq(Nat)
        BY DEF StackInv
      <3>2. /\ deferred \o new \in Seq(Nat) /\ Len(deferred \o new) = Len(deferred) + Len(new)
            /\ \A j \in 1 .. Len(deferred) + Len(new) :
                 (deferred \o new)[j] = IF j <= Len(deferred) THEN deferred[j]
                                        ELSE new[j - Len(deferred)]
        BY <2>3, <3>1, ConcatProperties
      <3>3. Len(deferred) + Len(new) = n + 1
        BY <1>1, <2>2, <2>3
      <3> QED
        BY <1>1, <2>1, <3>2, <3>3
    <2>6. \A j \in 1 .. n + 1 : deferred'[j] = j - 1
      <3> TAKE j \in 1 .. n + 1
      <3>1. CASE j = 1
        BY <1>1, <2>2, <2>5, <3>1 DEF StackInv
      <3>2. CASE j # 1
        BY <2>2, <2>3, <2>5, <3>2
      <3> QED
        BY <3>1, <3>2
    <2> QED
      BY <1>1, <2>1, <2>2, <2>4, <2>5, <2>6 DEF StackInv, OpenedInv, Labels
  <1> QED
    BY <1>2, <1>3

\* The last call deferred is made, and is of what was opened last.
LEMMA RunDeferredStack ==
  ASSUME StackInv, OpenedInv, RunDeferred
  PROVE  StackInv' /\ OpenedInv'
  <1> DEFINE d == Len(deferred)
             Idents == [readable : BOOLEAN, open : BOOLEAN]
  <1>1. d \in Nat /\ d > 0 /\ Len(idents) \in Nat
    BY EmptySeq, LenProperties DEF RunDeferred, StackInv
  <1>2. /\ deferred' \in Seq(Nat) /\ Len(deferred') = d - 1
        /\ \A n \in 1 .. d - 1 : deferred'[n] = n - 1
        /\ Last(deferred) = d - 1
    <2>1. deferred' = Front(deferred)
      BY DEF RunDeferred
    <2>2. deferred \in Seq(Nat) /\ \A n \in 1 .. d : deferred[n] = n - 1
      BY DEF StackInv
    <2>3. /\ deferred' \in Seq(Nat) /\ Len(deferred') = d - 1
          /\ \A n \in 1 .. d - 1 : deferred'[n] = deferred[n]
          /\ Last(deferred) = deferred[d]
      BY ONLY <1>1, <2>1, <2>2, FrontOfStack
    <2> HIDE DEF d
    <2> QED
      BY ONLY <1>1, <2>2, <2>3
  <1>3. pc = "returning" /\ pc' = "returning" /\ result' = result
    BY DEF RunDeferred
  <1>4. CASE d = 1
    <2>1. store' = "closed" /\ idents' = idents
      BY <1>2, <1>4 DEF RunDeferred
    <2> QED
      BY <1>1, <1>2, <1>3, <1>4, <2>1 DEF StackInv, OpenedInv, Labels
  <1>5. CASE d # 1
    <2> DEFINE i == d - 1
               e == [idents[i] EXCEPT !.open = FALSE]
    <2>1. idents' = [idents EXCEPT ![i].open = FALSE] /\ store' = store
      BY <1>1, <1>2, <1>5 DEF RunDeferred
    <2>2. i \in 1 .. Len(idents) /\ idents[i] \in Idents
      <3>0. d <= Len(idents) + 1
        BY DEF StackInv
      <3>1. i \in 1 .. Len(idents)
        <4>1. \A x, y \in Nat : x > 0 /\ x # 1 /\ x <= y + 1 => x - 1 \in 1 .. y
          OBVIOUS
        <4> HIDE DEF d
        <4> QED
          BY <1>1, <1>5, <3>0, <4>1
      <3>2. idents \in Seq(Idents)
        BY DEF StackInv
      <3> HIDE DEF Idents, i
      <3> QED
        BY <3>1, <3>2, ElementOfSeq
    <2>3. e \in Idents /\ e.open = FALSE
      BY <2>2
    <2>4. idents' = [idents EXCEPT ![i] = e]
      BY <2>1
    <2> HIDE DEF e
    <2>5. /\ idents' \in Seq(Idents) /\ Len(idents') = Len(idents)
          /\ \A j \in 1 .. Len(idents) : idents'[j] = IF j = i THEN e ELSE idents[j]
      BY <2>2, <2>3, <2>4, ExceptSeq DEF StackInv
    <2>6. \A j \in 1 .. Len(idents) : idents'[j].open <=> j < d - 1
      <3>1. \A j \in 1 .. Len(idents) : idents[j].open <=> j < d
        BY DEF StackInv
      <3> HIDE DEF d
      <3> QED
        BY ONLY <1>1, <2>2, <2>3, <2>5, <3>1 DEF i
    <2>7. /\ store = "open" /\ d <= Len(idents) + 1
          /\ pc' \notin {"flags", "open", "identities", "dispatch", "command", "exited"}
          /\ pc' \in Labels /\ result' # "killed"
          /\ result' \in {"none", "ok", "error", "panic", "killed"}
      BY <1>1, <1>3 DEF StackInv, OpenedInv, Labels
    <2> HIDE DEF i
    <2> QED
      BY <1>1, <1>2, <1>5, <2>1, <2>5, <2>6, <2>7 DEF StackInv, OpenedInv
  <1> QED
    BY <1>4, <1>5

\* The actions that open and close nothing.
LEMMA StackUntouched ==
  ASSUME StackInv, UNCHANGED resources
  PROVE  StackInv'
  BY DEF StackInv, resources

\* No other step opens, closes or defers anything.
LEMMA StackNext ==
  StackInv /\ OpenedInv /\ SystemInv /\ [Next]_vars => (StackInv /\ OpenedInv /\ SystemInv)'
  <1> SUFFICES ASSUME StackInv, OpenedInv, SystemInv, [Next]_vars
               PROVE  StackInv' /\ OpenedInv' /\ SystemInv'
    OBVIOUS
  <1>1. SystemInv'
    BY DEF SystemInv, Next, vars, input, HelpOrVersion, ReadEnvironment, OpenStore,
           LoadIdentities, Dispatch, RunSignOrVerify, ListIdentity, ListEnd, RunDeferred,
           Exit, Kill
  <1>2. CASE OpenStore
    BY <1>1, <1>2, OpenStoreStack
  <1>3. CASE LoadIdentities
    BY <1>1, <1>3, LoadIdentitiesStack
  <1>4. CASE RunDeferred
    BY <1>1, <1>4, RunDeferredStack
  <1>5. CASE HelpOrVersion \/ ReadEnvironment \/ Dispatch \/ RunSignOrVerify \/ ListIdentity
             \/ ListEnd
    <2>1. UNCHANGED resources /\ StackInv'
      BY <1>5, StackUntouched
         DEF HelpOrVersion, ReadEnvironment, Dispatch, RunSignOrVerify, ListIdentity, ListEnd
    <2>2. /\ pc \in {"flags", "dispatch", "command"} /\ result # "killed"
          /\ \/ pc' = "returning" /\ result' \in {"ok", "error", "panic"}
             \/ pc = "flags" /\ pc' = "open" /\ result' = result
             \/ pc \in {"dispatch", "command"} /\ pc' = "command" /\ result' = result
      BY <1>5 DEF OpenedInv, HelpOrVersion, ReadEnvironment, Dispatch, RunSignOrVerify,
                  ListIdentity, ListEnd, Return
    <2>3. OpenedInv'
      BY <2>1, <2>2 DEF OpenedInv, resources, Labels
    <2> QED
      BY <1>1, <2>1, <2>3
  <1>6. CASE Exit
    <2>1. UNCHANGED resources /\ StackInv' /\ deferred = <<>> /\ pc' = "exited" /\ result' = result
          /\ pc = "returning"
      BY <1>6, StackUntouched DEF Exit
    <2>2. Len(deferred) = 0
      BY <2>1, EmptySeq
    <2> QED
      BY <1>1, <2>1, <2>2 DEF OpenedInv, resources, Labels
  <1>7. CASE Kill
    <2>1. UNCHANGED resources /\ StackInv' /\ pc' = "exited" /\ result' = "killed"
      BY <1>7, StackUntouched DEF Kill
    <2> QED
      BY <1>1, <2>1 DEF OpenedInv, Labels
  <1>8. CASE UNCHANGED vars
    BY <1>1, <1>8, StackUntouched DEF vars, resources, OpenedInv
  <1> QED
    BY <1>2, <1>3, <1>4, <1>5, <1>6, <1>7, <1>8 DEF Next

LEMMA Stacked == Spec => [](StackInv /\ OpenedInv /\ SystemInv)
  BY StackInit, StackNext, PTL DEF Spec

\* However a run ends other than by a kill, after an error halfway or a panic in the
\* command, runCommand's deferred calls have closed the store and every identity.
THEOREM AllClosed == Spec => []NothingLeftOpen
  <1>1. StackInv /\ OpenedInv => NothingLeftOpen
    <2> SUFFICES ASSUME StackInv, OpenedInv, pc = "exited", result # "killed"
                 PROVE  store # "open" /\ \A i \in DOMAIN idents : ~idents[i].open
      BY DEF NothingLeftOpen
    <2>1. Len(deferred) = 0
      BY DEF OpenedInv
    <2>2. DOMAIN idents = 1 .. Len(idents)
      BY LenProperties DEF StackInv
    <2> QED
      BY <2>1, <2>2 DEF StackInv
  <1> QED
    BY <1>1, Stacked, PTL

\* The deferred calls run last in, first out: the store is closed when no identity is
\* open, and an identity under an open store, once the command has returned.
THEOREM ClosedInOrder == Spec => StoreClosedLast
  <1>1. ASSUME StackInv, OpenedInv, StackInv', Next
        PROVE  /\ store = "open" /\ store' = "closed" => \A i \in DOMAIN idents : ~idents[i].open
               /\ (\E i \in DOMAIN idents : idents[i].open /\ ~idents'[i].open) =>
                    store = "open" /\ pc = "returning"
    <2>1. DOMAIN idents = 1 .. Len(idents) /\ Len(deferred) \in Nat
      BY LenProperties DEF StackInv
    <2>2. CASE RunDeferred
      <3>1. pc = "returning" /\ Len(deferred) > 0
        BY <1>1, <2>2, EmptySeq DEF RunDeferred, StackInv
      <3>2. store = "open"
        BY <1>1, <3>1 DEF StackInv
      <3>3. ASSUME store' = "closed"
            PROVE  Len(deferred) = 1
        <4>0. deferred \in Seq(Nat) /\ \A n \in 1 .. Len(deferred) : deferred[n] = n - 1
          BY <1>1 DEF StackInv
        <4>1. Last(deferred) = deferred[Len(deferred)]
          BY ONLY <3>1, <4>0, FrontOfStack
        <4>2. Last(deferred) = 0
          BY <2>2, <3>2, <3>3 DEF RunDeferred
        <4> DEFINE d == Len(deferred)
        <4>3. d \in Nat /\ d > 0 /\ \A n \in 1 .. d : deferred[n] = n - 1
          BY <2>1, <3>1, <4>0
        <4>4. deferred[d] = 0
          BY <4>1, <4>2
        <4> HIDE DEF d
        <4>5. d = 1
          BY ONLY <4>3, <4>4
        <4> QED
          BY <4>5 DEF d
      <3>4. Len(deferred) = 1 => \A i \in DOMAIN idents : ~idents[i].open
        BY <1>1, <2>1 DEF StackInv
      <3> QED
        BY <3>1, <3>2, <3>3, <3>4
    <2>3. CASE OpenStore \/ LoadIdentities
      <3>1. Len(idents) = 0
        BY <1>1, <2>3 DEF OpenedInv, OpenStore, LoadIdentities
      <3>2. DOMAIN idents = {}
        BY <2>1, <3>1
      <3>3. store' # "closed" \/ store # "open"
        BY <1>1, <2>3 DEF StackInv, OpenedInv, OpenStore, LoadIdentities
      <3> QED
        BY <3>2, <3>3
    <2>4. CASE UNCHANGED resources
      BY <2>4 DEF resources
    <2> QED
      BY <1>1, <2>2, <2>3, <2>4
         DEF Next, HelpOrVersion, ReadEnvironment, Dispatch, RunSignOrVerify, ListIdentity,
             ListEnd, Exit, Kill
  <1>2. UNCHANGED vars => UNCHANGED resources
    BY DEF vars
  <1> QED
    BY <1>1, <1>2, Stacked, PTL DEF Spec, StoreClosedLast

-----------------------------------------------------------------------------
(* The command that is run *)

\* The --include-certs asked for: the flag, then the variable, then the default.
AskedInclude == IF includeFlag.given THEN includeFlag.n
                ELSE IF variable.given THEN variable.n ELSE Default

\* What a run that is not killed comes to.
Outcome ==
  IF {"help", "version"} \cap flags # {} THEN command = "none" /\ result = "ok"
  ELSE IF ConfigurationWorks /\ \E mode \in Modes : WellFormed(mode)
  THEN /\ \E mode \in Modes : WellFormed(mode) /\ command = CommandOf(mode)
       /\ include = AskedInclude
  ELSE command = "none" /\ result = "error"

Past == {"open", "identities", "dispatch", "command"}  \* labels past the environment

\* What each label of runCommand may rely on: the tests that led to it.
AskedInv ==
  /\ flags \subseteq Flags
  /\ pc = "flags" => include = IF includeFlag.given THEN includeFlag.n ELSE Default
  /\ pc \in Past => /\ {"help", "version"} \cap flags = {}
                    /\ includeFlag.given \/ variable # NotAnInteger
                    /\ include = AskedInclude
  /\ pc \in {"flags", "open", "identities", "dispatch"} => command = "none"
  /\ pc = "identities" => system.kms \/ system.opens
  /\ pc \in {"dispatch", "command"} => ConfigurationWorks
  /\ pc = "command" => \E mode \in Modes : WellFormed(mode) /\ command = CommandOf(mode)
  /\ pc \in {"returning", "exited"} /\ result # "killed" => Outcome

\* The input never changes, so neither does what is asked for.
LEMMA InputStays ==
  ASSUME UNCHANGED input
  PROVE  /\ AskedInclude' = AskedInclude /\ ConfigurationWorks' = ConfigurationWorks
         /\ Modes' = Modes /\ MaySign' = MaySign /\ MayVerify' = MayVerify /\ MayList' = MayList
         /\ \A mode : WellFormed(mode)' = WellFormed(mode)
  BY DEF input, AskedInclude, ConfigurationWorks, KmsIdentities, Modes, MaySign, MayVerify,
         MayList, WellFormed

\* The three tests of runCommand accept exactly the well-formed modes.
LEMMA DispatchTests ==
  ASSUME flags \subseteq Flags, {"help", "version"} \cap flags = {}
  PROVE  /\ MaySign <=> "sign" \in Modes /\ WellFormed("sign")
         /\ MayVerify <=> "verify" \in Modes /\ WellFormed("verify")
         /\ MayList <=> "list-keys" \in Modes /\ WellFormed("list-keys")
         /\ Modes \subseteq {"sign", "verify", "list-keys"}
  BY DEF Flags, MaySign, MayVerify, MayList, Modes, WellFormed, Options

\* Nothing has been looked at yet.
LEMMA AskedInit == Init => AskedInv
  BY DEF Init, AskedInv, Past

\* The switch of runCommand finds the one command that was asked for, or none.
LEMMA AskedDispatch ==
  ASSUME AskedInv, Dispatch
  PROVE  AskedInv'
  <1>1. pc = "dispatch" /\ UNCHANGED input /\ include' = include
    BY DEF Dispatch
  <1>2. /\ flags \subseteq Flags /\ {"help", "version"} \cap flags = {}
        /\ includeFlag.given \/ variable # NotAnInteger
        /\ include = AskedInclude /\ ConfigurationWorks
    BY <1>1 DEF AskedInv, Past
  <1> DEFINE Chosen == \E mode \in Modes : WellFormed(mode) /\ command' = CommandOf(mode)
  <1>3. CASE MaySign \/ MayVerify \/ MayList
    <2>1. Chosen /\ command' # "none"
      BY <1>2, <1>3, DispatchTests DEF Dispatch, CommandOf, MaySign, MayVerify, MayList
    <2>2. pc' = "command"
      BY <2>1 DEF Dispatch
    <2>3. (\E mode \in Modes : WellFormed(mode) /\ command = CommandOf(mode))'
      BY <1>1, <2>1, InputStays DEF CommandOf
    <2> QED
      BY <1>1, <1>2, <2>2, <2>3, InputStays DEF AskedInv, Past, input
  <1>4. CASE ~(MaySign \/ MayVerify \/ MayList)
    <2>1. command' = "none" /\ pc' = "returning" /\ result' = "error"
      BY <1>4 DEF Dispatch, Return
    <2>2. ~\E mode \in Modes : WellFormed(mode)
      BY <1>2, <1>4, DispatchTests
    <2>3. Outcome'
      BY <1>1, <2>1, <2>2, <1>2, InputStays DEF Outcome, input
    <2> QED
      BY <1>1, <1>2, <2>1, <2>3 DEF AskedInv, Past, input
  <1> QED
    BY <1>3, <1>4

\* Every other step.
LEMMA AskedNext == AskedInv /\ [Next]_vars => AskedInv'
  <1> SUFFICES ASSUME AskedInv, [Next]_vars PROVE AskedInv'
    OBVIOUS
  <1>0. UNCHANGED input /\ (flags \subseteq Flags)'
    BY DEF AskedInv, vars, input, Next, HelpOrVersion, ReadEnvironment, OpenStore,
           LoadIdentities, Dispatch, RunSignOrVerify, ListIdentity, ListEnd, RunDeferred,
           Exit, Kill
  <1>1. CASE HelpOrVersion
    <2>1. Outcome'
      BY <1>0, <1>1 DEF HelpOrVersion, Return, AskedInv, Outcome, input
    <2> QED
      BY <1>0, <1>1, <2>1 DEF HelpOrVersion, Return, AskedInv, Past
  <1>2. CASE ReadEnvironment
    <2>1. pc = "flags" /\ {"help", "version"} \cap flags = {} /\ command' = command
      BY <1>2 DEF ReadEnvironment
    <2>2. CASE ~includeFlag.given /\ variable = NotAnInteger
      <3>1. pc' = "returning" /\ result' = "error" /\ ~ConfigurationWorks
        BY <1>2, <2>2 DEF ReadEnvironment, Return, ConfigurationWorks
      <3>2. Outcome'
        BY <1>0, <2>1, <3>1, InputStays DEF AskedInv, Outcome, input
      <3> QED
        BY <1>0, <3>1, <3>2 DEF AskedInv, Past
    <2>3. CASE ~(~includeFlag.given /\ variable = NotAnInteger)
      <3>1. pc' = "open" /\ include' = AskedInclude
        BY <1>2, <2>1, <2>3 DEF ReadEnvironment, AskedInv, AskedInclude
      <3> QED
        BY <1>0, <2>1, <2>3, <3>1, InputStays DEF AskedInv, Past, input
    <2> QED
      BY <2>2, <2>3
  <1>3. CASE OpenStore
    <2>1. pc = "open" /\ command' = command /\ include' = include
      BY <1>3 DEF OpenStore
    <2>2. CASE system.kms \/ system.opens
      <3>1. pc' = "identities"
        BY <1>3, <2>2 DEF OpenStore
      <3> QED
        BY <1>0, <2>1, <2>2, <3>1, InputStays DEF AskedInv, Past, input
    <2>3. CASE ~(system.kms \/ system.opens)
      <3>1. pc' = "returning" /\ result' = "error" /\ ~ConfigurationWorks
        BY <1>3, <2>3 DEF OpenStore, Return, ConfigurationWorks
      <3>2. Outcome'
        BY <1>0, <2>1, <3>1, InputStays DEF AskedInv, Past, Outcome, input
      <3> QED
        BY <1>0, <3>1, <3>2 DEF AskedInv, Past
    <2> QED
      BY <2>2, <2>3
  <1>4. CASE LoadIdentities
    <2>1. pc = "identities" /\ command' = command /\ include' = include
      BY <1>4 DEF LoadIdentities
    <2>2. CASE IF system.kms THEN KmsIdentities ELSE system.lists
      <3>1. pc' = "dispatch" /\ ConfigurationWorks
        BY <1>4, <2>1, <2>2 DEF LoadIdentities, AskedInv, Past, ConfigurationWorks
      <3> QED
        BY <1>0, <2>1, <3>1, InputStays DEF AskedInv, Past, input
    <2>3. CASE ~(IF system.kms THEN KmsIdentities ELSE system.lists)
      <3>1. pc' = "returning" /\ result' = "error" /\ ~ConfigurationWorks
        BY <1>4, <2>3 DEF LoadIdentities, Return, ConfigurationWorks
      <3>2. Outcome'
        BY <1>0, <2>1, <3>1, InputStays DEF AskedInv, Past, Outcome, input
      <3> QED
        BY <1>0, <3>1, <3>2 DEF AskedInv, Past
    <2> QED
      BY <2>2, <2>3
  <1>5. CASE Dispatch
    BY <1>5, AskedDispatch
  <1>6. CASE RunSignOrVerify \/ ListEnd
    <2>1. pc = "command" /\ pc' = "returning" /\ command' = command /\ include' = include
      BY <1>6 DEF RunSignOrVerify, ListEnd, Return
    <2>2. Outcome'
      BY <1>0, <2>1, InputStays DEF AskedInv, Past, Outcome, input, CommandOf
    <2> QED
      BY <1>0, <2>1, <2>2 DEF AskedInv, Past
  <1>7. CASE ListIdentity
    <2>1. pc = "command" /\ pc' = pc /\ command' = command /\ include' = include
      BY <1>7 DEF ListIdentity
    <2>2. (\E mode \in Modes : WellFormed(mode) /\ command = CommandOf(mode))'
      BY <1>0, <2>1, InputStays DEF AskedInv, CommandOf
    <2> QED
      BY <1>0, <2>1, <2>2, InputStays DEF AskedInv, Past, input
  <1>8. CASE RunDeferred \/ Exit
    <2>1. /\ pc = "returning" /\ pc' \in {"returning", "exited"}
          /\ command' = command /\ include' = include /\ result' = result
      BY <1>8 DEF RunDeferred, Exit
    <2>2. result # "killed" => Outcome'
      BY <1>0, <2>1, InputStays DEF AskedInv, Outcome, input, CommandOf
    <2> QED
      BY <1>0, <2>1, <2>2 DEF AskedInv, Past
  <1>9. CASE Kill
    BY <1>0, <1>9 DEF Kill, AskedInv, Past
  <1>10. CASE UNCHANGED vars
    <2>1. pc' = pc /\ command' = command /\ include' = include /\ result' = result
      BY <1>10 DEF vars
    <2>2. Outcome => Outcome'
      BY <1>0, <2>1, InputStays DEF Outcome, input, CommandOf
    <2>3. ASSUME pc = "command"
          PROVE  (\E mode \in Modes : WellFormed(mode) /\ command = CommandOf(mode))'
      BY <1>0, <2>1, <2>3, InputStays DEF AskedInv, CommandOf
    <2> QED
      BY <1>0, <2>1, <2>2, <2>3, InputStays DEF AskedInv, Past, input
  <1> QED
    BY <1>1, <1>2, <1>3, <1>4, <1>5, <1>6, <1>7, <1>8, <1>9, <1>10 DEF Next

\* A run that is not killed calls exactly the command it was asked for, under the
\* --include-certs asked for, and none when two are asked for, when the options are
\* another command's, or when the configuration does not work.
THEOREM Asked == Spec => []CommandAsAsked
  <1>1. AskedInv => CommandAsAsked
    BY DEF AskedInv, CommandAsAsked, Outcome, AskedInclude
  <1> QED
    BY <1>1, AskedInit, AskedNext, PTL DEF Spec

-----------------------------------------------------------------------------
(* The types *)

\* What the stack's invariant leaves out of TypeOK.
KindsInv ==
  /\ command \in {"none", "sign", "verify", "list"}
  /\ include \in Includes \cup {Default}
  /\ includeFlag \in {Absent} \cup {Given(n) : n \in Includes}
  /\ variable \in {Absent, NotAnInteger} \cup {Given(n) : n \in Includes}

LEMMA KindsInit == Init => KindsInv
  BY DEF Init, KindsInv, Absent, Given

\* Every step keeps the kinds of what it reads.
LEMMA KindsNext == KindsInv /\ [Next]_vars => KindsInv'
  <1> SUFFICES ASSUME KindsInv, [Next]_vars PROVE KindsInv'
    OBVIOUS
  <1>1. UNCHANGED <<includeFlag, variable>>
    BY DEF vars, input, Next, HelpOrVersion, ReadEnvironment, OpenStore, LoadIdentities,
           Dispatch, RunSignOrVerify, ListIdentity, ListEnd, RunDeferred, Exit, Kill
  <1>2. CASE ReadEnvironment
    <2>1. command' = command
      BY <1>2 DEF ReadEnvironment
    <2>2. variable.given /\ variable # NotAnInteger => variable.n \in Includes
      BY DEF KindsInv, Absent, Given
    <2>3. include' \in Includes \cup {Default}
      BY <1>2, <2>2 DEF ReadEnvironment, KindsInv
    <2> QED
      BY <1>1, <2>1, <2>3 DEF KindsInv
  <1>3. CASE Dispatch
    BY <1>1, <1>3 DEF Dispatch, KindsInv
  <1>4. CASE UNCHANGED <<command, include>>
    BY <1>1, <1>4 DEF KindsInv
  <1> QED
    BY <1>2, <1>3, <1>4
       DEF Next, vars, HelpOrVersion, OpenStore, LoadIdentities, RunSignOrVerify,
           ListIdentity, ListEnd, RunDeferred, Exit, Kill

\* The deferred calls stand for exactly what is open.
LEMMA StackIsOpen ==
  ASSUME StackInv
  PROVE  /\ ToSet(deferred) = {i \in DOMAIN idents : idents[i].open}
                                \cup (IF store = "open" THEN {0} ELSE {})
         /\ Len(deferred) = Cardinality(ToSet(deferred))
  <1> DEFINE d == Len(deferred)
  <1>1. /\ d \in Nat /\ DOMAIN deferred = 1 .. d
        /\ Len(idents) \in Nat /\ DOMAIN idents = 1 .. Len(idents)
    BY LenProperties DEF StackInv
  <1>2. /\ \A n \in 1 .. d : deferred[n] = n - 1
        /\ store = "open" <=> d > 0
        /\ \A i \in 1 .. Len(idents) : idents[i].open <=> i < d
        /\ d <= Len(idents) + 1
    BY DEF StackInv
  <1>3. ToSet(deferred) = {deferred[n] : n \in 1 .. d}
    BY <1>1 DEF ToSet
  <1> HIDE DEF d
  <1>4. ToSet(deferred) = 0 .. d - 1
    <2>1. ASSUME NEW x \in 0 .. d - 1
          PROVE  x \in ToSet(deferred)
      <3>1. x + 1 \in 1 .. d /\ deferred[x + 1] = x
        BY <1>1, <1>2
      <3> QED
        BY <1>3, <3>1
    <2>2. ASSUME NEW x \in ToSet(deferred)
          PROVE  x \in 0 .. d - 1
      <3>1. PICK n \in 1 .. d : x = deferred[n]
        BY <1>3
      <3> QED
        BY <1>1, <1>2, <3>1
    <2> QED
      BY <2>1, <2>2
  <1>5. {i \in DOMAIN idents : idents[i].open} = 1 .. d - 1
    <2>1. \A i \in 1 .. Len(idents) : i \in 1 .. d - 1 <=> i < d
      BY <1>1
    <2>2. 1 .. d - 1 \subseteq 1 .. Len(idents)
      BY <1>1, <1>2
    <2> QED
      BY <1>1, <1>2, <2>1, <2>2
  <1>6. 0 .. d - 1 = (1 .. d - 1) \cup (IF store = "open" THEN {0} ELSE {})
    BY <1>1, <1>2
  <1>7. Cardinality(0 .. d - 1) = d
    BY <1>1, FS_Interval
  <1> QED
    BY <1>4, <1>5, <1>6, <1>7 DEF d

\* Every run keeps the types, the deferred calls stand for exactly what is open, and
\* every command runs under an open store and open identities.
THEOREM Typing == Spec => []TypeOK
  <1>1. StackInv /\ OpenedInv /\ KindsInv => TypeOK
    <2> SUFFICES ASSUME StackInv, OpenedInv, KindsInv PROVE TypeOK
      OBVIOUS
    <2>1. ASSUME pc = "command"
          PROVE  store = "open" /\ \A i \in DOMAIN idents : idents[i].open
      <3>1. Len(deferred) = Len(idents) + 1 /\ Len(idents) \in Nat
            /\ DOMAIN idents = 1 .. Len(idents)
        BY <2>1, LenProperties DEF OpenedInv, StackInv
      <3> QED
        BY <3>1 DEF StackInv
    <2>2. /\ pc \in Labels /\ result \in {"none", "ok", "error", "panic", "killed"}
          /\ store \in {"none", "open", "closed"}
          /\ command \in {"none", "sign", "verify", "list"}
          /\ include \in Includes \cup {Default}
      BY DEF StackInv, OpenedInv, KindsInv
    <2> QED
      BY <2>1, <2>2, StackIsOpen DEF TypeOK, Labels
  <1> QED
    BY <1>1, Stacked, KindsInit, KindsNext, PTL DEF Spec
=============================================================================
