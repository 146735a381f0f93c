---------------------------- MODULE StorePromise ----------------------------
(***************************************************************************)
(* What the interfaces of certstore.go promise of a system's store: an     *)
(* identity is a certificate with its private key, a call on one changes   *)
(* no other, and a key may be left without its certificate, never a        *)
(* certificate without its key.  Other programs use the store by the same  *)
(* rules.                                                                  *)
(***************************************************************************)
CONSTANT Item

VARIABLES things,   \* of each identity: "none", "key" (no certificate), "whole"
          calling,  \* the Import or Delete in progress: [op, item]
          lost,     \* identities other programs have taken something of
          replied   \* the last call, when it is an Import or a Delete that returned nil

vars == <<things, calling, lost, replied>>

Idle == [op |-> "none", item |-> "none"]

Init ==
  /\ things \in [Item -> {"none", "whole"}]
  /\ calling = Idle /\ lost = {} /\ replied = Idle

Changes(op) ==
  IF op = "import" THEN {<<"none", "key">>, <<"key", "whole">>, <<"none", "whole">>}
  ELSE {<<"whole", "key">>, <<"key", "none">>, <<"whole", "none">>}

Change(op, x) ==
  \E thing \in {"none", "key", "whole"} :
    /\ <<things[x], thing>> \in Changes(op)
    /\ things' = [things EXCEPT ![x] = thing]

Work(op, x) == Change(op, x) \/ UNCHANGED things

Begin(op, x) ==
  /\ calling = Idle
  /\ Work(op, x)
  /\ calling' = [op |-> op, item |-> x] /\ replied' = Idle
  /\ UNCHANGED lost

Continue(op, x) ==
  /\ calling = [op |-> op, item |-> x]
  /\ Work(op, x)
  /\ UNCHANGED <<calling, lost, replied>>

\* The call returns; calls of one step begin and end in it.  What a Delete that
\* returns nil was to delete is gone; what an Import that returns nil was to import
\* is there, its key at least, unless it was taken away meanwhile.
End(op, x) ==
  /\ calling \in {Idle, [op |-> op, item |-> x]}
  /\ Work(op, x)
  /\ calling' = Idle
  /\ \/ replied' = Idle
     \/ /\ replied' = [op |-> op, item |-> x]
        /\ IF op = "delete" THEN things'[x] = "none" ELSE things'[x] # "none" \/ x \in lost
  /\ UNCHANGED lost

OtherCall ==
  /\ calling = Idle /\ replied' = Idle
  /\ UNCHANGED <<things, calling, lost>>

OtherProgram(x) ==
  /\ Change("delete", x)
  /\ lost' = lost \cup {x}
  /\ UNCHANGED <<calling, replied>>

Next ==
  \/ \E x \in Item :
       \/ \E op \in {"import", "delete"} : Begin(op, x) \/ Continue(op, x) \/ End(op, x)
       \/ OtherProgram(x)
  \/ OtherCall

Spec == Init /\ [][Next]_vars
=============================================================================
