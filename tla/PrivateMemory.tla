---------------------------- MODULE PrivateMemory ----------------------------
(***************************************************************************)
(* What the address spaces of execution states promise: each state has a   *)
(* memory of its own.  A fork copies it, and from then on no state notices *)
(* what another one does.                                                  *)
(***************************************************************************)
CONSTANTS
  Space,      \* the addresses an AddressSpace can have
  First,      \* that of the initial state
  Object,     \* memory objects
  Value,      \* contents of a memory object
  Unbound     \* what an object that is not bound has for contents

VARIABLES
  live,       \* the address spaces that exist
  memory      \* memory[s][o]: the contents of o in s
vars == <<live, memory>>

Bound(s) == {o \in Object : memory[s][o] # Unbound}

Init ==
  /\ live = {First}
  /\ memory = [s \in Space |-> [o \in Object |-> Unbound]]

Fork(s, t) ==
  /\ s \in live
  /\ t \in Space \ live
  /\ live' = live \cup {t}
  /\ memory' = [memory EXCEPT ![t] = memory[s]]

Destroy(s) ==
  /\ s \in live
  /\ live' = live \ {s}
  /\ memory' = [memory EXCEPT ![s] = [o \in Object |-> Unbound]]

(* A new object has an address that no state uses. *)
Allocate(s, o, v) ==
  /\ s \in live
  /\ \A t \in live : o \notin Bound(t)
  /\ memory' = [memory EXCEPT ![s] = [@ EXCEPT ![o] = v]]
  /\ UNCHANGED live

Free(s, o) ==
  /\ s \in live
  /\ memory' = [memory EXCEPT ![s] = [@ EXCEPT ![o] = Unbound]]
  /\ UNCHANGED live

(* New contents for some of the bound objects. *)
Write(s, W, new) ==
  /\ s \in live
  /\ W \subseteq Bound(s)
  /\ memory' = [memory EXCEPT ![s] = [o \in Object |-> IF o \in W THEN new[o] ELSE @[o]]]
  /\ UNCHANGED live

Next ==
  \/ \E s, t \in Space : Fork(s, t)
  \/ \E s \in Space :
       \/ Destroy(s)
       \/ \E o \in Object : Free(s, o) \/ \E v \in Value : Allocate(s, o, v)
       \/ \E W \in SUBSET Object : \E new \in [W -> Value] : Write(s, W, new)

Spec == Init /\ [][Next]_vars
=============================================================================
