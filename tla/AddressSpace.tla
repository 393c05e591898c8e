----------------------------- MODULE AddressSpace -----------------------------
(***************************************************************************)
(* The copy-on-write memory of execution states (klee/lib/Core/            *)
(* AddressSpace.cpp, and the ObjectStates of Memory.cpp).                  *)
(*                                                                         *)
(* A fork copies the map from memory objects to ObjectStates and not the   *)
(* ObjectStates.  An ObjectState carries the cowKey of the address space   *)
(* that made it; an address space writes in place only to the ObjectStates *)
(* that carry its current key, and copies any other one first.  The copy   *)
(* constructor changes the keys of both sides, so neither owns what is     *)
(* shared.  An ObjectState is freed when no map holds it any more.         *)
(***************************************************************************)
EXTENDS Integers, FiniteSets

CONSTANTS
  Space,        \* the addresses an AddressSpace can have
  First,        \* that of the initial state
  Object,       \* MemoryObjects (of one address each)
  ReadOnly,     \* the objects that are never to be written
  ObjectState,  \* the addresses an ObjectState can have
  None,         \* no ObjectState
  Value,        \* contents of a memory object
  Unbound,      \* no contents
  MaxKey        \* bound: the largest cowKey

ASSUME AddressSpaceAssumption ==
  /\ First \in Space
  /\ ReadOnly \subseteq Object
  /\ None \notin ObjectState
  /\ Unbound \notin Value
  /\ MaxKey \in Nat

VARIABLES
  live,             \* the address spaces that exist
  cowKey,           \* AddressSpace::cowKey
  objects,          \* AddressSpace::objects
  copyOnWriteOwner, \* ObjectState::copyOnWriteOwner
  contents          \* the bytes of an ObjectState
states == <<copyOnWriteOwner, contents>>
vars == <<live, cowKey, objects, states>>

Bound(s) == {o \in Object : objects[s][o] # None}

Held(s) == {objects[s][o] : o \in Bound(s)}

(* `new' returns an address at which nothing is.  That the reference counts of *)
(* the shared maps free exactly the ObjectStates no map holds is assumed here. *)
Unused == ObjectState \ UNION {Held(s) : s \in live}

Init ==
  /\ live = {First}
  /\ cowKey = [s \in Space |-> 1]
  /\ objects = [s \in Space |-> [o \in Object |-> None]]
  /\ copyOnWriteOwner = [c \in ObjectState |-> 0]
  /\ contents \in [ObjectState -> Value]

-----------------------------------------------------------------------------
(* Variants of ForkedKeys: only the copy gets a new key; the copy starts again *)
(* at the first key; the keys count down.                                      *)
ForkedKeysOfCopy(s, t) == [cowKey EXCEPT ![t] = cowKey[s] + 1]
ForkedKeysRestart(s, t) == [cowKey EXCEPT ![s] = @ + 1, ![t] = 1]
ForkedKeysDown(s, t) == [cowKey EXCEPT ![s] = @ - 1, ![t] = cowKey[s] - 1]

(* cowKey(++b.cowKey): a key no ObjectState of either side carries. *)
ForkedKeys(s, t) == [cowKey EXCEPT ![s] = @ + 1, ![t] = cowKey[s] + 1]

(* AddressSpace(const AddressSpace &b) *)
Fork(s, t) ==
  /\ s \in live
  /\ t \in Space \ live
  /\ cowKey[s] < MaxKey
  /\ live' = live \cup {t}
  /\ cowKey' = ForkedKeys(s, t)
  /\ objects' = [objects EXCEPT ![t] = objects[s]]
  /\ UNCHANGED states

(* ~ExecutionState *)
Destroy(s) ==
  /\ s \in live
  /\ live' = live \ {s}
  /\ objects' = [objects EXCEPT ![s] = [o \in Object |-> None]]
  /\ UNCHANGED <<cowKey, states>>

(* bindObject(o, os) with a new ObjectState os at address c *)
Bind(s, o, c, v) ==
  /\ c \in Unused
  /\ objects' = [objects EXCEPT ![s] = [@ EXCEPT ![o] = c]]
  /\ copyOnWriteOwner' = [copyOnWriteOwner EXCEPT ![c] = cowKey[s]]
  /\ contents' = [contents EXCEPT ![c] = v]
  /\ UNCHANGED <<live, cowKey>>

(* executeAlloc: MemoryManager::allocate returns an address not in use. *)
Allocate(s, o, c, v) ==
  /\ s \in live
  /\ \A t \in live : o \notin Bound(t)
  /\ Bind(s, o, c, v)

(* executeMakeSymbolic: a bound object gets a new ObjectState. *)
MakeSymbolic(s, o, c, v) ==
  /\ s \in live
  /\ o \in Bound(s) \ ReadOnly
  /\ Bind(s, o, c, v)

(* unbindObject: executeFree, realloc, popFrame *)
Unbind(s, o) ==
  /\ s \in live
  /\ o \in Bound(s)
  /\ objects' = [objects EXCEPT ![s] = [@ EXCEPT ![o] = None]]
  /\ UNCHANGED <<live, cowKey, states>>

(* Variant of Owns: an ObjectState of an older epoch counts as owned. *)
OwnsOlder(s, o) == copyOnWriteOwner[objects[s][o]] <= cowKey[s]

Owns(s, o) == copyOnWriteOwner[objects[s][o]] = cowKey[s]

(* The ObjectStates getWriteable may return for the objects of W: each object *)
(* keeps its own one if it is owned and gets a copy at a new address if not.  *)
Writeable(s, W) ==
  {copy \in [W -> ObjectState] :
     /\ \A o \in W : IF Owns(s, o) THEN copy[o] = objects[s][o] ELSE copy[o] \in Unused
     /\ \A o, p \in W : copy[o] = copy[p] => o = p}

(* Stores into the objects of W, through the ObjectStates copy: one for an    *)
(* instruction, some for copyInConcretes after an external call and merge().  *)
Write(s, W, new, copy) ==
  /\ s \in live
  /\ W \subseteq Bound(s) \ ReadOnly
  /\ objects' = [objects EXCEPT ![s] = [o \in Object |-> IF o \in W THEN copy[o] ELSE @[o]]]
  /\ copyOnWriteOwner' =
       [c \in ObjectState |-> IF \E o \in W : c = copy[o] /\ ~Owns(s, o)
                                THEN cowKey[s] ELSE copyOnWriteOwner[c]]
  /\ contents' =
       [c \in ObjectState |-> IF \E o \in W : c = copy[o]
                                THEN new[CHOOSE o \in W : c = copy[o]] ELSE contents[c]]
  /\ UNCHANGED <<live, cowKey>>

Next ==
  \/ \E s, t \in Space : Fork(s, t)
  \/ \E s \in Space :
       \/ Destroy(s)
       \/ \E o \in Object :
            \/ Unbind(s, o)
            \/ \E c \in ObjectState, v \in Value :
                 Allocate(s, o, c, v) \/ MakeSymbolic(s, o, c, v)
       \/ \E W \in SUBSET Bound(s) :
            \E new \in [W -> Value], copy \in Writeable(s, W) : Write(s, W, new, copy)

Spec == Init /\ [][Next]_vars

-----------------------------------------------------------------------------
(* Properties *)

TypeOK ==
  /\ live \subseteq Space
  /\ cowKey \in [Space -> Nat]
  /\ objects \in [Space -> [Object -> ObjectState \cup {None}]]
  /\ copyOnWriteOwner \in [ObjectState -> Nat]
  /\ contents \in [ObjectState -> Value]

(* "forall o in objects, o->copyOnWriteOwner <= cowKey", AddressSpace.h:51, also *)
(* for the address spaces a fork copied from, which have moved on to a new key.  *)
OwnersAreBelowTheKey ==
  \A s \in live, o \in Object :
    objects[s][o] # None => copyOnWriteOwner[objects[s][o]] <= cowKey[s]

(* "The set of objects where o->copyOnWriteOwner == cowKey are the objects that *)
(* we own", AddressSpace.h:48: no other address space holds such an ObjectState, *)
(* although keys of unrelated spaces coincide; so writing in place is private.   *)
OwnedIsPrivate ==
  \A s, t \in live, o, p \in Object :
    /\ objects[s][o] # None
    /\ copyOnWriteOwner[objects[s][o]] = cowKey[s]
    /\ objects[t][p] = objects[s][o]
    => s = t

(* Sharing the ObjectStates cannot be noticed: forking, writing, binding, freeing *)
(* and dying in one state change nothing that another state reads.                *)
Abstract ==
  INSTANCE PrivateMemory WITH
    memory <- [s \in Space |-> [o \in Object |->
                 IF s \in live /\ objects[s][o] # None
                   THEN contents[objects[s][o]] ELSE Unbound]]

ImplementsPrivateMemory == Abstract!Spec
=============================================================================
