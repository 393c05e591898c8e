-------------------------- MODULE AddressSpaceProofs --------------------------
(***************************************************************************)
(* Copy-on-write is sound for any number of states, objects and values:    *)
(* the invariants of AddressSpace, and that it implements PrivateMemory.   *)
(***************************************************************************)
EXTENDS AddressSpace, TLAPS

(* An ObjectState is held for one memory object, in whatever spaces hold it: what *)
(* Unused assumes of the allocator, carried over copies and writes.              *)
OneObjectEach ==
  \A s, t \in live, o, p \in Object :
    objects[s][o] # None /\ objects[t][p] = objects[s][o] => o = p

(* The invariants of the code and OneObjectEach are inductive together. *)
IInv ==
  /\ TypeOK
  /\ OwnersAreBelowTheKey
  /\ OwnedIsPrivate
  /\ OneObjectEach

(* What an unused ObjectState is: one that no live address space refers to. *)
LEMMA UnusedIsUnheld ==
  ASSUME NEW c, c \in Unused, TypeOK
  PROVE  c \in ObjectState /\ \A s \in live, o \in Object : objects[s][o] # c
<1>1. c \in ObjectState /\ \A s \in live : c \notin Held(s)
  BY DEF Unused
<1>2. c # None
  BY <1>1, AddressSpaceAssumption
<1>3. ASSUME NEW s \in live, NEW o \in Object, objects[s][o] = c PROVE FALSE
  BY <1>1, <1>2, <1>3 DEF Held, Bound
<1> QED
  BY <1>1, <1>3

LEMMA InitIInv == Init => IInv
  BY AddressSpaceAssumption
  DEF Init, IInv, TypeOK, OwnersAreBelowTheKey, OwnedIsPrivate, OneObjectEach

(* A fork leaves both sides with a key above every owner, so they own nothing. *)
LEMMA ForkIInv ==
  ASSUME IInv, NEW s \in Space, NEW t \in Space, Fork(s, t)
  PROVE  IInv'
<1> USE DEF IInv, TypeOK
<1>1. /\ s \in live /\ t \notin live
      /\ live' = live \cup {t}
      /\ cowKey' = [cowKey EXCEPT ![s] = @ + 1, ![t] = cowKey[s] + 1]
      /\ objects' = [objects EXCEPT ![t] = objects[s]]
      /\ UNCHANGED <<copyOnWriteOwner, contents>>
  BY DEF Fork, ForkedKeys, states
<1>2. TypeOK'
  BY <1>1
<1>3. cowKey'[s] = cowKey[s] + 1 /\ cowKey'[t] = cowKey[s] + 1
  BY <1>1
<1>4. \A u \in live' : u # s /\ u # t =>
        u \in live /\ cowKey'[u] = cowKey[u] /\ objects'[u] = objects[u]
  BY <1>1
<1>5. objects'[s] = objects[s] /\ objects'[t] = objects[s]
  BY <1>1
<1>6. \A o \in Object : objects[s][o] # None =>
        copyOnWriteOwner[objects[s][o]] \in Nat /\ copyOnWriteOwner[objects[s][o]] <= cowKey[s]
  BY <1>1 DEF OwnersAreBelowTheKey
<1>7. OwnersAreBelowTheKey'
  BY <1>1, <1>3, <1>4, <1>5, <1>6 DEF OwnersAreBelowTheKey
<1>8. OwnedIsPrivate'
  <2> SUFFICES ASSUME NEW u \in live', NEW w \in live', NEW o \in Object, NEW p \in Object,
                      objects'[u][o] # None,
                      copyOnWriteOwner'[objects'[u][o]] = cowKey'[u],
                      objects'[w][p] = objects'[u][o]
               PROVE  u = w
    BY DEF OwnedIsPrivate
  <2>1. u # s /\ u # t
    BY <1>1, <1>3, <1>5, <1>6
  <2>2. CASE w # s /\ w # t
    BY <1>1, <1>4, <2>1, <2>2 DEF OwnedIsPrivate
  <2>3. CASE w \in {s, t}
    <3>1. objects[s][p] = objects[u][o] /\ u \in live /\ cowKey'[u] = cowKey[u]
      BY <1>4, <1>5, <2>1, <2>3
    <3>2. u = s
      BY <1>1, <1>4, <2>1, <3>1 DEF OwnedIsPrivate
    <3> QED
      BY <3>2, <2>1
  <2> QED
    BY <2>2, <2>3
<1>9. OneObjectEach'
  <2> SUFFICES ASSUME NEW u \in live', NEW w \in live', NEW o \in Object, NEW p \in Object,
                      objects'[u][o] # None, objects'[w][p] = objects'[u][o]
               PROVE  o = p
    BY DEF OneObjectEach
  <2> DEFINE from(x) == IF x = t THEN s ELSE x
  <2>1. from(u) \in live /\ objects'[u] = objects[from(u)]
    BY <1>1, <1>4, <1>5
  <2>2. from(w) \in live /\ objects'[w] = objects[from(w)]
    BY <1>1, <1>4, <1>5
  <2> QED
    BY <2>1, <2>2 DEF OneObjectEach
<1> QED
  BY <1>2, <1>7, <1>8, <1>9

LEMMA DestroyIInv ==
  ASSUME IInv, NEW s \in Space, Destroy(s)
  PROVE  IInv'
<1> USE DEF IInv, TypeOK
<1>1. /\ live' = live \ {s} /\ s \in live
      /\ objects' = [objects EXCEPT ![s] = [o \in Object |-> None]]
      /\ UNCHANGED <<cowKey, copyOnWriteOwner, contents>>
  BY DEF Destroy, states
<1>2. \A u \in live' : u \in live /\ objects'[u] = objects[u]
  BY <1>1
<1> QED
  BY <1>1, <1>2 DEF OwnersAreBelowTheKey, OwnedIsPrivate, OneObjectEach

LEMMA UnbindIInv ==
  ASSUME IInv, NEW s \in Space, NEW o \in Object, Unbind(s, o)
  PROVE  IInv'
<1> USE DEF IInv, TypeOK
<1>1. /\ s \in live
      /\ objects' = [objects EXCEPT ![s] = [@ EXCEPT ![o] = None]]
      /\ UNCHANGED <<live, cowKey, copyOnWriteOwner, contents>>
  BY DEF Unbind, states
<1>2. \A u \in live, p \in Object : objects'[u][p] \in {objects[u][p], None}
  BY <1>1
<1>3. TypeOK'
  BY <1>1
<1> QED
  BY <1>1, <1>2, <1>3 DEF OwnersAreBelowTheKey, OwnedIsPrivate, OneObjectEach

(* A new ObjectState is owned by the only address space that holds it. *)
LEMMA BindIInv ==
  ASSUME IInv, NEW s \in live, NEW o \in Object, NEW c \in ObjectState, NEW v \in Value,
         Bind(s, o, c, v)
  PROVE  IInv'
<1> USE DEF IInv, TypeOK
<1>1. /\ c \in Unused
      /\ objects' = [objects EXCEPT ![s] = [@ EXCEPT ![o] = c]]
      /\ copyOnWriteOwner' = [copyOnWriteOwner EXCEPT ![c] = cowKey[s]]
      /\ contents' = [contents EXCEPT ![c] = v]
      /\ UNCHANGED <<live, cowKey>>
  BY DEF Bind
<1>2. \A u \in live, p \in Object : objects[u][p] # c
  BY <1>1, UnusedIsUnheld
<1>3. TypeOK'
  BY <1>1
<1>4. s \in Space /\ live \subseteq Space
  OBVIOUS
<1>5. \A u \in live, p \in Object :
        objects'[u][p] = IF u = s /\ p = o THEN c ELSE objects[u][p]
  BY <1>1, <1>4
<1>6. \A u \in live, p \in Object : objects[u][p] # None =>
        copyOnWriteOwner'[objects[u][p]] = copyOnWriteOwner[objects[u][p]]
  BY <1>1, <1>2, <1>4
<1>7. copyOnWriteOwner'[c] = cowKey[s]
  BY <1>1
<1>8. OwnersAreBelowTheKey'
  BY <1>1, <1>4, <1>5, <1>6, <1>7 DEF OwnersAreBelowTheKey
<1>9. OwnedIsPrivate'
  BY <1>1, <1>2, <1>5, <1>6 DEF OwnedIsPrivate
<1>10. OneObjectEach'
  BY <1>1, <1>2, <1>5 DEF OneObjectEach
<1> QED
  BY <1>3, <1>8, <1>9, <1>10

(* What a write does to the maps and ObjectStates: the ObjectStates it writes to *)
(* are owned afterwards, and no map but that of s for W refers to one of them.   *)
LEMMA WriteEffect ==
  ASSUME IInv, NEW s \in Space, NEW W \in SUBSET Bound(s), NEW new \in [W -> Value],
         NEW copy \in Writeable(s, W), Write(s, W, new, copy)
  PROVE  /\ s \in live /\ W \subseteq Object /\ copy \in [W -> ObjectState]
         /\ \A u \in Space, p \in Object :
              objects'[u][p] = IF u = s /\ p \in W THEN copy[p] ELSE objects[u][p]
         /\ \A u \in live, p \in Object, o \in W :
              objects[u][p] = copy[o] => u = s /\ p = o
         /\ \A o, p \in W : copy[o] = copy[p] => o = p
         /\ \A o \in W : copyOnWriteOwner'[copy[o]] = cowKey[s]
         /\ \A o \in W : contents'[copy[o]] = new[o]
         /\ \A c \in ObjectState : (\A o \in W : c # copy[o]) =>
              copyOnWriteOwner'[c] = copyOnWriteOwner[c] /\ contents'[c] = contents[c]
<1> USE DEF IInv, TypeOK
<1>1. /\ s \in live
      /\ objects' = [objects EXCEPT ![s] = [o \in Object |-> IF o \in W THEN copy[o] ELSE @[o]]]
      /\ copyOnWriteOwner' =
           [c \in ObjectState |-> IF \E o \in W : c = copy[o] /\ ~Owns(s, o)
                                    THEN cowKey[s] ELSE copyOnWriteOwner[c]]
      /\ contents' =
           [c \in ObjectState |-> IF \E o \in W : c = copy[o]
                                    THEN new[CHOOSE o \in W : c = copy[o]] ELSE contents[c]]
  BY DEF Write
<1>2. /\ copy \in [W -> ObjectState]
      /\ \A o \in W : IF Owns(s, o) THEN copy[o] = objects[s][o] ELSE copy[o] \in Unused
      /\ \A o, p \in W : copy[o] = copy[p] => o = p
  BY DEF Writeable
<1>3. W \subseteq Object /\ \A o \in W : objects[s][o] # None
  BY DEF Bound
<1>4. \A u \in Space, p \in Object :
        objects'[u][p] = IF u = s /\ p \in W THEN copy[p] ELSE objects[u][p]
  BY <1>1
<1>5. ASSUME NEW u \in live, NEW p \in Object, NEW o \in W, objects[u][p] = copy[o]
      PROVE  u = s /\ p = o
  <2>1. Owns(s, o) /\ copy[o] = objects[s][o]
    BY <1>2, <1>5, UnusedIsUnheld
  <2>2. s = u
    BY <1>1, <1>3, <1>5, <2>1 DEF OwnedIsPrivate, Owns
  <2>3. o = p
    BY <1>1, <1>3, <1>5, <2>1 DEF OneObjectEach
  <2> QED
    BY <2>2, <2>3
<1>6. ASSUME NEW o \in W PROVE copyOnWriteOwner'[copy[o]] = cowKey[s]
  <2>1. copy[o] \in ObjectState
    BY <1>2
  <2>2. CASE Owns(s, o)
    <3>1. copyOnWriteOwner[copy[o]] = cowKey[s]
      BY <1>2, <2>2 DEF Owns
    <3> QED
      BY <1>1, <2>1, <3>1
  <2>3. CASE ~Owns(s, o)
    BY <1>1, <2>1, <2>3
  <2> QED
    BY <2>2, <2>3
<1>7. ASSUME NEW o \in W PROVE contents'[copy[o]] = new[o]
  <2>1. (CHOOSE p \in W : copy[o] = copy[p]) = o
    BY <1>2
  <2>2. copy[o] \in ObjectState
    BY <1>2
  <2> QED
    BY <1>1, <2>1, <2>2
<1>8. ASSUME NEW c \in ObjectState, \A o \in W : c # copy[o]
      PROVE  copyOnWriteOwner'[c] = copyOnWriteOwner[c] /\ contents'[c] = contents[c]
  BY <1>1, <1>8
<1> QED
  BY <1>1, <1>2, <1>3, <1>4, <1>5, <1>6, <1>7, <1>8

LEMMA WriteIInv ==
  ASSUME IInv, NEW s \in Space, NEW W \in SUBSET Bound(s), NEW new \in [W -> Value],
         NEW copy \in Writeable(s, W), Write(s, W, new, copy)
  PROVE  IInv'
<1> USE DEF IInv, TypeOK
<1>1. UNCHANGED <<live, cowKey>> /\ live \subseteq Space
  BY DEF Write
<1>2. TypeOK'
  <2>1. objects' \in [Space -> [Object -> ObjectState \cup {None}]]
    <3>1. copy \in [W -> ObjectState] /\ s \in Space
      BY WriteEffect
    <3>2. [o \in Object |-> IF o \in W THEN copy[o] ELSE objects[s][o]]
            \in [Object -> ObjectState \cup {None}]
      BY <3>1
    <3> QED
      BY <3>1, <3>2 DEF Write
  <2>2. copyOnWriteOwner' \in [ObjectState -> Nat]
    BY DEF Write
  <2>3. contents' \in [ObjectState -> Value]
    <3>1. \A c \in ObjectState : contents'[c] \in Value
      BY WriteEffect
    <3>2. contents' = [c \in ObjectState |-> contents'[c]]
      BY DEF Write
    <3> QED
      BY <3>1, <3>2
  <2> QED
    BY <1>1, <2>1, <2>2, <2>3
<1>3. ASSUME NEW u \in live, NEW p \in Object, ~ (u = s /\ p \in W), objects[u][p] # None
      PROVE  /\ objects'[u][p] = objects[u][p]
             /\ copyOnWriteOwner'[objects[u][p]] = copyOnWriteOwner[objects[u][p]]
             /\ \A o \in W : objects[u][p] # copy[o]
  BY <1>1, <1>3, WriteEffect
<1>4. \A u \in live, p \in Object : ~ (u = s /\ p \in W) => objects'[u][p] = objects[u][p]
  BY <1>1, WriteEffect
<1>5. \A o \in W : /\ objects'[s][o] = copy[o] /\ copy[o] # None
                   /\ copyOnWriteOwner'[copy[o]] = cowKey[s]
  BY WriteEffect, AddressSpaceAssumption
<1>6. OwnersAreBelowTheKey'
  <2> SUFFICES ASSUME NEW u \in live, NEW p \in Object, objects'[u][p] # None
               PROVE  copyOnWriteOwner'[objects'[u][p]] <= cowKey[u]
    BY <1>1 DEF OwnersAreBelowTheKey
  <2>1. CASE u = s /\ p \in W
    BY <1>1, <1>5, <2>1
  <2>2. CASE ~ (u = s /\ p \in W)
    BY <1>3, <1>4, <2>2 DEF OwnersAreBelowTheKey
  <2> QED
    BY <2>1, <2>2
<1>7. OwnedIsPrivate'
  <2> SUFFICES ASSUME NEW u \in live, NEW w \in live, NEW o \in Object, NEW p \in Object,
                      objects'[u][o] # None,
                      copyOnWriteOwner'[objects'[u][o]] = cowKey[u],
                      objects'[w][p] = objects'[u][o]
               PROVE  u = w
    BY <1>1 DEF OwnedIsPrivate
  <2>1. CASE u = s /\ o \in W
    BY <1>3, <1>4, <1>5, <2>1
  <2>2. CASE ~ (u = s /\ o \in W)
    <3>1. objects'[u][o] = objects[u][o] /\ copyOnWriteOwner[objects[u][o]] = cowKey[u]
      BY <1>3, <1>4, <2>2
    <3>2. ~ (w = s /\ p \in W)
      BY <1>3, <1>5, <2>2, <3>1
    <3> QED
      BY <1>4, <3>1, <3>2 DEF OwnedIsPrivate
  <2> QED
    BY <2>1, <2>2
<1>8. OneObjectEach'
  <2> SUFFICES ASSUME NEW u \in live, NEW w \in live, NEW o \in Object, NEW p \in Object,
                      objects'[u][o] # None, objects'[w][p] = objects'[u][o]
               PROVE  o = p
    BY <1>1 DEF OneObjectEach
  <2>1. CASE u = s /\ o \in W
    <3>1. w = s /\ p \in W
      BY <1>3, <1>4, <1>5, <2>1
    <3> QED
      BY <1>5, <2>1, <3>1, WriteEffect
  <2>2. CASE ~ (u = s /\ o \in W)
    <3>1. objects'[u][o] = objects[u][o]
      BY <1>4, <2>2
    <3>2. ~ (w = s /\ p \in W)
      BY <1>3, <1>5, <2>2, <3>1
    <3> QED
      BY <1>4, <3>1, <3>2 DEF OneObjectEach
  <2> QED
    BY <2>1, <2>2
<1> QED
  BY <1>2, <1>6, <1>7, <1>8

LEMMA NextIInv == IInv /\ [Next]_vars => IInv'
<1> SUFFICES ASSUME IInv, [Next]_vars PROVE IInv'
  OBVIOUS
<1>1. CASE UNCHANGED vars
  BY <1>1 DEF vars, states, IInv, TypeOK, OwnersAreBelowTheKey, OwnedIsPrivate, OneObjectEach
<1>2. ASSUME NEW s \in Space, NEW t \in Space, Fork(s, t) PROVE IInv'
  BY <1>2, ForkIInv
<1>3. ASSUME NEW s \in Space, Destroy(s) PROVE IInv'
  BY <1>3, DestroyIInv
<1>4. ASSUME NEW s \in Space, NEW o \in Object, Unbind(s, o) PROVE IInv'
  BY <1>4, UnbindIInv
<1>5. ASSUME NEW s \in Space, NEW o \in Object, NEW c \in ObjectState, NEW v \in Value,
             Allocate(s, o, c, v) \/ MakeSymbolic(s, o, c, v)
      PROVE  IInv'
  <2>1. s \in live /\ Bind(s, o, c, v)
    BY <1>5 DEF Allocate, MakeSymbolic
  <2> QED
    BY <2>1, BindIInv
<1>6. ASSUME NEW s \in Space, NEW W \in SUBSET Bound(s), NEW new \in [W -> Value],
             NEW copy \in Writeable(s, W), Write(s, W, new, copy)
      PROVE  IInv'
  BY <1>6, WriteIInv
<1> QED
  BY <1>1, <1>2, <1>3, <1>4, <1>5, <1>6 DEF Next

(* The invariants hold together in every reachable state. *)
THEOREM Invariance == Spec => []IInv
  BY InitIInv, NextIInv, PTL DEF Spec

(* The maps and keys always have the types the code gives them. *)
THEOREM TypeCorrect == Spec => []TypeOK
<1>1. IInv => TypeOK
  BY DEF IInv
<1> QED
  BY <1>1, Invariance, PTL

(* The invariant documented at AddressSpace.h:51. *)
THEOREM OwnersStayBelowTheKey == Spec => []OwnersAreBelowTheKey
<1>1. IInv => OwnersAreBelowTheKey
  BY DEF IInv
<1> QED
  BY <1>1, Invariance, PTL

(* What getWriteable writes to in place is held by one address space only. *)
THEOREM OwnershipIsExclusive == Spec => []OwnedIsPrivate
<1>1. IInv => OwnedIsPrivate
  BY DEF IInv
<1> QED
  BY <1>1, Invariance, PTL

-----------------------------------------------------------------------------
(* The refinement: memory[s][o] is what s finds in the ObjectState it holds *)
(* for o.  Each action maps to the abstract one of the same effect; a new   *)
(* symbolic object is a write of that object.                               *)

Memory ==
  [s \in Space |-> [o \in Object |->
     IF s \in live /\ objects[s][o] # None THEN contents[objects[s][o]] ELSE Unbound]]

(* An object is bound in the abstract memory iff the map has an ObjectState. *)
LEMMA BoundIsBound ==
  ASSUME TypeOK, NEW s \in live
  PROVE  {o \in Object : Memory[s][o] # Unbound} = Bound(s)
<1>1. ASSUME NEW o \in Object, objects[s][o] # None PROVE Memory[s][o] # Unbound
  BY <1>1, AddressSpaceAssumption DEF TypeOK, Memory
<1>2. ASSUME NEW o \in Object, objects[s][o] = None PROVE Memory[s][o] = Unbound
  BY <1>2 DEF TypeOK, Memory
<1> QED
  BY <1>1, <1>2 DEF Bound

(* Two memories are equal when they agree on every object of every state. *)
LEMMA RowsAreFunctions ==
  /\ Memory = [s \in Space |-> Memory[s]]
  /\ Memory' = [s \in Space |-> Memory'[s]]
  /\ \A s \in Space : Memory[s] = [o \in Object |-> Memory[s][o]]
  /\ \A s \in Space : Memory'[s] = [o \in Object |-> Memory'[s][o]]
  BY DEF Memory

LEMMA ForkRefines ==
  ASSUME IInv, NEW s \in Space, NEW t \in Space, Fork(s, t)
  PROVE  Memory' = [Memory EXCEPT ![t] = Memory[s]]
<1> USE DEF IInv, TypeOK
<1>1. /\ s \in live /\ live' = live \cup {t} /\ t \notin live
      /\ objects' = [objects EXCEPT ![t] = objects[s]] /\ contents' = contents
  BY DEF Fork, states
<1>2. ASSUME NEW u \in Space, NEW o \in Object
      PROVE  Memory'[u][o] = IF u = t THEN Memory[s][o] ELSE Memory[u][o]
  BY <1>1 DEF Memory
<1>3. ASSUME NEW u \in Space PROVE Memory'[u] = IF u = t THEN Memory[s] ELSE Memory[u]
  BY <1>2, RowsAreFunctions
<1> QED
  BY <1>3, RowsAreFunctions

LEMMA BindRefines ==
  ASSUME IInv, NEW s \in live, NEW o \in Object, NEW c \in ObjectState, NEW v \in Value,
         Bind(s, o, c, v)
  PROVE  Memory' = [Memory EXCEPT ![s] = [@ EXCEPT ![o] = v]]
<1> USE DEF IInv, TypeOK
<1>1. /\ objects' = [objects EXCEPT ![s] = [@ EXCEPT ![o] = c]]
      /\ contents' = [contents EXCEPT ![c] = v] /\ live' = live
  BY DEF Bind
<1>2. c # None /\ \A u \in live, p \in Object : objects[u][p] # c
  BY UnusedIsUnheld, AddressSpaceAssumption DEF Bind
<1>3. ASSUME NEW u \in Space, NEW p \in Object
      PROVE  Memory'[u][p] = IF u = s /\ p = o THEN v ELSE Memory[u][p]
  <2>1. objects'[u][p] = IF u = s /\ p = o THEN c ELSE objects[u][p]
    BY <1>1
  <2>2. contents'[c] = v
    BY <1>1
  <2>3. u \in live /\ objects[u][p] # None => contents'[objects[u][p]] = contents[objects[u][p]]
    BY <1>1, <1>2
  <2> QED
    BY <1>1, <1>2, <2>1, <2>2, <2>3 DEF Memory
<1>4. ASSUME NEW u \in Space, u # s PROVE Memory'[u] = Memory[u]
  BY <1>3, <1>4, RowsAreFunctions
<1>5. Memory'[s] = [Memory[s] EXCEPT ![o] = v]
  BY <1>3, RowsAreFunctions
<1> QED
  BY <1>4, <1>5, RowsAreFunctions

LEMMA WriteRefines ==
  ASSUME IInv, NEW s \in Space, NEW W \in SUBSET Bound(s), NEW new \in [W -> Value],
         NEW copy \in Writeable(s, W), Write(s, W, new, copy)
  PROVE  Memory' = [Memory EXCEPT ![s] = [o \in Object |-> IF o \in W THEN new[o] ELSE @[o]]]
<1> USE DEF IInv, TypeOK
<1>1. live' = live /\ s \in live /\ copy \in [W -> ObjectState]
  BY DEF Write, Writeable
<1>2. ASSUME NEW u \in Space, NEW p \in Object
      PROVE  Memory'[u][p] = IF u = s /\ p \in W THEN new[p] ELSE Memory[u][p]
  <2>1. CASE u = s /\ p \in W
    <3>1. objects'[u][p] = copy[p] /\ contents'[copy[p]] = new[p]
      BY <2>1, WriteEffect
    <3>2. copy[p] # None
      BY <1>1, <2>1, AddressSpaceAssumption
    <3> QED
      BY <1>1, <2>1, <3>1, <3>2 DEF Memory
  <2>2. CASE ~ (u = s /\ p \in W)
    <3>1. objects'[u][p] = objects[u][p]
      BY <2>2, WriteEffect
    <3>2. u \in live /\ objects[u][p] # None => contents'[objects[u][p]] = contents[objects[u][p]]
      BY <2>2, WriteEffect
    <3> QED
      BY <1>1, <2>2, <3>1, <3>2 DEF Memory
  <2> QED
    BY <2>1, <2>2
<1>3. ASSUME NEW u \in Space, u # s PROVE Memory'[u] = Memory[u]
  BY <1>2, <1>3, RowsAreFunctions
<1>4. Memory'[s] = [o \in Object |-> IF o \in W THEN new[o] ELSE Memory[s][o]]
  BY <1>2, RowsAreFunctions
<1> QED
  BY <1>3, <1>4, RowsAreFunctions

LEMMA InitRefines == Init => Abstract!Init
  BY DEF Init, Abstract!Init

LEMMA StepRefines == IInv /\ [Next]_vars => [Abstract!Next]_(Abstract!vars)
<1> SUFFICES ASSUME IInv, [Next]_vars PROVE [Abstract!Next]_(Abstract!vars)
  OBVIOUS
<1> USE DEF IInv, TypeOK
<1>1. CASE UNCHANGED vars
  BY <1>1 DEF vars, states, Abstract!vars
<1>2. ASSUME NEW s \in Space, NEW t \in Space, Fork(s, t) PROVE Abstract!Next
  <2>1. Abstract!Fork(s, t)
    BY <1>2, ForkRefines DEF Fork, Memory, Abstract!Fork
  <2> QED
    BY <2>1 DEF Abstract!Next
<1>3. ASSUME NEW s \in Space, Destroy(s) PROVE Abstract!Next
  <2>1. Memory' = [Memory EXCEPT ![s] = [o \in Object |-> Unbound]]
    BY <1>3 DEF Destroy, states, Memory
  <2>2. Abstract!Destroy(s)
    BY <1>3, <2>1 DEF Destroy, Memory, Abstract!Destroy
  <2> QED
    BY <2>2 DEF Abstract!Next
<1>4. ASSUME NEW s \in Space, NEW o \in Object, Unbind(s, o) PROVE Abstract!Next
  <2>1. Memory' = [Memory EXCEPT ![s] = [@ EXCEPT ![o] = Unbound]]
    BY <1>4 DEF Unbind, states, Memory
  <2>2. Abstract!Free(s, o)
    BY <1>4, <2>1 DEF Unbind, Memory, Abstract!Free
  <2> QED
    BY <2>2 DEF Abstract!Next
<1>5. ASSUME NEW s \in Space, NEW o \in Object, NEW c \in ObjectState, NEW v \in Value,
             Allocate(s, o, c, v)
      PROVE  Abstract!Next
  <2>1. s \in live /\ live' = live /\ Bind(s, o, c, v)
    BY <1>5 DEF Allocate, Bind
  <2>2. \A t \in live : o \notin {p \in Object : Memory[t][p] # Unbound}
    BY <1>5, BoundIsBound DEF Allocate
  <2>3. Memory' = [Memory EXCEPT ![s] = [@ EXCEPT ![o] = v]]
    BY <2>1, BindRefines
  <2>4. Abstract!Allocate(s, o, v)
    BY <2>1, <2>2, <2>3 DEF Memory, Abstract!Allocate, Abstract!Bound
  <2> QED
    BY <2>4 DEF Abstract!Next
<1>6. ASSUME NEW s \in Space, NEW o \in Object, NEW c \in ObjectState, NEW v \in Value,
             MakeSymbolic(s, o, c, v)
      PROVE  Abstract!Next
  <2>1. s \in live /\ live' = live /\ Bind(s, o, c, v) /\ o \in Bound(s)
    BY <1>6 DEF MakeSymbolic, Bind
  <2> DEFINE new == [p \in {o} |-> v]
  <2>2. Memory' = [Memory EXCEPT ![s] = [p \in Object |-> IF p \in {o} THEN new[p] ELSE @[p]]]
    <3>1. Memory' = [Memory EXCEPT ![s] = [@ EXCEPT ![o] = v]]
      BY <2>1, BindRefines
    <3>2. [Memory[s] EXCEPT ![o] = v]
            = [p \in Object |-> IF p \in {o} THEN new[p] ELSE Memory[s][p]]
      BY <2>1, RowsAreFunctions
    <3> QED
      BY <3>1, <3>2
  <2>3. {o} \subseteq {p \in Object : Memory[s][p] # Unbound}
    BY <2>1, BoundIsBound
  <2>4. Abstract!Write(s, {o}, new)
    BY <2>1, <2>2, <2>3 DEF Memory, Abstract!Write, Abstract!Bound
  <2>5. {o} \in SUBSET Object /\ new \in [{o} -> Value]
    OBVIOUS
  <2> QED
    BY <2>4, <2>5 DEF Abstract!Next
<1>7. ASSUME NEW s \in Space, NEW W \in SUBSET Bound(s), NEW new \in [W -> Value],
             NEW copy \in Writeable(s, W), Write(s, W, new, copy)
      PROVE  Abstract!Next
  <2>1. s \in live /\ live' = live /\ W \in SUBSET Object
    BY <1>7 DEF Write, Bound
  <2>2. W \subseteq {p \in Object : Memory[s][p] # Unbound}
    BY <2>1, BoundIsBound
  <2>3. Memory' = [Memory EXCEPT ![s] = [o \in Object |-> IF o \in W THEN new[o] ELSE @[o]]]
    BY <1>7, WriteRefines
  <2>4. Abstract!Write(s, W, new)
    BY <2>1, <2>2, <2>3 DEF Memory, Abstract!Write, Abstract!Bound
  <2> QED
    BY <2>1, <2>4 DEF Abstract!Next
<1> QED
  BY <1>1, <1>2, <1>3, <1>4, <1>5, <1>6, <1>7 DEF Next

(* Copy-on-write implements one private memory per state: whatever one state *)
(* does, no other state can tell.                                            *)
THEOREM Refinement == Spec => ImplementsPrivateMemory
  BY InitRefines, StepRefines, Invariance, PTL DEF Spec, ImplementsPrivateMemory, Abstract!Spec
=============================================================================
