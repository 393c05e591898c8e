-------------------------- MODULE ProcessTreeProofs --------------------------
(***************************************************************************)
(* For any number of nodes and states: the leaves of the tree are the      *)
(* allocated states, the random walk is safe, and forks keep identifiers   *)
(* apart.                                                                  *)
(***************************************************************************)
EXTENDS ProcessTree, TLAPS

(* The pointers of a node and of its children and parent agree. *)
Linked ==
  /\ nodes # {} => root \in nodes
  /\ \A n \in nodes :
       /\ n = root => parent[n] = Null
       /\ n # root => parent[n] \in nodes /\ n \in {left[parent[n]], right[parent[n]]}
       /\ left[n] # Null => left[n] \in nodes /\ parent[left[n]] = n
       /\ right[n] # Null => right[n] \in nodes /\ parent[right[n]] = n
       /\ left[n] # Null => left[n] # right[n]

(* What is allocated, and what is pending, in each phase. *)
PhaseInv ==
  /\ phase \in {"select", "walk"} => added = {} /\ removed = {}
  /\ phase = "update" => added = {}
  /\ phase = "execute" => current \in live \ added
  /\ phase = "remove" =>
       /\ cursor \in nodes /\ Childless(cursor)
       /\ doomed \in live \ (added \cup removed)
       /\ resume \in {"execute", "update"}
       /\ resume = "execute" => current \in live \ added /\ current # doomed
       /\ resume = "update" => added = {}

IInv ==
  /\ TypeOK
  /\ PhaseInv
  /\ Linked
  /\ EachStateHasItsLeaf
  /\ WalkIsSafe
  /\ IdsAreDistinct

LEMMA Apart == Null \notin Node /\ Null \notin State
BY ProcessTreeAssumption

-----------------------------------------------------------------------------
(* An identifier that is extended is a prefix of no more than it was. *)
LEMMA PrefixOfExtended ==
  ASSUME NEW x \in Seq({0, 1}), NEW y \in Seq({0, 1}), NEW b \in {0, 1},
         IsPrefixOf(x, Append(y, b))
  PROVE  IsPrefixOf(x, y) \/ IsPrefixOf(y, x)
<1>1. /\ Len(Append(y, b)) = Len(y) + 1 /\ Len(x) \in Nat /\ Len(y) \in Nat
      /\ \A i \in 1..Len(y) : Append(y, b)[i] = y[i]
  OBVIOUS
<1>2. Len(x) <= Len(y) + 1 /\ \A i \in 1..Len(x) : x[i] = Append(y, b)[i]
  BY <1>1 DEF IsPrefixOf
<1>3. CASE Len(x) <= Len(y)
  BY <1>1, <1>2, <1>3 DEF IsPrefixOf
<1>4. CASE Len(x) = Len(y) + 1
  BY <1>1, <1>2, <1>4 DEF IsPrefixOf
<1> QED
  BY <1>1, <1>2, <1>3, <1>4

LEMMA ExtendedIsPrefix ==
  ASSUME NEW x \in Seq({0, 1}), NEW y \in Seq({0, 1}), NEW b \in {0, 1},
         IsPrefixOf(Append(y, b), x)
  PROVE  IsPrefixOf(y, x)
<1>1. /\ Len(Append(y, b)) = Len(y) + 1 /\ Len(x) \in Nat /\ Len(y) \in Nat
      /\ \A i \in 1..Len(y) : Append(y, b)[i] = y[i]
  OBVIOUS
<1> QED
  BY <1>1 DEF IsPrefixOf

LEMMA ExtensionsDiffer ==
  ASSUME NEW y \in Seq({0, 1})
  PROVE  ~IsPrefixOf(Append(y, 0), Append(y, 1)) /\ ~IsPrefixOf(Append(y, 1), Append(y, 0))
<1>1. \A b \in {0, 1} : Len(Append(y, b)) = Len(y) + 1 /\ Append(y, b)[Len(y) + 1] = b
  OBVIOUS
<1>2. Len(y) \in Nat
  OBVIOUS
<1> QED
  BY <1>1, <1>2 DEF IsPrefixOf

-----------------------------------------------------------------------------
LEMMA InitIInv == Init => IInv
<1> SUFFICES ASSUME Init PROVE IInv
  OBVIOUS
<1>1. PICK n \in Node, s \in State :
        /\ nodes = {n} /\ root = n
        /\ parent = [m \in Node |-> Null]
        /\ left = [m \in Node |-> Null] /\ right = [m \in Node |-> Null]
        /\ data = [m \in Node |-> IF m = n THEN s ELSE Null]
        /\ live = {s} /\ added = {} /\ removed = {}
        /\ ptreeNode = [t \in State |-> IF t = s THEN n ELSE Null]
        /\ stateId = [t \in State |-> <<>>]
        /\ current = Null /\ phase = "select"
        /\ cursor = Null /\ doomed = Null /\ resume = "none"
  BY DEF Init
<1>2. reset \in BOOLEAN
  BY Zenon DEF Init
<1>3. TypeOK
  <2>1. stateId \in [State -> Seq({0, 1})]
    BY <1>1
  <2> QED
    BY <1>1, <1>2, <2>1 DEF TypeOK
<1>4. PhaseInv /\ Linked
  BY <1>1 DEF PhaseInv, Linked
<1>5. EachStateHasItsLeaf
  BY <1>1, Apart DEF EachStateHasItsLeaf, Dying, Leaving, Childless
<1>6. WalkIsSafe
  BY <1>1, Apart DEF WalkIsSafe
<1>7. IdsAreDistinct
  BY <1>1 DEF IdsAreDistinct
<1> QED
  BY <1>3, <1>4, <1>5, <1>6, <1>7 DEF IInv

-----------------------------------------------------------------------------
(* A leaf becomes a node with two leaves, one for its state and one for the *)
(* new state.                                                               *)
LEMMA SplitKeepsTree ==
  ASSUME IInv, phase = "execute", phase' = "execute",
         NEW s \in live, NEW t \in State \ live, NEW a \in Node \ nodes, NEW b \in Node \ nodes,
         a # b, NEW l, NEW r, (l = s /\ r = t) \/ (l = t /\ r = s),
         Split(ptreeNode[s], a, b, l, r),
         live' = live \cup {t}
  PROVE  /\ nodes' \subseteq Node /\ root' \in Node
         /\ parent' \in [Node -> Node \cup {Null}]
         /\ left' \in [Node -> Node \cup {Null}] /\ right' \in [Node -> Node \cup {Null}]
         /\ data' \in [Node -> State \cup {Null}]
         /\ ptreeNode' \in [State -> Node \cup {Null}]
         /\ Linked' /\ EachStateHasItsLeaf' /\ WalkIsSafe'
<1> DEFINE n == ptreeNode[s]
<1>1. /\ nodes \subseteq Node /\ root \in Node
      /\ parent \in [Node -> Node \cup {Null}]
      /\ left \in [Node -> Node \cup {Null}] /\ right \in [Node -> Node \cup {Null}]
      /\ data \in [Node -> State \cup {Null}]
      /\ ptreeNode \in [State -> Node \cup {Null}]
      /\ live \subseteq State /\ s \in State /\ l \in State /\ r \in State /\ l # r
      /\ {l, r} = {s, t}
  BY DEF IInv, TypeOK
<1>2. Dying = {} /\ Leaving = {} /\ Dying' = {} /\ Leaving' = {}
  BY DEF Dying, Leaving
<1>3. n \in nodes /\ data[n] = s /\ left[n] = Null /\ right[n] = Null
  BY <1>2 DEF IInv, EachStateHasItsLeaf, Childless
<1>4. n # a /\ n # b /\ a # Null /\ b # Null /\ n # Null /\ l # Null /\ r # Null
  BY <1>1, <1>3, Apart
<1> HIDE DEF n
<1>5. /\ nodes' = nodes \cup {a, b} /\ root' = root
      /\ parent' = [parent EXCEPT ![a] = n, ![b] = n]
      /\ left' = [left EXCEPT ![n] = a, ![a] = Null, ![b] = Null]
      /\ right' = [right EXCEPT ![n] = b, ![a] = Null, ![b] = Null]
      /\ data' = [data EXCEPT ![n] = Null, ![a] = l, ![b] = r]
      /\ ptreeNode' = [ptreeNode EXCEPT ![l] = a, ![r] = b]
  BY DEF Split, n
<1>6. /\ nodes' \subseteq Node /\ root' \in Node
      /\ parent' \in [Node -> Node \cup {Null}]
      /\ left' \in [Node -> Node \cup {Null}] /\ right' \in [Node -> Node \cup {Null}]
      /\ data' \in [Node -> State \cup {Null}]
      /\ ptreeNode' \in [State -> Node \cup {Null}]
  BY <1>1, <1>3, <1>4, <1>5
<1>7. /\ parent'[a] = n /\ parent'[b] = n
      /\ left'[n] = a /\ left'[a] = Null /\ left'[b] = Null
      /\ right'[n] = b /\ right'[a] = Null /\ right'[b] = Null
      /\ data'[n] = Null /\ data'[a] = l /\ data'[b] = r
      /\ ptreeNode'[l] = a /\ ptreeNode'[r] = b
  BY <1>1, <1>3, <1>4, <1>5
<1>8. \A m \in nodes :
        /\ m # a /\ m # b /\ parent'[m] = parent[m]
        /\ m # n => left'[m] = left[m] /\ right'[m] = right[m] /\ data'[m] = data[m]
  BY <1>1, <1>3, <1>4, <1>5
<1>9. \A u \in live : u # s => ptreeNode'[u] = ptreeNode[u] /\ ptreeNode[u] # n
  BY <1>1, <1>2, <1>3, <1>5 DEF IInv, EachStateHasItsLeaf
<1>13. nodes' = nodes \cup {a, b} /\ root' = root
  BY <1>5
<1>10. Linked'
  <2>1. root \in nodes
    BY <1>3 DEF IInv, Linked
  <2>2. ASSUME NEW m \in nodes
        PROVE  /\ m = root => parent'[m] = Null
               /\ m # root => parent'[m] \in nodes' /\ m \in {left'[parent'[m]], right'[parent'[m]]}
               /\ left'[m] # Null => left'[m] \in nodes' /\ parent'[left'[m]] = m
               /\ right'[m] # Null => right'[m] \in nodes' /\ parent'[right'[m]] = m
               /\ left'[m] # Null => left'[m] # right'[m]
    <3>1. /\ m = root => parent[m] = Null
          /\ m # root => parent[m] \in nodes /\ m \in {left[parent[m]], right[parent[m]]}
          /\ left[m] # Null => left[m] \in nodes /\ parent[left[m]] = m
          /\ right[m] # Null => right[m] \in nodes /\ parent[right[m]] = m
          /\ left[m] # Null => left[m] # right[m]
      BY DEF IInv, Linked
    <3>2. m # root => parent[m] # n
      BY <1>1, <1>3, <3>1, Apart
    <3>3. CASE m = n
      <4>1. parent'[n] = parent[n] /\ left'[n] = a /\ right'[n] = b
        BY <1>3, <1>7, <1>8
      <4>2. n # root => /\ parent[n] \in nodes /\ parent[n] # n
                        /\ left'[parent[n]] = left[parent[n]]
                        /\ right'[parent[n]] = right[parent[n]]
        BY <1>8, <3>1, <3>2, <3>3
      <4> QED
        BY <1>3, <1>4, <1>13, <1>7, <3>1, <3>3, <4>1, <4>2
    <3>4. CASE m # n
      BY <1>13, <1>8, <3>1, <3>2, <3>4
    <3> QED
      BY <3>3, <3>4
  <2>3. a # root /\ b # root
    BY <2>1
  <2> QED
    BY <1>3, <1>4, <1>13, <1>7, <2>1, <2>2, <2>3 DEF Linked
<1>11. EachStateHasItsLeaf'
  <2>1. ASSUME NEW u \in live'
        PROVE  /\ ptreeNode'[u] \in nodes' /\ data'[ptreeNode'[u]] = u
               /\ left'[ptreeNode'[u]] = Null /\ right'[ptreeNode'[u]] = Null
    <3>1. CASE u = l \/ u = r
      BY <1>13, <1>7, <3>1
    <3>2. CASE u # l /\ u # r
      <4>1. u \in live /\ u # s
        BY <1>1, <3>2
      <4>2. /\ ptreeNode[u] \in nodes /\ data[ptreeNode[u]] = u
            /\ left[ptreeNode[u]] = Null /\ right[ptreeNode[u]] = Null
        BY <1>2, <4>1 DEF IInv, EachStateHasItsLeaf, Childless
      <4> QED
        BY <1>13, <1>8, <1>9, <4>1, <4>2
    <3> QED
      BY <3>1, <3>2
  <2>2. ASSUME NEW m \in nodes'
        PROVE  /\ left'[m] = Null /\ right'[m] = Null => data'[m] \in live' /\ ptreeNode'[data'[m]] = m
               /\ ~(left'[m] = Null /\ right'[m] = Null) => data'[m] = Null
    <3>1. CASE m \in {a, b, n}
      BY <1>1, <1>4, <1>7, <3>1
    <3>2. CASE m \notin {a, b, n}
      <4>1. m \in nodes /\ m # n
        BY <1>13, <3>2
      <4>2. /\ left[m] = Null /\ right[m] = Null => data[m] \in live /\ ptreeNode[data[m]] = m
            /\ ~(left[m] = Null /\ right[m] = Null) => data[m] = Null
        BY <1>2, <4>1 DEF IInv, EachStateHasItsLeaf, Childless
      <4>3. data[m] \in live /\ ptreeNode[data[m]] = m => data[m] # s
        BY <4>1 DEF n
      <4> QED
        BY <1>8, <1>9, <4>1, <4>2, <4>3
    <3> QED
      BY <3>1, <3>2
  <2> QED
    BY <1>2, <2>1, <2>2 DEF EachStateHasItsLeaf, Childless
<1>12. WalkIsSafe'
  <2>1. ASSUME NEW S \in SUBSET nodes', root' \in S, ClosedBelow(S)'
        PROVE  S = nodes'
    <3> DEFINE T == S \cap nodes
    <3>1. root \in T
      BY <1>3, <1>13, <2>1 DEF IInv, Linked
    <3>2. \A m \in S : {left'[m], right'[m]} \subseteq S \cup {Null}
      BY <2>1 DEF ClosedBelow
    <3>3. ASSUME NEW m \in T PROVE {left[m], right[m]} \subseteq T \cup {Null}
      <4>1. left[m] # Null => left[m] \in nodes
        BY DEF IInv, Linked
      <4>2. right[m] # Null => right[m] \in nodes
        BY DEF IInv, Linked
      <4> QED
        BY <1>3, <1>8, <3>2, <4>1, <4>2
    <3>4. T = nodes
      BY <3>1, <3>3 DEF IInv, WalkIsSafe, ClosedBelow
    <3>5. a \in S /\ b \in S
      BY <1>3, <1>4, <1>7, <3>2, <3>4
    <3> QED
      BY <1>13, <2>1, <3>4, <3>5
  <2>2. ASSUME NEW S \in SUBSET nodes', S # {}
        PROVE  \E m \in S : {left'[m], right'[m]} \cap S = {}
    <3>0. Null \notin S
      BY <1>6, Apart
    <3>1. CASE a \in S
      BY <1>7, <3>0, <3>1
    <3>2. CASE b \in S
      BY <1>7, <3>0, <3>2
    <3>3. CASE a \notin S /\ b \notin S
      <4>1. S \in SUBSET nodes
        BY <1>13, <3>3
      <4>2. PICK m \in S : {left[m], right[m]} \cap S = {}
        BY <2>2, <4>1 DEF IInv, WalkIsSafe
      <4>3. CASE m = n
        BY <1>7, <3>3, <4>3
      <4>4. CASE m # n
        BY <1>8, <4>1, <4>2, <4>4
      <4> QED
        BY <4>3, <4>4
    <3> QED
      BY <3>1, <3>2, <3>3
  <2> QED
    BY <2>1, <2>2 DEF WalkIsSafe
<1> QED
  BY <1>6, <1>10, <1>11, <1>12

-----------------------------------------------------------------------------
(* Whoever forks, the copy is one more allocated state. *)
LEMMA ForkingIInv ==
  ASSUME IInv, phase = "execute",
         NEW s \in Executing, NEW t, NEW a, NEW b, Unused(t, a, b),
         NEW l, NEW r, (l = s /\ r = t) \/ (l = t /\ r = s),
         Split(ptreeNode[s], a, b, l, r),
         live' = live \cup {t}, added' = added \cup {t},
         stateId' \in [State -> Seq({0, 1})], IdsAreDistinct', reset' \in BOOLEAN,
         UNCHANGED <<removed, current, phase, removal>>
  PROVE  IInv'
<1>1. /\ s \in live /\ t \in State \ live
      /\ a \in Node \ nodes /\ b \in Node \ nodes /\ a # b
  BY DEF IInv, TypeOK, PhaseInv, Executing, Unused
<1>2. /\ nodes' \subseteq Node /\ root' \in Node
      /\ parent' \in [Node -> Node \cup {Null}]
      /\ left' \in [Node -> Node \cup {Null}] /\ right' \in [Node -> Node \cup {Null}]
      /\ data' \in [Node -> State \cup {Null}]
      /\ ptreeNode' \in [State -> Node \cup {Null}]
      /\ Linked' /\ EachStateHasItsLeaf' /\ WalkIsSafe'
  BY <1>1, SplitKeepsTree
<1>3. /\ live' \subseteq State /\ added' \subseteq live' /\ removed' \subseteq live'
      /\ added' \cap removed' = {}
      /\ current' \in State \cup {Null} /\ cursor' \in Node \cup {Null}
      /\ doomed' \in State \cup {Null} /\ phase' = "execute"
      /\ resume' \in {"none", "execute", "update"}
  BY <1>1 DEF IInv, TypeOK, removal
<1>4. TypeOK'
  BY <1>2, <1>3, Zenon DEF TypeOK
<1>5. PhaseInv'
  BY <1>1, <1>3 DEF IInv, PhaseInv
<1> QED
  BY <1>2, <1>4, <1>5 DEF IInv

(* The identifiers of both sides of a fork extend that of the state. *)
LEMMA ForkIds ==
  ASSUME IInv, NEW s \in live, NEW t \in State \ live,
         live' = live \cup {t}, stateId' = ForkedIds(s, t, s, t)
  PROVE  stateId' \in [State -> Seq({0, 1})] /\ (reset' = reset => IdsAreDistinct')
<1>1. s \in State /\ t \in State /\ s # t /\ stateId \in [State -> Seq({0, 1})]
      /\ live \subseteq State
  BY DEF IInv, TypeOK
<1>2. stateId' = [stateId EXCEPT ![t] = Append(stateId[s], 0), ![s] = Append(stateId[s], 1)]
  BY <1>1 DEF ForkedIds
<1>3. Append(stateId[s], 0) \in Seq({0, 1}) /\ Append(stateId[s], 1) \in Seq({0, 1})
  BY <1>1
<1>4. /\ stateId' \in [State -> Seq({0, 1})]
      /\ stateId'[t] = Append(stateId[s], 0) /\ stateId'[s] = Append(stateId[s], 1)
      /\ \A u \in live : u # s => stateId'[u] = stateId[u]
  BY <1>1, <1>2, <1>3
<1>5. ASSUME ~reset, NEW u \in live', NEW v \in live', u # v,
             IsPrefixOf(stateId'[u], stateId'[v])
      PROVE  FALSE
  <2>1. \A x, y \in live : x # y => ~IsPrefixOf(stateId[x], stateId[y])
    BY <1>5 DEF IInv, IdsAreDistinct
  <2>2. \A x \in live' : x = s \/ x = t \/ (x \in live /\ x # s)
    OBVIOUS
  <2>3. CASE u \in {s, t} /\ v \in {s, t}
    <3>1. /\ ~IsPrefixOf(Append(stateId[s], 0), Append(stateId[s], 1))
          /\ ~IsPrefixOf(Append(stateId[s], 1), Append(stateId[s], 0))
      BY <1>1, ExtensionsDiffer
    <3>2. CASE u = s /\ v = t
      BY <1>4, <1>5, <3>1, <3>2
    <3>3. CASE u = t /\ v = s
      BY <1>4, <1>5, <3>1, <3>3
    <3> QED
      BY <1>5, <2>3, <3>2, <3>3
  <2>4. CASE u \in {s, t} /\ v \in live /\ v # s
    <3>1. PICK b \in {0, 1} : stateId'[u] = Append(stateId[s], b)
      BY <1>4, <2>4
    <3>2. IsPrefixOf(Append(stateId[s], b), stateId[v])
      BY <1>4, <1>5, <2>4, <3>1
    <3>3. stateId[v] \in Seq({0, 1}) /\ stateId[s] \in Seq({0, 1})
      BY <1>1, <2>4
    <3> QED
      BY <2>1, <2>4, <3>2, <3>3, ExtendedIsPrefix
  <2>5. CASE v \in {s, t} /\ u \in live /\ u # s
    <3>1. PICK b \in {0, 1} : stateId'[v] = Append(stateId[s], b)
      BY <1>4, <2>5
    <3>2. IsPrefixOf(stateId[u], Append(stateId[s], b))
      BY <1>4, <1>5, <2>5, <3>1
    <3>3. stateId[u] \in Seq({0, 1}) /\ stateId[s] \in Seq({0, 1})
      BY <1>1, <2>5
    <3>4. IsPrefixOf(stateId[u], stateId[s]) \/ IsPrefixOf(stateId[s], stateId[u])
      BY <3>2, <3>3, PrefixOfExtended
    <3> QED
      BY <2>1, <2>5, <3>4
  <2>6. CASE u \in live /\ u # s /\ v \in live /\ v # s
    BY <1>4, <1>5, <2>1, <2>6
  <2> QED
    BY <2>2, <2>3, <2>4, <2>5, <2>6
<1> QED
  BY <1>4, <1>5 DEF IdsAreDistinct

LEMMA ForkIInv ==
  ASSUME IInv, NEW s \in Executing, NEW t, NEW a, NEW b, Fork(s, t, a, b)
  PROVE  IInv'
<1>1. /\ phase = "execute" /\ Unused(t, a, b)
      /\ live' = live \cup {t} /\ added' = added \cup {t}
      /\ UNCHANGED <<removed, current, phase, removal>>
  BY DEF Fork
<1>2. s \in live /\ t \in State \ live /\ stateId \in [State -> Seq({0, 1})] /\ live \subseteq State
  BY <1>1 DEF IInv, TypeOK, PhaseInv, Executing, Unused
<1>3. CASE Split(ptreeNode[s], a, b, t, s) /\ stateId' = ForkedIds(s, t, s, t) /\ UNCHANGED reset
  <2>1. stateId' \in [State -> Seq({0, 1})] /\ IdsAreDistinct'
    BY <1>1, <1>2, <1>3, ForkIds
  <2>2. reset' \in BOOLEAN
    BY <1>3, Zenon DEF IInv, TypeOK
  <2> QED
    BY <1>1, <1>3, <2>1, <2>2, ForkingIInv
<1>4. CASE Split(ptreeNode[s], a, b, s, t) /\ stateId' = ForkedIds(s, s, t, t) /\ reset' = TRUE
  <2>1. /\ Append(stateId[s], 0) \in Seq({0, 1}) /\ Append(<<>>, 1) \in Seq({0, 1})
        /\ stateId' = [stateId EXCEPT ![s] = Append(stateId[s], 0), ![t] = Append(<<>>, 1)]
    BY <1>2, <1>4 DEF ForkedIds
  <2>2. stateId' \in [State -> Seq({0, 1})]
    BY <1>2, <2>1
  <2>3. IdsAreDistinct'
    BY <1>4 DEF IdsAreDistinct
  <2>4. reset' \in BOOLEAN
    BY <1>4, Zenon
  <2> QED
    BY <1>1, <1>4, <2>2, <2>3, <2>4, ForkingIInv
<1> QED
  BY <1>3, <1>4 DEF Fork

LEMMA BranchIInv ==
  ASSUME IInv, NEW es \in Executing, NEW ns, NEW a, NEW b, Branch(es, ns, a, b)
  PROVE  IInv'
<1>1. /\ phase = "execute" /\ Unused(ns, a, b)
      /\ live' = live \cup {ns} /\ added' = added \cup {ns}
      /\ Split(ptreeNode[es], a, b, ns, es)
      /\ stateId' = [stateId EXCEPT ![ns] = <<>>] /\ reset' = TRUE
      /\ UNCHANGED <<removed, current, phase, removal>>
  BY Zenon DEF Branch
<1>2. stateId' \in [State -> Seq({0, 1})]
  <2>1. stateId \in [State -> Seq({0, 1})] /\ <<>> \in Seq({0, 1})
    BY DEF IInv, TypeOK
  <2> QED
    BY <1>1, <2>1
<1>3. IdsAreDistinct'
  BY <1>1 DEF IdsAreDistinct
<1>4. reset' \in BOOLEAN
  BY <1>1, Zenon
<1> QED
  BY <1>1, <1>2, <1>3, <1>4, ForkingIInv

-----------------------------------------------------------------------------
(* Steps that leave the tree, the states and the pointers between them alone. *)
LEMMA TreeAlone ==
  ASSUME IInv, UNCHANGED <<tree, live, ptreeNode, stateId, reset>>,
         Dying' = Dying, Leaving' = Leaving, phase' = "walk" => cursor' \in nodes,
         added' \subseteq live, removed' \subseteq live, added' \cap removed' = {},
         current' \in State \cup {Null},
         phase' \in {"select", "walk", "execute", "update", "remove"},
         cursor' \in Node \cup {Null} /\ doomed' \in State \cup {Null},
         resume' \in {"none", "execute", "update"},
         PhaseInv'
  PROVE  IInv'
<1>1. UNCHANGED <<nodes, root, parent, left, right, data, live, ptreeNode, stateId, reset>>
  BY DEF tree
<1>2. TypeOK'
  BY <1>1, Zenon DEF IInv, TypeOK
<1>3. Linked' /\ IdsAreDistinct'
  BY <1>1 DEF IInv, Linked, IdsAreDistinct
<1>4. EachStateHasItsLeaf'
  BY <1>1 DEF IInv, EachStateHasItsLeaf, Childless
<1>5. WalkIsSafe'
  BY <1>1 DEF IInv, WalkIsSafe, ClosedBelow
<1> QED
  BY <1>2, <1>3, <1>4, <1>5 DEF IInv

LEMMA SelectionIInv ==
  ASSUME IInv, SelectByPath \/ Descend \/ Arrive \/ SelectOther
  PROVE  IInv'
<1>1. UNCHANGED <<tree, live, added, removed, ptreeNode, stateId, reset, doomed, resume>>
  BY DEF SelectByPath, Descend, Arrive, SelectOther, worklists, removal
<1>2. phase \in {"select", "walk"} /\ phase' \in {"walk", "execute"}
  BY DEF SelectByPath, Descend, Arrive, SelectOther
<1>3. Dying = {} /\ Leaving = {} /\ Dying' = {} /\ Leaving' = {}
  BY <1>2 DEF Dying, Leaving
<1>4. added = {} /\ removed = {} /\ nodes \subseteq Node /\ live \subseteq State
  BY <1>2 DEF IInv, PhaseInv, TypeOK
<1>5. /\ phase' = "walk" => cursor' \in nodes
      /\ phase' = "execute" => current' \in live
      /\ cursor' \in Node \cup {Null} /\ current' \in State \cup {Null}
  <2>1. CASE SelectByPath
    <3>1. nodes # {}
      BY <1>3, <2>1 DEF SelectByPath, IInv, EachStateHasItsLeaf
    <3>2. phase' = "walk" /\ cursor' = root /\ current' = current
      BY <2>1 DEF SelectByPath
    <3> QED
      BY <3>1, <3>2 DEF IInv, Linked, TypeOK
  <2>2. CASE Descend
    <3>1. phase' = "walk" /\ current' = current /\ cursor \in nodes
      BY <2>2 DEF Descend, IInv, WalkIsSafe
    <3>2. cursor' \in nodes
      BY <2>2, <3>1 DEF Descend, IInv, Linked
    <3> QED
      BY <1>4, <3>1, <3>2 DEF IInv, TypeOK
  <2>3. CASE Arrive
    <3>1. /\ phase' = "execute" /\ cursor' = Null /\ current' = data[cursor]
          /\ cursor \in nodes /\ data[cursor] # Null
      BY <2>3 DEF Arrive, IInv, WalkIsSafe
    <3>2. data[cursor] \in live
      BY <1>3, <3>1 DEF IInv, EachStateHasItsLeaf
    <3> QED
      BY <1>4, <3>1, <3>2
  <2>4. CASE SelectOther
    BY <1>4, <2>4 DEF SelectOther, removal, IInv, TypeOK
  <2> QED
    BY <2>1, <2>2, <2>3, <2>4
<1>6. PhaseInv'
  BY <1>1, <1>2, <1>4, <1>5 DEF PhaseInv
<1> QED
  BY <1>1, <1>2, <1>3, <1>4, <1>5, <1>6, TreeAlone DEF IInv, TypeOK

LEMMA WorklistsIInv ==
  ASSUME IInv, (\E s \in live : Terminate(s)) \/ Update \/ Updated
  PROVE  IInv'
<1>1. UNCHANGED <<tree, live, ptreeNode, stateId, reset, cursor, doomed, resume>>
  BY DEF Terminate, Update, Updated, worklists, removal
<1>2. phase \in {"execute", "update"} /\ phase' \in {"execute", "update", "select"}
  BY DEF Terminate, Update, Updated
<1>3. Dying = {} /\ Leaving = {} /\ Dying' = {} /\ Leaving' = {}
  BY <1>2 DEF Dying, Leaving
<1>4. /\ added \subseteq live /\ removed \subseteq live /\ added \cap removed = {}
      /\ current \in State \cup {Null}
      /\ phase = "update" => added = {}
      /\ phase = "execute" => current \in live \ added
      /\ cursor \in Node \cup {Null} /\ doomed \in State \cup {Null}
      /\ resume \in {"none", "execute", "update"}
  BY DEF IInv, TypeOK, PhaseInv
<1>5. /\ added' \subseteq live /\ removed' \subseteq live /\ added' \cap removed' = {}
      /\ current' \in State \cup {Null}
      /\ phase' = "select" => added' = {} /\ removed' = {}
      /\ phase' = "update" => added' = {}
      /\ phase' = "execute" => current' \in live \ added'
  <2>1. CASE \E s \in live : Terminate(s)
    BY <1>4, <2>1 DEF Terminate
  <2>2. CASE Update
    BY <1>4, <2>2 DEF Update
  <2>3. CASE Updated
    BY <1>4, <2>3 DEF Updated, worklists
  <2> QED
    BY <2>1, <2>2, <2>3
<1>6. PhaseInv'
  BY <1>1, <1>2, <1>5 DEF PhaseInv
<1> QED
  BY <1>1, <1>2, <1>3, <1>4, <1>5, <1>6, TreeAlone

-----------------------------------------------------------------------------
(* A removal begins at the leaf of the state. *)
LEMMA RemovalIInv ==
  ASSUME IInv, \E s \in live : TerminateAdded(s) \/ UpdateRemoves(s)
  PROVE  IInv'
<1>1. PICK s \in live : TerminateAdded(s) \/ UpdateRemoves(s)
  OBVIOUS
<1>2. /\ UNCHANGED <<nodes, root, parent, left, right, data, live, ptreeNode, stateId, current, reset>>
      /\ phase' = "remove" /\ cursor' = ptreeNode[s] /\ doomed' = s
      /\ phase \in {"execute", "update"}
  BY <1>1 DEF TerminateAdded, UpdateRemoves, StartRemoval, tree
<1>3. Dying = {} /\ Leaving = {} /\ Dying' = {s} /\ Leaving' = {ptreeNode[s]}
  BY <1>2 DEF Dying, Leaving
<1>4. /\ added \subseteq live /\ removed \subseteq live /\ added \cap removed = {}
      /\ live \subseteq State /\ nodes \subseteq Node
      /\ phase = "update" => added = {}
      /\ phase = "execute" => current \in live \ added
  BY DEF IInv, TypeOK, PhaseInv
<1>5. /\ added' \subseteq live /\ removed' \subseteq live /\ added' \cap removed' = {}
      /\ s \in live \ (added' \cup removed')
      /\ resume' \in {"execute", "update"}
      /\ resume' = "execute" => current' \in live \ added' /\ current' # s
      /\ resume' = "update" => added' = {}
  BY <1>1, <1>2, <1>4 DEF TerminateAdded, UpdateRemoves, StartRemoval
<1>6. ptreeNode[s] \in nodes /\ data[ptreeNode[s]] = s /\ Childless(ptreeNode[s])
  BY <1>3 DEF IInv, EachStateHasItsLeaf
<1>7. Childless(ptreeNode[s])'
  BY <1>2, <1>6 DEF Childless
<1>8. PhaseInv'
  BY <1>2, <1>5, <1>6, <1>7 DEF PhaseInv, Childless
<1>9. /\ TypeOK' /\ Linked' /\ IdsAreDistinct'
  <2>1. /\ cursor' \in Node \cup {Null} /\ doomed' \in State \cup {Null}
        /\ resume' \in {"none", "execute", "update"}
        /\ phase' \in {"select", "walk", "execute", "update", "remove"}
        /\ added' \subseteq live' /\ removed' \subseteq live' /\ added' \cap removed' = {}
    BY <1>2, <1>4, <1>5, <1>6
  <2>2. TypeOK'
    BY <1>2, <2>1, Zenon DEF IInv, TypeOK
  <2> QED
    BY <1>2, <2>2 DEF IInv, Linked, IdsAreDistinct
<1>10. EachStateHasItsLeaf'
  <2>1. \A u \in live \ {s} : ptreeNode[u] # ptreeNode[s]
    BY <1>3, <1>6 DEF IInv, EachStateHasItsLeaf
  <2>2. \A n \in nodes \ {ptreeNode[s]} : ptreeNode[data[n]] = n => data[n] # s
    OBVIOUS
  <2> QED
    BY <1>2, <1>3, <2>1, <2>2 DEF IInv, EachStateHasItsLeaf, Childless
<1>11. WalkIsSafe'
  BY <1>2 DEF IInv, WalkIsSafe, ClosedBelow
<1> QED
  BY <1>8, <1>9, <1>10, <1>11 DEF IInv

(* One turn of the loop of remove: the node goes, and its parent too if it *)
(* has nothing left.                                                       *)
LEMMA RemoveNodeIInv ==
  ASSUME IInv, RemoveNode
  PROVE  IInv'
<1> DEFINE n == cursor
           p == parent[cursor]
<1>1. /\ phase = "remove" /\ nodes' = nodes \ {n} /\ Unlink(n, p)
      /\ UNCHANGED <<root, parent, data, added, removed, ptreeNode, stateId, current, reset>>
  BY DEF RemoveNode
<1>2. \/ /\ RemoveGoesOn(p)
         /\ cursor' = p /\ UNCHANGED <<live, phase, doomed, resume>>
      \/ /\ ~RemoveGoesOn(p)
         /\ live' = live \ {doomed} /\ phase' = resume
         /\ cursor' = Null /\ doomed' = Null /\ resume' = "none"
  BY DEF RemoveNode
<1>3. /\ n \in nodes /\ left[n] = Null /\ right[n] = Null
      /\ doomed \in live \ (added \cup removed)
      /\ resume \in {"execute", "update"}
      /\ resume = "execute" => current \in live \ added /\ current # doomed
      /\ resume = "update" => added = {}
  BY <1>1 DEF IInv, PhaseInv, Childless
<1>4. /\ nodes \subseteq Node /\ root \in Node
      /\ parent \in [Node -> Node \cup {Null}]
      /\ left \in [Node -> Node \cup {Null}] /\ right \in [Node -> Node \cup {Null}]
      /\ live \subseteq State
      /\ added \subseteq live /\ removed \subseteq live /\ added \cap removed = {}
  BY DEF IInv, TypeOK
<1>5. \A m \in nodes :
        /\ m = root => parent[m] = Null
        /\ m # root => parent[m] \in nodes /\ m \in {left[parent[m]], right[parent[m]]}
        /\ left[m] # Null => left[m] \in nodes /\ parent[left[m]] = m
        /\ right[m] # Null => right[m] \in nodes /\ parent[right[m]] = m
        /\ left[m] # Null => left[m] # right[m]
  BY DEF IInv, Linked
<1>6. Null \notin nodes
  BY <1>4, Apart
<1>7. /\ Dying = {doomed} /\ Leaving = {n}
      /\ \A s \in live \ {doomed} :
           /\ ptreeNode[s] \in nodes \ {n} /\ data[ptreeNode[s]] = s
           /\ left[ptreeNode[s]] = Null /\ right[ptreeNode[s]] = Null
      /\ \A m \in nodes \ {n} :
           /\ left[m] = Null /\ right[m] = Null =>
                data[m] \in live \ {doomed} /\ ptreeNode[data[m]] = m
           /\ ~(left[m] = Null /\ right[m] = Null) => data[m] = Null
  BY <1>1 DEF IInv, EachStateHasItsLeaf, Dying, Leaving, Childless
<1>8. p = Null => nodes = {n}
  <2>1. SUFFICES ASSUME p = Null PROVE nodes = {n}
    OBVIOUS
  <2>2. n = root
    BY <1>3, <1>5, <1>6, <2>1
  <2>3. ClosedBelow({n})
    BY <1>3 DEF ClosedBelow
  <2>4. {n} \in SUBSET nodes /\ root \in {n}
    BY <1>3, <2>2
  <2> QED
    BY <2>3, <2>4 DEF IInv, WalkIsSafe
<1>9. p # Null => /\ p \in nodes /\ p # n /\ n \in {left[p], right[p]} /\ n # root
  BY <1>3, <1>5, <1>6
<1> HIDE DEF n, p
<1>10. /\ left' \in [Node -> Node \cup {Null}] /\ right' \in [Node -> Node \cup {Null}]
       /\ \A m \in nodes : m # p => left'[m] = left[m] /\ right'[m] = right[m]
       /\ p # Null =>
            /\ left'[p] = (IF n = left[p] THEN Null ELSE left[p])
            /\ right'[p] = (IF n = left[p] THEN right[p] ELSE Null)
  <2>1. CASE p = Null
    BY <1>1, <1>4, <2>1 DEF Unlink
  <2>2. CASE p # Null /\ n = left[p]
    BY <1>1, <1>4, <1>9, <2>2 DEF Unlink
  <2>3. CASE p # Null /\ n # left[p]
    BY <1>1, <1>4, <1>9, <2>3 DEF Unlink
  <2> QED
    BY <2>1, <2>2, <2>3
<1>11. \A m \in nodes :
         /\ left'[m] = (IF left[m] = n THEN Null ELSE left[m])
         /\ right'[m] = (IF right[m] = n THEN Null ELSE right[m])
  <2> TAKE m \in nodes
  <2>1. CASE m # p
    <3>1. left[m] # n /\ right[m] # n
      BY <1>3, <1>5, <1>6, <2>1 DEF n, p
    <3> QED
      BY <1>10, <2>1, <3>1
  <2>2. CASE m = p
    <3>1. p # Null
      BY <1>6, <2>2
    <3>2. CASE n = left[p]
      <4>1. right[p] # n
        BY <1>5, <1>6, <1>3, <2>2, <3>2
      <4> QED
        BY <1>10, <2>2, <3>1, <3>2, <4>1
    <3>3. CASE n # left[p]
      <4>1. right[p] = n
        BY <1>9, <3>1, <3>3
      <4> QED
        BY <1>10, <2>2, <3>1, <3>3, <4>1
    <3> QED
      BY <3>2, <3>3
  <2> QED
    BY <2>1, <2>2
<1>12. Linked'
  <2>1. nodes' # {} => root' \in nodes'
    <3>1. CASE p = Null
      BY <1>1, <1>8, <3>1
    <3>2. CASE p # Null
      BY <1>1, <1>3, <1>9, <3>2 DEF IInv, Linked
    <3> QED
      BY <3>1, <3>2
  <2>2. ASSUME NEW m \in nodes'
        PROVE  /\ m = root => parent[m] = Null
               /\ m # root => parent[m] \in nodes' /\ m \in {left'[parent[m]], right'[parent[m]]}
               /\ left'[m] # Null => left'[m] \in nodes' /\ parent[left'[m]] = m
               /\ right'[m] # Null => right'[m] \in nodes' /\ parent[right'[m]] = m
               /\ left'[m] # Null => left'[m] # right'[m]
    <3>1. m \in nodes /\ m # n
      BY <1>1
    <3>2. m # root => parent[m] # n
      BY <1>3, <1>5, <1>6, <3>1
    <3>3. m # root => parent[m] \in nodes' /\ m \in {left'[parent[m]], right'[parent[m]]}
      BY <1>1, <1>5, <1>11, <3>1, <3>2
    <3> QED
      BY <1>1, <1>5, <1>11, <3>1, <3>3
  <2> QED
    BY <1>1, <2>1, <2>2 DEF Linked
<1>13. WalkIsSafe'
  <2>1. phase' # "walk"
    BY <1>1, <1>2, <1>3
  <2>2. ASSUME NEW S \in SUBSET nodes', root' \in S, ClosedBelow(S)'
        PROVE  S = nodes'
    <3> DEFINE T == S \cup {n}
    <3>1. \A m \in S : {left'[m], right'[m]} \subseteq S \cup {Null}
      BY <2>2 DEF ClosedBelow
    <3>2. \A m \in T : {left[m], right[m]} \subseteq T \cup {Null}
      BY <1>1, <1>3, <1>11, <3>1
    <3>3. T \in SUBSET nodes /\ root \in T
      BY <1>1, <1>3, <2>2
    <3>4. T = nodes
      BY <3>2, <3>3 DEF IInv, WalkIsSafe, ClosedBelow
    <3> QED
      BY <1>1, <3>4
  <2>3. ASSUME NEW S \in SUBSET nodes', S # {}
        PROVE  \E m \in S : {left'[m], right'[m]} \cap S = {}
    <3>1. S \in SUBSET nodes /\ Null \notin S
      BY <1>1, <1>6
    <3>2. PICK m \in S : {left[m], right[m]} \cap S = {}
      BY <2>3, <3>1 DEF IInv, WalkIsSafe
    <3> QED
      BY <1>11, <3>1, <3>2
  <2> QED
    BY <2>1, <2>2, <2>3 DEF WalkIsSafe
<1>14. RemoveGoesOn(p) <=> p # Null /\ left'[p] = Null /\ right'[p] = Null
  BY DEF RemoveGoesOn
<1>15. \A m \in nodes \ {n, p} : left'[m] = left[m] /\ right'[m] = right[m]
  BY <1>10
<1>16. \A s \in live \ {doomed} : ptreeNode[s] # p
  BY <1>3, <1>6, <1>7, <1>9
<1>17. p # Null => data[p] = Null
  BY <1>3, <1>6, <1>7, <1>9
<1>18. CASE RemoveGoesOn(p)
  <2>1. /\ phase' = "remove" /\ cursor' = p /\ doomed' = doomed /\ live' = live /\ resume' = resume
        /\ p # Null /\ left'[p] = Null /\ right'[p] = Null /\ p \in nodes'
    BY <1>1, <1>2, <1>9, <1>14, <1>18
  <2>2. Dying' = {doomed} /\ Leaving' = {p}
    BY <2>1 DEF Dying, Leaving
  <2>3. PhaseInv'
    BY <1>1, <1>3, <2>1 DEF PhaseInv, Childless
  <2>4. EachStateHasItsLeaf'
    <3>1. \A s \in live \ {doomed} :
            /\ ptreeNode[s] \in nodes' \ {p} /\ data[ptreeNode[s]] = s
            /\ left'[ptreeNode[s]] = Null /\ right'[ptreeNode[s]] = Null
      BY <1>1, <1>7, <1>15, <1>16
    <3>2. \A m \in nodes' \ {p} :
            /\ left'[m] = Null /\ right'[m] = Null =>
                 data[m] \in live \ {doomed} /\ ptreeNode[data[m]] = m
            /\ ~(left'[m] = Null /\ right'[m] = Null) => data[m] = Null
      BY <1>1, <1>7, <1>15
    <3> QED
      BY <1>1, <2>1, <2>2, <3>1, <3>2 DEF EachStateHasItsLeaf, Childless
  <2>5. TypeOK'
    <3>1. /\ nodes' \subseteq Node /\ cursor' \in Node \cup {Null}
          /\ phase' \in {"select", "walk", "execute", "update", "remove"}
      BY <1>1, <1>4, <2>1
    <3> QED
      BY <1>1, <1>10, <2>1, <3>1, Zenon DEF IInv, TypeOK
  <2> QED
    BY <1>1, <1>12, <1>13, <2>1, <2>3, <2>4, <2>5 DEF IInv, IdsAreDistinct
<1>19. CASE ~RemoveGoesOn(p)
  <2>1. /\ phase' = resume /\ live' = live \ {doomed}
        /\ cursor' = Null /\ doomed' = Null /\ resume' = "none"
    BY <1>2, <1>19
  <2>2. Dying' = {} /\ Leaving' = {}
    BY <1>3, <2>1 DEF Dying, Leaving
  <2>3. PhaseInv'
    BY <1>1, <1>3, <2>1 DEF PhaseInv
  <2>4. EachStateHasItsLeaf'
    <3>1. \A s \in live' :
            /\ ptreeNode[s] \in nodes' /\ data[ptreeNode[s]] = s
            /\ left'[ptreeNode[s]] = Null /\ right'[ptreeNode[s]] = Null
      BY <1>1, <1>7, <1>15, <1>16, <2>1
    <3>2. \A m \in nodes' :
            /\ left'[m] = Null /\ right'[m] = Null => data[m] \in live' /\ ptreeNode[data[m]] = m
            /\ ~(left'[m] = Null /\ right'[m] = Null) => data[m] = Null
      <4> TAKE m \in nodes'
      <4>1. CASE m = p
        BY <1>1, <1>6, <1>14, <1>17, <1>19, <4>1
      <4>2. CASE m # p
        BY <1>1, <1>7, <1>15, <2>1, <4>2
      <4> QED
        BY <4>1, <4>2
    <3> QED
      BY <1>1, <2>1, <2>2, <3>1, <3>2 DEF EachStateHasItsLeaf, Childless
  <2>5. TypeOK'
    <3>1. /\ nodes' \subseteq Node /\ live' \subseteq State
          /\ added' \subseteq live' /\ removed' \subseteq live' /\ added' \cap removed' = {}
          /\ cursor' \in Node \cup {Null} /\ doomed' \in State \cup {Null}
          /\ phase' \in {"select", "walk", "execute", "update", "remove"}
          /\ resume' \in {"none", "execute", "update"}
      BY <1>1, <1>3, <1>4, <2>1
    <3> QED
      BY <1>1, <1>10, <3>1, Zenon DEF IInv, TypeOK
  <2>6. IdsAreDistinct'
    BY <1>1, <2>1 DEF IInv, IdsAreDistinct
  <2> QED
    BY <1>12, <1>13, <2>3, <2>4, <2>5, <2>6 DEF IInv
<1> QED
  BY <1>18, <1>19

-----------------------------------------------------------------------------
LEMMA StutterIInv ==
  ASSUME IInv, UNCHANGED vars
  PROVE  IInv'
<1>1. /\ UNCHANGED <<nodes, root, parent, left, right, data, live, added, removed>>
      /\ UNCHANGED <<ptreeNode, stateId, current, phase, cursor, doomed, resume, reset>>
  BY DEF vars, tree, worklists, removal
<1>2. TypeOK' /\ PhaseInv'
  BY <1>1, Zenon DEF IInv, TypeOK, PhaseInv, Childless
<1>3. Linked' /\ WalkIsSafe' /\ IdsAreDistinct'
  BY <1>1 DEF IInv, Linked, WalkIsSafe, ClosedBelow, IdsAreDistinct
<1>4. EachStateHasItsLeaf'
  BY <1>1 DEF IInv, EachStateHasItsLeaf, Dying, Leaving, Childless
<1> QED
  BY <1>2, <1>3, <1>4 DEF IInv

LEMMA NextIInv ==
  ASSUME IInv, [Next]_vars
  PROVE  IInv'
<1>1. CASE SelectByPath \/ Descend \/ Arrive \/ SelectOther
  BY <1>1, SelectionIInv
<1>2. CASE \E s \in Executing, t \in State \ live, a, b \in Node \ nodes :
             Fork(s, t, a, b) \/ Branch(s, t, a, b)
  BY <1>2, ForkIInv, BranchIInv
<1>3. CASE \E s \in live : Terminate(s) \/ TerminateAdded(s) \/ UpdateRemoves(s)
  BY <1>3, WorklistsIInv, RemovalIInv
<1>4. CASE Update \/ Updated
  BY <1>4, WorklistsIInv
<1>5. CASE RemoveNode
  BY <1>5, RemoveNodeIInv
<1>6. CASE UNCHANGED vars
  BY <1>6, StutterIInv
<1> QED
  BY <1>1, <1>2, <1>3, <1>4, <1>5, <1>6 DEF Next

THEOREM Invariant == Spec => []IInv
<1>1. Init => IInv
  BY InitIInv
<1>2. IInv /\ [Next]_vars => IInv'
  BY NextIInv
<1> QED
  BY <1>1, <1>2, PTL DEF Spec

(* The pointers and the worklists have their types, for any number of nodes. *)
THEOREM TypeCorrect == Spec => []TypeOK
<1>1. IInv => TypeOK
  BY DEF IInv
<1> QED
  BY <1>1, Invariant, PTL

(* The leaves of the tree are the allocated states, whatever is split and *)
(* removed in whatever order.                                             *)
THEOREM LeavesAreStates == Spec => []EachStateHasItsLeaf
<1>1. IInv => EachStateHasItsLeaf
  BY DEF IInv
<1> QED
  BY <1>1, Invariant, PTL

(* The random walk meets no freed node, no circle and no unreachable part. *)
THEOREM WalksAreSafe == Spec => []WalkIsSafe
<1>1. IInv => WalkIsSafe
  BY DEF IInv
<1> QED
  BY <1>1, Invariant, PTL

(* Forks alone keep identifiers apart, at any depth. *)
THEOREM ForksKeepIdsApart == Spec => []IdsAreDistinct
<1>1. IInv => IdsAreDistinct
  BY DEF IInv
<1> QED
  BY <1>1, Invariant, PTL

(* remove finds each node to be the left or the right child of its parent, and *)
(* a leaf (the assertions at PTree.cpp:38 and 46).                             *)
THEOREM RemoveAssertionsHold ==
  Spec => [](phase = "remove" =>
               /\ Childless(cursor)
               /\ parent[cursor] # Null => cursor \in {left[parent[cursor]], right[parent[cursor]]})
<1>1. IInv => (phase = "remove" =>
                /\ Childless(cursor)
                /\ parent[cursor] # Null => cursor \in {left[parent[cursor]], right[parent[cursor]]})
  BY DEF IInv, PhaseInv, Linked
<1> QED
  BY <1>1, Invariant, PTL

=============================================================================
