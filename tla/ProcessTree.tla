----------------------------- MODULE ProcessTree -----------------------------
(***************************************************************************)
(* The tree of forks (klee/lib/Core/PTree.cpp), the walk down from its     *)
(* root by which RandomPathSearcher selects a state, and the identifiers   *)
(* that forks give to states.                                              *)
(*                                                                         *)
(* Nodes and states are addresses: what is freed may be allocated again.   *)
(* The tree follows the allocated states; which of them the worklist       *)
(* `states` has is the concern of Executor.                                *)
(***************************************************************************)
EXTENDS Integers, Sequences

CONSTANTS
  Node,          \* addresses of PTreeNodes
  State,         \* addresses of ExecutionStates
  Null,          \* no node, no state
  RandomizeFork, \* --randomize-fork
  MaxId          \* bound: forks in the identifier of a state that forks

ASSUME ProcessTreeAssumption ==
  /\ Null \notin Node \cup State
  /\ RandomizeFork \in BOOLEAN
  /\ MaxId \in Nat

VARIABLES
  nodes,                      \* allocated nodes
  root, parent, left, right,  \* their pointers
  data,                       \* the state of a node
  live,                       \* allocated states
  added, removed,             \* addedStates, removedStates
  ptreeNode,                  \* ExecutionState::ptreeNode
  stateId,                    \* ExecutionState::stateId, the bits after "-1"
  current,                    \* the state that executes
  phase,                      \* what the executor is in the middle of
  cursor,                     \* n in selectState and in remove
  doomed,                     \* the state to delete when remove returns
  resume,                     \* where to go on then
  reset                       \* history: some state got the identifier of a new run
tree == <<nodes, root, parent, left, right, data>>
worklists == <<live, added, removed>>
removal == <<cursor, doomed, resume>>
vars == <<tree, worklists, ptreeNode, stateId, current, phase, removal, reset>>

Childless(n) == left[n] = Null /\ right[n] = Null

-----------------------------------------------------------------------------
(* PTree(state): a root without a parent, for the initial state. *)
Init ==
  \E n \in Node, s \in State :
    /\ nodes = {n} /\ root = n
    /\ parent = [m \in Node |-> Null]
    /\ left = [m \in Node |-> Null] /\ right = [m \in Node |-> Null]
    /\ data = [m \in Node |-> IF m = n THEN s ELSE Null]
    /\ live = {s} /\ added = {} /\ removed = {}
    /\ ptreeNode = [t \in State |-> IF t = s THEN n ELSE Null]
    /\ stateId = [t \in State |-> <<>>]
    /\ current = Null /\ phase = "select"
    /\ cursor = Null /\ doomed = Null /\ resume = "none"
    /\ reset = FALSE

-----------------------------------------------------------------------------
(* RandomPathSearcher::selectState starts at the root. *)
SelectByPath ==
  /\ phase = "select" /\ live # {}
  /\ phase' = "walk"
  /\ cursor' = root
  /\ UNCHANGED <<tree, worklists, ptreeNode, stateId, current, doomed, resume, reset>>

(* One turn of the loop: the child that is there, or one of two by a coin flip. *)
Descend ==
  /\ phase = "walk" /\ data[cursor] = Null
  /\ \/ left[cursor] # Null /\ cursor' = left[cursor]
     \/ right[cursor] # Null /\ cursor' = right[cursor]
  /\ UNCHANGED <<tree, worklists, ptreeNode, stateId, current, phase, doomed, resume, reset>>

(* The loop ends at a node with a state. *)
Arrive ==
  /\ phase = "walk" /\ data[cursor] # Null
  /\ current' = data[cursor]
  /\ cursor' = Null
  /\ phase' = "execute"
  /\ UNCHANGED <<tree, worklists, ptreeNode, stateId, doomed, resume, reset>>

(* Another searcher, or the seeding loop, selects a state. *)
SelectOther ==
  /\ phase = "select"
  /\ current' \in live
  /\ phase' = "execute"
  /\ UNCHANGED <<tree, worklists, ptreeNode, stateId, removal, reset>>

-----------------------------------------------------------------------------
(* n->data = 0, split(n, l, r), and both states take their new nodes a and b. *)
Split(n, a, b, l, r) ==
  /\ nodes' = nodes \cup {a, b}
  /\ parent' = [parent EXCEPT ![a] = n, ![b] = n]
  /\ left' = [left EXCEPT ![n] = a, ![a] = Null, ![b] = Null]
  /\ right' = [right EXCEPT ![n] = b, ![a] = Null, ![b] = Null]
  /\ data' = [data EXCEPT ![n] = Null, ![a] = l, ![b] = r]
  /\ ptreeNode' = [ptreeNode EXCEPT ![l] = a, ![r] = b]
  /\ UNCHANGED root

(* The states that an instruction may fork or end by itself. *)
Executing == ({current} \cup added) \ removed

(* Addresses for a new state and for the two nodes of a split. *)
Unused(t, a, b) ==
  /\ t \in State \ live
  /\ a \in Node \ nodes /\ b \in Node \ nodes
  /\ a # b

(* Variant of ForkedIds: the identifier is not handed on to the copy. *)
ForkedIdsForgotten(s, falseState, trueState, t) ==
  [[stateId EXCEPT ![t] = <<>>] EXCEPT
     ![falseState] = Append(IF falseState = t THEN <<>> ELSE stateId[s], 0),
     ![trueState] = Append(IF trueState = t THEN <<>> ELSE stateId[s], 1)]

(* The identifiers after s forked into itself and its copy t: the false one *)
(* takes that of s; the true one, if it is the copy, the one it was born    *)
(* with.                                                                    *)
ForkedIds(s, falseState, trueState, t) ==
  [stateId EXCEPT
     ![falseState] = Append(stateId[s], 0),
     ![trueState] = Append(IF trueState = t THEN <<>> ELSE stateId[s], 1)]

(* Executor::fork when both sides are possible.  trueState is s, unless they *)
(* are swapped.                                                              *)
Fork(s, t, a, b) ==
  /\ phase = "execute" /\ s \in Executing
  /\ Unused(t, a, b)
  /\ Len(stateId[s]) < MaxId
  /\ live' = live \cup {t} /\ added' = added \cup {t}
  /\ \/ /\ Split(ptreeNode[s], a, b, t, s)
        /\ stateId' = ForkedIds(s, t, s, t)
        /\ UNCHANGED reset
     \/ /\ RandomizeFork
        /\ Split(ptreeNode[s], a, b, s, t)
        /\ stateId' = ForkedIds(s, s, t, t)
        /\ reset' = TRUE
  /\ UNCHANGED <<removed, current, phase, removal>>

(* One turn of the loop of Executor::branch, for a switch: es is any state it *)
(* has so far.  The copy keeps the identifier it was born with.               *)
Branch(es, ns, a, b) ==
  /\ phase = "execute" /\ es \in Executing
  /\ Unused(ns, a, b)
  /\ live' = live \cup {ns} /\ added' = added \cup {ns}
  /\ Split(ptreeNode[es], a, b, ns, es)
  /\ stateId' = [stateId EXCEPT ![ns] = <<>>]
  /\ reset' = TRUE
  /\ UNCHANGED <<removed, current, phase, removal>>

-----------------------------------------------------------------------------
(* terminateState of a state the searcher knows: by its instruction, a timer, *)
(* the memory cap, the searcher or the dump.  It is removed later.            *)
Terminate(s) ==
  /\ phase = "execute"
  /\ s \in live \ (added \cup removed)
  /\ removed' = removed \cup {s}
  /\ UNCHANGED <<tree, live, added, ptreeNode, stateId, current, phase, removal, reset>>

(* processTree->remove(s->ptreeNode); delete s *)
StartRemoval(s, next) ==
  /\ phase' = "remove"
  /\ cursor' = ptreeNode[s]
  /\ doomed' = s
  /\ resume' = next

(* Variant of TerminateAdded: the state stays in addedStates. *)
TerminateAddedOnly(s) ==
  /\ phase = "execute" /\ s \in added
  /\ StartRemoval(s, "execute")
  /\ UNCHANGED <<tree, worklists, ptreeNode, stateId, current, reset>>

(* terminateState of a state that never reached the searcher *)
TerminateAdded(s) ==
  /\ phase = "execute" /\ s \in added
  /\ added' = added \ {s}
  /\ StartRemoval(s, "execute")
  /\ UNCHANGED <<tree, live, removed, ptreeNode, stateId, current, reset>>

(* updateStates *)
Update ==
  /\ phase = "execute"
  /\ added' = {}
  /\ current' = Null
  /\ phase' = "update"
  /\ UNCHANGED <<tree, live, removed, ptreeNode, stateId, removal, reset>>

UpdateRemoves(s) ==
  /\ phase = "update" /\ s \in removed
  /\ removed' = removed \ {s}
  /\ StartRemoval(s, "update")
  /\ UNCHANGED <<tree, live, added, ptreeNode, stateId, current, reset>>

Updated ==
  /\ phase = "update" /\ removed = {}
  /\ phase' = "select"
  /\ UNCHANGED <<tree, worklists, ptreeNode, stateId, current, removal, reset>>

(* Variant of Unlink: the left pointer is cleared, whichever child it was. *)
UnlinkLeft(n, p) ==
  IF p # Null
    THEN left' = [left EXCEPT ![p] = Null] /\ UNCHANGED right
    ELSE UNCHANGED <<left, right>>

(* The parent forgets the child. *)
Unlink(n, p) ==
  IF p = Null THEN UNCHANGED <<left, right>>
  ELSE IF n = left[p] THEN left' = [left EXCEPT ![p] = Null] /\ UNCHANGED right
  ELSE right' = [right EXCEPT ![p] = Null] /\ UNCHANGED left

(* Variant of RemoveGoesOn: a parent stays, whatever children it has left. *)
RemoveGoesOnNever(p) == FALSE

(* while (n && !n->left && !n->right) *)
RemoveGoesOn(p) == p # Null /\ left'[p] = Null /\ right'[p] = Null

(* One turn of the loop of PTree::remove; after the last one the state goes. *)
RemoveNode ==
  /\ phase = "remove"
  /\ nodes' = nodes \ {cursor}
  /\ Unlink(cursor, parent[cursor])
  /\ \/ /\ RemoveGoesOn(parent[cursor])
        /\ cursor' = parent[cursor]
        /\ UNCHANGED <<live, phase, doomed, resume>>
     \/ /\ ~RemoveGoesOn(parent[cursor])
        /\ live' = live \ {doomed}
        /\ phase' = resume
        /\ cursor' = Null /\ doomed' = Null /\ resume' = "none"
  /\ UNCHANGED <<root, parent, data, added, removed, ptreeNode, stateId, current, reset>>

-----------------------------------------------------------------------------
Next ==
  \/ SelectByPath \/ Descend \/ Arrive \/ SelectOther
  \/ \E s \in Executing, t \in State \ live, a, b \in Node \ nodes :
       Fork(s, t, a, b) \/ Branch(s, t, a, b)
  \/ \E s \in live : Terminate(s) \/ TerminateAdded(s) \/ UpdateRemoves(s)
  \/ Update \/ Updated
  \/ RemoveNode

Spec == Init /\ [][Next]_vars

-----------------------------------------------------------------------------
(* Pointers are null or nodes; what a new node or a new state holds in the *)
(* fields of its address is overwritten when it is made.                   *)
TypeOK ==
  /\ nodes \subseteq Node /\ root \in Node
  /\ parent \in [Node -> Node \cup {Null}]
  /\ left \in [Node -> Node \cup {Null}] /\ right \in [Node -> Node \cup {Null}]
  /\ data \in [Node -> State \cup {Null}]
  /\ live \subseteq State
  /\ added \subseteq live /\ removed \subseteq live /\ added \cap removed = {}
  /\ ptreeNode \in [State -> Node \cup {Null}]
  /\ stateId \in [State -> Seq({0, 1})]
  /\ current \in State \cup {Null}
  /\ phase \in {"select", "walk", "execute", "update", "remove"}
  /\ cursor \in Node \cup {Null} /\ doomed \in State \cup {Null}
  /\ resume \in {"none", "execute", "update"}
  /\ reset \in BOOLEAN

(* What remove is taking away. *)
Dying == IF phase = "remove" THEN {doomed} ELSE {}
Leaving == IF phase = "remove" THEN {cursor} ELSE {}

(* The allocated states and the leaves of the tree correspond to each other,   *)
(* through any order of splits and removals: no state has lost its node, which *)
(* split and remove assert to be a leaf (PTree.cpp:31, 38), and no childless   *)
(* node stays for the walk to end at without a state (Searcher.cpp:1132).      *)
EachStateHasItsLeaf ==
  /\ \A s \in live \ Dying : /\ ptreeNode[s] \in nodes \ Leaving
                             /\ data[ptreeNode[s]] = s
                             /\ Childless(ptreeNode[s])
  /\ \A n \in nodes \ Leaving :
       /\ Childless(n) => data[n] \in live \ Dying /\ ptreeNode[data[n]] = n
       /\ ~Childless(n) => data[n] = Null

ClosedBelow(S) == \A n \in S : {left[n], right[n]} \subseteq S \cup {Null}

(* The walk stays on allocated nodes, it can get to every node there is, and *)
(* it cannot go round in circles (Searcher.cpp:1127-1147): a set of nodes    *)
(* that has the root and the children of its members has all of them, and in *)
(* each set of nodes there is one whose children are outside.                *)
WalkIsSafe ==
  /\ phase = "walk" => cursor \in nodes
  /\ \A S \in SUBSET nodes : root \in S /\ ClosedBelow(S) => S = nodes
  /\ \A S \in SUBSET nodes : S # {} => \E n \in S : {left[n], right[n]} \cap S = {}

IsPrefixOf(x, y) ==
  /\ Len(x) <= Len(y)
  /\ \A i \in 1..Len(x) : x[i] = y[i]

(* "id used to uniquely identify each state" (ExecutionState.h:75): as long as *)
(* all states are made by fork and none is swapped, no identifier is that of   *)
(* another allocated state, nor a prefix of it, which its forks would run into *)
(* (Executor.cpp:871-878).                                                     *)
IdsAreDistinct ==
  ~reset => \A s, t \in live : s # t => ~IsPrefixOf(stateId[s], stateId[t])

=============================================================================
