--------------------------- MODULE MergingSearcher ---------------------------
(***************************************************************************)
(* MergingSearcher (--use-merge, klee/lib/Core/Searcher.cpp 1239-1366):    *)
(* states that reach a call of klee_merge() leave the pool and wait.  When *)
(* the pool is empty, all states that wait at the same call are merged as  *)
(* far as ExecutionState::merge can, the states merged into another are    *)
(* terminated in the middle of selectState, and the others step past the   *)
(* call and return to the pool.                                            *)
(***************************************************************************)
EXTENDS StatePool

VARIABLES
  statesAtMerge,   \* the states that wait
  toMerge          \* those of them the round of merging has not come to

vars == <<poolVars, statesAtMerge, toMerge>>

Init ==
  /\ PoolInit
  /\ statesAtMerge = {}
  /\ toMerge = {}

-----------------------------------------------------------------------------
(* selectState *)

(* The state the pool offers is at a merge call: it is removed and waits. *)
Hold ==
  /\ phase = "select"
  /\ \E s \in Selectable :
       /\ atMergePoint(s)
       /\ pool' = pool \ {s}
       /\ lastState' = IF LastAfter(s) = s THEN NoState ELSE lastState
       /\ statesAtMerge' = statesAtMerge \cup {s}
  /\ UNCHANGED <<options, worklists, pcs, inputs, finished, current, phase,
                 pausedStates, toMerge>>

Select ==
  /\ phase = "select"
  /\ \E s \in Selectable : ~atMergePoint(s) /\ Return(s)
  /\ UNCHANGED <<statesAtMerge, toMerge>>

(* Variant of Waiting: the paused states take part as well. *)
WaitingOrPaused == states
Waiting == statesAtMerge

(* Nothing is left in the pool: the states that wait are grouped by their call. *)
AllAtMerge ==
  /\ phase = "select"
  /\ Selectable = {}
  /\ toMerge' = Waiting
  /\ phase' = "merge"
  /\ UNCHANGED <<options, worklists, pcs, inputs, finished, current, search, statesAtMerge>>

(* Variant of Joined: the constraints of `base' stay what they were. *)
JoinedNot(base, gone) == inputs

(* The constraints of `base' become their common ones and the disjunction of the *)
(* rest; those of a state that was merged into it stay (ExecutionState::merge).   *)
Joined(base, gone) ==
  [inputs EXCEPT ![base] = @ \cup UNION {inputs[s] : s \in gone}]

(* Variant of Past: `base' stays at the call. *)
PastNot(base, gone) == [s \in State |-> IF s \in gone THEN prevPC[s] ELSE pc[s]]

(* `base' steps past the call, terminateState takes the others back a step. *)
Past(base, gone) ==
  [s \in State |-> CASE s = base -> pc[s] + 1 [] s \in gone -> prevPC[s] [] OTHER -> pc[s]]

(* Variant of Pooled: the searcher below is told of the states that are        *)
(* terminated, as in BumpMergingSearcher.                                      *)
PooledBoth(base, gone) == {base} \cup gone
Pooled(base, gone) == {base}

(* `base' is merged with states that wait at the same call; they are terminated, *)
(* and it returns to the pool.                                                   *)
Merge ==
  /\ phase = "merge"
  /\ \E base \in toMerge : \E gone \in SUBSET (toMerge \ {base}) :
       /\ \A s \in gone : Mergeable(base, s)
       /\ inputs' = Joined(base, gone)
       /\ removedStates' = removedStates \cup gone
       /\ pc' = Past(base, gone)
       /\ statesAtMerge' = statesAtMerge \ Pooled(base, gone)
       /\ pool' = pool \cup Pooled(base, gone)
       /\ toMerge' = toMerge \ ({base} \cup gone)
  /\ UNCHANGED <<options, states, addedStates, prevPC, finished, current, phase,
                 lastState, pausedStates>>

(* "merge complete, continuing": selectState calls itself. *)
AllMerged ==
  /\ phase = "merge"
  /\ toMerge = {}
  /\ phase' = "select"
  /\ UNCHANGED <<options, worklists, pcs, inputs, finished, current, search,
                 statesAtMerge, toMerge>>

-----------------------------------------------------------------------------
(* Variant of StillWaiting: removed states go on waiting. *)
StillWaitingAll == statesAtMerge
StillWaiting == statesAtMerge \ removedStates

(* The removed states that wait are taken from those that wait, the others *)
(* from the pool.                                                          *)
Update ==
  /\ UpdateStates(StillWaiting, removedStates \ statesAtMerge)
  /\ statesAtMerge' = StillWaiting
  /\ UNCHANGED toMerge

Iterate ==
  /\ Step \/ Fork \/ End \/ MemoryCap
  /\ UNCHANGED <<statesAtMerge, toMerge>>

Next ==
  \/ Hold
  \/ Select
  \/ AllAtMerge
  \/ Merge
  \/ AllMerged
  \/ Iterate
  \/ Update

Spec == Init /\ [][Next]_vars

(* run() is one thread: while it has something to do, it does it. *)
FairSpec == Spec /\ WF_vars(Next)

-----------------------------------------------------------------------------
TypeOK ==
  /\ options \in OptionSets
  /\ states \subseteq State
  /\ addedStates \subseteq State
  /\ removedStates \subseteq State
  /\ pc \in [State -> Loc]
  /\ prevPC \in [State -> Loc]
  /\ inputs \in [State -> SUBSET Input]
  /\ finished \subseteq Input
  /\ current \in State \cup {NoState}
  /\ phase \in {"select", "merge", "execute", "memory", "update", "done"}
  /\ pool \subseteq State
  /\ lastState \in State \cup {NoState}
  /\ pausedStates \subseteq State
  /\ statesAtMerge \subseteq State
  /\ toMerge \subseteq statesAtMerge

(* Each state of the executor is in exactly one of the searchers' lists, so a *)
(* removed state is found where it is looked up ("invalid state removed",     *)
(* Searcher.cpp:996), none is forgotten while it waits, none is in a list     *)
(* after its deletion, and a batch goes on with a state of the pool.          *)
ListedOnce ==
  /\ states = pool \cup statesAtMerge \cup pausedStates
  /\ pool \cap statesAtMerge = {}
  /\ pool \cap pausedStates = {}
  /\ statesAtMerge \cap pausedStates = {}
  /\ lastState # NoState => lastState \in pool
  /\ removedStates \subseteq states
  /\ addedStates \cap states = {}

(* The state selectState returns is under exploration: it was not merged into *)
(* another while it was selected (Searcher.cpp:1319), and its next            *)
(* instruction is no merge call, which the executor would run as a no-op.     *)
SelectedGoesOn ==
  phase = "execute" => /\ current \in pool \ removedStates
                       /\ ~atMergePoint(current)

(* The states under exploration: neither merged away nor terminated. *)
Active == (states \cup addedStates) \ removedStates

(* Merging loses no path and explores none twice: an input belongs to one *)
(* state under exploration or to a path that ended.                       *)
InputsAreShared ==
  /\ Input = finished \cup UNION {inputs[s] : s \in Active}
  /\ \A s \in Active : inputs[s] \cap finished = {}
  /\ \A s, t \in Active : s # t => inputs[s] \cap inputs[t] = {}

(* selectState returns: each round of merging moves states past a merge call, *)
(* so that it does not recurse for ever (Searcher.cpp:1343).                  *)
SelectionEnds == phase = "select" ~> phase = "execute"

=============================================================================
