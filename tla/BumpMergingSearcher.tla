------------------------- MODULE BumpMergingSearcher -------------------------
(***************************************************************************)
(* BumpMergingSearcher (--use-bump-merge, klee/lib/Core/Searcher.cpp       *)
(* 1161-1235): one state waits at each call of klee_merge(); the next one  *)
(* to come is merged into it or, if the two cannot be merged, takes its    *)
(* place and bumps it past the call.                                       *)
(***************************************************************************)
EXTENDS StatePool, Functions

VARIABLE statesAtMerge   \* the state that waits at a call, for some calls

vars == <<poolVars, statesAtMerge>>

Init ==
  /\ PoolInit
  /\ statesAtMerge = << >>

Waiting == Range(statesAtMerge)

-----------------------------------------------------------------------------
(* selectState *)

(* Out of states in the pool: one that waits goes on. *)
Pop ==
  /\ phase = "select"
  /\ pool = {}
  /\ \E mp \in DOMAIN statesAtMerge :
       LET es == statesAtMerge[mp] IN
         /\ statesAtMerge' = Restrict(statesAtMerge, DOMAIN statesAtMerge \ {mp})
         /\ pc' = [pc EXCEPT ![es] = @ + 1]
         /\ pool' = {es}
  /\ UNCHANGED <<options, worklists, prevPC, inputs, finished, current, phase,
                 lastState, pausedStates>>

Select ==
  /\ phase = "select"
  /\ \E s \in Selectable : ~atMergePoint(s) /\ Return(s)
  /\ UNCHANGED statesAtMerge

(* The pool forgets the state it offered, and the batch ends with it. *)
Removed(s) == lastState' = IF LastAfter(s) = s THEN NoState ELSE lastState

Hold ==
  /\ phase = "select"
  /\ \E s \in Selectable :
       /\ atMergePoint(s)
       /\ pc[s] \notin DOMAIN statesAtMerge
       /\ statesAtMerge' = [m \in DOMAIN statesAtMerge \cup {pc[s]} |->
                              IF m = pc[s] THEN s ELSE statesAtMerge[m]]
       /\ pool' = pool \ {s}
       /\ Removed(s)
  /\ UNCHANGED <<options, worklists, pcs, inputs, finished, current, phase, pausedStates>>

(* The state that waits takes the new one over, which is terminated and put  *)
(* back into the pool "to let the baseSearcher know about it" (1213).        *)
MergeAway ==
  /\ phase = "select"
  /\ \E s \in Selectable :
       /\ atMergePoint(s)
       /\ pc[s] \in DOMAIN statesAtMerge
       /\ LET mergeWith == statesAtMerge[pc[s]] IN
            /\ Mergeable(mergeWith, s)
            /\ inputs' = [inputs EXCEPT ![mergeWith] = @ \cup inputs[s]]
       /\ removedStates' = removedStates \cup {s}
       /\ pc' = [pc EXCEPT ![s] = prevPC[s]]
       /\ Removed(s)
  /\ UNCHANGED <<options, states, addedStates, prevPC, finished, current, phase,
                 pool, pausedStates, statesAtMerge>>

Bump ==
  /\ phase = "select"
  /\ \E s \in Selectable :
       /\ atMergePoint(s)
       /\ pc[s] \in DOMAIN statesAtMerge
       /\ LET mergeWith == statesAtMerge[pc[s]] IN
            /\ statesAtMerge' = [statesAtMerge EXCEPT ![pc[s]] = s]
            /\ pc' = [pc EXCEPT ![mergeWith] = @ + 1]
            /\ pool' = (pool \ {s}) \cup {mergeWith}
       /\ Removed(s)
  /\ UNCHANGED <<options, worklists, prevPC, inputs, finished, current, phase, pausedStates>>

-----------------------------------------------------------------------------
(* All removed states are looked for in the pool. *)
Update ==
  /\ removedStates \subseteq pool \cup pausedStates
  /\ UpdateStates(Waiting, removedStates)
  /\ UNCHANGED statesAtMerge

(* "invalid state removed": the memory cap killed a state that waits. *)
InvalidRemoved ==
  /\ phase = "update"
  /\ ~ removedStates \subseteq pool \cup pausedStates
  /\ phase' = "failed"
  /\ UNCHANGED <<options, worklists, pcs, inputs, finished, current, search, statesAtMerge>>

Iterate ==
  /\ Step \/ Fork \/ End \/ MemoryCap
  /\ UNCHANGED statesAtMerge

Next ==
  \/ Pop
  \/ Select
  \/ Hold
  \/ MergeAway
  \/ Bump
  \/ Iterate
  \/ Update
  \/ InvalidRemoved

Spec == Init /\ [][Next]_vars

-----------------------------------------------------------------------------
(* "remove state from queue and delete", Executor.h:358: a state that      *)
(* terminateState was called for is not selected from the queue any more.  *)
TerminatedIsNotSelected == phase = "execute" => current \notin removedStates

=============================================================================
