------------------------ MODULE MergingSearcherProofs ------------------------
(***************************************************************************)
(* Type correctness and the invariants of MergingSearcher, for every       *)
(* program, set of inputs, number of states and command line.              *)
(***************************************************************************)
EXTENDS MergingSearcher, TLAPS

(* What holds of the lists and the waiting states whatever run() is doing. *)
ListInv ==
  /\ ListedOnce
  /\ removedStates \cap pausedStates = {}
  /\ "iterative-deepening" \notin options => pausedStates = {}
  /\ "batching" \notin options => lastState = NoState
  /\ \A s \in statesAtMerge \ removedStates : atMergePoint(s)

(* What holds where.  A state merged away keeps waiting until the update; no *)
(* round of merging starts before, because the states that were not merged   *)
(* away are in the pool and none of them is at a merge call.                 *)
PhaseInv ==
  /\ phase \in {"select", "merge", "execute"} => /\ addedStates = {}
                                                 /\ removedStates \subseteq statesAtMerge
  /\ phase = "select" =>
       /\ pool \cup statesAtMerge # {}
       /\ removedStates # {} => pool # {} /\ \A s \in pool : ~atMergePoint(s)
  /\ phase = "merge" =>
       /\ \A s \in pool : ~atMergePoint(s)
       /\ statesAtMerge \ removedStates = toMerge
       /\ toMerge = {} => pool # {}
       /\ removedStates # {} => pool # {}
  /\ phase # "merge" => toMerge = {}
  /\ phase = "execute" => current \in pool /\ ~atMergePoint(current)
  /\ phase \in {"memory", "update"} => current \in pool
  /\ phase = "done" => states = {} /\ addedStates = {}

IInv == TypeOK /\ ListInv /\ PhaseInv /\ InputsAreShared

USE DEF worklists, pcs, search, poolVars, vars

-----------------------------------------------------------------------------
LEMMA InitEstablishes == Init => IInv
<1> SUFFICES ASSUME Init PROVE IInv
  OBVIOUS
<1> USE StatePoolAssumption DEF Init, PoolInit
<1>1. TypeOK
  BY DEF TypeOK
<1>2. ListInv
  BY DEF ListInv, ListedOnce, atMergePoint
<1>3. PhaseInv
  BY DEF PhaseInv, atMergePoint
<1>4. InputsAreShared
  BY DEF InputsAreShared, Active
<1> QED
  BY <1>1, <1>2, <1>3, <1>4 DEF IInv

(* A searcher below can offer nothing but a state of the pool. *)
LEMMA Offered == ListInv => Selectable = pool
  BY DEF ListInv, ListedOnce, Selectable

-----------------------------------------------------------------------------
(* selectState *)

LEMMA HoldPreserves == IInv /\ Hold => IInv'
<1> SUFFICES ASSUME IInv, Hold PROVE IInv'
  OBVIOUS
<1>1. PICK s \in pool :
        /\ atMergePoint(s)
        /\ pool' = pool \ {s}
        /\ lastState' = IF LastAfter(s) = s THEN NoState ELSE lastState
        /\ statesAtMerge' = statesAtMerge \cup {s}
  BY Offered DEF IInv, Hold
<1>2. s \in State /\ s # NoState /\ s \notin statesAtMerge
  BY <1>1, StatePoolAssumption DEF IInv, TypeOK, ListInv, ListedOnce
<1>3. /\ phase = "select" /\ removedStates = {}
      /\ UNCHANGED <<options, worklists, pcs, inputs, finished, current, phase,
                     pausedStates, toMerge>>
  BY <1>1 DEF Hold, IInv, PhaseInv
<1>4. TypeOK'
  BY <1>1, <1>2, <1>3 DEF IInv, TypeOK
<1>5. lastState' # NoState => lastState' \in pool'
  BY <1>1, <1>2, <1>3 DEF IInv, ListInv, ListedOnce, LastAfter
<1>6. ListInv'
  <2>1. ListedOnce'
    BY <1>1, <1>2, <1>3, <1>5 DEF IInv, ListInv, ListedOnce
  <2>2. "batching" \notin options => lastState' = NoState
    BY <1>1 DEF IInv, ListInv
  <2> QED
    BY <1>1, <1>3, <2>1, <2>2 DEF IInv, ListInv, atMergePoint
<1>7. PhaseInv'
  BY <1>1, <1>2, <1>3 DEF IInv, PhaseInv, atMergePoint
<1>8. InputsAreShared'
  BY <1>3 DEF IInv, InputsAreShared, Active
<1> QED
  BY <1>4, <1>6, <1>7, <1>8 DEF IInv

LEMMA SelectPreserves == IInv /\ Select => IInv'
<1> SUFFICES ASSUME IInv, Select PROVE IInv'
  OBVIOUS
<1>1. PICK s \in pool : /\ ~atMergePoint(s)
                        /\ current' = s
                        /\ lastState' = LastAfter(s)
  BY Offered DEF IInv, Select, Return
<1>2. s \in State
  BY <1>1 DEF IInv, TypeOK
<1>3. /\ phase = "select" /\ phase' = "execute"
      /\ UNCHANGED <<options, worklists, pcs, inputs, finished, pool, pausedStates,
                     statesAtMerge, toMerge>>
  BY DEF Select, Return
<1>4. TypeOK'
  BY <1>1, <1>2, <1>3 DEF IInv, TypeOK, LastAfter
<1>5. ListInv'
  BY <1>1, <1>3 DEF IInv, ListInv, ListedOnce, LastAfter, atMergePoint
<1>6. PhaseInv'
  BY <1>1, <1>3 DEF IInv, PhaseInv, atMergePoint
<1>7. InputsAreShared'
  BY <1>3 DEF IInv, InputsAreShared, Active
<1> QED
  BY <1>4, <1>5, <1>6, <1>7 DEF IInv

LEMMA AllAtMergePreserves == IInv /\ AllAtMerge => IInv'
<1> SUFFICES ASSUME IInv, AllAtMerge PROVE IInv'
  OBVIOUS
<1>1. pool = {} /\ removedStates = {}
  BY Offered DEF IInv, AllAtMerge, PhaseInv
<1>2. /\ phase = "select" /\ phase' = "merge" /\ toMerge' = statesAtMerge
      /\ UNCHANGED <<options, worklists, pcs, inputs, finished, current, search,
                     statesAtMerge>>
  BY DEF AllAtMerge, Waiting
<1>3. TypeOK'
  BY <1>2 DEF IInv, TypeOK
<1>4. ListInv'
  BY <1>2 DEF IInv, ListInv, ListedOnce, atMergePoint
<1>5. PhaseInv'
  BY <1>1, <1>2 DEF IInv, PhaseInv, atMergePoint
<1>6. InputsAreShared'
  BY <1>2 DEF IInv, InputsAreShared, Active
<1> QED
  BY <1>3, <1>4, <1>5, <1>6 DEF IInv

LEMMA AllMergedPreserves == IInv /\ AllMerged => IInv'
<1> SUFFICES ASSUME IInv, AllMerged PROVE IInv'
  OBVIOUS
<1>1. /\ phase = "merge" /\ phase' = "select" /\ toMerge = {}
      /\ UNCHANGED <<options, worklists, pcs, inputs, finished, current, search,
                     statesAtMerge, toMerge>>
  BY DEF AllMerged
<1>2. TypeOK'
  BY <1>1 DEF IInv, TypeOK
<1>3. ListInv'
  BY <1>1 DEF IInv, ListInv, ListedOnce, atMergePoint
<1>4. PhaseInv'
  BY <1>1 DEF IInv, PhaseInv, atMergePoint
<1>5. InputsAreShared'
  BY <1>1 DEF IInv, InputsAreShared, Active
<1> QED
  BY <1>2, <1>3, <1>4, <1>5 DEF IInv

(* A state that others are merged into was waiting and goes on past its call. *)
LEMMA MergePreserves == IInv /\ Merge => IInv'
<1> SUFFICES ASSUME IInv, Merge PROVE IInv'
  OBVIOUS
<1>1. PICK base \in toMerge, gone \in SUBSET toMerge :
        /\ base \notin gone
        /\ inputs' = Joined(base, gone)
        /\ removedStates' = removedStates \cup gone
        /\ pc' = Past(base, gone)
        /\ statesAtMerge' = statesAtMerge \ {base}
        /\ pool' = pool \cup {base}
        /\ toMerge' = toMerge \ ({base} \cup gone)
  BY DEF Merge, Pooled
<1>2. /\ phase = "merge" /\ phase' = "merge"
      /\ UNCHANGED <<options, states, addedStates, prevPC, finished, current,
                     lastState, pausedStates>>
  BY DEF Merge
<1>3. /\ base \in State /\ base \in statesAtMerge \ removedStates
      /\ gone \subseteq statesAtMerge \ removedStates
      /\ base \notin gone /\ base \notin pool /\ base \notin pausedStates
  BY <1>1, <1>2 DEF IInv, TypeOK, PhaseInv, ListInv, ListedOnce
<1>4. pc[base] \in MergeCalls
  BY <1>3 DEF IInv, ListInv, atMergePoint
<1>5. pc[base] + 1 \in Loc \ MergeCalls
  BY <1>4, StatePoolAssumption
<1>6. /\ pc' \in [State -> Loc]
      /\ pc'[base] \notin MergeCalls
      /\ \A s \in State : s # base /\ s \notin gone => pc'[s] = pc[s]
  BY <1>1, <1>3, <1>5 DEF Past, IInv, TypeOK
<1>7. /\ inputs' \in [State -> SUBSET Input]
      /\ inputs'[base] = inputs[base] \cup UNION {inputs[s] : s \in gone}
      /\ \A s \in State : s # base => inputs'[s] = inputs[s]
  <2>1. UNION {inputs[s] : s \in gone} \subseteq Input
    BY <1>3 DEF IInv, TypeOK
  <2> QED
    BY <1>1, <1>3, <2>1 DEF Joined, IInv, TypeOK
<1>8. TypeOK'
  BY <1>1, <1>2, <1>3, <1>6, <1>7 DEF IInv, TypeOK
<1>9. ListInv'
  <2>1. ListedOnce'
    BY <1>1, <1>2, <1>3 DEF IInv, ListInv, ListedOnce
  <2>2. \A s \in statesAtMerge' \ removedStates' : pc'[s] \in MergeCalls
    BY <1>1, <1>3, <1>6 DEF IInv, TypeOK, ListInv, atMergePoint
  <2> QED
    BY <1>1, <1>2, <1>3, <2>1, <2>2 DEF IInv, ListInv, ListedOnce, atMergePoint
<1>10. PhaseInv'
  <2>1. \A s \in pool' : pc'[s] \notin MergeCalls
    BY <1>1, <1>2, <1>3, <1>6 DEF IInv, TypeOK, PhaseInv, ListInv, ListedOnce, atMergePoint
  <2>2. (statesAtMerge \ removedStates)' = toMerge'
    BY <1>1, <1>2, <1>3 DEF IInv, PhaseInv
  <2>3. addedStates' = {} /\ removedStates' \subseteq statesAtMerge'
    BY <1>1, <1>2, <1>3 DEF IInv, PhaseInv
  <2> QED
    BY <1>1, <1>2, <2>1, <2>2, <2>3 DEF PhaseInv, atMergePoint
<1>11. InputsAreShared'
  <2>1. addedStates = {} /\ Active \subseteq State
    BY <1>2 DEF IInv, TypeOK, PhaseInv, Active
  <2>2. Active' = Active \ gone /\ base \in Active /\ gone \subseteq Active
    BY <1>1, <1>2, <1>3, <2>1 DEF IInv, ListInv, ListedOnce, Active
  <2>3. UNION {inputs'[s] : s \in Active'} = UNION {inputs[s] : s \in Active}
    BY <1>3, <1>7, <2>1, <2>2
  <2>4. inputs[base] \cap finished = {} /\ \A s \in gone : inputs[s] \cap finished = {}
    BY <2>2 DEF IInv, InputsAreShared
  <2>5. \A s \in Active' : inputs'[s] \cap finished = {}
    BY <1>7, <2>1, <2>2, <2>4 DEF IInv, InputsAreShared
  <2>6. \A s \in Active' : s # base => inputs'[s] \cap inputs'[base] = {}
    BY <1>3, <1>7, <2>1, <2>2 DEF IInv, InputsAreShared
  <2>7. \A s, t \in Active' : s # t => inputs'[s] \cap inputs'[t] = {}
    BY <1>7, <2>1, <2>2, <2>6 DEF IInv, InputsAreShared
  <2> QED
    BY <1>2, <2>3, <2>5, <2>7 DEF IInv, InputsAreShared
<1> QED
  BY <1>8, <1>9, <1>10, <1>11 DEF IInv

-----------------------------------------------------------------------------
(* The executor's part of an iteration *)

LEMMA StepPreserves ==
  ASSUME IInv, Step, UNCHANGED <<statesAtMerge, toMerge>>
  PROVE  IInv'
<1>1. PICK l \in Succ[pc[current]] : pc' = [pc EXCEPT ![current] = l]
  BY DEF Step
<1>2. /\ phase = "execute" /\ phase' = "memory"
      /\ prevPC' = [prevPC EXCEPT ![current] = pc[current]]
      /\ UNCHANGED <<options, worklists, inputs, finished, current, search>>
  BY DEF Step
<1>3. current \in pool /\ current \in State /\ current \notin statesAtMerge
  BY <1>2 DEF IInv, TypeOK, ListInv, ListedOnce, PhaseInv
<1>4. l \in Loc
  BY <1>3, StatePoolAssumption DEF IInv, TypeOK
<1>5. TypeOK'
  BY <1>1, <1>2, <1>3, <1>4 DEF IInv, TypeOK
<1>6. \A s \in statesAtMerge : pc'[s] = pc[s]
  BY <1>1, <1>3 DEF IInv, TypeOK
<1>7. ListInv'
  BY <1>2, <1>6 DEF IInv, ListInv, ListedOnce, atMergePoint
<1>8. PhaseInv'
  BY <1>2, <1>3 DEF IInv, PhaseInv
<1>9. InputsAreShared'
  BY <1>2 DEF IInv, InputsAreShared, Active
<1> QED
  BY <1>5, <1>7, <1>8, <1>9 DEF IInv

LEMMA ForkPreserves ==
  ASSUME IInv, Fork, UNCHANGED <<statesAtMerge, toMerge>>
  PROVE  IInv'
<1>1. PICK l \in Succ[pc[current]], k \in Succ[pc[current]],
           child \in State \ (states \cup addedStates),
           I \in SUBSET inputs[current] \ {{}, inputs[current]} :
        /\ addedStates' = addedStates \cup {child}
        /\ prevPC' = [prevPC EXCEPT ![current] = pc[current], ![child] = pc[current]]
        /\ pc' = [pc EXCEPT ![current] = l, ![child] = k]
        /\ inputs' = [inputs EXCEPT ![current] = @ \ I, ![child] = I]
  BY DEF Fork
<1>2. /\ phase = "execute" /\ phase' = "memory"
      /\ UNCHANGED <<options, states, removedStates, finished, current, search>>
  BY DEF Fork
<1>3. /\ current \in pool /\ current \in states /\ current \in State
      /\ current \notin statesAtMerge /\ current \notin removedStates
      /\ addedStates = {} /\ removedStates \subseteq statesAtMerge
  BY <1>2 DEF IInv, TypeOK, ListInv, ListedOnce, PhaseInv
<1>4. /\ child \in State /\ child # current /\ child \notin states
      /\ child \notin statesAtMerge /\ child \notin removedStates
  BY <1>1, <1>3 DEF IInv, ListInv, ListedOnce
<1>5. l \in Loc /\ k \in Loc /\ pc[current] \in Loc
  BY <1>1, <1>3, StatePoolAssumption DEF IInv, TypeOK
<1>6. I \subseteq inputs[current] /\ inputs[current] \subseteq Input
  BY <1>1, <1>3 DEF IInv, TypeOK
<1>7. TypeOK'
  BY <1>1, <1>2, <1>3, <1>4, <1>5, <1>6 DEF IInv, TypeOK
<1>8. \A s \in statesAtMerge : pc'[s] = pc[s]
  BY <1>1, <1>3, <1>4 DEF IInv, TypeOK
<1>9. ListInv'
  BY <1>1, <1>2, <1>3, <1>4, <1>8 DEF IInv, ListInv, ListedOnce, atMergePoint
<1>10. PhaseInv'
  BY <1>2, <1>3 DEF IInv, PhaseInv
<1>11. InputsAreShared'
  <2>1. /\ inputs'[child] = I
        /\ inputs'[current] = inputs[current] \ I
        /\ \A s \in State : s # child /\ s # current => inputs'[s] = inputs[s]
    BY <1>1, <1>3, <1>4 DEF IInv, TypeOK
  <2>2. /\ Active' = Active \cup {child}
        /\ current \in Active /\ child \notin Active /\ Active \subseteq State
    BY <1>1, <1>2, <1>3, <1>4 DEF IInv, TypeOK, Active
  <2>3. UNION {inputs'[s] : s \in Active'} = UNION {inputs[s] : s \in Active}
    BY <1>4, <1>6, <2>1, <2>2
  <2>4. \A s \in Active' : inputs'[s] \cap finished = {}
    BY <1>6, <2>1, <2>2 DEF IInv, InputsAreShared
  <2>5. \A s, t \in Active' : s # t => inputs'[s] \cap inputs'[t] = {}
    BY <1>6, <2>1, <2>2 DEF IInv, InputsAreShared
  <2> QED
    BY <1>2, <2>3, <2>4, <2>5 DEF IInv, InputsAreShared
<1> QED
  BY <1>7, <1>9, <1>10, <1>11 DEF IInv

(* Terminating states moves their inputs from the states under exploration to *)
(* the paths that ended, once.                                                *)
LEMMA EndingShares ==
  ASSUME IInv, NEW K \in SUBSET states,
         removedStates' = removedStates \cup K,
         finished' = Ended(K),
         UNCHANGED <<states, addedStates, inputs>>
  PROVE  InputsAreShared'
<1>1. /\ Active \subseteq State
      /\ addedStates \cap states = {}
      /\ Active' = Active \ K
      /\ K \ removedStates = Active \cap K
  BY DEF IInv, TypeOK, ListInv, ListedOnce, Active
<1>2. finished' = finished \cup UNION {inputs[s] : s \in Active \cap K}
  BY <1>1 DEF Ended
<1>3. Input = finished' \cup UNION {inputs'[s] : s \in Active'}
  BY <1>1, <1>2 DEF IInv, InputsAreShared
<1>4. \A s \in Active' : inputs'[s] \cap finished' = {}
  BY <1>1, <1>2 DEF IInv, InputsAreShared
<1>5. \A s, t \in Active' : s # t => inputs'[s] \cap inputs'[t] = {}
  BY <1>1 DEF IInv, InputsAreShared
<1> QED
  BY <1>3, <1>4, <1>5 DEF InputsAreShared

LEMMA EndedAreInputs ==
  ASSUME TypeOK, NEW K \in SUBSET states
  PROVE  Ended(K) \subseteq Input
BY DEF TypeOK, Ended

LEMMA EndPreserves ==
  ASSUME IInv, End, UNCHANGED <<statesAtMerge, toMerge>>
  PROVE  IInv'
<1>1. /\ phase = "execute" /\ phase' = "memory"
      /\ removedStates' = removedStates \cup {current}
      /\ prevPC' = [prevPC EXCEPT ![current] = pc[current]]
      /\ finished' = Ended({current})
      /\ UNCHANGED <<options, states, addedStates, pc, inputs, current, search>>
  BY DEF End
<1>2. current \in pool /\ current \in states /\ current \in State
  BY <1>1 DEF IInv, TypeOK, ListInv, ListedOnce, PhaseInv
<1>3. TypeOK'
  BY <1>1, <1>2, EndedAreInputs DEF IInv, TypeOK
<1>4. ListInv'
  BY <1>1, <1>2 DEF IInv, ListInv, ListedOnce, atMergePoint
<1>5. PhaseInv'
  BY <1>1, <1>2 DEF IInv, PhaseInv
<1>6. InputsAreShared'
  BY <1>1, <1>2, EndingShares
<1> QED
  BY <1>3, <1>4, <1>5, <1>6 DEF IInv

LEMMA MemoryCapPreserves ==
  ASSUME IInv, MemoryCap, UNCHANGED <<statesAtMerge, toMerge>>
  PROVE  IInv'
<1>1. PICK K \in SUBSET states :
        /\ "max-memory" \notin options => K = {}
        /\ removedStates' = removedStates \cup K
        /\ pc' = [s \in State |-> IF s \in K THEN prevPC[s] ELSE pc[s]]
        /\ finished' = Ended(K)
  BY DEF MemoryCap
<1>2. /\ phase = "memory" /\ phase' = "update"
      /\ UNCHANGED <<options, states, addedStates, prevPC, inputs, current, search>>
  BY DEF MemoryCap
<1>3. TypeOK'
  BY <1>1, <1>2, EndedAreInputs DEF IInv, TypeOK
<1>4. K \cap pausedStates = {}
  <2>1. CASE "max-memory" \in options
    BY <2>1, StatePoolAssumption DEF IInv, TypeOK, ListInv
  <2>2. CASE "max-memory" \notin options
    BY <1>1, <2>2
  <2> QED
    BY <2>1, <2>2
<1>5. \A s \in statesAtMerge' \ removedStates' : pc'[s] \in MergeCalls
  BY <1>1 DEF IInv, TypeOK, ListInv, atMergePoint
<1>6. ListInv'
  BY <1>1, <1>2, <1>4, <1>5 DEF IInv, ListInv, ListedOnce, atMergePoint
<1>7. PhaseInv'
  BY <1>2 DEF IInv, PhaseInv
<1>8. InputsAreShared'
  BY <1>1, <1>2, EndingShares
<1> QED
  BY <1>3, <1>6, <1>7, <1>8 DEF IInv

(* Whatever update() does with the removed states, each list loses its own. *)
LEMMA UpdatePreserves == IInv /\ Update => IInv'
<1> SUFFICES ASSUME IInv, Update PROVE IInv'
  OBVIOUS
<1> DEFINE out == removedStates \ statesAtMerge
           fed(tired) == ((pool \cup addedStates) \ out) \ tired
           paused(tired) == pausedStates \cup tired
           alone(tired) == fed(tired) \cup (statesAtMerge \ removedStates) = {}
<1>1. PICK tired \in SUBSET ({current} \ removedStates) :
        /\ "iterative-deepening" \notin options => tired = {}
        /\ pool' = IF alone(tired) THEN paused(tired) ELSE fed(tired)
        /\ pausedStates' = IF alone(tired) THEN {} ELSE paused(tired)
        /\ lastState' = IF lastState \in out \cup tired THEN NoState ELSE lastState
  BY DEF Update, UpdateStates, StillWaiting
<1>2. /\ phase = "update"
      /\ statesAtMerge' = statesAtMerge \ removedStates
      /\ states' = (states \cup addedStates) \ removedStates
      /\ addedStates' = {} /\ removedStates' = {}
      /\ pc' = Deleted(pc, Start) /\ prevPC' = Deleted(prevPC, Start)
      /\ inputs' = Deleted(inputs, {})
      /\ current' = NoState
      /\ phase' = IF states' = {} THEN "done" ELSE "select"
      /\ UNCHANGED <<options, finished, toMerge>>
  BY DEF Update, UpdateStates, StillWaiting
<1>3. /\ states = pool \cup statesAtMerge \cup pausedStates
      /\ pool \cap statesAtMerge = {} /\ pool \cap pausedStates = {}
      /\ statesAtMerge \cap pausedStates = {}
      /\ removedStates \subseteq states /\ addedStates \cap states = {}
      /\ removedStates \cap pausedStates = {}
      /\ lastState # NoState => lastState \in pool
  BY DEF IInv, ListInv, ListedOnce
<1>4. current \in pool /\ tired \subseteq pool \ removedStates
  BY <1>1, <1>2 DEF IInv, PhaseInv
<1>5. fed(tired) = ((pool \cup addedStates) \ removedStates) \ tired
  BY <1>3
<1> HIDE DEF out, fed, paused
<1>6. ListedOnce'
  <2>1. lastState' # NoState => lastState' \in pool'
    <3>1. CASE lastState \in out \cup tired
      BY <1>1, <3>1
    <3>2. CASE lastState \notin out \cup tired
      <4>1. lastState # NoState => lastState \in fed(tired)
        BY <1>3, <3>2 DEF fed
      <4> QED
        BY <1>1, <3>2, <4>1
    <3> QED
      BY <3>1, <3>2
  <2>2. states' = pool' \cup statesAtMerge' \cup pausedStates'
    BY <1>1, <1>2, <1>3, <1>4, <1>5 DEF paused
  <2>3. /\ pool' \cap statesAtMerge' = {}
        /\ pool' \cap pausedStates' = {}
        /\ statesAtMerge' \cap pausedStates' = {}
    BY <1>1, <1>2, <1>3, <1>4, <1>5 DEF paused
  <2> QED
    BY <1>2, <2>1, <2>2, <2>3 DEF ListedOnce
<1>7. \A s \in states' : pc'[s] = pc[s] /\ inputs'[s] = inputs[s]
  BY <1>2 DEF Deleted, IInv, TypeOK
<1>8. ListInv'
  <2>1. \A s \in statesAtMerge' : pc'[s] \in MergeCalls
    BY <1>2, <1>6, <1>7 DEF IInv, ListInv, ListedOnce, atMergePoint
  <2>2. "iterative-deepening" \notin options => pausedStates' = {}
    BY <1>1 DEF IInv, ListInv, paused
  <2>3. "batching" \notin options => lastState' = NoState
    BY <1>1 DEF IInv, ListInv
  <2> QED
    BY <1>2, <1>6, <2>1, <2>2, <2>3 DEF ListInv, atMergePoint
<1>9. TypeOK'
  <2>1. /\ pc' \in [State -> Loc] /\ prevPC' \in [State -> Loc]
        /\ inputs' \in [State -> SUBSET Input]
    BY <1>2, StatePoolAssumption DEF Deleted, IInv, TypeOK
  <2>2. states' \subseteq State
    BY <1>2 DEF IInv, TypeOK
  <2>3. /\ pool' \subseteq State /\ pausedStates' \subseteq State
        /\ lastState' \in State \cup {NoState}
    BY <1>6, <2>2 DEF ListedOnce
  <2> QED
    BY <1>2, <2>1, <2>2, <2>3 DEF IInv, TypeOK, PhaseInv
<1>10. PhaseInv'
  <2>1. CASE states' = {}
    BY <1>2, <2>1 DEF IInv, PhaseInv
  <2>2. CASE states' # {}
    <3>1. pool' \cup statesAtMerge' # {}
      BY <1>1, <1>2, <1>6, <2>2 DEF ListedOnce
    <3> QED
      BY <1>2, <2>2, <3>1 DEF IInv, PhaseInv
  <2> QED
    BY <2>1, <2>2
<1>11. InputsAreShared'
  <2>1. Active' = states' /\ Active = states'
    BY <1>2 DEF Active
  <2> QED
    BY <1>2, <1>7, <2>1 DEF IInv, InputsAreShared
<1> QED
  BY <1>8, <1>9, <1>10, <1>11 DEF IInv

-----------------------------------------------------------------------------
LEMMA NextPreserves == IInv /\ [Next]_vars => IInv'
<1> SUFFICES ASSUME IInv, [Next]_vars PROVE IInv'
  OBVIOUS
<1>1. CASE Hold
  BY <1>1, HoldPreserves
<1>2. CASE Select
  BY <1>2, SelectPreserves
<1>3. CASE AllAtMerge
  BY <1>3, AllAtMergePreserves
<1>4. CASE Merge
  BY <1>4, MergePreserves
<1>5. CASE AllMerged
  BY <1>5, AllMergedPreserves
<1>6. CASE Iterate
  BY <1>6, StepPreserves, ForkPreserves, EndPreserves, MemoryCapPreserves DEF Iterate
<1>7. CASE Update
  BY <1>7, UpdatePreserves
<1>8. CASE UNCHANGED vars
  BY <1>8 DEF IInv, TypeOK, ListInv, ListedOnce, PhaseInv, InputsAreShared, Active,
              atMergePoint
<1> QED
  BY <1>1, <1>2, <1>3, <1>4, <1>5, <1>6, <1>7, <1>8 DEF Next

(* The lists of the searchers, where run() is, and the shares of the inputs: *)
(* the inductive invariant the theorems below follow from.                   *)
THEOREM Invariant == Spec => []IInv
BY InitEstablishes, NextPreserves, PTL DEF Spec

(* Every variable keeps its type; above all, program counters stay within the *)
(* program although selectState moves them past calls and back again.         *)
THEOREM TypeCorrect == Spec => []TypeOK
<1>1. IInv => TypeOK
  BY DEF IInv
<1> QED
  BY <1>1, Invariant, PTL

(* With --use-merge no state is lost, listed twice or looked for in vain.  *)
THEOREM StatesAreListedOnce == Spec => []ListedOnce
<1>1. IInv => ListedOnce
  BY DEF IInv, ListInv
<1> QED
  BY <1>1, Invariant, PTL

(* selectState returns no state that it terminated, and none at a merge call. *)
THEOREM SelectionsGoOn == Spec => []SelectedGoesOn
<1>1. IInv => SelectedGoesOn
  BY DEF IInv, ListInv, ListedOnce, PhaseInv, SelectedGoesOn
<1> QED
  BY <1>1, Invariant, PTL

(* The states under exploration and the paths that ended share out the inputs. *)
THEOREM MergingKeepsThePaths == Spec => []InputsAreShared
<1>1. IInv => InputsAreShared
  BY DEF IInv
<1> QED
  BY <1>1, Invariant, PTL

=============================================================================
