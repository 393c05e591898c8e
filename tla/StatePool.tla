------------------------------ MODULE StatePool ------------------------------
(***************************************************************************)
(* The states of a run as a searcher sees them: Executor::run selects one, *)
(* steps it, kills some when memory runs out, and tells the searcher what  *)
(* was added and removed.  At the bottom is the pool of a core searcher    *)
(* (DFS, random, weighted: any state of the pool may be selected), which   *)
(* --use-batching-search sticks to one state of and iterative deepening    *)
(* takes long-running states out of.                                       *)
(*                                                                         *)
(* MergingSearcher and BumpMergingSearcher put themselves in between and   *)
(* hold back the states that are about to call klee_merge().  `inputs' is  *)
(* history: which inputs of the program satisfy a state's constraints.     *)
(***************************************************************************)
EXTENDS Integers, FiniteSets

CONSTANTS
  State,        \* addresses of ExecutionState objects
  Initial,      \* the state run() is given
  NoState,      \* the null pointer
  Input,        \* the inputs of the program under test
  Loc,          \* its instructions, numbered as in KFunction::instructions
  Start,        \* the one it starts with
  Succ,         \* Succ[l]: where control goes from l; a branch has two
  MergeCalls,   \* the calls of klee_merge()
  OptionSets    \* the command lines to consider

Options == {"batching", "iterative-deepening", "max-memory"}

(* A call of klee_merge() is followed by an instruction that is no such call, *)
(* and the program does not start with one.  Iterative deepening and the      *)
(* memory cap together run into the undefined behaviour of Searcher.cpp:1441. *)
ASSUME StatePoolAssumption ==
  /\ Initial \in State
  /\ NoState \notin State
  /\ Input # {}
  /\ Loc \subseteq Int
  /\ MergeCalls \subseteq Loc
  /\ Start \in Loc \ MergeCalls
  /\ \A l \in MergeCalls : l + 1 \in Loc \ MergeCalls
  /\ Succ \in [Loc -> SUBSET Loc]
  /\ OptionSets \subseteq SUBSET Options
  /\ \A o \in OptionSets : ~ {"iterative-deepening", "max-memory"} \subseteq o

VARIABLES
  options,        \* the command line
  states,         \* Executor::states
  addedStates,    \* Executor::addedStates
  removedStates,  \* Executor::removedStates
  pc, prevPC,     \* ExecutionState::pc, prevPC
  inputs,         \* those that satisfy ExecutionState::constraints
  finished,       \* history: the inputs of the paths that ended
  current,        \* run()'s `state'
  phase,          \* where run() is
  pool,           \* the states of the core searcher
  lastState,      \* BatchingSearcher::lastState
  pausedStates    \* IterativeDeepeningTimeSearcher::pausedStates

pcs == <<pc, prevPC>>
worklists == <<states, addedStates, removedStates>>
search == <<pool, lastState, pausedStates>>
poolVars == <<options, worklists, pcs, inputs, finished, current, phase, search>>

PoolInit ==
  /\ options \in OptionSets
  /\ states = {Initial}
  /\ addedStates = {}
  /\ removedStates = {}
  /\ pc = [s \in State |-> Start]
  /\ prevPC = pc
  /\ inputs = [s \in State |-> IF s = Initial THEN Input ELSE {}]
  /\ finished = {}
  /\ current = NoState
  /\ phase = "select"
  /\ pool = {Initial}
  /\ lastState = NoState
  /\ pausedStates = {}

-----------------------------------------------------------------------------
(* What a merging searcher asks of the searcher below it. *)

(* baseSearcher->selectState(): a batch goes on or a new one starts. *)
Selectable ==
  IF "batching" \in options /\ lastState # NoState THEN pool \cup {lastState} ELSE pool

LastAfter(s) == IF "batching" \in options THEN s ELSE NoState

atMergePoint(s) == pc[s] \in MergeCalls

(* selectState returns s. *)
Return(s) ==
  /\ current' = s
  /\ lastState' = LastAfter(s)
  /\ phase' = "execute"
  /\ UNCHANGED <<options, worklists, pcs, inputs, finished, pool, pausedStates>>

(* a.merge(b) may succeed: whether the stacks and the address spaces of the *)
(* two agree is left open.                                                  *)
Mergeable(a, b) == pc[a] = pc[b]

-----------------------------------------------------------------------------
(* The rest of an iteration of run(). *)

(* stepInstruction and executeInstruction, when the state goes on alone ... *)
Step ==
  /\ phase = "execute"
  /\ prevPC' = [prevPC EXCEPT ![current] = pc[current]]
  /\ \E l \in Succ[pc[current]] : pc' = [pc EXCEPT ![current] = l]
  /\ phase' = "memory"
  /\ UNCHANGED <<options, worklists, inputs, finished, current, search>>

(* ... when some of its inputs take the other branch ... *)
Fork ==
  /\ phase = "execute"
  /\ \E l, k \in Succ[pc[current]], child \in State \ (states \cup addedStates),
        I \in SUBSET inputs[current] \ {{}, inputs[current]} :
       /\ l # k
       /\ addedStates' = addedStates \cup {child}
       /\ prevPC' = [prevPC EXCEPT ![current] = pc[current], ![child] = pc[current]]
       /\ pc' = [pc EXCEPT ![current] = l, ![child] = k]
       /\ inputs' = [inputs EXCEPT ![current] = @ \ I, ![child] = I]
  /\ phase' = "memory"
  /\ UNCHANGED <<options, states, removedStates, finished, current, search>>

(* terminateState on states that are not new: their paths end. *)
Ended(K) == finished \cup UNION {inputs[s] : s \in K \ removedStates}

(* ... and when it ends: it returned from main, failed or took too long. *)
End ==
  /\ phase = "execute"
  /\ removedStates' = removedStates \cup {current}
  /\ prevPC' = [prevPC EXCEPT ![current] = pc[current]]
  /\ finished' = Ended({current})
  /\ phase' = "memory"
  /\ UNCHANGED <<options, states, addedStates, pc, inputs, current, search>>

(* Over --max-memory, some of the states are killed, whatever became of them. *)
MemoryCap ==
  /\ phase = "memory"
  /\ \E K \in SUBSET states :
       /\ "max-memory" \notin options => K = {}
       /\ removedStates' = removedStates \cup K
       /\ pc' = [s \in State |-> IF s \in K THEN prevPC[s] ELSE pc[s]]
       /\ finished' = Ended(K)
  /\ phase' = "update"
  /\ UNCHANGED <<options, states, addedStates, prevPC, inputs, current, search>>

(* The fields of deleted states say nothing. *)
Deleted(field, nothing) ==
  [s \in State |-> IF s \in removedStates THEN nothing ELSE field[s]]

(* updateStates: IterativeDeepeningTimeSearcher::update around the update of a *)
(* core searcher, which is given all that was added and `out' of what was      *)
(* removed, while the searcher in between holds back `held'.                   *)
UpdateStates(held, out) ==
  /\ phase = "update"
  /\ \E tired \in SUBSET ({current} \ removedStates) :
       LET fed == ((pool \cup addedStates) \ out) \ tired
           paused == pausedStates \cup tired
       IN /\ "iterative-deepening" \notin options => tired = {}
          /\ pool' = IF fed \cup held = {} THEN paused ELSE fed
          /\ pausedStates' = IF fed \cup held = {} THEN {} ELSE paused
          /\ lastState' = IF lastState \in out \cup tired THEN NoState ELSE lastState
  /\ states' = (states \cup addedStates) \ removedStates
  /\ addedStates' = {}
  /\ removedStates' = {}
  /\ pc' = Deleted(pc, Start)
  /\ prevPC' = Deleted(prevPC, Start)
  /\ inputs' = Deleted(inputs, {})
  /\ current' = NoState
  /\ phase' = IF states' = {} THEN "done" ELSE "select"
  /\ UNCHANGED <<options, finished>>

=============================================================================
