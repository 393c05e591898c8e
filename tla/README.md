# A TLA+ model of the ConTesa symbolic executor

ConTesa is a modified KLEE: it executes an LLVM program symbolically, forks an
execution state at each branch that can go both ways, and steers the search along
the events of a recorded trace (`TyuReplaySearcher`, selected by `--tyu-trace`; without it
one of KLEE's searchers is used). This
directory models the parts of `src/klee` that decide *which states exist, which of
them runs next, what they share and which way a branch can go*, checks the models with TLC and proves the main
safety results with TLAPS. The concepts LOG.md names (ImpAnalyzer, InvSelector,
SchedExplorer, TestAugmentor) have no source in this repository.

## 1. The system

| component | state it keeps | operations | modelled in |
|---|---|---|---|
| Executor, main loop (`lib/Core/Executor.cpp`, `ExecutorTimers.cpp`) | `states`, `addedStates`, `removedStates`, `seedMap`, `searcher`, `haltExecution` | `run`, `fork`, `branch`, `executeFree`/`executeMemoryOperation`, `terminateState*`, `updateStates`, `processTimers` | `Executor`, abstract `Exploration` |
| Trace-guided searcher (`Searcher.cpp:177-825`) | `states` (a vector), `eventPtr`, `bbCache`, `lastChoice`, `getTarget`, `random`, `getToUserMain`; `goalsReached` of each state | `selectState`, `update` | `TyuReplaySearcher` |
| Static reachability (`Searcher.cpp:346-601`) | none | `isReachable`, `isReachableForward`, `computePathDist` | `Reachability` |
| Copy-on-write memory (`AddressSpace.*`, `Memory.cpp`, `ObjectHolder`, `MemoryManager.cpp`) | `cowKey`, `objects`, `copyOnWriteOwner`, reference counts | copy constructor, `bindObject`, `unbindObject`, `getWriteable`, `copyInConcretes` | `AddressSpace`, abstract `PrivateMemory` |
| Merging searchers (`Searcher.cpp:1161-1366`), with batching and iterative deepening (1368-1470) | the pool of a core searcher, states held back at a merge call, `lastState`, `pausedStates` | `selectState`, `update` | `MergingSearcher`, `BumpMergingSearcher`, common part `StatePool` |
| Core searchers (`Searcher.cpp:960-1158`) | pools of states | `selectState`, `update` | any choice, in `Executor` and `StatePool`; the walk of `RandomPathSearcher` in `ProcessTree` |
| Process tree (`PTree.cpp`), state ids | the tree of forks, `stateId` | `split`, `remove`, random walk, `updateStateId` | `ProcessTree` |
| `ExecutionState::merge`, stack | frames, constraints | `merge`, `pushFrame`, `popFrame` | which paths `merge` joins: `MergingSearcher`; frames: not modelled |
| Solver chain (`lib/Solver`, `TimingSolver.cpp`, `Constraints.cpp`) | `CachingSolver::cache`, `CexCachingSolver::cache` and `assignmentsTable`, the constraints of each state | `evaluate`, `mustBeTrue`, `getValue`, `getInitialValues`, `addConstraint` | `SolverChain`, abstract `PathPartition` |
| Containers (`Internal/ADT`) | persistent trees, `MapOfSets`, `DiscretePDF` | insert, remove, lookup | planned |
| Expressions, STP builder, parsers, module passes, statistics, front ends, runtime libraries | | | not modelled (section 7) |

How they interact. `run()` is one thread. Per iteration it calls
`searcher->selectState()`, executes one instruction of the state returned, runs
the timers and the memory check and ends with `updateStates`. Forks put new states in
`addedStates`; `terminateState` puts old ones in `removedStates` and frees new ones
at once. `updateStates` hands both sets to the searcher and applies them to
`states`. The searcher calls back into the executor: the guided one calls
`terminateState` while it selects. `terminateState` in turn reads `getTarget` from
the searcher. A copy of an `ExecutionState` copies its `AddressSpace`, which shares
its `ObjectState`s with the copy. A fork,
an assumption or a concretization asks the solver chain about the constraints of one
state and adds a constraint on its word; the caches of the chain are shared by all
states. A merging searcher sits between `run()` and another searcher and terminates states
while it selects. The process tree is split by forks and pruned when states are freed; the
random-path searcher reads it. The only asynchronous input is
`setHaltExecution`, from the signal handler or the watchdog timer.

What is hard about it: a state can be killed by an instruction, by a timer, by the
memory cap and by the searcher within one iteration; addresses of freed states are
reused while maps are keyed by them; two lists of the same states are updated
separately; the search goes back over events while states are killed for good; a
cache of distances outlives what it was computed for; ownership of shared memory is
decided by comparing counters of unrelated address spaces; an answer about a branch is put
together from a slice of the constraints, partial verdicts filed under a condition or its
negation, and assignments found for other queries, any of which may fail halfway.

What makes each part correct: no state is lost, leaked or used after it was freed,
and a run that completes explored every path or was asked to stop (executor); a
state is discarded only when the search knows a reason, and the trace is found where it can be
(searcher); the static answer "cannot reach" is right (reachability); no state
notices what another one writes (memory); no path without an input is explored and no input
belongs to two paths (solver chain); every live state is a leaf of the tree, which the walk
finds (process tree); a state is offered again after it was held back, unless it was merged
(merging searchers).

## 2. Modules

| module | what it is | lines of code it stands for |
|---|---|---|
| `Exploration` | what a run promises: paths that fork and end, completion, halt | abstract |
| `Executor` | the worklists, the seeding loop, the main loop, the dump | Executor.cpp 582-889, 2324-2347, 2411-2586, 2656-2745, 2993-3182; ExecutorTimers.cpp 122-219 |
| `ExecutorProofs` | TLAPS proofs about `Executor` | |
| `TyuReplaySearcher` | the guided searcher and the executor over a program graph; each step's executor part is the action of `Executor` by INSTANCE | Searcher.cpp 177-261, 606-825; Executor.cpp 871-878 |
| `TyuReplaySearcherProofs` | TLAPS proofs about `TyuReplaySearcher`, on top of `ExecutorProofs` | |
| `Reachability` | one question to the static search, a step per turn of its loops | Searcher.cpp 346-601 |
| `ReachabilityProofs` | TLAPS proofs about `Reachability` | |
| `PrivateMemory` | each state has a memory of its own | abstract |
| `AddressSpace` | copy-on-write maps | AddressSpace.cpp/.h, Memory.cpp 43-60, Executor.cpp 2868-2991, 3184-3260, ExecutionState.cpp 92-157 |
| `AddressSpaceProofs` | TLAPS proofs about `AddressSpace` | |
| `PathPartition` | the live paths are disjoint sets of inputs | abstract |
| `SolverChain` | a query from the executor through the chain and back, and what the executor makes of the answer | TimingSolver.cpp 30-150; Constraints.cpp 89-156; IndependentSolver.cpp 85-315; IncompleteSolver.cpp 19-29; CachingSolver.cpp 93-241; CexCachingSolver.cpp 115-347; Solver.cpp 104-176, 632-789; Executor.cpp 656-922, 1027-1053, 3421-3462; SpecialFunctionHandler.cpp 364-384 |
| `SolverChainProofs` | TLAPS proofs about `SolverChain` | |
| `ProcessTree` | the tree, the walk, identifiers, and the lists that decide when a node goes | PTree.cpp; Searcher.cpp 1127-1147; Executor.cpp 582-605, 804-888, 2324-2347, 2671-2687 |
| `ProcessTreeProofs` | TLAPS proofs about `ProcessTree` | |
| `StatePool` | states, a core searcher, batching and iterative deepening, as a merging searcher sees them | Searcher.cpp 1250-1262, 1381-1461; ExecutionState.cpp 191-265; Executor.cpp 804-889, 1098-1114, 2486-2564 |
| `MergingSearcher` | `StatePool` with the merging searcher in between | Searcher.cpp 1239-1366; ExecutionState.cpp 288-345 |
| `MergingSearcherProofs` | TLAPS proofs about `MergingSearcher` | |
| `BumpMergingSearcher` | `StatePool` with the bump merging searcher in between | Searcher.cpp 1161-1235, 975-998 |
| `MC...` (one for each checked module) | instances for TLC | |

**Executor.** A state is its address; `heap` is the set of addresses allocated, so
that a deleted state and a new one at its address are the same value, as in the
code. `phase` is the position in `run()`: `seed` (2435), `construct` (2486), `loop`
(2490), `select`, `execute`, `timers`, `memory`, `update`, `terminate`, `dump`, `done`
or `crashed`. A group of `terminateState` calls is a loop of its own: `doomed` holds the
states still to terminate, `resume` the phase to return to. That way the calls of one
loop can interfere, which is where the code goes wrong after the target was
reached: `states` may then hold a freed state, which the memory cap terminates again (2546-2556); `TerminateFreed` is
that call. It is undefined behaviour, and a process that survives it ends at the searcher's assertion (822), before anything
else is allocated. `NotTerminated` is the timer's guard against a second termination; the memory cap has none. `fault` says how the process died. The command-line
options are constants. `Guided` says whether the searcher is a
`TyuReplaySearcher` (`--tyu-trace`, not wrapped in another searcher); for any other
class the value `terminateState` reads as `getTarget` is arbitrary (`TargetFlag`), and the
searcher may return any state it holds. The merging searchers, which also terminate states
while they select, are not among these. `pool` is what the searcher holds.

**TyuReplaySearcher.** The program is a graph of positions, an instruction together
with a call stack; `Distance` is what `isReachable` answers for a position, and
`MCTyuReplaySearcher` computes it with the loops of `Reachability` written as recursive operators, to have it as a constant. A scan of the state list is
`ScanTerminates` (with the `terminateState` calls it makes, each a step) followed by `ScanPicks`, `ScanBacktracks` or
`ScanGivesUp`, one per way the body of the do-while loop can end. `Candidates` is the code's filter (663): it does not
exclude the states a scan has terminated, which are not picked again because of their goals or their distance. `passed` is a history variable: how many events the path
of a state went through when it was selected there. The address order of new states
decides the order of the list and so is kept: addresses are numbers. The list itself is the
set `listed` with the relation `before`, which is what the scan (first candidate with the least
distance, first one to fill a cache entry) and `back()` need of the vector.

**Reachability.** `frame` says from which instruction `isReachableForward` is under way: the source, then the
call sites on the stack from the innermost outwards. `Visit` and `Revisit` are the turns of the
search (441-470, 477-555), `WalkBack` one of `computePathDist` (379-396); `Return` goes back to `isReachable`, which
answers or tries the next call site. The order of `queue` and the stacks `prev` are kept, since the distance depends on
both. `Leads` and `LeadsIn` define ways without a search: a way leads from `b` to `d` if `d` is in every
set that the edges from `b` lead into and no edge leaves.

**AddressSpace.** `objects[s][o]` is an address of an `ObjectState`. `new` returns any
address no map of a live space holds: the reference counts of `ObjectHolder`, kept by the nodes of the persistent
maps, are assumed to be exact. Nothing here says that they are. `Write` stores to any set of objects: one for an instruction, several for
`copyInConcretes` and `merge`.

**SolverChain.** A condition is a member of `Cond` with the assignments that satisfy it (`Sat`), its
negation (`Neg`) and the bytes it reads (`Reads`); `SolverChainAssumption` states what the
expression library guarantees of them. `pc` is where the query under way is: `slice` (a turn of
the loops of `getIndependentConstraints`), `caching` (CachingSolver), `probe` and `lookup`
(CexCachingSolver before STP), `return`, `answered`. `paths` holds the constraint list of each live
state. A lookup in `MapOfSets` may return any of the entries that satisfy the predicate. STP returns a
model, says there is none, times out, crashes or makes KLEE exit (`StpFailure`). `Kind` says which call of
the chain a request is: a fork asks for the validity, `klee_assume` and a preference for
the truth of a negation, `toConstant` for a value, a test case for all values.

**ProcessTree.** Nodes and states are addresses that are reused. A step of the walk and a turn
of the loop of `PTree::remove` are steps of their own. `reset` is history: whether a state
was made by `branch()` or swapped by `--randomize-fork`, which both reset its identifier.

**StatePool, MergingSearcher, BumpMergingSearcher.** `pool` is what the core searcher offers,
`statesAtMerge` what is held back. `inputs` is history: the inputs that satisfy the
constraints of a state. `Mergeable` requires the same `pc`; whether the stacks, memories and symbolic objects agree is left
open, and a merge that is refused leaves the state to a later round. Executor actions are those of `run()` as
far as a searcher can tell: a step, a fork, an end, the memory cap, `updateStates`. What
`terminateState` reads through its cast is taken to be 0 here; section 6 has the other
case. Halting, and children terminated at once, are left to `Executor`.

## 3. Runs

| run | what is asked | bounds |
|---|---|---|
| `executor` | nothing leaks or dangles, the searcher holds what is allocated, nothing is freed before its turn, only the memory cap terminates a state twice, seeds stay with their states, the promise of `Exploration` is kept, a halt ends the run | 4 addresses, forks of up to 2 children, seeding with `--only-replay-seeds`, depth limit, timeout, memory cap and dump on |
| `replay_search` | states are pruned for a reason, which here means that the awaited event is out of reach; none is left ahead of the event, goals are counted right, the state returned at the target exists, the steps are steps of `Executor` | 14 positions, 3 events, 4 addresses, errors at two positions, branches that may be infeasible |
| `replay_trace` | if every branch can go both ways the trace is found | 14 positions, 3 events of which the first is in a function called from three places, 5 addresses |
| `reach_small` | "cannot reach" is exact: between functions for all ways, inside a function for its own branches; without loops the distance is that of a way | programs of one function with 4 blocks of at most 2 successors (where there are two, the first is `b`; the last block has at most one), and of two functions with 2 blocks each, in which all blocks but one may call the second function, itself included; 2 lines per block, every pair of instructions, every stack of up to 2 call sites |
| `address_space` | copy-on-write is not visible | 3 spaces, 2 objects, 3 ObjectStates, 2 values, keys up to 3 |
| `solver_chain` | cached verdicts and assignments are right, answers hold for all constraints, no empty or shared paths, tests follow their path, queries come back | 3 bytes of 2 values, 8 conditions, 3 queries, constraint lists of up to 3, no options or `--cex-cache-try-all --cex-cache-exp --ignore-solver-failures` |
| `process_tree` | every live state has a leaf and every leaf a state, the walk ends at a state, identifiers differ | 5 nodes, 3 states, identifiers of up to 3 bits |
| `merging` | every state is listed once, none merged away is stepped, no input is lost or doubled, selection ends | 3 states, 3 inputs, a program of 7 instructions with a loop and two merge calls; batching with the memory cap, batching with iterative deepening |
| `executor_target`, `replay_stale`, `reach_callers`, `merging_bump` | counterexamples, section 6 | 3 addresses; for `reach_callers` the programs of two functions without recursion and a stack of one call site; for `merging_bump` 3 states and 2 inputs |

Why the bounds suffice. In the executor, one state to run, two children and one
address that is freed and reused give every pair of terminations the code can do
within an iteration, and reuse of an address under each map. For memory, a third
space is needed for two forks of one lineage whose keys coincide, and a third
`ObjectState` for a copy while both shared ones live; `MaxKey = 3` allows a space to
fork twice. In the program of `replay_search` (`RoutesProgram`) the first event can be
bypassed through a switch and reached in two ways, two ways with a library call
between lead to the second, and a branch leads past the third, so that scans prune,
go back over events and give up. In that of `replay_trace` (`ReturnsProgram`) a branch decides from which of three places the function with the
first event is called, and the rest of the trace follows one of them: a state that took
another reaches the first event, is given up, and the search goes back. The program of `replay_stale` (`CallsProgram`) has
two call sites of a function and one event, so that nothing is ever gone back to.
`reach_small` has diamonds, loops with and without the source, a successor named twice and recursion, so that a stack of
predecessors gets several entries and is popped empty; two call sites make the search go on from one to the next. In
`solver_chain` the conditions form a chain (`y & z` shares a byte with `x < y`, which shares one
with `x`), so that a slice takes two passes; one condition is false without being a constant;
three queries are enough for a verdict to be filed, reused for the negation, and refined, and
for an assignment to be found for a superset and a subset. Five nodes make a tree with three
leaves, so a removal climbs past a parent that keeps a child and past one that does not. Three
states let two merge while the third waits, is paused or was killed.

`CHECK_DEADLOCK FALSE` is set for `Reachability`, which stops after its one question; for
`AddressSpace` and `ProcessTree`, where all states may be destroyed and nothing is left to do; for `SolverChain`, which
stops at its bounds, when KLEE exits and at a failed assertion; and for the merging searchers, whose run ends without
states. The executor's and the guided searcher's specifications loop in `Ended` after `done` or
`crashed`, so deadlock is checked there. Symmetry is used in `address_space`, over
`ObjectState` and `Value`, and in `process_tree`, over nodes and over states: no action or property distinguishes their members, and what is
checked are invariants and step conditions. `Space` is left out, since `First`
is distinguished.

**Fairness.** `FairSpec` assumes weak fairness of the executor's own step (`Next` without
`Interrupt`). `run()` is a single thread that is always either about to take a step
or ended, so that assumption only says the process is scheduled and its solver calls
return. Nothing is assumed about `Interrupt`. `HaltIsHonoured` needs no
more: the loop test at 2490 is reached again. `FindsTheTrace` also assumes
feasible branches (`AllFeasible`), else no search can succeed. `SolverChain` assumes weak fairness of the
query under way only (`pc # "idle" /\ Next`): a new query need not come. `QueriesEnd` includes that STP returns or
is killed; the timeout sees to it where there is one. `MergingSearcher` assumes weak fairness of `Next`.

## 4. Proofs

`ExecutorProofs` holds for every set of addresses, any `MaxFork` and every combination of
options. `NothingLeaksOrDangles` alone is not inductive: whether `updateStates` keeps
it depends on what is pending when, and on whether the searcher exists. `IInv` adds
`PhasesOK` (which phases belong to which part of `run`), `PendingOK` (when
`addedStates` and `removedStates` are empty), `WorklistsOK` (which list is exact in which
part) and `CurrentOK` (the state being stepped is allocated and was not new). One lemma
per action shows `IInv` preserved; `Invariance` combines them and the named theorems
`TypeCorrect`, `SearcherTracks`, `Agreement` (the two worklists are the same set before each selection; proved, not run), `NoLeak`, `SteppedStateIsAllocated`,
`NoSecondTermination` and `SeedsAreNotStale` follow. `Refinement` proves that each step
is a step of `Exploration` or a stutter under the mapping `active <- heap \ removedStates`. Under it a second
`terminateState` of one state is a stutter, so `Refinement` says that no path is lost, not that none is reported twice: the memory
cap does report paths twice. `NoSecondTermination` says that nobody else does, and `StatesEndOnce` that without
`--max-memory` every call of `terminateState` is the first one for its state, after the target as well.
The condition `Intact` in the properties excludes what happens once the target was
reached and `terminateState` has replaced `states`: there the properties are false (section 6).

`AddressSpaceProofs` holds for any number of spaces, objects, values and forks.
Here `TypeOK`, `OwnersAreBelowTheKey` (the invariant stated in AddressSpace.h:51),
`OwnedIsPrivate` and `OneObjectEach` (an `ObjectState` is held for one object; given exact reference
counts it holds by the way copies are made, and it is no claim of its own) are inductive together and none of the last three
is without the others: a fork creates no false owner because every owner is at most
the old key, a write does not disturb another space because what it writes in place is
private, and it does not disturb another object because an `ObjectState` has one object.
`Refinement` proves `ImplementsPrivateMemory` from them.

`SolverChainProofs` holds for every set of conditions with `SolverChainAssumption`, any number of
queries and states, and all options. The cache invariants are not inductive alone: what is filed is
right because of what the slice left out and what the call under way already knows. `IInv` adds
`QueryInv` (what is asked belongs to a live path), `SliceInv` (the constraints outside the slice read
none of its bytes, so that a model of the slice and one of the rest combine: lemmas `Combine` and `Independence`) and
`CallInv` (which half of a verdict is still open). `PInv` adds that paths are disjoint, and
`SharesOutInputs` is the refinement of `PathPartition`.

`ProcessTreeProofs` holds for any number of nodes and states. `IInv` adds `Linked` (pointers between
parent and child agree, and no node has the same child twice) and `PhaseInv` (what is
pending when) to the three properties. `WalkIsSafe` is stated over sets of nodes, so that no induction over
paths is needed: each split adds two nodes and each removal takes one away, and the set that
witnesses the property before the step gives one after it.
`RemoveAssertionsHold` concludes that the assertions of `PTree::remove` cannot fail.

`MergingSearcherProofs` holds for every program, number of states and inputs, and command line that
`StatePoolAssumption` allows. `PhaseInv` carries the argument why a state merged away is not stepped: until
`updateStates` it goes on waiting, and no second round of merging can start in the meantime, because the
merged states are in the pool and stand past their call.

`TyuReplaySearcherProofs` holds for every program graph, trace with at least one event, `Distance` table and
set of addresses. It takes the bookkeeping from `ExecutorProofs` by INSTANCE: `SameNext` says that the two
instances have the same steps, so `StepRefines` (each step of the search is one of `Executor`) makes
`ExecutorProofs`' invariant an invariant of the search. `SearchInv` adds `ScanOK` (a scan happens before the target
is reached, and only a scan leaves terminated states for the next round), `DoomedOK` (only listed states are
terminated, so nothing is freed before `updateStates`), `TargetOK`, `GoalsOK`, `LastChoiceOK` and `RemovedOK` (a state a scan
has terminated has more goals than the search looks for, or stands in a block filed under -1). `StepRefines` needs it:
that `selectState` returns no terminated state, although 663 does not exclude them, rests on `RemovedOK` and `LastChoiceOK`, and that it gives up only when
every state was terminated rests on `GoalsOK` at event 0. `GoalsFollowPaths` assumes a program without switches, because
`branch()` hands no goals on. `OrderOK` (every part of the list has a first element) and `CacheTyped` are inductive
on top of `SearchInv` and give `ScanFinds`: a least distance exists among the candidates, and a first state with it.

`DismissalsHaveReasons` is about pruning, for every program: a state is dismissed only when some position in its block was found unable
to reach the awaited event or a later one. Its invariant is `ReasonInv`: `CacheReasons` says so of every entry -1 of `bbCache`. An entry
made now is about a position in the block; reaching an event clears the cache; a step back (783) leaves entries about
what are now later events. Two things it does not say, since they are false: that the distance belongs to the state's own call stack
(`replay_stale`), and that it belongs to the awaited event. The corollary `PrunesOnlyTheHopeless` names what a program needs for
`PruningIsSound`: `BlockDecides`, whether an event can be reached depends on the block alone, and `EventsFollow`, from where an event can be
reached the later ones can. The second fails whenever an event can be reached from where a later one cannot, by
a loop back or because the function with the event is called from two places (`ReturnsProgram`); a state dismissed for a later event
can reach the awaited one, though not, by the distance of its block, the rest of the trace. `RoutesProgram`
has both (`RoutesAssumption` of `MCTyuReplaySearcher`), the program of `replay_stale` lacks the first alone (`CallsAssumption`).

`ReachabilityProofs` holds for every set of programs, any number of lines and stacks of any depth. `IInv` has one part per question
about a turn of the loops: `SearchOK` (what is seen can be reached, and the edges of what was
visited lead to what is seen), `StacksOK` (an entry of a stack is an edge from a visited block), `TopsOK` (no stack of a
seen block is empty), `WalkOK` (the walk has counted a way to the destination, and a stack it popped empty belongs to
a block it has come through), `TriedOK` and `AnswerOK`. Ways need no induction: when the queue is empty the visited blocks are a closed set without the
destination, which is a witness against `Leads`; the walk back prepends one edge at a time to a way. A walk stuck at an empty
stack has been in that block before, which is a loop: hence `Acyclic` in `DistanceIsAWay`. `TopIsDefined` says
that the unguarded `top()` at 349 is never called on an empty stack.

Assumptions used: `ExecutorAssumption`, `AddressSpaceAssumption`, `SolverChainAssumption`,
`ProcessTreeAssumption`, `StatePoolAssumption`, `SearcherAssumption` and `ReachabilityAssumption`, on the constants
only. Keys are natural numbers; the 32-bit counter of the code agrees until one lineage
of states has forked 2^32 times.

Only model-checked: liveness (`HaltIsHonoured`, `FindsTheTrace`, `QueriesEnd`,
`SelectionEnds`). That the recursive operators of `MCTyuReplaySearcher` answer what `Reachability` does is not proved, as they are
recursive; the theorems about the search hold for any table of distances. `BumpMergingSearcher` has no theorem: what one would state is
false (section 6).

## 5. Hazards and properties

`PROJECT.json` lists the hazards with their lines. In short: double or early
termination (`TerminatedOnce`, `NothingLeaksOrDangles`, `CurrentIsAllocated`); two
worklists (`SearcherTracksHeap`, `ImplementsExploration`); reused
addresses (`SeedsBelongToAllocatedStates`); stale distances and lost states in the search
(`PruningIsSound`, `DismissedWithReason`, `AnswersReachability`, `CallersAreSearched`, `DistanceIsAWay`, `NoStateIsAhead`, `GoalsMatchPath`, `LastChoiceIsListed`); stopping
(`HaltIsHonoured`, `FindsTheTrace`); sharing (`OwnedIsPrivate`,
`OwnersAreBelowTheKey`, `ImplementsPrivateMemory`); cached and sliced answers
(`CachedVerdictsAreRight`, `CexCacheIsRight`, `AnswersAreExact`); failing queries (`PathsAreSatisfiable`,
`TestsTakeTheirPath`, `QueriesEnd`); paths (`ImplementsPathPartition`, `InputsAreShared`); freed nodes
(`EachStateHasItsLeaf`, `WalkIsSafe`); held-back states (`ListedOnce`, `SelectedGoesOn`, `SelectionEnds`);
identifiers (`IdsAreDistinct`).

## 6. Where the code differs from what it says

* `executor_target`: after the target was reached the assertion at Executor.cpp:2337
  fails if two states are removed in one iteration. A scan that prunes a state and then
  reaches the last event is one way there, without any option set.
* `replay_stale`: `bbCache` is looked up by basic block (672) while the distance depends on the
  call stack as well; a state that can reach the only event is terminated because another one, called from elsewhere,
  cannot. The search does not go back in this run.
* `reach_callers`: the comment at Searcher.cpp:580-582 has the callers searched because "the function we are in
  is being called within a loop in a given caller function". When source and destination are in one function, which is when
  such a loop matters, the return at 575-579 comes first: a block that is reached by returning and being called again counts
  as unreachable, and the searcher terminates the state. `AnswersReachability` says what is answered instead.
* `merging_bump`: after a merge the bump merging searcher puts the terminated state back into the searcher below,
  "to let the baseSearcher know about it again" (Searcher.cpp:1213), and selects from that searcher; a DFS
  searcher offers that state first, and the executor steps it once more.

Found while modelling, described here without a run:

* With states left after a halt, the dump (Executor.cpp:2573, "Dump test cases for all active
  states on exit (default=on)", 99) calls `terminateState` after the searcher was deleted; line 2663
  dereferences it. The same line is reached in the seeding loop, before there is a searcher, when
  `--only-replay-seeds` discards a state. In `Executor` both end in the fault "null searcher".
* States made by a switch start with `goalsReached` 0 (ExecutionState.h:76; `branch()` does not copy
  it as `fork()` does), so one that passed an event counts as one that has not.
  The same states start with an empty `stateId`, which ExecutionState.h:75 says identifies a state, and so does the true
  state when `--randomize-fork` swaps the two.
* With a searcher that is not a `TyuReplaySearcher`, which is the default, line 2663 reads outside of the object. If what it
  reads is not zero, `states` is cut down to one state and the run halted, although Executor.h:358 describes `terminateState` as "remove
  state from queue and delete". `TargetFlag` allows either value, and the theorems of `ExecutorProofs` hold for both.
* The memory cap (2546-2556) terminates states that the instruction or the timer has terminated, so that they are reported
  twice, and after the target a freed one (`TerminateFreed`).
* A step back in the trace (783) does not clear `bbCache` as reaching an event does (764): a distance to a later event is
  taken for one to the awaited event.
* Under `--cex-cache-exp` `computeTruth` returns failure when the negation is known to have no counterexample, where the comment
  (CexCachingSolver.cpp:279-285) derives the answer "cannot be true"; `klee_assume` then ends in an assertion.
* Two calls of `klee_merge()` in a row: `terminateState` sets `pc = prevPC`, so a state merged away at the second
  call stands at the first and is taken for a waiting one by the next round: it is merged again or goes back to the pool and is
  executed. `StatePoolAssumption` excludes such programs.
* `IterativeDeepeningTimeSearcher::update` erases from `pausedStates` with an iterator of another set (1441). It happens when
  the memory cap kills a paused state; the options are kept apart in `StatePoolAssumption`.
* Under the bump merging searcher the memory cap may kill a state that waits, and the searcher below asserts "invalid state
  removed" (`InvalidRemoved`). Over a random-path searcher, which is never empty and knows every state, states held back are selected again
  and merged with themselves; `--use-merge` excludes that searcher by an assertion, `--use-bump-merge` does not.
* The distance is not always the shortest (a self-loop on
  the source block adds one), an earlier instruction of the same block counts as
  reachable without a loop, `addedStates` is not the subset of `states` that
  Executor.h:132 states, and with no candidate left `selectState` returns a
  reference made from a null pointer (`ScanGivesUp`, fault "null state").

## 7. Not modelled, and why

Instruction semantics, expressions, the STP back end, parsers and module passes are
computation on data without protocol; in the models of the search a branch is feasible or not by
nondeterministic choice, and in `SolverChain` by the assignments that satisfy the path. FastCexSolver (interval
arithmetic, off by default), the validating and the logging solvers, the seeds that `addConstraint` patches and implied values are left out of
the chain; the interleaved searcher, which asks several searchers in turn, and the weights of the
random ones out of the searchers. `merge` is modelled by the paths it joins, not by the
select expressions it builds for memories. The byte-level form of an `ObjectState`, address resolution and
the log of symbolic objects are abstracted to contents. Writing test cases, statistics,
file input (the trace, seeds) and output are left out. `targetInstList` is assumed not
to be empty. The guard on read-only objects is in the model and the proofs; the TLC
instance has none (`ReadOnly = {}`), to keep both objects writable. `runtime/` is code
executed by the tool, `concurrency-bugs/` holds the subjects of the experiments.

The repository is mostly programs under test and vendored code: of some 1.26 million lines of C and C++ about 60 thousand are
KLEE and of those a few thousand decide what is modelled here, so the share of mapped lines is small by
nature and no measure of what is left.

## 8. Plan

Done in this order, most important first: `Executor`, its proofs, `Reachability`,
`TyuReplaySearcher`, `AddressSpace`, its proofs, `SolverChain` with `PathPartition`, its proofs,
`ProcessTree`, its proofs, `MergingSearcher` with `StatePool`, its proofs, `BumpMergingSearcher`,
the proofs about `TyuReplaySearcher`, `Reachability` turn by turn and its proofs. What could follow:

1. `MapOfSets` (`findSuperset`, `findSubset`) and `ImmutableTree` (balance, persistence) as
   algorithms against set definitions.
2. `StateMerge`: `ExecutionState::merge` on memories: the select expressions of the merged state have
   the values of the two on their inputs.
3. `MergingSearcher` refining the pool of `Executor`, so that halting and immediate terminations are covered together with merging.
4. The symbolic file system of `runtime/POSIX` (descriptors, duplication, failures).
