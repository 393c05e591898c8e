------------------------------ MODULE Executor -------------------------------
(***************************************************************************)
(* Executor::run and the bookkeeping of execution states around it         *)
(* (klee/lib/Core/Executor.cpp).                                           *)
(*                                                                         *)
(* A state is a heap object.  The executor refers to it from `states', and *)
(* while an instruction runs from `addedStates' and `removedStates'; the   *)
(* searcher keeps a list of its own, which only Searcher::update changes.  *)
(* updateStates() makes them agree again at the end of each iteration and  *)
(* frees what was removed.  One iteration of the main loop is              *)
(*                                                                         *)
(*   selectState  executeInstruction  processTimers  memory cap  update    *)
(*                                                                         *)
(* and every one of them but the last may terminate states.  `phase' is    *)
(* the place in the loop; a terminating loop inside a handler is phase     *)
(* "terminate", one call of terminateState per step, and then `resume'.    *)
(***************************************************************************)
EXTENDS Naturals, FiniteSets

CONSTANTS
  State,             \* the addresses an ExecutionState object can have
  Initial,           \* the initial state
  NoState,           \* the null pointer
  MaxFork,           \* bound: states one instruction may add
  Guided,            \* the searcher is a TyuReplaySearcher (--tyu-trace)
  UseSeeds,          \* --seed-out: run() starts with the seeding loop
  OnlyReplaySeeds,   \* --only-replay-seeds
  OnlySeed,          \* --only-seed
  MaxDepth,          \* --max-depth is set
  MaxInstructionTime,\* --max-instruction-time is set
  MaxMemory,         \* --max-memory is set
  DumpStatesOnHalt   \* --dump-states-on-halt

ASSUME ExecutorAssumption ==
  /\ Initial \in State
  /\ NoState \notin State
  /\ MaxFork \in Nat
  /\ {Guided, UseSeeds, OnlyReplaySeeds, OnlySeed} \subseteq BOOLEAN
  /\ {MaxDepth, MaxInstructionTime, MaxMemory, DumpStatesOnHalt} \subseteq BOOLEAN

VARIABLES
  phase,          \* where run() is
  resume,         \* the phase a loop of terminateState calls returns to
  states,         \* Executor::states
  addedStates,    \* Executor::addedStates
  removedStates,  \* Executor::removedStates
  heap,           \* the ExecutionState objects that are allocated
  hasSearcher,    \* Executor::searcher is not null
  pool,           \* the searcher's own list of states, as a set
  seedMap,        \* the keys of Executor::seedMap
  getTarget,      \* TyuReplaySearcher::getTarget
  haltExecution,  \* Executor::haltExecution
  current,        \* the state the iteration steps
  doomed,         \* the states the running handler has still to terminate
  fault           \* why the process died

worklists == <<states, addedStates, removedStates, heap>>
search    == <<hasSearcher, pool, getTarget>>
vars == <<phase, resume, worklists, search, seedMap, haltExecution, current,
          doomed, fault>>

Phases == {"seed", "construct", "loop", "select", "execute", "timers", "memory",
           "update", "dump", "terminate", "done", "crashed"}

Init ==
  /\ phase = IF UseSeeds THEN "seed" ELSE "construct"
  /\ resume = "done"
  /\ states = {Initial}
  /\ addedStates = {}
  /\ removedStates = {}
  /\ heap = {Initial}
  /\ hasSearcher = FALSE
  /\ pool = {}
  /\ seedMap = IF UseSeeds THEN {Initial} ELSE {}
  /\ getTarget = FALSE
  /\ haltExecution = FALSE
  /\ current = NoState
  /\ doomed = {}
  /\ fault = "none"

-----------------------------------------------------------------------------
(* Helpers *)

Goto(p) == phase' = p

(* Start terminating the states of D, then continue at phase p. *)
TerminateAllOf(D, p) ==
  /\ doomed' = D
  /\ phase' = IF D = {} THEN p ELSE "terminate"
  /\ resume' = p

Crash(reason) ==
  /\ phase' = "crashed"
  /\ fault' = reason

(* Variant of Allocate: a failed allocation hands out the null pointer. *)
AllocateNull(children) ==
  /\ children \subseteq State \ heap
  /\ Cardinality(children) <= MaxFork
  /\ addedStates' = addedStates \cup children \cup {NoState}
  /\ heap' = heap \cup children

(* A fork allocates its children: `new ExecutionState' returns an address that *)
(* is not in use, which may be the address of a state freed earlier.           *)
Allocate(children) ==
  /\ children \subseteq State \ heap
  /\ Cardinality(children) <= MaxFork
  /\ addedStates' = addedStates \cup children
  /\ heap' = heap \cup children

(* The seeds of a forking state are divided among it and its children.  fork() *)
(* does not split a seeded state under --only-replay-seeds unless every side   *)
(* has a seed; branch() splits it and terminates the sides without one.        *)
DivideSeeds(children, everySide) ==
  IF current \in seedMap
    THEN \E seeded \in SUBSET (children \cup {current}) :
           /\ seeded # {}
           /\ everySide => seeded = children \cup {current}
           /\ seedMap' = (seedMap \ {current}) \cup seeded
    ELSE UNCHANGED seedMap

(* Variant of Delete: the object is never freed. *)
Leak(D) == UNCHANGED heap /\ D \subseteq State

(* delete es *)
Delete(D) == heap' = heap \ D

(* Variant of ForgetSeeds: the entry is not erased. *)
KeepSeeds(D) == UNCHANGED seedMap /\ D \subseteq State

ForgetSeeds(D) == seedMap' = seedMap \ D

(* Variant of TargetFlag: terminateState does not ask the searcher. *)
TargetUnnoticed == {FALSE}

(* What terminateState reads as the getTarget of a TyuReplaySearcher.  For      *)
(* any other searcher that is memory outside of the searcher: either value.     *)
TargetFlag == IF Guided THEN {getTarget} ELSE BOOLEAN

-----------------------------------------------------------------------------
(* The seeding loop, Executor.cpp:2422-2484.  There is no searcher yet. *)

SelectSeeded(s) ==
  /\ phase = "seed"
  /\ ~haltExecution
  /\ s \in seedMap
  /\ current' = s
  /\ Goto("execute")
  /\ UNCHANGED <<resume, worklists, search, seedMap, haltExecution, doomed, fault>>

(* The loop ends when no seed is left, or breaks when SeedTime has expired; only *)
(* with a seed left does it look at haltExecution again.                         *)
SeedingDone ==
  /\ phase = "seed"
  /\ Goto(IF OnlySeed THEN "dump" ELSE "construct")
  /\ UNCHANGED <<resume, worklists, search, seedMap, haltExecution, current,
                 doomed, fault>>

SeedingHalted ==
  /\ phase = "seed"
  /\ seedMap # {}
  /\ haltExecution
  /\ Goto("dump")
  /\ UNCHANGED <<resume, worklists, search, seedMap, haltExecution, current,
                 doomed, fault>>

ConstructSearcher ==
  /\ phase = "construct"
  /\ hasSearcher' = TRUE
  /\ pool' = states
  /\ Goto("loop")
  /\ UNCHANGED <<resume, worklists, getTarget, seedMap, haltExecution, current,
                 doomed, fault>>

-----------------------------------------------------------------------------
(* The main loop, Executor.cpp:2490-2567 *)

(* Variant of Continue: the halt flag is not looked at. *)
ContinueAfterHalt == states # {}

Continue == states # {} /\ ~haltExecution

LoopNext ==
  /\ phase = "loop"
  /\ Continue
  /\ Goto("select")
  /\ UNCHANGED <<resume, worklists, search, seedMap, haltExecution, current,
                 doomed, fault>>

(* The searcher is deleted before the remaining states are dumped. *)
LoopDone ==
  /\ phase = "loop"
  /\ ~Continue
  /\ hasSearcher' = FALSE
  /\ pool' = {}
  /\ Goto("dump")
  /\ UNCHANGED <<resume, worklists, getTarget, seedMap, haltExecution, current,
                 doomed, fault>>

(* TyuReplaySearcher::selectState terminates states that cannot reach the next *)
(* event while it scans its list.                                              *)
Prune(D) ==
  /\ phase = "select"
  /\ Guided
  /\ ~getTarget
  /\ D # {}
  /\ D \subseteq pool \ removedStates
  /\ TerminateAllOf(D, "select")
  /\ UNCHANGED <<worklists, search, seedMap, haltExecution, current, fault>>

(* The searcher returns a state of its list.  The guided one may find that this *)
(* state stands at the last event of the trace.                                 *)
SelectState(s) ==
  /\ phase = "select"
  /\ s \in pool \ removedStates
  /\ current' = s
  /\ getTarget' \in IF Guided THEN {getTarget, TRUE} ELSE {getTarget}
  /\ Goto("execute")
  /\ UNCHANGED <<resume, worklists, hasSearcher, pool, seedMap, haltExecution,
                 doomed, fault>>

(* No state is left that could reach an event: selectState clears its list and *)
(* returns a reference made from a null pointer, which run() then steps.       *)
GiveUp ==
  /\ phase = "select"
  /\ Guided
  /\ pool \subseteq removedStates
  /\ Crash("null state")
  /\ pool' = {}
  /\ UNCHANGED <<resume, worklists, hasSearcher, getTarget, seedMap,
                 haltExecution, current, doomed>>

-----------------------------------------------------------------------------
(* stepInstruction and executeInstruction on the current state *)

(* No fork, or a fork of which only one side is feasible or allowed. *)
ExecutePlain ==
  /\ phase = "execute"
  /\ Goto("timers")
  /\ UNCHANGED <<resume, worklists, search, seedMap, haltExecution, current,
                 doomed, fault>>

(* A two-way fork(): both sides are terminated again when they are too deep. *)
ExecuteFork(child) ==
  /\ phase = "execute"
  /\ Allocate({child})
  /\ DivideSeeds({child}, OnlyReplaySeeds)
  /\ \E tooDeep \in {FALSE, MaxDepth} :
       TerminateAllOf(IF tooDeep THEN {current, child} ELSE {}, "timers")
  /\ UNCHANGED <<states, removedStates, search, haltExecution, current, fault>>

(* branch(), for a switch: with --only-replay-seeds the targets without a seed *)
(* are terminated.                                                             *)
ExecuteBranch(children) ==
  /\ phase = "execute"
  /\ children # {}
  /\ Allocate(children)
  /\ DivideSeeds(children, FALSE)
  /\ TerminateAllOf(IF OnlyReplaySeeds /\ current \in seedMap
                      THEN (children \cup {current}) \ seedMap'
                      ELSE {}, "timers")
  /\ UNCHANGED <<states, removedStates, search, haltExecution, current, fault>>

(* A load, store or free of a symbolic pointer: one fork per object it may     *)
(* point to; of the resulting states those that access a read-only or freed    *)
(* object, or no object at all, are terminated.                                *)
ExecuteMemoryOperation(children, erroneous) ==
  /\ phase = "execute"
  /\ children # {}
  /\ Allocate(children)
  /\ DivideSeeds(children, OnlyReplaySeeds)
  /\ erroneous \subseteq children \cup {current}
  /\ TerminateAllOf(erroneous, "timers")
  /\ UNCHANGED <<states, removedStates, search, haltExecution, current, fault>>

(* An exit, an error, or a solver timeout in fork(). *)
ExecuteTerminate ==
  /\ phase = "execute"
  /\ TerminateAllOf({current}, "timers")
  /\ UNCHANGED <<worklists, search, seedMap, haltExecution, current, fault>>

-----------------------------------------------------------------------------
(* terminateState(s), Executor.cpp:2656-2688 *)

(* Variant of InSearcher: every state is taken for a new one. *)
NeverInSearcher(s) == s \notin State

InSearcher(s) == s \notin addedStates

(* A state found at the target ends the run: "terminate all!!".  A state that  *)
(* never reached the searcher is freed on the spot.                            *)
TerminateState(s) ==
  /\ phase = "terminate"
  /\ hasSearcher
  /\ s \in doomed \cap heap
  /\ \E reached \in TargetFlag :
       /\ states' = IF reached THEN {s} ELSE states
       /\ haltExecution' = (haltExecution \/ reached)
  /\ IF InSearcher(s)
       THEN /\ removedStates' = removedStates \cup {s}
            /\ UNCHANGED <<addedStates, heap, seedMap>>
       ELSE /\ addedStates' = addedStates \ {s}
            /\ ForgetSeeds({s})
            /\ Delete({s})
            /\ UNCHANGED removedStates
  /\ doomed' = doomed \ {s}
  /\ Goto(IF doomed' = {} THEN resume ELSE "terminate")
  /\ UNCHANGED <<resume, search, current, fault>>

(* After "terminate all!!" the list `states' may hold a state freed in the same *)
(* call, which the memory cap terminates again.  What a call on freed memory    *)
(* does is undefined; one that returns puts the address into removedStates, and *)
(* the searcher's assertion on those (Searcher.cpp:822) ends the process before *)
(* any memory is allocated again.                                               *)
TerminateFreed(s) ==
  /\ phase = "terminate"
  /\ hasSearcher
  /\ s \in doomed \ heap
  /\ Crash("dangling state")
  /\ UNCHANGED <<resume, worklists, search, seedMap, haltExecution, current, doomed>>

(* In the seeding loop and in the dump the searcher is a null pointer. *)
TerminateWithoutSearcher ==
  /\ phase = "terminate"
  /\ ~hasSearcher
  /\ Crash("null searcher")
  /\ UNCHANGED <<resume, worklists, search, seedMap, haltExecution, current, doomed>>

-----------------------------------------------------------------------------
(* processTimers, the memory cap, and updateStates *)

(* The seeding loop has no memory check. *)
AfterTimers == IF hasSearcher THEN "memory" ELSE "update"

Timers ==
  /\ phase = "timers"
  /\ Goto(AfterTimers)
  /\ UNCHANGED <<resume, worklists, search, seedMap, haltExecution, current,
                 doomed, fault>>

(* Variant of NotTerminated: the instruction may have terminated the state. *)
AnyState == State

NotTerminated == State \ removedStates

InstructionTimeout ==
  /\ phase = "timers"
  /\ MaxInstructionTime
  /\ current \in NotTerminated
  /\ TerminateAllOf({current}, AfterTimers)
  /\ UNCHANGED <<worklists, search, seedMap, haltExecution, current, fault>>

BelowMemoryCap ==
  /\ phase = "memory"
  /\ Goto("update")
  /\ UNCHANGED <<resume, worklists, search, seedMap, haltExecution, current,
                 doomed, fault>>

(* Random states of `states' are killed, those that the instruction or the timer *)
(* has terminated already not excepted.                                          *)
KillOverMemoryCap(victims) ==
  /\ phase = "memory"
  /\ MaxMemory
  /\ victims # {}
  /\ victims \subseteq states
  /\ TerminateAllOf(victims, "update")
  /\ UNCHANGED <<worklists, search, seedMap, haltExecution, current, fault>>

(* Variant of SearcherUpdate: the searcher is not told of the removed states. *)
SearcherUpdateAddedOnly == pool \cup addedStates

(* Searcher::update(current, addedStates, removedStates) *)
SearcherUpdate == (pool \cup addedStates) \ removedStates

(* Variant of UpdatedStates: the added states get lost. *)
UpdatedStatesWithoutAdded == states \ removedStates

UpdatedStates == (states \cup addedStates) \ removedStates

(* updateStates(): the searcher first, then `states', then the removed states *)
(* are freed.                                                                 *)
UpdateStates ==
  /\ phase = "update"
  /\ removedStates \subseteq states \cup addedStates
  /\ pool' = IF hasSearcher THEN SearcherUpdate ELSE pool
  /\ states' = UpdatedStates
  /\ ForgetSeeds(removedStates)
  /\ Delete(removedStates)
  /\ addedStates' = {}
  /\ removedStates' = {}
  /\ Goto(IF hasSearcher THEN "loop" ELSE "seed")
  /\ UNCHANGED <<resume, hasSearcher, getTarget, haltExecution, current, doomed, fault>>

(* assert(it2!=states.end()), Executor.cpp:2337 *)
UpdateAssertFails ==
  /\ phase = "update"
  /\ ~ (removedStates \subseteq states \cup addedStates)
  /\ Crash("removed state is not in states")
  /\ UNCHANGED <<resume, worklists, search, seedMap, haltExecution, current, doomed>>

-----------------------------------------------------------------------------
(* dump:, Executor.cpp:2572-2583.  Each state is stepped once more and *)
(* terminated early; the first of these calls already ends the process *)
(* (TerminateWithoutSearcher), so updateStates(0) is never reached.    *)

DumpStates ==
  /\ phase = "dump"
  /\ DumpStatesOnHalt
  /\ states # {}
  /\ TerminateAllOf(states, "update")
  /\ UNCHANGED <<worklists, search, seedMap, haltExecution, current, fault>>

Finish ==
  /\ phase = "dump"
  /\ DumpStatesOnHalt => states = {}
  /\ Goto("done")
  /\ UNCHANGED <<resume, worklists, search, seedMap, haltExecution, current,
                 doomed, fault>>

-----------------------------------------------------------------------------
(* setHaltExecution by the SIGINT handler, the halt timer, or                *)
(* --stop-after-n-instructions.                                              *)
Interrupt ==
  /\ phase \notin {"done", "crashed"}
  /\ ~haltExecution
  /\ haltExecution' = TRUE
  /\ UNCHANGED <<phase, resume, worklists, search, seedMap, current, doomed, fault>>

Seeding == SeedingDone \/ SeedingHalted \/ \E s \in State : SelectSeeded(s)

Selection ==
  \/ \E s \in State : SelectState(s)
  \/ \E D \in SUBSET pool : Prune(D)
  \/ GiveUp

Execution ==
  \/ ExecutePlain
  \/ ExecuteTerminate
  \/ \E child \in State : ExecuteFork(child)
  \/ \E children \in SUBSET State :
       \/ ExecuteBranch(children)
       \/ \E erroneous \in SUBSET State : ExecuteMemoryOperation(children, erroneous)

Termination ==
  \/ TerminateWithoutSearcher
  \/ \E s \in State : TerminateState(s) \/ TerminateFreed(s)

Bookkeeping ==
  \/ Timers \/ InstructionTimeout
  \/ BelowMemoryCap \/ \E victims \in SUBSET State : KillOverMemoryCap(victims)
  \/ UpdateStates \/ UpdateAssertFails

Step ==
  \/ Seeding \/ ConstructSearcher
  \/ LoopNext \/ LoopDone \/ Selection
  \/ Execution \/ Termination \/ Bookkeeping
  \/ DumpStates \/ Finish

Ended == phase \in {"done", "crashed"} /\ UNCHANGED vars

Next == Step \/ Interrupt \/ Ended

Spec == Init /\ [][Next]_vars

(* run() is one thread that nothing blocks; a signal may never come. *)
FairSpec == Spec /\ WF_vars(Step)

-----------------------------------------------------------------------------
(* Properties *)

TypeOK ==
  /\ phase \in Phases
  /\ resume \in Phases
  /\ states \subseteq State
  /\ addedStates \subseteq State
  /\ removedStates \subseteq State
  /\ heap \subseteq State
  /\ hasSearcher \in BOOLEAN
  /\ pool \subseteq State
  /\ seedMap \subseteq State
  /\ getTarget \in BOOLEAN
  /\ haltExecution \in BOOLEAN
  /\ current \in State \cup {NoState}
  /\ doomed \subseteq State
  /\ fault \in {"none", "null searcher", "null state", "dangling state",
               "removed state is not in states"}

(* No call of terminateState can have replaced `states' by one state yet: that *)
(* needs the target flag, and sets haltExecution.                              *)
Intact == haltExecution => Guided /\ ~getTarget

(* The searcher's list holds exactly the allocated states but those the running *)
(* instruction added, so nothing a searcher returns or walks has been freed,    *)
(* and every allocated state can still be selected: the searcher's assertion    *)
(* "invalid state removed" (Searcher.cpp:822) cannot fail.                      *)
SearcherTracksHeap ==
  hasSearcher /\ fault = "none" =>
    /\ heap = pool \cup addedStates
    /\ pool \cap addedStates = {}
    /\ removedStates \subseteq pool

(* The executor's own list agrees with the searcher's whenever a state is about *)
(* to be selected: no state is forgotten by one of them (Executor.cpp:2324).    *)
WorklistsAgree ==
  phase = "select" => states = pool /\ addedStates = {}

(* Until a state has reached the target, the states the executor knows are the *)
(* allocated ones: terminateState and updateStates leak none and keep no freed *)
(* one, and updateStates' assertion (Executor.cpp:2337) holds.                 *)
NothingLeaksOrDangles ==
  Intact /\ fault = "none" =>
    /\ heap = states \cup addedStates
    /\ removedStates \subseteq states

(* The state an iteration steps was not freed and not terminated when it was    *)
(* selected, and is not freed before updateStates although the instruction, the *)
(* timers and the memory cap may all terminate it.                              *)
CurrentIsAllocated ==
  /\ phase = "execute" => current \in heap \ removedStates
  /\ phase \in {"timers", "memory", "update"} => current \in heap \ addedStates

(* Of the four that terminate states in one iteration - the instruction, the    *)
(* timer, the guided searcher and the memory cap - the first three only         *)
(* terminate allocated states that nobody has terminated before, so that a path *)
(* is reported once, even after "terminate all!!".  The cap (Executor.cpp:2546) *)
(* may terminate a state again, but meets no freed one until a state has        *)
(* reached the target.                                                          *)
TerminatedOnce ==
  phase = "terminate" /\ hasSearcher =>
    /\ resume # "update" => doomed \subseteq heap \ removedStates
    /\ Intact => doomed \subseteq heap

(* Executor::run implements the promise of Exploration. *)
Abstract ==
  INSTANCE Exploration WITH
    Path <- State,
    Root <- Initial,
    MayStopEarly <- UseSeeds /\ OnlySeed,
    active <- heap \ removedStates,
    halted <- haltExecution,
    status <- IF phase = "done" THEN "complete"
              ELSE IF phase = "crashed" THEN "aborted" ELSE "running"

(* The bookkeeping above loses no path: one leaves the set of paths under       *)
(* exploration only by a call of terminateState, an address comes back to it    *)
(* only as the child of a fork, and a run that finishes explored every path or  *)
(* was asked to stop.  (A second call for the same state is a stutter here; on  *)
(* those see TerminatedOnce.)                                                   *)
ImplementsExploration == Abstract!Spec

(* A request to halt ends the run: no loop of the executor keeps it alive. *)
HaltIsHonoured == haltExecution ~> phase \in {"done", "crashed"}

(* A key of seedMap is an allocated state: the seeding loop picks its next state *)
(* from these addresses, and a child allocated at the address of a freed state   *)
(* must not inherit that state's seeds.                                          *)
SeedsBelongToAllocatedStates == seedMap \subseteq heap

(* assert(it2!=states.end()), Executor.cpp:2337: a removed state is in states. *)
UpdateAssertionHolds == fault # "removed state is not in states"

=============================================================================
