-------------------------- MODULE TyuReplaySearcher --------------------------
(***************************************************************************)
(* The trace-guided searcher (TyuReplaySearcher, klee/lib/Core/            *)
(* Searcher.cpp) driving Executor::run over a program given as a graph of  *)
(* positions.  A position is an instruction together with a call stack.    *)
(*                                                                         *)
(* The searcher wants the instructions of targetInstList executed in that  *)
(* order.  eventPtr counts those already reached; a state is a candidate   *)
(* when its goalsReached equals eventPtr.  Candidates that cannot reach    *)
(* the next event are terminated, the closest other one is stepped, and    *)
(* with no candidate left the searcher goes back one event.                *)
(*                                                                         *)
(* The executor's part of every step is the action of Executor; the states *)
(* `listed' in this module are that module's pool.                         *)
(***************************************************************************)
EXTENDS Integers, FiniteSets, Sequences, Functions

CONSTANTS
  State,            \* addresses of ExecutionState objects, as numbers
  Initial,          \* the initial state
  NoState,          \* the null pointer
  DumpStatesOnHalt, \* --dump-states-on-halt
  Start,            \* the position of the initial state
  Successors,       \* Successors[p]: where the instruction at p may lead
  Switches,         \* the positions of switch instructions
  Failing,          \* the positions of instructions that may end a state
  Block,            \* Block[p]: the basic block of p
  Instruction,      \* Instruction[p]: the instruction at p
  Interesting,      \* the positions in a function of interest (foi)
  targetInstList,   \* the events of the trace
  Distance,         \* Distance[p][i]: isReachable from p to instruction i
  AllFeasible       \* the path condition never excludes a side of a branch

ASSUME SearcherAssumption ==
  /\ State \subseteq Nat
  /\ Initial \in State
  /\ NoState \notin State
  /\ DumpStatesOnHalt \in BOOLEAN
  /\ Len(targetInstList) \in Nat \ {0}
  /\ Start \in DOMAIN Successors
  /\ \A p \in DOMAIN Successors : Successors[p] \in Seq(DOMAIN Successors)
  /\ \A p \in DOMAIN Successors, e \in 1..Len(targetInstList) :
       Distance[p][targetInstList[e]] \in Nat \cup {-1}
  /\ AllFeasible \in BOOLEAN

VARIABLES
  phase, resume, states, addedStates, removedStates, heap, hasSearcher, seedMap,
  getTarget, haltExecution, current, doomed, fault,     \* as in Executor
  listed,          \* TyuReplaySearcher::states
  before,          \* its order: <<s, t>> when s comes before t
  at,              \* ExecutionState::pc of the allocated states
  goalsReached,    \* ExecutionState::goalsReached of the allocated states
  eventPtr,        \* the number of events reached
  getToUserMain,   \* a function of interest was entered
  random,          \* the target was reached and returned once
  lastChoice,      \* the state selected last
  bbCache,         \* block -> distance
  scanning,        \* selectState is in its do-while loop
  passed           \* history: the events the path of a state went through

executor == <<phase, resume, states, addedStates, removedStates, heap, hasSearcher,
              seedMap, haltExecution, current, doomed, fault>>
searcher == <<eventPtr, getToUserMain, random, lastChoice, bbCache, scanning, getTarget>>
program  == <<at, goalsReached, passed>>
list     == <<listed, before>>
vars     == <<executor, searcher, program, list>>

E == INSTANCE Executor WITH
       pool <- listed, MaxFork <- 1, Guided <- TRUE, UseSeeds <- FALSE,
       OnlyReplaySeeds <- FALSE, OnlySeed <- FALSE, MaxDepth <- FALSE,
       MaxInstructionTime <- FALSE, MaxMemory <- FALSE

Init ==
  /\ E!Init
  /\ before = {}
  /\ at = [s \in {Initial} |-> Start]
  /\ goalsReached = [s \in {Initial} |-> 0]
  /\ passed = [s \in {Initial} |-> 0]
  /\ eventPtr = 0
  /\ getToUserMain = FALSE
  /\ random = FALSE
  /\ lastChoice = NoState
  /\ bbCache = << >>
  /\ scanning = FALSE

-----------------------------------------------------------------------------
(* The list of states *)

AddressOrder(S) == {p \in S \X S : p[1] < p[2]}

IsLast(s) == s \in listed /\ \A t \in listed \ {s} : <<t, s>> \in before

(* Added states are appended in the order of a std::set, removed ones erased. *)
UpdatedOrder ==
  LET left == (listed \cup addedStates) \ removedStates
  IN (before \cup (listed \X addedStates) \cup AddressOrder(addedStates)) \cap (left \X left)

ConstructSearcher ==
  /\ E!ConstructSearcher
  /\ before' = AddressOrder(states)
  /\ UNCHANGED <<searcher, program>>

UpdateStates ==
  /\ E!UpdateStates
  /\ before' = UpdatedOrder
  /\ at' = Restrict(at, heap')
  /\ goalsReached' = Restrict(goalsReached, heap')
  /\ passed' = Restrict(passed, heap')
  /\ UNCHANGED searcher

-----------------------------------------------------------------------------
(* selectState *)

Selecting == phase = "select" /\ ~scanning

InMain == getToUserMain \/ \E s \in listed : (IsLast(s) /\ at[s] \in Interesting)

Return(s) ==
  /\ current' = s
  /\ phase' = "execute"
  /\ UNCHANGED <<resume, states, addedStates, removedStates, heap, hasSearcher,
                 seedMap, haltExecution, doomed, fault>>

(* Outside of the interesting functions, and after the target was returned, it *)
(* is the last state of the list that runs.                                    *)
SelectBack ==
  /\ Selecting
  /\ ~InMain \/ random
  /\ getToUserMain' = InMain
  /\ \E s \in listed : IsLast(s) /\ Return(s)
  /\ UNCHANGED <<eventPtr, random, lastChoice, bbCache, scanning, getTarget, program, list>>

SelectTarget ==
  /\ Selecting
  /\ InMain /\ ~random /\ getTarget
  /\ getToUserMain' = TRUE
  /\ random' = TRUE
  /\ Return(lastChoice)
  /\ UNCHANGED <<eventPtr, lastChoice, bbCache, scanning, getTarget, program, list>>

BeginScan ==
  /\ Selecting
  /\ InMain /\ ~random /\ ~getTarget
  /\ getToUserMain' = FALSE
  /\ scanning' = TRUE
  /\ UNCHANGED <<executor, eventPtr, random, lastChoice, bbCache, getTarget, program, list>>

Target == targetInstList[eventPtr + 1]

(* The states that reached the last event.  A turn of the loop goes through the *)
(* list once; it terminates the hopeless candidates (ScanTerminates and the     *)
(* calls that follow) and then runs the closest other one (ScanPicks), goes     *)
(* back one event (ScanBacktracks) or gives up (ScanGivesUp).                   *)
Candidates == {s \in listed : goalsReached[s] = eventPtr}

(* The cache after a turn: the first candidate in a block fills its entry. *)
FilledCache ==
  LET missing == {Block[at[s]] : s \in Candidates} \ DOMAIN bbCache
      inBlock(b) == {s \in Candidates : Block[at[s]] = b}
      first(b) == CHOOSE s \in inBlock(b) : \A t \in inBlock(b) \ {s} : <<s, t>> \in before
  IN [b \in DOMAIN bbCache \cup missing |->
        IF b \in missing THEN Distance[at[first(b)]][Target] ELSE bbCache[b]]

Dist(s) == FilledCache[Block[at[s]]]

Hopeless == {s \in Candidates : Dist(s) = -1}

(* Variant of Remaining: -1 is taken for the least distance. *)
RemainingWithHopeless == Candidates

Remaining == Candidates \ Hopeless

(* Every hopeless state of this turn has been terminated. *)
HopelessGone == Hopeless \subseteq removedStates

(* The first of them with the least distance. *)
IsClosest(s) ==
  \A t \in Remaining \ {s} :
    Dist(s) < Dist(t) \/ (Dist(s) = Dist(t) /\ <<s, t>> \in before)

(* "Terminating state because it cannot reach next event" *)
ScanTerminates ==
  /\ phase = "select" /\ scanning
  /\ ~HopelessGone
  /\ E!TerminateAllOf(Hopeless \ removedStates, "select")
  /\ bbCache' = FilledCache
  /\ UNCHANGED <<states, addedStates, removedStates, heap, hasSearcher, seedMap,
                 haltExecution, current, fault, program, list, eventPtr,
                 getToUserMain, random, lastChoice, scanning, getTarget>>

(* Variant of CacheAfterEvent: the distances to the old event are kept. *)
CacheKept == FilledCache

CacheAfterEvent == << >>

ScanPicks ==
  /\ phase = "select" /\ scanning
  /\ HopelessGone
  /\ scanning' = FALSE
  /\ \E s \in Remaining :
       /\ IsClosest(s)
       /\ lastChoice' = s
       /\ IF Instruction[at[s]] = Target
            THEN /\ eventPtr' = eventPtr + 1
                 /\ goalsReached' = [goalsReached EXCEPT ![s] = @ + 1]
                 /\ passed' = [passed EXCEPT ![s] = @ + 1]
                 /\ getTarget' = (eventPtr + 1 = Len(targetInstList))
                 /\ bbCache' = CacheAfterEvent
            ELSE /\ bbCache' = FilledCache
                 /\ UNCHANGED <<eventPtr, goalsReached, passed, getTarget>>
       /\ Return(s)
  /\ UNCHANGED <<at, getToUserMain, random, list>>

(* Variant of EarlierEvent: one event too many. *)
TwoEventsBack == eventPtr - 2

EarlierEvent == eventPtr - 1

(* The entries of bbCache survive although the event changes. *)
ScanBacktracks ==
  /\ phase = "select" /\ scanning
  /\ HopelessGone /\ Remaining = {}
  /\ eventPtr > 0
  /\ eventPtr' = EarlierEvent
  /\ UNCHANGED <<executor, program, list, getToUserMain, random, lastChoice, bbCache,
                 scanning, getTarget>>

ScanGivesUp ==
  /\ phase = "select" /\ scanning
  /\ HopelessGone /\ Remaining = {}
  /\ eventPtr = 0
  /\ listed' = {} /\ before' = {}
  /\ E!Crash("null state")
  /\ UNCHANGED <<resume, states, addedStates, removedStates, heap, hasSearcher,
                 seedMap, haltExecution, current, doomed, program, searcher>>

-----------------------------------------------------------------------------
(* The current state executes the instruction at its position *)

(* Only with an address to allocate a child at can both sides be taken. *)
MayFork == State \ heap # {}

ExecuteExit ==
  /\ phase = "execute"
  /\ Successors[at[current]] = << >> \/ at[current] \in Failing
  /\ UNCHANGED <<searcher, program, list>>
  /\ E!ExecuteTerminate

ExecuteMove ==
  /\ phase = "execute"
  /\ Len(Successors[at[current]]) > 1 => ~AllFeasible \/ ~MayFork
  /\ \E p \in Range(Successors[at[current]]) : at' = [at EXCEPT ![current] = p]
  /\ UNCHANGED <<searcher, goalsReached, passed, list>>
  /\ E!ExecutePlain

Child(child, here, there) ==
  /\ at' = [s \in heap \cup {child} |->
              IF s = current THEN here ELSE IF s = child THEN there ELSE at[s]]
  /\ passed' = [s \in heap \cup {child} |->
                  IF s = child THEN passed[current] ELSE passed[s]]

(* Variant of ForkGoals: fork() does not hand goalsReached on to the false state. *)
ForkGoalsReset == 0

ForkGoals == goalsReached[current]

(* fork(): the current state takes the true side. *)
ExecuteFork(child) ==
  /\ phase = "execute"
  /\ Len(Successors[at[current]]) = 2
  /\ at[current] \notin Switches
  /\ UNCHANGED <<searcher, list>>
  /\ E!ExecuteFork(child)
  /\ Child(child, Successors[at[current]][1], Successors[at[current]][2])
  /\ goalsReached' = [s \in heap \cup {child} |->
                        IF s = child THEN ForkGoals ELSE goalsReached[s]]

(* branch(): the copy constructor leaves the child without goals.  The targets *)
(* are visited in the order of the addresses of their blocks.                  *)
ExecuteSwitch(child) ==
  /\ phase = "execute"
  /\ Len(Successors[at[current]]) = 2
  /\ at[current] \in Switches
  /\ UNCHANGED <<searcher, list>>
  /\ E!ExecuteBranch({child})
  /\ \E i \in {1, 2} :
       Child(child, Successors[at[current]][i], Successors[at[current]][3 - i])
  /\ goalsReached' = [s \in heap \cup {child} |->
                        IF s = child THEN 0 ELSE goalsReached[s]]

-----------------------------------------------------------------------------
(* The rest of the executor's loop concerns neither the list nor the program. *)
(* updateStates' assertion fails when the scan that reached the target pruned a *)
(* state as well and the instruction at the target ends the current state.      *)
(* Without a memory cap nothing calls terminateState on a freed state            *)
(* (E!TerminateFreed).                                                          *)

Terminate(s) == UNCHANGED <<searcher, program, list>> /\ E!TerminateState(s)

Elsewhere ==
  /\ UNCHANGED <<searcher, program, list>>
  /\ \/ E!LoopNext \/ E!Timers \/ E!BelowMemoryCap
     \/ E!UpdateAssertFails \/ E!TerminateWithoutSearcher
     \/ E!DumpStates \/ E!Finish

LoopDone ==
  /\ E!LoopDone
  /\ before' = {}
  /\ UNCHANGED <<searcher, program>>

Interrupt == UNCHANGED <<searcher, program, list>> /\ E!Interrupt

Step ==
  \/ ConstructSearcher \/ UpdateStates \/ Elsewhere \/ LoopDone
  \/ SelectBack \/ SelectTarget \/ BeginScan
  \/ ScanTerminates \/ ScanPicks \/ ScanBacktracks \/ ScanGivesUp
  \/ ExecuteExit \/ ExecuteMove
  \/ \E s \in State : ExecuteFork(s) \/ ExecuteSwitch(s) \/ Terminate(s)

Ended == phase \in {"done", "crashed"} /\ UNCHANGED vars

Next == Step \/ Interrupt \/ Ended

Spec == Init /\ [][Next]_vars

FairSpec == Spec /\ WF_vars(Step)

-----------------------------------------------------------------------------
(* Properties *)

TypeOK ==
  /\ E!TypeOK
  /\ before \subseteq listed \X listed
  /\ DOMAIN at = heap /\ DOMAIN goalsReached = heap /\ DOMAIN passed = heap
  /\ \A s \in heap : at[s] \in DOMAIN Successors /\ goalsReached[s] \in Nat
  /\ eventPtr \in 0..Len(targetInstList)
  /\ {getToUserMain, random, scanning} \subseteq BOOLEAN
  /\ lastChoice \in State \cup {NoState}
  /\ DOMAIN bbCache \subseteq {Block[p] : p \in DOMAIN Successors}

(* The searcher is one of those Executor allows: it selects states of its list    *)
(* that were not terminated, terminates only such states, and gives up only when  *)
(* it has terminated every one of them, so backtracking has visited all levels.   *)
ImplementsExecutor == E!Spec

(* eventPtr is never behind a state: going back one event happens only when no *)
(* state that reached it is left, so no state is skipped by every later scan.  *)
NoStateIsAhead ==
  \A s \in listed \ removedStates : goalsReached[s] <= eventPtr

(* goalsReached counts the events on the state's own path, through forks and  *)
(* while other states go further or the searcher goes back.                   *)
GoalsMatchPath == \A s \in heap : goalsReached[s] = passed[s]

(* A state is terminated "because it cannot reach next event" (Searcher.cpp:697) *)
(* only when it cannot, cached distances or not.                                 *)
PruningIsSound ==
  [][scanning /\ phase' = "terminate" =>
       \A s \in doomed' : Distance[at[s]][Target] = -1]_vars

(* From the block b the awaited event or a later one is out of reach, by the *)
(* distance of some position in it.                                          *)
OutOfReach(b) ==
  \E p \in DOMAIN Successors, e \in eventPtr + 1..Len(targetInstList) :
    Block[p] = b /\ Distance[p][targetInstList[e]] = -1

(* Whatever the program: when the cache (Searcher.cpp:672) sends a state to its   *)
(* end, the awaited event or a later one was found out of reach of a position in  *)
(* the state's block.  The entry may have been computed for another state and,    *)
(* before a step back, for another event, but never for an event already passed.  *)
DismissedWithReason ==
  [][scanning /\ phase' = "terminate" => \A s \in doomed' : OutOfReach(Block[at[s]])]_vars

(* What a program and its trace have to satisfy for PruningIsSound: whether an    *)
(* event can be reached depends on the block alone, whatever the stack ...        *)
BlockDecides ==
  \A p, q \in DOMAIN Successors, e \in 1..Len(targetInstList) :
    Block[p] = Block[q] =>
      (Distance[p][targetInstList[e]] = -1 <=> Distance[q][targetInstList[e]] = -1)

(* ... and from where an event can be reached the later ones can be as well. *)
EventsFollow ==
  \A p \in DOMAIN Successors, e, later \in 1..Len(targetInstList) :
    e < later /\ Distance[p][targetInstList[e]] # -1 =>
      Distance[p][targetInstList[later]] # -1

(* The state returned when the target was reached has not been freed meanwhile, *)
(* although the instruction at the target may have ended it.                    *)
LastChoiceIsListed ==
  Selecting /\ getTarget /\ ~random => lastChoice \in listed

(* When every branch can go both ways, the search reaches the last event of the *)
(* trace unless it is interrupted.                                              *)
FindsTheTrace == <>(getTarget \/ haltExecution)

=============================================================================
