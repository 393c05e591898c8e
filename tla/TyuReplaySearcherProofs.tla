----------------------- MODULE TyuReplaySearcherProofs ------------------------
(***************************************************************************)
(* Proofs about TyuReplaySearcher for any program, any trace with at least *)
(* one event, any distances and any set of state addresses.  What is known *)
(* of the executor's bookkeeping is taken from ExecutorProofs, whose       *)
(* inductive invariant the guided search inherits.                         *)
(***************************************************************************)
EXTENDS TyuReplaySearcher, WellFoundedInduction, TLAPS

EP == INSTANCE ExecutorProofs WITH
        pool <- listed, MaxFork <- 1, Guided <- TRUE, UseSeeds <- FALSE,
        OnlyReplaySeeds <- FALSE, OnlySeed <- FALSE, MaxDepth <- FALSE,
        MaxInstructionTime <- FALSE, MaxMemory <- FALSE

(* The assumptions ExecutorProofs makes on its constants. *)
LEMMA ExecutorParameters == EP!ExecutorAssumption
  BY SearcherAssumption DEF EP!ExecutorAssumption

LEMMA SameVars == E!vars = EP!vars
  BY DEF E!vars, EP!vars, E!worklists, EP!worklists, E!search, EP!search

LEMMA SameInit == E!Init <=> EP!Init
  BY DEF E!Init, EP!Init

(* ExecutorProofs speaks of the same actions as this module's instance. *)
LEMMA SameNext == [E!Next]_(E!vars) <=> [EP!Next]_(EP!vars)
<1> USE DEF E!worklists, EP!worklists, E!search, EP!search, E!Goto, EP!Goto,
           E!Crash, EP!Crash, E!TerminateAllOf, EP!TerminateAllOf, E!Delete,
           EP!Delete, E!ForgetSeeds, EP!ForgetSeeds
<1>1. E!Seeding <=> EP!Seeding
  BY DEF E!Seeding, EP!Seeding, E!SeedingDone, EP!SeedingDone, E!SeedingHalted,
     EP!SeedingHalted, E!SelectSeeded, EP!SelectSeeded
<1>2. E!ConstructSearcher <=> EP!ConstructSearcher
  BY DEF E!ConstructSearcher, EP!ConstructSearcher
<1>3. E!LoopNext <=> EP!LoopNext
  BY DEF E!LoopNext, EP!LoopNext, E!Continue, EP!Continue
<1>4. E!LoopDone <=> EP!LoopDone
  BY DEF E!LoopDone, EP!LoopDone, E!Continue, EP!Continue
<1>5. E!Selection <=> EP!Selection
  BY DEF E!Selection, EP!Selection, E!SelectState, EP!SelectState, E!Prune,
     EP!Prune, E!GiveUp, EP!GiveUp
<1>6. E!Execution <=> EP!Execution
  <2>1. ASSUME NEW child \in State PROVE E!ExecuteFork(child) <=> EP!ExecuteFork(child)
    BY DEF E!ExecuteFork, EP!ExecuteFork, E!Allocate, EP!Allocate, E!DivideSeeds,
       EP!DivideSeeds, E!Cardinality, EP!Cardinality
  <2>2. ASSUME NEW C \in SUBSET State PROVE E!ExecuteBranch(C) <=> EP!ExecuteBranch(C)
    BY DEF E!ExecuteBranch, EP!ExecuteBranch, E!Allocate, EP!Allocate,
       E!DivideSeeds, EP!DivideSeeds, E!Cardinality, EP!Cardinality
  <2>3. ASSUME NEW C \in SUBSET State, NEW D \in SUBSET State
        PROVE  E!ExecuteMemoryOperation(C, D) <=> EP!ExecuteMemoryOperation(C, D)
    BY DEF E!ExecuteMemoryOperation, EP!ExecuteMemoryOperation, E!Allocate,
       EP!Allocate, E!DivideSeeds, EP!DivideSeeds, E!Cardinality, EP!Cardinality
  <2>4. E!ExecutePlain <=> EP!ExecutePlain
    BY DEF E!ExecutePlain, EP!ExecutePlain
  <2>5. E!ExecuteTerminate <=> EP!ExecuteTerminate
    BY DEF E!ExecuteTerminate, EP!ExecuteTerminate
  <2> QED
    BY <2>1, <2>2, <2>3, <2>4, <2>5 DEF E!Execution, EP!Execution
<1>7. E!Termination <=> EP!Termination
  BY DEF E!Termination, EP!Termination, E!TerminateWithoutSearcher,
     EP!TerminateWithoutSearcher, E!TerminateState, EP!TerminateState,
     E!TerminateFreed, EP!TerminateFreed,
     E!TargetFlag, EP!TargetFlag, E!InSearcher, EP!InSearcher
<1>8. E!Bookkeeping <=> EP!Bookkeeping
  BY DEF E!Bookkeeping, EP!Bookkeeping, E!Timers, EP!Timers, E!InstructionTimeout,
     EP!InstructionTimeout, E!NotTerminated, EP!NotTerminated, E!BelowMemoryCap, EP!BelowMemoryCap,
     E!KillOverMemoryCap, EP!KillOverMemoryCap, E!UpdateStates,
     EP!UpdateStates, E!UpdateAssertFails, EP!UpdateAssertFails, E!AfterTimers,
     EP!AfterTimers, E!SearcherUpdate, EP!SearcherUpdate, E!UpdatedStates,
     EP!UpdatedStates
<1>9. E!DumpStates <=> EP!DumpStates
  BY DEF E!DumpStates, EP!DumpStates
<1>10. E!Finish <=> EP!Finish
  BY DEF E!Finish, EP!Finish
<1>11. E!Interrupt <=> EP!Interrupt
  BY DEF E!Interrupt, EP!Interrupt
<1>12. E!Ended <=> EP!Ended
  BY DEF E!Ended, EP!Ended, E!vars, EP!vars
<1> QED
  BY <1>1, <1>2, <1>3, <1>4, <1>5, <1>6, <1>7, <1>8, <1>9, <1>10, <1>11, <1>12
     DEF E!Next, EP!Next, E!Step, EP!Step, E!vars, EP!vars

LEMMA InheritedStep == EP!IInv /\ [E!Next]_(E!vars) => EP!IInv'
  BY EP!NextIInv, ExecutorParameters, SameNext

(* What the proofs below use of the executor's invariant. *)
BookkeepingOK ==
  /\ E!TypeOK /\ E!SearcherTracksHeap /\ E!NothingLeaksOrDangles
  /\ phase = "crashed" <=> fault # "none"
  /\ phase \in {"loop", "select", "memory"} => hasSearcher
  /\ phase \in {"execute", "timers", "memory", "update"} => hasSearcher
  /\ phase \in {"construct", "loop", "select", "dump"} => addedStates = {}
  /\ phase \in {"construct", "loop", "dump"} => removedStates = {}
  /\ phase = "dump" => ~hasSearcher
  /\ ~hasSearcher => listed = {} /\ removedStates = {}
  /\ phase = "select" => states = listed
  /\ phase = "construct" => heap = states
  /\ phase = "execute" => current \in heap \ (addedStates \cup removedStates)
  /\ phase = "terminate" => resume \in {"select", "timers", "memory", "update"}

LEMMA Inherited == EP!IInv => BookkeepingOK
  BY DEF BookkeepingOK, EP!IInv, EP!TypeOK, EP!Phases, EP!PhasesOK, EP!PendingOK,
     EP!WorklistsOK,
     EP!CurrentOK, EP!Stepping, EP!SearcherTracksHeap, EP!NothingLeaksOrDangles,
     EP!Intact, E!TypeOK, E!Phases, E!SearcherTracksHeap, E!NothingLeaksOrDangles,
     E!Intact

-----------------------------------------------------------------------------
(* The inductive invariant *)

(* selectState scans only before the target is reached, and only a scan leaves *)
(* terminated states behind for the next round of its loop.                    *)
ScanOK ==
  /\ scanning => /\ ~getTarget
                 /\ phase \in {"select", "terminate", "crashed"}
                 /\ phase = "terminate" => resume = "select"
  /\ phase = "terminate" /\ resume = "select" => scanning
  /\ phase = "select" /\ ~scanning => removedStates = {}

(* The handlers of this configuration terminate no state the searcher does not *)
(* know yet, so that nothing is freed before updateStates.                     *)
DoomedOK == phase = "terminate" /\ hasSearcher => doomed \subseteq listed

TargetOK == ~getTarget => eventPtr < Len(targetInstList)

(* NoStateIsAhead for the states the searcher is not told of yet as well. *)
GoalsOK == \A s \in heap \ removedStates : goalsReached[s] <= eventPtr

(* The state at the target can be returned until run() is asked to halt, which *)
(* terminating it does.                                                        *)
LastChoiceOK ==
  getTarget /\ ~random /\ (~haltExecution \/ phase = "select") =>
    lastChoice \in listed \ removedStates

(* A state a scan has terminated is never looked at again: either the scan has   *)
(* gone back behind it since, or it stands in a block the cache calls hopeless.  *)
Dismissed(s) ==
  /\ goalsReached[s] >= eventPtr
  /\ goalsReached[s] = eventPtr =>
       Block[at[s]] \in DOMAIN bbCache /\ bbCache[Block[at[s]]] = -1

RemovedOK ==
  scanning => /\ \A s \in removedStates : Dismissed(s)
              /\ phase = "terminate" => \A s \in doomed : Dismissed(s)

SearchInv ==
  /\ EP!IInv
  /\ TypeOK
  /\ listed \subseteq heap
  /\ ScanOK
  /\ DoomedOK
  /\ TargetOK
  /\ GoalsOK
  /\ LastChoiceOK
  /\ RemovedOK

LEMMA InitSearchInv == Init => SearchInv
<1> SUFFICES ASSUME Init PROVE SearchInv
  OBVIOUS
<1>1. EP!IInv
  BY EP!InitIInv, ExecutorParameters, SameInit DEF Init
<1>2. listed \subseteq heap
  BY DEF Init, E!Init
<1>3. heap = {Initial} /\ removedStates = {} /\ phase = "construct" /\ ~getTarget
  BY DEF Init, E!Init
<1>4. TypeOK
  <2>1. E!TypeOK
    BY <1>1, Inherited DEF BookkeepingOK
  <2>2. {getToUserMain, random, scanning} \subseteq BOOLEAN
    BY DEF Init
  <2>3. eventPtr \in 0..Len(targetInstList)
    BY SearcherAssumption DEF Init
  <2>4. DOMAIN bbCache \subseteq {Block[p] : p \in DOMAIN Successors}
    BY DEF Init
  <2> QED
    BY <1>3, <2>1, <2>2, <2>3, <2>4, SearcherAssumption DEF Init, TypeOK
<1>5. ScanOK /\ DoomedOK /\ GoalsOK /\ LastChoiceOK /\ RemovedOK
  BY <1>3 DEF Init, ScanOK, DoomedOK, GoalsOK, LastChoiceOK, RemovedOK
<1>6. TargetOK
  BY SearcherAssumption DEF Init, TargetOK
<1> QED
  BY <1>1, <1>2, <1>4, <1>5, <1>6 DEF SearchInv

-----------------------------------------------------------------------------
(* A turn of the loop adds entries to the cache and changes none. *)
LEMMA OldEntry ==
  /\ DOMAIN FilledCache = DOMAIN bbCache \cup {Block[at[s]] : s \in Candidates}
  /\ \A b \in DOMAIN bbCache : FilledCache[b] = bbCache[b]
BY DEF FilledCache

(* So a state that is left when the hopeless ones are gone was not terminated. *)
LEMMA RemainingAreAlive ==
  ASSUME SearchInv, scanning, NEW s \in Remaining
  PROVE  s \in listed \ removedStates /\ goalsReached[s] = eventPtr
<1>1. s \in listed /\ goalsReached[s] = eventPtr /\ Dist(s) # -1
  BY DEF Remaining, Candidates, Hopeless
<1>2. s \in removedStates => Dist(s) = -1
  BY <1>1, OldEntry DEF SearchInv, RemovedOK, Dismissed, Dist
<1> QED
  BY <1>1, <1>2

-----------------------------------------------------------------------------
(* Every step of the guided search is a step of Executor, or none.          *)

LEMMA ReturnSelects ==
  ASSUME NEW s \in State, phase = "select", s \in listed \ removedStates,
         getTarget' \in {getTarget, TRUE}, UNCHANGED listed, Return(s)
  PROVE  E!Next
<1>1. E!SelectState(s)
  BY DEF Return, E!SelectState, E!Goto, E!worklists
<1> QED
  BY <1>1 DEF E!Next, E!Step, E!Selection

LEMMA StepRefines == SearchInv /\ [Next]_vars => [E!Next]_(E!vars)
<1> SUFFICES ASSUME SearchInv, [Next]_vars PROVE [E!Next]_(E!vars)
  OBVIOUS
<1>a. listed \subseteq State
  BY Inherited DEF BookkeepingOK, SearchInv, E!TypeOK
<1> USE DEF list, searcher, program
<1>1. CASE ConstructSearcher
  BY <1>1 DEF ConstructSearcher, E!Next, E!Step
<1>2. CASE UpdateStates
  BY <1>2 DEF UpdateStates, E!Next, E!Step, E!Bookkeeping
<1>3. CASE Elsewhere
  BY <1>3 DEF Elsewhere, E!Next, E!Step, E!Bookkeeping, E!Termination
<1>4. CASE LoopDone
  BY <1>4 DEF LoopDone, E!Next, E!Step
<1>5. CASE SelectBack
  <2>1. PICK s \in listed : Return(s)
    BY <1>5 DEF SelectBack
  <2>2. removedStates = {} /\ phase = "select"
    BY <1>5 DEF SelectBack, Selecting, SearchInv, ScanOK
  <2> QED
    BY <1>a, <1>5, <2>1, <2>2, ReturnSelects DEF SelectBack
<1>6. CASE SelectTarget
  <2>1. lastChoice \in listed \ removedStates
    BY <1>6 DEF SelectTarget, Selecting, SearchInv, LastChoiceOK
  <2> QED
    BY <1>a, <1>6, <2>1, ReturnSelects DEF SelectTarget, Selecting
<1>7. CASE BeginScan \/ ScanBacktracks
  BY <1>7 DEF BeginScan, ScanBacktracks, executor, E!vars, E!worklists, E!search
<1>8. CASE ScanTerminates
  <2> DEFINE D == Hopeless \ removedStates
  <2>1. D \subseteq listed \ removedStates /\ D # {} /\ ~getTarget
    BY <1>8 DEF Hopeless, HopelessGone, Candidates, ScanTerminates, SearchInv, ScanOK
  <2>2. E!Prune(D)
    BY <1>8, <2>1 DEF ScanTerminates, E!Prune, E!worklists, E!search
  <2>3. D \in SUBSET listed
    BY <2>1
  <2> QED
    BY <2>2, <2>3 DEF E!Next, E!Step, E!Selection
<1>9. CASE ScanPicks
  <2>1. PICK s \in Remaining :
          /\ Return(s)
          /\ getTarget' = (eventPtr + 1 = Len(targetInstList)) \/ UNCHANGED getTarget
    BY <1>9 DEF ScanPicks
  <2>2. ~getTarget /\ getTarget \in BOOLEAN
    BY <1>9 DEF ScanPicks, SearchInv, ScanOK, TypeOK, E!TypeOK
  <2>3. getTarget' \in {getTarget, TRUE}
    BY <2>1, <2>2, Zenon
  <2>4. s \in listed \ removedStates
    BY <1>9, RemainingAreAlive DEF ScanPicks
  <2> QED
    BY <1>a, <1>9, <2>1, <2>3, <2>4, ReturnSelects DEF ScanPicks
<1>10. CASE ScanGivesUp
  <2>1. listed \subseteq heap
    BY <1>10, Inherited DEF BookkeepingOK, SearchInv, ScanGivesUp, E!SearcherTracksHeap
  <2>2. ASSUME NEW s \in listed \ removedStates PROVE goalsReached[s] = eventPtr
    <3>1. goalsReached[s] \in Nat
      BY <2>1 DEF SearchInv, TypeOK
    <3>2. goalsReached[s] <= eventPtr /\ eventPtr = 0
      BY <1>10, <2>1 DEF ScanGivesUp, SearchInv, GoalsOK
    <3> QED
      BY <3>1, <3>2
  <2>3. listed \subseteq removedStates
    BY <1>10, <2>2 DEF ScanGivesUp, Candidates, Remaining, HopelessGone
  <2>4. E!GiveUp
    BY <1>10, <2>3 DEF ScanGivesUp, E!GiveUp, E!worklists
  <2> QED
    BY <2>4 DEF E!Next, E!Step, E!Selection
<1>11. CASE ExecuteExit
  BY <1>11 DEF ExecuteExit, E!Next, E!Step, E!Execution
<1>12. CASE ExecuteMove
  BY <1>12 DEF ExecuteMove, E!Next, E!Step, E!Execution
<1>13. ASSUME NEW s \in State, ExecuteFork(s) PROVE E!Next
  BY <1>13 DEF ExecuteFork, E!Next, E!Step, E!Execution
<1>14. ASSUME NEW s \in State, ExecuteSwitch(s) PROVE E!Next
  <2>1. E!ExecuteBranch({s}) /\ {s} \in SUBSET State
    BY <1>14 DEF ExecuteSwitch
  <2> QED
    BY <2>1 DEF E!Next, E!Step, E!Execution
<1>15. ASSUME NEW s \in State, Terminate(s) PROVE E!Next
  BY <1>15 DEF Terminate, E!Next, E!Step, E!Termination
<1>16. CASE Interrupt
  BY <1>16 DEF Interrupt, E!Next
<1>17. CASE UNCHANGED vars
  BY <1>17 DEF vars, executor, E!vars, E!worklists, E!search
<1> QED
  BY <1>1, <1>2, <1>3, <1>4, <1>5, <1>6, <1>7, <1>8, <1>9, <1>10, <1>11, <1>12,
     <1>13, <1>14, <1>15, <1>16, <1>17 DEF Next, Step, Ended

-----------------------------------------------------------------------------
(* A crash leaves the list as it was, or empty. *)
LEMMA CrashKeepsList ==
  ASSUME [Next]_vars, BookkeepingOK, phase' = "crashed"
  PROVE  (listed' = listed /\ heap' = heap) \/ listed' = {}
<1> USE DEF list
<1>1. ASSUME ConstructSearcher \/ UpdateStates PROVE FALSE
  BY <1>1 DEF ConstructSearcher, UpdateStates, E!ConstructSearcher, E!UpdateStates, E!Goto
<1>2. CASE Elsewhere
  BY <1>2 DEF Elsewhere, E!LoopNext, E!Timers, E!BelowMemoryCap, E!UpdateAssertFails,
     E!TerminateWithoutSearcher, E!DumpStates, E!Finish, E!worklists
<1>3. CASE LoopDone \/ ScanGivesUp
  BY <1>3 DEF LoopDone, E!LoopDone, ScanGivesUp
<1>4. CASE \/ SelectBack \/ SelectTarget \/ BeginScan \/ ScanTerminates \/ ScanPicks
           \/ ScanBacktracks \/ Interrupt \/ UNCHANGED vars
  BY <1>4 DEF SelectBack, SelectTarget, Return, BeginScan, ScanTerminates, ScanPicks,
     ScanBacktracks, Interrupt, E!Interrupt, executor, vars, E!worklists
<1>5. CASE ExecuteExit \/ ExecuteMove
  BY <1>5 DEF ExecuteExit, ExecuteMove, E!ExecuteTerminate, E!ExecutePlain, E!worklists
<1>6. ASSUME NEW s \in State, ExecuteFork(s) \/ ExecuteSwitch(s) PROVE FALSE
  BY <1>6 DEF ExecuteFork, ExecuteSwitch, E!ExecuteFork, E!ExecuteBranch, E!TerminateAllOf
<1>7. ASSUME NEW s \in State, Terminate(s) PROVE FALSE
  BY <1>7 DEF Terminate, E!TerminateState, E!Goto, BookkeepingOK
<1> QED
  BY <1>1, <1>2, <1>3, <1>4, <1>5, <1>6, <1>7 DEF Next, Step, Ended

(* Between a scan and the next selection only its own terminations happen. *)
LEMMA ScanSteps ==
  ASSUME SearchInv, [Next]_vars, scanning
  PROVE  \/ ScanTerminates \/ ScanPicks \/ ScanBacktracks \/ ScanGivesUp
         \/ \E s \in State : Terminate(s)
         \/ /\ phase' \in {phase, "crashed"}
            /\ UNCHANGED <<eventPtr, at, goalsReached, bbCache, removedStates, doomed>>
<1>a. phase \in {"select", "terminate", "crashed"}
  BY DEF SearchInv, ScanOK
<1> USE DEF searcher, program
<1>1. CASE ConstructSearcher \/ UpdateStates \/ LoopDone
  BY <1>a, <1>1 DEF ConstructSearcher, E!ConstructSearcher, UpdateStates, E!UpdateStates,
     LoopDone, E!LoopDone
<1>2. CASE Elsewhere
  BY <1>a, <1>2 DEF Elsewhere, E!LoopNext, E!Timers, E!BelowMemoryCap, E!UpdateAssertFails,
     E!TerminateWithoutSearcher, E!DumpStates, E!Finish, E!Crash, E!worklists
<1>3. CASE SelectBack \/ SelectTarget \/ BeginScan
  BY <1>3 DEF SelectBack, SelectTarget, BeginScan, Selecting
<1>4. CASE ExecuteExit \/ ExecuteMove
  BY <1>a, <1>4 DEF ExecuteExit, ExecuteMove
<1>5. ASSUME NEW s \in State, ExecuteFork(s) \/ ExecuteSwitch(s) PROVE FALSE
  BY <1>a, <1>5 DEF ExecuteFork, ExecuteSwitch, E!ExecuteBranch
<1>6. CASE Interrupt \/ UNCHANGED vars
  BY <1>6 DEF Interrupt, E!Interrupt, vars, executor, E!worklists
<1> QED
  BY <1>1, <1>2, <1>3, <1>4, <1>5, <1>6 DEF Next, Step, Ended

LEMMA ScanStarts ==
  ASSUME SearchInv, [Next]_vars, scanning', ~scanning
  PROVE  phase' # "terminate" /\ removedStates' = {}
<1> USE DEF searcher
<1>1. CASE BeginScan
  BY <1>1 DEF BeginScan, Selecting, executor, SearchInv, ScanOK
<1>2. CASE \/ ConstructSearcher \/ UpdateStates \/ Elsewhere \/ LoopDone \/ SelectBack
           \/ SelectTarget \/ ScanTerminates \/ ScanPicks \/ ScanBacktracks \/ ScanGivesUp
           \/ ExecuteExit \/ ExecuteMove \/ Interrupt \/ UNCHANGED vars
  BY <1>2 DEF ConstructSearcher, UpdateStates, Elsewhere, LoopDone, SelectBack, SelectTarget,
     ScanTerminates, ScanPicks, ScanBacktracks, ScanGivesUp, ExecuteExit, ExecuteMove,
     Interrupt, vars
<1>3. ASSUME NEW s \in State, ExecuteFork(s) \/ ExecuteSwitch(s) \/ Terminate(s)
      PROVE  UNCHANGED scanning
  BY <1>3 DEF ExecuteFork, ExecuteSwitch, Terminate
<1> QED
  BY <1>1, <1>2, <1>3 DEF Next, Step, Ended

LEMMA StepKeepsRemoved ==
  ASSUME SearchInv, [Next]_vars
  PROVE  RemovedOK'
<1> SUFFICES ASSUME scanning'
             PROVE  /\ \A s \in removedStates' : Dismissed(s)'
                    /\ phase' = "terminate" => \A s \in doomed' : Dismissed(s)'
  BY DEF RemovedOK
<1>1. CASE ~scanning
  BY <1>1, ScanStarts
<1>2. CASE scanning /\ ScanTerminates
  <2>1. UNCHANGED <<removedStates, goalsReached, at, eventPtr>> /\ bbCache' = FilledCache
    BY <1>2 DEF ScanTerminates, program
  <2>2. ASSUME NEW s \in removedStates PROVE Dismissed(s)'
    BY <1>2, <2>1, OldEntry DEF SearchInv, RemovedOK, Dismissed
  <2>3. ASSUME NEW s \in Hopeless PROVE Dismissed(s)'
    <3>1. s \in Candidates /\ FilledCache[Block[at[s]]] = -1
      BY DEF Hopeless, Dist
    <3>2. goalsReached[s] = eventPtr /\ eventPtr \in Nat
      BY <3>1, SearcherAssumption DEF Candidates, SearchInv, TypeOK
    <3> QED
      BY <2>1, <3>1, <3>2, OldEntry DEF Dismissed
  <2>4. doomed' = Hopeless \ removedStates
    BY <1>2 DEF ScanTerminates, E!TerminateAllOf
  <2> QED
    BY <2>1, <2>2, <2>3, <2>4
<1>3. CASE scanning /\ ScanBacktracks
  <2>1. /\ UNCHANGED <<phase, removedStates, goalsReached>> /\ eventPtr' = eventPtr - 1
        /\ phase = "select" /\ eventPtr \in Nat
    BY <1>3, SearcherAssumption DEF ScanBacktracks, EarlierEvent, executor, program, SearchInv,
       TypeOK
  <2>2. ASSUME NEW s \in removedStates PROVE Dismissed(s)'
    <3>1. goalsReached[s] >= eventPtr
      BY <1>3 DEF SearchInv, RemovedOK, Dismissed
    <3>2. s \in heap
      BY <2>1, Inherited DEF SearchInv, BookkeepingOK, E!SearcherTracksHeap
    <3>3. goalsReached[s] \in Nat
      BY <3>2 DEF SearchInv, TypeOK
    <3> QED
      BY <2>1, <3>1, <3>3 DEF Dismissed
  <2> QED
    BY <2>1, <2>2
<1>4. CASE scanning /\ (ScanPicks \/ ScanGivesUp)
  <2>1. CASE ScanPicks
    BY <2>1 DEF ScanPicks
  <2>2. CASE ScanGivesUp
    BY <1>4, <2>2 DEF ScanGivesUp, E!Crash, program, searcher, SearchInv, RemovedOK, Dismissed
  <2> QED
    BY <1>4, <2>1, <2>2
<1>5. ASSUME NEW s \in State, scanning, Terminate(s)
      PROVE  /\ \A t \in removedStates' : Dismissed(t)'
             /\ phase' = "terminate" => \A t \in doomed' : Dismissed(t)'
  <2>1. /\ removedStates' \subseteq removedStates \cup {s} /\ s \in doomed
        /\ doomed' \subseteq doomed /\ phase = "terminate"
    BY <1>5 DEF Terminate, E!TerminateState
  <2>2. UNCHANGED <<eventPtr, at, goalsReached, bbCache>>
    BY <1>5 DEF Terminate, program, searcher
  <2>3. \A t \in removedStates \cup doomed : Dismissed(t)
    BY <1>5, <2>1 DEF SearchInv, RemovedOK
  <2> QED
    BY <2>1, <2>2, <2>3 DEF Dismissed
<1>6. CASE /\ scanning /\ phase' \in {phase, "crashed"}
           /\ UNCHANGED <<eventPtr, at, goalsReached, bbCache, removedStates, doomed>>
  BY <1>6 DEF SearchInv, RemovedOK, Dismissed
<1> QED
  BY <1>1, <1>2, <1>3, <1>4, <1>5, <1>6, ScanSteps

(* Every step preserves the inductive invariant. *)

LEMMA NextSearchInv == SearchInv /\ [Next]_vars => SearchInv'
<1> SUFFICES ASSUME SearchInv, [Next]_vars PROVE SearchInv'
  OBVIOUS
<1>a. EP!IInv'
  BY StepRefines, InheritedStep DEF SearchInv
<1>b. BookkeepingOK /\ BookkeepingOK'
  <2>1. BookkeepingOK
    BY Inherited DEF SearchInv
  <2>2. BookkeepingOK'
    BY <1>a, Inherited, PTL
  <2> QED
    BY <2>1, <2>2
<1>c. (listed \subseteq heap)'
  <2>1. CASE fault' = "none"
    BY <1>b, <2>1 DEF BookkeepingOK, E!SearcherTracksHeap
  <2>2. CASE fault' # "none"
    <3>1. phase' = "crashed"
      BY <1>b, <2>2 DEF BookkeepingOK
    <3>2. (listed' = listed /\ heap' = heap) \/ listed' = {}
      BY <1>b, <3>1, CrashKeepsList
    <3> QED
      BY <3>2 DEF SearchInv
  <2> QED
    BY <2>1, <2>2
<1> DEFINE Own == TypeOK /\ ScanOK /\ DoomedOK /\ TargetOK /\ GoalsOK /\ LastChoiceOK
<1> SUFFICES Own'
  BY <1>a, <1>c, StepKeepsRemoved DEF SearchInv
<1> USE DEF list, searcher, program
<1>1. CASE ConstructSearcher
  <2> USE <1>1 DEF ConstructSearcher, E!ConstructSearcher, E!Goto, E!worklists
  <2>1. TypeOK'
    BY <1>b DEF SearchInv, TypeOK, BookkeepingOK, AddressOrder
  <2>2. ScanOK' /\ DoomedOK' /\ TargetOK' /\ GoalsOK'
    BY DEF SearchInv, ScanOK, DoomedOK, TargetOK, GoalsOK
  <2>3. LastChoiceOK'
    BY <1>b DEF SearchInv, LastChoiceOK, BookkeepingOK, E!SearcherTracksHeap
  <2> QED
    BY <2>1, <2>2, <2>3
<1>2. CASE UpdateStates
  <2> USE <1>2 DEF UpdateStates, E!UpdateStates, E!Goto, E!Delete, E!SearcherUpdate
  <2>1. TypeOK'
    BY <1>b DEF SearchInv, TypeOK, BookkeepingOK, UpdatedOrder, Restrict
  <2>2. ScanOK' /\ DoomedOK' /\ TargetOK'
    BY <1>b DEF SearchInv, ScanOK, DoomedOK, TargetOK, BookkeepingOK
  <2>3. GoalsOK'
    BY <1>b DEF SearchInv, GoalsOK, TypeOK, Restrict
  <2>4. LastChoiceOK'
    BY <1>b DEF SearchInv, LastChoiceOK, BookkeepingOK
  <2> QED
    BY <2>1, <2>2, <2>3, <2>4
<1>3. CASE Elsewhere
  <2> USE <1>3 DEF Elsewhere, E!LoopNext, E!Timers, E!BelowMemoryCap,
        E!UpdateAssertFails, E!TerminateWithoutSearcher, E!DumpStates,
        E!Finish, E!Goto, E!Crash, E!TerminateAllOf, E!worklists, E!search, E!AfterTimers,
        E!Continue
  <2>1. TypeOK'
    BY <1>b DEF SearchInv, TypeOK, BookkeepingOK
  <2>2. ScanOK'
    BY <1>b DEF SearchInv, ScanOK, BookkeepingOK
  <2>3. DoomedOK' /\ TargetOK' /\ GoalsOK'
    BY <1>b DEF SearchInv, DoomedOK, TargetOK, GoalsOK, BookkeepingOK
  <2>4. LastChoiceOK'
    BY <1>b DEF SearchInv, LastChoiceOK, BookkeepingOK
  <2> QED
    BY <2>1, <2>2, <2>3, <2>4
<1>4. CASE LoopDone
  <2> USE <1>4 DEF LoopDone, E!LoopDone, E!Goto, E!worklists, E!Continue
  <2>1. TypeOK'
    BY <1>b DEF SearchInv, TypeOK, BookkeepingOK
  <2>2. ScanOK' /\ DoomedOK' /\ TargetOK' /\ GoalsOK'
    BY <1>b DEF SearchInv, ScanOK, DoomedOK, TargetOK, GoalsOK, BookkeepingOK
  <2>3. LastChoiceOK'
    BY <1>b DEF SearchInv, LastChoiceOK, BookkeepingOK, E!NothingLeaksOrDangles,
       E!SearcherTracksHeap, E!Intact
  <2> QED
    BY <2>1, <2>2, <2>3
<1>5. CASE SelectBack \/ SelectTarget
  <2>1. PICK s \in State : Return(s)
    BY <1>b, <1>5 DEF SelectBack, SelectTarget, Selecting, SearchInv, LastChoiceOK,
       BookkeepingOK, E!TypeOK
  <2> USE <1>5, <2>1 DEF SelectBack, SelectTarget, Return, Selecting
  <2>2. TypeOK'
    <3>1. getToUserMain \in BOOLEAN /\ {random, scanning} \subseteq BOOLEAN
      BY DEF SearchInv, TypeOK
    <3>2. InMain \in BOOLEAN
      BY <3>1, Zenon DEF InMain
    <3>3. getToUserMain' \in BOOLEAN /\ {random, scanning}' \subseteq BOOLEAN
      BY <3>1, <3>2
    <3> QED
      BY <1>b, <3>3 DEF SearchInv, TypeOK, BookkeepingOK
  <2>3. ScanOK' /\ DoomedOK' /\ TargetOK' /\ GoalsOK' /\ LastChoiceOK'
    BY <1>b DEF SearchInv, ScanOK, DoomedOK, TargetOK, GoalsOK, LastChoiceOK
  <2> QED
    BY <2>2, <2>3
<1>6. CASE BeginScan
  <2> USE <1>6 DEF BeginScan, Selecting, executor
  <2>1. TypeOK'
    BY <1>b DEF SearchInv, TypeOK, BookkeepingOK
  <2>2. ScanOK' /\ DoomedOK' /\ TargetOK' /\ GoalsOK' /\ LastChoiceOK'
    BY DEF SearchInv, ScanOK, DoomedOK, TargetOK, GoalsOK, LastChoiceOK
  <2> QED
    BY <2>1, <2>2
<1>7. ASSUME phase = "select"
      PROVE  /\ DOMAIN FilledCache \subseteq {Block[p] : p \in DOMAIN Successors}
             /\ listed = heap
  <2>1. DOMAIN FilledCache
          = DOMAIN bbCache \cup ({Block[at[s]] : s \in Candidates} \ DOMAIN bbCache)
    BY DEF FilledCache
  <2>2. listed = heap
    BY <1>b, <1>7 DEF BookkeepingOK, E!SearcherTracksHeap
  <2>3. ASSUME NEW s \in Candidates PROVE at[s] \in DOMAIN Successors
    BY <2>2 DEF Candidates, SearchInv, TypeOK
  <2>4. {Block[at[s]] : s \in Candidates} \subseteq {Block[p] : p \in DOMAIN Successors}
    BY <2>3
  <2> QED
    BY <2>1, <2>2, <2>4 DEF SearchInv, TypeOK
<1>8. CASE ScanTerminates
  <2> USE <1>8 DEF ScanTerminates, E!TerminateAllOf
  <2>1. TypeOK'
    BY <1>b, <1>7 DEF SearchInv, TypeOK, BookkeepingOK
  <2>2. ScanOK'
    BY DEF SearchInv, ScanOK
  <2>3. DoomedOK'
    BY DEF DoomedOK, Hopeless, HopelessGone, Candidates
  <2>4. TargetOK' /\ GoalsOK'
    BY DEF SearchInv, TargetOK, GoalsOK
  <2>5. LastChoiceOK'
    BY DEF SearchInv, ScanOK, LastChoiceOK
  <2> QED
    BY <2>1, <2>2, <2>3, <2>4, <2>5
<1>9. CASE ScanPicks
  <2>1. PICK s \in Remaining :
          /\ lastChoice' = s
          /\ Return(s)
          /\ IF Instruction[at[s]] = Target
               THEN /\ eventPtr' = eventPtr + 1
                    /\ goalsReached' = [goalsReached EXCEPT ![s] = @ + 1]
                    /\ passed' = [passed EXCEPT ![s] = @ + 1]
                    /\ getTarget' = (eventPtr + 1 = Len(targetInstList))
                    /\ bbCache' = << >>
               ELSE /\ bbCache' = FilledCache
                    /\ UNCHANGED <<eventPtr, goalsReached, passed, getTarget>>
    BY <1>9 DEF ScanPicks, CacheAfterEvent
  <2>2. phase = "select" /\ scanning /\ phase' = "execute" /\ scanning' = FALSE
    BY <1>9, <2>1 DEF ScanPicks, Return
  <2>3. UNCHANGED <<states, addedStates, removedStates, heap, hasSearcher,
                    haltExecution, at, getToUserMain, random, listed, before>>
    BY <1>9, <2>1 DEF ScanPicks, Return
  <2>4. s \in listed \ removedStates /\ s \in heap /\ s \in State /\ goalsReached[s] = eventPtr
    BY <1>b, <1>7, <2>2, RemainingAreAlive DEF BookkeepingOK, E!TypeOK
  <2>5. ~getTarget /\ eventPtr \in Nat /\ Len(targetInstList) \in Nat
                   /\ eventPtr < Len(targetInstList)
    BY <2>2, SearcherAssumption DEF SearchInv, ScanOK, TargetOK, TypeOK
  <2>6. eventPtr' \in 0..Len(targetInstList) /\ eventPtr <= eventPtr' /\ TargetOK'
    <3>1. CASE Instruction[at[s]] = Target
      <4>1. eventPtr' = eventPtr + 1
        BY <2>1, <3>1
      <4>2. ~getTarget' => eventPtr + 1 # Len(targetInstList)
        BY <2>1, <3>1, Zenon
      <4> QED
        BY <2>5, <4>1, <4>2 DEF TargetOK
    <3>2. CASE Instruction[at[s]] # Target
      BY <2>1, <2>5, <3>2 DEF TargetOK
    <3> QED
      BY <3>1, <3>2
  <2>7. /\ DOMAIN goalsReached' = heap /\ DOMAIN passed' = heap
        /\ \A t \in heap : goalsReached'[t] \in Nat
        /\ \A t \in heap \ {s} : goalsReached'[t] = goalsReached[t]
        /\ goalsReached'[s] = eventPtr'
    <3>1. CASE Instruction[at[s]] = Target
      BY <2>1, <2>4, <2>5, <3>1 DEF SearchInv, TypeOK
    <3>2. CASE Instruction[at[s]] # Target
      BY <2>1, <2>4, <2>5, <3>2 DEF SearchInv, TypeOK
    <3> QED
      BY <3>1, <3>2
  <2>8. DOMAIN bbCache' \subseteq {Block[p] : p \in DOMAIN Successors}
    BY <1>7, <2>1, <2>2
  <2>9. TypeOK'
    <3>1. {getToUserMain, random, scanning}' \subseteq BOOLEAN
      BY <2>2, <2>3 DEF SearchInv, TypeOK
    <3>2. /\ (before \subseteq listed \X listed)'
          /\ \A t \in heap' : at'[t] \in DOMAIN Successors
          /\ DOMAIN at' = heap'
      BY <2>3 DEF SearchInv, TypeOK
    <3>3. lastChoice' \in State
      BY <2>1, <2>4
    <3> QED
      BY <1>b, <2>3, <2>6, <2>7, <2>8, <3>1, <3>2, <3>3 DEF TypeOK, BookkeepingOK
  <2>10. ScanOK' /\ DoomedOK'
    BY <2>2 DEF ScanOK, DoomedOK
  <2>11. GoalsOK'
    <3> SUFFICES ASSUME NEW t \in heap \ removedStates PROVE goalsReached'[t] <= eventPtr'
      BY <2>3 DEF GoalsOK
    <3>1. goalsReached[t] <= eventPtr /\ goalsReached[t] \in Nat
      BY DEF SearchInv, GoalsOK, TypeOK
    <3> QED
      BY <2>5, <2>6, <2>7, <3>1
  <2>12. LastChoiceOK'
    BY <2>1, <2>3, <2>4 DEF LastChoiceOK
  <2> QED
    BY <2>6, <2>9, <2>10, <2>11, <2>12
<1>10. CASE ScanBacktracks
  <2> USE <1>10 DEF ScanBacktracks, EarlierEvent, executor
  <2>1. eventPtr' \in 0..Len(targetInstList) /\ TargetOK'
    BY SearcherAssumption DEF SearchInv, TypeOK, TargetOK
  <2>2. TypeOK'
    BY <1>b, <2>1 DEF SearchInv, TypeOK, BookkeepingOK
  <2>3. ScanOK' /\ DoomedOK' /\ LastChoiceOK'
    BY DEF SearchInv, ScanOK, DoomedOK, LastChoiceOK
  <2>4. GoalsOK'
    <3> SUFFICES ASSUME NEW s \in heap \ removedStates
                 PROVE  goalsReached[s] <= eventPtr - 1
      BY DEF GoalsOK
    <3>1. goalsReached[s] # eventPtr
      BY <1>7 DEF Candidates, Remaining, HopelessGone
    <3>2. goalsReached[s] \in Nat /\ goalsReached[s] <= eventPtr /\ eventPtr \in Nat
      BY SearcherAssumption DEF SearchInv, GoalsOK, TypeOK
    <3> QED
      BY <3>1, <3>2
  <2> QED
    BY <2>1, <2>2, <2>3, <2>4
<1>11. CASE ScanGivesUp
  <2> USE <1>11 DEF ScanGivesUp, E!Crash
  <2>1. TypeOK'
    BY <1>b DEF SearchInv, TypeOK, BookkeepingOK
  <2>2. ScanOK' /\ DoomedOK' /\ TargetOK' /\ GoalsOK' /\ LastChoiceOK'
    BY DEF SearchInv, ScanOK, DoomedOK, TargetOK, GoalsOK, LastChoiceOK
  <2> QED
    BY <2>1, <2>2
<1>12. phase = "execute" => current \in heap \ removedStates /\ current \in listed
  BY <1>b DEF BookkeepingOK, E!SearcherTracksHeap
<1>13. CASE ExecuteExit
  <2> USE <1>13 DEF ExecuteExit, E!ExecuteTerminate, E!TerminateAllOf, E!worklists, E!search
  <2>1. TypeOK'
    BY <1>b DEF SearchInv, TypeOK, BookkeepingOK
  <2>2. ScanOK' /\ DoomedOK' /\ TargetOK' /\ GoalsOK' /\ LastChoiceOK'
    BY <1>12 DEF SearchInv, ScanOK, DoomedOK, TargetOK, GoalsOK, LastChoiceOK
  <2> QED
    BY <2>1, <2>2
<1>14. CASE ExecuteMove
  <2> USE <1>14 DEF ExecuteMove, E!ExecutePlain, E!Goto, E!worklists, E!search
  <2>1. PICK p \in Range(Successors[at[current]]) : at' = [at EXCEPT ![current] = p]
    OBVIOUS
  <2>2. p \in DOMAIN Successors
    BY <1>12, SearcherAssumption DEF SearchInv, TypeOK, Range
  <2>3. TypeOK'
    BY <1>b, <2>1, <2>2 DEF SearchInv, TypeOK, BookkeepingOK
  <2>4. ScanOK' /\ DoomedOK' /\ TargetOK' /\ GoalsOK' /\ LastChoiceOK'
    BY DEF SearchInv, ScanOK, DoomedOK, TargetOK, GoalsOK, LastChoiceOK
  <2> QED
    BY <2>3, <2>4
<1>15. ASSUME NEW child \in State \ heap, NEW here \in DOMAIN Successors,
              NEW there \in DOMAIN Successors, NEW goals \in Nat,
              phase = "execute", phase' \in {"timers", "execute"}, scanning' = FALSE,
              heap' = heap \cup {child}, Child(child, here, there),
              goalsReached' = [s \in heap \cup {child} |->
                                 IF s = child THEN goals ELSE goalsReached[s]],
              goals <= goalsReached[current],
              UNCHANGED <<searcher, list, removedStates, haltExecution>>
       PROVE  Own'
  <2>1. current \in heap \ removedStates /\ child \notin heap
    BY <1>12, <1>15
  <2>2. /\ DOMAIN at' = heap' /\ DOMAIN goalsReached' = heap' /\ DOMAIN passed' = heap'
        /\ \A s \in heap' : at'[s] \in DOMAIN Successors /\ goalsReached'[s] \in Nat
    BY <1>15, <2>1 DEF Child, SearchInv, TypeOK
  <2>3. TypeOK'
    BY <1>b, <1>15, <2>2 DEF SearchInv, TypeOK, BookkeepingOK
  <2>4. ScanOK' /\ DoomedOK' /\ TargetOK' /\ LastChoiceOK'
    BY <1>15 DEF SearchInv, ScanOK, DoomedOK, TargetOK, LastChoiceOK
  <2>5. GoalsOK'
    <3> SUFFICES ASSUME NEW s \in heap' \ removedStates PROVE goalsReached'[s] <= eventPtr
      BY <1>15 DEF GoalsOK
    <3>1. \A t \in heap \ removedStates : goalsReached[t] <= eventPtr /\ goalsReached[t] \in Nat
      BY DEF SearchInv, GoalsOK, TypeOK
    <3>2. eventPtr \in Nat
      BY SearcherAssumption DEF SearchInv, TypeOK
    <3> QED
      BY <1>15, <2>1, <3>1, <3>2
  <2> QED
    BY <2>3, <2>4, <2>5
<1>16. phase = "execute" /\ Len(Successors[at[current]]) = 2 =>
         \A i \in {1, 2} : Successors[at[current]][i] \in DOMAIN Successors
  BY <1>12, SearcherAssumption DEF SearchInv, TypeOK
<1>17. phase = "execute" => goalsReached[current] \in Nat /\ scanning = FALSE
  BY <1>12 DEF SearchInv, TypeOK, ScanOK
<1>18. ASSUME NEW s \in State, ExecuteFork(s) PROVE Own'
  <2>1. heap' = heap \cup {s} /\ s \in State \ heap /\ phase' = "timers"
    BY <1>18 DEF ExecuteFork, E!ExecuteFork, E!Allocate, E!TerminateAllOf
  <2>2. UNCHANGED <<searcher, list, removedStates, haltExecution>>
    BY <1>18 DEF ExecuteFork, E!ExecuteFork
  <2>3. phase = "execute" /\ scanning' = FALSE /\ goalsReached[current] \in Nat
    BY <1>17, <1>18, <2>2 DEF ExecuteFork
  <2>4. /\ Child(s, Successors[at[current]][1], Successors[at[current]][2])
        /\ goalsReached' = [t \in heap \cup {s} |->
                              IF t = s THEN goalsReached[current] ELSE goalsReached[t]]
        /\ goalsReached[current] <= goalsReached[current]
    BY <1>18, <2>3 DEF ExecuteFork, ForkGoals
  <2>5. /\ Successors[at[current]][1] \in DOMAIN Successors
        /\ Successors[at[current]][2] \in DOMAIN Successors
    BY <1>16, <1>18 DEF ExecuteFork
  <2> HIDE DEF Own, list, searcher, program
  <2> QED
    BY <1>15, <2>1, <2>2, <2>3, <2>4, <2>5
<1>19. ASSUME NEW s \in State, ExecuteSwitch(s) PROVE Own'
  <2>1. heap' = heap \cup {s} /\ s \in State \ heap /\ phase' = "timers"
    BY <1>19 DEF ExecuteSwitch, E!ExecuteBranch, E!Allocate, E!TerminateAllOf
  <2>2. UNCHANGED <<searcher, list, removedStates, haltExecution>>
    BY <1>19 DEF ExecuteSwitch, E!ExecuteBranch
  <2>3. phase = "execute" /\ scanning' = FALSE /\ 0 <= goalsReached[current]
    BY <1>17, <1>19, <2>2 DEF ExecuteSwitch
  <2>4. PICK i \in {1, 2} :
          Child(s, Successors[at[current]][i], Successors[at[current]][3 - i])
    BY <1>19 DEF ExecuteSwitch
  <2>5. goalsReached' = [t \in heap \cup {s} |-> IF t = s THEN 0 ELSE goalsReached[t]]
    BY <1>19 DEF ExecuteSwitch
  <2>6. /\ Successors[at[current]][i] \in DOMAIN Successors
        /\ Successors[at[current]][3 - i] \in DOMAIN Successors
    <3>1. 3 - i \in {1, 2}
      BY <2>4
    <3> QED
      BY <1>16, <1>19, <2>4, <3>1 DEF ExecuteSwitch
  <2> HIDE DEF Own, list, searcher, program
  <2> QED
    BY <1>15, <2>1, <2>2, <2>3, <2>4, <2>5, <2>6
<1>20. ASSUME NEW s \in State, Terminate(s) PROVE Own'
  <2> USE <1>20 DEF Terminate, E!TerminateState, E!Goto, E!search
  <2>1. s \in listed /\ s \notin addedStates
    BY <1>b DEF SearchInv, DoomedOK, BookkeepingOK, E!SearcherTracksHeap
  <2>2. removedStates' = removedStates \cup {s} /\ UNCHANGED heap
    BY <2>1 DEF E!InSearcher
  <2>3. TypeOK'
    BY <1>b, <2>2 DEF SearchInv, TypeOK, BookkeepingOK
  <2>4. ScanOK' /\ DoomedOK' /\ TargetOK'
    BY <1>b DEF SearchInv, ScanOK, DoomedOK, TargetOK, BookkeepingOK
  <2>5. GoalsOK'
    BY <2>2 DEF SearchInv, GoalsOK
  <2>6. LastChoiceOK'
    <3>1. getTarget => haltExecution' /\ phase' # "select"
      BY <1>b DEF E!TargetFlag, SearchInv, ScanOK, BookkeepingOK
    <3> QED
      BY <3>1 DEF LastChoiceOK
  <2> QED
    BY <2>3, <2>4, <2>5, <2>6
<1>21. CASE Interrupt
  <2> USE <1>21 DEF Interrupt, E!Interrupt, E!worklists, E!search
  <2>1. TypeOK'
    BY <1>b DEF SearchInv, TypeOK, BookkeepingOK
  <2>2. ScanOK' /\ DoomedOK' /\ TargetOK' /\ GoalsOK' /\ LastChoiceOK'
    BY DEF SearchInv, ScanOK, DoomedOK, TargetOK, GoalsOK, LastChoiceOK
  <2> QED
    BY <2>1, <2>2
<1>22. CASE UNCHANGED vars
  <2> USE <1>22 DEF vars, executor
  <2>1. TypeOK'
    BY <1>b DEF SearchInv, TypeOK, BookkeepingOK
  <2>2. ScanOK' /\ DoomedOK' /\ TargetOK' /\ GoalsOK' /\ LastChoiceOK'
    BY DEF SearchInv, ScanOK, DoomedOK, TargetOK, GoalsOK, LastChoiceOK
  <2> QED
    BY <2>1, <2>2
<1> QED
  <2> HIDE DEF Own
  <2> QED
    BY <1>1, <1>2, <1>3, <1>4, <1>5, <1>6, <1>8, <1>9, <1>10, <1>11, <1>13, <1>14,
       <1>18, <1>19, <1>20, <1>21, <1>22 DEF Next, Step, Ended

LEMMA Invariance == Spec => []SearchInv
  BY InitSearchInv, NextSearchInv, PTL DEF Spec

-----------------------------------------------------------------------------
(* Theorems *)

(* Every variable stays in its domain: in particular the searcher never goes  *)
(* back before the first event or past the last one, the positions of all     *)
(* states stay in the program, and the list's order mentions no removed state. *)
THEOREM TypeCorrect == Spec => []TypeOK
<1>1. SearchInv => TypeOK
  BY DEF SearchInv
<1> QED
  BY <1>1, Invariance, PTL

(* No state of the list is ever ahead of the searcher, however often it goes *)
(* back (Searcher.cpp:783), so that none is passed over for good.            *)
THEOREM NoneAhead == Spec => []NoStateIsAhead
<1>1. SearchInv => NoStateIsAhead
  BY DEF SearchInv, GoalsOK, NoStateIsAhead
<1> QED
  BY <1>1, Invariance, PTL

(* The state returned once the target is reached has not been freed: ending it *)
(* makes terminateState ask the run to halt before the searcher is asked again. *)
THEOREM TargetStateIsListed == Spec => []LastChoiceIsListed
<1>1. SearchInv => LastChoiceIsListed
  BY DEF SearchInv, LastChoiceOK, LastChoiceIsListed, Selecting
<1> QED
  BY <1>1, Invariance, PTL

(* The guided searcher is one of those Executor allows, whatever the program, the *)
(* trace and the distances are.                                                   *)
THEOREM Refinement == Spec => ImplementsExecutor
<1>1. Init => E!Init
  BY DEF Init
<1> QED
  BY <1>1, Invariance, StepRefines, PTL DEF Spec, ImplementsExecutor, E!Spec

(* By transitivity the guided search loses no path: although it prunes states     *)
(* while it selects, goes back, and returns states twice, a path leaves the set   *)
(* under exploration only by terminateState and returns to it only as a child.    *)
THEOREM GuidedSearchExplores == Spec => EP!ImplementsExploration
<1>1. Init => EP!Init
  BY SameInit DEF Init
<1>2. SearchInv /\ [Next]_vars => [EP!Next]_(EP!vars)
  BY StepRefines, SameNext
<1>3. SearchInv => EP!IInv
  BY DEF SearchInv
<1>4. EP!Init => EP!Abstract!Init
  BY EP!InitRefines, ExecutorParameters
<1>5. EP!IInv /\ EP!IInv' /\ [EP!Next]_(EP!vars) => [EP!Abstract!Next]_(EP!Abstract!vars)
  BY EP!StepRefines, ExecutorParameters
<1> QED
  BY <1>1, <1>2, <1>3, <1>4, <1>5, Invariance, PTL
     DEF Spec, EP!ImplementsExploration, EP!Abstract!Spec

(* fork() hands goalsReached on; branch() does not, so switches are excluded. *)
LEMMA StepKeepsGoals ==
  ASSUME Switches = {}, SearchInv, GoalsMatchPath, [Next]_vars
  PROVE  GoalsMatchPath'
<1> USE DEF list, searcher, program
<1>a. BookkeepingOK
  BY Inherited DEF SearchInv
<1>1. CASE UNCHANGED <<heap, goalsReached, passed>>
  BY <1>1 DEF GoalsMatchPath
<1>2. CASE UpdateStates
  BY <1>2 DEF UpdateStates, E!UpdateStates, E!Delete, GoalsMatchPath, SearchInv, TypeOK, Restrict
<1>3. CASE ScanPicks
  <2>1. PICK s \in Remaining :
          \/ UNCHANGED <<goalsReached, passed>>
          \/ /\ goalsReached' = [goalsReached EXCEPT ![s] = @ + 1]
             /\ passed' = [passed EXCEPT ![s] = @ + 1]
    BY <1>3 DEF ScanPicks
  <2>2. UNCHANGED heap
    BY <1>3 DEF ScanPicks, Return
  <2> QED
    BY <2>1, <2>2 DEF GoalsMatchPath, SearchInv, TypeOK
<1>4. ASSUME NEW s \in State, ExecuteFork(s) PROVE GoalsMatchPath'
  <2>1. heap' = heap \cup {s} /\ s \notin heap /\ current \in heap
    BY <1>a, <1>4 DEF ExecuteFork, E!ExecuteFork, E!Allocate, BookkeepingOK
  <2> QED
    BY <1>4, <2>1 DEF ExecuteFork, Child, ForkGoals, GoalsMatchPath
<1>5. ASSUME NEW s \in State, Terminate(s) PROVE UNCHANGED <<heap, goalsReached, passed>>
  <2>1. s \notin addedStates
    BY <1>a, <1>5 DEF Terminate, E!TerminateState, SearchInv, DoomedOK, BookkeepingOK,
       E!SearcherTracksHeap
  <2> QED
    BY <1>5, <2>1 DEF Terminate, E!TerminateState, E!InSearcher
<1>6. ASSUME NEW s \in State PROVE ~ExecuteSwitch(s)
  BY DEF ExecuteSwitch
<1>7. CASE \/ ConstructSearcher \/ LoopDone \/ SelectBack \/ SelectTarget \/ BeginScan
           \/ ScanTerminates \/ ScanBacktracks \/ ScanGivesUp \/ Interrupt
  BY <1>1, <1>7 DEF ConstructSearcher, E!ConstructSearcher, LoopDone, E!LoopDone, SelectBack,
     SelectTarget, Return, BeginScan, ScanTerminates, ScanBacktracks, ScanGivesUp,
     Interrupt, E!Interrupt, executor, E!worklists
<1>8. CASE Elsewhere
  BY <1>1, <1>8 DEF Elsewhere, E!LoopNext, E!Timers, E!BelowMemoryCap,
     E!UpdateAssertFails, E!TerminateWithoutSearcher, E!DumpStates,
     E!Finish, E!worklists
<1>9. CASE ExecuteExit \/ ExecuteMove
  BY <1>1, <1>9 DEF ExecuteExit, ExecuteMove, E!ExecuteTerminate, E!ExecutePlain, E!worklists
<1>10. CASE UNCHANGED vars
  BY <1>1, <1>10 DEF vars, executor
<1> QED
  BY <1>1, <1>2, <1>3, <1>4, <1>5, <1>6, <1>7, <1>8, <1>9, <1>10 DEF Next, Step, Ended

(* In a program without switches goalsReached counts the events on a state's own *)
(* path, through forks and while the searcher goes back.                         *)
THEOREM GoalsFollowPaths == Switches = {} => (Spec => []GoalsMatchPath)
<1> SUFFICES ASSUME Switches = {} PROVE Spec => []GoalsMatchPath
  OBVIOUS
<1>1. Init => GoalsMatchPath
  BY DEF Init, E!Init, GoalsMatchPath
<1>2. SearchInv /\ GoalsMatchPath /\ [Next]_vars => GoalsMatchPath'
  BY StepKeepsGoals
<1> QED
  BY <1>1, <1>2, Invariance, PTL DEF Spec

-----------------------------------------------------------------------------
(* What a scan finds: a first state in each block and, when none is hopeless, *)
(* a closest one.                                                             *)

(* The list's order has a first element in every part of the list. *)
OrderOK ==
  \A S \in SUBSET listed : S # {} => \E s \in S : \A t \in S \ {s} : <<s, t>> \in before

CacheTyped == \A b \in DOMAIN bbCache : bbCache[b] \in Nat \cup {-1}

ListInv == SearchInv /\ OrderOK /\ CacheTyped

Less == {p \in Nat \X Nat : p[1] < p[2]}

LEMMA LessIsWellFounded == IsWellFoundedOn(Less, Nat)
  BY NatLessThanWellFounded, Zenon DEF OpToRel, Less

LEMMA LeastNumber ==
  ASSUME NEW S \in SUBSET Nat, S # {}
  PROVE  \E s \in S : \A t \in S : s <= t
<1>1. PICK s \in S : \A t \in S : <<t, s>> \notin Less
  BY LessIsWellFounded, WFMin
<1>2. ASSUME NEW t \in S PROVE s <= t
  <2>1. s \in Nat /\ t \in Nat /\ <<t, s>> \notin Less
    BY <1>1
  <2>2. ~(t < s)
    BY <2>1 DEF Less
  <2> QED
    BY <2>1, <2>2
<1> QED
  BY <1>1, <1>2

LEMMA LowestAddress ==
  ASSUME NEW S \in SUBSET State, S # {}
  PROVE  \E s \in S : \A t \in S \ {s} : <<s, t>> \in AddressOrder(S)
<1>1. S \in SUBSET Nat
  BY SearcherAssumption
<1>2. PICK s \in S : \A t \in S : s <= t
  BY <1>1, LeastNumber
<1>3. ASSUME NEW t \in S \ {s} PROVE <<s, t>> \in AddressOrder(S)
  <2>1. s <= t /\ s # t /\ s \in Nat /\ t \in Nat
    BY <1>1, <1>2
  <2> QED
    BY <2>1 DEF AddressOrder
<1> QED
  BY <1>3

LEMMA TargetTyped ==
  ASSUME SearchInv, ~getTarget, NEW p \in DOMAIN Successors
  PROVE  Distance[p][Target] \in Nat \cup {-1}
<1>1. eventPtr + 1 \in 1..Len(targetInstList)
  BY SearcherAssumption DEF SearchInv, TypeOK, TargetOK
<1> QED
  BY <1>1, SearcherAssumption DEF Target

LEMMA CandidatesListed ==
  ASSUME ListInv
  PROVE  \A s \in Candidates : s \in listed /\ s \in heap /\ at[s] \in DOMAIN Successors
BY DEF Candidates, ListInv, SearchInv, TypeOK

(* The entry a scan makes for a block is the distance of a candidate in it. *)
LEMMA NewEntry ==
  ASSUME ListInv, NEW b \in DOMAIN FilledCache, b \notin DOMAIN bbCache
  PROVE  \E s \in Candidates : Block[at[s]] = b /\ FilledCache[b] = Distance[at[s]][Target]
<1> DEFINE missing == {Block[at[s]] : s \in Candidates} \ DOMAIN bbCache
           inBlock(c) == {s \in Candidates : Block[at[s]] = c}
           first(c) == CHOOSE s \in inBlock(c) : \A t \in inBlock(c) \ {s} : <<s, t>> \in before
<1>1. FilledCache = [c \in DOMAIN bbCache \cup missing |->
                       IF c \in missing THEN Distance[at[first(c)]][Target] ELSE bbCache[c]]
  BY DEF FilledCache
<1>2. b \in missing
  BY <1>1
<1>3. inBlock(b) # {} /\ inBlock(b) \in SUBSET listed
  BY <1>2, CandidatesListed
<1>4. \E s \in inBlock(b) : \A t \in inBlock(b) \ {s} : <<s, t>> \in before
  BY <1>3 DEF ListInv, OrderOK
<1>5. first(b) \in inBlock(b)
  BY <1>4
<1>6. FilledCache[b] = Distance[at[first(b)]][Target]
  BY <1>1, <1>2
<1> QED
  BY <1>5, <1>6

LEMMA FilledTyped ==
  ASSUME ListInv, ~getTarget
  PROVE  \A b \in DOMAIN FilledCache : FilledCache[b] \in Nat \cup {-1}
<1> SUFFICES ASSUME NEW b \in DOMAIN FilledCache PROVE FilledCache[b] \in Nat \cup {-1}
  OBVIOUS
<1>1. CASE b \in DOMAIN bbCache
  BY <1>1, OldEntry DEF ListInv, CacheTyped
<1>2. CASE b \notin DOMAIN bbCache
  <2>1. PICK s \in Candidates : FilledCache[b] = Distance[at[s]][Target]
    BY <1>2, NewEntry
  <2> QED
    BY <2>1, CandidatesListed, TargetTyped DEF ListInv
<1> QED
  BY <1>1, <1>2

(* Only four actions change the list or its order; only a scan changes the cache. *)
LEMMA ListSteps ==
  ASSUME [Next]_vars
  PROVE  \/ ConstructSearcher \/ UpdateStates \/ LoopDone \/ ScanGivesUp \/ UNCHANGED list
<1> USE DEF list
<1>1. CASE Elsewhere
  BY <1>1 DEF Elsewhere
<1>2. CASE SelectBack \/ SelectTarget \/ BeginScan \/ ScanTerminates \/ ScanPicks
           \/ ScanBacktracks \/ ExecuteExit \/ ExecuteMove \/ Interrupt \/ UNCHANGED vars
  BY <1>2 DEF SelectBack, SelectTarget, BeginScan, ScanTerminates, ScanPicks,
     ScanBacktracks, ExecuteExit, ExecuteMove, Interrupt, vars
<1>3. ASSUME NEW s \in State, ExecuteFork(s) \/ ExecuteSwitch(s) \/ Terminate(s)
      PROVE  UNCHANGED list
  BY <1>3 DEF ExecuteFork, ExecuteSwitch, Terminate
<1> QED
  BY <1>1, <1>2, <1>3 DEF Next, Step, Ended

LEMMA CacheSteps ==
  ASSUME [Next]_vars
  PROVE  \/ ScanTerminates \/ ScanPicks \/ ScanBacktracks
         \/ UNCHANGED <<eventPtr, bbCache, getTarget>>
<1> USE DEF searcher
<1>1. CASE \/ ConstructSearcher \/ UpdateStates \/ Elsewhere \/ LoopDone \/ SelectBack
           \/ SelectTarget \/ BeginScan \/ ScanGivesUp \/ ExecuteExit \/ ExecuteMove
           \/ Interrupt \/ UNCHANGED vars
  BY <1>1 DEF ConstructSearcher, UpdateStates, Elsewhere, LoopDone, SelectBack,
     SelectTarget, BeginScan, ScanGivesUp, ExecuteExit, ExecuteMove, Interrupt, vars
<1>2. ASSUME NEW s \in State, ExecuteFork(s) \/ ExecuteSwitch(s) \/ Terminate(s)
      PROVE  UNCHANGED <<eventPtr, bbCache, getTarget>>
  BY <1>2 DEF ExecuteFork, ExecuteSwitch, Terminate
<1> QED
  BY <1>1, <1>2 DEF Next, Step, Ended

LEMMA StepKeepsOrder ==
  ASSUME ListInv, [Next]_vars
  PROVE  OrderOK'
<1>a. BookkeepingOK
  BY Inherited DEF ListInv, SearchInv
<1>1. CASE ConstructSearcher
  <2>1. listed' = states /\ before' = AddressOrder(states) /\ states \in SUBSET State
    BY <1>a, <1>1 DEF ConstructSearcher, E!ConstructSearcher, BookkeepingOK, E!TypeOK
  <2>2. ASSUME NEW S \in SUBSET states, S # {}
        PROVE  \E s \in S : \A t \in S \ {s} : <<s, t>> \in AddressOrder(states)
    <3>1. PICK s \in S : \A t \in S \ {s} : <<s, t>> \in AddressOrder(S)
      BY <2>1, <2>2, LowestAddress
    <3> QED
      BY <3>1 DEF AddressOrder
  <2> QED
    BY <2>1, <2>2 DEF OrderOK
<1>2. CASE UpdateStates
  <2> DEFINE left == (listed \cup addedStates) \ removedStates
  <2>1. listed' = left /\ addedStates \in SUBSET State
    BY <1>a, <1>2 DEF UpdateStates, E!UpdateStates, E!SearcherUpdate, BookkeepingOK, E!TypeOK
  <2>2. before' = (before \cup (listed \X addedStates) \cup AddressOrder(addedStates))
                    \cap (left \X left)
    BY <1>2 DEF UpdateStates, UpdatedOrder
  <2>3. ASSUME NEW S \in SUBSET left, S # {}
        PROVE  \E s \in S : \A t \in S \ {s} : <<s, t>> \in before'
    <3>1. CASE S \cap listed # {}
      <4>1. PICK s \in S \cap listed : \A t \in (S \cap listed) \ {s} : <<s, t>> \in before
        BY <3>1 DEF ListInv, OrderOK
      <4> QED
        BY <2>2, <2>3, <4>1
    <3>2. CASE S \cap listed = {}
      <4>1. S \in SUBSET addedStates
        BY <2>3, <3>2
      <4>2. PICK s \in S : \A t \in S \ {s} : <<s, t>> \in AddressOrder(S)
        BY <2>1, <2>3, <4>1, LowestAddress
      <4>3. AddressOrder(S) \subseteq AddressOrder(addedStates)
        BY <4>1 DEF AddressOrder
      <4> QED
        BY <2>2, <2>3, <4>2, <4>3
    <3> QED
      BY <3>1, <3>2
  <2> QED
    BY <2>1, <2>3 DEF OrderOK
<1>3. CASE LoopDone \/ ScanGivesUp
  <2>1. listed' = {}
    BY <1>3 DEF LoopDone, E!LoopDone, ScanGivesUp
  <2> QED
    BY <2>1 DEF OrderOK
<1>4. CASE UNCHANGED list
  BY <1>4 DEF list, ListInv, OrderOK
<1> QED
  BY <1>1, <1>2, <1>3, <1>4, ListSteps

LEMMA StepKeepsCacheTyped ==
  ASSUME ListInv, [Next]_vars
  PROVE  CacheTyped'
<1>1. CASE ScanTerminates \/ ScanPicks
  <2>1. ~getTarget
    BY <1>1 DEF ScanTerminates, ScanPicks, ListInv, SearchInv, ScanOK
  <2>2. bbCache' = FilledCache \/ bbCache' = << >>
    BY <1>1 DEF ScanTerminates, ScanPicks, CacheAfterEvent
  <2> QED
    BY <2>1, <2>2, FilledTyped DEF CacheTyped
<1>2. CASE ScanBacktracks \/ UNCHANGED <<eventPtr, bbCache, getTarget>>
  BY <1>2 DEF ScanBacktracks, ListInv, CacheTyped
<1> QED
  BY <1>1, <1>2, CacheSteps

LEMMA ListInvariance == Spec => []ListInv
<1>1. Init => OrderOK /\ CacheTyped
  BY DEF Init, E!Init, OrderOK, CacheTyped
<1>2. ListInv /\ SearchInv' /\ [Next]_vars => ListInv'
  BY StepKeepsOrder, StepKeepsCacheTyped DEF ListInv
<1>3. SearchInv /\ OrderOK /\ CacheTyped => ListInv
  BY DEF ListInv
<1> QED
  BY <1>1, <1>2, <1>3, InitSearchInv, Invariance, PTL DEF Spec

(* Whenever a candidate is left that is not hopeless, one of them is the closest. *)
ScanHasAChoice ==
  scanning /\ phase = "select" /\ Remaining # {} => \E s \in Remaining : IsClosest(s)

LEMMA ClosestExists == ListInv => ScanHasAChoice
<1> SUFFICES ASSUME ListInv, scanning, Remaining # {}
             PROVE  \E s \in Remaining : IsClosest(s)
  BY DEF ScanHasAChoice
<1>a. ~getTarget
  BY DEF ListInv, SearchInv, ScanOK
<1>b. Remaining \subseteq Candidates
  BY DEF Remaining
<1>1. ASSUME NEW s \in Remaining PROVE Dist(s) \in Nat
  <2>1. Block[at[s]] \in DOMAIN FilledCache
    BY <1>b, OldEntry
  <2>2. Dist(s) \in Nat \cup {-1}
    BY <1>a, <2>1, FilledTyped DEF Dist
  <2>3. Dist(s) # -1
    BY DEF Remaining, Hopeless
  <2> QED
    BY <2>2, <2>3
<1> DEFINE values == {Dist(s) : s \in Remaining}
<1>2. values \in SUBSET Nat /\ values # {}
  BY <1>1
<1>3. PICK d \in values : \A e \in values : d <= e
  BY <1>2, LeastNumber
<1> DEFINE near == {s \in Remaining : Dist(s) = d}
<1>4. near # {} /\ near \in SUBSET listed
  BY <1>b, <1>3, CandidatesListed
<1>5. PICK s \in near : \A t \in near \ {s} : <<s, t>> \in before
  BY <1>4 DEF ListInv, OrderOK
<1>6. ASSUME NEW t \in Remaining \ {s}
      PROVE  Dist(s) < Dist(t) \/ (Dist(s) = Dist(t) /\ <<s, t>> \in before)
  <2>1. Dist(s) = d /\ d <= Dist(t) /\ Dist(t) \in Nat /\ d \in Nat
    BY <1>1, <1>3, <1>5
  <2>2. CASE Dist(t) = d
    BY <1>5, <2>1, <2>2
  <2>3. CASE Dist(t) # d
    BY <2>1, <2>3
  <2> QED
    BY <2>2, <2>3
<1> QED
  BY <1>5, <1>6 DEF IsClosest

-----------------------------------------------------------------------------
(* Why states are pruned *)

CacheReasons ==
  ~getTarget => \A b \in DOMAIN bbCache : bbCache[b] = -1 => OutOfReach(b)

DoomedReasons ==
  scanning /\ phase = "terminate" =>
    \A s \in doomed : at[s] \in DOMAIN Successors /\ OutOfReach(Block[at[s]])

ReasonInv == ListInv /\ CacheReasons /\ DoomedReasons

LEMMA FilledReasons ==
  ASSUME ReasonInv, ~getTarget, NEW b \in DOMAIN FilledCache, FilledCache[b] = -1
  PROVE  OutOfReach(b)
<1>1. CASE b \in DOMAIN bbCache
  BY <1>1, OldEntry DEF ReasonInv, CacheReasons
<1>2. CASE b \notin DOMAIN bbCache
  <2>1. PICK s \in Candidates : Block[at[s]] = b /\ Distance[at[s]][Target] = -1
    BY <1>2, NewEntry DEF ReasonInv
  <2>2. at[s] \in DOMAIN Successors /\ eventPtr + 1 \in eventPtr + 1..Len(targetInstList)
    BY CandidatesListed, SearcherAssumption DEF ReasonInv, ListInv, SearchInv, TypeOK, TargetOK
  <2> QED
    BY <2>1, <2>2 DEF OutOfReach, Target
<1> QED
  BY <1>1, <1>2

LEMMA HopelessReasons ==
  ASSUME ReasonInv, ~getTarget, NEW s \in Hopeless
  PROVE  at[s] \in DOMAIN Successors /\ OutOfReach(Block[at[s]])
<1>1. s \in Candidates /\ FilledCache[Block[at[s]]] = -1
  BY DEF Hopeless, Dist
<1>2. Block[at[s]] \in DOMAIN FilledCache
  BY <1>1, OldEntry
<1>3. at[s] \in DOMAIN Successors
  BY <1>1, CandidatesListed DEF ReasonInv
<1> QED
  BY <1>1, <1>2, <1>3, FilledReasons

LEMMA StepKeepsCache ==
  ASSUME ReasonInv, [Next]_vars
  PROVE  CacheReasons'
<1>1. CASE ScanTerminates
  <2>1. ~getTarget /\ UNCHANGED <<eventPtr, getTarget>> /\ bbCache' = FilledCache
    BY <1>1 DEF ScanTerminates, ReasonInv, ListInv, SearchInv, ScanOK
  <2> QED
    BY <2>1, FilledReasons DEF CacheReasons, OutOfReach
<1>2. CASE ScanPicks
  <2>1. ~getTarget
    BY <1>2 DEF ScanPicks, ReasonInv, ListInv, SearchInv, ScanOK
  <2>2. CASE bbCache' = << >>
    BY <2>2 DEF CacheReasons
  <2>3. CASE bbCache' = FilledCache /\ UNCHANGED <<eventPtr, getTarget>>
    BY <2>1, <2>3, FilledReasons DEF CacheReasons, OutOfReach
  <2> QED
    BY <1>2, <2>2, <2>3 DEF ScanPicks, CacheAfterEvent
<1>3. CASE ScanBacktracks
  <2>1. /\ UNCHANGED <<bbCache, getTarget>>
        /\ eventPtr \in Nat /\ eventPtr' = eventPtr - 1 /\ Len(targetInstList) \in Nat
    BY <1>3, SearcherAssumption DEF ScanBacktracks, EarlierEvent, ReasonInv, ListInv, SearchInv,
       TypeOK
  <2>2. eventPtr + 1..Len(targetInstList) \subseteq eventPtr' + 1..Len(targetInstList)
    BY <2>1
  <2>3. \A b : OutOfReach(b) => OutOfReach(b)'
    BY <2>2 DEF OutOfReach
  <2> QED
    BY <2>1, <2>3 DEF ReasonInv, CacheReasons
<1>4. CASE UNCHANGED <<eventPtr, bbCache, getTarget>>
  BY <1>4 DEF ReasonInv, CacheReasons, OutOfReach
<1> QED
  BY <1>1, <1>2, <1>3, <1>4, CacheSteps

(* One step of the property: whatever is to be terminated has a reason. *)
LEMMA DismissalStep ==
  ASSUME ReasonInv, [Next]_vars, scanning, phase' = "terminate"
  PROVE  /\ \A s \in doomed' : at[s] \in DOMAIN Successors /\ OutOfReach(Block[at[s]])
         /\ UNCHANGED <<at, eventPtr>>
<1>a. SearchInv /\ ~getTarget
  BY DEF ReasonInv, ListInv, SearchInv, ScanOK
<1>1. CASE ScanTerminates
  BY <1>a, <1>1, HopelessReasons DEF ScanTerminates, E!TerminateAllOf, program
<1>2. CASE ScanPicks \/ ScanGivesUp
  BY <1>2 DEF ScanPicks, Return, ScanGivesUp, E!Crash
<1>3. CASE ScanBacktracks
  BY <1>3 DEF ScanBacktracks, executor
<1>4. ASSUME NEW s \in State, Terminate(s)
      PROVE  /\ \A t \in doomed' : at[t] \in DOMAIN Successors /\ OutOfReach(Block[at[t]])
             /\ UNCHANGED <<at, eventPtr>>
  BY <1>4 DEF Terminate, E!TerminateState, ReasonInv, DoomedReasons, program, searcher
<1>5. CASE /\ phase' \in {phase, "crashed"}
           /\ UNCHANGED <<eventPtr, at, goalsReached, bbCache, removedStates, doomed>>
  BY <1>5 DEF ReasonInv, DoomedReasons
<1> QED
  BY <1>a, <1>1, <1>2, <1>3, <1>4, <1>5, ScanSteps

LEMMA StepKeepsReasons ==
  ASSUME ReasonInv, ListInv', [Next]_vars
  PROVE  ReasonInv'
<1>1. CacheReasons'
  BY StepKeepsCache
<1>2. DoomedReasons'
  <2> SUFFICES ASSUME scanning', phase' = "terminate"
               PROVE  \A s \in doomed' :
                        (at[s] \in DOMAIN Successors /\ OutOfReach(Block[at[s]]))'
    BY DEF DoomedReasons
  <2>1. scanning
    BY ScanStarts DEF ReasonInv, ListInv
  <2> QED
    BY <2>1, DismissalStep DEF OutOfReach
<1> QED
  BY <1>1, <1>2 DEF ReasonInv

LEMMA ReasonInvariance == Spec => []ReasonInv
<1>1. Init => CacheReasons /\ DoomedReasons
  BY DEF Init, CacheReasons, DoomedReasons
<1>2. ReasonInv /\ ListInv' /\ [Next]_vars => ReasonInv'
  BY StepKeepsReasons
<1>3. ListInv /\ CacheReasons /\ DoomedReasons => ReasonInv
  BY DEF ReasonInv
<1> QED
  BY <1>1, <1>2, <1>3, ListInvariance, PTL DEF Spec

(* A scan always finds the state to run: while a candidate is left that can reach *)
(* the event there is a closest one, ties being decided by the list.              *)
THEOREM ScanFinds == Spec => []ScanHasAChoice
  BY ListInvariance, ClosestExists, PTL

(* For every program, trace and distances: a state is only terminated in a block  *)
(* from some position of which the awaited or a later event was out of reach.  So *)
(* entries that outlive a step back (783) are never about an event already passed. *)
(* Whether that position's stack, or that event, is the right one for the state    *)
(* the code does not ask (Searcher.cpp:672).                                       *)
THEOREM DismissalsHaveReasons == Spec => DismissedWithReason
<1>1. ReasonInv /\ [Next]_vars =>
        (scanning /\ phase' = "terminate" => \A s \in doomed' : OutOfReach(Block[at[s]]))
  BY DismissalStep
<1> QED
  BY <1>1, ReasonInvariance, PTL DEF Spec, DismissedWithReason

(* For the programs and traces in which stack and event make no difference the   *)
(* state itself is out of reach of the awaited event, as Distance has it.        *)
COROLLARY PrunesOnlyTheHopeless == BlockDecides /\ EventsFollow => (Spec => PruningIsSound)
<1> SUFFICES ASSUME BlockDecides, EventsFollow PROVE Spec => PruningIsSound
  OBVIOUS
<1>1. ASSUME ReasonInv, [Next]_vars, scanning, phase' = "terminate", NEW s \in doomed'
      PROVE  Distance[at[s]][Target] = -1
  <2>1. OutOfReach(Block[at[s]]) /\ at[s] \in DOMAIN Successors
    BY <1>1, DismissalStep
  <2>2. PICK p \in DOMAIN Successors, e \in eventPtr + 1..Len(targetInstList) :
          Block[p] = Block[at[s]] /\ Distance[p][targetInstList[e]] = -1
    BY <2>1 DEF OutOfReach
  <2>3. eventPtr \in Nat /\ Len(targetInstList) \in Nat
    BY <1>1, SearcherAssumption DEF ReasonInv, ListInv, SearchInv, TypeOK
  <2>4. Distance[at[s]][targetInstList[e]] = -1
    BY <2>1, <2>2, <2>3 DEF BlockDecides
  <2>5. CASE e = eventPtr + 1
    BY <2>4, <2>5 DEF Target
  <2>6. CASE e # eventPtr + 1
    BY <2>1, <2>2, <2>3, <2>4, <2>6 DEF EventsFollow, Target
  <2> QED
    BY <2>5, <2>6
<1>2. ReasonInv /\ [Next]_vars =>
        (scanning /\ phase' = "terminate" =>
           \A s \in doomed' : Distance[at[s]][Target] = -1)
  BY <1>1
<1> QED
  BY <1>2, ReasonInvariance, PTL DEF Spec, PruningIsSound

=============================================================================
