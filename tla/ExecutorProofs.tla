--------------------------- MODULE ExecutorProofs ----------------------------
(***************************************************************************)
(* Proofs about Executor for any set of state addresses, any bound on the  *)
(* number of forks and any combination of the command-line options.        *)
(***************************************************************************)
EXTENDS Executor, TLAPS

(* The phases between two calls of updateStates that follow a selection. *)
Stepping == {"execute", "timers", "memory", "update"}

(* A loop of terminateState calls that will return to one of the phases P. *)
Returning(P) == phase = "terminate" /\ hasSearcher /\ resume \in P

(* Which phases belong to which part of run(). *)
PhasesOK ==
  /\ phase = "crashed" <=> fault # "none"
  /\ phase \in {"loop", "select", "memory"} => hasSearcher
  /\ phase \in {"seed", "construct", "dump"} => ~hasSearcher
  /\ phase = "terminate" => resume \in {"select", "timers", "memory", "update"}
  /\ ~hasSearcher /\ phase \in {"seed"} \cup Stepping => UseSeeds
  /\ phase = "terminate" /\ hasSearcher /\ resume = "update" => MaxMemory

(* A new state is pending only while an instruction runs, and without a *)
(* searcher no state was ever removed.                                  *)
PendingOK ==
  /\ phase \in {"seed", "construct", "loop", "select", "dump"} => addedStates = {}
  /\ phase \in {"seed", "construct", "loop", "dump"} => removedStates = {}
  /\ addedStates \subseteq heap
  /\ ~hasSearcher => pool = {} /\ removedStates = {}

(* Before there is a searcher the executor's list is exact; afterwards it is *)
(* the searcher's list until a state has reached the target.                 *)
WorklistsOK ==
  /\ ~hasSearcher /\ phase \in {"seed", "construct"} \cup Stepping =>
       heap = states \cup addedStates
  /\ Intact /\ hasSearcher /\ fault = "none" => states = pool
  /\ phase = "select" \/ Returning({"select"}) => states = pool /\ addedStates = {}
  /\ Returning({"select"}) => Guided /\ ~getTarget
  /\ phase = "dump" => heap = {} \/ haltExecution \/ (UseSeeds /\ OnlySeed)

CurrentOK ==
  /\ phase \in Stepping \/ Returning(Stepping) => current \in heap \ addedStates
  /\ phase = "execute" => current \notin removedStates

IInv ==
  /\ TypeOK
  /\ PhasesOK
  /\ PendingOK
  /\ WorklistsOK
  /\ CurrentOK
  /\ SearcherTracksHeap
  /\ NothingLeaksOrDangles
  /\ TerminatedOnce
  /\ SeedsBelongToAllocatedStates

-----------------------------------------------------------------------------

(* The initial state satisfies the inductive invariant. *)
LEMMA InitIInv == Init => IInv
  BY ExecutorAssumption DEF Init, IInv, TypeOK, Phases, PhasesOK, PendingOK,
     WorklistsOK, CurrentOK, SearcherTracksHeap, NothingLeaksOrDangles, Intact,
     TerminatedOnce, SeedsBelongToAllocatedStates, Stepping, Returning


LEMMA StutterIInv == IInv /\ UNCHANGED vars => IInv'
<1> SUFFICES ASSUME IInv, UNCHANGED vars PROVE IInv'
  OBVIOUS
<1>1. UNCHANGED <<phase, resume, states, addedStates, removedStates, heap, hasSearcher, pool,
               seedMap, getTarget, haltExecution, current, doomed, fault>>
  BY DEF vars, worklists, search
<1>2. TypeOK'
  BY <1>1 DEF IInv, TypeOK
<1>3. PhasesOK'
  BY <1>1 DEF IInv, PhasesOK, Stepping
<1>4. PendingOK'
  BY <1>1 DEF IInv, PendingOK
<1>5. WorklistsOK'
  BY <1>1 DEF IInv, WorklistsOK, Stepping, Returning, Intact
<1>6. CurrentOK'
  BY <1>1 DEF IInv, CurrentOK, Stepping, Returning
<1>7. SearcherTracksHeap'
  BY <1>1 DEF IInv, SearcherTracksHeap
<1>8. NothingLeaksOrDangles'
  BY <1>1 DEF IInv, NothingLeaksOrDangles, Intact
<1>9. TerminatedOnce'
  BY <1>1 DEF IInv, TerminatedOnce, Intact
<1>10. SeedsBelongToAllocatedStates'
  BY <1>1 DEF IInv, SeedsBelongToAllocatedStates
<1> QED
  BY <1>2, <1>3, <1>4, <1>5, <1>6, <1>7, <1>8, <1>9, <1>10 DEF IInv

LEMMA InterruptIInv == IInv /\ Interrupt => IInv'
<1> SUFFICES ASSUME IInv, Interrupt PROVE IInv'
  OBVIOUS
<1>1. UNCHANGED <<phase, resume, states, addedStates, removedStates, heap, hasSearcher, pool,
               seedMap, getTarget, current, doomed, fault>>
  BY DEF Interrupt, worklists, search
<1>2. TypeOK'
  BY <1>1 DEF IInv, TypeOK, Interrupt
<1>3. PhasesOK'
  BY <1>1 DEF IInv, PhasesOK, Stepping, Interrupt
<1>4. PendingOK'
  BY <1>1 DEF IInv, PendingOK, Interrupt
<1>5. WorklistsOK'
  BY <1>1 DEF IInv, WorklistsOK, Stepping, Returning, Intact, Interrupt
<1>6. CurrentOK'
  BY <1>1 DEF IInv, CurrentOK, Stepping, Returning, Interrupt
<1>7. SearcherTracksHeap'
  BY <1>1 DEF IInv, SearcherTracksHeap, Interrupt
<1>8. NothingLeaksOrDangles'
  BY <1>1 DEF IInv, NothingLeaksOrDangles, Intact, Interrupt
<1>9. TerminatedOnce'
  BY <1>1 DEF IInv, TerminatedOnce, Intact, Interrupt
<1>10. SeedsBelongToAllocatedStates'
  BY <1>1 DEF IInv, SeedsBelongToAllocatedStates, Interrupt
<1> QED
  BY <1>2, <1>3, <1>4, <1>5, <1>6, <1>7, <1>8, <1>9, <1>10 DEF IInv

(* Every step preserves the inductive invariant. *)
LEMMA NextIInv == IInv /\ [Next]_vars => IInv'
<1> SUFFICES ASSUME IInv, [Next]_vars PROVE IInv'
  OBVIOUS
<1> USE ExecutorAssumption
        DEF IInv, TypeOK, Phases, PhasesOK, PendingOK, WorklistsOK, CurrentOK,
            SearcherTracksHeap, NothingLeaksOrDangles, Intact, TerminatedOnce,
            SeedsBelongToAllocatedStates, Stepping, Returning,
            Goto, Crash, TerminateAllOf, Delete, ForgetSeeds, Continue,
            InSearcher, SearcherUpdate, UpdatedStates, worklists, search, vars
<1>1. CASE SeedingDone
  BY <1>1 DEF SeedingDone
<1>2. CASE SeedingHalted
  BY <1>2 DEF SeedingHalted
<1>3. ASSUME NEW s \in State, SelectSeeded(s) PROVE IInv'
  BY <1>3 DEF SelectSeeded
<1>4. CASE ConstructSearcher
  BY <1>4 DEF ConstructSearcher
<1>5. CASE LoopNext
  BY <1>5 DEF LoopNext
<1>6. CASE LoopDone
  BY <1>6 DEF LoopDone
<1>7. ASSUME NEW s \in State, SelectState(s) PROVE IInv'
  BY <1>7 DEF SelectState
<1>8. ASSUME NEW D \in SUBSET pool, Prune(D) PROVE IInv'
  BY <1>8 DEF Prune
<1>9. CASE GiveUp
  BY <1>9 DEF GiveUp
<1>10. CASE ExecutePlain
  BY <1>10 DEF ExecutePlain
<1>11. CASE ExecuteTerminate
  BY <1>11 DEF ExecuteTerminate
<1>12. ASSUME NEW child \in State, ExecuteFork(child) PROVE IInv'
  BY <1>12 DEF ExecuteFork, Allocate, DivideSeeds
<1>13. ASSUME NEW children \in SUBSET State, ExecuteBranch(children) PROVE IInv'
  BY <1>13 DEF ExecuteBranch, Allocate, DivideSeeds
<1>14. ASSUME NEW children \in SUBSET State, NEW erroneous \in SUBSET State,
             ExecuteMemoryOperation(children, erroneous)
      PROVE  IInv'
  BY <1>14 DEF ExecuteMemoryOperation, Allocate, DivideSeeds
<1>15. CASE TerminateWithoutSearcher
  BY <1>15 DEF TerminateWithoutSearcher
<1>16. ASSUME NEW s \in State, TerminateState(s) PROVE IInv'
  BY <1>16 DEF TerminateState, TargetFlag
<1>17. CASE Timers
  BY <1>17 DEF Timers, AfterTimers
<1>18. CASE InstructionTimeout
  BY <1>18 DEF InstructionTimeout, AfterTimers, NotTerminated
<1>19. CASE BelowMemoryCap
  BY <1>19 DEF BelowMemoryCap
<1>20. ASSUME NEW victims \in SUBSET State, KillOverMemoryCap(victims) PROVE IInv'
  BY <1>20 DEF KillOverMemoryCap
<1>21. CASE UpdateStates
  BY <1>21 DEF UpdateStates
<1>22. CASE UpdateAssertFails
  BY <1>22 DEF UpdateAssertFails
<1>23. CASE DumpStates
  BY <1>23 DEF DumpStates
<1>24. CASE Finish
  BY <1>24 DEF Finish
<1>25. CASE Interrupt
  BY <1>25, InterruptIInv
<1>26. CASE UNCHANGED vars
  BY <1>26, StutterIInv
<1>27. ASSUME NEW s \in State, TerminateFreed(s) PROVE IInv'
  BY <1>27 DEF TerminateFreed
<1> QED
  BY <1>1, <1>2, <1>3, <1>4, <1>5, <1>6, <1>7, <1>8, <1>9, <1>10, <1>11, <1>12, <1>13,
     <1>14, <1>15, <1>16, <1>17, <1>18, <1>19, <1>20, <1>21, <1>22, <1>23, <1>24, <1>25,
     <1>26, <1>27
     DEF Next, Step, Seeding, Selection, Execution, Termination, Bookkeeping, Ended


-----------------------------------------------------------------------------

LEMMA Invariance == Spec => []IInv
<1> QED
  BY InitIInv, NextIInv, PTL DEF Spec

(* Every variable stays in its domain, for every set of addresses and every *)
(* combination of the options.                                              *)
THEOREM TypeCorrect == Spec => []TypeOK
<1>1. IInv => TypeOK
  BY DEF IInv
<1> QED
  BY <1>1, Invariance, PTL

(* The searcher's list never dangles and never misses an allocated state, even *)
(* after "terminate all!!", for any searcher that keeps the list Searcher's    *)
(* update() is given.                                                          *)
THEOREM SearcherTracks == Spec => []SearcherTracksHeap
<1>1. IInv => SearcherTracksHeap
  BY DEF IInv
<1> QED
  BY <1>1, Invariance, PTL

(* Executor and searcher agree on the states there are when one is selected. *)
THEOREM Agreement == Spec => []WorklistsAgree
<1>1. IInv => WorklistsAgree
  BY DEF IInv, WorklistsOK, WorklistsAgree
<1> QED
  BY <1>1, Invariance, PTL

(* The executor leaks no state and keeps no freed one until a state has reached *)
(* the target of the guided search.                                             *)
THEOREM NoLeak == Spec => []NothingLeaksOrDangles
<1>1. IInv => NothingLeaksOrDangles
  BY DEF IInv
<1> QED
  BY <1>1, Invariance, PTL

(* A state that is being stepped has not been freed or terminated before, and *)
(* stays allocated until updateStates.                                        *)
THEOREM SteppedStateIsAllocated == Spec => []CurrentIsAllocated
<1>1. IInv => CurrentIsAllocated
  BY DEF IInv, CurrentOK, CurrentIsAllocated, Stepping
<1> QED
  BY <1>1, Invariance, PTL

(* Instruction, timer and guided searcher terminate only allocated states that   *)
(* were not terminated before, whatever the options and even after the target;   *)
(* the memory cap terminates freed ones at most after the target.                *)
THEOREM NoSecondTermination == Spec => []TerminatedOnce
<1>1. IInv => TerminatedOnce
  BY DEF IInv
<1> QED
  BY <1>1, Invariance, PTL

(* Each call of terminateState in the main loop is the first one for its state. *)
EachEndsOnce ==
  phase = "terminate" /\ hasSearcher => doomed \subseteq heap \ removedStates

(* Without --max-memory every state is terminated, and its test case written, at *)
(* most once, and none after it was freed.                                       *)
THEOREM StatesEndOnce == ~MaxMemory => (Spec => []EachEndsOnce)
<1> SUFFICES ASSUME ~MaxMemory PROVE Spec => []EachEndsOnce
  OBVIOUS
<1>1. IInv => EachEndsOnce
  BY DEF IInv, PhasesOK, TerminatedOnce, EachEndsOnce
<1> QED
  BY <1>1, Invariance, PTL

(* No seed is ever kept under the address of a freed state. *)
THEOREM SeedsAreNotStale == Spec => []SeedsBelongToAllocatedStates
<1>1. IInv => SeedsBelongToAllocatedStates
  BY DEF IInv
<1> QED
  BY <1>1, Invariance, PTL

-----------------------------------------------------------------------------
(* The refinement: the abstract set of paths is the allocated states without *)
(* the removed ones.  A fork maps to Fork, the first call of terminateState  *)
(* for a state to End, a further one to a stutter (or to Halt),              *)
(* Interrupt to Halt, the end of run() to Complete, a failed assertion or a  *)
(* crash to Abort, and all else, updateStates in particular, to a stutter.   *)

LEMMA InitRefines == Init => Abstract!Init
  BY DEF Init, Abstract!Init

LEMMA StepRefines == IInv /\ IInv' /\ [Next]_vars => [Abstract!Next]_(Abstract!vars)
<1> SUFFICES ASSUME IInv, IInv', [Next]_vars
             PROVE  [Abstract!Next]_(Abstract!vars)
  OBVIOUS
<1> DEFINE active == heap \ removedStates
<1> USE DEF IInv, TypeOK, PhasesOK, worklists, search, vars, Goto, Crash,
            TerminateAllOf, Delete, ForgetSeeds, InSearcher, Abstract!vars
<1>1. ASSUME NEW children \in SUBSET State, phase = "execute", Allocate(children),
             UNCHANGED <<removedStates, haltExecution>>, phase' \in {"timers", "terminate"}
      PROVE  Abstract!Next
  <2>1. current \in active
    BY <1>1 DEF CurrentOK, Stepping
  <2>2. removedStates \subseteq heap
    BY <1>1 DEF SearcherTracksHeap, PendingOK
  <2>3. active' = active \cup children /\ children \subseteq State \ active
    BY <1>1, <2>2 DEF Allocate
  <2>4. Abstract!Fork(children)
    BY <1>1, <2>1, <2>3 DEF Abstract!Fork
  <2> QED
    BY <2>4 DEF Abstract!Next
<1>2. ASSUME NEW child \in State, ExecuteFork(child) PROVE Abstract!Next
  BY <1>1, <1>2, {child} \in SUBSET State DEF ExecuteFork, Allocate
<1>3. ASSUME NEW children \in SUBSET State, ExecuteBranch(children)
      PROVE  Abstract!Next
  BY <1>1, <1>3 DEF ExecuteBranch
<1>4. ASSUME NEW children \in SUBSET State, NEW erroneous \in SUBSET State,
             ExecuteMemoryOperation(children, erroneous)
      PROVE  Abstract!Next
  BY <1>1, <1>4 DEF ExecuteMemoryOperation
<1>5. ASSUME NEW s \in State, TerminateState(s)
      PROVE  [Abstract!Next]_(Abstract!vars)
  <2>1. s \in heap
    BY <1>5 DEF TerminateState
  <2>2. phase' \notin {"done", "crashed"} /\ phase = "terminate"
    BY <1>5 DEF TerminateState
  <2>3. active' = active \ {s}
    BY <1>5, <2>1 DEF TerminateState, SearcherTracksHeap, PendingOK
  <2>4. haltExecution' \in {haltExecution, TRUE}
    BY <1>5 DEF TerminateState, TargetFlag
  <2>5. CASE s \in active
    BY <2>2, <2>3, <2>4, <2>5 DEF Abstract!Next, Abstract!End
  <2>6. CASE s \notin active
    <3>1. active' = active
      BY <2>3, <2>6
    <3>2. CASE haltExecution' = haltExecution
      BY <2>2, <3>1, <3>2
    <3>3. CASE haltExecution' = TRUE
      BY <2>2, <3>1, <3>3 DEF Abstract!Next, Abstract!Halt
    <3> QED
      BY <2>4, <3>2, <3>3
  <2> QED
    BY <2>5, <2>6
<1>6. CASE TerminateWithoutSearcher \/ UpdateAssertFails \/ GiveUp
  BY <1>6 DEF TerminateWithoutSearcher, UpdateAssertFails, GiveUp, Abstract!Next,
     Abstract!Abort
<1>7. ASSUME NEW s \in State, TerminateFreed(s) PROVE Abstract!Next
  BY <1>7 DEF TerminateFreed, Abstract!Next, Abstract!Abort
<1>8. CASE DumpStates \/ \E victims \in SUBSET State : KillOverMemoryCap(victims)
  BY <1>8 DEF DumpStates, KillOverMemoryCap
<1>9. CASE Finish
  BY <1>9 DEF Finish, Abstract!Next, Abstract!Complete, WorklistsOK
<1>10. CASE Interrupt
  BY <1>10 DEF Interrupt, Abstract!Next, Abstract!Halt
<1>11. CASE UpdateStates
  BY <1>11 DEF UpdateStates
<1>12. CASE Seeding \/ ConstructSearcher \/ LoopNext \/ LoopDone
  BY <1>12 DEF Seeding, SeedingDone, SeedingHalted, SelectSeeded, ConstructSearcher,
     LoopNext, LoopDone, Continue
<1>13. CASE (\E s \in State : SelectState(s)) \/ (\E D \in SUBSET pool : Prune(D))
  BY <1>13 DEF SelectState, Prune
<1>14. CASE ExecutePlain \/ ExecuteTerminate \/ Timers \/ InstructionTimeout
             \/ BelowMemoryCap
  BY <1>14 DEF ExecutePlain, ExecuteTerminate, Timers, InstructionTimeout,
     BelowMemoryCap, AfterTimers
<1>15. CASE UNCHANGED vars
  BY <1>15
<1> QED
  BY <1>2, <1>3, <1>4, <1>5, <1>6, <1>7, <1>8, <1>9, <1>10, <1>11, <1>12, <1>13,
     <1>14, <1>15
     DEF Next, Step, Seeding, Selection, Execution, Termination, Bookkeeping, Ended

(* Executor::run implements Exploration: a path leaves the set under exploration *)
(* only by a call of terminateState, an address enters it only as the child of a *)
(* fork, and the run completes only when no path is left or it was asked to stop *)
(* (or told to stop after the seeds).                                            *)
THEOREM Refinement == Spec => ImplementsExploration
<1> QED
  BY Invariance, InitRefines, StepRefines, PTL
     DEF Spec, ImplementsExploration, Abstract!Spec

=============================================================================
