----------------------------- MODULE SolverChain -----------------------------
(***************************************************************************)
(* The queries of the executor and the chain of solvers that answers them: *)
(* IndependentSolver keeps the constraints that share a byte with the      *)
(* query, CachingSolver remembers (partial) verdicts, CexCachingSolver     *)
(* remembers assignments and reuses those of smaller and larger queries,   *)
(* and STP answers the rest, when it does not time out or fail.  The       *)
(* executor forks, assumes, concretizes and writes test cases by the       *)
(* answers (klee/lib/Solver, klee/lib/Core/Executor.cpp).                  *)
(*                                                                         *)
(* The program is sequential: one query is under way at a time, and each   *)
(* action is a step of one solver.  A condition is an expression that      *)
(* contains no other condition except below a negation, so that            *)
(* simplifyExpr recognizes it or its negation, or leaves it alone.         *)
(***************************************************************************)
EXTENDS Integers, Sequences, Functions

CONSTANTS
  Var,          \* symbolic objects, of a byte each
  Val,          \* the contents of a byte
  Zero,         \* what an Assignment takes for an object it does not bind
  Cond,         \* Boolean expressions that are not constant
  Neg,          \* createIsZero
  Sat,          \* Sat[c]: the assignments that make c true
  Reads,        \* Reads[c]: the objects c reads
  Canonical,    \* the conditions that compare less than their negation
  FalseExpr,    \* the constant false
  Unsat,        \* the null Assignment: an unsatisfiable key
  None,         \* no condition, no assignment
  Program,      \* Program[o]: the conditions the program under test has KLEE ask about
  OptionSets,   \* the command lines to consider
  MaxQueries,   \* bound: queries of a run
  MaxPath       \* bound: constraints of a path that asks

Assign == [Var -> Val]

Options == {"cex-cache-try-all", "cex-cache-exp", "ignore-solver-failures"}

(* What the expression library guarantees: negation is an involution that    *)
(* complements, one of a condition and its negation is the smaller one, and  *)
(* the value of a condition depends on nothing but what it reads.            *)
ASSUME SolverChainAssumption ==
  /\ Zero \in Val
  /\ Neg \in [Cond -> Cond]
  /\ Sat \in [Cond -> SUBSET Assign]
  /\ Reads \in [Cond -> SUBSET Var]
  /\ \A c \in Cond : /\ Neg[Neg[c]] = c
                     /\ Neg[c] # c
                     /\ Sat[Neg[c]] = Assign \ Sat[c]
                     /\ Reads[Neg[c]] = Reads[c]
                     /\ c \in Canonical <=> Neg[c] \notin Canonical
  /\ \A c \in Cond : \A a, b \in Assign :
       (\A v \in Reads[c] : a[v] = b[v]) => (a \in Sat[c] <=> b \in Sat[c])
  /\ FalseExpr \notin Cond
  /\ None \notin Cond \cup {FalseExpr}
  /\ Unsat \notin Assign
  /\ None \notin Assign \cup {Unsat}
  /\ Program \in [{"fork", "assume", "concretize", "prefer"} -> SUBSET Cond]
  /\ OptionSets \subseteq SUBSET Options
  /\ MaxQueries \in Nat
  /\ MaxPath \in Nat

VARIABLES
  paths,        \* ExecutionState::constraints of the live states
  options,      \* the command line
  asked,        \* how many queries were made
  pc,           \* where the query under way is
  op,           \* what the executor asks for
  path,         \* the state that asks: its constraints
  constraints,  \* those of the query: of the state, or of its copy tmp
  expr,         \* Query::expr
  worklist, newWorklist, elts, required, done,  \* getIndependentConstraints
  cache,        \* CachingSolver::cache
  call,         \* what CachingSolver asks of CexCachingSolver
  goal,         \* the expression CexCachingSolver seeks to refute
  found,        \* the Assignment it was given
  cex,          \* CexCachingSolver::cache
  table,        \* CexCachingSolver::assignmentsTable
  answer        \* what the executor is told
query == <<op, path, constraints, expr>>
slice == <<worklist, newWorklist, elts, required, done>>
step == <<call, goal, found, answer>>
caches == <<cache, cex, table>>
vars == <<paths, options, asked, pc, query, slice, caches, step>>

(* The assignments that satisfy every condition of a set. *)
Models(C) == {a \in Assign : \A c \in C : a \in Sat[c]}

-----------------------------------------------------------------------------
(* The kind of query of each request of the executor. *)
Kind(o) == CASE o = "fork"       -> "validity"
             [] o = "assume"     -> "truth"
             [] o = "prefer"     -> "truth"
             [] o = "concretize" -> "value"
             [] o = "solution"   -> "initial"

(* The answer of simplifyExpr, when the constraints hold the condition or *)
(* its negation; a query for a constant goes no further than Solver.      *)
Simplified(C, e) == e \in C \/ Neg[e] \in C
ConstantAnswer(C, e, kind) ==
  IF e \in C THEN "True" ELSE IF kind = "truth" THEN "NotTrue" ELSE "False"

(* Executor::addConstraint: a condition that is there already simplifies to *)
(* true and is not added.  (Its negation is never there, see                *)
(* PathsAreSatisfiable: that would be an assertion failure.)                *)
addConstraint(C, e) == IF e \in Range(C) THEN C ELSE Append(C, e)

(* Variant of Replaced: the state that goes on keeps its old constraints too. *)
ReplacedLate(p, new) == paths \cup new

(* The constraints of a state become those of the states it continues as. *)
Replaced(p, new) == (paths \ {p}) \cup new

Init ==
  /\ paths = {<<>>}
  /\ options \in OptionSets
  /\ asked = 0
  /\ pc = "idle"
  /\ op = "none" /\ path = <<>> /\ constraints = <<>> /\ expr = None
  /\ worklist = <<>> /\ newWorklist = <<>> /\ elts = {} /\ required = <<>> /\ done = FALSE
  /\ cache = <<>> /\ cex = <<>> /\ table = {}
  /\ call = [kind |-> "none", expr |-> None]
  /\ goal = None /\ found = None /\ answer = "none"

(* The query is over and its local variables are gone. *)
Forget ==
  /\ op' = "none" /\ path' = <<>> /\ constraints' = <<>> /\ expr' = None
  /\ worklist' = <<>> /\ newWorklist' = <<>> /\ elts' = {} /\ required' = <<>>
  /\ done' = FALSE
  /\ call' = [kind |-> "none", expr |-> None]
  /\ goal' = None /\ found' = None /\ answer' = "none"

-----------------------------------------------------------------------------
(* TimingSolver: an expression that simplifies to a constant is its own answer. *)
AskConstant ==
  /\ Simplified(Range(constraints'), expr')
  /\ answer' = ConstantAnswer(Range(constraints'), expr', Kind(op'))
  /\ pc' = "answered"
  /\ UNCHANGED slice

(* IndependentSolver: the bytes of the query, all constraints to be looked at. *)
AskSolver ==
  /\ ~Simplified(Range(constraints'), expr')
  /\ elts' = Reads[expr']
  /\ worklist' = constraints'
  /\ newWorklist' = <<>> /\ required' = <<>> /\ done' = TRUE
  /\ pc' = "slice"
  /\ UNCHANGED answer

(* fork: evaluate(condition).  handleAssume: mustBeFalse(e), the truth of   *)
(* the negation.  toConstant: getValue(e).                                  *)
Ask(o, p, e) ==
  /\ pc = "idle"
  /\ asked < MaxQueries
  /\ p \in paths
  /\ Len(p) < MaxPath
  /\ asked' = asked + 1
  /\ op' = o /\ path' = p /\ constraints' = p /\ expr' = e
  /\ AskConstant \/ AskSolver
  /\ UNCHANGED <<paths, options, caches, call, goal, found>>

(* A state ends and its test case is written: tmp is a copy of the state. *)
Terminate(p) ==
  /\ pc = "idle"
  /\ p \in paths
  /\ path' = p /\ constraints' = p
  /\ op' = "prefer"
  /\ pc' = "preferring"
  /\ UNCHANGED <<paths, options, asked, expr, slice, caches, step>>

(* getSymbolicSolution: is the preferred value impossible?  mustBeTrue(tmp, !pi) *)
Prefer(e) ==
  /\ pc = "preferring"
  /\ asked < MaxQueries
  /\ Len(constraints) < MaxPath
  /\ asked' = asked + 1
  /\ expr' = e
  /\ UNCHANGED <<op, path, constraints>>
  /\ AskConstant \/ AskSolver
  /\ UNCHANGED <<paths, options, caches, call, goal, found>>

(* getInitialValues(tmp): neither sliced nor answered by CachingSolver. *)
AskInitialValues ==
  /\ pc \in {"preferring", "dumping"}
  /\ op' = "solution"
  /\ expr' = FalseExpr
  /\ required' = constraints
  /\ call' = [kind |-> "initial", expr |-> FalseExpr]
  /\ goal' = FalseExpr
  /\ pc' = "lookup"
  /\ UNCHANGED <<paths, options, asked, path, constraints, caches, found, answer,
                 worklist, newWorklist, elts, done>>

-----------------------------------------------------------------------------
(* Variant of SliceConstraint: the pass is not repeated when the set grew. *)
SliceConstraintOnce ==
  /\ pc = "slice" /\ worklist # <<>>
  /\ worklist' = Tail(worklist)
  /\ IF Reads[Head(worklist)] \cap elts # {}
       THEN /\ elts' = elts \cup Reads[Head(worklist)]
            /\ required' = Append(required, Head(worklist))
            /\ UNCHANGED newWorklist
       ELSE newWorklist' = Append(newWorklist, Head(worklist)) /\ UNCHANGED <<elts, required>>
  /\ UNCHANGED <<pc, done, paths, options, asked, query, caches, step>>

(* One constraint of a pass: it is required when it shares a byte with what *)
(* is required so far, and then so is every other byte it reads.            *)
SliceConstraint ==
  /\ pc = "slice" /\ worklist # <<>>
  /\ worklist' = Tail(worklist)
  /\ \/ /\ Reads[Head(worklist)] \cap elts # {}
        /\ elts' = elts \cup Reads[Head(worklist)]
        /\ done' = IF elts' = elts THEN done ELSE FALSE
        /\ required' = Append(required, Head(worklist))
        /\ UNCHANGED newWorklist
     \/ /\ Reads[Head(worklist)] \cap elts = {}
        /\ newWorklist' = Append(newWorklist, Head(worklist))
        /\ UNCHANGED <<elts, done, required>>
  /\ UNCHANGED <<pc, paths, options, asked, query, caches, step>>

(* Variant of SlicePass: the flag is not set again, so a pass always follows. *)
SlicePassForever ==
  /\ pc = "slice" /\ worklist = <<>>
  /\ IF done
       THEN pc' = "caching" /\ UNCHANGED slice
       ELSE worklist' = newWorklist /\ newWorklist' = <<>> /\ UNCHANGED <<pc, elts, required, done>>
  /\ UNCHANGED <<paths, options, asked, query, caches, step>>

(* The end of a pass: another one over what is left, if the last one grew the set. *)
SlicePass ==
  /\ pc = "slice" /\ worklist = <<>>
  /\ \/ ~done /\ worklist' = newWorklist /\ newWorklist' = <<>> /\ done' = TRUE
        /\ UNCHANGED <<pc, elts, required>>
     \/ done /\ pc' = "caching" /\ UNCHANGED slice
  /\ UNCHANGED <<paths, options, asked, query, caches, step>>

-----------------------------------------------------------------------------
(* IncompleteSolver::PartialValidity *)
PartialValidity == {"MustBeTrue", "MustBeFalse", "MayBeTrue", "MayBeFalse", "TrueOrFalse"}

(* Variant of negatePartialValidity: the partial answers are not exchanged. *)
negateDefinite(v) ==
  CASE v = "MustBeTrue"  -> "MustBeFalse"
    [] v = "MustBeFalse" -> "MustBeTrue"
    [] OTHER             -> v

negatePartialValidity(v) ==
  CASE v = "MustBeTrue"  -> "MustBeFalse"
    [] v = "MustBeFalse" -> "MustBeTrue"
    [] v = "MayBeTrue"   -> "MayBeFalse"
    [] v = "MayBeFalse"  -> "MayBeTrue"
    [] v = "TrueOrFalse" -> "TrueOrFalse"

(* Variant of CacheKey: the query is filed as it was asked. *)
CacheKeyAsked == <<required, expr>>

(* canonicalizeQuery, and the verdict of or for it *)
CacheKey == <<required, IF expr \in Canonical THEN expr ELSE Neg[expr]>>
Canonically(v) == IF expr \in Canonical THEN v ELSE negatePartialValidity(v)

cacheHit == CacheKey \in DOMAIN cache
cachedResult == Canonically(cache[CacheKey])

(* insert() leaves an entry that is there alone. *)
cacheInsert(v) ==
  cache' = IF cacheHit THEN cache
           ELSE [k \in DOMAIN cache \cup {CacheKey} |->
                   IF k = CacheKey THEN Canonically(v) ELSE cache[k]]

(* The answers a cached verdict is enough for, by the kind of query. *)
VerdictOfValidity(v) ==
  CASE v = "MustBeTrue"  -> "True"
    [] v = "MustBeFalse" -> "False"
    [] v = "TrueOrFalse" -> "Unknown"
    [] v \in {"MayBeTrue", "MayBeFalse"} -> "none"

VerdictOfTruth(v) ==
  CASE v = "MustBeTrue" -> "True"
    [] v = "MayBeTrue"  -> "none"
    [] v \in {"MustBeFalse", "MayBeFalse", "TrueOrFalse"} -> "NotTrue"

CachedAnswer ==
  IF cacheHit /\ Kind(op) = "validity" THEN VerdictOfValidity(cachedResult)
  ELSE IF cacheHit /\ Kind(op) = "truth" THEN VerdictOfTruth(cachedResult)
  ELSE "none"

(* CachingSolver::computeValidity, computeTruth: the cache knows. *)
CacheAnswers ==
  /\ pc = "caching"
  /\ CachedAnswer # "none"
  /\ answer' = CachedAnswer
  /\ pc' = "answered"
  /\ UNCHANGED <<paths, options, asked, query, slice, caches, call, goal, found>>

(* The query CachingSolver makes of CexCachingSolver.  Of a query that may  *)
(* be true only the truth is left to find out, and of one that may be false *)
(* the truth of the negation.                                               *)
RemainingCall ==
  IF Kind(op) = "validity" /\ cacheHit
    THEN [kind |-> "truth", expr |-> IF cachedResult = "MayBeTrue" THEN expr ELSE Neg[expr]]
    ELSE [kind |-> Kind(op), expr |-> expr]

CacheMisses ==
  /\ pc = "caching"
  /\ CachedAnswer = "none"
  /\ call' = RemainingCall
  /\ IF call'.kind = "truth"
       THEN /\ goal' = call'.expr
            /\ pc' = IF "cex-cache-exp" \in options THEN "probe" ELSE "lookup"
       ELSE goal' = FalseExpr /\ pc' = "lookup"      \* query.withFalse()
  /\ UNCHANGED <<paths, options, asked, query, slice, caches, found, answer>>

-----------------------------------------------------------------------------
(* The key of a query: its constraints and the negation of its expression. *)
Key(C, g) == C \cup (IF g = FalseExpr THEN {} ELSE {Neg[g]})

(* findSuperset(key, NonNullAssignment) *)
OfSupersets(K) == {cex[S] : S \in {T \in DOMAIN cex : K \subseteq T /\ cex[T] # Unsat}}

(* findSubset(key, NullAssignment) *)
NullOfSubsets(K) == {Unsat} \cap {cex[S] : S \in {T \in DOMAIN cex : T \subseteq K}}

(* Variant of SatisfyingOfSubsets: the assignment of a subset is not tried. *)
AnyOfSubsets(K) == {cex[S] : S \in {T \in DOMAIN cex : T \subseteq K /\ cex[T] # Unsat}}

(* findSubset(key, NullOrSatisfyingAssignment(key)), the second alternative *)
SatisfyingOfSubsets(K) ==
  {cex[S] : S \in {T \in DOMAIN cex : T \subseteq K /\ cex[T] # Unsat}} \cap Models(K)

(* What may be found for a key: the first of the places to look in that has *)
(* something, and nothing at all on a miss.                                 *)
searchForAssignment(K) ==
  IF K \in DOMAIN cex THEN {cex[K]}
  ELSE IF OfSupersets(K) # {} THEN OfSupersets(K)
  ELSE IF "cex-cache-try-all" \in options
    THEN IF NullOfSubsets(K) # {} THEN NullOfSubsets(K) ELSE table \cap Models(K)
    ELSE NullOfSubsets(K) \cup SatisfyingOfSubsets(K)

GoalKey == Key(Range(required), goal)

(* computeTruth under --cex-cache-exp: when the negation is known to have no *)
(* counterexample, the query is given up as if the solver had failed.        *)
Probe ==
  /\ pc = "probe"
  /\ \/ /\ Unsat \in searchForAssignment(Key(Range(required), Neg[goal]))
        /\ answer' = "Failed"
        /\ pc' = "answered"
     \/ /\ searchForAssignment(Key(Range(required), Neg[goal])) # {Unsat}
        /\ pc' = "lookup"
        /\ UNCHANGED answer
  /\ UNCHANGED <<paths, options, asked, query, slice, caches, call, goal, found>>

(* lookupAssignment finds something. *)
LookupHit ==
  /\ pc = "lookup"
  /\ found' \in searchForAssignment(GoalKey)
  /\ pc' = "return"
  /\ UNCHANGED <<paths, options, asked, query, slice, caches, call, goal, answer>>

(* What STP may say of a key: a model, zero for the objects the key does not *)
(* read, which it is not asked about.                                        *)
StpAnswers(K) ==
  IF Models(K) = {} THEN {Unsat}
  ELSE {a \in Models(K) : \A v \in Var : (\A c \in K : v \notin Reads[c]) => a[v] = Zero}

(* getAssignment: a miss goes to STP, and its answer is remembered. *)
StpAnswer ==
  /\ pc = "lookup"
  /\ searchForAssignment(GoalKey) = {}
  /\ found' \in StpAnswers(GoalKey)
  /\ cex' = [K \in DOMAIN cex \cup {GoalKey} |-> IF K = GoalKey THEN found' ELSE cex[K]]
  /\ table' = table \cup ({found'} \ {Unsat})
  /\ pc' = "return"
  /\ UNCHANGED <<paths, options, asked, query, slice, cache, call, goal, answer>>

(* The requests made with a timeout: setTimeout(stpTimeout). *)
TimesOut(o) == o \in {"fork", "prefer", "solution"}

(* The child process times out, or it dies, or there is none: the query fails, *)
(* or KLEE exits.  Nothing is remembered.                                      *)
StpFailure ==
  /\ pc = "lookup"
  /\ searchForAssignment(GoalKey) = {}
  /\ \/ /\ TimesOut(op) \/ "ignore-solver-failures" \in options
        /\ answer' = "Failed"
        /\ pc' = "answered"
     \/ /\ "ignore-solver-failures" \notin options
        /\ pc' = "exit"
        /\ UNCHANGED answer
  /\ UNCHANGED <<paths, options, asked, query, slice, caches, call, goal, found>>

-----------------------------------------------------------------------------
(* assert(a && "must have assignment"): the constraints have a model. *)
MissingAssignment ==
  pc = "return" /\ call.kind \in {"validity", "value"} /\ goal = FalseExpr /\ found = Unsat

(* computeValidity, the first assignment: which of the two to refute. *)
ReturnWitness ==
  /\ pc = "return"
  /\ ~MissingAssignment
  /\ call.kind = "validity" /\ goal = FalseExpr
  /\ goal' = IF found \in Sat[call.expr] THEN call.expr ELSE Neg[call.expr]
  /\ pc' = "lookup"
  /\ UNCHANGED <<paths, options, asked, query, slice, caches, call, found, answer>>

(* CexCachingSolver's result, by the kind of its query *)
CexResult ==
  CASE call.kind = "validity" -> IF found # Unsat THEN "Unknown"
                                 ELSE IF goal = call.expr THEN "True" ELSE "False"
    [] call.kind = "truth"    -> IF found = Unsat THEN "True" ELSE "NotTrue"
    [] call.kind = "value"    -> IF found \in Sat[call.expr] THEN "True" ELSE "False"
    [] call.kind = "initial"  -> IF found = Unsat THEN "NoSolution" ELSE "Values"

(* CachingSolver's verdict from that result.  A truth that was asked for    *)
(* when the verdict was MayBeTrue leaves no doubt; any other one that is    *)
(* not affirmed leaves MayBeFalse.                                          *)
CachingVerdict(r) ==
  IF r = "True" THEN IF call.expr = expr THEN "MustBeTrue" ELSE "MustBeFalse"
  ELSE IF Kind(op) = "truth" THEN IF cacheHit THEN "TrueOrFalse" ELSE "MayBeFalse"
  ELSE IF r = "False" THEN "MustBeFalse"
  ELSE "TrueOrFalse"

(* CexCachingSolver and CachingSolver return. *)
ReturnAnswer ==
  /\ pc = "return"
  /\ ~MissingAssignment
  /\ ~(call.kind = "validity" /\ goal = FalseExpr)
  /\ IF Kind(op) \in {"validity", "truth"}
       THEN LET v == CachingVerdict(CexResult) IN
            /\ cacheInsert(v)
            /\ answer' = IF Kind(op) = "validity" THEN VerdictOfValidity(v)
                         ELSE IF v = "MustBeTrue" THEN "True" ELSE "NotTrue"
       ELSE answer' = CexResult /\ UNCHANGED cache
  /\ pc' = "answered"
  /\ UNCHANGED <<paths, options, asked, query, slice, cex, table, call, goal, found>>

-----------------------------------------------------------------------------
(* fork on a condition of known truth *)
ForkDecided ==
  /\ pc = "answered" /\ op = "fork"
  /\ answer \in {"True", "False"}
  /\ pc' = "idle"
  /\ Forget
  /\ UNCHANGED <<paths, options, asked, caches>>

(* fork on a condition that may go either way: both states go on. *)
ForkBoth ==
  /\ pc = "answered" /\ op = "fork"
  /\ answer = "Unknown"
  /\ paths' = Replaced(path, {addConstraint(path, expr), addConstraint(path, Neg[expr])})
  /\ pc' = "idle"
  /\ Forget
  /\ UNCHANGED <<options, asked, caches>>

(* ... or, when forking is inhibited, replayed or seeded, one of the sides. *)
ForkOne ==
  /\ pc = "answered" /\ op = "fork"
  /\ answer = "Unknown"
  /\ \E side \in {expr, Neg[expr]} : paths' = Replaced(path, {addConstraint(path, side)})
  /\ pc' = "idle"
  /\ Forget
  /\ UNCHANGED <<options, asked, caches>>

(* "Query timed out (fork).": terminateStateEarly *)
ForkFailed ==
  /\ pc = "answered" /\ op = "fork"
  /\ answer = "Failed"
  /\ paths' = Replaced(path, {})
  /\ pc' = "idle"
  /\ Forget
  /\ UNCHANGED <<options, asked, caches>>

(* Variant of AssumeHolds: the verdict of the negation is read the other way. *)
AssumeHoldsAnyway ==
  /\ pc = "answered" /\ op = "assume"
  /\ answer \in {"NotTrue", "True"}
  /\ paths' = Replaced(path, {addConstraint(path, Neg[expr])})
  /\ pc' = "idle"
  /\ Forget
  /\ UNCHANGED <<options, asked, caches>>

(* handleAssume: the assumption (the negation of the query) may be true. *)
AssumeHolds ==
  /\ pc = "answered" /\ op = "assume"
  /\ answer = "NotTrue"
  /\ paths' = Replaced(path, {addConstraint(path, Neg[expr])})
  /\ pc' = "idle"
  /\ Forget
  /\ UNCHANGED <<options, asked, caches>>

(* handleAssume: "provably false" *)
AssumeFails ==
  /\ pc = "answered" /\ op = "assume"
  /\ answer = "True"
  /\ paths' = Replaced(path, {})
  /\ pc' = "idle"
  /\ Forget
  /\ UNCHANGED <<options, asked, caches>>

(* toConstant: the state goes on with the value, which becomes a constraint. *)
Concretize ==
  /\ pc = "answered" /\ op = "concretize"
  /\ \/ answer = "True"  /\ paths' = Replaced(path, {addConstraint(path, expr)})
     \/ answer = "False" /\ paths' = Replaced(path, {addConstraint(path, Neg[expr])})
  /\ pc' = "idle"
  /\ Forget
  /\ UNCHANGED <<options, asked, caches>>

(* assert(success && "FIXME: Unhandled solver failure") *)
UnhandledFailure ==
  /\ pc = "answered" /\ op \in {"assume", "concretize"}
  /\ answer = "Failed"
  /\ pc' = "unhandled"
  /\ UNCHANGED <<paths, options, asked, query, slice, caches, step>>

(* Variant of Preferred: the preference is added whatever the answer. *)
PreferredAlways ==
  /\ pc = "answered" /\ op = "prefer"
  /\ constraints' = addConstraint(constraints, Neg[expr])
  /\ pc' = IF answer = "Failed" THEN "dumping" ELSE "preferring"
  /\ answer' = "none"
  /\ UNCHANGED <<paths, options, asked, op, path, expr, slice, caches, call, goal, found>>

(* A preference that may hold is added to tmp; a failure ends the loop. *)
Preferred ==
  /\ pc = "answered" /\ op = "prefer"
  /\ constraints' = IF answer = "NotTrue" THEN addConstraint(constraints, Neg[expr])
                    ELSE constraints
  /\ pc' = IF answer = "Failed" THEN "dumping" ELSE "preferring"
  /\ answer' = "none"
  /\ UNCHANGED <<paths, options, asked, op, path, expr, slice, caches, call, goal, found>>

(* The test case is written, unless there are no values, and the state is gone. *)
Dump ==
  /\ pc = "answered" /\ op = "solution"
  /\ paths' = Replaced(path, {})
  /\ pc' = "idle"
  /\ Forget
  /\ UNCHANGED <<options, asked, caches>>

-----------------------------------------------------------------------------
Next ==
  \/ \E o \in {"fork", "assume", "concretize"}, p \in paths : \E e \in Program[o] : Ask(o, p, e)
  \/ \E p \in paths : Terminate(p)
  \/ \E e \in Program["prefer"] : Prefer(e)
  \/ AskInitialValues
  \/ SliceConstraint \/ SlicePass
  \/ CacheAnswers \/ CacheMisses
  \/ Probe \/ LookupHit \/ StpAnswer \/ StpFailure
  \/ ReturnWitness \/ ReturnAnswer
  \/ ForkDecided \/ ForkBoth \/ ForkOne \/ ForkFailed
  \/ AssumeHolds \/ AssumeFails \/ Concretize \/ UnhandledFailure
  \/ Preferred \/ Dump

(* KLEE is one thread: what it is in the middle of, it goes on with. *)
Fairness == WF_vars(pc # "idle" /\ Next)

Spec == Init /\ [][Next]_vars /\ Fairness

-----------------------------------------------------------------------------
Stopped == {"exit", "unhandled"}

QueryType ==
  /\ paths \subseteq Seq(Cond)
  /\ options \in OptionSets
  /\ asked \in Nat
  /\ pc \in {"idle", "slice", "caching", "probe", "lookup", "return", "answered",
             "preferring", "dumping"} \cup Stopped
  /\ op \in {"none", "fork", "assume", "concretize", "prefer", "solution"}
  /\ path \in Seq(Cond) /\ constraints \in Seq(Cond)
  /\ expr \in Cond \cup {FalseExpr, None}
SliceType ==
  /\ worklist \in Seq(Cond) /\ newWorklist \in Seq(Cond) /\ required \in Seq(Cond)
  /\ elts \subseteq Var /\ done \in BOOLEAN
CacheType ==
  /\ DOMAIN cache \subseteq Seq(Cond) \X Canonical
  /\ \A k \in DOMAIN cache : cache[k] \in PartialValidity
  /\ DOMAIN cex \subseteq SUBSET Cond
  /\ \A K \in DOMAIN cex : cex[K] \in Assign \cup {Unsat}
  /\ table \subseteq Assign
CallType ==
  /\ call.kind \in {"none", "validity", "truth", "value", "initial"}
  /\ goal \in Cond \cup {FalseExpr, None}
  /\ found \in Assign \cup {Unsat, None}
  /\ answer \in {"none", "True", "False", "Unknown", "NotTrue", "Values", "NoSolution", "Failed"}

(* The state of the solvers: a cached verdict is about a list of constraints *)
(* and a canonical condition, a cached assignment about a set of conditions. *)
TypeOK == QueryType /\ SliceType /\ CacheType /\ CallType

(* What a verdict says of a condition under constraints. *)
VerdictHolds(C, e, v) ==
  /\ v = "MustBeTrue"  => Models(C) \subseteq Sat[e]
  /\ v = "MustBeFalse" => Models(C) \cap Sat[e] = {}
  /\ v \in {"MayBeTrue", "TrueOrFalse"}  => Models(C) \cap Sat[e] # {}
  /\ v \in {"MayBeFalse", "TrueOrFalse"} => ~(Models(C) \subseteq Sat[e])

(* Every verdict CachingSolver remembers is true of the constraints and the   *)
(* condition it is filed under, whichever of the condition and its negation   *)
(* was asked and whatever was known before (CachingSolver.cpp:93-138, 228-240:*)
(* "We know a true assignment exists, and query isn't valid, so must be       *)
(* TrueOrFalse").                                                             *)
CachedVerdictsAreRight ==
  \A k \in DOMAIN cache : VerdictHolds(Range(k[1]), k[2], cache[k])

(* A key of CexCachingSolver maps to an assignment that satisfies all of it,  *)
(* or to null when nothing does (CexCachingSolver.cpp:203-239); the           *)
(* assignments found for larger and smaller keys are good for the query too   *)
(* ("trivially an assignment for any subset", 123-166).                       *)
CexCacheIsRight ==
  /\ \A K \in DOMAIN cex :
       IF cex[K] = Unsat THEN Models(K) = {} ELSE cex[K] \in Models(K)
  /\ pc = "return" =>
       IF found = Unsat THEN Models(GoalKey) = {} ELSE found \in Models(GoalKey)

(* The answer the executor gets is true of all the constraints of the state,  *)
(* though only those that share bytes with the query were considered, through *)
(* two caches and with retries of half-known verdicts                         *)
(* (IndependentSolver.cpp:222-315, CachingSolver.cpp:140-241).                *)
AnswersAreExact ==
  pc = "answered" =>
    LET M == Models(Range(constraints)) IN
    /\ answer = "True" /\ op # "concretize"  => M \subseteq Sat[expr]
    /\ answer = "False" /\ op # "concretize" => M \cap Sat[expr] = {}
    /\ answer = "True" /\ op = "concretize"  => M \cap Sat[expr] # {}
    /\ answer = "False" /\ op = "concretize" => ~(M \subseteq Sat[expr])
    /\ answer \in {"Unknown", "NotTrue"}     => ~(M \subseteq Sat[expr])
    /\ answer = "Unknown"                    => M \cap Sat[expr] # {}

(* No path is explored that no input takes, so the constraint set of a query *)
(* is never contradictory, and no addConstraint is "attempt to add invalid   *)
(* constraint" (Executor.cpp:893, CexCachingSolver.cpp:257 and 309).         *)
PathsAreSatisfiable ==
  /\ \A p \in paths : Models(Range(p)) # {}
  /\ Models(Range(constraints)) # {}
  /\ ~MissingAssignment

(* The values of a test case take the path of the state they are written for, *)
(* and satisfy the preferences that were found possible                       *)
(* (Executor.cpp:3421-3462).                                                  *)
TestsTakeTheirPath ==
  pc = "answered" /\ op = "solution" /\ answer # "Failed" =>
    /\ answer = "Values"
    /\ found \in Models(Range(path)) \cap Models(Range(constraints))

(* A query is answered, or KLEE stops: the passes of the slicing loop come to *)
(* an end, and so do the calls from one solver to the next.                   *)
QueriesEnd == pc # "idle" ~> pc \in {"idle"} \cup Stopped

(* The path conditions share out the inputs (PathPartition). *)
Partition == INSTANCE PathPartition WITH
  Input <- Assign, parts <- {Models(Range(p)) : p \in paths}
ImplementsPathPartition == Partition!Spec

=============================================================================
