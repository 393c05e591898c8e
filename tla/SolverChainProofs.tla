-------------------------- MODULE SolverChainProofs --------------------------
(***************************************************************************)
(* For any set of conditions, any program and any number of queries: the   *)
(* caches hold the truth, slicing loses nothing, the answers are exact,    *)
(* and the path conditions share out the inputs.                           *)
(***************************************************************************)
EXTENDS SolverChain, TLAPS

(* What the assumption says of the constants, type by type. *)
LEMMA ConditionType ==
  /\ \A c \in Cond : /\ Neg[c] \in Cond /\ Sat[c] \subseteq Assign /\ Reads[c] \subseteq Var
                     /\ Neg[Neg[c]] = c /\ Neg[c] # c
                     /\ Sat[Neg[c]] = Assign \ Sat[c]
                     /\ Reads[Neg[c]] = Reads[c]
                     /\ c \in Canonical <=> Neg[c] \notin Canonical
  /\ FalseExpr \notin Cond /\ None \notin Cond /\ None # FalseExpr
  /\ Unsat \notin Assign /\ None \notin Assign /\ None # Unsat
BY SolverChainAssumption

(* Some assignment binds every object to zero. *)
LEMMA AssignNonempty == Assign # {}
<1>1. [v \in Var |-> Zero] \in Assign
  BY SolverChainAssumption DEF Assign
<1> QED
  BY <1>1

LEMMA ModelsOfUnion ==
  ASSUME NEW C, NEW D
  PROVE  Models(C \cup D) = Models(C) \cap Models(D)
BY DEF Models

LEMMA ModelsOfOne ==
  ASSUME NEW c \in Cond
  PROVE  Models({c}) = Sat[c]
BY ConditionType DEF Models

(* The elements of a sequence that grows or shrinks by one. *)
LEMMA RangeOfAppend ==
  ASSUME NEW s \in Seq(Cond), NEW e \in Cond
  PROVE  Append(s, e) \in Seq(Cond) /\ Range(Append(s, e)) = Range(s) \cup {e}
<1>1. /\ Append(s, e) \in Seq(Cond) /\ DOMAIN s = 1..Len(s) /\ Len(s) \in Nat
      /\ DOMAIN Append(s, e) = 1..(Len(s) + 1)
      /\ \A i \in 1..Len(s) : Append(s, e)[i] = s[i]
      /\ Append(s, e)[Len(s) + 1] = e
  OBVIOUS
<1>2. DOMAIN Append(s, e) = DOMAIN s \cup {Len(s) + 1}
  BY <1>1
<1> QED
  BY <1>1, <1>2 DEF Range

LEMMA RangeOfTail ==
  ASSUME NEW s \in Seq(Cond), s # <<>>
  PROVE  /\ Head(s) \in Cond /\ Tail(s) \in Seq(Cond)
         /\ Range(s) = {Head(s)} \cup Range(Tail(s))
<1>1. /\ Head(s) = s[1] /\ Head(s) \in Cond /\ Tail(s) \in Seq(Cond)
      /\ Len(s) \in Nat /\ Len(s) > 0 /\ DOMAIN s = 1..Len(s)
      /\ DOMAIN Tail(s) = 1..(Len(s) - 1)
      /\ \A i \in 1..(Len(s) - 1) : Tail(s)[i] = s[i + 1]
  OBVIOUS
<1>2. ASSUME NEW x \in Range(s) PROVE x \in {Head(s)} \cup Range(Tail(s))
  <2>1. PICK i \in 1..Len(s) : s[i] = x
    BY <1>1, <1>2 DEF Range
  <2>2. CASE i = 1
    BY <1>1, <2>1, <2>2
  <2>3. CASE i # 1
    <3>1. i - 1 \in 1..(Len(s) - 1) /\ Tail(s)[i - 1] = x
      BY <1>1, <2>1, <2>3
    <3> QED
      BY <1>1, <3>1 DEF Range
  <2> QED
    BY <2>2, <2>3
<1>3. ASSUME NEW x \in Range(Tail(s)) PROVE x \in Range(s)
  <2>1. PICK i \in 1..(Len(s) - 1) : Tail(s)[i] = x
    BY <1>1, <1>3 DEF Range
  <2>2. i + 1 \in 1..Len(s) /\ s[i + 1] = x
    BY <1>1, <2>1
  <2> QED
    BY <1>1, <2>2 DEF Range
<1>4. Head(s) \in Range(s)
  BY <1>1 DEF Range
<1> QED
  BY <1>1, <1>2, <1>3, <1>4

LEMMA RangeOfEmpty == Range(<<>>) = {}
BY DEF Range

LEMMA RangeType ==
  ASSUME NEW s \in Seq(Cond)
  PROVE  Range(s) \subseteq Cond
BY DEF Range

(* Adding a constraint keeps exactly the models that satisfy it. *)
LEMMA ModelsOfAdd ==
  ASSUME NEW C \in Seq(Cond), NEW e \in Cond
  PROVE  /\ addConstraint(C, e) \in Seq(Cond)
         /\ Models(Range(addConstraint(C, e))) = Models(Range(C)) \cap Sat[e]
<1>1. CASE e \in Range(C)
  BY <1>1 DEF addConstraint, Models
<1>2. CASE e \notin Range(C)
  BY <1>2, RangeOfAppend, ModelsOfUnion, ModelsOfOne DEF addConstraint
<1> QED
  BY <1>1, <1>2

(* Constraints that share no byte with a query and what it depends on do not *)
(* matter to it, as long as they can be satisfied: a model of the others and *)
(* one of all of them combine.                                               *)
LEMMA Combine ==
  ASSUME NEW C \in SUBSET Cond, NEW R \in SUBSET C, NEW E \in SUBSET Var, NEW e \in Cond,
         \A c \in R : Reads[c] \subseteq E,
         \A c \in C \ R : Reads[c] \cap E = {},
         Reads[e] \subseteq E,
         NEW m \in Models(R), NEW b \in Models(C)
  PROVE  \E a \in Models(C) : a \in Sat[e] <=> m \in Sat[e]
<1> DEFINE a == [v \in Var |-> IF v \in E THEN m[v] ELSE b[v]]
<1>1. m \in Assign /\ b \in Assign /\ a \in Assign
  BY DEF Models, Assign
<1> HIDE DEF a
<1>2. \A v \in Var : a[v] = IF v \in E THEN m[v] ELSE b[v]
  BY DEF a
<1>3. \A c \in Cond : Reads[c] \subseteq E => (a \in Sat[c] <=> m \in Sat[c])
  BY <1>1, <1>2, SolverChainAssumption
<1>4. \A c \in Cond : Reads[c] \cap E = {} => (a \in Sat[c] <=> b \in Sat[c])
  BY <1>1, <1>2, SolverChainAssumption
<1>5. a \in Models(C)
  BY <1>1, <1>3, <1>4 DEF Models
<1> QED
  BY <1>3, <1>5

LEMMA Independence ==
  ASSUME NEW C \in SUBSET Cond, NEW R \in SUBSET C, NEW E \in SUBSET Var, NEW e \in Cond,
         \A c \in R : Reads[c] \subseteq E,
         \A c \in C \ R : Reads[c] \cap E = {},
         Reads[e] \subseteq E,
         Models(C) # {}
  PROVE  /\ Models(C) \subseteq Models(R)
         /\ Models(R) \subseteq Sat[e] <=> Models(C) \subseteq Sat[e]
         /\ Models(R) \cap Sat[e] = {} <=> Models(C) \cap Sat[e] = {}
<1>1. Models(C) \subseteq Models(R)
  BY DEF Models
<1>2. PICK b \in Models(C) : TRUE
  OBVIOUS
<1>3. ASSUME NEW m \in Models(R)
      PROVE  \E a \in Models(C) : a \in Sat[e] <=> m \in Sat[e]
  BY <1>2, Combine
<1> QED
  BY <1>1, <1>3

(* A verdict on a condition is the exchanged verdict on its negation. *)
LEMMA NegatedVerdict ==
  ASSUME NEW C \in SUBSET Cond, NEW e \in Cond, NEW v \in PartialValidity
  PROVE  /\ negatePartialValidity(v) \in PartialValidity
         /\ VerdictHolds(C, e, v) <=> VerdictHolds(C, Neg[e], negatePartialValidity(v))
<1>1. Models(C) \subseteq Assign /\ Sat[Neg[e]] = Assign \ Sat[e]
  BY ConditionType DEF Models
<1>2. /\ Models(C) \subseteq Sat[e] <=> Models(C) \cap Sat[Neg[e]] = {}
      /\ Models(C) \cap Sat[e] = {} <=> Models(C) \subseteq Sat[Neg[e]]
  BY <1>1
<1> QED
  BY <1>2 DEF VerdictHolds, negatePartialValidity, PartialValidity

-----------------------------------------------------------------------------
(* What a query keeps to while it is under way. *)
QueryInv ==
  /\ pc = "idle" => constraints = <<>>
  /\ pc # "idle" =>
       /\ path \in paths
       /\ Models(Range(constraints)) \subseteq Models(Range(path))
       /\ op \in {"fork", "assume", "concretize", "prefer", "solution"}
       /\ op \in {"fork", "assume", "concretize"} => constraints = path
  /\ pc \in {"slice", "caching", "probe"} => op # "solution"
  /\ pc \in {"preferring", "dumping"} => op = "prefer"
  /\ pc \in {"slice", "caching", "probe", "lookup", "return", "answered"} /\ op # "solution" =>
       expr \in Cond
  /\ pc \in {"lookup", "return"} /\ op = "solution" =>
       /\ call = [kind |-> "initial", expr |-> FalseExpr]
       /\ goal = FalseExpr /\ required = constraints

(* The slicing loop has looked at the constraints outside worklist; when the *)
(* set did not grow in this pass, those left aside are still apart from it.  *)
SliceInv ==
  /\ pc = "slice" =>
       /\ Range(constraints) = Range(required) \cup Range(worklist) \cup Range(newWorklist)
       /\ Reads[expr] \subseteq elts
       /\ \A c \in Range(required) : Reads[c] \subseteq elts
       /\ done => \A c \in Range(newWorklist) : Reads[c] \cap elts = {}
  /\ pc \in {"caching", "probe", "lookup", "return"} /\ op # "solution" =>
       /\ Range(required) \subseteq Range(constraints)
       /\ Reads[expr] \subseteq elts
       /\ \A c \in Range(required) : Reads[c] \subseteq elts
       /\ \A c \in Range(constraints) \ Range(required) : Reads[c] \cap elts = {}

(* The constraints of the query allow it to be true, and to be false. *)
MayBeTrue == Models(Range(required)) \cap Sat[expr] # {}
MayBeFalse == ~(Models(Range(required)) \subseteq Sat[expr])

(* How far the call that CachingSolver makes of CexCachingSolver has come: *)
(* what is asked is what is not known yet.                                 *)
CallInv ==
  pc \in {"probe", "lookup", "return"} /\ op # "solution" =>
    /\ \/ call.kind = Kind(op) /\ call.expr = expr
       \/ /\ Kind(op) = "validity" /\ call.kind = "truth"
          /\ \/ call.expr = expr /\ MayBeTrue
             \/ call.expr = Neg[expr] /\ MayBeFalse
    /\ pc = "probe" => call.kind = "truth"
    /\ call.kind = "truth" => goal = call.expr
    /\ call.kind = "value" => goal = FalseExpr
    /\ call.kind = "validity" =>
         \/ goal = FalseExpr
         \/ goal = expr /\ MayBeTrue
         \/ goal = Neg[expr] /\ MayBeFalse
    /\ Kind(op) = "truth" /\ cacheHit => cachedResult = "MayBeTrue"

IInv ==
  /\ TypeOK
  /\ QueryInv
  /\ SliceInv
  /\ CallInv
  /\ CachedVerdictsAreRight
  /\ CexCacheIsRight
  /\ AnswersAreExact
  /\ PathsAreSatisfiable
  /\ TestsTakeTheirPath

-----------------------------------------------------------------------------
(* The keys of CexCachingSolver: a goal is refuted by a model that falsifies it. *)
LEMMA KeyModels ==
  ASSUME NEW C \in SUBSET Cond
  PROVE  /\ Key(C, FalseExpr) \subseteq Cond /\ Models(Key(C, FalseExpr)) = Models(C)
         /\ \A g \in Cond : /\ Key(C, g) \subseteq Cond
                           /\ Models(Key(C, g)) = Models(C) \ Sat[g]
<1>1. Key(C, FalseExpr) = C
  BY DEF Key
<1>2. ASSUME NEW g \in Cond
      PROVE  Key(C, g) \subseteq Cond /\ Models(Key(C, g)) = Models(C) \ Sat[g]
  <2>1. Key(C, g) = C \cup {Neg[g]} /\ Neg[g] \in Cond /\ Sat[Neg[g]] = Assign \ Sat[g]
    BY ConditionType DEF Key
  <2>6. Models(C \cup {Neg[g]}) = Models(C) \cap Models({Neg[g]})
    BY ModelsOfUnion, Zenon
  <2>7. Models({Neg[g]}) = Sat[Neg[g]]
    BY <2>1, ModelsOfOne
  <2>2. Models(Key(C, g)) = Models(C) \cap Sat[Neg[g]]
    BY <2>1, <2>6, <2>7, Zenon
  <2>3. Models(C) \subseteq Assign
    BY DEF Models
  <2>4. Models(C) \cap Sat[Neg[g]] = Models(C) \ Sat[g]
    BY <2>1, <2>3
  <2>5. Key(C, g) \subseteq Cond
    BY <2>1
  <2> QED
    BY <2>2, <2>4, <2>5
<1> QED
  BY <1>1, <1>2

(* Whatever is found for a key, for itself, a larger or a smaller one, is right. *)
LEMMA SearchIsRight ==
  ASSUME TypeOK, CexCacheIsRight, NEW K \in SUBSET Cond, NEW a \in searchForAssignment(K)
  PROVE  /\ a \in Assign \cup {Unsat}
         /\ IF a = Unsat THEN Models(K) = {} ELSE a \in Models(K)
<1>1. \A S \in DOMAIN cex :
        /\ cex[S] \in Assign \cup {Unsat}
        /\ IF cex[S] = Unsat THEN Models(S) = {} ELSE cex[S] \in Models(S)
  BY DEF TypeOK, CacheType, CexCacheIsRight
<1>2. \A S, T : S \subseteq T => Models(T) \subseteq Models(S)
  BY DEF Models
<1>3. a \in OfSupersets(K) => a # Unsat /\ a \in Models(K)
  BY <1>1, <1>2 DEF OfSupersets
<1>4. a \in NullOfSubsets(K) => a = Unsat /\ Models(K) = {}
  <2> SUFFICES ASSUME a \in NullOfSubsets(K) PROVE a = Unsat /\ Models(K) = {}
    OBVIOUS
  <2>1. a = Unsat /\ \E S \in DOMAIN cex : S \subseteq K /\ cex[S] = Unsat
    BY DEF NullOfSubsets
  <2> QED
    BY <1>1, <1>2, <2>1
<1>5. a \in SatisfyingOfSubsets(K) => a \in Models(K) /\ a # Unsat
  BY <1>1 DEF SatisfyingOfSubsets
<1>6. a \in table \cap Models(K) => a \in Models(K) /\ a # Unsat
  BY ConditionType DEF TypeOK, CacheType
<1>7. Models(K) \subseteq Assign
  BY DEF Models
<1>8. CASE K \in DOMAIN cex
  BY <1>1, <1>8 DEF searchForAssignment
<1>9. CASE K \notin DOMAIN cex
  BY <1>3, <1>4, <1>5, <1>6, <1>7, <1>9 DEF searchForAssignment
<1> QED
  BY <1>8, <1>9

(* What slicing leaves out does not matter to the query. *)
LEMMA RequiredIsEnough ==
  ASSUME TypeOK, QueryInv, SliceInv, PathsAreSatisfiable, op # "solution",
         pc \in {"caching", "probe", "lookup", "return"}
  PROVE  /\ expr \in Cond /\ Range(required) \subseteq Cond
         /\ Models(Range(constraints)) \subseteq Models(Range(required))
         /\ MayBeFalse <=> ~(Models(Range(constraints)) \subseteq Sat[expr])
         /\ MayBeTrue <=> Models(Range(constraints)) \cap Sat[expr] # {}
<1>1. expr \in Cond
  BY DEF QueryInv
<1>2. Range(required) \subseteq Cond /\ Range(constraints) \subseteq Cond
  BY RangeType DEF TypeOK, QueryType, SliceType
<1>3. elts \subseteq Var /\ Models(Range(constraints)) # {}
  BY DEF TypeOK, SliceType, PathsAreSatisfiable
<1>4. /\ Range(required) \subseteq Range(constraints)
      /\ Reads[expr] \subseteq elts
      /\ \A c \in Range(required) : Reads[c] \subseteq elts
      /\ \A c \in Range(constraints) \ Range(required) : Reads[c] \cap elts = {}
  BY DEF SliceInv
<1> QED
  BY <1>1, <1>2, <1>3, <1>4, Independence DEF MayBeTrue, MayBeFalse

-----------------------------------------------------------------------------
LEMMA InitIInv == Init => IInv
<1> SUFFICES ASSUME Init PROVE IInv
  OBVIOUS
<1>1. TypeOK
  <2>1. QueryType
    BY SolverChainAssumption DEF Init, QueryType
  <2>4. done \in BOOLEAN
    BY Zenon DEF Init
  <2>5. SliceType
    BY <2>4 DEF Init, SliceType
  <2>2. CacheType
    BY DEF Init, CacheType
  <2>3. CallType
    BY DEF Init, CallType
  <2> QED
    BY <2>1, <2>2, <2>3, <2>5 DEF TypeOK
<1>2. QueryInv /\ SliceInv /\ CallInv /\ AnswersAreExact /\ TestsTakeTheirPath
  BY DEF Init, QueryInv, SliceInv, CallInv, AnswersAreExact, TestsTakeTheirPath
<1>3. CachedVerdictsAreRight /\ CexCacheIsRight
  BY DEF Init, CachedVerdictsAreRight, CexCacheIsRight
<1>4. Models({}) # {}
  BY AssignNonempty DEF Models
<1>5. PathsAreSatisfiable
  BY <1>4, RangeOfEmpty DEF Init, PathsAreSatisfiable, MissingAssignment
<1> QED
  BY <1>1, <1>2, <1>3, <1>5 DEF IInv

(* The executor goes on from an answer with paths that can be taken. *)
LEMMA SettleIInv ==
  ASSUME IInv, pc' = "idle", Forget, UNCHANGED <<options, asked, caches>>,
         paths' \subseteq Seq(Cond), \A p \in paths' : Models(Range(p)) # {}
  PROVE  IInv'
<1>1. TypeOK'
  <2>1. QueryType'
    BY DEF IInv, TypeOK, QueryType, Forget
  <2>4. done' \in BOOLEAN
    BY Zenon DEF Forget
  <2>5. SliceType'
    BY <2>4 DEF Forget, SliceType
  <2>2. CacheType'
    BY DEF IInv, TypeOK, CacheType, caches
  <2>3. CallType'
    BY DEF CallType, Forget
  <2> QED
    BY <2>1, <2>2, <2>3, <2>5 DEF TypeOK
<1>2. (QueryInv /\ SliceInv /\ CallInv /\ AnswersAreExact /\ TestsTakeTheirPath)'
  BY DEF Forget, QueryInv, SliceInv, CallInv, AnswersAreExact, TestsTakeTheirPath
<1>3. CachedVerdictsAreRight' /\ CexCacheIsRight'
  BY DEF IInv, caches, CachedVerdictsAreRight, CexCacheIsRight
<1>4. Models({}) # {}
  BY AssignNonempty DEF Models
<1>5. PathsAreSatisfiable'
  BY <1>4, RangeOfEmpty DEF Forget, PathsAreSatisfiable, MissingAssignment
<1> QED
  BY <1>1, <1>2, <1>3, <1>5 DEF IInv

-----------------------------------------------------------------------------
(* Constraints that hold a condition or its negation decide it. *)
LEMMA ConstantIsExact ==
  ASSUME NEW C \in SUBSET Cond, NEW e \in Cond
  PROVE  /\ e \in C => Models(C) \subseteq Sat[e]
         /\ Neg[e] \in C => Models(C) \cap Sat[e] = {}
<1>1. e \in C => Models(C) \subseteq Sat[e]
  BY DEF Models
<1>2. Neg[e] \in C => Models(C) \cap Sat[e] = {}
  BY ConditionType DEF Models
<1> QED
  BY <1>1, <1>2

(* A query begins: answered at once, or with all constraints to be sliced. *)
LEMMA BeginIInv ==
  ASSUME IInv, NEW e \in Cond, NEW o \in {"fork", "assume", "concretize", "prefer"},
         NEW p \in paths, NEW C \in Seq(Cond),
         expr' = e, op' = o, path' = p, constraints' = C,
         Models(Range(C)) # {}, Models(Range(C)) \subseteq Models(Range(p)),
         o # "prefer" => C = p,
         AskConstant \/ AskSolver,
         asked' \in Nat,
         UNCHANGED <<paths, options, caches, call, goal, found>>
  PROVE  IInv'
<1>1. Range(C) \subseteq Cond
  BY RangeType
<1>2. paths' = paths /\ options' = options /\ pc' \in {"slice", "answered"}
  BY DEF AskConstant, AskSolver
<1>3. TypeOK'
  <2>1. QueryType'
    BY <1>2 DEF IInv, TypeOK, QueryType
  <2>2. CASE AskConstant
    <3>1. SliceType' 
      BY <2>2 DEF IInv, TypeOK, SliceType, AskConstant, slice
    <3>2. CallType'
      BY <2>2 DEF IInv, TypeOK, CallType, AskConstant, ConstantAnswer
    <3> QED
      BY <2>1, <3>1, <3>2 DEF IInv, TypeOK, CacheType, caches
  <2>3. CASE AskSolver
    <3>1. done' \in BOOLEAN
      BY <2>3, Zenon DEF AskSolver
    <3>2. SliceType'
      BY <2>3, <3>1, ConditionType DEF SliceType, AskSolver
    <3>3. CallType'
      BY <2>3 DEF IInv, TypeOK, CallType, AskSolver
    <3> QED
      BY <2>1, <3>2, <3>3 DEF IInv, TypeOK, CacheType, caches
  <2> QED
    BY <2>2, <2>3
<1>4. QueryInv'
  BY <1>2 DEF QueryInv
<1>5. SliceInv'
  <2>1. CASE AskConstant
    BY <2>1 DEF AskConstant, SliceInv
  <2>2. CASE AskSolver
    BY <2>2, RangeOfEmpty DEF AskSolver, SliceInv
  <2> QED
    BY <2>1, <2>2
<1>6. CallInv' /\ TestsTakeTheirPath'
  BY <1>2 DEF CallInv, TestsTakeTheirPath
<1>7. CachedVerdictsAreRight' /\ CexCacheIsRight'
  BY <1>2 DEF IInv, caches, CachedVerdictsAreRight, CexCacheIsRight
<1>8. PathsAreSatisfiable'
  BY <1>2 DEF IInv, PathsAreSatisfiable, MissingAssignment
<1>9. AnswersAreExact'
  <2>1. CASE AskConstant
    <3>1. /\ e \in Range(C) => Models(Range(C)) \subseteq Sat[e]
          /\ Neg[e] \in Range(C) => Models(Range(C)) \cap Sat[e] = {}
      BY <1>1, ConstantIsExact
    <3>2. /\ e \in Range(C) \/ Neg[e] \in Range(C)
          /\ answer' = ConstantAnswer(Range(C), e, Kind(o))
      BY <2>1 DEF AskConstant, Simplified
    <3>3. e \in Range(C) => answer' = "True"
      BY <3>2 DEF ConstantAnswer
    <3>4. e \notin Range(C) => answer' = IF o \in {"assume", "prefer"} THEN "NotTrue" ELSE "False"
      BY <3>2 DEF ConstantAnswer, Kind
    <3> QED
      BY <3>1, <3>2, <3>3, <3>4 DEF AnswersAreExact
  <2>2. CASE AskSolver
    BY <2>2 DEF AskSolver, AnswersAreExact
  <2> QED
    BY <2>1, <2>2
<1> QED
  BY <1>3, <1>4, <1>5, <1>6, <1>7, <1>8, <1>9 DEF IInv

LEMMA AskIInv ==
  ASSUME IInv, NEW o \in {"fork", "assume", "concretize"}, NEW p \in paths,
         NEW e \in Cond, Ask(o, p, e)
  PROVE  IInv'
<1>1. p \in Seq(Cond) /\ asked \in Nat
  BY DEF IInv, TypeOK, QueryType
<1>2. Models(Range(p)) # {}
  BY DEF IInv, PathsAreSatisfiable
<1> QED
  BY <1>1, <1>2, BeginIInv DEF Ask

LEMMA PreferIInv ==
  ASSUME IInv, NEW e \in Cond, Prefer(e)
  PROVE  IInv'
<1>1. constraints \in Seq(Cond) /\ asked \in Nat
  BY DEF IInv, TypeOK, QueryType
<1>2. /\ op = "prefer" /\ path \in paths
      /\ Models(Range(constraints)) \subseteq Models(Range(path))
  BY DEF IInv, QueryInv, Prefer
<1>3. Models(Range(constraints)) # {}
  BY DEF IInv, PathsAreSatisfiable
<1> QED
  BY <1>1, <1>2, <1>3, BeginIInv DEF Prefer

LEMMA TerminateIInv ==
  ASSUME IInv, NEW p \in paths, Terminate(p)
  PROVE  IInv'
<1>1. /\ p \in Seq(Cond) /\ Models(Range(p)) # {}
      /\ path' = p /\ constraints' = p /\ op' = "prefer" /\ pc' = "preferring"
      /\ UNCHANGED <<paths, options, asked, expr, slice, caches, step>>
  BY DEF IInv, TypeOK, QueryType, PathsAreSatisfiable, Terminate
<1>2. QueryType'
  BY <1>1 DEF IInv, TypeOK, QueryType
<1>3. SliceType' /\ CacheType' /\ CallType'
  BY <1>1, Zenon DEF IInv, TypeOK, SliceType, CacheType, CallType, slice, caches, step
<1>4. (QueryInv /\ SliceInv /\ CallInv /\ AnswersAreExact /\ TestsTakeTheirPath)'
  BY <1>1 DEF QueryInv, SliceInv, CallInv, AnswersAreExact, TestsTakeTheirPath
<1>5. CachedVerdictsAreRight' /\ CexCacheIsRight'
  BY <1>1 DEF IInv, caches, CachedVerdictsAreRight, CexCacheIsRight
<1>6. PathsAreSatisfiable'
  BY <1>1 DEF IInv, PathsAreSatisfiable, MissingAssignment
<1> QED
  BY <1>2, <1>3, <1>4, <1>5, <1>6 DEF IInv, TypeOK

LEMMA AskInitialValuesIInv ==
  ASSUME IInv, AskInitialValues
  PROVE  IInv'
<1>1. /\ pc \in {"preferring", "dumping"} /\ pc' = "lookup"
      /\ op' = "solution" /\ expr' = FalseExpr /\ required' = constraints
      /\ call' = [kind |-> "initial", expr |-> FalseExpr] /\ goal' = FalseExpr
      /\ UNCHANGED <<paths, options, asked, path, constraints, caches, found, answer,
                     worklist, newWorklist, elts, done>>
  BY DEF AskInitialValues
<1>2. QueryType'
  BY <1>1 DEF IInv, TypeOK, QueryType
<1>3. SliceType'
  BY <1>1 DEF IInv, TypeOK, QueryType, SliceType
<1>4. CacheType' /\ CallType'
  BY <1>1 DEF IInv, TypeOK, CacheType, CallType, caches
<1>5. QueryInv'
  BY <1>1 DEF IInv, QueryInv
<1>6. (SliceInv /\ CallInv /\ AnswersAreExact /\ TestsTakeTheirPath)'
  BY <1>1 DEF SliceInv, CallInv, AnswersAreExact, TestsTakeTheirPath
<1>7. CachedVerdictsAreRight' /\ CexCacheIsRight'
  BY <1>1 DEF IInv, caches, CachedVerdictsAreRight, CexCacheIsRight
<1>8. PathsAreSatisfiable'
  BY <1>1 DEF IInv, PathsAreSatisfiable, MissingAssignment
<1> QED
  BY <1>2, <1>3, <1>4, <1>5, <1>6, <1>7, <1>8 DEF IInv, TypeOK

-----------------------------------------------------------------------------
(* One constraint: required with all its bytes, or left aside and apart. *)
LEMMA SliceConstraintIInv ==
  ASSUME IInv, SliceConstraint
  PROVE  IInv'
<1> DEFINE c == Head(worklist)
<1>1. /\ pc = "slice" /\ pc' = "slice" /\ worklist # <<>> /\ worklist' = Tail(worklist)
      /\ UNCHANGED <<paths, options, asked, query, caches, step>>
  BY DEF SliceConstraint
<1>2. /\ worklist \in Seq(Cond) /\ newWorklist \in Seq(Cond) /\ required \in Seq(Cond)
      /\ elts \subseteq Var
  BY DEF IInv, TypeOK, SliceType
<1>3. done \in BOOLEAN
  BY Zenon DEF IInv, TypeOK, SliceType
<1>4. c \in Cond /\ Tail(worklist) \in Seq(Cond) /\ Range(worklist) = {c} \cup Range(Tail(worklist))
  BY <1>1, <1>2, RangeOfTail
<1>5. /\ Append(required, c) \in Seq(Cond) /\ Range(Append(required, c)) = Range(required) \cup {c}
      /\ Append(newWorklist, c) \in Seq(Cond)
      /\ Range(Append(newWorklist, c)) = Range(newWorklist) \cup {c}
  BY <1>2, <1>4, RangeOfAppend
<1>6. /\ Range(constraints) = Range(required) \cup Range(worklist) \cup Range(newWorklist)
      /\ Reads[expr] \subseteq elts
      /\ \A d \in Range(required) : Reads[d] \subseteq elts
      /\ done => \A d \in Range(newWorklist) : Reads[d] \cap elts = {}
  BY <1>1 DEF IInv, SliceInv
<1>7. Reads[c] \subseteq Var
  BY <1>4, ConditionType
<1>8. SliceType' /\ SliceInv'
  <2>1. CASE Reads[c] \cap elts # {}
    <3>1. /\ elts' = elts \cup Reads[c] /\ required' = Append(required, c)
          /\ newWorklist' = newWorklist
          /\ done' = IF elts' = elts THEN done ELSE FALSE
      BY <2>1 DEF SliceConstraint
    <3>2. done' \in BOOLEAN
      BY <1>3, <3>1, Zenon
    <3>3. done' => done /\ elts' = elts
      BY <3>1, Zenon
    <3>4. SliceType'
      BY <1>1, <1>2, <1>4, <1>5, <1>7, <3>1, <3>2 DEF SliceType
    <3>5. /\ Range(constraints') = Range(required') \cup Range(worklist') \cup Range(newWorklist')
          /\ Reads[expr'] \subseteq elts'
          /\ \A d \in Range(required') : Reads[d] \subseteq elts'
      BY <1>1, <1>4, <1>5, <1>6, <3>1 DEF query
    <3>6. done' => \A d \in Range(newWorklist') : Reads[d] \cap elts' = {}
      BY <1>6, <3>1, <3>3
    <3> QED
      BY <1>1, <3>4, <3>5, <3>6 DEF SliceInv
  <2>2. CASE Reads[c] \cap elts = {}
    <3>1. newWorklist' = Append(newWorklist, c) /\ UNCHANGED <<elts, done, required>>
      BY <2>2 DEF SliceConstraint
    <3>2. SliceType'
      <4>1. done' \in BOOLEAN
        BY <1>3, <3>1, Zenon
      <4> QED
        BY <1>1, <1>2, <1>4, <1>5, <3>1, <4>1 DEF SliceType
    <3>3. /\ Range(constraints') = Range(required') \cup Range(worklist') \cup Range(newWorklist')
          /\ Reads[expr'] \subseteq elts'
          /\ \A d \in Range(required') : Reads[d] \subseteq elts'
      BY <1>1, <1>4, <1>5, <1>6, <3>1 DEF query
    <3>4. done' => \A d \in Range(newWorklist') : Reads[d] \cap elts' = {}
      BY <1>5, <1>6, <2>2, <3>1
    <3> QED
      BY <1>1, <3>2, <3>3, <3>4 DEF SliceInv
  <2> QED
    BY <2>1, <2>2
<1>12. QueryType'
  BY <1>1 DEF IInv, TypeOK, QueryType, query
<1>9. CacheType' /\ CallType'
  BY <1>1, Zenon DEF IInv, TypeOK, CacheType, CallType, caches, step
<1>10. (QueryInv /\ CallInv /\ AnswersAreExact /\ TestsTakeTheirPath)'
  BY <1>1 DEF IInv, QueryInv, CallInv, AnswersAreExact, TestsTakeTheirPath, query
<1>11. CachedVerdictsAreRight' /\ CexCacheIsRight' /\ PathsAreSatisfiable'
  BY <1>1 DEF IInv, query, caches, CachedVerdictsAreRight, CexCacheIsRight,
              PathsAreSatisfiable, MissingAssignment
<1> QED
  BY <1>8, <1>9, <1>10, <1>11, <1>12 DEF IInv, TypeOK

LEMMA SlicePassIInv ==
  ASSUME IInv, SlicePass
  PROVE  IInv'
<1>1. /\ pc = "slice" /\ worklist = <<>>
      /\ UNCHANGED <<paths, options, asked, query, caches, step>>
  BY DEF SlicePass
<1>2. /\ Range(constraints) = Range(required) \cup Range(newWorklist)
      /\ Reads[expr] \subseteq elts
      /\ \A d \in Range(required) : Reads[d] \subseteq elts
      /\ done => \A d \in Range(newWorklist) : Reads[d] \cap elts = {}
  BY <1>1, RangeOfEmpty DEF IInv, SliceInv
<1>3. pc' \in {"slice", "caching"}
  BY <1>1 DEF SlicePass
<1>4. SliceType' /\ SliceInv'
  <2>1. CASE ~done
    <3>1. /\ worklist' = newWorklist /\ newWorklist' = <<>> /\ done' = TRUE
          /\ pc' = "slice" /\ UNCHANGED <<elts, required>>
      BY <1>1, <2>1, Zenon DEF SlicePass
    <3>2. done' \in BOOLEAN
      BY <3>1, Zenon
    <3>3. SliceType'
      BY <3>1, <3>2 DEF IInv, TypeOK, SliceType
    <3> QED
      BY <1>1, <1>2, <3>1, <3>3, RangeOfEmpty DEF SliceInv, query
  <2>2. CASE done
    <3>1. pc' = "caching" /\ UNCHANGED slice
      BY <2>2, Zenon DEF SlicePass
    <3>2. SliceType'
      BY <3>1, Zenon DEF IInv, TypeOK, SliceType, slice
    <3> QED
      BY <1>1, <1>2, <2>2, <3>1, <3>2 DEF SliceInv, query, slice
  <2> QED
    BY <2>1, <2>2
<1>5. QueryType'
  BY <1>1, <1>3 DEF IInv, TypeOK, QueryType, query
<1>6. CacheType' /\ CallType'
  BY <1>1, Zenon DEF IInv, TypeOK, CacheType, CallType, caches, step
<1>7. (QueryInv /\ CallInv /\ AnswersAreExact /\ TestsTakeTheirPath)'
  BY <1>1, <1>3 DEF IInv, QueryInv, CallInv, AnswersAreExact, TestsTakeTheirPath, query
<1>8. CachedVerdictsAreRight' /\ CexCacheIsRight' /\ PathsAreSatisfiable'
  BY <1>1, <1>3 DEF IInv, query, caches, CachedVerdictsAreRight, CexCacheIsRight,
                    PathsAreSatisfiable, MissingAssignment
<1> QED
  BY <1>4, <1>5, <1>6, <1>7, <1>8 DEF IInv, TypeOK

-----------------------------------------------------------------------------
(* A verdict found in the cache holds of the query as it was asked. *)
LEMMA CachedResultHolds ==
  ASSUME IInv, pc \in {"caching", "probe", "lookup", "return"}, op # "solution", cacheHit
  PROVE  cachedResult \in PartialValidity /\ VerdictHolds(Range(required), expr, cachedResult)
<1>1. expr \in Cond /\ Range(required) \subseteq Cond
  BY RequiredIsEnough DEF IInv
<1>2. /\ cache[CacheKey] \in PartialValidity
      /\ VerdictHolds(Range(CacheKey[1]), CacheKey[2], cache[CacheKey])
  BY DEF IInv, TypeOK, CacheType, CachedVerdictsAreRight, cacheHit
<1>3. CASE expr \in Canonical
  BY <1>2, <1>3 DEF CacheKey, cachedResult, Canonically
<1>4. CASE expr \notin Canonical
  <2>1. cachedResult = negatePartialValidity(cache[CacheKey])
    BY <1>4 DEF cachedResult, Canonically
  <2>2. VerdictHolds(Range(required), Neg[expr], cache[CacheKey])
    BY <1>2, <1>4 DEF CacheKey
  <2>3. Neg[expr] \in Cond /\ Neg[Neg[expr]] = expr
    BY <1>1, ConditionType
  <2> QED
    BY <1>1, <1>2, <2>1, <2>2, <2>3, NegatedVerdict
<1> QED
  BY <1>3, <1>4

LEMMA CacheAnswersIInv ==
  ASSUME IInv, CacheAnswers
  PROVE  IInv'
<1>1. /\ pc = "caching" /\ pc' = "answered" /\ answer' = CachedAnswer /\ CachedAnswer # "none"
      /\ UNCHANGED <<paths, options, asked, query, slice, caches, call, goal, found>>
  BY DEF CacheAnswers
<1>2. op # "solution" /\ op \in {"fork", "assume", "concretize", "prefer"}
  BY <1>1 DEF IInv, QueryInv
<1>3. /\ expr \in Cond
      /\ MayBeFalse <=> ~(Models(Range(constraints)) \subseteq Sat[expr])
      /\ MayBeTrue <=> Models(Range(constraints)) \cap Sat[expr] # {}
  BY <1>1, <1>2, RequiredIsEnough DEF IInv
<1>4. cacheHit /\ Kind(op) \in {"validity", "truth"}
  BY <1>1 DEF CachedAnswer
<1>5. cachedResult \in PartialValidity /\ VerdictHolds(Range(required), expr, cachedResult)
  BY <1>1, <1>2, <1>4, CachedResultHolds
<1>6. op # "concretize" /\ (Kind(op) = "validity" <=> op = "fork")
  BY <1>2, <1>4 DEF Kind
<1>7. answer' = IF op = "fork" THEN VerdictOfValidity(cachedResult) ELSE VerdictOfTruth(cachedResult)
  BY <1>1, <1>4, <1>6 DEF CachedAnswer
<1>8. /\ answer' \in {"True", "False", "Unknown", "NotTrue"}
      /\ answer' = "True" => ~MayBeFalse
      /\ answer' = "False" => ~MayBeTrue
      /\ answer' \in {"Unknown", "NotTrue"} => MayBeFalse \/ ~MayBeTrue
      /\ answer' = "Unknown" => MayBeTrue /\ MayBeFalse
  BY <1>1, <1>5, <1>7
  DEF VerdictOfValidity, VerdictOfTruth, VerdictHolds, PartialValidity, MayBeTrue, MayBeFalse
<1>9. Models(Range(constraints)) # {}
  BY DEF IInv, PathsAreSatisfiable
<1>10. AnswersAreExact'
  BY <1>1, <1>3, <1>6, <1>8, <1>9 DEF AnswersAreExact, query
<1>11. QueryType'
  BY <1>1 DEF IInv, TypeOK, QueryType, query
<1>12. SliceType' /\ CacheType'
  BY <1>1, Zenon DEF IInv, TypeOK, SliceType, CacheType, slice, caches
<1>13. CallType'
  BY <1>1, <1>8 DEF IInv, TypeOK, CallType
<1>14. (QueryInv /\ SliceInv /\ CallInv /\ TestsTakeTheirPath)'
  BY <1>1, <1>2, <1>3 DEF IInv, QueryInv, SliceInv, CallInv, TestsTakeTheirPath, query
<1>15. CachedVerdictsAreRight' /\ CexCacheIsRight' /\ PathsAreSatisfiable'
  BY <1>1 DEF IInv, query, caches, CachedVerdictsAreRight, CexCacheIsRight,
              PathsAreSatisfiable, MissingAssignment
<1> QED
  BY <1>10, <1>11, <1>12, <1>13, <1>14, <1>15 DEF IInv, TypeOK

(* CachingSolver asks for what it does not know. *)
LEMMA CacheMissesIInv ==
  ASSUME IInv, CacheMisses
  PROVE  IInv'
<1>1. /\ pc = "caching" /\ CachedAnswer = "none" /\ call' = RemainingCall
      /\ pc' \in {"probe", "lookup"}
      /\ IF call'.kind = "truth" THEN goal' = call'.expr ELSE goal' = FalseExpr /\ pc' = "lookup"
      /\ UNCHANGED <<paths, options, asked, query, slice, caches, found, answer>>
  BY DEF CacheMisses
<1>2. op \in {"fork", "assume", "concretize", "prefer"} /\ expr \in Cond
  BY <1>1 DEF IInv, QueryInv
<1>3. Kind(op) \in {"validity", "truth", "value"}
  BY <1>2 DEF Kind
<1>4. Neg[expr] \in Cond /\ Neg[expr] # expr /\ FalseExpr \notin Cond
  BY <1>2, ConditionType
<1>5. cacheHit => /\ cachedResult \in PartialValidity
                  /\ VerdictHolds(Range(required), expr, cachedResult)
  BY <1>1, <1>2, CachedResultHolds
<1>6. Kind(op) = "validity" /\ cacheHit =>
        \/ cachedResult = "MayBeTrue" /\ MayBeTrue
        \/ cachedResult = "MayBeFalse" /\ MayBeFalse
  BY <1>1, <1>5
  DEF CachedAnswer, VerdictOfValidity, VerdictHolds, PartialValidity, MayBeTrue, MayBeFalse
<1>7. Kind(op) = "truth" /\ cacheHit => cachedResult = "MayBeTrue"
  BY <1>1, <1>5 DEF CachedAnswer, VerdictOfTruth, PartialValidity
<1>8. /\ call'.kind \in {"validity", "truth", "value"}
      /\ \/ call'.kind = Kind(op) /\ call'.expr = expr
         \/ /\ Kind(op) = "validity" /\ call'.kind = "truth"
            /\ \/ call'.expr = expr /\ MayBeTrue
               \/ call'.expr = Neg[expr] /\ MayBeFalse
  <2>1. CASE Kind(op) = "validity" /\ cacheHit
    <3>1. call' = [kind |-> "truth",
                   expr |-> IF cachedResult = "MayBeTrue" THEN expr ELSE Neg[expr]]
      BY <1>1, <2>1 DEF RemainingCall
    <3> QED
      BY <1>6, <2>1, <3>1
  <2>2. CASE ~(Kind(op) = "validity" /\ cacheHit)
    <3>1. call' = [kind |-> Kind(op), expr |-> expr]
      BY <1>1, <2>2 DEF RemainingCall
    <3> QED
      BY <1>3, <3>1
  <2> QED
    BY <2>1, <2>2
<1>9. QueryType'
  BY <1>1 DEF IInv, TypeOK, QueryType, query
<1>10. SliceType' /\ CacheType'
  BY <1>1, Zenon DEF IInv, TypeOK, SliceType, CacheType, slice, caches
<1>11. CallType'
  BY <1>1, <1>2, <1>4, <1>8 DEF IInv, TypeOK, CallType
<1>12. /\ CacheKey' = CacheKey /\ cacheHit' = cacheHit /\ cachedResult' = cachedResult
       /\ MayBeTrue' = MayBeTrue /\ MayBeFalse' = MayBeFalse
  BY <1>1 DEF CacheKey, cacheHit, cachedResult, Canonically, MayBeTrue, MayBeFalse,
              query, slice, caches
<1>13. CallInv'
  BY <1>1, <1>2, <1>7, <1>8, <1>12 DEF CallInv, query
<1>14. QueryInv'
  BY <1>1, <1>2 DEF IInv, QueryInv, query
<1>15. SliceInv'
  BY <1>1, <1>2 DEF IInv, SliceInv, query, slice
<1>16. (AnswersAreExact /\ TestsTakeTheirPath)'
  BY <1>1 DEF AnswersAreExact, TestsTakeTheirPath
<1>17. CachedVerdictsAreRight' /\ CexCacheIsRight' /\ PathsAreSatisfiable'
  BY <1>1 DEF IInv, query, caches, CachedVerdictsAreRight, CexCacheIsRight,
              PathsAreSatisfiable, MissingAssignment
<1> QED
  BY <1>9, <1>10, <1>11, <1>13, <1>14, <1>15, <1>16, <1>17 DEF IInv, TypeOK

-----------------------------------------------------------------------------
(* A query that ends in a failure has no answer to be wrong about. *)
LEMMA FailIInv ==
  ASSUME IInv, pc \in {"probe", "lookup"}, pc' = "answered", answer' = "Failed",
         UNCHANGED <<paths, options, asked, query, slice, caches, call, goal, found>>
  PROVE  IInv'
<1>1. QueryType'
  BY DEF IInv, TypeOK, QueryType, query
<1>2. SliceType' /\ CacheType'
  BY Zenon DEF IInv, TypeOK, SliceType, CacheType, slice, caches
<1>3. CallType'
  BY DEF IInv, TypeOK, CallType
<1>4. QueryInv'
  BY DEF IInv, QueryInv, query
<1>5. (SliceInv /\ CallInv /\ AnswersAreExact /\ TestsTakeTheirPath)'
  BY DEF SliceInv, CallInv, AnswersAreExact, TestsTakeTheirPath
<1>6. CachedVerdictsAreRight' /\ CexCacheIsRight' /\ PathsAreSatisfiable'
  BY DEF IInv, query, caches, CachedVerdictsAreRight, CexCacheIsRight,
         PathsAreSatisfiable, MissingAssignment
<1> QED
  BY <1>1, <1>2, <1>3, <1>4, <1>5, <1>6 DEF IInv, TypeOK

(* KLEE ends in the middle of a query. *)
LEMMA StopIInv ==
  ASSUME IInv, pc \in {"lookup", "answered"}, pc' \in Stopped,
         UNCHANGED <<paths, options, asked, query, slice, caches, step>>
  PROVE  IInv'
<1>0. pc' \in {"exit", "unhandled"}
  BY DEF Stopped
<1>1. QueryType'
  BY <1>0 DEF IInv, TypeOK, QueryType, query, Stopped
<1>2. SliceType' /\ CacheType' /\ CallType'
  BY Zenon DEF IInv, TypeOK, SliceType, CacheType, CallType, slice, caches, step
<1>3. QueryInv'
  BY <1>0 DEF IInv, QueryInv, query
<1>4. (SliceInv /\ CallInv /\ AnswersAreExact /\ TestsTakeTheirPath)'
  BY <1>0 DEF SliceInv, CallInv, AnswersAreExact, TestsTakeTheirPath
<1>5. CachedVerdictsAreRight' /\ CexCacheIsRight' /\ PathsAreSatisfiable'
  BY <1>0 DEF IInv, query, caches, CachedVerdictsAreRight, CexCacheIsRight,
         PathsAreSatisfiable, MissingAssignment
<1> QED
  BY <1>1, <1>2, <1>3, <1>4, <1>5 DEF IInv, TypeOK

(* CexCachingSolver goes on from one look at its cache to the next. *)
LEMMA RetryIInv ==
  ASSUME IInv, pc' = "lookup",
         \/ pc = "probe" /\ goal' = goal
         \/ /\ pc = "return" /\ op # "solution" /\ call.kind = "validity"
            /\ goal' \in Cond
            /\ (goal' = expr /\ MayBeTrue) \/ (goal' = Neg[expr] /\ MayBeFalse),
         UNCHANGED <<paths, options, asked, query, slice, caches, call, found, answer>>
  PROVE  IInv'
<1>0. op # "solution" /\ pc \in {"probe", "return"}
  BY DEF IInv, QueryInv
<1>1. QueryType'
  BY DEF IInv, TypeOK, QueryType, query
<1>2. SliceType' /\ CacheType'
  BY Zenon DEF IInv, TypeOK, SliceType, CacheType, slice, caches
<1>3. CallType'
  BY DEF IInv, TypeOK, CallType
<1>4. QueryInv'
  BY <1>0 DEF IInv, QueryInv, query
<1>5. SliceInv'
  BY <1>0 DEF IInv, SliceInv, query, slice
<1>6. /\ CacheKey' = CacheKey /\ cacheHit' = cacheHit /\ cachedResult' = cachedResult
      /\ MayBeTrue' = MayBeTrue /\ MayBeFalse' = MayBeFalse
  BY DEF CacheKey, cacheHit, cachedResult, Canonically, MayBeTrue, MayBeFalse,
         query, slice, caches
<1>7. CallInv'
  BY <1>0, <1>6 DEF IInv, CallInv, query
<1>8. (AnswersAreExact /\ TestsTakeTheirPath)'
  BY DEF AnswersAreExact, TestsTakeTheirPath
<1>9. CachedVerdictsAreRight' /\ CexCacheIsRight' /\ PathsAreSatisfiable'
  BY DEF IInv, query, caches, CachedVerdictsAreRight, CexCacheIsRight,
         PathsAreSatisfiable, MissingAssignment
<1> QED
  BY <1>1, <1>2, <1>3, <1>4, <1>5, <1>7, <1>8, <1>9 DEF IInv, TypeOK

LEMMA ProbeIInv ==
  ASSUME IInv, Probe
  PROVE  IInv'
<1>1. CASE pc' = "answered"
  BY <1>1, FailIInv DEF Probe
<1>2. CASE pc' = "lookup"
  BY <1>2, RetryIInv DEF Probe
<1> QED
  BY <1>1, <1>2 DEF Probe

LEMMA StpFailureIInv ==
  ASSUME IInv, StpFailure
  PROVE  IInv'
<1>1. CASE pc' = "answered"
  BY <1>1, FailIInv DEF StpFailure
<1>2. CASE pc' = "exit"
  BY <1>2, StopIInv DEF StpFailure, Stopped, step
<1> QED
  BY <1>1, <1>2 DEF StpFailure

(* The key of the goal is a set of conditions, all the better understood when *)
(* the goal is false: then the key is that of the constraints.                *)
LEMMA GoalKeyType ==
  ASSUME IInv, pc \in {"lookup", "return"}
  PROVE  /\ GoalKey \in SUBSET Cond
         /\ goal = FalseExpr \/ goal \in Cond
         /\ goal = FalseExpr => Models(GoalKey) = Models(Range(required))
         /\ goal \in Cond => Models(GoalKey) = Models(Range(required)) \ Sat[goal]
<1>1. required \in Seq(Cond)
  BY DEF IInv, TypeOK, SliceType
<1>2. Range(required) \in SUBSET Cond
  BY <1>1, RangeType
<1>3. goal = FalseExpr \/ goal \in Cond
  <2>1. CASE op = "solution"
    BY <2>1 DEF IInv, QueryInv
  <2>2. CASE op # "solution"
    <3>1. expr \in Cond /\ Neg[expr] \in Cond
      BY <2>2, ConditionType DEF IInv, QueryInv
    <3>2. op \in {"fork", "assume", "concretize", "prefer"}
      BY <2>2 DEF IInv, QueryInv
    <3>3. Kind(op) \in {"validity", "truth", "value"}
      BY <3>2 DEF Kind
    <3> QED
      BY <2>2, <3>1, <3>3 DEF IInv, CallInv
  <2> QED
    BY <2>1, <2>2
<1> QED
  BY <1>2, <1>3, KeyModels DEF GoalKey

(* An assignment is returned for the goal, from the cache or from STP. *)
LEMMA FoundIInv ==
  ASSUME IInv, pc = "lookup", pc' = "return",
         found' \in Assign \cup {Unsat},
         IF found' = Unsat THEN Models(GoalKey) = {} ELSE found' \in Models(GoalKey),
         CacheType', CexCacheIsRight', cache' = cache,
         UNCHANGED <<paths, options, asked, query, slice, call, goal, answer>>
  PROVE  IInv'
<1>1. QueryType'
  BY DEF IInv, TypeOK, QueryType, query
<1>2. SliceType'
  BY Zenon DEF IInv, TypeOK, SliceType, slice
<1>3. CallType'
  BY DEF IInv, TypeOK, CallType
<1>4. QueryInv'
  BY DEF IInv, QueryInv, query, slice
<1>5. SliceInv'
  BY DEF IInv, SliceInv, query, slice
<1>6. /\ CacheKey' = CacheKey /\ cacheHit' = cacheHit /\ cachedResult' = cachedResult
      /\ MayBeTrue' = MayBeTrue /\ MayBeFalse' = MayBeFalse
  BY DEF CacheKey, cacheHit, cachedResult, Canonically, MayBeTrue, MayBeFalse,
         query, slice
<1>7. CallInv'
  BY <1>6 DEF IInv, CallInv, query
<1>8. (AnswersAreExact /\ TestsTakeTheirPath)'
  BY DEF AnswersAreExact, TestsTakeTheirPath
<1>9. CachedVerdictsAreRight'
  BY DEF IInv, CachedVerdictsAreRight
<1>10. PathsAreSatisfiable'
  <2>1. ~MissingAssignment'
    <3> SUFFICES ASSUME MissingAssignment' PROVE FALSE
      OBVIOUS
    <3>1. found' = Unsat /\ goal = FalseExpr /\ call.kind \in {"validity", "value"}
      BY DEF MissingAssignment
    <3>2. Models(Range(required)) = {}
      BY <3>1, GoalKeyType
    <3>3. op # "solution"
      BY <3>1 DEF IInv, QueryInv
    <3>4. Models(Range(constraints)) \subseteq Models(Range(required))
      BY <3>3, RequiredIsEnough DEF IInv
    <3> QED
      BY <3>2, <3>4 DEF IInv, PathsAreSatisfiable
  <2> QED
    BY <2>1 DEF IInv, PathsAreSatisfiable, query
<1> QED
  BY <1>1, <1>2, <1>3, <1>4, <1>5, <1>7, <1>8, <1>9, <1>10 DEF IInv, TypeOK

LEMMA LookupHitIInv ==
  ASSUME IInv, LookupHit
  PROVE  IInv'
<1>1. /\ pc = "lookup" /\ pc' = "return" /\ found' \in searchForAssignment(GoalKey)
      /\ UNCHANGED <<paths, options, asked, query, slice, caches, call, goal, answer>>
  BY DEF LookupHit
<1>2. GoalKey \in SUBSET Cond
  BY <1>1, GoalKeyType
<1>3. /\ found' \in Assign \cup {Unsat}
      /\ IF found' = Unsat THEN Models(GoalKey) = {} ELSE found' \in Models(GoalKey)
  BY <1>1, <1>2, SearchIsRight DEF IInv
<1>4. GoalKey' = GoalKey
  BY <1>1 DEF GoalKey, slice
<1>5. CacheType' /\ CexCacheIsRight'
  BY <1>1, <1>3, <1>4 DEF IInv, TypeOK, CacheType, CexCacheIsRight, caches
<1> QED
  BY <1>1, <1>3, <1>5, FoundIInv DEF caches

LEMMA StpAnswerIInv ==
  ASSUME IInv, StpAnswer
  PROVE  IInv'
<1>1. /\ pc = "lookup" /\ pc' = "return" /\ found' \in StpAnswers(GoalKey)
      /\ cex' = [K \in DOMAIN cex \cup {GoalKey} |-> IF K = GoalKey THEN found' ELSE cex[K]]
      /\ table' = table \cup ({found'} \ {Unsat})
      /\ UNCHANGED <<paths, options, asked, query, slice, cache, call, goal, answer>>
  BY DEF StpAnswer
<1>2. GoalKey \in SUBSET Cond
  BY <1>1, GoalKeyType
<1>3. /\ found' \in Assign \cup {Unsat}
      /\ IF found' = Unsat THEN Models(GoalKey) = {} ELSE found' \in Models(GoalKey)
  <2>1. CASE Models(GoalKey) = {}
    BY <1>1, <2>1 DEF StpAnswers
  <2>2. CASE Models(GoalKey) # {}
    <3>1. found' \in Models(GoalKey)
      BY <1>1, <2>2 DEF StpAnswers
    <3>2. found' \in Assign
      BY <3>1 DEF Models
    <3> QED
      BY <3>1, <3>2, ConditionType
  <2> QED
    BY <2>1, <2>2
<1>4. GoalKey' = GoalKey
  BY <1>1 DEF GoalKey, slice
<1>5. CacheType'
  BY <1>1, <1>2, <1>3 DEF IInv, TypeOK, CacheType
<1>6. CexCacheIsRight'
  BY <1>1, <1>3, <1>4 DEF IInv, CexCacheIsRight
<1> QED
  BY <1>1, <1>3, <1>5, <1>6, FoundIInv

-----------------------------------------------------------------------------
(* The first assignment shows which side the query can take. *)
LEMMA ReturnWitnessIInv ==
  ASSUME IInv, ReturnWitness
  PROVE  IInv'
<1>1. /\ pc = "return" /\ pc' = "lookup" /\ call.kind = "validity" /\ goal = FalseExpr
      /\ goal' = IF found \in Sat[call.expr] THEN call.expr ELSE Neg[call.expr]
      /\ UNCHANGED <<paths, options, asked, query, slice, caches, call, found, answer>>
  BY DEF ReturnWitness
<1>2. found # Unsat
  BY <1>1 DEF ReturnWitness, MissingAssignment
<1>3. op # "solution"
  BY <1>1 DEF IInv, QueryInv
<1>4. call.expr = expr /\ expr \in Cond /\ Neg[expr] \in Cond
  BY <1>1, <1>3, ConditionType DEF IInv, CallInv, QueryInv
<1>5. Models(GoalKey) = Models(Range(required))
  BY <1>1, GoalKeyType
<1>6. found \in Models(Range(required))
  BY <1>1, <1>2, <1>5 DEF IInv, CexCacheIsRight
<1>7. (goal' = expr /\ MayBeTrue) \/ (goal' = Neg[expr] /\ MayBeFalse)
  BY <1>1, <1>4, <1>6 DEF MayBeTrue, MayBeFalse
<1> QED
  BY <1>1, <1>3, <1>4, <1>7, RetryIInv

(* What CexCachingSolver tells CachingSolver, in terms of the query asked. *)
LEMMA CexResultHolds ==
  ASSUME IInv, ReturnAnswer, op # "solution"
  PROVE  /\ Kind(op) \in {"validity", "truth"} =>
              LET v == CachingVerdict(CexResult) IN
                /\ v \in {"MustBeTrue", "MustBeFalse", "MayBeFalse", "TrueOrFalse"}
                /\ v = "MayBeFalse" => Kind(op) = "truth"
                /\ VerdictHolds(Range(required), expr, v)
         /\ Kind(op) = "value" =>
              \/ CexResult = "True" /\ MayBeTrue
              \/ CexResult = "False" /\ MayBeFalse
<1> DEFINE R == Range(required)
<1>1. /\ pc = "return" /\ ~MissingAssignment
      /\ ~(call.kind = "validity" /\ goal = FalseExpr)
  BY DEF ReturnAnswer
<1>2. op \in {"fork", "assume", "concretize", "prefer"}
  BY <1>1 DEF IInv, QueryInv
<1>3. Kind(op) \in {"validity", "truth", "value"}
  BY <1>2 DEF Kind
<1>4. /\ expr \in Cond /\ Neg[expr] \in Cond /\ Neg[expr] # expr
      /\ Sat[Neg[expr]] = Assign \ Sat[expr] /\ FalseExpr \notin Cond
  BY <1>1, ConditionType DEF IInv, QueryInv
<1>5. /\ goal = FalseExpr => Models(GoalKey) = Models(R)
      /\ goal \in Cond => Models(GoalKey) = Models(R) \ Sat[goal]
  BY <1>1, GoalKeyType
<1>6. IF found = Unsat THEN Models(GoalKey) = {} ELSE found \in Models(GoalKey)
  BY <1>1 DEF IInv, CexCacheIsRight
<1>7. Models(R) \subseteq Assign
  BY DEF Models
<1>8. /\ goal = expr => (found = Unsat <=> ~MayBeFalse)
      /\ goal = Neg[expr] => (found = Unsat <=> ~MayBeTrue)
  BY <1>4, <1>5, <1>6, <1>7 DEF MayBeTrue, MayBeFalse
<1>9. /\ \/ call.kind = Kind(op) /\ call.expr = expr
         \/ /\ Kind(op) = "validity" /\ call.kind = "truth"
            /\ \/ call.expr = expr /\ MayBeTrue
               \/ call.expr = Neg[expr] /\ MayBeFalse
      /\ call.kind = "truth" => goal = call.expr
      /\ call.kind = "value" => goal = FalseExpr
      /\ call.kind = "validity" =>
           \/ goal = FalseExpr
           \/ goal = expr /\ MayBeTrue
           \/ goal = Neg[expr] /\ MayBeFalse
      /\ Kind(op) = "truth" /\ cacheHit => cachedResult = "MayBeTrue"
  BY <1>1 DEF IInv, CallInv
<1>10. ASSUME Kind(op) = "truth"
       PROVE  LET v == CachingVerdict(CexResult) IN
                /\ v \in {"MustBeTrue", "MayBeFalse", "TrueOrFalse"}
                /\ VerdictHolds(R, expr, v)
  <2>1. call.kind = "truth" /\ call.expr = expr /\ goal = expr
    BY <1>9, <1>10
  <2>2. CexResult = IF found = Unsat THEN "True" ELSE "NotTrue"
    BY <2>1 DEF CexResult
  <2>3. cacheHit => MayBeTrue
    BY <1>1, <1>9, <1>10, CachedResultHolds DEF VerdictHolds, MayBeTrue
  <2> QED
    BY <1>8, <1>10, <2>1, <2>2, <2>3 DEF CachingVerdict, VerdictHolds, MayBeTrue, MayBeFalse
<1>11. ASSUME Kind(op) = "validity"
       PROVE  LET v == CachingVerdict(CexResult) IN
                /\ v \in {"MustBeTrue", "MustBeFalse", "TrueOrFalse"}
                /\ VerdictHolds(R, expr, v)
  <2>1. CASE call.kind = "truth"
    <3>1. CexResult = IF found = Unsat THEN "True" ELSE "NotTrue"
      BY <2>1 DEF CexResult
    <3> QED
      BY <1>4, <1>8, <1>9, <1>11, <2>1, <3>1
      DEF CachingVerdict, VerdictHolds, MayBeTrue, MayBeFalse
  <2>2. CASE call.kind = "validity"
    <3>1. /\ call.expr = expr
          /\ (goal = expr /\ MayBeTrue) \/ (goal = Neg[expr] /\ MayBeFalse)
      BY <1>1, <1>9, <2>2
    <3>2. CexResult = IF found # Unsat THEN "Unknown"
                      ELSE IF goal = expr THEN "True" ELSE "False"
      BY <2>2, <3>1 DEF CexResult
    <3> QED
      BY <1>4, <1>8, <1>11, <3>1, <3>2
      DEF CachingVerdict, VerdictHolds, MayBeTrue, MayBeFalse
  <2> QED
    BY <1>9, <1>11, <2>1, <2>2
<1>12. ASSUME Kind(op) = "value"
       PROVE  \/ CexResult = "True" /\ MayBeTrue
              \/ CexResult = "False" /\ MayBeFalse
  <2>1. call.kind = "value" /\ call.expr = expr /\ goal = FalseExpr
    BY <1>9, <1>12
  <2>2. found # Unsat
    BY <1>1, <2>1 DEF MissingAssignment
  <2>3. found \in Models(R)
    BY <1>5, <1>6, <2>1, <2>2
  <2>4. CexResult = IF found \in Sat[expr] THEN "True" ELSE "False"
    BY <2>1 DEF CexResult
  <2> QED
    BY <2>3, <2>4 DEF MayBeTrue, MayBeFalse
<1> QED
  BY <1>3, <1>10, <1>11, <1>12

(* A verdict is filed for the canonical one of the condition and its negation. *)
LEMMA CacheInsertIsRight ==
  ASSUME TypeOK, CachedVerdictsAreRight, expr \in Cond, NEW v \in PartialValidity,
         VerdictHolds(Range(required), expr, v), cacheInsert(v)
  PROVE  /\ DOMAIN cache' \subseteq Seq(Cond) \X Canonical
         /\ \A k \in DOMAIN cache' : cache'[k] \in PartialValidity
         /\ CachedVerdictsAreRight'
<1>1. CASE cacheHit
  BY <1>1 DEF cacheInsert, TypeOK, CacheType, CachedVerdictsAreRight
<1>2. CASE ~cacheHit
  <2>1. cache' = [k \in DOMAIN cache \cup {CacheKey} |->
                    IF k = CacheKey THEN Canonically(v) ELSE cache[k]]
    BY <1>2 DEF cacheInsert
  <2>2. required \in Seq(Cond) /\ Range(required) \in SUBSET Cond
    BY RangeType DEF TypeOK, SliceType
  <2>3. /\ CacheKey \in Seq(Cond) \X Canonical
        /\ Canonically(v) \in PartialValidity
        /\ VerdictHolds(Range(CacheKey[1]), CacheKey[2], Canonically(v))
    <3>1. CASE expr \in Canonical
      BY <2>2, <3>1 DEF CacheKey, Canonically
    <3>2. CASE expr \notin Canonical
      <4>1. Neg[expr] \in Canonical
        BY <3>2, ConditionType
      <4>2. CacheKey = <<required, Neg[expr]>> /\ Canonically(v) = negatePartialValidity(v)
        BY <3>2 DEF CacheKey, Canonically
      <4> QED
        BY <2>2, <4>1, <4>2, NegatedVerdict
    <3> QED
      BY <3>1, <3>2
  <2> QED
    BY <2>1, <2>3 DEF TypeOK, CacheType, CachedVerdictsAreRight
<1> QED
  BY <1>1, <1>2

LEMMA ReturnAnswerIInv ==
  ASSUME IInv, ReturnAnswer
  PROVE  IInv'
<1>1. /\ pc = "return" /\ pc' = "answered"
      /\ UNCHANGED <<paths, options, asked, query, slice, cex, table, call, goal, found>>
  BY DEF ReturnAnswer
<1>2. op \in {"fork", "assume", "concretize", "prefer", "solution"}
  BY <1>1 DEF IInv, QueryInv
<1>3. op = "solution" \/ expr \in Cond
  BY <1>1, <1>2 DEF IInv, QueryInv
<1>4. Models(Range(constraints)) # {}
  BY DEF IInv, PathsAreSatisfiable
<1>5. /\ CacheType' /\ CachedVerdictsAreRight'
      /\ answer' \in {"True", "False", "Unknown", "NotTrue", "Values", "NoSolution"}
      /\ AnswersAreExact' /\ TestsTakeTheirPath'
  <2>1. CASE op \in {"fork", "assume", "prefer"}
    <3> DEFINE v == CachingVerdict(CexResult)
    <3>1. Kind(op) \in {"validity", "truth"} /\ (Kind(op) = "validity" <=> op = "fork")
      BY <2>1 DEF Kind
    <3>2. /\ v \in {"MustBeTrue", "MustBeFalse", "MayBeFalse", "TrueOrFalse"}
          /\ v = "MayBeFalse" => Kind(op) = "truth"
          /\ VerdictHolds(Range(required), expr, v)
      BY <2>1, <3>1, CexResultHolds
    <3>3. cacheInsert(v) /\ answer' = IF Kind(op) = "validity" THEN VerdictOfValidity(v)
                                      ELSE IF v = "MustBeTrue" THEN "True" ELSE "NotTrue"
      BY <3>1 DEF ReturnAnswer
    <3>4. v \in PartialValidity
      BY <3>2 DEF PartialValidity
    <3>5. CachedVerdictsAreRight' /\ CacheType'
      <4>1. /\ DOMAIN cache' \subseteq Seq(Cond) \X Canonical
            /\ \A k \in DOMAIN cache' : cache'[k] \in PartialValidity
            /\ CachedVerdictsAreRight'
        BY <1>3, <2>1, <3>2, <3>3, <3>4, CacheInsertIsRight DEF IInv
      <4> QED
        BY <1>1, <4>1 DEF IInv, TypeOK, CacheType
    <3> HIDE DEF v
    <3>6. /\ answer' \in {"True", "False", "Unknown", "NotTrue"}
          /\ answer' = "True" => ~MayBeFalse
          /\ answer' = "False" => ~MayBeTrue
          /\ answer' \in {"Unknown", "NotTrue"} => MayBeFalse \/ ~MayBeTrue
          /\ answer' = "Unknown" => MayBeTrue /\ MayBeFalse
      BY <3>1, <3>2, <3>3 DEF VerdictOfValidity, VerdictHolds, MayBeTrue, MayBeFalse
    <3>7. /\ MayBeFalse <=> ~(Models(Range(constraints)) \subseteq Sat[expr])
          /\ MayBeTrue <=> Models(Range(constraints)) \cap Sat[expr] # {}
      BY <1>1, <2>1, RequiredIsEnough DEF IInv
    <3>8. AnswersAreExact'
      BY <1>1, <1>4, <2>1, <3>6, <3>7 DEF AnswersAreExact, query
    <3>9. TestsTakeTheirPath'
      BY <1>1, <2>1 DEF TestsTakeTheirPath, query
    <3> QED
      BY <3>5, <3>6, <3>8, <3>9
  <2>2. CASE op = "concretize"
    <3>1. Kind(op) = "value"
      BY <2>2 DEF Kind
    <3>2. cache' = cache /\ answer' = CexResult
      BY <3>1 DEF ReturnAnswer
    <3>3. \/ answer' = "True" /\ MayBeTrue
          \/ answer' = "False" /\ MayBeFalse
      BY <2>2, <3>1, <3>2, CexResultHolds
    <3>4. /\ MayBeFalse <=> ~(Models(Range(constraints)) \subseteq Sat[expr])
          /\ MayBeTrue <=> Models(Range(constraints)) \cap Sat[expr] # {}
      BY <1>1, <2>2, RequiredIsEnough DEF IInv
    <3>5. AnswersAreExact' /\ TestsTakeTheirPath'
      BY <1>1, <2>2, <3>3, <3>4 DEF AnswersAreExact, TestsTakeTheirPath, query
    <3>6. CacheType' /\ CachedVerdictsAreRight'
      BY <1>1, <3>2 DEF IInv, TypeOK, CacheType, CachedVerdictsAreRight
    <3> QED
      BY <3>3, <3>5, <3>6
  <2>3. CASE op = "solution"
    <3>1. Kind(op) = "initial" /\ call.kind = "initial" /\ goal = FalseExpr /\ required = constraints
      BY <1>1, <2>3 DEF Kind, IInv, QueryInv
    <3>2. cache' = cache /\ answer' = IF found = Unsat THEN "NoSolution" ELSE "Values"
      BY <3>1 DEF ReturnAnswer, CexResult
    <3>3. Models(GoalKey) = Models(Range(constraints))
      BY <1>1, <3>1, GoalKeyType
    <3>4. found # Unsat /\ found \in Models(Range(constraints))
      BY <1>1, <1>4, <3>3 DEF IInv, CexCacheIsRight
    <3>5. Models(Range(constraints)) \subseteq Models(Range(path))
      BY <1>1 DEF IInv, QueryInv
    <3>6. AnswersAreExact' /\ TestsTakeTheirPath'
      BY <1>1, <2>3, <3>2, <3>4, <3>5 DEF AnswersAreExact, TestsTakeTheirPath, query
    <3>7. CacheType' /\ CachedVerdictsAreRight'
      BY <1>1, <3>2 DEF IInv, TypeOK, CacheType, CachedVerdictsAreRight
    <3> QED
      BY <3>2, <3>6, <3>7
  <2> QED
    BY <1>2, <2>1, <2>2, <2>3
<1>6. QueryType'
  BY <1>1 DEF IInv, TypeOK, QueryType, query
<1>7. SliceType'
  BY <1>1, Zenon DEF IInv, TypeOK, SliceType, slice
<1>8. CallType'
  BY <1>1, <1>5 DEF IInv, TypeOK, CallType
<1>9. QueryInv'
  BY <1>1, <1>3 DEF IInv, QueryInv, query
<1>10. (SliceInv /\ CallInv)'
  BY <1>1 DEF SliceInv, CallInv
<1>11. CexCacheIsRight' /\ PathsAreSatisfiable'
  BY <1>1 DEF IInv, query, CexCacheIsRight, PathsAreSatisfiable, MissingAssignment
<1> QED
  BY <1>5, <1>6, <1>7, <1>8, <1>9, <1>10, <1>11 DEF IInv, TypeOK

-----------------------------------------------------------------------------
(* What becomes of the state that asked: it ends, goes on with some of its *)
(* inputs, or as two states that share them out.                           *)
Ends == paths' = Replaced(path, {})
Narrows(q) ==
  /\ paths' = Replaced(path, {q})
  /\ q \in Seq(Cond)
  /\ Models(Range(q)) # {} /\ Models(Range(q)) \subseteq Models(Range(path))
Splits(q, r) ==
  /\ paths' = Replaced(path, {q, r})
  /\ q \in Seq(Cond) /\ r \in Seq(Cond)
  /\ Models(Range(q)) # {} /\ Models(Range(q)) \subseteq Models(Range(path))
  /\ Models(Range(r)) # {} /\ Models(Range(r)) = Models(Range(path)) \ Models(Range(q))
Settles ==
  /\ pc = "answered" /\ path \in paths
  /\ \/ paths' = paths
     \/ Ends
     \/ \E q \in Seq(Cond) : Narrows(q)
     \/ \E q, r \in Seq(Cond) : Splits(q, r)

(* The actions that settle a query. *)
Settle ==
  \/ ForkDecided \/ ForkBoth \/ ForkOne \/ ForkFailed
  \/ AssumeHolds \/ AssumeFails \/ Concretize \/ Dump

(* A constraint that the answer leaves possible narrows the path. *)
LEMMA Possible ==
  ASSUME IInv, pc = "answered", op \in {"fork", "assume", "concretize"}
  PROVE  /\ path \in paths /\ path \in Seq(Cond) /\ expr \in Cond /\ Neg[expr] \in Cond
         /\ \A e \in {expr, Neg[expr]} :
              /\ addConstraint(path, e) \in Seq(Cond)
              /\ Models(Range(addConstraint(path, e))) = Models(Range(path)) \cap Sat[e]
         /\ Models(Range(path)) \subseteq Assign /\ Sat[Neg[expr]] = Assign \ Sat[expr]
         /\ answer = "Unknown" => /\ Models(Range(path)) \cap Sat[expr] # {}
                                  /\ ~(Models(Range(path)) \subseteq Sat[expr])
         /\ answer = "NotTrue" => ~(Models(Range(path)) \subseteq Sat[expr])
         /\ op = "concretize" => /\ answer = "True" => Models(Range(path)) \cap Sat[expr] # {}
                                 /\ answer = "False" => ~(Models(Range(path)) \subseteq Sat[expr])
<1>1. path \in paths /\ constraints = path /\ expr \in Cond /\ path \in Seq(Cond)
  BY DEF IInv, QueryInv, TypeOK, QueryType
<1>2. Neg[expr] \in Cond /\ Sat[Neg[expr]] = Assign \ Sat[expr]
  BY <1>1, ConditionType
<1>3. \A e \in {expr, Neg[expr]} :
        /\ addConstraint(path, e) \in Seq(Cond)
        /\ Models(Range(addConstraint(path, e))) = Models(Range(path)) \cap Sat[e]
  BY <1>1, <1>2, ModelsOfAdd
<1>4. Models(Range(path)) \subseteq Assign
  BY DEF Models
<1>5. /\ answer = "Unknown" => /\ Models(Range(path)) \cap Sat[expr] # {}
                              /\ ~(Models(Range(path)) \subseteq Sat[expr])
      /\ answer = "NotTrue" => ~(Models(Range(path)) \subseteq Sat[expr])
      /\ op = "concretize" => /\ answer = "True" => Models(Range(path)) \cap Sat[expr] # {}
                              /\ answer = "False" => ~(Models(Range(path)) \subseteq Sat[expr])
  BY <1>1 DEF IInv, AnswersAreExact
<1> QED
  BY <1>1, <1>2, <1>3, <1>4, <1>5

LEMMA SettleSettles ==
  ASSUME IInv, Settle
  PROVE  /\ Settles
         /\ pc' = "idle" /\ Forget /\ UNCHANGED <<options, asked, caches>>
<1>1. /\ pc' = "idle" /\ Forget /\ UNCHANGED <<options, asked, caches>> /\ pc = "answered"
  BY DEF Settle, ForkDecided, ForkBoth, ForkOne, ForkFailed, AssumeHolds, AssumeFails,
         Concretize, Dump
<1>2. path \in paths
  BY <1>1 DEF IInv, QueryInv
<1>3. CASE ForkDecided
  BY <1>1, <1>2, <1>3 DEF ForkDecided, Settles
<1>4. CASE ForkFailed \/ AssumeFails \/ Dump
  BY <1>1, <1>2, <1>4 DEF ForkFailed, AssumeFails, Dump, Settles, Ends
<1>5. CASE ForkBoth
  <2> DEFINE q == addConstraint(path, expr)
             r == addConstraint(path, Neg[expr])
  <2>1. op = "fork" /\ answer = "Unknown" /\ paths' = Replaced(path, {q, r})
    BY <1>5 DEF ForkBoth
  <2>2. /\ q \in Seq(Cond) /\ r \in Seq(Cond)
        /\ Models(Range(q)) = Models(Range(path)) \cap Sat[expr]
        /\ Models(Range(r)) = Models(Range(path)) \cap Sat[Neg[expr]]
        /\ Models(Range(path)) \subseteq Assign /\ Sat[Neg[expr]] = Assign \ Sat[expr]
        /\ Models(Range(path)) \cap Sat[expr] # {}
        /\ ~(Models(Range(path)) \subseteq Sat[expr])
    BY <1>1, <2>1, Possible
  <2> HIDE DEF q, r
  <2>3. Splits(q, r)
    BY <2>1, <2>2 DEF Splits
  <2> QED
    BY <1>1, <1>2, <2>2, <2>3 DEF Settles
<1>6. ASSUME NEW e \in {expr, Neg[expr]}, op \in {"fork", "assume", "concretize"},
             paths' = Replaced(path, {addConstraint(path, e)}),
             Models(Range(path)) \cap Sat[e] # {}
      PROVE  Settles
  <2> DEFINE q == addConstraint(path, e)
  <2>1. q \in Seq(Cond) /\ Models(Range(q)) = Models(Range(path)) \cap Sat[e]
    BY <1>1, <1>6, Possible
  <2>2. Narrows(q)
    BY <1>6, <2>1 DEF Narrows
  <2> HIDE DEF q
  <2> QED
    BY <1>1, <1>2, <2>1, <2>2 DEF Settles
<1>7. ASSUME op \in {"fork", "assume", "concretize"}
      PROVE  ~(Models(Range(path)) \subseteq Sat[expr])
               => Models(Range(path)) \cap Sat[Neg[expr]] # {}
  BY <1>1, <1>7, Possible
<1>8. CASE ForkOne
  <2>1. op = "fork" /\ answer = "Unknown"
    BY <1>8 DEF ForkOne
  <2>2. \/ paths' = Replaced(path, {addConstraint(path, expr)})
        \/ paths' = Replaced(path, {addConstraint(path, Neg[expr])})
    BY <1>8 DEF ForkOne
  <2> QED
    BY <1>1, <1>6, <1>7, <2>1, <2>2, Possible
<1>9. CASE AssumeHolds
  <2>1. op = "assume" /\ answer = "NotTrue"
        /\ paths' = Replaced(path, {addConstraint(path, Neg[expr])})
    BY <1>9 DEF AssumeHolds
  <2> QED
    BY <1>1, <1>6, <1>7, <2>1, Possible
<1>10. CASE Concretize
  <2>1. op = "concretize"
    BY <1>10 DEF Concretize
  <2>2. \/ answer = "True"  /\ paths' = Replaced(path, {addConstraint(path, expr)})
        \/ answer = "False" /\ paths' = Replaced(path, {addConstraint(path, Neg[expr])})
    BY <1>10 DEF Concretize
  <2> QED
    BY <1>1, <1>6, <1>7, <2>1, <2>2, Possible
<1> QED
  BY <1>1, <1>3, <1>4, <1>5, <1>8, <1>9, <1>10 DEF Settle

(* Each path has inputs of its own. *)
Disjoint ==
  \A p, q \in paths : p # q => Models(Range(p)) \cap Models(Range(q)) = {}

PInv == IInv /\ Disjoint

LEMMA SettleIsShared ==
  ASSUME IInv, Disjoint, Settles
  PROVE  /\ paths' \subseteq Seq(Cond)
         /\ \A p \in paths' : Models(Range(p)) # {}
         /\ Disjoint'
<1>1. /\ paths \subseteq Seq(Cond) /\ path \in paths
      /\ \A p \in paths : Models(Range(p)) # {}
      /\ \A p, q \in paths : p # q => Models(Range(p)) \cap Models(Range(q)) = {}
  BY DEF IInv, TypeOK, QueryType, PathsAreSatisfiable, Disjoint, Settles
<1>2. CASE paths' = paths
  BY <1>1, <1>2 DEF Disjoint
<1>3. CASE Ends
  <2>1. paths' \subseteq paths
    BY <1>3 DEF Ends, Replaced
  <2> QED
    BY <1>1, <2>1 DEF Disjoint
<1>4. CASE \E q \in Seq(Cond) : Narrows(q)
  <2>1. PICK q \in Seq(Cond) : Narrows(q)
    BY <1>4
  <2>2. /\ paths' = (paths \ {path}) \cup {q}
        /\ Models(Range(q)) # {} /\ Models(Range(q)) \subseteq Models(Range(path))
    BY <2>1 DEF Narrows, Replaced
  <2>3. \A p \in paths \ {path} : Models(Range(p)) \cap Models(Range(q)) = {}
    BY <1>1, <2>2
  <2> QED
    BY <1>1, <2>2, <2>3 DEF Disjoint
<1>5. CASE \E q, r \in Seq(Cond) : Splits(q, r)
  <2>1. PICK q \in Seq(Cond), r \in Seq(Cond) : Splits(q, r)
    BY <1>5
  <2>2. /\ paths' = (paths \ {path}) \cup {q, r}
        /\ Models(Range(q)) # {} /\ Models(Range(q)) \subseteq Models(Range(path))
        /\ Models(Range(r)) # {} /\ Models(Range(r)) = Models(Range(path)) \ Models(Range(q))
    BY <2>1 DEF Splits, Replaced
  <2>3. \A p \in paths \ {path} : /\ Models(Range(p)) \cap Models(Range(q)) = {}
                                  /\ Models(Range(p)) \cap Models(Range(r)) = {}
    BY <1>1, <2>2
  <2>4. Models(Range(q)) \cap Models(Range(r)) = {}
    BY <2>2
  <2> QED
    BY <1>1, <2>2, <2>3, <2>4 DEF Disjoint
<1> QED
  BY <1>2, <1>3, <1>4, <1>5 DEF Settles

-----------------------------------------------------------------------------
(* The preference that is found possible is added to the copy of the state. *)
LEMMA PreferredIInv ==
  ASSUME IInv, Preferred
  PROVE  IInv'
<1>1. /\ pc = "answered" /\ op = "prefer" /\ pc' \in {"dumping", "preferring"} /\ answer' = "none"
      /\ constraints' = IF answer = "NotTrue" THEN addConstraint(constraints, Neg[expr])
                        ELSE constraints
      /\ UNCHANGED <<paths, options, asked, op, path, expr, slice, caches, call, goal, found>>
  BY DEF Preferred
<1>2. /\ expr \in Cond /\ Neg[expr] \in Cond /\ Sat[Neg[expr]] = Assign \ Sat[expr]
      /\ constraints \in Seq(Cond) /\ path \in paths
      /\ Models(Range(constraints)) \subseteq Models(Range(path))
      /\ Models(Range(constraints)) # {}
  BY <1>1, ConditionType DEF IInv, QueryInv, TypeOK, QueryType, PathsAreSatisfiable
<1>3. Models(Range(constraints)) \subseteq Assign
  BY DEF Models
<1>4. /\ constraints' \in Seq(Cond) /\ Models(Range(constraints')) # {}
      /\ Models(Range(constraints')) \subseteq Models(Range(path))
  <2>1. CASE answer = "NotTrue"
    <3>1. ~(Models(Range(constraints)) \subseteq Sat[expr])
      BY <1>1, <2>1 DEF IInv, AnswersAreExact
    <3>2. /\ constraints' \in Seq(Cond)
          /\ Models(Range(constraints')) = Models(Range(constraints)) \cap Sat[Neg[expr]]
      BY <1>1, <1>2, <2>1, ModelsOfAdd
    <3> QED
      BY <1>2, <1>3, <3>1, <3>2
  <2>2. CASE answer # "NotTrue"
    BY <1>1, <1>2, <2>2
  <2> QED
    BY <2>1, <2>2
<1>5. QueryType'
  BY <1>1, <1>4 DEF IInv, TypeOK, QueryType
<1>6. SliceType'
  BY <1>1, Zenon DEF IInv, TypeOK, SliceType, slice
<1>7. CacheType' /\ CallType'
  BY <1>1 DEF IInv, TypeOK, CacheType, CallType, caches
<1>8. QueryInv'
  BY <1>1, <1>2, <1>4 DEF QueryInv
<1>9. (SliceInv /\ CallInv /\ AnswersAreExact /\ TestsTakeTheirPath)'
  BY <1>1 DEF SliceInv, CallInv, AnswersAreExact, TestsTakeTheirPath
<1>10. CachedVerdictsAreRight' /\ CexCacheIsRight'
  BY <1>1 DEF IInv, caches, CachedVerdictsAreRight, CexCacheIsRight
<1>11. PathsAreSatisfiable'
  BY <1>1, <1>4 DEF IInv, PathsAreSatisfiable, MissingAssignment
<1> QED
  BY <1>5, <1>6, <1>7, <1>8, <1>9, <1>10, <1>11 DEF IInv, TypeOK

-----------------------------------------------------------------------------
LEMMA StutterIInv ==
  ASSUME IInv, UNCHANGED vars
  PROVE  IInv'
<1>1. UNCHANGED <<paths, options, asked, pc, query, slice, caches, step>>
  BY DEF vars
<1>2. QueryType'
  BY <1>1 DEF IInv, TypeOK, QueryType, query
<1>3. SliceType' /\ CacheType' /\ CallType'
  BY <1>1, Zenon DEF IInv, TypeOK, SliceType, CacheType, CallType, slice, caches, step
<1>4. QueryInv' /\ SliceInv'
  BY <1>1 DEF IInv, QueryInv, SliceInv, query, slice, step
<1>5. CallInv'
  BY <1>1 DEF IInv, CallInv, query, slice, caches, step, CacheKey, cacheHit, cachedResult,
              Canonically, MayBeTrue, MayBeFalse
<1>6. (AnswersAreExact /\ TestsTakeTheirPath)'
  BY <1>1 DEF IInv, AnswersAreExact, TestsTakeTheirPath, query, step
<1>7. CachedVerdictsAreRight' /\ CexCacheIsRight'
  BY <1>1 DEF IInv, caches, slice, step, CachedVerdictsAreRight, CexCacheIsRight, GoalKey
<1>8. PathsAreSatisfiable'
  BY <1>1 DEF IInv, PathsAreSatisfiable, MissingAssignment, query, step
<1> QED
  BY <1>2, <1>3, <1>4, <1>5, <1>6, <1>7, <1>8 DEF IInv, TypeOK

(* Every step but those that settle a query leaves the paths alone. *)
LEMMA QueryStep ==
  ASSUME IInv, [Next]_vars, ~Settle
  PROVE  IInv' /\ paths' = paths
<1>1. CASE UNCHANGED vars
  BY <1>1, StutterIInv DEF vars
<1>2. \A o \in {"fork", "assume", "concretize", "prefer"} : Program[o] \subseteq Cond
  BY SolverChainAssumption
<1>3. ASSUME NEW o \in {"fork", "assume", "concretize"}, NEW p \in paths, NEW e \in Program[o],
             Ask(o, p, e)
      PROVE  IInv' /\ paths' = paths
  BY <1>2, <1>3, AskIInv DEF Ask
<1>4. ASSUME NEW p \in paths, Terminate(p)
      PROVE  IInv' /\ paths' = paths
  BY <1>4, TerminateIInv DEF Terminate
<1>5. ASSUME NEW e \in Program["prefer"], Prefer(e)
      PROVE  IInv' /\ paths' = paths
  BY <1>2, <1>5, PreferIInv DEF Prefer
<1>6. CASE AskInitialValues
  BY <1>6, AskInitialValuesIInv DEF AskInitialValues
<1>7. CASE SliceConstraint
  BY <1>7, SliceConstraintIInv DEF SliceConstraint
<1>8. CASE SlicePass
  BY <1>8, SlicePassIInv DEF SlicePass
<1>9. CASE CacheAnswers
  BY <1>9, CacheAnswersIInv DEF CacheAnswers
<1>10. CASE CacheMisses
  BY <1>10, CacheMissesIInv DEF CacheMisses
<1>11. CASE Probe
  BY <1>11, ProbeIInv DEF Probe
<1>12. CASE LookupHit
  BY <1>12, LookupHitIInv DEF LookupHit
<1>13. CASE StpAnswer
  BY <1>13, StpAnswerIInv DEF StpAnswer
<1>14. CASE StpFailure
  BY <1>14, StpFailureIInv DEF StpFailure
<1>15. CASE ReturnWitness
  BY <1>15, ReturnWitnessIInv DEF ReturnWitness
<1>16. CASE ReturnAnswer
  BY <1>16, ReturnAnswerIInv DEF ReturnAnswer
<1>17. CASE UnhandledFailure
  BY <1>17, StopIInv DEF UnhandledFailure, Stopped
<1>18. CASE Preferred
  BY <1>18, PreferredIInv DEF Preferred
<1> QED
  BY <1>1, <1>3, <1>4, <1>5, <1>6, <1>7, <1>8, <1>9, <1>10, <1>11, <1>12, <1>13, <1>14,
     <1>15, <1>16, <1>17, <1>18 DEF Next, Settle

LEMMA InitPInv == Init => PInv
<1>1. Init => Disjoint
  BY DEF Init, Disjoint
<1> QED
  BY <1>1, InitIInv DEF PInv

LEMMA NextPInv ==
  ASSUME PInv, [Next]_vars
  PROVE  PInv'
<1>1. CASE Settle
  <2>1. Settles /\ pc' = "idle" /\ Forget /\ UNCHANGED <<options, asked, caches>>
    BY <1>1, SettleSettles DEF PInv
  <2>2. paths' \subseteq Seq(Cond) /\ (\A p \in paths' : Models(Range(p)) # {}) /\ Disjoint'
    BY <2>1, SettleIsShared DEF PInv
  <2> QED
    BY <2>1, <2>2, SettleIInv DEF PInv
<1>2. CASE ~Settle
  BY <1>2, QueryStep DEF PInv, Disjoint
<1> QED
  BY <1>1, <1>2

THEOREM Invariant == Spec => []PInv
<1>1. Init => PInv
  BY InitPInv
<1>2. PInv /\ [Next]_vars => PInv'
  BY NextPInv
<1> QED
  BY <1>1, <1>2, PTL DEF Spec

(* The caches and the program counters of the solvers have their types, for *)
(* any set of conditions and any number of queries.                         *)
THEOREM TypeCorrect == Spec => []TypeOK
<1>1. PInv => TypeOK
  BY DEF PInv, IInv
<1> QED
  BY <1>1, Invariant, PTL

(* Each verdict of CachingSolver is true of the condition it is filed under. *)
THEOREM CachedVerdictsRight == Spec => []CachedVerdictsAreRight
<1>1. PInv => CachedVerdictsAreRight
  BY DEF PInv, IInv
<1> QED
  BY <1>1, Invariant, PTL

(* Each assignment of CexCachingSolver satisfies its key. *)
THEOREM CexCacheRight == Spec => []CexCacheIsRight
<1>1. PInv => CexCacheIsRight
  BY DEF PInv, IInv
<1> QED
  BY <1>1, Invariant, PTL

(* The executor's answers are true of all the constraints of the state. *)
THEOREM AnswersExact == Spec => []AnswersAreExact
<1>1. PInv => AnswersAreExact
  BY DEF PInv, IInv
<1> QED
  BY <1>1, Invariant, PTL

(* Each path under exploration has an input that takes it. *)
THEOREM PathsSatisfiable == Spec => []PathsAreSatisfiable
<1>1. PInv => PathsAreSatisfiable
  BY DEF PInv, IInv
<1> QED
  BY <1>1, Invariant, PTL

(* The values of a test case take the path they are written for. *)
THEOREM TestsTakePath == Spec => []TestsTakeTheirPath
<1>1. PInv => TestsTakeTheirPath
  BY DEF PInv, IInv
<1> QED
  BY <1>1, Invariant, PTL

-----------------------------------------------------------------------------
Parts == {Models(Range(p)) : p \in paths}

LEMMA InitShares ==
  ASSUME Init
  PROVE  Partition!Init
<1>1. Models({}) = Assign
  BY DEF Models
<1> QED
  BY <1>1, RangeOfEmpty DEF Init, Partition!Init

(* The other paths keep their inputs. *)
LEMMA PartsReplaced ==
  ASSUME IInv, Disjoint, path \in paths, NEW new, paths' = Replaced(path, new)
  PROVE  Parts' = (Parts \ {Models(Range(path))}) \cup {Models(Range(q)) : q \in new}
<1>1. \A p \in paths : p # path => Models(Range(p)) # Models(Range(path))
  BY DEF IInv, PathsAreSatisfiable, Disjoint
<1>2. paths' = (paths \ {path}) \cup new
  BY DEF Replaced
<1>3. \A M : M \in Parts' <=> \E p \in paths' : M = Models(Range(p))
  BY DEF Parts
<1>4. \A M : M \in Parts <=> \E p \in paths : M = Models(Range(p))
  BY DEF Parts
<1>5. ASSUME NEW M
      PROVE  M \in Parts' <=> M \in (Parts \ {Models(Range(path))}) \cup {Models(Range(q)) : q \in new}
  BY <1>1, <1>2, <1>3, <1>4
<1> QED
  BY <1>5

LEMMA SettleShares ==
  ASSUME IInv, Disjoint, Settles
  PROVE  [Partition!Next]_Parts
<1> DEFINE P == Models(Range(path))
<1>1. path \in paths /\ P \in Parts
  BY DEF Settles, Parts
<1>2. CASE paths' = paths
  BY <1>2 DEF Parts
<1>3. CASE Ends
  <2>1. Parts' = Parts \ {P}
    BY <1>1, <1>3, PartsReplaced DEF Ends
  <2>2. Partition!End(P)
    BY <2>1 DEF Partition!End, Parts
  <2> QED
    BY <1>1, <2>2 DEF Partition!Next, Parts
<1>4. CASE \E q \in Seq(Cond) : Narrows(q)
  <2>1. PICK q \in Seq(Cond) : Narrows(q)
    BY <1>4
  <2> DEFINE S == Models(Range(q))
  <2>2. Parts' = (Parts \ {P}) \cup {S}
    BY <1>1, <2>1, PartsReplaced DEF Narrows
  <2>3. S # {} /\ S \in SUBSET P
    BY <2>1 DEF Narrows
  <2>4. Partition!Narrow(P, S)
    BY <2>2, <2>3 DEF Partition!Narrow, Parts
  <2> HIDE DEF S, P
  <2> QED
    BY <1>1, <2>3, <2>4 DEF Partition!Next, Parts
<1>5. CASE \E q, r \in Seq(Cond) : Splits(q, r)
  <2>1. PICK q \in Seq(Cond), r \in Seq(Cond) : Splits(q, r)
    BY <1>5
  <2> DEFINE S == Models(Range(q))
  <2>2. Parts' = (Parts \ {P}) \cup {Models(Range(x)) : x \in {q, r}}
    BY <1>1, <2>1, PartsReplaced DEF Splits
  <2>3. S # {} /\ S \in SUBSET P /\ Models(Range(r)) = P \ S /\ P \ S # {}
    BY <2>1 DEF Splits
  <2>4. Parts' = (Parts \ {P}) \cup {S, P \ S}
    BY <2>2, <2>3
  <2>5. Partition!Split(P, S)
    BY <2>3, <2>4 DEF Partition!Split, Parts
  <2> HIDE DEF S, P
  <2> QED
    BY <1>1, <2>3, <2>5 DEF Partition!Next, Parts
<1> QED
  BY <1>2, <1>3, <1>4, <1>5 DEF Settles

(* The path conditions share out the inputs of the program: no input is lost *)
(* but where a path ends or is narrowed, and none takes two paths.           *)
THEOREM SharesOutInputs == Spec => ImplementsPathPartition
<1>1. Init => Partition!Init
  BY InitShares
<1>2. PInv /\ [Next]_vars => [Partition!Next]_Parts
  <2> SUFFICES ASSUME PInv, [Next]_vars PROVE [Partition!Next]_Parts
    OBVIOUS
  <2>1. CASE Settle
    BY <2>1, SettleSettles, SettleShares DEF PInv
  <2>2. CASE ~Settle
    BY <2>2, QueryStep DEF PInv, Parts
  <2> QED
    BY <2>1, <2>2
<1> QED
  BY <1>1, <1>2, Invariant, PTL DEF Spec, ImplementsPathPartition, Partition!Spec, Parts

=============================================================================
