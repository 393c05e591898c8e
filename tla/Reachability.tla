---------------------------- MODULE Reachability -----------------------------
(***************************************************************************)
(* The static distance the trace-guided searcher goes by: isReachable,     *)
(* isReachableForward and computePathDist (klee/lib/Core/Searcher.cpp),    *)
(* one action per turn of their loops.                                     *)
(*                                                                         *)
(* A question is asked from an instruction src and the call sites on the   *)
(* stack of the asking state.  isReachableForward is called for src and    *)
(* then, unless src and dest are in one function, for the call sites from  *)
(* the innermost one outwards, until one call finds dest.                  *)
(*                                                                         *)
(* A program g is a record: g.func[b] is the function of basic block b,    *)
(* g.succ[b] the sequence of b's successors, g.calls[b] the sequence of    *)
(* functions with a body that b calls, g.entry[f] the first block of f.    *)
(* An instruction is a record [block, line].                               *)
(***************************************************************************)
EXTENDS Integers, Sequences, FiniteSets, Functions

CONSTANTS
  Programs,     \* the programs asked about
  Line,         \* line numbers within a block
  MaxStack      \* bound on the call sites on the stack

NoBlock == "no block"

Blocks(g) == DOMAIN g.succ

Instructions(g) == [block : Blocks(g), line : Line]

IsProgram(g) ==
  /\ NoBlock \notin Blocks(g)
  /\ \A b \in Blocks(g) : /\ g.succ[b] \in Seq(Blocks(g))
                          /\ g.calls[b] \in Seq(DOMAIN g.entry)
  /\ \A f \in DOMAIN g.entry : g.entry[f] \in Blocks(g)

ASSUME ReachabilityAssumption ==
  /\ \A g \in Programs : IsProgram(g)
  /\ MaxStack \in Nat

VARIABLES
  program,      \* the program under analysis
  src, dest,    \* the instructions asked about
  sites,        \* the call sites on the stack, outermost first
  pc,           \* where the code is
  frame,        \* the call site searched from; src comes after the last one
  queue,        \* stackBB
  visited,      \* visitedBB
  prev,         \* block -> the blocks it was pushed from, the latest first
  prevBB,       \* computePathDist's position on the way back
  dist,         \* computePathDist's result so far
  answer        \* what isReachable answers

question == <<program, src, dest, sites>>
search   == <<queue, visited, prev, prevBB, dist>>
vars     == <<question, pc, frame, search, answer>>

NoAnswer == -2

SameFunction == program.func[src.block] = program.func[dest.block]

From(i) == IF i > Len(sites) THEN src ELSE sites[i]

(* Variant of Interprocedural: callees are never entered. *)
InsideOnly == FALSE

Interprocedural == program.func[From(frame).block] # program.func[dest.block]

(* Edges the search follows out of b, in order: inside one function only the *)
(* successors, between functions the callees' entries come first.            *)
Edges(g, b, interprocedural) ==
  (IF interprocedural
     THEN [i \in 1..Len(g.calls[b]) |-> g.entry[g.calls[b][i]]]
     ELSE << >>) \o g.succ[b]

Out(b) == Edges(program, b, Interprocedural)

(* Stacks the state can have at i: each call site calls the function of the next. *)
Stacks(g, i) ==
  {s \in UNION {[1..n -> Instructions(g)] : n \in 0..MaxStack} :
     \A k \in DOMAIN s :
       LET callee == IF k = Len(s) THEN i ELSE s[k + 1]
       IN g.func[callee.block] \in Range(g.calls[s[k].block])}

NoStacks == [b \in Blocks(program) |-> << >>]

Init ==
  /\ program \in Programs
  /\ src \in Instructions(program)
  /\ dest \in Instructions(program)
  /\ sites \in Stacks(program, src)
  /\ pc = "start"
  /\ frame = Len(sites) + 1
  /\ queue = << >> /\ visited = {} /\ prev = NoStacks
  /\ prevBB = NoBlock /\ dist = 0
  /\ answer = NoAnswer

-----------------------------------------------------------------------------
(* isReachableForward returns d: isReachable answers it or goes on with the *)
(* next call site.                                                          *)

Answer(d) ==
  /\ d >= 0 \/ SameFunction \/ frame = 1
  /\ answer' = d
  /\ pc' = "done"
  /\ UNCHANGED frame

NextCallSite(d) ==
  /\ d = -1 /\ ~SameFunction /\ frame > 1
  /\ frame' = frame - 1
  /\ pc' = "start"
  /\ UNCHANGED answer

Return(d) ==
  /\ Answer(d) \/ NextCallSite(d)
  /\ queue' = << >> /\ visited' = {} /\ prev' = NoStacks
  /\ prevBB' = NoBlock /\ dist' = 0
  /\ UNCHANGED question

-----------------------------------------------------------------------------
(* isReachableForward *)

Precedes == From(frame).block = dest.block /\ From(frame).line <= dest.line

ReturnZero == pc = "start" /\ Precedes /\ Return(0)

(* Between functions the first block is pushed twice. *)
BeginSearch ==
  /\ pc = "start"
  /\ ~Precedes
  /\ LET b == From(frame).block
     IN /\ queue' = IF Interprocedural THEN <<b, b>> ELSE <<b>>
        /\ prev' = [prev EXCEPT ![b] = <<NoBlock>>]
  /\ pc' = "search"
  /\ UNCHANGED <<question, frame, visited, prevBB, dist, answer>>

(* b goes on the stack of d once for each edge from b to d. *)
PushAll(edges, b) ==
  [d \in DOMAIN prev |->
     [i \in 1..Cardinality({k \in DOMAIN edges : edges[k] = d}) |-> b] \o prev[d]]

Visit ==
  /\ pc = "search" /\ queue # << >>
  /\ LET b == Head(queue)
     IN /\ b # dest.block /\ b \notin visited
        /\ visited' = visited \cup {b}
        /\ queue' = Tail(queue) \o Out(b)
        /\ prev' = PushAll(Out(b), b)
  /\ UNCHANGED <<question, pc, frame, prevBB, dist, answer>>

Revisit ==
  /\ pc = "search" /\ queue # << >>
  /\ Head(queue) # dest.block /\ Head(queue) \in visited
  /\ queue' = Tail(queue)
  /\ UNCHANGED <<question, pc, frame, visited, prev, prevBB, dist, answer>>

Exhausted == pc = "search" /\ queue = << >> /\ Return(-1)

-----------------------------------------------------------------------------
(* computePathDist: follow and pop the latest predecessors *)

Pop(b) == prevBB' = Head(prev[b]) /\ prev' = [prev EXCEPT ![b] = Tail(@)]

FoundAt(d) ==
  /\ pc = "search" /\ queue # << >>
  /\ Head(queue) = dest.block
  /\ Pop(dest.block)
  /\ dist' = d
  /\ pc' = "walk"
  /\ UNCHANGED <<question, frame, queue, visited, answer>>

(* Variant of Found: the destination does not count. *)
FoundOffByOne == FoundAt(0)

Found == FoundAt(1)

AtTheStart == prevBB # NoBlock => prev[prevBB] = << >>

WalkBack ==
  /\ pc = "walk"
  /\ ~AtTheStart
  /\ dist' = dist + 1
  /\ Pop(prevBB)
  /\ UNCHANGED <<question, pc, frame, queue, visited, answer>>

ReturnDistance == pc = "walk" /\ AtTheStart /\ Return(dist)

Next ==
  \/ ReturnZero \/ BeginSearch \/ Visit \/ Revisit \/ Exhausted
  \/ Found \/ WalkBack \/ ReturnDistance

Spec == Init /\ [][Next]_vars

-----------------------------------------------------------------------------
(* What the distances are about, defined without a search *)

(* Is there a way of one edge or more from b to d?  Then d is in every set of *)
(* blocks that no edge from b or from the set itself leaves.                  *)
Leads(g, b, d, interprocedural) ==
  \A S \in SUBSET Blocks(g) :
    (\A c \in S \cup {b} : Range(Edges(g, c, interprocedural)) \subseteq S) => d \in S

IsWay(g, way, n, interprocedural) ==
  \A i \in 1..n : way[i] \in Range(Edges(g, way[i - 1], interprocedural))

(* Is there a way of n edges from b to d? *)
LeadsIn(g, b, d, interprocedural, n) ==
  \E way \in [0..n -> Blocks(g)] :
    way[0] = b /\ way[n] = d /\ IsWay(g, way, n, interprocedural)

Acyclic(g) == \A b \in Blocks(g) : ~Leads(g, b, b, TRUE)

(* dest is in the block of the i-th instruction asked from, or a way leads there. *)
Reaches(i) ==
  \/ From(i).block = dest.block
  \/ Leads(program, From(i).block, dest.block,
           program.func[From(i).block] # program.func[dest.block])

(* Between two functions the search is exact: it answers a distance when, and   *)
(* only when, a way leads from src or from a call site on the stack to dest.    *)
ExactBetweenFunctions ==
  answer # NoAnswer /\ ~SameFunction =>
    (answer >= 0 <=> \E i \in 1..Len(sites) + 1 : Reaches(i))

(* Inside one function it is exact about that function's own branches and about *)
(* nothing else (575-579): a way that goes through a call, or back into the     *)
(* function from one of its callers, does not count.                            *)
ExactInsideAFunction ==
  answer # NoAnswer /\ SameFunction /\ src.block # dest.block =>
    (answer >= 0 <=> Leads(program, src.block, dest.block, FALSE))

(* What isReachable answers, for different blocks; "cannot reach" makes the     *)
(* searcher terminate a state.                                                  *)
AnswersReachability == ExactBetweenFunctions /\ ExactInsideAFunction

(* "it may be the case that the function we are in is being called within a loop *)
(* in a given caller function, so we have to start searching from the functions  *)
(* in the stack", Searcher.cpp:580: the answer is not "cannot reach" when a call *)
(* on the stack stands in a loop of its function and a way leads from it to dest. *)
CalledInALoop(i) == Leads(program, sites[i].block, sites[i].block, FALSE)

CallersAreSearched ==
  answer # NoAnswer =>
    \A i \in 1..Len(sites) : CalledInALoop(i) /\ Reaches(i) => answer >= 0

(* Without loops the distance is the number of blocks on some way from src, if   *)
(* there is one: walking the stacks of predecessors back finds a way, although   *)
(* not always a shortest one.                                                    *)
DistanceIsAWay ==
  answer >= 0 /\ src.block # dest.block /\ Reaches(Len(sites) + 1) /\ Acyclic(program)
    => LeadsIn(program, src.block, dest.block, ~SameFunction, answer - 1)

=============================================================================
