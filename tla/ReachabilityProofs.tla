------------------------- MODULE ReachabilityProofs --------------------------
(***************************************************************************)
(* Proofs about Reachability for every set of programs, any line numbers   *)
(* and stacks of any depth.  The search is compared with Leads, which      *)
(* speaks of closed sets of blocks, and LeadsIn, which speaks of ways.     *)
(***************************************************************************)
EXTENDS Reachability, SequenceTheorems, FiniteSetTheorems, TLAPS

(* Sequences *)

LEMMA RangeOfTail ==
  ASSUME NEW S, NEW s \in Seq(S), s # << >>
  PROVE  /\ Head(s) \in S /\ Tail(s) \in Seq(S)
         /\ Range(s) = {Head(s)} \cup Range(Tail(s))
<1>1. /\ Head(s) \in S /\ Tail(s) \in Seq(S) /\ Len(Tail(s)) = Len(s) - 1
      /\ \A i \in 1..Len(Tail(s)) : Tail(s)[i] = s[i + 1]
  BY HeadTailProperties
<1>2. /\ Len(s) \in Nat \ {0} /\ DOMAIN s = 1..Len(s)
      /\ DOMAIN Tail(s) = 1..Len(Tail(s)) /\ Head(s) = s[1]
  BY <1>1, LenProperties, EmptySeq
<1>3. ASSUME NEW x \in Range(s) PROVE x \in {Head(s)} \cup Range(Tail(s))
  <2>1. PICK i \in 1..Len(s) : x = s[i]
    BY <1>2 DEF Range
  <2>2. CASE i = 1
    BY <1>2, <2>1, <2>2
  <2>3. CASE i # 1
    <3>1. i - 1 \in 1..Len(Tail(s)) /\ (i - 1) + 1 = i
      BY <1>1, <1>2, <2>1, <2>3
    <3>2. Tail(s)[i - 1] = x
      BY <1>1, <2>1, <3>1
    <3> QED
      BY <1>2, <3>1, <3>2 DEF Range
  <2> QED
    BY <2>2, <2>3
<1>4. ASSUME NEW x \in Range(Tail(s)) PROVE x \in Range(s)
  <2>1. PICK i \in 1..Len(Tail(s)) : x = Tail(s)[i]
    BY <1>2 DEF Range
  <2>2. i + 1 \in 1..Len(s) /\ x = s[i + 1]
    BY <1>1, <1>2, <2>1
  <2> QED
    BY <1>2, <2>2 DEF Range
<1>5. Head(s) \in Range(s)
  BY <1>2 DEF Range
<1> QED
  BY <1>1, <1>3, <1>4, <1>5

LEMMA EmptyRange == Range(<< >>) = {}
  BY DEF Range

LEMMA RangeNotEmpty ==
  ASSUME NEW S, NEW s \in Seq(S)
  PROVE  s # << >> <=> Range(s) # {}
<1>1. CASE s = << >>
  BY <1>1, EmptyRange
<1>2. CASE s # << >>
  BY <1>2, RangeOfTail
<1> QED
  BY <1>1, <1>2

(* Copies of one element. *)
LEMMA Copies ==
  ASSUME NEW S, NEW x \in S, NEW n \in Nat
  PROVE  /\ [i \in 1..n |-> x] \in Seq(S)
         /\ Range([i \in 1..n |-> x]) = IF n = 0 THEN {} ELSE {x}
<1>1. [i \in 1..n |-> x] \in Seq(S)
  OBVIOUS
<1>2. CASE n = 0
  BY <1>2 DEF Range
<1>3. CASE n # 0
  <2>1. 1 \in 1..n
    BY <1>3
  <2> QED
    BY <1>3, <2>1 DEF Range
<1> QED
  BY <1>1, <1>2, <1>3

-----------------------------------------------------------------------------
(* Edges and ways *)

LEMMA EdgesType ==
  ASSUME NEW g, IsProgram(g), NEW b \in Blocks(g), NEW inter \in BOOLEAN
  PROVE  /\ Edges(g, b, inter) \in Seq(Blocks(g))
         /\ Range(Edges(g, b, inter)) \subseteq Blocks(g)
<1> DEFINE callees == [i \in 1..Len(g.calls[b]) |-> g.entry[g.calls[b][i]]]
<1>1. g.succ[b] \in Seq(Blocks(g)) /\ g.calls[b] \in Seq(DOMAIN g.entry)
  BY DEF IsProgram
<1>2. \A i \in 1..Len(g.calls[b]) : g.entry[g.calls[b][i]] \in Blocks(g)
  BY <1>1, ElementOfSeq DEF IsProgram
<1>3. callees \in Seq(Blocks(g))
  BY <1>1, <1>2, LenProperties
<1>4. << >> \in Seq(Blocks(g))
  BY EmptySeq
<1>5. Edges(g, b, inter) \in Seq(Blocks(g))
  BY <1>1, <1>3, <1>4, ConcatProperties DEF Edges
<1> QED
  BY <1>5, RangeOfSeq

(* The successors are among the edges between functions. *)
LEMMA EdgesGrow ==
  ASSUME NEW g, IsProgram(g), NEW b \in Blocks(g), NEW inter \in BOOLEAN
  PROVE  Range(Edges(g, b, inter)) \subseteq Range(Edges(g, b, TRUE))
<1> DEFINE callees == [i \in 1..Len(g.calls[b]) |-> g.entry[g.calls[b][i]]]
<1>1. CASE inter
  BY <1>1
<1>2. CASE ~inter
  <2>1. g.succ[b] \in Seq(Blocks(g)) /\ g.calls[b] \in Seq(DOMAIN g.entry)
    BY DEF IsProgram
  <2>2. \A i \in 1..Len(g.calls[b]) : g.entry[g.calls[b][i]] \in Blocks(g)
    BY <2>1, ElementOfSeq DEF IsProgram
  <2>3. callees \in Seq(Blocks(g))
    BY <2>1, <2>2, LenProperties
  <2>4. Edges(g, b, inter) = g.succ[b]
    BY <1>2, <2>1, ConcatEmptySeq DEF Edges
  <2>5. Edges(g, b, TRUE) = callees \o g.succ[b]
    BY DEF Edges
  <2> HIDE DEF callees
  <2>6. Range(callees \o g.succ[b]) = Range(callees) \cup Range(g.succ[b])
    BY <2>1, <2>3, RangeConcatenation
  <2> QED
    BY <2>4, <2>5, <2>6
<1> QED
  BY <1>1, <1>2

LEMMA EdgeLeads ==
  ASSUME NEW g, NEW b, NEW inter, NEW c \in Range(Edges(g, b, inter))
  PROVE  Leads(g, b, c, inter)
  BY DEF Leads

LEMMA LeadsOn ==
  ASSUME NEW g, NEW b, NEW c, NEW d, NEW inter,
         Leads(g, b, c, inter), Leads(g, c, d, inter)
  PROVE  Leads(g, b, d, inter)
<1> SUFFICES ASSUME NEW S \in SUBSET Blocks(g),
                    \A e \in S \cup {b} : Range(Edges(g, e, inter)) \subseteq S
             PROVE  d \in S
  BY DEF Leads
<1>1. c \in S
  BY DEF Leads
<1>2. \A e \in S \cup {c} : Range(Edges(g, e, inter)) \subseteq S
  BY <1>1
<1> QED
  BY <1>2 DEF Leads

LEMMA LeadsGrows ==
  ASSUME NEW g, IsProgram(g), NEW b \in Blocks(g), NEW d, NEW inter \in BOOLEAN,
         Leads(g, b, d, inter)
  PROVE  Leads(g, b, d, TRUE)
<1> SUFFICES ASSUME NEW S \in SUBSET Blocks(g),
                    \A e \in S \cup {b} : Range(Edges(g, e, TRUE)) \subseteq S
             PROVE  d \in S
  BY DEF Leads
<1>1. \A e \in S \cup {b} : Range(Edges(g, e, inter)) \subseteq S
  BY EdgesGrow
<1> QED
  BY <1>1 DEF Leads

LEMMA NoEdges ==
  ASSUME NEW g, NEW b \in Blocks(g), NEW inter
  PROVE  LeadsIn(g, b, b, inter, 0)
<1> DEFINE way == [i \in 0..0 |-> b]
<1>1. way \in [0..0 -> Blocks(g)] /\ way[0] = b
  OBVIOUS
<1>2. IsWay(g, way, 0, inter)
  BY DEF IsWay
<1> QED
  BY <1>1, <1>2 DEF LeadsIn

LEMMA OneEdgeMore ==
  ASSUME NEW g, NEW inter, NEW b \in Blocks(g), NEW c \in Range(Edges(g, b, inter)),
         NEW d, NEW n \in Nat, LeadsIn(g, c, d, inter, n)
  PROVE  LeadsIn(g, b, d, inter, n + 1)
<1>1. PICK way \in [0..n -> Blocks(g)] :
        way[0] = c /\ way[n] = d /\ IsWay(g, way, n, inter)
  BY DEF LeadsIn
<1> DEFINE longer == [i \in 0..n + 1 |-> IF i = 0 THEN b ELSE way[i - 1]]
<1>2. longer \in [0..n + 1 -> Blocks(g)]
  BY <1>1
<1>3. longer[0] = b /\ longer[n + 1] = d
  BY <1>1
<1>4. ASSUME NEW i \in 1..n + 1
      PROVE  longer[i] \in Range(Edges(g, longer[i - 1], inter))
  <2>1. longer[i] = way[i - 1] /\ i - 1 \in 0..n
    OBVIOUS
  <2>2. CASE i = 1
    BY <1>1, <2>1, <2>2
  <2>3. CASE i # 1
    <3>1. longer[i - 1] = way[i - 2] /\ i - 1 \in 1..n /\ (i - 1) - 1 = i - 2
      BY <2>3
    <3>2. way[i - 1] \in Range(Edges(g, way[i - 2], inter))
      BY <1>1, <3>1 DEF IsWay
    <3> QED
      BY <2>1, <3>1, <3>2
  <2> QED
    BY <2>2, <2>3
<1>5. IsWay(g, longer, n + 1, inter)
  BY <1>4 DEF IsWay
<1> QED
  BY <1>2, <1>3, <1>5 DEF LeadsIn

-----------------------------------------------------------------------------
(* The inductive invariant *)

(* The block isReachableForward was called for, and the blocks it has seen. *)
Origin == From(frame).block

Seen == visited \cup Range(queue)

TypeOK ==
  /\ program \in Programs
  /\ src \in Instructions(program) /\ dest \in Instructions(program)
  /\ sites \in Seq(Instructions(program))
  /\ pc \in {"start", "search", "walk", "done"}
  /\ frame \in 1..Len(sites) + 1
  /\ queue \in Seq(Blocks(program))
  /\ visited \in SUBSET Blocks(program)
  /\ prev \in [Blocks(program) -> Seq(Blocks(program) \cup {NoBlock})]
  /\ prevBB \in Blocks(program) \cup {NoBlock}
  /\ dist \in Nat
  /\ answer \in Nat \cup {-1, NoAnswer}

StartOK ==
  pc = "start" => queue = << >> /\ visited = {} /\ prev = NoStacks

(* What is seen can be reached, and the edges of what is visited are seen. *)
SearchOK ==
  pc = "search" =>
    /\ Origin \in Seen
    /\ dest.block \notin visited
    /\ \A b \in visited : Range(Out(b)) \subseteq Seen
    /\ \A b \in Seen : b = Origin \/ Leads(program, Origin, b, Interprocedural)

(* The stacks hold visited predecessors, and the null pointer for the origin. *)
StacksOK ==
  pc \in {"search", "walk"} =>
    \A d \in Blocks(program) : \A p \in Range(prev[d]) :
      (p = NoBlock /\ d = Origin) \/ (p \in visited /\ d \in Range(Out(p)))

(* Until the walk pops them the stacks of the blocks seen are not empty. *)
TopsOK == pc = "search" => \A d \in Seen : prev[d] # << >>

(* The walk follows a way of which it has counted the blocks, dest included, and *)
(* can get stuck only in a block it has come through.                            *)
WalkOK ==
  pc = "walk" =>
    /\ Reaches(frame)
    /\ dist >= 1
    /\ prevBB = NoBlock =>
         LeadsIn(program, Origin, dest.block, Interprocedural, dist - 1)
    /\ prevBB # NoBlock =>
         /\ prevBB \in visited
         /\ LeadsIn(program, prevBB, dest.block, Interprocedural, dist)
    /\ \A b \in visited :
         prev[b] = << >> /\ prevBB # NoBlock => Leads(program, prevBB, b, Interprocedural)

(* The calls of isReachableForward that returned found nothing. *)
TriedOK ==
  /\ \A i \in frame + 1..Len(sites) + 1 : ~Reaches(i)
  /\ frame <= Len(sites) => ~SameFunction

AnswerOK ==
  /\ pc # "done" => answer = NoAnswer
  /\ pc = "done" =>
       /\ answer >= 0 => Reaches(frame)
       /\ answer < 0 => ~Reaches(frame) /\ (SameFunction \/ frame = 1)
       /\ answer = 0 => Origin = dest.block
       /\ answer >= 1 =>
            \/ LeadsIn(program, Origin, dest.block, Interprocedural, answer - 1)
            \/ \E b \in Blocks(program) : Leads(program, b, b, Interprocedural)

IInv ==
  /\ TypeOK
  /\ StartOK
  /\ SearchOK
  /\ StacksOK
  /\ TopsOK
  /\ WalkOK
  /\ TriedOK
  /\ AnswerOK

LEMMA Context ==
  ASSUME TypeOK
  PROVE  /\ IsProgram(program)
         /\ Interprocedural \in BOOLEAN
         /\ Origin \in Blocks(program) /\ dest.block \in Blocks(program)
         /\ NoBlock \notin Blocks(program)
         /\ \A b \in Blocks(program) : /\ Out(b) \in Seq(Blocks(program))
                                       /\ Range(Out(b)) \subseteq Blocks(program)
<1>1. IsProgram(program) /\ NoBlock \notin Blocks(program)
  BY ReachabilityAssumption DEF TypeOK, IsProgram
<1>2. Interprocedural \in BOOLEAN
  BY DEF Interprocedural
<1>3. From(frame) \in Instructions(program)
  <2>1. Len(sites) \in Nat /\ (frame > Len(sites) \/ frame \in 1..Len(sites))
    BY LenProperties DEF TypeOK
  <2> QED
    BY <2>1, ElementOfSeq DEF TypeOK, From
<1>4. Origin \in Blocks(program) /\ dest.block \in Blocks(program)
  BY <1>3 DEF Origin, TypeOK, Instructions
<1>5. \A b \in Blocks(program) : /\ Out(b) \in Seq(Blocks(program))
                                 /\ Range(Out(b)) \subseteq Blocks(program)
  BY <1>1, <1>2, EdgesType DEF Out
<1> QED
  BY <1>1, <1>2, <1>4, <1>5

(* What depends on the question and the call site only. *)
LEMMA SameCall ==
  ASSUME UNCHANGED <<question, frame>>
  PROVE  /\ Origin' = Origin /\ NoStacks' = NoStacks
         /\ Interprocedural' = Interprocedural
         /\ \A b : Out(b)' = Out(b)
         /\ \A i : Reaches(i)' <=> Reaches(i)
         /\ SameFunction' <=> SameFunction
         /\ TriedOK => TriedOK'
<1> USE DEF question
<1>1. Origin' = Origin /\ NoStacks' = NoStacks /\ (SameFunction' <=> SameFunction)
  BY DEF Origin, From, NoStacks, Blocks, SameFunction
<1>2. Interprocedural' = Interprocedural
  <2>1. From(frame)' = From(frame)
    BY DEF From
  <2>2. Interprocedural' <=> Interprocedural
    BY <2>1 DEF Interprocedural
  <2> QED
    BY <2>2, Zenon DEF Interprocedural
<1>3. \A b : Out(b)' = Out(b)
  BY <1>2, Zenon DEF Out
<1>4. \A i : Reaches(i)' <=> Reaches(i)
  BY DEF Reaches, From, Leads, Blocks, Edges
<1>5. TriedOK => TriedOK'
  BY <1>1, <1>4 DEF TriedOK
<1> QED
  BY <1>1, <1>2, <1>3, <1>4, <1>5

LEMMA ReachesHere ==
  Reaches(frame) <=> \/ Origin = dest.block
                     \/ Leads(program, Origin, dest.block, Interprocedural)
  BY DEF Reaches, Origin, Interprocedural

LEMMA InitIInv == Init => IInv
<1> SUFFICES ASSUME Init PROVE IInv
  OBVIOUS
<1>1. /\ pc = "start" /\ queue = << >> /\ visited = {} /\ prev = NoStacks
      /\ prevBB = NoBlock /\ dist = 0 /\ answer = NoAnswer /\ frame = Len(sites) + 1
      /\ program \in Programs /\ src \in Instructions(program) /\ dest \in Instructions(program)
  BY DEF Init
<1>2. sites \in Seq(Instructions(program))
  <2>1. PICK n \in 0..MaxStack : sites \in [1..n -> Instructions(program)]
    BY DEF Init, Stacks
  <2> QED
    BY <2>1, ReachabilityAssumption
<1>3. Len(sites) \in Nat
  BY <1>2, LenProperties
<1>4. prev \in [Blocks(program) -> Seq(Blocks(program) \cup {NoBlock})]
  BY <1>1, EmptySeq DEF NoStacks
<1>5. TypeOK
  BY <1>1, <1>2, <1>3, <1>4, EmptySeq DEF TypeOK
<1>6. TriedOK
  BY <1>1, <1>3 DEF TriedOK
<1>7. StartOK /\ SearchOK /\ StacksOK /\ TopsOK /\ WalkOK /\ AnswerOK
  BY <1>1 DEF StartOK, SearchOK, StacksOK, TopsOK, WalkOK, AnswerOK
<1> QED
  BY <1>5, <1>6, <1>7 DEF IInv

(* A call that returns right leaves the invariant behind. *)
LEMMA ReturnKeeps ==
  ASSUME IInv, pc # "done", NEW d \in Nat \cup {-1}, Return(d),
         d >= 0 <=> Reaches(frame),
         d = 0 => Origin = dest.block,
         d >= 1 => \/ LeadsIn(program, Origin, dest.block, Interprocedural, d - 1)
                   \/ \E b \in Blocks(program) : Leads(program, b, b, Interprocedural)
  PROVE  IInv'
<1> USE DEF question
<1>1. /\ UNCHANGED question /\ queue' = << >> /\ visited' = {} /\ prev' = NoStacks
      /\ prevBB' = NoBlock /\ dist' = 0
  BY DEF Return
<1>a. prev' \in [Blocks(program) -> Seq(Blocks(program) \cup {NoBlock})]
  BY <1>1, EmptySeq DEF NoStacks
<1>b. Len(sites) \in Nat /\ frame \in 1..Len(sites) + 1
  BY LenProperties DEF IInv, TypeOK
<1>2. CASE Answer(d)
  <2>1. /\ pc' = "done" /\ answer' = d /\ UNCHANGED frame
        /\ d >= 0 \/ SameFunction \/ frame = 1
    BY <1>2 DEF Answer
  <2>2. TypeOK'
    BY <1>1, <1>a, <2>1, EmptySeq DEF IInv, TypeOK
  <2>3. StartOK' /\ SearchOK' /\ StacksOK' /\ TopsOK' /\ WalkOK'
    BY <2>1 DEF StartOK, SearchOK, StacksOK, TopsOK, WalkOK
  <2>4. TriedOK'
    BY <1>1, <2>1, SameCall DEF IInv
  <2>5. AnswerOK'
    <3>1. /\ Origin' = Origin /\ Interprocedural' = Interprocedural
          /\ (Reaches(frame)' <=> Reaches(frame)) /\ (SameFunction' <=> SameFunction)
      BY <1>1, <2>1, SameCall
    <3>2. (answer' >= 0 => Reaches(frame)') /\ (answer' = 0 => (Origin = dest.block)')
      BY <1>1, <2>1, <3>1
    <3>3. answer' < 0 => ~Reaches(frame)' /\ (SameFunction \/ frame = 1)'
      BY <2>1, <3>1
    <3>4. answer' >= 1 =>
            (\/ LeadsIn(program, Origin, dest.block, Interprocedural, answer - 1)
             \/ \E b \in Blocks(program) : Leads(program, b, b, Interprocedural))'
      BY <1>1, <2>1, <3>1
    <3> QED
      BY <2>1, <3>2, <3>3, <3>4 DEF AnswerOK
  <2> QED
    BY <2>2, <2>3, <2>4, <2>5 DEF IInv
<1>3. CASE NextCallSite(d)
  <2>1. /\ pc' = "start" /\ UNCHANGED answer /\ frame' = frame - 1 /\ frame > 1
        /\ d = -1 /\ ~SameFunction
    BY <1>3 DEF NextCallSite
  <2>2. TypeOK'
    BY <1>1, <1>a, <1>b, <2>1, EmptySeq DEF IInv, TypeOK
  <2>3. SearchOK' /\ StacksOK' /\ TopsOK' /\ WalkOK'
    BY <2>1 DEF SearchOK, StacksOK, TopsOK, WalkOK
  <2>4. StartOK'
    BY <1>1 DEF StartOK, NoStacks, Blocks
  <2>5. TriedOK'
    <3>1. \A i : Reaches(i)' <=> Reaches(i)
      BY <1>1 DEF Reaches, From, Leads, Blocks, Edges
    <3>2. ~Reaches(frame)
      BY <2>1
    <3>3. ASSUME NEW i \in frame' + 1..Len(sites) + 1 PROVE ~Reaches(i)
      <4>1. i = frame \/ i \in frame + 1..Len(sites) + 1
        BY <1>b, <2>1
      <4> QED
        BY <3>2, <4>1 DEF IInv, TriedOK
    <3>4. ~SameFunction'
      BY <1>1, <2>1 DEF SameFunction
    <3> QED
      BY <1>1, <3>1, <3>3, <3>4 DEF TriedOK
  <2>6. AnswerOK'
    BY <2>1 DEF IInv, AnswerOK
  <2> QED
    BY <2>2, <2>3, <2>4, <2>5, <2>6 DEF IInv
<1> QED
  BY <1>2, <1>3 DEF Return

-----------------------------------------------------------------------------
(* Every action preserves the invariant.                                    *)

LEMMA ReturnZeroKeeps == IInv /\ ReturnZero => IInv'
<1> SUFFICES ASSUME IInv, ReturnZero PROVE IInv'
  OBVIOUS
<1>1. pc # "done" /\ Return(0) /\ Origin = dest.block
  BY DEF ReturnZero, Precedes, Origin
<1>2. Reaches(frame)
  BY <1>1, ReachesHere
<1> QED
  BY <1>1, <1>2, ReturnKeeps

LEMMA BeginSearchKeeps == IInv /\ BeginSearch => IInv'
<1> SUFFICES ASSUME IInv, BeginSearch PROVE IInv'
  OBVIOUS
<1>1. /\ pc = "start" /\ pc' = "search" /\ UNCHANGED <<question, frame, visited, prevBB, dist, answer>>
      /\ queue' \in {<<Origin>>, <<Origin, Origin>>}
      /\ prev' = [prev EXCEPT ![Origin] = <<NoBlock>>]
  BY DEF BeginSearch, Origin
<1>2. visited = {} /\ prev = NoStacks
  BY <1>1 DEF IInv, StartOK
<1>3. /\ Origin \in Blocks(program)
      /\ prev \in [Blocks(program) -> Seq(Blocks(program) \cup {NoBlock})]
  BY Context DEF IInv, TypeOK
<1>4. Range(queue') = {Origin} /\ queue' \in Seq(Blocks(program))
  <2>1. CASE queue' = <<Origin>>
    BY <1>3, <2>1 DEF Range
  <2>2. CASE queue' = <<Origin, Origin>>
    BY <1>3, <2>2 DEF Range
  <2> QED
    BY <1>1, <2>1, <2>2
<1>5. /\ Origin' = Origin /\ Interprocedural' = Interprocedural
      /\ \A i : Reaches(i)' <=> Reaches(i)
      /\ TriedOK'
  BY <1>1, SameCall DEF IInv
<1>6. TypeOK'
  BY <1>1, <1>3, <1>4 DEF IInv, TypeOK, question
<1>7. SearchOK'
  <2>1. Seen' = {Origin}
    BY <1>1, <1>2, <1>4 DEF Seen
  <2>2. visited' = {}
    BY <1>1, <1>2
  <2> QED
    BY <1>5, <2>1, <2>2 DEF SearchOK
<1>8. StacksOK'
  <2>1. ASSUME NEW d \in Blocks(program), NEW p \in Range(prev'[d])
        PROVE  p = NoBlock /\ d = Origin
    <3>1. CASE d = Origin
      BY <1>1, <1>3, <2>1, <3>1 DEF Range
    <3>2. CASE d # Origin
      BY <1>1, <1>2, <1>3, <2>1, <3>2, EmptyRange DEF NoStacks
    <3> QED
      BY <3>1, <3>2
  <2> QED
    BY <1>1, <1>5, <2>1 DEF StacksOK, question
<1>9. TopsOK'
  <2>1. Seen' = {Origin}
    BY <1>1, <1>2, <1>4 DEF Seen
  <2>2. prev'[Origin] # << >>
    BY <1>1, <1>3
  <2> QED
    BY <2>1, <2>2 DEF TopsOK
<1>10. StartOK' /\ WalkOK' /\ AnswerOK'
  BY <1>1 DEF StartOK, WalkOK, AnswerOK, IInv
<1> QED
  BY <1>5, <1>6, <1>7, <1>8, <1>9, <1>10 DEF IInv

(* What pushing does to a stack. *)
LEMMA Pushed ==
  ASSUME TypeOK, NEW b \in Blocks(program), NEW d \in Blocks(program)
  PROVE  /\ PushAll(Out(b), b)[d] \in Seq(Blocks(program) \cup {NoBlock})
         /\ Range(PushAll(Out(b), b)[d]) =
              Range(prev[d]) \cup (IF d \in Range(Out(b)) THEN {b} ELSE {})
<1> DEFINE turns == {k \in DOMAIN Out(b) : Out(b)[k] = d}
           n == Cardinality(turns)
           copies == [i \in 1..n |-> b]
           B == Blocks(program) \cup {NoBlock}
<1>1. Out(b) \in Seq(Blocks(program))
  BY Context
<1>2. DOMAIN Out(b) = 1..Len(Out(b)) /\ Len(Out(b)) \in Nat
  BY <1>1, LenProperties
<1>3. IsFiniteSet(turns)
  <2>1. IsFiniteSet(1..Len(Out(b)))
    BY <1>2, FS_Interval
  <2> QED
    BY <1>2, <2>1, FS_Subset
<1>4. n \in Nat /\ (n = 0 <=> d \notin Range(Out(b)))
  <2>1. n \in Nat /\ (n = 0 <=> turns = {})
    BY <1>3, FS_CardinalityType, FS_EmptySet
  <2>2. turns = {} <=> d \notin Range(Out(b))
    BY DEF Range
  <2> QED
    BY <2>1, <2>2
<1>5. copies \in Seq(B) /\ Range(copies) = IF n = 0 THEN {} ELSE {b}
  <2> HIDE DEF n
  <2> QED
    BY <1>4, Copies
<1>6. prev[d] \in Seq(B)
  BY DEF TypeOK
<1>7. PushAll(Out(b), b)[d] = copies \o prev[d]
  BY DEF PushAll, TypeOK
<1> HIDE DEF copies, n
<1>8. /\ copies \o prev[d] \in Seq(B)
      /\ Range(copies \o prev[d]) = Range(copies) \cup Range(prev[d])
  <2>1. copies \o prev[d] \in Seq(B)
    BY <1>5, <1>6, ConcatProperties
  <2>2. Range(copies \o prev[d]) = Range(copies) \cup Range(prev[d])
    BY <1>5, <1>6, RangeConcatenation
  <2> QED
    BY <2>1, <2>2
<1> QED
  BY <1>4, <1>5, <1>7, <1>8

LEMMA VisitKeeps == IInv /\ Visit => IInv'
<1> SUFFICES ASSUME IInv, Visit PROVE IInv'
  OBVIOUS
<1> DEFINE b == Head(queue)
<1>1. /\ pc = "search" /\ UNCHANGED <<question, pc, frame, prevBB, dist, answer>>
      /\ queue # << >> /\ b # dest.block /\ b \notin visited
      /\ visited' = visited \cup {b}
      /\ queue' = Tail(queue) \o Out(b)
      /\ prev' = PushAll(Out(b), b)
  BY DEF Visit
<1>2. /\ queue \in Seq(Blocks(program)) /\ visited \in SUBSET Blocks(program)
      /\ prev \in [Blocks(program) -> Seq(Blocks(program) \cup {NoBlock})]
  BY DEF IInv, TypeOK
<1>3. /\ b \in Blocks(program) /\ Tail(queue) \in Seq(Blocks(program))
      /\ Range(queue) = {b} \cup Range(Tail(queue))
  BY <1>1, <1>2, RangeOfTail
<1>4. Out(b) \in Seq(Blocks(program)) /\ Range(Out(b)) \subseteq Blocks(program)
  BY <1>3, Context DEF IInv
<1> HIDE DEF b
<1>5. /\ queue' \in Seq(Blocks(program))
      /\ Range(queue') = Range(Tail(queue)) \cup Range(Out(b))
  <2>1. queue' = Tail(queue) \o Out(b)
    BY <1>1
  <2>2. Tail(queue) \o Out(b) \in Seq(Blocks(program))
    BY <1>3, <1>4, ConcatProperties
  <2>3. Range(Tail(queue) \o Out(b)) = Range(Tail(queue)) \cup Range(Out(b))
    <3>1. Tail(queue) \in Seq(Blocks(program)) /\ Out(b) \in Seq(Blocks(program))
      BY <1>3, <1>4
    <3> QED
      BY <3>1, RangeConcatenation
  <2> QED
    BY <2>1, <2>2, <2>3
<1>6. Seen' = Seen \cup Range(Out(b)) /\ b \in Seen
  BY <1>1, <1>3, <1>5 DEF Seen
<1>7. /\ Origin' = Origin /\ Interprocedural' = Interprocedural
      /\ \A c : Out(c)' = Out(c)
      /\ TriedOK'
  BY <1>1, SameCall DEF IInv
<1>8. TypeOK'
  <2>1. prev' \in [Blocks(program) -> Seq(Blocks(program) \cup {NoBlock})]
    <3>1. prev' = [d \in Blocks(program) |-> PushAll(Out(b), b)[d]]
      BY <1>1, <1>2 DEF PushAll
    <3>2. \A d \in Blocks(program) :
            PushAll(Out(b), b)[d] \in Seq(Blocks(program) \cup {NoBlock})
      BY <1>3, Pushed DEF IInv
    <3> QED
      BY <3>1, <3>2
  <2> QED
    BY <1>1, <1>2, <1>3, <1>5, <2>1 DEF IInv, TypeOK, question
<1>9. SearchOK'
  <2>1. /\ Origin \in Seen /\ dest.block \notin visited
        /\ \A c \in visited : Range(Out(c)) \subseteq Seen
        /\ \A c \in Seen : c = Origin \/ Leads(program, Origin, c, Interprocedural)
    BY <1>1 DEF IInv, SearchOK
  <2>2. ASSUME NEW c \in Range(Out(b))
        PROVE  Leads(program, Origin, c, Interprocedural)
    <3>1. Leads(program, b, c, Interprocedural)
      BY EdgeLeads DEF Out
    <3> QED
      BY <1>6, <2>1, <3>1, LeadsOn
  <2>3. Origin \in Seen' /\ dest.block \notin visited'
    BY <1>1, <1>6, <2>1
  <2>4. \A c \in visited' : Range(Out(c)) \subseteq Seen'
    BY <1>1, <1>6, <2>1
  <2>5. \A c \in Seen' : c = Origin \/ Leads(program, Origin, c, Interprocedural)
    BY <1>6, <2>1, <2>2
  <2> QED
    BY <1>1, <1>7, <2>3, <2>4, <2>5 DEF SearchOK, question
<1>10. StacksOK'
  <2>1. ASSUME NEW d \in Blocks(program), NEW p \in Range(prev'[d])
        PROVE  (p = NoBlock /\ d = Origin) \/ (p \in visited' /\ d \in Range(Out(p)))
    <3>1. p \in Range(prev[d]) \/ (p = b /\ d \in Range(Out(b)))
      BY <1>1, <1>3, Pushed DEF IInv
    <3>2. CASE p \in Range(prev[d])
      BY <1>1, <3>2 DEF IInv, StacksOK
    <3>3. CASE p = b /\ d \in Range(Out(b))
      BY <1>1, <3>3
    <3> QED
      BY <3>1, <3>2, <3>3
  <2> QED
    BY <1>1, <1>7, <2>1 DEF StacksOK, question
<1>11. TopsOK'
  <2>1. ASSUME NEW d \in Seen' PROVE prev'[d] # << >>
    <3>1. d \in Blocks(program)
      BY <1>2, <1>4, <1>6, RangeOfSeq DEF Seen
    <3>2. /\ prev'[d] \in Seq(Blocks(program) \cup {NoBlock})
          /\ Range(prev'[d]) = Range(prev[d]) \cup (IF d \in Range(Out(b)) THEN {b} ELSE {})
      BY <1>1, <1>3, <3>1, Pushed DEF IInv
    <3>3. CASE d \in Range(Out(b))
      BY <3>2, <3>3, RangeNotEmpty
    <3>4. CASE d \in Seen
      <4>1. prev[d] # << >> /\ prev[d] \in Seq(Blocks(program) \cup {NoBlock})
        BY <1>1, <1>2, <3>1, <3>4 DEF IInv, TopsOK
      <4> QED
        BY <3>2, <4>1, RangeNotEmpty
    <3> QED
      BY <1>6, <3>3, <3>4
  <2> QED
    BY <2>1 DEF TopsOK
<1>12. StartOK' /\ WalkOK' /\ AnswerOK'
  BY <1>1 DEF StartOK, WalkOK, AnswerOK, IInv
<1> QED
  BY <1>7, <1>8, <1>9, <1>10, <1>11, <1>12 DEF IInv

LEMMA RevisitKeeps == IInv /\ Revisit => IInv'
<1> SUFFICES ASSUME IInv, Revisit PROVE IInv'
  OBVIOUS
<1>1. /\ pc = "search" /\ queue # << >> /\ Head(queue) \in visited /\ queue' = Tail(queue)
      /\ UNCHANGED <<question, pc, frame, visited, prev, prevBB, dist, answer>>
  BY DEF Revisit
<1>2. queue \in Seq(Blocks(program))
  BY DEF IInv, TypeOK
<1>3. /\ queue' \in Seq(Blocks(program))
      /\ Range(queue) = {Head(queue)} \cup Range(queue')
  BY <1>1, <1>2, RangeOfTail
<1>4. Seen' = Seen
  BY <1>1, <1>3 DEF Seen
<1>5. /\ Origin' = Origin /\ Interprocedural' = Interprocedural
      /\ \A c : Out(c)' = Out(c)
      /\ TriedOK'
  BY <1>1, SameCall DEF IInv
<1>6. TypeOK'
  BY <1>1, <1>3 DEF IInv, TypeOK, question
<1>7. SearchOK' /\ StacksOK' /\ TopsOK'
  BY <1>1, <1>4, <1>5 DEF IInv, SearchOK, StacksOK, TopsOK, question
<1>8. StartOK' /\ WalkOK' /\ AnswerOK'
  BY <1>1 DEF StartOK, WalkOK, AnswerOK, IInv
<1> QED
  BY <1>5, <1>6, <1>7, <1>8 DEF IInv

(* The visited blocks are a closed set without dest: no way leads there. *)
LEMMA ExhaustedKeeps == IInv /\ Exhausted => IInv'
<1> SUFFICES ASSUME IInv, Exhausted PROVE IInv'
  OBVIOUS
<1>1. pc = "search" /\ queue = << >> /\ Return(-1)
  BY DEF Exhausted
<1>2. Seen = visited /\ visited \in SUBSET Blocks(program)
  BY <1>1, EmptyRange DEF Seen, IInv, TypeOK
<1>3. /\ Origin \in visited /\ dest.block \notin visited
      /\ \A b \in visited : Range(Out(b)) \subseteq visited
  BY <1>1, <1>2 DEF IInv, SearchOK
<1>4. ~Leads(program, Origin, dest.block, Interprocedural)
  BY <1>2, <1>3 DEF Leads, Out
<1>5. ~Reaches(frame)
  BY <1>3, <1>4, ReachesHere
<1> QED
  BY <1>1, <1>5, ReturnKeeps

(* Popping a stack that is not empty. *)
LEMMA Popped ==
  ASSUME TypeOK, NEW b \in Blocks(program), prev[b] # << >>, Pop(b)
  PROVE  /\ prevBB' \in Range(prev[b]) /\ prevBB' \in Blocks(program) \cup {NoBlock}
         /\ prev' \in [Blocks(program) -> Seq(Blocks(program) \cup {NoBlock})]
         /\ \A d \in Blocks(program) : Range(prev'[d]) \subseteq Range(prev[d])
         /\ \A d \in Blocks(program) \ {b} : prev'[d] = prev[d]
<1>1. /\ prev \in [Blocks(program) -> Seq(Blocks(program) \cup {NoBlock})]
      /\ prevBB' = Head(prev[b]) /\ prev' = [prev EXCEPT ![b] = Tail(@)]
  BY DEF TypeOK, Pop
<1>2. /\ Head(prev[b]) \in Blocks(program) \cup {NoBlock}
      /\ Tail(prev[b]) \in Seq(Blocks(program) \cup {NoBlock})
      /\ Range(prev[b]) = {Head(prev[b])} \cup Range(Tail(prev[b]))
  BY <1>1, RangeOfTail
<1>3. /\ prev'[b] = Tail(prev[b])
      /\ \A d \in Blocks(program) \ {b} : prev'[d] = prev[d]
  BY <1>1
<1>4. prev' \in [Blocks(program) -> Seq(Blocks(program) \cup {NoBlock})]
  BY <1>1, <1>2
<1>5. \A d \in Blocks(program) : Range(prev'[d]) \subseteq Range(prev[d])
  BY <1>2, <1>3
<1> QED
  BY <1>1, <1>2, <1>3, <1>4, <1>5

LEMMA FoundKeeps == IInv /\ Found => IInv'
<1> SUFFICES ASSUME IInv, Found PROVE IInv'
  OBVIOUS
<1>1. /\ pc = "search" /\ queue # << >> /\ Head(queue) = dest.block
      /\ Pop(dest.block) /\ dist' = 1 /\ pc' = "walk"
      /\ UNCHANGED <<question, frame, queue, visited, answer>>
  BY DEF Found, FoundAt
<1>2. queue \in Seq(Blocks(program))
  BY DEF IInv, TypeOK
<1>3. dest.block \in Seen /\ dest.block \in Blocks(program)
  BY <1>1, <1>2, RangeOfTail DEF Seen
<1>4. /\ prevBB' \in Range(prev[dest.block]) /\ prevBB' \in Blocks(program) \cup {NoBlock}
      /\ prev' \in [Blocks(program) -> Seq(Blocks(program) \cup {NoBlock})]
      /\ \A d \in Blocks(program) : Range(prev'[d]) \subseteq Range(prev[d])
      /\ \A d \in Blocks(program) \ {dest.block} : prev'[d] = prev[d]
  <2>1. prev[dest.block] # << >>
    BY <1>1, <1>3 DEF IInv, TopsOK
  <2> QED
    BY <1>1, <1>3, <2>1, Popped DEF IInv
<1>5. /\ Origin' = Origin /\ Interprocedural' = Interprocedural
      /\ \A c : Out(c)' = Out(c)
      /\ \A i : Reaches(i)' <=> Reaches(i)
      /\ TriedOK'
  BY <1>1, SameCall DEF IInv
<1>6. TypeOK'
  BY <1>1, <1>4 DEF IInv, TypeOK, question
<1>7. StacksOK'
  BY <1>1, <1>4, <1>5 DEF IInv, StacksOK, question
<1>8. WalkOK'
  <2> DEFINE IP == Interprocedural
  <2>1. Reaches(frame)
    BY <1>1, <1>3, ReachesHere DEF IInv, SearchOK
  <2>2. \/ prevBB' = NoBlock /\ dest.block = Origin
        \/ prevBB' \in visited /\ dest.block \in Range(Out(prevBB'))
    BY <1>1, <1>3, <1>4 DEF IInv, StacksOK
  <2>3. NoBlock \notin visited /\ visited \in SUBSET Blocks(program)
    BY Context DEF IInv, TypeOK
  <2>4. LeadsIn(program, dest.block, dest.block, IP, 0)
    BY <1>3, NoEdges
  <2>5. prevBB' = NoBlock => LeadsIn(program, Origin, dest.block, IP, 1 - 1)
    BY <2>2, <2>3, <2>4
  <2>6. prevBB' # NoBlock => prevBB' \in visited /\ LeadsIn(program, prevBB', dest.block, IP, 1)
    <3> SUFFICES ASSUME prevBB' # NoBlock
                 PROVE  prevBB' \in visited /\ LeadsIn(program, prevBB', dest.block, IP, 1)
      OBVIOUS
    <3>1. /\ prevBB' \in visited /\ prevBB' \in Blocks(program)
          /\ dest.block \in Range(Edges(program, prevBB', IP))
      BY <2>2, <2>3 DEF Out
    <3>2. LeadsIn(program, prevBB', dest.block, IP, 0 + 1)
      BY <2>4, <3>1, OneEdgeMore
    <3> QED
      BY <3>1, <3>2
  <2>7. \A b \in visited : prev'[b] # << >>
    <3>1. \A b \in visited : b \in Blocks(program) \ {dest.block} /\ prev[b] # << >>
      BY <1>1, <2>3 DEF IInv, SearchOK, TopsOK, Seen
    <3> QED
      BY <1>4, <3>1
  <2> QED
    BY <1>1, <1>5, <2>1, <2>5, <2>6, <2>7 DEF WalkOK, question
<1>9. StartOK' /\ SearchOK' /\ TopsOK' /\ AnswerOK'
  BY <1>1 DEF StartOK, SearchOK, TopsOK, AnswerOK, IInv
<1> QED
  BY <1>5, <1>6, <1>7, <1>8, <1>9 DEF IInv

LEMMA WalkBackKeeps == IInv /\ WalkBack => IInv'
<1> SUFFICES ASSUME IInv, WalkBack PROVE IInv'
  OBVIOUS
<1> DEFINE IP == Interprocedural
<1>1. /\ pc = "walk" /\ prevBB # NoBlock /\ prev[prevBB] # << >>
      /\ dist' = dist + 1 /\ Pop(prevBB)
      /\ UNCHANGED <<question, pc, frame, queue, visited, answer>>
  BY DEF WalkBack, AtTheStart
<1>2. /\ Reaches(frame) /\ dist \in Nat /\ dist >= 1
      /\ prevBB \in visited /\ visited \in SUBSET Blocks(program)
      /\ LeadsIn(program, prevBB, dest.block, IP, dist)
      /\ \A b \in visited : prev[b] = << >> => Leads(program, prevBB, b, IP)
      /\ NoBlock \notin visited
  BY <1>1, Context DEF IInv, WalkOK, TypeOK
<1>3. /\ prevBB' \in Range(prev[prevBB]) /\ prevBB' \in Blocks(program) \cup {NoBlock}
      /\ prev' \in [Blocks(program) -> Seq(Blocks(program) \cup {NoBlock})]
      /\ \A d \in Blocks(program) : Range(prev'[d]) \subseteq Range(prev[d])
      /\ \A d \in Blocks(program) \ {prevBB} : prev'[d] = prev[d]
  BY <1>1, <1>2, Popped DEF IInv
<1>4. /\ Origin' = Origin /\ Interprocedural' = Interprocedural
      /\ \A c : Out(c)' = Out(c)
      /\ \A i : Reaches(i)' <=> Reaches(i)
      /\ TriedOK'
  BY <1>1, SameCall DEF IInv
<1>5. TypeOK'
  BY <1>1, <1>3 DEF IInv, TypeOK, question
<1>6. StacksOK'
  BY <1>1, <1>3, <1>4 DEF IInv, StacksOK, question
<1>7. WalkOK'
  <2>1. \/ prevBB' = NoBlock /\ prevBB = Origin
        \/ prevBB' \in visited /\ prevBB \in Range(Out(prevBB'))
    BY <1>1, <1>2, <1>3 DEF IInv, StacksOK
  <2>2. dist' >= 1 /\ dist' - 1 = dist
    BY <1>1, <1>2
  <2>3. prevBB' = NoBlock => LeadsIn(program, Origin, dest.block, IP, dist' - 1)
    BY <1>2, <2>1, <2>2
  <2>4. prevBB' # NoBlock => prevBB' \in visited /\ LeadsIn(program, prevBB', dest.block, IP, dist')
    <3> SUFFICES ASSUME prevBB' # NoBlock
                 PROVE  prevBB' \in visited /\ LeadsIn(program, prevBB', dest.block, IP, dist')
      OBVIOUS
    <3>1. /\ prevBB' \in visited /\ prevBB' \in Blocks(program)
          /\ prevBB \in Range(Edges(program, prevBB', IP))
      BY <1>2, <2>1 DEF Out
    <3>2. LeadsIn(program, prevBB', dest.block, IP, dist + 1)
      BY <1>2, <3>1, OneEdgeMore
    <3> QED
      BY <1>1, <3>1, <3>2
  <2>5. ASSUME NEW b \in visited, prev'[b] = << >>, prevBB' # NoBlock
        PROVE  Leads(program, prevBB', b, IP)
    <3>1. prevBB \in Range(Edges(program, prevBB', IP))
      BY <2>1, <2>5 DEF Out
    <3>2. Leads(program, prevBB', prevBB, IP)
      BY <3>1, EdgeLeads
    <3>3. CASE b = prevBB
      BY <3>2, <3>3
    <3>4. CASE b # prevBB
      <4>1. Leads(program, prevBB, b, IP)
        BY <1>2, <1>3, <2>5, <3>4
      <4> QED
        BY <3>2, <4>1, LeadsOn
    <3> QED
      BY <3>3, <3>4
  <2> QED
    BY <1>1, <1>2, <1>4, <2>2, <2>3, <2>4, <2>5 DEF WalkOK, question
<1>8. StartOK' /\ SearchOK' /\ TopsOK' /\ AnswerOK'
  BY <1>1 DEF StartOK, SearchOK, TopsOK, AnswerOK, IInv
<1> QED
  BY <1>4, <1>5, <1>6, <1>7, <1>8 DEF IInv

LEMMA ReturnDistanceKeeps == IInv /\ ReturnDistance => IInv'
<1> SUFFICES ASSUME IInv, ReturnDistance PROVE IInv'
  OBVIOUS
<1>1. /\ pc = "walk" /\ Return(dist)
      /\ prevBB # NoBlock => prev[prevBB] = << >>
  BY DEF ReturnDistance, AtTheStart
<1>2. /\ Reaches(frame) /\ dist \in Nat /\ dist >= 1
      /\ visited \in SUBSET Blocks(program)
  BY <1>1 DEF IInv, WalkOK, TypeOK
<1>3. CASE prevBB = NoBlock
  <2>1. LeadsIn(program, Origin, dest.block, Interprocedural, dist - 1)
    BY <1>1, <1>3 DEF IInv, WalkOK
  <2> QED
    BY <1>1, <1>2, <2>1, ReturnKeeps
<1>4. CASE prevBB # NoBlock
  <2>1. prevBB \in visited /\ Leads(program, prevBB, prevBB, Interprocedural)
    BY <1>1, <1>4 DEF IInv, WalkOK
  <2>2. \E b \in Blocks(program) : Leads(program, b, b, Interprocedural)
    BY <1>2, <2>1
  <2> QED
    BY <1>1, <1>2, <2>2, ReturnKeeps
<1> QED
  BY <1>3, <1>4

LEMMA StutterKeeps == IInv /\ UNCHANGED vars => IInv'
<1> SUFFICES ASSUME IInv, UNCHANGED vars PROVE IInv'
  OBVIOUS
<1>1. UNCHANGED <<question, pc, frame, queue, visited, prev, prevBB, dist, answer>>
  BY DEF vars, search
<1>2. /\ Origin' = Origin /\ Interprocedural' = Interprocedural /\ NoStacks' = NoStacks
      /\ \A c : Out(c)' = Out(c)
      /\ \A i : Reaches(i)' <=> Reaches(i)
      /\ SameFunction' <=> SameFunction
      /\ TriedOK'
  BY <1>1, SameCall DEF IInv
<1>3. Seen' = Seen
  BY <1>1 DEF Seen
<1>4. TypeOK' /\ StartOK'
  BY <1>1, <1>2 DEF IInv, TypeOK, StartOK, question
<1>5. SearchOK' /\ StacksOK' /\ TopsOK'
  BY <1>1, <1>2, <1>3 DEF IInv, SearchOK, StacksOK, TopsOK, question
<1>6. WalkOK'
  BY <1>1, <1>2 DEF IInv, WalkOK, question
<1>7. AnswerOK'
  BY <1>1, <1>2 DEF IInv, AnswerOK, question
<1> QED
  BY <1>2, <1>4, <1>5, <1>6, <1>7 DEF IInv

LEMMA Invariance == Spec => []IInv
<1>1. IInv /\ [Next]_vars => IInv'
  BY ReturnZeroKeeps, BeginSearchKeeps, VisitKeeps, RevisitKeeps, ExhaustedKeeps, FoundKeeps,
     WalkBackKeeps, ReturnDistanceKeeps, StutterKeeps DEF Next
<1> QED
  BY <1>1, InitIInv, PTL DEF Spec

-----------------------------------------------------------------------------
(* Theorems *)

(* Queue, visited set, stacks and the position of the walk stay in the program, *)
(* and isReachable answers -1 or a number.                                      *)
THEOREM TypeCorrect == Spec => []TypeOK
<1>1. IInv => TypeOK
  BY DEF IInv
<1> QED
  BY <1>1, Invariance, PTL

(* computePathDist calls top() on the stack of dest without asking whether it is *)
(* empty (Searcher.cpp:349): it never is when the search has come to dest.       *)
StackHasATop == pc = "search" /\ dest.block \in Seen => prev[dest.block] # << >>

THEOREM TopIsDefined == Spec => []StackHasATop
<1>1. IInv => StackHasATop
  BY DEF IInv, TopsOK, StackHasATop
<1> QED
  BY <1>1, Invariance, PTL

(* For every program, question and stack: asked from another function than that of *)
(* dest, isReachable answers "cannot reach" when, and only when, no way leads to    *)
(* dest from src or from a call on the stack; asked from the same function, when,   *)
(* and only when, none leads there inside the function (and the blocks differ): the *)
(* calls on the stack are not looked at then.                                       *)
THEOREM SearchIsExact == Spec => []AnswersReachability
<1>1. ASSUME IInv, answer # NoAnswer
      PROVE  /\ Len(sites) \in Nat /\ frame \in 1..Len(sites) + 1
             /\ answer \in Nat \cup {-1} /\ pc = "done"
  BY <1>1, LenProperties DEF IInv, TypeOK, AnswerOK
<1>2. IInv => ExactBetweenFunctions
  <2> SUFFICES ASSUME IInv, answer # NoAnswer, ~SameFunction
               PROVE  answer >= 0 <=> \E i \in 1..Len(sites) + 1 : Reaches(i)
    BY DEF ExactBetweenFunctions
  <2>1. CASE answer >= 0
    BY <1>1, <2>1 DEF IInv, AnswerOK
  <2>2. CASE answer < 0
    <3>1. ~Reaches(frame) /\ frame = 1
      BY <1>1, <2>2 DEF IInv, AnswerOK
    <3>2. ASSUME NEW i \in 1..Len(sites) + 1 PROVE ~Reaches(i)
      <4>1. i = frame \/ i \in frame + 1..Len(sites) + 1
        BY <1>1, <3>1
      <4> QED
        BY <3>1, <4>1 DEF IInv, TriedOK
    <3> QED
      BY <1>1, <2>2, <3>2
  <2> QED
    BY <1>1, <2>1, <2>2
<1>3. IInv => ExactInsideAFunction
  <2> SUFFICES ASSUME IInv, answer # NoAnswer, SameFunction, src.block # dest.block
               PROVE  answer >= 0 <=> Leads(program, src.block, dest.block, FALSE)
    BY DEF ExactInsideAFunction
  <2>1. frame = Len(sites) + 1
    BY <1>1 DEF IInv, TriedOK
  <2>2. From(frame) = src
    BY <1>1, <2>1 DEF From
  <2>3. (program.func[src.block] # program.func[dest.block]) = FALSE
    <3>1. (program.func[src.block] # program.func[dest.block]) <=> FALSE
      BY DEF SameFunction
    <3> QED
      BY <3>1, Zenon
  <2>4. Reaches(frame) <=> Leads(program, src.block, dest.block, FALSE)
    BY <2>2, <2>3 DEF Reaches
  <2>5. (answer >= 0 => Reaches(frame)) /\ (answer < 0 => ~Reaches(frame))
    BY <1>1 DEF IInv, AnswerOK
  <2>6. answer < 0 <=> ~(answer >= 0)
    BY <1>1
  <2> QED
    BY <2>4, <2>5, <2>6, Zenon
<1> QED
  BY <1>2, <1>3, Invariance, PTL DEF AnswersReachability

(* In every program without loops the walk over the stacks of predecessors comes *)
(* back to the origin and has then counted the blocks of a way.                  *)
THEOREM DistanceCountsAWay == Spec => []DistanceIsAWay
<1>1. IInv => DistanceIsAWay
  <2> SUFFICES ASSUME IInv, answer >= 0, src.block # dest.block,
                      Reaches(Len(sites) + 1), Acyclic(program)
               PROVE  LeadsIn(program, src.block, dest.block, ~SameFunction, answer - 1)
    BY DEF DistanceIsAWay
  <2>1. /\ Len(sites) \in Nat /\ frame \in 1..Len(sites) + 1
        /\ answer \in Nat /\ pc = "done"
    BY LenProperties DEF IInv, TypeOK, AnswerOK, NoAnswer
  <2>2. frame = Len(sites) + 1
    <3>1. CASE frame \in 1..Len(sites)
      <4>1. Len(sites) + 1 \in frame + 1..Len(sites) + 1
        BY <2>1, <3>1
      <4> QED
        BY <4>1 DEF IInv, TriedOK
    <3> QED
      BY <2>1, <3>1
  <2>3. Origin = src.block /\ From(frame) = src
    BY <2>1, <2>2 DEF Origin, From
  <2>4. Interprocedural = ~SameFunction
    <3>1. Interprocedural <=> ~SameFunction
      BY <2>3 DEF Interprocedural, SameFunction
    <3> QED
      BY <3>1, Zenon DEF Interprocedural, SameFunction
  <2>5. answer >= 1
    BY <2>1, <2>3 DEF IInv, AnswerOK
  <2>6. ~ \E b \in Blocks(program) : Leads(program, b, b, Interprocedural)
    BY LeadsGrows, Context DEF Acyclic, IInv
  <2>7. LeadsIn(program, Origin, dest.block, Interprocedural, answer - 1)
    BY <2>1, <2>5, <2>6 DEF IInv, AnswerOK
  <2> QED
    BY <2>3, <2>4, <2>7, Zenon
<1> QED
  BY <1>1, Invariance, PTL

=============================================================================
