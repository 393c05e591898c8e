------------------------- MODULE MCTyuReplaySearcher -------------------------
(* The guided searcher on three small programs.  A program is given as for  *)
(* Reachability; Place maps each position to its instruction and the call   *)
(* sites on its stack.                                                      *)
EXTENDS TyuReplaySearcher

R == INSTANCE Reachability WITH
       Programs <- {}, Line <- {}, MaxStack <- 0, program <- "none", src <- "none",
       dest <- "none", sites <- << >>, pc <- "done", frame <- 1, queue <- << >>,
       visited <- {}, prev <- << >>, prevBB <- "none", dist <- 0, answer <- 0

(* The turns of Reachability run to the end: computePathDist, the search of *)
(* isReachableForward, and the searches from the call sites on the stack.   *)
RECURSIVE WalkBack(_, _, _)
WalkBack(b, prev, dist) ==
  IF b = R!NoBlock \/ prev[b] = << >>
    THEN dist
    ELSE WalkBack(Head(prev[b]), [prev EXCEPT ![b] = Tail(@)], dist + 1)

RECURSIVE Searched(_, _, _, _, _, _)
Searched(g, dest, interprocedural, queue, visited, prev) ==
  IF queue = << >> THEN -1
  ELSE LET b == Head(queue)
           edges == R!Edges(g, b, interprocedural)
           pushed(d) == [k \in 1..Cardinality({i \in DOMAIN edges : edges[i] = d}) |-> b]
       IN CASE b = dest -> WalkBack(Head(prev[b]), [prev EXCEPT ![b] = Tail(@)], 1)
            [] b # dest /\ b \in visited ->
                 Searched(g, dest, interprocedural, Tail(queue), visited, prev)
            [] OTHER ->
                 Searched(g, dest, interprocedural, Tail(queue) \o edges, visited \cup {b},
                          [d \in DOMAIN prev |-> pushed(d) \o prev[d]])

isReachableForward(g, src, dest) ==
  IF src.block = dest.block /\ src.line <= dest.line
    THEN 0
    ELSE Searched(g, dest.block, g.func[src.block] # g.func[dest.block], <<src.block>>, {},
                  [b \in DOMAIN g.succ |-> IF b = src.block THEN <<R!NoBlock>> ELSE << >>])

RECURSIVE isReachable(_, _, _, _)
isReachable(g, sites, src, dest) ==
  LET d == isReachableForward(g, src, dest)
  IN IF d >= 0 \/ g.func[src.block] = g.func[dest.block] \/ sites = << >>
       THEN d
       ELSE isReachable(g, SubSeq(sites, 1, Len(sites) - 1), sites[Len(sites)], dest)

Instr(b, l) == [block |-> b, line |-> l]
Pos(b, l, sites) == [i |-> Instr(b, l), sites |-> sites]

Instructions(place) == {place[p].i : p \in DOMAIN place}
Distances(g, place) ==
  [p \in DOMAIN place |-> [i \in Instructions(place) |->
     isReachable(g, place[p].sites, place[p].i, i)]]
BlockOf(place) == [p \in DOMAIN place |-> place[p].i.block]
InstructionOf(place) == [p \in DOMAIN place |-> place[p].i]

-----------------------------------------------------------------------------
(* Three events on a main path with two ways around the first, two ways between *)
(* the first and the second, a way that bypasses the first event altogether,    *)
(* and a branch away from the third.  `init' and `lib' are library code.        *)

RoutesBlock == {"init", "entry", "m", "n", "e1", "x", "y", "lib", "e2", "e3", "out"}
RoutesProgram ==
  [func |-> [b \in RoutesBlock |-> IF b \in {"init", "lib"} THEN b ELSE "main"],
   succ |-> [b \in RoutesBlock |->
               CASE b = "entry" -> <<"m", "x">>  [] b = "m" -> <<"e1", "n">>
                 [] b = "n" -> <<"e1">>          [] b = "e1" -> <<"x", "y">>
                 [] b \in {"x", "y"} -> <<"e2">> [] b = "e2" -> <<"e3", "out">>
                 [] b = "e3" -> <<"out">>        [] OTHER -> << >>],
   calls |-> [b \in RoutesBlock |->
               CASE b = "init" -> <<"main">> [] b = "y" -> <<"lib">> [] OTHER -> << >>],
   entry |-> [f \in {"init", "main", "lib"} |-> IF f = "main" THEN "entry" ELSE f]]

RoutesPlace ==
  [p \in RoutesBlock \cup {"fork", "fork2", "back"} |->
     CASE p = "fork"  -> Pos("e1", 2, << >>)
       [] p = "fork2" -> Pos("e2", 2, << >>)
       [] p = "lib"   -> Pos("lib", 1, <<Instr("y", 1)>>)
       [] p = "back"  -> Pos("y", 2, << >>)
       [] OTHER       -> Pos(p, 1, << >>)]

RoutesSuccessors ==
  [p \in DOMAIN RoutesPlace |->
     CASE p = "init" -> <<"entry">>      [] p = "entry" -> <<"m", "x">>
       [] p = "m" -> <<"e1", "n">>       [] p = "n" -> <<"e1">>
       [] p = "e1" -> <<"fork">>         [] p = "fork" -> <<"x", "y">>
       [] p = "x" -> <<"e2">>            [] p = "y" -> <<"lib">>
       [] p = "lib" -> <<"back">>        [] p = "back" -> <<"e2">>
       [] p = "e2" -> <<"fork2">>        [] p = "fork2" -> <<"e3", "out">>
       [] p = "e3" -> <<"out">>          [] OTHER -> << >>]

RoutesStart == "init"
RoutesSwitches == {"entry"}
RoutesBlocks == BlockOf(RoutesPlace)
RoutesInstructions == InstructionOf(RoutesPlace)
RoutesInteresting == DOMAIN RoutesPlace \ {"init", "lib"}
RoutesTargets == <<Instr("e1", 1), Instr("e2", 1), Instr("e3", 1)>>
RoutesDistances == Distances(RoutesProgram, RoutesPlace)

(* The two conditions under which pruning is sound hold of this program. *)
ASSUME RoutesAssumption ==
  Distance = RoutesDistances => BlockDecides /\ EventsFollow

-----------------------------------------------------------------------------
(* main calls f from a, b or c; the first event is the only instruction of f, the *)
(* second comes after the call from b alone and the third after a branch there.   *)
(* A state that was in f for another call has to be given up again.               *)

Callee == [site \in {"a", "b", "c"} |->
             CASE site = "a" -> "fa" [] site = "b" -> "fb" [] site = "c" -> "fc"]
After  == [site \in {"a", "b", "c"} |->
             CASE site = "a" -> "a2" [] site = "b" -> "b2" [] site = "c" -> "c2"]

ReturnsBlock == {"m", "n", "a", "b", "c", "a2", "b2", "c2", "f", "b3", "out"}
ReturnsProgram ==
  [func |-> [b \in ReturnsBlock |-> IF b = "f" THEN "f" ELSE "main"],
   succ |-> [b \in ReturnsBlock |->
               CASE b = "m" -> <<"a", "n">>           [] b = "n" -> <<"c", "b">>
                 [] b \in DOMAIN After -> <<After[b]>> [] b = "b2" -> <<"out", "b3">>
                 [] OTHER -> << >>],
   calls |-> [b \in ReturnsBlock |-> IF b \in DOMAIN Callee THEN <<"f">> ELSE << >>],
   entry |-> [f \in {"main", "f"} |-> IF f = "f" THEN "f" ELSE "m"]]

ReturnsPlace ==
  [p \in (ReturnsBlock \ {"f"}) \cup Range(Callee) |->
     IF p \in ReturnsBlock
       THEN Pos(p, 1, << >>)
       ELSE Pos("f", 1, <<Instr(Inverse(Callee, DOMAIN Callee, Range(Callee))[p], 1)>>)]

ReturnsSuccessors ==
  [p \in DOMAIN ReturnsPlace |->
     CASE p \in DOMAIN Callee -> <<Callee[p]>>
       [] p \in Range(Callee) -> <<After[ReturnsPlace[p].sites[1].block]>>
       [] OTHER -> ReturnsProgram.succ[p]]

ReturnsStart == "m"
ReturnsBlocks == BlockOf(ReturnsPlace)
ReturnsInstructions == InstructionOf(ReturnsPlace)
ReturnsInteresting == DOMAIN ReturnsPlace
ReturnsTargets == <<Instr("f", 1), Instr("b2", 1), Instr("b3", 1)>>
ReturnsDistances == Distances(ReturnsProgram, ReturnsPlace)

-----------------------------------------------------------------------------
(* b and c both call f; what follows the call from b calls g, where the only *)
(* event is.  There is nothing to go back to in such a trace.                *)

CallsBlock == {"m", "b", "c", "b2", "c2", "f", "g"}
CallsProgram ==
  [func |-> [b \in CallsBlock |-> IF b \in {"f", "g"} THEN b ELSE "main"],
   succ |-> [b \in CallsBlock |->
               CASE b = "m" -> <<"b", "c">> [] b = "b" -> <<"b2">>
                 [] b = "c" -> <<"c2">>     [] OTHER -> << >>],
   calls |-> [b \in CallsBlock |->
               CASE b \in {"b", "c"} -> <<"f">> [] b = "b2" -> <<"g">> [] OTHER -> << >>],
   entry |-> [f \in {"main", "f", "g"} |-> IF f = "main" THEN "m" ELSE f]]

CallsPlace ==
  [p \in {"m", "b", "c", "b2", "c2", "fb", "fc", "g"} |->
     CASE p = "fb" -> Pos("f", 1, <<Instr("b", 1)>>)
       [] p = "fc" -> Pos("f", 1, <<Instr("c", 1)>>)
       [] p = "g"  -> Pos("g", 1, <<Instr("b2", 1)>>)
       [] OTHER    -> Pos(p, 1, << >>)]

CallsSuccessors ==
  [p \in DOMAIN CallsPlace |->
     CASE p = "m" -> <<"b", "c">> [] p = "b" -> <<"fb">>  [] p = "c" -> <<"fc">>
       [] p = "fb" -> <<"b2">>    [] p = "fc" -> <<"c2">> [] p = "b2" -> <<"g">>
       [] OTHER -> << >>]

CallsStart == "m"
CallsBlocks == BlockOf(CallsPlace)
CallsInstructions == InstructionOf(CallsPlace)
CallsInteresting == {"fb", "fc", "g"}
CallsTargets == <<Instr("g", 1)>>
CallsDistances == Distances(CallsProgram, CallsPlace)

(* The block of f does not tell which call is returned from; the other condition *)
(* of PruningIsSound, on the order of events, holds.                             *)
ASSUME CallsAssumption ==
  Distance = CallsDistances => ~BlockDecides /\ EventsFollow

=============================================================================
