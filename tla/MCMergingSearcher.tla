-------------------------- MODULE MCMergingSearcher --------------------------
(* MergingSearcher on a program with a loop, two branches and two calls of *)
(* klee_merge():                                                           *)
(*   1: goto 2 or 3;  2: goto 3 or 5;  3: merge;  4: goto 1 or 7;          *)
(*   5: merge;  6: goto 4 or 7;  7: exit                                   *)
EXTENDS MergingSearcher

Instructions == 1 .. 7
Merges == {3, 5}
Flow == [l \in Instructions |->
           CASE l = 1 -> {2, 3} [] l = 2 -> {3, 5} [] l = 3 -> {4} [] l = 4 -> {1, 7}
             [] l = 5 -> {6}    [] l = 6 -> {4, 7} [] OTHER -> {}]
Commands == {{"batching", "max-memory"}, {"batching", "iterative-deepening"}}
=============================================================================
