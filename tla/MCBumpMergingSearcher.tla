------------------------ MODULE MCBumpMergingSearcher ------------------------
(* BumpMergingSearcher on a branch whose sides meet at a call of           *)
(* klee_merge():                                                           *)
(*   1: goto 2 or 3;  2: goto 3;  3: merge;  4: exit                       *)
EXTENDS BumpMergingSearcher

Instructions == 1 .. 4
Merges == {3}
Flow == [l \in Instructions |->
           CASE l = 1 -> {2, 3} [] l = 2 -> {3} [] l = 3 -> {4} [] OTHER -> {}]
Commands == {{}}
=============================================================================
