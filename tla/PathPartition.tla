---------------------------- MODULE PathPartition ----------------------------
(***************************************************************************)
(* What the path conditions of execution states promise: the inputs of the *)
(* program are shared out among the paths.  Every path has an input that   *)
(* takes it, no input takes two, and a path only ever loses inputs.        *)
(***************************************************************************)
CONSTANT Input

VARIABLE parts     \* the sets of inputs that take the paths under exploration

Init == parts = {Input}

(* A branch that some inputs of a path take and others do not. *)
Split(P, S) ==
  /\ S # {} /\ S # P
  /\ parts' = (parts \ {P}) \cup {S, P \ S}

(* A path goes on with some of its inputs only. *)
Narrow(P, S) ==
  /\ S # {}
  /\ parts' = (parts \ {P}) \cup {S}

(* A path ends. *)
End(P) == parts' = parts \ {P}

Next ==
  \E P \in parts :
    \/ End(P)
    \/ \E S \in SUBSET P : Split(P, S) \/ Narrow(P, S)

Spec == Init /\ [][Next]_parts

=============================================================================
