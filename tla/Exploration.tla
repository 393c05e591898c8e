----------------------------- MODULE Exploration -----------------------------
(***************************************************************************)
(* What KLEE's executor promises, with none of its bookkeeping: a set of   *)
(* paths under exploration, which forks and ends, and a run that completes *)
(* only when no path is left or when somebody asked it to stop.            *)
(*                                                                         *)
(* Executor.tla implements this specification with three worklists, a      *)
(* searcher with a worklist of its own, and objects freed by hand.         *)
(***************************************************************************)

CONSTANTS
  Path,            \* the identities a path can have
  Root,            \* the path the run starts with
  MayStopEarly     \* the run may complete after the seeds were replayed

VARIABLES
  active,          \* the paths under exploration
  halted,          \* somebody asked the run to stop
  status           \* "running", "complete" or "aborted"

vars == <<active, halted, status>>

Init ==
  /\ active = {Root}
  /\ halted = FALSE
  /\ status = "running"

(* A path under exploration splits: the children are new paths. *)
Fork(children) ==
  /\ status = "running"
  /\ active # {}
  /\ children \subseteq Path \ active
  /\ active' = active \cup children
  /\ UNCHANGED <<halted, status>>

(* A path ends; its end may be what the run was waiting for. *)
End(p) ==
  /\ status = "running"
  /\ p \in active
  /\ active' = active \ {p}
  /\ halted' \in {halted, TRUE}
  /\ UNCHANGED status

Halt ==
  /\ halted' = TRUE
  /\ UNCHANGED <<active, status>>

Complete ==
  /\ status = "running"
  /\ active = {} \/ halted \/ MayStopEarly
  /\ status' = "complete"
  /\ UNCHANGED <<active, halted>>

(* An assertion fails or the process crashes. *)
Abort ==
  /\ status = "running"
  /\ status' = "aborted"
  /\ UNCHANGED <<active, halted>>

Next ==
  \/ \E children \in SUBSET Path : Fork(children)
  \/ \E p \in Path : End(p)
  \/ Halt
  \/ Complete
  \/ Abort

Spec == Init /\ [][Next]_vars

=============================================================================
