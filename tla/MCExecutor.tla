----------------------------- MODULE MCExecutor ------------------------------
(* Executor on a handful of state addresses. *)
EXTENDS Executor

=============================================================================
