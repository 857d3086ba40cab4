------------------------------- MODULE MCTasks -------------------------------
(* Instances of the task store. *)
EXTENDS Tasks

CONSTANTS a, b
=============================================================================
