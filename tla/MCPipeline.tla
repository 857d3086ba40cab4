------------------------------ MODULE MCPipeline ------------------------------
(* Instances of the Boox pipeline. *)
EXTENDS BooxPipeline

CONSTANTS a, b, s1, s2
=============================================================================
