--------------------------- MODULE MCPipelineRuns ---------------------------
(* Instances of PipelineRuns for TLC: one pipeline, whose runs, deliveries *)
(* and workers compete.                                                    *)
EXTENDS PipelineRuns, TLC

CONSTANT p1

RunsOfP1 == [r \in Runs |-> p1]

Symmetry == Permutations(Workers) \cup Permutations(Runs)
=============================================================================
