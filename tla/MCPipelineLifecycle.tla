------------------------ MODULE MCPipelineLifecycle ------------------------
(* Instance of PipelineLifecycle for TLC: calls that are model values.         *)
EXTENDS PipelineLifecycle, TLC

CallSymmetry == Permutations(Calls)
=============================================================================
