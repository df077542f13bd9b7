----------------------------- MODULE MCPipeline -----------------------------
(* TelemetryPipeline for TLC: workers are interchangeable, handlers too. *)
EXTENDS PipelineInvariant, TLC

Alike == Permutations(Workers) \union Permutations(Handlers)
=============================================================================
