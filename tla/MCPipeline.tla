----------------------------- MODULE MCPipeline -----------------------------
(* An instance of Pipeline.                                                *)
EXTENDS Pipeline

CONSTANTS h1, h2

=============================================================================
