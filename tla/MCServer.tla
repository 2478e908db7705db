------------------------------ MODULE MCServer ------------------------------
(* A client, an MCU's control connection and one of a pipeline.            *)
EXTENDS Server, TLC

CONSTANTS c1, m1, p1

MCKind == c1 :> "rtm" @@ m1 :> "control" @@ p1 :> "pipeline"

=============================================================================
