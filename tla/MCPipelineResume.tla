-------------------------- MODULE MCPipelineResume --------------------------
(***************************************************************************)
(* Instances of PipelineResume: four stages (document_loading, an          *)
(* extraction stage, a resolution stage, indexing), run whole or in the    *)
(* phases of a state machine.                                              *)
(***************************************************************************)
EXTENDS PipelineResume

Whole == {Stages}
Phases == {Stages, {3, 4}}

\* ECS tasks with their checkpoint in S3, and a host that keeps its disk.
Deployments == {[synced |-> TRUE, continues |-> FALSE],
                [synced |-> FALSE, continues |-> TRUE]}

\* Bound: what follows a torn checkpoint is not explored.
WholeCheckpoints == ~torn
=============================================================================
