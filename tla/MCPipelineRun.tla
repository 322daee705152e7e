--------------------------- MODULE MCPipelineRun ---------------------------
(* Two stages stand for the nine: plaid_sync and a stage that depends on it. *)
EXTENDS PipelineRun, TLC
CONSTANTS w1, w2, plaid_sync, bill_detect

MCTwoStages == <<plaid_sync, bill_detect>>
=============================================================================
