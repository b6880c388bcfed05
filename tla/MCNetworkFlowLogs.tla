------------------------ MODULE MCNetworkFlowLogs ------------------------
(***************************************************************************)
(* A range of two and a half chunks: a first, an inner and a short last    *)
(* window; its logs fit, or those of the last instant do not.              *)
(***************************************************************************)
EXTENDS NetworkFlowLogs

CONSTANTS c1, c2

MCLoads == {{}, {End - 1}}
=============================================================================
