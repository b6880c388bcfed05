-------------------------- MODULE MCPolicyUpdate --------------------------
(***************************************************************************)
(* Two clients and one console edit: the smallest setting in which a       *)
(* client overtakes another between its read and its write.                *)
(***************************************************************************)
EXTENDS PolicyUpdate

CONSTANTS a, b, consoleEdit
=============================================================================
