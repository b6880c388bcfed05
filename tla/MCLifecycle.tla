---------------------------- MODULE MCLifecycle ----------------------------
(***************************************************************************)
(* Three requests, so that both servers can have one running while a third *)
(* arrives during the shutdown of the first.                               *)
(***************************************************************************)
EXTENDS Lifecycle, TLC
=============================================================================
