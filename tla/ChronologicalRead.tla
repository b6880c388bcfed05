------------------------- MODULE ChronologicalRead -------------------------
(***************************************************************************)
(* What a client sees of paging: a mark that moves from Start to End, a    *)
(* whole chunk at a time but for a last shorter one, so in as many steps   *)
(* as the range has chunks, and that it is done exactly at End.            *)
(***************************************************************************)
EXTENDS Naturals

CONSTANTS Start, End, Chunk
VARIABLES upto, done

Init == upto = Start /\ done = FALSE

Advance ==
  /\ upto < End
  /\ upto' = IF upto + Chunk < End THEN upto + Chunk ELSE End
  /\ done' = (upto' = End)

Spec == Init /\ [][Advance]_<<upto, done>>
=============================================================================
