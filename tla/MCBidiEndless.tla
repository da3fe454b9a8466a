--------------------------- MODULE MCBidiEndless ---------------------------
(***************************************************************************)
(* Instances of BidiEndless for TLC.                                       *)
(***************************************************************************)
EXTENDS BidiEndless

\* SpliceCtx::new() for both directions.
CopyCall == {[op |-> "copy", target |-> None, f_len |-> 0,
              f_offset_start |-> None, f_offset_end |-> None]}
=============================================================================
