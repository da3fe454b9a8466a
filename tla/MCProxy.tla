------------------------------ MODULE MCProxy ------------------------------
(***************************************************************************)
(* Instances of Proxy for TLC.                                             *)
(***************************************************************************)
EXTENDS Proxy

BidiCall == {[op |-> "copy_bidirectional", f_len |-> 0, f_offset_start |-> None,
              f_offset_end |-> None, pipe_size |-> None]}
=============================================================================
