--------------------------- MODULE MCSpliceCancel ---------------------------
(***************************************************************************)
(* Instances of SpliceCancel for TLC.                                      *)
(***************************************************************************)
EXTENDS SpliceCancel

Call(op, len) == [op |-> op, target |-> None, f_len |-> len,
                  f_offset_start |-> None, f_offset_end |-> None]

\* One call of each kind.
MixedCalls == {Call("copy", 0), Call("sendfile", 2), Call("recvfile", 2)}
=============================================================================
