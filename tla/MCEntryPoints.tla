--------------------------- MODULE MCEntryPoints ---------------------------
(***************************************************************************)
(* Instances of EntryPoints for TLC.  Sizes are in pages, rounded up to a  *)
(* power of two.                                                           *)
(***************************************************************************)
EXTENDS EntryPoints

Call(op, len, start, end, pipe_size) ==
  [op |-> op, f_len |-> len, f_offset_start |-> start, f_offset_end |-> end,
   pipe_size |-> pipe_size]

\* Two pipes, and one pipe with a size of its own, as small as none at all.
PipeCalls == {Call("copy_bidirectional", 0, None, None, None)}
               \cup {Call("copy", 0, None, None, s) : s \in {0, 3}}

\* Ranges at and around the ends of a file of one byte.
RangeCalls == {Call("sendfile", 1, s, e, None) : s \in {None, 1, 2}, e \in {None, 0, 2}}
                \cup {Call("recvfile", 1, 1, 1, None), Call("recvfile", 1, 1, 0, None)}

SomeCalls == PipeCalls \cup RangeCalls
=============================================================================
