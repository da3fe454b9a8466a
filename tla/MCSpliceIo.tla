---------------------------- MODULE MCSpliceIo ----------------------------
(***************************************************************************)
(* Instances of SpliceIo for TLC: the calls each configuration makes.      *)
(***************************************************************************)
EXTENDS SpliceIo

Call(op, target, f_len, start, end) ==
  [op |-> op, target |-> target, f_len |-> f_len,
   f_offset_start |-> start, f_offset_end |-> end]

\* copy(), and SpliceIo with a target length of 0 to 2 bytes.
CopyCalls == {Call("copy", t, 0, None, None) : t \in {None, 0, 1, 2}}

\* Only copy(): no target length.
UnboundedCopy == {Call("copy", None, 0, None, None)}

\* copy(), and target lengths that the source can reach.
OpenCalls == {Call("copy", t, 0, None, None) : t \in {None, 1, 2}}

\* A target length of nothing.
EmptyTarget == {Call("copy", 0, 0, None, None)}

\* Ranges of a file of 3 bytes: absent, inner, empty, and invalid ones.
FileCalls ==
  {Call(op, None, 3, s, e) :
     op \in {"sendfile", "recvfile"}, s \in {None, 1, 3}, e \in {None, 2}}

AllCalls == CopyCalls \cup FileCalls
============================================================================
