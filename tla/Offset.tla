------------------------------- MODULE Offset -------------------------------
(***************************************************************************)
(* The file offset of a transfer (src/splice/util.rs).  A Rust Option is   *)
(* either None or the value itself; a Result is [ok, val].                 *)
(***************************************************************************)
EXTENDS Integers

CONSTANT None    \* the absent optional argument (a model value)

ASSUME NoneAssumption == None \notin Int

Option(S) == S \cup {None}
UnwrapOr(opt, default) == IF opt = None THEN default ELSE opt

Ok(v) == [ok |-> TRUE, val |-> v]
Err   == [ok |-> FALSE, val |-> 0]

-----------------------------------------------------------------------------
(***************************************************************************)
(* enum Offset { None, In(u64), Out(u64) }                                 *)
(***************************************************************************)
Offsets == [kind : {"None", "In", "Out"}, pos : Nat]

NoOffset    == [kind |-> "None", pos |-> 0]
InOffset(n)  == [kind |-> "In", pos |-> n]
OutOffset(n) == [kind |-> "Out", pos |-> n]

\* The offset handed to splice(2) for the source, respectively the destination.
off_in(o)  == IF o.kind = "In" THEN o.pos ELSE None
off_out(o) == IF o.kind = "Out" THEN o.pos ELSE None

\* Mutant: the end of the range may lie beyond the end of the file.
calc_size_unchecked(f_len, f_offset_start, f_offset_end) ==
    LET start == UnwrapOr(f_offset_start, 0)
        end   == UnwrapOr(f_offset_end, f_len)
    IN  IF start > end THEN Err ELSE Ok(end - start)

(***************************************************************************)
(* How many bytes lie in the requested range of a file of length f_len.    *)
(***************************************************************************)
calc_size_to_splice(f_len, f_offset_start, f_offset_end) ==
    LET start == UnwrapOr(f_offset_start, 0)
        end   == UnwrapOr(f_offset_end, f_len)
    IN  IF start > end \/ end > f_len THEN Err ELSE Ok(end - start)
=============================================================================
