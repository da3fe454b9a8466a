----------------------------- MODULE SpliceCtx -----------------------------
(***************************************************************************)
(* SpliceCtx (src/splice/mod.rs) over the Live splicer (src/splice/exec.rs)*)
(* : the byte counters, the target length and the offset of one transfer,  *)
(* and the two splice attempts.  Each way an attempt can end is an action. *)
(***************************************************************************)
EXTENDS Offset, Pipe, AsyncFd

CONSTANTS
  IsizeMax,     \* isize::MAX, the default target length
  Fragmented    \* the pipe may run out of slots before it is full of bytes

ASSUME SpliceCtxAssumption ==
  /\ IsizeMax \in Nat
  /\ Fragmented \in BOOLEAN

VARIABLE ctx

UsizeMax == 2 * IsizeMax + 1

Ctxs == [size_to_splice : Nat, offset : Offsets,
         bytes_read : Nat, bytes_written : Nat]

\* usize subtraction of a release build, which wraps around.
USub(a, b) == IF b <= a THEN a - b ELSE a - b + UsizeMax + 1

-----------------------------------------------------------------------------
(***************************************************************************)
(* Constructors.                                                           *)
(***************************************************************************)
new_inner == [size_to_splice |-> IsizeMax, offset |-> NoOffset,
              bytes_read |-> 0, bytes_written |-> 0]

with_target_len(c, len) == [c EXCEPT !.size_to_splice = len]

WithRange(size, offset) ==
  IF size.ok /\ size.val <= UsizeMax      \* u64 try_into usize
    THEN Ok([new_inner EXCEPT !.offset = offset, !.size_to_splice = size.val])
    ELSE Err

with_input_file(f_len, f_offset_start, f_offset_end) ==
  WithRange(calc_size_to_splice(f_len, f_offset_start, f_offset_end),
            InOffset(UnwrapOr(f_offset_start, 0)))

with_output_file(f_len, f_offset_start, f_offset_end) ==
  WithRange(calc_size_to_splice(f_len, f_offset_start, f_offset_end),
            OutOffset(UnwrapOr(f_offset_start, 0)))

-----------------------------------------------------------------------------
pipe_has_data == ctx.bytes_read > ctx.bytes_written

(***************************************************************************)
(* splice(2), as Live calls it with SPLICE_F_NONBLOCK (external).          *)
(***************************************************************************)
Readable ==
  IF off_in(ctx.offset) = None THEN src.arrived - src.taken
  ELSE IF ctx.offset.pos <= src.arrived THEN src.arrived - ctx.offset.pos ELSE 0

Writable == dst.file \/ dst.queued < SndBuf

PipeRefuses == pipe.level >= pipe.size \/ (Fragmented /\ pipe.level > 0)
PipeAccepts == pipe.level < pipe.size

\* Mutant: the kernel's update of the offset is thrown away.
AdvanceLost(o, kind, n) == o

Advance(o, kind, n) == IF o.kind = kind THEN [o EXCEPT !.pos = @ + n] ELSE o

splice_in_moves(n, max_len) ==
  /\ PipeAccepts
  /\ n \in 1 .. Readable /\ n <= max_len /\ n <= pipe.size - pipe.level
  /\ pipe' = [pipe EXCEPT !.level = @ + n]
  /\ src'  = [src EXCEPT !.taken = @ + n]

splice_in_eof   == PipeAccepts /\ Readable = 0 /\ src.eof
splice_in_again == PipeRefuses \/ (Readable = 0 /\ ~src.eof)
splice_in_fault == PipeAccepts /\ src.err

splice_out_moves(n, max_len) ==
  /\ Writable /\ ~dst.err
  /\ n \in 1 .. pipe.level /\ n <= max_len
  /\ dst.file \/ n <= SndBuf - dst.queued
  /\ pipe' = [pipe EXCEPT !.level = @ - n]
  /\ dst'  = [dst EXCEPT !.accepted = @ + n,
                         !.queued = IF dst.file THEN @ ELSE @ + n]

\* An empty pipe: end of file once its write end is closed, EAGAIN before.
splice_out_zero  == pipe.level = 0 /\ ~pipe.fill_fd
splice_out_again == (pipe.level = 0 /\ pipe.fill_fd) \/ (~Writable /\ ~dst.err)
splice_out_fault == pipe.level > 0 /\ dst.err

-----------------------------------------------------------------------------
(***************************************************************************)
(* try_splice_from_source.  The expect() on the fill descriptor is the     *)
(* conjunct pipe.fill_fd of every way past it.                             *)
(***************************************************************************)
\* Mutant: the bytes already read do not count against the target.
ToReadAgain == ctx.size_to_splice

ToRead == USub(ctx.size_to_splice, ctx.bytes_read)

\* Mutant: the target is reached but the fill end of the pipe stays open.
SourceTargetKeepsOpen == ToRead = 0 /\ UNCHANGED <<ctx, pipe, src>>

SourceTargetReached ==
  /\ ToRead = 0
  /\ set_fill_done
  /\ UNCHANGED <<ctx, src>>

\* Mutant: the bytes that a splice moved are not added to bytes_read.
SourceMovedUncounted ==
  /\ ToRead # 0 /\ pipe.fill_fd
  /\ \E n \in 1 .. pipe.size : splice_in_moves(n, ToRead)
  /\ UNCHANGED ctx

SourceMoved ==
  /\ ToRead # 0 /\ pipe.fill_fd
  /\ \E n \in 1 .. pipe.size :
       /\ splice_in_moves(n, ToRead)
       /\ ctx' = [ctx EXCEPT !.bytes_read = @ + n,
                             !.offset = Advance(@, "In", n)]

\* Mutant: end of file leaves the fill end of the pipe open.
SourceEofKeepsOpen ==
  /\ ToRead # 0 /\ pipe.fill_fd /\ splice_in_eof
  /\ UNCHANGED <<ctx, pipe, src>>

SourceEof ==
  /\ ToRead # 0 /\ pipe.fill_fd /\ splice_in_eof
  /\ set_fill_done
  /\ UNCHANGED <<ctx, src>>

SourceWouldBlock ==
  /\ ToRead # 0 /\ pipe.fill_fd /\ splice_in_again
  /\ UNCHANGED <<ctx, pipe, src>>

SourceFault ==
  /\ ToRead # 0 /\ pipe.fill_fd /\ splice_in_fault
  /\ UNCHANGED <<ctx, pipe, src>>

(***************************************************************************)
(* try_splice_to_dest.                                                     *)
(***************************************************************************)
ToWrite == USub(ctx.bytes_read, ctx.bytes_written)

\* Mutant: an empty pipe is taken for the end of the transfer.
DestDrainedEarly ==
  /\ ToWrite = 0
  /\ set_drain_done
  /\ UNCHANGED <<ctx, dst>>

DestDrained ==
  /\ ToWrite = 0 /\ is_fill_done
  /\ set_drain_done
  /\ UNCHANGED <<ctx, dst>>

DestNoProgress ==
  /\ IF ToWrite = 0 THEN ~is_fill_done ELSE pipe.drain_fd /\ splice_out_zero
  /\ UNCHANGED <<ctx, pipe, dst>>

\* Mutant: the bytes that a splice moved are not added to bytes_written.
DestMovedUncounted ==
  /\ ToWrite # 0 /\ pipe.drain_fd
  /\ \E n \in 1 .. pipe.size : splice_out_moves(n, ToWrite)
  /\ UNCHANGED ctx

DestMoved ==
  /\ ToWrite # 0 /\ pipe.drain_fd
  /\ \E n \in 1 .. pipe.size :
       /\ splice_out_moves(n, ToWrite)
       /\ ctx' = [ctx EXCEPT !.bytes_written = @ + n,
                             !.offset = Advance(@, "Out", n)]

DestWouldBlock ==
  /\ ToWrite # 0 /\ pipe.drain_fd /\ splice_out_again
  /\ UNCHANGED <<ctx, pipe, dst>>

DestFault ==
  /\ ToWrite # 0 /\ pipe.drain_fd /\ splice_out_fault
  /\ UNCHANGED <<ctx, pipe, dst>>
=============================================================================
