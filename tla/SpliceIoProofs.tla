--------------------------- MODULE SpliceIoProofs ---------------------------
(***************************************************************************)
(* Proofs about SpliceIo for every value of its constants: the invariant   *)
(* IInv is inductive and implies the safety properties of a transfer.      *)
(***************************************************************************)
EXTENDS SpliceIo, TLAPS

-----------------------------------------------------------------------------
(***************************************************************************)
(* The inductive invariant.                                                *)
(***************************************************************************)
\* Where the readiness of the source stands when Fill is about to use it.
SourceUsable == src.ready \/ src.closed \/ src.file

\* bytes_read and bytes_written tell what the pipe holds, within its size and
\* within the target length.
PipeCounted ==
  /\ pipe.level = ctx.bytes_read - ctx.bytes_written
  /\ pipe.level <= pipe.size
  /\ ctx.bytes_read <= ctx.size_to_splice

\* Errors are kept in Finished only, and success is what Finished says without.
ErrorsLast ==
  /\ io.error # "None" => io.state = "Finished"
  /\ io.ret = "Ok" => io.state = "Finished" /\ io.error = "None" /\ dst.shut

\* Fill needs the write end of the pipe, Drain the read end; a refused
\* splice_out was given bytes to move.
EndsOpen ==
  /\ io.state = "Fill" => pipe.fill_fd
  /\ io.state # "Finished" => pipe.drain_fd
  /\ io.pc = "clearOut" => ctx.bytes_read > ctx.bytes_written

\* The write end is closed only when the source has no more to give.
SourceEnded ==
  ~pipe.fill_fd =>
    ctx.bytes_read = ctx.size_to_splice \/ (src.eof /\ Readable = 0)

\* Bytes wait in the pipe in Fill only while the source is worth another look.
FillHasSource ==
  /\ io.pc = "spliceIn" => SourceUsable
  /\ io.state = "Fill" /\ io.pc # "clearIn" /\ pipe.level > 0 => SourceUsable

\* What the loop of poll_execute keeps, whether or not it is polled again after
\* it has returned a result.
Loop == ErrorsLast /\ EndsOpen /\ SourceEnded /\ FillHasSource

\* Unless an error was returned, Finished without error is the end of the source
\* and an empty pipe.
CleanFinish ==
  io.state = "Finished" /\ io.error = "None" /\ io.ret \notin Errors =>
    ~pipe.fill_fd /\ pipe.level = 0

\* A poll that goes to sleep in Fill leaves no bytes in the pipe, unless the
\* cooperative budget stopped it; then the task has been woken already.
LeavesNothing ==
  io.pc = "idle" /\ ~Returned /\ io.state = "Fill" =>
    pipe.level = 0 \/ (task.woken /\ task.budget = 0)

\* The executor does not poll a future that has returned.
ReturnsOnce == Returned => io.pc = "idle"

\* What one transfer keeps that is polled by an executor, whatever its
\* descriptors have been through before.
TransferInv ==
  TypeOK /\ PipeCounted /\ Loop /\ CleanFinish /\ LeavesNothing /\ ReturnsOnce

IInv == TransferInv /\ CountersMatchKernel
-----------------------------------------------------------------------------
(***************************************************************************)
(* Type correctness.                                                       *)
(***************************************************************************)
\* Every constructor of SpliceCtx builds a well-typed context.
LEMMA CtxType ==
  ASSUME NEW r \in Request, CtxOf(r).ok
  PROVE  CtxOf(r).val \in Ctxs
<1> USE NoneAssumption, SpliceCtxAssumption DEF Request, Option
<1>1. new_inner \in Ctxs
  BY DEF new_inner, Ctxs, Offsets, NoOffset
<1>2. CASE r.op = "copy"
  BY <1>1, <1>2 DEF CtxOf, Ok, with_target_len, Ctxs
<1>3. ASSUME NEW o \in Offsets, NEW size, size.val \in Nat, WithRange(size, o).ok
      PROVE  WithRange(size, o).val \in Ctxs
  BY <1>1, <1>3 DEF WithRange, Ok, Err, Ctxs
<1>4. LET size == calc_size_to_splice(r.f_len, r.f_offset_start, r.f_offset_end)
      IN  size.val \in Nat
  BY DEF calc_size_to_splice, UnwrapOr, Ok, Err
<1>5. UnwrapOr(r.f_offset_start, 0) \in Nat
  BY DEF UnwrapOr
<1>6. CASE r.op = "sendfile"
  BY <1>3, <1>4, <1>5, <1>6 DEF CtxOf, with_input_file, InOffset, Offsets
<1>7. CASE r.op = "recvfile"
  BY <1>3, <1>4, <1>5, <1>7 DEF CtxOf, with_output_file, OutOffset, Offsets
<1> QED
  BY <1>2, <1>6, <1>7

\* The initial states are well-typed.
LEMMA InitType == Init => TypeOK
<1> SUFFICES ASSUME Init PROVE TypeOK
  OBVIOUS
<1> USE PipeSizesAssumption, AsyncFdAssumption, SpliceIoAssumption
<1>1. req \in Requests /\ ctx \in Ctxs
  BY CtxType DEF Init
<1>2. io \in Ios
  BY DEF Init, NewIo, Ios, Errors
<1>3. pipe \in Pipes
  BY DEF Init, PipeNew, Pipes
<1>4. src \in Sources
  <2>1. \A len \in Nat : FileSource(len) \in Sources
    BY DEF FileSource, Sources
  <2>2. \A ready \in BOOLEAN : SocketSource(ready) \in Sources
    BY DEF SocketSource, Sources
  <2> QED
    BY <2>1, <2>2 DEF Init
<1>5. dst \in Destinations
  <2>1. \A file, ready, flushing \in BOOLEAN :
          Destination(file, ready, flushing) \in Destinations
    BY DEF Destination, Destinations
  <2> QED
    BY <2>1 DEF Init
<1>6. task \in Tasks
  BY DEF Init, NewTask, Tasks
<1> QED
  BY <1>1, <1>2, <1>3, <1>4, <1>5, <1>6 DEF TypeOK

\* The numeric fields, for the arithmetic of the steps.
LEMMA FieldTypes ==
  TypeOK => /\ src.arrived \in Nat /\ src.taken \in Nat
            /\ dst.accepted \in Nat /\ dst.queued \in Nat
            /\ task.budget \in Nat
            /\ pipe.size \in Nat \ {0} /\ pipe.level \in Nat
            /\ ctx.bytes_read \in Nat /\ ctx.bytes_written \in Nat
            /\ ctx.size_to_splice \in Nat
            /\ ctx.offset \in Offsets /\ ctx.offset.pos \in Nat
BY DEF TypeOK, Sources, Destinations, Tasks, Pipes, Ctxs, Offsets

\* An offset moves forward only.
LEMMA AdvanceType ==
  ASSUME NEW o \in Offsets, NEW n \in Nat, NEW kind
  PROVE  Advance(o, kind, n) \in Offsets
<1>1. \A m \in Nat : [o EXCEPT !.pos = m] \in Offsets
  BY DEF Offsets
<1>2. o.pos + n \in Nat
  BY DEF Offsets
<1> QED
  BY <1>1, <1>2 DEF Advance

\* Every step of the task keeps the types.
LEMMA PollType == TypeOK /\ (BeginPoll \/ PollStep) => TypeOK'
<1> SUFFICES ASSUME TypeOK, BeginPoll \/ PollStep PROVE TypeOK'
  OBVIOUS
<1> USE AsyncFdAssumption DEF TypeOK
<1>g. ASSUME NEW pc \in {"idle", "loop", "spliceIn", "clearIn", "spliceOut", "clearOut"},
             NEW st \in {"Fill", "Drain", "Finished"}, Goto(pc, st)
      PROVE  io' \in Ios
  BY <1>g DEF Goto, Ios
<1>r. ASSUME NEW ret \in Errors \cup {"Pending"}, Return(ret)
      PROVE  io' \in Ios
  BY <1>r DEF Return, Ios
<1>f. ASSUME NEW e \in Errors, Faulted(e)
      PROVE  io' \in Ios
  BY <1>f DEF Faulted, Ios
<1>1. CASE BeginPoll
  BY <1>1 DEF BeginPoll, Ios, Tasks
<1>2. CASE FillPoll
  <2>1. io' \in Ios
    BY <1>2, <1>g, <1>r DEF FillPoll, Errors
  <2>2. src' \in Sources
    BY <1>2 DEF FillPoll, ReadReady, ReadPending, ReadYield, ReadGone, Sources
  <2>3. task' \in Tasks
    <3>1. task.budget > 0 => task.budget - 1 \in Nat
      BY FieldTypes
    <3> QED
      BY <1>2, <3>1 DEF FillPoll, ReadReady, ReadPending, ReadYield, ReadGone, Tasks
  <2> QED
    BY <1>2, <2>1, <2>2, <2>3 DEF FillPoll
<1>3. CASE FillSplice
  <2>1. io' \in Ios
    BY <1>3, <1>g, <1>f DEF FillSplice, Errors
  <2>2. CASE SourceMoved
    <3>1. PICK n \in 1 .. pipe.size :
            /\ splice_in_moves(n, ToRead)
            /\ ctx' = [ctx EXCEPT !.bytes_read = @ + n,
                                  !.offset = Advance(@, "In", n)]
      BY <2>2 DEF SourceMoved
    <3>2. n \in Nat /\ pipe.level + n \in Nat /\ src.taken + n \in Nat
            /\ ctx.bytes_read + n \in Nat
      BY FieldTypes
    <3>3. Advance(ctx.offset, "In", n) \in Offsets
      BY <3>2, FieldTypes, AdvanceType
    <3>4. ctx' \in Ctxs
      BY <3>1, <3>2, <3>3 DEF Ctxs
    <3>5. pipe' \in Pipes /\ src' \in Sources
      BY <3>1, <3>2 DEF splice_in_moves, Pipes, Sources
    <3> QED
      BY <1>3, <2>1, <3>4, <3>5 DEF FillSplice
  <2>3. CASE ~SourceMoved
    BY <1>3, <2>1, <2>3 DEF FillSplice, SourceTargetReached, SourceEof,
         SourceWouldBlock, SourceFault, set_fill_done, Pipes
  <2> QED
    BY <2>2, <2>3
<1>4. CASE FillClear
  BY <1>4, <1>g DEF FillClear, AfterWouldBlock, ClearReadReady, Sources
<1>5. CASE DrainPoll
  <2>1. io' \in Ios
    BY <1>5, <1>g, <1>r DEF DrainPoll, Errors
  <2>2. dst' \in Destinations
    BY <1>5 DEF DrainPoll, WriteReady, WritePending, WriteYield, WriteGone, Destinations
  <2>3. task' \in Tasks
    <3>1. task.budget > 0 => task.budget - 1 \in Nat
      BY FieldTypes
    <3> QED
      BY <1>5, <3>1 DEF DrainPoll, WriteReady, WritePending, WriteYield, WriteGone, Tasks
  <2> QED
    BY <1>5, <2>1, <2>2, <2>3 DEF DrainPoll
<1>6. CASE DrainSplice
  <2>1. io' \in Ios
    BY <1>6, <1>g, <1>f DEF DrainSplice, Errors
  <2>2. CASE DestMoved
    <3>1. PICK n \in 1 .. pipe.size :
            /\ splice_out_moves(n, ToWrite)
            /\ ctx' = [ctx EXCEPT !.bytes_written = @ + n,
                                  !.offset = Advance(@, "Out", n)]
      BY <2>2 DEF DestMoved
    <3>2. n \in Nat /\ pipe.level - n \in Nat /\ dst.accepted + n \in Nat
            /\ dst.queued + n \in Nat /\ ctx.bytes_written + n \in Nat
      BY <3>1, FieldTypes DEF splice_out_moves
    <3>3. Advance(ctx.offset, "Out", n) \in Offsets
      BY <3>2, FieldTypes, AdvanceType
    <3>4. ctx' \in Ctxs
      BY <3>1, <3>2, <3>3 DEF Ctxs
    <3>5. pipe' \in Pipes /\ dst' \in Destinations
      BY <3>1, <3>2 DEF splice_out_moves, Pipes, Destinations
    <3> QED
      BY <1>6, <2>1, <3>4, <3>5 DEF DrainSplice
  <2>3. CASE ~DestMoved
    BY <1>6, <2>1, <2>3 DEF DrainSplice, DestDrained, DestNoProgress,
         DestWouldBlock, DestFault, set_drain_done, Pipes
  <2> QED
    BY <2>2, <2>3
<1>7. CASE DrainClear
  BY <1>7, <1>g DEF DrainClear, AfterWouldBlock, ClearWriteReady, Destinations
<1>8. CASE Finish
  <2>1. io' \in Ios
    BY <1>8, <1>r DEF Finish, TakeError, Ios, Errors
  <2>2. dst' \in Destinations
    BY <1>8 DEF Finish, ShutdownOk, ShutdownPending, ShutdownFault, Destinations
  <2> QED
    BY <1>8, <2>1, <2>2 DEF Finish
<1> QED
  BY <1>1, <1>2, <1>3, <1>4, <1>5, <1>6, <1>7, <1>8 DEF PollStep

\* Every step of the peers, the kernel and the reactor keeps the types.
LEMMA EnvironmentType == TypeOK /\ Environment => TypeOK'
<1> SUFFICES ASSUME TypeOK, Environment
             PROVE  src' \in Sources /\ dst' \in Destinations /\ task' \in Tasks
  BY DEF TypeOK, Environment
<1> USE DEF TypeOK
<1>1. CASE PeerSends
  <2>1. src.arrived + 1 \in Nat
    BY FieldTypes
  <2> QED
    BY <1>1, <2>1 DEF PeerSends, Sources
<1>2. CASE PeerCloses
  BY <1>2 DEF PeerCloses, Sources
<1>3. CASE PeerReads
  <2>1. dst.queued - 1 \in Nat
    BY <1>3, FieldTypes DEF PeerReads
  <2> QED
    BY <1>3, <2>1 DEF PeerReads, Destinations
<1>4. CASE FlushCompletes
  BY <1>4 DEF FlushCompletes, Destinations, Tasks
<1>5. CASE SourceFails
  BY <1>5 DEF SourceFails, Sources
<1>6. CASE DestinationFails
  BY <1>6 DEF DestinationFails, Destinations
<1>7. CASE ReportReadable
  BY <1>7 DEF ReportReadable, Sources, Tasks
<1>8. CASE ReportWritable
  BY <1>8 DEF ReportWritable, Destinations, Tasks
<1>9. CASE RuntimeShutsDown
  BY <1>9 DEF RuntimeShutsDown, Tasks
<1> QED
  BY <1>1, <1>2, <1>3, <1>4, <1>5, <1>6, <1>7, <1>8, <1>9 DEF Environment

\* Every step keeps the types.
LEMMA TypeStep == TypeOK /\ [Next]_vars => TypeOK'
<1> SUFFICES ASSUME TypeOK, [Next]_vars PROVE TypeOK'
  OBVIOUS
<1>1. CASE Next
  BY <1>1, PollType, EnvironmentType DEF Next
<1>2. CASE UNCHANGED vars
  BY <1>2 DEF TypeOK, vars
<1> QED
  BY <1>1, <1>2

\* A transfer's state stays well-typed (the Rust types of SpliceIo, SpliceCtx
\* and Pipe, and the shape of what is modelled around them).
THEOREM TypeCorrect == Spec => []TypeOK
BY InitType, TypeStep, PTL DEF Spec

-----------------------------------------------------------------------------
(***************************************************************************)
(* The counters of SpliceCtx against the kernel.                           *)
(***************************************************************************)
\* The counters and what they count: only a splice that moves bytes changes
\* them.
Counted == <<ctx, src.taken, dst.accepted, pipe.level, pipe.size>>

\* What the peers, the kernel and the reactor leave alone or only add to.
LEMMA EnvironmentKeeps ==
  ASSUME TypeOK, Environment
  PROVE  /\ UNCHANGED <<io, req, ctx, pipe>>
         /\ src'.file = src.file /\ src'.taken = src.taken
         /\ dst'.accepted = dst.accepted
         /\ src.eof => src'.eof /\ src'.arrived = src.arrived
         /\ SourceUsable => SourceUsable'
         /\ dst.shut => dst'.shut
         /\ task.woken => task'.woken
         /\ task'.budget = task.budget
<1>1. UNCHANGED <<io, req, ctx, pipe>>
  BY DEF Environment
<1> USE DEF TypeOK, SourceUsable
<1>2. CASE PeerSends \/ PeerCloses \/ SourceFails
  BY <1>1, <1>2 DEF PeerSends, PeerCloses, SourceFails, Sources
<1>3. CASE PeerReads \/ DestinationFails
  BY <1>1, <1>3 DEF PeerReads, DestinationFails, Destinations
<1>4. CASE FlushCompletes
  BY <1>1, <1>4 DEF FlushCompletes, Destinations, Tasks
<1>5. CASE ReportReadable
  <2>1. dst' = dst /\ (task.woken => task'.woken) /\ task'.budget = task.budget
    BY <1>5 DEF ReportReadable, Tasks
  <2>2. /\ src'.file = src.file /\ src'.taken = src.taken
        /\ src'.eof = src.eof /\ src'.arrived = src.arrived
    BY <1>5 DEF ReportReadable, Sources
  <2>3. SourceUsable => SourceUsable'
    BY <1>5 DEF ReportReadable, Sources
  <2> QED
    BY <1>1, <2>1, <2>2, <2>3
<1>6. CASE ReportWritable
  <2>1. src' = src /\ (task.woken => task'.woken) /\ task'.budget = task.budget
    BY <1>6 DEF ReportWritable, Tasks
  <2>2. dst'.accepted = dst.accepted /\ dst'.shut = dst.shut
    BY <1>6 DEF ReportWritable, Destinations
  <2> QED
    BY <1>1, <2>1, <2>2
<1>7. CASE RuntimeShutsDown
  BY <1>1, <1>7 DEF RuntimeShutsDown, Tasks
<1> QED
  BY <1>2, <1>3, <1>4, <1>5, <1>6, <1>7 DEF Environment

\* Of all steps, only a splice attempt that moved bytes touches the counters.
LEMMA OnlySplicesCount ==
  ASSUME TypeOK, [Next]_vars
  PROVE  \/ FillSplice /\ SourceMoved
         \/ DrainSplice /\ DestMoved
         \/ UNCHANGED Counted
<1> USE DEF TypeOK, Counted
<1>1. CASE BeginPoll
  BY <1>1 DEF BeginPoll
<1>2. CASE FillPoll
  BY <1>2 DEF FillPoll, ReadReady, ReadPending, ReadYield, ReadGone, Sources
<1>3. CASE FillSplice
  BY <1>3 DEF FillSplice, SourceTargetReached, SourceEof, SourceWouldBlock,
              SourceFault, set_fill_done, Pipes
<1>4. CASE FillClear
  BY <1>4 DEF FillClear, ClearReadReady, Sources
<1>5. CASE DrainPoll
  BY <1>5 DEF DrainPoll, WriteReady, WritePending, WriteYield, WriteGone, Destinations
<1>6. CASE DrainSplice
  BY <1>6 DEF DrainSplice, DestDrained, DestNoProgress, DestWouldBlock,
              DestFault, set_drain_done, Pipes
<1>7. CASE DrainClear
  BY <1>7 DEF DrainClear, ClearWriteReady, Destinations
<1>8. CASE Finish
  BY <1>8 DEF Finish, ShutdownOk, ShutdownPending, ShutdownFault, Destinations
<1>9. CASE Environment
  BY <1>9, EnvironmentKeeps
<1>10. CASE UNCHANGED vars
  BY <1>10 DEF vars
<1> QED
  BY <1>1, <1>2, <1>3, <1>4, <1>5, <1>6, <1>7, <1>8, <1>9, <1>10 DEF Next, PollStep

\* Every step that moves bytes counts them, and keeps the counters within the
\* pipe and the target.
LEMMA CountersFollow ==
  ASSUME TypeOK, PipeCounted, [Next]_vars
  PROVE  /\ PipeCounted'
         /\ ctx'.bytes_read - src'.taken = ctx.bytes_read - src.taken
         /\ ctx'.bytes_written - dst'.accepted = ctx.bytes_written - dst.accepted
<1> USE FieldTypes
<1>1. CASE FillSplice /\ SourceMoved
  <2>1. PICK n \in 1 .. pipe.size :
          /\ splice_in_moves(n, ToRead)
          /\ ctx' = [ctx EXCEPT !.bytes_read = @ + n, !.offset = Advance(@, "In", n)]
    BY <1>1 DEF SourceMoved
  <2>2. n \in Nat /\ n <= ctx.size_to_splice - ctx.bytes_read /\ n <= pipe.size - pipe.level
    BY <2>1 DEF splice_in_moves, ToRead, USub, PipeCounted
  <2>3. /\ ctx'.bytes_read = ctx.bytes_read + n
        /\ ctx'.bytes_written = ctx.bytes_written
        /\ ctx'.size_to_splice = ctx.size_to_splice
    BY <2>1 DEF TypeOK, Ctxs
  <2>4. pipe'.level = pipe.level + n /\ pipe'.size = pipe.size
    BY <2>1 DEF splice_in_moves, TypeOK, Pipes
  <2>5. src'.taken = src.taken + n /\ dst' = dst
    BY <1>1, <2>1 DEF FillSplice, splice_in_moves, TypeOK, Sources
  <2> QED
    BY <2>2, <2>3, <2>4, <2>5 DEF PipeCounted
<1>2. CASE DrainSplice /\ DestMoved
  <2>1. PICK n \in 1 .. pipe.size :
          /\ splice_out_moves(n, ToWrite)
          /\ ctx' = [ctx EXCEPT !.bytes_written = @ + n, !.offset = Advance(@, "Out", n)]
    BY <1>2 DEF DestMoved
  <2>2. n \in Nat /\ n <= pipe.level
    BY <2>1 DEF splice_out_moves
  <2>3. /\ ctx'.bytes_written = ctx.bytes_written + n
        /\ ctx'.bytes_read = ctx.bytes_read
        /\ ctx'.size_to_splice = ctx.size_to_splice
    BY <2>1 DEF TypeOK, Ctxs
  <2>4. pipe'.level = pipe.level - n /\ pipe'.size = pipe.size
    BY <2>1 DEF splice_out_moves, TypeOK, Pipes
  <2>5. dst'.accepted = dst.accepted + n /\ src' = src
    BY <1>2, <2>1 DEF DrainSplice, splice_out_moves, TypeOK, Destinations
  <2> QED
    BY <2>2, <2>3, <2>4, <2>5 DEF PipeCounted
<1>3. CASE UNCHANGED Counted
  BY <1>3 DEF Counted, PipeCounted
<1> QED
  BY <1>1, <1>2, <1>3, OnlySplicesCount

\* Every step keeps the counters and the kernel in agreement.
LEMMA CountersStep ==
  ASSUME TypeOK, CountersMatchKernel, [Next]_vars
  PROVE  CountersMatchKernel'
<1>1. PipeCounted
  BY DEF CountersMatchKernel, PipeCounted
<1>2. /\ ctx'.bytes_read \in Nat /\ ctx'.bytes_written \in Nat
      /\ src'.taken \in Nat /\ dst'.accepted \in Nat
  BY TypeStep DEF TypeOK, Ctxs, Sources, Destinations
<1>3. /\ PipeCounted'
      /\ ctx'.bytes_read - src'.taken = ctx.bytes_read - src.taken
      /\ ctx'.bytes_written - dst'.accepted = ctx.bytes_written - dst.accepted
  BY <1>1, CountersFollow
<1>4. ctx'.bytes_read = src'.taken /\ ctx'.bytes_written = dst'.accepted
  BY <1>2, <1>3, FieldTypes DEF CountersMatchKernel
<1> QED
  BY <1>3, <1>4 DEF CountersMatchKernel, PipeCounted

\* A new context has counted nothing.
LEMMA CtxCounters ==
  ASSUME NEW r \in Request, CtxOf(r).ok
  PROVE  CtxOf(r).val.bytes_read = 0 /\ CtxOf(r).val.bytes_written = 0
<1>1. \A size, o : WithRange(size, o).ok =>
        WithRange(size, o).val.bytes_read = 0 /\ WithRange(size, o).val.bytes_written = 0
  BY DEF WithRange, Ok, Err, new_inner
<1>2. \A len : with_target_len(new_inner, len).bytes_read = 0
               /\ with_target_len(new_inner, len).bytes_written = 0
  BY DEF with_target_len, new_inner
<1>3. CASE r.op = "copy"
  BY <1>2, <1>3 DEF CtxOf, Ok, new_inner
<1>4. CASE r.op = "sendfile"
  BY <1>1, <1>4 DEF CtxOf, with_input_file
<1>5. CASE r.op = "recvfile"
  BY <1>1, <1>5 DEF CtxOf, with_output_file
<1> QED
  BY <1>3, <1>4, <1>5 DEF Request

\* Nothing has been counted, or moved, before the first poll.
LEMMA InitCounters == Init => CountersMatchKernel
<1> SUFFICES ASSUME Init PROVE CountersMatchKernel
  OBVIOUS
<1>1. ctx.bytes_read = 0 /\ ctx.bytes_written = 0
  <2>1. req \in Request /\ CtxOf(req).ok /\ ctx = CtxOf(req).val
    BY SpliceIoAssumption DEF Init
  <2> QED
    BY <2>1, CtxCounters
<1>2. pipe.level = 0
  BY DEF Init, PipeNew
<1>3. src.taken = 0 /\ dst.accepted = 0
  BY DEF Init, FileSource, SocketSource, Destination
<1> QED
  BY <1>1, <1>2, <1>3, InitType, FieldTypes DEF CountersMatchKernel

\* bytes_read and bytes_written are what the kernel moved, their difference is
\* what the pipe holds, and they stay within the target length: the two usize
\* subtractions of try_splice_from_source and try_splice_to_dest never wrap.
THEOREM CountersCorrect == Spec => []CountersMatchKernel
<1>1. TypeOK /\ CountersMatchKernel /\ [Next]_vars => CountersMatchKernel'
  BY CountersStep
<1> QED
  BY <1>1, InitCounters, TypeCorrect, PTL DEF Spec

-----------------------------------------------------------------------------
(***************************************************************************)
(* The control of poll_execute.                                            *)
(***************************************************************************)
\* What a transition of poll_execute's loop leaves of the SpliceIo.
LEMMA GotoIo ==
  ASSUME TypeOK, NEW pc, NEW st, Goto(pc, st)
  PROVE  io'.pc = pc /\ io'.state = st /\ io'.error = io.error /\ io'.ret = io.ret
BY DEF Goto, TypeOK, Ios

\* What a return from poll_execute leaves of it.
LEMMA ReturnIo ==
  ASSUME TypeOK, NEW r, Return(r)
  PROVE  io'.pc = "idle" /\ io'.state = io.state /\ io'.error = io.error /\ io'.ret = r
BY DEF Return, TypeOK, Ios

\* What TransferState::faulted leaves of it.
LEMMA FaultedIo ==
  ASSUME TypeOK, NEW e, Faulted(e)
  PROVE  io'.pc = "loop" /\ io'.state = "Finished" /\ io'.error = e /\ io'.ret = io.ret
BY DEF Faulted, TypeOK, Ios

\* Without an offset of its own, the source is read where it stands.
LEMMA ReadableKept ==
  ASSUME src'.arrived = src.arrived, src'.taken = src.taken,
         \/ ctx'.offset = ctx.offset
         \/ off_in(ctx.offset) = None /\ off_in(ctx'.offset) = None
  PROVE  Readable' = Readable
BY DEF Readable

\* What a step of poll_execute keeps; a clean finish only if the poll before did
\* not return an error.
LoopKept ==
  /\ Loop' /\ LeavesNothing'
  /\ CleanFinish /\ io.ret \notin Errors => CleanFinish'

\* Waiting for the source: a sleep in Fill finds the pipe empty.
LEMMA FillPollControl ==
  ASSUME TypeOK, Loop, FillPoll
  PROVE  LoopKept
<1> USE DEF TypeOK, Loop
<1>1. /\ io.pc = "loop" /\ io.state = "Fill" /\ io.error = "None" /\ io.ret # "Ok"
      /\ pipe.fill_fd /\ pipe.drain_fd
      /\ UNCHANGED <<ctx, pipe, dst>>
  BY DEF FillPoll, At, ErrorsLast, EndsOpen
<1>2. /\ io'.state = "Fill" /\ io'.error = "None" /\ io'.ret # "Ok"
      /\ io'.pc = "idle" \/ (io'.pc = "spliceIn" /\ io'.ret = io.ret)
  BY <1>1, GotoIo, ReturnIo DEF FillPoll
<1>3. ErrorsLast' /\ EndsOpen' /\ SourceEnded' /\ CleanFinish'
  BY <1>1, <1>2 DEF ErrorsLast, EndsOpen, SourceEnded, CleanFinish
<1> SUFFICES FillHasSource' /\ LeavesNothing'
  BY <1>3 DEF LoopKept
<1>4. SourceUsable' <=> SourceUsable
  BY DEF FillPoll, ReadReady, ReadPending, ReadYield, ReadGone, SourceUsable, Sources
<1>5. CASE ReadReady /\ Goto("spliceIn", "Fill")
  BY <1>1, <1>2, <1>4, <1>5, GotoIo
     DEF ReadReady, SourceUsable, FillHasSource, LeavesNothing
<1>6. CASE ReadPending
  <2>1. pipe.level = 0
    BY <1>1, <1>6, FieldTypes DEF ReadPending, FillHasSource, SourceUsable
  <2>2. io'.pc = "idle" \/ ReadReady
    BY ReturnIo DEF FillPoll
  <2> QED
    BY <1>1, <1>2, <1>6, <2>1, <2>2
       DEF FillHasSource, LeavesNothing, ReadReady, ReadPending
<1>7. CASE ReadYield /\ Return("Pending")
  BY <1>1, <1>2, <1>4, <1>7, ReturnIo
     DEF ReadYield, FillHasSource, LeavesNothing, Tasks
<1>8. CASE ReadGone /\ Return("Gone")
  BY <1>1, <1>2, <1>4, <1>8, ReturnIo
     DEF FillHasSource, LeavesNothing, Returned
<1> QED
  BY <1>5, <1>6, <1>7, <1>8 DEF FillPoll

\* The attempt to fill: the write end is closed only at the end of the source.
LEMMA FillSpliceControl ==
  ASSUME TypeOK, PipeCounted, Loop, FillSplice, PipeCounted'
  PROVE  LoopKept
<1> USE DEF TypeOK, Loop
<1>1. /\ io.pc = "spliceIn" /\ io.state = "Fill" /\ io.error = "None" /\ io.ret # "Ok"
      /\ pipe.fill_fd /\ pipe.drain_fd /\ SourceUsable
      /\ dst' = dst
  BY DEF FillSplice, At, ErrorsLast, EndsOpen, FillHasSource
<1>2. CASE SourceTargetReached /\ Goto("loop", "Drain")
  BY <1>1, <1>2, GotoIo, FieldTypes
     DEF SourceTargetReached, set_fill_done, Pipes, ToRead, USub, PipeCounted,
         LoopKept, ErrorsLast, EndsOpen, SourceEnded, FillHasSource, LeavesNothing,
         CleanFinish
<1>3. CASE SourceEof /\ Goto("loop", "Drain")
  <2>1. src'.eof /\ Readable' = 0
    BY <1>3 DEF SourceEof, splice_in_eof, Readable
  <2> QED
    BY <1>1, <1>3, <2>1, GotoIo
       DEF SourceEof, set_fill_done, Pipes,
           LoopKept, ErrorsLast, EndsOpen, SourceEnded, FillHasSource, LeavesNothing,
           CleanFinish
<1>4. CASE SourceMoved /\ Goto("loop", "Fill")
  <2>1. pipe'.fill_fd /\ pipe'.drain_fd
    BY <1>1, <1>4 DEF SourceMoved, splice_in_moves, Pipes
  <2>2. SourceUsable'
    BY <1>1, <1>4 DEF SourceMoved, splice_in_moves, SourceUsable, Sources
  <2> QED
    BY <1>1, <1>4, <2>1, <2>2, GotoIo
       DEF LoopKept, ErrorsLast, EndsOpen, SourceEnded, FillHasSource, LeavesNothing,
           CleanFinish
<1>5. CASE SourceWouldBlock /\ Goto("clearIn", "Fill")
  BY <1>1, <1>5, GotoIo
     DEF SourceWouldBlock, LoopKept, ErrorsLast, EndsOpen, SourceEnded, FillHasSource,
         LeavesNothing, CleanFinish
<1>6. CASE SourceFault /\ Faulted("Source")
  BY <1>1, <1>6, FaultedIo
     DEF SourceFault, LoopKept, ErrorsLast, EndsOpen, SourceEnded, FillHasSource,
         LeavesNothing, CleanFinish
<1> QED
  BY <1>2, <1>3, <1>4, <1>5, <1>6 DEF FillSplice

\* EAGAIN in Fill: back to Fill only with an empty pipe.
LEMMA FillClearControl ==
  ASSUME TypeOK, PipeCounted, Loop, FillClear
  PROVE  LoopKept
<1> USE DEF TypeOK, Loop
<1>1. /\ io.pc = "clearIn" /\ io.state = "Fill" /\ io.error = "None" /\ io.ret # "Ok"
      /\ pipe.fill_fd /\ pipe.drain_fd
      /\ UNCHANGED <<ctx, pipe, dst>>
  BY DEF FillClear, At, ErrorsLast, EndsOpen
<1>2. /\ io'.pc = "loop" /\ io'.state = AfterWouldBlock
      /\ io'.error = io.error /\ io'.ret = io.ret
  BY GotoIo DEF FillClear
<1>3. io'.state = "Fill" => pipe'.level = 0
  BY <1>1, <1>2, FieldTypes DEF AfterWouldBlock, pipe_has_data, PipeCounted
<1>4. io'.state \in {"Fill", "Drain"}
  BY <1>2 DEF AfterWouldBlock
<1> QED
  BY <1>1, <1>2, <1>3, <1>4
     DEF LoopKept, ErrorsLast, EndsOpen, SourceEnded, FillHasSource, LeavesNothing,
         CleanFinish

\* Waiting for the destination.
LEMMA DrainPollControl ==
  ASSUME TypeOK, Loop, DrainPoll
  PROVE  LoopKept
<1> USE DEF TypeOK, Loop
<1>1. /\ io.pc = "loop" /\ io.state = "Drain" /\ io.error = "None" /\ io.ret # "Ok"
      /\ pipe.drain_fd
      /\ UNCHANGED <<ctx, pipe, src>>
  BY DEF DrainPoll, At, ErrorsLast, EndsOpen
<1>2. /\ io'.state = "Drain" /\ io'.error = "None" /\ io'.ret # "Ok"
      /\ io'.pc = "idle" \/ (io'.pc = "spliceOut" /\ io'.ret = io.ret)
  BY <1>1, GotoIo, ReturnIo DEF DrainPoll
<1>3. Readable' = Readable
  BY <1>1, ReadableKept
<1> QED
  BY <1>1, <1>2, <1>3
     DEF LoopKept, ErrorsLast, EndsOpen, SourceEnded, FillHasSource, LeavesNothing,
         CleanFinish

\* The attempt to drain: back to Fill only while the write end is open.
LEMMA DrainSpliceControl ==
  ASSUME TypeOK, PipeCounted, Loop, DrainSplice
  PROVE  LoopKept
<1> USE DEF TypeOK, Loop
<1>1. /\ io.pc = "spliceOut" /\ io.state = "Drain" /\ io.error = "None" /\ io.ret # "Ok"
      /\ pipe.drain_fd
      /\ src' = src
  BY DEF DrainSplice, At, ErrorsLast, EndsOpen
<1>2. ctx.bytes_read >= ctx.bytes_written /\ ToWrite = pipe.level
  BY FieldTypes DEF ToWrite, USub, PipeCounted
<1>3. CASE DestDrained /\ Goto("loop", "Finished")
  <2>1. /\ ctx' = ctx /\ ~pipe.fill_fd /\ ~pipe'.fill_fd /\ pipe.level = 0 /\ pipe'.level = 0
    BY <1>2, <1>3 DEF DestDrained, set_drain_done, is_fill_done, Pipes
  <2>2. Readable' = Readable
    BY <1>1, <2>1, ReadableKept
  <2> QED
    BY <1>1, <1>3, <2>1, <2>2, GotoIo
       DEF LoopKept, ErrorsLast, EndsOpen, SourceEnded, FillHasSource, LeavesNothing,
           CleanFinish
<1>4. CASE DestNoProgress /\ Goto("loop", "Fill")
  <2>1. ctx' = ctx /\ pipe' = pipe /\ pipe.fill_fd /\ pipe.level = 0
    BY <1>2, <1>4 DEF DestNoProgress, splice_out_zero, is_fill_done
  <2> QED
    BY <1>1, <1>4, <2>1, GotoIo
       DEF LoopKept, ErrorsLast, EndsOpen, SourceEnded, FillHasSource, LeavesNothing,
           CleanFinish
<1>5. CASE DestMoved /\ Goto("loop", "Drain")
  <2>1. PICK n \in 1 .. pipe.size :
          /\ splice_out_moves(n, ToWrite)
          /\ ctx' = [ctx EXCEPT !.bytes_written = @ + n, !.offset = Advance(@, "Out", n)]
    BY <1>5 DEF DestMoved
  <2>2. pipe'.fill_fd = pipe.fill_fd /\ pipe'.drain_fd = pipe.drain_fd
    BY <2>1 DEF splice_out_moves, Pipes
  <2>3. /\ ctx'.bytes_read = ctx.bytes_read /\ ctx'.size_to_splice = ctx.size_to_splice
        /\ ctx'.offset = Advance(ctx.offset, "Out", n)
    BY <2>1 DEF Ctxs
  <2>4. Readable' = Readable
    <3>1. CASE ctx.offset.kind = "Out"
      <4>1. ctx'.offset.kind = "Out"
        BY <2>3, <3>1, FieldTypes DEF Advance, Offsets
      <4> QED
        BY <1>1, <3>1, <4>1, ReadableKept DEF off_in
    <3>2. CASE ctx.offset.kind # "Out"
      BY <1>1, <2>3, <3>2, ReadableKept DEF Advance
    <3> QED
      BY <3>1, <3>2
  <2> QED
    BY <1>1, <1>5, <2>2, <2>3, <2>4, GotoIo
       DEF LoopKept, ErrorsLast, EndsOpen, SourceEnded, FillHasSource, LeavesNothing,
           CleanFinish
<1>6. CASE DestWouldBlock /\ Goto("clearOut", "Drain")
  <2>1. ctx' = ctx /\ pipe' = pipe /\ ctx.bytes_read > ctx.bytes_written
    BY <1>2, <1>6, FieldTypes DEF DestWouldBlock, PipeCounted
  <2>2. Readable' = Readable
    BY <1>1, <2>1, ReadableKept
  <2> QED
    BY <1>1, <1>6, <2>1, <2>2, GotoIo
       DEF LoopKept, ErrorsLast, EndsOpen, SourceEnded, FillHasSource, LeavesNothing,
           CleanFinish
<1>7. CASE DestFault /\ Faulted("Dest")
  <2>1. ctx' = ctx /\ pipe' = pipe
    BY <1>7 DEF DestFault
  <2>2. Readable' = Readable
    BY <1>1, <2>1, ReadableKept
  <2> QED
    BY <1>1, <1>7, <2>1, <2>2, FaultedIo
       DEF LoopKept, ErrorsLast, EndsOpen, SourceEnded, FillHasSource, LeavesNothing,
           CleanFinish
<1> QED
  BY <1>3, <1>4, <1>5, <1>6, <1>7 DEF DrainSplice

\* EAGAIN in Drain: there were bytes to move, so it stays in Drain.
LEMMA DrainClearControl ==
  ASSUME TypeOK, Loop, DrainClear
  PROVE  LoopKept
<1> USE DEF TypeOK, Loop
<1>1. /\ io.pc = "clearOut" /\ io.state = "Drain" /\ io.error = "None" /\ io.ret # "Ok"
      /\ pipe.drain_fd /\ pipe_has_data
      /\ UNCHANGED <<ctx, pipe, src>>
  BY DEF DrainClear, At, ErrorsLast, EndsOpen, pipe_has_data
<1>2. io'.pc = "loop" /\ io'.state = "Drain" /\ io'.error = io.error /\ io'.ret = io.ret
  BY <1>1, GotoIo DEF DrainClear, AfterWouldBlock
<1>3. Readable' = Readable
  BY <1>1, ReadableKept
<1> QED
  BY <1>1, <1>2, <1>3
     DEF LoopKept, ErrorsLast, EndsOpen, SourceEnded, FillHasSource, LeavesNothing,
         CleanFinish

\* The end: success only without a pending error.
LEMMA FinishControl ==
  ASSUME TypeOK, Loop, Finish
  PROVE  LoopKept
<1> USE DEF TypeOK, Loop
<1>1. /\ io.pc = "loop" /\ io.state = "Finished"
      /\ UNCHANGED <<ctx, pipe, src>>
  BY DEF Finish, At
<1>2. Readable' = Readable
  BY <1>1, ReadableKept
<1>3. CASE ShutdownOk /\ TakeError
  <2>1. /\ io'.pc = "idle" /\ io'.state = "Finished" /\ io'.error = "None"
        /\ io'.ret = IF io.error = "None" THEN "Ok" ELSE io.error
    BY <1>1, <1>3 DEF TakeError, Ios
  <2>2. dst'.shut
    BY <1>3 DEF ShutdownOk, Destinations
  <2>3. io.error \in Errors \cup {"None"} /\ "Ok" \notin Errors
    BY DEF Ios, Errors
  <2> QED
    BY <1>1, <1>2, <2>1, <2>2, <2>3
       DEF LoopKept, ErrorsLast, EndsOpen, SourceEnded, FillHasSource, LeavesNothing,
           CleanFinish
<1>4. CASE ShutdownPending /\ Return("Pending")
  BY <1>1, <1>2, <1>4, ReturnIo
     DEF LoopKept, ErrorsLast, EndsOpen, SourceEnded, FillHasSource, LeavesNothing,
         CleanFinish
<1>5. CASE ShutdownFault /\ Return("Shutdown")
  BY <1>1, <1>2, <1>5, ReturnIo
     DEF LoopKept, ErrorsLast, EndsOpen, SourceEnded, FillHasSource, LeavesNothing,
         CleanFinish
<1> QED
  BY <1>3, <1>4, <1>5 DEF Finish

\* One step of the loop of poll_execute, also of one that had returned before.
LEMMA PollControl ==
  ASSUME TypeOK, PipeCounted, Loop, PollStep, PipeCounted'
  PROVE  LoopKept
BY FillPollControl, FillSpliceControl, FillClearControl, DrainPollControl,
   DrainSpliceControl, DrainClearControl, FinishControl DEF PollStep

\* A poll begins: it changes no part of the transfer.
LEMMA BeginPollControl ==
  ASSUME TypeOK, Loop, io.pc = "idle", io' = [io EXCEPT !.pc = "loop"],
         UNCHANGED <<ctx, pipe, src, dst>>
  PROVE  Loop' /\ LeavesNothing' /\ (CleanFinish => CleanFinish')
<1> USE DEF TypeOK, Loop
<1>1. io'.pc = "loop" /\ io'.state = io.state /\ io'.error = io.error /\ io'.ret = io.ret
  BY DEF Ios
<1>2. Readable' = Readable /\ SourceUsable' = SourceUsable
  BY ReadableKept DEF SourceUsable
<1> QED
  BY <1>1, <1>2
     DEF ErrorsLast, EndsOpen, SourceEnded, FillHasSource, LeavesNothing, CleanFinish

\* Nor do the peers, the kernel and the reactor.
LEMMA EnvironmentControl ==
  ASSUME TypeOK, Loop, Environment
  PROVE  /\ Loop'
         /\ LeavesNothing => LeavesNothing'
         /\ CleanFinish => CleanFinish'
<1>1. src.eof => src'.eof /\ Readable' = Readable
  BY EnvironmentKeeps, ReadableKept
<1> QED
  BY <1>1, EnvironmentKeeps
     DEF Loop, ErrorsLast, EndsOpen, SourceEnded, FillHasSource, LeavesNothing,
         CleanFinish, Returned

\* A fresh SpliceIo on a fresh pipe.
LEMMA NewControl ==
  ASSUME io = NewIo, NEW size, pipe = PipeNew(size)
  PROVE  Loop /\ CleanFinish /\ LeavesNothing /\ ReturnsOnce
<1>1. io.state = "Fill" /\ io.error = "None" /\ io.pc = "idle" /\ io.ret = "Unpolled"
  BY DEF NewIo
<1>2. pipe.fill_fd /\ pipe.drain_fd /\ pipe.level = 0
  BY DEF PipeNew
<1> QED
  BY <1>1, <1>2
     DEF Loop, ErrorsLast, EndsOpen, SourceEnded, FillHasSource, LeavesNothing,
         CleanFinish, ReturnsOnce, Returned

\* Only the end of a poll has a result to return.
LEMMA ReturnsStep ==
  ASSUME TypeOK, ReturnsOnce, BeginPoll \/ PollStep
  PROVE  ReturnsOnce'
<1> USE DEF TypeOK
<1>1. ~Returned
  BY DEF BeginPoll, PollStep, FillPoll, FillSplice, FillClear, DrainPoll, DrainSplice,
         DrainClear, Finish, At, ReturnsOnce
<1>2. io'.pc = "idle" \/ io'.ret = io.ret
  <2>1. CASE BeginPoll
    BY <2>1 DEF BeginPoll, Ios
  <2>2. CASE Finish
    BY <2>2, ReturnIo DEF Finish, TakeError, Ios
  <2>3. CASE PollStep /\ ~Finish
    BY <2>3, GotoIo, ReturnIo, FaultedIo
       DEF PollStep, FillPoll, FillSplice, FillClear, DrainPoll, DrainSplice, DrainClear
  <2> QED
    BY <2>1, <2>2, <2>3
<1> QED
  BY <1>1, <1>2 DEF ReturnsOnce, Returned

\* A transfer that an executor polls keeps its invariant, whatever its
\* descriptors have been through before.
LEMMA TransferStep == TransferInv /\ [Next]_vars => TransferInv'
<1> SUFFICES ASSUME TransferInv, [Next]_vars PROVE TransferInv'
  OBVIOUS
<1>1. /\ TypeOK /\ PipeCounted /\ Loop /\ CleanFinish /\ LeavesNothing /\ ReturnsOnce
      /\ TypeOK' /\ PipeCounted'
  BY TypeStep, CountersFollow DEF TransferInv
<1>2. CASE BeginPoll
  <2>1. /\ io.pc = "idle" /\ io' = [io EXCEPT !.pc = "loop"]
        /\ UNCHANGED <<ctx, pipe, src, dst>>
    BY <1>2 DEF BeginPoll
  <2> QED
    BY <1>1, <1>2, <2>1, BeginPollControl, ReturnsStep DEF TransferInv
<1>3. CASE PollStep
  <2>1. io.ret \notin Errors
    BY <1>1, <1>3 DEF PollStep, FillPoll, FillSplice, FillClear, DrainPoll, DrainSplice,
         DrainClear, Finish, At, ReturnsOnce, Returned, Errors
  <2> QED
    BY <1>1, <1>3, <2>1, PollControl, ReturnsStep DEF TransferInv, LoopKept
<1>4. CASE Environment
  <2>1. ReturnsOnce'
    BY <1>1, <1>4, EnvironmentKeeps DEF ReturnsOnce, Returned
  <2> QED
    BY <1>1, <1>4, <2>1, EnvironmentControl DEF TransferInv
<1>5. CASE UNCHANGED vars
  <2>1. SourceUsable' = SourceUsable /\ Readable' = Readable
    BY <1>5 DEF vars, SourceUsable, Readable
  <2> QED
    BY <1>1, <1>5, <2>1
       DEF vars, TransferInv, Loop, ErrorsLast, EndsOpen, SourceEnded, FillHasSource,
           LeavesNothing, CleanFinish, ReturnsOnce, Returned
<1> QED
  BY <1>2, <1>3, <1>4, <1>5 DEF Next

\* It holds at the start.
LEMMA InitIInv == Init => IInv
<1> SUFFICES ASSUME Init PROVE IInv
  OBVIOUS
<1>1. Loop /\ CleanFinish /\ LeavesNothing /\ ReturnsOnce
  BY NewControl DEF Init
<1> QED
  BY <1>1, InitType, InitCounters DEF IInv, TransferInv, CountersMatchKernel, PipeCounted

\* The invariant is inductive.
LEMMA IInvStep == IInv /\ [Next]_vars => IInv'
BY TransferStep, CountersStep DEF IInv, TransferInv

\* The inductive invariant holds: the control of poll_execute, the counters and
\* the readiness of the source agree in every reachable state.
THEOREM Invariance == Spec => []IInv
BY InitIInv, IInvStep, PTL DEF Spec

-----------------------------------------------------------------------------
(***************************************************************************)
(* What follows from it.                                                   *)
(***************************************************************************)
\* Neither expect() of try_splice_from_source / try_splice_to_dest panics.
THEOREM PanicFree == Spec => []NoPanic
<1>1. IInv => NoPanic
  BY DEF IInv, TransferInv, Loop, EndsOpen, NoPanic, At
<1> QED
  BY <1>1, Invariance, PTL

\* A task asleep in Fill leaves no bytes in the pipe.
THEOREM NothingHeldBack == Spec => []NoBytesHeldBack
<1>1. IInv => NoBytesHeldBack
  BY DEF IInv, TransferInv, LeavesNothing, NoBytesHeldBack, Parked, Returned
<1> QED
  BY <1>1, Invariance, PTL

\* A report without error: every byte of the transfer is at the destination,
\* the pipe is empty and the destination has been shut down.
THEOREM SuccessComplete == Spec => []SuccessIsComplete
<1>1. IInv => SuccessIsComplete
  <2> SUFFICES ASSUME IInv, Returned, ~TransferReport.error
               PROVE  /\ ctx.bytes_written = ctx.size_to_splice \/ (src.eof /\ Readable = 0)
                      /\ pipe.level = 0 /\ dst.shut
    BY DEF SuccessIsComplete, TransferReport
  <2>1. io.ret = "Ok"
    BY DEF TransferReport
  <2>2. dst.shut /\ ~pipe.fill_fd /\ pipe.level = 0
    BY <2>1 DEF IInv, TransferInv, Loop, ErrorsLast, CleanFinish, Errors
  <2>3. ctx.bytes_read = ctx.bytes_written
    BY <2>2, FieldTypes DEF IInv, TransferInv, PipeCounted
  <2> QED
    BY <2>2, <2>3 DEF IInv, TransferInv, Loop, SourceEnded
<1> QED
  BY <1>1, Invariance, PTL

\* Once a splice has failed, no later poll reports success, however often the
\* shutdown in between is Pending.
THEOREM ErrorKept == Spec => ErrorSurvives
<1> DEFINE Failed == io.error # "None" \/ io.ret \in Errors
<1>1. IInv /\ Failed => io.ret # "Ok"
  BY DEF IInv, TransferInv, Loop, ErrorsLast, Errors
<1>2. IInv /\ Failed /\ [Next]_vars => Failed'
  <2> SUFFICES ASSUME IInv, Failed, [Next]_vars PROVE Failed'
    OBVIOUS
  <2>1. TypeOK /\ (Returned => io.pc = "idle") /\ (io.error # "None" => io.state = "Finished")
    BY DEF IInv, TransferInv, Loop, ReturnsOnce, ErrorsLast
  <2>2. CASE io' = io
    BY <2>2
  <2>3. CASE BeginPoll
    BY <2>1, <2>3 DEF BeginPoll, TypeOK, Ios
  <2>4. CASE Finish
    <3>1. io.error # "None"
      BY <2>1, <2>4 DEF Finish, At, Returned, Errors
    <3>2. CASE ShutdownOk /\ TakeError
      BY <2>1, <3>1, <3>2 DEF TakeError, TypeOK, Ios
    <3>3. CASE Return("Pending") \/ Return("Shutdown")
      BY <2>1, <3>1, <3>3, ReturnIo
    <3> QED
      BY <2>4, <3>2, <3>3 DEF Finish
  <2>5. CASE io.state # "Finished" /\ PollStep
    <3>1. io.pc = "idle"
      BY <2>1, <2>5 DEF Returned, Errors
    <3> QED
      BY <2>5, <3>1 DEF PollStep, FillPoll, FillSplice, FillClear, DrainPoll,
                        DrainSplice, DrainClear, Finish, At
  <2>6. CASE io.state = "Finished" /\ PollStep
    BY <2>4, <2>6 DEF PollStep, FillPoll, FillSplice, FillClear, DrainPoll,
                      DrainSplice, DrainClear, At
  <2> QED
    BY <2>2, <2>3, <2>5, <2>6 DEF Next, Environment, vars
<1>3. io.error # "None" => Failed
  OBVIOUS
<1> HIDE DEF Failed
<1> QED
  BY <1>1, <1>2, <1>3, Invariance, PTL DEF Spec, ErrorSurvives
=============================================================================
