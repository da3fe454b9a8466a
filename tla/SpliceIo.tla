------------------------------ MODULE SpliceIo ------------------------------
(***************************************************************************)
(* SpliceIo (src/io/mod.rs): the state machine that drives one SpliceCtx   *)
(* from readiness to readiness, and the task that awaits its execute().    *)
(* One action is one step between two points where another thread (the     *)
(* reactor) or the kernel can be observed: the readiness poll, the splice  *)
(* attempt, and the clearing of a readiness that turned out stale.         *)
(***************************************************************************)
EXTENDS SpliceCtx

CONSTANTS
  Requests,    \* the calls that may be made
  FileLens,    \* the lengths a source file may really have
  InitReady,   \* readiness the reactor may hold from earlier use of a socket
  FdsFail,     \* whether a descriptor may fail
  RuntimeEnds  \* whether the runtime may shut down under the transfer

Request ==
  [op : {"copy", "sendfile", "recvfile"},   \* new / with_input_file / with_output_file
   target : Option(Nat),                    \* with_target_len, for "copy"
   f_len : Nat, f_offset_start : Option(Nat), f_offset_end : Option(Nat)]

ASSUME SpliceIoAssumption ==
  /\ Requests \subseteq Request
  /\ FileLens \subseteq Nat
  /\ InitReady \subseteq BOOLEAN
  /\ FdsFail \in BOOLEAN
  /\ RuntimeEnds \in BOOLEAN

VARIABLES
  io,          \* the SpliceIo: its TransferState and where poll_execute is
  req          \* the call's arguments (never changes)

vars == <<io, req, ctx, pipe, src, dst, task>>

Errors == {"Source", "Dest", "Shutdown", "Gone"}

Ios == [state : {"Fill", "Drain", "Finished"},
        error : Errors \cup {"None"},       \* of TransferState::Finished
        pc    : {"idle", "loop", "spliceIn", "clearIn", "spliceOut", "clearOut"},
        ret   : Errors \cup {"Unpolled", "Pending", "Ok"}]  \* last result

NewIo == [state |-> "Fill", error |-> "None", pc |-> "idle", ret |-> "Unpolled"]

\* The context that the constructor of the call builds, or its error.
CtxOf(r) ==
  CASE r.op = "copy" ->
         Ok(IF r.target = None THEN new_inner ELSE with_target_len(new_inner, r.target))
    [] r.op = "sendfile" -> with_input_file(r.f_len, r.f_offset_start, r.f_offset_end)
    [] r.op = "recvfile" -> with_output_file(r.f_len, r.f_offset_start, r.f_offset_end)

Init ==
  /\ req \in {r \in Requests : CtxOf(r).ok}
  /\ ctx = CtxOf(req).val
  /\ \E size \in PipeSizes : pipe = PipeNew(size)
  /\ IF req.op = "sendfile"
       THEN \E len \in FileLens : src = FileSource(len)
       ELSE \E ready \in InitReady : src = SocketSource(ready)
  /\ IF req.op = "recvfile"
       THEN \E flushing \in BOOLEAN : dst = Destination(TRUE, FALSE, flushing)
       ELSE \E ready \in InitReady : dst = Destination(FALSE, ready, FALSE)
  /\ io = NewIo
  /\ task = NewTask

-----------------------------------------------------------------------------
Returned == io.ret \notin {"Unpolled", "Pending"}

At(pc, state) == io.pc = pc /\ io.state = state
Goto(pc, state) == io' = [io EXCEPT !.pc = pc, !.state = state]
Return(ret) == io' = [io EXCEPT !.pc = "idle", !.ret = ret]
Faulted(e) == io' = [io EXCEPT !.pc = "loop", !.state = "Finished", !.error = e]

\* The executor polls a scheduled task until its future is ready.
BeginPoll ==
  /\ io.pc = "idle" /\ ~Returned /\ task.woken
  /\ io'   = [io EXCEPT !.pc = "loop"]
  /\ task' = [task EXCEPT !.woken = FALSE, !.budget = Budget]
  /\ UNCHANGED <<req, ctx, pipe, src, dst>>

(***************************************************************************)
(* TransferState::Fill.                                                    *)
(***************************************************************************)
FillPoll ==
  /\ At("loop", "Fill")
  /\ \/ ReadReady /\ Goto("spliceIn", "Fill")
     \/ ReadPending /\ Return("Pending")
     \/ ReadYield /\ Return("Pending")
     \/ ReadGone /\ Return("Gone")
  /\ UNCHANGED <<req, ctx, pipe, dst>>

\* Mutant: after the end of the source the machine stays in Fill.
FillSpliceStays ==
  /\ At("spliceIn", "Fill")
  /\ \/ SourceTargetReached /\ Goto("loop", "Fill")
     \/ SourceEof /\ Goto("loop", "Fill")
     \/ SourceMoved /\ Goto("loop", "Fill")
     \/ SourceWouldBlock /\ Goto("clearIn", "Fill")
     \/ SourceFault /\ Faulted("Source")
  /\ UNCHANGED <<req, dst, task>>

FillSplice ==
  /\ At("spliceIn", "Fill")
  /\ \/ SourceTargetReached /\ Goto("loop", "Drain")
     \/ SourceEof /\ Goto("loop", "Drain")
     \/ SourceMoved /\ Goto("loop", "Fill")
     \/ SourceWouldBlock /\ Goto("clearIn", "Fill")
     \/ SourceFault /\ Faulted("Source")
  /\ UNCHANGED <<req, dst, task>>

\* Mutant: on EAGAIN always wait for the source.
AfterWouldBlockFill == "Fill"

\* EAGAIN, in Fill and in Drain: go where there is something to do.
AfterWouldBlock == IF pipe_has_data THEN "Drain" ELSE "Fill"

FillClear ==
  /\ At("clearIn", "Fill")
  /\ ClearReadReady
  /\ Goto("loop", AfterWouldBlock)
  /\ UNCHANGED <<req, ctx, pipe, dst, task>>

(***************************************************************************)
(* TransferState::Drain.                                                   *)
(***************************************************************************)
\* Mutant: Drain waits for the reader instead of the writer.
DrainPollReader ==
  /\ At("loop", "Drain")
  /\ \/ ReadReady /\ Goto("spliceOut", "Drain")
     \/ ReadPending /\ Return("Pending")
     \/ ReadYield /\ Return("Pending")
     \/ ReadGone /\ Return("Gone")
  /\ UNCHANGED <<req, ctx, pipe, dst>>

DrainPoll ==
  /\ At("loop", "Drain")
  /\ \/ WriteReady /\ Goto("spliceOut", "Drain")
     \/ WritePending /\ Return("Pending")
     \/ WriteYield /\ Return("Pending")
     \/ WriteGone /\ Return("Gone")
  /\ UNCHANGED <<req, ctx, pipe, src>>

DrainSplice ==
  /\ At("spliceOut", "Drain")
  /\ \/ DestDrained /\ Goto("loop", "Finished")
     \/ DestNoProgress /\ Goto("loop", "Fill")
     \/ DestMoved /\ Goto("loop", "Drain")
     \/ DestWouldBlock /\ Goto("clearOut", "Drain")
     \/ DestFault /\ Faulted("Dest")
  /\ UNCHANGED <<req, src, task>>

\* Mutant: a full destination is left for the source, whatever the pipe holds.
DrainClearFills ==
  /\ At("clearOut", "Drain")
  /\ ClearWriteReady
  /\ Goto("loop", "Fill")
  /\ UNCHANGED <<req, ctx, pipe, src, task>>

DrainClear ==
  /\ At("clearOut", "Drain")
  /\ ClearWriteReady
  /\ Goto("loop", AfterWouldBlock)
  /\ UNCHANGED <<req, ctx, pipe, src, task>>

(***************************************************************************)
(* TransferState::Finished: shut the writer down, then hand out the error  *)
(* (error.take()), if any.                                                 *)
(***************************************************************************)
\* Mutants: the error is returned as it stands, or not looked at.
TakeErrorRaw == io' = [io EXCEPT !.pc = "idle", !.error = "None", !.ret = io.error]
TakeErrorOk  == io' = [io EXCEPT !.pc = "idle", !.error = "None", !.ret = "Ok"]

TakeError == io' = [io EXCEPT !.pc = "idle", !.error = "None",
                              !.ret = IF io.error = "None" THEN "Ok" ELSE io.error]

\* Mutant: the error is taken before the writer has been shut down.
FinishTakesFirst ==
  /\ At("loop", "Finished")
  /\ \/ ShutdownOk /\ TakeError
     \/ ShutdownPending /\ io' = [io EXCEPT !.pc = "idle", !.ret = "Pending", !.error = "None"]
     \/ ShutdownFault /\ Return("Shutdown")
  /\ UNCHANGED <<req, ctx, pipe, src, task>>

\* Mutant: the writer is not shut down.
FinishNoShutdown ==
  /\ At("loop", "Finished")
  /\ TakeError
  /\ UNCHANGED <<req, ctx, pipe, src, dst, task>>

Finish ==
  /\ At("loop", "Finished")
  /\ \/ ShutdownOk /\ TakeError
     \/ ShutdownPending /\ Return("Pending")
     \/ ShutdownFault /\ Return("Shutdown")
  /\ UNCHANGED <<req, ctx, pipe, src, task>>

\* What execute() hands out.
TransferReport == [tx |-> ctx.bytes_written, rx |-> 0, error |-> io.ret # "Ok"]

-----------------------------------------------------------------------------
\* One step of the loop of poll_execute.
PollStep ==
  \/ FillPoll \/ FillSplice \/ FillClear
  \/ DrainPoll \/ DrainSplice \/ DrainClear
  \/ Finish

Environment ==
  /\ \/ PeerSends \/ PeerCloses \/ PeerReads \/ FlushCompletes
     \/ FdsFail /\ SourceFails
     \/ FdsFail /\ DestinationFails
     \/ ReportReadable \/ ReportWritable
     \/ RuntimeEnds /\ RuntimeShutsDown
  /\ UNCHANGED <<io, req, ctx, pipe>>

Next == BeginPoll \/ PollStep \/ Environment

Spec == Init /\ [][Next]_vars

(***************************************************************************)
(* Fairness: a scheduled task is polled and its code runs on; the reactor  *)
(* collects the events that are due; a file write in flight completes; and *)
(* the peer of the destination keeps reading.  The source owes nothing.    *)
(***************************************************************************)
Outside == UNCHANGED <<io, req, ctx, pipe>>

Fairness ==
  /\ WF_vars(BeginPoll \/ PollStep)
  /\ WF_vars(src.edge /\ ReportReadable /\ Outside)
  /\ WF_vars(dst.edge /\ ReportWritable /\ Outside)
  /\ WF_vars(FlushCompletes /\ Outside)
  /\ WF_vars(PeerReads /\ Outside)

FairSpec == Spec /\ Fairness

-----------------------------------------------------------------------------
(***************************************************************************)
(* Properties.                                                             *)
(***************************************************************************)
\* Type invariant: the values of SpliceIo, SpliceCtx and Pipe, and of the world
\* around them, stay in their types (counters are never negative).
TypeOK ==
  /\ io \in Ios /\ req \in Requests /\ ctx \in Ctxs /\ pipe \in Pipes
  /\ src \in Sources /\ dst \in Destinations /\ task \in Tasks

\* The counters of SpliceCtx, which stand in for the pipe in every decision
\* poll_execute takes, agree with what the kernel really moved; so neither
\* subtraction of try_splice_from_source / try_splice_to_dest wraps.
CountersMatchKernel ==
  /\ ctx.bytes_read = src.taken /\ ctx.bytes_written = dst.accepted
  /\ pipe.level = ctx.bytes_read - ctx.bytes_written
  /\ pipe.level <= pipe.size
  /\ ctx.bytes_read <= ctx.size_to_splice

\* Neither expect() on a pipe descriptor can panic, although poll_execute
\* never calls is_finished() as the messages ask.
NoPanic ==
  /\ At("spliceIn", "Fill") /\ ToRead # 0 => pipe.fill_fd
  /\ At("spliceOut", "Drain") /\ ToWrite # 0 => pipe.drain_fd

\* The task sleeps: the last poll said Pending and nothing has woken it.
Parked == io.pc = "idle" /\ io.ret = "Pending" /\ ~task.woken

\* The task never sleeps on the source while the pipe holds bytes for the
\* destination (the unit test partial_write_parks_on_writer, for every order).
NoBytesHeldBack == Parked /\ io.state = "Fill" => pipe.level = 0

\* Whatever the task sleeps on has its waker, and room in the destination
\* that opened while poll_execute was clearing a stale readiness is not lost.
WriterWakeupArmed ==
  Parked =>
    /\ io.state = "Fill" => src.waker
    /\ io.state = "Drain" => dst.waker /\ (DestinationWritable => dst.edge)
    /\ io.state = "Finished" => dst.waker /\ dst.flushing

\* execute() reports no error only after the destination has every byte of
\* the transfer, none is left in the pipe, and it has been shut down.
SuccessIsComplete ==
  Returned /\ ~TransferReport.error =>
    /\ TransferReport.tx = ctx.size_to_splice \/ (src.eof /\ Readable = 0)
    /\ pipe.level = 0 /\ dst.shut

\* A file transfer touches the requested range only, contiguously: the
\* offset is the start plus the bytes that went through it, up to the end.
RangeEnd == UnwrapOr(req.f_offset_end, req.f_len)
RangeKept ==
  LET start == UnwrapOr(req.f_offset_start, 0)
  IN  /\ req.op = "sendfile" =>
           ctx.offset = InOffset(start + ctx.bytes_read) /\ ctx.offset.pos <= RangeEnd
      /\ req.op = "recvfile" =>
           ctx.offset = OutOffset(start + ctx.bytes_written) /\ ctx.offset.pos <= RangeEnd

\* An error of a splice survives the shutdown that follows, however often
\* that is Pending: the transfer does not end in success.
ErrorSurvives == [](io.error # "None" => [](io.ret # "Ok"))

\* One transfer implements the abstract copy.
Produced ==
  IF ~src.file THEN src.arrived
  ELSE LET start == UnwrapOr(req.f_offset_start, 0)
       IN  IF start <= src.arrived THEN src.arrived - start ELSE 0

Outcome == CASE io.ret = "Ok" -> "Ok"
             [] io.ret \in Errors -> "Err"
             [] OTHER -> "Running"

Copy == INSTANCE ByteCopy WITH
          produced <- Produced, closed <- src.eof, limit <- ctx.size_to_splice,
          bound <- pipe.size, pulled <- ctx.bytes_read,
          pushed <- ctx.bytes_written, outcome <- Outcome

ImplementsByteCopy == Copy!CopySpec

\* A source that closes (or a file) lets the transfer end; with SpliceCancel
\* also the one that starts on descriptors a dropped transfer has left behind,
\* with their cached readiness and stale wakers.
ClosedSourceEnds == src.eof ~> Returned

\* Bytes that reach the source get to the destination, or the transfer ends,
\* whether or not the peer ever sends or closes again.
BytesGetThrough ==
  \A n \in 1 .. MaxSend : src.arrived >= n ~> (dst.accepted >= n \/ Returned)

\* Once the source has produced the target length the transfer ends.
TargetEnds == Produced >= ctx.size_to_splice ~> Returned

\* A destination that fails while bytes are on their way ends the transfer: the
\* error is found by the write, however the reset, a full send buffer and the
\* stale readiness interleave.  (An idle source is not enough to notice it.)
DeadDestinationNoticed == (dst.err /\ src.arrived > dst.accepted) ~> Returned

\* The task does not spin: while no further event comes, it always gets back to
\* sleep or returns ("so we won't busy loop", on try_io_read and try_io_write,
\* although the half-close bit of a descriptor is never cleared).
NoBusyLoop == []<>(Parked \/ Returned)
=============================================================================
