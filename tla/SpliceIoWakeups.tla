--------------------------- MODULE SpliceIoWakeups ---------------------------
(***************************************************************************)
(* Proof that a transfer never sleeps through the event it waits for on    *)
(* the writing side: WriterWakeupArmed, for every value of the constants.  *)
(* The hard case is the window between the EAGAIN of splice(2) and the     *)
(* moment try_io clears the readiness it saw (io.pc = "clearOut").         *)
(* Then what a transfer keeps as one direction of a bidirectional copy,    *)
(* and that such a direction implements ByteCopy.                          *)
(***************************************************************************)
EXTENDS SpliceIoProofs

\* Room in a destination socket is known: an event is due, or the reactor's
\* WRITABLE bit is set, by an event newer than the snapshot try_io is about to
\* clear.
RoomIsKnown ==
  ~dst.file /\ DestinationWritable =>
    dst.edge \/ (dst.ready /\ (io.pc = "clearOut" => dst.fresh))

\* A sleeping task has its waker where its state will look again, and in Drain
\* the reactor has had nothing to tell it.
AsleepOnWaker ==
  Parked =>
    /\ io.state = "Fill" => src.waker
    /\ io.state = "Drain" => dst.waker /\ ~dst.file /\ ~dst.ready
    /\ io.state = "Finished" => dst.waker /\ dst.flushing

WakeInv == RoomIsKnown /\ AsleepOnWaker

-----------------------------------------------------------------------------
\* A fresh socket is writable, and its reactor knows or will be told.
LEMMA InitWake == Init => WakeInv
<1> SUFFICES ASSUME Init PROVE WakeInv
  OBVIOUS
<1>1. io.ret = "Unpolled"
  BY DEF Init, NewIo
<1>2. ~dst.file => dst.edge \/ dst.ready
  <2>1. \A ready \in BOOLEAN :
          LET d == Destination(FALSE, ready, FALSE) IN d.edge \/ d.ready
    BY DEF Destination
  <2>2. \A flushing : Destination(TRUE, FALSE, flushing).file
    BY DEF Destination
  <2> QED
    BY <2>1, <2>2, SpliceIoAssumption DEF Init
<1>3. io.pc # "clearOut"
  BY DEF Init, NewIo
<1> QED
  BY <1>1, <1>2, <1>3 DEF WakeInv, RoomIsKnown, AsleepOnWaker, Parked

\* Fill does not touch the destination, and goes to sleep only with the waker
\* of the source in place.
LEMMA FillWake ==
  ASSUME TypeOK, RoomIsKnown, FillPoll \/ FillSplice \/ FillClear
  PROVE  WakeInv'
<1> USE DEF TypeOK
<1>1. dst' = dst /\ io.state = "Fill" /\ io.pc # "clearOut"
  BY DEF FillPoll, FillSplice, FillClear, At
<1>2. RoomIsKnown'
  <2>1. io'.pc # "clearOut"
    BY GotoIo, ReturnIo, FaultedIo DEF FillPoll, FillSplice, FillClear
  <2> QED
    BY <1>1, <2>1 DEF WakeInv, RoomIsKnown, DestinationWritable
<1>3. AsleepOnWaker'
  <2>1. CASE ReadPending /\ Return("Pending")
    BY <1>1, <2>1, ReturnIo DEF ReadPending, Sources, AsleepOnWaker
  <2>2. CASE ReadYield /\ Return("Pending")
    BY <2>2 DEF ReadYield, Tasks, AsleepOnWaker, Parked
  <2>3. CASE ReadGone /\ Return("Gone")
    BY <2>3, ReturnIo DEF AsleepOnWaker, Parked
  <2>4. CASE io'.pc # "idle"
    BY <2>4 DEF AsleepOnWaker, Parked
  <2> QED
    BY <2>1, <2>2, <2>3, <2>4, GotoIo, FaultedIo DEF FillPoll, FillSplice, FillClear
<1> QED
  BY <1>2, <1>3 DEF WakeInv

\* Waiting for the destination: Pending is said to a cleared readiness only.
LEMMA DrainPollWake ==
  ASSUME TypeOK, RoomIsKnown, DrainPoll
  PROVE  WakeInv'
<1> USE DEF TypeOK
<1>1. /\ dst'.file = dst.file /\ dst'.queued = dst.queued /\ dst'.err = dst.err
      /\ dst'.edge = dst.edge /\ dst'.ready = dst.ready
  BY DEF DrainPoll, WriteReady, WritePending, WriteYield, WriteGone, Destinations
<1>2. io.state = "Drain" /\ io.pc # "clearOut"
  BY DEF DrainPoll, At
<1>3. RoomIsKnown'
  <2>1. io'.pc # "clearOut"
    BY GotoIo, ReturnIo DEF DrainPoll
  <2> QED
    BY <1>1, <1>2, <2>1 DEF WakeInv, RoomIsKnown, DestinationWritable
<1>4. AsleepOnWaker'
  <2>1. CASE WritePending /\ Return("Pending")
    BY <1>1, <1>2, <2>1, ReturnIo DEF WritePending, Destinations, AsleepOnWaker
  <2>2. CASE WriteYield /\ Return("Pending")
    BY <2>2 DEF WriteYield, Tasks, AsleepOnWaker, Parked
  <2>3. CASE WriteGone /\ Return("Gone")
    BY <2>3, ReturnIo DEF AsleepOnWaker, Parked
  <2>4. CASE io'.pc # "idle"
    BY <2>4 DEF AsleepOnWaker, Parked
  <2> QED
    BY <2>1, <2>2, <2>3, <2>4, GotoIo DEF DrainPoll
<1> QED
  BY <1>3, <1>4 DEF WakeInv

\* The attempt to drain: EAGAIN is the answer of a full destination, since the
\* counters are right and the pipe is not empty.
LEMMA DrainSpliceWake ==
  ASSUME TypeOK, PipeCounted, RoomIsKnown, DrainSplice
  PROVE  WakeInv'
<1> USE DEF TypeOK
<1>1. io.pc # "clearOut"
  BY DEF DrainSplice, At
<1>2. io'.pc # "idle"
  BY GotoIo, FaultedIo DEF DrainSplice
<1>3. CASE DestWouldBlock
  <2>1. pipe.level > 0
    BY <1>3, FieldTypes DEF DestWouldBlock, ToWrite, USub, PipeCounted
  <2>2. dst' = dst /\ ~DestinationWritable
    BY <1>3, <2>1, FieldTypes, AsyncFdAssumption
       DEF DestWouldBlock, splice_out_again, Writable, DestinationWritable
  <2> QED
    BY <1>2, <2>2
       DEF WakeInv, RoomIsKnown, DestinationWritable, AsleepOnWaker, Parked
<1>4. CASE DestMoved
  <2>1. PICK n \in 1 .. pipe.size : splice_out_moves(n, ToWrite)
    BY <1>4 DEF DestMoved
  <2>2. /\ dst'.file = dst.file /\ dst'.err = dst.err
        /\ dst'.edge = dst.edge /\ dst'.ready = dst.ready
    BY <2>1 DEF splice_out_moves, Destinations
  <2>3. dst'.queued >= dst.queued
    BY <2>1, FieldTypes DEF splice_out_moves, Destinations
  <2>4. DestinationWritable' => DestinationWritable
    BY <2>2, <2>3, FieldTypes, AsyncFdAssumption,
       PollType DEF DestinationWritable, PollStep, Destinations
  <2>5. io'.pc = "loop" \/ DestWouldBlock
    BY GotoIo, FaultedIo DEF DrainSplice
  <2> QED
    BY <1>1, <1>2, <1>3, <2>2, <2>4, <2>5
       DEF WakeInv, RoomIsKnown, AsleepOnWaker, Parked
<1>5. CASE ~DestWouldBlock /\ ~DestMoved
  <2>1. dst' = dst /\ io'.pc = "loop"
    BY <1>5, GotoIo, FaultedIo
       DEF DrainSplice, DestDrained, DestNoProgress, DestFault
  <2> QED
    BY <1>1, <2>1 DEF WakeInv, RoomIsKnown, DestinationWritable, AsleepOnWaker, Parked
<1> QED
  BY <1>3, <1>4, <1>5

\* The stale readiness is cleared: only the one that try_io saw.
LEMMA DrainClearWake ==
  ASSUME TypeOK, RoomIsKnown, DrainClear
  PROVE  WakeInv'
<1> USE DEF TypeOK
<1>1. io.pc = "clearOut" /\ io'.pc = "loop"
  BY GotoIo DEF DrainClear, At
<1>2. /\ dst'.file = dst.file /\ dst'.queued = dst.queued /\ dst'.err = dst.err
      /\ dst'.edge = dst.edge
      /\ dst.ready /\ dst.fresh => dst'.ready
  BY DEF DrainClear, ClearWriteReady, Destinations
<1> QED
  BY <1>1, <1>2 DEF WakeInv, RoomIsKnown, DestinationWritable, AsleepOnWaker, Parked

\* Finished sleeps only on a write in flight.
LEMMA FinishWake ==
  ASSUME TypeOK, RoomIsKnown, Finish
  PROVE  WakeInv'
<1> USE DEF TypeOK
<1>1. /\ dst'.file = dst.file /\ dst'.queued = dst.queued /\ dst'.err = dst.err
      /\ dst'.edge = dst.edge /\ dst'.ready = dst.ready
  BY DEF Finish, ShutdownOk, ShutdownPending, ShutdownFault, Destinations
<1>2. io.pc # "clearOut" /\ io.state = "Finished"
  BY DEF Finish, At
<1>3. io'.pc = "idle" /\ io'.state = "Finished"
  BY <1>2, ReturnIo DEF Finish, TakeError, Ios
<1>4. AsleepOnWaker'
  <2>1. CASE ShutdownOk /\ TakeError
    <3>1. io'.ret # "Pending"
      BY <2>1 DEF TakeError, Ios, Errors
    <3> QED
      BY <3>1 DEF AsleepOnWaker, Parked
  <2>2. CASE ShutdownPending /\ Return("Pending")
    BY <1>3, <2>2 DEF ShutdownPending, Destinations, AsleepOnWaker
  <2>3. CASE ShutdownFault /\ Return("Shutdown")
    BY <2>3, ReturnIo DEF AsleepOnWaker, Parked
  <2> QED
    BY <2>1, <2>2, <2>3 DEF Finish
<1> QED
  BY <1>1, <1>2, <1>3, <1>4 DEF WakeInv, RoomIsKnown, DestinationWritable

\* One step of the loop of poll_execute.
LEMMA PollWake ==
  ASSUME TypeOK, PipeCounted, RoomIsKnown, PollStep
  PROVE  WakeInv'
BY FillWake, DrainPollWake, DrainSpliceWake, DrainClearWake, FinishWake DEF PollStep

\* A poll begins: the transfer does not sleep.
LEMMA BeginPollWake ==
  ASSUME TypeOK, RoomIsKnown, io.pc = "idle", io' = [io EXCEPT !.pc = "loop"], dst' = dst
  PROVE  WakeInv'
<1>1. io'.pc = "loop"
  BY DEF TypeOK, Ios
<1> QED
  BY <1>1 DEF WakeInv, RoomIsKnown, DestinationWritable, AsleepOnWaker, Parked

\* The peers, the kernel and the reactor: room that opens raises an event, and
\* who takes a waker wakes the task.
LEMMA EnvironmentWake ==
  ASSUME TypeOK, RoomIsKnown, Environment
  PROVE  RoomIsKnown' /\ (AsleepOnWaker => AsleepOnWaker')
<1> USE DEF TypeOK
<1>1. io' = io /\ (task.woken => task'.woken)
  BY EnvironmentKeeps
<1>2. CASE PeerSends \/ PeerCloses \/ SourceFails
  <2>1. dst' = dst /\ task' = task /\ src'.waker = src.waker
    BY <1>2 DEF PeerSends, PeerCloses, SourceFails, Sources
  <2> QED
    BY <1>1, <2>1 DEF RoomIsKnown, DestinationWritable, AsleepOnWaker, Parked
<1>3. CASE PeerReads
  <2>1. /\ src' = src /\ task' = task
        /\ dst'.file = dst.file /\ dst'.err = dst.err /\ dst'.waker = dst.waker
        /\ dst'.ready = dst.ready /\ dst'.fresh = dst.fresh /\ dst'.flushing = dst.flushing
    BY <1>3 DEF PeerReads, Destinations
  <2>2. /\ dst'.queued = dst.queued - 1
        /\ dst.edge \/ dst.queued = SndBuf => dst'.edge
    BY <1>3 DEF PeerReads, Destinations
  <2>3. DestinationWritable' => DestinationWritable \/ dst.queued = SndBuf
    BY <2>1, <2>2, FieldTypes, AsyncFdAssumption DEF DestinationWritable
  <2> QED
    BY <1>1, <2>1, <2>2, <2>3 DEF RoomIsKnown, AsleepOnWaker, Parked
<1>4. CASE DestinationFails
  <2>1. /\ src' = src /\ task' = task
        /\ dst'.file = dst.file /\ dst'.waker = dst.waker /\ dst'.ready = dst.ready
        /\ dst'.flushing = dst.flushing /\ (~dst.file => dst'.edge)
    BY <1>4 DEF DestinationFails, Destinations
  <2> QED
    BY <1>1, <2>1 DEF RoomIsKnown, AsleepOnWaker, Parked
<1>5. CASE FlushCompletes
  <2>1. /\ src' = src
        /\ dst'.file = dst.file /\ dst'.err = dst.err /\ dst'.queued = dst.queued
        /\ dst'.ready = dst.ready /\ dst'.fresh = dst.fresh /\ dst'.edge = dst.edge
    BY <1>5 DEF FlushCompletes, Destinations
  <2>2. dst.waker => task'.woken
    BY <1>5 DEF FlushCompletes, Tasks
  <2>3. RoomIsKnown'
    BY <1>1, <2>1 DEF RoomIsKnown, DestinationWritable
  <2>4. io.state \in {"Fill", "Drain", "Finished"}
    BY DEF Ios
  <2> QED
    BY <1>1, <2>1, <2>2, <2>3, <2>4 DEF AsleepOnWaker, Parked
<1>6. CASE ReportReadable
  <2>1. dst' = dst /\ (src'.waker = src.waker \/ (src.waker => task'.woken))
    BY <1>6 DEF ReportReadable, Sources, Tasks
  <2> QED
    BY <1>1, <2>1 DEF RoomIsKnown, DestinationWritable, AsleepOnWaker, Parked
<1>7. CASE ReportWritable
  <2>1. /\ src' = src
        /\ dst'.file = dst.file /\ dst'.err = dst.err /\ dst'.queued = dst.queued
        /\ dst'.flushing = dst.flushing
    BY <1>7 DEF ReportWritable, Destinations
  <2>2. DestinationWritable' <=> DestinationWritable
    BY <2>1 DEF DestinationWritable
  <2>3. DestinationWritable => dst'.ready /\ dst'.fresh /\ (dst.waker => task'.woken)
    BY <1>7 DEF ReportWritable, Destinations, Tasks
  <2>4. ~DestinationWritable => dst'.ready = dst.ready /\ dst'.waker = dst.waker
    BY <1>7 DEF ReportWritable, Destinations
  <2> QED
    BY <1>1, <2>1, <2>2, <2>3, <2>4 DEF RoomIsKnown, AsleepOnWaker, Parked
<1>8. CASE RuntimeShutsDown
  <2>1. src' = src /\ dst' = dst /\ task'.woken
    BY <1>8 DEF RuntimeShutsDown, Tasks
  <2> QED
    BY <1>1, <2>1 DEF RoomIsKnown, DestinationWritable, AsleepOnWaker, Parked
<1> QED
  BY <1>2, <1>3, <1>4, <1>5, <1>6, <1>7, <1>8 DEF Environment

-----------------------------------------------------------------------------
\* A task asleep in Drain has its waker with the destination, and whatever room
\* the destination has is announced by an event that is still due: no wakeup of
\* the writer is lost, wherever the reactor runs between the EAGAIN and the
\* clearing of the readiness.  A sleep in Fill has the waker of the source, one
\* in Finished that of a write in flight.
THEOREM WriterWakeup == Spec => []WriterWakeupArmed
<1>1. IInv /\ WakeInv /\ [Next]_vars => WakeInv'
  <2> SUFFICES ASSUME TypeOK, PipeCounted, WakeInv, [Next]_vars PROVE WakeInv'
    BY DEF IInv, TransferInv
  <2>1. CASE UNCHANGED vars
    BY <2>1 DEF vars, WakeInv, RoomIsKnown, DestinationWritable, AsleepOnWaker, Parked
  <2>2. CASE BeginPoll
    BY <2>2, BeginPollWake DEF BeginPoll, WakeInv
  <2> QED
    BY <2>1, <2>2, PollWake, EnvironmentWake DEF Next, WakeInv
<1>2. WakeInv => WriterWakeupArmed
  BY DEF WakeInv, RoomIsKnown, AsleepOnWaker, WriterWakeupArmed
<1> QED
  BY <1>1, <1>2, InitWake, Invariance, PTL DEF Spec

-----------------------------------------------------------------------------
(***************************************************************************)
(* One direction of copy_bidirectional(): a copy between sockets with the  *)
(* default target length, whose poll_execute may also be called after it   *)
(* has returned, under a task that it shares with the other direction.     *)
(***************************************************************************)
SocketCopy ==
  /\ ctx.size_to_splice = IsizeMax /\ ctx.offset = NoOffset
  /\ src.taken <= src.arrived /\ src.arrived <= MaxSend
  /\ ~src.file /\ ~dst.file /\ ~dst.flushing

\* A result other than the end of the runtime is the end of the state machine.
ResultKept ==
  /\ io.ret \in {"Ok", "Source", "Dest", "Shutdown"} => io.state = "Finished"
  /\ io.ret = "Gone" => task.gone
  /\ io.error # "Gone"

DirectionInv ==
  TypeOK /\ CountersMatchKernel /\ Loop /\ RoomIsKnown /\ SocketCopy /\ ResultKept

\* Under a runtime that is gone a poll says Pending only when out of budget.
GoneIsWoken == io.pc = "idle" /\ io.ret = "Pending" /\ task.gone => task.woken

\* What the last poll of a direction has left, until the task is polled again.
Rest == LeavesNothing /\ AsleepOnWaker /\ GoneIsWoken

\* What happens to the task during a poll, and outside of it: it is not put to
\* sleep, its budget does not come back, and the end of the runtime wakes it.
TaskOnward ==
  /\ task' \in Tasks
  /\ task.woken => task'.woken
  /\ task.budget = 0 => task'.budget = 0
  /\ task.gone => task'.gone
  /\ task'.gone => task.gone \/ task'.woken

\* What one step of a poll of the direction does.
Polled ==
  /\ DirectionInv' /\ Rest' /\ TaskOnward
  /\ CleanFinish /\ io.ret \notin Errors => CleanFinish'
  /\ io.pc # "idle"
  /\ IF io'.pc = "idle" THEN io'.ret # "Unpolled" ELSE io'.ret = io.ret

\* What a step of something else does.
LeftAlone ==
  /\ DirectionInv' /\ io' = io
  /\ CleanFinish => CleanFinish'
  /\ Rest /\ TaskOnward => Rest'

\* A poll only uses the task's budget up, and wakes it when there is none left.
LEMMA TaskPoll ==
  ASSUME TypeOK, PollStep
  PROVE  TaskOnward /\ task'.gone = task.gone
<1> USE DEF TypeOK
<1>1. CASE task.budget > 0 /\ task' = [task EXCEPT !.budget = @ - 1]
  BY <1>1, FieldTypes DEF Tasks, TaskOnward
<1>2. CASE task' = [task EXCEPT !.woken = TRUE]
  BY <1>2 DEF Tasks, TaskOnward
<1>3. CASE task' = task
  BY <1>3 DEF TaskOnward
<1> QED
  BY <1>1, <1>2, <1>3
     DEF PollStep, FillPoll, ReadReady, ReadPending, ReadYield, ReadGone, FillSplice,
         FillClear, DrainPoll, WriteReady, WritePending, WriteYield, WriteGone, DrainSplice,
         DrainClear, Finish

\* A socket copy stays one: the source is read where it stands, and nothing is
\* read that has not arrived.
LEMMA SocketPoll ==
  ASSUME TypeOK, SocketCopy, PollStep
  PROVE  SocketCopy'
<1> USE DEF TypeOK, SocketCopy
<1>1. CASE FillPoll
  BY <1>1 DEF FillPoll, ReadReady, ReadPending, ReadYield, ReadGone, Sources
<1>2. CASE FillSplice
  <2>1. CASE SourceMoved
    <3>1. PICK n \in 1 .. pipe.size :
            /\ splice_in_moves(n, ToRead)
            /\ ctx' = [ctx EXCEPT !.bytes_read = @ + n, !.offset = Advance(@, "In", n)]
      BY <2>1 DEF SourceMoved
    <3>2. n \in Nat /\ n <= src.arrived - src.taken
      BY <3>1, FieldTypes, NoneAssumption DEF splice_in_moves, Readable, off_in, NoOffset
    <3>3. /\ src'.taken = src.taken + n /\ src'.arrived = src.arrived /\ src'.file = src.file
          /\ dst' = dst
      BY <1>2, <3>1 DEF splice_in_moves, Sources, FillSplice
    <3>4. ctx'.size_to_splice = ctx.size_to_splice /\ ctx'.offset = NoOffset
      BY <3>1 DEF Ctxs, Advance, NoOffset
    <3> QED
      BY <3>2, <3>3, <3>4, FieldTypes
  <2> QED
    BY <1>2, <2>1 DEF FillSplice, SourceTargetReached, SourceEof, SourceWouldBlock, SourceFault
<1>3. CASE FillClear
  BY <1>3 DEF FillClear, ClearReadReady, Sources
<1>4. CASE DrainPoll
  BY <1>4 DEF DrainPoll, WriteReady, WritePending, WriteYield, WriteGone, Destinations
<1>5. CASE DrainSplice
  <2>1. CASE DestMoved
    <3>1. PICK n \in 1 .. pipe.size :
            /\ splice_out_moves(n, ToWrite)
            /\ ctx' = [ctx EXCEPT !.bytes_written = @ + n, !.offset = Advance(@, "Out", n)]
      BY <2>1 DEF DestMoved
    <3>2. dst'.file = dst.file /\ dst'.flushing = dst.flushing /\ src' = src
      BY <1>5, <3>1 DEF splice_out_moves, Destinations, DrainSplice
    <3>3. ctx'.size_to_splice = ctx.size_to_splice /\ ctx'.offset = NoOffset
      BY <3>1 DEF Ctxs, Advance, NoOffset
    <3> QED
      BY <3>2, <3>3
  <2> QED
    BY <1>5, <2>1 DEF DrainSplice, DestDrained, DestNoProgress, DestWouldBlock, DestFault
<1>6. CASE DrainClear
  BY <1>6 DEF DrainClear, ClearWriteReady, Destinations
<1>7. CASE Finish
  BY <1>7 DEF Finish, ShutdownOk, ShutdownPending, ShutdownFault, Destinations
<1> QED
  BY <1>1, <1>2, <1>3, <1>4, <1>5, <1>6, <1>7 DEF PollStep

\* A poll returns a result of its own, and what the result says of the state
\* stays true while the direction is polled again.
LEMMA ResultPoll ==
  ASSUME TypeOK, SocketCopy, ResultKept, PollStep
  PROVE  /\ ResultKept' /\ GoneIsWoken'
         /\ io.pc # "idle"
         /\ IF io'.pc = "idle" THEN io'.ret # "Unpolled" ELSE io'.ret = io.ret
<1> USE DEF TypeOK
<1>1. task'.gone = task.gone /\ io.error # "Gone"
  BY TaskPoll DEF ResultKept
<1>2. CASE FillPoll
  <2>1. io.pc = "loop" /\ io.state = "Fill"
    BY <1>2 DEF FillPoll, At
  <2>2. CASE ReadReady /\ Goto("spliceIn", "Fill")
    BY <1>1, <2>1, <2>2, GotoIo DEF ResultKept, GoneIsWoken
  <2>3. CASE (ReadPending \/ ReadYield) /\ Return("Pending")
    BY <1>1, <2>1, <2>3, ReturnIo
       DEF ReadPending, ReadYield, Tasks, ResultKept, GoneIsWoken
  <2>4. CASE ReadGone /\ Return("Gone")
    BY <1>1, <2>1, <2>4, ReturnIo DEF ReadGone, ResultKept, GoneIsWoken
  <2> QED
    BY <1>2, <2>2, <2>3, <2>4 DEF FillPoll
<1>3. CASE DrainPoll
  <2>1. io.pc = "loop" /\ io.state = "Drain"
    BY <1>3 DEF DrainPoll, At
  <2>2. CASE WriteReady /\ Goto("spliceOut", "Drain")
    BY <1>1, <2>1, <2>2, GotoIo DEF ResultKept, GoneIsWoken
  <2>3. CASE (WritePending \/ WriteYield) /\ Return("Pending")
    BY <1>1, <2>1, <2>3, ReturnIo
       DEF WritePending, WriteYield, Tasks, ResultKept, GoneIsWoken
  <2>4. CASE WriteGone /\ Return("Gone")
    BY <1>1, <2>1, <2>4, ReturnIo DEF WriteGone, ResultKept, GoneIsWoken
  <2> QED
    BY <1>3, <2>2, <2>3, <2>4 DEF DrainPoll
<1>4. CASE FillSplice \/ FillClear \/ DrainSplice \/ DrainClear
  <2>1. io.pc # "idle" /\ io.state # "Finished"
    BY <1>4 DEF FillSplice, FillClear, DrainSplice, DrainClear, At
  <2>2. /\ io'.pc # "idle" /\ io'.ret = io.ret
        /\ io'.error \in {io.error, "Source", "Dest"}
    BY <1>4, GotoIo, FaultedIo DEF FillSplice, FillClear, DrainSplice, DrainClear
  <2> QED
    BY <1>1, <2>1, <2>2 DEF ResultKept, GoneIsWoken
<1>5. CASE Finish
  <2>1. io.pc = "loop" /\ io.state = "Finished"
    BY <1>5 DEF Finish, At
  <2>2. CASE ShutdownOk /\ TakeError
    <3>1. /\ io'.pc = "idle" /\ io'.state = "Finished" /\ io'.error = "None"
          /\ io'.ret \in {"Ok", "Source", "Dest", "Shutdown"}
      BY <1>1, <2>1, <2>2 DEF TakeError, Ios, Errors
    <3> QED
      BY <2>1, <3>1 DEF ResultKept, GoneIsWoken
  <2>3. CASE ShutdownPending
    BY <2>3 DEF ShutdownPending, SocketCopy
  <2>4. CASE ShutdownFault /\ Return("Shutdown")
    BY <1>1, <2>1, <2>4, ReturnIo DEF ResultKept, GoneIsWoken
  <2> QED
    BY <1>5, <2>2, <2>3, <2>4 DEF Finish
<1> QED
  BY <1>2, <1>3, <1>4, <1>5 DEF PollStep

\* One step of a poll, also of one after the direction has returned.
LEMMA DirectionPoll ==
  ASSUME DirectionInv, PollStep
  PROVE  Polled
<1> USE DEF DirectionInv
<1>1. [Next]_vars /\ PipeCounted
  BY DEF Next, CountersMatchKernel, PipeCounted
<1>2. TypeOK' /\ CountersMatchKernel'
  BY <1>1, PollType, CountersStep
<1>3. PipeCounted'
  BY <1>2 DEF CountersMatchKernel, PipeCounted
<1>4. LoopKept /\ WakeInv'
  BY <1>1, <1>3, PollControl, PollWake
<1> QED
  BY <1>2, <1>4, TaskPoll, SocketPoll, ResultPoll DEF LoopKept, WakeInv, Polled, Rest

\* A poll begins, with a budget or with what the other direction has left of it.
LEMMA DirectionBegins ==
  ASSUME DirectionInv, io.pc = "idle", io' = [io EXCEPT !.pc = "loop"],
         req' = req, ctx' = ctx, pipe' = pipe, src' = src, dst' = dst,
         task' \in Tasks, task.gone => task'.gone
  PROVE  /\ DirectionInv' /\ Rest' /\ (CleanFinish => CleanFinish')
         /\ io'.pc = "loop" /\ io'.ret = io.ret
<1> USE DEF DirectionInv, TypeOK
<1>1. io'.pc = "loop" /\ io'.state = io.state /\ io'.error = io.error /\ io'.ret = io.ret
  BY DEF Ios
<1>2. TypeOK'
  BY DEF Ios
<1>3. CountersMatchKernel' /\ SocketCopy' /\ ResultKept'
  BY <1>1 DEF CountersMatchKernel, SocketCopy, ResultKept
<1>4. Loop' /\ LeavesNothing' /\ (CleanFinish => CleanFinish')
  BY BeginPollControl
<1>5. WakeInv'
  BY BeginPollWake
<1> QED
  BY <1>1, <1>2, <1>3, <1>4, <1>5 DEF WakeInv, Rest, GoneIsWoken

\* The peers, the kernel and the reactor act on this direction.
LEMMA DirectionDisturbed ==
  ASSUME DirectionInv, Environment
  PROVE  LeftAlone /\ TaskOnward
<1> USE DEF DirectionInv
<1>1. [Next]_vars /\ TypeOK'
  BY EnvironmentType DEF Next
<1>2. CountersMatchKernel' /\ Loop' /\ RoomIsKnown'
  BY <1>1, CountersStep, EnvironmentControl, EnvironmentWake
<1>3. io' = io /\ ctx' = ctx
  BY DEF Environment
<1>4. /\ task.woken => task'.woken
      /\ task'.budget = task.budget
      /\ task.gone => task'.gone
      /\ task'.gone => task.gone \/ task'.woken
  BY EnvironmentKeeps
     DEF Environment, PeerSends, PeerCloses, PeerReads, FlushCompletes, SourceFails,
         DestinationFails, ReportReadable, ReportWritable, RuntimeShutsDown, TypeOK, Tasks
<1>5. TaskOnward
  BY <1>1, <1>4 DEF TaskOnward, TypeOK
<1>6. SocketCopy'
  <2> USE FieldTypes DEF SocketCopy, TypeOK
  <2>1. src'.file = src.file /\ src'.taken = src.taken
    BY EnvironmentKeeps
  <2>2. src'.arrived = src.arrived \/ (src'.arrived = src.arrived + 1 /\ src.arrived < MaxSend)
    BY DEF Environment, PeerSends, PeerCloses, PeerReads, FlushCompletes, SourceFails,
           DestinationFails, ReportReadable, ReportWritable, RuntimeShutsDown, Sources
  <2>3. ~dst'.file /\ ~dst'.flushing
    BY DEF Environment, PeerSends, PeerCloses, PeerReads, FlushCompletes, SourceFails,
           DestinationFails, ReportReadable, ReportWritable, RuntimeShutsDown, Destinations
  <2> QED
    BY <1>3, <2>1, <2>2, <2>3, AsyncFdAssumption
<1>7. ResultKept' /\ (GoneIsWoken => GoneIsWoken')
  BY <1>3, <1>4 DEF ResultKept, GoneIsWoken
<1> QED
  BY <1>1, <1>2, <1>3, <1>5, <1>6, <1>7, EnvironmentControl, EnvironmentWake DEF LeftAlone, Rest

\* The executor, the other direction or its descriptors use the task.
LEMMA DirectionWaits ==
  ASSUME DirectionInv, io' = io, req' = req, ctx' = ctx, pipe' = pipe, src' = src, dst' = dst,
         task' \in Tasks, task.gone => task'.gone
  PROVE  LeftAlone
<1> USE DEF DirectionInv
<1>1. TypeOK' /\ CountersMatchKernel' /\ RoomIsKnown' /\ SocketCopy' /\ ResultKept'
  BY DEF TypeOK, CountersMatchKernel, RoomIsKnown, DestinationWritable, SocketCopy, ResultKept
<1>2. Readable' = Readable /\ SourceUsable' = SourceUsable
  BY ReadableKept DEF SourceUsable
<1>3. Loop' /\ (CleanFinish => CleanFinish')
  BY <1>2 DEF Loop, ErrorsLast, EndsOpen, SourceEnded, FillHasSource, CleanFinish
<1>4. Rest /\ TaskOnward => Rest'
  BY DEF TaskOnward, Rest, LeavesNothing, Returned, AsleepOnWaker, Parked, GoneIsWoken
<1> QED
  BY <1>1, <1>3, <1>4 DEF LeftAlone

\* A new direction.
LEMMA DirectionInit ==
  ASSUME Init, req.op = "copy", req.target = None
  PROVE  DirectionInv /\ Rest /\ CleanFinish /\ io.pc = "idle" /\ io.ret = "Unpolled"
<1>1. TypeOK /\ CountersMatchKernel
  BY InitType, InitCounters
<1>2. io = NewIo /\ \E size \in PipeSizes : pipe = PipeNew(size)
  BY DEF Init
<1>3. Loop /\ CleanFinish /\ LeavesNothing
  BY <1>2, NewControl
<1>4. SocketCopy
  <2>1. ctx = new_inner
    BY DEF Init, CtxOf, Ok
  <2>2. PICK ready \in InitReady : src = SocketSource(ready)
    BY DEF Init
  <2>3. PICK writable \in InitReady : dst = Destination(FALSE, writable, FALSE)
    BY DEF Init
  <2> QED
    BY <2>1, <2>2, <2>3, AsyncFdAssumption
       DEF new_inner, SocketSource, Destination, SocketCopy
<1>5. ResultKept /\ GoneIsWoken /\ io.pc = "idle" /\ io.ret = "Unpolled"
  BY <1>2 DEF NewIo, ResultKept, GoneIsWoken
<1> QED
  BY <1>1, <1>3, <1>4, <1>5, InitWake DEF DirectionInv, Rest, WakeInv

\* A direction that has never failed and says Ok has copied its stream.
LEMMA DirectionComplete ==
  ASSUME DirectionInv, CleanFinish, io.ret = "Ok", MaxSend < IsizeMax
  PROVE  src.eof /\ ctx.bytes_written = src.arrived /\ dst.shut
<1> USE DEF DirectionInv
<1>1. io.state = "Finished" /\ io.error = "None" /\ dst.shut
  BY DEF Loop, ErrorsLast
<1>2. ~pipe.fill_fd /\ pipe.level = 0
  BY <1>1 DEF CleanFinish, Errors
<1>3. ctx.bytes_read # ctx.size_to_splice
  BY FieldTypes, AsyncFdAssumption, SpliceCtxAssumption DEF CountersMatchKernel, SocketCopy
<1>4. src.eof /\ Readable = 0
  BY <1>2, <1>3 DEF Loop, SourceEnded
<1>5. src.arrived = src.taken
  BY <1>4, FieldTypes, NoneAssumption DEF Readable, off_in, SocketCopy, NoOffset
<1> QED
  BY <1>1, <1>2, <1>4, <1>5, FieldTypes DEF CountersMatchKernel

\* A direction asleep, or ended by anything but the end of the runtime, holds
\* nothing back and waits with a waker.
LEMMA DirectionAsleep ==
  ASSUME DirectionInv, Rest, io.pc = "idle", io.ret # "Unpolled", ~task.woken,
         io.ret = "Pending" \/ ~task.gone
  PROVE  /\ io.state = "Fill" => pipe.level = 0 /\ src.waker
         /\ io.state = "Drain" => dst.waker
<1>1. CASE io.ret = "Pending"
  BY <1>1 DEF Rest, LeavesNothing, Returned, AsleepOnWaker, Parked
<1>2. CASE io.ret # "Pending"
  BY <1>2 DEF DirectionInv, TypeOK, Ios, Errors, ResultKept
<1> QED
  BY <1>1, <1>2
-----------------------------------------------------------------------------
(***************************************************************************)
(* A direction implements ByteCopy, polled after its end as before it.     *)
(***************************************************************************)
Ending ==
  IF io.state # "Finished" THEN "Running" ELSE IF pipe.drain_fd THEN "Err" ELSE "Ok"

OneWay == INSTANCE ByteCopy WITH
            produced <- src.arrived, closed <- src.eof, limit <- ctx.size_to_splice,
            bound <- pipe.size, pulled <- ctx.bytes_read,
            pushed <- ctx.bytes_written, outcome <- Ending

CopiesOn == OneWay!CopyNext \/ UNCHANGED OneWay!copyVars

\* Where nothing moves, the copy has at most failed.
LEMMA CopyStays ==
  ASSUME src'.arrived = src.arrived, src'.eof = src.eof, ctx' = ctx,
         pipe'.size = pipe.size,
         Ending' = Ending \/ (Ending = "Running" /\ Ending' = "Err")
  PROVE  CopiesOn
BY DEF CopiesOn, OneWay!copyVars, OneWay!CopyNext, OneWay!Fail

\* In Fill a splice that moves bytes pulls them, and one that fails ends the copy.
LEMMA FillCopies ==
  ASSUME DirectionInv, DirectionInv', FillPoll \/ FillSplice \/ FillClear
  PROVE  CopiesOn
<1> USE FieldTypes DEF DirectionInv
<1>1. TypeOK /\ TypeOK' /\ CountersMatchKernel /\ CountersMatchKernel' /\ SocketCopy'
  OBVIOUS
<1>2. io.state = "Fill" /\ pipe.drain_fd /\ Ending = "Running"
  BY DEF FillPoll, FillSplice, FillClear, At, Loop, EndsOpen, Ending
<1>3. src'.arrived = src.arrived /\ src'.eof = src.eof
  BY <1>1 DEF FillPoll, ReadReady, ReadPending, ReadYield, ReadGone, FillSplice,
              SourceTargetReached, SourceEof, SourceMoved, SourceWouldBlock, SourceFault,
              splice_in_moves, FillClear, ClearReadReady, TypeOK, Sources
<1>4. CASE FillPoll \/ FillClear
  <2>1. ctx' = ctx /\ pipe' = pipe /\ io'.state # "Finished"
    BY <1>1, <1>2, <1>4, GotoIo, ReturnIo DEF FillPoll, FillClear, AfterWouldBlock
  <2> QED
    BY <1>2, <1>3, <2>1, CopyStays DEF Ending
<1>5. CASE SourceMoved /\ Goto("loop", "Fill")
  <2>1. PICK n \in 1 .. pipe.size :
          /\ splice_in_moves(n, ToRead)
          /\ ctx' = [ctx EXCEPT !.bytes_read = @ + n, !.offset = Advance(@, "In", n)]
    BY <1>5 DEF SourceMoved
  <2>2. /\ ctx'.bytes_read = ctx.bytes_read + n /\ n \in Nat \ {0}
        /\ ctx'.bytes_written = ctx.bytes_written
        /\ ctx'.size_to_splice = ctx.size_to_splice
    BY <1>1, <2>1 DEF TypeOK, Ctxs
  <2>3. pipe'.size = pipe.size
    BY <1>1, <2>1 DEF splice_in_moves, TypeOK, Pipes
  <2>4. /\ ctx'.bytes_read <= ctx'.size_to_splice /\ ctx'.bytes_read <= src'.arrived
        /\ ctx'.bytes_read - ctx'.bytes_written <= pipe'.size /\ ctx'.bytes_read \in Nat
    BY <1>1, <2>2 DEF CountersMatchKernel, SocketCopy
  <2>5. Ending' = "Running"
    BY <1>1, <1>5, GotoIo DEF Ending
  <2> QED
    BY <1>1, <1>2, <1>3, <2>2, <2>3, <2>4, <2>5
       DEF CopiesOn, OneWay!CopyNext, OneWay!Pull
<1>6. CASE (SourceTargetReached \/ SourceEof) /\ Goto("loop", "Drain")
  <2>1. ctx' = ctx /\ pipe'.size = pipe.size
    BY <1>1, <1>6 DEF SourceTargetReached, SourceEof, set_fill_done, TypeOK, Pipes
  <2>2. Ending' = "Running"
    BY <1>1, <1>6, GotoIo DEF Ending
  <2> QED
    BY <1>2, <1>3, <2>1, <2>2, CopyStays
<1>7. CASE \/ SourceWouldBlock /\ Goto("clearIn", "Fill")
           \/ SourceFault /\ Faulted("Source")
  <2>1. ctx' = ctx /\ pipe' = pipe
    BY <1>7 DEF SourceWouldBlock, SourceFault
  <2>2. Ending' = "Running" \/ Ending' = "Err"
    BY <1>1, <1>2, <1>7, <2>1, GotoIo, FaultedIo DEF Ending
  <2> QED
    BY <1>2, <1>3, <2>1, <2>2, CopyStays
<1> QED
  BY <1>4, <1>5, <1>6, <1>7 DEF FillSplice

\* In Drain a splice that moves bytes pushes them; the copy ends well when the pipe
\* is empty and its write end closed, because the source has ended then.
LEMMA DrainCopies ==
  ASSUME DirectionInv, DirectionInv', DrainPoll \/ DrainSplice \/ DrainClear
  PROVE  CopiesOn
<1> USE FieldTypes DEF DirectionInv
<1>1. TypeOK /\ TypeOK' /\ CountersMatchKernel /\ CountersMatchKernel' /\ SocketCopy
  OBVIOUS
<1>2. io.state = "Drain" /\ pipe.drain_fd /\ Ending = "Running"
  BY DEF DrainPoll, DrainSplice, DrainClear, At, Loop, EndsOpen, Ending
<1>3. src' = src
  BY DEF DrainPoll, DrainSplice, DrainClear
<1>4. CASE DrainPoll \/ DrainClear
  <2>1. ctx' = ctx /\ pipe' = pipe /\ io'.state # "Finished"
    BY <1>1, <1>2, <1>4, GotoIo, ReturnIo DEF DrainPoll, DrainClear, AfterWouldBlock
  <2> QED
    BY <1>2, <1>3, <2>1, CopyStays DEF Ending
<1>5. CASE DestMoved /\ Goto("loop", "Drain")
  <2>1. PICK n \in 1 .. pipe.size :
          /\ splice_out_moves(n, ToWrite)
          /\ ctx' = [ctx EXCEPT !.bytes_written = @ + n, !.offset = Advance(@, "Out", n)]
    BY <1>5 DEF DestMoved
  <2>2. /\ ctx'.bytes_written = ctx.bytes_written + n /\ n \in Nat \ {0}
        /\ ctx'.bytes_read = ctx.bytes_read
        /\ ctx'.size_to_splice = ctx.size_to_splice
    BY <1>1, <2>1 DEF TypeOK, Ctxs
  <2>3. pipe'.size = pipe.size /\ n <= pipe.level
    BY <1>1, <2>1 DEF splice_out_moves, TypeOK, Pipes
  <2>4. ctx.bytes_written + n <= ctx.bytes_read
    BY <1>1, <2>2, <2>3 DEF CountersMatchKernel
  <2>5. Ending' = "Running"
    BY <1>1, <1>5, GotoIo DEF Ending
  <2> QED
    BY <1>1, <1>2, <1>3, <2>2, <2>3, <2>4, <2>5
       DEF CopiesOn, OneWay!CopyNext, OneWay!Push
<1>6. CASE DestDrained /\ Goto("loop", "Finished")
  <2>1. /\ ctx' = ctx /\ pipe'.size = pipe.size /\ ~pipe'.drain_fd
        /\ ~pipe.fill_fd /\ ToWrite = 0
    BY <1>1, <1>6 DEF DestDrained, set_drain_done, is_fill_done, TypeOK, Pipes
  <2>2. Ending' = "Ok"
    BY <1>1, <1>6, <2>1, GotoIo DEF Ending
  <2>3. ctx.bytes_written = ctx.bytes_read
    BY <1>1, <2>1, SpliceCtxAssumption DEF CountersMatchKernel, ToWrite, USub
  <2>4. ctx.bytes_read = ctx.size_to_splice \/ (src.eof /\ Readable = 0)
    BY <2>1 DEF Loop, SourceEnded
  <2>5. Readable = 0 => ctx.bytes_read = src.arrived
    BY <1>1, NoneAssumption DEF Readable, off_in, NoOffset, SocketCopy, CountersMatchKernel
  <2> QED
    BY <1>2, <1>3, <2>1, <2>2, <2>3, <2>4, <2>5
       DEF CopiesOn, OneWay!CopyNext, OneWay!Finish
<1>7. CASE \/ DestNoProgress /\ Goto("loop", "Fill")
           \/ DestWouldBlock /\ Goto("clearOut", "Drain")
           \/ DestFault /\ Faulted("Dest")
  <2>1. ctx' = ctx /\ pipe' = pipe
    BY <1>7 DEF DestNoProgress, DestWouldBlock, DestFault
  <2>2. Ending' = "Running" \/ Ending' = "Err"
    BY <1>1, <1>2, <1>7, <2>1, GotoIo, FaultedIo DEF Ending
  <2> QED
    BY <1>2, <1>3, <2>1, <2>2, CopyStays
<1> QED
  BY <1>4, <1>5, <1>6, <1>7 DEF DrainSplice

\* A poll of a direction is a step of the abstract copy or none; once the direction
\* has finished it is none.
LEMMA PollCopies ==
  ASSUME DirectionInv, DirectionInv', PollStep
  PROVE  CopiesOn
<1>1. CASE Finish
  <2>1. /\ src' = src /\ ctx' = ctx /\ pipe' = pipe
        /\ io.state = "Finished" /\ io \in Ios
    BY <1>1 DEF Finish, At, DirectionInv, TypeOK
  <2>2. io'.state = io.state
    BY <1>1, <2>1 DEF Finish, TakeError, Return, Ios
  <2> QED
    BY <2>1, <2>2, CopyStays DEF Ending
<1> QED
  BY <1>1, FillCopies, DrainCopies DEF PollStep

\* The world adds to the source until it has closed, and does nothing else.
LEMMA DisturbedCopies ==
  ASSUME DirectionInv, Environment
  PROVE  CopiesOn
<1> USE DEF DirectionInv, TypeOK
<1>1. io' = io /\ ctx' = ctx /\ pipe' = pipe /\ Ending' = Ending
  BY DEF Environment, Ending
<1>2. src.arrived \in Nat /\ src.eof \in BOOLEAN
  BY FieldTypes DEF Sources
<1>3. CASE PeerSends
  <2>1. /\ ~src.eof /\ src'.arrived = src.arrived + 1 /\ src'.eof = src.eof
    BY <1>3 DEF PeerSends, Sources
  <2> QED
    BY <1>1, <1>2, <2>1 DEF CopiesOn, OneWay!CopyNext, OneWay!Produce
<1>4. CASE PeerCloses \/ SourceFails
  <2>1. src'.arrived = src.arrived /\ src'.eof = TRUE
    BY <1>4 DEF PeerCloses, SourceFails, Sources
  <2>2. CASE src.eof
    <3>1. src'.eof = src.eof
      BY <1>2, <2>1, <2>2
    <3> QED
      BY <1>1, <2>1, <3>1, CopyStays
  <2>3. CASE ~src.eof
    <3>1. src'.eof \in BOOLEAN
      BY <2>1
    <3>2. src'.arrived \in Nat /\ src'.arrived >= src.arrived
      BY <1>2, <2>1
    <3> QED
      BY <1>1, <2>3, <3>1, <3>2 DEF CopiesOn, OneWay!CopyNext, OneWay!Produce
  <2> QED
    BY <2>2, <2>3
<1>5. CASE ReportReadable
  <2>1. src'.arrived = src.arrived /\ src'.eof = src.eof
    BY <1>5 DEF ReportReadable, Sources
  <2> QED
    BY <1>1, <2>1, CopyStays
<1>6. CASE src' = src
  BY <1>1, <1>6, CopyStays
<1> QED
  BY <1>3, <1>4, <1>5, <1>6
     DEF Environment, PeerReads, DestinationFails, FlushCompletes, ReportWritable,
         RuntimeShutsDown

\* A new direction has copied nothing.
LEMMA StartsCopy ==
  ASSUME Init, DirectionInv
  PROVE  OneWay!CopyInit
<1> USE FieldTypes DEF DirectionInv
<1>1. src.eof \in BOOLEAN /\ TypeOK /\ CountersMatchKernel
  BY DEF TypeOK, Sources
<1>2. ctx.bytes_read = 0 /\ ctx.bytes_written = 0
  BY <1>1 DEF Init, CountersMatchKernel, FileSource, SocketSource, Destination
<1>3. Ending = "Running"
  BY DEF Init, NewIo, Ending
<1> QED
  BY <1>1, <1>2, <1>3 DEF OneWay!CopyInit
=============================================================================
