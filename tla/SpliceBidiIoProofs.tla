-------------------------- MODULE SpliceBidiIoProofs --------------------------
(***************************************************************************)
(* Proofs about the bidirectional copy for every value of its constants:   *)
(* each direction keeps, under the shared task and polled again after its  *)
(* end, what SpliceIoWakeups shows of one direction; from that follow the  *)
(* properties of both together, and that both implement ByteCopy.          *)
(***************************************************************************)
EXTENDS SpliceBidiIo, TLAPS

P1 == INSTANCE SpliceIoWakeups WITH io <- io1, req <- req1, ctx <- ctx1,
                                    pipe <- pipe1, src <- src1, dst <- dst1
P2 == INSTANCE SpliceIoWakeups WITH io <- io2, req <- req2, ctx <- ctx2,
                                    pipe <- pipe2, src <- src2, dst <- dst2

-----------------------------------------------------------------------------
(***************************************************************************)
(* The inductive invariant.                                                *)
(***************************************************************************)
Bidis == [turn   : {"idle", "sl2sr", "sr2sl"},
          ret    : Errors \cup {"Unpolled", "Pending", "Ok"},
          failed : BOOLEAN]

\* One direction is polled at a time, and none once a result has been returned.
Turns ==
  /\ bidi.turn # "sl2sr" => io1.pc = "idle"
  /\ bidi.turn # "sr2sl" => io2.pc = "idle"
  /\ bidi.turn # "idle" => ~Returned

\* What a direction's last poll has left holds until its next one; of the second
\* nothing is known while the first is polled, because the task has begun anew.
Rested == P1!Rest /\ (bidi.turn # "sl2sr" => P2!Rest)

\* Every poll polls both, and returns what the match makes of both results.
Results ==
  /\ bidi.turn = "sl2sr" /\ io1.pc = "idle" => io1.ret # "Unpolled"
  /\ bidi.turn = "sr2sl" => io1.ret # "Unpolled"
  /\ bidi.turn = "sr2sl" /\ io2.pc = "idle" => io2.ret # "Unpolled"
  /\ bidi.turn = "idle" /\ bidi.ret # "Unpolled" =>
       bidi.ret = Combined /\ io1.ret # "Unpolled" /\ io2.ret # "Unpolled"

\* A direction that returns an error is noticed before its next poll; while none
\* has, Finished is the end of the source and an empty pipe.
Unfailed ==
  ~bidi.failed =>
    /\ P1!CleanFinish /\ P2!CleanFinish
    /\ io1.ret \in Errors => bidi.turn = "sl2sr" /\ io1.pc = "idle"
    /\ io2.ret \in Errors => bidi.turn = "sr2sl" /\ io2.pc = "idle"

BidiInv ==
  /\ P1!DirectionInv /\ P2!DirectionInv /\ bidi \in Bidis
  /\ Turns /\ Rested /\ Results /\ Unfailed

-----------------------------------------------------------------------------
(***************************************************************************)
(* The two instances of SpliceIo: the bidirectional model's, and the one   *)
(* that the lemmas about a direction come with.                            *)
(***************************************************************************)
\* The steps of io_sl2sr.poll_execute are those that the lemmas are about.
LEMMA SamePoll1 == Sl2Sr!PollStep => P1!PollStep
<1> USE DEF Sl2Sr!At, Sl2Sr!Goto, Sl2Sr!Return, Sl2Sr!Faulted,
            P1!At, P1!Goto, P1!Return, P1!Faulted
<1>1. Sl2Sr!FillPoll \/ Sl2Sr!FillSplice \/ Sl2Sr!FillClear =>
        P1!FillPoll \/ P1!FillSplice \/ P1!FillClear
  BY DEF Sl2Sr!FillPoll, Sl2Sr!FillSplice, Sl2Sr!FillClear, Sl2Sr!ReadReady,
         Sl2Sr!ReadPending, Sl2Sr!ReadYield, Sl2Sr!ReadGone,
         Sl2Sr!SourceTargetReached, Sl2Sr!SourceEof, Sl2Sr!SourceMoved,
         Sl2Sr!SourceWouldBlock, Sl2Sr!SourceFault, Sl2Sr!ClearReadReady,
         Sl2Sr!AfterWouldBlock, Sl2Sr!pipe_has_data, Sl2Sr!ToRead, Sl2Sr!USub,
         Sl2Sr!UsizeMax, Sl2Sr!set_fill_done, Sl2Sr!splice_in_moves,
         Sl2Sr!splice_in_eof, Sl2Sr!splice_in_again, Sl2Sr!splice_in_fault,
         Sl2Sr!PipeAccepts, Sl2Sr!PipeRefuses, Sl2Sr!Readable, Sl2Sr!off_in,
         Sl2Sr!Advance, P1!FillPoll, P1!FillSplice, P1!FillClear, P1!ReadReady,
         P1!ReadPending, P1!ReadYield, P1!ReadGone, P1!SourceTargetReached,
         P1!SourceEof, P1!SourceMoved, P1!SourceWouldBlock, P1!SourceFault,
         P1!ClearReadReady, P1!AfterWouldBlock, P1!pipe_has_data, P1!ToRead,
         P1!USub, P1!UsizeMax, P1!set_fill_done, P1!splice_in_moves,
         P1!splice_in_eof, P1!splice_in_again, P1!splice_in_fault,
         P1!PipeAccepts, P1!PipeRefuses, P1!Readable, P1!off_in, P1!Advance
<1>2. Sl2Sr!DrainPoll \/ Sl2Sr!DrainSplice \/ Sl2Sr!DrainClear =>
        P1!DrainPoll \/ P1!DrainSplice \/ P1!DrainClear
  BY DEF Sl2Sr!DrainPoll, Sl2Sr!DrainSplice, Sl2Sr!DrainClear, Sl2Sr!WriteReady,
         Sl2Sr!WritePending, Sl2Sr!WriteYield, Sl2Sr!WriteGone,
         Sl2Sr!DestDrained, Sl2Sr!DestNoProgress, Sl2Sr!DestMoved,
         Sl2Sr!DestWouldBlock, Sl2Sr!DestFault, Sl2Sr!ClearWriteReady,
         Sl2Sr!AfterWouldBlock, Sl2Sr!pipe_has_data, Sl2Sr!ToWrite, Sl2Sr!USub,
         Sl2Sr!UsizeMax, Sl2Sr!set_drain_done, Sl2Sr!is_fill_done,
         Sl2Sr!splice_out_moves, Sl2Sr!splice_out_zero, Sl2Sr!splice_out_again,
         Sl2Sr!splice_out_fault, Sl2Sr!Writable, Sl2Sr!Advance, P1!DrainPoll,
         P1!DrainSplice, P1!DrainClear, P1!WriteReady, P1!WritePending,
         P1!WriteYield, P1!WriteGone, P1!DestDrained, P1!DestNoProgress,
         P1!DestMoved, P1!DestWouldBlock, P1!DestFault, P1!ClearWriteReady,
         P1!AfterWouldBlock, P1!pipe_has_data, P1!ToWrite, P1!USub,
         P1!UsizeMax, P1!set_drain_done, P1!is_fill_done, P1!splice_out_moves,
         P1!splice_out_zero, P1!splice_out_again, P1!splice_out_fault,
         P1!Writable, P1!Advance
<1>3. Sl2Sr!Finish => P1!Finish
  BY DEF Sl2Sr!Finish, Sl2Sr!ShutdownOk, Sl2Sr!ShutdownPending, Sl2Sr!ShutdownFault,
         Sl2Sr!TakeError, P1!Finish, P1!ShutdownOk, P1!ShutdownPending,
         P1!ShutdownFault, P1!TakeError
<1> QED
  BY <1>1, <1>2, <1>3 DEF Sl2Sr!PollStep, P1!PollStep

\* So are its peers, its events and the end of the runtime.
LEMMA SameEnvironment1 ==
  ASSUME io1' = io1, req1' = req1, ctx1' = ctx1, pipe1' = pipe1,
         \/ Peers1 \/ Reactor1
         \/ FdsFail /\ (Sl2Sr!SourceFails \/ Sl2Sr!DestinationFails)
         \/ RuntimeEnds /\ Sl2Sr!RuntimeShutsDown
  PROVE  P1!Environment
BY DEF Peers1, Reactor1, P1!Environment,
       Sl2Sr!PeerSends, Sl2Sr!PeerCloses, Sl2Sr!PeerReads, Sl2Sr!ReportReadable,
       Sl2Sr!ReportWritable, Sl2Sr!SourceFails, Sl2Sr!DestinationFails,
       Sl2Sr!RuntimeShutsDown, Sl2Sr!SourceReadable, Sl2Sr!DestinationWritable,
       P1!PeerSends, P1!PeerCloses, P1!PeerReads, P1!ReportReadable,
       P1!ReportWritable, P1!SourceFails, P1!DestinationFails,
       P1!RuntimeShutsDown, P1!SourceReadable, P1!DestinationWritable

\* And so is a new transfer.
LEMMA SameInit1 ==
  ASSUME Sl2Sr!Init
  PROVE  P1!Init /\ req1 \in Requests
BY DEF Sl2Sr!Init, Sl2Sr!CtxOf, Sl2Sr!new_inner, Sl2Sr!with_target_len,
       Sl2Sr!with_input_file, Sl2Sr!with_output_file, Sl2Sr!WithRange,
       Sl2Sr!calc_size_to_splice, Sl2Sr!UnwrapOr, Sl2Sr!Ok, Sl2Sr!Err,
       Sl2Sr!NoOffset, Sl2Sr!InOffset, Sl2Sr!OutOffset, Sl2Sr!UsizeMax,
       Sl2Sr!PipeNew, Sl2Sr!FileSource, Sl2Sr!SocketSource, Sl2Sr!Destination,
       Sl2Sr!NewIo, Sl2Sr!NewTask, P1!Init, P1!CtxOf, P1!new_inner,
       P1!with_target_len, P1!with_input_file, P1!with_output_file, P1!WithRange,
       P1!calc_size_to_splice, P1!UnwrapOr, P1!Ok, P1!Err, P1!NoOffset,
       P1!InOffset, P1!OutOffset, P1!UsizeMax, P1!PipeNew, P1!FileSource,
       P1!SocketSource, P1!Destination, P1!NewIo, P1!NewTask

\* The steps of io_sr2sl.poll_execute are those that the lemmas are about.
LEMMA SamePoll2 == Sr2Sl!PollStep => P2!PollStep
<1> USE DEF Sr2Sl!At, Sr2Sl!Goto, Sr2Sl!Return, Sr2Sl!Faulted,
            P2!At, P2!Goto, P2!Return, P2!Faulted
<1>1. Sr2Sl!FillPoll \/ Sr2Sl!FillSplice \/ Sr2Sl!FillClear =>
        P2!FillPoll \/ P2!FillSplice \/ P2!FillClear
  BY DEF Sr2Sl!FillPoll, Sr2Sl!FillSplice, Sr2Sl!FillClear, Sr2Sl!ReadReady,
         Sr2Sl!ReadPending, Sr2Sl!ReadYield, Sr2Sl!ReadGone,
         Sr2Sl!SourceTargetReached, Sr2Sl!SourceEof, Sr2Sl!SourceMoved,
         Sr2Sl!SourceWouldBlock, Sr2Sl!SourceFault, Sr2Sl!ClearReadReady,
         Sr2Sl!AfterWouldBlock, Sr2Sl!pipe_has_data, Sr2Sl!ToRead, Sr2Sl!USub,
         Sr2Sl!UsizeMax, Sr2Sl!set_fill_done, Sr2Sl!splice_in_moves,
         Sr2Sl!splice_in_eof, Sr2Sl!splice_in_again, Sr2Sl!splice_in_fault,
         Sr2Sl!PipeAccepts, Sr2Sl!PipeRefuses, Sr2Sl!Readable, Sr2Sl!off_in,
         Sr2Sl!Advance, P2!FillPoll, P2!FillSplice, P2!FillClear, P2!ReadReady,
         P2!ReadPending, P2!ReadYield, P2!ReadGone, P2!SourceTargetReached,
         P2!SourceEof, P2!SourceMoved, P2!SourceWouldBlock, P2!SourceFault,
         P2!ClearReadReady, P2!AfterWouldBlock, P2!pipe_has_data, P2!ToRead,
         P2!USub, P2!UsizeMax, P2!set_fill_done, P2!splice_in_moves,
         P2!splice_in_eof, P2!splice_in_again, P2!splice_in_fault,
         P2!PipeAccepts, P2!PipeRefuses, P2!Readable, P2!off_in, P2!Advance
<1>2. Sr2Sl!DrainPoll \/ Sr2Sl!DrainSplice \/ Sr2Sl!DrainClear =>
        P2!DrainPoll \/ P2!DrainSplice \/ P2!DrainClear
  BY DEF Sr2Sl!DrainPoll, Sr2Sl!DrainSplice, Sr2Sl!DrainClear, Sr2Sl!WriteReady,
         Sr2Sl!WritePending, Sr2Sl!WriteYield, Sr2Sl!WriteGone,
         Sr2Sl!DestDrained, Sr2Sl!DestNoProgress, Sr2Sl!DestMoved,
         Sr2Sl!DestWouldBlock, Sr2Sl!DestFault, Sr2Sl!ClearWriteReady,
         Sr2Sl!AfterWouldBlock, Sr2Sl!pipe_has_data, Sr2Sl!ToWrite, Sr2Sl!USub,
         Sr2Sl!UsizeMax, Sr2Sl!set_drain_done, Sr2Sl!is_fill_done,
         Sr2Sl!splice_out_moves, Sr2Sl!splice_out_zero, Sr2Sl!splice_out_again,
         Sr2Sl!splice_out_fault, Sr2Sl!Writable, Sr2Sl!Advance, P2!DrainPoll,
         P2!DrainSplice, P2!DrainClear, P2!WriteReady, P2!WritePending,
         P2!WriteYield, P2!WriteGone, P2!DestDrained, P2!DestNoProgress,
         P2!DestMoved, P2!DestWouldBlock, P2!DestFault, P2!ClearWriteReady,
         P2!AfterWouldBlock, P2!pipe_has_data, P2!ToWrite, P2!USub,
         P2!UsizeMax, P2!set_drain_done, P2!is_fill_done, P2!splice_out_moves,
         P2!splice_out_zero, P2!splice_out_again, P2!splice_out_fault,
         P2!Writable, P2!Advance
<1>3. Sr2Sl!Finish => P2!Finish
  BY DEF Sr2Sl!Finish, Sr2Sl!ShutdownOk, Sr2Sl!ShutdownPending, Sr2Sl!ShutdownFault,
         Sr2Sl!TakeError, P2!Finish, P2!ShutdownOk, P2!ShutdownPending,
         P2!ShutdownFault, P2!TakeError
<1> QED
  BY <1>1, <1>2, <1>3 DEF Sr2Sl!PollStep, P2!PollStep

\* So are its peers, its events and the end of the runtime.
LEMMA SameEnvironment2 ==
  ASSUME io2' = io2, req2' = req2, ctx2' = ctx2, pipe2' = pipe2,
         \/ Peers2 \/ Reactor2
         \/ FdsFail /\ (Sr2Sl!SourceFails \/ Sr2Sl!DestinationFails)
         \/ RuntimeEnds /\ Sr2Sl!RuntimeShutsDown
  PROVE  P2!Environment
BY DEF Peers2, Reactor2, P2!Environment,
       Sr2Sl!PeerSends, Sr2Sl!PeerCloses, Sr2Sl!PeerReads, Sr2Sl!ReportReadable,
       Sr2Sl!ReportWritable, Sr2Sl!SourceFails, Sr2Sl!DestinationFails,
       Sr2Sl!RuntimeShutsDown, Sr2Sl!SourceReadable, Sr2Sl!DestinationWritable,
       P2!PeerSends, P2!PeerCloses, P2!PeerReads, P2!ReportReadable,
       P2!ReportWritable, P2!SourceFails, P2!DestinationFails,
       P2!RuntimeShutsDown, P2!SourceReadable, P2!DestinationWritable

\* And so is a new transfer.
LEMMA SameInit2 ==
  ASSUME Sr2Sl!Init
  PROVE  P2!Init /\ req2 \in Requests
BY DEF Sr2Sl!Init, Sr2Sl!CtxOf, Sr2Sl!new_inner, Sr2Sl!with_target_len,
       Sr2Sl!with_input_file, Sr2Sl!with_output_file, Sr2Sl!WithRange,
       Sr2Sl!calc_size_to_splice, Sr2Sl!UnwrapOr, Sr2Sl!Ok, Sr2Sl!Err,
       Sr2Sl!NoOffset, Sr2Sl!InOffset, Sr2Sl!OutOffset, Sr2Sl!UsizeMax,
       Sr2Sl!PipeNew, Sr2Sl!FileSource, Sr2Sl!SocketSource, Sr2Sl!Destination,
       Sr2Sl!NewIo, Sr2Sl!NewTask, P2!Init, P2!CtxOf, P2!new_inner,
       P2!with_target_len, P2!with_input_file, P2!with_output_file, P2!WithRange,
       P2!calc_size_to_splice, P2!UnwrapOr, P2!Ok, P2!Err, P2!NoOffset,
       P2!InOffset, P2!OutOffset, P2!UsizeMax, P2!PipeNew, P2!FileSource,
       P2!SocketSource, P2!Destination, P2!NewIo, P2!NewTask

-----------------------------------------------------------------------------
(***************************************************************************)
(* What the first direction, io_sl2sr, keeps.                              *)
(***************************************************************************)
\* A poll, also one after the direction has returned.
LEMMA Polls1 ==
  ASSUME P1!DirectionInv, Sl2Sr!PollStep
  PROVE  P1!Polled
<1>1. P1!PollStep
  BY SamePoll1
<1> QED
  BY <1>1, P1!DirectionPoll, SpliceBidiIoAssumption
     DEF P1!Request, P1!Option, Sl2Sr!Request, Sl2Sr!Option

\* The beginning of a poll.
LEMMA Begins1 ==
  ASSUME P1!DirectionInv, io1.pc = "idle", io1' = [io1 EXCEPT !.pc = "loop"],
         req1' = req1, ctx1' = ctx1, pipe1' = pipe1,
         src1' = src1, dst1' = dst1, task' \in P1!Tasks, task.gone => task'.gone
  PROVE  /\ P1!DirectionInv' /\ P1!Rest' /\ (P1!CleanFinish => P1!CleanFinish')
         /\ io1'.pc = "loop" /\ io1'.ret = io1.ret
BY P1!DirectionBegins, SpliceBidiIoAssumption
   DEF P1!Request, P1!Option, Sl2Sr!Request, Sl2Sr!Option

\* Its peers, its events and the end of the runtime.
LEMMA Disturbed1 ==
  ASSUME P1!DirectionInv, io1' = io1,
         req1' = req1, ctx1' = ctx1, pipe1' = pipe1,
         \/ Peers1 \/ Reactor1
         \/ FdsFail /\ (Sl2Sr!SourceFails \/ Sl2Sr!DestinationFails)
         \/ RuntimeEnds /\ Sl2Sr!RuntimeShutsDown
  PROVE  P1!LeftAlone /\ P1!TaskOnward
<1>1. P1!Environment
  BY SameEnvironment1
<1> QED
  BY <1>1, P1!DirectionDisturbed, SpliceBidiIoAssumption
     DEF P1!Request, P1!Option, Sl2Sr!Request, Sl2Sr!Option

\* Steps that leave the direction alone and may use the task.
LEMMA Waits1 ==
  ASSUME P1!DirectionInv, io1' = io1, req1' = req1, ctx1' = ctx1, pipe1' = pipe1,
         src1' = src1, dst1' = dst1, task' \in P1!Tasks, task.gone => task'.gone
  PROVE  P1!LeftAlone
BY P1!DirectionWaits, SpliceBidiIoAssumption
   DEF P1!Request, P1!Option, Sl2Sr!Request, Sl2Sr!Option

\* Its beginning: SpliceCtx::new() on two sockets.
LEMMA Starts1 ==
  ASSUME Sl2Sr!Init
  PROVE  /\ P1!DirectionInv /\ P1!Rest /\ P1!CleanFinish
         /\ io1.pc = "idle" /\ io1.ret = "Unpolled"
<1>1. P1!Init /\ req1.op = "copy" /\ req1.target = None
  BY SameInit1, SpliceBidiIoAssumption
<1> QED
  BY <1>1, P1!DirectionInit, SpliceBidiIoAssumption
     DEF P1!Request, P1!Option, Sl2Sr!Request, Sl2Sr!Option

\* Its success: unless it has failed before, Ok means that the stream is copied.
LEMMA Completes1 ==
  ASSUME P1!DirectionInv, P1!CleanFinish, io1.ret = "Ok"
  PROVE  src1.eof /\ ctx1.bytes_written = src1.arrived /\ dst1.shut
BY P1!DirectionComplete, SpliceBidiIoAssumption
   DEF P1!Request, P1!Option, Sl2Sr!Request, Sl2Sr!Option

\* Its sleep: it holds nothing back, and has a waker where it will look again.
LEMMA Sleeps1 ==
  ASSUME P1!DirectionInv, P1!Rest, io1.pc = "idle", io1.ret # "Unpolled",
         ~task.woken, io1.ret = "Pending" \/ ~task.gone
  PROVE  /\ io1.state = "Fill" => pipe1.level = 0 /\ src1.waker
         /\ io1.state = "Drain" => dst1.waker
BY P1!DirectionAsleep, SpliceBidiIoAssumption
   DEF P1!Request, P1!Option, Sl2Sr!Request, Sl2Sr!Option

-----------------------------------------------------------------------------
(***************************************************************************)
(* What the second direction, io_sr2sl, keeps.                             *)
(***************************************************************************)
\* A poll, also one after the direction has returned.
LEMMA Polls2 ==
  ASSUME P2!DirectionInv, Sr2Sl!PollStep
  PROVE  P2!Polled
<1>1. P2!PollStep
  BY SamePoll2
<1> QED
  BY <1>1, P2!DirectionPoll, SpliceBidiIoAssumption
     DEF P2!Request, P2!Option, Sl2Sr!Request, Sl2Sr!Option

\* The beginning of a poll.
LEMMA Begins2 ==
  ASSUME P2!DirectionInv, io2.pc = "idle", io2' = [io2 EXCEPT !.pc = "loop"],
         req2' = req2, ctx2' = ctx2, pipe2' = pipe2,
         src2' = src2, dst2' = dst2, task' \in P2!Tasks, task.gone => task'.gone
  PROVE  /\ P2!DirectionInv' /\ P2!Rest' /\ (P2!CleanFinish => P2!CleanFinish')
         /\ io2'.pc = "loop" /\ io2'.ret = io2.ret
BY P2!DirectionBegins, SpliceBidiIoAssumption
   DEF P2!Request, P2!Option, Sl2Sr!Request, Sl2Sr!Option

\* Its peers, its events and the end of the runtime.
LEMMA Disturbed2 ==
  ASSUME P2!DirectionInv, io2' = io2,
         req2' = req2, ctx2' = ctx2, pipe2' = pipe2,
         \/ Peers2 \/ Reactor2
         \/ FdsFail /\ (Sr2Sl!SourceFails \/ Sr2Sl!DestinationFails)
         \/ RuntimeEnds /\ Sr2Sl!RuntimeShutsDown
  PROVE  P2!LeftAlone /\ P2!TaskOnward
<1>1. P2!Environment
  BY SameEnvironment2
<1> QED
  BY <1>1, P2!DirectionDisturbed, SpliceBidiIoAssumption
     DEF P2!Request, P2!Option, Sl2Sr!Request, Sl2Sr!Option

\* Steps that leave the direction alone and may use the task.
LEMMA Waits2 ==
  ASSUME P2!DirectionInv, io2' = io2, req2' = req2, ctx2' = ctx2, pipe2' = pipe2,
         src2' = src2, dst2' = dst2, task' \in P2!Tasks, task.gone => task'.gone
  PROVE  P2!LeftAlone
BY P2!DirectionWaits, SpliceBidiIoAssumption
   DEF P2!Request, P2!Option, Sl2Sr!Request, Sl2Sr!Option

\* Its beginning: SpliceCtx::new() on two sockets.
LEMMA Starts2 ==
  ASSUME Sr2Sl!Init
  PROVE  /\ P2!DirectionInv /\ P2!Rest /\ P2!CleanFinish
         /\ io2.pc = "idle" /\ io2.ret = "Unpolled"
<1>1. P2!Init /\ req2.op = "copy" /\ req2.target = None
  BY SameInit2, SpliceBidiIoAssumption
<1> QED
  BY <1>1, P2!DirectionInit, SpliceBidiIoAssumption
     DEF P2!Request, P2!Option, Sl2Sr!Request, Sl2Sr!Option

\* Its success: unless it has failed before, Ok means that the stream is copied.
LEMMA Completes2 ==
  ASSUME P2!DirectionInv, P2!CleanFinish, io2.ret = "Ok"
  PROVE  src2.eof /\ ctx2.bytes_written = src2.arrived /\ dst2.shut
BY P2!DirectionComplete, SpliceBidiIoAssumption
   DEF P2!Request, P2!Option, Sl2Sr!Request, Sl2Sr!Option

\* Its sleep: it holds nothing back, and has a waker where it will look again.
LEMMA Sleeps2 ==
  ASSUME P2!DirectionInv, P2!Rest, io2.pc = "idle", io2.ret # "Unpolled",
         ~task.woken, io2.ret = "Pending" \/ ~task.gone
  PROVE  /\ io2.state = "Fill" => pipe2.level = 0 /\ src2.waker
         /\ io2.state = "Drain" => dst2.waker
BY P2!DirectionAsleep, SpliceBidiIoAssumption
   DEF P2!Request, P2!Option, Sl2Sr!Request, Sl2Sr!Option

-----------------------------------------------------------------------------
(***************************************************************************)
(* The invariant is inductive.                                             *)
(***************************************************************************)
\* Both directions see the same task.
LEMMA SameTask ==
  /\ P1!Tasks = P2!Tasks /\ (P1!TaskOnward <=> P2!TaskOnward)
  /\ P1!Errors = Errors /\ P2!Errors = Errors
BY DEF P1!Tasks, P2!Tasks, P1!TaskOnward, P2!TaskOnward, P1!Errors, P2!Errors, Errors,
       Sl2Sr!Errors

\* The types that the steps need.
LEMMA BidiTypes ==
  ASSUME BidiInv
  PROVE  /\ task \in P1!Tasks /\ task \in P2!Tasks
         /\ io1.ret \in Errors \cup {"Unpolled", "Pending", "Ok"}
         /\ io2.ret \in Errors \cup {"Unpolled", "Pending", "Ok"}
         /\ bidi \in Bidis
<1>1. P1!TypeOK /\ P2!TypeOK
  BY DEF BidiInv, P1!DirectionInv, P2!DirectionInv
<1> QED
  BY <1>1, SameTask DEF BidiInv, P1!TypeOK, P2!TypeOK, P1!Ios, P2!Ios

\* Before the first poll.
LEMMA InitBidi == Init => BidiInv
<1> SUFFICES ASSUME Init PROVE BidiInv
  OBVIOUS
<1>1. bidi = [turn |-> "idle", ret |-> "Unpolled", failed |-> FALSE]
  BY DEF Init
<1>2. /\ P1!DirectionInv /\ P1!Rest /\ P1!CleanFinish
      /\ io1.pc = "idle" /\ io1.ret = "Unpolled"
  BY Starts1 DEF Init
<1>3. /\ P2!DirectionInv /\ P2!Rest /\ P2!CleanFinish
      /\ io2.pc = "idle" /\ io2.ret = "Unpolled"
  BY Starts2 DEF Init
<1> QED
  BY <1>1, <1>2, <1>3
     DEF BidiInv, Bidis, Turns, Returned, Rested, Results, Unfailed, Errors, Sl2Sr!Errors

\* The executor polls the future: the first direction begins.
LEMMA BeginPollStep ==
  ASSUME BidiInv, BeginPoll
  PROVE  BidiInv'
<1>1. /\ bidi.turn = "idle" /\ bidi'.turn = "sl2sr" /\ bidi'.ret = bidi.ret
      /\ bidi'.failed = bidi.failed /\ bidi' \in Bidis /\ ~Returned
  BY DEF BeginPoll, BidiInv, Bidis
<1>2. task' \in P1!Tasks /\ task' \in P2!Tasks /\ task'.gone = task.gone
  BY BidiTypes, SameTask, SpliceBidiIoAssumption DEF BeginPoll, P1!Tasks
<1>3. io1.pc = "idle" /\ io2.pc = "idle"
  BY <1>1 DEF BidiInv, Turns
<1>4. /\ P1!DirectionInv' /\ P1!Rest' /\ (P1!CleanFinish => P1!CleanFinish')
      /\ io1'.pc = "loop" /\ io1'.ret = io1.ret
  BY <1>2, <1>3, Begins1 DEF BeginPoll, BidiInv
<1>5. P2!LeftAlone
  BY <1>2, Waits2 DEF BeginPoll, BidiInv, vars2
<1>6. P2!DirectionInv' /\ (P2!CleanFinish => P2!CleanFinish') /\ io2' = io2
  BY <1>5 DEF P2!LeftAlone
<1>7. Turns' /\ Rested' /\ Results'
  BY <1>1, <1>3, <1>4, <1>6 DEF Turns, Returned, Rested, Results
<1>8. Unfailed'
  BY <1>1, <1>3, <1>4, <1>6 DEF BidiInv, Unfailed
<1> QED
  BY <1>1, <1>4, <1>6, <1>7, <1>8 DEF BidiInv

\* A step of the first direction's poll.
LEMMA PollSl2SrStep ==
  ASSUME BidiInv, PollSl2Sr
  PROVE  BidiInv'
<1>1. bidi.turn = "sl2sr" /\ bidi' = bidi /\ io2' = io2
  BY DEF PollSl2Sr, vars2
<1>2. P1!Polled
  BY Polls1 DEF PollSl2Sr, BidiInv
<1>3. /\ P1!DirectionInv' /\ P1!Rest' /\ P1!TaskOnward
      /\ P1!CleanFinish /\ io1.ret \notin Errors => P1!CleanFinish'
      /\ io1.pc # "idle"
      /\ IF io1'.pc = "idle" THEN io1'.ret # "Unpolled" ELSE io1'.ret = io1.ret
  BY <1>2, SameTask DEF P1!Polled
<1>4. task' \in P2!Tasks /\ (task.gone => task'.gone)
  BY <1>3, SameTask DEF P1!TaskOnward
<1>5. P2!LeftAlone
  BY <1>4, Waits2 DEF PollSl2Sr, BidiInv, vars2
<1>6. P2!DirectionInv' /\ (P2!CleanFinish => P2!CleanFinish')
  BY <1>5 DEF P2!LeftAlone
<1>7. Turns' /\ Rested' /\ Results'
  BY <1>1, <1>3 DEF BidiInv, Turns, Returned, Rested, Results
<1>8. Unfailed'
  BY <1>1, <1>3, <1>6 DEF BidiInv, Unfailed
<1> QED
  BY <1>1, <1>3, <1>6, <1>7, <1>8 DEF BidiInv, Bidis

\* The first direction has returned: the second begins.
LEMMA SecondPollStep ==
  ASSUME BidiInv, SecondPoll
  PROVE  BidiInv'
<1>1. /\ bidi.turn = "sl2sr" /\ bidi'.turn = "sr2sl" /\ bidi'.ret = bidi.ret
      /\ bidi'.failed = (bidi.failed \/ io1.ret \in Errors)
      /\ bidi' \in Bidis /\ ~Returned
  BY DEF SecondPoll, BidiInv, Bidis, Turns
<1>2. io1.pc = "idle" /\ io2.pc = "idle" /\ io1.ret # "Unpolled"
  BY <1>1 DEF SecondPoll, BidiInv, Turns, Results
<1>3. task' = task /\ task \in P1!Tasks /\ task \in P2!Tasks
  BY BidiTypes DEF SecondPoll
<1>4. P1!LeftAlone
  BY <1>3, Waits1 DEF SecondPoll, BidiInv, vars1
<1>5. P1!TaskOnward
  BY <1>3 DEF P1!TaskOnward
<1>6. P1!DirectionInv' /\ P1!Rest' /\ (P1!CleanFinish => P1!CleanFinish') /\ io1' = io1
  BY <1>4, <1>5 DEF P1!LeftAlone, BidiInv, Rested
<1>7. /\ P2!DirectionInv' /\ P2!Rest' /\ (P2!CleanFinish => P2!CleanFinish')
      /\ io2'.pc = "loop" /\ io2'.ret = io2.ret
  BY <1>2, <1>3, Begins2 DEF SecondPoll, BidiInv
<1>8. Turns' /\ Rested' /\ Results'
  BY <1>1, <1>2, <1>6, <1>7 DEF Turns, Returned, Rested, Results
<1>9. Unfailed'
  BY <1>1, <1>2, <1>6, <1>7 DEF BidiInv, Unfailed
<1> QED
  BY <1>1, <1>6, <1>7, <1>8, <1>9 DEF BidiInv

\* A step of the second direction's poll.
LEMMA PollSr2SlStep ==
  ASSUME BidiInv, PollSr2Sl
  PROVE  BidiInv'
<1>1. bidi.turn = "sr2sl" /\ bidi' = bidi /\ io1' = io1
  BY DEF PollSr2Sl, vars1
<1>2. P2!Polled
  BY Polls2 DEF PollSr2Sl, BidiInv
<1>3. /\ P2!DirectionInv' /\ P2!Rest' /\ P2!TaskOnward
      /\ P2!CleanFinish /\ io2.ret \notin Errors => P2!CleanFinish'
      /\ io2.pc # "idle"
      /\ IF io2'.pc = "idle" THEN io2'.ret # "Unpolled" ELSE io2'.ret = io2.ret
  BY <1>2, SameTask DEF P2!Polled
<1>4. P1!TaskOnward /\ task' \in P1!Tasks /\ (task.gone => task'.gone)
  BY <1>3, SameTask DEF P1!TaskOnward
<1>5. P1!LeftAlone
  BY <1>4, Waits1 DEF PollSr2Sl, BidiInv, vars1
<1>6. P1!DirectionInv' /\ P1!Rest' /\ (P1!CleanFinish => P1!CleanFinish')
  BY <1>4, <1>5 DEF P1!LeftAlone, BidiInv, Rested
<1>7. Turns' /\ Rested' /\ Results'
  BY <1>1, <1>3, <1>6 DEF BidiInv, Turns, Returned, Rested, Results
<1>8. Unfailed'
  BY <1>1, <1>3, <1>6 DEF BidiInv, Unfailed
<1> QED
  BY <1>1, <1>3, <1>6, <1>7, <1>8 DEF BidiInv, Bidis

\* A step that leaves both SpliceIo alone and the task no worse.
LEMMA BothKept ==
  ASSUME BidiInv, P1!LeftAlone, P2!LeftAlone, P1!TaskOnward
  PROVE  /\ P1!DirectionInv' /\ P1!Rest' /\ io1' = io1
         /\ P2!DirectionInv' /\ (P2!Rest => P2!Rest') /\ io2' = io2
         /\ P1!CleanFinish => P1!CleanFinish'
         /\ P2!CleanFinish => P2!CleanFinish'
BY SameTask DEF P1!LeftAlone, P2!LeftAlone, BidiInv, Rested

\* The second direction has returned: the match on both results.
LEMMA EndPollStep ==
  ASSUME BidiInv, EndPoll
  PROVE  BidiInv'
<1>1. task' = task /\ task \in P1!Tasks /\ task \in P2!Tasks
  BY BidiTypes DEF EndPoll
<1>2. P1!LeftAlone /\ P2!LeftAlone
  BY <1>1, Waits1, Waits2 DEF EndPoll, BidiInv, vars1, vars2
<1>3. P1!TaskOnward
  BY <1>1 DEF P1!TaskOnward
<1>4. /\ P1!DirectionInv' /\ P1!Rest' /\ io1' = io1
      /\ P2!DirectionInv' /\ (P2!Rest => P2!Rest') /\ io2' = io2
      /\ P1!CleanFinish => P1!CleanFinish'
      /\ P2!CleanFinish => P2!CleanFinish'
  BY <1>2, <1>3, BothKept
<1>5. Combined \in Errors \cup {"Unpolled", "Pending", "Ok"}
  BY BidiTypes DEF Combined
<1>6. /\ bidi.turn = "sr2sl" /\ bidi'.turn = "idle" /\ bidi'.ret = Combined
      /\ bidi'.failed = (bidi.failed \/ io2.ret \in Errors)
      /\ bidi' \in Bidis
  BY <1>5 DEF EndPoll, BidiInv, Bidis
<1>7. io1.pc = "idle" /\ io2.pc = "idle" /\ io1.ret # "Unpolled" /\ io2.ret # "Unpolled"
  BY <1>6 DEF EndPoll, BidiInv, Turns, Results
<1>8. Turns' /\ Rested' /\ Results'
  BY <1>4, <1>6, <1>7 DEF BidiInv, Turns, Rested, Results, Combined
<1>9. Unfailed'
  BY <1>4, <1>6, <1>7 DEF BidiInv, Unfailed
<1> QED
  BY <1>4, <1>6, <1>8, <1>9 DEF BidiInv

\* The peers, the kernel and the reactor; a reset hits both directions at once.
LEMMA EnvironmentStep ==
  ASSUME BidiInv, Environment
  PROVE  BidiInv'
<1> USE DEF BidiInv
<1>1. /\ bidi' = bidi
      /\ io1' = io1 /\ req1' = req1 /\ ctx1' = ctx1 /\ pipe1' = pipe1
      /\ io2' = io2 /\ req2' = req2 /\ ctx2' = ctx2 /\ pipe2' = pipe2
  BY DEF Environment, Inner1, Inner2
<1>2. P1!LeftAlone /\ P2!LeftAlone /\ P1!TaskOnward
  <2>1. CASE /\ Peers1 \/ Reactor1 \/ (RuntimeEnds /\ Sl2Sr!RuntimeShutsDown)
             /\ UNCHANGED <<src2, dst2>>
    <3>1. P1!LeftAlone /\ P1!TaskOnward
      BY <1>1, <2>1, Disturbed1
    <3>2. task' \in P2!Tasks /\ (task.gone => task'.gone)
      BY <3>1, SameTask DEF P1!TaskOnward
    <3> QED
      BY <1>1, <2>1, <3>1, <3>2, Waits2
  <2>2. CASE (Peers2 \/ Reactor2) /\ UNCHANGED <<src1, dst1>>
    <3>1. P2!LeftAlone /\ P2!TaskOnward
      BY <1>1, <2>2, Disturbed2
    <3>2. P1!TaskOnward /\ task' \in P1!Tasks /\ (task.gone => task'.gone)
      BY <3>1, SameTask DEF P1!TaskOnward
    <3> QED
      BY <1>1, <2>2, <3>1, <3>2, Waits1
  <2>3. CASE ResetSl \/ ResetSr
    BY <1>1, <2>3, Disturbed1, Disturbed2 DEF ResetSl, ResetSr
  <2> QED
    BY <2>1, <2>2, <2>3 DEF Environment
<1>3. /\ P1!DirectionInv' /\ P1!Rest'
      /\ P2!DirectionInv' /\ (P2!Rest => P2!Rest')
      /\ P1!CleanFinish => P1!CleanFinish'
      /\ P2!CleanFinish => P2!CleanFinish'
  BY <1>2, BothKept
<1>4. Turns' /\ Rested' /\ Results' /\ Unfailed'
  BY <1>1, <1>3 DEF Turns, Returned, Rested, Results, Combined, Unfailed
<1> QED
  BY <1>1, <1>3, <1>4 DEF Bidis

\* Nothing happens.
LEMMA BidiStutter ==
  ASSUME BidiInv, UNCHANGED vars
  PROVE  BidiInv'
<1>1. task' = task /\ task \in P1!Tasks /\ task \in P2!Tasks
  BY BidiTypes DEF vars
<1>2. P1!LeftAlone /\ P2!LeftAlone
  BY <1>1, Waits1, Waits2 DEF vars, BidiInv, vars1, vars2
<1>3. P1!TaskOnward
  BY <1>1 DEF P1!TaskOnward
<1>4. /\ P1!DirectionInv' /\ P1!Rest' /\ io1' = io1
      /\ P2!DirectionInv' /\ (P2!Rest => P2!Rest') /\ io2' = io2
      /\ P1!CleanFinish => P1!CleanFinish'
      /\ P2!CleanFinish => P2!CleanFinish'
  BY <1>2, <1>3, BothKept
<1>5. bidi' = bidi
  BY DEF vars
<1> QED
  BY <1>4, <1>5
     DEF BidiInv, Bidis, Turns, Returned, Rested, Results, Combined, Unfailed

-----------------------------------------------------------------------------
(***************************************************************************)
(* The theorems.                                                           *)
(***************************************************************************)
\* SpliceBidiIo::poll_execute keeps each direction's invariant, although it polls
\* a direction again after its end and both share the task.
THEOREM BidiInvariance == Spec => []BidiInv
<1>1. BidiInv /\ [Next]_vars => BidiInv'
  BY BeginPollStep, PollSl2SrStep, SecondPollStep, PollSr2SlStep, EndPollStep,
     EnvironmentStep, BidiStutter DEF Next, PollStep
<1> QED
  BY <1>1, InitBidi, PTL DEF Spec

\* Both directions and the bidirectional future stay in their types.
THEOREM BidiTypeCorrect == Spec => []TypeOK
<1>1. BidiInv => TypeOK
  <2> SUFFICES ASSUME BidiInv PROVE TypeOK
    OBVIOUS
  <2>1. P1!TypeOK /\ P2!TypeOK
    BY DEF BidiInv, P1!DirectionInv, P2!DirectionInv
  <2>2. Sl2Sr!TypeOK
    BY <2>1 DEF P1!TypeOK, P1!Ios, P1!Errors, P1!Ctxs, P1!Offsets, P1!Pipes, P1!Sources,
       P1!Destinations, P1!Tasks, Sl2Sr!TypeOK, Sl2Sr!Ios, Sl2Sr!Errors, Sl2Sr!Ctxs,
       Sl2Sr!Offsets, Sl2Sr!Pipes, Sl2Sr!Sources, Sl2Sr!Destinations, Sl2Sr!Tasks
  <2>3. Sr2Sl!TypeOK
    BY <2>1 DEF P2!TypeOK, P2!Ios, P2!Errors, P2!Ctxs, P2!Offsets, P2!Pipes, P2!Sources,
       P2!Destinations, P2!Tasks, Sr2Sl!TypeOK, Sr2Sl!Ios, Sr2Sl!Errors, Sr2Sl!Ctxs,
       Sr2Sl!Offsets, Sr2Sl!Pipes, Sr2Sl!Sources, Sr2Sl!Destinations, Sr2Sl!Tasks
  <2> QED
    BY <2>2, <2>3 DEF TypeOK, BidiInv, Bidis
<1> QED
  BY <1>1, BidiInvariance, PTL

\* poll_execute of a direction that has ended, which the bidirectional poll calls,
\* panics on no closed pipe end and keeps the counters in step with the kernel.
THEOREM RepollHarmless == Spec => []RepollIsHarmless
<1>1. BidiInv => RepollIsHarmless
  <2> SUFFICES ASSUME BidiInv PROVE RepollIsHarmless
    OBVIOUS
  <2>1. P1!Loop /\ P1!CountersMatchKernel /\ P2!Loop /\ P2!CountersMatchKernel
    BY DEF BidiInv, P1!DirectionInv, P2!DirectionInv
  <2>2. Sl2Sr!NoPanic /\ Sr2Sl!NoPanic
    BY <2>1 DEF P1!Loop, P1!EndsOpen, P2!Loop, P2!EndsOpen, Sl2Sr!NoPanic, Sl2Sr!At,
       Sr2Sl!NoPanic, Sr2Sl!At
  <2>3. Sl2Sr!CountersMatchKernel /\ Sr2Sl!CountersMatchKernel
    BY <2>1 DEF P1!CountersMatchKernel, P2!CountersMatchKernel,
       Sl2Sr!CountersMatchKernel, Sr2Sl!CountersMatchKernel
  <2> QED
    BY <2>2, <2>3 DEF RepollIsHarmless
<1> QED
  BY <1>1, BidiInvariance, PTL

\* One waker for two directions: asleep, neither holds bytes in its pipe while it
\* waits for its source, and each has its waker where it will look again.
THEOREM BothWakeable == Spec => []NeitherHeldBack
<1>1. BidiInv => NeitherHeldBack
  <2> SUFFICES ASSUME BidiInv, Parked PROVE NeitherHeldBack
    BY DEF NeitherHeldBack
  <2>1. /\ bidi.turn = "idle" /\ bidi.ret = "Pending" /\ ~task.woken
        /\ io1.pc = "idle" /\ io2.pc = "idle"
        /\ io1.ret # "Unpolled" /\ io2.ret # "Unpolled" /\ Combined = "Pending"
    BY DEF Parked, BidiInv, Turns, Results
  <2>2. P1!DirectionInv /\ P1!Rest /\ P2!DirectionInv /\ P2!Rest
    BY <2>1 DEF BidiInv, Rested
  <2>3. io1.ret = "Pending" \/ io2.ret = "Pending"
    BY <2>1 DEF Combined
  <2>4. ~task.gone
    BY <2>1, <2>2, <2>3 DEF P1!Rest, P1!GoneIsWoken, P2!Rest, P2!GoneIsWoken
  <2>5. /\ io1.state = "Fill" => pipe1.level = 0 /\ src1.waker
        /\ io1.state = "Drain" => dst1.waker
    BY <2>1, <2>2, <2>4, Sleeps1
  <2>6. /\ io2.state = "Fill" => pipe2.level = 0 /\ src2.waker
        /\ io2.state = "Drain" => dst2.waker
    BY <2>1, <2>2, <2>4, Sleeps2
  <2> QED
    BY <2>5, <2>6 DEF NeitherHeldBack
<1> QED
  BY <1>1, BidiInvariance, PTL

\* A report without error, when no direction has failed on the way: both streams
\* have been copied to their end and both half-closes forwarded.
THEOREM CleanSuccessComplete == Spec => []CleanSuccessIsComplete
<1>1. BidiInv => CleanSuccessIsComplete
  <2> SUFFICES ASSUME BidiInv, Returned, ~TransferReport.error, ~bidi.failed
               PROVE  CleanSuccessIsComplete
    BY DEF CleanSuccessIsComplete
  <2>1. bidi.turn = "idle" /\ bidi.ret = "Ok"
    BY DEF BidiInv, Turns, TransferReport
  <2>2. Combined = "Ok"
    BY <2>1 DEF BidiInv, Results
  <2>3. io1.ret = "Ok" /\ io2.ret = "Ok"
    BY <2>2 DEF Combined
  <2>4. P1!DirectionInv /\ P1!CleanFinish /\ P2!DirectionInv /\ P2!CleanFinish
    BY DEF BidiInv, Unfailed
  <2> QED
    BY <2>3, <2>4, Completes1, Completes2 DEF CleanSuccessIsComplete, TransferReport
<1> QED
  BY <1>1, BidiInvariance, PTL

-----------------------------------------------------------------------------
(***************************************************************************)
(* Both directions implement ByteCopy.                                     *)
(***************************************************************************)
\* The abstract copy of the first direction is the one that the lemmas are about.
LEMMA SameCopy1 ==
  /\ P1!OneWay!CopyInit => Copy1!CopyInit
  /\ P1!CopiesOn => Copy1!CopyNext \/ UNCHANGED Copy1!copyVars
BY DEF P1!CopiesOn, P1!Ending, P1!OneWay!CopyInit, P1!OneWay!CopyNext,
       P1!OneWay!copyVars, P1!OneWay!Produce, P1!OneWay!Pull, P1!OneWay!Push,
       P1!OneWay!Finish, P1!OneWay!Fail, Outcome, Copy1!CopyInit, Copy1!CopyNext,
       Copy1!copyVars, Copy1!Produce, Copy1!Pull, Copy1!Push, Copy1!Finish, Copy1!Fail

\* A new first direction has copied nothing.
LEMMA CopyStarts1 ==
  ASSUME Sl2Sr!Init
  PROVE  Copy1!CopyInit
<1>1. P1!Init /\ P1!DirectionInv
  BY SameInit1, Starts1
<1>2. P1!OneWay!CopyInit
  BY <1>1, P1!StartsCopy, SpliceBidiIoAssumption
     DEF P1!Request, P1!Option, Sl2Sr!Request, Sl2Sr!Option
<1> QED
  BY <1>2, SameCopy1

\* Its polls, also after its end, are steps of the abstract copy.
LEMMA CopyPolls1 ==
  ASSUME P1!DirectionInv, P1!DirectionInv', Sl2Sr!PollStep
  PROVE  Copy1!CopyNext \/ UNCHANGED Copy1!copyVars
<1>1. P1!PollStep
  BY SamePoll1
<1>2. P1!CopiesOn
  BY <1>1, P1!PollCopies, SpliceBidiIoAssumption
     DEF P1!Request, P1!Option, Sl2Sr!Request, Sl2Sr!Option
<1> QED
  BY <1>2, SameCopy1

\* So is what the world does to its source.
LEMMA CopyDisturbed1 ==
  ASSUME P1!DirectionInv, io1' = io1,
         req1' = req1, ctx1' = ctx1, pipe1' = pipe1,
         \/ Peers1 \/ Reactor1
         \/ FdsFail /\ (Sl2Sr!SourceFails \/ Sl2Sr!DestinationFails)
         \/ RuntimeEnds /\ Sl2Sr!RuntimeShutsDown
  PROVE  Copy1!CopyNext \/ UNCHANGED Copy1!copyVars
<1>1. P1!Environment
  BY SameEnvironment1
<1>2. P1!CopiesOn
  BY <1>1, P1!DisturbedCopies, SpliceBidiIoAssumption
     DEF P1!Request, P1!Option, Sl2Sr!Request, Sl2Sr!Option
<1> QED
  BY <1>2, SameCopy1

\* The executor and the other direction do not touch it; that a poll begins is not
\* a step of it.
LEMMA CopyWaits1 ==
  ASSUME ctx1' = ctx1, pipe1' = pipe1, src1' = src1, io1'.state = io1.state
  PROVE  UNCHANGED Copy1!copyVars
BY DEF Copy1!copyVars, Outcome

\* The abstract copy of the second direction is the one that the lemmas are about.
LEMMA SameCopy2 ==
  /\ P2!OneWay!CopyInit => Copy2!CopyInit
  /\ P2!CopiesOn => Copy2!CopyNext \/ UNCHANGED Copy2!copyVars
BY DEF P2!CopiesOn, P2!Ending, P2!OneWay!CopyInit, P2!OneWay!CopyNext,
       P2!OneWay!copyVars, P2!OneWay!Produce, P2!OneWay!Pull, P2!OneWay!Push,
       P2!OneWay!Finish, P2!OneWay!Fail, Outcome, Copy2!CopyInit, Copy2!CopyNext,
       Copy2!copyVars, Copy2!Produce, Copy2!Pull, Copy2!Push, Copy2!Finish, Copy2!Fail

\* A new second direction has copied nothing.
LEMMA CopyStarts2 ==
  ASSUME Sr2Sl!Init
  PROVE  Copy2!CopyInit
<1>1. P2!Init /\ P2!DirectionInv
  BY SameInit2, Starts2
<1>2. P2!OneWay!CopyInit
  BY <1>1, P2!StartsCopy, SpliceBidiIoAssumption
     DEF P2!Request, P2!Option, Sl2Sr!Request, Sl2Sr!Option
<1> QED
  BY <1>2, SameCopy2

\* Its polls, also after its end, are steps of the abstract copy.
LEMMA CopyPolls2 ==
  ASSUME P2!DirectionInv, P2!DirectionInv', Sr2Sl!PollStep
  PROVE  Copy2!CopyNext \/ UNCHANGED Copy2!copyVars
<1>1. P2!PollStep
  BY SamePoll2
<1>2. P2!CopiesOn
  BY <1>1, P2!PollCopies, SpliceBidiIoAssumption
     DEF P2!Request, P2!Option, Sl2Sr!Request, Sl2Sr!Option
<1> QED
  BY <1>2, SameCopy2

\* So is what the world does to its source.
LEMMA CopyDisturbed2 ==
  ASSUME P2!DirectionInv, io2' = io2,
         req2' = req2, ctx2' = ctx2, pipe2' = pipe2,
         \/ Peers2 \/ Reactor2
         \/ FdsFail /\ (Sr2Sl!SourceFails \/ Sr2Sl!DestinationFails)
         \/ RuntimeEnds /\ Sr2Sl!RuntimeShutsDown
  PROVE  Copy2!CopyNext \/ UNCHANGED Copy2!copyVars
<1>1. P2!Environment
  BY SameEnvironment2
<1>2. P2!CopiesOn
  BY <1>1, P2!DisturbedCopies, SpliceBidiIoAssumption
     DEF P2!Request, P2!Option, Sl2Sr!Request, Sl2Sr!Option
<1> QED
  BY <1>2, SameCopy2

\* The executor and the other direction do not touch it; that a poll begins is not
\* a step of it.
LEMMA CopyWaits2 ==
  ASSUME ctx2' = ctx2, pipe2' = pipe2, src2' = src2, io2'.state = io2.state
  PROVE  UNCHANGED Copy2!copyVars
BY DEF Copy2!copyVars, Outcome

\* Every step of the bidirectional copy is a step, or none, of both abstract copies.
LEMMA BothCopyStep ==
  ASSUME BidiInv, BidiInv', [Next]_vars
  PROVE  /\ Copy1!CopyNext \/ UNCHANGED Copy1!copyVars
         /\ Copy2!CopyNext \/ UNCHANGED Copy2!copyVars
<1>1. /\ P1!DirectionInv /\ P1!DirectionInv' /\ io1 \in P1!Ios
      /\ P2!DirectionInv /\ P2!DirectionInv' /\ io2 \in P2!Ios
  BY DEF BidiInv, P1!DirectionInv, P2!DirectionInv, P1!TypeOK, P2!TypeOK
<1>2. CASE BeginPoll
  <2>1. io1'.state = io1.state /\ io2' = io2
    BY <1>1, <1>2 DEF BeginPoll, vars2, P1!Ios
  <2> QED
    BY <1>2, <2>1, CopyWaits1, CopyWaits2 DEF BeginPoll, vars2
<1>3. CASE PollSl2Sr
  BY <1>1, <1>3, CopyPolls1, CopyWaits2 DEF PollSl2Sr, vars2
<1>4. CASE SecondPoll
  <2>1. io1' = io1 /\ io2'.state = io2.state
    BY <1>1, <1>4 DEF SecondPoll, vars1, P2!Ios
  <2> QED
    BY <1>4, <2>1, CopyWaits1, CopyWaits2 DEF SecondPoll, vars1
<1>5. CASE PollSr2Sl
  BY <1>1, <1>5, CopyPolls2, CopyWaits1 DEF PollSr2Sl, vars1
<1>6. CASE EndPoll \/ UNCHANGED vars
  BY <1>6, CopyWaits1, CopyWaits2 DEF EndPoll, vars, vars1, vars2
<1>7. CASE Environment
  <2>1. /\ io1' = io1 /\ req1' = req1 /\ ctx1' = ctx1 /\ pipe1' = pipe1
        /\ io2' = io2 /\ req2' = req2 /\ ctx2' = ctx2 /\ pipe2' = pipe2
    BY <1>7 DEF Environment, Inner1, Inner2
  <2>2. CASE /\ Peers1 \/ Reactor1 \/ (RuntimeEnds /\ Sl2Sr!RuntimeShutsDown)
             /\ UNCHANGED <<src2, dst2>>
    BY <1>1, <2>1, <2>2, CopyDisturbed1, CopyWaits2
  <2>3. CASE (Peers2 \/ Reactor2) /\ UNCHANGED <<src1, dst1>>
    BY <1>1, <2>1, <2>3, CopyDisturbed2, CopyWaits1
  <2>4. CASE ResetSl \/ ResetSr
    BY <1>1, <2>1, <2>4, CopyDisturbed1, CopyDisturbed2 DEF ResetSl, ResetSr
  <2> QED
    BY <1>7, <2>2, <2>3, <2>4 DEF Environment
<1> QED
  BY <1>2, <1>3, <1>4, <1>5, <1>6, <1>7 DEF Next, PollStep

\* Under the bidirectional poll, which polls a direction that has ended until the
\* other has ended too, each direction implements the abstract copy: it ends once,
\* well only when its stream is copied, and nothing moves for it afterwards.
THEOREM BothRefine == Spec => BothImplementByteCopy
<1>1. Init => Copy1!CopyInit /\ Copy2!CopyInit
  BY CopyStarts1, CopyStarts2 DEF Init
<1>2. BidiInv /\ BidiInv' /\ [Next]_vars =>
        [Copy1!CopyNext]_(Copy1!copyVars) /\ [Copy2!CopyNext]_(Copy2!copyVars)
  BY BothCopyStep
<1> QED
  BY <1>1, <1>2, BidiInvariance, PTL
     DEF Spec, BothImplementByteCopy, Copy1!CopySpec, Copy2!CopySpec
=============================================================================
