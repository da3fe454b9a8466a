---------------------------- MODULE SpliceBidiIo ----------------------------
(***************************************************************************)
(* SpliceBidiIo (src/io/mod.rs), what copy_bidirectional() runs: two       *)
(* SpliceIo between the sockets SL and SR, polled one after the other by   *)
(* one task.  The first reads SL and writes SR, the second the other way;  *)
(* both halves of a socket fail together.                                  *)
(***************************************************************************)
EXTENDS Integers

CONSTANTS None, PipeSizes, MaxSend, SndBuf, Rereports, Budget, IsizeMax,
          Fragmented, Requests, FileLens, InitReady, FdsFail, RuntimeEnds

VARIABLES
  io1, req1, ctx1, pipe1, src1, dst1,     \* io_sl2sr
  io2, req2, ctx2, pipe2, src2, dst2,     \* io_sr2sl
  task,
  bidi     \* the bidirectional future: where its poll is, its last result
           \* and, for the properties, whether a direction ever failed

vars1 == <<io1, req1, ctx1, pipe1, src1, dst1>>
vars2 == <<io2, req2, ctx2, pipe2, src2, dst2>>
vars  == <<vars1, vars2, task, bidi>>

Sl2Sr == INSTANCE SpliceIo WITH io <- io1, req <- req1, ctx <- ctx1,
                                pipe <- pipe1, src <- src1, dst <- dst1
Sr2Sl == INSTANCE SpliceIo WITH io <- io2, req <- req2, ctx <- ctx2,
                                pipe <- pipe2, src <- src2, dst <- dst2

\* Both contexts come from SpliceCtx::new(); no stream reaches isize::MAX bytes.
ASSUME SpliceBidiIoAssumption ==
  /\ None \notin Int
  /\ PipeSizes \subseteq Nat \ {0}
  /\ MaxSend \in Nat /\ IsizeMax \in Nat /\ MaxSend < IsizeMax
  /\ SndBuf \in Nat \ {0} /\ Budget \in Nat \ {0}
  /\ Requests \subseteq {r \in Sl2Sr!Request : r.op = "copy" /\ r.target = None}
  /\ FileLens \subseteq Nat /\ InitReady \subseteq BOOLEAN
  /\ {Rereports, Fragmented, FdsFail, RuntimeEnds} \subseteq BOOLEAN

Errors == Sl2Sr!Errors

Init ==
  /\ Sl2Sr!Init /\ Sr2Sl!Init
  /\ bidi = [turn |-> "idle", ret |-> "Unpolled", failed |-> FALSE]

-----------------------------------------------------------------------------
Returned == bidi.ret \notin {"Unpolled", "Pending"}

BeginPoll ==
  /\ bidi.turn = "idle" /\ ~Returned /\ task.woken
  /\ task' = [task EXCEPT !.woken = FALSE, !.budget = Budget]
  /\ bidi' = [bidi EXCEPT !.turn = "sl2sr"]
  /\ io1'  = [io1 EXCEPT !.pc = "loop"]
  /\ UNCHANGED <<req1, ctx1, pipe1, src1, dst1, vars2>>

PollSl2Sr == bidi.turn = "sl2sr" /\ Sl2Sr!PollStep /\ UNCHANGED <<vars2, bidi>>
PollSr2Sl == bidi.turn = "sr2sl" /\ Sr2Sl!PollStep /\ UNCHANGED <<vars1, bidi>>

\* The first poll has returned: poll the second, whatever the first said.
SecondPoll ==
  /\ bidi.turn = "sl2sr" /\ io1.pc = "idle"
  /\ bidi' = [bidi EXCEPT !.turn = "sr2sl", !.failed = @ \/ io1.ret \in Errors]
  /\ io2'  = [io2 EXCEPT !.pc = "loop"]
  /\ UNCHANGED <<vars1, req2, ctx2, pipe2, src2, dst2, task>>

\* Mutant: the first direction to end ends both.
CombinedEither ==
  IF io1.ret = "Pending" /\ io2.ret = "Pending" THEN "Pending"
  ELSE IF io1.ret = "Pending" THEN io2.ret ELSE io1.ret

\* The match on both results.
Combined ==
  IF io1.ret = "Pending" \/ io2.ret = "Pending" THEN "Pending"
  ELSE IF io1.ret = "Ok" /\ io2.ret = "Ok" THEN "Ok"
  ELSE IF io1.ret # "Ok" THEN io1.ret ELSE io2.ret

\* Mutant: a second direction that yields is polled again in place.
EndPollInPlace ==
  /\ bidi.turn = "sr2sl" /\ io2.pc = "idle"
  /\ IF io2.ret = "Pending" /\ task.woken
       THEN io2' = [io2 EXCEPT !.pc = "loop"] /\ UNCHANGED bidi
       ELSE /\ bidi' = [bidi EXCEPT !.turn = "idle", !.ret = Combined,
                                   !.failed = @ \/ io2.ret \in Errors]
            /\ UNCHANGED io2
  /\ UNCHANGED <<vars1, req2, ctx2, pipe2, src2, dst2, task>>

EndPoll ==
  /\ bidi.turn = "sr2sl" /\ io2.pc = "idle"
  /\ bidi' = [bidi EXCEPT !.turn = "idle", !.ret = Combined,
                          !.failed = @ \/ io2.ret \in Errors]
  /\ UNCHANGED <<vars1, vars2, task>>

\* What execute() hands out.
TransferReport == [tx |-> ctx1.bytes_written, rx |-> ctx2.bytes_written,
                   error |-> bidi.ret # "Ok"]

PollStep == BeginPoll \/ PollSl2Sr \/ SecondPoll \/ PollSr2Sl \/ EndPoll

-----------------------------------------------------------------------------
\* A reset of SL, respectively SR, hits the reader and the writer of the socket.
ResetSl == FdsFail /\ Sl2Sr!SourceFails /\ Sr2Sl!DestinationFails
ResetSr == FdsFail /\ Sr2Sl!SourceFails /\ Sl2Sr!DestinationFails

Peers1 == Sl2Sr!PeerSends \/ Sl2Sr!PeerCloses \/ Sl2Sr!PeerReads
Peers2 == Sr2Sl!PeerSends \/ Sr2Sl!PeerCloses \/ Sr2Sl!PeerReads
Reactor1 == Sl2Sr!ReportReadable \/ Sl2Sr!ReportWritable
Reactor2 == Sr2Sl!ReportReadable \/ Sr2Sl!ReportWritable

Inner1 == <<io1, req1, ctx1, pipe1>>
Inner2 == <<io2, req2, ctx2, pipe2>>

Environment ==
  /\ \/ (Peers1 \/ Reactor1) /\ UNCHANGED <<src2, dst2>>
     \/ (Peers2 \/ Reactor2) /\ UNCHANGED <<src1, dst1>>
     \/ ResetSl
     \/ ResetSr
     \/ RuntimeEnds /\ Sl2Sr!RuntimeShutsDown /\ UNCHANGED <<src2, dst2>>
  /\ UNCHANGED <<Inner1, Inner2, bidi>>

Next == PollStep \/ Environment

Spec == Init /\ [][Next]_vars

\* As for one direction (see SpliceIo).
Outside1 == UNCHANGED <<Inner1, vars2, bidi>>
Outside2 == UNCHANGED <<Inner2, vars1, bidi>>
Fairness ==
  /\ WF_vars(PollStep)
  /\ WF_vars(src1.edge /\ Sl2Sr!ReportReadable /\ Outside1)
  /\ WF_vars(dst1.edge /\ Sl2Sr!ReportWritable /\ Outside1)
  /\ WF_vars(Sl2Sr!PeerReads /\ Outside1)
  /\ WF_vars(src2.edge /\ Sr2Sl!ReportReadable /\ Outside2)
  /\ WF_vars(dst2.edge /\ Sr2Sl!ReportWritable /\ Outside2)
  /\ WF_vars(Sr2Sl!PeerReads /\ Outside2)

-----------------------------------------------------------------------------
\* Type invariant: both directions and the bidirectional future stay in their
\* types.
TypeOK ==
  /\ Sl2Sr!TypeOK /\ Sr2Sl!TypeOK
  /\ bidi.turn \in {"idle", "sl2sr", "sr2sl"}
  /\ bidi.ret \in Errors \cup {"Unpolled", "Pending", "Ok"}
  /\ bidi.failed \in BOOLEAN

\* Polling a direction again after it has ended, which the bidirectional poll
\* does, neither panics on a closed pipe end nor moves the counters away from
\* the kernel.
RepollIsHarmless ==
  /\ Sl2Sr!NoPanic /\ Sr2Sl!NoPanic
  /\ Sl2Sr!CountersMatchKernel /\ Sr2Sl!CountersMatchKernel

\* With both directions asleep under one waker, neither holds bytes back
\* while it waits for its source, and neither waits without a waker.
Parked == bidi.turn = "idle" /\ bidi.ret = "Pending" /\ ~task.woken
NeitherHeldBack ==
  Parked => /\ io1.state = "Fill" => pipe1.level = 0 /\ src1.waker
            /\ io2.state = "Fill" => pipe2.level = 0 /\ src2.waker
            /\ io1.state = "Drain" => dst1.waker
            /\ io2.state = "Drain" => dst2.waker

\* Success without any error on the way means that both streams were copied
\* to their end and both half-closes were forwarded.
CleanSuccessIsComplete ==
  Returned /\ ~TransferReport.error /\ ~bidi.failed =>
    /\ src1.eof /\ TransferReport.tx = src1.arrived /\ dst1.shut
    /\ src2.eof /\ TransferReport.rx = src2.arrived /\ dst2.shut

\* The report of copy_bidirectional() carries the error that occurred, if any.
ErrorReported == Returned /\ bidi.failed => TransferReport.error

\* How a direction has ended: only a complete one closes the drain end of its pipe.
\* (Its result does not tell: polled on after an error it says Ok.)
Outcome(io, pipe) ==
  IF io.state # "Finished" THEN "Running" ELSE IF pipe.drain_fd THEN "Err" ELSE "Ok"

Copy1 == INSTANCE ByteCopy WITH
           produced <- src1.arrived, closed <- src1.eof, limit <- ctx1.size_to_splice,
           bound <- pipe1.size, pulled <- ctx1.bytes_read,
           pushed <- ctx1.bytes_written, outcome <- Outcome(io1, pipe1)
Copy2 == INSTANCE ByteCopy WITH
           produced <- src2.arrived, closed <- src2.eof, limit <- ctx2.size_to_splice,
           bound <- pipe2.size, pulled <- ctx2.bytes_read,
           pushed <- ctx2.bytes_written, outcome <- Outcome(io2, pipe2)

\* Each direction implements the abstract copy, although it is polled on after it
\* has ended: it ends once, well only when its stream has been copied, and no later
\* poll, nor the other direction, revives it or moves a byte for it.
BothImplementByteCopy == Copy1!CopySpec /\ Copy2!CopySpec

\* The half-close of one side reaches the other, or the direction fails, while the
\* opposite direction stays open: that of SL however busy the second direction is,
\* that of SR if the first is not endless.  (BidiEndless: an endless first starves it.)
HalfCloseForwarded ==
  /\ src1.eof ~> (dst1.shut \/ bidi.failed)
  /\ src2.eof ~> (dst2.shut \/ bidi.failed)

\* Two closed sources end the bidirectional copy.
BothClosedEnds == (src1.eof /\ src2.eof) ~> Returned
=============================================================================
