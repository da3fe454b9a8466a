-------------------------- MODULE SpliceIoRefines --------------------------
(***************************************************************************)
(* Proofs that a file transfer keeps to its range, and that one transfer   *)
(* implements ByteCopy, for every value of the constants.                  *)
(***************************************************************************)
EXTENDS SpliceIoProofs

-----------------------------------------------------------------------------
(***************************************************************************)
(* The range of a file transfer.                                           *)
(***************************************************************************)
Start == UnwrapOr(req.f_offset_start, 0)

\* The offset follows the counter of its side, and the target is the range.
RangeTracked ==
  /\ req.op = "sendfile" =>
       /\ ctx.offset = InOffset(Start + ctx.bytes_read)
       /\ Start + ctx.size_to_splice = RangeEnd
  /\ req.op = "recvfile" =>
       /\ ctx.offset = OutOffset(Start + ctx.bytes_written)
       /\ Start + ctx.size_to_splice = RangeEnd
  /\ req.op = "copy" => ctx.offset = NoOffset
  /\ src.file <=> req.op = "sendfile"

\* The bounds of the range are numbers.
LEMMA StartType == TypeOK => Start \in Nat /\ RangeEnd \in Nat /\ req \in Request
BY NoneAssumption, SpliceIoAssumption DEF TypeOK, Request, Option, Start, RangeEnd, UnwrapOr

\* with_input_file and with_output_file set the offset and target to the range.
LEMMA InitRange == Init => RangeTracked
<1> SUFFICES ASSUME Init PROVE RangeTracked
  OBVIOUS
<1> USE NoneAssumption, SpliceCtxAssumption
<1>1. TypeOK /\ CtxOf(req).ok /\ ctx = CtxOf(req).val
  BY InitType DEF Init
<1>2. Start \in Nat /\ RangeEnd \in Nat /\ req \in Request
  BY <1>1, StartType
<1>3. src.file <=> req.op = "sendfile"
  BY DEF Init, FileSource, SocketSource
<1> DEFINE size == calc_size_to_splice(req.f_len, req.f_offset_start, req.f_offset_end)
<1>4. size.ok => Start + size.val = RangeEnd
  BY <1>2 DEF calc_size_to_splice, Ok, Err, Start, RangeEnd, Request
<1>5. ASSUME NEW o, WithRange(size, o).ok
      PROVE  /\ size.ok /\ WithRange(size, o).val.offset = o
             /\ WithRange(size, o).val.size_to_splice = size.val
             /\ WithRange(size, o).val.bytes_read = 0
             /\ WithRange(size, o).val.bytes_written = 0
  BY <1>5 DEF WithRange, Ok, Err, new_inner
<1> HIDE DEF size
<1>6. CASE req.op = "copy"
  BY <1>1, <1>3, <1>6 DEF RangeTracked, CtxOf, Ok, with_target_len, new_inner
<1>7. CASE req.op = "sendfile"
  <2>1. ctx = WithRange(size, InOffset(Start)).val /\ WithRange(size, InOffset(Start)).ok
    BY <1>1, <1>7 DEF CtxOf, with_input_file, size, Start
  <2> QED
    BY <1>2, <1>3, <1>4, <1>5, <1>7, <2>1 DEF RangeTracked
<1>8. CASE req.op = "recvfile"
  <2>1. ctx = WithRange(size, OutOffset(Start)).val /\ WithRange(size, OutOffset(Start)).ok
    BY <1>1, <1>8 DEF CtxOf, with_output_file, size, Start
  <2> QED
    BY <1>2, <1>3, <1>4, <1>5, <1>8, <2>1 DEF RangeTracked
<1> QED
  BY <1>2, <1>6, <1>7, <1>8 DEF Request

\* The call's arguments and the kind of its source do not change.
LEMMA RequestKept ==
  ASSUME TypeOK, [Next]_vars
  PROVE  req' = req /\ src'.file = src.file
<1> USE DEF TypeOK
<1>1. CASE Environment
  BY <1>1, EnvironmentKeeps
<1>2. CASE UNCHANGED vars
  BY <1>2 DEF vars
<1>3. CASE FillPoll
  BY <1>3 DEF FillPoll, ReadReady, ReadPending, ReadYield, ReadGone, Sources
<1>4. CASE FillSplice
  BY <1>4 DEF FillSplice, SourceTargetReached, SourceEof, SourceMoved, SourceWouldBlock,
              SourceFault, splice_in_moves, Sources
<1>5. CASE FillClear
  BY <1>5 DEF FillClear, ClearReadReady, Sources
<1> QED
  BY <1>1, <1>2, <1>3, <1>4, <1>5
     DEF Next, PollStep, BeginPoll, DrainPoll, DrainSplice, DrainClear, Finish

\* Every step moves the offset as far as the counter of its side.
LEMMA RangeStep ==
  ASSUME TypeOK, RangeTracked, [Next]_vars
  PROVE  RangeTracked'
<1> USE FieldTypes, StartType
<1>1. Start' = Start /\ RangeEnd' = RangeEnd /\ req' = req /\ src'.file = src.file
  BY RequestKept DEF Start, RangeEnd
<1>2. CASE FillSplice /\ SourceMoved
  <2>1. PICK n \in 1 .. pipe.size :
          ctx' = [ctx EXCEPT !.bytes_read = @ + n, !.offset = Advance(@, "In", n)]
    BY <1>2 DEF SourceMoved
  <2>2. /\ ctx'.bytes_read = ctx.bytes_read + n
        /\ ctx'.bytes_written = ctx.bytes_written
        /\ ctx'.size_to_splice = ctx.size_to_splice
        /\ ctx'.offset = Advance(ctx.offset, "In", n)
    BY <2>1 DEF TypeOK, Ctxs
  <2>3. \A p \in Nat : Advance(InOffset(p), "In", n) = InOffset(p + n)
    BY DEF Advance, InOffset
  <2>4. Advance(NoOffset, "In", n) = NoOffset
        /\ \A p \in Nat : Advance(OutOffset(p), "In", n) = OutOffset(p)
    BY DEF Advance, OutOffset, NoOffset
  <2> QED
    BY <1>1, <2>2, <2>3, <2>4 DEF RangeTracked
<1>3. CASE DrainSplice /\ DestMoved
  <2>1. PICK n \in 1 .. pipe.size :
          ctx' = [ctx EXCEPT !.bytes_written = @ + n, !.offset = Advance(@, "Out", n)]
    BY <1>3 DEF DestMoved
  <2>2. /\ ctx'.bytes_read = ctx.bytes_read
        /\ ctx'.bytes_written = ctx.bytes_written + n
        /\ ctx'.size_to_splice = ctx.size_to_splice
        /\ ctx'.offset = Advance(ctx.offset, "Out", n)
    BY <2>1 DEF TypeOK, Ctxs
  <2>3. \A p \in Nat : Advance(OutOffset(p), "Out", n) = OutOffset(p + n)
    BY DEF Advance, OutOffset
  <2>4. Advance(NoOffset, "Out", n) = NoOffset
        /\ \A p \in Nat : Advance(InOffset(p), "Out", n) = InOffset(p)
    BY DEF Advance, InOffset, NoOffset
  <2> QED
    BY <1>1, <2>2, <2>3, <2>4 DEF RangeTracked
<1>4. CASE UNCHANGED Counted
  BY <1>1, <1>4 DEF Counted, RangeTracked
<1> QED
  BY <1>2, <1>3, <1>4, OnlySplicesCount

\* The offset of a file transfer is its start plus the bytes of its side.
THEOREM RangeInvariance == Spec => []RangeTracked
<1>1. TypeOK /\ RangeTracked /\ [Next]_vars => RangeTracked'
  BY RangeStep
<1> QED
  BY <1>1, InitRange, TypeCorrect, PTL DEF Spec

\* sendfile() reads, and a transfer into a file writes, the requested range
\* from its start, without a gap, and never beyond its end.
THEOREM RangeCorrect == Spec => []RangeKept
<1>1. IInv /\ RangeTracked => RangeKept
  <2> SUFFICES ASSUME IInv, RangeTracked PROVE RangeKept
    OBVIOUS
  <2>1. /\ TypeOK /\ ctx.bytes_read <= ctx.size_to_splice
        /\ ctx.bytes_written <= ctx.bytes_read
    BY FieldTypes DEF IInv, TransferInv, CountersMatchKernel
  <2>2. \A p \in Nat : InOffset(p).pos = p /\ OutOffset(p).pos = p
    BY DEF InOffset, OutOffset
  <2> QED
    BY <2>1, <2>2, FieldTypes, StartType DEF RangeKept, RangeTracked, Start
<1> QED
  BY <1>1, Invariance, RangeInvariance, PTL

-----------------------------------------------------------------------------
(***************************************************************************)
(* One transfer implements ByteCopy.                                       *)
(***************************************************************************)
\* Nothing is read that the source has not produced.
PulledIsProduced == ctx.bytes_read <= Produced

\* The invariant under which every step is one of the abstract copy.
CInv == IInv /\ RangeTracked /\ PulledIsProduced

\* What can be read is what has been produced and not been read yet.
LEMMA ReadableIsProduced ==
  ASSUME IInv, RangeTracked
  PROVE  /\ Produced \in Nat
         /\ \A n \in 1 .. Readable : ctx.bytes_read + n <= Produced
         /\ Readable = 0 /\ PulledIsProduced => ctx.bytes_read = Produced
<1> USE NoneAssumption, FieldTypes, StartType DEF IInv, TransferInv
<1>1. CASE src.file
  <2>1. /\ off_in(ctx.offset) # None /\ ctx.offset.pos = Start + ctx.bytes_read
    BY <1>1 DEF RangeTracked, off_in, InOffset
  <2>2. Readable = IF Start + ctx.bytes_read <= src.arrived
                     THEN src.arrived - (Start + ctx.bytes_read) ELSE 0
    BY <2>1 DEF Readable
  <2>3. Produced = IF Start <= src.arrived THEN src.arrived - Start ELSE 0
    BY <1>1 DEF Produced, Start
  <2> QED
    BY <2>2, <2>3 DEF PulledIsProduced
<1>2. CASE ~src.file
  <2>1. req.op \in {"copy", "sendfile", "recvfile"}
    BY DEF Request
  <2>2. off_in(ctx.offset) = None
    BY <1>2, <2>1 DEF RangeTracked, off_in, OutOffset, NoOffset
  <2>3. Readable = src.arrived - src.taken /\ Produced = src.arrived
    BY <1>2, <2>2 DEF Readable, Produced
  <2> QED
    BY <2>3 DEF PulledIsProduced, CountersMatchKernel
<1> QED
  BY <1>1, <1>2

\* The task does not change what the source has produced.
LEMMA PollKeepsSource ==
  ASSUME TypeOK, BeginPoll \/ PollStep
  PROVE  Produced' = Produced /\ src'.eof = src.eof /\ src'.arrived = src.arrived
<1> USE DEF TypeOK
<1>1. src'.arrived = src.arrived /\ src'.eof = src.eof
  <2>1. CASE FillPoll
    BY <2>1 DEF FillPoll, ReadReady, ReadPending, ReadYield, ReadGone, Sources
  <2>2. CASE FillSplice
    BY <2>2 DEF FillSplice, SourceTargetReached, SourceEof, SourceMoved, SourceWouldBlock,
                SourceFault, splice_in_moves, Sources
  <2>3. CASE FillClear
    BY <2>3 DEF FillClear, ClearReadReady, Sources
  <2> QED
    BY <2>1, <2>2, <2>3
       DEF PollStep, BeginPoll, DrainPoll, DrainSplice, DrainClear, Finish
<1>2. req' = req /\ src'.file = src.file
  BY RequestKept DEF Next
<1> QED
  BY <1>1, <1>2 DEF Produced

\* The source only adds to what it has produced, until it has closed.
LEMMA EnvironmentProduces ==
  ASSUME IInv, RangeTracked, Environment
  PROVE  \/ UNCHANGED <<Produced, src.eof>>
         \/ ~src.eof /\ Produced' \in Nat /\ Produced' >= Produced /\ src'.eof \in BOOLEAN
<1> USE DEF IInv, TransferInv, TypeOK
<1>1. req' = req /\ src'.file = src.file
  BY EnvironmentKeeps
<1>2. CASE PeerSends
  <2>1. /\ ~src.file /\ ~src.eof /\ src'.arrived = src.arrived + 1
        /\ src'.eof = src.eof /\ src.eof \in BOOLEAN
    BY <1>2 DEF PeerSends, Sources
  <2>2. Produced = src.arrived /\ Produced' = src.arrived + 1
    BY <1>1, <2>1 DEF Produced
  <2> QED
    BY <2>1, <2>2, FieldTypes
<1>3. CASE PeerCloses \/ SourceFails
  <2>1. src'.arrived = src.arrived /\ src'.eof = TRUE /\ src.eof \in BOOLEAN
    BY <1>3 DEF PeerCloses, SourceFails, Sources
  <2>2. Produced' = Produced
    BY <1>1, <2>1 DEF Produced
  <2>3. Produced \in Nat
    BY ReadableIsProduced
  <2>4. CASE src.eof
    <3>1. src.eof = TRUE
      BY <2>1, <2>4
    <3>2. src'.eof = src.eof
      BY <2>1, <3>1
    <3> QED
      BY <2>2, <3>2
  <2>5. CASE ~src.eof
    <3>1. src'.eof \in BOOLEAN
      BY <2>1
    <3>2. Produced' \in Nat /\ Produced' >= Produced
      BY <2>2, <2>3
    <3> QED
      BY <2>5, <3>1, <3>2
  <2> QED
    BY <2>4, <2>5
<1>4. CASE ReportReadable
  <2>1. src'.arrived = src.arrived /\ src'.eof = src.eof
    BY <1>4 DEF ReportReadable, Sources
  <2> QED
    BY <1>1, <2>1 DEF Produced
<1>5. CASE src' = src
  BY <1>1, <1>5 DEF Produced
<1> QED
  BY <1>2, <1>3, <1>4, <1>5
     DEF Environment, PeerReads, DestinationFails, FlushCompletes, ReportWritable,
         RuntimeShutsDown

\* Every step of a transfer is a step of the abstract copy, or none.
LEMMA CopyStep ==
  ASSUME CInv, IInv', [Next]_vars
  PROVE  (Copy!CopyNext \/ UNCHANGED Copy!copyVars) /\ PulledIsProduced'
<1> USE DEF CInv
<1>1. TypeOK /\ Produced \in Nat
  BY ReadableIsProduced DEF IInv, TransferInv
<1> USE FieldTypes
<1>2. CASE FillSplice /\ SourceMoved
  <2>1. PICK n \in 1 .. pipe.size :
          /\ splice_in_moves(n, ToRead)
          /\ ctx' = [ctx EXCEPT !.bytes_read = @ + n, !.offset = Advance(@, "In", n)]
    BY <1>2 DEF SourceMoved
  <2>2. /\ ctx'.bytes_read = ctx.bytes_read + n
        /\ ctx'.bytes_written = ctx.bytes_written
        /\ ctx'.size_to_splice = ctx.size_to_splice
    BY <1>1, <2>1 DEF TypeOK, Ctxs
  <2>3. pipe'.size = pipe.size
    BY <1>1, <2>1 DEF splice_in_moves, TypeOK, Pipes
  <2>4. Produced' = Produced /\ src'.eof = src.eof
    BY <1>1, <1>2, PollKeepsSource DEF PollStep
  <2>5. ctx.bytes_read + n <= Produced
    BY <2>1, ReadableIsProduced DEF splice_in_moves
  <2>6. ctx'.bytes_read <= ctx'.size_to_splice
        /\ ctx'.bytes_read - ctx'.bytes_written <= pipe'.size
    BY DEF IInv, CountersMatchKernel
  <2>7. Outcome = "Running" /\ Outcome' = "Running"
    <3>1. ~Returned /\ io.pc = "spliceIn"
      BY <1>2 DEF IInv, TransferInv, ReturnsOnce, FillSplice, At
    <3>2. io'.ret = io.ret
      BY <1>1, <1>2, GotoIo, FaultedIo DEF FillSplice
    <3> QED
      BY <3>1, <3>2 DEF Outcome, Returned, Errors
  <2> QED
    BY <1>1, <2>2, <2>3, <2>4, <2>5, <2>6, <2>7
       DEF Copy!CopyNext, Copy!Pull, PulledIsProduced
<1>3. CASE DrainSplice /\ DestMoved
  <2>1. PICK n \in 1 .. pipe.size :
          /\ splice_out_moves(n, ToWrite)
          /\ ctx' = [ctx EXCEPT !.bytes_written = @ + n, !.offset = Advance(@, "Out", n)]
    BY <1>3 DEF DestMoved
  <2>2. /\ ctx'.bytes_read = ctx.bytes_read
        /\ ctx'.bytes_written = ctx.bytes_written + n
        /\ ctx'.size_to_splice = ctx.size_to_splice
    BY <1>1, <2>1 DEF TypeOK, Ctxs
  <2>3. pipe'.size = pipe.size /\ n <= pipe.level
    BY <1>1, <2>1 DEF splice_out_moves, TypeOK, Pipes
  <2>4. Produced' = Produced /\ src'.eof = src.eof
    BY <1>1, <1>3, PollKeepsSource DEF PollStep
  <2>5. ctx.bytes_written + n <= ctx.bytes_read
    BY <1>1, <2>3 DEF IInv, CountersMatchKernel
  <2>6. Outcome = "Running" /\ Outcome' = "Running"
    <3>1. ~Returned
      BY <1>3 DEF IInv, TransferInv, ReturnsOnce, DrainSplice, At
    <3>2. io'.ret = io.ret
      BY <1>1, <1>3, GotoIo, FaultedIo DEF DrainSplice
    <3> QED
      BY <3>1, <3>2 DEF Outcome, Returned, Errors
  <2> QED
    BY <1>1, <2>2, <2>3, <2>4, <2>5, <2>6
       DEF Copy!CopyNext, Copy!Push, PulledIsProduced
<1>4. CASE UNCHANGED Counted
  <2>1. ctx' = ctx /\ pipe'.size = pipe.size
    BY <1>4 DEF Counted
  <2>2. CASE Environment
    <3>1. Outcome' = Outcome
      BY <1>1, <2>2, EnvironmentKeeps DEF Outcome
    <3> QED
      BY <1>1, <2>1, <2>2, <3>1, EnvironmentProduces
         DEF Copy!CopyNext, Copy!Produce, Copy!copyVars, PulledIsProduced
  <2>3. CASE UNCHANGED vars
    BY <2>3 DEF vars, Copy!copyVars, Produced, Outcome, PulledIsProduced
  <2>4. CASE BeginPoll \/ PollStep
    <3>1. Produced' = Produced /\ src'.eof = src.eof
      BY <1>1, <2>4, PollKeepsSource
    <3>2. ~Returned
      BY <2>4 DEF IInv, TransferInv, ReturnsOnce, BeginPoll, PollStep, FillPoll, FillSplice, FillClear,
                  DrainPoll, DrainSplice, DrainClear, Finish, At
    <3>3. io'.ret \in {io.ret, "Pending", "Ok"} \cup Errors
      <4>1. CASE BeginPoll \/ (Finish /\ TakeError)
        BY <1>1, <4>1 DEF BeginPoll, TakeError, TypeOK, Ios
      <4>2. CASE ~BeginPoll /\ ~(Finish /\ TakeError)
        BY <1>1, <2>4, <4>2, GotoIo, ReturnIo, FaultedIo
           DEF PollStep, FillPoll, FillSplice, FillClear, DrainPoll, DrainSplice,
               DrainClear, Finish, Errors
      <4> QED
        BY <4>1, <4>2
    <3>4. CASE io'.ret \in {io.ret, "Pending"}
      <4>1. Outcome' = Outcome
        BY <3>2, <3>4 DEF Outcome, Returned, Errors
      <4> QED
        BY <2>1, <3>1, <4>1 DEF Copy!copyVars, PulledIsProduced
    <3>5. CASE io'.ret \in Errors
      <4>1. Outcome = "Running" /\ Outcome' = "Err"
        BY <3>2, <3>5 DEF Outcome, Returned, Errors
      <4> QED
        BY <2>1, <3>1, <4>1 DEF Copy!CopyNext, Copy!Fail, PulledIsProduced
    <3>6. CASE io'.ret = "Ok"
      <4>1. Outcome = "Running" /\ Outcome' = "Ok"
        BY <3>2, <3>6 DEF Outcome, Returned, Errors
      <4>2. /\ ~pipe'.fill_fd /\ pipe'.level = 0
            /\ ctx'.bytes_read = ctx'.size_to_splice \/ (src'.eof /\ Readable' = 0)
            /\ pipe'.level = ctx'.bytes_read - ctx'.bytes_written
        BY <3>6 DEF IInv, TransferInv, Loop, ErrorsLast, SourceEnded, CleanFinish, Errors,
                    CountersMatchKernel
      <4>3. ctx.bytes_read = ctx.bytes_written
        BY <1>1, <2>1, <4>2
      <4>4. Readable' = Readable
        BY <1>1, <1>4, <2>4, PollKeepsSource, ReadableKept DEF Counted
      <4> QED
        BY <2>1, <3>1, <4>1, <4>2, <4>3, <4>4, ReadableIsProduced
           DEF Copy!CopyNext, Copy!Finish, PulledIsProduced
    <3> QED
      BY <3>3, <3>4, <3>5, <3>6
  <2> QED
    BY <2>2, <2>3, <2>4 DEF Next
<1> QED
  BY <1>1, <1>2, <1>3, <1>4, OnlySplicesCount

\* One transfer implements the abstract copy: it pulls a prefix of what the
\* source produces, pushes a prefix of what it pulled with at most one pipe of
\* bytes in flight, succeeds only when it is complete, and then stops.
THEOREM Refinement == Spec => ImplementsByteCopy
<1>1. Init => CInv /\ Copy!CopyInit
  <2> SUFFICES ASSUME Init PROVE CInv /\ Copy!CopyInit
    OBVIOUS
  <2>1. IInv /\ RangeTracked /\ TypeOK
    BY InitIInv, InitType, InitRange
  <2>2. Produced \in Nat
    BY <2>1, ReadableIsProduced
  <2>3. ctx.bytes_read = 0 /\ ctx.bytes_written = 0
    BY <2>1 DEF Init, IInv, CountersMatchKernel, FileSource, SocketSource, Destination
  <2>4. Outcome = "Running"
    BY DEF Init, NewIo, Outcome, Errors
  <2>5. src.eof \in BOOLEAN
    BY <2>1 DEF TypeOK, Sources
  <2> QED
    BY <2>1, <2>2, <2>3, <2>4, <2>5, FieldTypes
       DEF CInv, PulledIsProduced, Copy!CopyInit
<1>2. CInv /\ [Next]_vars => CInv' /\ [Copy!CopyNext]_(Copy!copyVars)
  <2> SUFFICES ASSUME CInv, [Next]_vars
               PROVE  CInv' /\ [Copy!CopyNext]_(Copy!copyVars)
    OBVIOUS
  <2>1. IInv'
    BY IInvStep DEF CInv
  <2>2. RangeTracked'
    BY RangeStep DEF CInv, IInv, TransferInv
  <2> QED
    BY <2>1, <2>2, CopyStep DEF CInv
<1> QED
  BY <1>1, <1>2, PTL DEF Spec, ImplementsByteCopy, Copy!CopySpec
=============================================================================
