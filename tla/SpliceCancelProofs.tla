------------------------- MODULE SpliceCancelProofs -------------------------
(***************************************************************************)
(* Proofs about transfers that are dropped and started again on the same   *)
(* descriptors, for every value of the constants.  TransferInv, the part   *)
(* of the invariant of SpliceIo that does not mention how much went        *)
(* through the descriptors before, survives a drop.                        *)
(***************************************************************************)
EXTENDS SpliceCancel, SpliceIoProofs

\* The call that is repeated is one whose context can be built.
CallAccepted == CtxOf(req).ok

CancelInv ==
  /\ TransferInv /\ CallAccepted /\ BytesAccounted
  /\ drops \in Nat /\ lost \in Nat

-----------------------------------------------------------------------------
\* At the first copy() nothing is lost.
LEMMA InitCancel == CancelInit => CancelInv
<1> SUFFICES ASSUME CancelInit PROVE CancelInv
  OBVIOUS
<1>1. IInv
  BY InitIInv DEF CancelInit
<1>2. src.taken = 0 /\ dst.accepted = 0
  BY DEF CancelInit, Init, FileSource, SocketSource, Destination
<1>3. pipe.level = 0
  BY DEF CancelInit, Init, PipeNew
<1>4. CallAccepted
  BY DEF CancelInit, Init, CallAccepted
<1> QED
  BY <1>1, <1>2, <1>3, <1>4
     DEF CancelInit, CancelInv, IInv, TransferInv, PipeCounted, BytesAccounted

\* A transfer takes a step: what leaves the source arrives at the destination or
\* is in the pipe.
LEMMA TransfersStep ==
  ASSUME CancelInv, [Next]_vars, UNCHANGED <<drops, lost>>
  PROVE  CancelInv'
<1>1. TypeOK /\ PipeCounted /\ TransferInv'
  BY TransferStep DEF CancelInv, TransferInv
<1>2. /\ ctx'.bytes_read - src'.taken = ctx.bytes_read - src.taken
      /\ ctx'.bytes_written - dst'.accepted = ctx.bytes_written - dst.accepted
      /\ PipeCounted'
  BY <1>1, CountersFollow
<1>3. /\ ctx'.bytes_read \in Nat /\ ctx'.bytes_written \in Nat
      /\ src'.taken \in Nat /\ dst'.accepted \in Nat
  BY <1>1 DEF TransferInv, TypeOK, Ctxs, Sources, Destinations
<1>4. BytesAccounted'
  <2>1. /\ src.taken = dst.accepted + pipe.level + lost
        /\ pipe.level = ctx.bytes_read - ctx.bytes_written
        /\ lost \in Nat /\ lost' = lost
    BY DEF CancelInv, BytesAccounted
  <2>2. pipe'.level = ctx'.bytes_read - ctx'.bytes_written
    BY <1>2 DEF PipeCounted
  <2>3. /\ ctx.bytes_read \in Nat /\ ctx.bytes_written \in Nat
        /\ src.taken \in Nat /\ dst.accepted \in Nat
    BY <1>1, FieldTypes
  <2>4. /\ src'.taken = src.taken + (ctx'.bytes_read - ctx.bytes_read)
        /\ dst'.accepted = dst.accepted + (ctx'.bytes_written - ctx.bytes_written)
    BY <1>2, <1>3, <2>3
  <2>5. src'.taken = dst'.accepted + pipe'.level + lost
    BY <1>3, <2>1, <2>2, <2>3, <2>4
  <2> QED
    BY <2>1, <2>2, <2>5 DEF BytesAccounted
<1>5. req' = req
  BY DEF Next, BeginPoll, PollStep, FillPoll, FillSplice, FillClear, DrainPoll,
         DrainSplice, DrainClear, Finish, Environment, vars
<1> QED
  BY <1>1, <1>4, <1>5 DEF CancelInv, CallAccepted

\* The future is dropped and the call made again: a new context, an empty pipe,
\* and the bytes of the old pipe gone.
LEMMA DropStep ==
  ASSUME CancelInv, DropAndCopyAgain
  PROVE  CancelInv'
<1>1. TypeOK /\ PipeCounted /\ CallAccepted
  BY DEF CancelInv, TransferInv
<1>2. PICK size \in PipeSizes : pipe' = PipeNew(size)
  BY DEF DropAndCopyAgain
<1>3. /\ pipe'.fill_fd /\ pipe'.drain_fd /\ pipe'.level = 0 /\ pipe'.size = size
      /\ size \in Nat \ {0} /\ pipe' \in Pipes
  BY <1>2, PipeSizesAssumption DEF PipeNew, Pipes
<1>4. req \in Request /\ req' = req /\ ctx' = CtxOf(req).val
  BY <1>1, SpliceIoAssumption DEF DropAndCopyAgain, TypeOK
<1>5. ctx' \in Ctxs /\ ctx'.bytes_read = 0 /\ ctx'.bytes_written = 0
  BY <1>1, <1>4, CtxType, CtxCounters DEF CallAccepted
<1>6. io'.state = "Fill" /\ io'.error = "None" /\ io'.pc = "idle" /\ io'.ret = "Unpolled"
      /\ io' \in Ios
  BY DEF DropAndCopyAgain, NewIo, Ios
<1>7. task' \in Tasks /\ src' = src /\ dst' = dst
  BY <1>1 DEF DropAndCopyAgain, TypeOK, Tasks
<1>8. TypeOK'
  BY <1>1, <1>3, <1>4, <1>5, <1>6, <1>7 DEF TypeOK
<1>9. PipeCounted'
  <2>1. ctx'.size_to_splice \in Nat
    BY <1>5 DEF Ctxs
  <2> QED
    BY <1>3, <1>5, <2>1 DEF PipeCounted
<1>10. Loop' /\ CleanFinish' /\ LeavesNothing' /\ ReturnsOnce'
  BY <1>3, <1>6 DEF Loop, ErrorsLast, EndsOpen, SourceEnded, FillHasSource, CleanFinish,
                    LeavesNothing, ReturnsOnce, Returned
<1>11. BytesAccounted' /\ drops' \in Nat /\ lost' \in Nat
  <2>1. lost' = lost + pipe.level /\ drops' = drops + 1 /\ lost \in Nat /\ drops \in Nat
    BY DEF DropAndCopyAgain, CancelInv
  <2> QED
    BY <1>1, <1>3, <1>5, <1>7, <2>1, FieldTypes DEF CancelInv, BytesAccounted
<1> QED
  BY <1>1, <1>4, <1>8, <1>9, <1>10, <1>11 DEF CancelInv, TransferInv, CallAccepted

\* The invariant is inductive.
LEMMA CancelStep == CancelInv /\ [CancelNext]_cancelVars => CancelInv'
BY TransfersStep, DropStep DEF CancelNext, Transfers, cancelVars

\* The invariant of a transfer survives any number of drops and restarts.
THEOREM CancelInvariance == CancelSpec => []CancelInv
BY InitCancel, CancelStep, PTL DEF CancelSpec

\* However often execute() is dropped and copy() called again, every byte taken
\* from the source has arrived, is in the current pipe, or was in a dropped one.
THEOREM Accounted == CancelSpec => []BytesAccounted
<1>1. CancelInv => BytesAccounted
  BY DEF CancelInv
<1> QED
  BY <1>1, CancelInvariance, PTL

\* The second transfer on the same descriptors, with the readiness and the wakers
\* the first one left behind, cannot panic on a pipe end either.
THEOREM CancelPanicFree == CancelSpec => []NoPanic
<1>1. CancelInv => NoPanic
  BY DEF CancelInv, TransferInv, Loop, EndsOpen, NoPanic, At
<1> QED
  BY <1>1, CancelInvariance, PTL

\* Dropping a transfer that waits for its source, and has budget left, loses
\* nothing: poll_execute goes to sleep in Fill with an empty pipe only.
THEOREM IdleDropLossless == CancelSpec => IdleDropIsLossless
<1>1. CancelInv /\ [CancelNext]_cancelVars =>
        [drops' # drops /\ io.state = "Fill" /\ task.budget > 0 => lost' = lost]_cancelVars
  <2> SUFFICES ASSUME CancelInv, [CancelNext]_cancelVars,
                      drops' # drops, io.state = "Fill", task.budget > 0
               PROVE  lost' = lost
    OBVIOUS
  <2>1. DropAndCopyAgain
    BY DEF CancelNext, Transfers, cancelVars
  <2>2. TypeOK /\ LeavesNothing /\ lost \in Nat
    BY DEF CancelInv, TransferInv
  <2>3. pipe.level = 0
    BY <2>1, <2>2, FieldTypes DEF DropAndCopyAgain, LeavesNothing
  <2> QED
    BY <2>1, <2>2, <2>3 DEF DropAndCopyAgain
<1> QED
  BY <1>1, CancelInvariance, PTL DEF CancelSpec, IdleDropIsLossless
=============================================================================
