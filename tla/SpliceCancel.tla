---------------------------- MODULE SpliceCancel ----------------------------
(***************************************************************************)
(* A caller that gives up on execute() and calls copy() again on the same  *)
(* descriptors, as a select! loop or a timeout does.  execute() owns the   *)
(* SpliceIo (src/io/mod.rs), so that dropping its future drops the context *)
(* and closes both ends of the pipe, with the bytes in it; the descriptors *)
(* are only borrowed, and keep what the reactor knows of them.             *)
(***************************************************************************)
EXTENDS SpliceIo

CONSTANT MaxDrops    \* how often the caller gives up (bounds the model)

ASSUME SpliceCancelAssumption == MaxDrops \in Nat

VARIABLES
  drops,       \* futures dropped so far
  lost         \* bytes that were in their pipes

cancelVars == <<vars, drops, lost>>

CancelInit == Init /\ drops = 0 /\ lost = 0

\* Mutant: the new transfer goes on with the context of the dropped one.
DropKeepsContext ==
  /\ io.pc = "idle" /\ ~Returned /\ drops < MaxDrops
  /\ drops' = drops + 1
  /\ lost' = lost + pipe.level
  /\ \E size \in PipeSizes : pipe' = PipeNew(size)
  /\ io' = NewIo
  /\ task' = [task EXCEPT !.woken = TRUE]
  /\ UNCHANGED <<req, ctx, src, dst>>

\* A future can be dropped between two polls only.  The task is running when it
\* drops one, and polls the next one without being woken.
DropAndCopyAgain ==
  /\ io.pc = "idle" /\ ~Returned /\ drops < MaxDrops
  /\ drops' = drops + 1
  /\ lost' = lost + pipe.level
  /\ ctx' = CtxOf(req).val
  /\ \E size \in PipeSizes : pipe' = PipeNew(size)
  /\ io' = NewIo
  /\ task' = [task EXCEPT !.woken = TRUE]
  /\ UNCHANGED <<req, src, dst>>

Transfers(A) == A /\ UNCHANGED <<drops, lost>>

CancelNext == Transfers(Next) \/ DropAndCopyAgain

CancelSpec == CancelInit /\ [][CancelNext]_cancelVars

\* As for a transfer that is left alone (see SpliceIo); nobody has to give up.
CancelFairness ==
  /\ WF_cancelVars(Transfers(BeginPoll \/ PollStep))
  /\ WF_cancelVars(Transfers(src.edge /\ ReportReadable /\ Outside))
  /\ WF_cancelVars(Transfers(dst.edge /\ ReportWritable /\ Outside))
  /\ WF_cancelVars(Transfers(FlushCompletes /\ Outside))
  /\ WF_cancelVars(Transfers(PeerReads /\ Outside))

FairCancelSpec == CancelSpec /\ CancelFairness

-----------------------------------------------------------------------------
\* Every byte taken from the source is with the destination, in the current
\* pipe, or was in the pipe of a dropped future, and the counters of a new
\* SpliceCtx are those of its own pipe.
BytesAccounted ==
  /\ src.taken = dst.accepted + pipe.level + lost
  /\ pipe.level = ctx.bytes_read - ctx.bytes_written

\* Giving up on a transfer that waits for its source loses nothing: bytes are
\* lost only by a drop in Drain, in Finished while the shutdown after a fault is
\* pending, or of a future that ran out of its cooperative budget (then it has
\* asked to be polled again at once).
IdleDropIsLossless ==
  [][drops' # drops /\ io.state = "Fill" /\ task.budget > 0 => lost' = lost]_cancelVars
=============================================================================
