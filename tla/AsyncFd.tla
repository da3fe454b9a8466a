------------------------------ MODULE AsyncFd ------------------------------
(***************************************************************************)
(* The two descriptors of one transfer as src/io/fd.rs uses them: the      *)
(* source `src' (poll_read_ready, try_io_read) and the destination `dst'   *)
(* (poll_write_ready, try_io_write), and the task that polls them.         *)
(*                                                                         *)
(* A descriptor is a socket registered with Tokio's reactor or a file,     *)
(* which is always ready.  Outside src/, and modelled from how src/ uses   *)
(* them: the peers, the edge-triggered kernel events, the readiness cache  *)
(* of the reactor (cleared by try_io on EAGAIN unless a newer event has    *)
(* been reported; a half-close is never cleared), the wakers, and the      *)
(* cooperative budget that makes a ready descriptor report Pending.        *)
(***************************************************************************)
EXTENDS Integers

CONSTANTS
  MaxSend,     \* bytes the peer of the source may send (bounds the model)
  SndBuf,      \* bytes the destination socket can queue for its peer
  Rereports,   \* whether an event may be reported along with another one
  Budget       \* readiness polls one task poll may make (Tokio: 128)

ASSUME AsyncFdAssumption ==
  /\ MaxSend \in Nat
  /\ SndBuf \in Nat \ {0}
  /\ Rereports \in BOOLEAN
  /\ Budget \in Nat \ {0}

VARIABLES src, dst, task

Sources ==
  [file    : BOOLEAN,   \* tokio::fs::File, else TcpStream / UnixStream
   arrived : Nat,       \* bytes the peer has sent; length of a file
   taken   : Nat,       \* bytes spliced out of it so far
   eof     : BOOLEAN,   \* the peer has closed; always so for a file
   err     : BOOLEAN,   \* reading may fail: reset connection, bad disk
   edge    : BOOLEAN,   \* kernel event that the reactor has not collected
   ready   : BOOLEAN,   \* the reactor's READABLE bit
   closed  : BOOLEAN,   \* the reactor's READ_CLOSED bit
   fresh   : BOOLEAN,   \* event reported since the last readiness snapshot
   waker   : BOOLEAN]   \* the task asked to be woken

Destinations ==
  [file     : BOOLEAN,
   accepted : Nat,      \* bytes spliced into it so far
   queued   : Nat,      \* of those, not yet read by the peer
   err      : BOOLEAN,
   edge     : BOOLEAN,
   ready    : BOOLEAN,
   closed   : BOOLEAN,
   fresh    : BOOLEAN,
   waker    : BOOLEAN,
   flushing : BOOLEAN,  \* a file write of the caller is still in flight
   shut     : BOOLEAN]  \* its write side has been shut down

Tasks ==
  [woken  : BOOLEAN,    \* scheduled to be polled (again)
   budget : Nat,
   gone   : BOOLEAN]    \* the runtime that owns the reactor has shut down

SocketSource(ready) ==
  [file |-> FALSE, arrived |-> 0, taken |-> 0, eof |-> FALSE, err |-> FALSE,
   edge |-> FALSE, ready |-> ready, closed |-> FALSE, fresh |-> FALSE,
   waker |-> FALSE]

FileSource(len) ==
  [file |-> TRUE, arrived |-> len, taken |-> 0, eof |-> TRUE, err |-> FALSE,
   edge |-> FALSE, ready |-> FALSE, closed |-> FALSE, fresh |-> FALSE,
   waker |-> FALSE]

\* A fresh socket is writable: the reactor knows already, or will be told.
Destination(file, ready, flushing) ==
  [file |-> file, accepted |-> 0, queued |-> 0, err |-> FALSE,
   edge |-> ~file /\ ~ready, ready |-> ready, closed |-> FALSE,
   fresh |-> FALSE, waker |-> FALSE, flushing |-> flushing, shut |-> FALSE]

NewTask == [woken |-> TRUE, budget |-> Budget, gone |-> FALSE]

-----------------------------------------------------------------------------
(***************************************************************************)
(* poll_read_ready and poll_write_ready.  A socket's poll ends in one of   *)
(* four ways; a file's is always Ready.                                    *)
(***************************************************************************)
ReadReady ==
  \/ src.file /\ UNCHANGED <<src, task>>
  \/ /\ ~src.file /\ task.budget > 0 /\ ~task.gone /\ (src.ready \/ src.closed)
     /\ src'  = [src EXCEPT !.fresh = FALSE]     \* try_io takes its snapshot
     /\ task' = [task EXCEPT !.budget = @ - 1]

ReadPending ==
  /\ ~src.file /\ task.budget > 0 /\ ~task.gone /\ ~src.ready /\ ~src.closed
  /\ src' = [src EXCEPT !.waker = TRUE]
  /\ UNCHANGED task

ReadGone == ~src.file /\ task.budget > 0 /\ task.gone /\ UNCHANGED <<src, task>>

\* Out of budget: Pending, and the task wakes itself.
ReadYield ==
  /\ ~src.file /\ task.budget = 0
  /\ task' = [task EXCEPT !.woken = TRUE]
  /\ UNCHANGED src

WriteReady ==
  \/ dst.file /\ UNCHANGED <<dst, task>>
  \/ /\ ~dst.file /\ task.budget > 0 /\ ~task.gone /\ (dst.ready \/ dst.closed)
     /\ dst'  = [dst EXCEPT !.fresh = FALSE]
     /\ task' = [task EXCEPT !.budget = @ - 1]

WritePending ==
  /\ ~dst.file /\ task.budget > 0 /\ ~task.gone /\ ~dst.ready /\ ~dst.closed
  /\ dst' = [dst EXCEPT !.waker = TRUE]
  /\ UNCHANGED task

WriteGone == ~dst.file /\ task.budget > 0 /\ task.gone /\ UNCHANGED <<dst, task>>

WriteYield ==
  /\ ~dst.file /\ task.budget = 0
  /\ task' = [task EXCEPT !.woken = TRUE]
  /\ UNCHANGED dst

(***************************************************************************)
(* What try_io does when the operation answers EAGAIN: it clears the       *)
(* readiness it saw, unless the reactor has reported a newer event.        *)
(***************************************************************************)
\* Mutant: a stale readiness is kept.
ClearReadReadyNever == UNCHANGED src

ClearReadReady  == src' = [src EXCEPT !.ready = @ /\ (src.file \/ src.fresh)]
ClearWriteReady == dst' = [dst EXCEPT !.ready = @ /\ (dst.file \/ dst.fresh)]

(***************************************************************************)
(* poll_shutdown.  On a socket it sends FIN at once, and may fail after a  *)
(* reset; on a file it waits for the write in flight.                      *)
(***************************************************************************)
ShutdownOk ==
  /\ ~dst.flushing
  /\ dst' = [dst EXCEPT !.shut = TRUE]
ShutdownFault ==
  /\ ~dst.flushing /\ dst.err
  /\ UNCHANGED dst
ShutdownPending ==
  /\ dst.flushing
  /\ dst' = [dst EXCEPT !.waker = TRUE]

-----------------------------------------------------------------------------
(***************************************************************************)
(* The environment: peers, kernel events and the reactor (external).       *)
(***************************************************************************)
PeerSends ==
  /\ ~src.file /\ ~src.eof /\ src.arrived < MaxSend
  /\ src' = [src EXCEPT !.arrived = @ + 1, !.edge = TRUE]
  /\ UNCHANGED <<dst, task>>

PeerCloses ==
  /\ ~src.eof
  /\ src' = [src EXCEPT !.eof = TRUE, !.edge = TRUE]
  /\ UNCHANGED <<dst, task>>

SourceFails ==
  /\ ~src.err
  /\ src' = [src EXCEPT !.err = TRUE, !.eof = TRUE, !.edge = ~src.file]
  /\ UNCHANGED <<dst, task>>

PeerReads ==
  /\ dst.queued > 0 /\ ~dst.err
  /\ dst' = [dst EXCEPT !.queued = @ - 1, !.edge = @ \/ dst.queued = SndBuf]
  /\ UNCHANGED <<src, task>>

DestinationFails ==
  /\ ~dst.err
  /\ dst' = [dst EXCEPT !.err = TRUE, !.edge = ~dst.file]
  /\ UNCHANGED <<src, task>>

FlushCompletes ==
  /\ dst.flushing
  /\ dst'  = [dst EXCEPT !.flushing = FALSE, !.waker = FALSE]
  /\ task' = [task EXCEPT !.woken = @ \/ dst.waker]
  /\ UNCHANGED src

\* What epoll reports of a socket: its state at the time of the report.
SourceReadable == src.arrived > src.taken \/ src.eof
DestinationWritable == dst.queued < SndBuf \/ dst.err

(***************************************************************************)
(* The reactor collects an event and wakes the task.  An event that is due *)
(* (`edge') will be collected; one that is not may still show up with      *)
(* another event of the same descriptor.                                   *)
(***************************************************************************)
ReportReadable ==
  /\ ~src.file
  /\ src.edge \/ (Rereports /\ SourceReadable)
  /\ IF SourceReadable
       THEN /\ src' = [src EXCEPT !.edge = FALSE, !.ready = TRUE, !.fresh = TRUE,
                                  !.closed = @ \/ src.eof, !.waker = FALSE]
            /\ task' = [task EXCEPT !.woken = @ \/ src.waker]
       ELSE src' = [src EXCEPT !.edge = FALSE] /\ UNCHANGED task
  /\ UNCHANGED dst

ReportWritable ==
  /\ ~dst.file
  /\ dst.edge \/ (Rereports /\ DestinationWritable)
  /\ IF DestinationWritable
       THEN /\ dst' = [dst EXCEPT !.edge = FALSE, !.ready = TRUE, !.fresh = TRUE,
                                  !.closed = @ \/ dst.err, !.waker = FALSE]
            /\ task' = [task EXCEPT !.woken = @ \/ dst.waker]
       ELSE dst' = [dst EXCEPT !.edge = FALSE] /\ UNCHANGED task
  /\ UNCHANGED src

RuntimeShutsDown ==
  /\ ~task.gone
  /\ task' = [task EXCEPT !.gone = TRUE, !.woken = TRUE]
  /\ UNCHANGED <<src, dst>>
=============================================================================
