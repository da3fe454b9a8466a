# TLA+ models of tokio-splice2

The crate copies bytes between descriptors with `splice(2)`: source -> kernel
pipe -> destination, driven by a Tokio task. This directory holds TLA+ modules
for that machinery, TLC configurations that check them on small instances, and
TLAPS proofs for every value of the constants.

## 1. Inventory of the system

| Component | Code | State | Operations |
|---|---|---|---|
| Offsets and ranges | `src/splice/util.rs` | `Offset` (none, in, out) | `off_in`, `off_out`, `calc_size_to_splice` |
| Pipe | `src/pipe.rs` | two optional owned ends, granted size | `new`, `with_pipe_size`, `set_fill_done`, `set_drain_done` |
| Descriptors | `src/io/fd.rs` | none of its own; Tokio's readiness behind it | `poll_*_ready`, `try_io_*` for sockets and files |
| Splice context | `src/splice/mod.rs` | target length, offset, `bytes_read`, `bytes_written`, pipe | constructors, `try_splice_from_source`, `try_splice_to_dest` |
| Live splicer | `src/splice/exec.rs` | none | `splice_in`, `splice_out` (the system call) |
| Unidirectional transfer | `src/io/mod.rs` (`SpliceIo`) | `TransferState`: Fill, Drain, Finished{error} | `poll_execute`, `execute` |
| Bidirectional transfer | `src/io/mod.rs` (`SpliceBidiIo`) | two `SpliceIo` | `poll_execute`, `execute` |
| Entry points, report | `src/lib.rs`, `src/transfer_report.rs` | `tx`, `rx`, `error` | `copy`, `sendfile`, `copy_bidirectional` |
| Test doubles | `src/io/mock.rs`, `src/splice/mock.rs` | queues of scripted answers | `script_*`, and the traits' calls, which pop them |
| Proxy example | `examples/proxy.rs` | listener, a task with two sockets and two pipes per connection | `main`, `serve`, `forwarding` |

How they interact. `execute()` awaits `poll_execute`, a loop over the transfer
state. *Fill* asks the source for readiness, then runs `try_splice_from_source`
inside `try_io_read`; *Drain* does the same with the destination and
`try_splice_to_dest`; *Finished* shuts the writer down and hands out the error.
Every decision is taken from the two counters, never from the pipe itself. Two
other parties act in between: the kernel and the peers (bytes come and go,
sockets close and fail), and the reactor, on another thread, which turns
edge-triggered events into readiness bits and wakeups. `try_io_*` clears a
readiness bit when the operation answers EAGAIN, unless the reactor has reported
a newer event. The bidirectional future polls both transfers, in a fixed order,
under one waker and one cooperative budget, also after one of them has ended.

What is hard here, and is listed with its line under `hazards` in
`PROJECT.json`: EAGAIN that does not mean what its receiver assumes; events
between EAGAIN and the clearing of readiness; sleeping on the wrong descriptor;
`expect()` on pipe ends that an earlier poll may have closed; unsigned
subtraction of counters; ending too early, or not at all; errors lost between
polls or between the two directions; a future dropped with bytes in its pipe; one
direction starving the other; descriptors that leak, or are closed twice, when a
constructor fails half-way; a full descriptor table; a pipe of another size than
asked for.

What makes each part correct: the counters are what the kernel moved; no panic;
no bytes are left behind while the task sleeps on the source; every sleep has a
waker; success means complete; an error is never turned into success; file
transfers stay in their range; a closed source ends the transfer; half-closes are
forwarded; every descriptor has one owner for as long as it is open; a recorded
pipe size is the real one.

## 2. Modules

| Module | Models |
|---|---|
| `Offset` | `Offset` and the range arithmetic |
| `Pipe` | `Pipe`, plus `level`, the bytes the kernel really holds |
| `AsyncFd` | one source, one destination and the task: the calls of `fd.rs`, and (external) peers, kernel events, the reactor, wakers, the cooperative budget |
| `SpliceCtx` | the context, its constructors, `splice(2)` as `Live` calls it, and each way that the two splice attempts end |
| `SpliceIo` | `poll_execute` with the task that runs it; the properties of one transfer |
| `ByteCopy` | abstract specification: what a copy promises |
| `SpliceBidiIo` | two instances of `SpliceIo` under one task |
| `SpliceCancel` | `SpliceIo` under a caller that drops the future and calls again |
| `BidiEndless` | `SpliceBidiIo` with an endless sender on either side |
| `EntryPoints` | the calls of `lib.rs` and the pipes they create, size, own and close; several calls share one descriptor table |
| `Proxy` | `examples/proxy.rs` on top of `EntryPoints` |
| `ScriptedIo` | `poll_execute` over the test doubles, and the unit tests |
| `MC...` | the calls, or the scripts, that the TLC configurations use |

| Proof module | Theorems about |
|---|---|
| `SpliceIoProofs` | `SpliceIo`: types, counters, the inductive invariant, the safety properties |
| `SpliceIoRefines` | `SpliceIo`: file ranges, and the refinement of `ByteCopy` |
| `SpliceIoWakeups` | `SpliceIo`: wakeups of the writer; lemmas about one direction of a bidirectional copy |
| `SpliceBidiIoProofs` | `SpliceBidiIo` |
| `SpliceCancelProofs` | `SpliceCancel` |
| `EntryPointsProofs` | `EntryPoints` |
| `ProxyProofs` | `Proxy` |
| `ScriptedIoProofs` | `ScriptedIo` |

`Offset`, `Pipe` and `AsyncFd` are extended by `SpliceCtx`, that by `SpliceIo`;
`SpliceBidiIo` instantiates `SpliceIo` twice, sharing `task`. `SpliceCancel` extends
`SpliceIo`, `BidiEndless` extends `SpliceBidiIo`, `Proxy` extends `EntryPoints`;
`EntryPoints` extends `Offset`, `ScriptedIo` extends `Pipe`.

### State and actions against the code

* `io = [state, error, pc, ret]`: `TransferState`, the error of `Finished`, the
  point that `poll_execute` has reached, and the last value it returned.
  `ctx`, `pipe`: the structs of the same names. `req`: the arguments of the call.
* One action is one stretch of `poll_execute` between two points where the reactor
  or the kernel can interfere: the readiness poll (`FillPoll`, `DrainPoll`), the
  splice attempt (`FillSplice`, `DrainSplice`), the clearing of readiness after
  EAGAIN together with the transition that follows (`FillClear`, `DrainClear`),
  and the shutdown (`Finish`). `BeginPoll` is the executor polling a woken task.
* The outcomes of `try_splice_from_source` are `SourceTargetReached`,
  `SourceMoved`, `SourceEof`, `SourceWouldBlock` and `SourceFault`; those of
  `try_splice_to_dest` are `DestDrained`, `DestNoProgress`, `DestMoved`,
  `DestWouldBlock` and `DestFault`. Where both apply (bytes are there and the
  connection has been reset), either may happen.
* `splice(2)` moves any number of bytes from one up to what is possible. A full
  pipe answers EAGAIN; with `Fragmented`, so may a pipe that is merely not empty,
  because the kernel counts slots, not bytes. An empty pipe answers EAGAIN, or end
  of file once its write end is closed.
* Readiness: `edge` is an event that the kernel owes the reactor, `ready` and
  `closed` are the reactor's bits, `fresh` says that an event came after the
  snapshot which `try_io` took, and `waker` that the task is registered. `closed`
  is never cleared. With `Rereports` an event may also be reported without a new
  edge, as epoll does along with another event of the descriptor. Tokio counts its
  ticks per descriptor, `fresh` is kept per direction: an event of the other
  direction of the same socket may make the real `try_io` keep a bit that the model
  clears, which costs one more attempt and a second EAGAIN.
* `usize` arithmetic: `USub` wraps like a release build; `CountersMatchKernel`
  shows that it never does.
* In `SpliceBidiIo`, `bidi.failed` is not in the code: it remembers that some
  direction has returned an error.
* `SpliceCancel`: `execute` owns the `SpliceIo`, so `DropAndCopyAgain` replaces
  context, pipe and state by new ones and leaves the borrowed descriptors as they
  are, their readiness and wakers included. A future is dropped between two polls.
  `drops` and `lost` are not in the code.
* `BidiEndless` needs byte counts that do not grow for ever. Without a target
  length the code only compares counts with each other, so `RebasedSend` moves
  their origin when the pipe is empty.
* `EntryPoints`: one action per system call of a constructor (`PipeWith`,
  `PipeSize`, `WithPipeSize`), each with its failure (`pipe2` fails for want of
  descriptors, or at any time, as with ENFILE); `SetDone` is a running
  transfer that closes an end of a pipe, the fill end first; `Return` and `Drop`
  close what is left. A range is computed before the pipe is created, as the
  struct expressions of `with_input_file` and `with_output_file` do. `open` is the
  process's descriptor table, from which the kernel gives the lowest free number;
  `granted` is the size the kernel's pipe really has.
* `Proxy`: the runtime is `current_thread`, so a task is not interrupted between
  two awaits (`Busy`). `Abort` (external) is Tokio's runtime dropping a task after
  `main` has returned: its pipes first, then, with `ForwardingEnds`, its sockets.
* `ScriptedIo`: `left` is what the queues still hold, `script` (not in the code)
  what they were given. The tests are a debug build, so a subtraction that
  underflows and a counter that overflows panic there, where `SpliceCtx` wraps.
  `Latest`, `LastRead` and `LastWrite` look at the answers played last.

## 3. What TLC checks

| Run | Configuration | Shows |
|---|---|---|
| transfer_safety | `Safety.cfg` | sockets, file ranges, pending shutdown: all safety properties and `ImplementsByteCopy` |
| cancel | `Cancel.cfg` | futures dropped and calls made again: `BytesAccounted`, `IdleDropIsLossless`; `ClosedSourceEnds` and `NoBusyLoop`, with drops and without |
| open_source | `OpenSource.cfg` | `BytesGetThrough`, `TargetEnds`, `DeadDestinationNoticed` while the send buffer fills up and the pipe does not |
| bidi_safety | `BidiSafety.cfg` | both directions under one waker, polls after the end, resets: `RepollIsHarmless`, `NeitherHeldBack`, `CleanSuccessIsComplete`, `BothImplementByteCopy` |
| bidi_progress | `BidiProgress.cfg` | `HalfCloseForwarded` while the other direction stays open, the second one also endless; `BothClosedEnds` |
| ownership | `Ownership.cfg` | two concurrent calls and four descriptors: `FdsOwnedOnce`, `SizeIsGranted`, `RangeAsAsked`, `ShortageResolves` |
| proxy | `Proxy.cfg` | two connections and nine descriptors: `ProxyFdsOwnedOnce`, `ClosedConnectionsHoldNothing`, `ShutdownReleases` |
| scripted | `Scripted.cfg` | arbitrary descriptors: `MetersMatchSplices`, `OkIsComplete`, `HeldBackNeedsOddFd`, `RefillNeedsOddWriter`; the assertions of the unit tests |
| small_pipe | `SmallPipe.cfg` | **violated**: finding 1 |
| empty_target | `EmptyTarget.cfg` | **violated**: finding 2 |
| bidi_error_lost | `BidiErrorLost.cfg` | **violated**: finding 3 |
| endless_second | `EndlessSecond.cfg` | **violated**: finding 4 |

Every property of a passing run has a mutant: a definition named "Mutant" next to
the one it replaces, that makes the property fail.

Bounds. `MaxSend` is 3 bytes for one direction, so that a pipe of 1 or 2 bytes
fills up, is drained in part and refills; `SndBuf = 2`, so that the destination
refuses, and accepts less than it is offered; `Budget = 2`, so that the task also
yields in the middle of a round; `IsizeMax = 7` is beyond anything that can be
sent, as in reality. `open_source` has `SndBuf = 1` for two bytes:
the destination answers EAGAIN and its readiness is cleared, and a reset also meets a
full send buffer; its pipe holds both bytes, which keeps finding 1 out of it. Files have 0, 2 or 4 real bytes against a stated length of 3,
with absent, inner, empty and invalid ranges (a call whose constructor fails never
starts). Two directions use one byte each and a pipe of one byte: enough for each
to be in any of its states while the other is in any of its own. `bidi_progress`
leaves resets out to keep the liveness check small. `cancel` uses two bytes and at
most two drops: the second future can again be dropped with bytes in its pipe, and
the third inherits what two have left. It reports each event once (`Rereports` off),
the harder case for liveness and the one in which `NoBusyLoop` makes sense: with
events repeated for ever the task is woken for ever. `endless_second` counts up to
two bytes before it moves the origin, so that the endless sender is ahead of a pipe and
a send buffer of one; in `bidi_progress` the peer of SR sends its next byte, for ever if
it likes, when the pipe has delivered the last one. `ownership` has four descriptors for calls that need
two or four each, sizes in pages with the kernel's rounding to 1, 2 or 4, and ranges
at and around both ends of a file of one byte. `proxy` has nine descriptors: a
listener, one connection of six, and a second one that runs out at its first or
second pipe unless the first has closed some. `scripted` plays every script of up to
three attempts to read and two to write (every outcome of `try_io` and of the
splicer, too few of them, too much readiness, too little; results up to `usize::MAX`),
polled up to twice. Deadlock is not checked: a transfer that has ended, or waits for a
silent peer, may stop; so may a process that makes no further call.

Fairness (`FairSpec`). A woken task is polled and its code runs on; the reactor
collects an event that is due; a file write in flight completes; and the peer of
the destination goes on reading, without which no copy can make progress. Nothing
is assumed of the source: it may stay silent, or open, for ever. `CancelFairness` is
the same, and never forces a drop. `EndlessSpec1` adds
that the endless sender sends; in `EndlessSpec2` it may, and owes nothing.
In `EntryPoints` only the code between two awaits must run on; transfers may last for
ever. In `Proxy`, a task that has ended drops what it owns, and the runtime drops the
remaining tasks after `main`; clients, upstream and Ctrl-C owe nothing.

## 4. Findings

1. *A full pipe stalls the transfer* (`small_pipe`, code bug). The EAGAIN of a full
   pipe comes out of the closure given to `try_io_read` (`src/io/mod.rs:160`), which
   takes it for an empty socket and clears its readiness. The pipe is drained, Fill
   waits, and no edge is due: the unread bytes stay in the socket until the peer
   sends more or closes. `src/pipe.rs:73` says that a smaller buffer will work.
   `ClosedSourceEnds` shows the limit of the damage: a source that closes does end it.
2. *A target length of 0 waits for the source* (`empty_target`): readiness comes
   before the comparison with the target.
3. *An error of one direction is lost* (`bidi_error_lost`, code bug): with the other
   direction pending the `match` drops it, and the finished direction, polled again,
   answers `Ok`.
4. *The second direction can starve* (`endless_second`). `poll_execute` of the
   bidirectional copy runs the first direction until it is Pending, and with a source
   that stays readable that is when the task's cooperative budget is gone; the second
   is then polled with nothing left, in every poll. `src/lib.rs:65` promises both
   directions "concurrently". Only the second can starve: `bidi_progress` has an endless
   second direction, and `HalfCloseForwarded` holds for the first one beside it. For the
   half-close of SR that property speaks of a first direction that is open, not endless.

The message of the two `expect()`s, "Caller must check is_finished() before calling"
(`src/splice/mod.rs:285`), asks for something that `poll_execute` does not do. With live
descriptors the panic is out of reach (`NoPanic`, proved); `RefillNeedsOddWriter` says
what another implementation of the public traits must not do to stay out of it: the
writer's last answer before the panic was EAGAIN with the pipe empty, or zero with bytes
in it. `HeldBackNeedsOddFd` says the same of bytes that are left in the pipe by a poll
that waits for the source: the reader gave them in its last answer and was then not ready
without having said EAGAIN, or the writer took none. The comment of
`Pipe::new` lists a failure to set the size among its errors (`src/pipe.rs:64`), and
the body ignores that failure; `SizeIsGranted` shows that the recorded size is right
all the same.

Two statements of the repository's README have no counterpart in the code and
therefore no run: that the bidirectional path issues a `poll_flush`, and the file
`src/traffic.rs`. The pipe cannot be reused across calls either: both of its ends
are closed when a transfer is done, and `execute` consumes it.

## 5. What is proved

Every safety property that a passing run checks is also a theorem. The theorems hold for all constants that satisfy the named assumptions:
sizes and counts are natural numbers, pipes and send buffers are not empty, `None` is
not a number. `SpliceBidiIoAssumption` adds that both contexts are those of
`SpliceCtx::new()` and that a stream is shorter than `isize::MAX`; `ProxyAssumption`,
that the proxy may call `copy_bidirectional`. TLC evaluates all of them.

### One transfer (`SpliceIoProofs`, `SpliceIoRefines`, `SpliceIoWakeups`)

* `TypeCorrect`: `Spec => []TypeOK`.
* `CountersCorrect`: `Spec => []CountersMatchKernel`, inductive relative to types.
* `Invariance`: `Spec => []IInv`. `NoPanic`, `NoBytesHeldBack` and
  `SuccessIsComplete` are not inductive. `IInv` is `CountersMatchKernel` and:
  * `Loop`, what `poll_execute` keeps even if it is called after it has returned:
    * `ErrorsLast`: errors live in Finished only, and success is Finished without one;
    * `EndsOpen`: Fill has the write end, anything but Finished has the read end, and
      EAGAIN in Drain was about a pipe with bytes in it, so that it does not lead back
      to Fill with the write end closed;
    * `SourceEnded`: a closed write end means that the target is reached or the source
      is at its end, and stays so;
    * `FillHasSource`: when Fill holds bytes, the source's readiness has not been
      cleared since. So the poll in Fill cannot go to sleep with bytes in the pipe;
  * `CleanFinish`: unless an error was returned, Finished without error means a closed
    write end and an empty pipe;
  * `LeavesNothing`: a poll that ends in Fill leaves an empty pipe, or a woken task;
  * `ReturnsOnce`: an executor does not poll a future that has returned.
* From it `PanicFree`, `NothingHeldBack`, `SuccessComplete`, and `ErrorKept`
  (`Spec => ErrorSurvives`, with "failed or returned an error" as a stable fact).
* `WriterWakeup`: `Spec => []WriterWakeupArmed`. The extra invariant is `RoomIsKnown`:
  room in the destination is announced by an event that is due, or by the reactor's
  bit, and if that bit is about to be cleared a newer event has set it. EAGAIN was
  said with no room, so clearing the stale bit keeps it true.
* `RangeCorrect`: `Spec => []RangeKept`, from `RangeTracked` (the offset is the start
  plus the counter of its side; start plus target is the end of the range).
* `Refinement`: `Spec => ImplementsByteCopy`. Initial states map to initial states,
  and each step to a step of `ByteCopy` or to a stutter, under `IInv`,
  `RangeTracked` and `PulledIsProduced`. A splice in is a Pull, a splice out a Push,
  the return of a result Finish or Fail.

### Both directions (`SpliceBidiIoProofs`)

The end of `SpliceIoWakeups` collects what one direction keeps although it is polled
again after its end and shares its task: `DirectionInv` (types, counters, `Loop`,
`RoomIsKnown`, the copy is between sockets, a result says where the state machine
is) and `Rest` (what its last poll has left). Each of its lemmas is used once per
direction. `BidiInv` adds which direction is polled (`Turns`), that the second
direction's `Rest` is void only while the first is polled under a new budget
(`Rested`), how the returned value comes from the two (`Results`), and that
`CleanFinish` holds until a direction has failed (`Unfailed`).

* `BidiInvariance`: `Spec => []BidiInv`; from it `BidiTypeCorrect`, `RepollHarmless`,
  `BothWakeable` (`NeitherHeldBack`) and `CleanSuccessComplete`.
* `BothWakeable` has to rule out that one direction says that the runtime is gone
  while the other sleeps: the other then said Pending for want of budget, which wakes
  the task (`GoneIsWoken`).
* `BothRefine`: `Spec => BothImplementByteCopy`. A direction says Ok when it is polled
  after an error, so its result cannot be the outcome of the abstract copy; the state
  and the drain end of the pipe are (Finished with the drain end closed is a copy that
  is complete, with it open one that failed; a shutdown that fails afterwards is not
  part of the copy). `PollCopies` and `DisturbedCopies` map each step of a direction,
  under `DirectionInv`, to a step of `ByteCopy` or to a stutter: a splice in is a Pull, a
  splice out a Push, `DestDrained` is Finish, because `SourceEnded` holds then, and a
  fault is Fail. A poll of a finished direction stutters. One that returns because the
  runtime is gone keeps its state, and is not an end of the copy.

### Dropped futures (`SpliceCancelProofs`)

`CancelInvariance` (`CancelInv`: `TransferInv`, which is `IInv` without the claim that
the kernel's counts began at zero, and the account of the lost bytes); from it
`Accounted` (`BytesAccounted`), `CancelPanicFree` (`NoPanic` for every later call on
inherited descriptors) and `IdleDropLossless` (`IdleDropIsLossless`, an action property).

### Entry points and proxy (`EntryPointsProofs`, `ProxyProofs`)

For any set of calls, any descriptor table and any sizes:

* `EntryInvariance` (`EntryInv`: the ends of the pipes are open and distinct, a slot is
  empty before its pipe is created and after the call is over, a sized pipe has the
  granted size, a target is what `calc_size_to_splice` gave; nothing else is open). A
  step moves one call, and the proof looks at that call only (`FrameStep`).
* From it `EntryTypes`, `OwnedOnce` (`FdsOwnedOnce`), `SizesGranted` (`SizeIsGranted`)
  and `RangesAsAsked` (`RangeAsAsked`, with `RangeBytes` about the arithmetic).
* `ProxyInvariance` (`ProxyInv`: what `EntryInv` says of the calls, the sockets are
  distinct and exactly the remaining open descriptors, which sockets a connection has
  in which phase, only a forwarding connection has a call); from it `ProxyOwnedOnce`
  and `ClosedHoldNothing`.

### Arbitrary descriptors (`ScriptedIoProofs`)

For any scripts and any number of polls: `ScriptedInvariance` (`ScriptedInv` relates the
control to the answers played so far), `OkComplete` (`OkIsComplete`), `HeldBackNeedsOdd`
(`HeldBackNeedsOddFd`) and `RefillNeedsOdd` (`RefillNeedsOddWriter`). The last two rest on
the parts `FillHolds` and `FillClosed` of the invariant: Fill with bytes in the pipe, or
with the write end closed, was entered by an answer that is still the latest one of its
queue, because an attempt in Fill takes nothing out of the writer's queues.

* `MetersCorrect` (`MetersMatchSplices`) is about a sum over a script of any length.
  `SumOf` is a recursive function, and a recursive function is what its equation says
  only if a function with that equation exists. The provers cannot instantiate the
  library's induction rules, but every non-empty set of natural numbers has a least
  element (`LeastNumber`, from `WFMin` and `NatLessThanWellFounded`): the least length
  without such a function is not 0, and would have a predecessor with one, which extends
  (`SumsExist`). So one more answer adds its bytes (`SumGrows`), and each step meters what it
  plays back (`MetersStep`), unless the counter would overflow and it panics.
* `TestsAgree` (`AgreesWithTests`) walks through the runs of the two unit tests, one
  predicate per state (`PartialRun`, `CleanRun`). It assumes that `isize::MAX` is above
  8000, more than either test moves: with less the transfer could be over early, or
  panic, and the tests would be wrong.

### Only model-checked

Liveness: the prover has no fairness. The four findings: a counterexample is not a
theorem.

## 6. Not modelled

The tracing macros and the printed output; the argument parsing of the proxy; the
getters that nothing decides upon (`pipe_is_full`, `is_finished`, `is_drain_done`,
unused in the crate); the forwarding `impl`s of the descriptor traits for `&mut T`; the
benchmark harness, which starts processes and measures them; the integration tests,
which run the crate against real sockets. Payloads are reduced to byte counts: a pipe
and a stream keep their order, so which bytes are where follows from how many.

## 7. Plan

1. Done: one transfer, both directions, the abstract copy and the theorems above; the
   constructors and descriptors, cancellation, the shared budget, the proxy, the test
   doubles.
2. Done: a theorem for every safety property, and both refinements of the abstract copy.
3. Possible next: an abstract specification of descriptor ownership for the entry points.
