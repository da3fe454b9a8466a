----------------------------- MODULE ScriptedIo -----------------------------
(***************************************************************************)
(* SpliceIo as the unit tests of src/io/mod.rs drive it: over MockFd       *)
(* (src/io/mock.rs) and MockSplicer (src/splice/mock.rs), which play back  *)
(* whatever they were scripted to, what a kernel would never do included.  *)
(* The tests are a debug build: usize arithmetic that overflows panics.    *)
(***************************************************************************)
EXTENDS Pipe, Sequences

CONSTANTS
  ReadScripts, WriteScripts,   \* what the doubles of the two sides may be given
  IsizeMax,                    \* isize::MAX, the target length of new_with_splicer
  MaxPolls                     \* bound on the polls of one transfer

UsizeMax == 2 * IsizeMax + 1

Ok(n)      == [kind |-> "Ok", n |-> n]
WouldBlock == [kind |-> "WouldBlock", n |-> 0]
Fault      == [kind |-> "Err", n |-> 0]
Panic      == [kind |-> "panic", n |-> 0]

\* The queues of one side: of the MockFd, and of the MockSplicer.
SideScript ==
  [ready  : Seq({"Ready", "Pending", "Err"}),
   try_io : Seq({"CallInner", "WouldBlock", "Err"}),
   splice : Seq([kind : {"Ok"}, n : 0 .. UsizeMax] \cup {WouldBlock, Fault})]
Queues == {"read_ready", "try_io_read", "splice_in",
           "write_ready", "try_io_write", "splice_out"}

Script(r, w) ==
  [read_ready |-> r.ready, try_io_read |-> r.try_io, splice_in |-> r.splice,
   write_ready |-> w.ready, try_io_write |-> w.try_io, splice_out |-> w.splice]

ASSUME ScriptedIoAssumption ==
  /\ ReadScripts \subseteq SideScript /\ WriteScripts \subseteq SideScript
  /\ IsizeMax \in Nat /\ MaxPolls \in Nat \ {0}

\* The scripts of the unit tests.
TwoReady(tries, splices) ==
  [ready |-> <<"Ready", "Ready">>, try_io |-> tries, splice |-> splices]

partial_write_parks_on_writer ==
  Script(TwoReady(<<"CallInner", "WouldBlock">>, <<Ok(8000)>>),
         TwoReady(<<"CallInner", "WouldBlock">>, <<Ok(3000)>>))

clean_drain_finishes ==
  Script(TwoReady(<<"CallInner", "CallInner">>, <<Ok(1000), Ok(0)>>),
         TwoReady(<<"CallInner", "CallInner">>, <<Ok(1000)>>))

VARIABLES
  script,         \* what the doubles were given
  left,           \* what they have not played back yet
  bytes_read, bytes_written,
  state,          \* state_name(): "Fill", "Drain" or "Finished"
  error,          \* the error that Finished carries
  poll,           \* "running", or what poll_execute has returned last
  polls           \* polls made

scriptedVars == <<script, left, bytes_read, bytes_written, state, error, poll, polls, pipe>>

ScriptedInit ==
  /\ \/ \E r \in ReadScripts, w \in WriteScripts : script = Script(r, w)
     \/ script \in {partial_write_parks_on_writer, clean_drain_finishes}
  /\ left = script
  /\ pipe \in {PipeNew(size) : size \in PipeSizes}
  /\ bytes_read = 0 /\ bytes_written = 0
  /\ state = "Fill" /\ error = FALSE
  /\ poll = "none" /\ polls = 0

-----------------------------------------------------------------------------
pipe_has_data == bytes_read > bytes_written

\* The doubles: an empty readiness queue is an idle descriptor, any other
\* empty queue a panic.
Upcoming(q, empty) == IF left[q] = <<>> THEN empty ELSE Head(left[q])

PopFront(Q) ==
  left' = [q \in Queues |-> IF q \in Q /\ left[q] # <<>> THEN Tail(left[q]) ELSE left[q]]

-----------------------------------------------------------------------------
(***************************************************************************)
(* An attempt in Fill: how far it gets, and the ways it ends.              *)
(***************************************************************************)
ReadReady == poll = "running" /\ state = "Fill" /\ Upcoming("read_ready", "Pending") = "Ready"
TryRead   == Upcoming("try_io_read", "panic")
InnerRead == ReadReady /\ TryRead = "CallInner"
SplicesIn == InnerRead /\ bytes_read < IsizeMax /\ pipe.fill_fd
SpliceIn  == Upcoming("splice_in", Panic)

ReadPops ==
  PopFront({"read_ready", "try_io_read"} \cup IF SplicesIn THEN {"splice_in"} ELSE {})

SourceClosed ==
  /\ (InnerRead /\ bytes_read = IsizeMax) \/ (SplicesIn /\ SpliceIn = Ok(0))
  /\ ReadPops /\ set_fill_done
  /\ state' = "Drain"
  /\ UNCHANGED <<script, bytes_read, bytes_written, error, poll, polls>>

\* Mutant: the bytes are moved but not counted.
SourceBytesUncounted ==
  /\ SplicesIn /\ SpliceIn.kind = "Ok" /\ SpliceIn.n > 0
  /\ ReadPops
  /\ UNCHANGED <<script, bytes_read, bytes_written, state, error, poll, polls, pipe>>

SourceBytes ==
  /\ SplicesIn /\ SpliceIn.kind = "Ok" /\ SpliceIn.n > 0
  /\ bytes_read + SpliceIn.n <= UsizeMax
  /\ ReadPops
  /\ bytes_read' = bytes_read + SpliceIn.n
  /\ UNCHANGED <<script, bytes_written, state, error, poll, polls, pipe>>

\* Mutant: after EAGAIN the source is waited for, whatever the pipe holds.
SourceAgainWaits ==
  /\ (ReadReady /\ TryRead = "WouldBlock") \/ (SplicesIn /\ SpliceIn = WouldBlock)
  /\ ReadPops
  /\ UNCHANGED <<script, bytes_read, bytes_written, state, error, poll, polls, pipe>>

SourceAgain ==
  /\ (ReadReady /\ TryRead = "WouldBlock") \/ (SplicesIn /\ SpliceIn = WouldBlock)
  /\ ReadPops
  /\ state' = IF pipe_has_data THEN "Drain" ELSE "Fill"
  /\ UNCHANGED <<script, bytes_read, bytes_written, error, poll, polls, pipe>>

SourceFails ==
  /\ (ReadReady /\ TryRead = "Err") \/ (SplicesIn /\ SpliceIn = Fault)
  /\ ReadPops
  /\ state' = "Finished" /\ error' = TRUE
  /\ UNCHANGED <<script, bytes_read, bytes_written, poll, polls, pipe>>

\* The expect() of try_splice_from_source on the fill end of the pipe.
RefillsAfterEnd == InnerRead /\ bytes_read < IsizeMax /\ is_fill_done

SourcePanics ==
  /\ \/ ReadReady /\ TryRead = "panic"
     \/ InnerRead /\ bytes_read > IsizeMax              \* size_to_splice - bytes_read
     \/ RefillsAfterEnd
     \/ SplicesIn /\ SpliceIn = Panic
     \/ SplicesIn /\ SpliceIn.kind = "Ok" /\ bytes_read + SpliceIn.n > UsizeMax  \* +=
  /\ ReadPops /\ poll' = "panic"
  /\ UNCHANGED <<script, bytes_read, bytes_written, state, error, polls, pipe>>

-----------------------------------------------------------------------------
(***************************************************************************)
(* An attempt in Drain.  The drain end is open in Drain.                   *)
(***************************************************************************)
WriteReady == poll = "running" /\ state = "Drain" /\ Upcoming("write_ready", "Pending") = "Ready"
TryWrite   == Upcoming("try_io_write", "panic")
InnerWrite == WriteReady /\ TryWrite = "CallInner"
SplicesOut == InnerWrite /\ pipe_has_data /\ pipe.drain_fd
SpliceOut  == Upcoming("splice_out", Panic)
Drained    == InnerWrite /\ bytes_read = bytes_written

WritePops ==
  PopFront({"write_ready", "try_io_write"} \cup IF SplicesOut THEN {"splice_out"} ELSE {})

\* Mutant: an empty pipe is the end, although the source may give more.
DestClosedEarly ==
  /\ Drained
  /\ WritePops /\ set_drain_done
  /\ state' = "Finished"
  /\ UNCHANGED <<script, bytes_read, bytes_written, error, poll, polls>>

DestClosed ==
  /\ Drained /\ is_fill_done
  /\ WritePops /\ set_drain_done
  /\ state' = "Finished"
  /\ UNCHANGED <<script, bytes_read, bytes_written, error, poll, polls>>

DestNoProgress ==
  /\ (Drained /\ ~is_fill_done) \/ (SplicesOut /\ SpliceOut = Ok(0))
  /\ WritePops
  /\ state' = "Fill"
  /\ UNCHANGED <<script, bytes_read, bytes_written, error, poll, polls, pipe>>

DestBytes ==
  /\ SplicesOut /\ SpliceOut.kind = "Ok" /\ SpliceOut.n > 0
  /\ bytes_written + SpliceOut.n <= UsizeMax
  /\ WritePops
  /\ bytes_written' = bytes_written + SpliceOut.n
  /\ UNCHANGED <<script, bytes_read, state, error, poll, polls, pipe>>

\* Mutant: after EAGAIN of the writer the pipe is filled, whatever it holds.
DestAgainRefills ==
  /\ (WriteReady /\ TryWrite = "WouldBlock") \/ (SplicesOut /\ SpliceOut = WouldBlock)
  /\ WritePops
  /\ state' = "Fill"
  /\ UNCHANGED <<script, bytes_read, bytes_written, error, poll, polls, pipe>>

DestAgain ==
  /\ (WriteReady /\ TryWrite = "WouldBlock") \/ (SplicesOut /\ SpliceOut = WouldBlock)
  /\ WritePops
  /\ state' = IF pipe_has_data THEN "Drain" ELSE "Fill"
  /\ UNCHANGED <<script, bytes_read, bytes_written, error, poll, polls, pipe>>

DestFails ==
  /\ (WriteReady /\ TryWrite = "Err") \/ (SplicesOut /\ SpliceOut = Fault)
  /\ WritePops
  /\ state' = "Finished" /\ error' = TRUE
  /\ UNCHANGED <<script, bytes_read, bytes_written, poll, polls, pipe>>

DestPanics ==
  /\ \/ WriteReady /\ TryWrite = "panic"
     \/ InnerWrite /\ bytes_written > bytes_read         \* bytes_read - bytes_written
     \/ SplicesOut /\ SpliceOut = Panic
     \/ SplicesOut /\ SpliceOut.kind = "Ok" /\ bytes_written + SpliceOut.n > UsizeMax  \* +=
  /\ WritePops /\ poll' = "panic"
  /\ UNCHANGED <<script, bytes_read, bytes_written, state, error, polls, pipe>>

-----------------------------------------------------------------------------
\* A test polls, and may poll again unless the transfer has completed.
PollExecute ==
  /\ poll \in {"none", "Pending"} /\ polls < MaxPolls
  /\ poll' = "running" /\ polls' = polls + 1
  /\ UNCHANGED <<script, left, bytes_read, bytes_written, state, error, pipe>>

\* ready!(poll_*_ready)?: leaves the poll and keeps the state.
NotReady ==
  \E q \in {"read_ready", "write_ready"} :
    /\ poll = "running"
    /\ state = IF q = "read_ready" THEN "Fill" ELSE "Drain"
    /\ Upcoming(q, "Pending") # "Ready"
    /\ poll' = Upcoming(q, "Pending")
    /\ PopFront({q})
    /\ UNCHANGED <<script, bytes_read, bytes_written, state, error, polls, pipe>>

\* MockFd shuts down at once; the error is taken out of the state.
Shutdown ==
  /\ poll = "running" /\ state = "Finished"
  /\ poll' = IF error THEN "Err" ELSE "Ok"
  /\ error' = FALSE
  /\ UNCHANGED <<script, left, bytes_read, bytes_written, state, polls, pipe>>

ScriptedNext ==
  \/ PollExecute \/ NotReady \/ Shutdown
  \/ SourceClosed \/ SourceBytes \/ SourceAgain \/ SourceFails \/ SourcePanics
  \/ DestClosed \/ DestNoProgress \/ DestBytes \/ DestAgain \/ DestFails \/ DestPanics

ScriptedSpec == ScriptedInit /\ [][ScriptedNext]_scriptedVars

-----------------------------------------------------------------------------
Played(q) == SubSeq(script[q], 1, Len(script[q]) - Len(left[q]))

\* The bytes in the first k results of a splicer's script, and in those played.
SumOf(results, k) ==
  LET sum[i \in 0 .. Len(results)] == IF i = 0 THEN 0 ELSE sum[i - 1] + results[i].n
  IN  sum[k]
Total(q) == SumOf(script[q], Len(script[q]) - Len(left[q]))

\* The byte counters are what the splicer was asked for and gave, in any order of
\* successes, EAGAINs and errors.  (A counter that would overflow panics instead.)
MetersMatchSplices ==
  poll # "panic" => bytes_read = Total("splice_in") /\ bytes_written = Total("splice_out")

\* Ready(Ok(())) means a finished transfer, whatever the descriptors do: the
\* source has ended, what was read is written, both pipe ends are closed, and
\* no call has failed.
OkIsComplete ==
  poll = "Ok" =>
    /\ bytes_read = bytes_written /\ ~pipe.fill_fd /\ ~pipe.drain_fd
    /\ bytes_read = IsizeMax \/ \E i \in DOMAIN Played("splice_in") : Played("splice_in")[i] = Ok(0)
    /\ \A q \in Queues : \A i \in DOMAIN Played(q) : Played(q)[i] \notin
         (IF q \in {"splice_in", "splice_out"} THEN {Fault} ELSE {"Err"})

\* The answer of a queue that was played last is one of `answers'; and the last
\* attempt to read, or to write, called the splicer, which gave such an answer.
Latest(q, answers) == Played(q) # <<>> /\ Played(q)[Len(Played(q))] \in answers
LastRead(answers)  == Latest("try_io_read", {"CallInner"}) /\ Latest("splice_in", answers)
LastWrite(answers) == Latest("try_io_write", {"CallInner"}) /\ Latest("splice_out", answers)

\* Where partial_write_parks_on_writer would deadlock, for any descriptors: bytes in
\* the pipe wait for the source only if the reader stopped being ready although its
\* last answer was bytes and no EAGAIN came after them, or if the writer has taken
\* none of the bytes it was offered last.
HeldBackNeedsOddFd ==
  poll = "Pending" /\ state = "Fill" /\ pipe_has_data =>
    LastRead([kind : {"Ok"}, n : Nat \ {0}]) \/ LastWrite({Ok(0)})

\* The assertions of the unit tests, of the tests' own scripts.
AgreesWithTests ==
  poll \notin {"none", "running"} =>
    /\ script = partial_write_parks_on_writer => 
         poll = "Pending" /\ state = "Drain" /\ bytes_read = 8000 /\ bytes_written = 3000
    /\ script = clean_drain_finishes =>
         poll = "Ok" /\ state = "Finished" /\ ~error /\ bytes_read = 1000 /\ bytes_written = 1000

\* The expect() on the fill end, whose message asks for a check that poll_execute
\* does not make: when it fails, the writer's last answer was zero bytes for a pipe
\* that still holds some, or EAGAIN for one that is empty.
RefillNeedsOddWriter ==
  RefillsAfterEnd =>
    IF pipe_has_data THEN LastWrite({Ok(0)})
    ELSE Latest("try_io_write", {"WouldBlock"}) \/ LastWrite({WouldBlock})
=============================================================================
