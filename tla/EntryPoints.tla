---------------------------- MODULE EntryPoints ----------------------------
(***************************************************************************)
(* The calls of src/lib.rs (and a caller that builds its SpliceCtx by      *)
(* hand) from the first poll of their future until it returns or is        *)
(* dropped: how they get, size, own and give back the descriptors of their *)
(* pipes (src/pipe.rs, the constructors of src/splice/mod.rs).  Calls run  *)
(* concurrently and share the descriptor table of the process; what moves  *)
(* bytes in between is the business of SpliceIo.                           *)
(***************************************************************************)
EXTENDS Offset, FiniteSets

CONSTANTS
  Calls,            \* tasks that make such calls
  Fds,              \* descriptors that the process may have open (RLIMIT_NOFILE)
  Requests,         \* the calls that may be made
  DefaultSizes,     \* sizes pipe(2) may give a new pipe
  Grants,           \* the sizes that F_SETPIPE_SZ rounds up to
  MAXIMUM_PIPE_SIZE

Request ==
  [op : {"copy", "copy_bidirectional", "sendfile", "recvfile"},
   f_len : Nat, f_offset_start : Option(Nat), f_offset_end : Option(Nat),
   pipe_size : Option(Nat)]         \* with_pipe_size, if it is called

ASSUME EntryPointsAssumption ==
  /\ Fds \subseteq Nat
  /\ Requests \subseteq Request
  /\ DefaultSizes \subseteq Nat \ {0} /\ Grants \subseteq Nat \ {0}
  /\ MAXIMUM_PIPE_SIZE \in Nat \ {0}

Slots == {1, 2}                     \* the pipes of a call; one way uses the first
Ends  == Calls \X Slots \X {"drain_fd", "fill_fd"}

VARIABLES
  open,     \* the descriptors that are open in the process (external)
  fd,       \* fd[<<c, i, end>>]: the OwnedFd that call c holds, or None
  size,     \* size[<<c, i>>]: the size that struct Pipe records
  granted,  \* granted[<<c, i>>]: the size that the kernel's pipe has (external)
  call      \* call[c]: where the call is, what it asked for, how many bytes

entryVars == <<open, fd, size, granted, call>>

Phases == {"idle", "pipe", "size", "resize", "run", "returned", "failed", "dropped"}

EntryInit ==
  /\ open = {}
  /\ fd = [e \in Ends |-> None]
  /\ size = [p \in Calls \X Slots |-> None]
  /\ granted = [p \in Calls \X Slots |-> None]
  /\ call = [c \in Calls |-> [pc |-> "idle", req |-> None, pipe |-> 1, target |-> None]]

-----------------------------------------------------------------------------
Free == Fds \ open
Lowest(a, S) == a \in S /\ \A x \in S : a <= x

Over(c) == call[c].pc \in {"returned", "failed", "dropped"}

EndsOf(c) == {c} \X Slots \X {"drain_fd", "fill_fd"}

\* Dropping OwnedFds closes them; assigning None to the Option drops its value.
Close(E) ==
  /\ open' = open \ {fd[e] : e \in E}
  /\ fd' = [e \in Ends |-> IF e \in E THEN None ELSE fd[e]]

Goto(c, pc) == call' = [call EXCEPT ![c].pc = pc]

Forget(f, c) == [p \in Calls \X Slots |-> IF p[1] = c THEN None ELSE f[p]]

\* The call is over, and drops the pipes it has: with an error that leaves
\* through `?', at the end of execute(), or when its future is dropped.
Leave(c, pc) ==
  /\ Goto(c, pc)
  /\ Close(EndsOf(c))
  /\ size' = Forget(size, c) /\ granted' = Forget(granted, c)

Fail(c) == Leave(c, "failed")

\* The fields of with_input_file and with_output_file are evaluated before
\* new_inner creates the pipe: an invalid range fails without one.
Start(c, r) ==
  LET range == calc_size_to_splice(r.f_len, r.f_offset_start, r.f_offset_end)
      isFile == r.op \in {"sendfile", "recvfile"}
  IN  /\ call[c].pc = "idle" \/ Over(c)
      /\ call' = [call EXCEPT ![c] =
                    [pc |-> IF isFile /\ ~range.ok THEN "failed" ELSE "pipe",
                     req |-> r, pipe |-> 1,
                     target |-> IF isFile /\ range.ok THEN range.val ELSE None]]
      /\ UNCHANGED <<open, fd, size, granted>>

\* Mutant: without descriptors the call waits for others to close theirs.
PipeWithWaits(c) ==
  /\ call[c].pc = "pipe"
  /\ \E a, b \in Free, s \in DefaultSizes :
       /\ Lowest(a, Free) /\ Lowest(b, Free \ {a})
       /\ open' = open \cup {a, b}
       /\ fd' = [fd EXCEPT ![<<c, call[c].pipe, "drain_fd">>] = a,
                           ![<<c, call[c].pipe, "fill_fd">>] = b]
       /\ granted' = [granted EXCEPT ![<<c, call[c].pipe>>] = s]
  /\ Goto(c, "size") /\ UNCHANGED size

\* Pipe::new: pipe2(2) gives the two lowest free descriptors, or fails, for want
\* of two or for reasons of the system (ENFILE).
PipeWith(c) ==
  /\ call[c].pc = "pipe"
  /\ \/ /\ \E a, b \in Free, s \in DefaultSizes :
             /\ Lowest(a, Free) /\ Lowest(b, Free \ {a})
             /\ open' = open \cup {a, b}
             /\ fd' = [fd EXCEPT ![<<c, call[c].pipe, "drain_fd">>] = a,
                                 ![<<c, call[c].pipe, "fill_fd">>] = b]
             /\ granted' = [granted EXCEPT ![<<c, call[c].pipe>>] = s]
        /\ Goto(c, "size") /\ UNCHANGED size
     \/ Fail(c)

\* F_SETPIPE_SZ rounds up, or refuses and leaves the pipe as it is (external).
SetPipeSize(c, i, asked) ==
  \E s \in Grants : /\ Lowest(s, {g \in Grants : g >= asked})
                    /\ granted' = [granted EXCEPT ![<<c, i>>] = s]

\* Mutant: the test for the second pipe is off by one.
BuiltOneMore(c) ==
  IF call[c].req.op = "copy_bidirectional" /\ call[c].pipe <= 2
    THEN call' = [call EXCEPT ![c].pc = "pipe", ![c].pipe = @ + 1]
    ELSE Goto(c, "run")

\* A SpliceCtx is complete; copy_bidirectional goes on to build its second one.
Built(c) ==
  IF call[c].req.op = "copy_bidirectional" /\ call[c].pipe = 1
    THEN call' = [call EXCEPT ![c].pc = "pipe", ![c].pipe = 2]
    ELSE Goto(c, "run")

\* Pipe::new goes on: ask for MAXIMUM_PIPE_SIZE, else ask what there is.
PipeSize(c) ==
  LET i == call[c].pipe
  IN  /\ call[c].pc = "size"
      /\ \/ /\ SetPipeSize(c, i, MAXIMUM_PIPE_SIZE) \/ UNCHANGED granted
            /\ size' = [size EXCEPT ![<<c, i>>] = granted'[<<c, i>>]]
            /\ IF call[c].req.pipe_size # None THEN Goto(c, "resize") ELSE Built(c)
            /\ UNCHANGED <<open, fd>>
         \/ Fail(c)                          \* fcntl_getpipe_size fails

\* Mutant: the size that was asked for is recorded.
WithPipeSizeAsked(c) ==
  LET i == call[c].pipe
  IN  /\ call[c].pc = "resize"
      /\ \/ /\ SetPipeSize(c, i, call[c].req.pipe_size)
            /\ size' = [size EXCEPT ![<<c, i>>] = call[c].req.pipe_size]
            /\ Built(c) /\ UNCHANGED <<open, fd>>
         \/ Fail(c)

\* with_pipe_size: consumes the context, and keeps what the kernel granted.
WithPipeSize(c) ==
  LET i == call[c].pipe
  IN  /\ call[c].pc = "resize"
      /\ \/ /\ SetPipeSize(c, i, call[c].req.pipe_size)
            /\ size' = [size EXCEPT ![<<c, i>>] = granted'[<<c, i>>]]
            /\ Built(c) /\ UNCHANGED <<open, fd>>
         \/ Fail(c)

-----------------------------------------------------------------------------
\* Mutant: the descriptor is closed, but the pipe still owns its number.
SetDoneKeeps(c) ==
  /\ call[c].pc = "run"
  /\ \E i \in Slots, end \in {"drain_fd", "fill_fd"} :
       /\ fd[<<c, i, end>>] # None
       /\ end = "drain_fd" => fd[<<c, i, "fill_fd">>] = None
       /\ open' = open \ {fd[<<c, i, end>>]}
  /\ UNCHANGED <<fd, size, granted, call>>

\* set_fill_done and, once that is done, set_drain_done of a running transfer.
SetDone(c) ==
  /\ call[c].pc = "run"
  /\ \E i \in Slots, end \in {"drain_fd", "fill_fd"} :
       /\ fd[<<c, i, end>>] # None
       /\ end = "drain_fd" => fd[<<c, i, "fill_fd">>] = None
       /\ Close({<<c, i, end>>})
  /\ UNCHANGED <<size, granted, call>>

\* execute() ends, with or without an error, or its future is dropped: it owns
\* the SpliceIo, whose pipes go with it.
Return(c) == call[c].pc = "run" /\ Leave(c, "returned")
Drop(c)   == call[c].pc = "run" /\ Leave(c, "dropped")

Construct(c) == PipeWith(c) \/ PipeSize(c) \/ WithPipeSize(c)

EntryNext ==
  \E c \in Calls :
    \/ \E r \in Requests : Start(c, r)
    \/ Construct(c)
    \/ SetDone(c)
    \/ Return(c)
    \/ Drop(c)

EntrySpec ==
  /\ EntryInit /\ [][EntryNext]_entryVars
  /\ \A c \in Calls : WF_entryVars(Construct(c))   \* code between two awaits runs on

-----------------------------------------------------------------------------
\* Type invariant: descriptors, sizes and calls stay in their types.
EntryTypeOK ==
  /\ open \subseteq Fds
  /\ fd \in [Ends -> Option(Fds)]
  /\ size \in [Calls \X Slots -> Option(Nat \ {0})]
  /\ granted \in [Calls \X Slots -> Option(Nat \ {0})]
  /\ call \in [Calls -> [pc : Phases, req : Option(Requests),
                       pipe : Slots, target : Option(Nat)]]

\* Descriptors are neither leaked nor closed twice: what is open is what some
\* live call owns, each by one owner, also when a number closed by one call has
\* been given to another, and after every error, return or drop.
FdsOwnedOnce ==
  /\ open = {fd[e] : e \in Ends} \ {None}
  /\ \A e1, e2 \in Ends : e1 # e2 /\ fd[e1] # None => fd[e1] # fd[e2]
  /\ \A c \in Calls : Over(c) => \A e \in EndsOf(c) : fd[e] = None

\* A transfer runs with the size that the kernel's pipe really has, although
\* setting it may have failed, or been rounded, once or twice.
SizeIsGranted ==
  \A c \in Calls, i \in Slots :
    call[c].pc = "run" /\ i <= call[c].pipe =>
      size[<<c, i>>] # None /\ size[<<c, i>>] = granted[<<c, i>>]

\* A file transfer runs over exactly the bytes of the file that lie in the range
\* asked for, and a range with bytes is refused only if it leaves the file.
RangeAsAsked ==
  \A c \in {d \in Calls : call[d].pc # "idle"} :
    LET r == call[c].req
        start == UnwrapOr(r.f_offset_start, 0)
        asked == start .. UnwrapOr(r.f_offset_end, r.f_len) - 1
    IN  r.op \in {"sendfile", "recvfile"} =>
          IF call[c].target # None
            THEN /\ asked \subseteq 0 .. r.f_len - 1 /\ start <= r.f_len
                 /\ call[c].target = Cardinality(asked)
            ELSE call[c].pc = "failed" /\ (asked = {} \/ ~(asked \subseteq 0 .. r.f_len - 1))

\* Calls that hold some descriptors and need more do not wait for each other:
\* a full table that no running transfer is using does not stay full.
ShortageResolves ==
  (Free = {} /\ \A c \in Calls : call[c].pc # "run")
     ~> (Free # {} \/ \E c \in Calls : call[c].pc = "run")
=============================================================================
