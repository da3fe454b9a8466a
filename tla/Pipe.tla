-------------------------------- MODULE Pipe --------------------------------
(***************************************************************************)
(* The kernel pipe between source and destination (src/pipe.rs): the two   *)
(* owned descriptors and the size that struct Pipe records, plus `level',  *)
(* the bytes that the kernel really holds in the pipe (external).          *)
(***************************************************************************)
EXTENDS Integers

CONSTANT PipeSizes     \* the sizes the kernel may grant to F_SETPIPE_SZ

ASSUME PipeSizesAssumption == PipeSizes \subseteq Nat \ {0}

VARIABLE pipe

Pipes == [fill_fd  : BOOLEAN,       \* write end still owned (Some(fd))
          drain_fd : BOOLEAN,       \* read end still owned
          size     : Nat \ {0},
          level    : Nat]

\* Pipe::new and with_pipe_size: both ends open, whatever size fcntl granted.
PipeNew(size) == [fill_fd |-> TRUE, drain_fd |-> TRUE, size |-> size, level |-> 0]

is_fill_done == ~pipe.fill_fd

set_fill_done  == pipe' = [pipe EXCEPT !.fill_fd = FALSE]
set_drain_done == pipe' = [pipe EXCEPT !.drain_fd = FALSE]
=============================================================================
