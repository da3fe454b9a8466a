------------------------------- MODULE Proxy -------------------------------
(***************************************************************************)
(* The L4 proxy of examples/proxy.rs on top of the crate: main() probes a  *)
(* pipe, then runs serve() until it fails or Ctrl-C arrives; serve()       *)
(* accepts connections and spawns forwarding() for each, which connects to *)
(* the upstream, builds two SpliceCtx and runs SpliceBidiIo over the two   *)
(* sockets.  When main() is over the runtime drops every task it has left. *)
(* main() asks for the current_thread runtime: tasks take turns, and a task *)
(* that runs is not interrupted before its next await.                     *)
(***************************************************************************)
EXTENDS EntryPoints

VARIABLES
  server,     \* where main() and serve() are
  conn,       \* conn[c]: the life of the connection that task c serves
  sock        \* the sockets that serve() and the tasks own, or None

proxyVars == <<entryVars, server, conn, sock>>
pipeVars  == <<fd, size, granted, call>>

Socks == {<<"listener">>} \cup (Calls \X {"stream1", "stream2"})
Listener == <<"listener">>
StreamsOf(c) == {c} \X {"stream1", "stream2"}

ASSUME ProxyAssumption == \E r \in Requests : r.op = "copy_bidirectional"

Upstream == CHOOSE r \in Requests : r.op = "copy_bidirectional"

ProxyInit ==
  /\ EntryInit
  /\ server = "start"
  /\ conn = [c \in Calls |-> "none"]
  /\ sock = [s \in Socks |-> None]

\* The tasks between two awaits of forwarding(); at most one at a time.
Busy == {c \in Calls : conn[c] = "forward" /\ call[c].pc # "run"}

OpenSocket(s) ==
  \E a \in Free : /\ Lowest(a, Free)
                  /\ open' = open \cup {a}
                  /\ sock' = [sock EXCEPT ![s] = a]

CloseSockets(S) ==
  /\ open' = open \ {sock[s] : s \in S}
  /\ sock' = [s \in Socks |-> IF s \in S THEN None ELSE sock[s]]

-----------------------------------------------------------------------------
\* main: Pipe::new()?.size(), dropped at once.
ProbePipe ==
  /\ server = "start"
  /\ \/ Cardinality(Free) >= 2 /\ server' = "bind"
     \/ server' = "ended"
  /\ UNCHANGED <<entryVars, conn, sock>>

Bind ==
  /\ server = "bind"
  /\ \/ OpenSocket(Listener) /\ server' = "accept"
     \/ server' = "ended" /\ UNCHANGED <<open, sock>>
  /\ UNCHANGED <<pipeVars, conn>>

ClientArrives(c) ==                                     \* external
  /\ conn[c] = "none" /\ server = "accept"
  /\ conn' = [conn EXCEPT ![c] = "backlog"]
  /\ UNCHANGED <<entryVars, server, sock>>

Accept(c) ==
  /\ server = "accept" /\ conn[c] = "backlog" /\ Busy = {}
  /\ OpenSocket(<<c, "stream1">>)
  /\ conn' = [conn EXCEPT ![c] = "accepted"]
  /\ UNCHANGED <<pipeVars, server>>

\* ErrorKind::ConnectionAborted: the client has gone, serve() goes on.
AcceptAborted(c) ==
  /\ server = "accept" /\ conn[c] = "backlog" /\ Busy = {}
  /\ conn' = [conn EXCEPT ![c] = "none"]
  /\ UNCHANGED <<entryVars, server, sock>>

\* Any other error of accept(), a lack of descriptors too, ends serve().
\* Ctrl-C makes select! drop it.  Either way its listener is closed.
ServeEnds ==
  /\ server = "accept" /\ Busy = {}
  /\ server' = "ended"
  /\ CloseSockets({Listener})
  /\ UNCHANGED <<pipeVars, conn>>

\* forwarding: TcpStream::connect opens a socket, if it can, and waits.
Connect(c) ==
  /\ conn[c] = "accepted" /\ server # "ended" /\ Busy = {}
  /\ \/ /\ OpenSocket(<<c, "stream2">>)
        /\ conn' = [conn EXCEPT ![c] = "connecting"]
     \/ /\ CloseSockets(StreamsOf(c))
        /\ conn' = [conn EXCEPT ![c] = "none"]
  /\ UNCHANGED <<pipeVars, server>>

\* Mutant: when the upstream cannot be reached the client is left waiting.
ConnectedKeepsClient(c) ==
  /\ conn[c] = "connecting" /\ server # "ended" /\ Busy = {}
  /\ \/ /\ conn' = [conn EXCEPT ![c] = "forward"]
        /\ call' = [call EXCEPT ![c] = [pc |-> "pipe", req |-> Upstream,
                                        pipe |-> 1, target |-> None]]
        /\ UNCHANGED <<open, sock>>
     \/ /\ CloseSockets({<<c, "stream2">>})
        /\ conn' = [conn EXCEPT ![c] = "none"]
        /\ UNCHANGED call
  /\ UNCHANGED <<fd, size, granted, server>>

\* The upstream has answered, and the contexts are built next (EntryPoints), or
\* it cannot be reached and forwarding returns.
Connected(c) ==
  /\ conn[c] = "connecting" /\ server # "ended" /\ Busy = {}
  /\ \/ /\ conn' = [conn EXCEPT ![c] = "forward"]
        /\ call' = [call EXCEPT ![c] = [pc |-> "pipe", req |-> Upstream,
                                        pipe |-> 1, target |-> None]]
        /\ UNCHANGED <<open, sock>>
     \/ /\ CloseSockets(StreamsOf(c))
        /\ conn' = [conn EXCEPT ![c] = "none"]
        /\ UNCHANGED call
  /\ UNCHANGED <<fd, size, granted, server>>

\* SpliceCtx::new()? twice, and execute().
Forward(c) ==
  /\ conn[c] = "forward" /\ server # "ended" /\ Busy \subseteq {c}
  /\ Construct(c) \/ SetDone(c) \/ Return(c)
  /\ UNCHANGED <<server, conn, sock>>

\* forwarding returns, with an error or not, and drops its streams.
ForwardingEnds(c) ==
  /\ conn[c] = "forward" /\ Over(c)
  /\ CloseSockets(StreamsOf(c))
  /\ conn' = [conn EXCEPT ![c] = "none"]
  /\ call' = [call EXCEPT ![c] = [pc |-> "idle", req |-> None, pipe |-> 1, target |-> None]]
  /\ UNCHANGED <<fd, size, granted, server>>

\* Mutant: a task that still waits for its upstream is forgotten.
AbortRunning(c) ==
  /\ server = "ended" /\ Busy = {} /\ conn[c] = "forward" /\ Drop(c)
  /\ UNCHANGED <<server, conn, sock>>

\* main() has returned: the runtime drops the task where it awaits.
Abort(c) ==
  /\ server = "ended" /\ Busy = {}
  /\ \/ conn[c] = "forward" /\ Drop(c) /\ UNCHANGED <<conn, sock>>
     \/ /\ conn[c] \in {"backlog", "accepted", "connecting"}
        /\ CloseSockets(StreamsOf(c))
        /\ conn' = [conn EXCEPT ![c] = "none"]
        /\ UNCHANGED pipeVars
  /\ UNCHANGED server

TaskRuns(c) == Connect(c) \/ Connected(c) \/ Forward(c) \/ ForwardingEnds(c)

ProxyNext ==
  \/ ProbePipe \/ Bind \/ ServeEnds
  \/ \E c \in Calls : \/ ClientArrives(c) \/ Accept(c) \/ AcceptAborted(c)
                      \/ TaskRuns(c) \/ Abort(c)

\* A task is run to its next await, and dropped with the runtime.
ProxySpec ==
  /\ ProxyInit /\ [][ProxyNext]_proxyVars
  /\ \A c \in Calls : /\ WF_proxyVars(ForwardingEnds(c))
                      /\ WF_proxyVars(Abort(c))

-----------------------------------------------------------------------------
\* The proxy's descriptors, too, are owned once: by the accept loop, by one
\* forwarding task, or by one end of one of its pipes.
ProxyFdsOwnedOnce ==
  LET socks == {s \in Socks : sock[s] # None}
      ends  == {e \in Ends : fd[e] # None}
  IN  /\ open = {sock[s] : s \in socks} \cup {fd[e] : e \in ends}
      /\ Cardinality(open) = Cardinality(socks) + Cardinality(ends)

\* A connection holds descriptors only while its task lives: after any failure
\* to connect, to build its pipes or to copy, nothing is left behind.
ClosedConnectionsHoldNothing ==
  \A c \in Calls : conn[c] \in {"none", "backlog"} =>
    /\ \A s \in StreamsOf(c) : sock[s] = None
    /\ \A e \in EndsOf(c) : fd[e] = None

\* However main() ends, the runtime gets every descriptor closed, wherever the
\* tasks were.
ShutdownReleases == server = "ended" ~> open = {}
=============================================================================
