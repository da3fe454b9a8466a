----------------------------- MODULE ProxyProofs -----------------------------
(***************************************************************************)
(* Proofs about the proxy of examples/proxy.rs for any number of           *)
(* connections and any descriptor table: sockets and pipes are owned once, *)
(* and a connection that is closed holds none of them.                     *)
(***************************************************************************)
EXTENDS Proxy, EntryPointsProofs

-----------------------------------------------------------------------------
(***************************************************************************)
(* The inductive invariant.                                                *)
(***************************************************************************)
Connections == {"none", "backlog", "accepted", "connecting", "forward"}

ProxyTypeOK ==
  /\ sock \in [Socks -> Option(Fds)]
  /\ conn \in [Calls -> Connections]
  /\ IsFiniteSet(open)

SocksHeld == {sock[s] : s \in Socks} \ {None}
SocksDistinct == \A s1, s2 \in Socks : s1 # s2 /\ sock[s1] # None => sock[s1] # sock[s2]

\* What is open and not at an end of a pipe is a socket, held once.
SocksOwned == SocksDistinct /\ open \ Held = SocksHeld

\* A task has the sockets of its phase: none is overwritten, none left behind.
PhaseSocks ==
  /\ server \in {"start", "bind"} => sock[Listener] = None
  /\ \A c \in Calls :
       /\ conn[c] \in {"none", "backlog"} => sock[<<c, "stream1">>] = None
       /\ conn[c] \in {"none", "backlog", "accepted"} => sock[<<c, "stream2">>] = None

\* Only the task of a connection that is forwarded has made a call.
OnlyForwardCalls == \A c \in Calls : conn[c] # "forward" => call[c].pc = "idle"

ProxyInv == CallsInv /\ ProxyTypeOK /\ SocksOwned /\ PhaseSocks /\ OnlyForwardCalls

-----------------------------------------------------------------------------
(***************************************************************************)
(* Sockets are opened and closed.                                          *)
(***************************************************************************)
\* The three sockets of main() and of a task are different ones.
LEMMA SocksApart ==
  /\ Listener \in Socks
  /\ \A c \in Calls : /\ <<c, "stream1">> \in Socks /\ <<c, "stream2">> \in Socks
                      /\ <<c, "stream1">> # <<c, "stream2">>
                      /\ StreamsOf(c) \in SUBSET Socks
                      /\ Listener \notin StreamsOf(c)
                      /\ StreamsOf(c) = {<<c, "stream1">>, <<c, "stream2">>}
  /\ \A c, d \in Calls : c # d => StreamsOf(c) \cap StreamsOf(d) = {}
BY DEF Socks, Listener, StreamsOf

\* When the pipes stay, so does what the invariant says of the calls.
LEMMA PipesStay ==
  ASSUME CallsInv, UNCHANGED pipeVars, Held \subseteq open', open' \subseteq Fds
  PROVE  CallsInv' /\ Held' = Held
BY DEF CallsInv, pipeVars, EntryTypeOK, PipesOwned, Held, Distinct, SlotsEmpty, CallOwns, Unbuilt,
   SizesKnown, CallSized, Sized, RangeChecked, CallRanged

\* socket(2), accept(2): a new descriptor, for an owner that has none.
LEMMA OpenSocketOwned ==
  ASSUME CallsInv, ProxyTypeOK, SocksOwned, NEW s \in Socks, sock[s] = None,
         OpenSocket(s), UNCHANGED pipeVars
  PROVE  /\ CallsInv' /\ SocksOwned'
         /\ sock' \in [Socks -> Option(Fds)] /\ IsFiniteSet(open')
         /\ \A t \in Socks \ {s} : sock'[t] = sock[t]
<1> USE DEF ProxyTypeOK, SocksOwned
<1>1. PICK a \in Free : open' = open \cup {a} /\ sock' = [sock EXCEPT ![s] = a]
  BY DEF OpenSocket
<1>2. a \in Fds /\ a \notin open /\ a # None /\ open \subseteq Fds /\ Held \subseteq open
  BY NoneApart DEF Free, CallsInv, EntryTypeOK, PipesOwned
<1>3. CallsInv' /\ Held' = Held
  BY <1>1, <1>2, PipesStay
<1>4. sock'[s] = a /\ \A t \in Socks \ {s} : sock'[t] = sock[t]
  BY <1>1
<1>5. sock' \in [Socks -> Option(Fds)]
  BY <1>1, <1>2 DEF Option
<1>6. \A t \in Socks : sock[t] # a
  BY <1>2 DEF SocksHeld
<1>7. SocksDistinct'
  BY <1>2, <1>4, <1>6 DEF SocksDistinct
<1>8. SocksHeld' = SocksHeld \cup {a}
  <2>1. SocksHeld' \subseteq SocksHeld \cup {a}
    BY <1>4 DEF SocksHeld
  <2>2. a \in SocksHeld'
    BY <1>2, <1>4 DEF SocksHeld
  <2>3. SocksHeld \subseteq SocksHeld'
    BY <1>4 DEF SocksHeld
  <2> QED
    BY <2>1, <2>2, <2>3
<1>9. open' \ Held' = SocksHeld'
  BY <1>1, <1>2, <1>3, <1>8
<1>10. IsFiniteSet(open')
  BY <1>1, FS_AddElement
<1> QED
  BY <1>3, <1>4, <1>5, <1>7, <1>9, <1>10

\* Dropping a TcpStream or the listener: its descriptor, and no one else's.
LEMMA CloseSocketsOwned ==
  ASSUME CallsInv, ProxyTypeOK, SocksOwned, NEW S \in SUBSET Socks,
         CloseSockets(S), UNCHANGED fd
  PROVE  /\ SocksOwned' /\ Held' = Held /\ Held \subseteq open' /\ open' \subseteq open
         /\ sock' \in [Socks -> Option(Fds)] /\ IsFiniteSet(open')
         /\ \A t \in Socks : sock'[t] = IF t \in S THEN None ELSE sock[t]
<1> USE DEF ProxyTypeOK, SocksOwned
<1>1. /\ open' = open \ {sock[s] : s \in S}
      /\ \A t \in Socks : sock'[t] = IF t \in S THEN None ELSE sock[t]
  BY DEF CloseSockets
<1>2. sock' \in [Socks -> Option(Fds)]
  BY DEF CloseSockets, Option
<1>3. SocksDistinct'
  BY <1>1 DEF SocksDistinct
<1>4. SocksHeld' = SocksHeld \ {sock[s] : s \in S}
  BY <1>1 DEF SocksHeld, SocksDistinct
<1>5. Held' = Held /\ Held \subseteq open /\ \A x \in Held : x # None
  BY DEF Held, CallsInv, PipesOwned
<1>6. \A x \in Held : x \notin {sock[s] : s \in S}
  <2>1. \A s \in S : sock[s] # None => sock[s] \notin Held
    BY DEF SocksHeld
  <2> QED
    BY <1>5, <2>1
<1>7. open' \ Held' = SocksHeld' /\ Held \subseteq open' /\ open' \subseteq open
  BY <1>1, <1>4, <1>5, <1>6
<1>8. IsFiniteSet(open')
  BY <1>7, FS_Subset
<1> QED
  BY <1>1, <1>2, <1>3, <1>5, <1>7, <1>8

-----------------------------------------------------------------------------
(***************************************************************************)
(* The steps of main(), serve() and the tasks.                             *)
(***************************************************************************)
\* main() gets its listener, or not.
LEMMA BindStep ==
  ASSUME ProxyInv, Bind
  PROVE  ProxyInv'
<1> USE DEF ProxyInv
<1>1. server = "bind" /\ UNCHANGED <<pipeVars, conn>>
  BY DEF Bind
<1>2. CASE OpenSocket(Listener) /\ server' = "accept"
  <2>1. Listener \in Socks /\ sock[Listener] = None
    BY <1>1, SocksApart DEF PhaseSocks
  <2>2. /\ CallsInv' /\ SocksOwned'
        /\ sock' \in [Socks -> Option(Fds)] /\ IsFiniteSet(open')
        /\ \A t \in Socks \ {Listener} : sock'[t] = sock[t]
    BY <1>1, <1>2, <2>1, OpenSocketOwned
  <2>3. \A c \in Calls : {<<c, "stream1">>, <<c, "stream2">>} \subseteq Socks \ {Listener}
    BY SocksApart
  <2>4. PhaseSocks'
    BY <1>1, <1>2, <2>2, <2>3 DEF PhaseSocks
  <2> QED
    BY <1>1, <2>2, <2>4 DEF ProxyTypeOK, OnlyForwardCalls, pipeVars
<1>3. CASE server' = "ended" /\ UNCHANGED <<open, sock>>
  <2>1. CallsInv' /\ Held' = Held
    BY <1>1, <1>3, PipesStay DEF CallsInv, PipesOwned, EntryTypeOK
  <2> QED
    BY <1>1, <1>3, <2>1 DEF ProxyTypeOK, SocksOwned, SocksHeld, SocksDistinct, PhaseSocks,
       OnlyForwardCalls, pipeVars
<1> QED
  BY <1>2, <1>3 DEF Bind

\* A step that gives task c a socket it did not have.
LEMMA TaskOpens ==
  ASSUME ProxyInv, NEW c \in Calls, NEW end \in {"stream1", "stream2"},
         sock[<<c, end>>] = None, OpenSocket(<<c, end>>), UNCHANGED <<pipeVars, server>>,
         \/ /\ conn[c] \in {"none", "backlog"} /\ end = "stream1"
            /\ conn' = [conn EXCEPT ![c] = "accepted"]
         \/ /\ conn[c] = "accepted" /\ conn' = [conn EXCEPT ![c] = "connecting"]
  PROVE  ProxyInv'
<1> USE DEF ProxyInv
<1>1. <<c, end>> \in Socks
  BY SocksApart
<1>2. /\ CallsInv' /\ SocksOwned'
      /\ sock' \in [Socks -> Option(Fds)] /\ IsFiniteSet(open')
      /\ \A t \in Socks \ {<<c, end>>} : sock'[t] = sock[t]
  BY <1>1, OpenSocketOwned
<1>3. /\ conn' \in [Calls -> Connections]
      /\ \A d \in Calls \ {c} : conn'[d] = conn[d]
      /\ conn[c] # "forward"
      /\ \/ conn[c] \in {"none", "backlog"} /\ end = "stream1" /\ conn'[c] = "accepted"
         \/ conn'[c] = "connecting"
  BY DEF ProxyTypeOK, Connections
<1>4. OnlyForwardCalls'
  BY <1>3 DEF OnlyForwardCalls, pipeVars
<1>5. sock'[Listener] = sock[Listener]
  BY <1>2, SocksApart DEF Socks, Listener
<1>6. \A d \in Calls \ {c} : /\ sock'[<<d, "stream1">>] = sock[<<d, "stream1">>]
                            /\ sock'[<<d, "stream2">>] = sock[<<d, "stream2">>]
  BY <1>2, SocksApart
<1>7. end = "stream1" => sock'[<<c, "stream2">>] = sock[<<c, "stream2">>]
  BY <1>2, SocksApart
<1>8. PhaseSocks'
  BY <1>3, <1>5, <1>6, <1>7 DEF PhaseSocks
<1> QED
  BY <1>2, <1>3, <1>4, <1>8 DEF ProxyTypeOK

\* A step that closes both sockets of task c, which has no call any more.
LEMMA TaskCloses ==
  ASSUME ProxyInv, NEW c \in Calls, CloseSockets(StreamsOf(c)), UNCHANGED server,
         conn' = [conn EXCEPT ![c] = "none"],
         CallsInv', UNCHANGED fd, call'[c].pc = "idle",
         \A d \in Calls \ {c} : call'[d] = call[d]
  PROVE  ProxyInv'
<1> USE DEF ProxyInv
<1>1. StreamsOf(c) \in SUBSET Socks
  BY SocksApart
<1>2. /\ SocksOwned'
      /\ sock' \in [Socks -> Option(Fds)] /\ IsFiniteSet(open')
      /\ \A t \in Socks : sock'[t] = IF t \in StreamsOf(c) THEN None ELSE sock[t]
  BY <1>1, CloseSocketsOwned
<1>3. /\ conn' \in [Calls -> Connections]
      /\ \A d \in Calls \ {c} : conn'[d] = conn[d]
      /\ conn'[c] = "none"
  BY DEF ProxyTypeOK, Connections
<1>4. OnlyForwardCalls'
  BY <1>3 DEF OnlyForwardCalls
<1>5. /\ sock'[Listener] = sock[Listener]
      /\ sock'[<<c, "stream1">>] = None /\ sock'[<<c, "stream2">>] = None
  BY <1>2, SocksApart
<1>6. \A d \in Calls \ {c} : /\ sock'[<<d, "stream1">>] = sock[<<d, "stream1">>]
                            /\ sock'[<<d, "stream2">>] = sock[<<d, "stream2">>]
  BY <1>2, SocksApart DEF StreamsOf
<1>7. PhaseSocks'
  BY <1>3, <1>5, <1>6 DEF PhaseSocks
<1> QED
  BY <1>2, <1>3, <1>4, <1>7 DEF ProxyTypeOK

\* The same, for a task that has not made its call yet.
LEMMA TaskGivesUp ==
  ASSUME ProxyInv, NEW c \in Calls, CloseSockets(StreamsOf(c)), conn[c] # "forward",
         conn' = [conn EXCEPT ![c] = "none"], UNCHANGED <<pipeVars, server>>
  PROVE  ProxyInv'
<1>1. StreamsOf(c) \in SUBSET Socks
  BY SocksApart
<1>2. Held \subseteq open' /\ open' \subseteq open
  BY <1>1, CloseSocketsOwned DEF ProxyInv, pipeVars
<1>3. CallsInv'
  BY <1>2, PipesStay DEF ProxyInv, CallsInv, EntryTypeOK
<1>4. call[c].pc = "idle"
  BY DEF ProxyInv, OnlyForwardCalls
<1> QED
  BY <1>3, <1>4, TaskCloses DEF pipeVars

\* A step of the call that task c has made.
LEMMA CallMoves ==
  ASSUME ProxyInv, NEW c \in Calls, conn[c] = "forward",
         Construct(c) \/ SetDone(c) \/ Return(c) \/ Drop(c), UNCHANGED <<server, conn, sock>>
  PROVE  ProxyInv'
<1> USE DEF ProxyInv
<1>1. CallsKept
  BY ConstructStep, SetDoneStep, EndStep
<1>2. \A d \in Calls \ {c} : call'[d] = call[d]
  <2>1. call \in [Calls -> CallRecords]
    BY DEF CallsInv, EntryTypeOK, CallRecords
  <2> QED
    BY <2>1 DEF Construct, PipeWith, PipeSize, WithPipeSize, Built, Fail, Leave, Goto, SetDone,
       Return, Drop
<1>3. CallsInv' /\ open' \ Held' = open \ Held /\ IsFiniteSet(open')
  BY <1>1 DEF CallsKept, OthersKept, ProxyTypeOK
<1>4. OnlyForwardCalls'
  BY <1>2 DEF OnlyForwardCalls
<1> QED
  BY <1>3, <1>4 DEF ProxyTypeOK, SocksOwned, SocksHeld, SocksDistinct, PhaseSocks

\* The upstream has answered: the task makes the call copy_bidirectional makes.
LEMMA ConnectedStep ==
  ASSUME ProxyInv, NEW c \in Calls, Connected(c)
  PROVE  ProxyInv'
<1> USE DEF ProxyInv
<1>1. /\ conn[c] = "connecting" /\ UNCHANGED <<fd, size, granted, server>>
  BY DEF Connected
<1>2. CASE /\ conn' = [conn EXCEPT ![c] = "forward"]
           /\ call' = [call EXCEPT ![c] = [pc |-> "pipe", req |-> Upstream,
                                           pipe |-> 1, target |-> None]]
           /\ UNCHANGED <<open, sock>>
  <2>1. Upstream \in Requests /\ Upstream.op = "copy_bidirectional"
    BY ProxyAssumption DEF Upstream
  <2>2. call[c].pc = "idle"
    BY <1>1 DEF OnlyForwardCalls
  <2>3. Start(c, Upstream)
    BY <1>1, <1>2, <2>1, <2>2 DEF Start
  <2>4. CallsInv' /\ open' \ Held' = open \ Held
    BY <2>1, <2>3, StartStep DEF CallsKept, OthersKept
  <2>5. /\ \A d \in Calls \ {c} : conn'[d] = conn[d] /\ call'[d] = call[d]
        /\ conn'[c] = "forward"
    BY <1>2 DEF ProxyTypeOK, CallsInv, EntryTypeOK
  <2>6. ProxyTypeOK'
    BY <1>2 DEF ProxyTypeOK, Connections
  <2>7. PhaseSocks' /\ OnlyForwardCalls'
    BY <1>1, <1>2, <2>5 DEF PhaseSocks, OnlyForwardCalls
  <2> QED
    BY <1>2, <2>4, <2>6, <2>7 DEF SocksOwned, SocksHeld, SocksDistinct
<1>3. CASE CloseSockets(StreamsOf(c)) /\ conn' = [conn EXCEPT ![c] = "none"] /\ UNCHANGED call
  BY <1>1, <1>3, TaskGivesUp DEF pipeVars
<1> QED
  BY <1>2, <1>3 DEF Connected

\* forwarding() returns: its call is over, so its pipes are gone already.
LEMMA ForwardingEndsStep ==
  ASSUME ProxyInv, NEW c \in Calls, ForwardingEnds(c)
  PROVE  ProxyInv'
<1> USE DEF ProxyInv
<1> DEFINE over == [pc |-> "idle", req |-> None, pipe |-> 1, target |-> None]
<1>1. /\ Over(c) /\ CloseSockets(StreamsOf(c)) /\ conn' = [conn EXCEPT ![c] = "none"]
      /\ call' = [call EXCEPT ![c] = over]
      /\ UNCHANGED <<fd, size, granted, server>>
  BY DEF ForwardingEnds
<1>2. StreamsOf(c) \in SUBSET Socks
  BY SocksApart
<1>3. Held' = Held /\ Held \subseteq open' /\ open' \subseteq open
  BY <1>1, <1>2, CloseSocketsOwned
<1>4. /\ call' \in [Calls -> CallRecords]
      /\ \A d \in Calls \ {c} : call'[d] = call[d]
      /\ call'[c] = over
  <2>1. over \in CallRecords
    BY DEF CallRecords, Phases, Option, Slots
  <2> QED
    BY <1>1, <2>1 DEF CallsInv, EntryTypeOK, CallRecords
<1>5. EntryTypeOK'
  BY <1>1, <1>3, <1>4 DEF CallsInv, EntryTypeOK, CallRecords
<1>6. OnlyCall(c)
  BY <1>1, <1>4 DEF OnlyCall
<1>7. CallOwns(c)'
  <2>1. \A i \in Slots : Unbuilt(c, i)
    BY <1>1 DEF Unbuilt, Over
  <2> QED
    BY <1>1, <2>1 DEF CallsInv, PipesOwned, SlotsEmpty, CallOwns
<1>8. CallSized(c)' /\ CallRanged(c)'
  BY <1>4 DEF CallSized, Sized, CallRanged
<1>9. SlotsEmpty' /\ SizesKnown' /\ RangeChecked'
  BY <1>6, <1>7, <1>8, FrameStep
<1>10. Distinct'
  BY <1>1 DEF Distinct, CallsInv, PipesOwned
<1>11. CallsInv'
  BY <1>3, <1>5, <1>9, <1>10 DEF CallsInv, PipesOwned
<1> QED
  BY <1>1, <1>4, <1>11, TaskCloses

\* serve() is over: the listener is closed.
LEMMA ServeEndsStep ==
  ASSUME ProxyInv, ServeEnds
  PROVE  ProxyInv'
<1> USE DEF ProxyInv
<1>1. server' = "ended" /\ CloseSockets({Listener}) /\ UNCHANGED <<pipeVars, conn>>
  BY DEF ServeEnds
<1>2. {Listener} \in SUBSET Socks
  BY SocksApart
<1>3. /\ SocksOwned' /\ Held' = Held /\ Held \subseteq open' /\ open' \subseteq open
      /\ sock' \in [Socks -> Option(Fds)] /\ IsFiniteSet(open')
      /\ \A t \in Socks : sock'[t] = IF t \in {Listener} THEN None ELSE sock[t]
  BY <1>1, <1>2, CloseSocketsOwned DEF pipeVars
<1>4. CallsInv'
  BY <1>1, <1>3, PipesStay DEF CallsInv, EntryTypeOK
<1>5. \A c \in Calls : {<<c, "stream1">>, <<c, "stream2">>} \subseteq Socks
  BY SocksApart
<1>6. PhaseSocks'
  BY <1>1, <1>3, <1>5 DEF PhaseSocks
<1> QED
  BY <1>1, <1>3, <1>4, <1>6 DEF ProxyTypeOK, OnlyForwardCalls, pipeVars

\* Steps that own nothing: the probe of main(), and what the clients do.
LEMMA QuietStep ==
  ASSUME ProxyInv, UNCHANGED entryVars, UNCHANGED sock,
         server' \in {"start", "bind"} => server \in {"start", "bind"},
         conn' \in [Calls -> Connections],
         \A c \in Calls : conn'[c] # conn[c] => {conn[c], conn'[c]} \subseteq {"none", "backlog"}
  PROVE  ProxyInv'
<1> USE DEF ProxyInv
<1>1. CallsInv' /\ Held' = Held
  BY PipesStay DEF entryVars, pipeVars, CallsInv, PipesOwned, EntryTypeOK
<1>2. SocksOwned'
  BY <1>1 DEF SocksOwned, SocksHeld, SocksDistinct, entryVars
<1>3. ProxyTypeOK'
  BY DEF ProxyTypeOK, Connections, entryVars
<1>4. PhaseSocks'
  BY DEF PhaseSocks
<1>5. OnlyForwardCalls'
  BY DEF OnlyForwardCalls, entryVars
<1> QED
  BY <1>1, <1>2, <1>3, <1>4, <1>5

\* Every step of the proxy keeps the invariant.
LEMMA ProxyInvStep == ProxyInv /\ [ProxyNext]_proxyVars => ProxyInv'
<1> SUFFICES ASSUME ProxyInv, [ProxyNext]_proxyVars PROVE ProxyInv'
  OBVIOUS
<1>1. CASE ProbePipe \/ UNCHANGED proxyVars
  <2>1. /\ UNCHANGED entryVars /\ UNCHANGED sock /\ UNCHANGED conn
        /\ server' \in {"start", "bind"} => server \in {"start", "bind"}
    BY <1>1 DEF ProbePipe, proxyVars
  <2>2. conn' \in [Calls -> Connections]
    BY <2>1 DEF ProxyInv, ProxyTypeOK, Connections
  <2> QED
    BY <2>1, <2>2, QuietStep
<1>2. CASE Bind
  BY <1>2, BindStep
<1>3. CASE ServeEnds
  BY <1>3, ServeEndsStep
<1>4. ASSUME NEW c \in Calls, ClientArrives(c) \/ AcceptAborted(c) PROVE ProxyInv'
  <2>1. /\ UNCHANGED entryVars /\ UNCHANGED sock /\ UNCHANGED server
        /\ conn[c] \in {"none", "backlog"}
        /\ conn' = [conn EXCEPT ![c] = "none"] \/ conn' = [conn EXCEPT ![c] = "backlog"]
    BY <1>4 DEF ClientArrives, AcceptAborted
  <2>2. /\ conn' \in [Calls -> Connections]
        /\ \A d \in Calls : conn'[d] # conn[d] => {conn[d], conn'[d]} \subseteq {"none", "backlog"}
    BY <2>1 DEF ProxyInv, ProxyTypeOK, Connections
  <2> QED
    BY <2>1, <2>2, QuietStep
<1>5. ASSUME NEW c \in Calls, Accept(c) PROVE ProxyInv'
  <2>1. conn[c] = "backlog" /\ sock[<<c, "stream1">>] = None
    BY <1>5 DEF Accept, ProxyInv, PhaseSocks
  <2> QED
    BY <1>5, <2>1, TaskOpens DEF Accept
<1>6. ASSUME NEW c \in Calls, Connect(c) PROVE ProxyInv'
  <2>1. conn[c] = "accepted" /\ sock[<<c, "stream2">>] = None
    BY <1>6 DEF Connect, ProxyInv, PhaseSocks
  <2>2. CASE CloseSockets(StreamsOf(c)) /\ conn' = [conn EXCEPT ![c] = "none"]
    BY <1>6, <2>1, <2>2, TaskGivesUp DEF Connect
  <2>3. CASE OpenSocket(<<c, "stream2">>) /\ conn' = [conn EXCEPT ![c] = "connecting"]
    BY <1>6, <2>1, <2>3, TaskOpens DEF Connect
  <2> QED
    BY <1>6, <2>2, <2>3 DEF Connect
<1>7. ASSUME NEW c \in Calls, Connected(c) \/ ForwardingEnds(c) PROVE ProxyInv'
  BY <1>7, ConnectedStep, ForwardingEndsStep
<1>8. ASSUME NEW c \in Calls, Forward(c) PROVE ProxyInv'
  BY <1>8, CallMoves DEF Forward
<1>9. ASSUME NEW c \in Calls, Abort(c) PROVE ProxyInv'
  <2>1. CASE conn[c] = "forward" /\ Drop(c) /\ UNCHANGED <<conn, sock>>
    BY <1>9, <2>1, CallMoves DEF Abort
  <2>2. CASE ~(conn[c] = "forward" /\ Drop(c) /\ UNCHANGED <<conn, sock>>)
    BY <1>9, <2>2, TaskGivesUp DEF Abort
  <2> QED
    BY <2>1, <2>2
<1> QED
  BY <1>1, <1>2, <1>3, <1>4, <1>5, <1>6, <1>7, <1>8, <1>9 DEF ProxyNext, TaskRuns

-----------------------------------------------------------------------------
(***************************************************************************)
(* The theorems.                                                           *)
(***************************************************************************)
\* The inductive invariant of examples/proxy.rs, for any number of connections
\* and any limit on the descriptors.
THEOREM ProxyInvariance == ProxySpec => []ProxyInv
<1>1. ProxyInit => ProxyInv
  <2> SUFFICES ASSUME ProxyInit PROVE ProxyInv
    OBVIOUS
  <2>1. CallsInv /\ open = {}
    BY CallsInit DEF ProxyInit
  <2>2. ProxyTypeOK
    BY <2>1, FS_EmptySet DEF ProxyInit, ProxyTypeOK, Connections, Option
  <2>3. SocksOwned
    BY <2>1 DEF ProxyInit, SocksOwned, SocksHeld, SocksDistinct
  <2>4. PhaseSocks
    BY SocksApart DEF ProxyInit, PhaseSocks
  <2>5. OnlyForwardCalls
    BY DEF ProxyInit, EntryInit, OnlyForwardCalls
  <2> QED
    BY <2>1, <2>2, <2>3, <2>4, <2>5 DEF ProxyInv
<1> QED
  BY <1>1, ProxyInvStep, PTL DEF ProxySpec

\* As many owners as descriptors, when each owner has one of its own.
LEMMA OwnersCounted ==
  ASSUME NEW f, NEW D, NEW T, IsFiniteSet(T), \A x, y \in D : x # y => f[x] # f[y],
         \A x \in D : f[x] \in T, \A y \in T : \E x \in D : f[x] = y
  PROVE  Cardinality(D) = Cardinality(T)
<1> DEFINE g == [x \in D |-> f[x]]
<1>1. g \in Injection(D, T)
  BY DEF Injection, IsInjective
<1>2. g \in Surjection(D, T)
  BY DEF Surjection
<1> HIDE DEF g
<1> QED
  BY <1>1, <1>2, FS_Injection

\* examples/proxy.rs: every open descriptor belongs to the accept loop, to one
\* task or to one end of one pipe, and none to two of them.
THEOREM ProxyOwnedOnce == ProxySpec => []ProxyFdsOwnedOnce
<1>1. ProxyInv => ProxyFdsOwnedOnce
  <2> SUFFICES ASSUME ProxyInv PROVE ProxyFdsOwnedOnce
    OBVIOUS
  <2> DEFINE socks == {s \in Socks : sock[s] # None}
             ends  == {e \in Ends : fd[e] # None}
             S == {sock[s] : s \in socks}
             E == {fd[e] : e \in ends}
  <2>1. S = SocksHeld /\ E = Held
    BY DEF SocksHeld, Held
  <2>2. open \ Held = SocksHeld /\ Held \subseteq open /\ IsFiniteSet(open)
    BY DEF ProxyInv, SocksOwned, ProxyTypeOK, CallsInv, PipesOwned
  <2>3. open = S \cup E /\ S \cap E = {} /\ IsFiniteSet(S) /\ IsFiniteSet(E)
    BY <2>1, <2>2, FS_Subset
  <2>4. Cardinality(open) = Cardinality(S) + Cardinality(E)
    <3> HIDE DEF S, E
    <3>1. Cardinality(S \cup E) = Cardinality(S) + Cardinality(E) - Cardinality(S \cap E)
      BY <2>3, FS_Union
    <3>2. Cardinality(S) \in Nat /\ Cardinality(E) \in Nat /\ Cardinality(S \cap E) = 0
      BY <2>3, FS_CardinalityType, FS_EmptySet
    <3> QED
      BY <2>3, <3>1, <3>2
  <2>5. Cardinality(socks) = Cardinality(S)
    <3>1. \A x, y \in socks : x # y => sock[x] # sock[y]
      BY DEF ProxyInv, SocksOwned, SocksDistinct
    <3>2. /\ IsFiniteSet(S) /\ \A x \in socks : sock[x] \in S
          /\ \A y \in S : \E x \in socks : sock[x] = y
      BY <2>3
    <3> HIDE DEF socks, S
    <3> QED
      BY <3>1, <3>2, OwnersCounted
  <2>6. Cardinality(ends) = Cardinality(E)
    <3>1. \A x, y \in ends : x # y => fd[x] # fd[y]
      BY DEF ProxyInv, CallsInv, PipesOwned, Distinct
    <3>2. /\ IsFiniteSet(E) /\ \A x \in ends : fd[x] \in E
          /\ \A y \in E : \E x \in ends : fd[x] = y
      BY <2>3
    <3> HIDE DEF ends, E
    <3> QED
      BY <3>1, <3>2, OwnersCounted
  <2> QED
    BY <2>3, <2>4, <2>5, <2>6 DEF ProxyFdsOwnedOnce
<1> QED
  BY <1>1, ProxyInvariance, PTL

\* forwarding(): after any failure to connect, to build the pipes or to copy, a
\* connection that is closed has neither a socket nor an end of a pipe.
THEOREM ClosedHoldNothing == ProxySpec => []ClosedConnectionsHoldNothing
<1>1. ProxyInv => ClosedConnectionsHoldNothing
  <2> SUFFICES ASSUME ProxyInv, NEW c \in Calls, conn[c] \in {"none", "backlog"}
               PROVE  /\ \A s \in StreamsOf(c) : sock[s] = None
                      /\ \A e \in EndsOf(c) : fd[e] = None
    BY DEF ClosedConnectionsHoldNothing
  <2>1. \A s \in StreamsOf(c) : sock[s] = None
    BY SocksApart DEF ProxyInv, PhaseSocks
  <2>2. call[c].pc = "idle"
    BY DEF ProxyInv, OnlyForwardCalls
  <2>3. ASSUME NEW e \in EndsOf(c) PROVE fd[e] = None
    <3>1. PICK i \in Slots, end \in {"drain_fd", "fill_fd"} : e = <<c, i, end>>
      BY DEF EndsOf
    <3> QED
      BY <2>2, <3>1 DEF ProxyInv, CallsInv, PipesOwned, SlotsEmpty, CallOwns, Unbuilt
  <2> QED
    BY <2>1, <2>3
<1> QED
  BY <1>1, ProxyInvariance, PTL
=============================================================================
