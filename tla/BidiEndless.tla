---------------------------- MODULE BidiEndless ----------------------------
(***************************************************************************)
(* copy_bidirectional() when one peer may never stop sending and the other *)
(* sends one byte.  Both directions take their readiness polls out of one  *)
(* cooperative budget, and the first is polled first: it matters which of  *)
(* the two is the endless one.                                             *)
(*                                                                         *)
(* Without a target length the code only compares byte counts with each    *)
(* other, so that they may be counted from any origin.  Once the model has *)
(* counted to MaxSend it moves the origin to what has been delivered.      *)
(***************************************************************************)
EXTENDS SpliceBidiIo

\* An endless sender (external) whose count is at its bound sends on from a new
\* origin; its bytes wait in the socket while the pipe is in use.
RebasedSend(src, dst, ctx, pipe) ==
  /\ src.arrived = MaxSend /\ ~src.eof /\ pipe.level = 0 /\ dst.accepted > 0
  /\ src' = [src EXCEPT !.arrived = @ - dst.accepted + 1, !.edge = TRUE,
                        !.taken = @ - dst.accepted]
  /\ dst' = [dst EXCEPT !.accepted = 0]
  /\ ctx' = [ctx EXCEPT !.bytes_read = 0, !.bytes_written = 0]
  /\ UNCHANGED task

EndlessSend1 ==
  /\ \/ Sl2Sr!PeerSends /\ UNCHANGED ctx1
     \/ RebasedSend(src1, dst1, ctx1, pipe1)
  /\ UNCHANGED <<io1, req1, pipe1, vars2, bidi>>

EndlessSend2 ==
  /\ \/ Sr2Sl!PeerSends /\ UNCHANGED ctx2
     \/ RebasedSend(src2, dst2, ctx2, pipe2)
  /\ UNCHANGED <<io2, req2, pipe2, vars1, bidi>>

\* The other peer sends its byte.
FirstSend  == src1.arrived = 0 /\ Sl2Sr!PeerSends /\ Outside1
SecondSend == src2.arrived = 0 /\ Sr2Sl!PeerSends /\ Outside2

HalfCloses ==
  \/ Sl2Sr!PeerCloses /\ Outside1
  \/ Sr2Sl!PeerCloses /\ Outside2

World1 == (Sl2Sr!PeerReads \/ Reactor1) /\ Outside1
World2 == (Sr2Sl!PeerReads \/ Reactor2) /\ Outside2

\* The peer of SL is endless: no half-close, and it always sends on.
EndlessNext1 == PollStep \/ EndlessSend1 \/ SecondSend \/ World1 \/ World2
EndlessSpec1 == Init /\ [][EndlessNext1]_vars /\ Fairness /\ WF_vars(EndlessSend1)

\* The peer of SR may be endless, or fall silent, or close; that of SL may close.
EndlessNext2 == PollStep \/ EndlessSend2 \/ FirstSend \/ HalfCloses \/ World1 \/ World2
EndlessSpec2 == Init /\ [][EndlessNext2]_vars /\ Fairness

-----------------------------------------------------------------------------
\* Data is written to the opposing stream "in both directions concurrently":
\* a byte that reaches SR is copied to SL, however busy the first direction is.
SecondGetsThrough == src2.arrived >= 1 ~> dst2.accepted >= 1
=============================================================================
