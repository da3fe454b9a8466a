---------------------------- MODULE MCScriptedIo ----------------------------
(***************************************************************************)
(* Instances of ScriptedIo for TLC: scripts made of attempts.              *)
(***************************************************************************)
EXTENDS ScriptedIo, SequencesExt

\* An attempt: what try_io_* does and, for CallInner, what the splicer gives, if
\* it was scripted to give anything.
Inner(results) == {[try_io |-> "CallInner", result |-> r] : r \in results}
Short(kinds)   == {[try_io |-> k, result |-> <<>>] : k \in kinds}

SomeAttempts == Inner({<<>>, <<Ok(0)>>, <<Ok(1)>>, <<Ok(IsizeMax)>>, <<Ok(UsizeMax)>>})
                  \cup Short({"WouldBlock", "Err"})
AllAttempts  == SomeAttempts \cup Inner({<<WouldBlock>>, <<Fault>>})

AllReady(n) == [i \in 1 .. n |-> "Ready"]
Results(as) == FoldSeq(LAMBDA a, rest : a.result \o rest, <<>>, as)

Side(as, ready) ==
  [ready |-> ready, try_io |-> [i \in DOMAIN as |-> as[i].try_io], splice |-> Results(as)]

\* Ready for each attempt.
Plain(A, n) == {Side(as, AllReady(Len(as))) : as \in BoundedSeq(A, n)}

\* Not ready at once, failing where it is to be ready once more, or ready once
\* too often.
Odd(A, n) ==
  UNION {{Side(as, <<"Pending">> \o AllReady(Len(as))),
          Side(as, AllReady(Len(as)) \o <<"Err">>),
          Side(as, AllReady(Len(as) + 1))} : as \in BoundedSeq(A, n)}

Reads  == Plain(SomeAttempts, 3) \cup Odd(AllAttempts, 1)
Writes == Plain(AllAttempts, 2) \cup Odd(AllAttempts, 1)
=============================================================================
