-------------------------- MODULE EntryPointsProofs --------------------------
(***************************************************************************)
(* Proofs about the entry points for any number of concurrent calls, any   *)
(* descriptor table and any pipe sizes: descriptors are owned once, a      *)
(* transfer knows the size of its pipes, and runs over the range it was    *)
(* asked for.                                                              *)
(***************************************************************************)
EXTENDS EntryPoints, FiniteSetTheorems, TLAPS

-----------------------------------------------------------------------------
(***************************************************************************)
(* The inductive invariant.                                                *)
(***************************************************************************)
CallRecords == [pc : Phases, req : Option(Requests), pipe : Slots, target : Option(Nat)]

\* The descriptors that the pipes hold, each at one end of one pipe.
Held == {fd[e] : e \in Ends} \ {None}
Distinct == \A e1, e2 \in Ends : e1 # e2 /\ fd[e1] # None => fd[e1] # fd[e2]

\* Call c has no pipe in slot i: it is not constructing, or has not got there.
Unbuilt(c, i) ==
  \/ call[c].pc \in {"idle", "returned", "failed", "dropped"}
  \/ call[c].pc = "pipe" /\ i >= call[c].pipe
  \/ call[c].pc \in {"size", "resize"} /\ i > call[c].pipe

\* Pipe::new overwrites no descriptor, and a call that is over has none.
CallOwns(c) ==
  \A i \in Slots, end \in {"drain_fd", "fill_fd"} : Unbuilt(c, i) => fd[<<c, i, end>>] = None

SlotsEmpty == \A c \in Calls : CallOwns(c)

\* The part of the invariant that other owners of descriptors leave intact.
PipesOwned == Held \subseteq open /\ Distinct /\ SlotsEmpty

\* The pipe in slot i of call c has been sized, or only created.
Sized(c, i) ==
  \/ call[c].pc \in {"resize", "run"} /\ i <= call[c].pipe
  \/ call[c].pc \in {"pipe", "size"} /\ i < call[c].pipe

CallSized(c) ==
  \A i \in Slots :
    /\ Sized(c, i) => size[<<c, i>>] # None /\ size[<<c, i>>] = granted[<<c, i>>]
    /\ call[c].pc = "size" /\ i = call[c].pipe => granted[<<c, i>>] # None

SizesKnown == \A c \in Calls : CallSized(c)

RangeOf(r) == calc_size_to_splice(r.f_len, r.f_offset_start, r.f_offset_end)

\* A file call has the length that calc_size_to_splice computed, or has failed
\* because of it.
CallRanged(c) ==
  call[c].pc # "idle" =>
    /\ call[c].req \in Requests
    /\ call[c].req.op \in {"sendfile", "recvfile"} =>
         IF call[c].target # None
           THEN RangeOf(call[c].req) = Ok(call[c].target)
           ELSE ~RangeOf(call[c].req).ok /\ call[c].pc = "failed"

RangeChecked == \A c \in Calls : CallRanged(c)

CallsInv == EntryTypeOK /\ PipesOwned /\ SizesKnown /\ RangeChecked

EntryInv == CallsInv /\ open \subseteq Held

-----------------------------------------------------------------------------
(***************************************************************************)
(* What the pieces of the actions do.                                      *)
(***************************************************************************)
\* No descriptor and no size is None.
LEMMA NoneApart ==
  /\ \A f \in Fds : f \in Nat /\ f # None
  /\ \A n \in Nat : n # None
BY NoneAssumption, EntryPointsAssumption

\* A step of one call to another phase.
LEMMA GotoCall ==
  ASSUME EntryTypeOK, NEW c \in Calls, NEW pc \in Phases, Goto(c, pc)
  PROVE  /\ call' \in [Calls -> CallRecords]
         /\ \A d \in Calls \ {c} : call'[d] = call[d]
         /\ call'[c].pc = pc /\ call'[c].req = call[c].req
         /\ call'[c].pipe = call[c].pipe /\ call'[c].target = call[c].target
BY DEF EntryTypeOK, Goto, CallRecords

\* A context is complete: the call runs, or goes on to its second pipe.
LEMMA BuiltCall ==
  ASSUME EntryTypeOK, NEW c \in Calls, Built(c)
  PROVE  /\ call' \in [Calls -> CallRecords]
         /\ \A d \in Calls \ {c} : call'[d] = call[d]
         /\ call'[c].req = call[c].req /\ call'[c].target = call[c].target
         /\ \/ call'[c].pc = "run" /\ call'[c].pipe = call[c].pipe
            \/ call'[c].pc = "pipe" /\ call[c].pipe = 1 /\ call'[c].pipe = 2
<1>1. CASE Goto(c, "run")
  <2>1. "run" \in Phases
    BY DEF Phases
  <2> QED
    BY <1>1, <2>1, GotoCall
<1>2. CASE /\ call' = [call EXCEPT ![c].pc = "pipe", ![c].pipe = 2]
           /\ call[c].pipe = 1
  BY <1>2 DEF EntryTypeOK, CallRecords, Phases, Slots
<1> QED
  BY <1>1, <1>2 DEF Built

\* Closing descriptors: those of the given ends, and no one else's.
LEMMA CloseOwned ==
  ASSUME EntryTypeOK, Held \subseteq open, Distinct, NEW E \in SUBSET Ends, Close(E)
  PROVE  /\ Held' \subseteq open' /\ Distinct'
         /\ open' \ Held' = open \ Held
         /\ open' \subseteq open
         /\ fd' \in [Ends -> Option(Fds)]
         /\ \A e \in Ends : fd'[e] = IF e \in E THEN None ELSE fd[e]
<1>1. /\ open' = open \ {fd[e] : e \in E}
      /\ \A e \in Ends : fd'[e] = IF e \in E THEN None ELSE fd[e]
  BY DEF Close
<1>2. fd' \in [Ends -> Option(Fds)]
  BY DEF Close, EntryTypeOK, Option
<1>3. Distinct'
  BY <1>1 DEF Distinct
<1>4. Held' = Held \ {fd[e] : e \in E}
  BY <1>1 DEF Held, Distinct
<1>5. \A x \in open : x \in {fd[e] : e \in E} => x \in Held
  BY NoneApart DEF Held, EntryTypeOK
<1>6. open' \ Held' = open \ Held /\ Held' \subseteq open'
  BY <1>1, <1>4, <1>5
<1> QED
  BY <1>1, <1>2, <1>3, <1>6

\* Opening a pipe: two new descriptors, in two ends that held none.
LEMMA OpenOwned ==
  ASSUME EntryTypeOK, Held \subseteq open, Distinct,
         NEW e1 \in Ends, NEW e2 \in Ends, e1 # e2, fd[e1] = None, fd[e2] = None,
         NEW a \in Free, NEW b \in Free \ {a},
         open' = open \cup {a, b}, fd' = [fd EXCEPT ![e1] = a, ![e2] = b]
  PROVE  /\ Held' \subseteq open' /\ Distinct'
         /\ open' \ Held' = open \ Held
         /\ open' \subseteq Fds
         /\ fd' \in [Ends -> Option(Fds)]
         /\ \A e \in Ends \ {e1, e2} : fd'[e] = fd[e]
<1>1. /\ fd \in [Ends -> Option(Fds)] /\ a \in Fds /\ b \in Fds /\ a # b
      /\ a \notin open /\ b \notin open /\ open \subseteq Fds
  BY DEF EntryTypeOK, Free
<1>2. /\ fd'[e1] = a /\ fd'[e2] = b
      /\ \A e \in Ends \ {e1, e2} : fd'[e] = fd[e]
  BY <1>1
<1>3. fd' \in [Ends -> Option(Fds)]
  BY <1>1 DEF Option
<1>4. a # None /\ b # None
  BY <1>1, NoneApart
<1>5. \A e \in Ends : fd[e] # a /\ fd[e] # b
  BY <1>1, <1>4 DEF Held
<1>6. Distinct'
  BY <1>2, <1>4, <1>5 DEF Distinct
<1>7. Held' = Held \cup {a, b}
  <2>1. Held' \subseteq Held \cup {a, b}
    BY <1>2 DEF Held
  <2>2. a \in Held' /\ b \in Held'
    BY <1>2, <1>4 DEF Held
  <2>3. Held \subseteq Held'
    BY <1>2 DEF Held
  <2> QED
    BY <2>1, <2>2, <2>3
<1> QED
  BY <1>1, <1>2, <1>3, <1>6, <1>7

-----------------------------------------------------------------------------
(***************************************************************************)
(* The steps of one call.                                                  *)
(***************************************************************************)
\* What a step of the calls leaves alone: the descriptors of other owners.
OthersKept ==
  /\ open' \ Held' = open \ Held
  /\ IsFiniteSet(open) => IsFiniteSet(open')

CallsKept == CallsInv' /\ OthersKept

\* A step of call c leaves the records of the other calls as they are.
OnlyCall(c) ==
  \A d \in Calls \ {c} :
    /\ call'[d] = call[d]
    /\ \A i \in Slots : /\ size'[<<d, i>>] = size[<<d, i>>]
                        /\ granted'[<<d, i>>] = granted[<<d, i>>]
                        /\ \A end \in {"drain_fd", "fill_fd"} :
                             fd'[<<d, i, end>>] = fd[<<d, i, end>>]

\* The frame of every step: it is enough to look at the call that moves.
LEMMA FrameStep ==
  ASSUME CallsInv, NEW c \in Calls, OnlyCall(c), CallOwns(c)', CallSized(c)', CallRanged(c)'
  PROVE  SlotsEmpty' /\ SizesKnown' /\ RangeChecked'
<1> USE DEF CallsInv, PipesOwned
<1>1. SlotsEmpty'
  <2> SUFFICES ASSUME NEW d \in Calls, NEW i \in Slots, NEW end \in {"drain_fd", "fill_fd"},
                      Unbuilt(d, i)'
               PROVE  fd'[<<d, i, end>>] = None
    BY DEF SlotsEmpty, CallOwns
  <2>1. CASE d = c
    BY <2>1 DEF CallOwns
  <2>2. CASE d # c
    <3>1. Unbuilt(d, i)
      BY <2>2 DEF Unbuilt, OnlyCall
    <3>2. fd[<<d, i, end>>] = None
      BY <3>1 DEF SlotsEmpty, CallOwns
    <3> QED
      BY <2>2, <3>2 DEF OnlyCall
  <2> QED
    BY <2>1, <2>2
<1>2. SizesKnown'
  <2> SUFFICES ASSUME NEW d \in Calls, NEW i \in Slots
               PROVE  /\ Sized(d, i)' =>
                           size'[<<d, i>>] # None /\ size'[<<d, i>>] = granted'[<<d, i>>]
                      /\ call'[d].pc = "size" /\ i = call'[d].pipe => granted'[<<d, i>>] # None
    BY DEF SizesKnown, CallSized
  <2>1. CASE d = c
    BY <2>1 DEF CallSized
  <2>2. CASE d # c
    <3>1. /\ Sized(d, i) => size[<<d, i>>] # None /\ size[<<d, i>>] = granted[<<d, i>>]
          /\ call[d].pc = "size" /\ i = call[d].pipe => granted[<<d, i>>] # None
      BY DEF SizesKnown, CallSized
    <3> QED
      BY <2>2, <3>1 DEF OnlyCall, Sized
  <2> QED
    BY <2>1, <2>2
<1>3. RangeChecked'
  BY DEF RangeChecked, CallRanged, OnlyCall
<1> QED
  BY <1>1, <1>2, <1>3

\* A range that is accepted has a length.
LEMMA RangeLength ==
  ASSUME NEW r \in Requests, RangeOf(r).ok
  PROVE  RangeOf(r).val \in Nat /\ RangeOf(r) = Ok(RangeOf(r).val)
<1> DEFINE start == UnwrapOr(r.f_offset_start, 0)
           end   == UnwrapOr(r.f_offset_end, r.f_len)
<1>1. r \in Request
  BY EntryPointsAssumption
<1>2. start \in Nat /\ end \in Nat
  BY <1>1 DEF Request, Option, UnwrapOr
<1>3. RangeOf(r) = IF start > end \/ end > r.f_len THEN Err ELSE Ok(end - start)
  BY DEF RangeOf, calc_size_to_splice
<1> HIDE DEF start, end
<1>4. ~(start > end) /\ RangeOf(r) = Ok(end - start)
  BY <1>3 DEF Ok, Err
<1>5. RangeOf(r).val = end - start
  BY <1>4 DEF Ok
<1> QED
  BY <1>2, <1>4, <1>5

\* A call is made: it has no pipe yet, and its range has been checked.
LEMMA StartStep ==
  ASSUME CallsInv, NEW c \in Calls, NEW r \in Requests, Start(c, r)
  PROVE  CallsKept
<1> USE DEF CallsInv, PipesOwned
<1> DEFINE isFile == r.op \in {"sendfile", "recvfile"}
<1>1. UNCHANGED <<open, fd, size, granted>> /\ (call[c].pc = "idle" \/ Over(c))
  BY DEF Start
<1>2. RangeOf(r).ok => RangeOf(r).val \in Nat /\ RangeOf(r) = Ok(RangeOf(r).val)
  BY RangeLength
<1>3. call' = [call EXCEPT ![c] =
                 [pc |-> IF isFile /\ ~RangeOf(r).ok THEN "failed" ELSE "pipe",
                  req |-> r, pipe |-> 1,
                  target |-> IF isFile /\ RangeOf(r).ok THEN RangeOf(r).val ELSE None]]
  BY DEF Start, RangeOf
<1>4. /\ \A d \in Calls \ {c} : call'[d] = call[d]
      /\ call'[c].pc = IF isFile /\ ~RangeOf(r).ok THEN "failed" ELSE "pipe"
      /\ call'[c].req = r /\ call'[c].pipe = 1
      /\ call'[c].target = IF isFile /\ RangeOf(r).ok THEN RangeOf(r).val ELSE None
  BY <1>3 DEF EntryTypeOK
<1>5. call' \in [Calls -> CallRecords]
  BY <1>2, <1>3 DEF EntryTypeOK, CallRecords, Phases, Slots, Option
<1> HIDE DEF isFile
<1>6. EntryTypeOK'
  BY <1>1, <1>5 DEF EntryTypeOK, CallRecords
<1>7. Held' = Held /\ Distinct' /\ OthersKept
  BY <1>1 DEF Held, Distinct, OthersKept
<1>8. OnlyCall(c)
  BY <1>1, <1>4 DEF OnlyCall
<1>9. CallOwns(c)'
  <2>1. \A i \in Slots : Unbuilt(c, i)
    BY <1>1 DEF Unbuilt, Over
  <2> QED
    BY <1>1, <2>1 DEF CallOwns, SlotsEmpty
<1>10. CallSized(c)'
  <2>1. call'[c].pc \notin {"size", "resize", "run"} /\ \A i \in Slots : ~(i < call'[c].pipe)
    BY <1>4 DEF Slots
  <2> QED
    BY <2>1 DEF CallSized, Sized
<1>11. CallRanged(c)'
  <2>1. isFile => IF call'[c].target # None
                    THEN RangeOf(r) = Ok(call'[c].target)
                    ELSE ~RangeOf(r).ok /\ call'[c].pc = "failed"
    BY <1>2, <1>4, NoneApart
  <2> QED
    BY <1>4, <2>1 DEF CallRanged, isFile
<1>12. SlotsEmpty' /\ SizesKnown' /\ RangeChecked'
  BY <1>8, <1>9, <1>10, <1>11, FrameStep
<1> QED
  BY <1>1, <1>6, <1>7, <1>12 DEF CallsKept

Living == {"pipe", "size", "resize", "run"}

\* A living file call has its length, which it keeps in every phase.
LEMMA RangeKept ==
  ASSUME CallsInv, NEW c \in Calls, call[c].pc \in Living,
         call'[c].req = call[c].req, call'[c].target = call[c].target
  PROVE  CallRanged(c)'
BY DEF CallsInv, RangeChecked, CallRanged, Living

\* The call is over: with an error, at its end, or dropped.
LEMMA LeaveStep ==
  ASSUME CallsInv, NEW c \in Calls, NEW pc \in {"returned", "failed", "dropped"},
         Leave(c, pc), call[c].pc \in Living
  PROVE  CallsKept /\ (\A e \in EndsOf(c) : fd'[e] = None)
<1> USE DEF CallsInv, PipesOwned
<1>1. pc \in Phases /\ Goto(c, pc)
  BY DEF Phases, Leave
<1>2. /\ call' \in [Calls -> CallRecords]
      /\ \A d \in Calls \ {c} : call'[d] = call[d]
      /\ call'[c].pc = pc /\ call'[c].req = call[c].req
      /\ call'[c].pipe = call[c].pipe /\ call'[c].target = call[c].target
  BY <1>1, GotoCall
<1>3. EndsOf(c) \in SUBSET Ends /\ Close(EndsOf(c))
  BY DEF EndsOf, Ends, Leave
<1>4. /\ Held' \subseteq open' /\ Distinct' /\ open' \ Held' = open \ Held /\ open' \subseteq open
      /\ fd' \in [Ends -> Option(Fds)]
      /\ \A e \in Ends : fd'[e] = IF e \in EndsOf(c) THEN None ELSE fd[e]
  BY <1>3, CloseOwned
<1>5. /\ size' = Forget(size, c) /\ granted' = Forget(granted, c)
  BY DEF Leave
<1>6. EntryTypeOK'
  <2>1. size' \in [Calls \X Slots -> Option(Nat \ {0})]
        /\ granted' \in [Calls \X Slots -> Option(Nat \ {0})]
    BY <1>5 DEF Forget, EntryTypeOK, Option
  <2> QED
    BY <1>2, <1>4, <2>1 DEF EntryTypeOK, CallRecords
<1>7. \A e \in EndsOf(c) : fd'[e] = None
  BY <1>3, <1>4
<1>8. OnlyCall(c)
  <2> SUFFICES ASSUME NEW d \in Calls \ {c}, NEW i \in Slots
               PROVE  /\ call'[d] = call[d]
                      /\ size'[<<d, i>>] = size[<<d, i>>]
                      /\ granted'[<<d, i>>] = granted[<<d, i>>]
                      /\ \A end \in {"drain_fd", "fill_fd"} :
                           fd'[<<d, i, end>>] = fd[<<d, i, end>>]
    BY <1>2 DEF OnlyCall
  <2>1. size'[<<d, i>>] = size[<<d, i>>] /\ granted'[<<d, i>>] = granted[<<d, i>>]
    BY <1>5 DEF Forget
  <2>2. \A end \in {"drain_fd", "fill_fd"} : <<d, i, end>> \in Ends \ EndsOf(c)
    BY DEF Ends, EndsOf
  <2> QED
    BY <1>2, <1>4, <2>1, <2>2
<1>9. CallOwns(c)'
  BY <1>7 DEF CallOwns, EndsOf
<1>10. CallSized(c)'
  BY <1>2 DEF CallSized, Sized
<1>11. CallRanged(c)'
  BY <1>2, RangeKept
<1>12. SlotsEmpty' /\ SizesKnown' /\ RangeChecked'
  BY <1>8, <1>9, <1>10, <1>11, FrameStep
<1>13. OthersKept
  BY <1>4, FS_Subset DEF OthersKept
<1> QED
  BY <1>4, <1>6, <1>7, <1>12, <1>13 DEF CallsKept

\* Pipe::new has a pipe: two descriptors that no one else holds, of some size.
LEMMA NewPipeStep ==
  ASSUME CallsInv, NEW c \in Calls, call[c].pc = "pipe", Goto(c, "size"), UNCHANGED size,
         NEW a \in Free, NEW b \in Free, NEW s \in DefaultSizes, Lowest(b, Free \ {a}),
         open' = open \cup {a, b},
         fd' = [fd EXCEPT ![<<c, call[c].pipe, "drain_fd">>] = a,
                          ![<<c, call[c].pipe, "fill_fd">>] = b],
         granted' = [granted EXCEPT ![<<c, call[c].pipe>>] = s]
  PROVE  CallsKept
<1> USE DEF CallsInv, PipesOwned
<1> DEFINE k  == call[c].pipe
           e1 == <<c, k, "drain_fd">>
           e2 == <<c, k, "fill_fd">>
<1>1. k \in Slots /\ e1 \in Ends /\ e2 \in Ends /\ e1 # e2 /\ b \in Free \ {a}
  BY DEF EntryTypeOK, Ends, Lowest
<1>2. fd[e1] = None /\ fd[e2] = None
  <2>1. Unbuilt(c, k)
    BY <1>1 DEF Unbuilt, Slots
  <2> QED
    BY <1>1, <2>1 DEF SlotsEmpty, CallOwns
<1>3. /\ Held' \subseteq open' /\ Distinct' /\ open' \ Held' = open \ Held /\ open' \subseteq Fds
      /\ fd' \in [Ends -> Option(Fds)]
      /\ \A e \in Ends \ {e1, e2} : fd'[e] = fd[e]
  <2> HIDE DEF e1, e2
  <2>1. fd' = [fd EXCEPT ![e1] = a, ![e2] = b]
    BY DEF e1, e2
  <2> QED
    BY <1>1, <1>2, <2>1, OpenOwned
<1>4. /\ call' \in [Calls -> CallRecords]
      /\ \A d \in Calls \ {c} : call'[d] = call[d]
      /\ call'[c].pc = "size" /\ call'[c].req = call[c].req
      /\ call'[c].pipe = call[c].pipe /\ call'[c].target = call[c].target
  <2>1. "size" \in Phases
    BY DEF Phases
  <2> QED
    BY <2>1, GotoCall
<1>5. s \in Nat \ {0} /\ s # None
  BY EntryPointsAssumption, NoneApart
<1>6. /\ granted' \in [Calls \X Slots -> Option(Nat \ {0})]
      /\ granted'[<<c, k>>] = s
      /\ \A p \in (Calls \X Slots) \ {<<c, k>>} : granted'[p] = granted[p]
  BY <1>1, <1>5 DEF EntryTypeOK, Option
<1> HIDE DEF k
<1>7. EntryTypeOK'
  BY <1>3, <1>4, <1>6 DEF EntryTypeOK, CallRecords
<1>8. OnlyCall(c)
  <2> SUFFICES ASSUME NEW d \in Calls \ {c}, NEW i \in Slots
               PROVE  /\ granted'[<<d, i>>] = granted[<<d, i>>]
                      /\ \A end \in {"drain_fd", "fill_fd"} :
                           fd'[<<d, i, end>>] = fd[<<d, i, end>>]
    BY <1>4 DEF OnlyCall
  <2>1. <<d, i>> \in (Calls \X Slots) \ {<<c, k>>}
    OBVIOUS
  <2>2. \A end \in {"drain_fd", "fill_fd"} : <<d, i, end>> \in Ends \ {e1, e2}
    BY DEF Ends
  <2> QED
    BY <1>3, <1>6, <2>1, <2>2
<1>9. CallOwns(c)'
  <2> SUFFICES ASSUME NEW i \in Slots, NEW end \in {"drain_fd", "fill_fd"}, Unbuilt(c, i)'
               PROVE  fd'[<<c, i, end>>] = None
    BY DEF CallOwns
  <2>1. i > k
    BY <1>4 DEF Unbuilt, k
  <2>2. k \in 1..2 /\ i \in 1..2 /\ i # k
    BY <1>1, <2>1 DEF Slots
  <2>3. Unbuilt(c, i)
    BY <2>1, <2>2 DEF Unbuilt, k
  <2>4. <<c, i, end>> \in Ends \ {e1, e2}
    BY <2>2 DEF Ends
  <2>5. fd[<<c, i, end>>] = None
    BY <2>3 DEF SlotsEmpty, CallOwns
  <2>6. fd'[<<c, i, end>>] = fd[<<c, i, end>>]
    BY <1>3, <2>4
  <2> QED
    BY <2>5, <2>6
<1>10. CallSized(c)'
  <2> SUFFICES ASSUME NEW i \in Slots
               PROVE  /\ Sized(c, i)' =>
                           size'[<<c, i>>] # None /\ size'[<<c, i>>] = granted'[<<c, i>>]
                      /\ call'[c].pc = "size" /\ i = call'[c].pipe => granted'[<<c, i>>] # None
    BY DEF CallSized
  <2>1. CASE i = k
    BY <1>1, <1>4, <1>5, <1>6, <2>1 DEF Sized, k, Slots
  <2>2. CASE i # k
    <3>1. <<c, i>> \in (Calls \X Slots) \ {<<c, k>>}
      BY <2>2
    <3>2. Sized(c, i)' => Sized(c, i)
      BY <1>4 DEF Sized
    <3> QED
      BY <1>4, <1>6, <2>2, <3>1, <3>2 DEF SizesKnown, CallSized, k
  <2> QED
    BY <2>1, <2>2
<1>11. CallRanged(c)'
  BY <1>4, RangeKept DEF Living
<1>12. SlotsEmpty' /\ SizesKnown' /\ RangeChecked'
  BY <1>8, <1>9, <1>10, <1>11, FrameStep
<1>13. OthersKept
  <2>1. IsFiniteSet({a, b})
    <3>1. IsFiniteSet({a}) /\ IsFiniteSet({b}) /\ {a, b} = {a} \cup {b}
      BY FS_Singleton
    <3> QED
      BY <3>1, FS_Union
  <2> QED
    BY <1>3, <2>1, FS_Union DEF OthersKept
<1> QED
  BY <1>3, <1>7, <1>12, <1>13 DEF CallsKept

\* The size of a pipe is set or asked for, and the call goes on.
LEMMA SizeStep ==
  ASSUME CallsInv, NEW c \in Calls, call[c].pc \in {"size", "resize"},
         UNCHANGED <<open, fd>>, Goto(c, "resize") \/ Built(c),
         \/ UNCHANGED granted
         \/ \E s \in Grants : granted' = [granted EXCEPT ![<<c, call[c].pipe>>] = s],
         size' = [size EXCEPT ![<<c, call[c].pipe>>] = granted'[<<c, call[c].pipe>>]]
  PROVE  CallsKept
<1> USE DEF CallsInv, PipesOwned
<1> DEFINE k == call[c].pipe
<1>1. k \in Slots /\ <<c, k>> \in Calls \X Slots
  BY DEF EntryTypeOK
<1>2. /\ call' \in [Calls -> CallRecords]
      /\ \A d \in Calls \ {c} : call'[d] = call[d]
      /\ call'[c].req = call[c].req /\ call'[c].target = call[c].target
      /\ \/ call'[c].pc \in {"resize", "run"} /\ call'[c].pipe = k
         \/ call'[c].pc = "pipe" /\ k = 1 /\ call'[c].pipe = 2
  <2>1. "resize" \in Phases
    BY DEF Phases
  <2> QED
    BY <2>1, GotoCall, BuiltCall
<1>3. granted[<<c, k>>] # None
  <2>1. k <= k
    BY <1>1 DEF Slots
  <2>2. CallSized(c)
    BY DEF SizesKnown
  <2> QED
    BY <1>1, <2>1, <2>2 DEF CallSized, Sized
<1>4. /\ granted' \in [Calls \X Slots -> Option(Nat \ {0})]
      /\ granted'[<<c, k>>] # None
      /\ \A p \in (Calls \X Slots) \ {<<c, k>>} : granted'[p] = granted[p]
  <2>1. CASE UNCHANGED granted
    BY <1>3, <2>1 DEF EntryTypeOK
  <2>2. ASSUME NEW s \in Grants, granted' = [granted EXCEPT ![<<c, k>>] = s]
        PROVE  <1>4!:
    <3>1. s \in Nat \ {0} /\ s # None
      BY EntryPointsAssumption, NoneApart
    <3> QED
      BY <1>1, <2>2, <3>1 DEF EntryTypeOK, Option
  <2> QED
    BY <2>1, <2>2
<1>5. /\ size' \in [Calls \X Slots -> Option(Nat \ {0})]
      /\ size'[<<c, k>>] = granted'[<<c, k>>]
      /\ \A p \in (Calls \X Slots) \ {<<c, k>>} : size'[p] = size[p]
  BY <1>1, <1>4 DEF EntryTypeOK, Option
<1> HIDE DEF k
<1>6. EntryTypeOK'
  BY <1>2, <1>4, <1>5 DEF EntryTypeOK, CallRecords
<1>7. Held' = Held /\ Distinct' /\ OthersKept
  BY DEF Held, Distinct, OthersKept
<1>8. OnlyCall(c)
  <2>1. \A d \in Calls \ {c}, i \in Slots : <<d, i>> \in (Calls \X Slots) \ {<<c, k>>}
    OBVIOUS
  <2> QED
    BY <1>2, <1>4, <1>5, <2>1 DEF OnlyCall
<1>9. CallOwns(c)'
  <2>1. \A i \in Slots : Unbuilt(c, i)' => Unbuilt(c, i)
    BY <1>1, <1>2 DEF Unbuilt, k, Slots
  <2> QED
    BY <2>1 DEF SlotsEmpty, CallOwns
<1>10. CallSized(c)'
  <2> SUFFICES ASSUME NEW i \in Slots, Sized(c, i)'
               PROVE  size'[<<c, i>>] # None /\ size'[<<c, i>>] = granted'[<<c, i>>]
    BY <1>2 DEF CallSized
  <2>1. CASE i = k
    BY <1>4, <1>5, <2>1
  <2>2. CASE i # k
    <3>1. <<c, i>> \in (Calls \X Slots) \ {<<c, k>>}
      BY <2>2
    <3>2. Sized(c, i)
      BY <1>1, <1>2, <2>2 DEF Sized, Slots, k
    <3> QED
      BY <1>4, <1>5, <3>1, <3>2 DEF SizesKnown, CallSized
  <2> QED
    BY <2>1, <2>2
<1>11. CallRanged(c)'
  BY <1>2, RangeKept DEF Living
<1>12. SlotsEmpty' /\ SizesKnown' /\ RangeChecked'
  BY <1>8, <1>9, <1>10, <1>11, FrameStep
<1> QED
  BY <1>6, <1>7, <1>12 DEF CallsKept

\* A running transfer is done with one end of one of its pipes.
LEMMA SetDoneStep ==
  ASSUME CallsInv, NEW c \in Calls, SetDone(c)
  PROVE  CallsKept
<1> USE DEF CallsInv, PipesOwned
<1>1. PICK j \in Slots, last \in {"drain_fd", "fill_fd"} : Close({<<c, j, last>>})
  BY DEF SetDone
<1>2. call[c].pc = "run" /\ UNCHANGED <<size, granted, call>>
  BY DEF SetDone
<1> DEFINE E == {<<c, j, last>>}
<1>3. E \in SUBSET Ends
  BY DEF Ends
<1>4. /\ Held' \subseteq open' /\ Distinct' /\ open' \ Held' = open \ Held /\ open' \subseteq open
      /\ fd' \in [Ends -> Option(Fds)]
      /\ \A e \in Ends : fd'[e] = IF e \in E THEN None ELSE fd[e]
  <2> HIDE DEF E
  <2>1. Close(E)
    BY <1>1 DEF E
  <2> QED
    BY <1>3, <2>1, CloseOwned
<1>5. EntryTypeOK'
  BY <1>2, <1>4 DEF EntryTypeOK
<1>6. OnlyCall(c)
  <2>1. \A d \in Calls \ {c}, i \in Slots, end \in {"drain_fd", "fill_fd"} :
          <<d, i, end>> \in Ends \ E
    BY DEF Ends
  <2> QED
    BY <1>2, <1>4, <2>1 DEF OnlyCall
<1>7. CallOwns(c)' /\ CallSized(c)'
  BY <1>2 DEF CallOwns, CallSized, Unbuilt, Sized, SizesKnown
<1>8. CallRanged(c)'
  BY <1>2, RangeKept DEF Living
<1>9. SlotsEmpty' /\ SizesKnown' /\ RangeChecked'
  BY <1>6, <1>7, <1>8, FrameStep
<1>10. OthersKept
  BY <1>4, FS_Subset DEF OthersKept
<1> QED
  BY <1>4, <1>5, <1>9, <1>10 DEF CallsKept

\* A step between two awaits that builds a pipe of the call, or fails it.
LEMMA ConstructStep ==
  ASSUME CallsInv, NEW c \in Calls, Construct(c)
  PROVE  CallsKept
<1>1. ASSUME Fail(c), call[c].pc \in Living
      PROVE  CallsKept
  BY <1>1, LeaveStep DEF Fail
<1>2. CASE PipeWith(c)
  <2>1. CASE Fail(c)
    BY <1>1, <1>2, <2>1 DEF PipeWith, Living
  <2>2. CASE ~Fail(c)
    BY <1>2, <2>2, NewPipeStep DEF PipeWith
  <2> QED
    BY <2>1, <2>2
<1>3. CASE PipeSize(c)
  <2>1. CASE Fail(c)
    BY <1>1, <1>3, <2>1 DEF PipeSize, Living
  <2>2. CASE ~Fail(c)
    <3>1. /\ call[c].pc \in {"size", "resize"} /\ UNCHANGED <<open, fd>>
          /\ Goto(c, "resize") \/ Built(c)
          /\ \/ UNCHANGED granted
             \/ \E s \in Grants : granted' = [granted EXCEPT ![<<c, call[c].pipe>>] = s]
          /\ size' = [size EXCEPT ![<<c, call[c].pipe>>] = granted'[<<c, call[c].pipe>>]]
      BY <1>3, <2>2 DEF PipeSize, SetPipeSize
    <3> QED
      BY <3>1, SizeStep
  <2> QED
    BY <2>1, <2>2
<1>4. CASE WithPipeSize(c)
  <2>1. CASE Fail(c)
    BY <1>1, <1>4, <2>1 DEF WithPipeSize, Living
  <2>2. CASE ~Fail(c)
    <3>1. /\ call[c].pc \in {"size", "resize"} /\ UNCHANGED <<open, fd>> /\ Built(c)
          /\ \E s \in Grants : granted' = [granted EXCEPT ![<<c, call[c].pipe>>] = s]
          /\ size' = [size EXCEPT ![<<c, call[c].pipe>>] = granted'[<<c, call[c].pipe>>]]
      BY <1>4, <2>2 DEF WithPipeSize, SetPipeSize
    <3> QED
      BY <3>1, SizeStep
  <2> QED
    BY <2>1, <2>2
<1> QED
  BY <1>2, <1>3, <1>4 DEF Construct

\* The transfer returns, or its future is dropped while it runs.
LEMMA EndStep ==
  ASSUME CallsInv, NEW c \in Calls, Return(c) \/ Drop(c)
  PROVE  CallsKept
BY LeaveStep DEF Return, Drop, Living

-----------------------------------------------------------------------------
(***************************************************************************)
(* The theorems.                                                           *)
(***************************************************************************)
\* No call has been made, and nothing is open.
LEMMA CallsInit == EntryInit => CallsInv /\ open = {}
<1> SUFFICES ASSUME EntryInit PROVE CallsInv
  BY DEF EntryInit
<1> USE DEF EntryInit
<1>1. EntryTypeOK
  BY DEF EntryTypeOK, Option, Phases, Slots
<1>2. PipesOwned
  <2>1. \A e \in Ends : fd[e] = None
    OBVIOUS
  <2>2. SlotsEmpty
    BY <2>1 DEF SlotsEmpty, CallOwns, Ends
  <2> QED
    BY <2>1, <2>2 DEF PipesOwned, Held, Distinct
<1>3. SizesKnown /\ RangeChecked
  BY DEF SizesKnown, CallSized, Sized, RangeChecked, CallRanged
<1> QED
  BY <1>1, <1>2, <1>3 DEF CallsInv

\* Every call on its own keeps EntryInv, whatever the others have reached.
LEMMA EntryInvStep == EntryInv /\ [EntryNext]_entryVars => EntryInv'
<1> SUFFICES ASSUME EntryInv, [EntryNext]_entryVars PROVE EntryInv'
  OBVIOUS
<1>1. CASE EntryNext
  <2>1. CallsKept
    BY <1>1, StartStep, ConstructStep, SetDoneStep, EndStep DEF EntryNext, EntryInv
  <2> QED
    BY <2>1 DEF CallsKept, OthersKept, EntryInv
<1>2. CASE UNCHANGED entryVars
  BY <1>2 DEF entryVars, EntryInv, CallsInv, EntryTypeOK, PipesOwned, Held, Distinct, SlotsEmpty,
     CallOwns, Unbuilt, SizesKnown, CallSized, Sized, RangeChecked, CallRanged
<1> QED
  BY <1>1, <1>2

\* The inductive invariant, for any set of concurrent calls (src/lib.rs) and
\* any descriptor table.
THEOREM EntryInvariance == EntrySpec => []EntryInv
<1>1. EntryInit => EntryInv
  BY CallsInit DEF EntryInv
<1> QED
  BY <1>1, EntryInvStep, PTL DEF EntrySpec

\* Descriptors, sizes and the records of the calls stay in their types.
THEOREM EntryTypes == EntrySpec => []EntryTypeOK
<1>1. EntryInv => EntryTypeOK
  BY DEF EntryInv, CallsInv
<1> QED
  BY <1>1, EntryInvariance, PTL

\* The OwnedFds of src/pipe.rs: nothing is leaked, nothing is closed twice, and
\* a call that is over holds nothing, however the calls interleave and fail.
THEOREM OwnedOnce == EntrySpec => []FdsOwnedOnce
<1>1. EntryInv => FdsOwnedOnce
  <2> SUFFICES ASSUME EntryInv PROVE FdsOwnedOnce
    OBVIOUS
  <2> USE DEF EntryInv, CallsInv, PipesOwned
  <2>1. open = {fd[e] : e \in Ends} \ {None}
    BY DEF Held
  <2>2. ASSUME NEW c \in Calls, Over(c), NEW e \in EndsOf(c)
        PROVE  fd[e] = None
    <3>1. PICK i \in Slots, end \in {"drain_fd", "fill_fd"} : e = <<c, i, end>>
      BY DEF EndsOf
    <3>2. Unbuilt(c, i)
      BY <2>2 DEF Unbuilt, Over
    <3> QED
      BY <3>1, <3>2 DEF SlotsEmpty, CallOwns
  <2> QED
    BY <2>1, <2>2 DEF FdsOwnedOnce, Distinct
<1> QED
  BY <1>1, EntryInvariance, PTL

\* Pipe::size: every pipe of a running transfer has the recorded size, although
\* fcntl may have refused or rounded what Pipe::new and with_pipe_size asked.
THEOREM SizesGranted == EntrySpec => []SizeIsGranted
<1>1. EntryInv => SizeIsGranted
  BY DEF EntryInv, CallsInv, SizesKnown, CallSized, Sized, SizeIsGranted
<1> QED
  BY <1>1, EntryInvariance, PTL

\* calc_size_to_splice: the length it returns is the number of bytes of the file
\* in the range, and only a range that is empty or leaves the file is refused.
LEMMA RangeBytes ==
  ASSUME NEW r \in Requests
  PROVE  LET start == UnwrapOr(r.f_offset_start, 0)
             asked == start .. UnwrapOr(r.f_offset_end, r.f_len) - 1
         IN  IF RangeOf(r).ok
               THEN /\ asked \subseteq 0 .. r.f_len - 1 /\ start <= r.f_len
                    /\ RangeOf(r) = Ok(Cardinality(asked))
               ELSE asked = {} \/ ~(asked \subseteq 0 .. r.f_len - 1)
<1> DEFINE start == UnwrapOr(r.f_offset_start, 0)
           end   == UnwrapOr(r.f_offset_end, r.f_len)
           asked == start .. end - 1
<1>1. r \in Request
  BY EntryPointsAssumption
<1>2. start \in Nat /\ end \in Nat /\ r.f_len \in Nat
  BY <1>1 DEF Request, Option, UnwrapOr
<1>3. RangeOf(r) = IF start > end \/ end > r.f_len THEN Err ELSE Ok(end - start)
  BY DEF RangeOf, calc_size_to_splice
<1> SUFFICES IF RangeOf(r).ok
               THEN /\ asked \subseteq 0 .. r.f_len - 1 /\ start <= r.f_len
                    /\ RangeOf(r) = Ok(Cardinality(asked))
               ELSE asked = {} \/ ~(asked \subseteq 0 .. r.f_len - 1)
  OBVIOUS
<1> HIDE DEF start, end
<1>4. CASE start > end
  BY <1>2, <1>3, <1>4 DEF Err
<1>5. CASE ~(start > end) /\ end > r.f_len
  <2>1. RangeOf(r).ok = FALSE
    BY <1>3, <1>5 DEF Err
  <2>2. CASE start = end
    BY <1>2, <2>1, <2>2
  <2>3. CASE start # end
    <3>1. end - 1 \in asked /\ end - 1 \notin 0 .. r.f_len - 1
      BY <1>2, <1>5, <2>3
    <3> QED
      BY <2>1, <3>1
  <2> QED
    BY <2>2, <2>3
<1>6. CASE ~(start > end) /\ ~(end > r.f_len)
  <2>1. RangeOf(r) = Ok(end - start) /\ RangeOf(r).ok
    BY <1>3, <1>6 DEF Ok
  <2>2. Cardinality(asked) = end - start
    <3>1. Cardinality(asked) = IF start > end - 1 THEN 0 ELSE (end - 1) - start + 1
      BY <1>2, FS_Interval
    <3> QED
      BY <1>2, <1>6, <3>1
  <2>3. asked \subseteq 0 .. r.f_len - 1 /\ start <= r.f_len
    BY <1>2, <1>6
  <2> QED
    BY <2>1, <2>2, <2>3
<1> QED
  BY <1>4, <1>5, <1>6

\* with_input_file and with_output_file: a file transfer runs over the bytes of
\* the range, and is refused only a range that is empty or leaves the file.
THEOREM RangesAsAsked == EntrySpec => []RangeAsAsked
<1>1. EntryInv => RangeAsAsked
  <2> SUFFICES ASSUME EntryInv, NEW c \in Calls, call[c].pc # "idle",
                      call[c].req.op \in {"sendfile", "recvfile"}
               PROVE  LET r == call[c].req
                          start == UnwrapOr(r.f_offset_start, 0)
                          asked == start .. UnwrapOr(r.f_offset_end, r.f_len) - 1
                      IN  IF call[c].target # None
                            THEN /\ asked \subseteq 0 .. r.f_len - 1 /\ start <= r.f_len
                                 /\ call[c].target = Cardinality(asked)
                            ELSE /\ call[c].pc = "failed"
                                 /\ asked = {} \/ ~(asked \subseteq 0 .. r.f_len - 1)
    BY DEF RangeAsAsked
  <2>1. CallRanged(c)
    BY DEF EntryInv, CallsInv, RangeChecked
  <2>2. call[c].req \in Requests
    BY <2>1 DEF CallRanged
  <2>3. CASE call[c].target # None
    <3>1. RangeOf(call[c].req) = Ok(call[c].target)
      BY <2>1, <2>3 DEF CallRanged
    <3> QED
      BY <2>2, <2>3, <3>1, RangeBytes DEF Ok
  <2>4. CASE call[c].target = None
    <3>1. ~RangeOf(call[c].req).ok /\ call[c].pc = "failed"
      BY <2>1, <2>4 DEF CallRanged
    <3> QED
      BY <2>2, <2>4, <3>1, RangeBytes
  <2> QED
    BY <2>3, <2>4
<1> QED
  BY <1>1, EntryInvariance, PTL
=============================================================================
