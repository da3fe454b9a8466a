-------------------------- MODULE ScriptedIoProofs --------------------------
(***************************************************************************)
(* Proofs about the transfer under any scripts of the test doubles: what   *)
(* Ready(Ok(())) means, when bytes in the pipe wait for the source, what   *)
(* the expect() on the fill end of the pipe rests on, that the meters      *)
(* count what was played, and that the two unit tests assert what every    *)
(* run of their scripts gives.                                             *)
(***************************************************************************)
EXTENDS ScriptedIo, TLAPS, WellFoundedInduction

-----------------------------------------------------------------------------
(***************************************************************************)
(* What has been played back.                                              *)
(***************************************************************************)
Entries(q) ==
  IF q \in {"read_ready", "write_ready"} THEN {"Ready", "Pending", "Err"}
  ELSE IF q \in {"try_io_read", "try_io_write"} THEN {"CallInner", "WouldBlock", "Err"}
  ELSE [kind : {"Ok", "WouldBlock", "Err"}, n : Nat]

\* What is left of a queue is a tail of its script.
TailOf(s, t) ==
  /\ Len(t) <= Len(s)
  /\ \A i \in 1 .. Len(t) : t[i] = s[Len(s) - Len(t) + i]

PlayedBack ==
  \A q \in Queues : /\ script[q] \in Seq(Entries(q)) /\ left[q] \in Seq(Entries(q))
                    /\ TailOf(script[q], left[q])

\* The entries of script s that are gone when t is left of it.
Taken(s, t) == LET played == SubSeq(s, 1, Len(s) - Len(t))
               IN  {played[i] : i \in DOMAIN played}

Gone(q) == Taken(script[q], left[q])

\* Taking the head of a queue adds it, and nothing else, to what is played.
LEMMA TailPlays ==
  ASSUME NEW V, NEW s \in Seq(V), NEW t \in Seq(V), TailOf(s, t), t # <<>>
  PROVE  /\ Tail(t) \in Seq(V) /\ TailOf(s, Tail(t))
         /\ Taken(s, Tail(t)) = Taken(s, t) \cup {Head(t)}
<1> DEFINE k == Len(s) - Len(t)
           old == SubSeq(s, 1, k)
           new == SubSeq(s, 1, k + 1)
<1>1. Len(t) \in Nat \ {0} /\ Len(s) \in Nat /\ k \in Nat /\ k + 1 <= Len(s)
  BY DEF TailOf
<1>2. Tail(t) \in Seq(V) /\ Len(Tail(t)) = Len(t) - 1 /\ Head(t) = t[1]
  BY <1>1
<1>3. \A i \in 1 .. Len(Tail(t)) : Tail(t)[i] = t[i + 1]
  BY <1>1
<1>4. TailOf(s, Tail(t))
  BY <1>1, <1>2, <1>3 DEF TailOf
<1>5. Head(t) = s[k + 1]
  BY <1>1, <1>2 DEF TailOf
<1>6. /\ DOMAIN old = 1 .. k /\ \A i \in 1 .. k : old[i] = s[i]
      /\ DOMAIN new = 1 .. k + 1 /\ \A i \in 1 .. k + 1 : new[i] = s[i]
  BY <1>1
<1>7. Len(s) - Len(Tail(t)) = k + 1
  BY <1>1, <1>2
<1> HIDE DEF k, old, new
<1>8. {new[i] : i \in DOMAIN new} = {old[i] : i \in DOMAIN old} \cup {Head(t)}
  <2>1. ASSUME NEW i \in 1 .. k + 1 PROVE new[i] \in {old[j] : j \in DOMAIN old} \cup {Head(t)}
    <3>1. i \in 1 .. k \/ i = k + 1
      BY <1>1
    <3> QED
      BY <1>5, <1>6, <3>1
  <2>2. ASSUME NEW i \in 1 .. k PROVE old[i] \in {new[j] : j \in DOMAIN new}
    <3>1. i \in 1 .. k + 1
      BY <1>1
    <3> QED
      BY <1>6, <3>1
  <2>3. Head(t) \in {new[j] : j \in DOMAIN new}
    <3>1. k + 1 \in 1 .. k + 1
      BY <1>1
    <3> QED
      BY <1>5, <1>6, <3>1
  <2> QED
    BY <1>6, <2>1, <2>2, <2>3
<1> QED
  BY <1>2, <1>4, <1>7, <1>8 DEF k, old, new, Taken

\* VecDeque::pop_front of the doubles.
LEMMA PopPlays ==
  ASSUME PlayedBack, NEW Q, PopFront(Q), UNCHANGED script
  PROVE  /\ PlayedBack'
         /\ \A q \in Queues : Gone(q)' = IF q \in Q /\ left[q] # <<>>
                                           THEN Gone(q) \cup {Head(left[q])} ELSE Gone(q)
<1> SUFFICES ASSUME NEW q \in Queues
             PROVE  /\ script'[q] \in Seq(Entries(q)) /\ left'[q] \in Seq(Entries(q))
                    /\ TailOf(script'[q], left'[q])
                    /\ Gone(q)' = IF q \in Q /\ left[q] # <<>>
                                    THEN Gone(q) \cup {Head(left[q])} ELSE Gone(q)
  BY DEF PlayedBack
<1>1. left'[q] = IF q \in Q /\ left[q] # <<>> THEN Tail(left[q]) ELSE left[q]
  BY DEF PopFront
<1>2. script[q] \in Seq(Entries(q)) /\ left[q] \in Seq(Entries(q)) /\ TailOf(script[q], left[q])
  BY DEF PlayedBack
<1>3. CASE q \in Q /\ left[q] # <<>>
  BY <1>1, <1>2, <1>3, TailPlays DEF Gone
<1>4. CASE ~(q \in Q /\ left[q] # <<>>)
  BY <1>1, <1>2, <1>4 DEF Gone
<1> QED
  BY <1>3, <1>4

\* The answer taken from a queue is the latest one.
LEMMA TailLatest ==
  ASSUME NEW V, NEW s \in Seq(V), NEW t \in Seq(V), TailOf(s, t), t # <<>>
  PROVE  LET p == SubSeq(s, 1, Len(s) - Len(Tail(t)))
         IN  p # <<>> /\ p[Len(p)] = Head(t)
<1> DEFINE k == Len(s) - Len(t)
           p == SubSeq(s, 1, k + 1)
<1>1. Len(t) \in Nat \ {0} /\ Len(s) \in Nat /\ k \in Nat /\ k + 1 <= Len(s)
  BY DEF TailOf
<1>2. Len(Tail(t)) = Len(t) - 1 /\ Head(t) = t[1]
  BY <1>1
<1>3. Head(t) = s[k + 1]
  BY <1>1, <1>2 DEF TailOf
<1>4. Len(s) - Len(Tail(t)) = k + 1
  BY <1>1, <1>2
<1>5. Len(p) = k + 1 /\ p[k + 1] = s[k + 1]
  BY <1>1
<1>6. Len(p) # 0
  BY <1>1, <1>5
<1>7. Len(<<>>) = 0
  OBVIOUS
<1>8. p # <<>>
  <2> HIDE DEF p
  <2> QED
    BY <1>6, <1>7
<1> QED
  BY <1>3, <1>4, <1>5, <1>8

LEMMA PopLatest ==
  ASSUME PlayedBack, NEW Q, PopFront(Q), UNCHANGED script, NEW q \in Queues, NEW A
  PROVE  Latest(q, A)' <=> IF q \in Q /\ left[q] # <<>> THEN Head(left[q]) \in A
                                                        ELSE Latest(q, A)
<1>1. left'[q] = IF q \in Q /\ left[q] # <<>> THEN Tail(left[q]) ELSE left[q]
  BY DEF PopFront
<1>2. script[q] \in Seq(Entries(q)) /\ left[q] \in Seq(Entries(q)) /\ TailOf(script[q], left[q])
  BY DEF PlayedBack
<1>3. CASE q \in Q /\ left[q] # <<>>
  <2>1. Played(q)' = SubSeq(script[q], 1, Len(script[q]) - Len(Tail(left[q])))
    BY <1>1, <1>3 DEF Played
  <2>2. Played(q)' # <<>> /\ Played(q)'[Len(Played(q)')] = Head(left[q])
    BY <1>2, <1>3, <2>1, TailLatest
  <2> QED
    BY <1>3, <2>2 DEF Latest
<1>4. CASE ~(q \in Q /\ left[q] # <<>>)
  <2>1. Played(q)' = Played(q)
    BY <1>1, <1>4 DEF Played
  <2> QED
    BY <1>4, <2>1 DEF Latest
<1> QED
  BY <1>3, <1>4

-----------------------------------------------------------------------------
(***************************************************************************)
(* What SumOf computes.  The provers have no induction: a recursive        *)
(* function is shown to exist by looking at the least length for which it  *)
(* would not.                                                              *)
(***************************************************************************)
\* A set of natural numbers has a least element.
LEMMA LeastNumber ==
  ASSUME NEW T, T \subseteq Nat, T # {}
  PROVE  \E x \in T : \A y \in T : ~(y < x)
<1>1. IsWellFoundedOn(OpToRel(<, Nat), Nat)
  BY NatLessThanWellFounded, Zenon
<1>2. PICK x \in T : \A y \in T : <<y, x>> \notin OpToRel(<, Nat)
  BY <1>1, WFMin, Zenon
<1>3. \A y \in T : ~(y < x)
  BY <1>2 DEF OpToRel
<1> QED
  BY <1>3

\* g gives the sum of every prefix of s up to length k.
Sums(g, s, k) == g = [i \in 0 .. k |-> IF i = 0 THEN 0 ELSE g[i - 1] + s[i].n]

\* There is such a function for every length.
LEMMA SumsExist ==
  ASSUME NEW s, NEW k \in Nat
  PROVE  \E g : Sums(g, s, k)
<1> DEFINE Without == {n \in Nat : ~ \E g : Sums(g, s, n)}
<1>1. SUFFICES ASSUME Without # {} PROVE FALSE
  BY <1>1
<1>2. PICK m \in Without : \A n \in Without : ~(n < m)
  BY <1>1, LeastNumber
<1>3. m \in Nat /\ ~ \E g : Sums(g, s, m)
  OBVIOUS
<1>4. CASE m = 0
  <2>1. Sums([i \in 0 .. 0 |-> 0], s, 0)
    BY DEF Sums
  <2> QED
    BY <1>3, <1>4, <2>1
<1>5. CASE m # 0
  <2>1. m - 1 \in Nat /\ m - 1 < m
    BY <1>3, <1>5
  <2>2. PICK g : Sums(g, s, m - 1)
    BY <1>2, <2>1
  <2>3. \A i \in 0 .. m - 1 : g[i] = IF i = 0 THEN 0 ELSE g[i - 1] + s[i].n
    BY <2>2 DEF Sums
  <2> DEFINE h == [i \in 0 .. m |-> IF i = m THEN g[m - 1] + s[m].n ELSE g[i]]
  <2> HIDE DEF Without
  <2>4. ASSUME NEW i \in 0 .. m
        PROVE  h[i] = IF i = 0 THEN 0 ELSE h[i - 1] + s[i].n
    <3>1. h[0] = 0
      BY <1>3, <1>5, <2>3
    <3>2. CASE i = m
      BY <1>3, <1>5, <3>2
    <3>3. CASE i # m /\ i # 0
      <4>1. i \in 0 .. m - 1 /\ i - 1 \in 0 .. m /\ i - 1 # m
        BY <1>3, <3>3
      <4>2. h[i] = g[i] /\ h[i - 1] = g[i - 1]
        BY <3>3, <4>1
      <4> QED
        BY <2>3, <3>3, <4>1, <4>2
    <3> QED
      BY <1>5, <3>1, <3>2, <3>3
  <2>5. Sums(h, s, m)
    BY <2>4 DEF Sums
  <2> QED
    BY <1>3, <2>5
<1> QED
  BY <1>4, <1>5

\* One more result played adds its bytes.
LEMMA SumGrows ==
  ASSUME NEW s, Len(s) \in Nat
  PROVE  /\ SumOf(s, 0) = 0
         /\ \A k \in 1 .. Len(s) : SumOf(s, k) = SumOf(s, k - 1) + s[k].n
<1> DEFINE f == CHOOSE g : g = [i \in 0 .. Len(s) |-> IF i = 0 THEN 0 ELSE g[i - 1] + s[i].n]
<1>1. \E g : g = [i \in 0 .. Len(s) |-> IF i = 0 THEN 0 ELSE g[i - 1] + s[i].n]
  BY SumsExist DEF Sums
<1>2. f = [i \in 0 .. Len(s) |-> IF i = 0 THEN 0 ELSE f[i - 1] + s[i].n]
  BY <1>1
<1>3. \A i : SumOf(s, i) = f[i]
  BY DEF SumOf
<1> HIDE DEF f
<1>4. \A i \in 0 .. Len(s) : f[i] = IF i = 0 THEN 0 ELSE f[i - 1] + s[i].n
  BY <1>2
<1>5. f[0] = 0 /\ \A k \in 1 .. Len(s) : f[k] = f[k - 1] + s[k].n
  BY <1>4
<1> QED
  BY <1>3, <1>5

\* What is left of a queue after its head was taken: its total has grown by the
\* bytes of the head.
LEMMA TailTotals ==
  ASSUME NEW V, NEW s \in Seq(V), NEW t \in Seq(V), TailOf(s, t), t # <<>>
  PROVE  SumOf(s, Len(s) - Len(Tail(t))) = SumOf(s, Len(s) - Len(t)) + Head(t).n
<1> DEFINE k == Len(s) - Len(t)
<1>1. Len(t) \in Nat \ {0} /\ Len(s) \in Nat /\ k \in Nat /\ k + 1 <= Len(s)
  BY DEF TailOf
<1>2. Len(Tail(t)) = Len(t) - 1 /\ Head(t) = t[1]
  BY <1>1
<1>3. Head(t) = s[k + 1]
  BY <1>1, <1>2 DEF TailOf
<1>4. Len(s) - Len(Tail(t)) = k + 1 /\ k + 1 \in 1 .. Len(s) /\ (k + 1) - 1 = k
  BY <1>1, <1>2
<1> HIDE DEF k
<1>5. SumOf(s, k + 1) = SumOf(s, k) + s[k + 1].n
  BY <1>1, <1>4, SumGrows
<1> QED
  BY <1>3, <1>4, <1>5 DEF k

-----------------------------------------------------------------------------
(***************************************************************************)
(* The inductive invariant.                                                *)
(***************************************************************************)
ScriptedTypeOK ==
  /\ bytes_read \in Nat /\ bytes_written \in Nat
  /\ state \in {"Fill", "Drain", "Finished"}
  /\ error \in BOOLEAN
  /\ pipe \in Pipes

SourceOver == bytes_read = IsizeMax \/ Ok(0) \in Gone("splice_in")

Bytes == [kind : {"Ok"}, n : Nat \ {0}]

OddWriter == IF pipe_has_data THEN LastWrite({Ok(0)})
             ELSE Latest("try_io_write", {"WouldBlock"}) \/ LastWrite({WouldBlock})

Broken(q) == IF q \in {"splice_in", "splice_out"} THEN Fault ELSE "Err"
Failed == \E q \in Queues : Broken(q) \in Gone(q)

\* Fill has bytes in the pipe only after a reader that gave some, or a writer that
\* took none.  (A panic takes answers out of the queues, and ends the transfer.)
FillHolds ==
  state = "Fill" /\ pipe_has_data /\ poll # "panic" => LastRead(Bytes) \/ LastWrite({Ok(0)})

\* The fill end is closed at the end of the source, and Fill is entered with it
\* closed only from Drain.
FillClosed == ~pipe.fill_fd => SourceOver /\ (state = "Fill" => OddWriter)

\* A failure is kept until it is returned.
FailureKept == (Failed => error \/ poll = "Err") /\ (error => state = "Finished")

FinishedClean ==
  /\ state = "Finished" /\ ~error /\ poll # "Err" =>
       bytes_read = bytes_written /\ ~pipe.fill_fd /\ ~pipe.drain_fd
  /\ poll = "Ok" => state = "Finished" /\ ~error

ScriptedInv ==
  ScriptedTypeOK /\ PlayedBack /\ FillHolds /\ FillClosed /\ FailureKept /\ FinishedClean

\* What an attempt in Fill plays back.
LEMMA ReadPopped ==
  ASSUME PlayedBack, ReadReady, ReadPops, UNCHANGED script
  PROVE  /\ PlayedBack'
         /\ Gone("splice_in") \subseteq Gone("splice_in")'
         /\ SplicesIn /\ SpliceIn # Panic => SpliceIn \in Gone("splice_in")'
         /\ Failed' => Failed \/ TryRead = "Err" \/ (SplicesIn /\ SpliceIn = Fault)
<1> DEFINE Q == {"read_ready", "try_io_read"} \cup IF SplicesIn THEN {"splice_in"} ELSE {}
<1>1. PopFront(Q)
  BY DEF ReadPops
<1>2. /\ "read_ready" \in Q /\ "try_io_read" \in Q
      /\ "splice_in" \in Q <=> SplicesIn
      /\ "write_ready" \notin Q /\ "try_io_write" \notin Q /\ "splice_out" \notin Q
  OBVIOUS
<1> HIDE DEF Q
<1>3. /\ PlayedBack'
      /\ \A q \in Queues : Gone(q)' = IF q \in Q /\ left[q] # <<>>
                                        THEN Gone(q) \cup {Head(left[q])} ELSE Gone(q)
  BY <1>1, PopPlays
<1>4. {"read_ready", "try_io_read", "splice_in", "write_ready", "try_io_write", "splice_out"}
        = Queues
  BY DEF Queues
<1>5. /\ Gone("read_ready")' = Gone("read_ready") \cup {"Ready"}
      /\ Gone("try_io_read")' \subseteq Gone("try_io_read") \cup {TryRead}
      /\ Gone("splice_in") \subseteq Gone("splice_in")'
      /\ Gone("splice_in")' \subseteq Gone("splice_in") \cup {SpliceIn}
      /\ SplicesIn /\ SpliceIn # Panic => SpliceIn \in Gone("splice_in")'
      /\ ~SplicesIn => Gone("splice_in")' = Gone("splice_in")
      /\ Gone("write_ready")' = Gone("write_ready")
      /\ Gone("try_io_write")' = Gone("try_io_write")
      /\ Gone("splice_out")' = Gone("splice_out")
  BY <1>2, <1>3, <1>4 DEF ReadReady, TryRead, SpliceIn, Upcoming
<1>6. Failed' => Failed \/ TryRead = "Err" \/ (SplicesIn /\ SpliceIn = Fault)
  <2> SUFFICES ASSUME NEW q \in Queues, Broken(q) \in Gone(q)'
               PROVE  Broken(q) \in Gone(q) \/ TryRead = "Err" \/ (SplicesIn /\ SpliceIn = Fault)
    BY DEF Failed, Broken
  <2> QED
    BY <1>4, <1>5 DEF Broken
<1> QED
  BY <1>3, <1>5, <1>6

\* What an attempt in Drain plays back.
LEMMA WritePopped ==
  ASSUME PlayedBack, WriteReady, WritePops, UNCHANGED script
  PROVE  /\ PlayedBack'
         /\ Gone("splice_in")' = Gone("splice_in")
         /\ Failed' => Failed \/ TryWrite = "Err" \/ (SplicesOut /\ SpliceOut = Fault)
<1> DEFINE Q == {"write_ready", "try_io_write"} \cup IF SplicesOut THEN {"splice_out"} ELSE {}
<1>1. PopFront(Q)
  BY DEF WritePops
<1>2. /\ "write_ready" \in Q /\ "try_io_write" \in Q
      /\ "splice_out" \in Q <=> SplicesOut
      /\ "read_ready" \notin Q /\ "try_io_read" \notin Q /\ "splice_in" \notin Q
  OBVIOUS
<1> HIDE DEF Q
<1>3. /\ PlayedBack'
      /\ \A q \in Queues : Gone(q)' = IF q \in Q /\ left[q] # <<>>
                                        THEN Gone(q) \cup {Head(left[q])} ELSE Gone(q)
  BY <1>1, PopPlays
<1>4. {"read_ready", "try_io_read", "splice_in", "write_ready", "try_io_write", "splice_out"}
        = Queues
  BY DEF Queues
<1>5. /\ Gone("write_ready")' = Gone("write_ready") \cup {"Ready"}
      /\ Gone("try_io_write")' \subseteq Gone("try_io_write") \cup {TryWrite}
      /\ Gone("splice_out")' \subseteq Gone("splice_out") \cup {SpliceOut}
      /\ ~SplicesOut => Gone("splice_out")' = Gone("splice_out")
      /\ Gone("read_ready")' = Gone("read_ready")
      /\ Gone("try_io_read")' = Gone("try_io_read")
      /\ Gone("splice_in")' = Gone("splice_in")
  BY <1>2, <1>3, <1>4 DEF WriteReady, TryWrite, SpliceOut, Upcoming
<1>6. Failed' => Failed \/ TryWrite = "Err" \/ (SplicesOut /\ SpliceOut = Fault)
  <2> SUFFICES ASSUME NEW q \in Queues, Broken(q) \in Gone(q)'
               PROVE  Broken(q) \in Gone(q) \/ TryWrite = "Err" \/ (SplicesOut /\ SpliceOut = Fault)
    BY DEF Failed, Broken
  <2> QED
    BY <1>4, <1>5 DEF Broken
<1> QED
  BY <1>3, <1>5, <1>6

\* Which answers are the latest after an attempt in Fill, and after one in Drain.
LEMMA ReadLatest ==
  ASSUME PlayedBack, ReadPops, UNCHANGED script, NEW A
  PROVE  /\ Latest("try_io_write", A)' <=> Latest("try_io_write", A)
         /\ LastWrite(A)' <=> LastWrite(A)
         /\ SplicesIn /\ SpliceIn # Panic /\ SpliceIn \in A => LastRead(A)'
<1> DEFINE Q == {"read_ready", "try_io_read"} \cup IF SplicesIn THEN {"splice_in"} ELSE {}
<1>1. PopFront(Q)
  BY DEF ReadPops
<1>2. /\ "try_io_read" \in Q /\ ("splice_in" \in Q <=> SplicesIn)
      /\ "try_io_write" \notin Q /\ "splice_out" \notin Q
  OBVIOUS
<1> HIDE DEF Q
<1>3. {"try_io_read", "splice_in", "try_io_write", "splice_out"} \subseteq Queues
  BY DEF Queues
<1>4. \A B : /\ Latest("try_io_write", B)' <=> Latest("try_io_write", B)
             /\ Latest("splice_out", B)' <=> Latest("splice_out", B)
  BY <1>1, <1>2, <1>3, PopLatest
<1>5. ASSUME SplicesIn, SpliceIn # Panic, SpliceIn \in A PROVE LastRead(A)'
  <2>1. left["splice_in"] # <<>> /\ SpliceIn = Head(left["splice_in"])
    BY <1>5 DEF SpliceIn, Upcoming
  <2>2. left["try_io_read"] # <<>> /\ Head(left["try_io_read"]) = "CallInner"
    BY <1>5 DEF SplicesIn, InnerRead, TryRead, Upcoming
  <2>3. Latest("splice_in", A)' /\ Latest("try_io_read", {"CallInner"})'
    BY <1>1, <1>2, <1>3, <1>5, <2>1, <2>2, PopLatest
  <2> QED
    BY <2>3 DEF LastRead
<1> QED
  BY <1>4, <1>5 DEF LastWrite

LEMMA WriteLatest ==
  ASSUME PlayedBack, WritePops, UNCHANGED script, NEW A
  PROVE  /\ TryWrite # "panic" /\ TryWrite \in A => Latest("try_io_write", A)'
         /\ SplicesOut /\ SpliceOut # Panic /\ SpliceOut \in A => LastWrite(A)'
<1> DEFINE Q == {"write_ready", "try_io_write"} \cup IF SplicesOut THEN {"splice_out"} ELSE {}
<1>1. PopFront(Q)
  BY DEF WritePops
<1>2. "try_io_write" \in Q /\ ("splice_out" \in Q <=> SplicesOut)
  OBVIOUS
<1> HIDE DEF Q
<1>3. {"try_io_write", "splice_out"} \subseteq Queues
  BY DEF Queues
<1>4. ASSUME NEW B, TryWrite # "panic", TryWrite \in B PROVE Latest("try_io_write", B)'
  <2>1. left["try_io_write"] # <<>> /\ TryWrite = Head(left["try_io_write"])
    BY <1>4 DEF TryWrite, Upcoming
  <2>2. Latest("try_io_write", B)' <=> Head(left["try_io_write"]) \in B
    BY <1>1, <1>2, <1>3, <2>1, PopLatest
  <2> QED
    BY <1>4, <2>1, <2>2
<1>5. ASSUME SplicesOut, SpliceOut # Panic, SpliceOut \in A PROVE LastWrite(A)'
  <2>1. left["splice_out"] # <<>> /\ SpliceOut = Head(left["splice_out"])
    BY <1>5 DEF SpliceOut, Upcoming
  <2>2. Latest("splice_out", A)'
    BY <1>1, <1>2, <1>3, <1>5, <2>1, PopLatest
  <2>3. Latest("try_io_write", {"CallInner"})'
    BY <1>4, <1>5 DEF SplicesOut, InnerWrite
  <2> QED
    BY <2>2, <2>3 DEF LastWrite
<1> QED
  BY <1>4, <1>5

-----------------------------------------------------------------------------
(***************************************************************************)
(* The steps of a poll.                                                    *)
(***************************************************************************)
\* The results of a splice are told apart by their kind.
LEMMA ResultsApart ==
  /\ \A n \in Nat : Ok(n) # Panic /\ Ok(n) # Fault /\ Ok(n) # WouldBlock
  /\ WouldBlock # Panic /\ WouldBlock # Fault /\ Fault # Panic
BY DEF Ok, WouldBlock, Fault, Panic

\* The head of a queue is one of its entries.
LEMMA HeadIsEntry ==
  ASSUME NEW V, NEW t \in Seq(V), t # <<>>
  PROVE  Head(t) \in V
OBVIOUS

\* An attempt in Fill that does not fail.
LEMMA SourceStep ==
  ASSUME ScriptedInv, SourceClosed \/ SourceBytes \/ SourceAgain \/ SourcePanics
  PROVE  ScriptedInv'
<1> USE DEF ScriptedInv
<1>1. ReadReady /\ state = "Fill" /\ poll = "running" /\ ReadPops /\ UNCHANGED <<script, error>>
  BY DEF SourceClosed, SourceBytes, SourceAgain, SourcePanics, RefillsAfterEnd, SplicesIn,
     InnerRead, ReadReady
<1>2. ~error /\ ~Failed
  BY <1>1 DEF FailureKept
<1>3. TryRead # "Err" /\ ~(SplicesIn /\ SpliceIn = Fault)
  <2>1. bytes_read \in Nat /\ IsizeMax \in Nat
    BY ScriptedIoAssumption DEF ScriptedTypeOK
  <2>2. CASE SourceClosed
    BY <2>1, <2>2, ResultsApart DEF SourceClosed, SplicesIn, InnerRead
  <2>3. CASE SourceBytes
    BY <2>3 DEF SourceBytes, SplicesIn, InnerRead, Fault
  <2>4. CASE SourceAgain
    BY <2>4, ResultsApart DEF SourceAgain, SplicesIn, InnerRead
  <2>5. CASE SourcePanics
    <3>1. Fault.kind # "Ok"
      BY DEF Fault
    <3> QED
      BY <2>1, <2>5, <3>1, ResultsApart DEF SourcePanics, RefillsAfterEnd, SplicesIn, InnerRead,
         is_fill_done
  <2> QED
    BY <2>2, <2>3, <2>4, <2>5
<1>4. /\ PlayedBack' /\ ~Failed'
      /\ Gone("splice_in") \subseteq Gone("splice_in")'
      /\ SplicesIn /\ SpliceIn # Panic => SpliceIn \in Gone("splice_in")'
  BY <1>1, <1>2, <1>3, ReadPopped
<1>5. UNCHANGED <<bytes_read, bytes_written>> /\ OddWriter => OddWriter'
  BY <1>1, ReadLatest DEF OddWriter, pipe_has_data
<1>6. FailureKept'
  BY <1>1, <1>2, <1>4 DEF FailureKept
<1>7. CASE SourceClosed
  <2>1. SourceOver'
    BY <1>4, <1>7, ResultsApart DEF SourceClosed, SourceOver
  <2>2. ScriptedTypeOK' /\ pipe'.drain_fd = pipe.drain_fd
    BY <1>7 DEF SourceClosed, set_fill_done, ScriptedTypeOK, Pipes
  <2> QED
    BY <1>1, <1>4, <1>6, <1>7, <2>1, <2>2
       DEF SourceClosed, FillHolds, FillClosed, FinishedClean
<1>8. CASE SourceBytes
  <2>1. SpliceIn \in [kind : {"Ok", "WouldBlock", "Err"}, n : Nat]
    <3>1. left["splice_in"] # <<>> /\ SpliceIn = Head(left["splice_in"])
      BY <1>8 DEF SourceBytes, SpliceIn, Upcoming, Panic
    <3>2. left["splice_in"] \in Seq([kind : {"Ok", "WouldBlock", "Err"}, n : Nat])
      BY DEF PlayedBack, Queues, Entries
    <3> QED
      BY <3>1, <3>2, HeadIsEntry
  <2>2. bytes_read' \in Nat
    BY <1>8, <2>1 DEF SourceBytes, ScriptedTypeOK
  <2>3. ScriptedTypeOK' /\ pipe' = pipe /\ pipe.fill_fd
    BY <1>8, <2>2 DEF SourceBytes, ScriptedTypeOK, SplicesIn
  <2>4. LastRead(Bytes)'
    <3>1. SplicesIn /\ SpliceIn # Panic /\ SpliceIn \in Bytes
      BY <1>8, <2>1 DEF SourceBytes, Panic, Bytes
    <3> QED
      BY <1>1, <3>1, ReadLatest
  <2> QED
    BY <1>1, <1>4, <1>6, <1>8, <2>3, <2>4 DEF SourceBytes, FillHolds, FillClosed, FinishedClean
<1>9. CASE SourceAgain
  <2>1. ScriptedTypeOK' /\ pipe' = pipe /\ UNCHANGED <<bytes_read, bytes_written>>
    BY <1>9 DEF SourceAgain, ScriptedTypeOK
  <2>2. SourceOver => SourceOver'
    BY <1>4, <2>1 DEF SourceOver
  <2>3. FillClosed'
    BY <1>1, <1>5, <2>1, <2>2 DEF FillClosed
  <2>4. FillHolds' /\ FinishedClean'
    BY <1>1, <1>9, <2>1 DEF SourceAgain, FillHolds, FinishedClean, pipe_has_data
  <2> QED
    BY <1>4, <1>6, <2>1, <2>3, <2>4
<1>10. CASE SourcePanics
  <2>1. /\ ScriptedTypeOK' /\ poll' = "panic"
        /\ UNCHANGED <<pipe, bytes_read, bytes_written, state, error>>
    BY <1>10 DEF SourcePanics, ScriptedTypeOK
  <2>2. SourceOver => SourceOver'
    BY <1>4, <2>1 DEF SourceOver
  <2>3. FillClosed'
    BY <1>5, <2>1, <2>2 DEF FillClosed
  <2>4. FillHolds' /\ FinishedClean'
    BY <1>1, <2>1 DEF FillHolds, FinishedClean, pipe_has_data
  <2> QED
    BY <1>4, <1>6, <2>1, <2>3, <2>4
<1> QED
  BY <1>7, <1>8, <1>9, <1>10

\* An attempt in Fill fails: the error is kept in the state.
LEMMA SourceFailsStep ==
  ASSUME ScriptedInv, SourceFails
  PROVE  ScriptedInv'
<1> USE DEF ScriptedInv
<1>1. /\ ReadReady /\ ReadPops /\ poll = "running" /\ state' = "Finished" /\ error' = TRUE
      /\ UNCHANGED <<script, bytes_read, bytes_written, poll, pipe>>
  BY DEF SourceFails, SplicesIn, InnerRead, ReadReady
<1>2. PlayedBack' /\ Gone("splice_in") \subseteq Gone("splice_in")'
  BY <1>1, ReadPopped
<1>3. ScriptedTypeOK' /\ FillHolds' /\ FailureKept' /\ FinishedClean'
  BY <1>1 DEF ScriptedTypeOK, FillHolds, FailureKept, FinishedClean
<1>4. FillClosed'
  BY <1>1, <1>2 DEF FillClosed, SourceOver
<1> QED
  BY <1>2, <1>3, <1>4

\* An attempt in Drain that does not fail.
LEMMA DestStep ==
  ASSUME ScriptedInv, DestClosed \/ DestNoProgress \/ DestBytes \/ DestAgain \/ DestPanics
  PROVE  ScriptedInv'
<1> USE DEF ScriptedInv
<1>1. WriteReady /\ state = "Drain" /\ poll = "running" /\ WritePops /\ UNCHANGED <<script, error>>
  BY DEF DestClosed, DestNoProgress, DestBytes, DestAgain, DestPanics, Drained, SplicesOut,
     InnerWrite, WriteReady
<1>2. ~error /\ ~Failed
  BY <1>1 DEF FailureKept
<1>3. TryWrite # "Err" /\ ~(SplicesOut /\ SpliceOut = Fault)
  <2>1. ScriptedTypeOK
    OBVIOUS
  <2> QED
    BY <2>1, ResultsApart DEF DestClosed, DestNoProgress, DestBytes, DestAgain, DestPanics,
     Drained, SplicesOut, InnerWrite, pipe_has_data, Ok, Fault, WouldBlock, Panic, ScriptedTypeOK
<1>4. /\ PlayedBack' /\ ~Failed'
      /\ Gone("splice_in")' = Gone("splice_in")
  BY <1>1, <1>2, <1>3, WritePopped
<1>5. bytes_read' = bytes_read /\ pipe' \in Pipes /\ pipe'.fill_fd = pipe.fill_fd
  BY DEF DestClosed, DestNoProgress, DestBytes, DestAgain, DestPanics, set_drain_done,
     ScriptedTypeOK, Pipes
<1>6. SourceOver' <=> SourceOver
  BY <1>4, <1>5 DEF SourceOver
<1>7. FailureKept'
  BY <1>1, <1>2, <1>4 DEF FailureKept
<1>8. bytes_written' \in Nat
  <2>1. CASE DestBytes
    <3>1. left["splice_out"] # <<>> /\ SpliceOut = Head(left["splice_out"])
      BY <2>1 DEF DestBytes, SpliceOut, Upcoming, Panic
    <3>2. left["splice_out"] \in Seq([kind : {"Ok", "WouldBlock", "Err"}, n : Nat])
      BY DEF PlayedBack, Queues, Entries
    <3>3. SpliceOut \in [kind : {"Ok", "WouldBlock", "Err"}, n : Nat]
      BY <3>1, <3>2, HeadIsEntry
    <3>4. SpliceOut.n \in Nat
      BY <3>3
    <3> QED
      BY <2>1, <3>4 DEF DestBytes, ScriptedTypeOK
  <2>2. CASE ~DestBytes
    BY <2>2 DEF DestClosed, DestNoProgress, DestAgain, DestPanics, ScriptedTypeOK
  <2> QED
    BY <2>1, <2>2
<1>9. ScriptedTypeOK'
  BY <1>1, <1>5, <1>8 DEF DestClosed, DestNoProgress, DestBytes, DestAgain, DestPanics,
     ScriptedTypeOK
<1>10. /\ state' = "Fill" /\ ~pipe.fill_fd => OddWriter'
       /\ state' = "Fill" /\ pipe_has_data' => LastWrite({Ok(0)})'
  <2>1. CASE DestNoProgress
    <3>1. UNCHANGED <<bytes_read, bytes_written>>
      BY <2>1 DEF DestNoProgress
    <3>2. CASE SplicesOut /\ SpliceOut = Ok(0)
      <4>1. LastWrite({Ok(0)})' /\ pipe_has_data
        BY <1>1, <3>2, WriteLatest, ResultsApart DEF SplicesOut
      <4> QED
        BY <3>1, <4>1 DEF OddWriter, pipe_has_data
    <3>3. CASE Drained /\ ~is_fill_done
      BY <3>1, <3>3 DEF Drained, is_fill_done, pipe_has_data, ScriptedTypeOK
    <3> QED
      BY <2>1, <3>2, <3>3 DEF DestNoProgress
  <2>2. CASE DestAgain
    <3>1. UNCHANGED <<bytes_read, bytes_written>> /\ (state' = "Fill" => ~pipe_has_data)
      BY <2>2 DEF DestAgain
    <3>2. Latest("try_io_write", {"WouldBlock"})' \/ LastWrite({WouldBlock})'
      BY <1>1, <2>2, WriteLatest, ResultsApart DEF DestAgain
    <3> QED
      BY <3>1, <3>2 DEF OddWriter, pipe_has_data
  <2>3. CASE DestClosed \/ DestBytes \/ DestPanics
    BY <1>1, <2>3 DEF DestClosed, DestBytes, DestPanics
  <2> QED
    BY <2>1, <2>2, <2>3
<1>11. FillClosed'
  BY <1>5, <1>6, <1>10 DEF FillClosed
<1>12. FillHolds'
  BY <1>10 DEF FillHolds
<1>13. FinishedClean'
  <2>1. CASE DestClosed
    BY <1>1, <1>2, <2>1 DEF DestClosed, Drained, is_fill_done, set_drain_done, ScriptedTypeOK,
       Pipes, FinishedClean
  <2>2. CASE DestNoProgress \/ DestBytes \/ DestAgain \/ DestPanics
    BY <1>1, <2>2 DEF DestNoProgress, DestBytes, DestAgain, DestPanics, FinishedClean
  <2> QED
    BY <2>1, <2>2
<1> QED
  BY <1>4, <1>7, <1>9, <1>11, <1>12, <1>13

\* An attempt in Drain fails.
LEMMA DestFailsStep ==
  ASSUME ScriptedInv, DestFails
  PROVE  ScriptedInv'
<1> USE DEF ScriptedInv
<1>1. /\ WriteReady /\ WritePops /\ poll = "running" /\ state' = "Finished" /\ error' = TRUE
      /\ UNCHANGED <<script, bytes_read, bytes_written, poll, pipe>>
  BY DEF DestFails, SplicesOut, InnerWrite, WriteReady
<1>2. PlayedBack' /\ Gone("splice_in")' = Gone("splice_in")
  BY <1>1, WritePopped
<1>3. ScriptedTypeOK' /\ FillHolds' /\ FailureKept' /\ FinishedClean'
  BY <1>1 DEF ScriptedTypeOK, FillHolds, FailureKept, FinishedClean
<1>4. FillClosed'
  BY <1>1, <1>2 DEF FillClosed, SourceOver
<1> QED
  BY <1>2, <1>3, <1>4

\* The readiness of a side is missing, or is an error: the poll ends there.
LEMMA NotReadyStep ==
  ASSUME ScriptedInv, NotReady
  PROVE  ScriptedInv'
<1> USE DEF ScriptedInv
<1>1. PICK q \in {"read_ready", "write_ready"} :
        /\ poll = "running" /\ state \in {"Fill", "Drain"}
        /\ Upcoming(q, "Pending") # "Ready"
        /\ poll' = Upcoming(q, "Pending")
        /\ PopFront({q})
        /\ UNCHANGED <<script, bytes_read, bytes_written, state, error, polls, pipe>>
  BY DEF NotReady
<1>2. /\ PlayedBack'
      /\ \A p \in Queues : Gone(p)' = IF p \in {q} /\ left[p] # <<>>
                                        THEN Gone(p) \cup {Head(left[p])} ELSE Gone(p)
  BY <1>1, PopPlays
<1>3. q \in Queues /\ left[q] \in Seq({"Ready", "Pending", "Err"})
  BY DEF PlayedBack, Queues, Entries
<1>4. poll' \in {"Pending", "Err"}
  BY <1>1, <1>3 DEF Upcoming
<1>5. {"try_io_read", "try_io_write", "splice_in", "splice_out"} \subseteq Queues \ {q}
  BY DEF Queues
<1>6. Gone("splice_in")' = Gone("splice_in")
  BY <1>2, <1>5
<1>7. \A A : /\ LastRead(A)' <=> LastRead(A)
             /\ LastWrite(A)' <=> LastWrite(A)
             /\ Latest("try_io_write", A)' <=> Latest("try_io_write", A)
  <2>1. \A p \in Queues \ {q} : \A A : Latest(p, A)' <=> Latest(p, A)
    BY <1>1, PopLatest
  <2> QED
    BY <1>5, <2>1 DEF LastRead, LastWrite
<1>8. OddWriter' <=> OddWriter
  BY <1>1, <1>7 DEF OddWriter, pipe_has_data
<1>9. FillClosed' /\ FillHolds'
  BY <1>1, <1>4, <1>6, <1>7, <1>8 DEF FillClosed, FillHolds, SourceOver, pipe_has_data
<1>10. Failed' => Failed \/ poll' = "Err"
  BY <1>1, <1>2 DEF Failed, Broken, Upcoming
<1>11. FailureKept' /\ FinishedClean' /\ ScriptedTypeOK'
  BY <1>1, <1>4, <1>10 DEF FailureKept, FinishedClean, ScriptedTypeOK
<1> QED
  BY <1>2, <1>9, <1>11

\* Every step keeps the invariant.
LEMMA ScriptedInvStep == ScriptedInv /\ [ScriptedNext]_scriptedVars => ScriptedInv'
<1> SUFFICES ASSUME ScriptedInv, [ScriptedNext]_scriptedVars PROVE ScriptedInv'
  OBVIOUS
<1>1. ASSUME UNCHANGED <<script, left, bytes_read, bytes_written, state, pipe>>
      PROVE  /\ ScriptedTypeOK' <=> ScriptedTypeOK /\ error' \in BOOLEAN
             /\ PlayedBack' /\ (poll # "panic" => FillHolds') /\ FillClosed'
             /\ poll = "panic" /\ poll' = "panic" => FillHolds'
             /\ Failed' <=> Failed
  <2>1. \A q \in Queues : Gone(q)' = Gone(q)
    BY <1>1 DEF Gone
  <2>2. \A A : /\ LastRead(A)' <=> LastRead(A)
               /\ LastWrite(A)' <=> LastWrite(A)
               /\ Latest("try_io_write", A)' <=> Latest("try_io_write", A)
    BY <1>1 DEF LastRead, LastWrite, Latest, Played
  <2>3. PlayedBack' /\ (pipe_has_data' <=> pipe_has_data)
    BY <1>1 DEF ScriptedInv, PlayedBack, pipe_has_data
  <2>4. /\ FillClosed' /\ (Failed' <=> Failed)
        /\ (poll # "panic" => FillHolds') /\ (poll' = "panic" => FillHolds')
    BY <1>1, <2>1, <2>2, <2>3 DEF ScriptedInv, FillClosed, FillHolds, SourceOver, OddWriter,
       Failed, Queues
  <2> QED
    BY <1>1, <2>3, <2>4 DEF ScriptedInv, ScriptedTypeOK
<1>2. CASE PollExecute
  BY <1>1, <1>2 DEF PollExecute, ScriptedInv, ScriptedTypeOK, FailureKept, FinishedClean
<1>3. CASE Shutdown
  BY <1>1, <1>3 DEF Shutdown, ScriptedInv, ScriptedTypeOK, FailureKept, FinishedClean
<1>4. CASE UNCHANGED scriptedVars
  BY <1>1, <1>4 DEF scriptedVars, ScriptedInv, ScriptedTypeOK, FailureKept, FinishedClean
<1> QED
  BY <1>2, <1>3, <1>4, SourceStep, SourceFailsStep, DestStep, DestFailsStep, NotReadyStep
     DEF ScriptedNext

\* The scripts given to the doubles are of their types.
LEMMA ScriptsTyped ==
  ASSUME ScriptedInit
  PROVE  \A q \in Queues : script[q] \in Seq(Entries(q))
<1> DEFINE Tries == Seq({"CallInner", "WouldBlock", "Err"})
           Result == [kind : {"Ok", "WouldBlock", "Err"}, n : Nat]
           Results == Seq(Result)
           Typed == [ready : Seq({"Ready", "Pending", "Err"}), try_io : Tries,
                     splice : Results]
<1>1. SideScript \subseteq Typed
  <2>1. UsizeMax \in Nat
    BY ScriptedIoAssumption DEF UsizeMax
  <2>2. [kind : {"Ok"}, n : 0 .. UsizeMax] \cup {WouldBlock, Fault} \subseteq Result
    BY <2>1 DEF WouldBlock, Fault
  <2> HIDE DEF Tries, Result
  <2>3. Seq([kind : {"Ok"}, n : 0 .. UsizeMax] \cup {WouldBlock, Fault}) \subseteq Results
    BY <2>2
  <2> QED
    BY <2>3 DEF SideScript, Tries
<1>2. \A tries \in Tries, results \in Results : TwoReady(tries, results) \in Typed
  BY DEF TwoReady
<1>3. \A n \in Nat : Ok(n) \in Result
  BY DEF Ok
<1>4. <<"CallInner", "WouldBlock">> \in Tries /\ <<"CallInner", "CallInner">> \in Tries
  OBVIOUS
<1> HIDE DEF Result
<1>5. /\ <<Ok(8000)>> \in Results /\ <<Ok(3000)>> \in Results
      /\ <<Ok(1000)>> \in Results /\ <<Ok(1000), Ok(0)>> \in Results
  BY <1>3
<1> HIDE DEF Tries, Results, Typed
<1>6. PICK r \in Typed, w \in Typed : script = Script(r, w)
  <2>1. CASE \E r \in ReadScripts, w \in WriteScripts : script = Script(r, w)
    BY <1>1, <2>1, ScriptedIoAssumption
  <2>2. CASE script = partial_write_parks_on_writer
    <3>1. /\ TwoReady(<<"CallInner", "WouldBlock">>, <<Ok(8000)>>) \in Typed
          /\ TwoReady(<<"CallInner", "WouldBlock">>, <<Ok(3000)>>) \in Typed
      BY <1>2, <1>4, <1>5
    <3> QED
      BY <2>2, <3>1 DEF partial_write_parks_on_writer
  <2>3. CASE script = clean_drain_finishes
    <3>1. /\ TwoReady(<<"CallInner", "CallInner">>, <<Ok(1000), Ok(0)>>) \in Typed
          /\ TwoReady(<<"CallInner", "CallInner">>, <<Ok(1000)>>) \in Typed
      BY <1>2, <1>4, <1>5
    <3> QED
      BY <2>3, <3>1 DEF clean_drain_finishes
  <2> QED
    BY <2>1, <2>2, <2>3 DEF ScriptedInit
<1> QED
  BY <1>6 DEF Script, Typed, Tries, Result, Results, Queues, Entries

-----------------------------------------------------------------------------
(***************************************************************************)
(* The meters.                                                             *)
(***************************************************************************)
\* pop_front of the splicer's queues.
LEMMA PopTotals ==
  ASSUME PlayedBack, NEW Q, PopFront(Q), UNCHANGED script, NEW q \in {"splice_in", "splice_out"}
  PROVE  Total(q)' = IF q \in Q /\ left[q] # <<>> THEN Total(q) + Head(left[q]).n ELSE Total(q)
<1>1. q \in Queues
  BY DEF Queues
<1>2. left'[q] = IF q \in Q /\ left[q] # <<>> THEN Tail(left[q]) ELSE left[q]
  BY <1>1 DEF PopFront
<1>3. script[q] \in Seq(Entries(q)) /\ left[q] \in Seq(Entries(q)) /\ TailOf(script[q], left[q])
  BY <1>1 DEF PlayedBack
<1>4. CASE q \in Q /\ left[q] # <<>>
  BY <1>2, <1>3, <1>4, TailTotals DEF Total
<1>5. CASE ~(q \in Q /\ left[q] # <<>>)
  BY <1>2, <1>5 DEF Total
<1> QED
  BY <1>4, <1>5

\* What an attempt adds to the totals of the results played.
LEMMA AttemptTotals ==
  ASSUME PlayedBack, UNCHANGED script
  PROVE  /\ ReadPops =>
              /\ Total("splice_out")' = Total("splice_out")
              /\ Total("splice_in")' = IF SplicesIn /\ left["splice_in"] # <<>>
                                         THEN Total("splice_in") + SpliceIn.n
                                         ELSE Total("splice_in")
         /\ WritePops =>
              /\ Total("splice_in")' = Total("splice_in")
              /\ Total("splice_out")' = IF SplicesOut /\ left["splice_out"] # <<>>
                                          THEN Total("splice_out") + SpliceOut.n
                                          ELSE Total("splice_out")
<1>1. ASSUME ReadPops
      PROVE  /\ Total("splice_out")' = Total("splice_out")
             /\ Total("splice_in")' = IF SplicesIn /\ left["splice_in"] # <<>>
                                        THEN Total("splice_in") + SpliceIn.n
                                        ELSE Total("splice_in")
  <2> DEFINE Q == {"read_ready", "try_io_read"} \cup IF SplicesIn THEN {"splice_in"} ELSE {}
  <2>1. PopFront(Q) /\ ("splice_in" \in Q <=> SplicesIn) /\ "splice_out" \notin Q
    BY <1>1 DEF ReadPops
  <2> HIDE DEF Q
  <2> QED
    BY <2>1, PopTotals DEF SpliceIn, Upcoming
<1>2. ASSUME WritePops
      PROVE  /\ Total("splice_in")' = Total("splice_in")
             /\ Total("splice_out")' = IF SplicesOut /\ left["splice_out"] # <<>>
                                         THEN Total("splice_out") + SpliceOut.n
                                         ELSE Total("splice_out")
  <2> DEFINE Q == {"write_ready", "try_io_write"} \cup IF SplicesOut THEN {"splice_out"} ELSE {}
  <2>1. PopFront(Q) /\ ("splice_out" \in Q <=> SplicesOut) /\ "splice_in" \notin Q
    BY <1>2 DEF WritePops
  <2> HIDE DEF Q
  <2> QED
    BY <2>1, PopTotals DEF SpliceOut, Upcoming
<1> QED
  BY <1>1, <1>2

\* Every step meters what it plays back.
LEMMA MetersStep ==
  ASSUME ScriptedInv, MetersMatchSplices, [ScriptedNext]_scriptedVars
  PROVE  MetersMatchSplices'
<1> SUFFICES ASSUME poll' # "panic"
             PROVE  bytes_read' = Total("splice_in")' /\ bytes_written' = Total("splice_out")'
  BY DEF MetersMatchSplices
<1>0. poll # "panic" /\ bytes_read = Total("splice_in") /\ bytes_written = Total("splice_out")
  <2>1. poll = "panic" => ~ScriptedNext
    BY DEF ScriptedNext, PollExecute, NotReady, Shutdown, SourceClosed, SourceBytes,
       SourceAgain, SourceFails, SourcePanics, DestClosed, DestNoProgress, DestBytes,
       DestAgain, DestFails, DestPanics, RefillsAfterEnd, SplicesIn, InnerRead, ReadReady,
       Drained, SplicesOut, InnerWrite, WriteReady
  <2> QED
    BY <2>1 DEF MetersMatchSplices, scriptedVars
<1>1. PlayedBack /\ bytes_read \in Nat /\ bytes_written \in Nat /\ IsizeMax \in Nat
  BY ScriptedIoAssumption DEF ScriptedInv, ScriptedTypeOK
<1>2. Ok(0).n = 0 /\ WouldBlock.n = 0 /\ Fault.n = 0 /\ Panic.n = 0
  BY DEF Ok, WouldBlock, Fault, Panic
<1>3. CASE SourceBytes
  <2>1. left["splice_in"] # <<>> /\ SplicesIn
    BY <1>3 DEF SourceBytes, SpliceIn, Upcoming, Panic
  <2> QED
    BY <1>0, <1>1, <1>3, <2>1, AttemptTotals DEF SourceBytes
<1>4. CASE SourceClosed \/ SourceAgain \/ SourceFails
  <2>1. UNCHANGED <<script, bytes_read, bytes_written>> /\ ReadPops
    BY <1>4 DEF SourceClosed, SourceAgain, SourceFails
  <2>2. SplicesIn => SpliceIn.n = 0
    BY <1>1, <1>2, <1>4 DEF SourceClosed, SourceAgain, SourceFails, SplicesIn, InnerRead
  <2> QED
    BY <1>0, <1>1, <2>1, <2>2, AttemptTotals
<1>5. CASE DestBytes
  <2>1. left["splice_out"] # <<>> /\ SplicesOut
    BY <1>5 DEF DestBytes, SpliceOut, Upcoming, Panic
  <2> QED
    BY <1>0, <1>1, <1>5, <2>1, AttemptTotals DEF DestBytes
<1>6. CASE DestClosed \/ DestNoProgress \/ DestAgain \/ DestFails
  <2>1. UNCHANGED <<script, bytes_read, bytes_written>> /\ WritePops
    BY <1>6 DEF DestClosed, DestNoProgress, DestAgain, DestFails
  <2>2. SplicesOut => SpliceOut.n = 0
    BY <1>1, <1>2, <1>6 DEF DestClosed, DestNoProgress, DestAgain, DestFails, Drained,
       SplicesOut, InnerWrite, pipe_has_data
  <2> QED
    BY <1>0, <1>1, <2>1, <2>2, AttemptTotals
<1>7. CASE NotReady
  <2>1. PICK q \in {"read_ready", "write_ready"} :
          PopFront({q}) /\ UNCHANGED <<script, bytes_read, bytes_written>>
    BY <1>7 DEF NotReady
  <2>2. Total("splice_in")' = Total("splice_in") /\ Total("splice_out")' = Total("splice_out")
    BY <1>1, <2>1, PopTotals
  <2> QED
    BY <1>0, <2>1, <2>2
<1>8. CASE PollExecute \/ Shutdown \/ UNCHANGED scriptedVars
  BY <1>0, <1>8 DEF PollExecute, Shutdown, scriptedVars, Total
<1>9. CASE SourcePanics \/ DestPanics
  BY <1>9 DEF SourcePanics, DestPanics
<1> QED
  BY <1>3, <1>4, <1>5, <1>6, <1>7, <1>8, <1>9 DEF ScriptedNext

-----------------------------------------------------------------------------
(***************************************************************************)
(* The runs of the two unit tests, one state after the other.              *)
(***************************************************************************)
Waiting(rr, tr, si, wr, tw, so) ==
  /\ left["read_ready"] = rr /\ left["try_io_read"] = tr /\ left["splice_in"] = si
  /\ left["write_ready"] = wr /\ left["try_io_write"] = tw /\ left["splice_out"] = so

In(s, r, w) == state = s /\ bytes_read = r /\ bytes_written = w /\ ~error

\* partial_write_parks_on_writer.
Partial0 ==
  /\ Waiting(<<"Ready", "Ready">>, <<"CallInner", "WouldBlock">>, <<Ok(8000)>>,
             <<"Ready", "Ready">>, <<"CallInner", "WouldBlock">>, <<Ok(3000)>>)
  /\ In("Fill", 0, 0) /\ pipe.fill_fd /\ pipe.drain_fd /\ poll \in {"none", "running"}
Partial1 ==
  /\ Waiting(<<"Ready">>, <<"WouldBlock">>, <<>>,
             <<"Ready", "Ready">>, <<"CallInner", "WouldBlock">>, <<Ok(3000)>>)
  /\ In("Fill", 8000, 0) /\ pipe.drain_fd /\ poll = "running"
Partial2 ==
  /\ Waiting(<<>>, <<>>, <<>>,
             <<"Ready", "Ready">>, <<"CallInner", "WouldBlock">>, <<Ok(3000)>>)
  /\ In("Drain", 8000, 0) /\ pipe.drain_fd /\ poll = "running"
Partial3 ==
  /\ Waiting(<<>>, <<>>, <<>>, <<"Ready">>, <<"WouldBlock">>, <<>>)
  /\ In("Drain", 8000, 3000) /\ poll = "running"
Partial4 ==
  /\ Waiting(<<>>, <<>>, <<>>, <<>>, <<>>, <<>>)
  /\ In("Drain", 8000, 3000) /\ poll \in {"running", "Pending"}
PartialRun == Partial0 \/ Partial1 \/ Partial2 \/ Partial3 \/ Partial4

\* clean_drain_finishes.
Clean0 ==
  /\ Waiting(<<"Ready", "Ready">>, <<"CallInner", "CallInner">>, <<Ok(1000), Ok(0)>>,
             <<"Ready", "Ready">>, <<"CallInner", "CallInner">>, <<Ok(1000)>>)
  /\ In("Fill", 0, 0) /\ pipe.fill_fd /\ pipe.drain_fd /\ poll \in {"none", "running"}
Clean1 ==
  /\ Waiting(<<"Ready">>, <<"CallInner">>, <<Ok(0)>>,
             <<"Ready", "Ready">>, <<"CallInner", "CallInner">>, <<Ok(1000)>>)
  /\ In("Fill", 1000, 0) /\ pipe.fill_fd /\ pipe.drain_fd /\ poll = "running"
Clean2 ==
  /\ Waiting(<<>>, <<>>, <<>>,
             <<"Ready", "Ready">>, <<"CallInner", "CallInner">>, <<Ok(1000)>>)
  /\ In("Drain", 1000, 0) /\ ~pipe.fill_fd /\ pipe.drain_fd /\ poll = "running"
Clean3 ==
  /\ Waiting(<<>>, <<>>, <<>>, <<"Ready">>, <<"CallInner">>, <<>>)
  /\ In("Drain", 1000, 1000) /\ ~pipe.fill_fd /\ poll = "running"
Clean4 ==
  /\ Waiting(<<>>, <<>>, <<>>, <<>>, <<>>, <<>>)
  /\ In("Finished", 1000, 1000) /\ poll \in {"running", "Ok"}
CleanRun == Clean0 \/ Clean1 \/ Clean2 \/ Clean3 \/ Clean4

\* What pop_front leaves of a queue.
Rest(t) == IF t # <<>> THEN Tail(t) ELSE t

\* A queue of two entries, of one, and an empty one.
LEMMA ShortQueue ==
  /\ \A a, b : <<a, b>> # <<>> /\ Head(<<a, b>>) = a /\ Rest(<<a, b>>) = <<b>>
  /\ \A a : <<a>> # <<>> /\ Head(<<a>>) = a /\ Rest(<<a>>) = <<>>
  /\ Rest(<<>>) = <<>>
BY DEF Rest

\* What an attempt leaves of the queues.
LEMMA AttemptLeaves ==
  /\ ReadPops =>
       /\ \A q \in {"read_ready", "try_io_read"} :
            left'[q] = Rest(left[q])
       /\ left'["splice_in"] = IF SplicesIn THEN Rest(left["splice_in"]) ELSE left["splice_in"]
       /\ \A q \in {"write_ready", "try_io_write", "splice_out"} : left'[q] = left[q]
  /\ WritePops =>
       /\ \A q \in {"write_ready", "try_io_write"} :
            left'[q] = Rest(left[q])
       /\ left'["splice_out"] = IF SplicesOut THEN Rest(left["splice_out"]) ELSE left["splice_out"]
       /\ \A q \in {"read_ready", "try_io_read", "splice_in"} : left'[q] = left[q]
BY DEF ReadPops, WritePops, PopFront, Queues, Rest

\* What a poll can do next where the descriptor is ready.
LEMMA NextAttempt ==
  ASSUME poll = "running", [ScriptedNext]_scriptedVars
  PROVE  /\ state = "Fill" /\ Upcoming("read_ready", "Pending") = "Ready" =>
              SourceClosed \/ SourceBytes \/ SourceAgain \/ SourceFails \/ SourcePanics
              \/ UNCHANGED scriptedVars
         /\ state = "Drain" /\ Upcoming("write_ready", "Pending") = "Ready" =>
              DestClosed \/ DestNoProgress \/ DestBytes \/ DestAgain \/ DestFails \/ DestPanics
              \/ UNCHANGED scriptedVars
<1>1. ~PollExecute
  BY DEF PollExecute
<1>2. state \in {"Fill", "Drain"} => ~Shutdown
  BY DEF Shutdown
<1>3. state = "Fill" =>
        ~(DestClosed \/ DestNoProgress \/ DestBytes \/ DestAgain \/ DestFails \/ DestPanics)
  BY DEF DestClosed, DestNoProgress, DestBytes, DestAgain, DestFails, DestPanics, Drained,
     SplicesOut, InnerWrite, WriteReady
<1>4. state = "Drain" =>
        ~(SourceClosed \/ SourceBytes \/ SourceAgain \/ SourceFails \/ SourcePanics)
  BY DEF SourceClosed, SourceBytes, SourceAgain, SourceFails, SourcePanics, RefillsAfterEnd,
     SplicesIn, InnerRead, ReadReady
<1>5. /\ state = "Fill" /\ Upcoming("read_ready", "Pending") = "Ready" => ~NotReady
      /\ state = "Drain" /\ Upcoming("write_ready", "Pending") = "Ready" => ~NotReady
  BY DEF NotReady
<1> QED
  BY <1>1, <1>2, <1>3, <1>4, <1>5 DEF ScriptedNext

\* Of an attempt, one outcome is possible.
LEMMA OneOutcome ==
  /\ TryRead = "WouldBlock" => ~SourceClosed /\ ~SourceBytes /\ ~SourceFails /\ ~SourcePanics
  /\ SplicesIn /\ bytes_read \in Nat /\ IsizeMax \in Nat /\ SpliceIn.n \in Nat
     /\ bytes_read + SpliceIn.n <= UsizeMax =>
       /\ SpliceIn.kind = "Ok" => ~SourceAgain /\ ~SourceFails /\ ~SourcePanics
       /\ SpliceIn.n = 0 => ~SourceBytes
       /\ SpliceIn.n # 0 => ~SourceClosed
  /\ TryWrite = "WouldBlock" =>
       ~DestClosed /\ ~DestNoProgress /\ ~DestBytes /\ ~DestFails /\ ~DestPanics
  /\ SplicesOut /\ bytes_read \in Nat /\ bytes_written \in Nat /\ IsizeMax \in Nat
     /\ SpliceOut.n \in Nat /\ bytes_written + SpliceOut.n <= UsizeMax =>
       /\ SpliceOut.kind = "Ok" => ~DestClosed /\ ~DestAgain /\ ~DestFails /\ ~DestPanics
       /\ SpliceOut.n # 0 => ~DestNoProgress
  /\ Drained /\ bytes_read \in Nat =>
       ~DestBytes /\ ~DestAgain /\ ~DestFails /\ ~DestPanics
<1> USE DEF Ok, WouldBlock, Fault, Panic
<1>1. ASSUME TryRead = "WouldBlock"
      PROVE  ~SourceClosed /\ ~SourceBytes /\ ~SourceFails /\ ~SourcePanics
  BY <1>1 DEF SourceClosed, SourceBytes, SourceFails, SourcePanics, RefillsAfterEnd, SplicesIn,
     InnerRead
<1>2. ASSUME SplicesIn, bytes_read \in Nat, IsizeMax \in Nat, SpliceIn.n \in Nat,
             bytes_read + SpliceIn.n <= UsizeMax
      PROVE  /\ SpliceIn.kind = "Ok" => ~SourceAgain /\ ~SourceFails /\ ~SourcePanics
             /\ SpliceIn.n = 0 => ~SourceBytes
             /\ SpliceIn.n # 0 => ~SourceClosed
  <2>1. TryRead = "CallInner" /\ bytes_read < IsizeMax /\ pipe.fill_fd
    BY <1>2 DEF SplicesIn, InnerRead
  <2>2. ~(bytes_read + SpliceIn.n > UsizeMax)
    BY <1>2 DEF UsizeMax
  <2> QED
    BY <1>2, <2>1, <2>2 DEF SourceAgain, SourceFails, SourcePanics, SourceBytes, SourceClosed,
       RefillsAfterEnd, is_fill_done
<1>3. ASSUME TryWrite = "WouldBlock"
      PROVE  ~DestClosed /\ ~DestNoProgress /\ ~DestBytes /\ ~DestFails /\ ~DestPanics
  BY <1>3 DEF DestClosed, DestNoProgress, DestBytes, DestFails, DestPanics, Drained, SplicesOut,
     InnerWrite
<1>4. ASSUME SplicesOut, bytes_read \in Nat, bytes_written \in Nat, IsizeMax \in Nat,
             SpliceOut.n \in Nat, bytes_written + SpliceOut.n <= UsizeMax
      PROVE  /\ SpliceOut.kind = "Ok" => ~DestClosed /\ ~DestAgain /\ ~DestFails /\ ~DestPanics
             /\ SpliceOut.n # 0 => ~DestNoProgress
  <2>1. TryWrite = "CallInner" /\ bytes_read > bytes_written
    BY <1>4 DEF SplicesOut, InnerWrite, pipe_has_data
  <2>2. ~(bytes_written + SpliceOut.n > UsizeMax)
    BY <1>4 DEF UsizeMax
  <2> QED
    BY <1>4, <2>1, <2>2 DEF DestClosed, DestAgain, DestFails, DestPanics, DestNoProgress, Drained
<1>5. ASSUME Drained, bytes_read \in Nat
      PROVE  ~DestBytes /\ ~DestAgain /\ ~DestFails /\ ~DestPanics
  BY <1>5 DEF DestBytes, DestAgain, DestFails, DestPanics, Drained, SplicesOut, InnerWrite,
     pipe_has_data
<1> QED
  BY <1>1, <1>2, <1>3, <1>4, <1>5

\* Without a poll, in Finished, or where the descriptor is not ready, there is no
\* attempt.
LEMMA NoAttempt ==
  ASSUME [ScriptedNext]_scriptedVars,
         \/ poll # "running" \/ state = "Finished"
         \/ state = "Drain" /\ Upcoming("write_ready", "Pending") # "Ready"
  PROVE  \/ PollExecute \/ UNCHANGED scriptedVars
         \/ Shutdown /\ state = "Finished" /\ poll = "running"
         \/ NotReady /\ state # "Finished" /\ poll = "running"
<1>1. ~(SourceClosed \/ SourceBytes \/ SourceAgain \/ SourceFails \/ SourcePanics)
  BY DEF SourceClosed, SourceBytes, SourceAgain, SourceFails, SourcePanics, RefillsAfterEnd,
     SplicesIn, InnerRead, ReadReady
<1>2. ~(DestClosed \/ DestNoProgress \/ DestBytes \/ DestAgain \/ DestFails \/ DestPanics)
  BY DEF DestClosed, DestNoProgress, DestBytes, DestAgain, DestFails, DestPanics, Drained,
     SplicesOut, InnerWrite, WriteReady
<1> QED
  BY <1>1, <1>2 DEF ScriptedNext, Shutdown, NotReady

\* The run of partial_write_parks_on_writer goes on as the test expects.
LEMMA PartialStep ==
  ASSUME PartialRun, IsizeMax \in Nat, IsizeMax > 8000, [ScriptedNext]_scriptedVars
  PROVE  PartialRun'
<1> USE DEF Waiting, In
<1>1. CASE UNCHANGED scriptedVars
  BY <1>1 DEF scriptedVars, PartialRun, Partial0, Partial1, Partial2, Partial3, Partial4
<1>2. CASE Partial0 /\ poll = "none"
  <2>1. PollExecute \/ UNCHANGED scriptedVars
    BY <1>2, NoAttempt
  <2> QED
    BY <1>1, <1>2, <2>1 DEF PollExecute, Partial0, PartialRun
<1>3. CASE Partial0 /\ poll = "running"
  <2>1. /\ state = "Fill" /\ bytes_read = 0 /\ Upcoming("read_ready", "Pending") = "Ready"
        /\ TryRead = "CallInner" /\ SpliceIn = Ok(8000)
    BY <1>3, ShortQueue DEF Partial0, Upcoming, TryRead, SpliceIn
  <2>2. SplicesIn
    BY <1>3, <2>1 DEF SplicesIn, InnerRead, ReadReady, Partial0
  <2>3. SourceBytes \/ UNCHANGED scriptedVars
    BY <1>3, <2>1, <2>2, NextAttempt, OneOutcome DEF Ok, UsizeMax
  <2>4. CASE SourceBytes
    <3>1. /\ ReadPops /\ bytes_read' = 8000
          /\ UNCHANGED <<bytes_written, state, error, poll, pipe>>
      BY <2>1, <2>4 DEF SourceBytes, Ok
    <3>2. /\ left'["read_ready"] = <<"Ready">> /\ left'["try_io_read"] = <<"WouldBlock">>
          /\ left'["splice_in"] = <<>>
      <4>1. /\ left'["read_ready"] = Rest(<<"Ready", "Ready">>)
            /\ left'["try_io_read"] = Rest(<<"CallInner", "WouldBlock">>)
            /\ left'["splice_in"] = Rest(<<Ok(8000)>>)
        BY <1>3, <2>2, <3>1, AttemptLeaves DEF Partial0
      <4> QED
        BY <4>1, ShortQueue
    <3>3. \A q \in {"write_ready", "try_io_write", "splice_out"} : left'[q] = left[q]
      BY <3>1, AttemptLeaves
    <3>4. Partial1'
      BY <1>3, <3>1, <3>2, <3>3 DEF Partial0, Partial1
    <3> QED
      BY <3>4 DEF PartialRun
  <2> QED
    BY <1>1, <2>3, <2>4
<1>4. CASE Partial1
  <2>1. /\ state = "Fill" /\ poll = "running" /\ Upcoming("read_ready", "Pending") = "Ready"
        /\ TryRead = "WouldBlock"
    BY <1>4, ShortQueue DEF Partial1, Upcoming, TryRead
  <2>2. ~SplicesIn
    BY <2>1 DEF SplicesIn, InnerRead
  <2>3. SourceAgain \/ UNCHANGED scriptedVars
    BY <2>1, NextAttempt, OneOutcome
  <2>4. CASE SourceAgain
    <3>1. /\ ReadPops /\ state' = "Drain"
          /\ UNCHANGED <<bytes_read, bytes_written, error, poll, pipe>>
      BY <1>4, <2>4 DEF SourceAgain, pipe_has_data, Partial1
    <3>2. /\ left'["read_ready"] = <<>> /\ left'["try_io_read"] = <<>>
          /\ left'["splice_in"] = <<>>
      <4>1. /\ left'["read_ready"] = Rest(<<"Ready">>)
            /\ left'["try_io_read"] = Rest(<<"WouldBlock">>)
            /\ left'["splice_in"] = <<>>
        BY <1>4, <2>2, <3>1, AttemptLeaves DEF Partial1
      <4> QED
        BY <4>1, ShortQueue
    <3>3. \A q \in {"write_ready", "try_io_write", "splice_out"} : left'[q] = left[q]
      BY <3>1, AttemptLeaves
    <3>4. Partial2'
      BY <1>4, <3>1, <3>2, <3>3 DEF Partial1, Partial2
    <3> QED
      BY <3>4 DEF PartialRun
  <2> QED
    BY <1>1, <2>3, <2>4
<1>5. CASE Partial2
  <2>1. /\ state = "Drain" /\ poll = "running" /\ Upcoming("write_ready", "Pending") = "Ready"
        /\ TryWrite = "CallInner" /\ SpliceOut = Ok(3000)
    BY <1>5, ShortQueue DEF Partial2, Upcoming, TryWrite, SpliceOut
  <2>2. SplicesOut
    BY <1>5, <2>1 DEF SplicesOut, InnerWrite, WriteReady, pipe_has_data, Partial2
  <2>3. DestBytes \/ UNCHANGED scriptedVars
    BY <1>5, <2>1, <2>2, NextAttempt, OneOutcome DEF Ok, UsizeMax, Partial2
  <2>4. CASE DestBytes
    <3>1. /\ WritePops /\ bytes_written' = 3000
          /\ UNCHANGED <<bytes_read, state, error, poll>>
      BY <1>5, <2>1, <2>4 DEF DestBytes, Ok, Partial2
    <3>2. /\ left'["write_ready"] = <<"Ready">> /\ left'["try_io_write"] = <<"WouldBlock">>
          /\ left'["splice_out"] = <<>>
      <4>1. /\ left'["write_ready"] = Rest(<<"Ready", "Ready">>)
            /\ left'["try_io_write"] = Rest(<<"CallInner", "WouldBlock">>)
            /\ left'["splice_out"] = Rest(<<Ok(3000)>>)
        BY <1>5, <2>2, <3>1, AttemptLeaves DEF Partial2
      <4> QED
        BY <4>1, ShortQueue
    <3>3. \A q \in {"read_ready", "try_io_read", "splice_in"} : left'[q] = left[q]
      BY <3>1, AttemptLeaves
    <3>4. Partial3'
      BY <1>5, <3>1, <3>2, <3>3 DEF Partial2, Partial3
    <3> QED
      BY <3>4 DEF PartialRun
  <2> QED
    BY <1>1, <2>3, <2>4
<1>6. CASE Partial3
  <2>1. /\ state = "Drain" /\ poll = "running" /\ Upcoming("write_ready", "Pending") = "Ready"
        /\ TryWrite = "WouldBlock"
    BY <1>6, ShortQueue DEF Partial3, Upcoming, TryWrite
  <2>2. ~SplicesOut
    BY <2>1 DEF SplicesOut, InnerWrite
  <2>3. DestAgain \/ UNCHANGED scriptedVars
    BY <2>1, NextAttempt, OneOutcome
  <2>4. CASE DestAgain
    <3>1. WritePops /\ state' = "Drain" /\ UNCHANGED <<bytes_read, bytes_written, error, poll>>
      BY <1>6, <2>4 DEF DestAgain, pipe_has_data, Partial3
    <3>2. left'["write_ready"] = <<>> /\ left'["try_io_write"] = <<>> /\ left'["splice_out"] = <<>>
      <4>1. /\ left'["write_ready"] = Rest(<<"Ready">>)
            /\ left'["try_io_write"] = Rest(<<"WouldBlock">>)
            /\ left'["splice_out"] = <<>>
        BY <1>6, <2>2, <3>1, AttemptLeaves DEF Partial3
      <4> QED
        BY <4>1, ShortQueue
    <3>3. \A q \in {"read_ready", "try_io_read", "splice_in"} : left'[q] = left[q]
      BY <3>1, AttemptLeaves
    <3>4. Partial4'
      BY <1>6, <3>1, <3>2, <3>3 DEF Partial3, Partial4
    <3> QED
      BY <3>4 DEF PartialRun
  <2> QED
    BY <1>1, <2>3, <2>4
<1>7. CASE Partial4
  <2>1. state = "Drain" /\ Upcoming("write_ready", "Pending") = "Pending"
    BY <1>7 DEF Partial4, Upcoming
  <2>2. PollExecute \/ NotReady \/ UNCHANGED scriptedVars
    BY <2>1, NoAttempt
  <2>3. CASE PollExecute
    BY <1>7, <2>3 DEF PollExecute, Partial4, PartialRun
  <2>4. CASE NotReady
    <3>1. /\ poll' = "Pending" /\ PopFront({"write_ready"})
          /\ UNCHANGED <<bytes_read, bytes_written, state, error>>
      BY <2>1, <2>4 DEF NotReady
    <3>2. \A q \in Queues : left'[q] = left[q]
      BY <1>7, <3>1 DEF PopFront, Partial4
    <3> QED
      BY <1>7, <3>1, <3>2 DEF Partial4, PartialRun, Queues
  <2> QED
    BY <1>1, <2>2, <2>3, <2>4
<1> QED
  BY <1>2, <1>3, <1>4, <1>5, <1>6, <1>7 DEF PartialRun, Partial0

\* The run of clean_drain_finishes goes on as the test expects.
LEMMA CleanStep ==
  ASSUME CleanRun, pipe \in Pipes, IsizeMax \in Nat, IsizeMax > 8000, [ScriptedNext]_scriptedVars
  PROVE  CleanRun'
<1> USE DEF Waiting, In
<1>1. CASE UNCHANGED scriptedVars
  BY <1>1 DEF scriptedVars, CleanRun, Clean0, Clean1, Clean2, Clean3, Clean4
<1>2. CASE Clean0 /\ poll = "none"
  <2>1. PollExecute \/ UNCHANGED scriptedVars
    BY <1>2, NoAttempt
  <2> QED
    BY <1>1, <1>2, <2>1 DEF PollExecute, Clean0, CleanRun
<1>3. CASE Clean0 /\ poll = "running"
  <2>1. /\ state = "Fill" /\ bytes_read = 0 /\ Upcoming("read_ready", "Pending") = "Ready"
        /\ TryRead = "CallInner" /\ SpliceIn = Ok(1000)
    BY <1>3, ShortQueue DEF Clean0, Upcoming, TryRead, SpliceIn
  <2>2. SplicesIn
    BY <1>3, <2>1 DEF SplicesIn, InnerRead, ReadReady, Clean0
  <2>3. SourceBytes \/ UNCHANGED scriptedVars
    BY <1>3, <2>1, <2>2, NextAttempt, OneOutcome DEF Ok, UsizeMax
  <2>4. CASE SourceBytes
    <3>1. /\ ReadPops /\ bytes_read' = 1000
          /\ UNCHANGED <<bytes_written, state, error, poll, pipe>>
      BY <2>1, <2>4 DEF SourceBytes, Ok
    <3>2. /\ left'["read_ready"] = <<"Ready">> /\ left'["try_io_read"] = <<"CallInner">>
          /\ left'["splice_in"] = <<Ok(0)>>
      <4>1. /\ left'["read_ready"] = Rest(<<"Ready", "Ready">>)
            /\ left'["try_io_read"] = Rest(<<"CallInner", "CallInner">>)
            /\ left'["splice_in"] = Rest(<<Ok(1000), Ok(0)>>)
        BY <1>3, <2>2, <3>1, AttemptLeaves DEF Clean0
      <4> QED
        BY <4>1, ShortQueue
    <3>3. \A q \in {"write_ready", "try_io_write", "splice_out"} : left'[q] = left[q]
      BY <3>1, AttemptLeaves
    <3>4. Clean1'
      BY <1>3, <3>1, <3>2, <3>3 DEF Clean0, Clean1
    <3> QED
      BY <3>4 DEF CleanRun
  <2> QED
    BY <1>1, <2>3, <2>4
<1>4. CASE Clean1
  <2>1. /\ state = "Fill" /\ poll = "running" /\ Upcoming("read_ready", "Pending") = "Ready"
        /\ TryRead = "CallInner" /\ SpliceIn = Ok(0) /\ bytes_read = 1000
    BY <1>4, ShortQueue DEF Clean1, Upcoming, TryRead, SpliceIn
  <2>2. SplicesIn
    BY <1>4, <2>1 DEF SplicesIn, InnerRead, ReadReady, Clean1
  <2>3. SourceClosed \/ UNCHANGED scriptedVars
    BY <2>1, <2>2, NextAttempt, OneOutcome DEF Ok, UsizeMax
  <2>4. CASE SourceClosed
    <3>1. /\ ReadPops /\ state' = "Drain" /\ ~pipe'.fill_fd /\ pipe'.drain_fd = pipe.drain_fd
          /\ UNCHANGED <<bytes_read, bytes_written, error, poll>>
      BY <2>4 DEF SourceClosed, set_fill_done, Pipes
    <3>2. /\ left'["read_ready"] = <<>> /\ left'["try_io_read"] = <<>>
          /\ left'["splice_in"] = <<>>
      <4>1. /\ left'["read_ready"] = Rest(<<"Ready">>)
            /\ left'["try_io_read"] = Rest(<<"CallInner">>)
            /\ left'["splice_in"] = Rest(<<Ok(0)>>)
        BY <1>4, <2>2, <3>1, AttemptLeaves DEF Clean1
      <4> QED
        BY <4>1, ShortQueue
    <3>3. \A q \in {"write_ready", "try_io_write", "splice_out"} : left'[q] = left[q]
      BY <3>1, AttemptLeaves
    <3>4. Clean2'
      BY <1>4, <3>1, <3>2, <3>3 DEF Clean1, Clean2
    <3> QED
      BY <3>4 DEF CleanRun
  <2> QED
    BY <1>1, <2>3, <2>4
<1>5. CASE Clean2
  <2>1. /\ state = "Drain" /\ poll = "running" /\ Upcoming("write_ready", "Pending") = "Ready"
        /\ TryWrite = "CallInner" /\ SpliceOut = Ok(1000)
    BY <1>5, ShortQueue DEF Clean2, Upcoming, TryWrite, SpliceOut
  <2>2. SplicesOut
    BY <1>5, <2>1 DEF SplicesOut, InnerWrite, WriteReady, pipe_has_data, Clean2
  <2>3. DestBytes \/ UNCHANGED scriptedVars
    BY <1>5, <2>1, <2>2, NextAttempt, OneOutcome DEF Ok, UsizeMax, Clean2
  <2>4. CASE DestBytes
    <3>1. /\ WritePops /\ bytes_written' = 1000
          /\ UNCHANGED <<bytes_read, state, error, poll, pipe>>
      BY <1>5, <2>1, <2>4 DEF DestBytes, Ok, Clean2
    <3>2. /\ left'["write_ready"] = <<"Ready">> /\ left'["try_io_write"] = <<"CallInner">>
          /\ left'["splice_out"] = <<>>
      <4>1. /\ left'["write_ready"] = Rest(<<"Ready", "Ready">>)
            /\ left'["try_io_write"] = Rest(<<"CallInner", "CallInner">>)
            /\ left'["splice_out"] = Rest(<<Ok(1000)>>)
        BY <1>5, <2>2, <3>1, AttemptLeaves DEF Clean2
      <4> QED
        BY <4>1, ShortQueue
    <3>3. \A q \in {"read_ready", "try_io_read", "splice_in"} : left'[q] = left[q]
      BY <3>1, AttemptLeaves
    <3>4. Clean3'
      BY <1>5, <3>1, <3>2, <3>3 DEF Clean2, Clean3
    <3> QED
      BY <3>4 DEF CleanRun
  <2> QED
    BY <1>1, <2>3, <2>4
<1>6. CASE Clean3
  <2>1. /\ state = "Drain" /\ poll = "running" /\ Upcoming("write_ready", "Pending") = "Ready"
        /\ TryWrite = "CallInner" /\ bytes_read = bytes_written /\ bytes_read \in Nat
    BY <1>6, ShortQueue DEF Clean3, Upcoming, TryWrite
  <2>2. Drained /\ ~SplicesOut /\ is_fill_done
    BY <1>6, <2>1 DEF Drained, SplicesOut, InnerWrite, WriteReady, pipe_has_data, is_fill_done,
       Clean3
  <2>3. DestClosed \/ UNCHANGED scriptedVars
    BY <2>1, <2>2, NextAttempt, OneOutcome DEF DestNoProgress
  <2>4. CASE DestClosed
    <3>1. WritePops /\ state' = "Finished" /\ UNCHANGED <<bytes_read, bytes_written, error, poll>>
      BY <2>4 DEF DestClosed
    <3>2. left'["write_ready"] = <<>> /\ left'["try_io_write"] = <<>> /\ left'["splice_out"] = <<>>
      <4>1. /\ left'["write_ready"] = Rest(<<"Ready">>)
            /\ left'["try_io_write"] = Rest(<<"CallInner">>)
            /\ left'["splice_out"] = <<>>
        BY <1>6, <2>2, <3>1, AttemptLeaves DEF Clean3
      <4> QED
        BY <4>1, ShortQueue
    <3>3. \A q \in {"read_ready", "try_io_read", "splice_in"} : left'[q] = left[q]
      BY <3>1, AttemptLeaves
    <3>4. Clean4'
      BY <1>6, <3>1, <3>2, <3>3 DEF Clean3, Clean4
    <3> QED
      BY <3>4 DEF CleanRun
  <2> QED
    BY <1>1, <2>3, <2>4
<1>7. CASE Clean4
  <2>1. PollExecute \/ Shutdown \/ UNCHANGED scriptedVars
    BY <1>7, NoAttempt DEF Clean4
  <2>2. ~PollExecute
    BY <1>7 DEF PollExecute, Clean4
  <2>3. CASE Shutdown
    BY <1>7, <2>3 DEF Shutdown, Clean4, CleanRun
  <2> QED
    BY <1>1, <2>1, <2>2, <2>3
<1> QED
  BY <1>2, <1>3, <1>4, <1>5, <1>6, <1>7 DEF CleanRun, Clean0

-----------------------------------------------------------------------------
(***************************************************************************)
(* The theorems.                                                           *)
(***************************************************************************)
\* The inductive invariant of SpliceIo over MockFd and MockSplicer, for any
\* scripts and any number of polls.
THEOREM ScriptedInvariance == ScriptedSpec => []ScriptedInv
<1>1. ScriptedInit => ScriptedInv
  <2> SUFFICES ASSUME ScriptedInit PROVE ScriptedInv
    OBVIOUS
  <2>1. ScriptedTypeOK /\ pipe.fill_fd
    <3>1. PICK size \in PipeSizes : pipe = PipeNew(size)
      BY DEF ScriptedInit
    <3>2. pipe \in Pipes /\ pipe.fill_fd
      BY <3>1, PipeSizesAssumption DEF PipeNew, Pipes
    <3> QED
      BY <3>2 DEF ScriptedInit, ScriptedTypeOK
  <2>2. PlayedBack
    <3> SUFFICES ASSUME NEW q \in Queues
                 PROVE  script[q] \in Seq(Entries(q)) /\ TailOf(script[q], script[q])
      BY DEF ScriptedInit, PlayedBack
    <3>1. script[q] \in Seq(Entries(q))
      BY ScriptsTyped
    <3> QED
      BY <3>1 DEF TailOf
  <2>3. ~Failed
    <3>1. \A q \in Queues : Gone(q) = {}
      <4> SUFFICES ASSUME NEW q \in Queues PROVE Gone(q) = {}
        OBVIOUS
      <4>1. script[q] \in Seq(Entries(q)) /\ left[q] = script[q]
        BY ScriptsTyped DEF ScriptedInit
      <4>2. Len(script[q]) - Len(left[q]) = 0
        BY <4>1
      <4>3. DOMAIN SubSeq(script[q], 1, 0) = 1 .. 0 /\ 1 .. 0 = {}
        BY <4>1
      <4> QED
        BY <4>2, <4>3 DEF Gone, Taken
    <3> QED
      BY <3>1 DEF Failed
  <2> QED
    BY <2>1, <2>2, <2>3 DEF ScriptedInit, ScriptedInv, FillHolds, FillClosed, FailureKept,
       FinishedClean, pipe_has_data
<1> QED
  BY <1>1, ScriptedInvStep, PTL DEF ScriptedSpec

\* poll_execute parks on the source with bytes in the pipe only if the reader gave
\* them in its last answer and then went idle without an EAGAIN, or if the writer
\* took none of what it was offered last.
THEOREM HeldBackNeedsOdd == ScriptedSpec => []HeldBackNeedsOddFd
<1>1. ScriptedInv => HeldBackNeedsOddFd
  BY DEF ScriptedInv, FillHolds, Bytes, HeldBackNeedsOddFd
<1> QED
  BY <1>1, ScriptedInvariance, PTL

\* Ready(Ok(())) of poll_execute: the source has ended, everything is written, the
\* pipe is closed and no call has failed, whatever the descriptors do.
THEOREM OkComplete == ScriptedSpec => []OkIsComplete
<1>1. ScriptedInv => OkIsComplete
  <2> SUFFICES ASSUME ScriptedInv, poll = "Ok" PROVE OkIsComplete
    BY DEF OkIsComplete
  <2>1. /\ bytes_read = bytes_written /\ ~pipe.fill_fd /\ ~pipe.drain_fd
        /\ SourceOver /\ ~Failed
    BY DEF ScriptedInv, FinishedClean, FillClosed, FailureKept
  <2>2. \A q \in Queues : Gone(q) = {Played(q)[i] : i \in DOMAIN Played(q)}
    BY DEF Gone, Taken, Played
  <2>3. bytes_read = IsizeMax \/ \E i \in DOMAIN Played("splice_in") : Played("splice_in")[i] = Ok(0)
    BY <2>1, <2>2 DEF SourceOver, Queues
  <2>4. \A q \in Queues : \A i \in DOMAIN Played(q) : Played(q)[i] # Broken(q)
    BY <2>1, <2>2 DEF Failed
  <2> QED
    BY <2>1, <2>3, <2>4 DEF OkIsComplete, Broken
<1> QED
  BY <1>1, ScriptedInvariance, PTL

\* The expect() of try_splice_from_source: when it fails, the writer's last answer
\* was zero bytes for a pipe that is not empty, or EAGAIN for one that is.
THEOREM RefillNeedsOdd == ScriptedSpec => []RefillNeedsOddWriter
<1>1. ScriptedInv => RefillNeedsOddWriter
  BY DEF ScriptedInv, FillClosed, RefillNeedsOddWriter, OddWriter, RefillsAfterEnd, InnerRead,
     ReadReady, is_fill_done
<1> QED
  BY <1>1, ScriptedInvariance, PTL

\* bytes_read and bytes_written are what the splicer has given, whatever it was
\* scripted to give and wherever a poll fails, until an overflow panics.
THEOREM MetersCorrect == ScriptedSpec => []MetersMatchSplices
<1>1. ScriptedInit => MetersMatchSplices
  <2> SUFFICES ASSUME ScriptedInit PROVE MetersMatchSplices
    OBVIOUS
  <2>1. ASSUME NEW q \in {"splice_in", "splice_out"} PROVE Total(q) = 0
    <3>1. script[q] \in Seq(Entries(q)) /\ left[q] = script[q]
      BY ScriptsTyped DEF ScriptedInit, Queues
    <3>2. Len(script[q]) \in Nat /\ Len(script[q]) - Len(left[q]) = 0
      BY <3>1
    <3> QED
      BY <3>2, SumGrows DEF Total
  <2> QED
    BY <2>1 DEF ScriptedInit, MetersMatchSplices
<1>2. ScriptedInv /\ MetersMatchSplices /\ [ScriptedNext]_scriptedVars => MetersMatchSplices'
  BY MetersStep
<1> QED
  BY <1>1, <1>2, ScriptedInvariance, PTL DEF ScriptedSpec

\* What the two unit tests assert of their scripts is what every run of them gives,
\* however often they poll.  (isize::MAX is far beyond the bytes of the tests.)
THEOREM TestsAgree ==
  ASSUME IsizeMax > 8000
  PROVE  ScriptedSpec => []AgreesWithTests
<1> DEFINE Runs == /\ script = partial_write_parks_on_writer => PartialRun
                   /\ script = clean_drain_finishes => CleanRun
<1>1. ScriptedInit => Runs
  <2> SUFFICES ASSUME ScriptedInit PROVE Runs
    OBVIOUS
  <2>1. /\ left = script /\ In("Fill", 0, 0) /\ poll = "none" /\ pipe.fill_fd /\ pipe.drain_fd
    BY DEF ScriptedInit, In, PipeNew
  <2>2. script = partial_write_parks_on_writer => Partial0
    BY <2>1 DEF partial_write_parks_on_writer, Script, TwoReady, Waiting, Partial0
  <2>3. script = clean_drain_finishes => Clean0
    BY <2>1 DEF clean_drain_finishes, Script, TwoReady, Waiting, Clean0
  <2> QED
    BY <2>2, <2>3 DEF PartialRun, CleanRun
<1>2. ScriptedInv /\ Runs /\ [ScriptedNext]_scriptedVars => Runs'
  <2> SUFFICES ASSUME ScriptedInv, Runs, [ScriptedNext]_scriptedVars PROVE Runs'
    OBVIOUS
  <2>1. script' = script
    BY DEF ScriptedNext, scriptedVars, PollExecute, NotReady, Shutdown, SourceClosed,
       SourceBytes, SourceAgain, SourceFails, SourcePanics, DestClosed, DestNoProgress,
       DestBytes, DestAgain, DestFails, DestPanics
  <2>2. pipe \in Pipes /\ IsizeMax \in Nat
    BY ScriptedIoAssumption DEF ScriptedInv, ScriptedTypeOK
  <2> QED
    BY <2>1, <2>2, PartialStep, CleanStep
       DEF partial_write_parks_on_writer, clean_drain_finishes
<1>3. Runs => AgreesWithTests
  BY DEF AgreesWithTests, PartialRun, Partial0, Partial1, Partial2, Partial3, Partial4,
     CleanRun, Clean0, Clean1, Clean2, Clean3, Clean4, In
<1> QED
  BY <1>1, <1>2, <1>3, ScriptedInvariance, PTL DEF ScriptedSpec
=============================================================================
