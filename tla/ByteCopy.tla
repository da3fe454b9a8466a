------------------------------ MODULE ByteCopy ------------------------------
(***************************************************************************)
(* What one transfer promises, whatever moves the bytes: it pulls a prefix *)
(* of what the source produces, up to the limit and with at most `bound'   *)
(* bytes in flight, pushes a prefix of what it pulled, and ends once.  It  *)
(* reports success only when every byte it had to copy has been pushed;    *)
(* after the end nothing moves.                                            *)
(***************************************************************************)
EXTENDS Integers

VARIABLES
  produced,    \* bytes the source has produced so far
  closed,      \* the source will produce no more
  limit,       \* bytes the transfer was asked to copy at most
  bound,       \* bytes that may be pulled but not yet pushed
  pulled,      \* bytes taken from the source
  pushed,      \* bytes handed to the destination
  outcome      \* "Running", "Ok" or "Err"

copyVars == <<produced, closed, limit, bound, pulled, pushed, outcome>>

CopyInit ==
  /\ produced \in Nat /\ closed \in BOOLEAN
  /\ limit \in Nat /\ bound \in Nat
  /\ pulled = 0 /\ pushed = 0
  /\ outcome = "Running"

Produce ==
  /\ ~closed
  /\ produced' \in Nat /\ produced' >= produced
  /\ closed' \in BOOLEAN
  /\ UNCHANGED <<limit, bound, pulled, pushed, outcome>>

Pull ==
  /\ outcome = "Running"
  /\ pulled' \in Nat /\ pulled' > pulled
  /\ pulled' <= limit /\ pulled' <= produced /\ pulled' - pushed <= bound
  /\ UNCHANGED <<produced, closed, limit, bound, pushed, outcome>>

Push ==
  /\ outcome = "Running"
  /\ pushed' \in Nat /\ pushed' > pushed /\ pushed' <= pulled
  /\ UNCHANGED <<produced, closed, limit, bound, pulled, outcome>>

Finish ==
  /\ outcome = "Running"
  /\ pushed = pulled
  /\ pulled = limit \/ (closed /\ pulled = produced)
  /\ outcome' = "Ok"
  /\ UNCHANGED <<produced, closed, limit, bound, pulled, pushed>>

Fail ==
  /\ outcome = "Running"
  /\ outcome' = "Err"
  /\ UNCHANGED <<produced, closed, limit, bound, pulled, pushed>>

CopyNext == Produce \/ Pull \/ Push \/ Finish \/ Fail

CopySpec == CopyInit /\ [][CopyNext]_copyVars
=============================================================================
