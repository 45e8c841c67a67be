---------------------------- MODULE RecordQueue ----------------------------
(***************************************************************************)
(* What a log writer promises those who log: the records given to it are   *)
(* delivered in the order they were given, each once.  A writer that       *)
(* breaks delivers nothing more until the program is started again, and    *)
(* what it had not delivered by then is lost.                              *)
(***************************************************************************)
EXTENDS Sequences

CONSTANT Record

VARIABLES
  pending,     \* given and not yet delivered
  delivered,
  broken

vars == <<pending, delivered, broken>>

Init == pending = <<>> /\ delivered = <<>> /\ broken = FALSE

Give(r) ==
  /\ pending' = Append(pending, r)
  /\ UNCHANGED <<delivered, broken>>

Deliver ==
  /\ ~broken /\ pending # <<>>
  /\ delivered' = Append(delivered, Head(pending))
  /\ pending' = Tail(pending)
  /\ UNCHANGED broken

\* The writer fails at the record it has in hand, if it has one.
Break ==
  /\ ~broken /\ broken' = TRUE
  /\ \/ pending # <<>> /\ pending' = Tail(pending)
     \/ UNCHANGED pending
  /\ UNCHANGED delivered

Restart == pending' = <<>> /\ broken' = FALSE /\ UNCHANGED delivered

Next == (\E r \in Record : Give(r)) \/ Deliver \/ Break \/ Restart

Spec == Init /\ [][Next]_vars
=============================================================================
