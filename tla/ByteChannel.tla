---------------------------- MODULE ByteChannel ----------------------------
(***************************************************************************)
(* What a pipe between two commands promises: the reader gets the bytes    *)
(* that were written, each once and in order, and the end of input only    *)
(* after the writer has finished and every byte has been delivered.  Bytes *)
(* are identified by their position in the stream.                         *)
(***************************************************************************)
EXTENDS Naturals, Sequences

VARIABLES sent,       \* number of bytes put into the channel
          delivered,  \* the bytes handed to the reader
          closed,     \* the writer has finished
          eof         \* the reader has been told so

vars == <<sent, delivered, closed, eof>>

Init == sent = 0 /\ delivered = <<>> /\ closed = FALSE /\ eof = FALSE

Put ==
  /\ ~closed
  /\ sent' \in Nat /\ sent' > sent
  /\ UNCHANGED <<delivered, closed, eof>>

Close ==
  /\ ~closed
  /\ closed' = TRUE
  /\ UNCHANGED <<sent, delivered, eof>>

Deliver ==
  /\ \E n \in 1 .. sent : n > Len(delivered) /\ delivered' = [i \in 1 .. n |-> i]
  /\ UNCHANGED <<sent, closed, eof>>

End ==
  /\ closed /\ Len(delivered) = sent
  /\ eof' = TRUE
  /\ UNCHANGED <<sent, delivered, closed>>

Next == Put \/ Close \/ Deliver \/ End

Spec == Init /\ [][Next]_vars
=============================================================================
