--------------------------- MODULE MCSrtpSockets ---------------------------
(* SrtpSockets with one application thread. *)
EXTENDS SrtpSockets

NoOldFifos == {}
FirstOldFifo == {1}

\* The clock stands still, advances by a microsecond, or is set back by 3 s.
ClockSteps == {-3000000, 0, 1}

Header(cmd, ack) == [len |-> 0, seq |-> 0, ack |-> ack, cmdinfo |-> 0, cmd |-> cmd]

\* Nothing, an ACK of the SYN, an ACK of something else.
SomeReplies == {Header(0, 0), Header(ACK, 0), Header(ACK, 1)}
=============================================================================
