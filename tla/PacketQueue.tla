---------------------------- MODULE PacketQueue -----------------------------
(***************************************************************************)
(* What the users of list.h rely on: a queue of pointers that grows at its *)
(* end and shrinks at its front.                                           *)
(***************************************************************************)
EXTENDS Sequences

CONSTANT Data

VARIABLE queue

Init == queue = <<>>

Put(d) == queue' = Append(queue, d)

Drop == queue # <<>> /\ queue' = Tail(queue)

Next == Drop \/ \E d \in Data : Put(d)

Spec == Init /\ [][Next]_queue

=============================================================================
