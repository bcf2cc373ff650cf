------------------------------ MODULE FileCopy ------------------------------
(***************************************************************************)
(* What a transfer promises when the network keeps datagrams in order and  *)
(* the file does not change while it is sent.  The child accepts bytes in  *)
(* order and stores what it accepted; the client closes when everything is *)
(* accepted; the child completes when everything is stored.  The file is   *)
(* deleted only by a time-out, and a client that exits with status 0 knows *)
(* that its file was accepted, not that it was stored.                     *)
(***************************************************************************)
EXTENDS Integers, Sequences

VARIABLES
    size,      \* bytes of the client's file
    client,    \* "sending", "closing", "OK" or "failed"
    child,     \* "receiving", "complete", "done", "failed" or "timeout"
    accepted,  \* bytes accepted by the child
    file,      \* the bytes stored
    named      \* the file has a name

vars == <<size, client, child, accepted, file, named>>

\* Byte i of the client's file is the number i.
FirstBytes(n) == [i \in 1 .. n |-> i]

Init ==
    /\ size \in Nat
    /\ client = "sending"
    /\ child = "receiving"
    /\ accepted = 0
    /\ file = <<>>
    /\ named = TRUE

Accept ==
    /\ child = "receiving"
    /\ Len(file) = accepted
    /\ accepted' \in accepted .. size
    /\ UNCHANGED <<size, client, child, file, named>>

Store ==
    /\ child = "receiving"
    /\ file' = FirstBytes(accepted)
    /\ UNCHANGED <<size, client, child, accepted, named>>

StoreFails ==
    /\ child = "receiving"
    /\ \E n \in Len(file) .. accepted - 1 : file' = FirstBytes(n)
    /\ child' = "failed"
    /\ UNCHANGED <<size, client, accepted, named>>

ChildTimeout ==
    /\ child = "receiving"
    /\ child' = "timeout"
    /\ named' = FALSE
    /\ UNCHANGED <<size, client, accepted, file>>

ClientFails ==
    /\ client = "sending"
    /\ client' = "failed"
    /\ UNCHANGED <<size, child, accepted, file, named>>

ClientClose ==
    /\ client = "sending"
    /\ accepted = size
    /\ client' = "closing"
    /\ UNCHANGED <<size, child, accepted, file, named>>

ClientExit ==
    /\ client = "closing"
    /\ client' = "OK"
    /\ UNCHANGED <<size, child, accepted, file, named>>

ChildComplete ==
    /\ child = "receiving"
    /\ client \in {"closing", "OK"}
    /\ Len(file) = size
    /\ child' = "complete"
    /\ UNCHANGED <<size, client, accepted, file, named>>

ChildDone ==
    /\ child = "complete"
    /\ child' = "done"
    /\ UNCHANGED <<size, client, accepted, file, named>>

Next ==
    \/ Accept \/ Store \/ StoreFails \/ ChildTimeout \/ ChildComplete \/ ChildDone
    \/ ClientFails \/ ClientClose \/ ClientExit

Spec == Init /\ [][Next]_vars

=============================================================================
