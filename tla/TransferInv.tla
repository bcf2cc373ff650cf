---------------------------- MODULE TransferInv ----------------------------
(***************************************************************************)
(* The inductive invariant of Transfer over a network that loses and       *)
(* duplicates datagrams but keeps their order.                             *)
(***************************************************************************)
EXTENDS Transfer

InOrderNetwork == "reorderData" \notin Faults /\ "reorderReplies" \notin Faults

\* The sequence number of the n-th packet of the transfer.
SeqOf(n) == n % SEQ_MOD

\* The number of packets the client has removed from the window.
Base == made - Len(packets)

\* Where in the file packet k starts, for k in Base + 1 .. made + 1.
Offset(k) == IF k = made + 1 THEN pos ELSE packets[k - Base].off

\* The window holds packets Base + 1 .. made, consecutive slices of the file
\* from byte written to byte pos.
WindowInv ==
    /\ Len(packets) <= made
    /\ sequence = SeqOf(made + 1)
    /\ written = Offset(Base + 1)
    /\ \A i \in 1 .. Len(packets) :
           /\ packets[i].cmd = "DATA"
           /\ packets[i].n = Base + i
           /\ packets[i].seq = SeqOf(Base + i)
           /\ packets[i].off + packets[i].len = Offset(Base + i + 1)
           /\ packets[i].off + packets[i].len <= pos
    /\ \A i, j \in 1 .. Len(packets) : i < j =>
           packets[i].off + packets[i].len <= packets[j].off

\* The server is at a packet of the window or just behind it.
ProgressInv ==
    /\ Base <= got
    /\ got <= made
    /\ expected_sequence = SeqOf(got + 1)
    /\ sread = Offset(got + 1)

\* A DATA packet is the packet of the window with its number, or older.
DataOK(p) ==
    /\ p.n \in 1 .. made
    /\ p.seq = SeqOf(p.n)
    /\ p.n > Base => p = packets[p.n - Base]

\* DATA packets under way are right, and none is a window or more behind what
\* is before it.
DataInv ==
    \A j \in 1 .. Len(toServer) : toServer[j].cmd = "DATA" =>
        /\ DataOK(toServer[j])
        /\ got < toServer[j].n + WINDOW_SIZE
        /\ \A i \in 1 .. j - 1 : toServer[i].cmd = "DATA" =>
               toServer[i].n < toServer[j].n + WINDOW_SIZE

\* ACKs under way, and the one being handled, ask for packets in the order
\* the server did, and for none the client has already removed.
AckInv ==
    /\ \A j \in 1 .. Len(toClient) : toClient[j].cmd = "ACK" =>
        /\ toClient[j].n \in Base + 1 .. got + 1
        /\ toClient[j].seq = SeqOf(toClient[j].n)
        /\ \A i \in 1 .. j - 1 : toClient[i].cmd = "ACK" =>
               toClient[i].n <= toClient[j].n
        /\ cpc = "ack" => buffer.n <= toClient[j].n
    /\ cpc = "ack" =>
        /\ buffer.n \in Base + 1 .. got + 1
        /\ buffer.seq = SeqOf(buffer.n)

\* FIN is sent only when everything is acknowledged, by a client that will exit
\* with status 0.
FinInv ==
    /\ cpc \in {"fin", "finwait"} \/ cexit = "OK" => written = size
    /\ cexit = "OK" => cpc = "exit"
    /\ \A j \in 1 .. Len(toServer) : toServer[j].cmd = "FIN" =>
           written = size /\ (cpc \in {"fin", "finwait"} \/ cexit = "OK")

\* What the server's program counter and exit status say about its file.
FileInv ==
    /\ StoredInOrder
    /\ spc # "exit" => exists /\ sexit = "none"
    /\ spc \in {"read", "finack"} \/ sexit = "OK" => pending = <<>>
    /\ sexit = "OK" => exists
    /\ spc = "finack" \/ sexit = "OK" => sread = size
    /\ \A i \in 1 .. Len(toClient) : toClient[i].cmd = "FINACK" =>
           spc = "finack" \/ sexit = "OK"
    /\ NoFalseReject

IInv ==
    /\ TypeOK
    /\ ReadWithinSize
    /\ WindowInv
    /\ ProgressInv
    /\ DataInv
    /\ AckInv
    /\ FinInv
    /\ FileInv

=============================================================================
