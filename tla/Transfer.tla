------------------------------ MODULE Transfer ------------------------------
(***************************************************************************)
(* One file transfer, from the moment the server child has created the     *)
(* file and the client has seen its ACK: the go-back-N loop and the        *)
(* closing exchange of copy_file in ftpclient.c, against the read loop of  *)
(* copy_file in ftpserver.c, over UDP.                                     *)
(*                                                                         *)
(* Clocks are abstracted: wherever the code compares time(NULL) with a     *)
(* deadline both outcomes are possible, and a read with MSG_DONTWAIT may   *)
(* find nothing although datagrams are under way.                          *)
(***************************************************************************)
EXTENDS SrtpCommon

CONSTANTS
    WINDOW_SIZE,    \* packets the client keeps unacknowledged (50)
    PAYLOAD_SIZE,   \* bytes of payload in a full packet (2043)
    MaxSize,        \* bound: the largest file
    FileMayChange   \* whether the file may change between stat and fread

ASSUME WindowAssumption == WINDOW_SIZE \in Nat \ {0} /\ WINDOW_SIZE < SEQ_MOD
ASSUME PayloadAssumption == PAYLOAD_SIZE \in Nat \ {0}
ASSUME MaxSizeAssumption == MaxSize \in Nat
ASSUME FileMayChangeAssumption == FileMayChange \in BOOLEAN

VARIABLES
    \* the client process
    cpc,        \* where copy_file is
    size,       \* get_file_size(filename), also sent in the request
    flen,       \* the bytes fread can obtain from the file
    pos,        \* offset of the FILE *
    read,       \* bytes read so far, and result of read_only_from
    sequence,   \* sequence number of the next packet
    packets,    \* the struct List of unacknowledged packets
    written,    \* bytes of the packets removed from that list
    node,       \* send_all's position in the list
    buffer,     \* the last packet received (not used after the data loop)
    cexit,      \* exit status
    \* the server child
    spc,        \* where copy_file is
    expected_sequence,
    sread,      \* bytes received (read in the code)
    pending,    \* payload acknowledged and not yet passed to fwrite
    sfile,      \* what was written to the stream
    exists,     \* the file has its name, i.e. it was not unlinked
    sexit,      \* exit status
    \* the network
    toServer, toClient,
    \* history: packets created by the client, packets accepted by the server
    made, got

clientVars == <<cpc, size, flen, pos, read, sequence, packets, written, node,
                buffer, cexit, made>>
serverVars == <<spc, expected_sequence, sread, pending, sfile, exists, sexit, got>>
vars == <<clientVars, serverVars, toServer, toClient>>

ClientPCs == {"loop", "send", "recv", "ack", "fin", "finwait", "exit"}
ServerPCs == {"read", "write", "finack", "exit"}
ExitCodes == {"none", "OK", "TIMEOUT", "RUNTIME_ERROR", "BAD_REQUEST"}

\* The first n bytes of the client's file.
Source(n) == [i \in 1 .. n |-> i]

Init ==
    /\ cpc = "loop"
    /\ size \in 0 .. MaxSize
    /\ flen \in 0 .. MaxSize
    /\ FileMayChange \/ flen = size
    /\ pos = 0 /\ read = 0 /\ written = 0
    /\ sequence = 1
    /\ packets = <<>>
    /\ node = 1
    /\ buffer = create_packet("ACK", 1, 0, 0, 1)
    /\ cexit = "none"
    /\ spc = "read"
    /\ expected_sequence = 1
    /\ sread = 0
    /\ pending = <<>>
    /\ sfile = <<>>
    /\ exists = TRUE
    /\ sexit = "none"
    /\ toServer = <<>>
    \* A request sent twice is answered twice: behind the ACK that
    \* complete_request took may be a copy of it, or another child's EXISTS.
    /\ toClient \in {<<>>,
                     <<create_packet("ACK", 1, 0, 0, 1)>>,
                     <<create_packet("EXISTS", 0, 0, 0, 0)>>}
    /\ made = 0
    /\ got = 0

-----------------------------------------------------------------------------
(***************************************************************************)
(* Client: filling and sending the window.                                 *)
(***************************************************************************)

\* Mutant: one packet too many in the window.
WindowOpenOneMore == Len(packets) <= WINDOW_SIZE /\ written < size

WindowOpen == Len(packets) < WINDOW_SIZE /\ written < size

\* Bytes asked of fread: read counts this round's bytes only, from the
\* second round on (see ClientRecvNothing).
Remaining == IF size - read < PAYLOAD_SIZE THEN size - read ELSE PAYLOAD_SIZE

\* Bytes fread returns.
Chunk == IF flen - pos < Remaining THEN flen - pos ELSE Remaining

\* One turn of the loop that fills the window.  At the end of the file it
\* goes on with empty packets until the window is full.
ClientFill ==
    /\ cpc = "loop"
    /\ written # size
    /\ WindowOpen
    /\ packets' = Append(packets, create_packet("DATA", sequence, Chunk, pos, made + 1))
    /\ sequence' = NextSeq(sequence)
    /\ read' = read + Chunk
    /\ pos' = pos + Chunk
    /\ made' = made + 1
    /\ UNCHANGED <<cpc, size, flen, written, node, buffer, cexit, serverVars,
                   toServer, toClient>>

\* add_to_list finds no memory, which nobody notices: the packet is lost before
\* it was ever sent, and its number and its bytes are used up.
ClientFillFails ==
    /\ cpc = "loop"
    /\ written # size
    /\ WindowOpen
    /\ sequence' = NextSeq(sequence)
    /\ read' = read + Chunk
    /\ pos' = pos + Chunk
    /\ made' = made + 1
    /\ UNCHANGED <<cpc, size, flen, packets, written, node, buffer, cexit, serverVars,
                   toServer, toClient>>

ClientStartSend ==
    /\ cpc = "loop"
    /\ written # size
    /\ ~WindowOpen
    /\ cpc' = "send"
    /\ node' = 1
    /\ UNCHANGED <<size, flen, pos, read, sequence, packets, written, buffer,
                   cexit, made, serverVars, toServer, toClient>>

\* One turn of the loop in send_all.
ClientSend(i) ==
    /\ cpc = "send"
    /\ node = i
    /\ i <= Len(packets)
    /\ toServer' \in Sent(toServer, packets[i])
    /\ node' = i + 1
    /\ UNCHANGED <<cpc, size, flen, pos, read, sequence, packets, written,
                   buffer, cexit, made, serverVars, toClient>>

ClientExit(status) ==
    /\ cpc' = "exit"
    /\ cexit' = status
    /\ UNCHANGED <<size, flen, pos, read, sequence, packets, written, node,
                   buffer, made, serverVars>>

\* sendto refuses a packet.
ClientSendError ==
    /\ cpc = "send"
    /\ node <= Len(packets)
    /\ ClientExit("RUNTIME_ERROR")
    /\ UNCHANGED <<toServer, toClient>>

\* More than ACK_TIMEOUT seconds since an ACK removed a packet.
ClientTimeout ==
    /\ cpc = "send"
    /\ node > Len(packets)
    /\ ClientExit("TIMEOUT")
    /\ UNCHANGED <<toServer, toClient>>

ClientPoll ==
    /\ cpc = "send"
    /\ node > Len(packets)
    /\ cpc' = "recv"
    /\ UNCHANGED <<size, flen, pos, read, sequence, packets, written, node,
                   buffer, cexit, made, serverVars, toServer, toClient>>

-----------------------------------------------------------------------------
(***************************************************************************)
(* Client: handling ACKs.                                                  *)
(***************************************************************************)

\* Mutant: the result of read_only_from is stored only when it is a length.
ClientRecvNothingKeepsRead ==
    /\ cpc = "recv"
    /\ cpc' = "loop"
    /\ UNCHANGED <<size, flen, pos, read, sequence, packets, written, node, buffer,
                   cexit, made, serverVars, toServer, toClient>>

\* read_only_from would block: the result overwrites the byte count.
ClientRecvNothing ==
    /\ cpc = "recv"
    /\ read' = -1
    /\ cpc' = "loop"
    /\ UNCHANGED <<size, flen, pos, sequence, packets, written, node, buffer,
                   cexit, made, serverVars, toServer, toClient>>

\* A datagram.  Only an ACK is acted on; no server sends CMD_FIN.
ClientRecv ==
    /\ cpc = "recv"
    /\ toClient # <<>>
    /\ read' = HEADER_SIZE
    /\ buffer' = Head(toClient)
    /\ cpc' = IF Head(toClient).cmd = "ACK" THEN "ack" ELSE "recv"
    /\ toClient' = Tail(toClient)
    /\ UNCHANGED <<size, flen, pos, sequence, packets, written, node, cexit, made,
                   serverVars, toServer>>

\* Mutant: an ACK carries the last number received, not the next one expected.
AckStopsLastReceived(f, l, seq) == NextSeq(seq) = f

\* Whether an ACK for seq leaves the window, which runs from f to l, alone.
AckStops(f, l, seq) ==
    \/ seq = f
    \/ f <= l /\ seq < f /\ seq > l
    \/ ~(f <= l) /\ seq > f /\ seq < l

AckDone ==
    packets # <<>> => AckStops(packets[1].seq, packets[Len(packets)].seq, buffer.seq)

\* One turn of the loop that removes what the ACK acknowledges.
ClientAckPop ==
    /\ cpc = "ack"
    /\ ~AckDone
    /\ written' = written + packets[1].len
    /\ packets' = Tail(packets)
    /\ UNCHANGED <<cpc, size, flen, pos, read, sequence, node, buffer, cexit,
                   made, serverVars, toServer, toClient>>

ClientAckDone ==
    /\ cpc = "ack"
    /\ AckDone
    /\ cpc' = "recv"
    /\ UNCHANGED <<size, flen, pos, read, sequence, packets, written, node,
                   buffer, cexit, made, serverVars, toServer, toClient>>

-----------------------------------------------------------------------------
(***************************************************************************)
(* Client: closing.  copy_file returns 0 whether a FINACK came or not.     *)
(***************************************************************************)

SendFin == toServer' \in Sent(toServer, create_packet("FIN", 0, 0, 0, 0))

\* Mutant: FIN as soon as the whole file has been sent once.
ClientStartFinAllSent ==
    /\ cpc = "loop"
    /\ pos = size
    /\ SendFin
    /\ cpc' = "finwait"
    /\ UNCHANGED <<size, flen, pos, read, sequence, packets, written, node,
                   buffer, cexit, made, serverVars, toClient>>

\* Mutant: FIN when the file ends and nothing is left to acknowledge.
ClientStartFinAtEnd ==
    /\ cpc = "loop"
    /\ pos = flen
    /\ written = pos
    /\ SendFin
    /\ cpc' = "finwait"
    /\ UNCHANGED <<size, flen, pos, read, sequence, packets, written, node,
                   buffer, cexit, made, serverVars, toClient>>

\* The loop reads the clock twice before its first turn, with nothing in
\* between: a first FIN is always sent.
ClientStartFin ==
    /\ cpc = "loop"
    /\ written = size
    /\ SendFin
    /\ cpc' = "finwait"
    /\ UNCHANGED <<size, flen, pos, read, sequence, packets, written, node,
                   buffer, cexit, made, serverVars, toClient>>

ClientFin ==
    /\ cpc = "fin"
    /\ SendFin
    /\ cpc' = "finwait"
    /\ UNCHANGED <<size, flen, pos, read, sequence, packets, written, node,
                   buffer, cexit, made, serverVars, toClient>>

ClientFinNothing ==
    /\ cpc = "finwait"
    /\ cpc' = "fin"
    /\ UNCHANGED <<size, flen, pos, read, sequence, packets, written, node,
                   buffer, cexit, made, serverVars, toServer, toClient>>

\* A left-over ACK or another child's EXISTS is skipped.
ClientFinSkip ==
    /\ cpc = "finwait"
    /\ toClient # <<>>
    /\ Head(toClient).cmd # "FINACK"
    /\ cpc' = IF Head(toClient).cmd = "ACK" THEN "finwait" ELSE "fin"
    /\ toClient' = Tail(toClient)
    /\ UNCHANGED <<size, flen, pos, read, sequence, packets, written, node,
                   buffer, cexit, made, serverVars, toServer>>

ClientFinAcked ==
    /\ cpc = "finwait"
    /\ toClient # <<>>
    /\ Head(toClient).cmd = "FINACK"
    /\ ClientExit("OK")
    /\ toClient' = Tail(toClient)
    /\ UNCHANGED toServer

\* ACK_TIMEOUT seconds without a FINACK.  (The code also tests buffer[0] when
\* nothing was read, and then sees what malloc returned: if that looks like
\* a FINACK the loop ends here too.)
ClientFinTimeout ==
    /\ cpc = "fin"
    /\ ClientExit("OK")
    /\ UNCHANGED <<toServer, toClient>>

-----------------------------------------------------------------------------
(***************************************************************************)
(* Server child.                                                           *)
(***************************************************************************)

ServerExit(status) ==
    /\ spc' = "exit"
    /\ sexit' = status
    /\ UNCHANGED <<clientVars, expected_sequence, got>>

\* Six seconds without a packet: the partial file is deleted.
ServerTimeout ==
    /\ spc = "read"
    /\ exists' = FALSE
    /\ ServerExit("TIMEOUT")
    /\ UNCHANGED <<sread, pending, sfile, toServer, toClient>>

SendAck(seq, n) == toClient' \in Sent(toClient, create_packet("ACK", seq, 0, 0, n))

\* Mutant: the unexpected packet's own number is acknowledged.
ServerWrongDataEchoes ==
    /\ spc = "read"
    /\ toServer # <<>>
    /\ Head(toServer).cmd = "DATA"
    /\ Head(toServer).seq # expected_sequence
    /\ toServer' = Tail(toServer)
    /\ SendAck(Head(toServer).seq, Head(toServer).n)
    /\ UNCHANGED <<clientVars, serverVars>>

\* A DATA packet that is not the expected one: ask for the expected one again.
ServerWrongData ==
    /\ spc = "read"
    /\ toServer # <<>>
    /\ Head(toServer).cmd = "DATA"
    /\ Head(toServer).seq # expected_sequence
    /\ toServer' = Tail(toServer)
    /\ SendAck(expected_sequence, got + 1)
    /\ UNCHANGED <<clientVars, serverVars>>

\* Mutant: the sequence number is not compared.
ServerDataUnchecked ==
    /\ spc = "read"
    /\ toServer # <<>>
    /\ Head(toServer).cmd = "DATA"
    /\ toServer' = Tail(toServer)
    /\ expected_sequence' = NextSeq(expected_sequence)
    /\ got' = got + 1
    /\ SendAck(NextSeq(expected_sequence), got + 2)
    /\ sread' = sread + Head(toServer).len
    /\ pending' = Payload(Head(toServer))
    /\ spc' = "write"
    /\ UNCHANGED <<clientVars, sfile, exists, sexit>>

\* The expected DATA packet: it is acknowledged first, ...
ServerData ==
    /\ spc = "read"
    /\ toServer # <<>>
    /\ Head(toServer).cmd = "DATA"
    /\ Head(toServer).seq = expected_sequence
    /\ toServer' = Tail(toServer)
    /\ expected_sequence' = NextSeq(expected_sequence)
    /\ got' = got + 1
    /\ SendAck(NextSeq(expected_sequence), got + 2)
    /\ sread' = sread + Head(toServer).len
    /\ pending' = Payload(Head(toServer))
    /\ spc' = "write"
    /\ UNCHANGED <<clientVars, sfile, exists, sexit>>

\* ... then written.
ServerWrite ==
    /\ spc = "write"
    /\ sread <= size
    /\ sfile' = sfile \o pending
    /\ pending' = <<>>
    /\ spc' = "read"
    /\ UNCHANGED <<clientVars, expected_sequence, sread, exists, sexit, got,
                   toServer, toClient>>

\* More bytes than were announced: the file is deleted.
ServerExcess ==
    /\ spc = "write"
    /\ sread > size
    /\ sfile' = sfile \o pending
    /\ pending' = <<>>
    /\ exists' = FALSE
    /\ ServerExit("BAD_REQUEST")
    /\ UNCHANGED <<sread, toServer, toClient>>

\* Mutant: the result of fwrite is ignored.
ServerWriteErrorIgnored(k) ==
    /\ spc = "write"
    /\ k < Len(pending)
    /\ sfile' = sfile \o SubSeq(pending, 1, k)
    /\ pending' = <<>>
    /\ spc' = "read"
    /\ UNCHANGED <<clientVars, expected_sequence, sread, exists, sexit, got,
                   toServer, toClient>>

\* fwrite writes k bytes only: the child gives up and leaves the partial file.
ServerWriteError(k) ==
    /\ spc = "write"
    /\ k < Len(pending)
    /\ sfile' = sfile \o SubSeq(pending, 1, k)
    /\ pending' = SubSeq(pending, k + 1, Len(pending))
    /\ ServerExit("RUNTIME_ERROR")
    /\ UNCHANGED <<sread, exists, toServer, toClient>>

\* FIN before all bytes came: the file is deleted.
ServerEarlyFin ==
    /\ spc = "read"
    /\ toServer # <<>>
    /\ Head(toServer).cmd = "FIN"
    /\ sread # size
    /\ toServer' = Tail(toServer)
    /\ exists' = FALSE
    /\ ServerExit("BAD_REQUEST")
    /\ UNCHANGED <<sread, pending, sfile, toClient>>

\* Mutant: the number of bytes received is not compared with the size.
ServerFinUnchecked ==
    /\ spc = "read"
    /\ toServer # <<>>
    /\ Head(toServer).cmd = "FIN"
    /\ toServer' = Tail(toServer)
    /\ spc' = "finack"
    /\ UNCHANGED <<clientVars, expected_sequence, sread, pending, sfile, exists,
                   sexit, got, toClient>>

ServerFin ==
    /\ spc = "read"
    /\ toServer # <<>>
    /\ Head(toServer).cmd = "FIN"
    /\ sread = size
    /\ toServer' = Tail(toServer)
    /\ spc' = "finack"
    /\ UNCHANGED <<clientVars, expected_sequence, sread, pending, sfile, exists,
                   sexit, got, toClient>>

\* One turn of the FINACK loop; it takes a packet if there is one, and no
\* client packet is the ACK it waits for.
ServerFinAck ==
    /\ spc = "finack"
    /\ toClient' \in Sent(toClient, create_packet("FINACK", 0, 0, 0, 0))
    /\ \/ UNCHANGED toServer
       \/ toServer # <<>> /\ toServer' = Tail(toServer)
    /\ UNCHANGED <<clientVars, serverVars>>

\* The loop ends after ACK_TIMEOUT seconds, or when nothing was read and the
\* memory malloc returned looks like an ACK; fclose and return.
ServerClose ==
    /\ spc = "finack"
    /\ ServerExit("OK")
    /\ UNCHANGED <<sread, pending, sfile, exists, toServer, toClient>>

-----------------------------------------------------------------------------

\* UDP keeps no order.
ReorderData ==
    /\ "reorderData" \in Faults
    /\ toServer' \in Reordered(toServer)
    /\ UNCHANGED <<clientVars, serverVars, toClient>>

ReorderReplies ==
    /\ "reorderReplies" \in Faults
    /\ toClient' \in Reordered(toClient)
    /\ UNCHANGED <<clientVars, serverVars, toServer>>

Terminated == cpc = "exit" /\ spc = "exit" /\ UNCHANGED vars

ClientStep ==
    \/ ClientFill
    \/ ClientStartSend
    \/ \E i \in 1 .. WINDOW_SIZE : ClientSend(i)
    \/ ClientSendError
    \/ ClientTimeout
    \/ ClientPoll
    \/ ClientRecvNothing
    \/ ClientRecv
    \/ ClientAckPop
    \/ ClientAckDone
    \/ ClientStartFin
    \/ ClientFin
    \/ ClientFinNothing
    \/ ClientFinSkip
    \/ ClientFinAcked
    \/ ClientFinTimeout

ServerStep ==
    \/ ServerTimeout
    \/ ServerWrongData
    \/ ServerData
    \/ ServerWrite
    \/ ServerExcess
    \/ \E k \in 0 .. PAYLOAD_SIZE - 1 : ServerWriteError(k)
    \/ ServerEarlyFin
    \/ ServerFin
    \/ ServerFinAck
    \/ ServerClose

Next == ClientStep \/ ServerStep \/ ReorderData \/ ReorderReplies \/ Terminated

Spec == Init /\ [][Next]_vars

\* With a client that runs out of memory now and then.
SpecMallocFails == Init /\ [][Next \/ ClientFillFails]_vars

(***************************************************************************)
(* Fairness.  Both processes keep running, and                             *)
(*  - a packet sent again and again gets through again and again;          *)
(*  - a datagram under way is eventually read;                             *)
(*  - a clock compared with a deadline again and again with nothing to     *)
(*    reset it passes the deadline: the client's ACK_TIMEOUT when the      *)
(*    child is gone, the child's six seconds when the client is gone and   *)
(*    nothing is left to read, and the two FIN loops.                      *)
(***************************************************************************)
ServerReads == ServerWrongData \/ ServerData \/ ServerWrite \/ ServerExcess
               \/ ServerEarlyFin \/ ServerFin

Fairness ==
    /\ WF_vars(ClientStep)
    /\ WF_vars(ServerReads)
    /\ \A i \in 1 .. WINDOW_SIZE :
           []<><<ClientSend(i)>>_vars => []<><<ClientSend(i) /\ toServer' # toServer>>_vars
    /\ []<><<ServerWrongData>>_vars => []<><<ServerWrongData /\ toClient' # toClient>>_vars
    /\ SF_vars(ClientRecv)
    /\ SF_vars(spc = "exit" /\ ClientTimeout)
    /\ SF_vars(ClientFinTimeout)
    /\ WF_vars(cpc = "exit" /\ toServer = <<>> /\ ServerTimeout)
    /\ WF_vars(ServerClose)

FairSpec == Spec /\ Fairness

-----------------------------------------------------------------------------
(***************************************************************************)
(* Properties.                                                             *)
(***************************************************************************)

TypeOK ==
    /\ cpc \in ClientPCs
    /\ size \in Nat /\ flen \in Nat /\ pos \in 0 .. flen
    /\ read \in Int /\ written \in Nat
    /\ sequence \in 0 .. SEQ_MOD - 1 /\ buffer \in Packets
    /\ packets \in Seq(Packets) /\ Len(packets) <= WINDOW_SIZE
    /\ node \in Nat \ {0}
    /\ cexit \in ExitCodes
    /\ spc \in ServerPCs
    /\ expected_sequence \in 0 .. SEQ_MOD - 1
    /\ sread \in Nat
    /\ pending \in Seq(Nat) /\ sfile \in Seq(Nat)
    /\ exists \in BOOLEAN
    /\ sexit \in ExitCodes
    /\ toServer \in Seq(Packets) /\ toClient \in Seq(Packets)
    /\ made \in Nat /\ got \in Nat

\* Bytes the client takes for acknowledged (and will never send again) have
\* been received: the loop at ftpclient.c:141 removes from the window only
\* packets that the server's expected_sequence has passed.
AckedIsReceived == written <= sread

\* What the server has accepted is the beginning of the client's file, byte
\* for byte: nothing missing, repeated or out of place, although sequence
\* numbers wrap around (ftpserver.c:149-162).
StoredInOrder == sfile \o pending = Source(sread)

\* Once the server tells the client FINACK, and when it exits with status 0,
\* the file is there under its name and is the client's file
\* (ftpserver.c:173-200).
FinAckMeansStored ==
    (\/ spc = "finack" \/ sexit = "OK"
     \/ \E i \in 1 .. Len(toClient) : toClient[i].cmd = "FINACK")
    => exists /\ sfile = Source(size)

\* A file that does not change while it is sent is never deleted as
\* incomplete or too long: a FIN reaches the server only when it has every
\* byte (ftpserver.c:168-178).
NoFalseReject == flen = size => sexit # "BAD_REQUEST"

\* Whenever the window is filled, read is at most size, so the number of
\* bytes asked of fread, a size_t, is not a negative number turned into a
\* huge one, although read also receives the result of read_only_from
\* (ftpclient.c:104-107, 128).
ReadWithinSize == cpc = "loop" => read <= size

\* The empty packets that fill the window past the end of the file
\* (ftpclient.c:102-112) are fewer than a window: the client never creates
\* more packets than the file needs plus WINDOW_SIZE - 1.
PacketBound ==
    flen = size =>
        made <= (size + PAYLOAD_SIZE - 1) \div PAYLOAD_SIZE + WINDOW_SIZE - 1

\* A client that stops with status 0 on a file shorter than its stat size
\* would have announced bytes it never sent: it does not happen
\* (ftpclient.c:100).
ShortFileNeverOK == flen < size => cexit # "OK"

\* A file that can be read to its announced size does not keep either
\* process busy for ever: every lost packet is sent again until it is
\* acknowledged or a deadline passes (ftpclient.c:100-194,
\* ftpserver.c:136-194).
Terminates == <>(cpc = "exit" /\ spc = "exit")

\* What README.md:39-41 calls a successful transfer.
ExitZeroMeansStored ==
    cexit = "OK" /\ spc = "exit" => exists /\ sfile = Source(size)

=============================================================================
