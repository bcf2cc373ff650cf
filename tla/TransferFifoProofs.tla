------------------------- MODULE TransferFifoProofs -------------------------
(***************************************************************************)
(* IInv of TransferInv is an invariant of every transfer over a network    *)
(* that loses and duplicates datagrams but keeps their order, and with it  *)
(* the safety properties of Transfer.                                      *)
(***************************************************************************)
EXTENDS TransferProofs, TransferFileCopy

-----------------------------------------------------------------------------
(***************************************************************************)
(* Which steps change what.                                                *)
(***************************************************************************)

\* The window and the read position change when it is filled and when an ACK
\* removes a packet, and the client is not in the closing phase then.
LEMMA WindowFrame ==
    ASSUME [Next]_vars
    PROVE  \/ ClientFill
           \/ ClientAckPop
           \/ UNCHANGED <<sequence, packets, written, pos, made, size, flen>>
BY Zenon DEF Next, ClientStep, ServerStep, Terminated, vars, clientVars, serverVars,
       ClientFill, ClientStartSend, ClientSend, ClientExit, ClientSendError,
       ClientTimeout, ClientPoll, ClientRecvNothing, ClientRecv, ClientAckPop,
       ClientAckDone, ClientStartFin, ClientFin, ClientFinNothing, ClientFinSkip,
       ClientFinAcked, ClientFinTimeout, ServerExit, ServerTimeout,
       ServerWrongData, ServerData, ServerWrite, ServerExcess, ServerWriteError,
       ServerEarlyFin, ServerFin, ServerFinAck, ServerClose, ReorderData,
       ReorderReplies

\* The file is announced once.
LEMMA SizeFrame ==
    ASSUME [Next]_vars
    PROVE  UNCHANGED <<size, flen>>
BY Zenon, WindowFrame DEF ClientFill, ClientAckPop

\* The server's position changes when it accepts a DATA packet.
LEMMA ProgressFrame ==
    ASSUME [Next]_vars
    PROVE  ServerData \/ UNCHANGED <<got, expected_sequence, sread>>
BY ZenonT(40) DEF Next, ClientStep, ServerStep, Terminated, vars, clientVars, serverVars,
       ClientFill, ClientStartSend, ClientSend, ClientExit, ClientSendError,
       ClientTimeout, ClientPoll, ClientRecvNothing, ClientRecv, ClientAckPop,
       ClientAckDone, ClientStartFin, ClientFin, ClientFinNothing, ClientFinSkip,
       ClientFinAcked, ClientFinTimeout, ServerExit, ServerTimeout,
       ServerWrongData, ServerData, ServerWrite, ServerExcess, ServerWriteError,
       ServerEarlyFin, ServerFin, ServerFinAck, ServerClose, ReorderData,
       ReorderReplies

\* The closing phase is entered by ClientStartFin only and left with status 0.
LEMMA ClosingFrame ==
    ASSUME [Next]_vars
    PROVE  \/ ClientStartFin
           \/ cpc = "ack" /\ UNCHANGED <<cpc, cexit, toServer>>
           \/ /\ UNCHANGED <<written, size>>
              /\ cpc \in {"fin", "finwait"} => cpc' \in {"fin", "finwait"} \/ cexit' = "OK"
              /\ cpc' \in {"fin", "finwait"} => cpc \in {"fin", "finwait"}
              /\ \/ UNCHANGED <<cpc, cexit>>
                 \/ cpc # "exit" /\ UNCHANGED cexit
                 \/ cpc = "send" /\ cpc' = "exit" /\ cexit' # "OK"
                 \/ cpc' = "exit" /\ cpc \in {"fin", "finwait"}
BY ZenonT(40) DEF Next, ClientStep, ServerStep, Terminated, vars, clientVars, serverVars,
       ClientFill, ClientStartSend, ClientSend, ClientExit, ClientSendError,
       ClientTimeout, ClientPoll, ClientRecvNothing, ClientRecv, ClientAckPop,
       ClientAckDone, ClientStartFin, ClientFin, ClientFinNothing, ClientFinSkip,
       ClientFinAcked, ClientFinTimeout, ServerExit, ServerTimeout,
       ServerWrongData, ServerData, ServerWrite, ServerExcess, ServerWriteError,
       ServerEarlyFin, ServerFin, ServerFinAck, ServerClose, ReorderData,
       ReorderReplies

\* The server's file changes in these steps only.
LEMMA FileFrame ==
    ASSUME [Next]_vars
    PROVE  \/ ServerStep
           \/ UNCHANGED <<spc, sread, pending, sfile, exists, sexit, size, flen>>
BY Zenon DEF Next, ClientStep, ServerStep, Terminated, vars, clientVars, serverVars,
       ClientFill, ClientStartSend, ClientSend, ClientExit, ClientSendError,
       ClientTimeout, ClientPoll, ClientRecvNothing, ClientRecv, ClientAckPop,
       ClientAckDone, ClientStartFin, ClientFin, ClientFinNothing, ClientFinSkip,
       ClientFinAcked, ClientFinTimeout, ServerExit, ServerTimeout,
       ServerWrongData, ServerData, ServerWrite, ServerExcess, ServerWriteError,
       ServerEarlyFin, ServerFin, ServerFinAck, ServerClose, ReorderData,
       ReorderReplies

\* Over a network that keeps the order, a datagram to the server is added at
\* the end of the queue and taken at its head.
LEMMA DataFrame ==
    ASSUME [Next]_vars, InOrderNetwork
    PROVE  \/ \E i \in 1 .. WINDOW_SIZE : ClientSend(i)
           \/ ClientStartFin \/ ClientFin
           \/ toServer # <<>> /\ toServer' = Tail(toServer)
           \/ UNCHANGED toServer
BY Zenon DEF Next, ClientStep, ServerStep, Terminated, vars, clientVars, serverVars,
       ClientFill, ClientStartSend, ClientSend, ClientExit, ClientSendError,
       ClientTimeout, ClientPoll, ClientRecvNothing, ClientRecv, ClientAckPop,
       ClientAckDone, ClientStartFin, ClientFin, ClientFinNothing, ClientFinSkip,
       ClientFinAcked, ClientFinTimeout, ServerExit, ServerTimeout,
       ServerWrongData, ServerData, ServerWrite, ServerExcess, ServerWriteError,
       ServerEarlyFin, ServerFin, ServerFinAck, ServerClose, ReorderData,
       ReorderReplies, InOrderNetwork

\* The same for the replies.
LEMMA ReplyFrame ==
    ASSUME [Next]_vars, InOrderNetwork
    PROVE  \/ ServerWrongData
           \/ ServerData
           \/ ServerFinAck
           \/ ClientRecv
           \/ cpc' # "ack" /\ toClient # <<>> /\ toClient' = Tail(toClient)
           \/ cpc' # "ack" /\ UNCHANGED toClient
           \/ UNCHANGED <<cpc, buffer, toClient>>
BY Zenon DEF Next, ClientStep, ServerStep, Terminated, vars, clientVars, serverVars,
       ClientFill, ClientStartSend, ClientSend, ClientExit, ClientSendError,
       ClientTimeout, ClientPoll, ClientRecvNothing, ClientRecv, ClientAckPop,
       ClientAckDone, ClientStartFin, ClientFin, ClientFinNothing, ClientFinSkip,
       ClientFinAcked, ClientFinTimeout, ServerExit, ServerTimeout,
       ServerWrongData, ServerData, ServerWrite, ServerExcess, ServerWriteError,
       ServerEarlyFin, ServerFin, ServerFinAck, ServerClose, ReorderData,
       ReorderReplies, InOrderNetwork

-----------------------------------------------------------------------------
(***************************************************************************)
(* Consequences of the invariant.                                          *)
(***************************************************************************)

\* The numbers the invariant is about.
LEMMA Numbers ==
    ASSUME TypeOK, WindowInv, ProgressInv
    PROVE  /\ Len(packets) \in Nat /\ made \in Nat /\ got \in Nat /\ pos \in Nat
           /\ Base \in Nat /\ made = Base + Len(packets)
           /\ made <= Base + WINDOW_SIZE
           /\ WINDOW_SIZE \in Nat /\ SEQ_MOD \in Nat /\ WINDOW_SIZE < SEQ_MOD
           /\ Base <= got /\ got <= made
<1>1. /\ Len(packets) \in Nat /\ made \in Nat /\ got \in Nat /\ pos \in Nat
      /\ Len(packets) <= WINDOW_SIZE /\ Len(packets) <= made
  BY DEF TypeOK, WindowInv
<1>2. WINDOW_SIZE \in Nat /\ SEQ_MOD \in Nat /\ WINDOW_SIZE < SEQ_MOD
  BY Zenon, WindowAssumption, SeqModAssumption
<1>3. /\ Base \in Nat /\ made = Base + Len(packets)
      /\ made <= Base + WINDOW_SIZE
  BY <1>1, <1>2 DEF Base
<1> QED
  BY Zenon, <1>1, <1>2, <1>3 DEF ProgressInv

\* The packets of the window are packets.
LEMMA WindowTyped ==
    ASSUME TypeOK, NEW i \in 1 .. Len(packets)
    PROVE  /\ packets[i] \in Packets
           /\ packets[i].off \in Nat /\ packets[i].len \in Nat
<1>1. packets[i] \in Packets
  BY DEF TypeOK
<1> QED
  BY Zenon, <1>1 DEF Packets

\* The offsets in terms of the window.
LEMMA OffsetIs ==
    ASSUME TypeOK, WindowInv, ProgressInv
    PROVE  /\ Offset(made + 1) = pos
           /\ \A i \in 1 .. Len(packets) : Offset(Base + i) = packets[i].off
<1>1. Offset(made + 1) = pos
  BY Zenon DEF Offset
<1>2. ASSUME NEW i \in 1 .. Len(packets)
      PROVE  Offset(Base + i) = packets[i].off
  <2>1. Base + i # made + 1 /\ (Base + i) - Base = i
    BY Numbers
  <2> QED
    BY Zenon, <2>1 DEF Offset
<1> QED
  BY Zenon, <1>1, <1>2

\* What the client holds as acknowledged, what the server has, and what was
\* read from the file are in this order.
LEMMA Ordered ==
    ASSUME TypeOK, WindowInv, ProgressInv
    PROVE  written <= sread /\ sread <= pos
<1>1. written <= pos
  <2>1. CASE Len(packets) = 0
    BY <2>1, Numbers, OffsetIs DEF WindowInv
  <2>2. CASE Len(packets) > 0
    <3>1. written = packets[1].off
      BY <2>2, Numbers, OffsetIs DEF WindowInv
    <3>2. packets[1].off + packets[1].len <= pos
      BY <2>2, Numbers DEF WindowInv
    <3>3. packets[1].off \in Nat /\ packets[1].len \in Nat
      BY <2>2, Numbers, WindowTyped
    <3>4. pos \in Nat
      BY Zenon, Numbers
    <3> QED
      BY <3>1, <3>2, <3>3, <3>4
  <2> QED
    BY <2>1, <2>2, Numbers
<1>2. CASE got = made
  BY <1>1, <1>2, Numbers, OffsetIs DEF ProgressInv
<1>3. CASE got < made
  <2>1. PICK j \in 1 .. Len(packets) : got + 1 = Base + j
    <3>1. (got + 1) - Base \in 1 .. Len(packets) /\ got + 1 = Base + ((got + 1) - Base)
      BY <1>3, Numbers
    <3> QED
      BY Zenon, <3>1
  <2>2. sread = packets[j].off
    BY Zenon, <2>1, OffsetIs DEF ProgressInv
  <2>3. written = packets[1].off
    BY <2>1, Numbers, OffsetIs DEF WindowInv
  <2>4. packets[j].off + packets[j].len <= pos
    BY Zenon DEF WindowInv
  <2>5. /\ 1 \in 1 .. Len(packets)
        /\ packets[1].off \in Nat /\ packets[1].len \in Nat
        /\ packets[j].off \in Nat /\ packets[j].len \in Nat
    BY SMTT(40), Numbers, WindowTyped
  <2>6. 1 < j => packets[1].off + packets[1].len <= packets[j].off
    BY Zenon, <2>5 DEF WindowInv
  <2>7. packets[1].off <= packets[j].off
    <3>1. CASE j = 1
      BY <2>5, <3>1
    <3>2. CASE 1 < j
      BY SMTT(40), <2>5, <2>6, <3>2
    <3> QED
      BY <3>1, <3>2
  <2>8. pos \in Nat
    BY Zenon, Numbers
  <2>9. packets[j].off <= pos
    BY <2>4, <2>5, <2>8
  <2> QED
    BY Zenon, <2>2, <2>3, <2>7, <2>9
<1> QED
  BY <1>2, <1>3, Numbers

\* The DATA packet the server accepts is the one the invariant expects: no
\* other packet under way has its sequence number.
LEMMA AcceptedIs ==
    ASSUME TypeOK, WindowInv, ProgressInv, DataInv, ServerData
    PROVE  /\ got < made
           /\ toServer[1].n = got + 1
           /\ toServer[1] = packets[got + 1 - Base]
           /\ sread = toServer[1].off
           /\ sread + toServer[1].len = Offset(got + 2)
<1> DEFINE h == toServer[1]
<1>1. /\ toServer \in Seq(Packets) /\ Len(toServer) > 0
      /\ Head(toServer) = h /\ h \in Packets
  BY ZenonT(40), TailIs DEF ServerData, TypeOK
<1>2. h.cmd = "DATA" /\ h.seq = SeqOf(got + 1)
  BY Zenon, <1>1 DEF ServerData, ProgressInv
<1>3. /\ h.n \in 1 .. made
      /\ h.seq = SeqOf(h.n)
      /\ h.n > Base => h = packets[h.n - Base]
      /\ got < h.n + WINDOW_SIZE
  BY <1>1, <1>2 DEF DataInv, DataOK
<1> HIDE DEF h
<1>4. h.n = got + 1
  <2>1. h.n \in Nat /\ got + 1 \in Nat
    BY SMTT(40), <1>3, Numbers
  <2>2. h.n < (got + 1) + SEQ_MOD /\ got + 1 < h.n + SEQ_MOD
    BY SMTT(40), <1>3, Numbers
  <2> QED
    BY Zenon, <1>2, <1>3, <2>1, <2>2, SeqInj
<1>5. got < made /\ h = packets[got + 1 - Base]
  <2>1. got < made /\ h.n > Base
    BY SMTT(40), <1>3, <1>4, Numbers
  <2>2. h = packets[h.n - Base]
    BY Zenon, <1>3, <2>1
  <2>3. h = packets[got + 1 - Base]
    <3>1. h.n - Base = got + 1 - Base
      BY <1>4, Numbers
    <3> QED
      BY Zenon, <2>2, <3>1, Zenon
  <2> QED
    BY Zenon, <2>1, <2>3
<1>6. sread = h.off
  BY SMTT(40), <1>5, Numbers DEF ProgressInv, Offset
<1>7. h.off + h.len = Offset(got + 2)
  <2> DEFINE i == got + 1 - Base
  <2>1. got < made
    BY Zenon, <1>5
  <2>2. i \in 1 .. Len(packets) /\ Base + i + 1 = got + 2
    BY SMTT(40), <2>1, Numbers
  <2>3. h = packets[i]
    BY Zenon, <1>5
  <2> HIDE DEF i
  <2>4. packets[i].off + packets[i].len = Offset(Base + i + 1)
    BY Zenon, <2>2 DEF WindowInv
  <2> QED
    BY Zenon, <2>2, <2>3, <2>4
<1> QED
  BY Zenon, <1>4, <1>5, <1>6, <1>7 DEF h

\* An ACK removes a packet only if the server has it.
LEMMA PoppedIs ==
    ASSUME TypeOK, WindowInv, ProgressInv, AckInv, ClientAckPop
    PROVE  /\ packets # <<>> /\ Len(packets) > 0
           /\ buffer.n \in Nat
           /\ Base + 2 <= buffer.n
           /\ Base + 1 <= got
<1>1. /\ packets # <<>>
      /\ packets[1].seq # buffer.seq
      /\ cpc = "ack"
  BY Zenon DEF ClientAckPop, AckDone, AckStops
<1>2. Len(packets) > 0
  BY Zenon, <1>1, TailIs DEF TypeOK
<1>3. packets[1].seq = SeqOf(Base + 1)
  BY <1>2, Numbers DEF WindowInv
<1>4. buffer.n \in Base + 1 .. got + 1 /\ buffer.seq = SeqOf(buffer.n)
  BY Zenon, <1>1 DEF AckInv
<1>5. buffer.n # Base + 1
  BY Zenon, <1>1, <1>3, <1>4
<1>6. Base \in Nat /\ got \in Nat
  BY Zenon, Numbers
<1> QED
  BY <1>1, <1>2, <1>4, <1>5, <1>6

-----------------------------------------------------------------------------
(***************************************************************************)
(* The window.                                                             *)
(***************************************************************************)

\* Filling the window: a packet behind the others.
LEMMA FillIs ==
    ASSUME TypeOK, ReadWithinSize, WindowInv, ProgressInv, ClientFill
    PROVE  /\ Base' = Base /\ made' = made + 1
           /\ Len(packets') = Len(packets) + 1
           /\ \A i \in 1 .. Len(packets) : packets'[i] = packets[i]
           /\ packets'[Len(packets) + 1] = create_packet("DATA", sequence, Chunk, pos, made + 1)
           /\ pos' = pos + Chunk /\ Chunk \in Nat
           /\ Offset(made + 1)' = pos'
           /\ \A k \in Base + 1 .. made + 1 : Offset(k)' = Offset(k)
<1>1. Chunk \in Nat
  BY Zenon, ChunkBounds DEF ReadWithinSize, ClientFill
<1> HIDE DEF Chunk
<1>2. made' = made + 1 /\ pos' = pos + Chunk
  BY Zenon DEF ClientFill
<1> DEFINE p == create_packet("DATA", sequence, Chunk, pos, made + 1)
<1>3. packets' = Append(packets, p) /\ packets \in Seq(Packets)
  BY Zenon DEF ClientFill, TypeOK
<1>4. p \in Packets
  BY <1>1, CommandTyped DEF TypeOK, Commands
<1> HIDE DEF p
<1>5. /\ Len(packets') = Len(packets) + 1
      /\ \A i \in 1 .. Len(packets) : packets'[i] = packets[i]
      /\ packets'[Len(packets) + 1] = p
  BY <1>3, <1>4
<1>6. Base' = Base
  <2>1. made \in Nat /\ Len(packets) \in Nat
    BY Zenon, Numbers
  <2> QED
    BY <1>2, <1>5, <2>1 DEF Base
<1>7. Offset(made + 1)' = pos'
  BY Zenon DEF Offset
<1>8. ASSUME NEW k \in Base + 1 .. made + 1
      PROVE  Offset(k)' = Offset(k)
  <2>1. Offset(k)' = packets'[k - Base].off
    <3>1. k # made' + 1
      BY <1>2, Numbers
    <3> QED
      BY Zenon, <1>6, <3>1 DEF Offset
  <2>2. CASE k = made + 1
    <3>1. k - Base = Len(packets) + 1
      BY SMTT(40), <2>2, Numbers
    <3>2. p.off = pos
      BY Zenon DEF p, create_packet
    <3>3. Offset(k) = pos
      BY Zenon, <2>2 DEF Offset
    <3>4. packets'[k - Base] = p
      BY Zenon, <1>5, <3>1
    <3> QED
      BY Zenon, <2>1, <3>2, <3>3, <3>4
  <2>3. CASE k # made + 1
    <3>1. /\ made \in Nat /\ Base \in Nat /\ Len(packets) \in Nat
          /\ made = Base + Len(packets)
      BY Zenon, Numbers
    <3>2. k - Base \in 1 .. Len(packets)
      BY <2>3, <3>1
    <3> QED
      BY Zenon, <1>5, <2>1, <2>3, <3>2 DEF Offset
  <2> QED
    BY Zenon, <2>2, <2>3
<1> QED
  BY Zenon, <1>1, <1>2, <1>5, <1>6, <1>7, <1>8 DEF p

\* Removing the first packet of the window.
LEMMA PopIs ==
    ASSUME TypeOK, WindowInv, ProgressInv, AckInv, ClientAckPop
    PROVE  /\ Base' = Base + 1 /\ made' = made /\ pos' = pos
           /\ Len(packets') = Len(packets) - 1
           /\ \A i \in 1 .. Len(packets) - 1 : packets'[i] = packets[i + 1]
           /\ written' = Offset(Base + 2)
           /\ \A k \in Base + 2 .. made + 1 : Offset(k)' = Offset(k)
<1>1. /\ made' = made /\ pos' = pos
      /\ packets' = Tail(packets)
      /\ written' = written + packets[1].len
  BY Zenon DEF ClientAckPop
<1>2. /\ Len(packets) > 0
      /\ Len(packets') = Len(packets) - 1
      /\ \A i \in 1 .. Len(packets) - 1 : packets'[i] = packets[i + 1]
  BY Zenon, <1>1, PoppedIs, TailIs DEF TypeOK
<1>3. Base' = Base + 1
  BY <1>1, <1>2, Numbers DEF Base
<1>4. written' = Offset(Base + 2)
  <2>1. 1 \in 1 .. Len(packets) /\ Base + 1 + 1 = Base + 2
    BY <1>2, Numbers
  <2>2. packets[1].off + packets[1].len = Offset(Base + 1 + 1)
    BY Zenon, <2>1 DEF WindowInv
  <2>3. written = packets[1].off
    BY Zenon, <2>1, OffsetIs DEF WindowInv
  <2> QED
    BY Zenon, <1>1, <2>1, <2>2, <2>3
<1>5. ASSUME NEW k \in Base + 2 .. made + 1
      PROVE  Offset(k)' = Offset(k)
  <2>1. CASE k = made + 1
    BY Zenon, <1>1, <2>1 DEF Offset
  <2>2. CASE k # made + 1
    <3>1. /\ Base \in Nat /\ Len(packets) \in Nat
          /\ made \in Nat /\ made = Base + Len(packets)
      BY Zenon, Numbers
    <3>2. /\ k - (Base + 1) \in 1 .. Len(packets) - 1
          /\ (k - (Base + 1)) + 1 = k - Base
      BY <2>2, <3>1
    <3>3. packets'[k - (Base + 1)] = packets[k - Base]
      BY Zenon, <1>2, <3>2
    <3>4. Offset(k)' = packets'[k - (Base + 1)].off
      BY Zenon, <1>1, <1>3, <2>2 DEF Offset
    <3> QED
      BY Zenon, <2>2, <3>3, <3>4 DEF Offset
  <2> QED
    BY Zenon, <2>1, <2>2
<1> QED
  BY Zenon, <1>1, <1>2, <1>3, <1>4, <1>5

LEMMA WindowStep ==
    ASSUME IInv, [Next]_vars
    PROVE  WindowInv'
<1>1. TypeOK /\ ReadWithinSize /\ WindowInv /\ ProgressInv /\ AckInv
  BY Zenon DEF IInv
<1>2. CASE ClientFill
  <2> DEFINE p == create_packet("DATA", sequence, Chunk, pos, made + 1)
             m == Len(packets)
  <2>1. /\ Base' = Base /\ made' = made + 1
        /\ Len(packets') = m + 1
        /\ packets'[m + 1] = p
        /\ pos' = pos + Chunk /\ Chunk \in Nat
        /\ Offset(made + 1)' = pos'
        /\ sequence' = NextSeq(sequence) /\ written' = written
    BY Zenon, <1>1, <1>2, FillIs DEF ClientFill
  <2>2. /\ \A i \in 1 .. m : packets'[i] = packets[i]
        /\ \A k \in Base + 1 .. made + 1 : Offset(k)' = Offset(k)
    BY Zenon, <1>1, <1>2, FillIs
  <2>3. /\ p.cmd = "DATA" /\ p.seq = sequence /\ p.len = Chunk /\ p.off = pos
        /\ p.n = made + 1
    BY Zenon DEF create_packet
  <2> HIDE DEF p, Chunk
  <2>4. /\ m \in Nat /\ made \in Nat /\ Base \in Nat /\ made = Base + m /\ pos \in Nat
    BY Zenon, <1>1, Numbers
  <2> HIDE DEF m
  <2>5. sequence = SeqOf(made + 1) /\ written = Offset(Base + 1)
    BY Zenon, <1>1 DEF WindowInv
  <2>6. sequence' = SeqOf(made' + 1)
    <3>1. NextSeq(SeqOf(made + 1)) = SeqOf((made + 1) + 1)
      BY <2>4, SeqSucc
    <3> QED
      BY Zenon, <2>1, <2>5, <3>1
  <2>7. written' = Offset(Base + 1)'
    <3>1. Base + 1 \in Base + 1 .. made + 1
      BY <2>4
    <3> QED
      BY Zenon, <2>1, <2>2, <2>5, <3>1
  <2>8. ASSUME NEW i \in 1 .. m + 1
        PROVE  (/\ packets[i].cmd = "DATA"
                /\ packets[i].n = Base + i
                /\ packets[i].seq = SeqOf(Base + i)
                /\ packets[i].off + packets[i].len = Offset(Base + i + 1)
                /\ packets[i].off + packets[i].len <= pos)'
    <3>1. CASE i = m + 1
      <4>1. Base + i = made + 1 /\ Base + i + 1 = made' + 1
        BY <2>1, <2>4, <3>1
      <4>2. packets'[i] = p
        BY Zenon, <2>1, <3>1
      <4>3. p.off + p.len = pos' /\ p.off + p.len <= pos'
        BY <2>1, <2>3, <2>4
      <4> QED
        BY Zenon, <2>1, <2>3, <2>5, <4>1, <4>2, <4>3
    <3>2. CASE i \in 1 .. m
      <4>1. /\ packets[i].cmd = "DATA"
            /\ packets[i].n = Base + i
            /\ packets[i].seq = SeqOf(Base + i)
            /\ packets[i].off + packets[i].len = Offset(Base + i + 1)
            /\ packets[i].off + packets[i].len <= pos
        BY Zenon, <1>1, <3>2 DEF WindowInv, m
      <4>2. packets[i].off \in Nat /\ packets[i].len \in Nat
        BY Zenon, <1>1, <3>2, WindowTyped DEF m
      <4>3. packets[i].off + packets[i].len <= pos'
        BY SMTT(40), <2>1, <2>4, <4>1, <4>2
      <4>4. Base + i + 1 \in Base + 1 .. made + 1
        BY <2>4, <3>2
      <4>5. packets'[i] = packets[i]
        BY Zenon, <2>2, <3>2
      <4> QED
        BY Zenon, <2>1, <2>2, <4>1, <4>3, <4>4, <4>5
    <3> QED
      BY <2>4, <3>1, <3>2
  <2>9. ASSUME NEW i \in 1 .. m + 1, NEW j \in 1 .. m + 1, i < j
        PROVE  (packets[i].off + packets[i].len <= packets[j].off)'
    <3>1. i \in 1 .. m /\ packets'[i] = packets[i]
      BY <2>2, <2>4, <2>9
    <3>2. CASE j = m + 1
      BY Zenon, <1>1, <2>1, <2>3, <3>1, <3>2 DEF WindowInv, m
    <3>3. CASE j \in 1 .. m
      BY Zenon, <1>1, <2>2, <2>9, <3>1, <3>3 DEF WindowInv, m
    <3> QED
      BY <2>4, <3>2, <3>3
  <2>10. (Len(packets) <= made)'
    BY <2>1, <2>4
  <2> QED
    BY Zenon, <2>1, <2>6, <2>7, <2>8, <2>9, <2>10 DEF WindowInv
<1>3. CASE ClientAckPop
  <2> DEFINE m == Len(packets)
  <2>1. /\ Base' = Base + 1 /\ made' = made /\ pos' = pos
        /\ Len(packets') = m - 1
        /\ written' = Offset(Base + 2)
        /\ sequence' = sequence
    BY Zenon, <1>1, <1>3, PopIs DEF ClientAckPop
  <2>2. /\ \A i \in 1 .. m - 1 : packets'[i] = packets[i + 1]
        /\ \A k \in Base + 2 .. made + 1 : Offset(k)' = Offset(k)
    BY Zenon, <1>1, <1>3, PopIs
  <2>3. /\ m \in Nat /\ made \in Nat /\ Base \in Nat /\ made = Base + m /\ pos \in Nat
        /\ m > 0
    BY Zenon, <1>1, <1>3, Numbers, PoppedIs
  <2>4. /\ sequence = SeqOf(made + 1)
        /\ \A i \in 1 .. m :
               /\ packets[i].cmd = "DATA"
               /\ packets[i].n = Base + i
               /\ packets[i].seq = SeqOf(Base + i)
               /\ packets[i].off + packets[i].len = Offset(Base + i + 1)
               /\ packets[i].off + packets[i].len <= pos
        /\ \A i, j \in 1 .. m : i < j =>
               packets[i].off + packets[i].len <= packets[j].off
    BY Zenon, <1>1 DEF WindowInv
  <2> HIDE DEF m
  <2>5. written' = Offset(Base + 1)'
    <3>1. Base' + 1 = Base + 2 /\ Base + 2 \in Base + 2 .. made + 1
      BY <2>1, <2>3
    <3> QED
      BY Zenon, <2>1, <2>2, <3>1
  <2>6. ASSUME NEW i \in 1 .. m - 1
        PROVE  (/\ packets[i].cmd = "DATA"
                /\ packets[i].n = Base + i
                /\ packets[i].seq = SeqOf(Base + i)
                /\ packets[i].off + packets[i].len = Offset(Base + i + 1)
                /\ packets[i].off + packets[i].len <= pos)'
    <3>1. /\ i + 1 \in 1 .. m /\ Base' + i = Base + (i + 1)
          /\ Base' + i + 1 = Base + (i + 1) + 1
          /\ Base + (i + 1) + 1 \in Base + 2 .. made + 1
      BY <2>1, <2>3
    <3>2. packets'[i] = packets[i + 1]
      BY Zenon, <2>2
    <3> QED
      BY ZenonT(40), <2>1, <2>2, <2>4, <3>1, <3>2
  <2>7. ASSUME NEW i \in 1 .. m - 1, NEW j \in 1 .. m - 1, i < j
        PROVE  (packets[i].off + packets[i].len <= packets[j].off)'
    <3>1. i + 1 \in 1 .. m /\ j + 1 \in 1 .. m /\ i + 1 < j + 1
      BY <2>3, <2>7
    <3>2. packets'[i] = packets[i + 1] /\ packets'[j] = packets[j + 1]
      BY Zenon, <2>2
    <3> QED
      BY Zenon, <2>4, <3>1, <3>2
  <2>8. (Len(packets) <= made)'
    BY <2>1, <2>3
  <2> QED
    BY Zenon, <2>1, <2>4, <2>5, <2>6, <2>7, <2>8 DEF WindowInv
<1>4. CASE UNCHANGED <<sequence, packets, written, pos, made>>
  BY Zenon, <1>1, <1>4 DEF WindowInv, Base, Offset
<1> QED
  BY Zenon, <1>2, <1>3, <1>4, WindowFrame

-----------------------------------------------------------------------------
(***************************************************************************)
(* The server's position.                                                  *)
(***************************************************************************)

LEMMA ProgressStep ==
    ASSUME IInv, [Next]_vars
    PROVE  ProgressInv'
<1>1. /\ TypeOK /\ ReadWithinSize /\ WindowInv /\ ProgressInv /\ AckInv
      /\ DataInv
  BY Zenon DEF IInv
<1>2. /\ made \in Nat /\ got \in Nat /\ Base \in Nat
      /\ Base <= got /\ got <= made
      /\ expected_sequence = SeqOf(got + 1)
      /\ sread = Offset(got + 1)
  BY Zenon, <1>1, Numbers DEF ProgressInv
<1>3. CASE ServerData
  <2>1. UNCHANGED <<packets, made, pos>>
    BY Zenon, <1>3 DEF ServerData, clientVars
  <2>2. got' = got + 1 /\ got < made
    BY Zenon, <1>1, <1>3, AcceptedIs DEF ServerData
  <2>3. expected_sequence' = SeqOf(got + 2)
    BY <1>2, <1>3, SeqSucc DEF ServerData
  <2>4. sread' = Offset(got + 2)
    <3>1. Head(toServer) = toServer[1]
      BY Zenon, <1>1, <1>3, TailIs DEF ServerData, TypeOK
    <3> QED
      BY Zenon, <1>1, <1>3, <3>1, AcceptedIs DEF ServerData
  <2>5. Base' = Base
    BY Zenon, <2>1 DEF Base
  <2>6. got' + 1 = got + 2
    BY <1>2, <2>2
  <2>7. sread' = Offset(got + 1)'
    BY Zenon, <2>1, <2>4, <2>5, <2>6 DEF Offset
  <2> QED
    BY <1>2, <2>1, <2>2, <2>3, <2>5, <2>6, <2>7 DEF ProgressInv
<1>4. CASE ClientFill
  <2>1. UNCHANGED <<got, expected_sequence, sread>>
    BY Zenon, <1>4 DEF ClientFill, serverVars
  <2>2. Base' = Base /\ made' = made + 1
    BY Zenon, <1>1, <1>4, FillIs
  <2>3. got + 1 \in Base + 1 .. made + 1
    BY <1>2
  <2>4. Offset(got + 1)' = Offset(got + 1)
    BY Zenon, <1>1, <1>4, <2>1, <2>3, FillIs
  <2> QED
    BY <1>2, <2>1, <2>2, <2>4 DEF ProgressInv
<1>5. CASE ClientAckPop
  <2>1. UNCHANGED <<got, expected_sequence, sread>>
    BY Zenon, <1>5 DEF ClientAckPop, serverVars
  <2>2. Base' = Base + 1 /\ made' = made /\ Base + 1 <= got
    BY Zenon, <1>1, <1>5, PopIs, PoppedIs
  <2>3. got + 1 \in Base + 2 .. made + 1
    BY <1>2, <2>2
  <2>4. Offset(got + 1)' = Offset(got + 1)
    BY Zenon, <1>1, <1>5, <2>1, <2>3, PopIs
  <2> QED
    BY Zenon, <1>2, <2>1, <2>2, <2>4 DEF ProgressInv
<1>6. CASE UNCHANGED <<packets, pos, made, got, expected_sequence, sread>>
  BY Zenon, <1>1, <1>6 DEF ProgressInv, Base, Offset
<1> QED
  BY Zenon, <1>3, <1>4, <1>5, <1>6, WindowFrame, ProgressFrame

-----------------------------------------------------------------------------
(***************************************************************************)
(* DATA packets under way.                                                 *)
(***************************************************************************)

\* A packet that was right stays right when the window moves.
LEMMA DataStays ==
    ASSUME IInv, [Next]_vars, NEW p \in Packets, DataOK(p)
    PROVE  DataOK(p)'
<1>1. TypeOK /\ ReadWithinSize /\ WindowInv /\ ProgressInv /\ AckInv
  BY Zenon DEF IInv
<1>2. /\ p.n \in 1 .. made /\ p.seq = SeqOf(p.n)
      /\ p.n > Base => p = packets[p.n - Base]
  BY Zenon DEF DataOK
<1>3. made \in Nat /\ Base \in Nat /\ Len(packets) \in Nat /\ made = Base + Len(packets)
  BY Zenon, <1>1, Numbers
<1>4. CASE ClientFill
  <2>1. Base' = Base /\ made' = made + 1
    BY Zenon, <1>1, <1>4, FillIs
  <2>2. ASSUME p.n > Base
        PROVE  p = packets'[p.n - Base]
    <3>1. p.n - Base \in 1 .. Len(packets)
      BY <1>2, <1>3, <2>2
    <3> QED
      BY Zenon, <1>1, <1>2, <1>4, <2>2, <3>1, FillIs
  <2> QED
    BY <1>2, <1>3, <2>1, <2>2 DEF DataOK
<1>5. CASE ClientAckPop
  <2>1. Base' = Base + 1 /\ made' = made
    BY Zenon, <1>1, <1>5, PopIs
  <2>2. ASSUME p.n > Base + 1
        PROVE  p = packets'[p.n - (Base + 1)]
    <3>1. /\ p.n - (Base + 1) \in 1 .. Len(packets) - 1
          /\ (p.n - (Base + 1)) + 1 = p.n - Base
          /\ p.n > Base
      BY SMTT(40), <1>2, <1>3, <2>2
    <3> QED
      BY Zenon, <1>1, <1>2, <1>5, <3>1, PopIs
  <2> QED
    BY Zenon, <1>2, <2>1, <2>2 DEF DataOK
<1>6. CASE UNCHANGED <<packets, made>>
  BY Zenon, <1>2, <1>6 DEF DataOK, Base
<1> QED
  BY Zenon, <1>4, <1>5, <1>6, WindowFrame

LEMMA DataStep ==
    ASSUME IInv, [Next]_vars, InOrderNetwork, TypeOK'
    PROVE  DataInv'
<1>1. TypeOK /\ WindowInv /\ ProgressInv /\ DataInv
  BY Zenon DEF IInv
<1>2. /\ made \in Nat /\ Base \in Nat /\ got \in Nat /\ Len(packets) \in Nat
      /\ made = Base + Len(packets)
      /\ made <= Base + WINDOW_SIZE /\ got <= made /\ WINDOW_SIZE \in Nat
  BY Zenon, <1>1, Numbers
<1>3. /\ toServer \in Seq(Packets) /\ toServer' \in Seq(Packets)
      /\ Len(toServer) \in Nat /\ Len(toServer') \in Nat
      /\ \A j \in 1 .. Len(toServer) : toServer[j] \in Packets
  <2>1. toServer \in Seq(Packets)
    BY Zenon, <1>1 DEF TypeOK
  <2>2. toServer' \in Seq(Packets)
    BY Zenon DEF TypeOK
  <2> QED
    BY <2>1, <2>2
<1>4. \A j \in 1 .. Len(toServer) : toServer[j].cmd = "DATA" =>
         /\ DataOK(toServer[j])
         /\ got < toServer[j].n + WINDOW_SIZE
         /\ \A i \in 1 .. j - 1 : toServer[i].cmd = "DATA" =>
                toServer[i].n < toServer[j].n + WINDOW_SIZE
  BY Zenon, <1>1 DEF DataInv
<1>5. ASSUME NEW i \in 1 .. WINDOW_SIZE, ClientSend(i)
      PROVE  DataInv'
  <2>1. /\ toServer' \in Sent(toServer, packets[i])
        /\ i \in 1 .. Len(packets)
        /\ UNCHANGED <<made, packets, got>>
    BY <1>2, <1>5 DEF ClientSend, serverVars
  <2>2. packets[i] \in Packets
    BY Zenon, <1>1, <2>1, WindowTyped
  <2>3. /\ Len(toServer) <= Len(toServer')
        /\ \A k \in 1 .. Len(toServer) : toServer'[k] = toServer[k]
        /\ \A k \in Len(toServer) + 1 .. Len(toServer') : toServer'[k] = packets[i]
    BY <1>3, <2>1, <2>2, SentIs
  <2>4. packets[i].n = Base + i /\ packets[i].seq = SeqOf(Base + i)
    BY Zenon, <1>1, <2>1 DEF WindowInv
  <2>5. DataOK(packets[i])
    <3>1. Base + i \in 1 .. made /\ (Base + i) - Base = i
      BY <1>2, <2>1
    <3> QED
      BY Zenon, <2>4, <3>1 DEF DataOK
  <2>6. ASSUME NEW j \in 1 .. Len(toServer'), toServer'[j].cmd = "DATA"
        PROVE  /\ DataOK(toServer'[j])
               /\ got < toServer'[j].n + WINDOW_SIZE
               /\ toServer'[j].n <= made
               /\ \A k \in 1 .. j - 1 : toServer'[k].cmd = "DATA" =>
                      toServer'[k].n < toServer'[j].n + WINDOW_SIZE
    <3>1. CASE j \in 1 .. Len(toServer)
      <4>1. \A k \in 1 .. j : toServer'[k] = toServer[k]
        BY <1>3, <2>3, <3>1
      <4>2. DataOK(toServer[j]) /\ toServer[j].cmd = "DATA"
        BY <1>4, <2>6, <3>1, <4>1
      <4>3. toServer[j].n <= made
        BY <1>2, <4>2 DEF DataOK
      <4>4. /\ got < toServer[j].n + WINDOW_SIZE
            /\ \A k \in 1 .. j - 1 : toServer[k].cmd = "DATA" =>
                   toServer[k].n < toServer[j].n + WINDOW_SIZE
        BY Zenon, <1>4, <3>1, <4>2
      <4>5. toServer'[j] = toServer[j] /\ \A k \in 1 .. j - 1 : toServer'[k] = toServer[k]
        BY <1>3, <3>1, <4>1
      <4> QED
        BY Zenon, <4>2, <4>3, <4>4, <4>5
    <3>2. CASE j \in Len(toServer) + 1 .. Len(toServer')
      <4>1. toServer'[j] = packets[i]
        BY Zenon, <2>3, <3>2
      <4>2. got < (Base + i) + WINDOW_SIZE /\ made < (Base + i) + WINDOW_SIZE /\ Base + i <= made
        BY <1>2, <2>1
      <4>3. ASSUME NEW k \in 1 .. j - 1, toServer'[k].cmd = "DATA"
            PROVE  toServer'[k].n < (Base + i) + WINDOW_SIZE
        <5>1. CASE k \in 1 .. Len(toServer)
          <6>1. toServer'[k] = toServer[k] /\ DataOK(toServer[k])
            BY Zenon, <1>4, <2>3, <4>3, <5>1
          <6>2. toServer[k].n <= made /\ toServer[k].n \in Nat
            BY <1>2, <6>1 DEF DataOK
          <6>3. toServer[k].n < (Base + i) + WINDOW_SIZE
            BY SMTT(40), <1>2, <2>1, <4>2, <6>2
          <6> QED
            BY Zenon, <6>1, <6>3
        <5>2. CASE k \in Len(toServer) + 1 .. Len(toServer')
          <6>1. toServer'[k] = packets[i]
            BY Zenon, <2>3, <5>2
          <6> QED
            BY <1>2, <2>1, <2>4, <6>1
        <5> QED
          BY <1>3, <3>2, <5>1, <5>2
      <4> QED
        BY Zenon, <2>4, <2>5, <4>1, <4>2, <4>3
    <3> QED
      BY <1>3, <2>3, <3>1, <3>2
  <2>7. ASSUME NEW j \in 1 .. Len(toServer'), toServer'[j].cmd = "DATA"
        PROVE  DataOK(toServer[j])'
    BY Zenon, <2>1, <2>6, <2>7 DEF DataOK, Base
  <2> QED
    BY Zenon, <2>1, <2>6, <2>7 DEF DataInv
<1>6. CASE ClientStartFin \/ ClientFin
  <2> DEFINE f == create_packet("FIN", 0, 0, 0, 0)
  <2>1. toServer' \in Sent(toServer, f) /\ UNCHANGED <<made, packets, got>>
    BY Zenon, <1>6 DEF ClientStartFin, ClientFin, SendFin, serverVars
  <2>2. f \in Packets /\ f.cmd = "FIN"
    BY CommandTyped, SeqModAssumption DEF Commands, create_packet
  <2> HIDE DEF f
  <2>3. /\ Len(toServer) <= Len(toServer')
        /\ \A k \in 1 .. Len(toServer) : toServer'[k] = toServer[k]
        /\ \A k \in Len(toServer) + 1 .. Len(toServer') : toServer'[k] = f
    BY <1>3, <2>1, <2>2, SentIs
  <2>4. ASSUME NEW j \in 1 .. Len(toServer'), toServer'[j].cmd = "DATA"
        PROVE  /\ DataOK(toServer'[j])
               /\ got < toServer'[j].n + WINDOW_SIZE
               /\ \A k \in 1 .. j - 1 : toServer'[k].cmd = "DATA" =>
                      toServer'[k].n < toServer'[j].n + WINDOW_SIZE
    <3>1. j \in 1 .. Len(toServer)
      BY <1>3, <2>2, <2>3, <2>4
    <3>2. \A k \in 1 .. j : toServer'[k] = toServer[k]
      BY <1>3, <2>3, <3>1
    <3> QED
      BY <1>4, <2>4, <3>1, <3>2
  <2>5. ASSUME NEW j \in 1 .. Len(toServer'), toServer'[j].cmd = "DATA"
        PROVE  DataOK(toServer[j])'
    BY Zenon, <2>1, <2>4, <2>5 DEF DataOK, Base
  <2> QED
    BY Zenon, <2>1, <2>4, <2>5 DEF DataInv
<1>7. CASE toServer # <<>> /\ toServer' = Tail(toServer)
  <2>1. /\ Len(toServer) > 0
        /\ Len(toServer') = Len(toServer) - 1
        /\ \A j \in 1 .. Len(toServer) - 1 : toServer'[j] = toServer[j + 1]
        /\ Head(toServer) = toServer[1]
    BY Zenon, <1>3, <1>7, TailIs
  <2>2. ASSUME NEW j \in 1 .. Len(toServer'), toServer'[j].cmd = "DATA"
        PROVE  /\ DataOK(toServer[j])'
               /\ got' < toServer'[j].n + WINDOW_SIZE
               /\ \A k \in 1 .. j - 1 : toServer'[k].cmd = "DATA" =>
                      toServer'[k].n < toServer'[j].n + WINDOW_SIZE
    <3>1. /\ j + 1 \in 1 .. Len(toServer) /\ 1 \in 1 .. (j + 1) - 1
          /\ \A k \in 1 .. j : toServer'[k] = toServer[k + 1]
      BY <1>3, <2>1
    <3>2. toServer'[j] = toServer[j + 1] /\ toServer[j + 1].cmd = "DATA"
      BY <2>2, <3>1
    <3>3. /\ DataOK(toServer[j + 1])
          /\ got < toServer[j + 1].n + WINDOW_SIZE
          /\ \A k \in 1 .. (j + 1) - 1 : toServer[k].cmd = "DATA" =>
                 toServer[k].n < toServer[j + 1].n + WINDOW_SIZE
      BY Zenon, <1>4, <3>1, <3>2
    <3>4. DataOK(toServer[j])'
      <4> DEFINE p == toServer[j + 1]
      <4>1. PICK q \in Packets : q = p
        BY Zenon, <1>3, <3>1
      <4>2. DataOK(q)'
        BY Zenon, <3>3, <4>1, DataStays
      <4> QED
        BY Zenon, <3>2, <4>1, <4>2 DEF DataOK
    <3>5. got' < toServer'[j].n + WINDOW_SIZE
      <4>1. CASE ServerData
        <5>1. got' = got + 1 /\ toServer[1].n = got + 1
          BY Zenon, <1>1, <4>1, AcceptedIs DEF ServerData
        <5>2. toServer[1].cmd = "DATA"
          BY Zenon, <2>1, <4>1 DEF ServerData
        <5> QED
          BY Zenon, <3>1, <3>2, <3>3, <5>1, <5>2
      <4>2. CASE got' = got
        BY Zenon, <3>2, <3>3, <4>2
      <4> QED
        BY Zenon, <4>1, <4>2, ProgressFrame
    <3>6. ASSUME NEW k \in 1 .. j - 1, toServer'[k].cmd = "DATA"
          PROVE  toServer'[k].n < toServer'[j].n + WINDOW_SIZE
      <4>1. k + 1 \in 1 .. (j + 1) - 1 /\ toServer'[k] = toServer[k + 1]
        BY <3>1
      <4> QED
        BY Zenon, <3>2, <3>3, <3>6, <4>1
    <3> QED
      BY Zenon, <3>4, <3>5, <3>6
  <2> QED
    BY Zenon, <2>2 DEF DataInv
<1>8. CASE UNCHANGED toServer
  <2>1. got' = got
    <3>1. ~ServerData
      BY <1>3, <1>8, TailIs DEF ServerData
    <3> QED
      BY Zenon, <3>1, ProgressFrame
  <2>2. ASSUME NEW j \in 1 .. Len(toServer), toServer[j].cmd = "DATA"
        PROVE  DataOK(toServer[j])'
    <3>1. PICK q \in Packets : q = toServer[j]
      BY Zenon, <1>3
    <3>2. DataOK(q)'
      BY Zenon, <1>4, <2>2, <3>1, DataStays
    <3> QED
      BY Zenon, <1>8, <3>1, <3>2 DEF DataOK
  <2> QED
    BY Zenon, <1>4, <1>8, <2>1, <2>2 DEF DataInv
<1> QED
  BY Zenon, <1>5, <1>6, <1>7, <1>8, DataFrame

-----------------------------------------------------------------------------
(***************************************************************************)
(* ACKs under way.                                                         *)
(***************************************************************************)

\* AckInv when the server adds an ACK for the packet it expects now.
LEMMA AckSent ==
    ASSUME IInv, TypeOK', WindowInv', ProgressInv',
           NEW n \in Nat, n = got' + 1, got <= got', Base' = Base,
           SendAck(SeqOf(n), n),
           UNCHANGED <<cpc, buffer>>
    PROVE  AckInv'
<1>1. TypeOK /\ WindowInv /\ ProgressInv /\ AckInv
  BY Zenon DEF IInv
<1>2. /\ Base \in Nat /\ got \in Nat /\ got' \in Nat /\ Base <= got
  BY Zenon, <1>1, Numbers DEF TypeOK
<1> DEFINE a == create_packet("ACK", SeqOf(n), 0, 0, n)
<1>3. toClient \in Seq(Packets) /\ Len(toClient) \in Nat
  <2>1. toClient \in Seq(Packets)
    BY Zenon, <1>1 DEF TypeOK
  <2> QED
    BY <2>1
<1>4. toClient' \in Seq(Packets) /\ Len(toClient') \in Nat
  <2>1. toClient' \in Seq(Packets)
    BY Zenon DEF TypeOK
  <2> QED
    BY <2>1
<1>5. a \in Packets /\ a.seq = SeqOf(n) /\ a.n = n
  BY Zenon, CommandTyped, SeqDivMod DEF SeqOf, Commands, create_packet
<1>6. toClient' \in Sent(toClient, a)
  BY Zenon DEF SendAck
<1> HIDE DEF a
<1>7. /\ Len(toClient) <= Len(toClient')
      /\ \A k \in 1 .. Len(toClient) : toClient'[k] = toClient[k]
      /\ \A k \in Len(toClient) + 1 .. Len(toClient') : toClient'[k] = a
  BY Zenon, <1>3, <1>5, <1>6, SentIs
<1>8. \A k \in 1 .. Len(toClient') : toClient'[k].cmd = "ACK" =>
         toClient'[k].n \in Base + 1 .. n
  <2> SUFFICES ASSUME NEW k \in 1 .. Len(toClient'), toClient'[k].cmd = "ACK"
               PROVE  toClient'[k].n \in Base + 1 .. n
    OBVIOUS
  <2>1. CASE k \in 1 .. Len(toClient)
    <3>1. toClient[k].n \in Base + 1 .. got + 1
      BY Zenon, <1>1, <1>7, <2>1 DEF AckInv
    <3> QED
      BY SMTT(40), <1>2, <1>7, <2>1, <3>1
  <2>2. CASE k \in Len(toClient) + 1 .. Len(toClient')
    BY <1>2, <1>5, <1>7, <2>2
  <2> QED
    BY <1>3, <1>4, <2>1, <2>2
<1>9. cpc = "ack" => buffer.n \in Base + 1 .. n /\ buffer.seq = SeqOf(buffer.n)
  BY <1>1, <1>2 DEF AckInv
<1>10. ASSUME NEW j \in 1 .. Len(toClient'), toClient'[j].cmd = "ACK"
       PROVE  /\ toClient'[j].seq = SeqOf(toClient'[j].n)
              /\ \A i \in 1 .. j - 1 : toClient'[i].cmd = "ACK" =>
                     toClient'[i].n <= toClient'[j].n
              /\ cpc = "ack" => buffer.n <= toClient'[j].n
  <2>1. CASE j \in 1 .. Len(toClient)
    <3>1. \A k \in 1 .. j : toClient'[k] = toClient[k]
      BY <1>3, <1>7, <2>1
    <3>2. toClient[j].cmd = "ACK" /\ toClient'[j] = toClient[j]
      BY <1>10, <2>1, <3>1
    <3>3. \A i \in 1 .. j - 1 : toClient'[i] = toClient[i]
      BY <2>1, <3>1
    <3> QED
      BY Zenon, <1>1, <2>1, <3>2, <3>3 DEF AckInv
  <2>2. CASE j \in Len(toClient) + 1 .. Len(toClient')
    <3>1. toClient'[j] = a
      BY Zenon, <1>7, <2>2
    <3>2. \A i \in 1 .. j - 1 : i \in 1 .. Len(toClient')
      BY <1>4
    <3>3. \A i \in 1 .. j - 1 : toClient'[i].cmd = "ACK" => toClient'[i].n <= n
      BY <1>8, <3>2
    <3> QED
      BY <1>5, <1>9, <3>1, <3>3
  <2> QED
    BY <1>3, <1>4, <2>1, <2>2
<1> QED
  BY Zenon, <1>8, <1>9, <1>10 DEF AckInv

\* AckInv when a reply is taken from the queue or nothing is, and the client
\* is not handling an ACK afterwards.
LEMMA AckTaken ==
    ASSUME IInv, cpc' # "ack", Base' = Base, got' = got,
           \/ toClient # <<>> /\ toClient' = Tail(toClient)
           \/ UNCHANGED toClient
    PROVE  AckInv'
<1>1. TypeOK /\ AckInv
  BY Zenon DEF IInv
<1>2. toClient \in Seq(Packets) /\ Len(toClient) \in Nat
  <2>1. toClient \in Seq(Packets)
    BY Zenon, <1>1 DEF TypeOK
  <2> QED
    BY <2>1
<1>3. CASE UNCHANGED toClient
  BY Zenon, <1>1, <1>3 DEF AckInv
<1>4. CASE toClient # <<>> /\ toClient' = Tail(toClient)
  <2>1. /\ Len(toClient') = Len(toClient) - 1
        /\ \A j \in 1 .. Len(toClient) - 1 : toClient'[j] = toClient[j + 1]
    BY Zenon, <1>2, <1>4, TailIs
  <2>2. ASSUME NEW j \in 1 .. Len(toClient'), toClient'[j].cmd = "ACK"
        PROVE  /\ toClient'[j].n \in Base + 1 .. got + 1
               /\ toClient'[j].seq = SeqOf(toClient'[j].n)
               /\ \A i \in 1 .. j - 1 : toClient'[i].cmd = "ACK" =>
                      toClient'[i].n <= toClient'[j].n
    <3>1. j + 1 \in 1 .. Len(toClient) /\ toClient'[j] = toClient[j + 1]
      BY <1>2, <2>1
    <3>2. \A i \in 1 .. j - 1 : i + 1 \in 1 .. (j + 1) - 1 /\ toClient'[i] = toClient[i + 1]
      BY <1>2, <2>1
    <3> QED
      BY Zenon, <1>1, <2>2, <3>1, <3>2 DEF AckInv
  <2> QED
    BY Zenon, <2>2 DEF AckInv
<1> QED
  BY Zenon, <1>3, <1>4

LEMMA AckStep ==
    ASSUME IInv, [Next]_vars, InOrderNetwork, TypeOK', WindowInv', ProgressInv'
    PROVE  AckInv'
<1>1. /\ TypeOK /\ ReadWithinSize /\ WindowInv /\ ProgressInv /\ AckInv
      /\ DataInv
  BY Zenon DEF IInv
<1>2. /\ Base \in Nat /\ got \in Nat /\ Base <= got
      /\ expected_sequence = SeqOf(got + 1)
  BY Zenon, <1>1, Numbers DEF ProgressInv
<1>3. toClient \in Seq(Packets) /\ Len(toClient) \in Nat
  <2>1. toClient \in Seq(Packets)
    BY Zenon, <1>1 DEF TypeOK
  <2> QED
    BY <2>1
<1>4. CASE ServerWrongData
  <2>1. UNCHANGED <<made, packets, got, cpc, buffer>>
    BY Zenon, <1>4 DEF ServerWrongData, clientVars, serverVars
  <2>2. SendAck(SeqOf(got + 1), got + 1)
    BY Zenon, <1>2, <1>4 DEF ServerWrongData
  <2>3. PICK n \in Nat : n = got + 1
    BY <1>2
  <2>4. SendAck(SeqOf(n), n) /\ n = got' + 1 /\ got <= got'
    BY <1>2, <2>1, <2>2, <2>3
  <2>5. Base' = Base
    BY Zenon, <2>1 DEF Base
  <2> QED
    BY Zenon, <2>1, <2>4, <2>5, AckSent
<1>5. CASE ServerData
  <2>1. UNCHANGED <<made, packets, cpc, buffer>> /\ got' = got + 1
    BY Zenon, <1>5 DEF ServerData, clientVars
  <2>2. SendAck(SeqOf(got + 2), got + 2)
    <3>1. NextSeq(expected_sequence) = SeqOf((got + 1) + 1) /\ (got + 1) + 1 = got + 2
      BY <1>2, SeqSucc
    <3> QED
      BY Zenon, <1>5, <3>1 DEF ServerData
  <2>3. PICK n \in Nat : n = got + 2
    BY <1>2
  <2>4. SendAck(SeqOf(n), n) /\ n = got' + 1 /\ got <= got'
    BY <1>2, <2>1, <2>2, <2>3
  <2>5. Base' = Base
    BY Zenon, <2>1 DEF Base
  <2> QED
    BY Zenon, <2>1, <2>4, <2>5, AckSent
<1>6. CASE ServerFinAck
  <2> DEFINE f == create_packet("FINACK", 0, 0, 0, 0)
  <2>1. UNCHANGED <<made, packets, got, cpc, buffer>>
    BY Zenon, <1>6 DEF ServerFinAck, clientVars, serverVars
  <2>2. f \in Packets /\ f.cmd = "FINACK"
    BY CommandTyped, SeqModAssumption DEF Commands, create_packet
  <2>3. toClient' \in Sent(toClient, f)
    BY Zenon, <1>6 DEF ServerFinAck
  <2> HIDE DEF f
  <2>4. /\ toClient' \in Seq(Packets)
        /\ Len(toClient) <= Len(toClient')
        /\ \A k \in 1 .. Len(toClient) : toClient'[k] = toClient[k]
        /\ \A k \in Len(toClient) + 1 .. Len(toClient') : toClient'[k] = f
    BY Zenon, <1>3, <2>2, <2>3, SentIs
  <2>5. Base' = Base
    BY Zenon, <2>1 DEF Base
  <2>6. ASSUME NEW j \in 1 .. Len(toClient'), toClient'[j].cmd = "ACK"
        PROVE  /\ j \in 1 .. Len(toClient)
               /\ \A k \in 1 .. j : toClient'[k] = toClient[k]
    <3>1. j \in 1 .. Len(toClient)
      BY <1>3, <2>2, <2>4, <2>6
    <3>2. \A k \in 1 .. j : k \in 1 .. Len(toClient)
      BY <1>3, <3>1
    <3> QED
      BY Zenon, <2>4, <3>1, <3>2
  <2>7. ASSUME NEW j \in 1 .. Len(toClient'), toClient'[j].cmd = "ACK"
        PROVE  /\ toClient'[j].n \in Base + 1 .. got + 1
               /\ toClient'[j].seq = SeqOf(toClient'[j].n)
               /\ \A i \in 1 .. j - 1 : toClient'[i].cmd = "ACK" =>
                      toClient'[i].n <= toClient'[j].n
               /\ cpc = "ack" => buffer.n <= toClient'[j].n
    <3>1. j \in 1 .. Len(toClient) /\ toClient'[j] = toClient[j]
      BY <2>6, <2>7
    <3>2. \A i \in 1 .. j - 1 : toClient'[i] = toClient[i]
      BY <2>6, <2>7
    <3> QED
      BY Zenon, <1>1, <2>7, <3>1, <3>2 DEF AckInv
  <2> QED
    BY Zenon, <1>1, <2>1, <2>5, <2>7 DEF AckInv
<1>7. CASE ClientRecv
  <2>1. UNCHANGED <<made, packets, got>>
    BY Zenon, <1>7 DEF ClientRecv, serverVars
  <2>2. Base' = Base
    BY Zenon, <2>1 DEF Base
  <2>3. toClient # <<>> /\ toClient' = Tail(toClient)
    BY Zenon, <1>7 DEF ClientRecv
  <2>4. CASE cpc' # "ack"
    BY Zenon, <2>1, <2>2, <2>3, <2>4, AckTaken
  <2>5. CASE cpc' = "ack"
    <3>1. /\ Len(toClient) > 0 /\ Len(toClient') = Len(toClient) - 1
          /\ \A j \in 1 .. Len(toClient) - 1 : toClient'[j] = toClient[j + 1]
          /\ Head(toClient) = toClient[1]
      BY Zenon, <1>3, <2>3, TailIs
    <3>2. buffer' = toClient[1] /\ toClient[1].cmd = "ACK"
      BY Zenon, <1>7, <2>5, <3>1 DEF ClientRecv
    <3>3. buffer'.n \in Base + 1 .. got + 1 /\ buffer'.seq = SeqOf(buffer'.n)
      BY <1>1, <1>3, <3>1, <3>2 DEF AckInv
    <3>4. ASSUME NEW j \in 1 .. Len(toClient'), toClient'[j].cmd = "ACK"
          PROVE  /\ toClient'[j].n \in Base + 1 .. got + 1
                 /\ toClient'[j].seq = SeqOf(toClient'[j].n)
                 /\ \A i \in 1 .. j - 1 : toClient'[i].cmd = "ACK" =>
                        toClient'[i].n <= toClient'[j].n
                 /\ buffer'.n <= toClient'[j].n
      <4>1. /\ j + 1 \in 1 .. Len(toClient) /\ 1 \in 1 .. (j + 1) - 1
            /\ toClient'[j] = toClient[j + 1]
        BY <1>3, <3>1
      <4>2. \A i \in 1 .. j - 1 : i + 1 \in 1 .. (j + 1) - 1 /\ toClient'[i] = toClient[i + 1]
        BY <1>3, <3>1
      <4> QED
        BY Zenon, <1>1, <3>2, <3>4, <4>1, <4>2 DEF AckInv
    <3> QED
      BY Zenon, <2>1, <2>2, <3>3, <3>4 DEF AckInv
  <2> QED
    BY Zenon, <2>4, <2>5
<1>8. CASE ClientAckPop
  <2>1. UNCHANGED <<cpc, buffer, toClient, got>> /\ cpc = "ack"
    BY Zenon, <1>8 DEF ClientAckPop, serverVars
  <2>2. Base' = Base + 1
    BY Zenon, <1>1, <1>8, PopIs
  <2>3. buffer.n \in Nat /\ Base + 2 <= buffer.n
    BY Zenon, <1>1, <1>8, PoppedIs
  <2>4. buffer.n \in (Base + 1) + 1 .. got + 1 /\ buffer.seq = SeqOf(buffer.n)
    BY <1>1, <1>2, <2>1, <2>3 DEF AckInv
  <2>5. ASSUME NEW j \in 1 .. Len(toClient), toClient[j].cmd = "ACK"
        PROVE  toClient[j].n \in (Base + 1) + 1 .. got + 1
    BY <1>1, <1>2, <2>1, <2>3, <2>5 DEF AckInv
  <2> QED
    BY Zenon, <1>1, <2>1, <2>2, <2>4, <2>5 DEF AckInv
<1>9. CASE ~ClientAckPop /\ ~ServerData /\ ~ClientRecv /\ ~ServerWrongData /\ ~ServerFinAck
  <2>1. got' = got
    BY Zenon, <1>9, ProgressFrame
  <2>2. Base' = Base
    <3>1. CASE ClientFill
      BY Zenon, <1>1, <3>1, FillIs
    <3>2. CASE UNCHANGED <<packets, made>>
      BY Zenon, <3>2 DEF Base
    <3> QED
      BY Zenon, <1>9, <3>1, <3>2, WindowFrame
  <2>3. CASE UNCHANGED <<cpc, buffer, toClient>>
    BY Zenon, <1>1, <2>1, <2>2, <2>3 DEF AckInv
  <2>4. CASE /\ cpc' # "ack"
             /\ \/ toClient # <<>> /\ toClient' = Tail(toClient)
                \/ UNCHANGED toClient
    BY Zenon, <2>1, <2>2, <2>4, AckTaken
  <2> QED
    BY Zenon, <1>9, <2>3, <2>4, ReplyFrame
<1> QED
  BY Zenon, <1>4, <1>5, <1>6, <1>7, <1>8, <1>9

-----------------------------------------------------------------------------
(***************************************************************************)
(* FIN.                                                                    *)
(***************************************************************************)

\* A FIN under way was sent by this step or was under way before it.
LEMMA FinKept ==
    ASSUME IInv, [Next]_vars, InOrderNetwork, TypeOK',
           ~ClientStartFin, ~ClientFin,
           NEW j \in 1 .. Len(toServer'), toServer'[j].cmd = "FIN"
    PROVE  \E k \in 1 .. Len(toServer) : toServer[k].cmd = "FIN"
<1>1. TypeOK /\ WindowInv
  BY Zenon DEF IInv
<1>2. toServer \in Seq(Packets) /\ Len(toServer) \in Nat
  <2>1. toServer \in Seq(Packets)
    BY Zenon, <1>1 DEF TypeOK
  <2> QED
    BY <2>1
<1>3. toServer' \in Seq(Packets) /\ Len(toServer') \in Nat
  <2>1. toServer' \in Seq(Packets)
    BY Zenon DEF TypeOK
  <2> QED
    BY <2>1
<1>4. ASSUME NEW i \in 1 .. WINDOW_SIZE, ClientSend(i)
      PROVE  j \in 1 .. Len(toServer) /\ toServer'[j] = toServer[j]
  <2>1. toServer' \in Sent(toServer, packets[i]) /\ i \in 1 .. Len(packets)
    BY <1>1, <1>4, WindowAssumption DEF ClientSend, TypeOK
  <2>2. packets[i] \in Packets /\ packets[i].cmd = "DATA"
    BY Zenon, <1>1, <2>1, WindowTyped DEF WindowInv
  <2>3. /\ \A k \in 1 .. Len(toServer) : toServer'[k] = toServer[k]
        /\ \A k \in Len(toServer) + 1 .. Len(toServer') : toServer'[k] = packets[i]
    <3>1. /\ toServer \in Seq(Packets)
          /\ packets[i] \in Packets
          /\ toServer' \in Sent(toServer, packets[i])
      BY Zenon, <1>2, <2>1, <2>2
    <3> QED
      BY <3>1, SentIs
  <2>4. j \in 1 .. Len(toServer)
    BY <1>2, <1>3, <2>2, <2>3
  <2> QED
    BY Zenon, <2>3, <2>4
<1>5. CASE toServer # <<>> /\ toServer' = Tail(toServer)
  <2>1. j + 1 \in 1 .. Len(toServer) /\ toServer'[j] = toServer[j + 1]
    BY <1>2, <1>5, TailIs
  <2> QED
    BY Zenon, <2>1
<1>6. CASE UNCHANGED toServer
  BY Zenon, <1>6
<1> QED
  BY Zenon, <1>4, <1>5, <1>6, DataFrame

LEMMA FinStep ==
    ASSUME IInv, [Next]_vars, InOrderNetwork, TypeOK'
    PROVE  FinInv'
<1>1. /\ cpc \in {"fin", "finwait"} => written = size
      /\ cexit = "OK" => written = size
      /\ cexit = "OK" => cpc = "exit"
      /\ (\E k \in 1 .. Len(toServer) : toServer[k].cmd = "FIN") =>
            written = size /\ (cpc \in {"fin", "finwait"} \/ cexit = "OK")
  BY Zenon DEF IInv, FinInv
<1>2. CASE ClientStartFin
  <2>1. /\ written' = written /\ size' = size /\ written = size
        /\ cpc = "loop" /\ cpc' = "finwait" /\ cexit' = cexit
    BY Zenon, <1>2 DEF ClientStartFin
  <2>2. written' = size' /\ cexit' # "OK"
    BY Zenon, <1>1, <2>1
  <2> QED
    BY Zenon, <2>1, <2>2 DEF FinInv
<1>3. CASE ClientFin
  <2>1. /\ written' = written /\ size' = size
        /\ cpc = "fin" /\ cpc' = "finwait" /\ cexit' = cexit
    BY Zenon, <1>3 DEF ClientFin
  <2>2. written' = size' /\ cexit' # "OK"
    BY Zenon, <1>1, <2>1
  <2> QED
    BY Zenon, <2>1, <2>2 DEF FinInv
<1>4. CASE cpc = "ack" /\ UNCHANGED <<cpc, cexit, toServer>>
  <2>1. cexit # "OK" /\ ~\E k \in 1 .. Len(toServer) : toServer[k].cmd = "FIN"
    BY Zenon, <1>1, <1>4
  <2> QED
    BY Zenon, <1>4, <2>1 DEF FinInv
<1>5. CASE /\ ~ClientStartFin /\ ~ClientFin
           /\ UNCHANGED <<written, size>>
           /\ cpc \in {"fin", "finwait"} => cpc' \in {"fin", "finwait"} \/ cexit' = "OK"
           /\ cpc' \in {"fin", "finwait"} => cpc \in {"fin", "finwait"}
           /\ \/ UNCHANGED <<cpc, cexit>>
              \/ cpc # "exit" /\ UNCHANGED cexit
              \/ cpc = "send" /\ cpc' = "exit" /\ cexit' # "OK"
              \/ cpc' = "exit" /\ cpc \in {"fin", "finwait"}
  <2>1. cpc' \in {"fin", "finwait"} \/ cexit' = "OK" => written' = size'
    BY Zenon, <1>1, <1>5
  <2>2. cexit' = "OK" => cpc' = "exit"
    BY Zenon, <1>1, <1>5
  <2>3. ASSUME NEW j \in 1 .. Len(toServer'), toServer'[j].cmd = "FIN"
        PROVE  written' = size' /\ (cpc' \in {"fin", "finwait"} \/ cexit' = "OK")
    <3>1. \E k \in 1 .. Len(toServer) : toServer[k].cmd = "FIN"
      BY Zenon, <1>5, <2>3, FinKept
    <3> QED
      BY Zenon, <1>1, <1>5, <3>1
  <2> QED
    BY Zenon, <2>1, <2>2, <2>3 DEF FinInv
<1> QED
  BY Zenon, <1>2, <1>3, <1>4, <1>5, ClosingFrame

-----------------------------------------------------------------------------
(***************************************************************************)
(* The server's file.                                                      *)
(***************************************************************************)

\* A FINACK under way was sent by this step or was under way before it.
LEMMA FinAckKept ==
    ASSUME IInv, [Next]_vars, InOrderNetwork, TypeOK', ~ServerFinAck,
           NEW j \in 1 .. Len(toClient'), toClient'[j].cmd = "FINACK"
    PROVE  \E k \in 1 .. Len(toClient) : toClient[k].cmd = "FINACK"
<1>1. TypeOK
  BY Zenon DEF IInv
<1>2. toClient \in Seq(Packets) /\ Len(toClient) \in Nat
  <2>1. toClient \in Seq(Packets)
    BY Zenon, <1>1 DEF TypeOK
  <2> QED
    BY <2>1
<1>3. toClient' \in Seq(Packets) /\ Len(toClient') \in Nat
  <2>1. toClient' \in Seq(Packets)
    BY Zenon DEF TypeOK
  <2> QED
    BY <2>1
<1>4. ASSUME NEW seq \in 0 .. SEQ_MOD - 1, NEW n \in Nat, SendAck(seq, n)
      PROVE  \E k \in 1 .. Len(toClient) : toClient[k].cmd = "FINACK"
  <2> DEFINE a == create_packet("ACK", seq, 0, 0, n)
  <2>1. toClient' \in Sent(toClient, a)
    BY Zenon, <1>4 DEF SendAck
  <2>2. a \in Packets /\ a.cmd = "ACK"
    BY Zenon, CommandTyped DEF Commands, create_packet
  <2> HIDE DEF a
  <2>3. /\ \A k \in 1 .. Len(toClient) : toClient'[k] = toClient[k]
        /\ \A k \in Len(toClient) + 1 .. Len(toClient') : toClient'[k] = a
    BY <1>2, <2>1, <2>2, SentIs
  <2>4. j \in 1 .. Len(toClient)
    BY <1>2, <1>3, <2>2, <2>3
  <2> QED
    BY Zenon, <2>3, <2>4
<1>5. CASE ServerWrongData
  <2>1. expected_sequence \in 0 .. SEQ_MOD - 1 /\ got + 1 \in Nat
    BY <1>1 DEF TypeOK
  <2> QED
    BY Zenon, <1>4, <1>5, <2>1 DEF ServerWrongData
<1>6. CASE ServerData
  <2>1. NextSeq(expected_sequence) \in 0 .. SEQ_MOD - 1 /\ got + 2 \in Nat
    BY <1>1, NextSeqTyped DEF TypeOK
  <2> QED
    BY Zenon, <1>4, <1>6, <2>1 DEF ServerData
<1>7. CASE toClient # <<>> /\ toClient' = Tail(toClient)
  <2>1. j + 1 \in 1 .. Len(toClient) /\ toClient'[j] = toClient[j + 1]
    BY <1>2, <1>7, TailIs
  <2> QED
    BY Zenon, <2>1
<1>8. CASE UNCHANGED toClient
  BY Zenon, <1>8
<1> QED
  BY Zenon, <1>5, <1>6, <1>7, <1>8, ReplyFrame DEF ClientRecv

\* Appending the accepted payload extends what is stored by that many bytes
\* of the client's file.
LEMMA SourceExtended ==
    ASSUME NEW n \in Nat, NEW p \in Packets, p.off = n
    PROVE  Source(n) \o Payload(p) = Source(n + p.len)
<1>1. p.len \in Nat
  BY Zenon DEF Packets
<1>2. Source(n) \in Seq(Nat) /\ Len(Source(n)) = n
  BY DEF Source
<1>3. Payload(p) \in Seq(Nat) /\ Len(Payload(p)) = p.len
  BY <1>1 DEF Payload
<1>4. Source(n + p.len) \in Seq(Nat) /\ Len(Source(n + p.len)) = n + p.len
  BY <1>1 DEF Source
<1> DEFINE t == Source(n) \o Payload(p)
<1>5. /\ t \in Seq(Nat) /\ Len(t) = n + p.len
      /\ \A i \in 1 .. n + p.len :
             t[i] = IF i <= n THEN Source(n)[i] ELSE Payload(p)[i - n]
  <2>1. /\ t \in Seq(Nat)
        /\ Len(t) = Len(Source(n)) + Len(Payload(p))
        /\ \A i \in 1 .. Len(Source(n)) + Len(Payload(p)) :
               t[i] = IF i <= Len(Source(n)) THEN Source(n)[i]
                      ELSE Payload(p)[i - Len(Source(n))]
    BY Zenon, <1>2, <1>3, ConcatProperties
  <2> QED
    BY Zenon, <1>2, <1>3, <2>1
<1> HIDE DEF t
<1>6. ASSUME NEW i \in 1 .. n + p.len
      PROVE  t[i] = Source(n + p.len)[i]
  <2>1. CASE i <= n
    <3>1. i \in 1 .. n
      BY <1>1, <2>1
    <3> QED
      BY Zenon, <1>5, <2>1, <3>1 DEF Source
  <2>2. CASE i > n
    <3>1. i - n \in 1 .. p.len /\ n + (i - n) = i
      BY <1>1, <2>2
    <3>2. Payload(p)[i - n] = i
      BY Zenon, <3>1 DEF Payload
    <3>3. ~(i <= n)
      BY <1>1, <2>2
    <3> QED
      BY Zenon, <1>5, <3>2, <3>3 DEF Source
  <2> QED
    BY <1>1, <2>1, <2>2
<1>7. t = Source(n + p.len)
  <2>1. Len(t) = Len(Source(n + p.len)) /\ \A i \in 1 .. Len(t) : t[i] = Source(n + p.len)[i]
    BY Zenon, <1>4, <1>5, <1>6
  <2> QED
    BY Zenon, <1>4, <1>5, <2>1, SeqEqual
<1> QED
  BY Zenon, <1>7 DEF t

\* Concatenation is associative.
LEMMA ConcatSplit ==
    ASSUME NEW s \in Seq(Nat), NEW t \in Seq(Nat), NEW u \in Seq(Nat)
    PROVE  (s \o t) \o u = s \o (t \o u)
<1> DEFINE a == s \o t
           b == t \o u
           l == a \o u
           r == s \o b
<1>1. /\ a \in Seq(Nat) /\ Len(a) = Len(s) + Len(t)
      /\ \A i \in 1 .. Len(s) + Len(t) : a[i] = IF i <= Len(s) THEN s[i] ELSE t[i - Len(s)]
  BY Zenon, ConcatProperties
<1>2. /\ b \in Seq(Nat) /\ Len(b) = Len(t) + Len(u)
      /\ \A i \in 1 .. Len(t) + Len(u) : b[i] = IF i <= Len(t) THEN t[i] ELSE u[i - Len(t)]
  BY Zenon, ConcatProperties
<1> HIDE DEF a, b
<1>3. a \in Seq(Nat)
  BY Zenon, <1>1
<1>4. b \in Seq(Nat)
  BY Zenon, <1>2
<1>5. /\ l \in Seq(Nat) /\ Len(l) = Len(a) + Len(u)
      /\ \A i \in 1 .. Len(a) + Len(u) : l[i] = IF i <= Len(a) THEN a[i] ELSE u[i - Len(a)]
  BY Zenon, <1>3, ConcatProperties
<1>6. /\ r \in Seq(Nat) /\ Len(r) = Len(s) + Len(b)
      /\ \A i \in 1 .. Len(s) + Len(b) : r[i] = IF i <= Len(s) THEN s[i] ELSE b[i - Len(s)]
  BY Zenon, <1>4, ConcatProperties
<1> HIDE DEF l, r
<1>7. Len(s) \in Nat /\ Len(t) \in Nat /\ Len(u) \in Nat
  OBVIOUS
<1>8. Len(l) = Len(r)
  BY <1>1, <1>2, <1>5, <1>6, <1>7
<1>9. ASSUME NEW i \in 1 .. Len(l)
      PROVE  l[i] = r[i]
  <2>1. i \in 1 .. Len(a) + Len(u) /\ i \in 1 .. Len(s) + Len(b)
    BY <1>1, <1>2, <1>5, <1>7
  <2>2. /\ l[i] = IF i <= Len(a) THEN a[i] ELSE u[i - Len(a)]
        /\ r[i] = IF i <= Len(s) THEN s[i] ELSE b[i - Len(s)]
    BY Zenon, <1>5, <1>6, <2>1
  <2>3. CASE i <= Len(s)
    <3>1. i <= Len(a) /\ i \in 1 .. Len(s) + Len(t)
      BY <1>1, <1>7, <2>1, <2>3
    <3> QED
      BY Zenon, <1>1, <2>2, <2>3, <3>1
  <2>4. CASE ~(i <= Len(s)) /\ i <= Len(a)
    <3>1. /\ i \in 1 .. Len(s) + Len(t)
          /\ i - Len(s) \in 1 .. Len(t) + Len(u) /\ i - Len(s) <= Len(t)
      BY <1>1, <1>7, <2>1, <2>4
    <3> QED
      BY Zenon, <1>1, <1>2, <2>2, <2>4, <3>1
  <2>5. CASE ~(i <= Len(s)) /\ ~(i <= Len(a))
    <3>1. /\ i - Len(s) \in 1 .. Len(t) + Len(u) /\ ~(i - Len(s) <= Len(t))
          /\ (i - Len(s)) - Len(t) = i - Len(a)
      BY <1>1, <1>2, <1>7, <2>1, <2>5
    <3> QED
      BY Zenon, <1>2, <2>2, <2>5, <3>1
  <2> QED
    BY Zenon, <2>3, <2>4, <2>5
<1>10. l = r
  BY Zenon, <1>5, <1>6, <1>8, <1>9, SeqEqual
<1> QED
  BY Zenon, <1>10 DEF l, r, a, b

\* Whatever the server does, what it has accepted stays a prefix of the
\* client's file.
LEMMA StoredStep ==
    ASSUME IInv, [Next]_vars
    PROVE  StoredInOrder'
<1>1. TypeOK /\ WindowInv /\ ProgressInv /\ DataInv /\ FileInv
  BY Zenon DEF IInv
<1>2. /\ sfile \o pending = Source(sread)
      /\ sfile \in Seq(Nat) /\ pending \in Seq(Nat) /\ sread \in Nat
  BY Zenon, <1>1 DEF FileInv, StoredInOrder, TypeOK
<1>3. CASE ServerData
  <2>1. sfile = Source(sread)
    BY Zenon, <1>1, <1>2, <1>3, ConcatEmptySeq DEF ServerData, FileInv
  <2>2. PICK p \in Packets : p = Head(toServer)
    BY Zenon, <1>1, <1>3, TailIs DEF ServerData, TypeOK
  <2>3. p.off = sread
    BY Zenon, <1>1, <1>3, <2>2, AcceptedIs, TailIs DEF ServerData, TypeOK
  <2>4. sfile' = sfile /\ pending' = Payload(p) /\ sread' = sread + p.len
    BY Zenon, <1>3, <2>2 DEF ServerData
  <2> QED
    BY Zenon, <1>2, <2>1, <2>3, <2>4, SourceExtended DEF StoredInOrder
<1>4. CASE ServerWrite \/ ServerExcess
  <2>1. sfile' = sfile \o pending /\ pending' = <<>> /\ sread' = sread
    BY Zenon, <1>4 DEF ServerWrite, ServerExcess
  <2>2. (sfile \o pending) \o <<>> = sfile \o pending
    BY Zenon, <1>2, ConcatProperties, ConcatEmptySeq
  <2> QED
    BY Zenon, <1>2, <2>1, <2>2 DEF StoredInOrder
<1>5. ASSUME NEW k \in 0 .. PAYLOAD_SIZE - 1, ServerWriteError(k)
      PROVE  StoredInOrder'
  <2> DEFINE t == SubSeq(pending, 1, k)
             u == SubSeq(pending, k + 1, Len(pending))
  <2>1. k \in Nat /\ k < Len(pending)
    BY <1>5, PayloadAssumption DEF ServerWriteError
  <2>2. t \in Seq(Nat) /\ u \in Seq(Nat) /\ t \o u = pending
    BY Zenon, <1>2, <2>1, SplitIs
  <2>3. sfile' = sfile \o t /\ pending' = u /\ sread' = sread
    BY Zenon, <1>5 DEF ServerWriteError
  <2> HIDE DEF t, u
  <2>4. sfile \in Seq(Nat) /\ t \in Seq(Nat) /\ u \in Seq(Nat)
    BY Zenon, <1>2, <2>2
  <2>5. (sfile \o t) \o u = sfile \o (t \o u)
    BY Zenon, <2>4, ConcatSplit
  <2> QED
    BY Zenon, <1>2, <2>2, <2>3, <2>5 DEF StoredInOrder
<1>6. CASE UNCHANGED <<sread, pending, sfile>>
  BY Zenon, <1>2, <1>6 DEF StoredInOrder
<1> QED
  <2>1. CASE ServerStep
    BY Zenon, <1>3, <1>4, <1>5, <1>6, <2>1
    DEF ServerStep, ServerTimeout, ServerWrongData, ServerEarlyFin, ServerFin,
        ServerFinAck, ServerClose, serverVars
  <2> QED
    BY Zenon, <1>6, <2>1, FileFrame

LEMMA FileStep ==
    ASSUME IInv, [Next]_vars, InOrderNetwork, TypeOK'
    PROVE  FileInv'
<1>1. TypeOK /\ WindowInv /\ ProgressInv /\ FinInv /\ FileInv
  BY Zenon DEF IInv
<1>2. /\ spc # "exit" => exists /\ sexit = "none"
      /\ spc \in {"read", "finack"} => pending = <<>>
      /\ sexit = "OK" => pending = <<>> /\ exists /\ sread = size
      /\ spc = "finack" => sread = size
      /\ (\E k \in 1 .. Len(toClient) : toClient[k].cmd = "FINACK") =>
            spc = "finack" \/ sexit = "OK"
      /\ flen = size => sexit # "BAD_REQUEST"
  BY Zenon, <1>1 DEF FileInv, NoFalseReject
<1>3. flen = size => sread <= size
  BY <1>1, Ordered, Numbers DEF TypeOK
<1>4. (\E k \in 1 .. Len(toServer) : toServer[k].cmd = "FIN") => written = size
  BY Zenon, <1>1 DEF FinInv
<1>5. written <= sread /\ size' = size /\ flen' = flen
  BY Zenon, <1>1, Ordered, SizeFrame
<1>6. /\ spc' # "exit" => exists' /\ sexit' = "none"
      /\ spc' \in {"read", "finack"} => pending' = <<>>
      /\ sexit' = "OK" => pending' = <<>> /\ exists' /\ sread' = size'
      /\ spc' = "finack" => sread' = size'
      /\ spc = "finack" \/ sexit = "OK" => spc' = "finack" \/ sexit' = "OK"
      /\ flen' = size' => sexit' # "BAD_REQUEST"
  <2>1. CASE ServerTimeout
    BY Zenon, <1>2, <2>1 DEF ServerTimeout, ServerExit
  <2>2. CASE ServerWrongData \/ ServerFinAck
    BY Zenon, <1>2, <1>5, <2>2 DEF ServerWrongData, ServerFinAck, serverVars
  <2>3. CASE ServerData
    BY Zenon, <1>2, <1>5, <2>3 DEF ServerData
  <2>4. CASE ServerWrite
    BY Zenon, <1>2, <1>5, <2>4 DEF ServerWrite
  <2>5. CASE ServerExcess
    <3>1. flen # size
      BY <1>1, <1>3, <2>5 DEF ServerExcess, TypeOK
    <3> QED
      BY Zenon, <1>2, <1>5, <2>5, <3>1 DEF ServerExcess, ServerExit
  <2>6. ASSUME NEW k \in 0 .. PAYLOAD_SIZE - 1, ServerWriteError(k)
        PROVE  spc = "write" /\ spc' = "exit" /\ sexit' = "RUNTIME_ERROR"
    BY Zenon, <2>6 DEF ServerWriteError, ServerExit
  <2>7. CASE ServerEarlyFin
    <3>1. toServer[1].cmd = "FIN" /\ 1 \in 1 .. Len(toServer)
      <4>1. toServer \in Seq(Packets) /\ toServer # <<>>
        BY Zenon, <1>1, <2>7 DEF ServerEarlyFin, TypeOK
      <4>2. Head(toServer) = toServer[1] /\ Len(toServer) > 0 /\ Len(toServer) \in Nat
        BY <4>1, TailIs
      <4> QED
        BY <2>7, <4>2 DEF ServerEarlyFin
    <3>2. written = size
      BY Zenon, <1>4, <3>1
    <3>3. flen # size
      BY SMTT(40), <1>1, <1>3, <1>5, <2>7, <3>2 DEF ServerEarlyFin, TypeOK
    <3> QED
      BY Zenon, <1>2, <1>5, <2>7, <3>3 DEF ServerEarlyFin, ServerExit
  <2>8. CASE ServerFin
    BY Zenon, <1>2, <1>5, <2>8 DEF ServerFin
  <2>9. CASE ServerClose
    BY Zenon, <1>2, <1>5, <2>9 DEF ServerClose, ServerExit
  <2>10. CASE UNCHANGED <<spc, sread, pending, sfile, exists, sexit, size, flen>>
    BY Zenon, <1>2, <2>10
  <2> QED
    BY Zenon, <1>2, <2>1, <2>2, <2>3, <2>4, <2>5, <2>6, <2>7, <2>8, <2>9, <2>10, FileFrame
    DEF ServerStep
<1>7. ASSUME NEW j \in 1 .. Len(toClient'), toClient'[j].cmd = "FINACK"
      PROVE  spc' = "finack" \/ sexit' = "OK"
  <2>1. CASE ServerFinAck
    BY Zenon, <2>1 DEF ServerFinAck, serverVars
  <2>2. CASE ~ServerFinAck
    BY Zenon, <1>2, <1>6, <1>7, <2>2, FinAckKept
  <2> QED
    BY Zenon, <2>1, <2>2
<1> QED
  BY Zenon, <1>6, <1>7, StoredStep DEF FileInv, NoFalseReject

-----------------------------------------------------------------------------
(***************************************************************************)
(* The invariant and what follows from it.                                 *)
(***************************************************************************)

LEMMA InvInit == Init => IInv
<1> SUFFICES ASSUME Init PROVE IInv
  OBVIOUS
<1>1. TypeOK /\ ReadWithinSize
  BY Zenon, TypeInit
<1>2. /\ packets = <<>> /\ made = 0 /\ got = 0 /\ pos = 0 /\ written = 0 /\ sread = 0
      /\ sequence = 1 /\ expected_sequence = 1 /\ toServer = <<>>
      /\ cpc = "loop" /\ cexit = "none" /\ spc = "read" /\ sexit = "none"
      /\ pending = <<>> /\ sfile = <<>>
  BY Zenon DEF Init
<1>3. Len(packets) = 0 /\ Len(toServer) = 0 /\ Base = 0
  <2>1. Len(packets) = 0 /\ Len(toServer) = 0
    BY Zenon, <1>2
  <2>2. made = 0
    BY Zenon, <1>2
  <2> QED
    BY <2>1, <2>2 DEF Base
<1>4. SeqOf(1) = 1
  BY SeqModAssumption DEF SeqOf
<1>5. WindowInv
  BY <1>2, <1>3, <1>4 DEF WindowInv, Offset
<1>6. ProgressInv
  BY <1>2, <1>3, <1>4 DEF ProgressInv, Offset
<1>7. DataInv
  BY <1>3 DEF DataInv
<1>8. /\ \A j \in 1 .. Len(toClient) : toClient[j].cmd = "ACK" =>
             j = 1 /\ toClient[j].n = 1 /\ toClient[j].seq = 1
      /\ \A j \in 1 .. Len(toClient) : toClient[j].cmd # "FINACK"
  <2>1. CASE toClient = <<>>
    BY <2>1
  <2>2. CASE toClient = <<create_packet("ACK", 1, 0, 0, 1)>>
    BY <2>2 DEF create_packet
  <2>3. CASE toClient = <<create_packet("EXISTS", 0, 0, 0, 0)>>
    BY <2>3 DEF create_packet
  <2> QED
    BY Zenon, <2>1, <2>2, <2>3 DEF Init
<1>9. AckInv
  <2>1. \A j \in 1 .. Len(toClient) : toClient[j].cmd = "ACK" =>
           /\ toClient[j].n \in Base + 1 .. got + 1
           /\ toClient[j].seq = SeqOf(toClient[j].n)
           /\ 1 .. j - 1 = {}
    BY <1>2, <1>3, <1>4, <1>8
  <2> QED
    BY Zenon, <1>2, <2>1 DEF AckInv
<1>10. FinInv
  BY <1>2, <1>3 DEF FinInv
<1>11. FileInv
  <2>1. Source(0) = <<>>
    BY DEF Source
  <2>2. sfile \o pending = <<>>
    BY <1>2
  <2>3. StoredInOrder
    BY Zenon, <1>2, <2>1, <2>2 DEF StoredInOrder
  <2>4. exists
    BY Zenon DEF Init
  <2> QED
    BY Zenon, <1>2, <1>8, <2>3, <2>4 DEF FileInv, NoFalseReject
<1> QED
  BY Zenon, <1>1, <1>5, <1>6, <1>7, <1>9, <1>10, <1>11 DEF IInv

\* Over a network that loses and duplicates datagrams but keeps their order
\* the inductive invariant holds.
THEOREM InvHolds == InOrderNetwork => (Spec => []IInv)
<1> SUFFICES ASSUME InOrderNetwork PROVE Spec => []IInv
  OBVIOUS
<1>1. IInv /\ [Next]_vars => IInv'
  <2> SUFFICES ASSUME IInv, [Next]_vars PROVE IInv'
    OBVIOUS
  <2>1. TypeOK' /\ ReadWithinSize'
    BY Zenon, TypeStep DEF IInv
  <2>2. WindowInv'
    BY Zenon, WindowStep
  <2>3. ProgressInv'
    BY Zenon, ProgressStep
  <2>4. DataInv'
    BY Zenon, <2>1, DataStep
  <2>5. AckInv'
    BY Zenon, <2>1, <2>2, <2>3, AckStep
  <2>6. FinInv'
    BY Zenon, <2>1, FinStep
  <2>7. FileInv'
    BY Zenon, <2>1, FileStep
  <2> QED
    BY Zenon, <2>1, <2>2, <2>3, <2>4, <2>5, <2>6, <2>7 DEF IInv
<1> QED
  BY <1>1, InvInit, PTL DEF Spec

\* The client takes for acknowledged only what the server has received
\* (ftpclient.c:141-159, ftpserver.c:156-167), for any window smaller than
\* the number of sequence numbers.
THEOREM AckedIsReceivedHolds == InOrderNetwork => (Spec => []AckedIsReceived)
<1>1. IInv => AckedIsReceived
  BY Zenon, Ordered DEF IInv, AckedIsReceived
<1> QED
  BY <1>1, InvHolds, PTL

\* What the server stores is a prefix of the client's file however often the
\* 16-bit sequence numbers wrap around (ftpserver.c:149-162).
THEOREM StoredInOrderHolds == InOrderNetwork => (Spec => []StoredInOrder)
<1>1. IInv => StoredInOrder
  BY Zenon DEF IInv, FileInv
<1> QED
  BY <1>1, InvHolds, PTL

\* A server that has sent FINACK or exits with status 0 has the whole file
\* (ftpserver.c:173-200).
THEOREM FinAckMeansStoredHolds == InOrderNetwork => (Spec => []FinAckMeansStored)
<1>1. ASSUME IInv PROVE FinAckMeansStored
  <2> SUFFICES ASSUME spc = "finack" \/ sexit = "OK"
               PROVE  exists /\ sfile = Source(size)
    BY Zenon, <1>1 DEF IInv, FileInv, FinAckMeansStored
  <2>1. exists /\ pending = <<>> /\ sread = size /\ sfile \o pending = Source(sread)
    BY Zenon, <1>1 DEF IInv, FileInv, StoredInOrder
  <2>2. sfile \o <<>> = sfile
    BY Zenon, <1>1, ConcatEmptySeq DEF IInv, TypeOK
  <2> QED
    BY Zenon, <2>1, <2>2
<1> QED
  BY <1>1, InvHolds, PTL

\* The server never rejects a file that did not change while it was sent
\* (ftpserver.c:168-178).
THEOREM NoFalseRejectHolds == InOrderNetwork => (Spec => []NoFalseReject)
<1>1. IInv => NoFalseReject
  BY Zenon DEF IInv, FileInv
<1> QED
  BY <1>1, InvHolds, PTL

-----------------------------------------------------------------------------
(***************************************************************************)
(* A transfer of a file that does not change implements FileCopy.          *)
(***************************************************************************)

\* The states of the two processes, as FileCopy sees them.
LEMMA ClientStateIs ==
    ASSUME cexit = "OK" => cpc = "exit"
    PROVE  /\ cexit = "OK" => clientState = "OK"
           /\ cexit # "OK" /\ cpc \in {"fin", "finwait"} => clientState = "closing"
           /\ cexit # "OK" /\ cpc = "exit" => clientState = "failed"
           /\ cexit # "OK" /\ cpc \notin {"fin", "finwait", "exit"} => clientState = "sending"
BY Zenon DEF clientState

LEMMA ClientStateBecomes ==
    ASSUME cexit' = "OK" => cpc' = "exit"
    PROVE  /\ cexit' = "OK" => clientState' = "OK"
           /\ cexit' # "OK" /\ cpc' \in {"fin", "finwait"} => clientState' = "closing"
           /\ cexit' # "OK" /\ cpc' = "exit" => clientState' = "failed"
           /\ cexit' # "OK" /\ cpc' \notin {"fin", "finwait", "exit"} => clientState' = "sending"
BY Zenon DEF clientState

LEMMA ChildStateIs ==
    ASSUME spc # "exit" => sexit = "none"
    PROVE  /\ spc \in {"read", "write"} => childState = "receiving"
           /\ spc = "finack" => childState = "complete"
BY Zenon DEF childState

LEMMA ChildStateBecomes ==
    ASSUME spc' # "exit" => sexit' = "none"
    PROVE  /\ spc' \in {"read", "write"} => childState' = "receiving"
           /\ spc' = "finack" => childState' = "complete"
           /\ spc' = "exit" /\ sexit' = "OK" => childState' = "done"
           /\ spc' = "exit" /\ sexit' = "TIMEOUT" => childState' = "timeout"
           /\ spc' = "exit" /\ sexit' = "RUNTIME_ERROR" => childState' = "failed"
BY Zenon DEF childState

\* What is stored before something else is stored is the beginning of the file.
LEMMA StoredPrefix ==
    ASSUME NEW n \in Nat, NEW f \in Seq(Nat), NEW t \in Seq(Nat), f \o t = Source(n)
    PROVE  f = Source(Len(f)) /\ Len(f) \in Nat /\ Len(t) \in Nat /\ Len(f) + Len(t) = n
<1>1. Len(f) \in Nat /\ Len(t) \in Nat
  OBVIOUS
<1>2. /\ Len(Source(n)) = n
      /\ \A k \in Nat : Source(k) \in Seq(Nat) /\ Len(Source(k)) = k
  BY DEF Source
<1>3. /\ Len(f \o t) = Len(f) + Len(t)
      /\ \A i \in 1 .. Len(f) + Len(t) :
            (f \o t)[i] = IF i <= Len(f) THEN f[i] ELSE t[i - Len(f)]
  BY Zenon, ConcatProperties
<1>4. n = Len(f) + Len(t)
  BY Zenon, <1>2, <1>3
<1>5. ASSUME NEW i \in 1 .. Len(f)
      PROVE  f[i] = Source(Len(f))[i]
  <2>1. i \in 1 .. Len(f) + Len(t) /\ i <= Len(f) /\ i \in 1 .. n
    BY <1>1, <1>4
  <2>2. f[i] = Source(n)[i]
    BY Zenon, <1>3, <2>1
  <2> QED
    BY Zenon, <2>1, <2>2 DEF Source
<1>6. Source(Len(f)) \in Seq(Nat) /\ Len(Source(Len(f))) = Len(f)
  BY Zenon, <1>1, <1>2
<1>7. f = Source(Len(f))
  BY Zenon, <1>5, <1>6, SeqEqual
<1> QED
  BY Zenon, <1>1, <1>4, <1>7

\* What the mapping needs to know.
CopyInv ==
    /\ size \in Nat /\ sread \in Nat /\ sfile \in Seq(Nat) /\ pending \in Seq(Nat)
    /\ written <= sread /\ sread <= size
    /\ cexit = "OK" => cpc = "exit"
    /\ spc # "exit" => exists /\ sexit = "none"
    /\ spc = "read" => pending = <<>>
    /\ sexit # "BAD_REQUEST"
    /\ sfile \o pending = Source(sread)
    /\ \A j \in 1 .. Len(toServer) : toServer[j].cmd = "FIN" =>
           cpc \in {"fin", "finwait"} \/ cexit = "OK"

LEMMA CopyInvHolds == IInv /\ flen = size => CopyInv
<1> SUFFICES ASSUME IInv, flen = size PROVE CopyInv
  OBVIOUS
<1>1. TypeOK /\ WindowInv /\ ProgressInv /\ FinInv /\ FileInv
  BY Zenon DEF IInv
<1>2. /\ size \in Nat /\ sread \in Nat /\ sfile \in Seq(Nat) /\ pending \in Seq(Nat)
      /\ pos \in 0 .. flen
  BY Zenon, <1>1 DEF TypeOK
<1>3. written <= sread /\ sread <= pos
  BY Zenon, <1>1, Ordered
<1>4. sread <= size
  BY <1>2, <1>3
<1>5. /\ cexit = "OK" => cpc = "exit"
      /\ \A j \in 1 .. Len(toServer) : toServer[j].cmd = "FIN" =>
           cpc \in {"fin", "finwait"} \/ cexit = "OK"
  BY Zenon, <1>1 DEF FinInv
<1>6. /\ spc # "exit" => exists /\ sexit = "none"
      /\ spc = "read" => pending = <<>>
      /\ sexit # "BAD_REQUEST"
      /\ sfile \o pending = Source(sread)
  BY Zenon, <1>1 DEF FileInv, NoFalseReject, StoredInOrder
<1> QED
  BY Zenon, <1>2, <1>3, <1>4, <1>5, <1>6 DEF CopyInv

\* The steps of the client that FileCopy sees.
LEMMA ClientStepFrame ==
    ASSUME ClientStep
    PROVE  /\ UNCHANGED <<size, spc, sexit, sread, sfile, exists>>
           /\ \/ cpc = "send" /\ cpc' = "exit" /\ cexit' # "OK"
              \/ cpc = "loop" /\ written = size /\ cpc' = "finwait" /\ cexit' = cexit
              \/ cpc \in {"fin", "finwait"} /\ cpc' = "exit" /\ cexit' = "OK"
              \/ /\ cpc \in {"fin", "finwait"} /\ cpc' \in {"fin", "finwait"}
                 /\ cexit' = cexit
              \/ /\ cpc \notin {"fin", "finwait", "exit"}
                 /\ cpc' \notin {"fin", "finwait", "exit"}
                 /\ cexit' = cexit
BY Zenon DEF ClientStep, serverVars,
       ClientFill, ClientStartSend, ClientSend, ClientExit, ClientSendError,
       ClientTimeout, ClientPoll, ClientRecvNothing, ClientRecv, ClientAckPop,
       ClientAckDone, ClientStartFin, ClientFin, ClientFinNothing, ClientFinSkip,
       ClientFinAcked, ClientFinTimeout

LEMMA ClientMaps ==
    ASSUME CopyInv, CopyInv', ClientStep
    PROVE  [Copy!Next]_(Copy!vars)
<1>1. /\ cexit = "OK" => cpc = "exit"
      /\ cexit' = "OK" => cpc' = "exit"
      /\ written <= sread /\ sread <= size /\ size \in Nat /\ sread \in Nat
  BY Zenon DEF CopyInv
<1>2. UNCHANGED <<size, sread, sfile, exists>> /\ childState' = childState
  BY Zenon, ClientStepFrame DEF childState
<1>3. CASE cpc = "send" /\ cpc' = "exit" /\ cexit' # "OK"
  <2>1. clientState = "sending" /\ clientState' = "failed"
    BY Zenon, <1>1, <1>3, ClientStateIs, ClientStateBecomes
  <2> QED
    BY Zenon, <1>2, <2>1 DEF Copy!Next, Copy!ClientFails
<1>4. CASE cpc = "loop" /\ written = size /\ cpc' = "finwait" /\ cexit' = cexit
  <2>1. clientState = "sending" /\ clientState' = "closing"
    BY Zenon, <1>1, <1>4, ClientStateIs, ClientStateBecomes
  <2>2. sread = size
    BY <1>1, <1>4
  <2> QED
    BY Zenon, <1>2, <2>1, <2>2 DEF Copy!Next, Copy!ClientClose
<1>5. CASE cpc \in {"fin", "finwait"} /\ cpc' = "exit" /\ cexit' = "OK"
  <2>1. clientState = "closing" /\ clientState' = "OK"
    BY Zenon, <1>1, <1>5, ClientStateIs, ClientStateBecomes
  <2> QED
    BY Zenon, <1>2, <2>1 DEF Copy!Next, Copy!ClientExit
<1>6. CASE /\ cpc \in {"fin", "finwait"} /\ cpc' \in {"fin", "finwait"}
           /\ cexit' = cexit
  <2>1. clientState = "closing" /\ clientState' = "closing"
    BY Zenon, <1>1, <1>6, ClientStateIs, ClientStateBecomes
  <2> QED
    BY Zenon, <1>2, <2>1 DEF Copy!vars
<1>7. CASE /\ cpc \notin {"fin", "finwait", "exit"}
           /\ cpc' \notin {"fin", "finwait", "exit"}
           /\ cexit' = cexit
  <2>1. clientState = "sending" /\ clientState' = "sending"
    BY Zenon, <1>1, <1>7, ClientStateIs, ClientStateBecomes
  <2> QED
    BY Zenon, <1>2, <2>1 DEF Copy!vars
<1> QED
  BY Zenon, <1>3, <1>4, <1>5, <1>6, <1>7, ClientStepFrame

LEMMA ServerMaps ==
    ASSUME CopyInv, CopyInv', TypeOK, ServerStep
    PROVE  [Copy!Next]_(Copy!vars)
<1>1. /\ size \in Nat /\ sread \in Nat /\ sfile \in Seq(Nat) /\ pending \in Seq(Nat)
      /\ sread <= size /\ (cexit = "OK" => cpc = "exit")
      /\ spc # "exit" => exists /\ sexit = "none"
      /\ spc = "read" => pending = <<>>
      /\ sfile \o pending = Source(sread)
  BY Zenon DEF CopyInv
<1>2. /\ sread' \in Nat /\ sread' <= size' /\ sfile' \in Seq(Nat) /\ pending' \in Seq(Nat)
      /\ spc' # "exit" => sexit' = "none"
      /\ sexit' # "BAD_REQUEST"
      /\ sfile' \o pending' = Source(sread')
  <2>1. Source(sread)' = Source(sread')
    BY Zenon DEF Source
  <2> QED
    BY Zenon, <2>1 DEF CopyInv
<1>3. UNCHANGED <<size, cpc, cexit>> /\ clientState' = clientState
  BY Zenon DEF ServerStep, clientVars, clientState, ServerExit, ServerTimeout,
         ServerWrongData, ServerData, ServerWrite, ServerExcess, ServerWriteError,
         ServerEarlyFin, ServerFin, ServerFinAck, ServerClose
<1>4. spc = "read" => Len(sfile) = sread
  <2>1. spc = "read" => sfile = Source(sread)
    BY Zenon, <1>1, ConcatEmptySeq
  <2> QED
    BY <1>1, <2>1 DEF Source
<1>5. \A n : Copy!FirstBytes(n) = Source(n)
  BY Zenon DEF Source, Copy!FirstBytes
<1>6. CASE ServerTimeout
  <2>1. /\ spc = "read" /\ spc' = "exit" /\ sexit' = "TIMEOUT" /\ exists' = FALSE
        /\ UNCHANGED <<sread, sfile>>
    BY Zenon, <1>6 DEF ServerTimeout, ServerExit
  <2>2. childState = "receiving" /\ childState' = "timeout"
    BY Zenon, <1>1, <1>2, <2>1, ChildStateIs, ChildStateBecomes
  <2> QED
    BY Zenon, <1>3, <2>1, <2>2 DEF Copy!Next, Copy!ChildTimeout
<1>7. CASE ServerWrongData \/ ServerFinAck
  BY Zenon, <1>3, <1>7 DEF ServerWrongData, ServerFinAck, serverVars, childState, Copy!vars
<1>8. CASE ServerData
  <2>1. spc = "read" /\ spc' = "write" /\ UNCHANGED <<sfile, exists>>
    BY Zenon, <1>8 DEF ServerData
  <2>2. childState = "receiving" /\ childState' = "receiving"
    BY Zenon, <1>1, <1>2, <2>1, ChildStateIs, ChildStateBecomes
  <2>3. sread <= sread'
    <3>1. PICK p \in Packets : p = Head(toServer)
      BY Zenon, <1>8, TailIs DEF ServerData, TypeOK
    <3>2. p.len \in Nat /\ sread' = sread + p.len
      BY Zenon, <1>8, <3>1 DEF ServerData, Packets
    <3> QED
      BY <1>1, <3>2
  <2>4. sread' \in sread .. size
    BY <1>1, <1>2, <1>3, <2>3
  <2> QED
    BY Zenon, <1>3, <1>4, <2>1, <2>2, <2>4 DEF Copy!Next, Copy!Accept
<1>9. CASE ServerWrite
  <2>1. /\ spc = "write" /\ spc' = "read" /\ sfile' = sfile \o pending
        /\ UNCHANGED <<sread, exists>>
    BY Zenon, <1>9 DEF ServerWrite
  <2>2. childState = "receiving" /\ childState' = "receiving"
    BY Zenon, <1>1, <1>2, <2>1, ChildStateIs, ChildStateBecomes
  <2>3. sfile' = Copy!FirstBytes(sread)
    BY Zenon, <1>1, <1>5, <2>1
  <2> QED
    BY Zenon, <1>3, <2>1, <2>2, <2>3 DEF Copy!Next, Copy!Store
<1>10. CASE ServerExcess \/ ServerEarlyFin
  BY Zenon, <1>2, <1>10 DEF ServerExcess, ServerEarlyFin, ServerExit
<1>11. ASSUME NEW k \in 0 .. PAYLOAD_SIZE - 1, ServerWriteError(k)
       PROVE  [Copy!Next]_(Copy!vars)
  <2>1. /\ spc = "write" /\ spc' = "exit" /\ sexit' = "RUNTIME_ERROR"
        /\ k < Len(pending) /\ sfile' = sfile \o SubSeq(pending, 1, k)
        /\ pending' = SubSeq(pending, k + 1, Len(pending))
        /\ UNCHANGED <<sread, exists>>
    BY Zenon, <1>11 DEF ServerWriteError, ServerExit
  <2>2. childState = "receiving" /\ childState' = "failed"
    BY Zenon, <1>1, <1>2, <2>1, ChildStateIs, ChildStateBecomes
  <2>3. k \in Nat /\ Len(pending) \in Nat
    BY <1>1, PayloadAssumption
  <2>4. Len(pending') = Len(pending) - k
    BY <1>1, <2>1, <2>3
  <2>5. /\ sfile' = Source(Len(sfile')) /\ Len(sfile') \in Nat
        /\ Len(sfile') + Len(pending') = sread
    BY Zenon, <1>1, <1>2, <2>1, StoredPrefix
  <2>6. Len(sfile) \in Nat /\ Len(sfile) + Len(pending) = sread
    BY Zenon, <1>1, StoredPrefix
  <2>7. Len(sfile') \in Len(sfile) .. sread - 1
    BY SMTT(40), <1>1, <2>1, <2>3, <2>4, <2>5, <2>6
  <2>8. sfile' = Copy!FirstBytes(Len(sfile'))
    BY Zenon, <1>5, <2>5
  <2> QED
    BY Zenon, <1>3, <2>1, <2>2, <2>7, <2>8 DEF Copy!Next, Copy!StoreFails
<1>12. CASE ServerFin
  <2>1. /\ spc = "read" /\ spc' = "finack" /\ sread = size
        /\ UNCHANGED <<sread, sfile, exists>>
    BY Zenon, <1>12 DEF ServerFin
  <2>2. childState = "receiving" /\ childState' = "complete"
    BY Zenon, <1>1, <1>2, <2>1, ChildStateIs, ChildStateBecomes
  <2>3. cpc \in {"fin", "finwait"} \/ cexit = "OK"
    <3>1. toServer \in Seq(Packets) /\ toServer # <<>> /\ Head(toServer).cmd = "FIN"
      BY Zenon, <1>12 DEF ServerFin, TypeOK
    <3>2. Head(toServer) = toServer[1] /\ 1 \in 1 .. Len(toServer)
      BY <3>1, TailIs
    <3> QED
      BY Zenon, <3>1, <3>2 DEF CopyInv
  <2>4. clientState \in {"closing", "OK"}
    BY Zenon, <1>1, <2>3, ClientStateIs
  <2> QED
    BY Zenon, <1>3, <1>4, <2>1, <2>2, <2>4 DEF Copy!Next, Copy!ChildComplete
<1>13. CASE ServerClose
  <2>1. /\ spc = "finack" /\ spc' = "exit" /\ sexit' = "OK"
        /\ UNCHANGED <<sread, sfile, exists>>
    BY Zenon, <1>13 DEF ServerClose, ServerExit
  <2>2. childState = "complete" /\ childState' = "done"
    BY Zenon, <1>1, <1>2, <2>1, ChildStateIs, ChildStateBecomes
  <2> QED
    BY Zenon, <1>3, <2>1, <2>2 DEF Copy!Next, Copy!ChildDone
<1> QED
  BY Zenon, <1>6, <1>7, <1>8, <1>9, <1>10, <1>11, <1>12, <1>13 DEF ServerStep

LEMMA CopyInit == Init => Copy!Init
<1> HAVE Init
<1>1. /\ size \in Nat /\ cpc = "loop" /\ cexit = "none" /\ spc = "read" /\ sexit = "none"
      /\ sread = 0 /\ sfile = <<>> /\ exists = TRUE
  BY MaxSizeAssumption DEF Init
<1>2. clientState = "sending" /\ childState = "receiving"
  BY Zenon, <1>1 DEF clientState, childState
<1> QED
  BY Zenon, <1>1, <1>2 DEF Copy!Init

\* Over an in-order network a transfer of an unchanging file is a FileCopy:
\* bytes are accepted and stored in order, only a time-out deletes the file,
\* and neither side closes before the other has accepted, or stored,
\* everything (ftpclient.c:100-199, ftpserver.c:136-200).
THEOREM ImplementsFileCopyHolds ==
    InOrderNetwork /\ ~FileMayChange => (Spec => ImplementsFileCopy)
<1> SUFFICES ASSUME InOrderNetwork, ~FileMayChange PROVE Spec => ImplementsFileCopy
  OBVIOUS
<1>1. Init => flen = size
  BY Zenon DEF Init
<1>2. flen = size /\ [Next]_vars => (flen = size)'
  BY Zenon, SizeFrame
<1>3. TypeOK /\ CopyInv /\ CopyInv' /\ [Next]_vars => [Copy!Next]_(Copy!vars)
  <2> SUFFICES ASSUME TypeOK, CopyInv, CopyInv', [Next]_vars
               PROVE  [Copy!Next]_(Copy!vars)
    OBVIOUS
  <2>1. CASE ReorderData \/ ReorderReplies \/ Terminated \/ UNCHANGED vars
    BY Zenon, <2>1 DEF ReorderData, ReorderReplies, Terminated, vars, clientVars, serverVars,
                clientState, childState, Copy!vars
  <2> QED
    BY Zenon, <2>1, ClientMaps, ServerMaps DEF Next
<1>4. IInv => TypeOK
  BY Zenon DEF IInv
<1> QED
  BY <1>1, <1>2, <1>3, <1>4, InvHolds, CopyInvHolds, CopyInit, PTL
  DEF Spec, ImplementsFileCopy, Copy!Spec

=============================================================================
