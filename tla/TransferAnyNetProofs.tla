------------------------ MODULE TransferAnyNetProofs ------------------------
(***************************************************************************)
(* What holds of a transfer over every network of the model, one that      *)
(* reorders datagrams included, and whether or not the client finds        *)
(* memory for its packets.                                                 *)
(***************************************************************************)
EXTENDS TransferFifoProofs

-----------------------------------------------------------------------------
(***************************************************************************)
(* The inductive invariants.                                               *)
(***************************************************************************)

\* The window holds disjoint slices of the file, in order, of which none is
\* counted as acknowledged and none is beyond what has been read; the client
\* closes when as many bytes are acknowledged as were announced.
SliceInv ==
    /\ written <= pos
    /\ \A i \in 1 .. Len(packets) :
           written <= packets[i].off /\ packets[i].off + packets[i].len <= pos
    /\ \A i, j \in 1 .. Len(packets) : i < j =>
           packets[i].off + packets[i].len <= packets[j].off
    /\ cpc \in {"fin", "finwait"} \/ cexit = "OK" => written = size
    /\ cexit = "OK" => cpc = "exit"

\* Where the file is cut after n packets.
Cut(n) == IF n * PAYLOAD_SIZE < size THEN n * PAYLOAD_SIZE ELSE size

\* Every packet of a file that does not change is full until the file ends.
CutInv ==
    flen = size =>
        /\ Len(packets) <= made
        /\ pos = Cut(made) /\ written = Cut(Base)
        /\ cpc = "loop" => read <= pos
        /\ \A i \in 1 .. Len(packets) :
               /\ packets[i].off = Cut(Base + i - 1)
               /\ packets[i].off + packets[i].len = Cut(Base + i)
        /\ PacketBound

Has(ch, p) == \E i \in 1 .. Len(ch) : ch[i] = p

\* A DATA packet that the client or the network still has.
Around(p) == p.cmd = "DATA" /\ (Has(packets, p) \/ Has(toServer, p))

\* The packets that are around are the ones the client made, each the
\* continuation of the one before, and the server waits for the continuation
\* of what it has.
AroundInv ==
    /\ sequence = SeqOf(made + 1) /\ expected_sequence = SeqOf(got + 1)
    /\ got <= made
    /\ got = made => sread = pos
    /\ \A p \in Packets : Around(p) =>
        /\ p.n \in 1 .. made /\ p.seq = SeqOf(p.n)
        /\ p.n = made => p.off + p.len = pos
        /\ p.n = got + 1 => p.off = sread
    /\ \A p, q \in Packets : Around(p) /\ Around(q) =>
        /\ p.n = q.n => p = q
        /\ q.n = p.n + 1 => q.off = p.off + p.len

\* What the server's program counter and exit status say about its file, over
\* any network.
StoredInv ==
    /\ StoredInOrder
    /\ spc # "exit" => exists /\ sexit = "none"
    /\ spc \in {"read", "finack"} \/ sexit = "OK" => pending = <<>>
    /\ sexit = "OK" => exists
    /\ spc = "finack" \/ sexit = "OK" => sread = size
    /\ \A i \in 1 .. Len(toClient) : toClient[i].cmd = "FINACK" =>
           spc = "finack" \/ sexit = "OK"

-----------------------------------------------------------------------------
(***************************************************************************)
(* The window.                                                             *)
(***************************************************************************)

\* Filling the window adds the bytes that follow what has been read.
LEMMA FillAdds ==
    ASSUME TypeOK, ReadWithinSize, ClientFill
    PROVE  LET p == create_packet("DATA", sequence, Chunk, pos, made + 1) IN
           /\ Chunk \in Nat /\ pos' = pos + Chunk /\ made' = made + 1 /\ p \in Packets
           /\ Len(packets) \in Nat /\ Len(packets') = Len(packets) + 1
           /\ \A i \in 1 .. Len(packets) : packets'[i] = packets[i]
           /\ packets'[Len(packets) + 1] = p
           /\ UNCHANGED <<cpc, size, flen, written, cexit, serverVars, toServer>>
<1> DEFINE p == create_packet("DATA", sequence, Chunk, pos, made + 1)
<1>1. Chunk \in Nat
  BY Zenon, ChunkBounds DEF ReadWithinSize, ClientFill
<1> HIDE DEF Chunk
<1>2. packets' = Append(packets, p) /\ packets \in Seq(Packets)
  BY Zenon DEF ClientFill, TypeOK
<1>3. p \in Packets
  BY <1>1, CommandTyped DEF TypeOK, Commands
<1>4. /\ pos' = pos + Chunk /\ made' = made + 1
      /\ UNCHANGED <<cpc, size, flen, written, cexit, serverVars, toServer>>
  BY Zenon DEF ClientFill
<1> HIDE DEF p
<1>5. /\ Len(packets) \in Nat /\ Len(packets') = Len(packets) + 1
      /\ \A i \in 1 .. Len(packets) : packets'[i] = packets[i]
      /\ packets'[Len(packets) + 1] = p
  BY <1>2, <1>3
<1> QED
  BY Zenon, <1>1, <1>3, <1>4, <1>5 DEF p

\* An ACK that removes a packet removes the first one.
LEMMA PopDrops ==
    ASSUME TypeOK, ClientAckPop
    PROVE  /\ Len(packets) \in Nat /\ Len(packets) > 0 /\ Len(packets') = Len(packets) - 1
           /\ \A i \in 1 .. Len(packets') : packets'[i] = packets[i + 1]
           /\ packets[1] \in Packets
           /\ written' = written + packets[1].len
           /\ UNCHANGED <<cpc, size, flen, pos, read, cexit, made, sequence, serverVars, toServer>>
<1>1. packets # <<>> /\ packets \in Seq(Packets)
  BY Zenon DEF ClientAckPop, AckDone, TypeOK
<1>2. packets' = Tail(packets)
  BY Zenon DEF ClientAckPop
<1>3. /\ Len(packets) \in Nat /\ Len(packets) > 0 /\ Len(packets') = Len(packets) - 1
      /\ \A i \in 1 .. Len(packets') : packets'[i] = packets[i + 1]
  BY <1>1, <1>2, TailIs
<1>4. packets[1] \in Packets
  BY Zenon, <1>1, TailIs
<1> QED
  BY Zenon, <1>3, <1>4 DEF ClientAckPop

LEMMA SliceStep ==
    ASSUME TypeOK, ReadWithinSize, SliceInv, [Next \/ ClientFillFails]_vars
    PROVE  SliceInv'
<1>1. packets \in Seq(Packets) /\ pos \in Nat /\ written \in Nat
  BY DEF TypeOK
<1>2. ASSUME NEW i \in 1 .. Len(packets)
      PROVE  packets[i].off \in Nat /\ packets[i].len \in Nat
  <2>1. packets[i] \in Packets
    BY <1>1
  <2> QED
    BY Zenon, <2>1 DEF Packets
<1>3. CASE ClientFill
  <2> DEFINE m == Len(packets) + 1
  <2>1. /\ Len(packets) \in Nat /\ Len(packets') = m /\ pos' = pos + Chunk /\ Chunk \in Nat
        /\ \A i \in 1 .. Len(packets) : packets'[i] = packets[i]
        /\ packets'[m].off = pos /\ packets'[m].len = Chunk
        /\ UNCHANGED <<cpc, size, written, cexit>>
    BY <1>3, FillAdds DEF create_packet
  <2> HIDE DEF Chunk
  <2>2. \A i \in 1 .. Len(packets') : i \in 1 .. Len(packets) \/ i = m
    BY <2>1
  <2>3. ASSUME NEW i \in 1 .. Len(packets')
        PROVE  written' <= packets'[i].off /\ packets'[i].off + packets'[i].len <= pos'
    <3>1. CASE i \in 1 .. Len(packets)
      <4>1. written <= packets[i].off /\ packets[i].off + packets[i].len <= pos
        BY Zenon, <3>1 DEF SliceInv
      <4>2. packets[i].off \in Nat /\ packets[i].len \in Nat
        BY Zenon, <1>2, <3>1
      <4>3. packets'[i] = packets[i] /\ written' = written /\ pos' >= pos
        BY <1>1, <2>1, <3>1
      <4>4. packets[i].off + packets[i].len <= pos'
        BY <1>1, <2>1, <4>1, <4>2, <4>3
      <4> QED
        BY Zenon, <4>1, <4>3, <4>4
    <3>2. CASE i = m
      BY <1>1, <2>1, <3>2 DEF SliceInv
    <3> QED
      BY Zenon, <2>2, <3>1, <3>2
  <2>4. \A i, j \in 1 .. Len(packets') : i < j =>
           packets'[i].off + packets'[i].len <= packets'[j].off
    BY SMTT(40), <1>1, <1>2, <2>1, <2>2 DEF SliceInv
  <2> QED
    BY <1>1, <2>1, <2>3, <2>4 DEF SliceInv
<1>4. CASE ClientAckPop
  <2>1. /\ Len(packets) \in Nat /\ Len(packets) > 0 /\ Len(packets') = Len(packets) - 1
        /\ \A i \in 1 .. Len(packets') : packets'[i] = packets[i + 1]
        /\ written' = written + packets[1].len
        /\ UNCHANGED <<cpc, size, pos, cexit>>
    BY Zenon, <1>4, PopDrops
  <2>2. 1 \in 1 .. Len(packets) /\ \A i \in 1 .. Len(packets') : i + 1 \in 1 .. Len(packets) /\ 1 < i + 1
    BY <2>1
  <2>3. written' <= packets[1].off + packets[1].len
    BY <1>1, <1>2, <2>1, <2>2 DEF SliceInv
  <2>4. \A i \in 1 .. Len(packets') :
           /\ packets[1].off + packets[1].len <= packets'[i].off
           /\ packets'[i].off + packets'[i].len <= pos'
    BY Zenon, <2>1, <2>2 DEF SliceInv
  <2>5. ASSUME NEW i \in 1 .. Len(packets')
        PROVE  written' <= packets'[i].off
    <3>1. packets[1].off + packets[1].len <= packets[i + 1].off
      BY Zenon, <2>1, <2>4
    <3>2. written + packets[1].len <= packets[1].off + packets[1].len
      BY Zenon, <2>1, <2>3
    <3>3. packets[1].off \in Nat /\ packets[1].len \in Nat /\ packets[i + 1].off \in Nat
      BY Zenon, <1>2, <2>2
    <3>4. written + packets[1].len <= packets[i + 1].off
      BY SMTT(40), <1>1, <3>1, <3>2, <3>3
    <3> QED
      BY Zenon, <2>1, <3>4
  <2>6. \A i, j \in 1 .. Len(packets') : i < j =>
           packets'[i].off + packets'[i].len <= packets'[j].off
    BY SMTT(40), <2>1, <2>2 DEF SliceInv
  <2>7. written' <= pos'
    <3>1. packets[1].off + packets[1].len <= pos
      BY Zenon, <2>2 DEF SliceInv
    <3> QED
      BY <1>1, <1>2, <2>1, <2>2, <2>3, <3>1
  <2>8. cpc = "ack" /\ cexit # "OK"
    BY Zenon, <1>4 DEF ClientAckPop, SliceInv
  <2> QED
    BY Zenon, <2>1, <2>4, <2>5, <2>6, <2>7, <2>8 DEF SliceInv
<1>5. CASE ClientFillFails
  <2>1. Chunk \in Nat
    BY Zenon, <1>5, ChunkBounds DEF ReadWithinSize, ClientFillFails
  <2> HIDE DEF Chunk
  <2>2. pos' = pos + Chunk /\ UNCHANGED <<cpc, size, packets, written, cexit>>
    BY Zenon, <1>5 DEF ClientFillFails
  <2>3. \A i \in 1 .. Len(packets) : packets[i].off + packets[i].len <= pos'
    BY SMTT(40), <1>1, <1>2, <2>1, <2>2 DEF SliceInv
  <2> QED
    BY <1>1, <2>1, <2>2, <2>3 DEF SliceInv
<1>6. CASE UNCHANGED <<packets, written, pos, size>> /\ [Next]_vars
  <2>1. /\ cpc' \in {"fin", "finwait"} \/ cexit' = "OK" => written = size
        /\ cexit' = "OK" => cpc' = "exit"
    <3>1. CASE ClientStartFin
      BY Zenon, <3>1 DEF ClientStartFin, SliceInv
    <3> QED
      BY Zenon, <1>6, <3>1, ClosingFrame DEF SliceInv
  <2> QED
    BY Zenon, <1>6, <2>1 DEF SliceInv
<1> QED
  BY Zenon, <1>3, <1>4, <1>5, <1>6, WindowFrame

LEMMA SliceInit == Init => SliceInv
<1> HAVE Init
<1>1. Len(packets) = 0
  BY Zenon DEF Init
<1> QED
  BY <1>1 DEF Init, SliceInv

\* Over any network, and whether or not the client finds memory, a client whose
\* file is shorter than the size it announced does not exit with status 0: it
\* compares bytes acknowledged with bytes announced, and it counts no byte
\* twice (ftpclient.c:100, 141-159).
THEOREM ShortFileNeverOKHolds == SpecMallocFails => []ShortFileNeverOK
<1>1. TypeOK /\ ReadWithinSize /\ SliceInv /\ [Next \/ ClientFillFails]_vars => SliceInv'
  BY Zenon, SliceStep
<1>2. TypeOK /\ SliceInv => ShortFileNeverOK
  BY DEF TypeOK, SliceInv, ShortFileNeverOK
<1> QED
  BY <1>1, <1>2, SliceInit, TypeCorrect, PTL DEF SpecMallocFails

-----------------------------------------------------------------------------
(***************************************************************************)
(* How many packets a file takes.                                          *)
(***************************************************************************)

LEMMA CutIs ==
    ASSUME size \in Nat, NEW n \in Nat
    PROVE  /\ Cut(n) \in Nat /\ Cut(n) <= size /\ Cut(0) = 0
           /\ Cut(n) < size => n * PAYLOAD_SIZE < size
           /\ Cut(n + 1) = Cut(n) + (IF size - Cut(n) < PAYLOAD_SIZE THEN size - Cut(n)
                                                                   ELSE PAYLOAD_SIZE)
<1>1. PICK a \in Nat : a = n * PAYLOAD_SIZE
  BY PayloadAssumption
<1>2. (n + 1) * PAYLOAD_SIZE = a + PAYLOAD_SIZE /\ 0 * PAYLOAD_SIZE = 0
  BY <1>1, PayloadAssumption
<1> QED
  BY <1>1, <1>2, PayloadAssumption DEF Cut

\* n full packets that do not reach the end of the file leave room for one more.
LEMMA RoomForOneMore ==
    ASSUME NEW s \in Nat, NEW n \in Nat, n * PAYLOAD_SIZE < s
    PROVE  /\ n + 1 <= (s + PAYLOAD_SIZE - 1) \div PAYLOAD_SIZE
           /\ (s + PAYLOAD_SIZE - 1) \div PAYLOAD_SIZE \in Int
<1> DEFINE x == s + PAYLOAD_SIZE - 1
           q == x \div PAYLOAD_SIZE
           r == x % PAYLOAD_SIZE
<1>1. x \in Nat
  BY PayloadAssumption
<1>2. q \in Int /\ r \in 0 .. PAYLOAD_SIZE - 1 /\ x = PAYLOAD_SIZE * q + r
  BY <1>1, PayloadAssumption
<1> HIDE DEF q, r
<1>3. (n + 1) * PAYLOAD_SIZE = n * PAYLOAD_SIZE + PAYLOAD_SIZE /\ n * PAYLOAD_SIZE \in Nat
  BY PayloadAssumption
<1>4. (n + 1) * PAYLOAD_SIZE <= x
  BY <1>3, PayloadAssumption
<1>5. CASE n + 1 > q
  <2>1. n + 1 - q >= 1 /\ n + 1 - q \in Int
    BY <1>2, <1>5
  <2>2. PAYLOAD_SIZE * (n + 1 - q) >= PAYLOAD_SIZE
    BY <2>1, PayloadAssumption
  <2>3. PAYLOAD_SIZE * (n + 1 - q) = (n + 1) * PAYLOAD_SIZE - PAYLOAD_SIZE * q
    BY SMTT(40), <1>2, PayloadAssumption
  <2> QED
    BY SMTT(40), <1>1, <1>2, <1>3, <1>4, <2>2, <2>3, PayloadAssumption
<1> QED
  BY <1>2, <1>5 DEF q

\* The window is filled again only after a read that found nothing.
LEMMA LoopFrame ==
    ASSUME [Next]_vars, cpc' = "loop"
    PROVE  ClientFill \/ ClientRecvNothing \/ (cpc = "loop" /\ read' = read)
BY Zenon DEF Next, ClientStep, ServerStep, Terminated, vars, clientVars, serverVars,
       ClientStartSend, ClientSend, ClientExit, ClientSendError,
       ClientTimeout, ClientPoll, ClientRecv, ClientAckPop,
       ClientAckDone, ClientStartFin, ClientFin, ClientFinNothing, ClientFinSkip,
       ClientFinAcked, ClientFinTimeout, ServerExit, ServerTimeout,
       ServerWrongData, ServerData, ServerWrite, ServerExcess, ServerWriteError,
       ServerEarlyFin, ServerFin, ServerFinAck, ServerClose, ReorderData,
       ReorderReplies

\* Cut is about the announced size, which does not change.
LEMMA CutStays == ASSUME size' = size, NEW n PROVE Cut(n)' = Cut(n)
BY Zenon DEF Cut

LEMMA CutFill ==
    ASSUME TypeOK, ReadWithinSize, CutInv, ClientFill, flen = size
    PROVE  CutInv'
<1>1. /\ size \in Nat /\ pos \in Nat /\ made \in Nat /\ read \in Int /\ read <= pos /\ pos <= flen
      /\ Len(packets) <= made /\ pos = Cut(made) /\ written = Cut(Base)
  BY DEF TypeOK, CutInv, ClientFill
<1> DEFINE m == Len(packets) + 1
<1>2. /\ Len(packets) \in Nat /\ Len(packets') = m /\ pos' = pos + Chunk /\ Chunk \in Nat
      /\ made' = made + 1
      /\ \A i \in 1 .. Len(packets) : packets'[i] = packets[i]
      /\ packets'[m].off = pos /\ packets'[m].len = Chunk
      /\ UNCHANGED <<size, flen, written>> /\ read' = read + Chunk
  BY FillAdds DEF create_packet, ClientFill
<1>3. Chunk = IF size - pos < PAYLOAD_SIZE THEN size - pos ELSE PAYLOAD_SIZE
  BY <1>1, PayloadAssumption DEF Chunk, Remaining
<1>4. Cut(made + 1) = pos + Chunk
  BY Zenon, <1>1, <1>3, CutIs
<1> HIDE DEF Chunk
<1>5. Base \in Nat /\ Base' = Base /\ Base + m = made + 1
  BY SMTT(40), <1>1, <1>2 DEF Base
<1>6. /\ pos' = Cut(made + 1) /\ written' = Cut(Base) /\ read' <= pos'
      /\ Len(packets') <= made'
  BY <1>1, <1>2, <1>4
<1>7. ASSUME NEW i \in 1 .. Len(packets')
      PROVE  /\ packets'[i].off = Cut(Base + i - 1)
             /\ packets'[i].off + packets'[i].len = Cut(Base + i)
  <2>1. CASE i \in 1 .. Len(packets)
    BY Zenon, <1>2, <2>1 DEF CutInv
  <2>2. CASE i = m
    <3>1. Base + i = made + 1 /\ Base + i - 1 = made
      BY SMTT(40), <1>1, <1>5, <2>2
    <3> QED
      BY Zenon, <1>1, <1>2, <1>4, <2>2, <3>1
  <2> QED
    BY <1>2, <2>1, <2>2
<1>8. PacketBound'
  <2>1. Len(packets) < WINDOW_SIZE /\ written < size
    BY Zenon DEF ClientFill, WindowOpen
  <2>2. Base * PAYLOAD_SIZE < size
    BY Zenon, <1>1, <1>5, <2>1, CutIs
  <2>3. PICK k \in Int : k = (size + PAYLOAD_SIZE - 1) \div PAYLOAD_SIZE /\ Base + 1 <= k
    BY Zenon, <1>1, <1>5, <2>2, RoomForOneMore
  <2>4. made + 1 <= k + WINDOW_SIZE - 1
    <3>1. m \in Nat /\ m <= WINDOW_SIZE /\ WINDOW_SIZE \in Nat
      BY <1>2, <2>1, WindowAssumption
    <3>2. made + 1 = Base + m /\ Base + 1 <= k /\ Base \in Nat
      BY Zenon, <1>5, <2>3
    <3> QED
      BY <3>1, <3>2
  <2> QED
    BY Zenon, <1>2, <2>3, <2>4 DEF PacketBound
<1> QED
  <2>1. \A n : Cut(n)' = Cut(n)
    BY Zenon, <1>2, CutStays
  <2>2. Cut(made)' = Cut(made + 1) /\ Cut(Base)' = Cut(Base)
    BY Zenon, <1>2, <1>5 DEF Cut
  <2>3. \A i \in 1 .. Len(packets') : Cut(Base + i - 1)' = Cut(Base + i - 1) /\ Cut(Base + i)' = Cut(Base + i)
    BY Zenon, <1>2, <1>5 DEF Cut
  <2> QED
    BY <1>6, <1>7, <1>8, <2>2, <2>3 DEF CutInv

LEMMA CutPop ==
    ASSUME TypeOK, CutInv, ClientAckPop, flen = size
    PROVE  CutInv'
<1>1. /\ size \in Nat /\ made \in Nat
      /\ Len(packets) <= made /\ pos = Cut(made) /\ written = Cut(Base)
  BY Zenon DEF TypeOK, CutInv
<1>2. /\ Len(packets) \in Nat /\ Len(packets) > 0 /\ Len(packets') = Len(packets) - 1
      /\ \A i \in 1 .. Len(packets') : packets'[i] = packets[i + 1]
      /\ written' = written + packets[1].len
      /\ UNCHANGED <<cpc, size, flen, pos, made>>
  BY Zenon, PopDrops
<1>3. Base \in Nat /\ Base' = Base + 1
  BY <1>1, <1>2 DEF Base
<1>4. written' = Cut(Base + 1)
  <2>1. 1 \in 1 .. Len(packets) /\ Base + 1 - 1 = Base
    BY <1>2, <1>3
  <2>2. packets[1].off = Cut(Base) /\ packets[1].off + packets[1].len = Cut(Base + 1)
    BY Zenon, <2>1 DEF CutInv
  <2> QED
    BY Zenon, <1>1, <1>2, <2>2
<1>5. ASSUME NEW i \in 1 .. Len(packets')
      PROVE  /\ packets'[i].off = Cut(Base + 1 + i - 1)
             /\ packets'[i].off + packets'[i].len = Cut(Base + 1 + i)
  <2>1. i + 1 \in 1 .. Len(packets) /\ packets'[i] = packets[i + 1]
    BY <1>2
  <2>2. Base + 1 + i - 1 = Base + (i + 1) - 1 /\ Base + 1 + i = Base + (i + 1)
    BY <1>3
  <2> QED
    BY Zenon, <2>1, <2>2 DEF CutInv
<1>6. /\ Cut(made)' = Cut(made) /\ Cut(Base)' = Cut(Base + 1)
      /\ \A i \in 1 .. Len(packets') :
            Cut(Base + i - 1)' = Cut(Base + 1 + i - 1) /\ Cut(Base + i)' = Cut(Base + 1 + i)
  BY Zenon, <1>2, <1>3 DEF Cut
<1>7. Len(packets') <= made' /\ cpc' # "loop"
  BY <1>1, <1>2 DEF ClientAckPop
<1>8. PacketBound'
  BY Zenon, <1>2 DEF PacketBound, CutInv
<1> QED
  BY Zenon, <1>1, <1>2, <1>4, <1>5, <1>6, <1>7, <1>8 DEF CutInv

LEMMA CutStep ==
    ASSUME TypeOK, ReadWithinSize, CutInv, [Next]_vars
    PROVE  CutInv'
<1>1. size' = size /\ flen' = flen
  BY Zenon, SizeFrame
<1> SUFFICES ASSUME flen = size PROVE CutInv'
  BY Zenon, <1>1 DEF CutInv
<1>2. CASE UNCHANGED <<packets, written, pos, made>>
  <2>1. cpc' = "loop" /\ ~ClientFill => read' <= pos'
    <3>1. ClientRecvNothing => read' = -1
      BY Zenon DEF ClientRecvNothing
    <3>2. pos \in Nat
      BY DEF TypeOK
    <3> QED
      BY <1>2, <3>1, <3>2, LoopFrame DEF CutInv
  <2> QED
    BY Zenon, <1>1, <1>2, <2>1, CutFill DEF CutInv, Base, Cut, PacketBound
<1> QED
  BY Zenon, <1>2, CutFill, CutPop, WindowFrame

LEMMA CutInit == Init => CutInv
<1> HAVE Init
<1>1. /\ Len(packets) = 0 /\ made = 0 /\ pos = 0 /\ written = 0 /\ read = 0 /\ size \in Nat
  BY MaxSizeAssumption DEF Init
<1>2. Base = 0 /\ Cut(0) = 0
  BY <1>1, CutIs DEF Base
<1>3. PacketBound
  <2>1. (size + PAYLOAD_SIZE - 1) \div PAYLOAD_SIZE \in Nat
    BY <1>1, PayloadAssumption
  <2> QED
    BY <1>1, <2>1, WindowAssumption DEF PacketBound
<1> QED
  BY <1>1, <1>2, <1>3 DEF CutInv

\* Over any network the client makes no more packets than its file needs and
\* fewer empty ones than a window holds (ftpclient.c:102-112), although read,
\* from which it computes how much to read, counts the bytes of the first
\* round only.
THEOREM PacketBoundHolds == Spec => []PacketBound
<1>1. TypeOK /\ ReadWithinSize /\ [Next]_vars => (TypeOK /\ ReadWithinSize)'
  BY Zenon, TypeStep
<1>2. TypeOK /\ ReadWithinSize /\ CutInv /\ [Next]_vars => CutInv'
  BY Zenon, CutStep
<1>3. CutInv => PacketBound
  BY Zenon DEF CutInv, PacketBound
<1> QED
  BY <1>1, <1>2, <1>3, TypeInit, CutInit, PTL DEF Spec

-----------------------------------------------------------------------------
(***************************************************************************)
(* What a network that reorders datagrams does not do: it makes none up.   *)
(***************************************************************************)

LEMMA SentHas ==
    ASSUME NEW ch \in Seq(Packets), NEW p \in Packets, NEW c \in Sent(ch, p),
           NEW q, Has(c, q)
    PROVE  q = p \/ Has(ch, q)
<1>1. /\ c \in Seq(Packets) /\ Len(ch) \in Nat /\ Len(c) \in Nat
      /\ \A i \in 1 .. Len(ch) : c[i] = ch[i]
      /\ \A i \in Len(ch) + 1 .. Len(c) : c[i] = p
  BY SentIs
<1>2. PICK i \in 1 .. Len(c) : c[i] = q
  BY Zenon DEF Has
<1>3. i \in 1 .. Len(ch) \/ i \in Len(ch) + 1 .. Len(c)
  BY <1>1
<1> QED
  BY Zenon, <1>1, <1>2, <1>3 DEF Has

LEMMA TailHas ==
    ASSUME NEW ch \in Seq(Packets), ch # <<>>, NEW q, Has(Tail(ch), q)
    PROVE  Has(ch, q)
<1>1. PICK i \in 1 .. Len(Tail(ch)) : Tail(ch)[i] = q
  BY Zenon DEF Has
<1>2. i + 1 \in 1 .. Len(ch) /\ ch[i + 1] = q
  BY <1>1, TailIs
<1> QED
  BY Zenon, <1>2 DEF Has

LEMMA ReorderedHas ==
    ASSUME NEW ch \in Seq(Packets), NEW c \in Reordered(ch), NEW q, Has(c, q)
    PROVE  Has(ch, q)
<1>1. PICK k \in 1 .. Len(ch) - 1 : c = [ch EXCEPT ![k] = ch[k + 1], ![k + 1] = ch[k]]
  BY Zenon DEF Reordered
<1>2. Len(c) = Len(ch) /\ Len(ch) \in Nat
  BY <1>1
<1>3. PICK i \in 1 .. Len(ch) : c[i] = q
  BY Zenon, <1>2 DEF Has
<1>4. k \in 1 .. Len(ch) /\ k + 1 \in 1 .. Len(ch)
  BY <1>2
<1>5. c[i] = ch[i] \/ c[i] = ch[k] \/ c[i] = ch[k + 1]
  BY SMTT(40), <1>1, <1>4
<1> QED
  BY Zenon, <1>3, <1>4, <1>5 DEF Has

LEMMA AnyDataFrame ==
    ASSUME [Next]_vars
    PROVE  \/ \E i \in 1 .. WINDOW_SIZE : ClientSend(i)
           \/ SendFin
           \/ toServer # <<>> /\ toServer' = Tail(toServer)
           \/ toServer' \in Reordered(toServer)
           \/ UNCHANGED toServer
BY ZenonT(40) DEF Next, ClientStep, ServerStep, Terminated, vars, clientVars, serverVars,
       ClientFill, ClientStartSend, ClientExit, ClientSendError,
       ClientTimeout, ClientPoll, ClientRecvNothing, ClientRecv, ClientAckPop,
       ClientAckDone, ClientStartFin, ClientFin, ClientFinNothing, ClientFinSkip,
       ClientFinAcked, ClientFinTimeout, ServerExit, ServerTimeout,
       ServerWrongData, ServerData, ServerWrite, ServerExcess, ServerWriteError,
       ServerEarlyFin, ServerFin, ServerFinAck, ServerClose, ReorderData,
       ReorderReplies

LEMMA AnyReplyFrame ==
    ASSUME [Next \/ ClientFillFails]_vars
    PROVE  \/ ServerWrongData
           \/ ServerData
           \/ ServerFinAck
           \/ toClient # <<>> /\ toClient' = Tail(toClient)
           \/ toClient' \in Reordered(toClient)
           \/ UNCHANGED toClient
BY ZenonT(40) DEF Next, ClientStep, ServerStep, Terminated, vars, clientVars, serverVars,
       ClientFill, ClientFillFails, ClientStartSend, ClientSend, ClientExit, ClientSendError,
       ClientTimeout, ClientPoll, ClientRecvNothing, ClientRecv, ClientAckPop,
       ClientAckDone, ClientStartFin, ClientFin, ClientFinNothing, ClientFinSkip,
       ClientFinAcked, ClientFinTimeout, ServerExit, ServerTimeout,
       ServerWrite, ServerExcess, ServerWriteError,
       ServerEarlyFin, ServerFin, ServerClose, ReorderData,
       ReorderReplies

\* Only the client makes DATA packets.
LEMMA AroundFrame ==
    ASSUME TypeOK, [Next]_vars, ~ClientFill, NEW p \in Packets, Around(p)'
    PROVE  Around(p)
<1>1. p.cmd = "DATA" /\ (Has(packets', p) \/ Has(toServer', p))
  BY Zenon DEF Around, Has
<1>2. packets \in Seq(Packets) /\ toServer \in Seq(Packets)
  BY Zenon DEF TypeOK
<1>3. CASE Has(packets', p)
  <2>1. CASE ClientAckPop
    <3>1. packets # <<>> /\ packets' = Tail(packets)
      BY Zenon, <2>1 DEF ClientAckPop, AckDone
    <3> QED
      BY Zenon, <1>1, <1>2, <1>3, <3>1, TailHas DEF Around
  <2>2. CASE packets' = packets
    BY Zenon, <1>1, <1>3, <2>2 DEF Around
  <2> QED
    BY Zenon, <2>1, <2>2, WindowFrame
<1>4. CASE Has(toServer', p)
  <2>1. ASSUME NEW i \in 1 .. WINDOW_SIZE, ClientSend(i) PROVE Around(p)
    <3>1. i \in 1 .. Len(packets) /\ toServer' \in Sent(toServer, packets[i])
      <4>1. i <= Len(packets) /\ toServer' \in Sent(toServer, packets[i])
        BY Zenon, <2>1 DEF ClientSend
      <4> QED
        BY <1>2, <4>1, WindowAssumption
    <3>2. packets[i] \in Packets
      BY <1>2, <3>1
    <3>3. p = packets[i] \/ Has(toServer, p)
      BY Zenon, <1>2, <1>4, <3>1, <3>2, SentHas
    <3> QED
      BY Zenon, <1>1, <3>1, <3>3 DEF Around, Has
  <2>2. CASE SendFin
    <3> DEFINE f == create_packet("FIN", 0, 0, 0, 0)
    <3>1. f.cmd = "FIN" /\ f \in Packets
      BY CommandTyped, SeqModAssumption DEF create_packet, Commands
    <3>2. toServer' \in Sent(toServer, f)
      BY Zenon, <2>2 DEF SendFin
    <3> HIDE DEF f
    <3>3. p = f \/ Has(toServer, p)
      BY Zenon, <1>2, <1>4, <3>1, <3>2, SentHas
    <3> QED
      BY Zenon, <1>1, <3>1, <3>3 DEF Around
  <2>3. CASE toServer # <<>> /\ toServer' = Tail(toServer)
    BY Zenon, <1>1, <1>2, <1>4, <2>3, TailHas DEF Around
  <2>4. CASE toServer' \in Reordered(toServer)
    BY Zenon, <1>1, <1>2, <1>4, <2>4, ReorderedHas DEF Around
  <2>5. CASE UNCHANGED toServer
    BY Zenon, <1>1, <1>4, <2>5 DEF Around
  <2> QED
    BY Zenon, <2>1, <2>2, <2>3, <2>4, <2>5, AnyDataFrame
<1> QED
  BY Zenon, <1>1, <1>3, <1>4

-----------------------------------------------------------------------------
(***************************************************************************)
(* As long as no sequence number is used twice.                            *)
(***************************************************************************)

\* The packet just made is the continuation of the last one.
LEMMA AroundFill ==
    ASSUME TypeOK, ReadWithinSize, AroundInv, ClientFill
    PROVE  AroundInv'
<1> DEFINE np == create_packet("DATA", sequence, Chunk, pos, made + 1)
<1>1. /\ made \in Nat /\ got \in Nat /\ pos \in Nat /\ got <= made
      /\ sequence = SeqOf(made + 1) /\ (got = made => sread = pos)
  BY DEF TypeOK, AroundInv
<1>2. /\ Chunk \in Nat /\ pos' = pos + Chunk /\ made' = made + 1 /\ np \in Packets
      /\ Len(packets) \in Nat /\ Len(packets') = Len(packets) + 1
      /\ \A i \in 1 .. Len(packets) : packets'[i] = packets[i]
      /\ packets'[Len(packets) + 1] = np
      /\ UNCHANGED <<expected_sequence, got, sread, toServer>>
  BY Zenon, FillAdds DEF serverVars
<1>3. np.n = made + 1 /\ np.off = pos /\ np.len = Chunk /\ np.seq = SeqOf(made + 1)
  BY Zenon, <1>1 DEF create_packet
<1> HIDE DEF np, Chunk
<1>4. sequence' = SeqOf(made' + 1)
  <2>1. sequence' = NextSeq(sequence)
    BY Zenon DEF ClientFill
  <2> QED
    BY SMTT(40), <1>1, <1>2, <2>1, SeqSucc
<1>5. ASSUME NEW p \in Packets, Around(p)'
      PROVE  p = np \/ Around(p)
  <2>1. p.cmd = "DATA" /\ (Has(packets', p) \/ Has(toServer', p))
    BY Zenon, <1>5 DEF Around, Has
  <2>2. CASE Has(packets', p)
    <3>1. PICK i \in 1 .. Len(packets') : packets'[i] = p
      BY Zenon, <2>2 DEF Has
    <3>2. i \in 1 .. Len(packets) \/ i = Len(packets) + 1
      BY <1>2
    <3> QED
      BY Zenon, <1>2, <2>1, <3>1, <3>2 DEF Around, Has
  <2> QED
    BY Zenon, <1>2, <2>1, <2>2 DEF Around
<1>6. ASSUME NEW p \in Packets, Around(p)
      PROVE  /\ p.n \in 1 .. made /\ p.seq = SeqOf(p.n)
             /\ p.n = made => p.off + p.len = pos
             /\ p.n = got + 1 => p.off = sread
  BY Zenon, <1>6 DEF AroundInv
<1>7. ASSUME NEW p \in Packets, Around(p)'
      PROVE  /\ p.n \in 1 .. made' /\ p.seq = SeqOf(p.n)
             /\ p.n = made' => p.off + p.len = pos'
             /\ p.n = got' + 1 => p.off = sread'
  <2>1. CASE p = np
    <3>1. p.n = made' /\ p.seq = SeqOf(p.n) /\ p.off + p.len = pos' /\ made' \in 1 .. made'
      BY <1>1, <1>2, <1>3, <2>1
    <3>2. p.n = got' + 1 => p.off = sread'
      BY <1>1, <1>2, <1>3, <2>1
    <3> QED
      BY Zenon, <3>1, <3>2
  <2>2. CASE Around(p)
    <3>1. p.n \in 1 .. made' /\ p.n # made'
      BY <1>1, <1>2, <1>6, <2>2
    <3> QED
      BY Zenon, <1>2, <1>6, <2>2, <3>1
  <2> QED
    BY Zenon, <1>5, <1>7, <2>1, <2>2
<1>8. ASSUME NEW p \in Packets, NEW q \in Packets, Around(p)', Around(q)'
      PROVE  /\ p.n = q.n => p = q
             /\ q.n = p.n + 1 => q.off = p.off + p.len
  <2>1. (p = np \/ Around(p)) /\ (q = np \/ Around(q))
    BY Zenon, <1>5, <1>8
  <2>2. CASE p = np /\ q = np
    BY <1>1, <1>3, <2>2
  <2>3. CASE p = np /\ Around(q)
    <3>1. q.n \in 1 .. made
      BY Zenon, <1>6, <2>3
    <3> QED
      BY <1>1, <1>3, <2>3, <3>1
  <2>4. CASE Around(p) /\ q = np
    <3>1. p.n \in 1 .. made /\ (p.n = made => p.off + p.len = pos)
      BY Zenon, <1>6, <2>4
    <3> QED
      BY <1>1, <1>3, <2>4, <3>1
  <2>5. CASE Around(p) /\ Around(q)
    BY Zenon, <2>5 DEF AroundInv
  <2> QED
    BY Zenon, <2>1, <2>2, <2>3, <2>4, <2>5
<1>9. /\ expected_sequence' = SeqOf(got' + 1)
      /\ got' <= made' /\ (got' = made' => sread' = pos')
  BY <1>1, <1>2 DEF AroundInv
<1>10. SeqOf(made + 1)' = SeqOf(made' + 1) /\ SeqOf(got + 1)' = SeqOf(got' + 1)
  BY Zenon DEF SeqOf
<1> QED
  BY Zenon, <1>4, <1>7, <1>8, <1>9, <1>10 DEF AroundInv

\* A packet the client had no memory for leaves a gap: nothing follows the
\* packet before it.
LEMMA AroundFillFails ==
    ASSUME TypeOK, AroundInv, ClientFillFails
    PROVE  AroundInv'
<1>1. /\ made \in Nat /\ got \in Nat /\ got <= made /\ sequence = SeqOf(made + 1)
  BY Zenon DEF TypeOK, AroundInv
<1>2. /\ made' = made + 1 /\ sequence' = NextSeq(sequence)
      /\ UNCHANGED <<packets, toServer, expected_sequence, got, sread>>
  BY Zenon DEF ClientFillFails, serverVars
<1>3. sequence' = SeqOf(made' + 1)
  BY <1>1, <1>2, SeqSucc
<1>4. \A p \in Packets : Around(p)' = Around(p)
  BY Zenon, <1>2 DEF Around, Has
<1>5. ASSUME NEW p \in Packets, Around(p)
      PROVE  /\ p.n \in 1 .. made /\ p.seq = SeqOf(p.n)
             /\ p.n = got + 1 => p.off = sread
  BY Zenon, <1>5 DEF AroundInv
<1>6. ASSUME NEW p \in Packets, Around(p)
      PROVE  /\ p.n \in 1 .. made' /\ p.n # made'
  BY <1>1, <1>2, <1>5, <1>6
<1>7. got' <= made' /\ got' # made' /\ expected_sequence' = SeqOf(got' + 1)
  BY <1>1, <1>2 DEF AroundInv
<1>8. \A p, q \in Packets : Around(p) /\ Around(q) =>
        /\ p.n = q.n => p = q
        /\ q.n = p.n + 1 => q.off = p.off + p.len
  BY Zenon DEF AroundInv
<1>9. SeqOf(made + 1)' = SeqOf(made' + 1) /\ SeqOf(got + 1)' = SeqOf(got' + 1)
  BY Zenon DEF SeqOf
<1> QED
  BY Zenon, <1>2, <1>3, <1>4, <1>5, <1>6, <1>7, <1>8, <1>9 DEF AroundInv

\* The packet with the expected sequence number is the expected packet.
LEMMA ExpectedIs ==
    ASSUME TypeOK, AroundInv, made < SEQ_MOD, NEW p \in Packets, Around(p),
           p.seq = expected_sequence
    PROVE  p.n = got + 1 /\ p.off = sread
<1>1. /\ made \in Nat /\ got \in Nat /\ got <= made /\ SEQ_MOD \in Nat
      /\ p.n \in 1 .. made /\ p.seq = SeqOf(p.n) /\ expected_sequence = SeqOf(got + 1)
      /\ p.n = got + 1 => p.off = sread
  BY Zenon, SeqModAssumption DEF TypeOK, AroundInv
<1>2. p.n \in Nat /\ got + 1 \in Nat /\ p.n < got + 1 + SEQ_MOD /\ got + 1 < p.n + SEQ_MOD
  BY <1>1
<1>3. p.n = got + 1
  BY Zenon, <1>1, <1>2, SeqInj
<1> QED
  BY Zenon, <1>1, <1>3

\* The server accepts the continuation of what it has.
LEMMA AroundData ==
    ASSUME TypeOK, AroundInv, made < SEQ_MOD, ServerData
    PROVE  AroundInv'
<1>1. /\ made \in Nat /\ got \in Nat /\ sread \in Nat
      /\ sequence = SeqOf(made + 1) /\ expected_sequence = SeqOf(got + 1)
  BY Zenon DEF TypeOK, AroundInv
<1>2. PICK h \in Packets : h = Head(toServer) /\ Around(h)
  <2>1. toServer \in Seq(Packets) /\ toServer # <<>> /\ Head(toServer).cmd = "DATA"
    BY Zenon DEF ServerData, TypeOK
  <2>2. Head(toServer) = toServer[1] /\ 1 \in 1 .. Len(toServer) /\ Head(toServer) \in Packets
    BY <2>1, TailIs
  <2> QED
    BY Zenon, <2>1, <2>2 DEF Around, Has
<1>3. /\ got' = got + 1 /\ sread' = sread + h.len /\ h.seq = expected_sequence
      /\ expected_sequence' = NextSeq(expected_sequence)
      /\ UNCHANGED <<sequence, packets, pos, made>>
  BY Zenon, <1>2 DEF ServerData, clientVars
<1>4. h.n = got + 1 /\ h.off = sread
  BY Zenon, <1>2, <1>3, ExpectedIs
<1>5. h.n \in 1 .. made /\ (h.n = made => h.off + h.len = pos)
  BY Zenon, <1>2 DEF AroundInv
<1>6. expected_sequence' = SeqOf(got' + 1)
  BY <1>1, <1>3, SeqSucc
<1>7. got' <= made' /\ (got' = made' => sread' = pos')
  BY <1>1, <1>3, <1>4, <1>5
<1>8. ASSUME NEW p \in Packets, Around(p)'
      PROVE  Around(p)
  <2>1. [Next]_vars /\ ~ClientFill
    BY DEF Next, ServerStep, ServerData, ClientFill, clientVars
  <2> QED
    BY ZenonT(40), <1>8, <2>1, AroundFrame
<1>9. ASSUME NEW p \in Packets, Around(p)
      PROVE  /\ p.n \in 1 .. made' /\ p.seq = SeqOf(p.n)
             /\ p.n = made' => p.off + p.len = pos'
             /\ p.n = got' + 1 => p.off = sread'
  <2>1. /\ p.n \in 1 .. made /\ p.seq = SeqOf(p.n)
        /\ p.n = made => p.off + p.len = pos
        /\ p.n = h.n + 1 => p.off = h.off + h.len
    BY Zenon, <1>2, <1>9 DEF AroundInv
  <2> QED
    BY Zenon, <1>3, <1>4, <2>1
<1>10. \A p, q \in Packets : Around(p) /\ Around(q) =>
        /\ p.n = q.n => p = q
        /\ q.n = p.n + 1 => q.off = p.off + p.len
  BY Zenon DEF AroundInv
<1>11. SeqOf(made + 1)' = SeqOf(made' + 1) /\ SeqOf(got + 1)' = SeqOf(got' + 1)
  BY Zenon DEF SeqOf
<1> QED
  BY Zenon, <1>1, <1>3, <1>6, <1>7, <1>8, <1>9, <1>10, <1>11 DEF AroundInv

LEMMA AroundStep ==
    ASSUME TypeOK, ReadWithinSize, AroundInv, made < SEQ_MOD,
           [Next \/ ClientFillFails]_vars
    PROVE  AroundInv'
<1>1. CASE ~ClientFill /\ ~ServerData /\ [Next]_vars
  <2>1. UNCHANGED <<sequence, pos, made>>
    BY Zenon, <1>1, WindowFrame DEF ClientAckPop
  <2>2. UNCHANGED <<got, expected_sequence, sread>>
    BY Zenon, <1>1, ProgressFrame
  <2>3. \A p \in Packets : Around(p)' => Around(p)
    BY Zenon, <1>1, AroundFrame
  <2>4. SeqOf(made + 1)' = SeqOf(made + 1) /\ SeqOf(got + 1)' = SeqOf(got + 1)
    BY Zenon, <2>1, <2>2 DEF SeqOf
  <2> QED
    BY Zenon, <2>1, <2>2, <2>3, <2>4 DEF AroundInv
<1> QED
  BY Zenon, <1>1, AroundFill, AroundData, AroundFillFails

-----------------------------------------------------------------------------
(***************************************************************************)
(* The server's file.                                                      *)
(***************************************************************************)

LEMMA AnyFileFrame ==
    ASSUME [Next \/ ClientFillFails]_vars
    PROVE  /\ size' = size
           /\ ServerStep \/ UNCHANGED <<spc, sread, pending, sfile, exists, sexit>>
<1>1. CASE ClientFillFails
  BY Zenon, <1>1 DEF ClientFillFails, serverVars
<1>2. CASE [Next]_vars
  BY Zenon, <1>2, FileFrame, SizeFrame
<1> QED
  BY Zenon, <1>1, <1>2

\* Only ServerFinAck sends FINACK.
LEMMA AnyFinAckKept ==
    ASSUME TypeOK, [Next \/ ClientFillFails]_vars, ~ServerFinAck,
           NEW f, Has(toClient', f), f.cmd = "FINACK"
    PROVE  Has(toClient, f)
<1>1. toClient \in Seq(Packets)
  BY Zenon DEF TypeOK
<1>2. ASSUME NEW seq \in 0 .. SEQ_MOD - 1, NEW n \in Nat, SendAck(seq, n)
      PROVE  Has(toClient, f)
  <2> DEFINE a == create_packet("ACK", seq, 0, 0, n)
  <2>1. toClient' \in Sent(toClient, a)
    BY Zenon, <1>2 DEF SendAck
  <2>2. a \in Packets /\ a.cmd = "ACK"
    BY Zenon, CommandTyped DEF Commands, create_packet
  <2> HIDE DEF a
  <2>3. f = a \/ Has(toClient, f)
    BY Zenon, <1>1, <2>1, <2>2, SentHas
  <2> QED
    BY Zenon, <2>2, <2>3
<1>3. CASE ServerWrongData
  <2>1. expected_sequence \in 0 .. SEQ_MOD - 1 /\ got + 1 \in Nat
    BY DEF TypeOK
  <2> QED
    BY Zenon, <1>2, <1>3, <2>1 DEF ServerWrongData
<1>4. CASE ServerData
  <2>1. NextSeq(expected_sequence) \in 0 .. SEQ_MOD - 1 /\ got + 2 \in Nat
    BY NextSeqTyped DEF TypeOK
  <2> QED
    BY Zenon, <1>2, <1>4, <2>1 DEF ServerData
<1>5. CASE toClient # <<>> /\ toClient' = Tail(toClient)
  BY Zenon, <1>1, <1>5, TailHas
<1>6. CASE toClient' \in Reordered(toClient)
  BY Zenon, <1>1, <1>6, ReorderedHas
<1>7. CASE UNCHANGED toClient
  BY Zenon, <1>7
<1> QED
  BY Zenon, <1>3, <1>4, <1>5, <1>6, <1>7, AnyReplyFrame

\* What is accepted is appended to what is stored.
LEMMA AnyStoredStep ==
    ASSUME TypeOK, AroundInv, StoredInv, made < SEQ_MOD, [Next \/ ClientFillFails]_vars
    PROVE  StoredInOrder'
<1>1. /\ sfile \o pending = Source(sread)
      /\ sfile \in Seq(Nat) /\ pending \in Seq(Nat) /\ sread \in Nat
  BY Zenon DEF StoredInv, StoredInOrder, TypeOK
<1>2. CASE ServerData
  <2>1. sfile = Source(sread)
    BY Zenon, <1>1, <1>2, ConcatEmptySeq DEF ServerData, StoredInv
  <2>2. PICK p \in Packets : p = Head(toServer) /\ Around(p)
    <3>1. toServer \in Seq(Packets) /\ toServer # <<>> /\ Head(toServer).cmd = "DATA"
      BY Zenon, <1>2 DEF ServerData, TypeOK
    <3>2. Head(toServer) = toServer[1] /\ 1 \in 1 .. Len(toServer) /\ Head(toServer) \in Packets
      BY <3>1, TailIs
    <3> QED
      BY Zenon, <3>1, <3>2 DEF Around, Has
  <2>3. p.off = sread
    BY Zenon, <1>2, <2>2, ExpectedIs DEF ServerData
  <2>4. sfile' = sfile /\ pending' = Payload(p) /\ sread' = sread + p.len
    BY Zenon, <1>2, <2>2 DEF ServerData
  <2> QED
    BY Zenon, <1>1, <2>1, <2>3, <2>4, SourceExtended DEF StoredInOrder
<1>3. CASE ServerWrite \/ ServerExcess
  <2>1. sfile' = sfile \o pending /\ pending' = <<>> /\ sread' = sread
    BY Zenon, <1>3 DEF ServerWrite, ServerExcess
  <2>2. (sfile \o pending) \o <<>> = sfile \o pending
    BY Zenon, <1>1, ConcatProperties, ConcatEmptySeq
  <2> QED
    BY Zenon, <1>1, <2>1, <2>2 DEF StoredInOrder
<1>4. ASSUME NEW k \in 0 .. PAYLOAD_SIZE - 1, ServerWriteError(k)
      PROVE  StoredInOrder'
  <2> DEFINE t == SubSeq(pending, 1, k)
             u == SubSeq(pending, k + 1, Len(pending))
  <2>1. k \in Nat /\ k < Len(pending)
    BY <1>4, PayloadAssumption DEF ServerWriteError
  <2>2. t \in Seq(Nat) /\ u \in Seq(Nat) /\ t \o u = pending
    BY Zenon, <1>1, <2>1, SplitIs
  <2>3. sfile' = sfile \o t /\ pending' = u /\ sread' = sread
    BY Zenon, <1>4 DEF ServerWriteError
  <2> HIDE DEF t, u
  <2>4. (sfile \o t) \o u = sfile \o (t \o u)
    BY ZenonT(40), <1>1, <2>2, ConcatSplit
  <2> QED
    BY Zenon, <1>1, <2>2, <2>3, <2>4 DEF StoredInOrder
<1>5. CASE UNCHANGED <<sread, pending, sfile>>
  BY Zenon, <1>1, <1>5 DEF StoredInOrder
<1> QED
  <2>1. CASE ServerStep
    BY Zenon, <1>2, <1>3, <1>4, <1>5, <2>1
    DEF ServerStep, ServerTimeout, ServerWrongData, ServerEarlyFin, ServerFin,
        ServerFinAck, ServerClose, serverVars
  <2> QED
    BY Zenon, <1>5, <2>1, AnyFileFrame

LEMMA AnyFileStep ==
    ASSUME TypeOK, AroundInv, StoredInv, made < SEQ_MOD, [Next \/ ClientFillFails]_vars
    PROVE  StoredInv'
<1>1. /\ spc # "exit" => exists /\ sexit = "none"
      /\ spc \in {"read", "finack"} => pending = <<>>
      /\ sexit = "OK" => pending = <<>> /\ exists /\ sread = size
      /\ spc = "finack" => sread = size
  BY Zenon DEF StoredInv
<1>2. size' = size
  BY Zenon, AnyFileFrame
<1>3. /\ spc' # "exit" => exists' /\ sexit' = "none"
      /\ spc' \in {"read", "finack"} => pending' = <<>>
      /\ sexit' = "OK" => pending' = <<>> /\ exists' /\ sread' = size'
      /\ spc' = "finack" => sread' = size'
      /\ spc = "finack" \/ sexit = "OK" => spc' = "finack" \/ sexit' = "OK"
  <2>1. CASE ServerTimeout
    BY Zenon, <1>1, <2>1 DEF ServerTimeout, ServerExit
  <2>2. CASE ServerWrongData \/ ServerFinAck
    BY Zenon, <1>1, <1>2, <2>2 DEF ServerWrongData, ServerFinAck, serverVars
  <2>3. CASE ServerData
    BY Zenon, <1>1, <1>2, <2>3 DEF ServerData
  <2>4. CASE ServerWrite
    BY Zenon, <1>1, <1>2, <2>4 DEF ServerWrite
  <2>5. CASE ServerExcess
    BY Zenon, <1>1, <1>2, <2>5 DEF ServerExcess, ServerExit
  <2>6. ASSUME NEW k \in 0 .. PAYLOAD_SIZE - 1, ServerWriteError(k)
        PROVE  spc = "write" /\ spc' = "exit" /\ sexit' = "RUNTIME_ERROR"
    BY Zenon, <2>6 DEF ServerWriteError, ServerExit
  <2>7. CASE ServerEarlyFin
    BY Zenon, <1>1, <1>2, <2>7 DEF ServerEarlyFin, ServerExit
  <2>8. CASE ServerFin
    BY Zenon, <1>1, <1>2, <2>8 DEF ServerFin
  <2>9. CASE ServerClose
    BY Zenon, <1>1, <1>2, <2>9 DEF ServerClose, ServerExit
  <2>10. CASE UNCHANGED <<spc, sread, pending, sfile, exists, sexit>>
    BY Zenon, <1>1, <1>2, <2>10
  <2> QED
    BY ZenonT(40), <1>1, <2>1, <2>2, <2>3, <2>4, <2>5, <2>6, <2>7, <2>8, <2>9, <2>10, AnyFileFrame
    DEF ServerStep
<1>4. ASSUME NEW j \in 1 .. Len(toClient'), toClient'[j].cmd = "FINACK"
      PROVE  spc' = "finack" \/ sexit' = "OK"
  <2>1. CASE ServerFinAck
    BY Zenon, <2>1 DEF ServerFinAck, serverVars
  <2>2. CASE ~ServerFinAck
    <3>1. PICK f : f = toClient'[j]
      OBVIOUS
    <3>2. Has(toClient', f) /\ f.cmd = "FINACK"
      BY Zenon, <1>4, <3>1 DEF Has
    <3>3. Has(toClient, f)
      BY Zenon, <2>2, <3>2, AnyFinAckKept
    <3>4. spc = "finack" \/ sexit = "OK"
      BY Zenon, <3>2, <3>3 DEF Has, StoredInv
    <3> QED
      BY Zenon, <1>3, <3>4
  <2> QED
    BY Zenon, <2>1, <2>2
<1> QED
  BY Zenon, <1>3, <1>4, AnyStoredStep DEF StoredInv

LEMMA AnyInit == Init => AroundInv /\ StoredInv
<1> HAVE Init
<1>1. /\ packets = <<>> /\ made = 0 /\ got = 0 /\ pos = 0 /\ sread = 0
      /\ sequence = 1 /\ expected_sequence = 1 /\ toServer = <<>>
  BY Zenon DEF Init
<1>2. SeqOf(1) = 1
  BY SeqModAssumption DEF SeqOf
<1>3. \A p : ~Around(p)
  BY <1>1 DEF Around, Has
<1>4. AroundInv
  BY <1>1, <1>2, <1>3 DEF AroundInv
<1>5. StoredInv
  BY Zenon, InvInit DEF IInv, FileInv, StoredInv
<1> QED
  BY Zenon, <1>4, <1>5

\* The inductive invariant over any network.
AnyNetInv == made < SEQ_MOD => AroundInv /\ StoredInv

LEMMA AnyNetStep ==
    ASSUME TypeOK, ReadWithinSize, AnyNetInv, [Next \/ ClientFillFails]_vars
    PROVE  AnyNetInv'
<1> SUFFICES ASSUME made' < SEQ_MOD PROVE AroundInv' /\ StoredInv'
  BY Zenon DEF AnyNetInv
<1>1. made \in Nat /\ SEQ_MOD \in Nat
  BY Zenon, SeqModAssumption DEF TypeOK
<1>2. made' = made + 1 \/ made' = made
  BY Zenon, WindowFrame DEF ClientFill, ClientAckPop, ClientFillFails
<1>3. made < SEQ_MOD
  BY <1>1, <1>2
<1> QED
  BY Zenon, <1>3, AroundStep, AnyFileStep DEF AnyNetInv

\* As long as the client has not used a sequence number twice, what the
\* server stores is a prefix of the client's file, and a FINACK or status 0
\* means the whole of it, over a network that reorders datagrams too and even
\* if add_to_list lost a packet (ftpserver.c:149-200, ftpclient.c:109-112).
THEOREM StoredBeforeWrap ==
    SpecMallocFails => [](made < SEQ_MOD => StoredInOrder /\ FinAckMeansStored)
<1>1. TypeOK /\ ReadWithinSize /\ AnyNetInv /\ [Next \/ ClientFillFails]_vars => AnyNetInv'
  BY Zenon, AnyNetStep
<1>2. Init => AnyNetInv
  BY Zenon, AnyInit DEF AnyNetInv
<1>3. ASSUME TypeOK, AnyNetInv PROVE made < SEQ_MOD => StoredInOrder /\ FinAckMeansStored
  <2> SUFFICES ASSUME StoredInv PROVE StoredInOrder /\ FinAckMeansStored
    BY Zenon, <1>3 DEF AnyNetInv
  <2>1. StoredInOrder
    BY Zenon DEF StoredInv
  <2>2. ASSUME spc = "finack" \/ sexit = "OK"
        PROVE  exists /\ sfile = Source(size)
    <3>1. exists /\ pending = <<>> /\ sread = size /\ sfile \o pending = Source(sread)
      BY Zenon, <2>2 DEF StoredInv, StoredInOrder
    <3>2. sfile \o <<>> = sfile
      BY Zenon, <1>3, ConcatEmptySeq DEF TypeOK
    <3> QED
      BY Zenon, <3>1, <3>2
  <2>3. (\E i \in 1 .. Len(toClient) : toClient[i].cmd = "FINACK") => spc = "finack" \/ sexit = "OK"
    BY Zenon DEF StoredInv
  <2> QED
    BY Zenon, <2>1, <2>2, <2>3 DEF FinAckMeansStored
<1> QED
  BY <1>1, <1>2, <1>3, TypeCorrect, PTL DEF SpecMallocFails

\* Files that do not change and are so short that their packets, and the empty
\* ones that fill the last window, all have different sequence numbers.
NumbersSuffice ==
    /\ ~FileMayChange
    /\ (MaxSize + PAYLOAD_SIZE - 1) \div PAYLOAD_SIZE + WINDOW_SIZE <= SEQ_MOD

LEMMA DivMonotone ==
    ASSUME NEW a \in Nat, NEW b \in Nat, a <= b
    PROVE  a \div PAYLOAD_SIZE \in Int /\ b \div PAYLOAD_SIZE \in Int
           /\ a \div PAYLOAD_SIZE <= b \div PAYLOAD_SIZE
<1> DEFINE q == a \div PAYLOAD_SIZE
           r == b \div PAYLOAD_SIZE
<1>1. q \in Int /\ a % PAYLOAD_SIZE \in 0 .. PAYLOAD_SIZE - 1 /\ a = PAYLOAD_SIZE * q + (a % PAYLOAD_SIZE)
  BY PayloadAssumption
<1>2. r \in Int /\ b % PAYLOAD_SIZE \in 0 .. PAYLOAD_SIZE - 1 /\ b = PAYLOAD_SIZE * r + (b % PAYLOAD_SIZE)
  BY PayloadAssumption
<1> HIDE DEF q, r
<1>3. CASE q > r
  <2>1. PICK d \in Int : d = q - r /\ d >= 1
    BY <1>1, <1>2, <1>3
  <2>2. PAYLOAD_SIZE * d >= PAYLOAD_SIZE
    BY <2>1, PayloadAssumption
  <2>3. PAYLOAD_SIZE * d = PAYLOAD_SIZE * q - PAYLOAD_SIZE * r
    BY <1>1, <1>2, <2>1, PayloadAssumption
  <2> QED
    BY SMTT(40), <1>1, <1>2, <2>2, <2>3, PayloadAssumption
<1> QED
  BY <1>1, <1>2, <1>3 DEF q, r

\* Such a file is stored correctly, and a FINACK or status 0 means that the
\* whole of it is, whatever the network does (ftpserver.c:149-200).
THEOREM ShortFilesAnyNetwork ==
    NumbersSuffice => (Spec => [](StoredInOrder /\ FinAckMeansStored))
<1> SUFFICES ASSUME NumbersSuffice PROVE Spec => [](StoredInOrder /\ FinAckMeansStored)
  OBVIOUS
<1> DEFINE Fixed == size \in 0 .. MaxSize /\ flen = size
<1>1. Init => Fixed
  BY Zenon DEF Init, NumbersSuffice
<1>2. Fixed /\ [Next]_vars => Fixed'
  BY Zenon, SizeFrame
<1>3. [Next]_vars => [Next \/ ClientFillFails]_vars
  OBVIOUS
<1>4. TypeOK /\ Fixed /\ PacketBound => made < SEQ_MOD
  <2> SUFFICES ASSUME TypeOK, Fixed, PacketBound PROVE made < SEQ_MOD
    OBVIOUS
  <2>1. made \in Nat /\ SEQ_MOD \in Nat /\ WINDOW_SIZE \in Nat
    BY Zenon, SeqModAssumption, WindowAssumption DEF TypeOK
  <2>2. PICK a \in Nat : a = size + PAYLOAD_SIZE - 1
    BY MaxSizeAssumption, PayloadAssumption
  <2>3. PICK b \in Nat : b = MaxSize + PAYLOAD_SIZE - 1 /\ a <= b
    BY <2>2, MaxSizeAssumption, PayloadAssumption
  <2>4. /\ a \div PAYLOAD_SIZE \in Int /\ b \div PAYLOAD_SIZE \in Int
        /\ a \div PAYLOAD_SIZE <= b \div PAYLOAD_SIZE
    BY Zenon, <2>3, DivMonotone
  <2>5. made <= a \div PAYLOAD_SIZE + WINDOW_SIZE - 1
    BY Zenon, <2>2 DEF PacketBound
  <2>6. b \div PAYLOAD_SIZE + WINDOW_SIZE <= SEQ_MOD
    BY Zenon, <2>3 DEF NumbersSuffice
  <2>7. PICK x \in Int, y \in Int : /\ x = a \div PAYLOAD_SIZE /\ y = b \div PAYLOAD_SIZE
                                  /\ x <= y
    BY Zenon, <2>4
  <2>8. made <= x + WINDOW_SIZE - 1 /\ y + WINDOW_SIZE <= SEQ_MOD /\ x <= y
    BY Zenon, <2>5, <2>6, <2>7
  <2> QED
    BY <2>1, <2>8
<1> HIDE DEF Fixed
<1> QED
  BY <1>1, <1>2, <1>3, <1>4, PacketBoundHolds, StoredBeforeWrap, TypeCorrect, PTL
  DEF Spec, SpecMallocFails

=============================================================================
