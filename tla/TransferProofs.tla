--------------------------- MODULE TransferProofs ---------------------------
(***************************************************************************)
(* Proofs about Transfer: for every file size, window, payload size,       *)
(* number of sequence numbers and network capacity.                        *)
(***************************************************************************)
EXTENDS TransferInv, SequenceTheorems, TLAPS

-----------------------------------------------------------------------------
(***************************************************************************)
(* Arithmetic modulo SEQ_MOD.                                              *)
(***************************************************************************)

\* Division with remainder by SEQ_MOD.
LEMMA SeqDivMod ==
    ASSUME NEW a \in Nat
    PROVE  /\ a \div SEQ_MOD \in Int
           /\ a % SEQ_MOD \in 0 .. SEQ_MOD - 1
           /\ a = SEQ_MOD * (a \div SEQ_MOD) + (a % SEQ_MOD)
BY SeqModAssumption

\* A remainder is determined by the number.
LEMMA SeqUnique ==
    ASSUME NEW q \in Int, NEW r \in Int,
           NEW u \in 0 .. SEQ_MOD - 1, NEW v \in 0 .. SEQ_MOD - 1,
           SEQ_MOD * q + u = SEQ_MOD * r + v
    PROVE  u = v
<1>1. SEQ_MOD * (q - r) = v - u
  BY SeqModAssumption
<1>2. CASE q - r >= 1
  <2>1. SEQ_MOD * (q - r) >= SEQ_MOD
    BY <1>2, SeqModAssumption
  <2> QED
    BY <1>1, <2>1, SeqModAssumption
<1>3. CASE q - r <= -1
  <2>1. SEQ_MOD * (q - r) <= -SEQ_MOD
    BY <1>3, SeqModAssumption
  <2> QED
    BY <1>1, <2>1, SeqModAssumption
<1>4. CASE q = r
  BY <1>1, <1>4, SeqModAssumption
<1> QED
  BY <1>2, <1>3, <1>4

\* Two packets less than SEQ_MOD apart have different sequence numbers.
LEMMA SeqInj ==
    ASSUME NEW a \in Nat, NEW b \in Nat,
           SeqOf(a) = SeqOf(b), a < b + SEQ_MOD, b < a + SEQ_MOD
    PROVE  a = b
<1> DEFINE q == a \div SEQ_MOD
           r == b \div SEQ_MOD
<1>1. q \in Int /\ r \in Int
  BY Zenon, SeqDivMod
<1>2. /\ a = SEQ_MOD * q + (a % SEQ_MOD)
      /\ b = SEQ_MOD * r + (b % SEQ_MOD)
      /\ a % SEQ_MOD \in Int
  BY SeqDivMod, SeqModAssumption
<1> HIDE DEF q, r
<1>3. a - b = SEQ_MOD * (q - r)
  BY <1>1, <1>2, SeqModAssumption DEF SeqOf
<1>4. CASE q - r >= 1
  <2>1. SEQ_MOD * (q - r) >= SEQ_MOD
    BY <1>1, <1>4, SeqModAssumption
  <2> QED
    BY <1>3, <2>1, SeqModAssumption
<1>5. CASE q - r <= -1
  <2>1. SEQ_MOD * (q - r) <= -SEQ_MOD
    BY <1>1, <1>5, SeqModAssumption
  <2> QED
    BY <1>3, <2>1, SeqModAssumption
<1>6. CASE q = r
  BY <1>1, <1>3, <1>6, SeqModAssumption
<1> QED
  BY <1>1, <1>4, <1>5, <1>6

\* Incrementing a uint16_t follows incrementing the packet number.
LEMMA SeqSucc ==
    ASSUME NEW a \in Nat
    PROVE  NextSeq(SeqOf(a)) = SeqOf(a + 1)
<1> DEFINE q == a \div SEQ_MOD
           u == a % SEQ_MOD
           r == (a + 1) \div SEQ_MOD
           v == (a + 1) % SEQ_MOD
<1>1. /\ q \in Int /\ u \in 0 .. SEQ_MOD - 1
      /\ a = SEQ_MOD * q + u
  BY Zenon, SeqDivMod
<1>2. /\ r \in Int /\ v \in 0 .. SEQ_MOD - 1
      /\ a + 1 = SEQ_MOD * r + v
  BY SeqDivMod
<1> SUFFICES (u + 1) % SEQ_MOD = v
  BY Zenon DEF NextSeq, SeqOf
<1> HIDE DEF q, u, r, v
<1>3. CASE u + 1 < SEQ_MOD
  <2>1. SEQ_MOD * q + (u + 1) = SEQ_MOD * r + v
    BY <1>1, <1>2, SeqModAssumption
  <2>2. u + 1 \in 0 .. SEQ_MOD - 1
    BY <1>1, <1>3, SeqModAssumption
  <2>3. u + 1 = v
    BY Zenon, <1>1, <1>2, <2>1, <2>2, SeqUnique
  <2>4. (u + 1) % SEQ_MOD = u + 1
    BY <2>2, SeqModAssumption
  <2> QED
    BY Zenon, <2>3, <2>4
<1>4. CASE u + 1 = SEQ_MOD
  <2>1. SEQ_MOD * (q + 1) + 0 = SEQ_MOD * r + v
    BY <1>1, <1>2, <1>4, SeqModAssumption
  <2>2. q + 1 \in Int /\ 0 \in 0 .. SEQ_MOD - 1
    BY <1>1, SeqModAssumption
  <2>3. 0 = v
    BY Zenon, <1>2, <2>1, <2>2, SeqUnique
  <2>4. (u + 1) % SEQ_MOD = 0
    BY <1>4, SeqModAssumption
  <2> QED
    BY Zenon, <2>3, <2>4
<1> QED
  BY <1>1, <1>3, <1>4, SeqModAssumption

-----------------------------------------------------------------------------
(***************************************************************************)
(* The network.                                                            *)
(***************************************************************************)

\* After a send the queue is the old one followed by copies of the packet.
LEMMA SentIs ==
    ASSUME NEW ch \in Seq(Packets), NEW p \in Packets, NEW c \in Sent(ch, p)
    PROVE  /\ c \in Seq(Packets)
           /\ Len(ch) <= Len(c)
           /\ \A i \in 1 .. Len(ch) : c[i] = ch[i]
           /\ \A i \in Len(ch) + 1 .. Len(c) : c[i] = p
<1>1. CASE c = ch
  BY <1>1
<1>2. CASE c = Append(ch, p)
  BY <1>2
<1>3. CASE c = Append(Append(ch, p), p)
  BY <1>3
<1> QED
  BY Zenon, <1>1, <1>2, <1>3 DEF Sent

\* What taking the first datagram leaves.
LEMMA TailIs ==
    ASSUME NEW S, NEW s \in Seq(S), s # <<>>
    PROVE  /\ Tail(s) \in Seq(S)
           /\ Len(s) > 0
           /\ Len(Tail(s)) = Len(s) - 1
           /\ \A i \in 1 .. Len(s) - 1 : Tail(s)[i] = s[i + 1]
           /\ Head(s) = s[1]
           /\ Head(s) \in S
OBVIOUS

\* A short fwrite splits the payload in two.
LEMMA SplitIs ==
    ASSUME NEW S, NEW s \in Seq(S), NEW k \in Nat, k < Len(s)
    PROVE  /\ SubSeq(s, 1, k) \in Seq(S)
           /\ SubSeq(s, k + 1, Len(s)) \in Seq(S)
           /\ SubSeq(s, 1, k) \o SubSeq(s, k + 1, Len(s)) = s
<1>1. SubSeq(s, 1, k) \in Seq(S) /\ SubSeq(s, k + 1, Len(s)) \in Seq(S)
  OBVIOUS
<1>2. /\ 1 \in 1 .. Len(s) + 1
      /\ k \in 1 - 1 .. Len(s)
      /\ Len(s) \in k .. Len(s)
  OBVIOUS
<1>3. SubSeq(s, 1, k) \o SubSeq(s, k + 1, Len(s)) = SubSeq(s, 1, Len(s))
  BY Zenon, <1>2, ConcatAdjacentSubSeq
<1> QED
  BY Zenon, <1>1, <1>3, SubSeqFull

-----------------------------------------------------------------------------
(***************************************************************************)
(* Type correctness.                                                       *)
(***************************************************************************)

\* A command packet is a packet.
LEMMA CommandTyped ==
    ASSUME NEW cmd \in Commands, NEW seq \in 0 .. SEQ_MOD - 1, NEW len \in Nat,
           NEW off \in Nat, NEW n \in Nat
    PROVE  create_packet(cmd, seq, len, off, n) \in Packets
BY Zenon DEF create_packet, Packets

\* NextSeq stays in the range of the type.
LEMMA NextSeqTyped ==
    ASSUME NEW s \in 0 .. SEQ_MOD - 1
    PROVE  NextSeq(s) \in 0 .. SEQ_MOD - 1
BY SeqModAssumption DEF NextSeq

\* The number of bytes read is neither negative nor more than is left.
LEMMA ChunkBounds ==
    ASSUME TypeOK, read <= size
    PROVE  Chunk \in Nat /\ pos + Chunk <= flen /\ read + Chunk <= size
BY PayloadAssumption DEF TypeOK, Chunk, Remaining

LEMMA TypeInit == Init => TypeOK /\ ReadWithinSize
<1> SUFFICES ASSUME Init PROVE TypeOK /\ ReadWithinSize
  OBVIOUS
<1>1. /\ create_packet("ACK", 1, 0, 0, 1) \in Packets
      /\ create_packet("EXISTS", 0, 0, 0, 0) \in Packets
  BY CommandTyped, SeqModAssumption DEF Commands
<1>2. toClient \in Seq(Packets)
  <2> DEFINE a == create_packet("ACK", 1, 0, 0, 1)
             e == create_packet("EXISTS", 0, 0, 0, 0)
  <2>1. toClient \in {<<>>, <<a>>, <<e>>}
    BY Zenon DEF Init
  <2>2. a \in Packets /\ e \in Packets
    BY Zenon, <1>1
  <2> HIDE DEF a, e
  <2>3. <<>> \in Seq(Packets) /\ <<a>> \in Seq(Packets) /\ <<e>> \in Seq(Packets)
    BY <2>2
  <2> QED
    BY Zenon, <2>1, <2>3
<1>3. ReadWithinSize
  BY MaxSizeAssumption DEF Init, ReadWithinSize
<1> QED
  BY <1>1, <1>2, <1>3, SeqModAssumption, WindowAssumption, MaxSizeAssumption
  DEF Init, TypeOK, ClientPCs, ServerPCs, ExitCodes

\* Every client step keeps the types.
LEMMA ClientTyped ==
    ASSUME TypeOK, ReadWithinSize, ClientStep
    PROVE  TypeOK' /\ ReadWithinSize'
<1> USE DEF ClientPCs, ServerPCs, ExitCodes
<1>1. CASE ClientFill
  <2>1. read <= size
    BY Zenon, <1>1 DEF ClientFill, ReadWithinSize
  <2>2. Chunk \in Nat /\ pos + Chunk <= flen /\ read + Chunk <= size
    BY Zenon, <2>1, ChunkBounds
  <2>3. create_packet("DATA", sequence, Chunk, pos, made + 1) \in Packets
    BY <2>2, CommandTyped DEF TypeOK, Commands
  <2>4. NextSeq(sequence) \in 0 .. SEQ_MOD - 1
    BY Zenon, NextSeqTyped DEF TypeOK
  <2>5. Len(packets) < WINDOW_SIZE
    BY Zenon, <1>1 DEF ClientFill, WindowOpen
  <2> HIDE DEF Chunk
  <2>6. packets' \in Seq(Packets) /\ Len(packets') = Len(packets) + 1
    BY <1>1, <2>3 DEF ClientFill, TypeOK
  <2> QED
    BY <1>1, <2>2, <2>4, <2>5, <2>6, WindowAssumption
    DEF ClientFill, TypeOK, ReadWithinSize, serverVars
<1>2. CASE ClientStartSend
  BY <1>2 DEF ClientStartSend, TypeOK, ReadWithinSize, serverVars
<1>3. ASSUME NEW i \in 1 .. WINDOW_SIZE, ClientSend(i)
      PROVE  TypeOK' /\ ReadWithinSize'
  <2>1. packets[i] \in Packets
    BY <1>3 DEF ClientSend, TypeOK
  <2>2. toServer' \in Seq(Packets)
    BY Zenon, <1>3, <2>1, SentIs DEF ClientSend, TypeOK
  <2> QED
    BY <1>3, <2>2 DEF ClientSend, TypeOK, ReadWithinSize, serverVars
<1>4. CASE ClientSendError
  BY Zenon, <1>4 DEF ClientSendError, ClientExit, TypeOK, ReadWithinSize, serverVars
<1>5. CASE ClientTimeout
  BY Zenon, <1>5 DEF ClientTimeout, ClientExit, TypeOK, ReadWithinSize, serverVars
<1>6. CASE ClientPoll
  BY Zenon, <1>6 DEF ClientPoll, TypeOK, ReadWithinSize, serverVars
<1>7. CASE ClientRecvNothing
  BY <1>7 DEF ClientRecvNothing, TypeOK, ReadWithinSize, serverVars
<1>8. CASE ClientRecv
  <2>1. Head(toClient) \in Packets /\ Tail(toClient) \in Seq(Packets)
    BY Zenon, <1>8, TailIs DEF ClientRecv, TypeOK
  <2> QED
    BY <1>8, <2>1 DEF ClientRecv, TypeOK, ReadWithinSize, serverVars, HEADER_SIZE
<1>9. CASE ClientAckPop
  <2>1. packets # <<>>
    BY Zenon, <1>9 DEF ClientAckPop, AckDone
  <2>2. /\ packets[1] \in Packets
        /\ Tail(packets) \in Seq(Packets)
        /\ Len(Tail(packets)) = Len(packets) - 1
    BY <2>1, TailIs DEF TypeOK
  <2>3. packets[1].len \in Nat
    BY Zenon, <2>2 DEF Packets
  <2> QED
    BY SMTT(40), <1>9, <2>2, <2>3, WindowAssumption
    DEF ClientAckPop, TypeOK, ReadWithinSize, serverVars
<1>10. CASE ClientAckDone
  BY Zenon, <1>10 DEF ClientAckDone, TypeOK, ReadWithinSize, serverVars
<1>11. CASE ClientStartFin \/ ClientFin
  <2>1. create_packet("FIN", 0, 0, 0, 0) \in Packets
    BY CommandTyped, SeqModAssumption DEF Commands
  <2>2. toServer' \in Seq(Packets)
    BY Zenon, <1>11, <2>1, SentIs DEF ClientStartFin, ClientFin, SendFin, TypeOK
  <2> QED
    BY ZenonT(40), <1>11, <2>2 DEF ClientStartFin, ClientFin, TypeOK, ReadWithinSize, serverVars
<1>12. CASE ClientFinNothing
  BY Zenon, <1>12 DEF ClientFinNothing, TypeOK, ReadWithinSize, serverVars
<1>13. CASE ClientFinSkip
  <2>1. Tail(toClient) \in Seq(Packets)
    BY Zenon, <1>13, TailIs DEF ClientFinSkip, TypeOK
  <2> QED
    BY Zenon, <1>13, <2>1 DEF ClientFinSkip, TypeOK, ReadWithinSize, serverVars
<1>14. CASE ClientFinAcked
  <2>1. Tail(toClient) \in Seq(Packets)
    BY Zenon, <1>14, TailIs DEF ClientFinAcked, TypeOK
  <2> QED
    BY Zenon, <1>14, <2>1 DEF ClientFinAcked, ClientExit, TypeOK, ReadWithinSize, serverVars
<1>15. CASE ClientFinTimeout
  BY Zenon, <1>15 DEF ClientFinTimeout, ClientExit, TypeOK, ReadWithinSize, serverVars
<1> QED
  BY Zenon, <1>1, <1>2, <1>3, <1>4, <1>5, <1>6, <1>7, <1>8, <1>9, <1>10, <1>11, <1>12,
     <1>13, <1>14, <1>15
  DEF ClientStep

\* Every server step keeps the types.
LEMMA ServerTyped ==
    ASSUME TypeOK, ReadWithinSize, ServerStep
    PROVE  TypeOK' /\ ReadWithinSize'
<1> USE DEF ClientPCs, ServerPCs, ExitCodes
<1>1. CASE ServerTimeout
  BY Zenon, <1>1 DEF ServerTimeout, ServerExit, TypeOK, ReadWithinSize, clientVars
<1>2. CASE ServerWrongData
  <2>1. create_packet("ACK", expected_sequence, 0, 0, got + 1) \in Packets
    BY CommandTyped DEF Commands, TypeOK
  <2>2. toClient' \in Seq(Packets)
    BY Zenon, <1>2, <2>1, SentIs DEF ServerWrongData, SendAck, TypeOK
  <2>3. toServer' \in Seq(Packets)
    BY Zenon, <1>2, TailIs DEF ServerWrongData, TypeOK
  <2> QED
    BY Zenon, <1>2, <2>2, <2>3
    DEF ServerWrongData, TypeOK, ReadWithinSize, clientVars, serverVars
<1>3. CASE ServerData
  <2>1. NextSeq(expected_sequence) \in 0 .. SEQ_MOD - 1
    BY Zenon, NextSeqTyped DEF TypeOK
  <2>2. create_packet("ACK", NextSeq(expected_sequence), 0, 0, got + 2) \in Packets
    BY <2>1, CommandTyped DEF Commands, TypeOK
  <2>3. toClient' \in Seq(Packets)
    BY Zenon, <1>3, <2>2, SentIs DEF ServerData, SendAck, TypeOK
  <2>4. toServer' \in Seq(Packets) /\ Head(toServer) \in Packets
    BY Zenon, <1>3, TailIs DEF ServerData, TypeOK
  <2>5. Head(toServer).len \in Nat /\ Head(toServer).off \in Nat
    BY Zenon, <2>4 DEF Packets
  <2>6. Payload(Head(toServer)) \in Seq(Nat)
    BY <2>5 DEF Payload
  <2>7. sread' \in Nat /\ pending' \in Seq(Nat)
    BY SMTT(40), <1>3, <2>5, <2>6 DEF ServerData, TypeOK
  <2>8. expected_sequence' \in 0 .. SEQ_MOD - 1 /\ got' \in Nat /\ spc' = "write"
    BY <1>3, <2>1 DEF ServerData, TypeOK
  <2>9. UNCHANGED <<clientVars, sfile, exists, sexit>>
    BY Zenon, <1>3 DEF ServerData
  <2> QED
    BY Zenon, <2>3, <2>4, <2>7, <2>8, <2>9 DEF TypeOK, ReadWithinSize, clientVars
<1>4. CASE ServerWrite
  BY <1>4 DEF ServerWrite, TypeOK, ReadWithinSize, clientVars
<1>5. CASE ServerExcess
  <2>1. sfile' \in Seq(Nat)
    BY Zenon, <1>5, ConcatProperties DEF ServerExcess, TypeOK
  <2>2. exists' \in BOOLEAN
    BY Zenon, <1>5 DEF ServerExcess
  <2>3. UNCHANGED <<clientVars, expected_sequence, sread, got, toServer, toClient>>
    BY Zenon, <1>5 DEF ServerExcess, ServerExit
  <2>4. spc' = "exit" /\ sexit' = "BAD_REQUEST" /\ pending' = <<>>
    BY Zenon, <1>5 DEF ServerExcess, ServerExit
  <2> QED
    BY <2>1, <2>2, <2>3, <2>4 DEF TypeOK, ReadWithinSize, clientVars
<1>6. ASSUME NEW k \in 0 .. PAYLOAD_SIZE - 1, ServerWriteError(k)
      PROVE  TypeOK' /\ ReadWithinSize'
  <2>1. k \in Nat /\ k < Len(pending) /\ pending \in Seq(Nat) /\ sfile \in Seq(Nat)
    BY <1>6, PayloadAssumption DEF ServerWriteError, TypeOK
  <2>2. /\ SubSeq(pending, 1, k) \in Seq(Nat)
        /\ SubSeq(pending, k + 1, Len(pending)) \in Seq(Nat)
    BY Zenon, <2>1, SplitIs
  <2>3. sfile' \in Seq(Nat) /\ pending' \in Seq(Nat)
    BY Zenon, <1>6, <2>1, <2>2, ConcatProperties DEF ServerWriteError
  <2> QED
    BY Zenon, <1>6, <2>3 DEF ServerWriteError, ServerExit, TypeOK, ReadWithinSize, clientVars
<1>7. CASE ServerEarlyFin
  <2>1. toServer' \in Seq(Packets)
    BY Zenon, <1>7, TailIs DEF ServerEarlyFin, TypeOK
  <2> QED
    BY Zenon, <1>7, <2>1 DEF ServerEarlyFin, ServerExit, TypeOK, ReadWithinSize, clientVars
<1>8. CASE ServerFin
  <2>1. toServer' \in Seq(Packets)
    BY Zenon, <1>8, TailIs DEF ServerFin, TypeOK
  <2> QED
    BY Zenon, <1>8, <2>1 DEF ServerFin, TypeOK, ReadWithinSize, clientVars
<1>9. CASE ServerFinAck
  <2>1. create_packet("FINACK", 0, 0, 0, 0) \in Packets
    BY CommandTyped, SeqModAssumption DEF Commands
  <2>2. toClient' \in Seq(Packets)
    BY Zenon, <1>9, <2>1, SentIs DEF ServerFinAck, TypeOK
  <2>3. toServer' \in Seq(Packets)
    <3>1. \/ toServer' = toServer
          \/ toServer # <<>> /\ toServer' = Tail(toServer)
      BY Zenon, <1>9 DEF ServerFinAck
    <3>2. toServer \in Seq(Packets)
      BY Zenon DEF TypeOK
    <3> QED
      BY Zenon, <3>1, <3>2, TailIs
  <2>4. UNCHANGED <<clientVars, serverVars>>
    BY Zenon, <1>9 DEF ServerFinAck
  <2> QED
    BY <2>2, <2>3, <2>4 DEF TypeOK, ReadWithinSize, clientVars, serverVars
<1>10. CASE ServerClose
  BY Zenon, <1>10 DEF ServerClose, ServerExit, TypeOK, ReadWithinSize, clientVars
<1> QED
  BY Zenon, <1>1, <1>2, <1>3, <1>4, <1>5, <1>6, <1>7, <1>8, <1>9, <1>10 DEF ServerStep

\* An overtaking datagram changes neither the length nor the elements' type.
LEMMA ReorderedTyped ==
    ASSUME NEW ch \in Seq(Packets), NEW c \in Reordered(ch)
    PROVE  c \in Seq(Packets)
<1>1. PICK i \in 1 .. Len(ch) - 1 : c = [ch EXCEPT ![i] = ch[i + 1], ![i + 1] = ch[i]]
  BY Zenon DEF Reordered
<1>2. ch[i] \in Packets /\ ch[i + 1] \in Packets
  OBVIOUS
<1> QED
  BY <1>1, <1>2

\* Every step keeps the types.
LEMMA TypeStep ==
    ASSUME TypeOK, ReadWithinSize, [Next]_vars
    PROVE  TypeOK' /\ ReadWithinSize'
<1>1. CASE ClientStep
  BY Zenon, <1>1, ClientTyped
<1>2. CASE ServerStep
  BY Zenon, <1>2, ServerTyped
<1>3. CASE ReorderData
  <2>1. toServer' \in Seq(Packets)
    BY Zenon, <1>3, ReorderedTyped DEF ReorderData, TypeOK
  <2> QED
    BY Zenon, <1>3, <2>1 DEF ReorderData, TypeOK, ReadWithinSize, clientVars, serverVars
<1>4. CASE ReorderReplies
  <2>1. toClient' \in Seq(Packets)
    BY Zenon, <1>4, ReorderedTyped DEF ReorderReplies, TypeOK
  <2> QED
    BY Zenon, <1>4, <2>1 DEF ReorderReplies, TypeOK, ReadWithinSize, clientVars, serverVars
<1>5. CASE UNCHANGED vars
  BY Zenon, <1>5 DEF TypeOK, ReadWithinSize, vars, clientVars, serverVars
<1> QED
  BY Zenon, <1>1, <1>2, <1>3, <1>4, <1>5 DEF Next, Terminated

\* So does a packet that is dropped for want of memory.
LEMMA FillFailsTyped ==
    ASSUME TypeOK, ReadWithinSize, ClientFillFails
    PROVE  TypeOK' /\ ReadWithinSize'
<1>1. read <= size
  BY Zenon DEF ClientFillFails, ReadWithinSize
<1>2. Chunk \in Nat /\ pos + Chunk <= flen /\ read + Chunk <= size
  BY Zenon, <1>1, ChunkBounds
<1>3. NextSeq(sequence) \in 0 .. SEQ_MOD - 1
  BY Zenon, NextSeqTyped DEF TypeOK
<1> HIDE DEF Chunk
<1> QED
  BY <1>2, <1>3 DEF ClientFillFails, TypeOK, ReadWithinSize, serverVars

\* Every variable keeps its type, over any network the model has and whether or
\* not the client finds memory; and read, although it also receives the result
\* of read_only_from, is never more than size when ftpclient.c:104-107
\* subtracts it from size.
THEOREM TypeCorrect == SpecMallocFails => [](TypeOK /\ ReadWithinSize)
<1>1. TypeOK /\ ReadWithinSize /\ [Next \/ ClientFillFails]_vars => (TypeOK /\ ReadWithinSize)'
  BY Zenon, TypeStep, FillFailsTyped
<1> QED
  BY <1>1, TypeInit, PTL DEF SpecMallocFails

=============================================================================
