-------------------------- MODULE SrtpPacketProofs --------------------------
(***************************************************************************)
(* What pkt_pack leaves in a buffer.                                       *)
(***************************************************************************)
EXTENDS SrtpPacket, TLAPS

\* pkt_invalid looks at two fields of the header only.
LEMMA InvalidFields ==
    ASSUME NEW buf
    PROVE  pkt_invalid(buf) = 0 <=>
             ~PKT_INVALID_LEN(buf.head.len) /\ ~PKT_INVALID_CMD(buf.head.cmd)
  BY DEF pkt_invalid

\* What pkt_pack gives when both tests pass.
LEMMA PackSucceeds ==
    ASSUME NEW buf \in Buffers, NEW cmd \in uint8, NEW len \in uint16, NEW seq \in uint16,
           NEW ack \in uint16, NEW info \in uint8, NEW payload \in Payloads,
           ~PKT_INVALID_CMD(cmd), ~PKT_INVALID_LEN(len)
    PROVE  LET r == pkt_pack(buf, cmd, len, seq, ack, info, payload) IN
           /\ r.ret = len
           /\ r.buf.payload = payload
           /\ r.buf.head = [len |-> len, seq |-> seq, ack |-> ack, cmdinfo |-> info, cmd |-> cmd]
<1> DEFINE h1 == [buf.head EXCEPT !.cmd = cmd, !.seq = seq, !.ack = ack, !.cmdinfo = info]
           b1 == [buf EXCEPT !.head = h1]
           h2 == [b1.head EXCEPT !.len = len]
           r == pkt_pack(buf, cmd, len, seq, ack, info, payload)
<1>1. r = [buf |-> [head |-> h2, payload |-> payload], ret |-> len]
  BY Zenon DEF pkt_pack, pkt_set_payload
<1>2. buf.head \in srtp_header_t /\ b1.head = h1
  BY DEF Buffers
<1>3. h2 = [h1 EXCEPT !.len = len]
  BY <1>2
<1> HIDE DEF b1, h2
<1>4. h2 = [len |-> len, seq |-> seq, ack |-> ack, cmdinfo |-> info, cmd |-> cmd]
  BY <1>2, <1>3 DEF srtp_header_t
<1> QED
  BY <1>1, <1>4

\* pkt_pack (srtp_impl.cpp:336-347) packs what pkt_invalid (313-323) accepts and
\* nothing else: then it returns the length, and the buffer is a valid packet
\* with exactly the fields and the payload that were asked for.
THEOREM PackedIsValid ==
    ASSUME NEW buf \in Buffers, NEW cmd \in uint8, NEW len \in uint16, NEW seq \in uint16,
           NEW ack \in uint16, NEW info \in uint8, NEW payload \in Payloads
    PROVE  LET r == pkt_pack(buf, cmd, len, seq, ack, info, payload) IN
           IF PKT_INVALID_CMD(cmd) \/ PKT_INVALID_LEN(len)
           THEN r.ret = -1
           ELSE /\ r.ret = len
                /\ pkt_invalid(r.buf) = 0
                /\ r.buf.payload = payload
                /\ r.buf.head = [len |-> len, seq |-> seq, ack |-> ack, cmdinfo |-> info,
                                 cmd |-> cmd]
<1> DEFINE r == pkt_pack(buf, cmd, len, seq, ack, info, payload)
<1>1. CASE PKT_INVALID_CMD(cmd)
  BY <1>1 DEF pkt_pack
<1>2. CASE ~PKT_INVALID_CMD(cmd) /\ PKT_INVALID_LEN(len)
  BY <1>2 DEF pkt_pack, pkt_set_payload
<1>3. CASE ~PKT_INVALID_CMD(cmd) /\ ~PKT_INVALID_LEN(len)
  <2>1. /\ r.ret = len
        /\ r.buf.payload = payload
        /\ r.buf.head = [len |-> len, seq |-> seq, ack |-> ack, cmdinfo |-> info, cmd |-> cmd]
    BY <1>3, PackSucceeds
  <2> HIDE DEF r
  <2>2. r.buf.head.len = len /\ r.buf.head.cmd = cmd
    BY <2>1
  <2>3. pkt_invalid(r.buf) = 0
    BY <1>3, <2>2, InvalidFields
  <2> QED
    BY <1>3, <2>1, <2>3 DEF r
<1> QED
  BY <1>1, <1>2, <1>3

\* A pkt_pack that fails (srtp_impl.cpp:336-347) leaves a valid packet valid,
\* with its length and its payload, although its other fields may be new.
THEOREM FailedPackKeepsValid ==
    ASSUME NEW buf \in Buffers, NEW cmd \in uint8, NEW len \in uint16, NEW seq \in uint16,
           NEW ack \in uint16, NEW info \in uint8, NEW payload \in Payloads,
           pkt_invalid(buf) = 0,
           PKT_INVALID_CMD(cmd) \/ PKT_INVALID_LEN(len)
    PROVE  LET b == pkt_pack(buf, cmd, len, seq, ack, info, payload).buf IN
           /\ pkt_invalid(b) = 0
           /\ b.payload = buf.payload
           /\ b.head.len = buf.head.len
<1> DEFINE h1 == [buf.head EXCEPT !.cmd = cmd, !.seq = seq, !.ack = ack, !.cmdinfo = info]
           b1 == [buf EXCEPT !.head = h1]
           b == pkt_pack(buf, cmd, len, seq, ack, info, payload).buf
<1>1. CASE PKT_INVALID_CMD(cmd)
  BY <1>1 DEF pkt_pack
<1>2. CASE ~PKT_INVALID_CMD(cmd)
  <2>1. b = b1
    BY <1>2 DEF pkt_pack, pkt_set_payload
  <2>2. b1.head = h1 /\ b1.payload = buf.payload /\ buf.head \in srtp_header_t
    BY DEF Buffers
  <2>3. h1.len = buf.head.len /\ h1.cmd = cmd
    BY <2>2 DEF srtp_header_t
  <2> HIDE DEF b, b1, h1
  <2>4. b.head.len = buf.head.len /\ b.head.cmd = cmd /\ b.payload = buf.payload
    BY <2>1, <2>2, <2>3
  <2>5. pkt_invalid(b) = 0
    BY <1>2, <2>4, InvalidFields
  <2> QED
    BY <2>4, <2>5 DEF b
<1> QED
  BY <1>1, <1>2

=============================================================================
