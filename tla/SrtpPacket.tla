----------------------------- MODULE SrtpPacket -----------------------------
(***************************************************************************)
(* Packets of the SRTP library (srtp_header.h, the macros of srtp_impl.h   *)
(* and the pkt_ functions of srtp_impl.cpp).  A buffer is the record of    *)
(* its header fields and its payload; a function that writes to a buffer   *)
(* gives the buffer it leaves and its return value.                        *)
(***************************************************************************)
EXTENDS Integers

CONSTANT Payloads   \* contents of a payload

uint8 == 0 .. 255
uint16 == 0 .. 65535

SYN == 1
ACK == 2
FIN == 4
RST == 8
RDY == 16

PAYLOAD_MAXSIZE == 1024

srtp_header_t == [len : uint16, seq : uint16, ack : uint16, cmdinfo : uint8, cmd : uint8]
Buffers == [head : srtp_header_t, payload : Payloads]

\* The test is a logical and, not a bitwise one.
PKT_HASCMD(h, command) == h.cmd # 0 /\ command # 0
PKT_ACK(h) == PKT_HASCMD(h, ACK)

PKT_INVALID_LEN(len) == len > PAYLOAD_MAXSIZE
PKT_INVALID_CMD(cmd) == cmd > SYN + ACK + FIN + RST + RDY

pkt_invalid(buf) == IF PKT_INVALID_LEN(buf.head.len) \/ PKT_INVALID_CMD(buf.head.cmd) THEN 1 ELSE 0

pkt_set_payload(buf, payload, len) ==
    IF PKT_INVALID_LEN(len)
    THEN [buf |-> buf, ret |-> -1]
    ELSE [buf |-> [head |-> [buf.head EXCEPT !.len = len], payload |-> payload], ret |-> len]

\* The header is written before the length is looked at.
pkt_pack(buf, cmd, len, seq, ack, cmdinfo, payload) ==
    IF PKT_INVALID_CMD(cmd)
    THEN [buf |-> buf, ret |-> -1]
    ELSE pkt_set_payload(
            [buf EXCEPT !.head = [buf.head EXCEPT !.cmd = cmd, !.seq = seq, !.ack = ack,
                                                  !.cmdinfo = cmdinfo]],
            payload, len)

=============================================================================
