----------------------------- MODULE SrtpCommon -----------------------------
(***************************************************************************)
(* What ftpclient.c and ftpserver.c share through srtp_common.h: the       *)
(* packets and the 16-bit sequence numbers.                                *)
(***************************************************************************)
EXTENDS Udp

CONSTANTS
    SEQ_MOD   \* 2^16 in the code: sequence numbers are uint16_t

ASSUME SeqModAssumption == SEQ_MOD \in Nat /\ SEQ_MOD > 1

HEADER_SIZE == 5

\* The CMD_* codes the transfer uses.
Commands == {"ACK", "EXISTS", "DATA", "FIN", "FINACK"}

(***************************************************************************)
(* A packet.  The payload of a DATA packet is a slice of the sender's      *)
(* file, abstracted to where it starts (off) and how long it is (len).     *)
(* n is not on the wire: it is the position in the whole transfer of the   *)
(* packet sent (DATA) or asked for next (ACK), kept to tell apart packets  *)
(* whose 16-bit sequence numbers coincide.                                 *)
(***************************************************************************)
create_packet(cmd, seq, len, off, n) ==
    [cmd |-> cmd, seq |-> seq, len |-> len, off |-> off, n |-> n]

Packets == [cmd : Commands, seq : 0 .. SEQ_MOD - 1, len : Nat, off : Nat, n : Nat]

\* The payload bytes; byte i of the sender's file is written as the number i.
Payload(p) == [i \in 1 .. p.len |-> p.off + i]

\* Mutant: the sequence number is wider than its field.
NextSeqWide(s) == s + 1

\* Mutant: the number wraps around one too early.
NextSeqEarly(s) == (s + 1) % (SEQ_MOD - 1)

\* sequence++ on a uint16_t.
NextSeq(s) == (s + 1) % SEQ_MOD

=============================================================================
