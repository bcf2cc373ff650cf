-------------------------------- MODULE Udp ---------------------------------
(***************************************************************************)
(* UDP sockets as the programs see them: datagrams that may be lost,       *)
(* duplicated or overtaken, and a receive buffer of limited size.          *)
(***************************************************************************)
EXTENDS Integers, Sequences

CONSTANTS
    NetCap,   \* datagrams a socket's receive buffer holds before it drops
    Faults    \* what the network may do besides dropping at a full buffer

ASSUME NetCapAssumption == NetCap \in Nat \ {0}
ASSUME FaultsAssumption == Faults \subseteq {"lose", "duplicate", "reorderData", "reorderReplies"}

(***************************************************************************)
(* The states in which one send may leave the queue ch of datagrams under  *)
(* way to, or buffered at, the receiving socket.                           *)
(***************************************************************************)
Sent(ch, p) ==
    {c \in {ch, Append(ch, p), Append(Append(ch, p), p)} :
        /\ c = ch => Len(ch) >= NetCap \/ "lose" \in Faults
        /\ c = Append(Append(ch, p), p) => "duplicate" \in Faults
        /\ c # ch => Len(c) <= NetCap}

\* The states an overtaking datagram may leave the queue ch in.
Reordered(ch) ==
    {[ch EXCEPT ![i] = ch[i + 1], ![i + 1] = ch[i]] : i \in 1 .. Len(ch) - 1}

=============================================================================
