-------------------------- MODULE SrtpSocketsProofs --------------------------
(***************************************************************************)
(* The table of connections stays sound, for every number of application   *)
(* threads, peers, descriptors and datagrams.                              *)
(***************************************************************************)
EXTENDS SrtpSockets, TLAPS

-----------------------------------------------------------------------------
\* The types the argument needs.

AppType == [at : {"ready", "establish", "close", "erase", "accept"}, fd : Fds,
            sock : Fds \cup {NoFd}, total_msec : 0 .. CONNECT_TIMEOUT, conn : 0 .. MaxFifos]
\* A packet with data has a number of the peers.
ProxyType ==
    {p \in [at : {"none", "recv", "handle", "cancelled"}, conn : 0 .. MaxFifos,
            seq : Seqs \cup {0}, len : 0 .. 1] : p.len > 0 => p.seq \in Seqs}

\* A proxy that is not cancelled.
Runs(p) == p.at \in {"recv", "handle"}

Types ==
    /\ fifoAt \in [Fds -> 0 .. MaxFifos]
    /\ fifo_id \in 1 .. MaxFifos + 1
    /\ conns \in [Fifos -> Conn_t]
    /\ fd2conn \in [Fds -> NoEntry .. MaxFifos]
    /\ hash2fd \in [IPs -> Fds \cup {NoEntry}]
    /\ app \in [Threads -> AppType]
    /\ proxy \in [Fifos -> ProxyType]
    /\ handles \subseteq Fds

\* The structures in the table exist and belong to their descriptors, and so do
\* those of the running proxies.
Table ==
    /\ \A f \in Fds : fd2conn[f] \in Fifos =>
          conns[fd2conn[f]].alive /\ conns[fd2conn[f]].fifo = f
    /\ \A k \in Fifos : Runs(proxy[k]) => conns[k].alive

\* A name is used once.
Used == \A k \in Fifos : conns[k].alive => k < fifo_id

\* A call of srtp_close deletes the structure of the descriptor it closed, or
\* one that is deleted already and whose name is not used again.
Erasing ==
    \A t \in Threads : app[t].at = "erase" =>
        /\ app[t].conn \in Fifos
        /\ app[t].conn < fifo_id
        /\ conns[app[t].conn].alive => conns[app[t].conn].fifo = app[t].fd

IInv == Types /\ Table /\ Used /\ Erasing

\* The initial values of the records.
LEMMA DeletedType == NoConn \in Conn_t /\ ~NoConn.alive
<1>1. 0 \in Fds /\ <<>> \in Seq(Seqs)
  BY SocketsAssumption DEF Fds
<1> QED
  BY Zenon, <1>1 DEF Conn_t, NoConn

LEMMA IdleType == Idle \in ProxyType /\ ~Runs(Idle)
  BY SocketsAssumption DEF Idle, ProxyType, NULL, Runs

LEMMA ReadyType == Ready \in AppType /\ Ready.at # "erase"
<1>1. 0 \in Fds /\ NULL \in 0 .. MaxFifos /\ 0 \in 0 .. CONNECT_TIMEOUT
  BY SocketsAssumption DEF Fds, NULL, CONNECT_TIMEOUT
<1> QED
  BY Zenon, <1>1 DEF Ready, AppType

LEMMA InitInv == Init => IInv
<1> SUFFICES ASSUME Init PROVE IInv
  OBVIOUS
<1>1. Types
  <2>1. /\ 0 \in 0 .. MaxFifos /\ 1 \in 1 .. MaxFifos + 1
        /\ NoEntry \in NoEntry .. MaxFifos
    BY SocketsAssumption DEF NoEntry
  <2> QED
    BY Zenon, <2>1, DeletedType, IdleType, ReadyType DEF Init, Types
<1>2. Table /\ Used /\ Erasing
  BY SocketsAssumption DEF Init, Table, Used, Erasing, NoConn, Ready, Idle, Fifos, NoEntry, Runs
<1> QED
  BY Zenon, <1>1, <1>2 DEF IInv

\* What open, socket and mkfifo give.
LEMMA NewFdType == NewFds \subseteq Fds \cup {NoFd}
  BY Zenon DEF NewFds

LEMMA NextFifoIn ==
    ASSUME Types, NEW n \in NextFifos
    PROVE  /\ n \in Fifos /\ n \in Nat /\ n >= fifo_id /\ fifo_id \in Nat
           /\ n + 1 \in 1 .. MaxFifos + 1
  BY SocketsAssumption DEF Types, NextFifos, Fifos

\* A step that keeps the table, and which structures exist and for what.
LEMMA SameTable ==
    ASSUME IInv, fd2conn' = fd2conn, fifo_id' \in Nat, fifo_id' >= fifo_id,
           \A k \in Fifos : conns'[k].alive = conns[k].alive /\ conns'[k].fifo = conns[k].fifo,
           \A k \in Fifos : Runs(proxy'[k]) => conns[k].alive,
           \A t \in Threads : app'[t].at = "erase" =>
                /\ app'[t].conn \in Fifos
                /\ app'[t].conn < fifo_id
                /\ conns[app'[t].conn].alive => conns[app'[t].conn].fifo = app'[t].fd
    PROVE  Table' /\ Used' /\ Erasing'
<1>1. Table'
  BY Zenon DEF IInv, Table
<1>2. \A k \in Fifos : k < fifo_id => k < fifo_id'
  BY DEF IInv, Types, Fifos
<1>3. Used'
  BY Zenon, <1>2 DEF IInv, Used
<1>4. Erasing'
  BY Zenon, <1>2 DEF Erasing
<1> QED
  BY Zenon, <1>1, <1>3, <1>4

LEMMA FreshType ==
    ASSUME NEW f \in Fds, NEW c \in Fresh(f)
    PROVE  c \in Conn_t /\ c.alive /\ c.fifo = f
<1>1. <<>> \in Seq(Seqs)
  OBVIOUS
<1>2. CASE c = [NoConn EXCEPT !.alive = TRUE, !.fifo = f, !.sock = 0]
  <2>1. c = [alive |-> TRUE, fifo |-> f, addr_len |-> FALSE, sock |-> 0, tid |-> "none",
             sequence |-> 0, inbox |-> <<>>, written |-> <<>>]
    BY Zenon, <1>2 DEF NoConn
  <2>2. 0 \in Fds
    BY SocketsAssumption DEF Fds
  <2> QED
    BY Zenon, <1>1, <2>1, <2>2 DEF Conn_t
<1>3. ASSUME NEW s \in GarbageFds,
             c = [NoConn EXCEPT !.alive = TRUE, !.fifo = f, !.sock = s, !.addr_len = TRUE,
                                !.tid = "garbage", !.sequence = 2]
      PROVE  c \in Conn_t /\ c.alive /\ c.fifo = f
  <2>1. c = [alive |-> TRUE, fifo |-> f, addr_len |-> TRUE, sock |-> s, tid |-> "garbage",
             sequence |-> 2, inbox |-> <<>>, written |-> <<>>]
    BY Zenon, <1>3 DEF NoConn
  <2>2. s \in Fds
    BY Zenon, SocketsAssumption
  <2> QED
    BY Zenon, <1>1, <2>1, <2>2 DEF Conn_t
<1> QED
  BY Zenon, <1>2, <1>3 DEF Fresh

LEMMA FreshEmpty ==
    ASSUME NEW f, NEW c \in Fresh(f)
    PROVE  c.written = <<>> /\ c.inbox = <<>>
  BY Zenon DEF Fresh, NoConn

\* _srtp_socket: the new structure has a name that was not used before.
LEMMA MakeInv ==
    ASSUME IInv, NEW f \in Fds, NEW n \in NextFifos, NEW new \in [Fifos -> Conn_t],
           NEW table \in [Fds -> NoEntry .. MaxFifos], MakeSocket(f, n, table, new),
           \A g \in Fds : table[g] \in Fifos => table[g] = fd2conn[g],
           new[n].alive, new[n].fifo = f,
           \A k \in Fifos \ {n} : new[k].alive = conns[k].alive /\ new[k].fifo = conns[k].fifo,
           \A k \in Fifos : Runs(proxy'[k]) => Runs(proxy[k]),
           app' = app
    PROVE  /\ fifoAt' \in [Fds -> 0 .. MaxFifos]
           /\ fifo_id' \in 1 .. MaxFifos + 1
           /\ conns' \in [Fifos -> Conn_t]
           /\ fd2conn' \in [Fds -> NoEntry .. MaxFifos]
           /\ Table' /\ Used' /\ Erasing'
<1>1. /\ n \in Fifos /\ n \in Nat /\ n >= fifo_id /\ fifo_id \in Nat
      /\ n + 1 \in 1 .. MaxFifos + 1
  BY Zenon, NextFifoIn DEF IInv
<1>2. fifo_id' = n + 1 /\ conns' = new /\ fifoAt' = [fifoAt EXCEPT ![f] = n]
  BY Zenon DEF MakeSocket
<1>3. /\ fd2conn' \in [Fds -> NoEntry .. MaxFifos]
      /\ \A g \in Fds : fd2conn'[g] = IF g = f /\ table[g] = NoEntry THEN n ELSE table[g]
  BY <1>1, SocketsAssumption DEF MakeSocket, Inserted, NoEntry, Fifos
<1>4. ~conns[n].alive
  BY <1>1 DEF IInv, Used
<1>5. \A k \in Fifos : k < fifo_id => k < fifo_id' /\ k # n
  BY <1>1, <1>2 DEF Fifos
<1>6. fifoAt' \in [Fds -> 0 .. MaxFifos] /\ fifo_id' \in 1 .. MaxFifos + 1
  BY <1>1, <1>2 DEF IInv, Types, Fifos
<1>7. Table'
  <2>1. ASSUME NEW g \in Fds, fd2conn'[g] \in Fifos
        PROVE  conns'[fd2conn'[g]].alive /\ conns'[fd2conn'[g]].fifo = g
    <3>1. CASE g = f /\ table[g] = NoEntry
      BY Zenon, <1>2, <1>3, <3>1
    <3>2. CASE ~(g = f /\ table[g] = NoEntry)
      <4>1. fd2conn'[g] = fd2conn[g] /\ fd2conn[g] \in Fifos
        BY Zenon, <1>3, <2>1, <3>2
      <4>2. conns[fd2conn[g]].alive /\ conns[fd2conn[g]].fifo = g
        BY Zenon, <4>1 DEF IInv, Table
      <4> QED
        BY <1>2, <1>4, <4>1, <4>2
    <3> QED
      BY Zenon, <3>1, <3>2
  <2>2. ASSUME NEW k \in Fifos, Runs(proxy'[k]) PROVE conns'[k].alive
    <3>1. conns[k].alive
      BY Zenon, <2>2 DEF IInv, Table
    <3> QED
      BY Zenon, <1>2, <1>4, <3>1
  <2> QED
    BY Zenon, <2>1, <2>2 DEF Table
<1>8. Used'
  <2> SUFFICES ASSUME NEW k \in Fifos, new[k].alive PROVE k < fifo_id'
    BY Zenon, <1>2 DEF Used
  <2>1. CASE k = n
    BY <1>1, <1>2, <2>1
  <2>2. CASE k # n
    BY Zenon, <1>5, <2>2 DEF IInv, Used
  <2> QED
    BY Zenon, <2>1, <2>2
<1>9. Erasing'
  <2> SUFFICES ASSUME NEW t \in Threads, app[t].at = "erase"
               PROVE  /\ app[t].conn \in Fifos
                      /\ app[t].conn < fifo_id'
                      /\ new[app[t].conn].alive => new[app[t].conn].fifo = app[t].fd
    BY Zenon, <1>2 DEF Erasing
  <2>1. /\ app[t].conn \in Fifos /\ app[t].conn < fifo_id
        /\ conns[app[t].conn].alive => conns[app[t].conn].fifo = app[t].fd
    BY Zenon DEF IInv, Erasing
  <2> QED
    BY Zenon, <1>5, <2>1
<1> QED
  BY Zenon, <1>2, <1>3, <1>6, <1>7, <1>8, <1>9

LEMMA SocketInv ==
    ASSUME IInv, NEW t \in Threads, _srtp_socket(t)
    PROVE  IInv'
<1>1. UNCHANGED <<hash2fd, app, proxy>>
  BY Zenon DEF _srtp_socket
<1>2. PICK f \in NewFds, n \in NextFifos :
       \/ /\ f = NoFd
          /\ fifo_id' = n + 1
          /\ UNCHANGED <<fifoAt, files, conns, fd2conn, unlisted, handles>>
       \/ /\ f # NoFd
          /\ \E c \in Fresh(f) : MakeSocket(f, n, fd2conn, [conns EXCEPT ![n] = c])
          /\ handles' = handles \cup {f}
  BY Zenon DEF _srtp_socket
<1>3. /\ n \in Fifos /\ n \in Nat /\ n >= fifo_id /\ fifo_id \in Nat
      /\ n + 1 \in 1 .. MaxFifos + 1
  BY Zenon, NextFifoIn DEF IInv
<1>4. CASE f = NoFd
  <2>1. /\ fifo_id' = n + 1
        /\ UNCHANGED <<fifoAt, conns, fd2conn, handles>>
    BY Zenon, <1>2, <1>4
  <2>2. fifo_id' \in 1 .. MaxFifos + 1 /\ fifo_id' >= fifo_id
    BY <1>3, <2>1
  <2>3. Table' /\ Used' /\ Erasing'
    BY <1>1, <2>1, <2>2, SameTable DEF IInv, Table, Erasing
  <2> QED
    BY Zenon, <1>1, <2>1, <2>2, <2>3 DEF IInv, Types
<1>5. CASE f # NoFd
  <2>1. PICK c \in Fresh(f) : MakeSocket(f, n, fd2conn, [conns EXCEPT ![n] = c])
    BY Zenon, <1>2, <1>5
  <2>2. f \in Fds /\ handles' = handles \cup {f}
    BY Zenon, <1>2, <1>5, NewFdType
  <2> DEFINE new == [conns EXCEPT ![n] = c]
  <2>3. c \in Conn_t /\ c.alive /\ c.fifo = f
    BY Zenon, <2>2, FreshType
  <2>4. /\ new \in [Fifos -> Conn_t]
        /\ new[n] = c
        /\ \A k \in Fifos \ {n} : new[k] = conns[k]
    BY Zenon, <1>3, <2>3 DEF IInv, Types
  <2> HIDE DEF new
  <2>5. fd2conn \in [Fds -> NoEntry .. MaxFifos]
    BY Zenon DEF IInv, Types
  <2>6. MakeSocket(f, n, fd2conn, new)
    BY Zenon, <2>1 DEF new
  <2>7. /\ fifoAt' \in [Fds -> 0 .. MaxFifos]
        /\ fifo_id' \in 1 .. MaxFifos + 1
        /\ conns' \in [Fifos -> Conn_t]
        /\ fd2conn' \in [Fds -> NoEntry .. MaxFifos]
        /\ Table' /\ Used' /\ Erasing'
    BY Zenon, <1>1, <2>2, <2>3, <2>4, <2>5, <2>6, MakeInv
  <2> QED
    BY Zenon, <1>1, <2>2, <2>7 DEF IInv, Types
<1> QED
  BY Zenon, <1>4, <1>5

\* Changes of a structure that keep what exists and for what.
Same(c, d) == d \in Conn_t /\ d.alive = c.alive /\ d.fifo = c.fifo

LEMMA FieldSet ==
    ASSUME NEW c \in Conn_t, NEW s \in Fds \cup {NoFd}
    PROVE  /\ Same(c, [c EXCEPT !.addr_len = TRUE])
           /\ Same(c, [c EXCEPT !.sock = s])
           /\ Same(c, [c EXCEPT !.sock = s, !.tid = "thread"])
  BY Zenon DEF Same, Conn_t

\* The structures stay; a step of a thread that is not closing keeps the rest.
LEMMA FieldStep ==
    ASSUME IInv, fd2conn' = fd2conn, fifo_id' = fifo_id, hash2fd' = hash2fd, handles' = handles,
           fifoAt' \in [Fds -> 0 .. MaxFifos],
           conns' \in [Fifos -> Conn_t],
           \A k \in Fifos : Same(conns[k], conns'[k]),
           app' \in [Threads -> AppType],
           \A t \in Threads : app'[t].at = "erase" => app'[t] = app[t],
           proxy' \in [Fifos -> ProxyType],
           \A k \in Fifos : Runs(proxy'[k]) => conns[k].alive
    PROVE  IInv'
<1>1. Types'
  BY Zenon DEF IInv, Types
<1>2. Table' /\ Used' /\ Erasing'
  <2>1. fifo_id' \in Nat /\ fifo_id' >= fifo_id
    BY DEF IInv, Types
  <2>2. \A k \in Fifos : conns'[k].alive = conns[k].alive /\ conns'[k].fifo = conns[k].fifo
    BY Zenon DEF Same
  <2>3. \A t \in Threads : app'[t].at = "erase" =>
                /\ app'[t].conn \in Fifos
                /\ app'[t].conn < fifo_id
                /\ conns[app'[t].conn].alive => conns[app'[t].conn].fifo = app'[t].fd
    BY Zenon DEF IInv, Erasing
  <2> QED
    BY Zenon, <2>1, <2>2, <2>3, SameTable
<1> QED
  BY Zenon, <1>1, <1>2 DEF IInv

\* The parts of the invariant that FieldStep asks for when nothing changes.
LEMMA Unchanged ==
    ASSUME IInv
    PROVE  /\ fifoAt \in [Fds -> 0 .. MaxFifos]
           /\ conns \in [Fifos -> Conn_t]
           /\ \A k \in Fifos : Same(conns[k], conns[k])
           /\ app \in [Threads -> AppType]
           /\ proxy \in [Fifos -> ProxyType]
           /\ \A k \in Fifos : Runs(proxy[k]) => conns[k].alive
           /\ handles \subseteq Fds
  BY Zenon DEF IInv, Types, Table, Same

\* A structure that a lookup finds.
LEMMA Found ==
    ASSUME IInv, NEW f \in Fds, fd2conn[f] # NoEntry, fd2conn[f] # NULL
    PROVE  fd2conn[f] \in Fifos
  BY SocketsAssumption DEF IInv, Types, NoEntry, NULL, Fifos

LEMMA BindInv ==
    ASSUME IInv, NEW t \in Threads, NEW f \in handles, _srtp_bind(t, f)
    PROVE  IInv'
<1>1. UNCHANGED <<fifoAt, fifo_id, fd2conn, hash2fd, app, proxy, handles>>
  BY Zenon DEF _srtp_bind
<1>2. CASE fd2conn[f] = NULL
  <2>1. conns' = conns
    BY Zenon, <1>2 DEF _srtp_bind
  <2> QED
    BY Zenon, <1>1, <2>1, Unchanged, FieldStep
<1>3. CASE fd2conn[f] # NULL
  <2>1. fd2conn[f] \in Fifos
    BY Zenon, <1>3, Found, Unchanged DEF _srtp_bind, isOpenSRTPSock
  <2>2. conns' = [conns EXCEPT ![fd2conn[f]].addr_len = TRUE]
    BY Zenon, <1>3 DEF _srtp_bind
  <2>3. \A k \in Fifos : Same(conns[k], conns'[k])
    BY Zenon, <2>1, <2>2, FieldSet, Unchanged
  <2>4. conns' \in [Fifos -> Conn_t]
    BY Zenon, <2>2, <2>3, Unchanged DEF Same
  <2> QED
    BY Zenon, <1>1, <2>3, <2>4, Unchanged, FieldStep
<1> QED
  BY Zenon, <1>2, <1>3

LEMMA ListenInv ==
    ASSUME IInv, NEW t \in Threads, NEW f \in handles, _srtp_listen(t, f)
    PROVE  IInv'
<1> DEFINE k == fd2conn[f]
<1>1. UNCHANGED <<fifoAt, fifo_id, fd2conn, hash2fd, app, handles>>
  BY Zenon DEF _srtp_listen
<1>0. PICK s \in NewFds :
        \/ conns' = conns /\ proxy' = proxy
        \/ k # NULL /\ conns' = [conns EXCEPT ![k].sock = s] /\ proxy' = proxy
        \/ /\ k # NULL
           /\ conns' = [conns EXCEPT ![k].sock = s, ![k].tid = "thread"]
           /\ proxy' = [proxy EXCEPT ![k].at = "recv"]
  BY Zenon DEF _srtp_listen
<1>2. CASE conns' = conns /\ proxy' = proxy
  BY Zenon, <1>1, <1>2, Unchanged, FieldStep
<1>3. CASE k # NULL /\ conns' = [conns EXCEPT ![k].sock = s] /\ proxy' = proxy
  <2>1. \A j \in Fifos : Same(conns[j], conns'[j])
    BY Zenon, <1>3, FieldSet, NewFdType, Unchanged
  <2>2. conns' \in [Fifos -> Conn_t]
    BY Zenon, <1>3, <2>1, Unchanged DEF Same
  <2> QED
    BY Zenon, <1>1, <1>3, <2>1, <2>2, Unchanged, FieldStep
<1>4. CASE /\ k # NULL
           /\ conns' = [conns EXCEPT ![k].sock = s, ![k].tid = "thread"]
           /\ proxy' = [proxy EXCEPT ![k].at = "recv"]
  <2>1. k \in Fifos /\ conns[k].alive
    BY Zenon, <1>4, Found, Unchanged DEF _srtp_listen, isOpenSRTPSock, IInv, Table
  <2>2. conns' = [conns EXCEPT ![k] = [conns[k] EXCEPT !.sock = s, !.tid = "thread"]]
    BY Zenon, <1>4, <2>1, Unchanged
  <2>3. \A j \in Fifos : Same(conns[j], conns'[j])
    BY Zenon, <2>1, <2>2, FieldSet, NewFdType, Unchanged
  <2>4. conns' \in [Fifos -> Conn_t]
    BY Zenon, <2>2, <2>3, Unchanged DEF Same
  <2>5. /\ proxy' \in [Fifos -> ProxyType]
        /\ \A j \in Fifos : Runs(proxy'[j]) => conns[j].alive
    BY <1>4, <2>1, Unchanged DEF ProxyType
  <2> QED
    BY Zenon, <1>1, <2>3, <2>4, <2>5, Unchanged, FieldStep
<1> QED
  BY Zenon, <1>0, <1>2, <1>3, <1>4

\* Where a thread may be that is not at the end of srtp_close.
LEMMA AppTypes ==
    ASSUME IInv, NEW f \in Fds, NEW s \in Fds \cup {NoFd}, NEW at \in {"establish", "close"}
    PROVE  /\ Ready \in AppType /\ Ready.at # "erase"
           /\ [Ready EXCEPT !.at = at, !.fd = f] \in AppType
           /\ [Ready EXCEPT !.at = at, !.fd = f].at # "erase"
           /\ [Ready EXCEPT !.at = at, !.fd = f, !.sock = s] \in AppType
           /\ [Ready EXCEPT !.at = at, !.fd = f, !.sock = s].at # "erase"
<1>2. Ready \in AppType /\ Ready.at # "erase"
  BY Zenon, ReadyType
<1>3. [Ready EXCEPT !.at = at, !.fd = f] \in AppType /\ [Ready EXCEPT !.at = at, !.fd = f].at # "erase"
  BY Zenon, <1>2 DEF AppType
<1>4. /\ [Ready EXCEPT !.at = at, !.fd = f, !.sock = s] \in AppType
      /\ [Ready EXCEPT !.at = at, !.fd = f, !.sock = s].at # "erase"
  BY Zenon, <1>2 DEF AppType
<1> QED
  BY Zenon, <1>2, <1>3, <1>4

\* A thread that goes to a place other than the end of srtp_close.
LEMMA AppMoves ==
    ASSUME IInv, NEW t \in Threads, NEW a \in AppType, a.at # "erase",
           app' = [app EXCEPT ![t] = a]
    PROVE  /\ app' \in [Threads -> AppType]
           /\ \A u \in Threads : app'[u].at = "erase" => app'[u] = app[u]
  BY Zenon, Unchanged

LEMMA CloseFdsType ==
    ASSUME IInv, NEW S, CloseFds(S)
    PROVE  fifoAt' \in [Fds -> 0 .. MaxFifos]
<1>1. 0 \in 0 .. MaxFifos
  BY SocketsAssumption
<1> QED
  BY Zenon, <1>1, Unchanged DEF CloseFds

LEMMA ConnectInv ==
    ASSUME IInv, NEW t \in Threads, NEW f \in handles, _srtp_connect(t, f)
    PROVE  IInv'
<1> DEFINE k == fd2conn[f]
           moved(s) == [Ready EXCEPT !.at = "establish", !.fd = f, !.sock = s]
<1>1. UNCHANGED <<fifoAt, fifo_id, fd2conn, hash2fd, proxy, handles>>
  BY Zenon DEF _srtp_connect
<1>0. PICK s \in NewFds :
        \/ conns' = conns /\ app' = app
        \/ conns' = [conns EXCEPT ![k].sock = s] /\ app' = [app EXCEPT ![t] = moved(s)]
  BY Zenon DEF _srtp_connect
<1> DEFINE a == moved(s)
<1>2. CASE conns' = conns /\ app' = app
  BY Zenon, <1>1, <1>2, Unchanged, FieldStep
<1>3. CASE conns' = [conns EXCEPT ![k].sock = s] /\ app' = [app EXCEPT ![t] = a]
  <2>1. \A j \in Fifos : Same(conns[j], conns'[j])
    BY Zenon, <1>3, FieldSet, NewFdType, Unchanged
  <2>2. conns' \in [Fifos -> Conn_t]
    BY Zenon, <1>3, <2>1, Unchanged DEF Same
  <2>3. a \in AppType /\ a.at # "erase"
    BY Zenon, AppTypes, NewFdType, Unchanged
  <2> HIDE DEF a
  <2>4. /\ app' \in [Threads -> AppType]
        /\ \A u \in Threads : app'[u].at = "erase" => app'[u] = app[u]
    BY Zenon, <1>3, <2>3, AppMoves
  <2> QED
    BY Zenon, <1>1, <2>1, <2>2, <2>4, Unchanged, FieldStep
<1> QED
  BY Zenon, <1>0, <1>2, <1>3

LEMMA EstablishInv ==
    ASSUME IInv, NEW t \in Threads, NEW e \in Elapsed, NEW h \in Replies, establish_conn(t, e, h)
    PROVE  IInv'
<1> DEFINE total == (app[t].total_msec + dt(e) \div 1000) % Word
<1>1. UNCHANGED <<fifo_id, conns, fd2conn, hash2fd, proxy, handles>>
  BY DEF establish_conn
<1>2. CASE UNCHANGED <<app, fifoAt>>
  BY Zenon, <1>1, <1>2, Unchanged, FieldStep
<1>3. CASE app' = [app EXCEPT ![t] = Ready] /\ CloseFds({app[t].sock})
  <2>1. Ready \in AppType /\ Ready.at # "erase"
    BY Zenon, ReadyType
  <2>2. /\ app' \in [Threads -> AppType]
        /\ \A u \in Threads : app'[u].at = "erase" => app'[u] = app[u]
    BY Zenon, <1>3, <2>1, AppMoves
  <2> QED
    BY Zenon, <1>1, <1>3, <2>2, CloseFdsType, Unchanged, FieldStep
<1>4. CASE /\ app' = [app EXCEPT ![t].total_msec = total] /\ fifoAt' = fifoAt
           /\ total <= CONNECT_TIMEOUT
  <2>1. app[t] \in AppType /\ app[t].at = "establish"
    BY Unchanged DEF establish_conn, At
  <2>2. total \in 0 .. CONNECT_TIMEOUT
    <3>1. app[t].total_msec \in Int
      BY <2>1 DEF AppType
    <3>2. e \in Int /\ Word \in Nat /\ Word > 0
      BY SocketsAssumption
    <3>3. dt(e) \in Int
      BY <3>2 DEF dt
    <3>4. app[t].total_msec + dt(e) \div 1000 \in Int
      BY <3>1, <3>3
    <3>5. total \in Nat
      BY <3>2, <3>4
    <3>6. total <= CONNECT_TIMEOUT
      BY <1>4
    <3> HIDE DEF total
    <3> QED
      BY <3>5, <3>6 DEF CONNECT_TIMEOUT
  <2> HIDE DEF total
  <2> DEFINE a == [app[t] EXCEPT !.total_msec = total]
  <2>3. a \in AppType /\ a.at # "erase"
    BY Zenon, <2>1, <2>2 DEF AppType
  <2>4. app' = [app EXCEPT ![t] = a]
    BY Zenon, <1>4, Zenon
  <2> HIDE DEF a
  <2>5. /\ app' \in [Threads -> AppType]
        /\ \A u \in Threads : app'[u].at = "erase" => app'[u] = app[u]
    BY Zenon, <2>3, <2>4, AppMoves
  <2> QED
    BY Zenon, <1>1, <1>4, <2>5, Unchanged, FieldStep
<1> QED
  BY <1>2, <1>3, <1>4 DEF establish_conn

LEMMA CloseInv ==
    ASSUME IInv, NEW t \in Threads, NEW f \in handles, _srtp_close(t, f)
    PROVE  IInv'
<1> DEFINE a == [Ready EXCEPT !.at = "close", !.fd = f]
<1>1. UNCHANGED <<fifoAt, fifo_id, conns, fd2conn, hash2fd, proxy, handles>>
      /\ app' = [app EXCEPT ![t] = a]
  BY Zenon DEF _srtp_close, socketVars
<1>2. a \in AppType /\ a.at # "erase"
  BY Zenon, AppTypes, Unchanged
<1> HIDE DEF a
<1>3. /\ app' \in [Threads -> AppType]
      /\ \A u \in Threads : app'[u].at = "erase" => app'[u] = app[u]
  BY Zenon, <1>1, <1>2, AppMoves
<1> QED
  BY Zenon, <1>1, <1>3, Unchanged, FieldStep

LEMMA RawCloseInv ==
    ASSUME IInv, NEW t \in Threads, NEW f \in handles, RawClose(t, f)
    PROVE  IInv'
<1>1. UNCHANGED <<fifo_id, conns, fd2conn, hash2fd, app, proxy, handles>> /\ CloseFds({f})
  BY Zenon DEF RawClose
<1> QED
  BY Zenon, <1>1, CloseFdsType, Unchanged, FieldStep

\* srtp_close takes the structure that the table has for its descriptor.
LEMMA CloseFifoInv ==
    ASSUME IInv, NEW t \in Threads, CloseFifo(t)
    PROVE  IInv'
<1> DEFINE f == app[t].fd
           k == fd2conn[f]
           a == [app[t] EXCEPT !.at = "erase", !.conn = k]
<1>0. app[t] \in AppType /\ f \in Fds
  BY Zenon, Unchanged DEF AppType
<1>1. UNCHANGED <<fifo_id, conns, fd2conn, hash2fd, proxy, handles>> /\ CloseFds({f})
  BY Zenon DEF CloseFifo
<1>2. CASE app' = app
  BY Zenon, <1>1, <1>2, CloseFdsType, Unchanged, FieldStep
<1>3. CASE k \notin {NoEntry, NULL} /\ app' = [app EXCEPT ![t].at = "erase", ![t].conn = k]
  <2>1. k \in Fifos /\ conns[k].alive /\ conns[k].fifo = f
    BY Zenon, <1>0, <1>3, Found DEF IInv, Table
  <2>2. k < fifo_id /\ k \in 0 .. MaxFifos
    BY <2>1 DEF IInv, Used, Fifos
  <2> HIDE DEF k
  <2>3. a \in AppType /\ a.conn = k /\ a.fd = f
    BY Zenon, <1>0, <2>2 DEF AppType
  <2>4. app' = [app EXCEPT ![t] = a]
    BY Zenon, <1>3, Unchanged
  <2> HIDE DEF a, f
  <2>5. app' \in [Threads -> AppType]
    BY Zenon, <2>3, <2>4, Unchanged
  <2>6. \A u \in Threads : app'[u].at = "erase" =>
                /\ app'[u].conn \in Fifos
                /\ app'[u].conn < fifo_id
                /\ conns[app'[u].conn].alive => conns[app'[u].conn].fifo = app'[u].fd
    <3> SUFFICES ASSUME NEW u \in Threads, app'[u].at = "erase"
                 PROVE  /\ app'[u].conn \in Fifos
                        /\ app'[u].conn < fifo_id
                        /\ conns[app'[u].conn].alive => conns[app'[u].conn].fifo = app'[u].fd
      OBVIOUS
    <3>1. CASE u = t
      <4>1. app'[u] = a
        BY Zenon, <2>4, <3>1, Unchanged
      <4> QED
        BY Zenon, <2>1, <2>2, <2>3, <4>1
    <3>2. CASE u # t
      <4>1. app'[u] = app[u]
        BY Zenon, <2>4, <3>2, Unchanged
      <4> QED
        BY Zenon, <4>1 DEF IInv, Erasing
    <3> QED
      BY Zenon, <3>1, <3>2
  <2>7. Table' /\ Used' /\ Erasing'
    <3>1. fifo_id' \in Nat /\ fifo_id' >= fifo_id
      BY <1>1 DEF IInv, Types
    <3> QED
      BY Zenon, <1>1, <2>6, <3>1, Unchanged, SameTable
  <2> QED
    BY Zenon, <1>1, <2>5, <2>7, CloseFdsType DEF IInv, Types
<1> QED
  BY Zenon, <1>2, <1>3 DEF CloseFifo

LEMMA CancelledType ==
    ASSUME NEW p \in ProxyType
    PROVE  Cancelled(p) \in ProxyType /\ ~Runs(Cancelled(p))
<1>1. CASE p.at \in {"handle", "cancelled"}
  BY Zenon, <1>1 DEF Cancelled, ProxyType, Runs
<1>2. CASE p.at \notin {"handle", "cancelled"}
  BY Zenon, <1>2, IdleType DEF Cancelled
<1> QED
  BY Zenon, <1>1, <1>2

\* The structure it deletes is in the table for that descriptor only, and that
\* entry is erased.
LEMMA CloseEraseInv ==
    ASSUME IInv, NEW t \in Threads, CloseErase(t)
    PROVE  IInv'
<1> DEFINE f == app[t].fd
           k == app[t].conn
<1>1. /\ app[t].at = "erase"
      /\ UNCHANGED <<fifo_id, hash2fd, handles>>
      /\ app' = [app EXCEPT ![t] = Ready]
      /\ proxy' = [proxy EXCEPT ![k] = Cancelled(@)]
      /\ fd2conn' = [fd2conn EXCEPT ![f] = NoEntry]
      /\ conns' = [conns EXCEPT ![k] = NoConn]
  BY Zenon DEF CloseErase, At
<1>2. k \in Fifos /\ k < fifo_id /\ (conns[k].alive => conns[k].fifo = f)
  BY Zenon, <1>1 DEF IInv, Erasing
<1>3. f \in Fds
  BY Zenon, Unchanged DEF AppType
<1>4. fifoAt' \in [Fds -> 0 .. MaxFifos]
  BY Zenon, Unchanged, CloseFdsType DEF CloseErase
<1>5. NoConn \in Conn_t /\ ~NoConn.alive
  BY Zenon, DeletedType
<1> HIDE DEF k, f
<1>6. /\ conns' \in [Fifos -> Conn_t]
      /\ ~conns'[k].alive
      /\ \A j \in Fifos \ {k} : conns'[j] = conns[j]
  BY Zenon, <1>1, <1>2, <1>5, Unchanged
<1>7. Ready \in AppType /\ Ready.at # "erase"
  BY Zenon, <1>3, AppTypes
<1>8. /\ app' \in [Threads -> AppType]
      /\ \A u \in Threads : app'[u].at = "erase" => app'[u] = app[u]
  BY Zenon, <1>1, <1>7, AppMoves
<1>9. Cancelled(proxy[k]) \in ProxyType /\ ~Runs(Cancelled(proxy[k]))
  BY Zenon, <1>2, Unchanged, CancelledType
<1>10. /\ proxy' \in [Fifos -> ProxyType]
       /\ ~Runs(proxy'[k])
       /\ \A j \in Fifos \ {k} : proxy'[j] = proxy[j]
  BY Zenon, <1>1, <1>2, <1>9, Unchanged
<1>11. /\ fd2conn' \in [Fds -> NoEntry .. MaxFifos]
       /\ fd2conn'[f] \notin Fifos
       /\ \A g \in Fds \ {f} : fd2conn'[g] = fd2conn[g]
  BY <1>1, <1>3, SocketsAssumption DEF IInv, Types, NoEntry, Fifos
<1>12. Types'
  BY Zenon, <1>1, <1>4, <1>6, <1>8, <1>10, <1>11 DEF IInv, Types
<1>13. Table'
  <2>1. ASSUME NEW g \in Fds, fd2conn'[g] \in Fifos
        PROVE  conns'[fd2conn'[g]].alive /\ conns'[fd2conn'[g]].fifo = g
    <3>1. g # f /\ fd2conn'[g] = fd2conn[g]
      BY Zenon, <1>11, <2>1
    <3>2. conns[fd2conn[g]].alive /\ conns[fd2conn[g]].fifo = g
      BY Zenon, <2>1, <3>1 DEF IInv, Table
    <3>3. fd2conn[g] # k
      BY Zenon, <1>2, <3>1, <3>2
    <3> QED
      BY Zenon, <1>6, <2>1, <3>1, <3>2, <3>3
  <2>2. ASSUME NEW j \in Fifos, Runs(proxy'[j]) PROVE conns'[j].alive
    BY Zenon, <1>6, <1>10, <2>2, Unchanged
  <2> QED
    BY Zenon, <2>1, <2>2 DEF Table
<1>14. Used'
  BY Zenon, <1>1, <1>6 DEF IInv, Used
<1>15. Erasing'
  <2> SUFFICES ASSUME NEW u \in Threads, app[u].at = "erase", app'[u] = app[u]
               PROVE  /\ app[u].conn \in Fifos
                      /\ app[u].conn < fifo_id'
                      /\ conns'[app[u].conn].alive => conns'[app[u].conn].fifo = app[u].fd
    BY Zenon, <1>8 DEF Erasing
  <2> QED
    BY Zenon, <1>1, <1>6 DEF IInv, Erasing
<1> QED
  BY Zenon, <1>12, <1>13, <1>14, <1>15 DEF IInv

\* What a proxy has looked up.
LEMMA ProxyTypes ==
    ASSUME NEW c \in Fifos, NEW s \in Seqs \cup {0}, NEW l \in 0 .. 1, l > 0 => s \in Seqs
    PROVE  [at |-> "handle", conn |-> c, len |-> l, seq |-> s] \in ProxyType
  BY SocketsAssumption DEF ProxyType, Fifos

LEMMA WaitingType == [Idle EXCEPT !.at = "recv"] \in ProxyType
  BY SocketsAssumption DEF ProxyType, Idle, NULL

\* A proxy that runs goes on, one that is cancelled ends.
LEMMA ProxyMoves ==
    ASSUME IInv, NEW k \in Fifos, NEW p \in ProxyType, Runs(p) => Runs(proxy[k]),
           proxy' = [proxy EXCEPT ![k] = p]
    PROVE  /\ proxy' \in [Fifos -> ProxyType]
           /\ \A j \in Fifos : Runs(proxy'[j]) => Runs(proxy[j])
           /\ \A j \in Fifos : Runs(proxy'[j]) => conns[j].alive
  BY Zenon, Unchanged

\* A packet put into the inbox.
LEMMA InsertType ==
    ASSUME NEW S, NEW q \in Seq(S), NEW x \in S, NEW i \in 1 .. Len(q) + 1
    PROVE  SubSeq(q, 1, i - 1) \o <<x>> \o SubSeq(q, i, Len(q)) \in Seq(S)
<1>1. SubSeq(q, 1, i - 1) \in Seq(S) /\ SubSeq(q, i, Len(q)) \in Seq(S) /\ <<x>> \in Seq(S)
  OBVIOUS
<1> QED
  BY <1>1

LEMMA HandleDataKeeps ==
    ASSUME IInv, NEW c, NEW s \in Seqs, handle_data_pkt(c, s)
    PROVE  conns' \in [Fifos -> Conn_t] /\ \A k \in Fifos : Same(conns[k], conns'[k])
<1>0. conns \in [Fifos -> Conn_t]
  BY Zenon, Unchanged
<1>1. CASE conns[c].sequence = s
  <2>1. conns' = [k \in Fifos |->
                    [conns[k] EXCEPT
                        !.sequence = IF k = c THEN @ + 1 ELSE @,
                        !.written = IF fifoAt[conns[c].fifo] = k THEN Append(@, s) ELSE @]]
    BY Zenon, <1>1 DEF handle_data_pkt
  <2>2. ASSUME NEW k \in Fifos PROVE Same(conns[k], conns'[k])
    <3> DEFINE n == IF k = c THEN conns[k].sequence + 1 ELSE conns[k].sequence
               w == IF fifoAt[conns[c].fifo] = k THEN Append(conns[k].written, s)
                    ELSE conns[k].written
    <3>1. conns'[k] = [conns[k] EXCEPT !.sequence = n, !.written = w]
      BY Zenon, <2>1, Zenon
    <3>2. conns[k] \in Conn_t
      BY Zenon, <1>0
    <3>3. n \in Nat
      BY <3>2 DEF Conn_t
    <3>4. conns[k].written \in Seq(Seqs)
      BY Zenon, <3>2 DEF Conn_t
    <3>5. w \in Seq(Seqs)
      BY <3>4
    <3> HIDE DEF n, w
    <3> QED
      BY Zenon, <3>1, <3>2, <3>3, <3>5 DEF Same, Conn_t
  <2> QED
    BY Zenon, <2>1, <2>2 DEF Same
<1>2. CASE conns[c].sequence # s
  <2> DEFINE inbox == conns[c].inbox
             after(i) == SubSeq(inbox, 1, i - 1) \o <<s>> \o SubSeq(inbox, i, Len(inbox))
  <2>1. PICK i \in 1 .. Len(inbox) + 1 : conns' = [conns EXCEPT ![c].inbox = after(i)]
    BY Zenon, <1>2 DEF handle_data_pkt
  <2>2. CASE c \notin Fifos
    <3>1. conns' = conns
      BY Zenon, <1>0, <2>1, <2>2, Zenon
    <3> QED
      BY Zenon, <3>1, Unchanged
  <2>3. CASE c \in Fifos
    <3>1. inbox \in Seq(Seqs)
      BY Zenon, <1>0, <2>3 DEF Conn_t
    <3> DEFINE b == after(i)
    <3>2. b \in Seq(Seqs)
      BY Zenon, <2>1, <3>1, InsertType
    <3>3. conns' = [conns EXCEPT ![c].inbox = b]
      BY Zenon, <2>1
    <3> HIDE DEF b
    <3>4. Same(conns[c], [conns[c] EXCEPT !.inbox = b])
      BY Zenon, <1>0, <2>3, <3>2 DEF Same, Conn_t
    <3>5. \A k \in Fifos : Same(conns[k], conns'[k])
      BY Zenon, <1>0, <3>3, <3>4, Unchanged
    <3> QED
      BY Zenon, <1>0, <3>3, <3>5 DEF Same
  <2> QED
    BY Zenon, <2>2, <2>3
<1> QED
  BY Zenon, <1>1, <1>2

LEMMA HandleInv ==
    ASSUME IInv, NEW k \in Fifos, HandlePacket(k)
    PROVE  IInv'
<1>1. /\ proxy[k].at = "handle"
      /\ proxy' = [proxy EXCEPT ![k] = [Idle EXCEPT !.at = "recv"]]
      /\ UNCHANGED <<fifoAt, fifo_id, fd2conn, hash2fd, app, handles>>
  BY Zenon DEF HandlePacket
<1>2. [Idle EXCEPT !.at = "recv"] \in ProxyType
  BY Zenon, WaitingType
<1>0. Runs(proxy[k])
  BY Zenon, <1>1 DEF Runs
<1>3. /\ proxy' \in [Fifos -> ProxyType]
      /\ \A j \in Fifos : Runs(proxy'[j]) => conns[j].alive
  BY Zenon, <1>0, <1>1, <1>2, ProxyMoves
<1>4. proxy[k].len > 0 => proxy[k].seq \in Seqs
  BY Zenon, Unchanged DEF ProxyType
<1>5. CASE conns' = conns
  BY Zenon, <1>1, <1>3, <1>5, Unchanged, FieldStep
<1>6. CASE proxy[k].len > 0 /\ handle_data_pkt(proxy[k].conn, proxy[k].seq)
  BY Zenon, <1>1, <1>3, <1>4, <1>6, HandleDataKeeps, Unchanged, FieldStep
<1> QED
  BY Zenon, <1>5, <1>6 DEF HandlePacket, handle_cmd_pkt

LEMMA CancelledInv ==
    ASSUME IInv, NEW k \in Fifos, CancelledPacket(k)
    PROVE  IInv'
<1>1. /\ proxy' = [proxy EXCEPT ![k] = Idle]
      /\ UNCHANGED <<fifoAt, fifo_id, fd2conn, hash2fd, app, handles>>
  BY Zenon DEF CancelledPacket
<1>2. /\ proxy' \in [Fifos -> ProxyType]
      /\ \A j \in Fifos : Runs(proxy'[j]) => conns[j].alive
  BY Zenon, <1>1, IdleType, ProxyMoves
<1>3. proxy[k].len > 0 => proxy[k].seq \in Seqs
  BY Zenon, Unchanged DEF ProxyType
<1>4. CASE conns' = conns
  BY Zenon, <1>1, <1>2, <1>4, Unchanged, FieldStep
<1>5. CASE proxy[k].len > 0 /\ handle_data_pkt(proxy[k].conn, proxy[k].seq)
  BY Zenon, <1>1, <1>2, <1>3, <1>5, HandleDataKeeps, Unchanged, FieldStep
<1> QED
  BY Zenon, <1>4, <1>5 DEF CancelledPacket

LEMMA RecvInv ==
    ASSUME IInv, NEW k \in Fifos, NEW ip \in IPs, NEW seq \in Seqs, NEW len \in 0 .. 1,
           recv_srtp_data(k, ip, seq, len)
    PROVE  IInv'
<1> DEFINE fifo == IF hash2fd[ip] = NoEntry THEN 0 ELSE hash2fd[ip]
           s == IF len = 0 THEN 0 ELSE seq
           found(c) == [at |-> "handle", conn |-> c, len |-> len, seq |-> s]
           table == [fd2conn EXCEPT ![fifo] = NULL]
           got(f, n) == IF f = NoFd THEN NULL ELSE Inserted(table, f, n)[f]
           made(n, c, fresh) == [[conns EXCEPT ![n] = fresh] EXCEPT ![c].addr_len = TRUE]
<1>1. Runs(proxy[k]) /\ hash2fd' = [hash2fd EXCEPT ![ip] = fifo] /\ UNCHANGED <<app, handles>>
  BY Zenon DEF recv_srtp_data, Runs
<1>2. fifo \in Fds
  BY SocketsAssumption DEF IInv, Types, Fds, NoEntry
<1>3. hash2fd' \in [IPs -> Fds \cup {NoEntry}]
  BY Zenon, <1>1, <1>2 DEF IInv, Types
<1>4. s \in Seqs \cup {0} /\ (len > 0 => s \in Seqs)
  OBVIOUS
<1>5. \/ /\ fd2conn[fifo] \in Fifos
         /\ proxy' = [proxy EXCEPT ![k] = found(fd2conn[fifo])]
         /\ UNCHANGED socketVars
      \/ UNCHANGED <<proxy, socketVars>>
      \/ /\ fd2conn[fifo] \in {NoEntry, NULL}
         /\ \E f \in NewFds, n \in NextFifos :
              /\ got(f, n) # NULL
              /\ \E fresh \in Fresh(f) : MakeSocket(f, n, table, made(n, got(f, n), fresh))
              /\ proxy' = [proxy EXCEPT ![k] = found(got(f, n))]
  BY Zenon DEF recv_srtp_data
<1> HIDE DEF fifo, s
<1>6. CASE /\ fd2conn[fifo] \in Fifos
           /\ proxy' = [proxy EXCEPT ![k] = found(fd2conn[fifo])]
           /\ UNCHANGED socketVars
  <2>1. found(fd2conn[fifo]) \in ProxyType
    BY Zenon, <1>4, <1>6, ProxyTypes
  <2> HIDE DEF found
  <2>2. /\ proxy' \in [Fifos -> ProxyType]
        /\ \A j \in Fifos : Runs(proxy'[j]) => conns[j].alive
    BY Zenon, <1>1, <1>6, <2>1, ProxyMoves
  <2>3. UNCHANGED <<fifoAt, fifo_id, conns, fd2conn, app, handles>>
    BY Zenon, <1>1, <1>6 DEF socketVars
  <2>4. Table' /\ Used'
    BY Zenon, <2>2, <2>3 DEF IInv, Table, Used
  <2>5. Erasing'
    BY Zenon, <2>3 DEF IInv, Erasing
  <2> QED
    BY Zenon, <1>3, <2>2, <2>3, <2>4, <2>5 DEF IInv, Types
<1>7. CASE UNCHANGED <<proxy, socketVars>>
  <2>1. UNCHANGED <<fifoAt, fifo_id, conns, fd2conn, app, handles, proxy>>
    BY Zenon, <1>1, <1>7 DEF socketVars
  <2> QED
    BY Zenon, <1>3, <2>1 DEF IInv, Types, Table, Used, Erasing
<1>8. ASSUME NEW f \in NewFds, NEW n \in NextFifos, NEW fresh \in Fresh(f),
             got(f, n) # NULL,
             MakeSocket(f, n, table, made(n, got(f, n), fresh)),
             proxy' = [proxy EXCEPT ![k] = found(got(f, n))]
      PROVE  IInv'
  <2> DEFINE c == got(f, n)
             new == made(n, c, fresh)
  <2>1. f \in Fds
    BY Zenon, <1>8, NewFdType
  <2>2. n \in Fifos
    BY Zenon, NextFifoIn DEF IInv
  <2>3. /\ table \in [Fds -> NoEntry .. MaxFifos]
        /\ \A g \in Fds : table[g] \in Fifos => table[g] = fd2conn[g]
    BY <1>2, SocketsAssumption DEF IInv, Types, NULL, NoEntry, Fifos
  <2>4. c \in Fifos
    <3>1. c = IF table[f] = NoEntry THEN n ELSE table[f]
      BY Zenon, <1>8, <2>1, <2>3 DEF Inserted
    <3>2. c # NULL
      BY Zenon, <1>8
    <3> HIDE DEF c, table
    <3> QED
      BY <2>1, <2>2, <2>3, <3>1, <3>2, SocketsAssumption DEF NULL, NoEntry, Fifos
  <2>5. MakeSocket(f, n, table, new) /\ proxy' = [proxy EXCEPT ![k] = found(c)]
    BY Zenon, <1>8
  <2> HIDE DEF c, table
  <2>6. fresh \in Conn_t /\ fresh.alive /\ fresh.fifo = f
    BY Zenon, <2>1, FreshType
  <2> DEFINE mid == [conns EXCEPT ![n] = fresh]
  <2>7. /\ mid \in [Fifos -> Conn_t]
        /\ mid[n] = fresh
        /\ \A j \in Fifos \ {n} : mid[j] = conns[j]
    BY Zenon, <2>2, <2>6, Unchanged
  <2>8. new = [mid EXCEPT ![c].addr_len = TRUE]
    OBVIOUS
  <2> HIDE DEF mid
  <2>9. \A j \in Fifos : Same(mid[j], new[j])
    <3>1. ASSUME NEW j \in Fifos PROVE Same(mid[j], mid[j]) /\ Same(mid[j], [mid[j] EXCEPT !.addr_len = TRUE])
      BY Zenon, <2>1, <2>7, FieldSet DEF Same
    <3> QED
      BY Zenon, <2>4, <2>7, <2>8, <3>1
  <2>10. new \in [Fifos -> Conn_t]
    BY Zenon, <2>7, <2>8, <2>9 DEF Same
  <2> HIDE DEF new
  <2>11. /\ new[n].alive /\ new[n].fifo = f
         /\ \A j \in Fifos \ {n} :
                new[j].alive = conns[j].alive /\ new[j].fifo = conns[j].fifo
    BY Zenon, <2>2, <2>6, <2>7, <2>9 DEF Same
  <2>12. found(c) \in ProxyType
    BY Zenon, <1>4, <2>4, ProxyTypes
  <2> HIDE DEF found
  <2>13. /\ proxy' \in [Fifos -> ProxyType]
         /\ \A j \in Fifos : Runs(proxy'[j]) => Runs(proxy[j])
    BY Zenon, <1>1, <2>5, <2>12, ProxyMoves
  <2>14. /\ fifoAt' \in [Fds -> 0 .. MaxFifos]
         /\ fifo_id' \in 1 .. MaxFifos + 1
         /\ conns' \in [Fifos -> Conn_t]
         /\ fd2conn' \in [Fds -> NoEntry .. MaxFifos]
         /\ Table' /\ Used' /\ Erasing'
    <3>1. table \in [Fds -> NoEntry .. MaxFifos]
      BY Zenon, <2>3
    <3>2. \A g \in Fds : table[g] \in Fifos => table[g] = fd2conn[g]
      BY Zenon, <2>3
    <3>3. MakeSocket(f, n, table, new)
      BY Zenon, <2>5
    <3>4. new[n].alive
      BY Zenon, <2>11
    <3>5. new[n].fifo = f
      BY Zenon, <2>11
    <3>6. \A j \in Fifos \ {n} : new[j].alive = conns[j].alive /\ new[j].fifo = conns[j].fifo
      BY Zenon, <2>11
    <3>7. \A j \in Fifos : Runs(proxy'[j]) => Runs(proxy[j])
      BY Zenon, <2>13
    <3>8. app' = app
      BY Zenon, <1>1
    <3> HIDE DEF got, made
    <3> QED
      BY Zenon, <2>1, <2>10, <3>1, <3>2, <3>3, <3>4, <3>5, <3>6, <3>7, <3>8, MakeInv, Zenon
  <2> QED
    BY Zenon, <1>1, <1>3, <2>13, <2>14 DEF IInv, Types
<1> QED
  BY Zenon, <1>5, <1>6, <1>7, <1>8

LEMMA NextInv == IInv /\ [Next]_vars => IInv'
<1> SUFFICES ASSUME IInv, [Next]_vars PROVE IInv'
  OBVIOUS
<1>1. ASSUME NEW t \in Threads, AppCall(t) PROVE IInv'
  BY Zenon, <1>1, SocketInv, BindInv, ListenInv, ConnectInv, CloseInv, RawCloseInv DEF AppCall
<1>2. ASSUME NEW t \in Threads, AppStep(t) PROVE IInv'
  BY Zenon, <1>2, EstablishInv, CloseFifoInv, CloseEraseInv DEF AppStep
<1>3. ASSUME NEW k \in Fifos, ProxyStep(k) PROVE IInv'
  BY Zenon, <1>3, RecvInv, HandleInv, CancelledInv DEF ProxyStep
<1>4. CASE UNCHANGED vars
  BY Zenon, <1>4 DEF vars, IInv, Types, Table, Used, Erasing
<1> QED
  BY Zenon, <1>1, <1>2, <1>3, <1>4 DEF Next

\* For any number of threads, peers and descriptors, and in any order of calls
\* and datagrams, fd2conn holds only structures that exist, each under its own
\* descriptor, and every proxy runs for one that exists (srtp_impl.cpp:194-202,
\* 519-525, 677-692).
THEOREM TableSoundHolds == FairSpec => []TableSound
<1>1. IInv => TableSound
  BY Zenon DEF IInv, Table, TableSound, Runs
<1> QED
  BY InitInv, NextInv, <1>1, PTL DEF FairSpec

-----------------------------------------------------------------------------
\* The rest of the types.

Rest ==
    /\ others \subseteq Fds /\ files \subseteq Fifos /\ unlisted \subseteq Fds
    /\ datagrams \in 0 .. MaxDatagrams
    /\ crashed \in BOOLEAN
    /\ new_conns = <<>>

\* A FIFO made for descriptor f.
LEMMA MakeRest ==
    ASSUME IInv, Rest, NEW f \in Fds, NEW n \in NextFifos, NEW table, NEW new,
           MakeSocket(f, n, table, new)
    PROVE  files' \subseteq Fifos /\ unlisted' \subseteq Fds
<1>1. n \in Fifos
  BY Zenon, NextFifoIn DEF IInv
<1>2. files' = files \cup {n} /\ unlisted' \in {unlisted \ {f}, unlisted \cup {f}}
  BY Zenon DEF MakeSocket
<1> QED
  BY Zenon, <1>1, <1>2 DEF Rest

LEMMA AppRest ==
    ASSUME IInv, Rest, NEW t \in Threads, AppCall(t) \/ AppStep(t)
    PROVE  Rest'
<1>1. CASE _srtp_socket(t)
  <2>1. UNCHANGED <<others, new_conns, datagrams, crashed>>
    BY Zenon, <1>1 DEF _srtp_socket
  <2>2. PICK f \in NewFds, n \in NextFifos :
           \/ UNCHANGED <<files, unlisted>>
           \/ f # NoFd /\ \E c \in Fresh(f) : MakeSocket(f, n, fd2conn, [conns EXCEPT ![n] = c])
    BY Zenon, <1>1 DEF _srtp_socket
  <2>3. files' \subseteq Fifos /\ unlisted' \subseteq Fds
    <3>1. CASE UNCHANGED <<files, unlisted>>
      BY Zenon, <3>1 DEF Rest
    <3>2. ASSUME f # NoFd, NEW c, MakeSocket(f, n, fd2conn, [conns EXCEPT ![n] = c])
          PROVE  files' \subseteq Fifos /\ unlisted' \subseteq Fds
      BY Zenon, <3>2, NewFdType, MakeRest
    <3> QED
      BY Zenon, <2>2, <3>1, <3>2
  <2> QED
    BY Zenon, <2>1, <2>3 DEF Rest
<1>2. ASSUME NEW f \in handles, _srtp_bind(t, f) \/ _srtp_listen(t, f) \/ _srtp_connect(t, f)
      PROVE  Rest'
  <2>1. UNCHANGED <<files, unlisted, new_conns, datagrams>> /\ crashed' \in {crashed, TRUE}
    BY Zenon, <1>2 DEF _srtp_bind, _srtp_listen, _srtp_connect
  <2>2. others' = others \/ \E s \in NewFds : others' = others \cup ({s} \ {NoFd})
    BY Zenon, <1>2 DEF _srtp_bind, _srtp_listen, _srtp_connect
  <2> QED
    BY Zenon, <2>1, <2>2, NewFdType DEF Rest
<1>3. ASSUME NEW f \in handles, _srtp_close(t, f) \/ RawClose(t, f)
      PROVE  Rest'
  <2>1. UNCHANGED <<files, unlisted, new_conns, datagrams, crashed>> /\ others' \subseteq others
    BY Zenon, <1>3 DEF _srtp_close, RawClose, CloseFds, socketVars
  <2> QED
    BY Zenon, <2>1 DEF Rest
<1>4. CASE AppStep(t)
  <2>1. UNCHANGED <<unlisted, new_conns, datagrams>> /\ others' \subseteq others
        /\ files' \subseteq files /\ (crashed' = crashed \/ crashed' \in BOOLEAN)
    BY ZenonT(40), <1>4 DEF AppStep, establish_conn, CloseFifo, CloseErase, CloseFds
  <2> QED
    BY ZenonT(40), <2>1 DEF Rest
<1> QED
  BY Zenon, <1>1, <1>2, <1>3, <1>4 DEF AppCall

LEMMA ProxyRest ==
    ASSUME IInv, Rest, NEW k \in Fifos, ProxyStep(k)
    PROVE  Rest'
<1>1. CASE HandlePacket(k) \/ CancelledPacket(k)
  <2>1. UNCHANGED <<others, files, unlisted, new_conns, datagrams>>
        /\ (crashed' = crashed \/ crashed' \in BOOLEAN)
    BY Zenon, <1>1 DEF HandlePacket, CancelledPacket
  <2> QED
    BY Zenon, <2>1 DEF Rest
<1>2. ASSUME NEW ip \in IPs, NEW seq \in Seqs, NEW len \in 0 .. 1, recv_srtp_data(k, ip, seq, len)
      PROVE  Rest'
  <2>1. /\ UNCHANGED <<others, new_conns>> /\ crashed' \in {crashed, TRUE}
        /\ datagrams < MaxDatagrams /\ datagrams' = datagrams + 1
    BY Zenon, <1>2 DEF recv_srtp_data
  <2>2. datagrams' \in 0 .. MaxDatagrams
    BY <2>1, DataAssumption DEF Rest
  <2>3. \/ UNCHANGED socketVars
        \/ \E f \in NewFds, n \in NextFifos : f # NoFd /\ \E table, new : MakeSocket(f, n, table, new)
    <3> DEFINE fifo == IF hash2fd[ip] = NoEntry THEN 0 ELSE hash2fd[ip]
               table == [fd2conn EXCEPT ![fifo] = NULL]
               got(f, n) == IF f = NoFd THEN NULL ELSE Inserted(table, f, n)[f]
               made(n, c, fresh) == [[conns EXCEPT ![n] = fresh] EXCEPT ![c].addr_len = TRUE]
    <3>1. \/ UNCHANGED socketVars
          \/ \E f \in NewFds, n \in NextFifos :
                /\ got(f, n) # NULL
                /\ \E fresh \in Fresh(f) : MakeSocket(f, n, table, made(n, got(f, n), fresh))
      BY Zenon, <1>2 DEF recv_srtp_data
    <3>2. \A f, n : got(f, n) # NULL => f # NoFd
      OBVIOUS
    <3> HIDE DEF got, made, table
    <3> QED
      BY Zenon, <3>1, <3>2, Zenon
  <2>4. files' \subseteq Fifos /\ unlisted' \subseteq Fds
    <3>1. CASE UNCHANGED socketVars
      BY Zenon, <3>1 DEF Rest, socketVars
    <3>2. ASSUME NEW f \in NewFds, NEW n \in NextFifos, f # NoFd, NEW table, NEW new,
                 MakeSocket(f, n, table, new)
          PROVE  files' \subseteq Fifos /\ unlisted' \subseteq Fds
      BY Zenon, <3>2, NewFdType, MakeRest
    <3> QED
      BY Zenon, <2>3, <3>1, <3>2
  <2> QED
    BY Zenon, <2>1, <2>2, <2>4 DEF Rest
<1> QED
  BY Zenon, <1>1, <1>2 DEF ProxyStep

\* The variables of the library keep their types; above all, the table and the
\* descriptors stay in their ranges, and the time that srtp_connect has waited
\* never exceeds its limit although the clock's difference is negative
\* (srtp_impl.cpp:47-89, 194-202, 519-525).
THEOREM TypeCorrect == FairSpec => []TypeOK
<1>1. Init => Rest
  <2> HAVE Init
  <2>1. /\ others \in {{}, {0}} /\ files = OldFifos /\ unlisted = {}
        /\ datagrams = 0 /\ crashed = FALSE /\ new_conns = <<>>
    BY Zenon DEF Init
  <2>2. others \subseteq Fds
    BY <2>1, SocketsAssumption DEF Fds
  <2>3. datagrams \in 0 .. MaxDatagrams
    BY <2>1, DataAssumption
  <2> QED
    BY Zenon, <2>1, <2>2, <2>3, SocketsAssumption DEF Rest
<1>2. IInv /\ Rest /\ [Next]_vars => (IInv /\ Rest)'
  <2> SUFFICES ASSUME IInv, Rest, [Next]_vars PROVE IInv' /\ Rest'
    OBVIOUS
  <2>1. CASE UNCHANGED vars
    BY Zenon, <2>1, NextInv DEF vars, Rest
  <2> QED
    BY Zenon, <2>1, NextInv, AppRest, ProxyRest DEF Next
<1>3. IInv /\ Rest => TypeOK
  <2> SUFFICES ASSUME IInv, Rest PROVE TypeOK
    OBVIOUS
  <2>1. proxy \in [Fifos -> [at : {"none", "recv", "handle", "cancelled"}, conn : 0 .. MaxFifos,
                            seq : Seqs \cup {0}, len : 0 .. 1]]
    <3>1. \A k \in Fifos : proxy[k] \in [at : {"none", "recv", "handle", "cancelled"},
                                         conn : 0 .. MaxFifos, seq : Seqs \cup {0}, len : 0 .. 1]
      BY Zenon, Unchanged DEF ProxyType
    <3> QED
      BY Zenon, <3>1, Unchanged
  <2>2. new_conns \in Seq(Fds)
    BY DEF Rest
  <2> QED
    BY Zenon, <2>1, <2>2 DEF IInv, Types, AppType, Rest, TypeOK
<1> QED
  BY InitInv, <1>1, <1>2, <1>3, PTL DEF FairSpec

-----------------------------------------------------------------------------
\* One application thread: nobody opens a socket while another is closed.

OneThread == \A t, u \in Threads : t = u

\* An open FIFO has its own entry in the table, or its descriptor is listed as
\* one that had an entry before; the entry of a descriptor stays while
\* srtp_close erases it.
Listed ==
    /\ \A f \in Fds : fifoAt[f] # 0 /\ f \notin unlisted => fd2conn[f] = fifoAt[f]
    /\ \A t \in Threads : app[t].at = "erase" =>
          /\ fd2conn[app[t].fd] = app[t].conn
          /\ fifoAt[app[t].fd] = 0 \/ app[t].fd \in unlisted

\* A FIFO is open once.
OpenOnce ==
    /\ \A f \in Fds : fifoAt[f] < fifo_id
    /\ \A f, g \in Fds : fifoAt[f] = fifoAt[g] /\ fifoAt[f] # 0 => f = g

\* A proxy handles a packet for the connection that the table has for its
\* descriptor, unless it was deleted since.
Handling ==
    \A k \in Fifos : proxy[k].at = "handle" =>
        /\ proxy[k].conn \in Fifos /\ proxy[k].conn < fifo_id
        /\ conns[proxy[k].conn].alive => fd2conn[conns[proxy[k].conn].fifo] = proxy[k].conn

\* The connection in the table continues what its FIFO was given.
Continues ==
    \A f \in Fds : fd2conn[f] \in Fifos /\ fifoAt[f] # 0 =>
        LET w == conns[fifoAt[f]].written IN
        w # <<>> => conns[fd2conn[f]].sequence = w[Len(w)] + 1

OneThreadInv == Listed /\ OpenOnce /\ Handling /\ Continues /\ StreamInOrder

LEMMA OneThreadInit == Init => OneThreadInv
<1> HAVE Init
<1>1. /\ \A f \in Fds : fifoAt[f] = 0 /\ fd2conn[f] = NoEntry
      /\ \A t \in Threads : app[t] = Ready
      /\ \A k \in Fifos : proxy[k] = Idle /\ conns[k] = NoConn
      /\ fifo_id = 1
  BY Zenon DEF Init
<1>2. Ready.at # "erase" /\ Idle.at # "handle" /\ NoConn.written = <<>> /\ NoConn.inbox = <<>>
  BY Zenon DEF Ready, Idle, NoConn
<1>3. Listed /\ Handling
  BY Zenon, <1>1, <1>2 DEF Listed, Handling
<1>4. OpenOnce /\ Continues
  BY <1>1 DEF OpenOnce, Continues
<1>5. StreamInOrder
  <2>1. Len(<<>>) = 0
    OBVIOUS
  <2> QED
    BY <1>1, <1>2, <2>1 DEF StreamInOrder
<1> QED
  BY Zenon, <1>3, <1>4, <1>5 DEF OneThreadInv

\* A structure whose stream stays, and one whose inbox does too.
SameStream(c, d) ==
    /\ d.alive = c.alive /\ d.fifo = c.fifo
    /\ d.sequence = c.sequence /\ d.written = c.written
Kept(c, d) == SameStream(c, d) /\ d.inbox = c.inbox

Sorted(q) == \A i \in 2 .. Len(q) : q[i - 1] <= q[i]

\* Steps that open no FIFO, delete no structure and give no data.
LEMMA QuietStep ==
    ASSUME IInv, IInv', OneThreadInv, fd2conn' = fd2conn, unlisted' = unlisted,
           fifo_id' >= fifo_id,
           \A f \in Fds : fifoAt'[f] \in {0, fifoAt[f]},
           \A k \in Fifos : SameStream(conns[k], conns'[k]) /\ Sorted(conns'[k].inbox),
           \A k \in Fifos : proxy'[k].at = "handle" =>
               proxy'[k] = proxy[k] \/ \E f \in Fds : fd2conn[f] = proxy'[k].conn /\ fd2conn[f] \in Fifos,
           \A t \in Threads : app'[t].at = "erase" =>
               \/ app'[t] = app[t]
               \/ fd2conn[app'[t].fd] = app'[t].conn /\ fifoAt'[app'[t].fd] = 0
    PROVE  OneThreadInv'
<1>1. /\ fifo_id \in Nat /\ fifo_id' \in Nat /\ fifo_id > 0
      /\ \A f \in Fds : fifoAt[f] \in 0 .. MaxFifos /\ fifoAt'[f] \in 0 .. MaxFifos
      /\ \A t \in Threads : app[t].fd \in Fds
  BY DEF IInv, Types, AppType
<1>2. Listed'
  <2>1. ASSUME NEW f \in Fds, fifoAt'[f] # 0, f \notin unlisted
        PROVE  fd2conn'[f] = fifoAt'[f]
    BY Zenon, <2>1 DEF OneThreadInv, Listed
  <2>2. ASSUME NEW t \in Threads, app'[t].at = "erase"
        PROVE  /\ fd2conn'[app'[t].fd] = app'[t].conn
               /\ fifoAt'[app'[t].fd] = 0 \/ app'[t].fd \in unlisted
    <3>1. CASE app'[t] = app[t]
      <4>1. /\ fd2conn[app[t].fd] = app[t].conn
            /\ fifoAt[app[t].fd] = 0 \/ app[t].fd \in unlisted
        BY Zenon, <2>2, <3>1 DEF OneThreadInv, Listed
      <4> QED
        BY Zenon, <1>1, <3>1, <4>1
    <3> QED
      BY Zenon, <2>2, <3>1
  <2> QED
    BY Zenon, <2>1, <2>2 DEF Listed
<1>3. OpenOnce'
  <2>1. ASSUME NEW f \in Fds PROVE fifoAt'[f] < fifo_id'
    <3>1. fifoAt[f] < fifo_id
      BY Zenon DEF OneThreadInv, OpenOnce
    <3> QED
      BY <1>1, <3>1
  <2>2. ASSUME NEW f \in Fds, NEW g \in Fds, fifoAt'[f] = fifoAt'[g], fifoAt'[f] # 0
        PROVE  f = g
    BY Zenon, <2>2 DEF OneThreadInv, OpenOnce
  <2> QED
    BY Zenon, <2>1, <2>2 DEF OpenOnce
<1>4. Handling'
  <2> SUFFICES ASSUME NEW k \in Fifos, proxy'[k].at = "handle", NEW c, c = proxy'[k].conn
               PROVE  /\ c \in Fifos /\ c < fifo_id'
                      /\ conns'[c].alive => fd2conn'[conns'[c].fifo] = c
    BY Zenon DEF Handling
  <2>1. CASE proxy'[k] = proxy[k]
    <3>1. /\ c \in Fifos /\ c < fifo_id
          /\ conns[c].alive => fd2conn[conns[c].fifo] = c
      BY <2>1 DEF OneThreadInv, Handling
    <3>2. c < fifo_id'
      BY <1>1, <3>1 DEF Fifos
    <3> QED
      BY Zenon, <3>1, <3>2 DEF SameStream
  <2>2. ASSUME NEW f \in Fds, fd2conn[f] = c, c \in Fifos
        PROVE  /\ c \in Fifos /\ c < fifo_id'
               /\ conns'[c].alive => fd2conn'[conns'[c].fifo] = c
    <3>1. conns[c].alive /\ conns[c].fifo = f /\ c < fifo_id
      BY <2>2 DEF IInv, Table, Used
    <3>2. c < fifo_id'
      BY <1>1, <2>2, <3>1 DEF Fifos
    <3> QED
      BY Zenon, <2>2, <3>1, <3>2 DEF SameStream
  <2> QED
    BY Zenon, <2>1, <2>2
<1>5. Continues'
  <2> SUFFICES ASSUME NEW f \in Fds, fd2conn[f] \in Fifos, fifoAt'[f] # 0,
                      NEW w, w = conns'[fifoAt'[f]].written, w # <<>>
               PROVE  conns'[fd2conn[f]].sequence = w[Len(w)] + 1
    BY Zenon DEF Continues
  <2>1. fifoAt'[f] = fifoAt[f] /\ fifoAt[f] \in Fifos
    BY <1>1 DEF Fifos
  <2>2. w = conns[fifoAt[f]].written
    BY Zenon, <2>1 DEF SameStream
  <2>3. conns[fd2conn[f]].sequence = w[Len(w)] + 1
    BY Zenon, <2>1, <2>2 DEF OneThreadInv, Continues
  <2> QED
    BY Zenon, <2>3 DEF SameStream
<1>6. StreamInOrder'
  <2>1. ASSUME NEW k \in Fifos
        PROVE  \A i \in 2 .. Len(conns'[k].written) :
                   conns'[k].written[i] = conns'[k].written[i - 1] + 1
    BY DEF OneThreadInv, StreamInOrder, SameStream
  <2> QED
    BY Zenon, <2>1 DEF StreamInOrder, Sorted
<1> QED
  BY Zenon, <1>2, <1>3, <1>4, <1>5, <1>6 DEF OneThreadInv

\* A FIFO is opened: its name is new, and its structure has no data.
LEMMA MakeStep ==
    ASSUME IInv, IInv', OneThreadInv, NEW f \in Fds, NEW n \in NextFifos, NEW table, NEW new,
           table \in [Fds -> NoEntry .. MaxFifos], MakeSocket(f, n, table, new),
           \A g \in Fds : table[g] \in Fifos => table[g] = fd2conn[g],
           \A g \in Fds : fd2conn[g] \in Fifos => table[g] = fd2conn[g],
           new[n].written = <<>>, new[n].inbox = <<>>,
           \A k \in Fifos \ {n} : Kept(conns[k], new[k]),
           \A k \in Fifos : proxy'[k].at = "handle" =>
               proxy'[k] = proxy[k] \/ \E g \in Fds : fd2conn'[g] = proxy'[k].conn /\ fd2conn'[g] \in Fifos,
           app' = app
    PROVE  OneThreadInv'
<1>1. n \in Fifos /\ n \in Nat /\ n >= fifo_id /\ fifo_id \in Nat /\ n # 0
  BY NextFifoIn DEF IInv, Fifos
<1>2. /\ fifo_id' = n + 1 /\ conns' = new
      /\ \A g \in Fds : fifoAt'[g] = IF g = f THEN n ELSE fifoAt[g]
      /\ \A g \in Fds : fd2conn'[g] = IF g = f /\ table[g] = NoEntry THEN n ELSE table[g]
      /\ unlisted' = IF table[f] = NoEntry THEN unlisted \ {f} ELSE unlisted \cup {f}
  BY Zenon DEF MakeSocket, Inserted, IInv, Types
<1>3. \A g \in Fds : fd2conn[g] \in Fifos => fd2conn'[g] = fd2conn[g] /\ fd2conn[g] # NoEntry
  BY <1>2 DEF NoEntry, Fifos
<1>4. /\ \A g \in Fds : fifoAt[g] \in 0 .. MaxFifos /\ fifoAt[g] < fifo_id /\ fifoAt[g] # n
      /\ \A t \in Threads : app[t].fd \in Fds
  <2>1. ASSUME NEW g \in Fds
        PROVE  fifoAt[g] \in 0 .. MaxFifos /\ fifoAt[g] < fifo_id /\ fifoAt[g] # n
    <3>1. fifoAt[g] \in 0 .. MaxFifos /\ fifoAt[g] < fifo_id
      BY Zenon DEF IInv, Types, OneThreadInv, OpenOnce
    <3> QED
      BY <1>1, <3>1
  <2> QED
    BY Zenon, <2>1 DEF IInv, Types, AppType
<1>5. \A k \in Fifos : k < fifo_id => k # n /\ k < fifo_id'
  <2>1. fifo_id' = n + 1
    BY Zenon, <1>2
  <2> QED
    BY <1>1, <2>1 DEF Fifos
<1>6. Listed'
  <2>1. ASSUME NEW g \in Fds, fifoAt'[g] # 0, g \notin unlisted'
        PROVE  fd2conn'[g] = fifoAt'[g]
    <3>1. CASE g = f
      BY Zenon, <1>2, <2>1, <3>1
    <3>2. CASE g # f
      <4>1. fifoAt[g] # 0 /\ g \notin unlisted /\ fifoAt'[g] = fifoAt[g]
        BY Zenon, <1>2, <2>1, <3>2
      <4>2. fd2conn[g] = fifoAt[g] /\ fifoAt[g] \in Fifos
        BY <1>4, <4>1 DEF OneThreadInv, Listed, Fifos
      <4> QED
        BY Zenon, <1>3, <4>1, <4>2
    <3> QED
      BY Zenon, <3>1, <3>2
  <2>2. ASSUME NEW t \in Threads, app[t].at = "erase"
        PROVE  /\ fd2conn'[app[t].fd] = app[t].conn
               /\ fifoAt'[app[t].fd] = 0 \/ app[t].fd \in unlisted'
    <3>1. /\ fd2conn[app[t].fd] = app[t].conn /\ app[t].conn \in Fifos /\ app[t].fd \in Fds
          /\ fifoAt[app[t].fd] = 0 \/ app[t].fd \in unlisted
      BY Zenon, <1>4, <2>2 DEF OneThreadInv, Listed, IInv, Erasing
    <3>2. fd2conn'[app[t].fd] = app[t].conn /\ table[app[t].fd] # NoEntry
      BY Zenon, <1>3, <3>1
    <3>3. CASE app[t].fd = f
      BY Zenon, <1>2, <3>2, <3>3
    <3>4. CASE app[t].fd # f
      BY Zenon, <1>2, <3>1, <3>4
    <3> QED
      BY Zenon, <3>2, <3>3, <3>4
  <2> QED
    BY Zenon, <2>1, <2>2 DEF Listed
<1>7. OpenOnce'
  <2>1. ASSUME NEW g \in Fds PROVE fifoAt'[g] < fifo_id'
    <3>1. fifo_id' = n + 1 /\ fifoAt'[g] \in {n, fifoAt[g]}
      BY Zenon, <1>2
    <3>2. fifoAt[g] \in 0 .. MaxFifos /\ fifoAt[g] < fifo_id
      BY Zenon, <1>4
    <3> QED
      BY <1>1, <3>1, <3>2
  <2>2. ASSUME NEW g \in Fds, NEW h \in Fds, fifoAt'[g] = fifoAt'[h], fifoAt'[g] # 0
        PROVE  g = h
    BY <1>2, <1>4, <2>2 DEF OneThreadInv, OpenOnce
  <2> QED
    BY Zenon, <2>1, <2>2 DEF OpenOnce
<1>8. Handling'
  <2> SUFFICES ASSUME NEW k \in Fifos, proxy'[k].at = "handle", NEW c, c = proxy'[k].conn
               PROVE  /\ c \in Fifos /\ c < fifo_id'
                      /\ conns'[c].alive => fd2conn'[conns'[c].fifo] = c
    BY Zenon DEF Handling
  <2>1. CASE proxy'[k] = proxy[k]
    <3>1. /\ c \in Fifos /\ c < fifo_id
          /\ conns[c].alive => fd2conn[conns[c].fifo] = c
      BY <2>1 DEF OneThreadInv, Handling
    <3>2. c # n /\ c < fifo_id' /\ Kept(conns[c], conns'[c])
      BY Zenon, <1>2, <1>5, <3>1
    <3>3. conns[c].fifo \in Fds
      BY Zenon, <3>1, Unchanged DEF Conn_t
    <3> QED
      BY <1>3, <3>1, <3>2, <3>3 DEF Kept, SameStream
  <2>2. ASSUME NEW g \in Fds, fd2conn'[g] = c, c \in Fifos
        PROVE  /\ c \in Fifos /\ c < fifo_id'
               /\ conns'[c].alive => fd2conn'[conns'[c].fifo] = c
    BY <2>2 DEF IInv, Table, Used
  <2> QED
    BY Zenon, <2>1, <2>2
<1>9. Continues'
  <2> DEFINE stream(g) == conns'[fifoAt'[g]].written
  <2> SUFFICES ASSUME NEW g \in Fds, fd2conn'[g] \in Fifos, fifoAt'[g] # 0, stream(g) # <<>>
               PROVE  conns'[fd2conn'[g]].sequence = stream(g)[Len(stream(g))] + 1
    BY Zenon DEF Continues
  <2> DEFINE w == stream(g)
  <2>1. g # f
    BY Zenon, <1>2
  <2>2. fifoAt'[g] = fifoAt[g] /\ fifoAt[g] \in Fifos /\ fifoAt[g] # n
    <3>1. fifoAt'[g] = fifoAt[g]
      BY Zenon, <1>2, <2>1
    <3>2. fifoAt[g] \in 0 .. MaxFifos /\ fifoAt[g] # n
      BY Zenon, <1>4
    <3> QED
      BY <3>1, <3>2 DEF Fifos
  <2>3. fd2conn'[g] = fd2conn[g] /\ fd2conn[g] \in Fifos
    BY Zenon, <1>2, <2>1
  <2>4. fd2conn[g] # n
    BY Zenon, <1>5, <2>3 DEF IInv, Table, Used
  <2>5. w = conns[fifoAt[g]].written
    BY <1>2, <2>2 DEF Kept, SameStream
  <2>6. conns[fd2conn[g]].sequence = w[Len(w)] + 1
    BY Zenon, <2>2, <2>3, <2>5 DEF OneThreadInv, Continues
  <2> QED
    BY <1>2, <2>3, <2>4, <2>6 DEF Kept, SameStream
<1>10. StreamInOrder'
  <2> SUFFICES ASSUME NEW k \in Fifos
               PROVE  /\ \A i \in 2 .. Len(conns'[k].written) :
                             conns'[k].written[i] = conns'[k].written[i - 1] + 1
                      /\ \A i \in 2 .. Len(conns'[k].inbox) :
                             conns'[k].inbox[i - 1] <= conns'[k].inbox[i]
    BY Zenon DEF StreamInOrder
  <2>1. CASE k = n
    <3>1. conns'[k].written = <<>> /\ conns'[k].inbox = <<>>
      BY Zenon, <1>2, <2>1
    <3> QED
      BY <3>1
  <2>2. CASE k # n
    BY <1>2, <2>2 DEF Kept, SameStream, OneThreadInv, StreamInOrder
  <2> QED
    BY Zenon, <2>1, <2>2
<1> QED
  BY Zenon, <1>6, <1>7, <1>8, <1>9, <1>10 DEF OneThreadInv

-----------------------------------------------------------------------------
\* The steps of the application.

LEMMA KeptFields ==
    ASSUME NEW c \in Conn_t, NEW s
    PROVE  /\ Kept(c, c)
           /\ Kept(c, [c EXCEPT !.addr_len = TRUE])
           /\ Kept(c, [c EXCEPT !.sock = s])
           /\ Kept(c, [c EXCEPT !.sock = s, !.tid = "thread"])
  BY Zenon DEF Kept, SameStream, Conn_t

\* Most calls change no structure's data and start no deletion.
LEMMA QuietCall ==
    ASSUME IInv, IInv', OneThreadInv, UNCHANGED <<fifo_id, fd2conn, unlisted>>,
           \A f \in Fds : fifoAt'[f] \in {0, fifoAt[f]},
           \A k \in Fifos : Kept(conns[k], conns'[k]),
           \A k \in Fifos : proxy'[k].at = "handle" => proxy'[k] = proxy[k],
           \A t \in Threads : app'[t].at = "erase" => app'[t] = app[t]
    PROVE  OneThreadInv'
<1>1. fifo_id' >= fifo_id
  BY DEF IInv, Types
<1>2. ASSUME NEW k \in Fifos
      PROVE  SameStream(conns[k], conns'[k]) /\ Sorted(conns'[k].inbox)
  BY Zenon DEF Kept, Sorted, OneThreadInv, StreamInOrder
<1> QED
  BY Zenon, <1>1, <1>2, QuietStep

LEMMA SameConns ==
    ASSUME IInv, conns' = conns
    PROVE  \A k \in Fifos : Kept(conns[k], conns'[k])
  BY Zenon DEF Kept, SameStream

LEMMA SocketKeeps ==
    ASSUME IInv, IInv', OneThreadInv, NEW t \in Threads, _srtp_socket(t)
    PROVE  OneThreadInv'
<1>1. UNCHANGED <<app, proxy>>
  BY Zenon DEF _srtp_socket
<1>2. PICK f \in NewFds, n \in NextFifos :
       \/ /\ f = NoFd
          /\ fifo_id' = n + 1
          /\ UNCHANGED <<fifoAt, conns, fd2conn, unlisted>>
       \/ /\ f # NoFd
          /\ \E c \in Fresh(f) : MakeSocket(f, n, fd2conn, [conns EXCEPT ![n] = c])
  BY Zenon DEF _srtp_socket
<1>3. n \in Fifos /\ n \in Nat /\ n >= fifo_id /\ fifo_id \in Nat
  BY Zenon, NextFifoIn DEF IInv
<1>4. CASE f = NoFd
  <2>1. fifo_id' = n + 1 /\ UNCHANGED <<fifoAt, conns, fd2conn, unlisted>>
    BY Zenon, <1>2, <1>4
  <2>2. fifo_id' >= fifo_id
    BY <1>3, <2>1
  <2>3. \A k \in Fifos : SameStream(conns[k], conns'[k]) /\ Sorted(conns'[k].inbox)
    BY Zenon, <2>1 DEF SameStream, Sorted, OneThreadInv, StreamInOrder
  <2> QED
    BY Zenon, <1>1, <2>1, <2>2, <2>3, QuietStep
<1>5. CASE f # NoFd
  <2>1. PICK c \in Fresh(f) : MakeSocket(f, n, fd2conn, [conns EXCEPT ![n] = c])
    BY Zenon, <1>2, <1>5
  <2> DEFINE new == [conns EXCEPT ![n] = c]
  <2>2. f \in Fds
    BY Zenon, <1>5, NewFdType
  <2>3. c.written = <<>> /\ c.inbox = <<>>
    BY Zenon, FreshEmpty
  <2>4. new[n] = c /\ \A k \in Fifos \ {n} : new[k] = conns[k]
    BY Zenon, <1>3, Unchanged
  <2>5. MakeSocket(f, n, fd2conn, new)
    BY Zenon, <2>1
  <2> HIDE DEF new
  <2>6. \A k \in Fifos \ {n} : Kept(conns[k], new[k])
    BY Zenon, <2>4 DEF Kept, SameStream
  <2>7. fd2conn \in [Fds -> NoEntry .. MaxFifos]
    BY Zenon DEF IInv, Types
  <2> QED
    BY Zenon, <1>1, <2>2, <2>3, <2>4, <2>5, <2>6, <2>7, MakeStep
<1> QED
  BY Zenon, <1>2, <1>4, <1>5

LEMMA BindKeeps ==
    ASSUME IInv, IInv', OneThreadInv, NEW t \in Threads, NEW f \in handles, _srtp_bind(t, f)
    PROVE  OneThreadInv'
<1>1. UNCHANGED <<fifoAt, fifo_id, fd2conn, unlisted, app, proxy>>
  BY Zenon DEF _srtp_bind
<1>2. conns' = conns \/ conns' = [conns EXCEPT ![fd2conn[f]].addr_len = TRUE]
  BY ZenonT(40) DEF _srtp_bind
<1>3. \A k \in Fifos : Kept(conns[k], conns'[k])
  BY Zenon, <1>2, KeptFields, Unchanged
<1> QED
  BY Zenon, <1>1, <1>3, QuietCall

LEMMA ListenKeeps ==
    ASSUME IInv, IInv', OneThreadInv, NEW t \in Threads, NEW f \in handles, _srtp_listen(t, f)
    PROVE  OneThreadInv'
<1>1. UNCHANGED <<fifoAt, fifo_id, fd2conn, unlisted, app>>
  BY Zenon DEF _srtp_listen
<1>2. PICK s \in NewFds :
        \/ conns' = conns
        \/ conns' = [conns EXCEPT ![fd2conn[f]].sock = s]
        \/ /\ fd2conn[f] # NULL
           /\ conns' = [conns EXCEPT ![fd2conn[f]].sock = s, ![fd2conn[f]].tid = "thread"]
  BY Zenon DEF _srtp_listen
<1>3. \A k \in Fifos : Kept(conns[k], conns'[k])
  <2>1. CASE conns' = conns
    BY Zenon, <2>1, SameConns
  <2>2. CASE conns' = [conns EXCEPT ![fd2conn[f]].sock = s]
    BY Zenon, <2>2, KeptFields, Unchanged
  <2>3. CASE /\ fd2conn[f] # NULL
             /\ conns' = [conns EXCEPT ![fd2conn[f]].sock = s, ![fd2conn[f]].tid = "thread"]
    <3> DEFINE k == fd2conn[f]
    <3>1. k \in Fifos
      BY Zenon, <2>3, Found, Unchanged DEF _srtp_listen, isOpenSRTPSock
    <3>2. conns' = [conns EXCEPT ![k] = [conns[k] EXCEPT !.sock = s, !.tid = "thread"]]
      BY Zenon, <2>3, <3>1, Unchanged
    <3> HIDE DEF k
    <3> QED
      BY Zenon, <3>1, <3>2, KeptFields, Unchanged
  <2> QED
    BY Zenon, <1>2, <2>1, <2>2, <2>3
<1>4. proxy' = proxy \/ proxy' = [proxy EXCEPT ![fd2conn[f]].at = "recv"]
  BY Zenon DEF _srtp_listen
<1>5. \A k \in Fifos : proxy'[k].at = "handle" => proxy'[k] = proxy[k]
  BY <1>4, Unchanged DEF ProxyType
<1> QED
  BY Zenon, <1>1, <1>3, <1>5, QuietCall

LEMMA ConnectKeeps ==
    ASSUME IInv, IInv', OneThreadInv, NEW t \in Threads, NEW f \in handles, _srtp_connect(t, f)
    PROVE  OneThreadInv'
<1> DEFINE moved(s) == [Ready EXCEPT !.at = "establish", !.fd = f, !.sock = s]
<1>1. UNCHANGED <<fifoAt, fifo_id, fd2conn, unlisted, proxy>>
  BY Zenon DEF _srtp_connect
<1>2. PICK s \in NewFds :
        \/ conns' = conns /\ app' = app
        \/ conns' = [conns EXCEPT ![fd2conn[f]].sock = s] /\ app' = [app EXCEPT ![t] = moved(s)]
  BY Zenon DEF _srtp_connect
<1> DEFINE a == moved(s)
<1>3. a \in AppType /\ a.at # "erase"
  BY Zenon, AppTypes, NewFdType, Unchanged
<1>4. \A k \in Fifos : Kept(conns[k], conns'[k])
  <2>1. CASE conns' = conns
    BY Zenon, <2>1, SameConns
  <2>2. CASE conns' = [conns EXCEPT ![fd2conn[f]].sock = s]
    BY Zenon, <2>2, KeptFields, Unchanged
  <2> QED
    BY Zenon, <1>2, <2>1, <2>2
<1>5. app' = app \/ app' = [app EXCEPT ![t] = a]
  BY Zenon, <1>2
<1> HIDE DEF a
<1>6. \A u \in Threads : app'[u].at = "erase" => app'[u] = app[u]
  BY Zenon, <1>3, <1>5, AppMoves
<1> QED
  BY Zenon, <1>1, <1>4, <1>6, QuietCall

\* A close leaves the other descriptors alone.
LEMMA CloseFdsKeeps ==
    ASSUME NEW S, CloseFds(S)
    PROVE  \A f \in Fds : fifoAt'[f] \in {0, fifoAt[f]} /\ (f \in S => fifoAt'[f] = 0)
  BY Zenon DEF CloseFds

LEMMA EstablishKeeps ==
    ASSUME IInv, IInv', OneThreadInv, NEW t \in Threads, NEW e \in Elapsed, NEW h \in Replies,
           establish_conn(t, e, h)
    PROVE  OneThreadInv'
<1> DEFINE total == (app[t].total_msec + dt(e) \div 1000) % Word
<1>1. UNCHANGED <<fifo_id, conns, fd2conn, unlisted, proxy>> /\ app[t].at = "establish"
  BY DEF establish_conn, At
<1>2. \/ fifoAt' = fifoAt
      \/ CloseFds({app[t].sock})
  BY DEF establish_conn
<1>3. \A f \in Fds : fifoAt'[f] \in {0, fifoAt[f]}
  BY Zenon, <1>2, CloseFdsKeeps
<1>4. \/ app' = app
      \/ app' = [app EXCEPT ![t] = Ready]
      \/ app' = [app EXCEPT ![t].total_msec = total]
  BY DEF establish_conn
<1> HIDE DEF total
<1>5. \A u \in Threads : app'[u].at = "erase" => app'[u] = app[u]
  BY <1>1, <1>4, Unchanged DEF Ready, AppType
<1>6. \A k \in Fifos : Kept(conns[k], conns'[k])
  BY Zenon, <1>1, SameConns
<1> QED
  BY Zenon, <1>1, <1>3, <1>5, <1>6, QuietCall

LEMMA CloseKeeps ==
    ASSUME IInv, IInv', OneThreadInv, NEW t \in Threads, NEW f \in handles, _srtp_close(t, f)
    PROVE  OneThreadInv'
<1> DEFINE a == [Ready EXCEPT !.at = "close", !.fd = f]
<1>1. UNCHANGED <<fifoAt, fifo_id, conns, fd2conn, unlisted, proxy>>
      /\ app' = [app EXCEPT ![t] = a]
  BY Zenon DEF _srtp_close, socketVars
<1>2. a \in AppType /\ a.at # "erase"
  BY Zenon, AppTypes, Unchanged
<1> HIDE DEF a
<1>3. \A u \in Threads : app'[u].at = "erase" => app'[u] = app[u]
  BY Zenon, <1>1, <1>2, AppMoves
<1>4. \A k \in Fifos : Kept(conns[k], conns'[k])
  BY Zenon, <1>1, SameConns
<1> QED
  BY Zenon, <1>1, <1>3, <1>4, QuietCall

LEMMA RawCloseKeeps ==
    ASSUME IInv, IInv', OneThreadInv, NEW t \in Threads, NEW f \in handles, RawClose(t, f)
    PROVE  OneThreadInv'
<1>1. UNCHANGED <<fifo_id, conns, fd2conn, unlisted, app, proxy>> /\ CloseFds({f})
  BY Zenon DEF RawClose
<1>2. \A k \in Fifos : Kept(conns[k], conns'[k])
  BY Zenon, <1>1, SameConns
<1> QED
  BY Zenon, <1>1, <1>2, CloseFdsKeeps, QuietCall

LEMMA CloseFifoKeeps ==
    ASSUME IInv, IInv', OneThreadInv, NEW t \in Threads, CloseFifo(t)
    PROVE  OneThreadInv'
<1> DEFINE f == app[t].fd
           k == fd2conn[f]
<1>1. f \in Fds
  BY Zenon, Unchanged DEF AppType
<1>2. UNCHANGED <<fifo_id, conns, fd2conn, unlisted, proxy>> /\ CloseFds({f})
  BY Zenon DEF CloseFifo
<1>3. (\A g \in Fds : fifoAt'[g] \in {0, fifoAt[g]}) /\ fifoAt'[f] = 0
  BY Zenon, <1>1, <1>2, CloseFdsKeeps
<1>4. app' = app \/ app' = [app EXCEPT ![t].at = "erase", ![t].conn = k]
  BY Zenon DEF CloseFifo
<1>5. ASSUME NEW u \in Threads, app'[u].at = "erase"
      PROVE  \/ app'[u] = app[u]
             \/ fd2conn[app'[u].fd] = app'[u].conn /\ fifoAt'[app'[u].fd] = 0
  <2>1. CASE app' = app
    BY Zenon, <2>1
  <2>2. CASE app' = [app EXCEPT ![t].at = "erase", ![t].conn = k]
    <3>1. CASE u = t
      <4>1. app'[u].fd = f /\ app'[u].conn = k
        BY Zenon, <2>2, <3>1, Unchanged DEF AppType
      <4> QED
        BY Zenon, <1>3, <4>1
    <3>2. CASE u # t
      BY Zenon, <2>2, <3>2, Unchanged
    <3> QED
      BY Zenon, <3>1, <3>2
  <2> QED
    BY Zenon, <1>4, <2>1, <2>2
<1>6. fifo_id' >= fifo_id
  BY <1>2 DEF IInv, Types
<1>7. \A j \in Fifos : SameStream(conns[j], conns'[j]) /\ Sorted(conns'[j].inbox)
  BY Zenon, <1>2 DEF SameStream, Sorted, OneThreadInv, StreamInOrder
<1> QED
  BY Zenon, <1>2, <1>3, <1>5, <1>6, <1>7, QuietStep

\* The other steps of srtp_close cannot be in another thread; the descriptor
\* whose entry goes is closed, or is one that had another entry before.
LEMMA CloseEraseKeeps ==
    ASSUME IInv, IInv', OneThreadInv, OneThread, NEW t \in Threads, CloseErase(t)
    PROVE  OneThreadInv'
<1> DEFINE f == app[t].fd
           k == app[t].conn
<1>1. /\ app[t].at = "erase"
      /\ fifo_id' = fifo_id /\ unlisted' = unlisted
      /\ app' = [app EXCEPT ![t] = Ready]
      /\ proxy' = [proxy EXCEPT ![k] = Cancelled(@)]
      /\ fd2conn' = [fd2conn EXCEPT ![f] = NoEntry]
      /\ conns' = [conns EXCEPT ![k] = NoConn]
  BY Zenon DEF CloseErase, At
<1>2. \A g \in Fds : fifoAt'[g] \in {0, fifoAt[g]}
  BY Zenon, CloseFdsKeeps DEF CloseErase
<1>3. k \in Fifos /\ f \in Fds
  BY Zenon, <1>1, Unchanged DEF IInv, Erasing, AppType
<1>4. fd2conn[f] = k /\ (fifoAt[f] = 0 \/ f \in unlisted)
  BY Zenon, <1>1 DEF OneThreadInv, Listed
<1>5. \A u \in Threads : app'[u].at # "erase"
  BY Zenon, <1>1, Unchanged DEF OneThread, Ready
<1> HIDE DEF f, k
<1>6. \A j \in Fifos : conns'[j] = IF j = k THEN NoConn ELSE conns[j]
  BY Zenon, <1>1, Unchanged
<1>7. \A g \in Fds : fd2conn'[g] = IF g = f THEN NoEntry ELSE fd2conn[g]
  BY Zenon, <1>1 DEF IInv, Types
<1>8. ~NoConn.alive /\ NoConn.written = <<>> /\ NoConn.inbox = <<>> /\ NoEntry \notin Fifos
  BY SocketsAssumption DEF NoConn, NoEntry, Fifos
<1>9. \A g \in Fds : g # f /\ fd2conn[g] \in Fifos => fd2conn[g] # k
  BY Zenon, <1>3, <1>4 DEF IInv, Table
<1>10. Listed'
  <2>1. ASSUME NEW g \in Fds, fifoAt'[g] # 0, g \notin unlisted
        PROVE  fd2conn'[g] = fifoAt'[g]
    <3>1. fifoAt'[g] = fifoAt[g] /\ fifoAt[g] # 0
      BY Zenon, <1>2, <2>1
    <3>2. fd2conn[g] = fifoAt[g] /\ g # f
      BY Zenon, <1>4, <2>1, <3>1 DEF OneThreadInv, Listed
    <3> QED
      BY Zenon, <1>7, <3>1, <3>2
  <2> QED
    BY Zenon, <1>1, <1>5, <2>1 DEF Listed
<1>11. OpenOnce'
  <2>1. fifo_id \in Nat /\ fifo_id > 0
    BY DEF IInv, Types
  <2>2. ASSUME NEW g \in Fds PROVE fifoAt'[g] < fifo_id
    <3>1. fifoAt[g] < fifo_id
      BY Zenon DEF OneThreadInv, OpenOnce
    <3> QED
      BY Zenon, <1>2, <2>1, <3>1
  <2>3. ASSUME NEW g \in Fds, NEW h \in Fds, fifoAt'[g] = fifoAt'[h], fifoAt'[g] # 0
        PROVE  g = h
    BY Zenon, <1>2, <2>3 DEF OneThreadInv, OpenOnce
  <2> QED
    BY Zenon, <1>1, <2>2, <2>3 DEF OpenOnce
<1>12. Handling'
  <2> SUFFICES ASSUME NEW j \in Fifos, proxy'[j].at = "handle", NEW c, c = proxy'[j].conn
               PROVE  /\ c \in Fifos /\ c < fifo_id
                      /\ conns'[c].alive => fd2conn'[conns'[c].fifo] = c
    BY Zenon, <1>1 DEF Handling
  <2>1. ~Runs(Cancelled(proxy[k]))
    BY Zenon, <1>3, Unchanged, CancelledType
  <2>2. proxy'[j] = proxy[j]
    BY Zenon, <1>1, <1>3, <2>1, Unchanged DEF Runs
  <2>3. /\ c \in Fifos /\ c < fifo_id
        /\ conns[c].alive => fd2conn[conns[c].fifo] = c
    BY Zenon, <2>2 DEF OneThreadInv, Handling
  <2>4. CASE c = k
    BY Zenon, <1>3, <1>6, <1>8, <2>3, <2>4
  <2>5. CASE c # k
    <3>1. conns'[c] = conns[c] /\ conns[c].fifo \in Fds
      BY Zenon, <1>6, <2>3, <2>5, Unchanged DEF Conn_t
    <3> QED
      BY Zenon, <1>4, <1>7, <2>3, <2>5, <3>1
  <2> QED
    BY Zenon, <2>4, <2>5
<1>13. Continues'
  <2> DEFINE stream(g) == conns'[fifoAt'[g]].written
  <2> SUFFICES ASSUME NEW g \in Fds, fd2conn'[g] \in Fifos, fifoAt'[g] # 0, stream(g) # <<>>
               PROVE  conns'[fd2conn'[g]].sequence = stream(g)[Len(stream(g))] + 1
    BY Zenon DEF Continues
  <2> DEFINE w == stream(g)
  <2>1. g # f /\ fd2conn'[g] = fd2conn[g]
    BY Zenon, <1>7, <1>8
  <2>2. fifoAt'[g] = fifoAt[g] /\ fifoAt[g] \in Fifos
    <3>1. fifoAt'[g] = fifoAt[g] /\ fifoAt[g] \in 0 .. MaxFifos
      BY Zenon, <1>2, Unchanged
    <3> QED
      BY <3>1 DEF Fifos
  <2>3. fifoAt[g] # k
    BY Zenon, <1>6, <1>8, <2>2
  <2>4. w = conns[fifoAt[g]].written
    BY Zenon, <1>6, <2>2, <2>3
  <2>5. conns[fd2conn[g]].sequence = w[Len(w)] + 1
    BY Zenon, <2>1, <2>2, <2>4 DEF OneThreadInv, Continues
  <2>6. conns'[fd2conn[g]] = conns[fd2conn[g]]
    BY Zenon, <1>6, <1>9, <2>1
  <2> QED
    BY Zenon, <2>1, <2>5, <2>6
<1>14. StreamInOrder'
  <2> SUFFICES ASSUME NEW j \in Fifos
               PROVE  /\ \A i \in 2 .. Len(conns'[j].written) :
                             conns'[j].written[i] = conns'[j].written[i - 1] + 1
                      /\ \A i \in 2 .. Len(conns'[j].inbox) :
                             conns'[j].inbox[i - 1] <= conns'[j].inbox[i]
    BY Zenon DEF StreamInOrder
  <2>1. CASE j = k
    <3>1. conns'[j].written = <<>> /\ conns'[j].inbox = <<>>
      BY Zenon, <1>6, <1>8, <2>1
    <3> QED
      BY <3>1
  <2>2. CASE j # k
    BY Zenon, <1>6, <2>2 DEF OneThreadInv, StreamInOrder
  <2> QED
    BY Zenon, <2>1, <2>2
<1> QED
  BY Zenon, <1>10, <1>11, <1>12, <1>13, <1>14 DEF OneThreadInv

-----------------------------------------------------------------------------
\* The steps of the proxies.

LEMMA RecvKeeps ==
    ASSUME IInv, IInv', OneThreadInv, NEW k \in Fifos, NEW ip \in IPs, NEW seq \in Seqs,
           NEW len \in 0 .. 1, recv_srtp_data(k, ip, seq, len)
    PROVE  OneThreadInv'
<1> DEFINE fifo == IF hash2fd[ip] = NoEntry THEN 0 ELSE hash2fd[ip]
           s == IF len = 0 THEN 0 ELSE seq
           found(c) == [at |-> "handle", conn |-> c, len |-> len, seq |-> s]
           table == [fd2conn EXCEPT ![fifo] = NULL]
           got(f, n) == IF f = NoFd THEN NULL ELSE Inserted(table, f, n)[f]
           made(n, c, fresh) == [[conns EXCEPT ![n] = fresh] EXCEPT ![c].addr_len = TRUE]
<1>1. app' = app
  BY Zenon DEF recv_srtp_data
<1>2. fifo \in Fds
  BY SocketsAssumption DEF IInv, Types, Fds, NoEntry
<1>3. \/ /\ fd2conn[fifo] \in Fifos
         /\ proxy' = [proxy EXCEPT ![k] = found(fd2conn[fifo])]
         /\ UNCHANGED socketVars
      \/ UNCHANGED <<proxy, socketVars>>
      \/ /\ fd2conn[fifo] \in {NoEntry, NULL}
         /\ \E f \in NewFds, n \in NextFifos :
              /\ got(f, n) # NULL
              /\ \E fresh \in Fresh(f) : MakeSocket(f, n, table, made(n, got(f, n), fresh))
              /\ proxy' = [proxy EXCEPT ![k] = found(got(f, n))]
  BY Zenon DEF recv_srtp_data
<1>4. \A c : found(c).conn = c
  OBVIOUS
<1> HIDE DEF fifo, s
<1>5. CASE UNCHANGED socketVars
           /\ (proxy' = proxy \/ (fd2conn[fifo] \in Fifos
                                   /\ proxy' = [proxy EXCEPT ![k] = found(fd2conn[fifo])]))
  <2>1. UNCHANGED <<fifoAt, fifo_id, conns, fd2conn, unlisted>>
    BY Zenon, <1>5 DEF socketVars
  <2>2. fifo_id' >= fifo_id
    BY <2>1 DEF IInv, Types
  <2>3. \A j \in Fifos : SameStream(conns[j], conns'[j]) /\ Sorted(conns'[j].inbox)
    BY Zenon, <2>1 DEF SameStream, Sorted, OneThreadInv, StreamInOrder
  <2> HIDE DEF found
  <2>4. ASSUME NEW j \in Fifos, proxy'[j] # proxy[j]
        PROVE  \E f \in Fds : fd2conn[f] = proxy'[j].conn /\ fd2conn[f] \in Fifos
    <3>1. fd2conn[fifo] \in Fifos /\ proxy'[j] = found(fd2conn[fifo])
      BY Zenon, <1>5, <2>4, Unchanged
    <3> QED
      BY Zenon, <1>2, <1>4, <3>1
  <2>5. \A j \in Fifos : proxy'[j].at = "handle" =>
           proxy'[j] = proxy[j] \/ \E f \in Fds : fd2conn[f] = proxy'[j].conn /\ fd2conn[f] \in Fifos
    BY Zenon, <2>4
  <2> QED
    BY Zenon, <1>1, <2>1, <2>2, <2>3, <2>5, QuietStep
<1>6. ASSUME NEW f \in NewFds, NEW n \in NextFifos, NEW fresh \in Fresh(f),
             got(f, n) # NULL, fd2conn[fifo] \in {NoEntry, NULL},
             MakeSocket(f, n, table, made(n, got(f, n), fresh)),
             proxy' = [proxy EXCEPT ![k] = found(got(f, n))]
      PROVE  OneThreadInv'
  <2> DEFINE c == got(f, n)
             new == made(n, c, fresh)
  <2>1. f \in Fds
    BY Zenon, <1>6, NewFdType
  <2>2. n \in Fifos
    BY Zenon, NextFifoIn DEF IInv
  <2>3. /\ table \in [Fds -> NoEntry .. MaxFifos]
        /\ \A g \in Fds : table[g] \in Fifos => table[g] = fd2conn[g]
        /\ \A g \in Fds : fd2conn[g] \in Fifos => table[g] = fd2conn[g]
    BY <1>2, <1>6, SocketsAssumption DEF IInv, Types, NULL, NoEntry, Fifos
  <2>4. c = Inserted(table, f, n)[f] /\ fd2conn' = Inserted(table, f, n)
    BY Zenon, <1>6 DEF MakeSocket
  <2>5. c \in Fifos
    <3>1. c = IF table[f] = NoEntry THEN n ELSE table[f]
      BY Zenon, <1>6, <2>1, <2>3 DEF Inserted
    <3>2. c # NULL
      BY Zenon, <1>6
    <3> HIDE DEF c, table
    <3> QED
      BY <2>1, <2>2, <2>3, <3>1, <3>2, SocketsAssumption DEF NULL, NoEntry, Fifos
  <2>6. MakeSocket(f, n, table, new) /\ proxy' = [proxy EXCEPT ![k] = found(c)]
    BY Zenon, <1>6
  <2> HIDE DEF c, table
  <2>7. fresh \in Conn_t /\ fresh.written = <<>> /\ fresh.inbox = <<>>
    BY Zenon, <2>1, FreshType, FreshEmpty
  <2> DEFINE mid == [conns EXCEPT ![n] = fresh]
  <2>8. /\ mid \in [Fifos -> Conn_t]
        /\ mid[n] = fresh
        /\ \A j \in Fifos \ {n} : mid[j] = conns[j]
    BY Zenon, <2>2, <2>7, Unchanged
  <2>9. new = [mid EXCEPT ![c].addr_len = TRUE]
    OBVIOUS
  <2> HIDE DEF mid, new
  <2>10. \A j \in Fifos : Kept(mid[j], new[j])
    <3>1. \A j \in Fifos : mid[j] \in Conn_t
      BY Zenon, <2>8
    <3>2. \A j \in Fifos : new[j] = mid[j] \/ new[j] = [mid[j] EXCEPT !.addr_len = TRUE]
      BY Zenon, <2>8, <2>9
    <3> QED
      BY Zenon, <3>1, <3>2, KeptFields
  <2>11. new[n].written = <<>> /\ new[n].inbox = <<>>
    BY Zenon, <2>2, <2>7, <2>8, <2>10 DEF Kept, SameStream
  <2>12. \A j \in Fifos \ {n} : Kept(conns[j], new[j])
    BY Zenon, <2>8, <2>10
  <2> HIDE DEF found
  <2>13. \A j \in Fifos : proxy'[j].at = "handle" =>
           \/ proxy'[j] = proxy[j]
           \/ \E g \in Fds : fd2conn'[g] = proxy'[j].conn /\ fd2conn'[g] \in Fifos
    <3>1. fd2conn'[f] = found(c).conn /\ fd2conn'[f] \in Fifos
      BY Zenon, <1>4, <2>4, <2>5
    <3>2. \A j \in Fifos : proxy'[j] = proxy[j] \/ proxy'[j] = found(c)
      BY Zenon, <2>6, Unchanged
    <3> QED
      BY Zenon, <2>1, <3>1, <3>2
  <2>14. MakeSocket(f, n, table, new)
    BY Zenon, <2>6
  <2> HIDE DEF got, made
  <2> QED
    BY Zenon, <1>1, <2>1, <2>3, <2>11, <2>12, <2>13, <2>14, MakeStep
<1> QED
  BY Zenon, <1>3, <1>5, <1>6

\* A packet goes into the inbox before the first larger number.
LEMMA InsertSorted ==
    ASSUME NEW S, S \subseteq Nat, NEW q \in Seq(S), NEW x \in S, NEW i \in 1 .. Len(q) + 1,
           Sorted(q), \A j \in 1 .. i - 1 : q[j] <= x, i <= Len(q) => q[i] > x
    PROVE  Sorted(SubSeq(q, 1, i - 1) \o <<x>> \o SubSeq(q, i, Len(q)))
<1> DEFINE n == Len(q)
           a == SubSeq(q, 1, i - 1)
           b == SubSeq(q, i, n)
           r == a \o <<x>> \o b
<1>1. n \in Nat /\ i \in Nat /\ 1 <= i /\ i <= n + 1 /\ x \in Nat
  OBVIOUS
<1>2. /\ a \in Seq(S) /\ Len(a) = i - 1
      /\ \A j \in 1 .. i - 1 : a[j] = q[j]
  BY <1>1
<1>3. /\ b \in Seq(S) /\ Len(b) = n - i + 1
      /\ \A j \in 1 .. n - i + 1 : b[j] = q[i + j - 1]
  BY <1>1
<1> HIDE DEF a, b, n
<1>4. /\ Len(r) = n + 1
      /\ \A j \in 1 .. i - 1 : r[j] = a[j]
      /\ r[i] = x
      /\ \A j \in i + 1 .. n + 1 : r[j] = b[j - i]
  <2> DEFINE d == a \o <<x>>
  <2>1. /\ d \in Seq(S) /\ Len(d) = i
        /\ \A j \in 1 .. i - 1 : d[j] = a[j]
        /\ d[i] = x
    BY SMTT(40), <1>1, <1>2
  <2>2. r = d \o b
    OBVIOUS
  <2> HIDE DEF d, r
  <2>3. Len(r) = n + 1
    BY <1>1, <1>3, <2>1, <2>2
  <2>4. \A j \in 1 .. i : r[j] = d[j]
    BY <1>1, <1>3, <2>1, <2>2
  <2>5. ASSUME NEW j \in i + 1 .. n + 1 PROVE r[j] = b[j - i]
    BY SMTT(40), <1>1, <1>3, <2>1, <2>2
  <2> QED
    BY <1>1, <2>1, <2>3, <2>4, <2>5
<1> HIDE DEF r
<1>5. SUFFICES ASSUME NEW j \in 2 .. n + 1 PROVE r[j - 1] <= r[j]
  BY Zenon, <1>4 DEF Sorted, r, a, b, n
<1>6. \A m \in 2 .. n : q[m - 1] <= q[m]
  BY Zenon DEF Sorted, n
<1>7. CASE j < i
  <2>1. r[j] = q[j] /\ r[j - 1] = q[j - 1]
    BY <1>1, <1>2, <1>4, <1>7
  <2>2. j \in 2 .. n
    BY <1>1, <1>7
  <2> QED
    BY Zenon, <1>6, <2>1, <2>2
<1>8. CASE j = i
  <2>1. j - 1 \in 1 .. i - 1
    BY <1>1, <1>8
  <2>2. r[j - 1] = q[j - 1] /\ r[j] = x
    BY Zenon, <1>2, <1>4, <1>8, <2>1
  <2> QED
    BY Zenon, <1>8, <2>1, <2>2
<1>9. CASE j = i + 1
  <2>1. i <= n
    BY <1>1, <1>9
  <2>2. r[j - 1] = x /\ r[j] = b[1]
    <3>1. j - 1 = i /\ j - i = 1 /\ j \in i + 1 .. n + 1
      BY <1>1, <1>9, <2>1
    <3>2. r[j] = b[j - i]
      BY Zenon, <1>4, <3>1
    <3> QED
      BY Zenon, <1>4, <3>1, <3>2
  <2>3. b[1] = q[i] /\ q[i] \in Nat
    <3>1. 1 \in 1 .. n - i + 1 /\ i + 1 - 1 = i
      BY <1>1, <2>1
    <3>2. b[1] = q[i + 1 - 1]
      BY Zenon, <1>3, <3>1
    <3>3. i \in 1 .. Len(q)
      BY <1>1, <2>1 DEF n
    <3>4. q[i] \in S
      BY <3>3
    <3>5. q[i] \in Nat
      BY Zenon, <3>4
    <3> QED
      BY Zenon, <3>1, <3>2, <3>5, Zenon
  <2>4. q[i] > x
    BY Zenon, <2>1 DEF n
  <2> QED
    BY <1>1, <2>2, <2>3, <2>4
<1>10. CASE j > i + 1
  <2>1. j - 1 \in i + 1 .. n + 1 /\ j \in i + 1 .. n + 1 /\ j - 1 \in 2 .. n
    BY <1>1, <1>10
  <2>2. r[j] = b[j - i] /\ r[j - 1] = b[(j - 1) - i]
    BY Zenon, <1>4, <2>1
  <2>3. b[j - i] = q[i + (j - i) - 1] /\ b[(j - 1) - i] = q[i + ((j - 1) - i) - 1]
    BY <1>1, <1>3, <1>10, <2>1
  <2>4. i + (j - i) - 1 = j - 1 /\ i + ((j - 1) - i) - 1 = (j - 1) - 1
    BY <1>1
  <2> QED
    BY Zenon, <1>6, <2>1, <2>2, <2>3, <2>4
<1> QED
  BY <1>1, <1>7, <1>8, <1>9, <1>10

\* A packet that is not the next one goes into the inbox.
LEMMA InboxStep ==
    ASSUME IInv, OneThreadInv, NEW c, NEW x \in Seqs, conns[c].sequence # x,
           handle_data_pkt(c, x)
    PROVE  \A k \in Fifos : SameStream(conns[k], conns'[k]) /\ Sorted(conns'[k].inbox)
<1> DEFINE inbox == conns[c].inbox
           after(i) == SubSeq(inbox, 1, i - 1) \o <<x>> \o SubSeq(inbox, i, Len(inbox))
<1>1. PICK i \in 1 .. Len(inbox) + 1 :
         /\ \A j \in 1 .. i - 1 : inbox[j] <= x
         /\ i <= Len(inbox) => inbox[i] > x
         /\ conns' = [conns EXCEPT ![c].inbox = after(i)]
  BY Zenon DEF handle_data_pkt
<1>2. conns \in [Fifos -> Conn_t] /\ \A k \in Fifos : Sorted(conns[k].inbox)
  BY Zenon, Unchanged DEF OneThreadInv, StreamInOrder, Sorted
<1>3. ASSUME c \in Fifos PROVE Sorted(after(i))
  <2>1. inbox \in Seq(Seqs) /\ Sorted(inbox)
    BY Zenon, <1>2, <1>3 DEF Conn_t
  <2> HIDE DEF inbox
  <2> QED
    BY Zenon, <1>1, <2>1, DataAssumption, InsertSorted
<1> DEFINE r == after(i)
<1>4. conns' = [conns EXCEPT ![c].inbox = r]
  BY Zenon, <1>1
<1> HIDE DEF r
<1>5. ASSUME NEW k \in Fifos PROVE SameStream(conns[k], conns'[k]) /\ Sorted(conns'[k].inbox)
  <2>1. CASE k = c
    <3>1. conns'[k] = [conns[k] EXCEPT !.inbox = r]
      BY Zenon, <1>2, <1>4, <2>1
    <3>2. Sorted(r)
      BY Zenon, <1>3, <2>1 DEF r
    <3>3. conns[k] \in Conn_t
      BY Zenon, <1>2
    <3>4. SameStream(conns[k], conns'[k])
      BY Zenon, <3>1, <3>3 DEF SameStream, Conn_t
    <3>5. conns'[k].inbox = r
      BY Zenon, <3>1, <3>3 DEF Conn_t
    <3> QED
      BY Zenon, <3>2, <3>4, <3>5
  <2>2. CASE k # c
    <3>1. conns'[k] = conns[k]
      BY Zenon, <1>2, <1>4, <2>2
    <3> QED
      BY Zenon, <1>2, <3>1 DEF SameStream
  <2> QED
    BY Zenon, <2>1, <2>2
<1> QED
  BY Zenon, <1>5

\* The next packet goes to the FIFO that is open on the descriptor, which is
\* open on no other; the table has this connection for that descriptor only.
LEMMA WriteStep ==
    ASSUME IInv, IInv', OneThreadInv, NEW c \in Fifos, NEW x \in Seqs,
           conns[c].alive, fd2conn[conns[c].fifo] = c,
           conns[c].sequence = x, handle_data_pkt(c, x),
           UNCHANGED <<fifoAt, fifo_id, fd2conn, unlisted, app>>,
           \A k \in Fifos : proxy'[k].at = "handle" => proxy'[k] = proxy[k]
    PROVE  OneThreadInv'
<1> DEFINE f == conns[c].fifo
           m == fifoAt[f]
<1>1. f \in Fds /\ m \in 0 .. MaxFifos
  BY Zenon, Unchanged DEF Conn_t
<1>2. conns \in [Fifos -> Conn_t]
  BY Zenon, Unchanged
<1>3. ASSUME NEW k \in Fifos
      PROVE  /\ conns'[k].alive = conns[k].alive /\ conns'[k].fifo = conns[k].fifo
             /\ conns'[k].inbox = conns[k].inbox
             /\ conns'[k].sequence = IF k = c THEN x + 1 ELSE conns[k].sequence
             /\ conns'[k].written = IF k = m THEN Append(conns[k].written, x) ELSE conns[k].written
  <2> DEFINE n == IF k = c THEN conns[k].sequence + 1 ELSE conns[k].sequence
             w == IF fifoAt[conns[c].fifo] = k THEN Append(conns[k].written, x)
                  ELSE conns[k].written
  <2>1. conns' = [j \in Fifos |->
                    [conns[j] EXCEPT
                        !.sequence = IF j = c THEN @ + 1 ELSE @,
                        !.written = IF fifoAt[conns[c].fifo] = j THEN Append(@, x) ELSE @]]
    BY Zenon DEF handle_data_pkt
  <2>2. conns'[k] = [conns[k] EXCEPT !.sequence = n, !.written = w]
    BY Zenon, <2>1, Zenon
  <2>3. conns[k] \in Conn_t
    BY Zenon, <1>2
  <2>4. /\ n = IF k = c THEN x + 1 ELSE conns[k].sequence
        /\ w = IF k = m THEN Append(conns[k].written, x) ELSE conns[k].written
    OBVIOUS
  <2> HIDE DEF n, w, m, f
  <2>5. /\ conns'[k].alive = conns[k].alive /\ conns'[k].fifo = conns[k].fifo
        /\ conns'[k].inbox = conns[k].inbox
        /\ conns'[k].sequence = n /\ conns'[k].written = w
    BY <2>2, <2>3 DEF Conn_t
  <2> QED
    BY Zenon, <2>4, <2>5, Zenon
<1>4. m # 0 /\ conns[m].written # <<>> =>
         x = conns[m].written[Len(conns[m].written)] + 1
  BY Zenon, <1>1 DEF OneThreadInv, Continues
<1>5. \A g \in Fds : fd2conn[g] = c => g = f
  BY Zenon DEF IInv, Table
<1>6. \A g \in Fds : g # f /\ fifoAt[g] # 0 => fifoAt[g] # m
  BY Zenon, <1>1 DEF OneThreadInv, OpenOnce
<1>7. fd2conn[f] = c
  OBVIOUS
<1>8. Listed' /\ OpenOnce'
  BY Zenon DEF OneThreadInv, Listed, OpenOnce
<1> HIDE DEF f, m
<1>9. Handling'
  <2>1. ASSUME NEW k \in Fifos, proxy'[k].at = "handle"
        PROVE  /\ proxy'[k].conn \in Fifos /\ proxy'[k].conn < fifo_id
               /\ conns'[proxy'[k].conn].alive =>
                     fd2conn[conns'[proxy'[k].conn].fifo] = proxy'[k].conn
    <3>1. proxy'[k] = proxy[k]
      BY Zenon, <2>1
    <3>2. /\ proxy[k].conn \in Fifos /\ proxy[k].conn < fifo_id
          /\ conns[proxy[k].conn].alive => fd2conn[conns[proxy[k].conn].fifo] = proxy[k].conn
      BY Zenon, <2>1, <3>1 DEF OneThreadInv, Handling
    <3> QED
      BY <1>3, <3>1, <3>2
  <2> QED
    BY Zenon, <2>1 DEF Handling
<1>10. Continues'
  <2> DEFINE stream(g) == conns'[fifoAt[g]].written
  <2> SUFFICES ASSUME NEW g \in Fds, fd2conn[g] \in Fifos, fifoAt[g] # 0, stream(g) # <<>>
               PROVE  conns'[fd2conn[g]].sequence = stream(g)[Len(stream(g))] + 1
    BY Zenon DEF Continues
  <2>1. fifoAt[g] \in Fifos
    <3>1. fifoAt[g] \in 0 .. MaxFifos
      BY Zenon, Unchanged
    <3> QED
      BY <3>1 DEF Fifos
  <2>2. CASE g = f
    <3>1. conns[m].written \in Seq(Seqs) /\ m = fifoAt[g]
      BY Zenon, <1>2, <2>1, <2>2 DEF m, Conn_t
    <3>2. stream(g) = Append(conns[m].written, x)
      BY Zenon, <1>3, <2>1, <3>1
    <3>3. stream(g)[Len(stream(g))] = x
      BY <3>1, <3>2
    <3>4. conns'[fd2conn[g]].sequence = x + 1
      BY <1>3, <1>7, <2>2
    <3> QED
      BY Zenon, <3>3, <3>4
  <2>3. CASE g # f
    <3>1. fd2conn[g] # c /\ fifoAt[g] # m
      BY Zenon, <1>5, <1>6, <2>3
    <3>2. stream(g) = conns[fifoAt[g]].written
      BY Zenon, <1>3, <2>1, <3>1
    <3>3. conns'[fd2conn[g]].sequence = conns[fd2conn[g]].sequence
      BY Zenon, <1>3, <3>1
    <3> HIDE DEF stream
    <3> QED
      BY Zenon, <3>2, <3>3 DEF OneThreadInv, Continues
  <2> QED
    BY Zenon, <2>2, <2>3
<1>11. StreamInOrder'
  <2> SUFFICES ASSUME NEW k \in Fifos
               PROVE  /\ \A i \in 2 .. Len(conns'[k].written) :
                             conns'[k].written[i] = conns'[k].written[i - 1] + 1
                      /\ \A i \in 2 .. Len(conns'[k].inbox) :
                             conns'[k].inbox[i - 1] <= conns'[k].inbox[i]
    BY Zenon DEF StreamInOrder
  <2>1. /\ \A i \in 2 .. Len(conns[k].written) :
              conns[k].written[i] = conns[k].written[i - 1] + 1
        /\ \A i \in 2 .. Len(conns[k].inbox) : conns[k].inbox[i - 1] <= conns[k].inbox[i]
    BY Zenon DEF OneThreadInv, StreamInOrder
  <2>2. conns'[k].inbox = conns[k].inbox
    BY Zenon, <1>3
  <2> DEFINE w == conns[k].written
  <2>3. w \in Seq(Seqs)
    BY Zenon, <1>2 DEF Conn_t
  <2>4. CASE k = m
    <3>1. conns'[k].written = Append(w, x)
      BY Zenon, <1>3, <2>4
    <3>2. w # <<>> => x = w[Len(w)] + 1
      BY <1>4, <2>4 DEF Fifos
    <3>3. \A i \in 2 .. Len(w) : w[i] = w[i - 1] + 1
      BY Zenon, <2>1
    <3> HIDE DEF w
    <3>4. ASSUME NEW i \in 2 .. Len(Append(w, x))
          PROVE  Append(w, x)[i] = Append(w, x)[i - 1] + 1
      <4>1. Len(Append(w, x)) = Len(w) + 1 /\ Len(w) \in Nat
        BY <2>3
      <4>2. CASE i = Len(w) + 1
        <5>1. Len(w) >= 1 /\ w # <<>>
          BY <2>3, <4>1, <4>2
        <5>2. Append(w, x)[i] = x /\ Append(w, x)[i - 1] = w[Len(w)]
          BY <2>3, <4>1, <4>2, <5>1
        <5> QED
          BY Zenon, <3>2, <5>1, <5>2
      <4>3. CASE i # Len(w) + 1
        <5>1. i \in 2 .. Len(w)
          BY <4>1, <4>3
        <5>2. Append(w, x)[i] = w[i] /\ Append(w, x)[i - 1] = w[i - 1]
          BY <2>3, <4>1, <5>1
        <5> QED
          BY Zenon, <3>3, <5>1, <5>2
      <4> QED
        BY Zenon, <4>2, <4>3
    <3> QED
      BY Zenon, <2>1, <2>2, <3>1, <3>4
  <2>5. CASE k # m
    <3>1. conns'[k].written = conns[k].written
      BY Zenon, <1>3, <2>5
    <3> QED
      BY Zenon, <2>1, <2>2, <3>1
  <2> QED
    BY Zenon, <2>4, <2>5
<1> QED
  BY Zenon, <1>8, <1>9, <1>10, <1>11 DEF OneThreadInv

\* A packet of a connection that was not deleted.
LEMMA HandleKeeps ==
    ASSUME IInv, IInv', OneThreadInv, NEW k \in Fifos, HandlePacket(k)
    PROVE  OneThreadInv'
<1> DEFINE c == proxy[k].conn
           x == proxy[k].seq
<1>1. /\ proxy[k].at = "handle"
      /\ proxy' = [proxy EXCEPT ![k] = [Idle EXCEPT !.at = "recv"]]
      /\ UNCHANGED <<fifoAt, fifo_id, fd2conn, unlisted, app>>
  BY Zenon DEF HandlePacket
<1>2. \A j \in Fifos : proxy'[j].at = "handle" => proxy'[j] = proxy[j]
  BY Zenon, <1>1, Unchanged DEF Idle
<1>3. conns' = conns \/ (proxy[k].len > 0 /\ conns[c].alive /\ handle_data_pkt(c, x))
  BY Zenon DEF HandlePacket, handle_cmd_pkt
<1>4. /\ c \in Fifos
      /\ conns[c].alive => fd2conn[conns[c].fifo] = c
  BY Zenon, <1>1 DEF OneThreadInv, Handling
<1>5. proxy[k].len > 0 => x \in Seqs
  BY Zenon, Unchanged DEF ProxyType
<1>6. fifo_id' >= fifo_id
  BY <1>1 DEF IInv, Types
<1> HIDE DEF c, x
<1>7. CASE conns' = conns
  BY Zenon, <1>1, <1>2, <1>7, SameConns, QuietCall
<1>8. CASE proxy[k].len > 0 /\ conns[c].alive /\ handle_data_pkt(c, x) /\ conns[c].sequence = x
  BY Zenon, <1>1, <1>2, <1>4, <1>5, <1>8, WriteStep
<1>9. CASE proxy[k].len > 0 /\ conns[c].alive /\ handle_data_pkt(c, x) /\ conns[c].sequence # x
  <2>1. \A j \in Fifos : SameStream(conns[j], conns'[j]) /\ Sorted(conns'[j].inbox)
    BY Zenon, <1>5, <1>9, InboxStep
  <2> QED
    BY Zenon, <1>1, <1>2, <1>6, <2>1, QuietStep
<1> QED
  BY Zenon, <1>3, <1>7, <1>8, <1>9

\* A cancelled proxy ends before it writes.
LEMMA CancelledKeeps ==
    ASSUME IInv, IInv', OneThreadInv, NEW k \in Fifos, CancelledPacket(k)
    PROVE  OneThreadInv'
<1> DEFINE c == proxy[k].conn
           x == proxy[k].seq
<1>1. /\ proxy' = [proxy EXCEPT ![k] = Idle]
      /\ UNCHANGED <<fifoAt, fifo_id, fd2conn, unlisted, app>>
  BY Zenon DEF CancelledPacket
<1>2. \A j \in Fifos : proxy'[j].at = "handle" => proxy'[j] = proxy[j]
  BY Zenon, <1>1, Unchanged DEF Idle
<1>3. conns' = conns \/ (proxy[k].len > 0 /\ conns[c].sequence # x /\ handle_data_pkt(c, x))
  BY Zenon DEF CancelledPacket
<1>4. proxy[k].len > 0 => x \in Seqs
  BY Zenon, Unchanged DEF ProxyType
<1>5. fifo_id' >= fifo_id
  BY <1>1 DEF IInv, Types
<1> HIDE DEF c, x
<1>6. CASE conns' = conns
  BY Zenon, <1>1, <1>2, <1>6, SameConns, QuietCall
<1>7. CASE proxy[k].len > 0 /\ conns[c].sequence # x /\ handle_data_pkt(c, x)
  <2>1. \A j \in Fifos : SameStream(conns[j], conns'[j]) /\ Sorted(conns'[j].inbox)
    BY Zenon, <1>4, <1>7, InboxStep
  <2> QED
    BY Zenon, <1>1, <1>2, <1>5, <2>1, QuietStep
<1> QED
  BY Zenon, <1>3, <1>6, <1>7

-----------------------------------------------------------------------------
LEMMA OneThreadNext ==
    ASSUME OneThread
    PROVE  IInv /\ OneThreadInv /\ [Next]_vars => (IInv /\ OneThreadInv)'
<1> SUFFICES ASSUME IInv, OneThreadInv, [Next]_vars PROVE IInv' /\ OneThreadInv'
  OBVIOUS
<1>0. IInv'
  BY Zenon, NextInv
<1>1. ASSUME NEW t \in Threads, AppCall(t) PROVE OneThreadInv'
  BY Zenon, <1>0, <1>1, SocketKeeps, BindKeeps, ListenKeeps, ConnectKeeps, CloseKeeps, RawCloseKeeps
     DEF AppCall
<1>2. ASSUME NEW t \in Threads, AppStep(t) PROVE OneThreadInv'
  BY Zenon, <1>0, <1>2, EstablishKeeps, CloseFifoKeeps, CloseEraseKeeps DEF AppStep
<1>3. ASSUME NEW k \in Fifos, ProxyStep(k) PROVE OneThreadInv'
  BY Zenon, <1>0, <1>3, RecvKeeps, HandleKeeps, CancelledKeeps DEF ProxyStep
<1>4. CASE UNCHANGED vars
  <2>1. UNCHANGED <<fifoAt, fifo_id, conns, fd2conn, app, proxy, unlisted>>
    BY Zenon, <1>4 DEF vars
  <2> QED
    BY Zenon, <1>0, <2>1, SameConns, QuietCall
<1> QED
  BY Zenon, <1>0, <1>1, <1>2, <1>3, <1>4 DEF Next

\* With one application thread, and any number of listening sockets, peers and
\* descriptors, an open FIFO is the one of the connection that fd2conn has for
\* its descriptor, unless the number had an entry when it was opened
\* (srtp_impl.cpp:519-525, 677-690).
THEOREM SocketHasItsConnHolds == OneThread => (FairSpec => []SocketHasItsConn)
<1> SUFFICES ASSUME OneThread PROVE FairSpec => []SocketHasItsConn
  OBVIOUS
<1>1. IInv /\ OneThreadInv => SocketHasItsConn
  BY Zenon DEF OneThreadInv, Listed, SocketHasItsConn
<1>2. IInv /\ OneThreadInv /\ [Next]_vars => (IInv /\ OneThreadInv)'
  BY Zenon, OneThreadNext
<1> QED
  BY InitInv, OneThreadInit, <1>1, <1>2, PTL DEF FairSpec

\* With one application thread, what a FIFO is given has consecutive sequence
\* numbers, in whatever order the datagrams come, whichever proxy handles them
\* and whatever is closed meanwhile; and every inbox is sorted
\* (srtp_impl.cpp:118-153).
THEOREM StreamInOrderHolds == OneThread => (FairSpec => []StreamInOrder)
<1> SUFFICES ASSUME OneThread PROVE FairSpec => []StreamInOrder
  OBVIOUS
<1>1. IInv /\ OneThreadInv => StreamInOrder
  BY Zenon DEF OneThreadInv
<1>2. IInv /\ OneThreadInv /\ [Next]_vars => (IInv /\ OneThreadInv)'
  BY Zenon, OneThreadNext
<1> QED
  BY InitInv, OneThreadInit, <1>1, <1>2, PTL DEF FairSpec

=============================================================================
