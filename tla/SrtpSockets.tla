---------------------------- MODULE SrtpSockets ----------------------------
(***************************************************************************)
(* The sockets of the SRTP library (srtp_impl.cpp) in one process: an      *)
(* application thread calling the srtp_ functions, and one proxy thread    *)
(* for each listening socket.                                              *)
(*                                                                         *)
(* A socket is the descriptor of a FIFO.  fd2conn finds the connection     *)
(* structure of a descriptor and hash2fd the descriptor of a peer; no lock *)
(* protects them.  A C++ map lookup with [] inserts a zero for a key that  *)
(* is absent.  Connection k is the one whose FIFO has the file name k.     *)
(* Calls refused by isOpenSRTPSock change nothing and are left out.        *)
(***************************************************************************)
EXTENDS SrtpPacket, Sequences

CONSTANTS
    Threads,        \* application threads
    IPs,            \* peers, by address
    MaxFd,          \* descriptors are 0 .. MaxFd
    MaxFifos,       \* bound on the FIFOs made
    OldFifos,       \* FIFO files an earlier process left behind
    Seqs,           \* sequence numbers of the peers' data
    MaxDatagrams,   \* bound on the datagrams received
    GarbageFds,     \* descriptors that uninitialised memory may hold
    Elapsed,        \* microseconds between two time stamps; negative: clock set back
    Replies,        \* headers that answer a SYN; cmd = 0 stands for no packet
    Word            \* values of an unsigned long

Fds == 0 .. MaxFd
Fifos == 1 .. MaxFifos
NoEntry == -1
NoFd == -1
NULL == 0

CONNECT_TIMEOUT == 5000

ASSUME SocketsAssumption ==
    /\ MaxFd \in Nat
    /\ MaxFifos \in Nat
    /\ OldFifos \subseteq Fifos
    /\ GarbageFds \subseteq Fds
    /\ Elapsed \subseteq Int
    /\ Word \in Nat \ {0}
ASSUME DataAssumption == Seqs \subseteq Nat /\ MaxDatagrams \in Nat

VARIABLES
    fifoAt,     \* descriptor -> the FIFO open there, or 0
    others,     \* descriptors open on something else
    files,      \* FIFO files that exist
    fifo_id,    \* the next FIFO name
    conns,      \* the Conn_t structures
    fd2conn,
    hash2fd,
    new_conns,
    app,        \* where each application thread is
    proxy,      \* where the proxy thread of each listening connection is
    handles,    \* descriptors the application was given
    datagrams,  \* datagrams received so far
    crashed,    \* the process has ended on a memory error
    unlisted    \* descriptors opened while fd2conn still had an entry for them

vars == <<fifoAt, others, files, fifo_id, conns, fd2conn, hash2fd, new_conns, app, proxy,
          handles, datagrams, crashed, unlisted>>

\* The state that _srtp_socket changes.
socketVars == <<fifoAt, files, fifo_id, conns, fd2conn, unlisted>>

Conn_t == [alive : BOOLEAN, fifo : Fds, addr_len : BOOLEAN, sock : Fds \cup {NoFd},
           tid : {"none", "thread", "garbage"}, sequence : Nat,
           inbox : Seq(Seqs), written : Seq(Seqs)]

Ready == [at |-> "ready", fd |-> 0, sock |-> NoFd, total_msec |-> 0, conn |-> NULL]
Idle == [at |-> "none", conn |-> NULL, seq |-> 0, len |-> 0]

TypeOK ==
    /\ fifoAt \in [Fds -> 0 .. MaxFifos]
    /\ others \subseteq Fds
    /\ files \subseteq Fifos
    /\ fifo_id \in 1 .. MaxFifos + 1
    /\ conns \in [Fifos -> Conn_t]
    /\ fd2conn \in [Fds -> NoEntry .. MaxFifos]
    /\ hash2fd \in [IPs -> Fds \cup {NoEntry}]
    /\ new_conns \in Seq(Fds)
    /\ app \in [Threads -> [at : {"ready", "establish", "close", "erase", "accept"},
                            fd : Fds, sock : Fds \cup {NoFd}, total_msec : 0 .. CONNECT_TIMEOUT,
                            conn : 0 .. MaxFifos]]
    /\ proxy \in [Fifos -> [at : {"none", "recv", "handle", "cancelled"}, conn : 0 .. MaxFifos,
                            seq : Seqs \cup {0}, len : 0 .. 1]]
    /\ handles \subseteq Fds
    /\ datagrams \in 0 .. MaxDatagrams
    /\ crashed \in BOOLEAN
    /\ unlisted \subseteq Fds

NoConn == [alive |-> FALSE, fifo |-> 0, addr_len |-> FALSE, sock |-> NoFd, tid |-> "none",
           sequence |-> 0, inbox |-> <<>>, written |-> <<>>]

\* Standard input is open or not, as the process was started.
Init ==
    /\ fifoAt = [f \in Fds |-> 0]
    /\ others \in {{}, {0}}
    /\ files = OldFifos
    /\ fifo_id = 1
    /\ conns = [k \in Fifos |-> NoConn]
    /\ fd2conn = [f \in Fds |-> NoEntry]
    /\ hash2fd = [ip \in IPs |-> NoEntry]
    /\ new_conns = <<>>
    /\ app = [t \in Threads |-> Ready]
    /\ proxy = [k \in Fifos |-> Idle]
    /\ handles = {}
    /\ datagrams = 0
    /\ crashed = FALSE
    /\ unlisted = {}

-----------------------------------------------------------------------------
\* Descriptors: open and socket take the lowest free one, or fail.

isOpen(f) == fifoAt[f] # 0 \/ f \in others
NewFds ==
    IF \A f \in Fds : isOpen(f)
    THEN {NoFd}
    ELSE {f \in Fds : ~isOpen(f) /\ \A g \in Fds : g < f => isOpen(g)}

isOpenSRTPSock(f) == isOpen(f) /\ fd2conn[f] # NoEntry

\* An address is valid when it has a length.
isValidIPAddress(addr_len) == addr_len

CloseFds(S) ==
    /\ fifoAt' = [f \in Fds |-> IF f \in S THEN 0 ELSE fifoAt[f]]
    /\ others' = others \ S

\* A fresh Conn_t: tid, sock, addr_len and sequence are not initialised.  They
\* are zero in fresh memory, anything in memory that was used before.
Fresh(f) ==
    { [NoConn EXCEPT !.alive = TRUE, !.fifo = f, !.sock = 0] } \cup
    { [NoConn EXCEPT !.alive = TRUE, !.fifo = f, !.sock = s, !.addr_len = TRUE,
                     !.tid = "garbage", !.sequence = 2] : s \in GarbageFds }

\* mkfifo skips the names that are taken; the set is empty at the bound.
NextFifos ==
    {k \in fifo_id .. MaxFifos : k \notin files /\ \A j \in fifo_id .. k - 1 : j \in files}

\* fd2conn after an insert of k for descriptor f: nothing when there is an entry.
Inserted(table, f, k) == [table EXCEPT ![f] = IF @ = NoEntry THEN k ELSE @]

\* _srtp_socket, when mkfifo makes k and open gives f: fd2conn had the entries
\* of table, and new are the structures after it.
MakeSocket(f, k, table, new) ==
    /\ fifo_id' = k + 1
    /\ fifoAt' = [fifoAt EXCEPT ![f] = k]
    /\ files' = files \cup {k}
    /\ conns' = new
    /\ fd2conn' = Inserted(table, f, k)
    /\ unlisted' = IF table[f] = NoEntry THEN unlisted \ {f} ELSE unlisted \cup {f}

-----------------------------------------------------------------------------
\* The calls of the application.

At(t, where) == ~crashed /\ app[t].at = where

_srtp_socket(t) ==
    /\ At(t, "ready")
    /\ \E f \in NewFds, k \in NextFifos :
       \/ /\ f = NoFd
          /\ fifo_id' = k + 1
          /\ UNCHANGED <<fifoAt, files, conns, fd2conn, unlisted, handles>>
       \/ /\ f # NoFd
          /\ \E c \in Fresh(f) : MakeSocket(f, k, fd2conn, [conns EXCEPT ![k] = c])
          /\ handles' = handles \cup {f}
    /\ UNCHANGED <<others, hash2fd, new_conns, app, proxy, datagrams, crashed>>

_srtp_bind(t, f) ==
    /\ At(t, "ready")
    /\ isOpenSRTPSock(f)
    /\ IF fd2conn[f] = NULL
       THEN crashed' = TRUE /\ UNCHANGED conns
       ELSE conns' = [conns EXCEPT ![fd2conn[f]].addr_len = TRUE] /\ UNCHANGED crashed
    /\ UNCHANGED <<fifoAt, others, files, fifo_id, fd2conn, hash2fd, new_conns, app, proxy,
                   handles, datagrams, unlisted>>

\* The UDP socket is made before the address is looked at, and is kept when
\* there is no address or bind fails, as it does when the socket is listening.
_srtp_listen(t, f) ==
    /\ At(t, "ready")
    /\ isOpenSRTPSock(f)
    /\ \E s \in NewFds :
       LET k == fd2conn[f] IN
       /\ others' = others \cup ({s} \ {NoFd})
       /\ \/ /\ k = NULL
             /\ crashed' = TRUE
             /\ UNCHANGED <<conns, proxy>>
          \/ /\ k # NULL
             /\ conns' = [conns EXCEPT ![k].sock = s]
             /\ UNCHANGED <<proxy, crashed>>
          \/ /\ k # NULL
             /\ isValidIPAddress(conns[k].addr_len)
             /\ s # NoFd
             /\ proxy[k].at = "none"
             /\ conns' = [conns EXCEPT ![k].sock = s, ![k].tid = "thread"]
             /\ proxy' = [proxy EXCEPT ![k].at = "recv"]
             /\ UNCHANGED crashed
    /\ UNCHANGED <<fifoAt, files, fifo_id, fd2conn, hash2fd, new_conns, app, handles,
                   datagrams, unlisted>>

\* connect on the UDP socket can fail, and then leaves the UDP socket open.
_srtp_connect(t, f) ==
    /\ At(t, "ready")
    /\ isOpenSRTPSock(f)
    /\ \E s \in NewFds :
       LET k == fd2conn[f] IN
       /\ others' = others \cup ({s} \ {NoFd})
       /\ \/ UNCHANGED <<conns, app, crashed>>
          \/ /\ s # NoFd
             /\ k = NULL
             /\ crashed' = TRUE
             /\ UNCHANGED <<conns, app>>
          \/ /\ s # NoFd
             /\ k # NULL
             /\ conns' = [conns EXCEPT ![k].sock = s]
             /\ app' = [app EXCEPT ![t] = [Ready EXCEPT !.at = "establish", !.fd = f, !.sock = s]]
             /\ UNCHANGED crashed
    /\ UNCHANGED <<fifoAt, files, fifo_id, fd2conn, hash2fd, new_conns, proxy, handles,
                   datagrams, unlisted>>

\* dt is the earlier stamp minus the later one, as an unsigned long.
dt(elapsed) == (0 - elapsed) % Word

\* A mutant: after the timeout the attempt starts again.
EstablishRetries(t, elapsed, reply) ==
    /\ At(t, "establish")
    /\ ~(PKT_ACK(reply) /\ reply.ack = 0)
    /\ LET total_msec == (app[t].total_msec + dt(elapsed) \div 1000) % Word IN
       app' = [app EXCEPT ![t].total_msec = IF total_msec > CONNECT_TIMEOUT THEN 0 ELSE total_msec]
    /\ UNCHANGED <<others, hash2fd, new_conns, proxy, handles, datagrams, crashed, socketVars>>

\* A mutant: only the time since the last SYN is compared with the timeout.
EstablishNoTotal(t, elapsed, reply) ==
    /\ At(t, "establish")
    /\ ~(PKT_ACK(reply) /\ reply.ack = 0)
    /\ dt(elapsed) \div 1000 <= CONNECT_TIMEOUT
    /\ app' = [app EXCEPT ![t].total_msec = @ + dt(elapsed) \div 1000]
    /\ UNCHANGED <<others, hash2fd, new_conns, proxy, handles, datagrams, crashed, socketVars>>

\* One turn of the inner loop of establish_conn: the break on an ACK only
\* leaves that loop, so that the SYN is sent again.  When the total timeout is
\* over, _srtp_connect closes the UDP socket.
establish_conn(t, elapsed, reply) ==
    /\ At(t, "establish")
    /\ LET total_msec == (app[t].total_msec + dt(elapsed) \div 1000) % Word IN
       \/ /\ PKT_ACK(reply) /\ reply.ack = 0
          /\ UNCHANGED <<app, fifoAt, others>>
       \/ /\ ~(PKT_ACK(reply) /\ reply.ack = 0)
          /\ total_msec > CONNECT_TIMEOUT
          /\ app' = [app EXCEPT ![t] = Ready]
          /\ CloseFds({app[t].sock})
       \/ /\ ~(PKT_ACK(reply) /\ reply.ack = 0)
          /\ total_msec <= CONNECT_TIMEOUT
          /\ app' = [app EXCEPT ![t].total_msec = total_msec]
          /\ UNCHANGED <<fifoAt, others>>
    /\ UNCHANGED <<files, fifo_id, conns, fd2conn, hash2fd, new_conns, proxy, handles,
                   datagrams, crashed, unlisted>>

\* _srtp_accept waits for new_conns, which only code that follows the endless
\* loop of recv_srtp_data fills.
_srtp_accept(t, f) ==
    /\ At(t, "ready")
    /\ isOpenSRTPSock(f)
    /\ app' = [app EXCEPT ![t] = [Ready EXCEPT !.at = "accept", !.fd = f]]
    /\ UNCHANGED <<others, hash2fd, new_conns, proxy, handles, datagrams, crashed, socketVars>>

AcceptReturn(t) ==
    /\ At(t, "accept")
    /\ new_conns # <<>>
    /\ new_conns' = Tail(new_conns)
    /\ handles' = handles \cup {Head(new_conns)}
    /\ app' = [app EXCEPT ![t] = Ready]
    /\ UNCHANGED <<others, hash2fd, proxy, datagrams, crashed, socketVars>>

\* A mutant: the entry is erased before the sleep.
CloseErasesEarly(t, f) ==
    /\ At(t, "ready")
    /\ isOpenSRTPSock(f)
    /\ app' = [app EXCEPT ![t] = [Ready EXCEPT !.at = "close", !.fd = f]]
    /\ fd2conn' = [fd2conn EXCEPT ![f] = NoEntry]
    /\ UNCHANGED <<fifoAt, others, files, fifo_id, conns, hash2fd, new_conns, proxy, handles,
                   datagrams, crashed, unlisted>>

\* _srtp_close up to the sleep,
_srtp_close(t, f) ==
    /\ At(t, "ready")
    /\ isOpenSRTPSock(f)
    /\ app' = [app EXCEPT ![t] = [Ready EXCEPT !.at = "close", !.fd = f]]
    /\ UNCHANGED <<others, hash2fd, new_conns, proxy, handles, datagrams, crashed, socketVars>>

\* the close of the descriptor and the look at its connection,
CloseFifo(t) ==
    /\ At(t, "close")
    /\ LET f == app[t].fd
           k == fd2conn[f]
       IN  /\ CloseFds({f})
           /\ IF k \in {NoEntry, NULL}
              THEN crashed' = TRUE /\ UNCHANGED app
              ELSE /\ app' = [app EXCEPT ![t].at = "erase", ![t].conn = k]
                   /\ UNCHANGED crashed
    /\ UNCHANGED <<files, fifo_id, conns, fd2conn, hash2fd, new_conns, proxy, handles,
                   datagrams, unlisted>>

\* pthread_cancel ends a proxy that waits in recvfrom; one that has a packet
\* goes on to its next cancellation point, and as the thread is detached
\* pthread_join does not wait for it.
Cancelled(p) == IF p.at \in {"handle", "cancelled"} THEN [p EXCEPT !.at = "cancelled"] ELSE Idle

\* A mutant: the entry is not erased.
CloseKeepsEntry(t) ==
    /\ At(t, "erase")
    /\ files' = files \ {app[t].conn}
    /\ proxy' = [proxy EXCEPT ![app[t].conn] = Cancelled(@)]
    /\ conns' = [conns EXCEPT ![app[t].conn] = NoConn]
    /\ app' = [app EXCEPT ![t] = Ready]
    /\ UNCHANGED <<fifoAt, others, fifo_id, fd2conn, hash2fd, new_conns, handles, datagrams,
                   crashed, unlisted>>

\* and the rest: the UDP socket and the proxy, the file, the entry, the Conn_t.
\* With a tid that was never set the process ends, or closes some descriptor.
CloseErase(t) ==
    /\ At(t, "erase")
    /\ LET f == app[t].fd
           k == app[t].conn
           c == conns[k]
       IN  /\ IF c.tid = "none" THEN UNCHANGED <<fifoAt, others>> ELSE CloseFds({c.sock})
           /\ crashed' \in IF c.tid = "garbage" \/ ~c.alive THEN BOOLEAN ELSE {FALSE}
           /\ proxy' = [proxy EXCEPT ![k] = Cancelled(@)]
           /\ files' = files \ {k}
           /\ fd2conn' = [fd2conn EXCEPT ![f] = NoEntry]
           /\ conns' = [conns EXCEPT ![k] = NoConn]
    /\ app' = [app EXCEPT ![t] = Ready]
    /\ UNCHANGED <<fifo_id, hash2fd, new_conns, handles, datagrams, unlisted>>

\* The application may call close instead of srtp_close.
RawClose(t, f) ==
    /\ At(t, "ready")
    /\ fifoAt[f] # 0
    /\ CloseFds({f})
    /\ UNCHANGED <<files, fifo_id, conns, fd2conn, hash2fd, new_conns, app, proxy, handles,
                   datagrams, crashed, unlisted>>

-----------------------------------------------------------------------------
\* The proxy of connection k: server_proxy, in recv_srtp_data for ever.

\* A datagram arrives, and its connection is looked up or made.
recv_srtp_data(k, ip, seq, len) ==
    /\ ~crashed
    /\ proxy[k].at = "recv"
    /\ datagrams < MaxDatagrams
    /\ datagrams' = datagrams + 1
    /\ LET fifo == IF hash2fd[ip] = NoEntry THEN 0 ELSE hash2fd[ip]
           found(c) == [at |-> "handle", conn |-> c, len |-> len,
                       seq |-> IF len = 0 THEN 0 ELSE seq]
       IN
       \/ /\ fd2conn[fifo] \in Fifos
          /\ hash2fd' = [hash2fd EXCEPT ![ip] = fifo]
          /\ proxy' = [proxy EXCEPT ![k] = found(fd2conn[fifo])]
          /\ UNCHANGED <<crashed, socketVars>>
       \/ /\ fd2conn[fifo] \in {NoEntry, NULL}
          /\ hash2fd' = [hash2fd EXCEPT ![ip] = fifo]
          /\ \E f \in NewFds, n \in NextFifos :
             LET table == [fd2conn EXCEPT ![fifo] = NULL]
                 c == IF f = NoFd THEN NULL ELSE Inserted(table, f, n)[f]
             IN
             \/ /\ c = NULL
                /\ crashed' = TRUE
                /\ UNCHANGED <<proxy, socketVars>>
             \/ /\ c # NULL
                /\ \E fresh \in Fresh(f) :
                      MakeSocket(f, n, table,
                                 [[conns EXCEPT ![n] = fresh] EXCEPT ![c].addr_len = TRUE])
                /\ proxy' = [proxy EXCEPT ![k] = found(c)]
                /\ UNCHANGED crashed
    /\ UNCHANGED <<others, new_conns, app, handles>>

\* A mutant: a packet that is early is written too.
HandleDataEarly(c, seq) ==
    /\ conns[c].sequence <= seq
    /\ conns' = [conns EXCEPT ![c].sequence = @ + 1, ![c].written = Append(@, seq)]

\* The data goes to the FIFO open on the descriptor, or waits in the inbox
\* before the first larger number (nothing takes it out again); then it is
\* acknowledged.
handle_data_pkt(c, seq) ==
    IF conns[c].sequence = seq
    THEN conns' = [k \in Fifos |->
                    [conns[k] EXCEPT
                        !.sequence = IF k = c THEN @ + 1 ELSE @,
                        !.written = IF fifoAt[conns[c].fifo] = k THEN Append(@, seq) ELSE @]]
    ELSE LET inbox == conns[c].inbox IN
         \E i \in 1 .. Len(inbox) + 1 :
            /\ \A j \in 1 .. i - 1 : inbox[j] <= seq
            /\ i <= Len(inbox) => inbox[i] > seq
            /\ conns' = [conns EXCEPT
                    ![c].inbox = SubSeq(inbox, 1, i - 1) \o <<seq>> \o SubSeq(inbox, i, Len(inbox))]

\* No command has an effect yet.
handle_cmd_pkt == UNCHANGED conns

\* A packet without data is a command.  The application may have deleted the
\* connection since it was looked up.
HandlePacket(k) ==
    /\ ~crashed
    /\ proxy[k].at = "handle"
    /\ proxy' = [proxy EXCEPT ![k] = [Idle EXCEPT !.at = "recv"]]
    /\ LET c == proxy[k].conn IN
       \/ /\ proxy[k].len = 0
          /\ handle_cmd_pkt
          /\ UNCHANGED crashed
       \/ /\ proxy[k].len > 0
          /\ conns[c].alive
          /\ handle_data_pkt(c, proxy[k].seq)
          /\ UNCHANGED crashed
       \/ /\ proxy[k].len > 0
          /\ ~conns[c].alive
          /\ crashed' \in BOOLEAN
          /\ UNCHANGED conns
    /\ UNCHANGED <<fifoAt, others, files, fifo_id, fd2conn, hash2fd, new_conns, app, handles,
                   datagrams, unlisted>>

\* A cancelled proxy: write, or at the latest sendto, is where it ends.
CancelledPacket(k) ==
    /\ ~crashed
    /\ proxy[k].at = "cancelled"
    /\ proxy' = [proxy EXCEPT ![k] = Idle]
    /\ LET c == proxy[k].conn IN
       \/ /\ proxy[k].len = 0 \/ (conns[c].alive /\ conns[c].sequence = proxy[k].seq)
          /\ UNCHANGED <<conns, crashed>>
       \/ /\ proxy[k].len > 0
          /\ conns[c].alive
          /\ conns[c].sequence # proxy[k].seq
          /\ handle_data_pkt(c, proxy[k].seq)
          /\ UNCHANGED crashed
       \/ /\ proxy[k].len > 0
          /\ ~conns[c].alive
          /\ crashed' \in BOOLEAN
          /\ UNCHANGED conns
    /\ UNCHANGED <<fifoAt, others, files, fifo_id, fd2conn, hash2fd, new_conns, app, handles,
                   datagrams, unlisted>>

-----------------------------------------------------------------------------
AppCall(t) ==
    \/ _srtp_socket(t)
    \/ \E f \in handles : \/ _srtp_bind(t, f)
                          \/ _srtp_listen(t, f)
                          \/ _srtp_connect(t, f)
                          \/ _srtp_close(t, f)
                          \/ RawClose(t, f)

AppStep(t) ==
    \/ \E e \in Elapsed, h \in Replies : establish_conn(t, e, h)
    \/ CloseFifo(t)
    \/ CloseErase(t)

ProxyStep(k) ==
    \/ \E ip \in IPs, seq \in Seqs, len \in 0 .. 1 : recv_srtp_data(k, ip, seq, len)
    \/ HandlePacket(k)
    \/ CancelledPacket(k)

Next ==
    \/ \E t \in Threads : AppCall(t) \/ AppStep(t)
    \/ \E k \in Fifos : ProxyStep(k)

\* server_proxy after recv_srtp_data has returned, which it never does.
ServerProxy(k) ==
    /\ ~crashed
    /\ proxy[k].at = "returned"
    /\ proxy' = [proxy EXCEPT ![k] = [Idle EXCEPT !.at = "recv"]]
    /\ \E ip \in IPs :
       \/ /\ hash2fd[ip] = NoEntry
          /\ \E f \in NewFds \ {NoFd}, n \in NextFifos : \E fresh \in Fresh(f) :
                /\ MakeSocket(f, n, fd2conn,
                              [conns EXCEPT ![n] = [fresh EXCEPT !.addr_len = TRUE]])
                /\ new_conns' = Append(new_conns, f)
                /\ hash2fd' = [hash2fd EXCEPT ![ip] = f]
       \/ /\ hash2fd[ip] # NoEntry
          /\ UNCHANGED <<new_conns, hash2fd, socketVars>>
    /\ UNCHANGED <<others, app, handles, datagrams, crashed>>

\* With srtp_accept, from which the application thread does not come back.
NextWithAccept ==
    \/ Next
    \/ \E t \in Threads : AcceptReturn(t) \/ \E f \in handles : _srtp_accept(t, f)
    \/ \E k \in Fifos : ServerProxy(k)

FairAcceptSpec ==
    /\ Init
    /\ [][NextWithAccept]_vars
    /\ \A t \in Threads : WF_vars(AppStep(t)) /\ WF_vars(AcceptReturn(t))
    /\ \A k \in Fifos : WF_vars(ProxyStep(k)) /\ WF_vars(ServerProxy(k))

\* A thread inside a call goes on; the application need not call anything and
\* no datagram need arrive.
FairSpec ==
    /\ Init
    /\ [][Next]_vars
    /\ \A t \in Threads : WF_vars(AppStep(t))

-----------------------------------------------------------------------------
\* fd2conn never keeps a structure that was deleted, nor one of another
\* descriptor, whatever the order of srtp_close, close, and the sockets the
\* proxies make (srtp_impl.cpp:194-202, 519-525, 677-692); and every proxy
\* thread that is not cancelled runs for a structure that exists.
TableSound ==
    ~crashed =>
        /\ \A f \in Fds : fd2conn[f] \in Fifos =>
              conns[fd2conn[f]].alive /\ conns[fd2conn[f]].fifo = f
        /\ \A k \in Fifos : proxy[k].at \in {"recv", "handle"} => conns[k].alive

\* An open FIFO is the one of the connection that fd2conn gives for it, unless
\* its descriptor was opened while fd2conn still had an entry for that number
\* (srtp_impl.cpp:519-525, 677-690).
SocketHasItsConn ==
    \A f \in Fds : fifoAt[f] # 0 /\ f \notin unlisted /\ ~crashed => fd2conn[f] = fifoAt[f]

\* What a FIFO is given has consecutive sequence numbers, in whatever order the
\* datagrams came and whichever connection wrote them, and the inbox is sorted
\* (srtp_impl.cpp:118-153).
StreamInOrder ==
    \A k \in Fifos :
        /\ \A i \in 2 .. Len(conns[k].written) :
              conns[k].written[i] = conns[k].written[i - 1] + 1
        /\ \A i \in 2 .. Len(conns[k].inbox) : conns[k].inbox[i - 1] <= conns[k].inbox[i]

\* srtp_connect returns when the peer does not go on sending ACKs for ever,
\* even when the clock is set back (srtp_impl.cpp:47-89).
ConnectReturns ==
    \A t \in Threads : app[t].at = "establish" ~> app[t].at # "establish" \/ crashed

\* srtp_accept on a listening socket returns once the proxy has made a
\* connection for a peer and taken data from it (srtp.h:66-69;
\* srtp_impl.cpp:594-597, 440).
AcceptReturns ==
    \A t \in Threads : \A l, k \in Fifos :
        ( /\ app[t].at = "accept" /\ fd2conn[app[t].fd] = l /\ proxy[l].at # "none"
          /\ k # l /\ conns[k].written # <<>> )
            ~> (app[t].at # "accept" \/ crashed)

=============================================================================
