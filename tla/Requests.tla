------------------------------ MODULE Requests ------------------------------
(***************************************************************************)
(* Write requests: clients that send WRQ until they are answered           *)
(* (complete_request in ftpclient.c), the listener that forks a child for  *)
(* every datagram it reads (process_connections in ftpserver.c), and the   *)
(* children, which share one directory: each checks that the file does not *)
(* exist, creates it, acknowledges, receives the data and keeps or deletes *)
(* the file (copy_file in ftpserver.c).                                    *)
(*                                                                         *)
(* The data phase is what module Transfer promises of it over an in-order  *)
(* network (module FileCopy): the client closes when the child has         *)
(* accepted every chunk, and is confirmed when the child has stored them.  *)
(***************************************************************************)
EXTENDS Udp

CONSTANTS
    Clients,
    Names,        \* file names without directories
    NameOf,       \* the name each client's request carries
    Form,         \* what follows the name: "size", "badsize" or "nosize"
    OldFiles,     \* names that exist before the first request
    Chunks,       \* packets of data in each file
    MaxTries,     \* bound: requests a client sends in its six seconds
    MaxChildren,  \* bound: children that fork can create
    NoClient      \* in kclient: not forked yet; in content: nobody's chunk

ASSUME NameOfAssumption == NameOf \in [Clients -> Names]
ASSUME FormAssumption == Form \in [Clients -> {"size", "badsize", "nosize"}]
ASSUME OldFilesAssumption == OldFiles \subseteq Names
ASSUME ChunksAssumption == Chunks \in Nat \ {0}
ASSUME MaxTriesAssumption == MaxTries \in Nat \ {0}
ASSUME MaxChildrenAssumption == MaxChildren \in Nat \ {0}

Children == 1 .. MaxChildren

\* Files.  A child that creates a file gives it its own number.
NoFile == 0
OldFile == MaxChildren + 1
Files == Children \cup {OldFile}

VARIABLES
    \* the clients
    cpc,        \* where the client is
    tries,      \* requests sent
    target,     \* the child the client talks to, 0 before an answer
    cexit,      \* exit status
    confirmed,  \* history: the client exited because of a FINACK
    \* the sockets
    requests,   \* requests at the listening socket
    replies,    \* answers to each client
    \* the children
    forked,     \* how many there are
    kpc,        \* where the child is
    kclient,    \* origin: the client whose request it serves
    accepted,   \* chunks acknowledged
    kfile,      \* the file it has open
    kexit,      \* exit status
    \* the file system
    dir,        \* the file each name stands for
    content     \* for each file, whose chunk is at each position

clientVars == <<cpc, tries, target, cexit, confirmed>>
childVars == <<forked, kpc, kclient, accepted, kfile, kexit>>
fileVars == <<dir, content>>
vars == <<clientVars, requests, replies, childVars, fileVars>>

Init ==
    /\ cpc = [c \in Clients |-> "request"]
    /\ tries = [c \in Clients |-> 0]
    /\ target = [c \in Clients |-> 0]
    /\ cexit = [c \in Clients |-> "none"]
    /\ confirmed = [c \in Clients |-> FALSE]
    /\ requests = <<>>
    /\ replies = [c \in Clients |-> <<>>]
    /\ forked = 0
    /\ kpc = [k \in Children |-> "unborn"]
    /\ kclient = [k \in Children |-> NoClient]
    /\ accepted = [k \in Children |-> 0]
    /\ kfile = [k \in Children |-> NoFile]
    /\ kexit = [k \in Children |-> "none"]
    /\ dir = [n \in Names |-> IF n \in OldFiles THEN OldFile ELSE NoFile]
    /\ content = [f \in Files |-> IF f = OldFile THEN <<NoClient>> ELSE <<>>]

-----------------------------------------------------------------------------
(***************************************************************************)
(* The client asks.                                                        *)
(***************************************************************************)

ClientExit(c, status) ==
    /\ cpc' = [cpc EXCEPT ![c] = "exit"]
    /\ cexit' = [cexit EXCEPT ![c] = status]

\* Sends the request and sleeps for 100 ms.
ClientRequest(c) ==
    /\ cpc[c] = "request"
    /\ tries[c] < MaxTries
    /\ requests' \in Sent(requests, c)
    /\ tries' = [tries EXCEPT ![c] = @ + 1]
    /\ cpc' = [cpc EXCEPT ![c] = "wait"]
    /\ UNCHANGED <<target, cexit, confirmed, replies, childVars, fileVars>>

\* sendto refuses the request.
ClientRequestFails(c) ==
    /\ cpc[c] = "request"
    /\ ClientExit(c, "RUNTIME_ERROR")
    /\ UNCHANGED <<tries, target, confirmed, requests, replies, childVars, fileVars>>

\* No answer after 100 ms: the request is sent again, ...
ClientRetry(c) ==
    /\ cpc[c] = "wait"
    /\ tries[c] < MaxTries
    /\ cpc' = [cpc EXCEPT ![c] = "request"]
    /\ UNCHANGED <<tries, target, cexit, confirmed, requests, replies, childVars,
                   fileVars>>

\* ... for six seconds.
ClientNoAnswer(c) ==
    /\ cpc[c] = "wait"
    /\ ClientExit(c, "TIMEOUT")
    /\ UNCHANGED <<tries, target, confirmed, requests, replies, childVars, fileVars>>

\* The first answer decides; its sender is the target from now on.
ClientAnswer(c) ==
    /\ cpc[c] = "wait"
    /\ replies[c] # <<>>
    /\ target' = [target EXCEPT ![c] = Head(replies[c]).from]
    /\ replies' = [replies EXCEPT ![c] = Tail(@)]
    /\ CASE Head(replies[c]).cmd = "ACK" ->
                cpc' = [cpc EXCEPT ![c] = "data"] /\ UNCHANGED cexit
         [] Head(replies[c]).cmd = "EXISTS" -> ClientExit(c, "FILE_EXISTS")
         [] Head(replies[c]).cmd = "BADREQ" -> ClientExit(c, "BAD_REQUEST")
    /\ UNCHANGED <<tries, confirmed, requests, childVars, fileVars>>

-----------------------------------------------------------------------------
(***************************************************************************)
(* The listener forks a child for every datagram.                          *)
(***************************************************************************)

\* Mutant: the datagram stays at the socket after one child is forked.
ListenerForkKeeps ==
    /\ requests # <<>>
    /\ forked < MaxChildren
    /\ forked' = forked + 1
    /\ kpc' = [kpc EXCEPT ![forked + 1] = "start"]
    /\ kclient' = [kclient EXCEPT ![forked + 1] = Head(requests)]
    /\ UNCHANGED <<clientVars, requests, replies, accepted, kfile, kexit, fileVars>>

ListenerFork ==
    /\ requests # <<>>
    /\ forked < MaxChildren
    /\ forked' = forked + 1
    /\ kpc' = [kpc EXCEPT ![forked + 1] = "start"]
    /\ kclient' = [kclient EXCEPT ![forked + 1] = Head(requests)]
    /\ requests' = Tail(requests)
    /\ UNCHANGED <<clientVars, replies, accepted, kfile, kexit, fileVars>>

\* fork fails: the request is ignored.
ListenerForkFails ==
    /\ requests # <<>>
    /\ requests' = Tail(requests)
    /\ UNCHANGED <<clientVars, replies, childVars, fileVars>>

-----------------------------------------------------------------------------
(***************************************************************************)
(* The child answers.                                                      *)
(***************************************************************************)

Name(k) == NameOf[kclient[k]]

ChildExit(k, status) ==
    /\ kpc' = [kpc EXCEPT ![k] = "exit"]
    /\ kexit' = [kexit EXCEPT ![k] = status]

ChildReply(k, cmd) ==
    \E q \in Sent(replies[kclient[k]], [cmd |-> cmd, from |-> k]) :
        replies' = [replies EXCEPT ![kclient[k]] = q]

\* A refusal, which sendto may refuse.
ChildDeny(k, cmd, status) ==
    /\ \/ ChildReply(k, cmd) /\ ChildExit(k, status)
       \/ UNCHANGED replies /\ ChildExit(k, "RUNTIME_ERROR")
    /\ UNCHANGED <<clientVars, requests, forked, kclient, accepted, kfile, fileVars>>

ChildNoSocket(k) ==
    /\ kpc[k] = "start"
    /\ ChildExit(k, "RUNTIME_ERROR")
    /\ UNCHANGED <<clientVars, requests, replies, forked, kclient, accepted, kfile,
                   fileVars>>

\* No '|' in the request.
ChildBadRequest(k) ==
    /\ kpc[k] = "start"
    /\ Form[kclient[k]] = "nosize"
    /\ ChildDeny(k, "BADREQ", "BAD_REQUEST")

\* access says that the file exists.
ChildExists(k) ==
    /\ kpc[k] = "start"
    /\ Form[kclient[k]] # "nosize"
    /\ dir[Name(k)] # NoFile
    /\ ChildDeny(k, "EXISTS", "FILE_EXISTS")

\* It does not exist, but the size is not a number: no answer.
ChildBadSize(k) ==
    /\ kpc[k] = "start"
    /\ Form[kclient[k]] = "badsize"
    /\ dir[Name(k)] = NoFile
    /\ ChildExit(k, "BAD_REQUEST")
    /\ UNCHANGED <<clientVars, requests, replies, forked, kclient, accepted, kfile,
                   fileVars>>

\* Mutant: the answer of access is not looked at.
ChildCheckedAlways(k) ==
    /\ kpc[k] = "start"
    /\ Form[kclient[k]] = "size"
    /\ kpc' = [kpc EXCEPT ![k] = "checked"]
    /\ UNCHANGED <<clientVars, requests, replies, forked, kclient, accepted, kfile,
                   kexit, fileVars>>

ChildChecked(k) ==
    /\ kpc[k] = "start"
    /\ Form[kclient[k]] = "size"
    /\ dir[Name(k)] = NoFile
    /\ kpc' = [kpc EXCEPT ![k] = "checked"]
    /\ UNCHANGED <<clientVars, requests, replies, forked, kclient, accepted, kfile,
                   kexit, fileVars>>

\* fopen with mode "w": creates the file, or empties the one that has come
\* into being since access was asked.
ChildOpen(k) ==
    /\ kpc[k] = "checked"
    /\ LET f == IF dir[Name(k)] = NoFile THEN k ELSE dir[Name(k)] IN
        /\ dir' = [dir EXCEPT ![Name(k)] = f]
        /\ content' = [content EXCEPT ![f] = <<>>]
        /\ kfile' = [kfile EXCEPT ![k] = f]
    /\ kpc' = [kpc EXCEPT ![k] = "opened"]
    /\ UNCHANGED <<clientVars, requests, replies, forked, kclient, accepted, kexit>>

\* fopen fails: the client is told that the file exists.
ChildCannotCreate(k) ==
    /\ kpc[k] = "checked"
    /\ ChildDeny(k, "EXISTS", "CANNOT_CREATE")

ChildAck(k) ==
    /\ kpc[k] = "opened"
    /\ ChildReply(k, "ACK")
    /\ kpc' = [kpc EXCEPT ![k] = "data"]
    /\ UNCHANGED <<clientVars, requests, forked, kclient, accepted, kfile, kexit,
                   fileVars>>

Unlink(k) == dir' = [dir EXCEPT ![Name(k)] = NoFile]

ChildAckFails(k) ==
    /\ kpc[k] = "opened"
    /\ Unlink(k)
    /\ ChildExit(k, "RUNTIME_ERROR")
    /\ UNCHANGED <<clientVars, requests, replies, forked, kclient, accepted, kfile,
                   content>>

-----------------------------------------------------------------------------
(***************************************************************************)
(* The data phase, as FileCopy has it.                                     *)
(***************************************************************************)

\* Mutant: chunks beyond the end of the file.
SendingMore(k) ==
    /\ target[kclient[k]] = k
    /\ cpc[kclient[k]] \in {"data", "exit"}

\* Packets of the child's client can be under way to it.
Sending(k) ==
    /\ target[kclient[k]] = k
    /\ cpc[kclient[k]] \in {"data", "exit"}
    /\ accepted[k] < Chunks

\* The file f after chunk i of client c has been written at its position.
WriteChunk(f, i, c) ==
    [j \in 1 .. IF i > Len(f) THEN i ELSE Len(f) |->
        IF j = i THEN c ELSE IF j <= Len(f) THEN f[j] ELSE NoClient]

ChildStore(k) ==
    /\ kpc[k] = "data"
    /\ Sending(k)
    /\ accepted' = [accepted EXCEPT ![k] = @ + 1]
    /\ content' = [content EXCEPT ![kfile[k]] = WriteChunk(@, accepted[k] + 1, kclient[k])]
    /\ UNCHANGED <<clientVars, requests, replies, forked, kpc, kclient, kfile, kexit,
                   dir>>

\* The chunk is acknowledged but cannot be written; the file is left.
ChildStoreFails(k) ==
    /\ kpc[k] = "data"
    /\ Sending(k)
    /\ accepted' = [accepted EXCEPT ![k] = @ + 1]
    /\ ChildExit(k, "RUNTIME_ERROR")
    /\ UNCHANGED <<clientVars, requests, replies, forked, kclient, kfile, fileVars>>

\* Mutant: a child that hears nothing leaves its file.
ChildTimeoutKeeps(k) ==
    /\ kpc[k] = "data"
    /\ ChildExit(k, "TIMEOUT")
    /\ UNCHANGED <<clientVars, requests, replies, forked, kclient, accepted, kfile,
                   fileVars>>

\* Mutant: a child waits until it hears from its client.
ChildTimeoutHeard(k) ==
    /\ kpc[k] = "data"
    /\ target[kclient[k]] = k
    /\ Unlink(k)
    /\ ChildExit(k, "TIMEOUT")
    /\ UNCHANGED <<clientVars, requests, replies, forked, kclient, accepted, kfile,
                   content>>

\* Six seconds without a packet.
ChildTimeout(k) ==
    /\ kpc[k] = "data"
    /\ Unlink(k)
    /\ ChildExit(k, "TIMEOUT")
    /\ UNCHANGED <<clientVars, requests, replies, forked, kclient, accepted, kfile,
                   content>>

\* Two seconds without an ACK, or a packet that cannot be sent.
ClientGiveUp(c) ==
    /\ cpc[c] = "data"
    /\ \E status \in {"TIMEOUT", "RUNTIME_ERROR"} : ClientExit(c, status)
    /\ UNCHANGED <<tries, target, confirmed, requests, replies, childVars, fileVars>>

\* Every chunk is acknowledged.
ClientClose(c) ==
    /\ cpc[c] = "data"
    /\ accepted[target[c]] = Chunks
    /\ cpc' = [cpc EXCEPT ![c] = "fin"]
    /\ UNCHANGED <<tries, target, cexit, confirmed, requests, replies, childVars,
                   fileVars>>

\* The client's FIN arrives.
ChildFin(k) ==
    /\ kpc[k] = "data"
    /\ target[kclient[k]] = k
    /\ cpc[kclient[k]] = "fin" \/ cexit[kclient[k]] = "OK"
    /\ kpc' = [kpc EXCEPT ![k] = "finack"]
    /\ UNCHANGED <<clientVars, requests, replies, forked, kclient, accepted, kfile,
                   kexit, fileVars>>

ChildClose(k) ==
    /\ kpc[k] = "finack"
    /\ ChildExit(k, "OK")
    /\ UNCHANGED <<clientVars, requests, replies, forked, kclient, accepted, kfile,
                   fileVars>>

\* Mutant: the client takes silence for confirmation.
ClientConfirmedAlways(c) ==
    /\ cpc[c] = "fin"
    /\ ClientExit(c, "OK")
    /\ confirmed' = [confirmed EXCEPT ![c] = TRUE]
    /\ UNCHANGED <<tries, target, requests, replies, childVars, fileVars>>

\* The child's FINACK arrives.
ClientConfirmed(c) ==
    /\ cpc[c] = "fin"
    /\ kpc[target[c]] = "finack" \/ kexit[target[c]] = "OK"
    /\ ClientExit(c, "OK")
    /\ confirmed' = [confirmed EXCEPT ![c] = TRUE]
    /\ UNCHANGED <<tries, target, requests, replies, childVars, fileVars>>

\* It does not arrive in two seconds: status 0 as well.
ClientUnconfirmed(c) ==
    /\ cpc[c] = "fin"
    /\ ClientExit(c, "OK")
    /\ UNCHANGED <<tries, target, confirmed, requests, replies, childVars, fileVars>>

-----------------------------------------------------------------------------

ClientStep(c) ==
    \/ ClientRequest(c) \/ ClientRequestFails(c)
    \/ ClientRetry(c) \/ ClientNoAnswer(c) \/ ClientAnswer(c)
    \/ ClientGiveUp(c) \/ ClientClose(c) \/ ClientConfirmed(c) \/ ClientUnconfirmed(c)

ListenerStep == ListenerFork \/ ListenerForkFails

ChildStep(k) ==
    \/ ChildNoSocket(k) \/ ChildBadRequest(k) \/ ChildExists(k) \/ ChildBadSize(k)
    \/ ChildChecked(k) \/ ChildOpen(k) \/ ChildCannotCreate(k)
    \/ ChildAck(k) \/ ChildAckFails(k)
    \/ ChildStore(k) \/ ChildStoreFails(k) \/ ChildTimeout(k)
    \/ ChildFin(k) \/ ChildClose(k)

AllExited ==
    /\ \A c \in Clients : cpc[c] = "exit"
    /\ \A k \in Children : kpc[k] \in {"unborn", "exit"}
    /\ requests = <<>>

\* Nothing is left but the listener, in recvfrom.
Idle == AllExited /\ UNCHANGED vars

Next ==
    \/ \E c \in Clients : ClientStep(c)
    \/ ListenerStep
    \/ \E k \in Children : ChildStep(k)
    \/ Idle

Spec == Init /\ [][Next]_vars

(***************************************************************************)
(* Every process keeps running.  All of a client's and a child's loops are *)
(* left when a clock has run long enough, which the bound on tries and the *)
(* time-outs stand for.                                                    *)
(***************************************************************************)
Fairness ==
    /\ \A c \in Clients : WF_vars(ClientStep(c))
    /\ WF_vars(ListenerStep)
    /\ \A k \in Children : WF_vars(ChildStep(k))

FairSpec == Spec /\ Fairness

-----------------------------------------------------------------------------
(***************************************************************************)
(* Properties.                                                             *)
(***************************************************************************)

CExits == {"none", "OK", "TIMEOUT", "RUNTIME_ERROR", "FILE_EXISTS", "BAD_REQUEST"}
KExits == CExits \cup {"CANNOT_CREATE"}

TypeOK ==
    /\ cpc \in [Clients -> {"request", "wait", "data", "fin", "exit"}]
    /\ tries \in [Clients -> 0 .. MaxTries]
    /\ target \in [Clients -> Children \cup {0}]
    /\ cexit \in [Clients -> CExits]
    /\ confirmed \in [Clients -> BOOLEAN]
    /\ requests \in Seq(Clients)
    /\ replies \in [Clients -> Seq([cmd : {"ACK", "EXISTS", "BADREQ"}, from : Children])]
    /\ forked \in 0 .. MaxChildren
    /\ kpc \in [Children ->
                {"unborn", "start", "checked", "opened", "data", "finack", "exit"}]
    /\ kclient \in [Children -> Clients \cup {NoClient}]
    /\ accepted \in [Children -> 0 .. Chunks]
    /\ kfile \in [Children -> Files \cup {NoFile}]
    /\ kexit \in [Children -> KExits]
    /\ dir \in [Names -> Files \cup {NoFile}]
    /\ content \in [Files -> Seq(Clients \cup {NoClient})]

\* A file that was on the server before the requests is neither deleted nor
\* changed, whatever requests for it arrive and however the children that
\* serve them are interleaved: each of them finds it with access
\* (ftpserver.c:83-92) and none gets as far as fopen or unlink.
OldFilesKept ==
    /\ \A n \in OldFiles : dir[n] = OldFile
    /\ content[OldFile] = <<NoClient>>

\* fopen never empties an existing file: between access at ftpserver.c:83 and
\* fopen at ftpserver.c:100 no other child creates it.  README.md:25: "Write
\* requests will be ignored if the file already exists on the server".
NoClobber ==
    [][\A k \in Children :
        kpc[k] = "checked" /\ kpc'[k] = "opened" => dir[Name(k)] = NoFile]_vars

IsFileOf(c) ==
    /\ dir[NameOf[c]] # NoFile
    /\ content[dir[NameOf[c]]] = [i \in 1 .. Chunks |-> c]

\* A file whose transfer ended with a FINACK that the client received stays
\* on the server and stays as it is (ftpserver.c:141-145 and 100 in another
\* child do not touch it).
ConfirmedFileStays == \A c \in Clients : confirmed[c] => IsFileOf(c)

\* A client that reports that its request was rejected because the file
\* exists (ftpclient.c:64-67) has no child that created a file for it.
RejectedMeansRejected ==
    \A c \in Clients : cexit[c] = "FILE_EXISTS" =>
        \A k \in Children : kclient[k] = c => kfile[k] = NoFile

\* When every process has exited, a file that was not there before is some
\* client's complete file, or its child failed to write and said so: no
\* partial file survives a time-out, although children that serve repetitions
\* of one request create, empty and unlink the file in any order
\* (ftpserver.c:83-145).
OnlyCompleteFilesLeft ==
    AllExited =>
        \A n \in Names \ OldFiles : dir[n] # NoFile =>
            \/ \E c \in Clients : NameOf[c] = n /\ IsFileOf(c)
            \/ \E k \in Children : kfile[k] = dir[n] /\ kexit[k] = "RUNTIME_ERROR"

\* Every client gets an answer or gives up, and every child exits, the ones
\* whose client talks to another child included (ftpclient.c:44-59,
\* ftpserver.c:136-145).
EventuallyIdle == <>[]AllExited

=============================================================================
