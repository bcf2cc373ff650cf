--------------------------- MODULE RequestsProofs ---------------------------
(***************************************************************************)
(* Proofs about Requests: for any number of clients, names, children,      *)
(* chunks, repeated requests and datagrams, and for every network.         *)
(***************************************************************************)
EXTENDS Requests, TLAPS

-----------------------------------------------------------------------------
(***************************************************************************)
(* The assumptions some of the theorems need.                              *)
(***************************************************************************)

\* No two well-formed requests name the same file.
NamesDiffer ==
    \A c, d \in Clients :
        Form[c] = "size" /\ Form[d] = "size" /\ NameOf[c] = NameOf[d] => c = d

\* A request reaches the listener once at most.
NoRepeats == MaxTries = 1 /\ "duplicate" \notin Faults

-----------------------------------------------------------------------------
(***************************************************************************)
(* The inductive invariant.                                                *)
(***************************************************************************)

\* What the place and the exit status of a child say about it.
ChildInvOf(k) ==
    /\ k > forked => kpc[k] = "unborn"
    /\ kpc[k] # "unborn" => kclient[k] \in Clients
    /\ kpc[k] \in {"unborn", "start", "checked"} => kfile[k] = NoFile
    /\ kpc[k] \in {"opened", "data", "finack"} => kfile[k] # NoFile
    /\ kpc[k] \in {"unborn", "start", "checked", "opened"} => accepted[k] = 0
    /\ kexit[k] = "none" <=> kpc[k] # "exit"
    /\ kpc[k] = "checked" \/ kfile[k] # NoFile =>
          Form[kclient[k]] = "size" /\ Name(k) \notin OldFiles
    /\ kpc[k] = "finack" \/ kexit[k] = "OK" =>
          kfile[k] # NoFile /\ accepted[k] = Chunks /\ target[kclient[k]] = k

ChildInv == \A k \in Children : ChildInvOf(k)

\* What the place and the exit status of a client say about it.
ClientInvOf(c) ==
    /\ cpc[c] \in {"request", "wait"} => target[c] = 0
    /\ cpc[c] \in {"data", "fin"} => target[c] # 0
    /\ cexit[c] = "none" <=> cpc[c] # "exit"
    /\ cpc[c] = "fin" \/ cexit[c] = "OK" =>
          target[c] # 0 /\ accepted[target[c]] = Chunks

ClientInv == \A c \in Clients : ClientInvOf(c)

\* A name stands for the file of the child that created it, and then for no
\* file that a child has deleted; old names keep their file.
DirInv ==
    /\ content[OldFile] = <<NoClient>>
    /\ \A n \in OldFiles : dir[n] = OldFile
    /\ \A n \in Names \ OldFiles : dir[n] # OldFile
    /\ \A k \in Children : kfile[k] # OldFile
    /\ \A n \in Names : dir[n] \in Children => kfile[dir[n]] = dir[n]
    /\ \A k \in Children : kfile[k] \in Children => kfile[kfile[k]] = kfile[k]
    /\ \A k \in Children, n \in Names : kfile[k] # NoFile /\ dir[n] = kfile[k] =>
          Name(k) = n /\ kexit[k] \in {"none", "OK", "RUNTIME_ERROR"}

\* No other child has opened the file of child k.
Sole(k) == kfile[k] # NoFile /\ \A j \in Children : kfile[j] = kfile[k] => j = k

\* The first a chunks of client c's file.
ChunksOf(a, c) == [i \in 1 .. a |-> c]

\* The file of a child that is alone with it has the chunks it has accepted.
ContentInv ==
    \A k \in Children : Sole(k) /\ kexit[k] # "RUNTIME_ERROR" =>
        content[kfile[k]] = ChunksOf(accepted[k], kclient[k])

IInv == TypeOK /\ ChildInv /\ ClientInv /\ DirInv /\ ContentInv

\* An answer to client c comes from a child that serves c; one that refuses has
\* exited without a file.
AnswerOf(c, r) ==
    /\ kpc[r.from] # "unborn" /\ kclient[r.from] = c
    /\ r.cmd # "ACK" => kpc[r.from] = "exit" /\ kfile[r.from] = NoFile

\* The child client c talks to serves c; if c was rejected it exited without a
\* file, and if c was confirmed it has all chunks.
TargetOf(c) ==
    /\ target[c] # 0 =>
        /\ kpc[target[c]] # "unborn" /\ kclient[target[c]] = c
        /\ cexit[c] = "FILE_EXISTS" => kpc[target[c]] = "exit" /\ kfile[target[c]] = NoFile
    /\ cexit[c] = "FILE_EXISTS" => target[c] # 0
    /\ confirmed[c] =>
        /\ cpc[c] = "exit" /\ target[c] # 0
        /\ kpc[target[c]] = "finack" \/ kexit[target[c]] = "OK"

AnswerInv ==
    /\ \A c \in Clients : \A i \in 1 .. Len(replies[c]) : AnswerOf(c, replies[c][i])
    /\ \A c \in Clients : TargetOf(c)

\* Without repetitions a request is not sent, at the listener's socket, lost, or
\* served by one child.
OnceInv ==
    /\ \A c \in Clients : tries[c] = 0 =>
        /\ \A i \in 1 .. Len(requests) : requests[i] # c
        /\ \A k \in Children : kpc[k] # "unborn" => kclient[k] # c
    /\ \A i, j \in 1 .. Len(requests) : requests[i] = requests[j] => i = j
    /\ \A i \in 1 .. Len(requests), k \in Children :
        kpc[k] # "unborn" => kclient[k] # requests[i]
    /\ \A j, k \in Children :
        kpc[j] # "unborn" /\ kpc[k] # "unborn" /\ kclient[j] = kclient[k] => j = k

\* If names differ as well, the name of a child's file stands for that file
\* until the child deletes it or fails.
OwnFileInv ==
    \A k \in Children : kpc[k] \in {"opened", "data", "finack"} \/ kexit[k] = "OK" =>
        dir[Name(k)] = kfile[k]

-----------------------------------------------------------------------------
(***************************************************************************)
(* Type correctness.                                                       *)
(***************************************************************************)

Answers == [cmd : {"ACK", "EXISTS", "BADREQ"}, from : Children]

\* After a send the queue is the old one followed by copies of the datagram,
\* one copy if the network does not duplicate.
LEMMA SentIs ==
    ASSUME NEW S, NEW ch \in Seq(S), NEW p \in S, NEW q \in Sent(ch, p)
    PROVE  /\ q \in Seq(S)
           /\ \A i \in 1 .. Len(q) : q[i] = p \/ (i <= Len(ch) /\ q[i] = ch[i])
           /\ "duplicate" \notin Faults => q = ch \/ q = Append(ch, p)
<1>1. CASE q = ch
  BY <1>1
<1>2. CASE q = Append(ch, p)
  BY <1>2
<1>3. CASE q = Append(Append(ch, p), p) /\ "duplicate" \in Faults
  BY <1>3
<1> QED
  BY Zenon, <1>1, <1>2, <1>3 DEF Sent

\* What taking the first datagram leaves.
LEMMA TailIs ==
    ASSUME NEW S, NEW s \in Seq(S), s # <<>>
    PROVE  /\ Tail(s) \in Seq(S)
           /\ Head(s) = s[1] /\ Head(s) \in S
           /\ Len(s) \in Nat /\ Len(s) > 0 /\ Len(Tail(s)) = Len(s) - 1
           /\ \A i \in 1 .. Len(Tail(s)) : Tail(s)[i] = s[i + 1]
OBVIOUS

\* What a child's reply leaves at the clients' sockets.
LEMMA ReplyIs ==
    ASSUME TypeOK, NEW k \in Children, kclient[k] \in Clients,
           NEW cmd \in {"ACK", "EXISTS", "BADREQ"}, ChildReply(k, cmd)
    PROVE  /\ replies' \in [Clients -> Seq(Answers)]
           /\ \A c \in Clients : \A i \in 1 .. Len(replies'[c]) :
                 \/ c = kclient[k] /\ replies'[c][i] = [cmd |-> cmd, from |-> k]
                 \/ i \in 1 .. Len(replies[c]) /\ replies'[c][i] = replies[c][i]
<1> DEFINE p == [cmd |-> cmd, from |-> k]
<1>1. replies \in [Clients -> Seq(Answers)]
  BY Zenon DEF TypeOK, Answers
<1>2. p \in Answers
  BY Zenon DEF Answers
<1>3. PICK q \in Sent(replies[kclient[k]], p) : replies' = [replies EXCEPT ![kclient[k]] = q]
  BY Zenon DEF ChildReply
<1>4. replies[kclient[k]] \in Seq(Answers)
  BY Zenon, <1>1
<1> HIDE DEF p
<1>5. /\ q \in Seq(Answers)
      /\ \A i \in 1 .. Len(q) :
            q[i] = p \/ (i <= Len(replies[kclient[k]]) /\ q[i] = replies[kclient[k]][i])
  BY <1>2, <1>4, SentIs
<1>6. replies' \in [Clients -> Seq(Answers)]
  BY Zenon, <1>1, <1>3, <1>5
<1>7. ASSUME NEW c \in Clients, NEW i \in 1 .. Len(replies'[c])
      PROVE  \/ c = kclient[k] /\ replies'[c][i] = p
             \/ i \in 1 .. Len(replies[c]) /\ replies'[c][i] = replies[c][i]
  <2>1. CASE c = kclient[k]
    <3>1. replies'[c] = q
      BY Zenon, <1>1, <1>3, <2>1
    <3>2. Len(replies[c]) \in Nat
      BY <1>1
    <3> QED
      BY <1>5, <1>7, <2>1, <3>1, <3>2
  <2>2. CASE c # kclient[k]
    BY Zenon, <1>1, <1>3, <1>7, <2>2
  <2> QED
    BY Zenon, <2>1, <2>2
<1> QED
  BY Zenon, <1>6, <1>7 DEF p

LEMMA TypeInit == Init => TypeOK
<1> HAVE Init
<1>1. /\ tries \in [Clients -> 0 .. MaxTries]
      /\ forked \in 0 .. MaxChildren
      /\ accepted \in [Children -> 0 .. Chunks]
  BY ChunksAssumption, MaxTriesAssumption, MaxChildrenAssumption DEF Init
<1>2. /\ requests \in Seq(Clients)
      /\ replies \in [Clients -> Seq([cmd : {"ACK", "EXISTS", "BADREQ"}, from : Children])]
  BY DEF Init
<1>3. dir \in [Names -> Files \cup {NoFile}] /\ kfile \in [Children -> Files \cup {NoFile}]
  BY Zenon DEF Init, Files
<1>4. content \in [Files -> Seq(Clients \cup {NoClient})]
  <2>1. <<NoClient>> \in Seq(Clients \cup {NoClient}) /\ <<>> \in Seq(Clients \cup {NoClient})
    OBVIOUS
  <2> QED
    BY Zenon, <2>1 DEF Init
<1> QED
  BY Zenon, <1>1, <1>2, <1>3, <1>4 DEF Init, TypeOK, CExits, KExits

\* A step of a client keeps the types.
LEMMA ClientTyped ==
    ASSUME TypeOK, ClientInv, NEW c \in Clients, ClientStep(c)
    PROVE  TypeOK'
<1> USE DEF CExits, KExits, childVars, fileVars
<1>1. CASE ClientRequest(c)
  <2>1. requests' \in Seq(Clients)
    BY Zenon, <1>1, SentIs DEF ClientRequest, TypeOK
  <2>2. tries' \in [Clients -> 0 .. MaxTries]
    BY <1>1, MaxTriesAssumption DEF ClientRequest, TypeOK
  <2> QED
    BY Zenon, <1>1, <2>1, <2>2 DEF ClientRequest, TypeOK
<1>2. CASE ClientRequestFails(c) \/ ClientNoAnswer(c) \/ ClientGiveUp(c) \/ ClientUnconfirmed(c)
  <2>1. PICK status \in CExits : ClientExit(c, status)
    BY Zenon, <1>2 DEF ClientRequestFails, ClientNoAnswer, ClientGiveUp, ClientUnconfirmed
  <2>2. UNCHANGED <<tries, target, confirmed, requests, replies, childVars, fileVars>>
    BY Zenon, <1>2 DEF ClientRequestFails, ClientNoAnswer, ClientGiveUp, ClientUnconfirmed
  <2> QED
    BY Zenon, <2>1, <2>2 DEF ClientExit, TypeOK
<1>3. CASE ClientRetry(c) \/ ClientClose(c)
  BY Zenon, <1>3 DEF ClientRetry, ClientClose, TypeOK
<1>4. CASE ClientAnswer(c)
  <2>1. replies \in [Clients -> Seq(Answers)]
    BY Zenon DEF TypeOK, Answers
  <2>2. replies[c] \in Seq(Answers) /\ replies[c] # <<>>
    BY Zenon, <1>4, <2>1 DEF ClientAnswer
  <2>3. Head(replies[c]) \in Answers /\ Tail(replies[c]) \in Seq(Answers)
    BY Zenon, <2>2, TailIs
  <2>4. target' \in [Clients -> Children \cup {0}] /\ replies' \in [Clients -> Seq(Answers)]
    BY Zenon, <1>4, <2>1, <2>3 DEF ClientAnswer, TypeOK, Answers
  <2>5. /\ cpc' \in [Clients -> {"request", "wait", "data", "fin", "exit"}]
        /\ cexit' \in [Clients -> CExits]
    BY ZenonT(40), <1>4, <2>3 DEF ClientAnswer, ClientExit, TypeOK, Answers
  <2> QED
    BY Zenon, <1>4, <2>4, <2>5 DEF ClientAnswer, TypeOK, Answers
<1>5. CASE ClientConfirmed(c)
  BY Zenon, <1>5 DEF ClientConfirmed, ClientExit, TypeOK
<1> QED
  BY Zenon, <1>1, <1>2, <1>3, <1>4, <1>5 DEF ClientStep

\* So does a step of the listener.
LEMMA ListenerTyped ==
    ASSUME TypeOK, ListenerStep
    PROVE  TypeOK'
<1> USE DEF clientVars, childVars, fileVars
<1>1. requests # <<>> /\ requests \in Seq(Clients)
  BY Zenon DEF ListenerStep, ListenerFork, ListenerForkFails, TypeOK
<1>2. Tail(requests) \in Seq(Clients) /\ Head(requests) \in Clients
  BY Zenon, <1>1, TailIs
<1>3. CASE ListenerFork
  <2>1. forked + 1 \in Children /\ forked' \in 0 .. MaxChildren
    BY <1>3, MaxChildrenAssumption DEF ListenerFork, TypeOK, Children
  <2> QED
    BY Zenon, <1>2, <1>3, <2>1 DEF ListenerFork, TypeOK
<1>4. CASE ListenerForkFails
  BY Zenon, <1>2, <1>4 DEF ListenerForkFails, TypeOK
<1> QED
  BY Zenon, <1>3, <1>4 DEF ListenerStep

\* What a file holds once a chunk has been written to it.
LEMMA WrittenIs ==
    ASSUME NEW S, NEW f \in Seq(S \cup {NoClient}), NEW i \in Nat \ {0}, NEW c \in S
    PROVE  WriteChunk(f, i, c) \in Seq(S \cup {NoClient})
<1> DEFINE n == IF i > Len(f) THEN i ELSE Len(f)
<1>1. n \in Nat
  OBVIOUS
<1>2. WriteChunk(f, i, c) \in [1 .. n -> S \cup {NoClient}]
  BY DEF WriteChunk
<1> QED
  BY <1>1, <1>2

\* A denial and an exit, seen from the types.
LEMMA DenyTyped ==
    ASSUME TypeOK, NEW k \in Children, kclient[k] \in Clients,
           NEW cmd \in {"ACK", "EXISTS", "BADREQ"}, NEW status \in KExits,
           ChildDeny(k, cmd, status)
    PROVE  TypeOK'
<1> USE DEF clientVars, fileVars
<1>1. replies' \in [Clients -> Seq(Answers)]
  BY Zenon, ReplyIs DEF ChildDeny, TypeOK, Answers
<1>2. PICK st \in KExits : ChildExit(k, st)
  BY Zenon DEF ChildDeny, KExits, CExits
<1>3. UNCHANGED <<clientVars, requests, forked, kclient, accepted, kfile, fileVars>>
  BY Zenon DEF ChildDeny
<1> QED
  BY Zenon, <1>1, <1>2, <1>3 DEF ChildExit, TypeOK, Answers

\* What every step of a child leaves alone: the clients, the listener and the
\* other children.
LEMMA ChildLocal ==
    ASSUME TypeOK, ChildInv, NEW k \in Children, ChildStep(k)
    PROVE  /\ UNCHANGED <<clientVars, requests, forked, kclient>>
           /\ \A j \in Children \ {k} :
                 /\ kpc'[j] = kpc[j] /\ kexit'[j] = kexit[j]
                 /\ kfile'[j] = kfile[j] /\ accepted'[j] = accepted[j]
           /\ kpc[k] \notin {"unborn", "exit"} /\ kpc'[k] # "unborn"
           /\ kclient[k] \in Clients /\ Name(k) \in Names
<1> USE DEF clientVars, fileVars
<1>1. /\ UNCHANGED <<clientVars, requests, forked, kclient>>
      /\ kpc[k] \notin {"unborn", "exit"}
  BY Zenon DEF ChildStep, ChildNoSocket, ChildBadRequest, ChildExists, ChildBadSize, ChildChecked,
         ChildOpen, ChildCannotCreate, ChildAck, ChildAckFails, ChildStore, ChildStoreFails,
         ChildTimeout, ChildFin, ChildClose, ChildDeny
<1>2. kclient[k] \in Clients /\ Name(k) \in Names
  BY Zenon, <1>1, NameOfAssumption DEF ChildInv, ChildInvOf, Name
<1>3. PICK pc \in {"checked", "opened", "data", "finack", "exit"} : kpc' = [kpc EXCEPT ![k] = pc]
  <2>1. CASE ChildStore(k)
    <3>1. kpc' = [kpc EXCEPT ![k] = "data"]
      BY Zenon, <2>1 DEF ChildStore, TypeOK
    <3> QED
      BY Zenon, <3>1
  <2>2. CASE ChildOpen(k)
    BY Zenon, <2>2 DEF ChildOpen
  <2> QED
    BY Zenon, <2>1, <2>2 DEF ChildStep, ChildNoSocket, ChildBadRequest, ChildExists, ChildBadSize,
       ChildChecked, ChildCannotCreate, ChildAck, ChildAckFails, ChildStoreFails,
       ChildTimeout, ChildFin, ChildClose, ChildDeny, ChildExit
<1>4. \A j \in Children \ {k} : kexit'[j] = kexit[j]
  BY Zenon DEF ChildStep, ChildNoSocket, ChildBadRequest, ChildExists, ChildBadSize, ChildChecked,
         ChildOpen, ChildCannotCreate, ChildAck, ChildAckFails, ChildStore, ChildStoreFails,
         ChildTimeout, ChildFin, ChildClose, ChildDeny, ChildExit, TypeOK
<1>5. \A j \in Children \ {k} : kfile'[j] = kfile[j]
  BY Zenon DEF ChildStep, ChildNoSocket, ChildBadRequest, ChildExists, ChildBadSize, ChildChecked,
         ChildOpen, ChildCannotCreate, ChildAck, ChildAckFails, ChildStore, ChildStoreFails,
         ChildTimeout, ChildFin, ChildClose, ChildDeny, TypeOK
<1>6. \A j \in Children \ {k} : accepted'[j] = accepted[j]
  BY Zenon DEF ChildStep, ChildNoSocket, ChildBadRequest, ChildExists, ChildBadSize, ChildChecked,
         ChildOpen, ChildCannotCreate, ChildAck, ChildAckFails, ChildStore, ChildStoreFails,
         ChildTimeout, ChildFin, ChildClose, ChildDeny, TypeOK
<1>7. kpc'[k] # "unborn" /\ \A j \in Children \ {k} : kpc'[j] = kpc[j]
  BY Zenon, <1>3 DEF TypeOK
<1> QED
  BY Zenon, <1>1, <1>2, <1>4, <1>5, <1>6, <1>7

\* A step of a child keeps the types.
LEMMA ChildTyped ==
    ASSUME TypeOK, ChildInv, DirInv, NEW k \in Children, ChildStep(k)
    PROVE  TypeOK'
<1> USE DEF clientVars, fileVars
<1>1. kclient[k] \in Clients
  BY Zenon, ChildLocal
<1>2. Name(k) \in Names
  BY Zenon, ChildLocal
<1>3. CASE ChildBadRequest(k) \/ ChildExists(k) \/ ChildCannotCreate(k)
  BY Zenon, <1>1, <1>3, DenyTyped DEF ChildBadRequest, ChildExists, ChildCannotCreate, KExits, CExits
<1>4. CASE ChildNoSocket(k) \/ ChildBadSize(k) \/ ChildClose(k)
  <2>1. PICK st \in KExits : ChildExit(k, st)
    BY Zenon, <1>4 DEF ChildNoSocket, ChildBadSize, ChildClose, KExits, CExits
  <2>2. UNCHANGED <<clientVars, requests, replies, forked, kclient, accepted, kfile, fileVars>>
    BY Zenon, <1>4 DEF ChildNoSocket, ChildBadSize, ChildClose
  <2> QED
    BY Zenon, <2>1, <2>2 DEF ChildExit, TypeOK
<1>5. CASE ChildChecked(k) \/ ChildFin(k)
  BY Zenon, <1>5 DEF ChildChecked, ChildFin, TypeOK
<1>6. CASE ChildOpen(k)
  <2> DEFINE f == IF dir[Name(k)] = NoFile THEN k ELSE dir[Name(k)]
  <2>1. f \in Files
    BY Zenon, <1>2 DEF TypeOK, Files
  <2>2. /\ dir' = [dir EXCEPT ![Name(k)] = f]
        /\ content' = [content EXCEPT ![f] = <<>>]
        /\ kfile' = [kfile EXCEPT ![k] = f]
        /\ kpc' = [kpc EXCEPT ![k] = "opened"]
        /\ UNCHANGED <<clientVars, requests, replies, forked, kclient, accepted, kexit>>
    BY Zenon, <1>6 DEF ChildOpen
  <2> HIDE DEF f
  <2>3. content' \in [Files -> Seq(Clients \cup {NoClient})]
    BY <2>1, <2>2 DEF TypeOK
  <2>4. dir' \in [Names -> Files \cup {NoFile}] /\ kfile' \in [Children -> Files \cup {NoFile}]
    BY Zenon, <1>2, <2>1, <2>2 DEF TypeOK
  <2> QED
    BY Zenon, <2>2, <2>3, <2>4 DEF TypeOK
<1>7. CASE ChildAck(k)
  <2>1. replies' \in [Clients -> Seq(Answers)]
    BY Zenon, <1>1, <1>7, ReplyIs DEF ChildAck
  <2> QED
    BY Zenon, <1>7, <2>1 DEF ChildAck, TypeOK, Answers
<1>8. CASE ChildAckFails(k) \/ ChildTimeout(k)
  <2>1. PICK st \in KExits : ChildExit(k, st)
    BY Zenon, <1>8 DEF ChildAckFails, ChildTimeout, KExits, CExits
  <2>2. /\ Unlink(k)
        /\ UNCHANGED <<clientVars, requests, replies, forked, kclient, accepted, kfile, content>>
    BY Zenon, <1>8 DEF ChildAckFails, ChildTimeout
  <2>3. dir' \in [Names -> Files \cup {NoFile}]
    BY Zenon, <2>2 DEF Unlink, TypeOK
  <2> QED
    BY Zenon, <2>1, <2>2, <2>3 DEF ChildExit, TypeOK
<1>9. CASE ChildStore(k) \/ ChildStoreFails(k)
  <2>1. accepted' \in [Children -> 0 .. Chunks]
    <3>1. accepted' = [accepted EXCEPT ![k] = @ + 1] /\ accepted[k] < Chunks
      BY Zenon, <1>9 DEF ChildStore, ChildStoreFails, Sending
    <3>2. accepted \in [Children -> 0 .. Chunks]
      BY Zenon DEF TypeOK
    <3>3. accepted[k] + 1 \in 0 .. Chunks
      BY <3>1, <3>2, ChunksAssumption
    <3> QED
      BY Zenon, <3>1, <3>2, <3>3
  <2>2. CASE ChildStore(k)
    <3>1. kfile[k] \in Files
      BY <2>2 DEF ChildStore, ChildInv, ChildInvOf, TypeOK
    <3>2. accepted[k] + 1 \in Nat \ {0}
      BY ChunksAssumption DEF TypeOK
    <3>3. content[kfile[k]] \in Seq(Clients \cup {NoClient})
      BY Zenon, <3>1 DEF TypeOK
    <3>4. WriteChunk(content[kfile[k]], accepted[k] + 1, kclient[k]) \in Seq(Clients \cup {NoClient})
      BY Zenon, <1>1, <3>2, <3>3, WrittenIs
    <3>5. content' \in [Files -> Seq(Clients \cup {NoClient})]
      BY Zenon, <2>2, <3>1, <3>4 DEF ChildStore, TypeOK
    <3> QED
      BY Zenon, <2>1, <2>2, <3>5 DEF ChildStore, TypeOK
  <2>3. CASE ChildStoreFails(k)
    <3>1. ChildExit(k, "RUNTIME_ERROR") /\ "RUNTIME_ERROR" \in KExits
      BY Zenon, <2>3 DEF ChildStoreFails, KExits, CExits
    <3> QED
      BY <2>1, <2>3, <3>1 DEF ChildStoreFails, ChildExit, TypeOK
  <2> QED
    BY Zenon, <1>9, <2>2, <2>3
<1> QED
  BY Zenon, <1>3, <1>4, <1>5, <1>6, <1>7, <1>8, <1>9 DEF ChildStep

-----------------------------------------------------------------------------
(***************************************************************************)
(* Clients and children, each by itself.                                   *)
(***************************************************************************)

\* What every step of a client leaves alone: the children, the files and the
\* other clients.
LEMMA ClientLocal ==
    ASSUME TypeOK, NEW c \in Clients, ClientStep(c)
    PROVE  /\ UNCHANGED <<childVars, fileVars>>
           /\ \A d \in Clients \ {c} :
                 /\ cpc'[d] = cpc[d] /\ cexit'[d] = cexit[d] /\ target'[d] = target[d]
                 /\ confirmed'[d] = confirmed[d] /\ replies'[d] = replies[d]
<1>1. UNCHANGED <<childVars, fileVars>>
  BY Zenon DEF ClientStep, ClientRequest, ClientRequestFails, ClientRetry, ClientNoAnswer,
         ClientAnswer, ClientGiveUp, ClientClose, ClientConfirmed, ClientUnconfirmed
<1>2. ASSUME NEW d \in Clients \ {c}
      PROVE  cpc'[d] = cpc[d] /\ cexit'[d] = cexit[d]
  <2>1. CASE ClientAnswer(c)
    <3>1. replies[c] \in Seq(Answers) /\ replies[c] # <<>>
      BY Zenon, <2>1 DEF TypeOK, Answers, ClientAnswer
    <3>2. Head(replies[c]) \in Answers
      BY Zenon, <3>1, TailIs
    <3>3. Head(replies[c]).cmd \in {"ACK", "EXISTS", "BADREQ"}
      BY Zenon, <3>2 DEF Answers
    <3> QED
      BY Zenon, <2>1, <3>3 DEF ClientAnswer, ClientExit, TypeOK
  <2> QED
    BY Zenon, <2>1 DEF ClientStep, ClientRequest, ClientRequestFails, ClientRetry, ClientNoAnswer,
       ClientGiveUp, ClientClose, ClientConfirmed, ClientUnconfirmed, ClientExit, TypeOK
<1>3. \A d \in Clients \ {c} :
         target'[d] = target[d] /\ confirmed'[d] = confirmed[d] /\ replies'[d] = replies[d]
  BY Zenon DEF ClientStep, ClientRequest, ClientRequestFails, ClientRetry, ClientNoAnswer,
         ClientAnswer, ClientGiveUp, ClientClose, ClientConfirmed, ClientUnconfirmed, TypeOK
<1> QED
  BY Zenon, <1>1, <1>2, <1>3

\* The first answer a client reads.
LEMMA AnswerIs ==
    ASSUME TypeOK, NEW c \in Clients, ClientAnswer(c)
    PROVE  /\ replies[c] \in Seq(Answers) /\ Len(replies[c]) \in Nat /\ Len(replies[c]) > 0
           /\ Head(replies[c]) = replies[c][1]
           /\ replies[c][1].cmd \in {"ACK", "EXISTS", "BADREQ"}
           /\ replies[c][1].from \in Children /\ replies[c][1].from # 0
           /\ target'[c] = replies[c][1].from
           /\ \/ cpc'[c] = "data" /\ cexit'[c] = cexit[c]
              \/ cpc'[c] = "exit" /\ cexit'[c] = "FILE_EXISTS" /\ replies[c][1].cmd # "ACK"
              \/ cpc'[c] = "exit" /\ cexit'[c] = "BAD_REQUEST"
<1>1. replies[c] \in Seq(Answers) /\ replies[c] # <<>>
  BY Zenon DEF ClientAnswer, TypeOK, Answers
<1>2. /\ Head(replies[c]) = replies[c][1] /\ Head(replies[c]) \in Answers
      /\ Len(replies[c]) \in Nat /\ Len(replies[c]) > 0
  BY Zenon, <1>1, TailIs
<1>3. /\ replies[c][1].cmd \in {"ACK", "EXISTS", "BADREQ"}
      /\ replies[c][1].from \in Children /\ replies[c][1].from # 0
  BY <1>2 DEF Answers, Children
<1>4. target'[c] = replies[c][1].from
  BY Zenon, <1>2 DEF ClientAnswer, TypeOK
<1>5. \/ cpc'[c] = "data" /\ cexit'[c] = cexit[c]
      \/ cpc'[c] = "exit" /\ cexit'[c] = "FILE_EXISTS" /\ replies[c][1].cmd # "ACK"
      \/ cpc'[c] = "exit" /\ cexit'[c] = "BAD_REQUEST"
  BY Zenon, <1>2, <1>3 DEF ClientAnswer, ClientExit, TypeOK
<1> QED
  BY Zenon, <1>1, <1>2, <1>3, <1>4, <1>5

\* A step of a client keeps what is known of each client ...
LEMMA ClientKeepsClientInv ==
    ASSUME TypeOK, ClientInv, NEW c \in Clients, ClientStep(c)
    PROVE  ClientInv'
<1>1. accepted' = accepted
  BY Zenon, ClientLocal DEF childVars
<1>2. ASSUME NEW d \in Clients \ {c}
      PROVE  ClientInvOf(d)'
  BY <1>1, ClientLocal DEF ClientInv, ClientInvOf
<1>3. ClientInvOf(c)'
  <2>1. ClientInvOf(c)
    BY Zenon DEF ClientInv
  <2>2. CASE ClientRequest(c) \/ ClientRetry(c) \/ ClientClose(c)
    BY Zenon, <1>1, <2>1, <2>2 DEF ClientInvOf, ClientRequest, ClientRetry, ClientClose, TypeOK
  <2>3. CASE ClientRequestFails(c) \/ ClientNoAnswer(c) \/ ClientGiveUp(c)
    BY Zenon, <1>1, <2>1, <2>3
    DEF ClientInvOf, ClientRequestFails, ClientNoAnswer, ClientGiveUp, ClientExit, TypeOK
  <2>4. CASE ClientAnswer(c)
    <3>1. cpc[c] = "wait"
      BY Zenon, <2>4 DEF ClientAnswer
    <3>2. target'[c] # 0
      BY Zenon, <2>4, AnswerIs
    <3>3. \/ cpc'[c] = "data" /\ cexit'[c] = cexit[c]
          \/ cpc'[c] = "exit" /\ cexit'[c] \in {"FILE_EXISTS", "BAD_REQUEST"}
      BY Zenon, <2>4, AnswerIs
    <3> QED
      BY Zenon, <2>1, <3>1, <3>2, <3>3 DEF ClientInvOf
  <2>5. CASE ClientConfirmed(c) \/ ClientUnconfirmed(c)
    BY Zenon, <1>1, <2>1, <2>5 DEF ClientInvOf, ClientConfirmed, ClientUnconfirmed, ClientExit, TypeOK
  <2> QED
    BY Zenon, <2>2, <2>3, <2>4, <2>5 DEF ClientStep
<1> QED
  BY Zenon, <1>2, <1>3 DEF ClientInv

\* ... and of each child, because a client takes a target once only.
LEMMA ClientKeepsChildInv ==
    ASSUME TypeOK, ClientInv, ChildInv, NEW c \in Clients, ClientStep(c)
    PROVE  ChildInv'
<1>1. /\ forked' = forked /\ kpc' = kpc /\ kclient' = kclient
      /\ accepted' = accepted /\ kfile' = kfile /\ kexit' = kexit
  BY Zenon, ClientLocal DEF childVars
<1>2. target'[c] = target[c] \/ target[c] = 0
  BY Zenon DEF ClientInv, ClientInvOf, ClientStep, ClientRequest, ClientRequestFails, ClientRetry,
         ClientNoAnswer, ClientAnswer, ClientGiveUp, ClientClose, ClientConfirmed, ClientUnconfirmed
<1>3. ASSUME NEW k \in Children
      PROVE  ChildInvOf(k)'
  <2>1. ChildInvOf(k) /\ k # 0
    BY DEF ChildInv, Children
  <2>2. kpc[k] # "unborn" \/ (kpc[k] # "finack" /\ kexit[k] # "OK")
    BY Zenon, <2>1 DEF ChildInvOf
  <2>3. kpc[k] = "finack" \/ kexit[k] = "OK" => target'[kclient[k]] = k
    <3>1. CASE kclient[k] = c
      BY Zenon, <1>2, <2>1, <3>1 DEF ChildInvOf
    <3>2. CASE kclient[k] # c
      BY Zenon, <2>1, <2>2, <3>2, ClientLocal DEF ChildInvOf
    <3> QED
      BY Zenon, <3>1, <3>2
  <2> QED
    BY Zenon, <1>1, <2>1, <2>3 DEF ChildInvOf, Name
<1> QED
  BY Zenon, <1>3 DEF ChildInv

\* A new child is one that was not born.
LEMMA ListenerKeepsClientInv ==
    ASSUME ClientInv, ListenerStep
    PROVE  ClientInv'
BY DEF ClientInv, ClientInvOf, ListenerStep, ListenerFork, ListenerForkFails, clientVars, childVars

LEMMA ListenerKeepsChildInv ==
    ASSUME TypeOK, ChildInv, ListenerStep
    PROVE  ChildInv'
<1> USE DEF clientVars, childVars
<1>1. CASE ListenerForkFails
  BY Zenon, <1>1 DEF ListenerForkFails, ChildInv, ChildInvOf, Name
<1>2. CASE ListenerFork
  <2>1. Head(requests) \in Clients
    BY Zenon, <1>2, TailIs DEF ListenerFork, TypeOK
  <2>2. PICK n \in Children : n = forked + 1
    BY <1>2, MaxChildrenAssumption DEF ListenerFork, TypeOK, Children
  <2>3. /\ kpc' = [kpc EXCEPT ![n] = "start"]
        /\ kclient' = [kclient EXCEPT ![n] = Head(requests)]
        /\ forked' = n /\ target' = target
        /\ accepted' = accepted /\ kfile' = kfile /\ kexit' = kexit
    BY Zenon, <1>2, <2>2 DEF ListenerFork
  <2>4. forked \in Nat
    BY MaxChildrenAssumption DEF TypeOK
  <2>5. ASSUME NEW k \in Children \ {n}
        PROVE  ChildInvOf(k)'
    <3>1. k > forked' => k > forked
      BY <2>2, <2>3, <2>4 DEF Children
    <3>2. kpc'[k] = kpc[k] /\ kclient'[k] = kclient[k]
      BY Zenon, <2>3 DEF TypeOK
    <3> QED
      BY <2>3, <3>1, <3>2 DEF ChildInv, ChildInvOf, Name
  <2>6. ChildInvOf(n)'
    <3>1. n > forked /\ ~(n > forked')
      BY <2>2, <2>3, <2>4 DEF Children
    <3>2. ChildInvOf(n) /\ kpc[n] = "unborn"
      BY Zenon, <3>1 DEF ChildInv, ChildInvOf
    <3>3. kpc'[n] = "start" /\ kclient'[n] = Head(requests)
      BY Zenon, <2>3 DEF TypeOK
    <3> QED
      BY Zenon, <2>1, <2>3, <3>1, <3>2, <3>3 DEF ChildInvOf
  <2> QED
    BY Zenon, <2>5, <2>6 DEF ChildInv
<1> QED
  BY Zenon, <1>1, <1>2 DEF ListenerStep

\* A child takes no chunk when it has accepted them all, so a client that has
\* closed stays right about its target.
LEMMA ChildKeepsClientInv ==
    ASSUME TypeOK, ChildInv, ClientInv, NEW k \in Children, ChildStep(k)
    PROVE  ClientInv'
<1>1. cpc' = cpc /\ target' = target /\ cexit' = cexit
  BY Zenon, ChildLocal DEF clientVars
<1>2. accepted[k] = Chunks => accepted'[k] = Chunks
  BY ChunksAssumption DEF ChildStep, ChildNoSocket, ChildBadRequest, ChildExists, ChildBadSize, ChildChecked,
         ChildOpen, ChildCannotCreate, ChildAck, ChildAckFails, ChildStore, ChildStoreFails,
         ChildTimeout, ChildFin, ChildClose, ChildDeny, Sending
<1>3. \A j \in Children : accepted[j] = Chunks => accepted'[j] = Chunks
  BY Zenon, <1>2, ChildLocal
<1>4. target \in [Clients -> Children \cup {0}]
  BY Zenon DEF TypeOK
<1> QED
  BY Zenon, <1>1, <1>3, <1>4 DEF ClientInv, ClientInvOf

LEMMA ChildKeepsChildInv ==
    ASSUME TypeOK, ChildInv, ClientInv, DirInv, NEW k \in Children, ChildStep(k)
    PROVE  ChildInv'
<1> USE DEF clientVars, fileVars
<1>1. /\ forked' = forked /\ kclient' = kclient /\ target' = target
      /\ kclient[k] \in Clients /\ Name(k) \in Names
  BY Zenon, ChildLocal
<1>2. ASSUME NEW j \in Children \ {k}
      PROVE  ChildInvOf(j)'
  <2>1. ChildInvOf(j)
    BY Zenon DEF ChildInv
  <2>2. kpc'[j] = kpc[j] /\ kexit'[j] = kexit[j] /\ kfile'[j] = kfile[j] /\ accepted'[j] = accepted[j]
    BY Zenon, ChildLocal
  <2> QED
    BY Zenon, <1>1, <2>1, <2>2 DEF ChildInvOf, Name
<1>3. ChildInvOf(k)'
  <2>1. ChildInvOf(k)
    BY Zenon DEF ChildInv
  <2>2. CASE ChildNoSocket(k) \/ ChildBadRequest(k) \/ ChildExists(k) \/ ChildBadSize(k)
              \/ ChildCannotCreate(k)
    <3>1. /\ kpc[k] \in {"start", "checked"} /\ kfile' = kfile /\ accepted' = accepted
          /\ \E st \in {"RUNTIME_ERROR", "BAD_REQUEST", "FILE_EXISTS", "CANNOT_CREATE"} : ChildExit(k, st)
      BY Zenon, <2>2 DEF ChildNoSocket, ChildBadRequest, ChildExists, ChildBadSize, ChildCannotCreate, ChildDeny
    <3>2. kpc'[k] = "exit" /\ kexit'[k] \notin {"none", "OK"}
      BY Zenon, <3>1 DEF ChildExit, TypeOK
    <3> QED
      BY Zenon, <1>1, <2>1, <3>1, <3>2 DEF ChildInvOf
  <2>3. CASE ChildChecked(k)
    <3>1. Name(k) \notin OldFiles
      BY <2>3, MaxChildrenAssumption DEF ChildChecked, DirInv, OldFile, NoFile
    <3> QED
      BY Zenon, <1>1, <2>1, <2>3, <3>1 DEF ChildInvOf, ChildChecked, Name, TypeOK
  <2>4. CASE ChildOpen(k)
    <3>1. kfile'[k] # NoFile
      BY <2>4 DEF ChildOpen, TypeOK, NoFile, Children
    <3> QED
      BY Zenon, <1>1, <2>1, <2>4, <3>1 DEF ChildInvOf, ChildOpen, Name, TypeOK
  <2>5. CASE ChildAck(k)
    BY Zenon, <1>1, <2>1, <2>5 DEF ChildInvOf, ChildAck, Name, TypeOK
  <2>6. CASE ChildAckFails(k) \/ ChildTimeout(k)
    BY <1>1, <2>1, <2>6 DEF ChildInvOf, ChildAckFails, ChildTimeout, ChildExit, Name, TypeOK
  <2>7. CASE ChildStore(k)
    BY Zenon, <1>1, <2>1, <2>7 DEF ChildInvOf, ChildStore, Name, TypeOK
  <2>8. CASE ChildStoreFails(k)
    BY Zenon, <1>1, <2>1, <2>8 DEF ChildInvOf, ChildStoreFails, ChildExit, Name, TypeOK
  <2>9. CASE ChildFin(k)
    <3>1. accepted[k] = Chunks /\ target[kclient[k]] = k
      BY Zenon, <1>1, <2>9 DEF ChildFin, ClientInv, ClientInvOf
    <3> QED
      BY Zenon, <1>1, <2>1, <2>9, <3>1 DEF ChildInvOf, ChildFin, Name, TypeOK
  <2>10. CASE ChildClose(k)
    BY Zenon, <1>1, <2>1, <2>10 DEF ChildInvOf, ChildClose, ChildExit, Name, TypeOK
  <2> QED
    BY Zenon, <2>2, <2>3, <2>4, <2>5, <2>6, <2>7, <2>8, <2>9, <2>10 DEF ChildStep
<1> QED
  BY Zenon, <1>2, <1>3 DEF ChildInv

-----------------------------------------------------------------------------
(***************************************************************************)
(* The directory and the files.                                            *)
(***************************************************************************)

\* The steps of a child that touch neither the directory nor a file.
Quiet(k) ==
    /\ UNCHANGED <<kfile, accepted, dir, content>>
    /\ kexit'[k] \in {"none", "OK", "RUNTIME_ERROR"} \/ kfile[k] = NoFile

\* A child opens its file, writes to it, deletes it, fails, or is quiet.
LEMMA ChildFileSteps ==
    ASSUME TypeOK, ChildInv, NEW k \in Children, ChildStep(k)
    PROVE  \/ ChildOpen(k) \/ ChildAckFails(k) \/ ChildTimeout(k)
           \/ ChildStore(k) \/ ChildStoreFails(k) \/ Quiet(k)
<1> USE DEF fileVars
<1>1. ChildInvOf(k)
  BY Zenon DEF ChildInv
<1>2. CASE ChildNoSocket(k) \/ ChildBadRequest(k) \/ ChildExists(k) \/ ChildBadSize(k)
           \/ ChildCannotCreate(k)
  BY Zenon, <1>1, <1>2 DEF Quiet, ChildInvOf, ChildNoSocket, ChildBadRequest, ChildExists, ChildBadSize,
                    ChildCannotCreate, ChildDeny
<1>3. CASE ChildChecked(k) \/ ChildAck(k) \/ ChildFin(k)
  BY Zenon, <1>1, <1>3 DEF Quiet, ChildInvOf, ChildChecked, ChildAck, ChildFin
<1>4. CASE ChildClose(k)
  BY Zenon, <1>4 DEF Quiet, ChildClose, ChildExit, TypeOK
<1> QED
  BY Zenon, <1>2, <1>3, <1>4 DEF ChildStep

\* The file a child opens: its own, or the one that its name stands for.
LEMMA OpenedIs ==
    ASSUME TypeOK, ChildInv, DirInv, NEW k \in Children, ChildOpen(k)
    PROVE  \E f \in Children :
              /\ dir' = [dir EXCEPT ![Name(k)] = f]
              /\ content' = [content EXCEPT ![f] = <<>>]
              /\ kfile' = [kfile EXCEPT ![k] = f]
              /\ kclient[k] \in Clients /\ Name(k) \in Names /\ Name(k) \notin OldFiles
              /\ kfile[k] = NoFile /\ accepted[k] = 0 /\ kexit[k] = "none"
              /\ UNCHANGED <<kclient, accepted, kexit>>
              /\ \/ f = k /\ dir[Name(k)] = NoFile
                 \/ f # k /\ f = dir[Name(k)] /\ kfile[f] = f
<1> DEFINE f == IF dir[Name(k)] = NoFile THEN k ELSE dir[Name(k)]
<1>1. /\ kclient[k] \in Clients /\ Name(k) \notin OldFiles
      /\ kfile[k] = NoFile /\ accepted[k] = 0 /\ kexit[k] = "none"
  BY Zenon DEF ChildOpen, ChildInv, ChildInvOf
<1>2. Name(k) \in Names
  BY Zenon, <1>1, NameOfAssumption DEF Name
<1>3. dir[Name(k)] = NoFile \/ dir[Name(k)] \in Children
  BY <1>1, <1>2 DEF TypeOK, Files, DirInv
<1>4. dir[Name(k)] # NoFile => kfile[dir[Name(k)]] = dir[Name(k)] /\ dir[Name(k)] # k
  BY Zenon, <1>1, <1>2, <1>3 DEF DirInv
<1>5. /\ dir' = [dir EXCEPT ![Name(k)] = f]
      /\ content' = [content EXCEPT ![f] = <<>>]
      /\ kfile' = [kfile EXCEPT ![k] = f]
      /\ UNCHANGED <<kclient, accepted, kexit>>
  BY Zenon DEF ChildOpen
<1> QED
  BY Zenon, <1>1, <1>2, <1>3, <1>4, <1>5

LEMMA OpenKeepsDirInv ==
    ASSUME TypeOK, ChildInv, DirInv, NEW k \in Children, ChildOpen(k)
    PROVE  DirInv'
<1>1. PICK f \in Children :
              /\ dir' = [dir EXCEPT ![Name(k)] = f]
              /\ content' = [content EXCEPT ![f] = <<>>]
              /\ kfile' = [kfile EXCEPT ![k] = f]
              /\ kclient[k] \in Clients /\ Name(k) \in Names /\ Name(k) \notin OldFiles
              /\ kfile[k] = NoFile /\ accepted[k] = 0 /\ kexit[k] = "none"
              /\ UNCHANGED <<kclient, accepted, kexit>>
              /\ \/ f = k /\ dir[Name(k)] = NoFile
                 \/ f # k /\ f = dir[Name(k)] /\ kfile[f] = f
  BY Zenon, OpenedIs
<1>2. \A j \in Children : j # NoFile /\ j # OldFile
  BY MaxChildrenAssumption DEF Children, NoFile, OldFile
<1>3. /\ \A n \in Names : dir'[n] = IF n = Name(k) THEN f ELSE dir[n]
      /\ \A j \in Children : kfile'[j] = IF j = k THEN f ELSE kfile[j]
  BY Zenon, <1>1 DEF TypeOK
<1>4. content'[OldFile] = <<NoClient>>
  BY Zenon, <1>1, <1>2 DEF DirInv, TypeOK, Files
<1>5. /\ \A n \in OldFiles : dir'[n] = OldFile
      /\ \A n \in Names \ OldFiles : dir'[n] # OldFile
      /\ \A j \in Children : kfile'[j] # OldFile
  BY <1>1, <1>2, <1>3, OldFilesAssumption DEF DirInv
<1>6. \A n \in Names : dir'[n] \in Children => kfile'[dir'[n]] = dir'[n]
  BY <1>1, <1>2, <1>3 DEF DirInv
<1>7. \A j \in Children : kfile'[j] \in Children => kfile'[kfile'[j]] = kfile'[j]
  BY <1>1, <1>2, <1>3 DEF DirInv
<1>8. ASSUME NEW j \in Children, NEW n \in Names, kfile'[j] # NoFile, dir'[n] = kfile'[j]
      PROVE  Name(j)' = n /\ kexit'[j] \in {"none", "OK", "RUNTIME_ERROR"}
  <2>1. Name(j)' = Name(j) /\ kexit' = kexit
    BY Zenon, <1>1 DEF Name
  <2>2. CASE f = k
    BY <1>1, <1>2, <1>3, <1>8, <2>1, <2>2 DEF DirInv
  <2>3. CASE f # k
    BY <1>1, <1>2, <1>3, <1>8, <2>1, <2>3 DEF DirInv
  <2> QED
    BY Zenon, <2>2, <2>3
<1> QED
  BY Zenon, <1>4, <1>5, <1>6, <1>7, <1>8 DEF DirInv

\* Deleting the file leaves no name that stands for it.
LEMMA UnlinkKeepsDirInv ==
    ASSUME TypeOK, ChildInv, DirInv, NEW k \in Children, ChildAckFails(k) \/ ChildTimeout(k)
    PROVE  DirInv'
<1>1. /\ dir' = [dir EXCEPT ![Name(k)] = NoFile]
      /\ kfile' = kfile /\ content' = content /\ kclient' = kclient
      /\ \A j \in Children \ {k} : kexit'[j] = kexit[j]
  BY Zenon DEF ChildAckFails, ChildTimeout, Unlink, ChildExit, TypeOK
<1>2. Name(k) \notin OldFiles /\ kfile[k] # NoFile
  BY Zenon DEF ChildAckFails, ChildTimeout, ChildInv, ChildInvOf
<1>3. \A n \in Names : dir'[n] = IF n = Name(k) THEN NoFile ELSE dir[n]
  BY Zenon, <1>1 DEF TypeOK
<1>4. NoFile # OldFile /\ NoFile \notin Children
  BY MaxChildrenAssumption DEF NoFile, OldFile, Children
<1>5. ASSUME NEW j \in Children, NEW n \in Names, kfile'[j] # NoFile, dir'[n] = kfile'[j]
      PROVE  Name(j)' = n /\ kexit'[j] \in {"none", "OK", "RUNTIME_ERROR"}
  <2>1. Name(j)' = Name(j)
    BY Zenon, <1>1 DEF Name
  <2>2. n # Name(k) /\ dir[n] = kfile[j]
    BY Zenon, <1>1, <1>3, <1>5
  <2>3. j # k
    BY <1>2, <2>2 DEF DirInv
  <2> QED
    BY Zenon, <1>1, <1>5, <2>1, <2>2, <2>3 DEF DirInv
<1> QED
  BY <1>1, <1>2, <1>3, <1>4, <1>5, OldFilesAssumption DEF DirInv

LEMMA ChildKeepsDirInv ==
    ASSUME TypeOK, ChildInv, DirInv, NEW k \in Children, ChildStep(k)
    PROVE  DirInv'
<1>1. kclient' = kclient /\ \A j \in Children \ {k} : kexit'[j] = kexit[j]
  BY Zenon, ChildLocal
<1>2. CASE ChildStore(k)
  <2>1. kfile[k] # OldFile /\ content' = [content EXCEPT ![kfile[k]] =
             WriteChunk(content[kfile[k]], accepted[k] + 1, kclient[k])]
    BY Zenon, <1>2 DEF DirInv, ChildStore
  <2>2. content'[OldFile] = content[OldFile]
    BY Zenon, <2>1 DEF TypeOK, Files
  <2> QED
    BY Zenon, <1>2, <2>2 DEF ChildStore, DirInv, Name
<1>3. CASE ChildStoreFails(k)
  BY <1>1, <1>3 DEF ChildStoreFails, ChildExit, fileVars, DirInv, Name, TypeOK
<1>4. CASE Quiet(k)
  BY Zenon, <1>1, <1>4 DEF Quiet, DirInv, Name
<1> QED
  BY Zenon, <1>2, <1>3, <1>4, OpenKeepsDirInv, UnlinkKeepsDirInv, ChildFileSteps

\* A chunk written at the end of a client's chunks.
LEMMA WrittenNext ==
    ASSUME NEW a \in Nat, NEW c
    PROVE  WriteChunk(ChunksOf(a, c), a + 1, c) = ChunksOf(a + 1, c)
<1> DEFINE f == ChunksOf(a, c)
<1> USE DEF ChunksOf
<1>1. f \in Seq({c}) /\ Len(f) = a
  OBVIOUS
<1>2. WriteChunk(f, a + 1, c) = [j \in 1 .. a + 1 |-> IF j = a + 1 THEN c ELSE f[j]]
  BY <1>1 DEF WriteChunk
<1>3. \A j \in 1 .. a + 1 : (IF j = a + 1 THEN c ELSE f[j]) = c
  OBVIOUS
<1> QED
  BY Zenon, <1>2, <1>3

LEMMA ChildKeepsContentInv ==
    ASSUME TypeOK, ChildInv, DirInv, ContentInv, NEW k \in Children, ChildStep(k)
    PROVE  ContentInv'
<1>1. /\ kclient' = kclient
      /\ \A j \in Children \ {k} :
            kexit'[j] = kexit[j] /\ kfile'[j] = kfile[j] /\ accepted'[j] = accepted[j]
  BY Zenon, ChildLocal
<1>2. kexit[k] = "none"
  BY Zenon, ChildLocal DEF ChildInv, ChildInvOf
<1> SUFFICES ASSUME NEW j \in Children, Sole(j)', kexit'[j] # "RUNTIME_ERROR"
             PROVE  content'[kfile'[j]] = ChunksOf(accepted'[j], kclient[j])
  BY Zenon, <1>1 DEF ContentInv
<1>3. CASE ChildOpen(k)
  <2>1. PICK f \in Children :
              /\ content' = [content EXCEPT ![f] = <<>>]
              /\ kfile' = [kfile EXCEPT ![k] = f]
              /\ kfile[k] = NoFile /\ accepted[k] = 0 /\ accepted' = accepted
    BY Zenon, <1>3, OpenedIs
  <2>2. kfile'[k] = f /\ f \in Files
    BY Zenon, <2>1 DEF TypeOK, Files
  <2>3. CASE j = k
    <3>1. content'[kfile'[k]] = <<>>
      BY Zenon, <2>1, <2>2 DEF TypeOK
    <3>2. ChunksOf(accepted'[k], kclient[k]) = <<>>
      BY <2>1 DEF ChunksOf
    <3> QED
      BY Zenon, <2>3, <3>1, <3>2
  <2>4. CASE j # k
    <3>1. kfile[j] # f /\ Sole(j)
      BY Zenon, <1>1, <2>1, <2>2, <2>4 DEF Sole
    <3>2. content'[kfile[j]] = content[kfile[j]]
      BY Zenon, <2>1, <3>1 DEF TypeOK, Sole
    <3> QED
      BY Zenon, <1>1, <2>1, <2>4, <3>1, <3>2 DEF ContentInv
  <2> QED
    BY Zenon, <2>3, <2>4
<1>4. CASE kfile' = kfile
  <2>1. Sole(j)
    BY Zenon, <1>4 DEF Sole
  <2>2. content[kfile[j]] = ChunksOf(accepted[j], kclient[j])
    BY Zenon, <1>1, <1>2, <2>1 DEF ContentInv
  <2>3. CASE ChildStore(k)
    <3>1. /\ kfile[k] \in Files /\ kfile[k] # NoFile
          /\ accepted'[k] = accepted[k] + 1
          /\ content' = [content EXCEPT ![kfile[k]] =
                            WriteChunk(content[kfile[k]], accepted[k] + 1, kclient[k])]
      BY <2>3 DEF ChildStore, ChildInv, ChildInvOf, TypeOK
    <3>2. CASE j = k
      <4>1. accepted[k] \in Nat
        BY ChunksAssumption DEF TypeOK
      <4>2. WriteChunk(content[kfile[k]], accepted[k] + 1, kclient[k])
              = ChunksOf(accepted[k] + 1, kclient[k])
        BY Zenon, <2>2, <3>2, <4>1, WrittenNext
      <4> QED
        BY Zenon, <1>4, <3>1, <3>2, <4>2 DEF TypeOK
    <3>3. CASE j # k
      <4>1. kfile[j] # kfile[k]
        BY Zenon, <2>1, <3>3 DEF Sole
      <4> QED
        BY Zenon, <1>1, <1>4, <2>1, <2>2, <3>1, <3>3, <4>1 DEF TypeOK, Sole
    <3> QED
      BY Zenon, <3>2, <3>3
  <2>4. CASE ChildStoreFails(k)
    <3>1. kexit'[k] = "RUNTIME_ERROR" /\ content' = content
      BY Zenon, <2>4 DEF ChildStoreFails, ChildExit, fileVars, TypeOK
    <3> QED
      BY Zenon, <1>1, <1>4, <2>2, <3>1
  <2>5. CASE ChildAckFails(k) \/ ChildTimeout(k) \/ Quiet(k)
    BY Zenon, <1>4, <2>2, <2>5 DEF ChildAckFails, ChildTimeout, Quiet
  <2> QED
    BY Zenon, <1>3, <2>3, <2>4, <2>5, ChildFileSteps
<1> QED
  BY Zenon, <1>3, <1>4, ChildFileSteps DEF ChildAckFails, ChildTimeout, ChildStore, ChildStoreFails, Quiet

\* A child that is born has no file.
LEMMA ListenerKeepsFiles ==
    ASSUME TypeOK, ChildInv, DirInv, ContentInv, ListenerStep
    PROVE  DirInv' /\ ContentInv'
<1>1. /\ accepted' = accepted /\ kfile' = kfile /\ kexit' = kexit
      /\ dir' = dir /\ content' = content
  BY Zenon DEF ListenerStep, ListenerFork, ListenerForkFails, childVars, fileVars
<1>2. \A k \in Children : kfile[k] # NoFile => kclient'[k] = kclient[k]
  <2>1. CASE ListenerFork
    <3>1. forked + 1 \in Children => kfile[forked + 1] = NoFile
      BY MaxChildrenAssumption DEF ChildInv, ChildInvOf, TypeOK
    <3> QED
      BY Zenon, <2>1, <3>1 DEF ListenerFork, TypeOK
  <2>2. CASE ListenerForkFails
    BY Zenon, <2>2 DEF ListenerForkFails, childVars
  <2> QED
    BY Zenon, <2>1, <2>2 DEF ListenerStep
<1>3. DirInv'
  BY <1>1, <1>2 DEF DirInv, Name
<1>4. ContentInv'
  BY Zenon, <1>1, <1>2 DEF ContentInv, Sole
<1> QED
  BY Zenon, <1>3, <1>4

-----------------------------------------------------------------------------
(***************************************************************************)
(* The inductive invariant holds.                                          *)
(***************************************************************************)

LEMMA IInvInit == Init => IInv
<1> HAVE Init
<1>1. TypeOK
  BY Zenon, TypeInit
<1>2. ChildInv
  BY Zenon, MaxChildrenAssumption DEF Init, ChildInv, ChildInvOf
<1>3. ClientInv
  BY Zenon DEF Init, ClientInv, ClientInvOf
<1>4. \A j \in Children : j # OldFile
  BY MaxChildrenAssumption DEF Children, OldFile
<1>5. NoFile # OldFile /\ NoFile \notin Children
  BY MaxChildrenAssumption DEF NoFile, OldFile, Children
<1>6. DirInv
  BY Zenon, <1>4, <1>5, OldFilesAssumption DEF Init, DirInv, Files
<1>7. ContentInv
  BY Zenon DEF Init, ContentInv, Sole
<1> QED
  BY Zenon, <1>1, <1>2, <1>3, <1>6, <1>7 DEF IInv

LEMMA IInvStep == IInv /\ [Next]_vars => IInv'
<1> SUFFICES ASSUME TypeOK, ChildInv, ClientInv, DirInv, ContentInv, [Next]_vars
             PROVE  IInv'
  BY Zenon DEF IInv
<1>1. CASE UNCHANGED vars
  <2> USE <1>1 DEF vars, clientVars, childVars, fileVars
  <2>1. TypeOK'
    BY Zenon DEF TypeOK
  <2>2. ChildInv' /\ ClientInv'
    BY Zenon DEF ChildInv, ChildInvOf, ClientInv, ClientInvOf, Name
  <2>3. DirInv' /\ ContentInv'
    BY Zenon DEF DirInv, ContentInv, Sole, Name
  <2> QED
    BY Zenon, <2>1, <2>2, <2>3 DEF IInv
<1>2. ASSUME NEW c \in Clients, ClientStep(c) PROVE IInv'
  <2>1. DirInv' /\ ContentInv'
    BY <1>2, ClientLocal DEF childVars, fileVars, DirInv, ContentInv, Sole, Name
  <2> QED
    BY Zenon, <1>2, <2>1, ClientTyped, ClientKeepsClientInv, ClientKeepsChildInv DEF IInv
<1>3. CASE ListenerStep
  BY Zenon, <1>3, ListenerTyped, ListenerKeepsClientInv, ListenerKeepsChildInv, ListenerKeepsFiles DEF IInv
<1>4. ASSUME NEW k \in Children, ChildStep(k) PROVE IInv'
  BY Zenon, <1>4, ChildTyped, ChildKeepsClientInv, ChildKeepsChildInv, ChildKeepsDirInv, ChildKeepsContentInv
  DEF IInv
<1> QED
  BY Zenon, <1>1, <1>2, <1>3, <1>4 DEF Next, Idle

\* The invariant that all the results about Requests rest on: the places of
\* clients, listener and children agree with each other and with the directory.
THEOREM IInvHolds == Spec => []IInv
  BY IInvInit, IInvStep, PTL DEF Spec

\* Every variable has its type: no child accepts more chunks than the file has,
\* no more children are forked than there can be, and every answer is one that
\* the client's switch (ftpclient.c:61-79) knows.
THEOREM TypeCorrect == Spec => []TypeOK
<1>1. IInv => TypeOK
  BY Zenon DEF IInv
<1> QED
  BY <1>1, IInvHolds, PTL

\* Whatever requests arrive, however often they are repeated and however the
\* children are interleaved, a file that was there is neither deleted nor
\* changed (ftpserver.c:83-145).
THEOREM OldFilesKeptHolds == Spec => []OldFilesKept
<1>1. IInv => OldFilesKept
  BY Zenon DEF IInv, DirInv, OldFilesKept
<1> QED
  BY <1>1, IInvHolds, PTL

\* Two children that have checked or opened a file serve the same client if
\* their files have the same name.
LEMMA SameName ==
    ASSUME NamesDiffer, ChildInv, NEW j \in Children, NEW k \in Children,
           kpc[j] = "checked" \/ kfile[j] # NoFile, kpc[k] = "checked" \/ kfile[k] # NoFile,
           Name(j) = Name(k)
    PROVE  /\ kclient[j] \in Clients /\ kclient[j] = kclient[k]
           /\ kpc[j] # "unborn" /\ kpc[k] # "unborn"
<1>1. kpc[j] # "unborn" /\ kpc[k] # "unborn"
  BY Zenon DEF ChildInv, ChildInvOf
<1>2. kclient[j] \in Clients /\ kclient[k] \in Clients
  BY Zenon, <1>1 DEF ChildInv, ChildInvOf
<1>3. Form[kclient[j]] = "size" /\ Form[kclient[k]] = "size"
  BY Zenon DEF ChildInv, ChildInvOf
<1> QED
  BY Zenon, <1>1, <1>2, <1>3 DEF NamesDiffer, Name

\* When no two requests name the same file, every file that is left at the end
\* is complete, or its child reported that it could not write it: of the
\* children that serve repetitions of a request, the one that ends with status
\* 0 is alone with its file, and the others have unlinked what they created
\* (ftpserver.c:136-145).
THEOREM OnlyCompleteFilesLeftHolds == NamesDiffer => (Spec => []OnlyCompleteFilesLeft)
<1> SUFFICES ASSUME NamesDiffer PROVE Spec => []OnlyCompleteFilesLeft
  OBVIOUS
<1>1. IInv => OnlyCompleteFilesLeft
  <2> SUFFICES ASSUME IInv, AllExited, NEW n \in Names \ OldFiles, dir[n] # NoFile,
                      \A k \in Children : kfile[k] = dir[n] => kexit[k] # "RUNTIME_ERROR"
               PROVE  \E c \in Clients : NameOf[c] = n /\ IsFileOf(c)
    BY Zenon DEF OnlyCompleteFilesLeft
  <2>1. dir[n] \in Children /\ kfile[dir[n]] = dir[n]
    BY DEF IInv, TypeOK, Files, DirInv
  <2>2. PICK f \in Children : f = dir[n] /\ kfile[f] = f
    BY Zenon, <2>1
  <2>3. ASSUME NEW k \in Children, kfile[k] = f
        PROVE  Name(k) = n /\ kexit[k] = "OK"
    <3>1. Name(k) = n /\ kexit[k] \in {"none", "OK", "RUNTIME_ERROR"}
      BY Zenon, <2>2, <2>3 DEF IInv, DirInv
    <3>2. kpc[k] = "exit"
      BY <2>2, <2>3 DEF AllExited, IInv, ChildInv, ChildInvOf
    <3> QED
      BY <2>2, <2>3, <3>1, <3>2 DEF IInv, ChildInv, ChildInvOf
  <2>4. ASSUME NEW k \in Children, kfile[k] = f
        PROVE  kclient[k] = kclient[f] /\ kclient[f] \in Clients
    <3>1. Name(k) = Name(f) /\ kfile[k] # NoFile /\ kfile[f] # NoFile
      BY Zenon, <2>2, <2>3, <2>4
    <3> QED
      BY Zenon, <3>1, SameName DEF IInv
  <2>5. ASSUME NEW k \in Children, kfile[k] = f
        PROVE  k = f
    <3>1. kexit[k] = "OK" /\ kexit[f] = "OK" /\ kclient[k] = kclient[f]
      BY Zenon, <2>2, <2>3, <2>4, <2>5
    <3> QED
      BY <3>1 DEF IInv, ChildInv, ChildInvOf
  <2>6. Sole(f)
    BY Zenon, <2>2, <2>5 DEF Sole
  <2>7. kexit[f] = "OK" /\ accepted[f] = Chunks /\ Name(f) = n /\ kclient[f] \in Clients
    BY Zenon, <2>2, <2>3, <2>4 DEF IInv, ChildInv, ChildInvOf
  <2>8. content[f] = ChunksOf(Chunks, kclient[f])
    BY Zenon, <2>2, <2>6, <2>7 DEF IInv, ContentInv
  <2>9. NameOf[kclient[f]] = n /\ IsFileOf(kclient[f])
    BY Zenon, <2>2, <2>7, <2>8 DEF IsFileOf, ChunksOf, Name
  <2> QED
    BY Zenon, <2>7, <2>9
<1> QED
  BY <1>1, IInvHolds, PTL

-----------------------------------------------------------------------------
(***************************************************************************)
(* Answers.                                                                *)
(***************************************************************************)

\* What no step changes about a child: its client once it is born, and its
\* file and status once it has exited.
LEMMA ChildStays ==
    ASSUME IInv, [Next]_vars, NEW k \in Children, kpc[k] # "unborn"
    PROVE  /\ kpc'[k] # "unborn" /\ kclient'[k] = kclient[k]
           /\ kpc[k] = "exit" =>
                 kpc'[k] = "exit" /\ kfile'[k] = kfile[k] /\ kexit'[k] = kexit[k]
           /\ kpc[k] = "finack" => kpc'[k] = "finack" \/ kexit'[k] = "OK"
<1>1. TypeOK /\ ChildInv
  BY Zenon DEF IInv
<1>2. CASE UNCHANGED childVars
  BY Zenon, <1>2 DEF childVars
<1>3. CASE ListenerStep
  <2>1. k # forked + 1
    BY <1>1, MaxChildrenAssumption DEF TypeOK, ChildInv, ChildInvOf, Children
  <2> QED
    BY Zenon, <1>1, <1>3, <2>1 DEF ListenerStep, ListenerFork, ListenerForkFails, childVars, TypeOK
<1>4. ASSUME NEW j \in Children, ChildStep(j), j # k
      PROVE  /\ kpc'[k] = kpc[k] /\ kclient'[k] = kclient[k]
             /\ kfile'[k] = kfile[k] /\ kexit'[k] = kexit[k]
  BY Zenon, <1>1, <1>4, ChildLocal
<1>5. CASE ChildStep(k)
  <2>1. kpc[k] # "exit" /\ kpc'[k] # "unborn" /\ kclient' = kclient
    BY Zenon, <1>1, <1>5, ChildLocal
  <2>2. kpc[k] = "finack" => ChildClose(k)
    BY Zenon, <1>5 DEF ChildStep, ChildNoSocket, ChildBadRequest, ChildExists, ChildBadSize, ChildChecked,
         ChildOpen, ChildCannotCreate, ChildAck, ChildAckFails, ChildStore, ChildStoreFails,
         ChildTimeout, ChildFin
  <2> QED
    BY Zenon, <1>1, <2>1, <2>2 DEF ChildClose, ChildExit, TypeOK
<1>6. CASE \E c \in Clients : ClientStep(c)
  BY Zenon, <1>1, <1>2, <1>6, ClientLocal
<1> QED
  BY Zenon, <1>2, <1>3, <1>4, <1>5, <1>6 DEF Next, Idle, vars

LEMMA AnswerStays ==
    ASSUME IInv, [Next]_vars, NEW c, NEW r \in Answers, AnswerOf(c, r)
    PROVE  AnswerOf(c, r)'
<1>1. r.from \in Children
  BY Zenon DEF Answers
<1> QED
  BY Zenon, <1>1, ChildStays DEF AnswerOf

LEMMA TargetStays ==
    ASSUME IInv, [Next]_vars, NEW c \in Clients, TargetOf(c),
           target'[c] = target[c], cexit'[c] = cexit[c], confirmed'[c] = confirmed[c],
           confirmed[c] => cpc'[c] = cpc[c]
    PROVE  TargetOf(c)'
<1>1. target[c] \in Children \cup {0}
  BY Zenon DEF IInv, TypeOK
<1>2. CASE target[c] = 0
  BY Zenon, <1>2 DEF TargetOf
<1>3. CASE target[c] \in Children
  <2>1. target[c] # 0
    BY <1>3 DEF Children
  <2>2. kpc[target[c]] # "unborn" /\ kclient[target[c]] = c
    BY Zenon, <2>1 DEF TargetOf
  <2>3. kexit[target[c]] = "OK" => kpc[target[c]] = "exit"
    BY Zenon, <1>3 DEF IInv, ChildInv, ChildInvOf
  <2> QED
    BY <1>3, <2>1, <2>2, <2>3, ChildStays DEF TargetOf
<1> QED
  BY Zenon, <1>1, <1>2, <1>3

\* The answers that wait at the clients' sockets before a step.
LEMMA AnswersStay ==
    ASSUME IInv, AnswerInv, [Next]_vars,
           NEW c \in Clients, NEW i \in 1 .. Len(replies[c]), NEW r, r = replies[c][i]
    PROVE  AnswerOf(c, r)'
<1>1. replies[c] \in Seq(Answers)
  BY Zenon DEF IInv, TypeOK, Answers
<1>2. r \in Answers
  BY <1>1
<1>3. AnswerOf(c, r)
  BY Zenon DEF AnswerInv
<1> QED
  BY Zenon, <1>2, <1>3, AnswerStays

LEMMA ClientKeepsAnswerInv ==
    ASSUME IInv, AnswerInv, [Next]_vars, NEW c \in Clients, ClientStep(c)
    PROVE  AnswerInv'
<1>1. TypeOK /\ ClientInv /\ ClientInvOf(c) /\ TargetOf(c)
  BY Zenon DEF IInv, ClientInv, AnswerInv
<1>2. ASSUME NEW d \in Clients, NEW i \in 1 .. Len(replies'[d]), NEW r, r = replies'[d][i]
      PROVE  AnswerOf(d, r)'
  <2>1. CASE replies'[d] = replies[d]
    BY Zenon, <1>2, <2>1, AnswersStay
  <2>2. CASE d = c /\ ClientAnswer(c)
    <3>1. replies[c] \in Seq(Answers) /\ replies[c] # <<>>
      BY Zenon, <1>1, <2>2 DEF TypeOK, Answers, ClientAnswer
    <3>2. replies'[c] = Tail(replies[c])
      BY Zenon, <1>1, <2>2 DEF TypeOK, ClientAnswer
    <3>3. i + 1 \in 1 .. Len(replies[c]) /\ r = replies[c][i + 1]
      BY <1>2, <2>2, <3>1, <3>2, TailIs
    <3> QED
      BY Zenon, <2>2, <3>3, AnswersStay
  <2>3. d = c => replies'[d] = replies[d] \/ ClientAnswer(c)
    BY Zenon DEF ClientStep, ClientRequest, ClientRequestFails, ClientRetry, ClientNoAnswer,
           ClientGiveUp, ClientClose, ClientConfirmed, ClientUnconfirmed
  <2> QED
    BY Zenon, <1>1, <2>1, <2>2, <2>3, ClientLocal
<1>3. ASSUME NEW d \in Clients \ {c}
      PROVE  TargetOf(d)'
  <2>1. TargetOf(d)
    BY Zenon DEF AnswerInv
  <2> QED
    BY Zenon, <1>1, <2>1, ClientLocal, TargetStays
<1>4. TargetOf(c)'
  <2>1. CASE ClientRequest(c) \/ ClientRetry(c) \/ ClientClose(c)
    <3>1. target' = target /\ cexit' = cexit /\ confirmed' = confirmed /\ cpc[c] # "exit"
      BY Zenon, <2>1 DEF ClientRequest, ClientRetry, ClientClose
    <3>2. ~confirmed[c]
      BY Zenon, <1>1, <3>1 DEF TargetOf
    <3> QED
      BY Zenon, <1>1, <3>1, <3>2, TargetStays
  <2>2. CASE ClientRequestFails(c) \/ ClientNoAnswer(c) \/ ClientGiveUp(c) \/ ClientUnconfirmed(c)
    <3>1. /\ target' = target /\ confirmed' = confirmed /\ cpc[c] # "exit"
          /\ cexit'[c] # "FILE_EXISTS" /\ UNCHANGED childVars
      BY Zenon, <1>1, <2>2 DEF ClientRequestFails, ClientNoAnswer, ClientGiveUp, ClientUnconfirmed, ClientExit,
                        TypeOK
    <3> QED
      BY Zenon, <1>1, <3>1 DEF TargetOf, childVars
  <2>3. CASE ClientConfirmed(c)
    <3>1. /\ target' = target /\ cpc'[c] = "exit" /\ cexit'[c] = "OK" /\ UNCHANGED childVars
          /\ kpc[target[c]] = "finack" \/ kexit[target[c]] = "OK"
          /\ cpc[c] = "fin"
      BY Zenon, <1>1, <2>3 DEF ClientConfirmed, ClientExit, TypeOK
    <3>2. target[c] # 0
      BY Zenon, <1>1, <3>1 DEF ClientInvOf
    <3> QED
      BY Zenon, <1>1, <3>1, <3>2 DEF TargetOf, childVars
  <2>4. CASE ClientAnswer(c)
    <3>1. PICK r : r = replies[c][1]
      OBVIOUS
    <3>2. 1 \in 1 .. Len(replies[c]) /\ target'[c] = r.from /\ r.from # 0
      BY <1>1, <2>4, <3>1, AnswerIs
    <3>3. cexit'[c] = "FILE_EXISTS" => r.cmd # "ACK" \/ cexit[c] = "FILE_EXISTS"
      BY Zenon, <1>1, <2>4, <3>1, AnswerIs
    <3>4. AnswerOf(c, r)'
      BY Zenon, <3>1, <3>2, AnswersStay
    <3>5. cpc[c] = "wait" /\ confirmed' = confirmed
      BY Zenon, <2>4 DEF ClientAnswer
    <3>6. ~confirmed[c] /\ cexit[c] # "FILE_EXISTS"
      BY Zenon, <1>1, <3>5 DEF TargetOf, ClientInvOf
    <3> QED
      BY Zenon, <3>2, <3>3, <3>4, <3>5, <3>6 DEF TargetOf, AnswerOf
  <2> QED
    BY Zenon, <2>1, <2>2, <2>3, <2>4 DEF ClientStep
<1> QED
  BY <1>2, <1>3, <1>4 DEF AnswerInv, AnswerOf

LEMMA ChildKeepsAnswerInv ==
    ASSUME IInv, AnswerInv, [Next]_vars, NEW k \in Children, ChildStep(k)
    PROVE  AnswerInv'
<1>1. TypeOK /\ ChildInv /\ ChildInvOf(k)
  BY Zenon DEF IInv, ChildInv
<1>2. /\ kclient[k] \in Clients /\ kclient' = kclient /\ kpc'[k] # "unborn"
      /\ UNCHANGED clientVars
  BY Zenon, <1>1, ChildLocal
<1>3. ASSUME NEW c \in Clients
      PROVE  TargetOf(c)'
  BY Zenon, <1>2, TargetStays DEF AnswerInv, clientVars
<1>4. ASSUME NEW cmd \in {"ACK", "EXISTS", "BADREQ"}, ChildReply(k, cmd),
             cmd # "ACK" => kpc'[k] = "exit" /\ kfile'[k] = NoFile,
             NEW c \in Clients, NEW i \in 1 .. Len(replies'[c]), NEW r, r = replies'[c][i]
      PROVE  AnswerOf(c, r)'
  <2>1. CASE c = kclient[k] /\ r = [cmd |-> cmd, from |-> k]
    BY <1>2, <1>4, <2>1 DEF AnswerOf
  <2>2. CASE i \in 1 .. Len(replies[c]) /\ r = replies[c][i]
    BY Zenon, <2>2, AnswersStay
  <2>3. \A d \in Clients : \A j \in 1 .. Len(replies'[d]) :
           \/ d = kclient[k] /\ replies'[d][j] = [cmd |-> cmd, from |-> k]
           \/ j \in 1 .. Len(replies[d]) /\ replies'[d][j] = replies[d][j]
    BY Zenon, <1>1, <1>2, <1>4, ReplyIs
  <2> QED
    BY Zenon, <1>4, <2>1, <2>2, <2>3
<1>5. \/ replies' = replies
      \/ \E cmd \in {"ACK", "EXISTS", "BADREQ"} :
            ChildReply(k, cmd) /\ (cmd # "ACK" => kpc'[k] = "exit" /\ kfile'[k] = NoFile)
  <2>1. CASE ChildBadRequest(k) \/ ChildExists(k) \/ ChildCannotCreate(k)
    <3>1. \E cmd \in {"EXISTS", "BADREQ"} : \E st \in KExits : ChildDeny(k, cmd, st)
      BY Zenon, <2>1 DEF ChildBadRequest, ChildExists, ChildCannotCreate, KExits, CExits
    <3>2. kfile[k] = NoFile
      BY Zenon, <1>1, <2>1 DEF ChildInvOf, ChildBadRequest, ChildExists, ChildCannotCreate
    <3> QED
      BY Zenon, <1>1, <3>1, <3>2 DEF ChildDeny, ChildExit, TypeOK
  <2>2. CASE ChildAck(k)
    BY Zenon, <2>2 DEF ChildAck
  <2> QED
    BY Zenon, <2>1, <2>2 DEF ChildStep, ChildNoSocket, ChildBadSize, ChildChecked, ChildOpen, ChildAckFails,
         ChildStore, ChildStoreFails, ChildTimeout, ChildFin, ChildClose
<1>6. ASSUME NEW c \in Clients, NEW i \in 1 .. Len(replies'[c]), NEW r, r = replies'[c][i]
      PROVE  AnswerOf(c, r)'
  BY Zenon, <1>4, <1>5, <1>6, AnswersStay
<1> QED
  BY <1>3, <1>6 DEF AnswerInv, AnswerOf

\* Answers come from children that serve the client, in every network.
LEMMA AnswerInvHolds == Spec => [](IInv /\ AnswerInv)
<1>1. Init => AnswerInv
  BY DEF Init, AnswerInv, TargetOf
<1>2. IInv /\ AnswerInv /\ [Next]_vars => AnswerInv'
  <2> SUFFICES ASSUME IInv, AnswerInv, [Next]_vars PROVE AnswerInv'
    OBVIOUS
  <2>1. CASE ListenerStep \/ UNCHANGED vars
    <3>1. UNCHANGED <<clientVars, replies>>
      BY Zenon, <2>1 DEF ListenerStep, ListenerFork, ListenerForkFails, vars
    <3>2. ASSUME NEW c \in Clients, NEW i \in 1 .. Len(replies'[c]), NEW r, r = replies'[c][i]
          PROVE  AnswerOf(c, r)'
      BY Zenon, <3>1, <3>2, AnswersStay
    <3>3. ASSUME NEW c \in Clients
          PROVE  TargetOf(c)'
      BY Zenon, <3>1, TargetStays DEF AnswerInv, clientVars
    <3> QED
      BY <3>2, <3>3 DEF AnswerInv, AnswerOf
  <2> QED
    BY Zenon, <2>1, ClientKeepsAnswerInv, ChildKeepsAnswerInv DEF Next, Idle
<1> QED
  BY <1>1, <1>2, IInvInit, IInvStep, PTL DEF Spec

-----------------------------------------------------------------------------
(***************************************************************************)
(* Requests that are not repeated.                                         *)
(***************************************************************************)

\* A request that is sent is one that was not sent before.
LEMMA RequestKeepsOnceInv ==
    ASSUME NoRepeats, IInv, OnceInv, NEW c \in Clients, ClientRequest(c)
    PROVE  OnceInv'
<1>1. /\ tries \in [Clients -> 0 .. MaxTries] /\ tries[c] = 0
      /\ tries' = [tries EXCEPT ![c] = @ + 1]
      /\ UNCHANGED childVars
  BY DEF IInv, TypeOK, NoRepeats, ClientRequest
<1>2. requests \in Seq(Clients) /\ (requests' = requests \/ requests' = Append(requests, c))
  <2>1. requests \in Seq(Clients) /\ requests' \in Sent(requests, c)
    BY Zenon DEF IInv, TypeOK, ClientRequest
  <2> QED
    BY Zenon, <2>1, SentIs DEF NoRepeats
<1>3. \A d \in Clients : tries'[d] = 0 => d # c /\ tries[d] = 0
  BY <1>1
<1>4. /\ \A i \in 1 .. Len(requests) : requests[i] # c
      /\ \A k \in Children : kpc[k] # "unborn" => kclient[k] # c
  BY Zenon, <1>1 DEF OnceInv
<1>5. CASE requests' = requests
  BY <1>1, <1>3, <1>5 DEF OnceInv, childVars
<1>6. CASE requests' = Append(requests, c)
  <2>1. /\ Len(requests') = Len(requests) + 1 /\ Len(requests) \in Nat
        /\ requests'[Len(requests) + 1] = c
        /\ \A i \in 1 .. Len(requests) : requests'[i] = requests[i]
    BY <1>2, <1>6
  <2>2. \A i \in 1 .. Len(requests') : i \in 1 .. Len(requests) \/ i = Len(requests) + 1
    BY <2>1
  <2>3. \A d \in Clients : tries'[d] = 0 =>
           /\ \A i \in 1 .. Len(requests') : requests'[i] # d
           /\ \A k \in Children : kpc'[k] # "unborn" => kclient'[k] # d
    BY <1>1, <1>3, <2>1, <2>2 DEF OnceInv, childVars
  <2>4. \A i, j \in 1 .. Len(requests') : requests'[i] = requests'[j] => i = j
    BY <1>4, <2>1, <2>2 DEF OnceInv
  <2>5. \A i \in 1 .. Len(requests'), k \in Children : kpc'[k] # "unborn" => kclient'[k] # requests'[i]
    BY <1>1, <1>4, <2>1, <2>2 DEF OnceInv, childVars
  <2> QED
    BY Zenon, <1>1, <2>3, <2>4, <2>5 DEF OnceInv, childVars
<1> QED
  BY Zenon, <1>2, <1>5, <1>6

\* The listener takes a request away when it forks a child for it.
LEMMA ListenerKeepsOnceInv ==
    ASSUME IInv, OnceInv, ListenerStep
    PROVE  OnceInv'
<1>1. requests \in Seq(Clients) /\ requests # <<>> /\ requests' = Tail(requests) /\ tries' = tries
  BY Zenon DEF IInv, TypeOK, ListenerStep, ListenerFork, ListenerForkFails, clientVars
<1>2. /\ Len(requests) \in Nat /\ 1 \in 1 .. Len(requests) /\ Head(requests) = requests[1]
      /\ \A i \in 1 .. Len(requests') :
            i \in Int /\ i # 0 /\ i + 1 \in 1 .. Len(requests) /\ requests'[i] = requests[i + 1]
  BY SMTT(40), <1>1, TailIs
<1>3. /\ \A i, j \in 1 .. Len(requests') : requests'[i] = requests'[j] => i = j
      /\ \A i \in 1 .. Len(requests') : requests'[i] # requests[1]
      /\ \A d \in Clients : tries[d] = 0 => \A i \in 1 .. Len(requests') : requests'[i] # d
  <2>1. \A i, j \in 1 .. Len(requests') : requests'[i] = requests'[j] => i + 1 = j + 1
    BY <1>2 DEF OnceInv
  <2>2. \A i \in 1 .. Len(requests') : requests'[i] = requests[1] => i + 1 = 1
    BY Zenon, <1>2 DEF OnceInv
  <2> QED
    BY <1>2, <2>1, <2>2 DEF OnceInv
<1>4. CASE ListenerForkFails
  BY <1>1, <1>2, <1>3, <1>4 DEF ListenerForkFails, childVars, OnceInv
<1>5. CASE ListenerFork
  <2>1. PICK n \in Children : n = forked + 1
    BY <1>5, MaxChildrenAssumption DEF ListenerFork, IInv, TypeOK, Children
  <2>2. \A k \in Children : /\ kpc'[k] = IF k = n THEN "start" ELSE kpc[k]
                            /\ kclient'[k] = IF k = n THEN requests[1] ELSE kclient[k]
    BY Zenon, <1>2, <1>5, <2>1 DEF ListenerFork, IInv, TypeOK
  <2>3. \A d \in Clients : tries[d] = 0 => \A k \in Children : kpc'[k] # "unborn" => kclient'[k] # d
    BY <1>2, <2>2 DEF OnceInv
  <2>4. \A i \in 1 .. Len(requests'), k \in Children : kpc'[k] # "unborn" => kclient'[k] # requests'[i]
    BY SMTT(40), <1>2, <1>3, <2>2 DEF OnceInv
  <2>5. \A j, k \in Children :
           kpc'[j] # "unborn" /\ kpc'[k] # "unborn" /\ kclient'[j] = kclient'[k] => j = k
    BY <1>2, <2>2 DEF OnceInv
  <2> QED
    BY Zenon, <1>1, <1>3, <2>3, <2>4, <2>5 DEF OnceInv
<1> QED
  BY Zenon, <1>4, <1>5 DEF ListenerStep

LEMMA OnceInvHolds == ASSUME NoRepeats PROVE Spec => [](IInv /\ OnceInv)
<1>1. Init => OnceInv
  BY DEF Init, OnceInv
<1>2. IInv /\ OnceInv /\ [Next]_vars => OnceInv'
  <2> SUFFICES ASSUME IInv, OnceInv, [Next]_vars PROVE OnceInv'
    OBVIOUS
  <2>1. ASSUME NEW c \in Clients, ClientStep(c) PROVE OnceInv'
    <3>1. ClientRequest(c) \/ UNCHANGED <<tries, requests, childVars>>
      BY Zenon, <2>1 DEF ClientStep, ClientRequestFails, ClientRetry, ClientNoAnswer, ClientAnswer,
                  ClientGiveUp, ClientClose, ClientConfirmed, ClientUnconfirmed
    <3>2. UNCHANGED <<tries, requests, childVars>> => OnceInv'
      BY Zenon DEF OnceInv, childVars
    <3> QED
      BY Zenon, <3>1, <3>2, RequestKeepsOnceInv
  <2>2. ASSUME NEW k \in Children, ChildStep(k) PROVE OnceInv'
    <3>1. UNCHANGED <<tries, requests, kclient>> /\ TypeOK /\ ChildInv
      BY Zenon, <2>2, ChildLocal DEF IInv, clientVars
    <3>2. \A j \in Children : kpc'[j] # "unborn" <=> kpc[j] # "unborn"
      BY Zenon, <2>2, <3>1, ChildLocal
    <3> QED
      BY Zenon, <3>1, <3>2 DEF OnceInv
  <2>3. UNCHANGED vars => OnceInv'
    BY Zenon DEF OnceInv, vars, clientVars, childVars
  <2> QED
    BY Zenon, <2>1, <2>2, <2>3, ListenerKeepsOnceInv DEF Next, Idle
<1> QED
  BY <1>1, <1>2, IInvInit, IInvStep, PTL DEF Spec

\* If no request is repeated, a client that says its file exists on the server
\* is right that it was rejected: no child has created a file for it
\* (ftpclient.c:64-67).  With repetitions another child may have.
THEOREM RejectedMeansRejectedHolds == NoRepeats => (Spec => []RejectedMeansRejected)
<1> SUFFICES ASSUME NoRepeats PROVE Spec => []RejectedMeansRejected
  OBVIOUS
<1>1. IInv /\ AnswerInv /\ OnceInv => RejectedMeansRejected
  <2> SUFFICES ASSUME IInv, AnswerInv, OnceInv, NEW c \in Clients, cexit[c] = "FILE_EXISTS",
                      NEW k \in Children, kclient[k] = c
               PROVE  kfile[k] = NoFile
    BY Zenon DEF RejectedMeansRejected
  <2>1. /\ target[c] # 0 /\ kfile[target[c]] = NoFile
        /\ kpc[target[c]] # "unborn" /\ kclient[target[c]] = c
    BY DEF AnswerInv, TargetOf
  <2>2. target[c] \in Children
    BY Zenon, <2>1 DEF IInv, TypeOK
  <2>3. kpc[k] # "unborn" => k = target[c]
    BY Zenon, <2>1, <2>2 DEF OnceInv
  <2>4. kpc[k] = "unborn" => kfile[k] = NoFile
    BY Zenon DEF IInv, ChildInv, ChildInvOf
  <2> QED
    BY Zenon, <2>1, <2>3, <2>4
<1> QED
  BY <1>1, AnswerInvHolds, OnceInvHolds, PTL

\* Without repetitions, a child whose file has the name of another's is the other.
LEMMA OneOwner ==
    ASSUME NamesDiffer, IInv, OnceInv, NEW j \in Children, NEW k \in Children,
           kpc[j] = "checked" \/ kfile[j] # NoFile, kpc[k] = "checked" \/ kfile[k] # NoFile,
           Name(j) = Name(k)
    PROVE  j = k
<1>1. kclient[j] = kclient[k] /\ kpc[j] # "unborn" /\ kpc[k] # "unborn"
  BY Zenon, SameName DEF IInv
<1> QED
  BY Zenon, <1>1 DEF OnceInv

\* If no two requests name the same file and none is repeated, fopen never
\* empties a file that has come into being since access was asked
\* (ftpserver.c:83-100).
THEOREM NoClobberHolds == NoRepeats /\ NamesDiffer => (Spec => NoClobber)
<1> SUFFICES ASSUME NoRepeats, NamesDiffer PROVE Spec => NoClobber
  OBVIOUS
<1> DEFINE Opens(k) == kpc[k] = "checked" /\ kpc'[k] = "opened" => dir[Name(k)] = NoFile
<1>1. IInv /\ OnceInv /\ [Next]_vars => [\A k \in Children : Opens(k)]_vars
  <2> SUFFICES ASSUME IInv, OnceInv, NEW k \in Children, kpc[k] = "checked", dir[Name(k)] # NoFile
               PROVE  FALSE
    OBVIOUS
  <2>1. kclient[k] \in Clients /\ Name(k) \notin OldFiles /\ kfile[k] = NoFile
    BY Zenon DEF IInv, ChildInv, ChildInvOf
  <2>2. Name(k) \in Names
    BY Zenon, <2>1, NameOfAssumption DEF Name
  <2>3. dir[Name(k)] \in Children /\ kfile[dir[Name(k)]] = dir[Name(k)]
    BY <2>1, <2>2 DEF IInv, TypeOK, Files, DirInv
  <2>4. Name(dir[Name(k)]) = Name(k)
    BY Zenon, <2>2, <2>3 DEF IInv, DirInv
  <2>5. k = dir[Name(k)]
    BY Zenon, <2>3, <2>4, OneOwner
  <2> QED
    BY Zenon, <2>1, <2>3, <2>5
<1> QED
  BY <1>1, OnceInvHolds, PTL DEF Spec, NoClobber

LEMMA OwnFileInvStep ==
    ASSUME NamesDiffer, IInv, OnceInv, OwnFileInv, [Next]_vars, IInv', OnceInv'
    PROVE  OwnFileInv'
<1> DEFINE Holds(k) == kpc[k] \in {"opened", "data", "finack"} \/ kexit[k] = "OK"
<1>1. TypeOK /\ ChildInv /\ DirInv
  BY Zenon DEF IInv
<1>2. \A j \in Children : Holds(j) => kfile[j] # NoFile /\ dir[Name(j)] = kfile[j]
  BY ZenonT(40), <1>1 DEF ChildInv, ChildInvOf, OwnFileInv
<1>3. ASSUME NEW c \in Clients, ClientStep(c) PROVE OwnFileInv'
  BY <1>1, <1>3, ClientLocal DEF childVars, fileVars, OwnFileInv, Name
<1>4. CASE ListenerStep
  <2>1. UNCHANGED <<kfile, kexit, dir>>
    BY Zenon, <1>4 DEF ListenerStep, ListenerFork, ListenerForkFails, childVars, fileVars
  <2>2. \A j \in Children : Holds(j)' => Holds(j) /\ kclient'[j] = kclient[j]
    <3>1. \A j \in Children : kpc[j] = "unborn" => kpc'[j] \in {"unborn", "start"} /\ kexit[j] = "none"
      BY Zenon, <1>1, <1>4 DEF ListenerStep, ListenerFork, ListenerForkFails, childVars, TypeOK, ChildInv, ChildInvOf
    <3>2. \A j \in Children : kpc'[j] \in {kpc[j], "start"}
      BY Zenon, <1>1, <1>4 DEF ListenerStep, ListenerFork, ListenerForkFails, childVars, TypeOK
    <3> QED
      BY Zenon, <2>1, <3>1, <3>2, ChildStays
  <2> QED
    BY Zenon, <1>2, <2>1, <2>2 DEF OwnFileInv, Name
<1>5. ASSUME NEW k \in Children, ChildStep(k) PROVE OwnFileInv'
  <2>1. /\ kclient' = kclient /\ Name(k) \in Names
        /\ \A j \in Children \ {k} : kpc'[j] = kpc[j] /\ kexit'[j] = kexit[j] /\ kfile'[j] = kfile[j]
    BY Zenon, <1>1, <1>5, ChildLocal
  <2>2. CASE ChildOpen(k)
    <3>1. PICK f \in Children : /\ dir' = [dir EXCEPT ![Name(k)] = f]
                               /\ kfile' = [kfile EXCEPT ![k] = f]
                               /\ kpc[k] = "checked"
      BY Zenon, <1>1, <2>2, OpenedIs DEF ChildOpen
    <3>2. \A j \in Children \ {k} : Holds(j) => Name(j) # Name(k)
      BY Zenon, <1>2, <3>1, OneOwner
    <3>3. \A j \in Children \ {k} : Holds(j) => dir'[Name(j)] = kfile[j]
      BY <1>1, <1>2, <3>1, <3>2 DEF TypeOK
    <3>4. dir'[Name(k)] = kfile'[k]
      BY Zenon, <1>1, <2>1, <3>1 DEF TypeOK
    <3> QED
      BY Zenon, <2>1, <3>3, <3>4 DEF OwnFileInv, Name
  <2>3. CASE ChildAckFails(k) \/ ChildTimeout(k)
    <3>1. /\ dir' = [dir EXCEPT ![Name(k)] = NoFile]
          /\ kpc'[k] = "exit" /\ kexit'[k] # "OK" /\ kfile[k] # NoFile
      BY <1>1, <2>3 DEF ChildAckFails, ChildTimeout, Unlink, ChildExit, TypeOK, ChildInv, ChildInvOf
    <3>2. \A j \in Children \ {k} : Holds(j) => Name(j) # Name(k)
      BY Zenon, <1>2, <3>1, OneOwner
    <3>3. \A j \in Children \ {k} : Holds(j) => dir'[Name(j)] = kfile[j]
      BY <1>1, <1>2, <3>1, <3>2 DEF TypeOK
    <3> QED
      BY Zenon, <2>1, <3>1, <3>3 DEF OwnFileInv, Name
  <2>4. CASE kfile' = kfile /\ dir' = dir
    <3>1. Holds(k)' => Holds(k) \/ ChildOpen(k)
      BY Zenon, <1>1, <1>5 DEF ChildStep, ChildNoSocket, ChildBadRequest, ChildExists, ChildBadSize,
         ChildChecked, ChildCannotCreate, ChildAck, ChildAckFails, ChildStore, ChildStoreFails,
         ChildTimeout, ChildFin, ChildClose, ChildDeny, ChildExit, TypeOK
    <3> QED
      BY <1>2, <2>1, <2>2, <2>4, <3>1 DEF OwnFileInv, Name
  <2> QED
    BY Zenon, <1>1, <1>5, <2>2, <2>3, <2>4, ChildFileSteps DEF ChildStore, ChildStoreFails, Quiet, fileVars
<1>6. UNCHANGED vars => OwnFileInv'
  BY Zenon DEF vars, childVars, fileVars, OwnFileInv, Name
<1> QED
  BY Zenon, <1>3, <1>4, <1>5, <1>6 DEF Next, Idle

\* If no two requests name the same file and none is repeated, a file whose
\* transfer was confirmed to the client stays on the server as the client sent
\* it: no other child creates, empties or deletes it (ftpserver.c:100-145).
THEOREM ConfirmedFileStaysHolds == NoRepeats /\ NamesDiffer => (Spec => []ConfirmedFileStays)
<1> SUFFICES ASSUME NoRepeats, NamesDiffer PROVE Spec => []ConfirmedFileStays
  OBVIOUS
<1>1. Init => OwnFileInv
  BY Zenon DEF Init, OwnFileInv
<1>2. IInv /\ OnceInv /\ OwnFileInv /\ [Next]_vars /\ IInv' /\ OnceInv' => OwnFileInv'
  BY Zenon, OwnFileInvStep
<1>3. IInv /\ AnswerInv /\ OnceInv /\ OwnFileInv => ConfirmedFileStays
  <2> SUFFICES ASSUME IInv, AnswerInv, OnceInv, OwnFileInv, NEW c \in Clients, confirmed[c]
               PROVE  IsFileOf(c)
    BY Zenon DEF ConfirmedFileStays
  <2>1. /\ target[c] # 0 /\ kclient[target[c]] = c
        /\ kpc[target[c]] = "finack" \/ kexit[target[c]] = "OK"
    BY Zenon DEF AnswerInv, TargetOf
  <2>2. PICK k \in Children : k = target[c]
    BY Zenon, <2>1 DEF IInv, TypeOK
  <2>3. /\ kfile[k] # NoFile /\ accepted[k] = Chunks /\ kexit[k] # "RUNTIME_ERROR"
        /\ dir[Name(k)] = kfile[k] /\ Name(k) = NameOf[c]
    BY Zenon, <2>1, <2>2 DEF IInv, ChildInv, ChildInvOf, OwnFileInv, Name
  <2>4. Sole(k)
    <3>1. Name(k) \in Names
      BY Zenon, <2>3, NameOfAssumption
    <3>2. \A j \in Children : kfile[j] = kfile[k] => Name(j) = Name(k)
      BY <2>3, <3>1 DEF IInv, DirInv
    <3> QED
      BY Zenon, <2>3, <3>2, OneOwner DEF Sole
  <2>5. content[kfile[k]] = ChunksOf(Chunks, c)
    BY Zenon, <2>1, <2>2, <2>3, <2>4 DEF IInv, ContentInv
  <2> QED
    BY Zenon, <2>3, <2>5 DEF IsFileOf, ChunksOf
<1> QED
  BY <1>1, <1>2, <1>3, AnswerInvHolds, OnceInvHolds, PTL DEF Spec

==============================================================================
