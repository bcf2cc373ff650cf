----------------------------- MODULE LinkedList -----------------------------
(***************************************************************************)
(* list.h: a singly linked list with a head, a tail and a size, on a heap  *)
(* whose cells malloc hands out again after free.                          *)
(*                                                                         *)
(* The client keeps the packets of its window in one such list, adds at    *)
(* most WINDOW_SIZE of them (ftpclient.c:102) and reads both ends of it    *)
(* (ftpclient.c:143-144).                                                  *)
(***************************************************************************)
EXTENDS Integers, Sequences

CONSTANTS
    Cells,        \* addresses malloc can return
    Data,         \* what the list's users store: pointers
    NULL,
    WINDOW_SIZE   \* the client adds while size is smaller than this

ASSUME NullAssumption == NULL \notin Cells
ASSUME WindowAssumption == WINDOW_SIZE \in Nat \ {0}

VARIABLES
    head, tail, size,   \* struct List
    next, data,         \* struct ListNode, by address; freed cells keep theirs
    live,               \* cells allocated and not freed
    nodes               \* history: the cells of the list, front first

listVars == <<head, tail, size>>
vars == <<listVars, next, data, live, nodes>>

\* init_list.  The heap holds anything before.
Init ==
    /\ head = NULL /\ tail = NULL /\ size = 0
    /\ next \in [Cells -> Cells \cup {NULL}]
    /\ data \in [Cells -> Data]
    /\ live = {}
    /\ nodes = <<>>

\* Mutant: the list is taken for empty when tail is NULL, not head.
AddToListTailTest(d, n) ==
    /\ n \in Cells \ live
    /\ live' = live \cup {n}
    /\ data' = [data EXCEPT ![n] = d]
    /\ tail' = n
    /\ IF tail = NULL
        THEN /\ head' = n
             /\ size' = 1
             /\ next' = [next EXCEPT ![n] = NULL]
        ELSE /\ next' = [next EXCEPT ![n] = NULL, ![tail] = n]
             /\ size' = size + 1
             /\ UNCHANGED head
    /\ nodes' = Append(nodes, n)

\* add_to_list when malloc returns n.  When malloc fails the list stays as it is.
add_to_list(d, n) ==
    /\ n \in Cells \ live
    /\ live' = live \cup {n}
    /\ data' = [data EXCEPT ![n] = d]
    /\ tail' = n
    /\ IF head = NULL
        THEN /\ head' = n
             /\ size' = 1
             /\ next' = [next EXCEPT ![n] = NULL]
        ELSE /\ next' = [next EXCEPT ![n] = NULL, ![tail] = n]
             /\ size' = size + 1
             /\ UNCHANGED head
    /\ nodes' = Append(nodes, n)

\* The client fills its window.
Add == size < WINDOW_SIZE /\ \E d \in Data, n \in Cells : add_to_list(d, n)

\* Mutant: the new head is freed.
RemoveFrontFreesNext ==
    /\ head # NULL
    /\ head' = next[head]
    /\ live' = live \ {next[head]}
    /\ size' = size - 1
    /\ nodes' = Tail(nodes)
    /\ UNCHANGED <<tail, next, data>>

\* Mutant: the size is forgotten.
RemoveFrontKeepsSize ==
    /\ head # NULL
    /\ head' = next[head]
    /\ live' = live \ {head}
    /\ nodes' = Tail(nodes)
    /\ UNCHANGED <<tail, size, next, data>>

\* remove_front; it does nothing to an empty list.
remove_front ==
    /\ head # NULL
    /\ head' = next[head]
    /\ live' = live \ {head}
    /\ size' = size - 1
    /\ nodes' = Tail(nodes)
    /\ UNCHANGED <<tail, next, data>>

\* malloc gives a cell to somebody else, who writes to it and frees it.
OtherUse ==
    /\ \E c \in Cells \ live, n \in Cells \cup {NULL}, d \in Data :
        /\ next' = [next EXCEPT ![c] = n]
        /\ data' = [data EXCEPT ![c] = d]
    /\ UNCHANGED <<listVars, live, nodes>>

Next == Add \/ remove_front \/ OtherUse

Spec == Init /\ [][Next]_vars

-----------------------------------------------------------------------------
(***************************************************************************)
(* Properties.                                                             *)
(***************************************************************************)

TypeOK ==
    /\ head \in Cells \cup {NULL}
    /\ tail \in Cells \cup {NULL}
    /\ size \in Nat
    /\ next \in [Cells -> Cells \cup {NULL}]
    /\ data \in [Cells -> Data]
    /\ live \subseteq Cells
    /\ nodes \in Seq(Cells)

\* The cells from head along the next pointers are the ones of the history;
\* each is in the list once, they are the allocated ones, and unless there are
\* none the last of them is tail.
IsChain ==
    /\ head = IF nodes = <<>> THEN NULL ELSE nodes[1]
    /\ nodes # <<>> => tail = nodes[Len(nodes)]
    /\ \A i \in 1 .. Len(nodes) :
        next[nodes[i]] = IF i = Len(nodes) THEN NULL ELSE nodes[i + 1]
    /\ \A i, j \in 1 .. Len(nodes) : nodes[i] = nodes[j] => i = j

\* Whoever tests head before following head or tail reads allocated nodes
\* only, although remove_front (list.h:46-54) leaves tail pointing at the
\* freed node when it empties the list, and malloc may have handed that node
\* out again (list.h:28, ftpclient.c:141-144).
EndsAreLive == head # NULL => head \in live /\ tail \in live

\* The window test of the client (ftpclient.c:102) counts what is in the
\* list: size is the number of allocated nodes, none is lost and the window
\* is never exceeded (list.h:29-34, 53).
SizeIsNodes ==
    /\ live = {nodes[i] : i \in 1 .. Len(nodes)}
    /\ size = Len(nodes)
    /\ size <= WINDOW_SIZE

\* The inductive invariant: types, the chain of nodes (list.h:26-34, 51), and
\* its size.
ListInv == TypeOK /\ IsChain /\ SizeIsNodes

Queue == INSTANCE PacketQueue WITH queue <- [i \in 1 .. Len(nodes) |-> data[nodes[i]]]

\* list.h implements the queue that the client and the listener use it as:
\* what is added comes out once, in the order it was added (list.h:16-54).
ImplementsQueue == Queue!Spec

=============================================================================
