-------------------------- MODULE LinkedListProofs --------------------------
(***************************************************************************)
(* list.h implements a queue, for every heap, window and data.             *)
(***************************************************************************)
EXTENDS LinkedList, TLAPS

\* A list without nodes, as init_list leaves it, satisfies the invariant.
LEMMA InitInv == Init => ListInv
  BY WindowAssumption, NullAssumption DEF Init, ListInv, TypeOK, IsChain, SizeIsNodes

\* add_to_list (list.h:16-36) appends one node to the chain.
LEMMA AddInv ==
    ASSUME ListInv, size < WINDOW_SIZE, NEW d \in Data, NEW n \in Cells, add_to_list(d, n)
    PROVE  ListInv'
  <1> USE NullAssumption, WindowAssumption
  <1>1. /\ nodes \in Seq(Cells)
        /\ nodes' = Append(nodes, n)
        /\ nodes' \in Seq(Cells)
        /\ Len(nodes') = Len(nodes) + 1
        /\ Len(nodes) \in Nat
        /\ nodes'[Len(nodes) + 1] = n
        /\ \A i \in 1 .. Len(nodes) : nodes'[i] = nodes[i]
    BY DEF ListInv, TypeOK, add_to_list
  <1>2. \A i \in 1 .. Len(nodes) : nodes[i] \in live /\ nodes[i] \in Cells /\ nodes[i] # n
    BY <1>1 DEF ListInv, SizeIsNodes, add_to_list
  <1>3. head = NULL <=> nodes = <<>>
    BY <1>1 DEF ListInv, IsChain
  <1>4. nodes # <<>> => Len(nodes) \in 1 .. Len(nodes) /\ tail = nodes[Len(nodes)]
    BY <1>1 DEF ListInv, IsChain
  <1>5. nodes = <<>> => Len(nodes) = 0
    OBVIOUS
  <1>6. TypeOK'
    BY <1>1, <1>2, <1>4 DEF ListInv, TypeOK, add_to_list
  <1>7. SizeIsNodes'
    <2>1. live' = {nodes'[i] : i \in 1 .. Len(nodes')}
      BY <1>1 DEF ListInv, SizeIsNodes, add_to_list
    <2>2. size' = Len(nodes) + 1
      BY <1>3, <1>5 DEF ListInv, SizeIsNodes, add_to_list
    <2> QED BY <2>1, <2>2, <1>1 DEF SizeIsNodes, ListInv
  <1>8. IsChain'
    <2>1. head' = IF nodes' = <<>> THEN NULL ELSE nodes'[1]
      BY <1>1, <1>3, <1>5 DEF ListInv, IsChain, add_to_list
    <2>2. tail' = nodes'[Len(nodes')]
      BY <1>1 DEF add_to_list
    <2>3. ASSUME NEW i \in 1 .. Len(nodes')
          PROVE  next'[nodes'[i]] = IF i = Len(nodes') THEN NULL ELSE nodes'[i + 1]
      <3>1. CASE i = Len(nodes')
        BY <3>1, <1>1, <1>2, <1>4 DEF ListInv, TypeOK, add_to_list
      <3>2. CASE i = Len(nodes)
        <4>1. nodes # <<>> /\ head # NULL /\ nodes'[i] = tail /\ tail \in Cells /\ tail # n
          BY <3>2, <1>1, <1>2, <1>3, <1>4, <1>5
        <4>2. next'[tail] = n
          BY <4>1 DEF ListInv, TypeOK, add_to_list
        <4> QED BY <4>1, <4>2, <3>2, <1>1
      <3>3. CASE i \in 1 .. Len(nodes) - 1
        <4>1. /\ nodes # <<>> /\ head # NULL
              /\ nodes'[i] = nodes[i] /\ nodes'[i + 1] = nodes[i + 1]
              /\ nodes[i] \in Cells /\ nodes[i] # n
          BY <3>3, <1>1, <1>2, <1>3, <1>5
        <4>2. nodes[i] # tail /\ next[nodes[i]] = nodes[i + 1]
          BY <3>3, <4>1, <1>1, <1>4 DEF ListInv, IsChain
        <4>3. next'[nodes[i]] = next[nodes[i]]
          BY <4>1, <4>2 DEF ListInv, TypeOK, add_to_list
        <4> QED BY <4>1, <4>2, <4>3, <3>3, <1>1
      <3> QED BY <3>1, <3>2, <3>3, <1>1
    <2>4. ASSUME NEW i \in 1 .. Len(nodes'), NEW j \in 1 .. Len(nodes'), nodes'[i] = nodes'[j]
          PROVE  i = j
      BY <2>4, <1>1, <1>2 DEF ListInv, IsChain
    <2> QED BY <2>1, <2>2, <2>3, <2>4 DEF IsChain
  <1> QED BY <1>6, <1>7, <1>8 DEF ListInv

\* remove_front (list.h:46-54) takes the first node off the chain; tail is left
\* dangling only when no node remains.
LEMMA RemoveInv ==
    ASSUME ListInv, remove_front
    PROVE  ListInv'
  <1> USE NullAssumption, WindowAssumption
  <1>1. /\ nodes \in Seq(Cells) /\ nodes # <<>> /\ head = nodes[1]
        /\ Len(nodes) \in Nat \ {0}
    BY DEF ListInv, TypeOK, IsChain, remove_front
  <1>2. /\ nodes' = Tail(nodes)
        /\ nodes' \in Seq(Cells)
        /\ Len(nodes') = Len(nodes) - 1
        /\ \A i \in 1 .. Len(nodes') : nodes'[i] = nodes[i + 1]
    BY <1>1 DEF remove_front
  <1>3. \A i \in 1 .. Len(nodes) : nodes[i] \in Cells
    BY <1>1
  <1>4. \A i, j \in 1 .. Len(nodes) : nodes[i] = nodes[j] => i = j
    BY DEF ListInv, IsChain
  <1>5. next[head] = IF Len(nodes) = 1 THEN NULL ELSE nodes[2]
    <2>1. next[nodes[1]] = IF 1 = Len(nodes) THEN NULL ELSE nodes[1 + 1]
      <3>1. 1 \in 1 .. Len(nodes)
        BY <1>1
      <3> QED BY <3>1 DEF ListInv, IsChain
    <2> QED BY <2>1, <1>1
  <1>6. nodes' = <<>> <=> Len(nodes) = 1
    BY <1>1, <1>2
  <1>7. TypeOK'
    <2>1. head' \in Cells \cup {NULL}
      BY <1>1, <1>3 DEF ListInv, TypeOK, remove_front
    <2>2. size' \in Nat
      BY <1>1 DEF ListInv, SizeIsNodes, remove_front
    <2> QED BY <2>1, <2>2, <1>2 DEF ListInv, TypeOK, remove_front
  <1>8. SizeIsNodes'
    <2>1. live' = {nodes'[i] : i \in 1 .. Len(nodes')}
      <3>1. ASSUME NEW c \in live'
            PROVE  \E i \in 1 .. Len(nodes') : c = nodes'[i]
        <4>1. PICK i \in 1 .. Len(nodes) : c = nodes[i]
          BY DEF ListInv, SizeIsNodes, remove_front
        <4>2. i # 1
          BY <4>1, <1>1 DEF remove_front
        <4>3. i - 1 \in 1 .. Len(nodes') /\ nodes'[i - 1] = nodes[i]
          BY <4>2, <1>1, <1>2
        <4> QED BY <4>1, <4>3
      <3>2. ASSUME NEW i \in 1 .. Len(nodes')
            PROVE  nodes'[i] \in live'
        <4>1. nodes'[i] = nodes[i + 1] /\ i + 1 \in 1 .. Len(nodes) /\ i + 1 # 1
          BY <1>1, <1>2
        <4>2. nodes[i + 1] # head
          BY <4>1, <1>1, <1>4
        <4> QED BY <4>1, <4>2 DEF ListInv, SizeIsNodes, remove_front
      <3> QED BY <3>1, <3>2
    <2>2. size' = Len(nodes') /\ size' <= WINDOW_SIZE
      <3>1. size = Len(nodes) /\ size <= WINDOW_SIZE /\ size' = size - 1
        BY DEF ListInv, SizeIsNodes, remove_front
      <3> QED BY <3>1, <1>1, <1>2
    <2> QED BY <2>1, <2>2 DEF SizeIsNodes
  <1>9. IsChain'
    <2>1. head' = IF nodes' = <<>> THEN NULL ELSE nodes'[1]
      BY <1>1, <1>2, <1>5, <1>6 DEF remove_front
    <2>2. nodes' # <<>> => tail' = nodes'[Len(nodes')]
      <3>1. tail' = tail /\ tail = nodes[Len(nodes)]
        BY <1>1 DEF ListInv, IsChain, remove_front
      <3>2. Len(nodes) # 1 => nodes'[Len(nodes')] = nodes[Len(nodes)]
        BY <1>1, <1>2
      <3> QED BY <3>1, <3>2, <1>6
    <2>3. ASSUME NEW i \in 1 .. Len(nodes')
          PROVE  next'[nodes'[i]] = IF i = Len(nodes') THEN NULL ELSE nodes'[i + 1]
      <3>1. i + 1 \in 1 .. Len(nodes) /\ nodes'[i] = nodes[i + 1]
        BY <1>1, <1>2
      <3>2. next[nodes[i + 1]] = IF i + 1 = Len(nodes) THEN NULL ELSE nodes[i + 1 + 1]
        BY <3>1 DEF ListInv, IsChain
      <3>3. i + 1 = Len(nodes) <=> i = Len(nodes')
        BY <1>1, <1>2
      <3>4. i # Len(nodes') => nodes'[i + 1] = nodes[i + 1 + 1]
        <4>1. Len(nodes') \in Nat
          BY <1>1, <1>2
        <4>2. i # Len(nodes') => i + 1 \in 1 .. Len(nodes')
          BY <4>1
        <4> QED BY <4>2, <1>2
      <3>5. next' = next
        BY DEF remove_front
      <3> QED BY <3>1, <3>2, <3>3, <3>4, <3>5
    <2>4. ASSUME NEW i \in 1 .. Len(nodes'), NEW j \in 1 .. Len(nodes'), nodes'[i] = nodes'[j]
          PROVE  i = j
      <3>1. /\ i + 1 \in 1 .. Len(nodes) /\ j + 1 \in 1 .. Len(nodes)
            /\ nodes[i + 1] = nodes[j + 1]
        BY <2>4, <1>1, <1>2
      <3>2. i + 1 = j + 1
        BY <3>1, <1>4
      <3> QED BY <3>2
    <2> QED BY <2>1, <2>2, <2>3, <2>4 DEF IsChain
  <1> QED BY <1>7, <1>8, <1>9 DEF ListInv

\* Writing to cells that are not allocated does not reach the list.
LEMMA OtherInv ==
    ASSUME ListInv, OtherUse
    PROVE  ListInv' /\ \A i \in 1 .. Len(nodes) : data'[nodes[i]] = data[nodes[i]]
  <1>1. PICK c \in Cells \ live, n \in Cells \cup {NULL}, d \in Data :
            next' = [next EXCEPT ![c] = n] /\ data' = [data EXCEPT ![c] = d]
    BY DEF OtherUse
  <1>2. \A i \in 1 .. Len(nodes) : nodes[i] \in Cells /\ nodes[i] # c
    BY DEF ListInv, SizeIsNodes, TypeOK
  <1>3. \A i \in 1 .. Len(nodes) :
            next'[nodes[i]] = next[nodes[i]] /\ data'[nodes[i]] = data[nodes[i]]
    BY <1>1, <1>2 DEF ListInv, TypeOK
  <1>4. TypeOK'
    BY <1>1 DEF ListInv, TypeOK, OtherUse, listVars
  <1>5. IsChain'
    BY <1>3 DEF ListInv, IsChain, OtherUse, listVars
  <1>6. SizeIsNodes'
    BY DEF ListInv, SizeIsNodes, OtherUse, listVars
  <1> QED BY <1>3, <1>4, <1>5, <1>6 DEF ListInv

\* Every step keeps the invariant.
LEMMA NextInv == ListInv /\ [Next]_vars => ListInv'
  <1> SUFFICES ASSUME ListInv, [Next]_vars PROVE ListInv'
    OBVIOUS
  <1>1. CASE Add
    BY <1>1, AddInv DEF Add
  <1>2. CASE remove_front
    BY <1>2, RemoveInv
  <1>3. CASE OtherUse
    BY <1>3, OtherInv
  <1>4. CASE UNCHANGED vars
    BY <1>4 DEF ListInv, TypeOK, IsChain, SizeIsNodes, vars, listVars
  <1> QED BY <1>1, <1>2, <1>3, <1>4 DEF Next

\* The chain of nodes is intact and size is its length, whatever is added and
\* removed and whatever malloc does with freed nodes (list.h:16-54).
THEOREM ListInvHolds == Spec => []ListInv
  BY InitInv, NextInv, PTL DEF Spec

\* The size that the client compares with the window counts the allocated
\* nodes: none is lost, and the window is never exceeded (list.h:29-34, 53;
\* ftpclient.c:102).
THEOREM SizeIsNodesHolds == Spec => []SizeIsNodes
  <1>1. ListInv => SizeIsNodes
    BY DEF ListInv
  <1> QED BY <1>1, ListInvHolds, PTL

\* Users that test head read allocated nodes only (list.h:46-54).
THEOREM EndsAreLiveHolds == Spec => []EndsAreLive
  <1>1. ListInv => EndsAreLive
    <2> SUFFICES ASSUME ListInv, head # NULL PROVE head \in live /\ tail \in live
      BY DEF EndsAreLive
    <2>1. nodes \in Seq(Cells) /\ nodes # <<>> /\ head = nodes[1] /\ tail = nodes[Len(nodes)]
      BY DEF ListInv, TypeOK, IsChain
    <2>2. 1 \in 1 .. Len(nodes) /\ Len(nodes) \in 1 .. Len(nodes)
      BY <2>1
    <2> QED BY <2>1, <2>2 DEF ListInv, SizeIsNodes
  <1> QED BY <1>1, ListInvHolds, PTL

\* list.h implements a queue (list.h:16-54): an add appends, a removal takes the
\* first element off, and nothing else changes what the list holds.
THEOREM ImplementsQueueHolds == Spec => ImplementsQueue
  <1> DEFINE q == [i \in 1 .. Len(nodes) |-> data[nodes[i]]]
  <1>1. Init => Queue!Init
    BY DEF Init, Queue!Init
  <1>2. ListInv /\ ListInv' /\ [Next]_vars => [Queue!Next]_q
    <2> SUFFICES ASSUME ListInv, ListInv', [Next]_vars PROVE Queue!Next \/ q' = q
      OBVIOUS
    <2>0. nodes \in Seq(Cells) /\ Len(nodes) \in Nat /\ data \in [Cells -> Data]
          /\ q \in Seq(Data) /\ Len(q) = Len(nodes)
      BY DEF ListInv, TypeOK
    <2>1. ASSUME NEW d \in Data, NEW n \in Cells, add_to_list(d, n)
          PROVE  Queue!Put(d)
      <3>1. /\ Len(nodes') = Len(nodes) + 1
            /\ nodes'[Len(nodes) + 1] = n
            /\ \A i \in 1 .. Len(nodes) : nodes'[i] = nodes[i]
        BY <2>0, <2>1 DEF add_to_list
      <3>2. \A i \in 1 .. Len(nodes) : nodes[i] \in Cells /\ nodes[i] # n
        BY <2>0, <2>1 DEF add_to_list, ListInv, SizeIsNodes
      <3>3. data'[n] = d /\ \A i \in 1 .. Len(nodes) : data'[nodes[i]] = data[nodes[i]]
        BY <2>0, <2>1, <3>2 DEF add_to_list
      <3>4. q' = Append(q, d)
        BY <2>0, <3>1, <3>3
      <3> QED BY <3>4 DEF Queue!Put
    <2>2. CASE remove_front
      <3>1. nodes # <<>> /\ data' = data
        BY <2>2 DEF remove_front, ListInv, IsChain
      <3>2. /\ Len(nodes') = Len(nodes) - 1
            /\ \A i \in 1 .. Len(nodes') : nodes'[i] = nodes[i + 1]
        BY <2>0, <2>2, <3>1 DEF remove_front
      <3>3. q # <<>> /\ q' = Tail(q)
        BY <2>0, <3>1, <3>2
      <3> QED BY <3>3 DEF Queue!Next, Queue!Drop
    <2>3. CASE OtherUse
      BY <2>3, OtherInv DEF OtherUse
    <2>4. CASE UNCHANGED vars
      BY <2>4 DEF vars
    <2> QED BY <2>1, <2>2, <2>3, <2>4 DEF Next, Add, Queue!Next
  <1> QED BY <1>1, <1>2, ListInvHolds, PTL DEF Spec, ImplementsQueue, Queue!Spec

=============================================================================
