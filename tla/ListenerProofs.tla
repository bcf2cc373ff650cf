--------------------------- MODULE ListenerProofs ---------------------------
(***************************************************************************)
(* The listener's shutdown reaches its children, for every number of       *)
(* children, interrupts and process identifiers.                           *)
(***************************************************************************)
EXTENDS Listener, TLAPS

Places == {"main", "registered", "recv", "forked", "kill", "exit", "crash"}
States == {"none", "child", "zombie", "other"}

Types ==
    /\ pc \in Places
    /\ new \in Pids \cup {NoPid}
    /\ children \in Seq(Pids)
    /\ killPos \in Nat
    /\ intPos \in Nat
    /\ proc \in [Pids -> States]
    /\ copy \in [Pids -> Seq(Pids)]
    /\ intr \subseteq Pids
    /\ forks \in Nat

\* Where the control is: no child before the list exists, and kill_children
\* runs in the main program only after malloc has failed.
Control ==
    /\ pc \in {"main", "registered"} =>
         forks = 0 /\ intPos = 0 /\ \A p \in Pids : proc[p] # "child"
    /\ pc \in {"main", "registered", "recv", "forked"} => killPos = 0
    /\ pc \in {"main", "registered", "recv"} => new = NoPid
    /\ pc = "forked" => new \in Pids
    /\ pc = "kill" => oom /\ killPos > 0

\* A running child is in the list, or is the one just forked.
Recorded ==
    ~Gone => \A p \in Pids : proc[p] = "child" =>
                p = new \/ \E i \in 1 .. Len(children) : children[i] = p

\* The children at the positions before n have been signalled.
SignalledBefore(n) ==
    pc # "crash" => \A i \in 1 .. Len(children) :
                        i < n /\ proc[children[i]] = "child" => children[i] \in intr

\* Without a failed malloc only the handler of SIGINT has freed pids.
FreedByHandler == ~oom => \A i \in freed : i \in Nat /\ i < intPos

IInv ==
    /\ Types
    /\ Control
    /\ Recorded
    /\ SignalledBefore(killPos)
    /\ SignalledBefore(intPos)
    /\ FreedByHandler
    /\ ShutdownReachesChildren
    /\ SafeSignals

LEMMA InitInv == Init => IInv
  BY DEF Init, IInv, Types, Control, Recorded, SignalledBefore, FreedByHandler,
         ShutdownReachesChildren, SafeSignals, Gone, Places, States

\* The listener's end keeps the invariant when every child is signalled.
LEMMA ExitInv ==
    ASSUME IInv, End("exit"), ~Gone,
           UNCHANGED <<list, loops, intr, forks>>,
           \A p \in Pids : proc[p] = "child" => p \in intr \/ p = new
    PROVE  IInv'
<1> USE DEF IInv, End, list, loops
<1>1. Types'
  BY DEF Types, Places, States
<1>2. \A p \in Pids : proc'[p] = "child" <=> proc[p] = "child"
  BY DEF Types
<1>3. Control' /\ Recorded'
  BY DEF Control, Recorded, Gone
<1>4. SignalledBefore(killPos)' /\ SignalledBefore(intPos)'
  <2>1. ASSUME NEW i \in 1 .. Len(children) PROVE children[i] \in Pids
    BY <2>1 DEF Types
  <2> QED
    BY <1>2, <2>1 DEF SignalledBefore, Gone
<1>5. FreedByHandler'
  BY DEF FreedByHandler
<1>6. ShutdownReachesChildren' /\ SafeSignals'
  BY <1>2 DEF ShutdownReachesChildren, SafeSignals
<1> QED
  BY <1>1, <1>3, <1>4, <1>5, <1>6

\* A pid in the list is one of the kernel's.
LEMMA ChildrenArePids ==
    ASSUME Types
    PROVE  /\ Len(children) \in Nat
           /\ \A i \in 1 .. Len(children) : children[i] \in Pids
  BY DEF Types

\* A step that changes neither the list nor the loops, and after which every
\* running child was running before and keeps its signal.
LEMMA ProcessInv ==
    ASSUME IInv, UNCHANGED <<pc, list, loops, forks>>,
           proc' \in [Pids -> States], intr' \subseteq Pids,
           \A p \in Pids : proc'[p] = "child" => proc[p] = "child" /\ (p \in intr => p \in intr')
    PROVE  IInv'
<1> USE DEF IInv, list, loops
<1>1. Types'
  BY DEF Types
<1>2. Control'
  BY DEF Control
<1>3. Recorded'
  BY DEF Recorded, Gone
<1>4. SignalledBefore(killPos)' /\ SignalledBefore(intPos)'
  BY ChildrenArePids DEF SignalledBefore
<1>5. FreedByHandler' /\ SafeSignals'
  BY DEF FreedByHandler, SafeSignals
<1>6. ShutdownReachesChildren'
  BY DEF ShutdownReachesChildren
<1> QED
  BY <1>1, <1>2, <1>3, <1>4, <1>5, <1>6

LEMMA StartInv ==
    ASSUME IInv, MainRegisters \/ (Prepare /\ pc' = "recv")
    PROVE  IInv'
<1> USE DEF IInv, MainRegisters, Prepare, End, At, list, loops, bounds
<1>0. pc' \in {"registered", "recv"} /\ pc \in {"main", "registered"} /\ intPos = 0
      /\ UNCHANGED <<list, loops, intr, forks>>
  BY DEF Types
<1>1. proc' = proc
  BY DEF Types
<1> QED
  BY <1>0, <1>1
     DEF Types, Control, Recorded, SignalledBefore, FreedByHandler,
         ShutdownReachesChildren, SafeSignals, Gone, Places

LEMMA ForkInv ==
    ASSUME IInv, NEW p \in Pids, Fork(p)
    PROVE  IInv'
<1> USE DEF IInv, Fork, At, loops
<1>1. Types'
  BY DEF Types, Places, States
<1>2. Control' /\ FreedByHandler' /\ SafeSignals' /\ ShutdownReachesChildren'
  BY DEF Control, FreedByHandler, SafeSignals, ShutdownReachesChildren
<1>3. Recorded'
  <2> SUFFICES ASSUME NEW q \in Pids, proc'[q] = "child", q # p
               PROVE  \E i \in 1 .. Len(children) : children[i] = q
    BY DEF Recorded
  <2>1. proc[q] = "child"
    BY DEF Types
  <2> QED
    BY <2>1, NoPidAssumption DEF Recorded, Control, Gone
<1>4. SignalledBefore(killPos)' /\ SignalledBefore(intPos)'
  <2>1. killPos' = 0 /\ intPos' = 0
    BY DEF Control
  <2> QED
    BY <2>1 DEF SignalledBefore
<1> QED
  BY <1>1, <1>2, <1>3, <1>4

LEMMA AddInv ==
    ASSUME IInv, AddChild
    PROVE  IInv'
<1> USE DEF IInv, AddChild, At, loops, bounds
<1>1. pc = "forked" /\ intPos = 0 /\ killPos = 0
  BY DEF Control
<1>2. new \in Pids
  BY <1>1 DEF Control
<1>3. Types'
  BY <1>2 DEF Types, Places
<1>4. Control' /\ FreedByHandler' /\ SafeSignals' /\ ShutdownReachesChildren'
  BY <1>1 DEF Control, FreedByHandler, SafeSignals, ShutdownReachesChildren
<1>5. Recorded'
  <2>1. /\ Len(children') = Len(children) + 1
        /\ children'[Len(children) + 1] = new
        /\ \A i \in 1 .. Len(children) : children'[i] = children[i]
    BY <1>2 DEF Types
  <2>2. Len(children) \in Nat
    BY ChildrenArePids
  <2>3. SUFFICES ASSUME NEW q \in Pids, proc[q] = "child"
                 PROVE  \E i \in 1 .. Len(children') : children'[i] = q
    BY DEF Recorded
  <2>4. CASE q = new
    BY <2>1, <2>2, <2>4
  <2>5. CASE q # new
    <3>1. PICK i \in 1 .. Len(children) : children[i] = q
      BY <1>1, <2>3, <2>5 DEF Recorded, Gone
    <3>2. i \in 1 .. Len(children')
      BY <2>1, <2>2
    <3> QED
      BY <2>1, <3>1, <3>2
  <2> QED
    BY <2>4, <2>5
<1>6. SignalledBefore(killPos)' /\ SignalledBefore(intPos)'
  BY <1>1 DEF SignalledBefore
<1> QED
  BY <1>3, <1>4, <1>5, <1>6

LEMMA AddFailsInv ==
    ASSUME IInv, AddChildFails
    PROVE  IInv'
<1> USE DEF IInv, AddChildFails, At, bounds
<1>1. Types' /\ Control'
  BY DEF Types, Control, Places
<1>2. Recorded' /\ ShutdownReachesChildren' /\ SafeSignals' /\ FreedByHandler'
  BY DEF Recorded, ShutdownReachesChildren, SafeSignals, FreedByHandler, Gone
<1>3. SignalledBefore(killPos)' /\ SignalledBefore(intPos)'
  BY DEF SignalledBefore
<1> QED
  BY <1>1, <1>2, <1>3

\* When a loop of kill_children is over, every recorded child is signalled.
LEMMA LoopOver ==
    ASSUME IInv, ~Gone, NEW n \in Nat, SignalledBefore(n), n > Len(children)
    PROVE  \A p \in Pids : proc[p] = "child" => p \in intr \/ p = new
<1> SUFFICES ASSUME NEW p \in Pids, proc[p] = "child", p # new
             PROVE  p \in intr
  OBVIOUS
<1>1. PICK i \in 1 .. Len(children) : children[i] = p
  BY DEF IInv, Recorded
<1>2. i < n
  BY ChildrenArePids DEF IInv
<1> QED
  BY <1>1, <1>2 DEF SignalledBefore, Gone

LEMMA MainExitsInv ==
    ASSUME IInv,
           \/ MainRefuses
           \/ Prepare /\ End("exit")
           \/ IntUnhandled
           \/ KillDone
           \/ HandleIntExit
    PROVE  IInv'
<1> USE DEF bounds
<1>1. CASE MainRefuses \/ IntUnhandled
  <2>1. End("exit") /\ pc = "main" /\ UNCHANGED <<list, loops, intr, forks>>
    BY <1>1 DEF MainRefuses, IntUnhandled, At
  <2> QED
    BY <2>1, ExitInv DEF IInv, Control, Gone
<1>2. CASE Prepare /\ End("exit")
  <2>1. pc = "registered" /\ UNCHANGED <<list, loops, intr, forks>>
    BY <1>2 DEF Prepare, At
  <2> QED
    BY <1>2, <2>1, ExitInv DEF IInv, Control, Gone
<1>3. CASE KillDone
  <2>1. End("exit") /\ ~Gone /\ killPos > Len(children) /\ UNCHANGED <<list, loops, intr, forks>>
    BY <1>3 DEF KillDone, At, Gone, LastNode
  <2>2. \A p \in Pids : proc[p] = "child" => p \in intr \/ p = new
    BY <2>1, LoopOver DEF IInv, Types
  <2> QED
    BY <2>1, <2>2, ExitInv
<1>4. CASE HandleIntExit
  <2>1. End("exit") /\ ~Gone /\ intPos > Len(children) /\ UNCHANGED <<list, loops, intr, forks>>
    BY <1>4 DEF HandleIntExit, LastNode
  <2>2. \A p \in Pids : proc[p] = "child" => p \in intr \/ p = new
    BY <2>1, LoopOver DEF IInv, Types
  <2> QED
    BY <2>1, <2>2, ExitInv
<1> QED
  BY <1>1, <1>2, <1>3, <1>4

\* One more child is signalled: what was signalled before still is.
LEMMA SignalNext ==
    ASSUME IInv, NEW n \in Nat, n \in 1 .. Len(children), SignalledBefore(n), pc # "crash",
           Signal({children[n]}), UNCHANGED <<pc, children, proc>>
    PROVE  SignalledBefore(n + 1)' /\ intr \subseteq intr' /\ intr' \subseteq Pids
<1>1. intr \subseteq intr' /\ (proc[children[n]] = "child" => children[n] \in intr')
  BY DEF Signal
<1>2. intr' \subseteq Pids
  BY ChildrenArePids DEF Signal, IInv, Types
<1>3. \A i \in 1 .. Len(children) : i < n + 1 => i < n \/ i = n
  OBVIOUS
<1> QED
  BY <1>1, <1>2, <1>3 DEF SignalledBefore

LEMMA KillInv ==
    ASSUME IInv, KillChild
    PROVE  IInv'
<1> USE DEF IInv, bounds, list
<1>1. /\ pc = "kill" /\ oom /\ killPos' = killPos + 1 /\ Signal({children[killPos]})
      /\ UNCHANGED <<pc, list, intPos, proc, forks>>
  BY DEF KillChild, At, Control
<1>2. killPos \in 1 .. Len(children)
  BY <1>1, ChildrenArePids DEF KillChild, LastNode, Types, Control
<1>3. SignalledBefore(killPos)' /\ intr \subseteq intr' /\ intr' \subseteq Pids
  BY <1>1, <1>2, SignalNext DEF Types
<1>4. Types' /\ Control' /\ Recorded'
  BY <1>1, <1>3 DEF Types, Control, Recorded, Gone
<1>5. SignalledBefore(intPos)'
  BY <1>1, <1>3 DEF SignalledBefore
<1>6. FreedByHandler' /\ ShutdownReachesChildren' /\ SafeSignals'
  BY <1>1 DEF FreedByHandler, ShutdownReachesChildren, SafeSignals
<1> QED
  BY <1>3, <1>4, <1>5, <1>6

\* A memory error ends the listener before any fork, or after malloc failed.
LEMMA CrashInv ==
    ASSUME IInv, End("crash"), UNCHANGED <<list, freed, killPos, forks, intr>>,
           intPos' \in Nat, ~oom => \A i \in freed : i < intPos', forks = 0 \/ oom
    PROVE  IInv'
<1> USE DEF IInv, End, list
<1>1. Types'
  BY DEF Types, Places, States
<1>2. Control' /\ Recorded' /\ SafeSignals' /\ ShutdownReachesChildren' /\ FreedByHandler'
  BY DEF Control, Recorded, SafeSignals, ShutdownReachesChildren, FreedByHandler, Gone
<1>3. SignalledBefore(killPos)' /\ SignalledBefore(intPos)'
  BY DEF SignalledBefore
<1> QED
  BY <1>1, <1>2, <1>3

LEMMA HandleIntInv ==
    ASSUME IInv, HandleInt
    PROVE  IInv'
<1>1. CASE pc = "registered"
  <2>1. End("crash") /\ UNCHANGED <<list, freed, killPos, forks, intr, intPos>>
    BY <1>1 DEF HandleInt, bounds
  <2>2. intPos' \in Nat /\ (~oom => \A i \in freed : i < intPos') /\ forks = 0
    BY <1>1, <2>1 DEF IInv, Types, FreedByHandler, Control
  <2> QED
    BY <2>1, <2>2, CrashInv
<1>2. CASE pc # "registered"
  <2>1. /\ intPos = 0 /\ intPos' = 1 /\ pc \in {"recv", "forked", "kill"}
        /\ UNCHANGED <<pc, proc, list, freed, killPos, intr, forks>>
    BY <1>2 DEF HandleInt, bounds, IInv, Types, Places
  <2> USE DEF IInv, list
  <2>2. Types' /\ Control' /\ Recorded'
    BY <2>1 DEF Types, Control, Recorded, Gone
  <2>3. FreedByHandler'
    BY <2>1 DEF FreedByHandler
  <2>4. SafeSignals' /\ ShutdownReachesChildren'
    BY <2>1 DEF SafeSignals, ShutdownReachesChildren
  <2>5. SignalledBefore(killPos)' /\ SignalledBefore(intPos)'
    BY <2>1 DEF SignalledBefore
  <2> QED
    BY <2>2, <2>3, <2>4, <2>5
<1> QED
  BY <1>1, <1>2

LEMMA HandleIntKillInv ==
    ASSUME IInv, HandleIntKill
    PROVE  IInv'
<1>0. /\ ~Gone /\ intPos \in Nat /\ intPos \in 1 .. Len(children) /\ intPos' = intPos + 1
      /\ UNCHANGED <<list, killPos, forks>>
  BY DEF HandleIntKill, LastNode, bounds, IInv, Types
<1>1. CASE intPos \in freed
  <2>1. End("crash") /\ UNCHANGED <<freed, intr>>
    BY <1>1 DEF HandleIntKill
  <2>2. oom
    BY <1>0, <1>1 DEF IInv, FreedByHandler
  <2> QED
    BY <1>0, <2>1, <2>2, CrashInv
<1>2. CASE intPos \notin freed
  <2>1. /\ Signal({children[intPos]}) /\ freed' = freed \cup {intPos} /\ UNCHANGED <<pc, proc>>
    BY <1>2 DEF HandleIntKill
  <2> USE DEF IInv, list
  <2>2. SignalledBefore(intPos)' /\ intr \subseteq intr' /\ intr' \subseteq Pids
    BY <1>0, <2>1, SignalNext DEF Gone
  <2>3. pc \in {"recv", "forked", "kill"}
    BY <1>0 DEF Control, Types, Places, Gone
  <2>4. Types' /\ Control' /\ Recorded'
    BY <1>0, <2>1, <2>2, <2>3 DEF Types, Control, Recorded, Gone
  <2>5. SignalledBefore(killPos)'
    BY <1>0, <2>1, <2>2 DEF SignalledBefore
  <2>6. FreedByHandler'
    BY <1>0, <2>1 DEF FreedByHandler
  <2>7. SafeSignals' /\ ShutdownReachesChildren'
    BY <2>1, <2>3 DEF SafeSignals, ShutdownReachesChildren
  <2> QED
    BY <2>2, <2>4, <2>5, <2>6, <2>7
<1> QED
  BY <1>1, <1>2

\* The children, SIGCHLD, the user and other processes.
LEMMA OthersInv ==
    ASSUME IInv,
           \/ HandleChld
           \/ Interrupt
           \/ \E p \in Pids : ChildStep(p) \/ OtherStarts(p) \/ OtherEnds(p)
    PROVE  IInv'
<1> USE DEF bounds
<1>0. proc \in [Pids -> States] /\ intr \subseteq Pids /\ copy \in [Pids -> Seq(Pids)]
  BY DEF IInv, Types
<1>1. CASE HandleChld
  <2>1. UNCHANGED <<pc, list, loops, forks, intr>>
    BY <1>1 DEF HandleChld
  <2>2. proc' \in [Pids -> States] /\ \A p \in Pids : proc'[p] = "child" => proc[p] = "child"
    BY <1>0, <1>1 DEF HandleChld, States
  <2> QED
    BY <1>0, <2>1, <2>2, ProcessInv
<1>2. CASE Interrupt
  <2>1. UNCHANGED <<pc, list, loops, forks, proc>> /\ intr \subseteq intr' /\ intr' \subseteq Pids
    BY <1>0, <1>2 DEF Interrupt
  <2> QED
    BY <1>0, <2>1, ProcessInv
<1>3. ASSUME NEW p \in Pids, OtherStarts(p) \/ OtherEnds(p) PROVE IInv'
  <2>1. UNCHANGED <<pc, list, loops, forks, intr>>
    BY <1>3 DEF OtherStarts, OtherEnds
  <2>2. proc' \in [Pids -> States] /\ \A q \in Pids : proc'[q] = "child" => proc[q] = "child"
    BY <1>0, <1>3 DEF OtherStarts, OtherEnds, States
  <2> QED
    BY <1>0, <2>1, <2>2, ProcessInv
<1>4. ASSUME NEW p \in Pids, ChildStep(p) PROVE IInv'
  <2>1. UNCHANGED <<pc, list, loops, forks>> /\ Ended(p)
    BY <1>4 DEF ChildStep, ChildEnds, ChildInterrupted
  <2>2. /\ proc' \in [Pids -> States]
        /\ \A q \in Pids : proc'[q] = "child" => proc[q] = "child" /\ q # p
    BY <1>0, <2>1 DEF Ended, States
  <2>3. CASE ChildEnds(p)
    <3>1. intr' = intr \ {p}
      BY <2>3 DEF ChildEnds
    <3> QED
      BY <1>0, <2>1, <2>2, <3>1, ProcessInv
  <2>4. CASE ChildInterrupted(p)
    <3>1. \A q \in Pids : q \in intr /\ proc[q] = "child" /\ q # p => q \in intr'
      BY <2>4 DEF ChildInterrupted
    <3>2. intr' \subseteq Pids
      BY <2>4 DEF ChildInterrupted
    <3> QED
      BY <2>1, <2>2, <3>1, <3>2, ProcessInv
  <2> QED
    BY <1>4, <2>3, <2>4 DEF ChildStep
<1> QED
  BY <1>1, <1>2, <1>3, <1>4

LEMMA NextInv == IInv /\ [Next]_vars => IInv'
<1> SUFFICES ASSUME IInv, [Next]_vars PROVE IInv'
  OBVIOUS
<1>1. CASE MainStep
  <2>1. CASE Prepare
    BY <2>1, StartInv, MainExitsInv DEF Prepare
  <2> QED
    BY <1>1, <2>1, StartInv, ForkInv, AddInv, AddFailsInv, KillInv, MainExitsInv DEF MainStep
<1>2. CASE HandlerStep
  BY <1>2, HandleIntInv, HandleIntKillInv, MainExitsInv DEF HandlerStep
<1>3. CASE HandleChld \/ Interrupt \/ \E p \in Pids : ChildStep(p) \/ OtherStarts(p) \/ OtherEnds(p)
  BY <1>3, OthersInv
<1>4. CASE UNCHANGED vars
  BY <1>4, ProcessInv DEF vars, bounds, IInv, Types
<1> QED
  BY <1>1, <1>2, <1>3, <1>4 DEF Next

\* A listener that exits has signalled every running child that its list
\* records, for any number of children and any reuse of their pids
\* (ftpserver.c:203-208, 249-255, 261-265).
THEOREM ShutdownReachesChildrenHolds == Spec => []ShutdownReachesChildren
<1>1. IInv => ShutdownReachesChildren
  BY DEF IInv
<1> QED
  BY InitInv, NextInv, <1>1, PTL DEF Spec

\* Signals that arrive while requests are served cause no memory error unless
\* add_to_list ran out of memory (ftpserver.c:203-208, 251-253, 261-265).
THEOREM SafeSignalsHolds == Spec => []SafeSignals
<1>1. IInv => SafeSignals
  BY DEF IInv
<1> QED
  BY InitInv, NextInv, <1>1, PTL DEF Spec

-----------------------------------------------------------------------------
\* The loops of kill_children stay in the list.
InList ==
    /\ freed \subseteq 1 .. Len(children)
    /\ killPos <= Len(children) + 1
    /\ intPos <= Len(children) + 1

Small ==
    /\ sigchld \in BOOLEAN /\ sigint \in BOOLEAN /\ oom \in BOOLEAN
    /\ forks \in 0 .. MaxForks /\ ints \in 0 .. MaxInts

\* A step that leaves the list and the loops alone.
LEMMA SameLoops ==
    ASSUME InList, UNCHANGED <<children, loops>>
    PROVE  InList'
  BY DEF InList, loops

LEMMA InListNext ==
    ASSUME IInv, InList, [Next]_vars
    PROVE  InList'
<1>0. Len(children) \in Nat /\ killPos \in Nat /\ intPos \in Nat
  BY ChildrenArePids DEF IInv, Types
<1>1. CASE AddChild
  <2>1. UNCHANGED loops /\ children' = Append(children, new) /\ new \in Pids
    BY <1>1 DEF AddChild, At, IInv, Control
  <2>2. Len(children') = Len(children) + 1
    BY <2>1 DEF IInv, Types
  <2> QED
    BY <1>0, <2>1, <2>2 DEF InList, loops
<1>2. CASE AddChildFails
  BY <1>0, <1>2 DEF AddChildFails, InList
<1>3. CASE KillChild
  <2>1. /\ killPos <= Len(children) /\ killPos > 0
        /\ killPos' = killPos + 1 /\ freed' = freed \cup {killPos}
        /\ UNCHANGED <<children, intPos>>
    BY <1>3 DEF KillChild, At, LastNode, list, IInv, Control
  <2> QED
    BY <1>0, <2>1 DEF InList
<1>4. CASE HandleInt
  BY <1>0, <1>4 DEF HandleInt, InList, list
<1>5. CASE HandleIntKill
  <2>1. /\ intPos \in 1 .. Len(children)
        /\ intPos' = intPos + 1 /\ freed' \in {freed, freed \cup {intPos}}
        /\ UNCHANGED <<children, killPos>>
    BY <1>5 DEF HandleIntKill, LastNode, list
  <2> QED
    BY <1>0, <2>1 DEF InList
<1>6. CASE MainRefuses \/ MainRegisters \/ Prepare \/ (\E p \in Pids : Fork(p)) \/ KillDone
           \/ IntUnhandled \/ HandleIntExit
  <2>1. UNCHANGED <<children, loops>>
    BY <1>6 DEF MainRefuses, MainRegisters, Prepare, Fork, KillDone, IntUnhandled, HandleIntExit, list
  <2> QED
    BY <2>1, SameLoops
<1>7. CASE \/ HandleChld \/ Interrupt
           \/ \E p \in Pids : ChildStep(p) \/ OtherStarts(p) \/ OtherEnds(p)
           \/ UNCHANGED vars
  <2>1. UNCHANGED <<children, loops>>
    BY <1>7 DEF HandleChld, Interrupt, ChildStep, ChildEnds, ChildInterrupted, OtherStarts,
                OtherEnds, list, vars
  <2> QED
    BY <2>1, SameLoops
<1> QED
  BY <1>1, <1>2, <1>3, <1>4, <1>5, <1>6, <1>7 DEF Next, MainStep, HandlerStep

LEMMA SmallNext ==
    ASSUME Small, [Next]_vars
    PROVE  Small'
<1>0. MaxForks \in Nat /\ MaxInts \in Nat
  BY BoundsAssumption
<1>1. CASE MainStep
  <2>1. ASSUME NEW p \in Pids, Fork(p) PROVE Small'
    <3>1. /\ forks < MaxForks /\ forks' = forks + 1
          /\ UNCHANGED <<sigchld, sigint, oom, ints>>
      BY <2>1 DEF Fork
    <3>2. forks' \in 0 .. MaxForks
      BY <1>0, <3>1 DEF Small
    <3> QED
      BY <3>1, <3>2 DEF Small
  <2>2. CASE MainRefuses \/ MainRegisters \/ Prepare \/ AddChild \/ AddChildFails
             \/ KillChild \/ KillDone
    <3>1. oom' \in {oom, TRUE} /\ UNCHANGED <<sigchld, sigint, forks, ints>>
      BY <2>2 DEF MainRefuses, MainRegisters, Prepare, AddChild, AddChildFails, KillChild,
                  KillDone, list, bounds
    <3> QED
      BY <3>1 DEF Small
  <2> QED
    BY <1>1, <2>1, <2>2 DEF MainStep
<1>2. CASE HandlerStep \/ HandleChld \/ UNCHANGED vars
  <2>1. /\ sigchld' \in {sigchld, FALSE} /\ sigint' \in {sigint, FALSE}
        /\ UNCHANGED <<oom, forks, ints>>
    BY <1>2 DEF HandlerStep, IntUnhandled, HandleInt, HandleIntKill, HandleIntExit, HandleChld,
                list, bounds, vars
  <2> QED
    BY <2>1 DEF Small
<1>3. CASE Interrupt
  <2>1. ints < MaxInts /\ ints' = ints + 1 /\ sigint' = TRUE /\ UNCHANGED <<sigchld, oom, forks>>
    BY <1>3 DEF Interrupt, list
  <2>2. ints' \in 0 .. MaxInts
    BY <1>0, <2>1 DEF Small
  <2> QED
    BY <2>1, <2>2 DEF Small
<1>4. ASSUME NEW p \in Pids, ChildStep(p) \/ OtherStarts(p) \/ OtherEnds(p) PROVE Small'
  <2>1. sigchld' \in {sigchld, TRUE} /\ UNCHANGED <<sigint, oom, forks, ints>>
    BY <1>4 DEF ChildStep, ChildEnds, ChildInterrupted, Ended, OtherStarts, OtherEnds, list, bounds
  <2> QED
    BY <2>1 DEF Small
<1> QED
  BY <1>1, <1>2, <1>3, <1>4 DEF Next

\* The listener's variables keep their types; above all, the two loops of
\* kill_children, one of which may interrupt the other, never pass the end of
\* the list by more than the position where they stop (ftpserver.c:249-255,
\* 261-265).
THEOREM TypeCorrect == Spec => []TypeOK
<1>1. Init => InList /\ Small
  <2> HAVE Init
  <2>1. InList
    BY DEF Init, InList
  <2>2. sigchld = FALSE /\ sigint = FALSE /\ oom = FALSE
    BY DEF Init
  <2>3. forks \in 0 .. MaxForks /\ ints \in 0 .. MaxInts
    BY BoundsAssumption DEF Init
  <2>4. Small
    BY <2>2, <2>3, Zenon DEF Small
  <2> QED
    BY <2>1, <2>4
<1>2. IInv /\ InList /\ Small /\ [Next]_vars => (IInv /\ InList /\ Small)'
  BY NextInv, InListNext, SmallNext
<1>3. IInv /\ InList /\ Small => TypeOK
  <2> SUFFICES ASSUME IInv, InList, Small PROVE TypeOK
    OBVIOUS
  <2>1. Len(children) \in Nat
    BY ChildrenArePids DEF IInv
  <2>2. killPos \in 0 .. Len(children) + 1 /\ intPos \in 0 .. Len(children) + 1
    BY <2>1 DEF IInv, Types, InList
  <2>3. /\ pc \in Places /\ new \in Pids \cup {NoPid} /\ children \in Seq(Pids)
        /\ proc \in [Pids -> States] /\ copy \in [Pids -> Seq(Pids)] /\ intr \subseteq Pids
    BY DEF IInv, Types
  <2>4. freed \subseteq 1 .. Len(children)
    BY DEF InList
  <2> QED
    BY <2>2, <2>3, <2>4, Zenon DEF Small, TypeOK, Places, States
<1> QED
  BY InitInv, <1>1, <1>2, <1>3, PTL DEF Spec

=============================================================================
