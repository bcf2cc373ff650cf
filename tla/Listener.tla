------------------------------ MODULE Listener ------------------------------
(***************************************************************************)
(* The processes of the server (ftpserver.c): the listener, its list of    *)
(* children, SIGCHLD and SIGINT.  What a child does is in Requests; here it *)
(* runs until it ends.  The list is the queue that LinkedList implements.  *)
(*                                                                         *)
(* Process identifiers are reused: once a child has been reaped the kernel *)
(* may give its number to another child or to a process that is not ours,  *)
(* while the number stays in the list.                                     *)
(***************************************************************************)
EXTENDS Integers, Sequences

CONSTANTS
    Pids,       \* process identifiers the kernel hands out
    NoPid,
    MaxForks,   \* bound: children forked
    MaxInts     \* bound: interrupts by the user

ASSUME NoPidAssumption == NoPid \notin Pids
ASSUME BoundsAssumption == MaxForks \in Nat /\ MaxInts \in Nat

VARIABLES
    pc,         \* where the listener is, "exit" or "crash" when it is gone
    new,        \* *pid, what fork returned
    children,   \* the pids in the list
    freed,      \* positions in the list whose pid was freed
    killPos,    \* n in the kill_children of process_connections, 0: not called
    intPos,     \* n in the kill_children of signal_handler, 0: not called
    proc,       \* the kernel's process table
    copy,       \* the list as each child inherited it
    sigchld, sigint,   \* signals pending for the listener
    intr,       \* children with a SIGINT pending
    forks, ints,
    oom         \* history: malloc failed in add_to_list

list == <<new, children, copy, oom>>
loops == <<freed, killPos, intPos>>
bounds == <<forks, ints>>
vars == <<pc, list, loops, proc, sigchld, sigint, intr, bounds>>

Init ==
    /\ pc = "main"
    /\ new = NoPid
    /\ children = <<>>
    /\ freed = {}
    /\ killPos = 0
    /\ intPos = 0
    /\ proc = [p \in Pids |-> "none"]
    /\ copy = [p \in Pids |-> <<>>]
    /\ sigchld = FALSE
    /\ sigint = FALSE
    /\ intr = {}
    /\ forks = 0
    /\ ints = 0
    /\ oom = FALSE

Gone == pc \in {"exit", "crash"}

\* The main program runs; no signal handler does.
At(place) == pc = place /\ intPos = 0

\* The listener's end; what zombies it leaves are reaped by init.
End(how) ==
    /\ pc' = how
    /\ proc' = [p \in Pids |-> IF proc[p] = "zombie" THEN "none" ELSE proc[p]]

-----------------------------------------------------------------------------
(***************************************************************************)
(* main and process_connections.                                           *)
(***************************************************************************)

\* Bad arguments, a bad port or no socket.
MainRefuses ==
    /\ At("main")
    /\ End("exit")
    /\ UNCHANGED <<list, loops, sigchld, sigint, intr, bounds>>

\* The two handlers are registered; children is still NULL.
MainRegisters ==
    /\ At("main")
    /\ ~sigint
    /\ pc' = "registered"
    /\ UNCHANGED <<list, loops, proc, sigchld, sigint, intr, bounds>>

\* The list is made, or malloc fails.
Prepare ==
    /\ At("registered")
    /\ \/ pc' = "recv" /\ UNCHANGED proc
       \/ End("exit")
    /\ UNCHANGED <<list, loops, sigchld, sigint, intr, bounds>>

\* A datagram: fork returns p here and 0 in the child, which goes its own way
\* with a copy of the list.  An empty datagram, and fork failing, change
\* nothing.
Fork(p) ==
    /\ At("recv")
    /\ forks < MaxForks
    /\ proc[p] = "none"
    /\ proc' = [proc EXCEPT ![p] = "child"]
    /\ copy' = [copy EXCEPT ![p] = children]
    /\ new' = p
    /\ pc' = "forked"
    /\ forks' = forks + 1
    /\ UNCHANGED <<children, oom, loops, sigchld, sigint, intr, ints>>

\* Mutant: the pid is freed before it is added.
AddChildFreed ==
    /\ At("forked")
    /\ children' = Append(children, NoPid)
    /\ new' = NoPid
    /\ pc' = "recv"
    /\ UNCHANGED <<copy, oom, loops, proc, sigchld, sigint, intr, bounds>>

AddChild ==
    /\ At("forked")
    /\ children' = Append(children, new)
    /\ new' = NoPid
    /\ pc' = "recv"
    /\ UNCHANGED <<copy, oom, loops, proc, sigchld, sigint, intr, bounds>>

\* add_to_list fails.
AddChildFails ==
    /\ At("forked")
    /\ oom' = TRUE
    /\ killPos' = 1
    /\ pc' = "kill"
    /\ UNCHANGED <<new, children, copy, freed, intPos, proc, sigchld, sigint, intr,
                   bounds>>

\* kill reaches children only; a zombie, or a process that is not ours, is
\* none of this model's business.
Signal(ps) == intr' = intr \cup {p \in ps : proc[p] = "child"}

\* Mutant: the loop ends one node early.
LastNodeEarly == Len(children) - 1

LastNode == Len(children)

\* A turn of the loop in kill_children, called by process_connections, ...
KillChild ==
    /\ At("kill")
    /\ killPos <= LastNode
    /\ Signal({children[killPos]})
    /\ freed' = freed \cup {killPos}
    /\ killPos' = killPos + 1
    /\ UNCHANGED <<pc, list, intPos, proc, sigchld, sigint, bounds>>

\* ... and exit.
KillDone ==
    /\ At("kill")
    /\ killPos > LastNode
    /\ End("exit")
    /\ UNCHANGED <<list, loops, sigchld, sigint, intr, bounds>>

-----------------------------------------------------------------------------
(***************************************************************************)
(* signal_handler in the listener.  A handler interrupts the main program  *)
(* anywhere; SIGCHLD may also interrupt the handler of SIGINT.             *)
(***************************************************************************)

\* SIGINT before the handler is registered: the default action.
IntUnhandled ==
    /\ At("main")
    /\ sigint
    /\ End("exit")
    /\ UNCHANGED <<list, loops, sigchld, sigint, intr, bounds>>

\* SIGINT: the socket is closed and kill_children called; without a list it
\* reads through a null pointer.
HandleInt ==
    /\ sigint
    /\ pc \notin {"main", "exit", "crash"}
    /\ intPos = 0
    /\ sigint' = FALSE
    /\ IF pc = "registered"
        THEN End("crash") /\ UNCHANGED intPos
        ELSE intPos' = 1 /\ UNCHANGED <<pc, proc>>
    /\ UNCHANGED <<list, freed, killPos, sigchld, intr, bounds>>

\* A turn of the loop.  A pid that was freed is freed again: abort.
HandleIntKill ==
    /\ ~Gone
    /\ intPos \in 1 .. LastNode
    /\ intPos' = intPos + 1
    /\ IF intPos \in freed
        THEN End("crash") /\ UNCHANGED <<freed, intr>>
        ELSE /\ Signal({children[intPos]})
             /\ freed' = freed \cup {intPos}
             /\ UNCHANGED <<pc, proc>>
    /\ UNCHANGED <<list, killPos, sigchld, sigint, bounds>>

\* Mutant: the handler returns.
HandleIntReturns ==
    /\ ~Gone
    /\ intPos > LastNode
    /\ intPos' = 0
    /\ UNCHANGED <<pc, list, freed, killPos, proc, sigchld, sigint, intr, bounds>>

HandleIntExit ==
    /\ ~Gone
    /\ intPos > LastNode
    /\ End("exit")
    /\ UNCHANGED <<list, loops, sigchld, sigint, intr, bounds>>

\* Mutant: one waitpid per signal.
HandleChldOnce ==
    /\ sigchld
    /\ pc # "main" /\ ~Gone
    /\ sigchld' = FALSE
    /\ \E p \in Pids : proc[p] = "zombie" /\ proc' = [proc EXCEPT ![p] = "none"]
    /\ UNCHANGED <<pc, list, loops, sigint, intr, bounds>>

\* SIGCHLD: waitpid until there is no zombie.  The list stays as it is.
HandleChld ==
    /\ sigchld
    /\ pc # "main" /\ ~Gone
    /\ sigchld' = FALSE
    /\ proc' = [p \in Pids |-> IF proc[p] = "zombie" THEN "none" ELSE proc[p]]
    /\ UNCHANGED <<pc, list, loops, sigint, intr, bounds>>

-----------------------------------------------------------------------------
(***************************************************************************)
(* The children, the user and other processes.                             *)
(***************************************************************************)

\* A process ends: it waits as a zombie for the listener, if there is one.
\* SIGCHLD is not queued: one that is pending stands for all.
Ended(p) ==
    /\ proc' = [proc EXCEPT ![p] = IF Gone THEN "none" ELSE "zombie"]
    /\ sigchld' = TRUE

\* copy_file returns or exits.
ChildEnds(p) ==
    /\ proc[p] = "child"
    /\ Ended(p)
    /\ intr' = intr \ {p}
    /\ UNCHANGED <<pc, list, loops, sigint, bounds>>

\* A child has inherited the handler, and signals the siblings in its copy.
ChildInterrupted(p) ==
    /\ proc[p] = "child"
    /\ p \in intr
    /\ Ended(p)
    /\ intr' = (intr \cup {copy[p][i] : i \in 1 .. Len(copy[p])}) \cap
               {q \in Pids \ {p} : proc[q] = "child"}
    /\ UNCHANGED <<pc, list, loops, sigint, bounds>>

\* kill -INT to the listener, or Ctrl-C for all of its process group.
Interrupt ==
    /\ ints < MaxInts
    /\ ~Gone
    /\ ints' = ints + 1
    /\ sigint' = TRUE
    /\ intr' \in {intr, intr \cup {p \in Pids : proc[p] = "child"}}
    /\ UNCHANGED <<pc, list, loops, proc, sigchld, forks>>

\* A process that is not ours gets a free number, ...
OtherStarts(p) ==
    /\ proc[p] = "none"
    /\ proc' = [proc EXCEPT ![p] = "other"]
    /\ UNCHANGED <<pc, list, loops, sigchld, sigint, intr, bounds>>

\* ... and ends.
OtherEnds(p) ==
    /\ proc[p] = "other"
    /\ proc' = [proc EXCEPT ![p] = "none"]
    /\ UNCHANGED <<pc, list, loops, sigchld, sigint, intr, bounds>>

-----------------------------------------------------------------------------

MainStep ==
    \/ MainRefuses \/ MainRegisters \/ Prepare
    \/ (\E p \in Pids : Fork(p)) \/ AddChild \/ AddChildFails
    \/ KillChild \/ KillDone

HandlerStep == IntUnhandled \/ HandleInt \/ HandleIntKill \/ HandleIntExit

ChildStep(p) == ChildEnds(p) \/ ChildInterrupted(p)

Next ==
    \/ MainStep
    \/ HandlerStep
    \/ HandleChld
    \/ Interrupt
    \/ \E p \in Pids : ChildStep(p) \/ OtherStarts(p) \/ OtherEnds(p)

Spec == Init /\ [][Next]_vars

(***************************************************************************)
(* The kernel delivers pending signals and the handlers run; every child   *)
(* ends (EventuallyIdle in Requests).  recvfrom need not return.           *)
(***************************************************************************)
Fairness ==
    /\ WF_vars(HandlerStep)
    /\ WF_vars(HandleChld)
    /\ \A p \in Pids : WF_vars(ChildStep(p))

FairSpec == Spec /\ Fairness

-----------------------------------------------------------------------------
(***************************************************************************)
(* Properties.                                                             *)
(***************************************************************************)

TypeOK ==
    /\ pc \in {"main", "registered", "recv", "forked", "kill", "exit", "crash"}
    /\ new \in Pids \cup {NoPid}
    /\ children \in Seq(Pids)
    /\ freed \subseteq 1 .. Len(children)
    /\ killPos \in 0 .. Len(children) + 1
    /\ intPos \in 0 .. Len(children) + 1
    /\ proc \in [Pids -> {"none", "child", "zombie", "other"}]
    /\ copy \in [Pids -> Seq(Pids)]
    /\ sigchld \in BOOLEAN /\ sigint \in BOOLEAN /\ oom \in BOOLEAN
    /\ intr \subseteq Pids
    /\ forks \in 0 .. MaxForks /\ ints \in 0 .. MaxInts

\* A listener that exits has sent SIGINT to each of its running children,
\* wherever the signal interrupted it and whatever pids were reaped and
\* reused before; the exception is a child that fork has just created and
\* add_to_list has not recorded, or could not (ftpserver.c:203-208, 249-255,
\* 261-265).
ShutdownReachesChildren ==
    pc = "exit" => \A p \in Pids : proc[p] = "child" => p \in intr \/ p = new

\* Once the listener serves requests, its signal handlers read only memory
\* that is allocated, unless add_to_list ran out of memory: then SIGINT can
\* interrupt the kill_children of process_connections and free pids twice
\* (ftpserver.c:203-208, 251-253, 261-265).
SafeSignals == pc = "crash" => forks = 0 \/ oom

\* Every child that has ended is reaped while the listener runs, although
\* several may end before one SIGCHLD is delivered (ftpserver.c:266-279).
ZombiesReaped == \A p \in Pids : proc[p] = "zombie" ~> proc[p] # "zombie"

\* After SIGINT no process of the server is left (ftpserver.c:261-265).
InterruptEndsAll ==
    sigint ~> Gone /\ \A p \in Pids : proc[p] \notin {"child", "zombie"}

=============================================================================
