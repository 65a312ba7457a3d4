----------------------------- MODULE ForkServer -----------------------------
(***************************************************************************)
(* tcp-server/src/core.rs, ForkPerConnectionTcpServer: the parent accepts  *)
(* a connection, collects the children that have ended, waits until fewer  *)
(* than max_children are left, forks a child for the connection, counts it *)
(* and drops its own copy of the stream.                                   *)
(*                                                                         *)
(* A child is named by the connection it was forked for.  Descriptors are  *)
(* explicit, because fork copies all of the parent's: a socket is closed   *)
(* for its peer only when the last process that has it has closed it.      *)
(***************************************************************************)
EXTENDS Integers, Sequences, FiniteSets

CONSTANTS
  Conns,        \* the connections clients may make
  MaxChildren,  \* bound: the largest max_children; the code accepts 0
  Stuck,        \* the connections whose handler never returns
  NoConn

Parent == "parent"
Listener == "listener"

ASSUME ForkAssumption ==
  /\ IsFiniteSet(Conns)
  /\ MaxChildren \in Nat
  /\ Stuck \subseteq Conns
  /\ Conns \cap {NoConn, Parent, Listener} = {}

VARIABLES
  limit,    \* max_children, which nothing changes
  pc,       \* where the parent is in serve
  cur,      \* the connection the parent has in its hands
  active,   \* active_children
  child,    \* the state of the child forked for each connection
  fds,      \* the descriptors of each process
  net,      \* what has become of each client's connection request
  backlog   \* the connections established and not accepted, in order

vars == <<limit, pc, cur, active, child, fds, net, backlog>>

Processes == Conns \cup {Parent}
ParentStates == {"accept", "cleanup", "slot", "fork", "count", "release", "dead"}
Live == {"started", "serving", "leaving"}

Unreaped == {c \in Conns : child[c] \in Live \cup {"zombie"}}
Listening == \E p \in Processes : Listener \in fds[p]

(* No process has the connection's socket any more: the peer sees its end. *)
Closed(c) == net[c] = "accepted" /\ \A p \in Processes : c \notin fds[p]

Init ==
  /\ limit \in 0 .. MaxChildren
  /\ pc = "accept"
  /\ cur = NoConn
  /\ active = 0
  /\ child = [c \in Conns |-> "none"]
  /\ fds = [p \in Processes |-> IF p = Parent THEN {Listener} ELSE {}]
  /\ net = [c \in Conns |-> "new"]
  /\ backlog = << >>

-----------------------------------------------------------------------------
(* The clients and the kernel.                                             *)

Connect(c) ==
  /\ net[c] = "new"
  /\ IF Listening
     THEN /\ net' = [net EXCEPT ![c] = "backlog"]
          /\ backlog' = Append(backlog, c)
     ELSE /\ net' = [net EXCEPT ![c] = "refused"]
          /\ UNCHANGED backlog
  /\ UNCHANGED <<limit, pc, cur, active, child, fds>>

(* What was never accepted is reset when the last listener is closed.      *)
ResetBacklog ==
  /\ ~Listening
  /\ backlog # << >>
  /\ net' = [net EXCEPT ![Head(backlog)] = "refused"]
  /\ backlog' = Tail(backlog)
  /\ UNCHANGED <<limit, pc, cur, active, child, fds>>

-----------------------------------------------------------------------------
(* The parent.                                                             *)

Accept ==
  /\ pc = "accept"
  /\ backlog # << >>
  /\ cur' = Head(backlog)
  /\ backlog' = Tail(backlog)
  /\ net' = [net EXCEPT ![cur'] = "accepted"]
  /\ fds' = [fds EXCEPT ![Parent] = @ \cup {cur'}]
  /\ pc' = "cleanup"
  /\ UNCHANGED <<limit, active, child>>

(* Mutant: the counter is not touched when a child is collected. *)
Reap_NotCounted(c) ==
  /\ child[c] = "zombie"
  /\ child' = [child EXCEPT ![c] = "reaped"]
  /\ UNCHANGED active

(* waitpid has returned a child. *)
Reap(c) ==
  /\ child[c] = "zombie"
  /\ child' = [child EXCEPT ![c] = "reaped"]
  /\ active' = active - 1

(* cleanup_finished_children: waitpid with WNOHANG until nothing is ready. *)
Cleanup(c) ==
  /\ pc = "cleanup"
  /\ Reap(c)
  /\ UNCHANGED <<limit, pc, cur, fds, net, backlog>>

CleanupDone ==
  /\ pc = "cleanup"
  /\ \A c \in Conns : child[c] # "zombie"
  /\ pc' = "slot"
  /\ UNCHANGED <<limit, cur, active, child, fds, net, backlog>>

(* Mutant: one child too many is let in. *)
HasSlot_OffByOne == active <= limit

HasSlot == active < limit

(* wait_for_available_slot: waitpid blocks while every child is running.   *)
(* Without a child it fails and the loop turns without changing anything.  *)
WaitForChild(c) ==
  /\ pc = "slot"
  /\ ~HasSlot
  /\ Reap(c)
  /\ UNCHANGED <<limit, pc, cur, fds, net, backlog>>

TakeSlot ==
  /\ pc = "slot"
  /\ HasSlot
  /\ pc' = "fork"
  /\ UNCHANGED <<limit, cur, active, child, fds, net, backlog>>

Fork ==
  /\ pc = "fork"
  /\ child' = [child EXCEPT ![cur] = "started"]
  /\ fds' = [fds EXCEPT ![cur] = fds[Parent]]
  /\ pc' = "count"
  /\ UNCHANGED <<limit, cur, active, net, backlog>>

(* Mutant: the counter moves before the result of fork is looked at. *)
ForkFails_Counted ==
  /\ pc = "fork"
  /\ pc' = "count"
  /\ UNCHANGED <<limit, cur, active, child, fds, net, backlog>>

(* The error is logged and the connection dropped. *)
ForkFails ==
  /\ pc = "fork"
  /\ pc' = "release"
  /\ UNCHANGED <<limit, cur, active, child, fds, net, backlog>>

(* Mutant: the fork is not counted. *)
Count_Forgotten ==
  /\ pc = "count"
  /\ pc' = "release"
  /\ UNCHANGED <<limit, cur, active, child, fds, net, backlog>>

Count ==
  /\ pc = "count"
  /\ active' = active + 1
  /\ pc' = "release"
  /\ UNCHANGED <<limit, cur, child, fds, net, backlog>>

(* Mutant: the parent keeps the stream. *)
Release_Keeps ==
  /\ pc = "release"
  /\ cur' = NoConn
  /\ pc' = "accept"
  /\ UNCHANGED <<limit, active, child, fds, net, backlog>>

(* The handler closure returns: the parent's copy of the stream is dropped. *)
Release ==
  /\ pc = "release"
  /\ fds' = [fds EXCEPT ![Parent] = @ \ {cur}]
  /\ cur' = NoConn
  /\ pc' = "accept"
  /\ UNCHANGED <<limit, active, child, net, backlog>>

(* The parent is killed.  Nobody collects for it: its children are handed  *)
(* to init.                                                                *)
ParentDies ==
  /\ pc # "dead"
  /\ pc' = "dead"
  /\ cur' = NoConn
  /\ fds' = [fds EXCEPT ![Parent] = {}]
  /\ child' = [c \in Conns |-> IF child[c] = "zombie" THEN "reaped" ELSE child[c]]
  /\ UNCHANGED <<limit, active, net, backlog>>

-----------------------------------------------------------------------------
(* A child.                                                                *)

(* Mutant: the child keeps the listening socket it inherited. *)
CloseListener_Skipped(c) ==
  /\ child[c] = "started"
  /\ child' = [child EXCEPT ![c] = "serving"]
  /\ UNCHANGED <<limit, pc, cur, active, fds, net, backlog>>

CloseListener(c) ==
  /\ child[c] = "started"
  /\ child' = [child EXCEPT ![c] = "serving"]
  /\ fds' = [fds EXCEPT ![c] = @ \ {Listener}]
  /\ UNCHANGED <<limit, pc, cur, active, net, backlog>>

(* handle_connection returns, with or without an error; the stream it was  *)
(* given is dropped.                                                       *)
FinishService(c) ==
  /\ child[c] = "serving"
  /\ c \notin Stuck
  /\ child' = [child EXCEPT ![c] = "leaving"]
  /\ fds' = [fds EXCEPT ![c] = @ \ {c}]
  /\ UNCHANGED <<limit, pc, cur, active, net, backlog>>

(* The process is gone and with it its descriptors. *)
Exit(c) ==
  /\ child' = [child EXCEPT ![c] = IF pc = "dead" THEN "reaped" ELSE "zombie"]
  /\ fds' = [fds EXCEPT ![c] = {}]
  /\ UNCHANGED <<limit, pc, cur, active, net, backlog>>

ChildExits(c) == child[c] = "leaving" /\ Exit(c)

(* A panic of the handler unwinds out of serve and ends the child as well  *)
(* as a signal does.                                                       *)
ChildDies(c) == child[c] \in {"started", "serving"} /\ Exit(c)

-----------------------------------------------------------------------------
Quiet ==
  /\ pc \in {"accept", "dead"}
  /\ backlog = << >>
  /\ \A c \in Conns : net[c] # "new" /\ child[c] \notin Live
  /\ UNCHANGED vars

ParentStep ==
  \/ Accept \/ CleanupDone \/ TakeSlot \/ Fork \/ ForkFails \/ Count \/ Release
  \/ \E c \in Conns : Cleanup(c) \/ WaitForChild(c)

ChildStep(c) == CloseListener(c) \/ FinishService(c) \/ ChildExits(c) \/ ChildDies(c)

Next ==
  \/ ParentStep
  \/ ParentDies
  \/ \E c \in Conns : ChildStep(c)
  \/ \E c \in Conns : Connect(c)
  \/ ResetBacklog
  \/ Quiet

Spec == Init /\ [][Next]_vars

(***************************************************************************)
(* The parent and each child run when they can; nobody is obliged to die,  *)
(* and no client is obliged to connect.                                    *)
(***************************************************************************)
Fairness ==
  /\ WF_vars(ParentStep)
  /\ WF_vars(ResetBacklog)
  /\ \A c \in Conns :
       WF_vars(CloseListener(c) \/ FinishService(c) \/ ChildExits(c))

FairSpec == Spec /\ Fairness

-----------------------------------------------------------------------------
TypeOK ==
  /\ limit \in 0 .. MaxChildren
  /\ pc \in ParentStates
  /\ cur \in Conns \cup {NoConn}
  /\ active \in Nat
  /\ child \in [Conns -> Live \cup {"none", "zombie", "reaped"}]
  /\ fds \in [Processes -> SUBSET (Conns \cup {Listener})]
  /\ net \in [Conns -> {"new", "backlog", "accepted", "refused"}]
  /\ backlog \in Seq(Conns)

(* active_children is not protected by anything but the order of the       *)
(* parent's steps, while children end at any moment.  It always equals the *)
(* number of children not yet waited for, except between fork and          *)
(* fetch_add: it never drifts and never wraps below zero.                  *)
CounterExact ==
  pc # "dead" =>
    active + (IF pc = "count" THEN 1 ELSE 0) = Cardinality(Unreaped)

(* There are never more than max_children processes, those that have ended *)
(* and were not collected included.                                        *)
BoundedChildren == Cardinality(Unreaped) <= limit

(* The parent blocks for a slot only when there is a child to wait for,   *)
(* with one exception: a server started with max_children 0, for which the *)
(* first connection makes the parent loop over a waitpid that fails.       *)
NoFutileWait ==
  pc = "slot" /\ ~HasSlot /\ Unreaped = {} => limit = 0

(* Descriptors do not leak through fork.  A client's socket is held by the *)
(* child forked for it, and by the parent while it hands it over: no       *)
(* sibling inherits it, so the client sees its end when its own child      *)
(* closes it.  The listening socket is held by the parent and by children  *)
(* that have not run yet: a handler that never ends does not keep the      *)
(* address from a server that is started again.                            *)
DescriptorsHaveOwners ==
  \A p \in Processes :
    /\ \A c \in Conns \cap fds[p] :
         \/ p = c /\ child[c] \in {"started", "serving"}
         \/ p = Parent /\ c = cur
    /\ Listener \in fds[p] => p = Parent \/ child[p] = "started"

(* Every connection is settled, whatever dies on the way: it is refused,   *)
(* or accepted and closed in the end, as long as fewer handlers than       *)
(* max_children never return.  (Such a handler's own connection stays.)    *)
EveryConnectionSettled ==
  \A c \in Conns \ Stuck :
    Cardinality(Stuck) < limit /\ net[c] = "backlog"
      ~> net[c] = "refused" \/ Closed(c)

-----------------------------------------------------------------------------
(* What makes the safety invariants inductive.                             *)

(* The parent has an accepted connection in its hands from accept to the   *)
(* end of the handler closure, and no child for it before it forks.        *)
HandAgrees ==
  /\ cur # NoConn <=> pc \in {"cleanup", "slot", "fork", "count", "release"}
  /\ cur # NoConn => net[cur] = "accepted"
  /\ pc \in {"cleanup", "slot", "fork"} => child[cur] = "none"

(* What is forked was accepted; what waits in the backlog waits there once. *)
BacklogAgrees ==
  /\ \A c \in Conns : child[c] # "none" => net[c] = "accepted"
  /\ \A i \in DOMAIN backlog : net[backlog[i]] = "backlog"
  /\ \A i, j \in DOMAIN backlog : backlog[i] = backlog[j] => i = j

(* Nothing is collected between the look at the counter and the fork, and  *)
(* nobody is left uncollected by a parent that is dead.                    *)
SlotAgrees ==
  /\ pc = "fork" => HasSlot
  /\ pc = "dead" => \A c \in Conns : child[c] # "zombie"

(* The invariant the proofs carry from step to step. *)
ForkInv ==
  /\ TypeOK
  /\ HandAgrees
  /\ BacklogAgrees
  /\ SlotAgrees
  /\ CounterExact
  /\ BoundedChildren
  /\ DescriptorsHaveOwners

-----------------------------------------------------------------------------
(* The server as an implementation of the abstract service.                *)

ConnPhase(c) ==
  CASE child[c] \in Live               -> "serving"
    [] child[c] \in {"zombie", "reaped"} -> "done"
    [] OTHER ->
         CASE net[c] # "accepted" -> "new"
           [] cur = c /\ pc \in {"cleanup", "slot", "fork"} -> "accepted"
           [] OTHER -> "refused"

Service == INSTANCE BoundedService
  WITH Tasks <- Conns, Limit <- MaxChildren, MayRefuse <- TRUE,
       phase <- [c \in Conns |-> ConnPhase(c)]

(* Each connection is served at most once, at most max_children at a time; *)
(* one that was accepted is given up only where fork fails or the parent   *)
(* dies.                                                                   *)
ImplementsService == Service!Spec

=============================================================================
