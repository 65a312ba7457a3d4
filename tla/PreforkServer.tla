--------------------------- MODULE PreforkServer ---------------------------
(***************************************************************************)
(* tcp-server/src/core.rs, PreforkTcpServer: the parent forks num_children *)
(* children and pauses; every child asks for SIGTERM at its parent's death *)
(* and then accepts from the one listening socket they all share, serving  *)
(* a connection at a time.  Nobody waits for a child or replaces it.       *)
(***************************************************************************)
EXTENDS Integers, Sequences, FiniteSets

CONSTANTS
  Conns,        \* the connections clients may make
  NumChildren,  \* bound: the largest num_children; the code accepts 0
  Stuck,        \* the connections whose handler never returns
  NoConn

ASSUME PreforkAssumption ==
  /\ NumChildren \in Nat
  /\ Stuck \subseteq Conns
  /\ NoConn \notin Conns

Children == 0 .. NumChildren - 1

VARIABLES
  num,      \* num_children, which nothing changes
  pc,       \* the parent: "forking", "paused" or "dead"
  forked,   \* how many times it has called fork
  child,    \* where each child is
  cur,      \* the connection a child serves
  armed,    \* the children that have set PR_SET_PDEATHSIG
  signalled, \* the children to which SIGTERM is on its way
  orphans,  \* history: the children not yet at prctl when the parent died
  net,      \* what has become of each client's connection
  backlog   \* the connections established and not accepted, in order

vars == <<num, pc, forked, child, cur, armed, signalled, orphans, net, backlog>>

Gone == {"none", "failed", "exited"}
Alive == {i \in Children : child[i] \notin Gone}
Listening == pc # "dead" \/ Alive # {}

Init ==
  /\ num \in 0 .. NumChildren
  /\ pc = IF num = 0 THEN "paused" ELSE "forking"
  /\ forked = 0
  /\ child = [i \in Children |-> "none"]
  /\ cur = [i \in Children |-> NoConn]
  /\ armed = {} /\ signalled = {} /\ orphans = {}
  /\ net = [c \in Conns |-> "new"]
  /\ backlog = << >>

-----------------------------------------------------------------------------
(* The clients and the kernel, as for the other servers.                   *)

Connect(c) ==
  /\ net[c] = "new"
  /\ net' = [net EXCEPT ![c] = IF Listening THEN "backlog" ELSE "refused"]
  /\ backlog' = IF Listening THEN Append(backlog, c) ELSE backlog
  /\ UNCHANGED <<num, pc, forked, child, cur, armed, signalled, orphans>>

ResetBacklog ==
  /\ ~Listening
  /\ backlog # << >>
  /\ net' = [net EXCEPT ![Head(backlog)] = "reset"]
  /\ backlog' = Tail(backlog)
  /\ UNCHANGED <<num, pc, forked, child, cur, armed, signalled, orphans>>

-----------------------------------------------------------------------------
(* The parent.                                                             *)

(* Mutant: the range includes its upper bound. *)
Fork_OneMore(result) ==
  /\ pc = "forking"
  /\ child' = [child EXCEPT ![forked] = result]
  /\ forked' = forked + 1
  /\ pc' = IF forked' > num THEN "paused" ELSE "forking"
  /\ UNCHANGED <<num, cur, armed, signalled, orphans, net, backlog>>

(* A fork that fails is logged and not repeated. *)
Fork(result) ==
  /\ pc = "forking"
  /\ child' = [child EXCEPT ![forked] = result]
  /\ forked' = forked + 1
  /\ pc' = IF forked' = num THEN "paused" ELSE "forking"
  /\ UNCHANGED <<num, cur, armed, signalled, orphans, net, backlog>>

(* No handler is installed: the signal that ends pause ends the parent.    *)
(* The kernel signals the children that have asked for it, and only those. *)
ParentDies ==
  /\ pc # "dead"
  /\ pc' = "dead"
  /\ signalled' = armed
  /\ orphans' = {i \in Children : child[i] = "started"}
  /\ UNCHANGED <<num, forked, child, cur, armed, net, backlog>>

-----------------------------------------------------------------------------
(* A child.                                                                *)

(* Mutant: prctl is not called. *)
Arm_Skipped(i) ==
  /\ child[i] = "started"
  /\ child' = [child EXCEPT ![i] = "accepting"]
  /\ UNCHANGED <<num, pc, forked, cur, armed, signalled, orphans, net, backlog>>

(* prctl concerns only a death that is still to come. *)
Arm(i) ==
  /\ child[i] = "started"
  /\ child' = [child EXCEPT ![i] = "accepting"]
  /\ armed' = armed \cup {i}
  /\ UNCHANGED <<num, pc, forked, cur, signalled, orphans, net, backlog>>

Accept(i) ==
  /\ child[i] = "accepting"
  /\ backlog # << >>
  /\ child' = [child EXCEPT ![i] = "serving"]
  /\ cur' = [cur EXCEPT ![i] = Head(backlog)]
  /\ net' = [net EXCEPT ![Head(backlog)] = "accepted"]
  /\ backlog' = Tail(backlog)
  /\ UNCHANGED <<num, pc, forked, armed, signalled, orphans>>

(* Mutant: the stream is not dropped. *)
Drop_Leaks(i, next) ==
  /\ child' = [child EXCEPT ![i] = next]
  /\ cur' = [cur EXCEPT ![i] = NoConn]
  /\ UNCHANGED <<num, pc, forked, armed, signalled, orphans, net, backlog>>

(* The child is left without its connection, which the peer sees closed.   *)
Drop(i, next) ==
  /\ child' = [child EXCEPT ![i] = next]
  /\ cur' = [cur EXCEPT ![i] = NoConn]
  /\ net' = IF cur[i] = NoConn THEN net ELSE [net EXCEPT ![cur[i]] = "closed"]
  /\ UNCHANGED <<num, pc, forked, armed, signalled, orphans, backlog>>

(* handle_connection returns, with or without an error. *)
FinishService(i) ==
  /\ child[i] = "serving"
  /\ cur[i] \notin Stuck
  /\ Drop(i, "accepting")

(* prctl fails, the handler panics, or somebody kills the child. *)
ChildDies(i) == i \in Alive /\ Drop(i, "exited")

(* SIGTERM arrives: whatever the child does is cut off. *)
Terminated(i) == i \in signalled \cap Alive /\ Drop(i, "exited")

-----------------------------------------------------------------------------
Quiet ==
  /\ pc # "forking"
  /\ \A i \in Children : child[i] \in Gone \cup {"accepting"} /\ i \notin signalled \cap Alive
  /\ \A c \in Conns : net[c] # "new"
  /\ backlog # << >> => Alive = {} /\ pc = "paused"
  /\ UNCHANGED vars

ChildStep(i) == Arm(i) \/ Accept(i) \/ FinishService(i)

Next ==
  \/ \E result \in {"started", "failed"} : Fork(result)
  \/ ParentDies
  \/ \E i \in Children : ChildStep(i) \/ ChildDies(i) \/ Terminated(i)
  \/ \E c \in Conns : Connect(c)
  \/ ResetBacklog
  \/ Quiet

Spec == Init /\ [][Next]_vars

(***************************************************************************)
(* Processes run and signals arrive.  The children wait for the listener   *)
(* together: the kernel gives each connection to some child that waits.    *)
(***************************************************************************)
Fairness ==
  /\ WF_vars(\E result \in {"started", "failed"} : Fork(result))
  /\ WF_vars(ResetBacklog)
  /\ WF_vars(\E i \in Children : Accept(i))
  /\ \A i \in Children :
       WF_vars(Arm(i)) /\ WF_vars(FinishService(i)) /\ WF_vars(Terminated(i))

FairSpec == Spec /\ Fairness

-----------------------------------------------------------------------------
TypeOK ==
  /\ num \in 0 .. NumChildren
  /\ pc \in {"forking", "paused", "dead"}
  /\ forked \in 0 .. num
  /\ child \in [Children -> Gone \cup {"started", "accepting", "serving"}]
  /\ cur \in [Children -> Conns \cup {NoConn}]
  /\ armed \subseteq Children
  /\ signalled \subseteq Children
  /\ orphans \subseteq Children
  /\ net \in [Conns -> {"new", "backlog", "accepted", "closed", "refused", "reset"}]
  /\ backlog \in Seq(Conns)

(* Who has a connection and where it waits, seen from both sides. *)
AcceptedIsHeld == \A c \in Conns : net[c] = "accepted" <=> \E i \in Children : cur[i] = c
BacklogIsWaiting ==
  \A c \in Conns : net[c] = "backlog" <=> \E k \in DOMAIN backlog : backlog[k] = c
HeldOnce ==
  \A i, j \in Children :
    /\ cur[i] # NoConn <=> child[i] = "serving"
    /\ cur[i] = cur[j] /\ cur[i] # NoConn => i = j
ForkedInOrder == \A i \in Children : child[i] # "none" <=> i < forked

(* The listening socket is shared by all children and protected by         *)
(* nothing but accept: still a connection is served by exactly one child,  *)
(* which serves nothing else meanwhile, until it is closed; and no more    *)
(* children than were asked for are ever there.                            *)
EachStreamOneChild ==
  TypeOK /\ AcceptedIsHeld /\ BacklogIsWaiting /\ HeldOnce /\ ForkedInOrder

(* What makes it inductive: the parent stops forking in time, and a        *)
(* connection waits in one place of the backlog only.                      *)
ForksLeft == pc = "forking" => forked < num
WaitsOnce == \A j, k \in DOMAIN backlog : backlog[j] = backlog[k] => j = k

(* A child that accepts has armed itself: when the parent is dead, every   *)
(* child that lives has its signal coming or was not yet at prctl.         *)
ArmedAreSignalled ==
  /\ \A i \in Children : child[i] \in {"accepting", "serving"} => i \in armed
  /\ pc = "dead" => Alive \subseteq signalled \cup orphans

(* The inductive invariant. *)
PreforkInv == EachStreamOneChild /\ ForksLeft /\ WaitsOnce /\ ArmedAreSignalled

(* Nobody is left to accept although the address still answers. *)
Exhausted ==
  /\ pc # "forking"
  /\ \A i \in Children : child[i] \in Gone \/ cur[i] \in Stuck

(* A client waits for ever only when no child was asked for, or every      *)
(* child has died, failed to start or is kept by a peer that never ends:   *)
(* one child that is left serves everybody.                                *)
OneChildIsEnough ==
  \A c \in Conns \ Stuck :
    net[c] = "backlog" ~> net[c] \in {"closed", "reset"} \/ Exhausted

(* A parent that dies after its children have armed themselves takes them  *)
(* all with it, those in the middle of a service included, and the address *)
(* becomes free.                                                           *)
ArmedChildrenFollow == pc = "dead" /\ orphans = {} ~> ~Listening

(* core.rs sets the parent-death signal as the server's shutdown ("Not the *)
(* most graceful shutdown"): a parent that dies takes all children with it. *)
ShutdownIsComplete == pc = "dead" ~> Alive = {}

=============================================================================
