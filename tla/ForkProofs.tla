----------------------------- MODULE ForkProofs -----------------------------
(***************************************************************************)
(* Machine-checked proofs about ForkServer, for every set of connections,  *)
(* every limit and every set of handlers that never return.                *)
(***************************************************************************)
EXTENDS ForkServer, SequenceTheorems, FiniteSetTheorems, TLAPS

(* The set of children a parent has to wait for.                           *)
LEMMA UnreapedFinite ==
  /\ IsFiniteSet(Unreaped)
  /\ Cardinality(Unreaped) \in Nat
<1>1. Unreaped \in SUBSET Conns /\ IsFiniteSet(Conns)
  BY ForkAssumption DEF Unreaped
<1> QED  BY <1>1, FS_Subset, FS_CardinalityType

-----------------------------------------------------------------------------
(* What the steps do to the set of children that were not waited for.      *)

(* waitpid removes a child from the set and one from the counter, which is *)
(* not 0 then.                                                             *)
LEMMA ReapCounts ==
  ASSUME ForkInv, NEW c \in Conns, pc \in {"cleanup", "slot"}, Reap(c)
  PROVE  /\ active # 0
         /\ active' = active - 1
         /\ Cardinality(Unreaped') = Cardinality(Unreaped) - 1
<1>1. c \in Unreaped /\ Unreaped' = Unreaped \ {c}
  BY DEF Reap, Unreaped, Live, ForkInv, TypeOK
<1>2. Cardinality(Unreaped') = Cardinality(Unreaped) - 1
  BY <1>1, UnreapedFinite, FS_RemoveElement
<1>3. Cardinality(Unreaped) # 0
  BY <1>1, UnreapedFinite, FS_EmptySet
<1>4. active = Cardinality(Unreaped)
  BY DEF ForkInv, CounterExact, TypeOK
<1> QED  BY <1>2, <1>3, <1>4 DEF Reap

(* fork adds a child to the set, and leaves it within the limit.           *)
LEMMA ForkCounts ==
  ASSUME ForkInv, Fork
  PROVE  /\ active < limit
         /\ active = Cardinality(Unreaped)
         /\ Cardinality(Unreaped') = Cardinality(Unreaped) + 1
<1>1. cur \in Conns /\ child[cur] = "none"
  BY DEF Fork, ForkInv, HandAgrees, TypeOK
<1>2. cur \notin Unreaped /\ Unreaped' = Unreaped \cup {cur}
  BY <1>1 DEF Fork, Unreaped, Live, ForkInv, TypeOK
<1>3. Cardinality(Unreaped') = Cardinality(Unreaped) + 1
  BY <1>2, UnreapedFinite, FS_AddElement
<1>4. active = Cardinality(Unreaped)
  BY DEF Fork, ForkInv, CounterExact, TypeOK
<1>5. active < limit
  BY DEF Fork, ForkInv, SlotAgrees, HasSlot
<1> QED  BY <1>3, <1>4, <1>5

(* Whatever else happens, no child is added, and while the parent lives    *)
(* none is lost.                                                           *)
LEMMA OthersCount ==
  ASSUME ForkInv, [Next]_vars, ~Fork,
         ~ \E c \in Conns : Cleanup(c) \/ WaitForChild(c)
  PROVE  /\ Cardinality(Unreaped') <= Cardinality(Unreaped)
         /\ pc' # "dead" => Cardinality(Unreaped') = Cardinality(Unreaped)
<1> USE DEF Unreaped, Live, ForkInv, TypeOK
<1>1. Unreaped' \subseteq Unreaped /\ (pc' # "dead" => Unreaped' = Unreaped)
  <2>1. CASE UNCHANGED child
    BY <2>1
  <2>2. CASE ParentDies
    BY <2>2 DEF ParentDies
  <2>3. ASSUME NEW c \in Conns, CloseListener(c) \/ FinishService(c)
        PROVE  Unreaped' = Unreaped
    BY <2>3 DEF CloseListener, FinishService
  <2>4. ASSUME NEW c \in Conns, ChildExits(c) \/ ChildDies(c)
        PROVE  Unreaped' \subseteq Unreaped /\ (pc' # "dead" => Unreaped' = Unreaped)
    BY <2>4 DEF ChildExits, ChildDies, Exit
  <2> QED
    BY <2>1, <2>2, <2>3, <2>4
       DEF Next, vars, ParentStep, ChildStep, Accept, CleanupDone, TakeSlot, ForkFails,
           Count, Release, Connect, ResetBacklog, Quiet
<1>2. Unreaped' \in SUBSET Unreaped
  BY <1>1
<1> HIDE DEF Unreaped
<1>3. Cardinality(Unreaped') <= Cardinality(Unreaped)
  BY <1>2, UnreapedFinite, FS_Subset
<1> QED  BY <1>1, <1>3

-----------------------------------------------------------------------------
(* The counter and the limit.                                              *)

(* The step keeps the counter equal to the number of children.             *)
LEMMA StepCounter ==
  ASSUME ForkInv, [Next]_vars
  PROVE  active' \in Nat /\ CounterExact' /\ BoundedChildren'
<1> USE DEF CounterExact, BoundedChildren
<1>1. /\ active \in Nat /\ limit \in Nat /\ limit' = limit
      /\ Cardinality(Unreaped) \in Nat
      /\ CounterExact /\ BoundedChildren
  <2>1. limit' = limit
    BY DEF Next, vars, ParentStep, ChildStep, Accept, Cleanup, CleanupDone, WaitForChild,
           TakeSlot, Fork, ForkFails, Count, Release, ParentDies, CloseListener,
           FinishService, ChildExits, ChildDies, Exit, Connect, ResetBacklog, Quiet
  <2> QED  BY <2>1, UnreapedFinite, ForkAssumption DEF ForkInv, TypeOK
<1>2. CASE Fork
  BY <1>1, <1>2, ForkCounts DEF Fork
<1>3. ASSUME NEW c \in Conns, Cleanup(c) \/ WaitForChild(c)
      PROVE  active' \in Nat /\ CounterExact' /\ BoundedChildren'
  BY <1>1, <1>3, ReapCounts DEF Cleanup, WaitForChild
<1>4. CASE ~Fork /\ ~ \E c \in Conns : Cleanup(c) \/ WaitForChild(c)
  <2>1. /\ Cardinality(Unreaped') <= Cardinality(Unreaped)
        /\ pc' # "dead" => Cardinality(Unreaped') = Cardinality(Unreaped)
    BY <1>4, OthersCount
  <2>2. BoundedChildren'
    <3>1. Cardinality(Unreaped') \in Nat
      <4>1. Unreaped' \in SUBSET Conns /\ IsFiniteSet(Conns)
        BY ForkAssumption DEF Unreaped
      <4> QED  BY <4>1, FS_Subset, FS_CardinalityType
    <3> QED  BY <1>1, <2>1, <3>1
  <2>3. CASE Count
    BY <1>1, <2>1, <2>2, <2>3 DEF Count
  <2>4. CASE ~Count
    <3>1. active' = active
      BY <1>4, <2>4
         DEF Next, vars, ParentStep, ChildStep, Accept, CleanupDone, TakeSlot, ForkFails,
             Release, ParentDies, CloseListener, FinishService, ChildExits, ChildDies,
             Exit, Connect, ResetBacklog, Quiet
    <3>2. pc' # "dead" => (pc # "dead" /\ pc # "count" /\ pc' # "count") \/ UNCHANGED pc
      BY <1>4, <2>4
         DEF Next, vars, ParentStep, ChildStep, Accept, CleanupDone, TakeSlot, ForkFails,
             Release, ParentDies, CloseListener, FinishService, ChildExits, ChildDies,
             Exit, Connect, ResetBacklog, Quiet
    <3> QED  BY <1>1, <2>1, <2>2, <3>1, <3>2
  <2> QED  BY <2>3, <2>4
<1> QED  BY <1>2, <1>3, <1>4

-----------------------------------------------------------------------------
(* The parent's hand, the backlog and the descriptors.                     *)

(* The step keeps the types of everything but the counter.                 *)
LEMMA StepTypes == ASSUME ForkInv, [Next]_vars PROVE TypeOK'
<1> USE ForkAssumption
    DEF ForkInv, TypeOK, HandAgrees, Processes, ParentStates, Live
<1>1. active' \in Nat
  BY StepCounter
<1>2. CASE UNCHANGED vars \/ Quiet
  BY <1>2 DEF vars, Quiet
<1>3. CASE Accept
  <2>1. Head(backlog) \in Conns /\ Tail(backlog) \in Seq(Conns)
    BY <1>3, HeadTailProperties DEF Accept
  <2> QED  BY <1>1, <1>3, <2>1 DEF Accept
<1>4. CASE ResetBacklog
  <2>1. Head(backlog) \in Conns /\ Tail(backlog) \in Seq(Conns)
    BY <1>4, HeadTailProperties DEF ResetBacklog
  <2> QED  BY <1>1, <1>4, <2>1 DEF ResetBacklog
<1>5. CASE CleanupDone \/ TakeSlot \/ Fork \/ ForkFails \/ Count \/ Release \/ ParentDies
  BY <1>1, <1>5 DEF CleanupDone, TakeSlot, Fork, ForkFails, Count, Release, ParentDies
<1>6. ASSUME NEW c \in Conns, Cleanup(c) \/ WaitForChild(c) PROVE TypeOK'
  BY <1>1, <1>6 DEF Cleanup, WaitForChild, Reap
<1>7. ASSUME NEW c \in Conns, ChildStep(c) PROVE TypeOK'
  <2>1. /\ c \in Processes
        /\ UNCHANGED <<limit, pc, cur, active, net, backlog>>
        /\ \E st \in Live \cup {"zombie", "reaped"} : child' = [child EXCEPT ![c] = st]
        /\ \E held \in SUBSET fds[c] : fds' = [fds EXCEPT ![c] = held]
    BY <1>7 DEF ChildStep, CloseListener, FinishService, ChildExits, ChildDies, Exit
  <2> QED  BY <1>1, <2>1
<1>8. ASSUME NEW c \in Conns, Connect(c) PROVE TypeOK'
  <2>1. CASE Listening
    <3>1. /\ backlog' = Append(backlog, c) /\ net' = [net EXCEPT ![c] = "backlog"]
          /\ UNCHANGED <<limit, pc, cur, active, child, fds>>
      BY <1>8, <2>1 DEF Connect
    <3>2. backlog' \in Seq(Conns)
      BY <3>1
    <3> QED  BY <1>1, <3>1, <3>2
  <2>2. CASE ~Listening
    BY <1>1, <1>8, <2>2 DEF Connect
  <2> QED  BY <2>1, <2>2
<1> QED  BY <1>2, <1>3, <1>4, <1>5, <1>6, <1>7, <1>8 DEF Next, ParentStep

(* The step keeps what the parent has in its hands, and the backlog.       *)
LEMMA StepHand == ASSUME ForkInv, [Next]_vars PROVE HandAgrees' /\ BacklogAgrees' /\ SlotAgrees'
<1> USE ForkAssumption
    DEF ForkInv, TypeOK, HandAgrees, BacklogAgrees, SlotAgrees, HasSlot, Live
<1>1. CASE UNCHANGED vars \/ Quiet
  BY <1>1 DEF vars, Quiet
<1>2. CASE Accept
  <2>1. /\ Head(backlog) = backlog[1] /\ 1 \in DOMAIN backlog
        /\ Head(backlog) \in Conns /\ Tail(backlog) \in Seq(Conns)
        /\ \A i \in DOMAIN Tail(backlog) :
             i + 1 \in DOMAIN backlog /\ Tail(backlog)[i] = backlog[i + 1] /\ i + 1 # 1
    BY <1>2, HeadTailProperties, EmptySeq DEF Accept
  <2>2. child[Head(backlog)] = "none" /\ Head(backlog) # NoConn
    BY <2>1
  <2> QED  BY <1>2, <2>1, <2>2 DEF Accept
<1>3. CASE ResetBacklog
  <2>1. /\ Head(backlog) = backlog[1] /\ 1 \in DOMAIN backlog
        /\ Head(backlog) \in Conns /\ Tail(backlog) \in Seq(Conns)
        /\ \A i \in DOMAIN Tail(backlog) :
             i + 1 \in DOMAIN backlog /\ Tail(backlog)[i] = backlog[i + 1] /\ i + 1 # 1
    BY <1>3, HeadTailProperties, EmptySeq DEF ResetBacklog
  <2>2. child[Head(backlog)] = "none"
    BY <2>1
  <2> QED  BY <1>3, <2>1, <2>2 DEF ResetBacklog
<1>4. ASSUME NEW c \in Conns, Connect(c) PROVE HandAgrees' /\ BacklogAgrees' /\ SlotAgrees'
  <2>1. /\ DOMAIN backlog = 1 .. Len(backlog) /\ Len(backlog) \in Nat
        /\ DOMAIN Append(backlog, c) = 1 .. Len(backlog) + 1
        /\ \A i \in 1 .. Len(backlog) : Append(backlog, c)[i] = backlog[i]
        /\ Append(backlog, c)[Len(backlog) + 1] = c
    OBVIOUS
  <2>2. \A i \in 1 .. Len(backlog) : backlog[i] # c
    BY <1>4, <2>1 DEF Connect
  <2>3. HandAgrees' /\ SlotAgrees'
    BY <1>4 DEF Connect
  <2>4. CASE Listening
    <3>1. /\ backlog' = Append(backlog, c) /\ net' = [net EXCEPT ![c] = "backlog"]
          /\ net[c] = "new" /\ UNCHANGED child
      BY <1>4, <2>4 DEF Connect
    <3>2. \A d \in Conns : child'[d] # "none" => net'[d] = "accepted"
      BY <3>1
    <3>3. \A i \in DOMAIN backlog' : net'[backlog'[i]] = "backlog"
      BY <2>1, <2>2, <3>1
    <3>4. \A i, j \in DOMAIN backlog' : backlog'[i] = backlog'[j] => i = j
      BY <2>1, <2>2, <3>1
    <3> QED  BY <2>3, <3>2, <3>3, <3>4
  <2>5. CASE ~Listening
    BY <1>4, <2>1, <2>2, <2>5 DEF Connect
  <2> QED  BY <2>3, <2>4, <2>5
<1>5. CASE CleanupDone \/ TakeSlot \/ Fork \/ ForkFails \/ Count \/ Release \/ ParentDies
  BY <1>5 DEF CleanupDone, TakeSlot, Fork, ForkFails, Count, Release, ParentDies
<1>6. ASSUME NEW c \in Conns, Cleanup(c) \/ WaitForChild(c)
      PROVE  HandAgrees' /\ BacklogAgrees' /\ SlotAgrees'
  BY <1>6 DEF Cleanup, WaitForChild, Reap
<1>7. ASSUME NEW c \in Conns, ChildStep(c)
      PROVE  HandAgrees' /\ BacklogAgrees' /\ SlotAgrees'
  BY <1>7 DEF ChildStep, CloseListener, FinishService, ChildExits, ChildDies, Exit
<1> QED  BY <1>1, <1>2, <1>3, <1>4, <1>5, <1>6, <1>7 DEF Next, ParentStep

(* The step leaks no descriptor.  fork copies what the parent has, which   *)
(* is the listener and the connection it has just accepted.                *)
LEMMA StepDescriptors == ASSUME ForkInv, [Next]_vars PROVE DescriptorsHaveOwners'
<1> USE ForkAssumption
    DEF ForkInv, TypeOK, HandAgrees, BacklogAgrees, DescriptorsHaveOwners, Processes, Live
<1>1. CASE UNCHANGED <<fds, child, cur>>
  BY <1>1
<1>2. CASE Accept
  <2>1. Head(backlog) \in Conns
    BY <1>2, HeadTailProperties DEF Accept
  <2> QED  BY <1>2, <2>1 DEF Accept
<1>3. CASE Fork
  <2>1. cur \in Conns /\ cur # Parent
    BY <1>3 DEF Fork
  <2>2. \A c \in Conns \cap fds[Parent] : c = cur
    BY <2>1
  <2> QED  BY <1>3, <2>1, <2>2 DEF Fork
<1>4. CASE Release
  BY <1>4 DEF Release
<1>5. CASE ParentDies
  BY <1>5 DEF ParentDies
<1>6. ASSUME NEW c \in Conns, Cleanup(c) \/ WaitForChild(c) PROVE DescriptorsHaveOwners'
  BY <1>6 DEF Cleanup, WaitForChild, Reap
<1>7. ASSUME NEW c \in Conns, ChildStep(c) PROVE DescriptorsHaveOwners'
  BY <1>7 DEF ChildStep, CloseListener, FinishService, ChildExits, ChildDies, Exit
<1> QED
  BY <1>1, <1>2, <1>3, <1>4, <1>5, <1>6, <1>7
     DEF Next, vars, ParentStep, CleanupDone, TakeSlot, ForkFails, Count, Connect,
         ResetBacklog, Quiet

-----------------------------------------------------------------------------
(* The invariant of the server and what follows from it.                   *)

(* The invariant holds when nobody has connected.                          *)
LEMMA InitForkInv == Init => ForkInv
<1> SUFFICES ASSUME Init PROVE ForkInv
  OBVIOUS
<1>1. TypeOK
  BY ForkAssumption DEF Init, TypeOK, Processes, ParentStates
<1>2. HandAgrees /\ BacklogAgrees /\ SlotAgrees
  BY DEF Init, HandAgrees, BacklogAgrees, SlotAgrees
<1>3. CounterExact /\ BoundedChildren
  <2>1. Unreaped = {}
    BY DEF Init, Unreaped, Live
  <2>2. active = 0 /\ pc = "accept" /\ limit >= 0
    BY ForkAssumption DEF Init
  <2> QED  BY <2>1, <2>2, FS_EmptySet DEF CounterExact, BoundedChildren
<1>4. DescriptorsHaveOwners
  BY ForkAssumption DEF Init, DescriptorsHaveOwners, Processes
<1> QED  BY <1>1, <1>2, <1>3, <1>4 DEF ForkInv

(* The invariant ForkInv holds in every reachable state of every server.   *)
THEOREM ForkInvariant == Spec => []ForkInv
<1>1. ForkInv /\ [Next]_vars => ForkInv'
  BY StepTypes, StepHand, StepCounter, StepDescriptors DEF ForkInv
<1> QED  BY InitForkInv, <1>1, PTL DEF Spec

(* active_children never drifts from the number of children that were not  *)
(* waited for, whenever they end, and is never decremented at 0.           *)
THEOREM CounterIsExact == Spec => []CounterExact
<1>1. ForkInv => CounterExact
  BY DEF ForkInv
<1> QED  BY ForkInvariant, <1>1, PTL

(* There are never more than max_children children, zombies included.      *)
THEOREM ChildrenAreBounded == Spec => []BoundedChildren
<1>1. ForkInv => BoundedChildren
  BY DEF ForkInv
<1> QED  BY ForkInvariant, <1>1, PTL

(* The parent blocks for a slot only while it has a child to wait for,     *)
(* unless max_children is 0.                                               *)
THEOREM WaitsForSomebody == Spec => []NoFutileWait
<1>1. ForkInv => NoFutileWait
  <2> SUFFICES ASSUME ForkInv, pc = "slot", ~(active < limit), Unreaped = {}
               PROVE  limit = 0
    BY DEF NoFutileWait, HasSlot
  <2>1. active = 0
    BY FS_EmptySet DEF ForkInv, CounterExact, TypeOK
  <2> QED  BY <2>1, ForkAssumption DEF ForkInv, TypeOK
<1> QED  BY ForkInvariant, <1>1, PTL

(* fork leaks no client's stream to another child, and the listener stays  *)
(* with the parent and with children that have not run yet.                *)
THEOREM NoDescriptorLeaks == Spec => []DescriptorsHaveOwners
<1>1. ForkInv => DescriptorsHaveOwners
  BY DEF ForkInv
<1> QED  BY ForkInvariant, <1>1, PTL

-----------------------------------------------------------------------------
(* The server implements the abstract service.                             *)

(* One connection changes its phase and no other does.                     *)
LEMMA OneMoves ==
  ASSUME NEW t \in Conns, NEW from, NEW to,
         ConnPhase(t) = from, ConnPhase(t)' = to,
         \A c \in Conns \ {t} : ConnPhase(c)' = ConnPhase(c)
  PROVE  Service!Move(t, from, to)
  BY DEF Service!Move

(* No connection changes its phase.                                        *)
LEMMA NoneMoves ==
  ASSUME \A c \in Conns : ConnPhase(c)' = ConnPhase(c)
  PROVE  UNCHANGED [c \in Conns |-> ConnPhase(c)]
  OBVIOUS

(* A state of the server without connections is one of the service.        *)
LEMMA InitService == Init => Service!Init
  BY DEF Init, Service!Init, ConnPhase, Live

(* What serves is a child nobody has waited for.                           *)
LEMMA ServingIsUnreaped == Service!Serving \subseteq Unreaped
  BY DEF Service!Serving, ConnPhase, Unreaped

(* Each step of the server is one of the service, or none.                 *)
LEMMA StepService ==
  ASSUME ForkInv, [Next]_vars
  PROVE  [Service!Next]_([c \in Conns |-> ConnPhase(c)])
<1> DEFINE phase == [c \in Conns |-> ConnPhase(c)]
<1> USE ForkAssumption
    DEF ForkInv, TypeOK, HandAgrees, BacklogAgrees
<1>1. CASE UNCHANGED vars \/ Quiet
  BY <1>1, NoneMoves DEF vars, Quiet, ConnPhase
<1>2. CASE Accept
  <2>1. /\ Head(backlog) = backlog[1] /\ 1 \in DOMAIN backlog /\ Head(backlog) \in Conns
        /\ net[Head(backlog)] = "backlog" /\ child[Head(backlog)] = "none"
    BY <1>2, HeadTailProperties, EmptySeq DEF Accept
  <2>2. PICK t \in Conns : t = Head(backlog)
    BY <2>1
  <2>3. ConnPhase(t) = "new" /\ ConnPhase(t)' = "accepted"
    BY <1>2, <2>1, <2>2 DEF Accept, ConnPhase, Live
  <2>4. \A c \in Conns \ {t} : ConnPhase(c)' = ConnPhase(c)
    BY <1>2, <2>2 DEF Accept, ConnPhase, Live
  <2>5. Service!Accept(t)
    BY <2>3, <2>4, OneMoves DEF Service!Accept
  <2> QED  BY <2>5 DEF Service!Next
<1>3. CASE Fork
  <2>1. PICK t \in Conns : t = cur
    BY <1>3 DEF Fork
  <2>2. t # NoConn /\ child[t] = "none" /\ net[t] = "accepted"
    BY <1>3, <2>1 DEF Fork
  <2>3. ConnPhase(t) = "accepted" /\ ConnPhase(t)' = "serving"
    BY <1>3, <2>1, <2>2 DEF Fork, ConnPhase, Live
  <2>4. \A c \in Conns \ {t} : ConnPhase(c)' = ConnPhase(c)
    BY <1>3, <2>1 DEF Fork, ConnPhase, Live
  <2>5. Cardinality(Service!Serving) < MaxChildren
    <3>1. /\ Cardinality(Service!Serving) <= Cardinality(Unreaped)
          /\ Cardinality(Service!Serving) \in Nat
      <4>1. Service!Serving \in SUBSET Unreaped
        BY ServingIsUnreaped
      <4> HIDE DEF ForkInv
      <4> QED  BY <4>1, UnreapedFinite, FS_Subset, FS_CardinalityType
    <3>2. Cardinality(Unreaped) < limit
      BY <1>3, ForkCounts
    <3> QED  BY <3>1, <3>2, UnreapedFinite
  <2>6. Service!Start(t)
    <3>1. Service!Move(t, "accepted", "serving")
      BY <2>3, <2>4, OneMoves
    <3>2. Service!Cardinality(Service!Serving) = Cardinality(Service!Serving)
      BY DEF Service!Cardinality, Cardinality
    <3> QED  BY ONLY <2>5, <3>1, <3>2 DEF Service!Start
  <2> QED  BY <2>6 DEF Service!Next
<1>4. CASE ForkFails \/ (ParentDies /\ pc \in {"cleanup", "slot", "fork"})
  <2>1. PICK t \in Conns : t = cur
    BY <1>4 DEF ForkFails
  <2>2. t # NoConn /\ child[t] = "none" /\ net[t] = "accepted"
    BY <1>4, <2>1 DEF ForkFails
  <2>3. ConnPhase(t) = "accepted" /\ ConnPhase(t)' = "refused"
    BY <1>4, <2>1, <2>2 DEF ForkFails, ParentDies, ConnPhase, Live
  <2>4. ASSUME NEW c \in Conns \ {t} PROVE ConnPhase(c)' = ConnPhase(c)
    <3>1. CASE ForkFails
      BY <2>1, <3>1 DEF ForkFails, ConnPhase
    <3>2. CASE ParentDies
      <4>1. /\ net' = net
            /\ child'[c] = child[c] \/ (child[c] = "zombie" /\ child'[c] = "reaped")
            /\ cur # c /\ cur' # c
        BY <2>1, <3>2 DEF ParentDies
      <4> QED  BY <4>1 DEF ConnPhase, Live
    <3> QED  BY <1>4, <3>1, <3>2
  <2>5. Service!Refuse(t)
    BY <2>3, <2>4, OneMoves DEF Service!Refuse
  <2> QED  BY <2>5 DEF Service!Next
<1>5. CASE ParentDies /\ pc \notin {"cleanup", "slot", "fork"}
  BY <1>5, NoneMoves DEF ParentDies, ConnPhase, Live
<1>6. CASE CleanupDone \/ TakeSlot \/ Count \/ Release
  <2>1. \A c \in Conns : ConnPhase(c)' = ConnPhase(c)
    BY <1>6 DEF CleanupDone, TakeSlot, Count, Release, ConnPhase
  <2> QED  BY <2>1, NoneMoves
<1>7. ASSUME NEW c \in Conns, Cleanup(c) \/ WaitForChild(c) \/ CloseListener(c) \/ FinishService(c)
      PROVE  [Service!Next]_phase
  <2>1. \A d \in Conns : ConnPhase(d)' = ConnPhase(d)
    BY <1>7 DEF Cleanup, WaitForChild, Reap, CloseListener, FinishService, ConnPhase, Live
  <2> QED  BY <2>1, NoneMoves
<1>8. ASSUME NEW c \in Conns, ChildExits(c) \/ ChildDies(c) PROVE [Service!Next]_phase
  <2>1. ConnPhase(c) = "serving" /\ ConnPhase(c)' = "done"
    BY <1>8 DEF ChildExits, ChildDies, Exit, ConnPhase, Live
  <2>2. \A d \in Conns \ {c} : ConnPhase(d)' = ConnPhase(d)
    BY <1>8 DEF ChildExits, ChildDies, Exit, ConnPhase, Live
  <2>3. Service!Finish(c)
    BY ONLY <2>1, <2>2, OneMoves DEF Service!Finish
  <2> QED  BY <2>3 DEF Service!Next
<1>9. ASSUME NEW c \in Conns, Connect(c) PROVE [Service!Next]_phase
  <2>1. \A d \in Conns : ConnPhase(d)' = ConnPhase(d)
    BY <1>9 DEF Connect, ConnPhase, Live
  <2> QED  BY <2>1, NoneMoves
<1>10. CASE ResetBacklog
  <2>1. Head(backlog) = backlog[1] /\ 1 \in DOMAIN backlog /\ Head(backlog) \in Conns
    BY <1>10, HeadTailProperties, EmptySeq DEF ResetBacklog
  <2>2. \A d \in Conns : ConnPhase(d)' = ConnPhase(d)
    BY <1>10, <2>1 DEF ResetBacklog, ConnPhase, Live
  <2> QED  BY <2>2, NoneMoves
<1> QED
  BY <1>1, <1>2, <1>3, <1>4, <1>5, <1>6, <1>7, <1>8, <1>9, <1>10
     DEF Next, ParentStep, ChildStep

(* The fork-per-connection server implements BoundedService: each          *)
(* connection is served once at most, no more than max_children at a time, *)
(* and one that was accepted is given up only before its child exists.     *)
THEOREM ForkServerServes == Spec => ImplementsService
  BY InitService, ForkInvariant, StepService, PTL
     DEF Spec, ImplementsService, Service!Spec

=============================================================================
