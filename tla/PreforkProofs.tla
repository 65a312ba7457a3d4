--------------------------- MODULE PreforkProofs ---------------------------
(***************************************************************************)
(* Machine-checked proofs about PreforkServer, for every set of            *)
(* connections, every number of children and every set of handlers that    *)
(* never return.                                                           *)
(***************************************************************************)
EXTENDS PreforkServer, SequenceTheorems, TLAPS

-----------------------------------------------------------------------------
(* The backlog.                                                            *)

(* A connection that leaves the backlog was waiting there, is not left     *)
(* behind in it, and nothing else has left.                                *)
LEMMA HeadLeaves ==
  ASSUME PreforkInv, backlog # << >>
  PROVE  /\ Head(backlog) \in Conns
         /\ net[Head(backlog)] = "backlog"
         /\ Tail(backlog) \in Seq(Conns)
         /\ \A c \in Conns :
              (\E k \in DOMAIN Tail(backlog) : Tail(backlog)[k] = c)
                <=> net[c] = "backlog" /\ c # Head(backlog)
         /\ \A j, k \in DOMAIN Tail(backlog) : Tail(backlog)[j] = Tail(backlog)[k] => j = k
<1>1. backlog \in Seq(Conns)
  BY DEF PreforkInv, EachStreamOneChild, TypeOK
<1>2. /\ Len(backlog) \in Nat /\ Len(backlog) > 0 /\ DOMAIN backlog = 1 .. Len(backlog)
      /\ Head(backlog) = backlog[1] /\ Head(backlog) \in Conns
      /\ Tail(backlog) \in Seq(Conns) /\ DOMAIN Tail(backlog) = 1 .. Len(backlog) - 1
      /\ \A k \in 1 .. Len(backlog) - 1 : Tail(backlog)[k] = backlog[k + 1]
  BY <1>1, HeadTailProperties, EmptySeq
<1>3. /\ \A k \in 1 .. Len(backlog) - 1 : k + 1 \in 1 .. Len(backlog) /\ k + 1 # 1
      /\ \A k \in 1 .. Len(backlog) : k # 1 => k - 1 \in 1 .. Len(backlog) - 1 /\ (k - 1) + 1 = k
  BY <1>2
<1>4. net[Head(backlog)] = "backlog"
  BY <1>2 DEF PreforkInv, EachStreamOneChild, BacklogIsWaiting
<1>5. \A c \in Conns :
        (\E k \in DOMAIN Tail(backlog) : Tail(backlog)[k] = c)
          <=> net[c] = "backlog" /\ c # Head(backlog)
  <2> SUFFICES ASSUME NEW c \in Conns
               PROVE  (\E k \in DOMAIN Tail(backlog) : Tail(backlog)[k] = c)
                        <=> net[c] = "backlog" /\ c # Head(backlog)
    OBVIOUS
  <2>1. ASSUME NEW k \in DOMAIN Tail(backlog), Tail(backlog)[k] = c
        PROVE  net[c] = "backlog" /\ c # Head(backlog)
    BY <1>2, <1>3, <2>1 DEF PreforkInv, WaitsOnce, EachStreamOneChild, BacklogIsWaiting
  <2>2. ASSUME net[c] = "backlog", c # Head(backlog)
        PROVE  \E k \in DOMAIN Tail(backlog) : Tail(backlog)[k] = c
    <3>1. PICK k \in 1 .. Len(backlog) : backlog[k] = c
      BY <1>2, <2>2 DEF PreforkInv, EachStreamOneChild, BacklogIsWaiting
    <3>2. k - 1 \in DOMAIN Tail(backlog) /\ Tail(backlog)[k - 1] = c
      BY <1>2, <1>3, <2>2, <3>1
    <3> QED  BY <3>2
  <2> QED  BY <2>1, <2>2
<1>6. ASSUME NEW j \in DOMAIN Tail(backlog), NEW k \in DOMAIN Tail(backlog),
             Tail(backlog)[j] = Tail(backlog)[k]
      PROVE  j = k
  BY <1>2, <1>3, <1>6 DEF PreforkInv, WaitsOnce
<1> QED  BY <1>2, <1>4, <1>5, <1>6

(* A connection that was never made joins the backlog once.                *)
LEMMA ConnJoins ==
  ASSUME PreforkInv, NEW c \in Conns, net[c] = "new"
  PROVE  /\ Append(backlog, c) \in Seq(Conns)
         /\ \A d \in Conns :
              (\E k \in DOMAIN Append(backlog, c) : Append(backlog, c)[k] = d)
                <=> net[d] = "backlog" \/ d = c
         /\ \A j, k \in DOMAIN Append(backlog, c) :
              Append(backlog, c)[j] = Append(backlog, c)[k] => j = k
<1>1. backlog \in Seq(Conns)
  BY DEF PreforkInv, EachStreamOneChild, TypeOK
<1>2. /\ Len(backlog) \in Nat /\ DOMAIN backlog = 1 .. Len(backlog)
      /\ Append(backlog, c) \in Seq(Conns)
      /\ DOMAIN Append(backlog, c) = 1 .. Len(backlog) + 1
      /\ \A k \in 1 .. Len(backlog) : Append(backlog, c)[k] = backlog[k]
      /\ Append(backlog, c)[Len(backlog) + 1] = c
  BY <1>1, AppendProperties
<1>3. \A k \in 1 .. Len(backlog) + 1 : k \in 1 .. Len(backlog) \/ k = Len(backlog) + 1
  BY <1>2
<1>4. \A k \in 1 .. Len(backlog) : backlog[k] # c
  BY <1>2 DEF PreforkInv, EachStreamOneChild, BacklogIsWaiting
<1>5. \A d \in Conns :
        (\E k \in DOMAIN Append(backlog, c) : Append(backlog, c)[k] = d)
          <=> net[d] = "backlog" \/ d = c
  <2>1. Len(backlog) + 1 \in DOMAIN Append(backlog, c)
    BY <1>2
  <2>2. \A k \in 1 .. Len(backlog) : k \in DOMAIN Append(backlog, c)
    BY <1>2
  <2> QED  BY <1>2, <1>3, <2>1, <2>2 DEF PreforkInv, EachStreamOneChild, BacklogIsWaiting
<1>6. \A j, k \in DOMAIN Append(backlog, c) :
        Append(backlog, c)[j] = Append(backlog, c)[k] => j = k
  BY <1>2, <1>3, <1>4 DEF PreforkInv, WaitsOnce
<1> QED  BY <1>2, <1>5, <1>6

-----------------------------------------------------------------------------
(* The steps, in the order of the module.                                  *)

(* A client that connects is put into the backlog, or refused.             *)
LEMMA StepConnect == ASSUME PreforkInv, NEW c \in Conns, Connect(c) PROVE PreforkInv'
<1> USE DEF PreforkInv, EachStreamOneChild
<1>1. /\ net[c] = "new"
      /\ UNCHANGED <<num, pc, forked, child, cur, armed, signalled, orphans>>
  BY DEF Connect
<1>2. CASE Listening
  <2>1. net' = [net EXCEPT ![c] = "backlog"] /\ backlog' = Append(backlog, c)
    BY <1>2 DEF Connect
  <2>2. TypeOK' /\ BacklogIsWaiting' /\ WaitsOnce'
    <3> HIDE DEF PreforkInv
    <3>1. TypeOK
      BY DEF PreforkInv
    <3>2. TypeOK'
      BY <1>1, <2>1, <3>1, ConnJoins DEF TypeOK
    <3>3. BacklogIsWaiting' /\ WaitsOnce'
      BY <1>1, <2>1, <3>1, ConnJoins DEF TypeOK, BacklogIsWaiting, WaitsOnce
    <3> QED  BY <3>2, <3>3
  <2>3. AcceptedIsHeld'
    BY <1>1, <2>1 DEF TypeOK, AcceptedIsHeld
  <2> QED
    BY <1>1, <2>2, <2>3 DEF HeldOnce, ForkedInOrder, ForksLeft, ArmedAreSignalled, Alive
<1>3. CASE ~Listening
  <2>1. net' = [net EXCEPT ![c] = "refused"] /\ backlog' = backlog
    BY <1>3 DEF Connect
  <2> QED
    BY <1>1, <2>1
       DEF TypeOK, AcceptedIsHeld, BacklogIsWaiting, HeldOnce, ForkedInOrder, ForksLeft,
           WaitsOnce, ArmedAreSignalled, Alive
<1> QED  BY <1>2, <1>3

(* The kernel resets what waits in the backlog of a listener that is gone. *)
LEMMA StepResetBacklog == ASSUME PreforkInv, ResetBacklog PROVE PreforkInv'
<1>1. /\ backlog # << >>
      /\ net' = [net EXCEPT ![Head(backlog)] = "reset"]
      /\ backlog' = Tail(backlog)
      /\ UNCHANGED <<num, pc, forked, child, cur, armed, signalled, orphans>>
  BY DEF ResetBacklog
<1>2. TypeOK
  BY DEF PreforkInv, EachStreamOneChild
<1>3. TypeOK' /\ BacklogIsWaiting' /\ WaitsOnce'
  BY <1>1, <1>2, HeadLeaves DEF TypeOK, BacklogIsWaiting, WaitsOnce
<1>4. AcceptedIsHeld'
  BY <1>1, <1>2, HeadLeaves DEF PreforkInv, EachStreamOneChild, TypeOK, AcceptedIsHeld
<1> QED
  BY <1>1, <1>3, <1>4
     DEF PreforkInv, EachStreamOneChild, HeldOnce, ForkedInOrder, ForksLeft,
         ArmedAreSignalled, Alive

(* fork starts the next child, or is logged and not repeated.              *)
LEMMA StepFork ==
  ASSUME PreforkInv, NEW result \in {"started", "failed"}, Fork(result)
  PROVE  PreforkInv'
<1> USE DEF PreforkInv, EachStreamOneChild
<1>1. /\ pc = "forking" /\ forked < num
      /\ child' = [child EXCEPT ![forked] = result]
      /\ forked' = forked + 1
      /\ pc' = IF forked + 1 = num THEN "paused" ELSE "forking"
      /\ UNCHANGED <<num, cur, armed, signalled, orphans, net, backlog>>
  BY DEF Fork, ForksLeft
<1>2. /\ NumChildren \in Nat /\ num \in Nat /\ forked \in Nat
      /\ forked \in Children /\ forked + 1 \in 0 .. num
  BY <1>1, PreforkAssumption DEF TypeOK, Children
<1>3. child[forked] = "none"
  BY <1>2 DEF ForkedInOrder
<1>4. TypeOK' /\ ForksLeft'
  BY <1>1, <1>2 DEF TypeOK, ForksLeft, Gone
<1>5. HeldOnce'
  BY <1>1, <1>2, <1>3 DEF TypeOK, HeldOnce
<1>6. ForkedInOrder'
  BY <1>1, <1>2 DEF TypeOK, ForkedInOrder, Children
<1>7. ArmedAreSignalled'
  BY <1>1, <1>2 DEF TypeOK, ArmedAreSignalled
<1> QED
  BY <1>1, <1>4, <1>5, <1>6, <1>7 DEF AcceptedIsHeld, BacklogIsWaiting, WaitsOnce

(* The parent's death signals every child that has armed itself.           *)
LEMMA StepParentDies == ASSUME PreforkInv, ParentDies PROVE PreforkInv'
  BY DEF PreforkInv, EachStreamOneChild, ParentDies, TypeOK, AcceptedIsHeld, BacklogIsWaiting,
         HeldOnce, ForkedInOrder, ForksLeft, WaitsOnce, ArmedAreSignalled, Alive, Gone

(* prctl arms a child.                                                     *)
LEMMA StepArm == ASSUME PreforkInv, NEW i \in Children, Arm(i) PROVE PreforkInv'
<1>1. /\ child[i] = "started"
      /\ child' = [child EXCEPT ![i] = "accepting"]
      /\ armed' = armed \cup {i}
      /\ UNCHANGED <<num, pc, forked, cur, signalled, orphans, net, backlog>>
  BY DEF Arm
<1>2. TypeOK' /\ AcceptedIsHeld' /\ BacklogIsWaiting' /\ WaitsOnce' /\ ForksLeft'
  BY <1>1
     DEF PreforkInv, EachStreamOneChild, TypeOK, AcceptedIsHeld, BacklogIsWaiting, ForksLeft,
         WaitsOnce, Gone
<1>3. HeldOnce' /\ ForkedInOrder'
  BY <1>1 DEF PreforkInv, EachStreamOneChild, TypeOK, HeldOnce, ForkedInOrder
<1>4. ArmedAreSignalled'
  BY <1>1 DEF PreforkInv, EachStreamOneChild, TypeOK, ArmedAreSignalled, Alive, Gone
<1> QED  BY <1>2, <1>3, <1>4 DEF PreforkInv, EachStreamOneChild

(* One child takes the oldest connection out of the shared backlog.        *)
LEMMA StepAccept == ASSUME PreforkInv, NEW i \in Children, Accept(i) PROVE PreforkInv'
<1>1. /\ child[i] = "accepting" /\ backlog # << >>
      /\ child' = [child EXCEPT ![i] = "serving"]
      /\ cur' = [cur EXCEPT ![i] = Head(backlog)]
      /\ net' = [net EXCEPT ![Head(backlog)] = "accepted"]
      /\ backlog' = Tail(backlog)
      /\ UNCHANGED <<num, pc, forked, armed, signalled, orphans>>
  BY DEF Accept
<1>2. TypeOK /\ Head(backlog) \in Conns /\ Head(backlog) # NoConn /\ net[Head(backlog)] = "backlog"
  BY <1>1, HeadLeaves, PreforkAssumption DEF PreforkInv, EachStreamOneChild
<1>3. cur[i] = NoConn /\ \A j \in Children : cur[j] # Head(backlog)
  BY <1>1, <1>2 DEF PreforkInv, EachStreamOneChild, HeldOnce, AcceptedIsHeld
<1>4. TypeOK' /\ BacklogIsWaiting' /\ WaitsOnce'
  BY <1>1, <1>2, HeadLeaves DEF TypeOK, BacklogIsWaiting, WaitsOnce
<1>5. AcceptedIsHeld'
  <2>1. \A j \in Children : cur'[j] = IF j = i THEN Head(backlog) ELSE cur[j]
    BY <1>1, <1>2 DEF TypeOK
  <2>2. \A c \in Conns : net'[c] = IF c = Head(backlog) THEN "accepted" ELSE net[c]
    BY <1>1, <1>2 DEF TypeOK
  <2>3. AcceptedIsHeld /\ NoConn \notin Conns
    BY PreforkAssumption DEF PreforkInv, EachStreamOneChild
  <2>4. \A c \in Conns : c # Head(backlog) =>
          ((\E j \in Children : cur'[j] = c) <=> (\E j \in Children : cur[j] = c))
    BY <1>2, <1>3, <2>1, <2>3
  <2> QED  BY <1>2, <2>1, <2>2, <2>3, <2>4 DEF AcceptedIsHeld
<1>6. HeldOnce'
  BY <1>1, <1>2, <1>3 DEF PreforkInv, EachStreamOneChild, TypeOK, HeldOnce
<1>7. ForkedInOrder' /\ ForksLeft' /\ ArmedAreSignalled'
  BY <1>1, <1>2
     DEF PreforkInv, EachStreamOneChild, TypeOK, ForkedInOrder, ForksLeft, ArmedAreSignalled,
         Alive, Gone
<1> QED  BY <1>4, <1>5, <1>6, <1>7 DEF PreforkInv, EachStreamOneChild

(* A child lets its connection go, and the peer sees it closed.            *)
LEMMA StepDrop ==
  ASSUME PreforkInv, NEW i \in Alive, NEW next \in {"accepting", "exited"}, Drop(i, next),
         next = "accepting" => child[i] = "serving"
  PROVE  PreforkInv'
<1> USE DEF PreforkInv, EachStreamOneChild
<1>1. /\ child' = [child EXCEPT ![i] = next]
      /\ cur' = [cur EXCEPT ![i] = NoConn]
      /\ UNCHANGED <<num, pc, forked, armed, signalled, orphans, backlog>>
  BY DEF Drop
<1>2. i \in Children /\ child[i] \notin Gone /\ NoConn \notin Conns
  BY PreforkAssumption DEF Alive
<1>3. HeldOnce' /\ ForkedInOrder' /\ ForksLeft' /\ WaitsOnce' /\ ArmedAreSignalled'
  BY <1>1, <1>2
     DEF TypeOK, HeldOnce, ForkedInOrder, ForksLeft, WaitsOnce, ArmedAreSignalled, Alive, Gone
<1>4. CASE cur[i] = NoConn
  <2>1. net' = net
    BY <1>4 DEF Drop
  <2>2. TypeOK' /\ AcceptedIsHeld' /\ BacklogIsWaiting'
    BY <1>1, <1>2, <1>4, <2>1 DEF TypeOK, Gone, AcceptedIsHeld, BacklogIsWaiting
  <2> QED  BY <1>3, <2>2
<1>5. CASE cur[i] # NoConn
  <2>1. net' = [net EXCEPT ![cur[i]] = "closed"] /\ cur[i] \in Conns
    BY <1>2, <1>5 DEF Drop, TypeOK
  <2>2. net[cur[i]] = "accepted" /\ \A j \in Children : cur[j] = cur[i] => j = i
    BY <1>2, <1>5, <2>1 DEF AcceptedIsHeld, HeldOnce
  <2>3. TypeOK' /\ BacklogIsWaiting'
    BY <1>1, <1>2, <2>1, <2>2 DEF TypeOK, Gone, BacklogIsWaiting
  <2>4. AcceptedIsHeld'
    BY <1>1, <1>2, <2>1, <2>2 DEF TypeOK, AcceptedIsHeld
  <2> QED  BY <1>3, <2>3, <2>4
<1> QED  BY <1>4, <1>5

-----------------------------------------------------------------------------
(* The invariant.                                                          *)

LEMMA InitPreforkInv == Init => PreforkInv
<1> SUFFICES ASSUME Init PROVE PreforkInv
  OBVIOUS
<1>1. NumChildren \in Nat /\ NoConn \notin Conns
  BY PreforkAssumption
<1>2. TypeOK
  BY <1>1 DEF Init, TypeOK, Gone
<1> QED
  BY <1>1, <1>2
     DEF Init, PreforkInv, EachStreamOneChild, AcceptedIsHeld, BacklogIsWaiting, HeldOnce,
         ForkedInOrder, ForksLeft, WaitsOnce, ArmedAreSignalled, Children

LEMMA StepPreforkInv == PreforkInv /\ [Next]_vars => PreforkInv'
<1> SUFFICES ASSUME PreforkInv, [Next]_vars PROVE PreforkInv'
  OBVIOUS
<1>1. CASE UNCHANGED vars \/ Quiet
  BY <1>1
     DEF vars, Quiet, PreforkInv, EachStreamOneChild, TypeOK, AcceptedIsHeld, BacklogIsWaiting,
         HeldOnce, ForkedInOrder, ForksLeft, WaitsOnce, ArmedAreSignalled, Alive
<1>2. ASSUME NEW i \in Children, FinishService(i) \/ ChildDies(i) \/ Terminated(i)
      PROVE  PreforkInv'
  <2>1. \/ Drop(i, "accepting") /\ child[i] = "serving"
        \/ Drop(i, "exited")
    BY <1>2 DEF FinishService, ChildDies, Terminated
  <2>2. i \in Alive
    BY <1>2 DEF FinishService, ChildDies, Terminated, Alive, Gone
  <2> QED  BY <2>1, <2>2, StepDrop
<1> QED
  BY <1>1, <1>2, StepConnect, StepResetBacklog, StepFork, StepParentDies, StepArm, StepAccept
     DEF Next, ChildStep

(* What relates the children, their connections, the backlog and the       *)
(* signals of core.rs's prefork server holds in every state.               *)
THEOREM PreforkInvariant == Spec => []PreforkInv
  BY InitPreforkInv, StepPreforkInv, PTL DEF Spec

(* Although nothing but accept arbitrates between the children, every      *)
(* connection is served by one of them at a time, which serves nothing     *)
(* else, and no child is started beyond those asked for.                   *)
THEOREM ConnectionsAreShared == Spec => []EachStreamOneChild
<1>1. PreforkInv => EachStreamOneChild
  BY DEF PreforkInv
<1> QED  BY <1>1, PreforkInvariant, PTL

(* At the parent's death SIGTERM is on its way to every child but those    *)
(* that had not yet called prctl: with no such child, to all of them.      *)
THEOREM DeathReachesTheArmed ==
  Spec => [](pc = "dead" /\ orphans = {} => Alive \subseteq signalled)
<1>1. PreforkInv => (pc = "dead" /\ orphans = {} => Alive \subseteq signalled)
  BY DEF PreforkInv, ArmedAreSignalled
<1> QED  BY <1>1, PreforkInvariant, PTL

=============================================================================
