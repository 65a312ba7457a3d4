----------------------------- MODULE PoolServer -----------------------------
(***************************************************************************)
(* tcp-server/src/core.rs, ThreadPoolTcpServer: the accept loop hands each *)
(* connection to the pool of ThreadPool as a job that owns the stream.     *)
(*                                                                         *)
(* The module extends ThreadPool, with Jobs the connections that clients   *)
(* may make.  The owner of the pool is the main thread.  It leaves serve   *)
(* only with the process, so the pool is never dropped: when the process   *)
(* ends, every thread is cut off where it is.                              *)
(***************************************************************************)
EXTENDS ThreadPool

CONSTANTS
  FdLimit,  \* how many streams the process may have open
  NoConn

ASSUME ServerAssumption == FdLimit \in Nat \ {0} /\ NoConn \notin Jobs

Conns == Jobs

VARIABLES
  process,  \* "running" or "ended"
  inHand,   \* the connection accepted and not yet handed over
  net,      \* what has become of each client's connection
  backlog,  \* the connections established and not accepted, in order
  arrived   \* history: the connections established, in order

serverVars == <<process, inHand, net, backlog, arrived>>
allVars == <<vars, serverVars>>

Open == {c \in Conns : net[c] = "open"}

ServerInit ==
  /\ Init
  /\ process = "running"
  /\ inHand = NoConn
  /\ net = [c \in Conns |-> "new"]
  /\ backlog = << >>
  /\ arrived = << >>

-----------------------------------------------------------------------------
(* The clients and the kernel.                                             *)

(* The address is bound before the pool is made: clients connect already   *)
(* while its threads are created.                                          *)
Connect(c) ==
  /\ net[c] = "new"
  /\ \/ /\ process = "running"
        /\ net' = [net EXCEPT ![c] = "backlog"]
        /\ backlog' = Append(backlog, c)
        /\ arrived' = Append(arrived, c)
     \/ /\ process = "ended"
        /\ net' = [net EXCEPT ![c] = "refused"]
        /\ UNCHANGED <<backlog, arrived>>
  /\ UNCHANGED <<vars, process, inHand>>

ResetBacklog ==
  /\ process = "ended"
  /\ backlog # << >>
  /\ net' = [net EXCEPT ![Head(backlog)] = "reset"]
  /\ backlog' = Tail(backlog)
  /\ UNCHANGED <<vars, process, inHand, arrived>>

(* The kernel closes the streams of a process that has ended. *)
EndProcess ==
  /\ process' = "ended"
  /\ inHand' = NoConn
  /\ net' = [c \in Conns |-> IF net[c] = "open" THEN "cut" ELSE net[c]]
  /\ UNCHANGED <<backlog, arrived>>

ProcessDies == process = "running" /\ EndProcess /\ UNCHANGED vars

-----------------------------------------------------------------------------
(* The main thread.                                                        *)

CreateThread == process = "running" /\ SpawnWorker /\ UNCHANGED serverVars

(* The panic of ThreadPool::new unwinds out of main and takes the process  *)
(* and the threads already created with it.                                *)
CreateFails == process = "running" /\ SpawnFails /\ EndProcess

(* Mutant: the newest connection is accepted first. *)
Accept_Newest ==
  /\ process = "running" /\ owner = "ready" /\ inHand = NoConn
  /\ backlog # << >>
  /\ Cardinality(Open) < FdLimit
  /\ inHand' = backlog[Len(backlog)]
  /\ net' = [net EXCEPT ![inHand'] = "open"]
  /\ backlog' = SubSeq(backlog, 1, Len(backlog) - 1)
  /\ UNCHANGED <<vars, process, arrived>>

(* Without a free descriptor accept fails; the error is logged, the        *)
(* connection stays in the backlog and the loop tries again.               *)
Accept ==
  /\ process = "running" /\ owner = "ready" /\ inHand = NoConn
  /\ backlog # << >>
  /\ Cardinality(Open) < FdLimit
  /\ inHand' = Head(backlog)
  /\ net' = [net EXCEPT ![inHand'] = "open"]
  /\ backlog' = Tail(backlog)
  /\ UNCHANGED <<vars, process, arrived>>

(* execute never blocks: the channel has no bound. *)
HandOver ==
  /\ process = "running" /\ inHand # NoConn
  /\ Execute(inHand)
  /\ inHand' = NoConn
  /\ UNCHANGED <<process, net, backlog, arrived>>

-----------------------------------------------------------------------------
(* The workers.                                                            *)

(* The Sender lives as long as the process: recv does not fail here.       *)
TakesJob(w) ==
  /\ process = "running"
  /\ LockReceiver(w) \/ Recv(w) \/ Unlock(w)
  /\ UNCHANGED serverVars

(* Mutant: a panic leaves the stream open. *)
DropStream_NotInPanic(c, how) ==
  net' = [net EXCEPT ![c] = IF how = "panicked" THEN "open" ELSE "closed"]

(* The job owns the stream, which goes with it, in a panic as well. *)
DropStream(c, how) == net' = [net EXCEPT ![c] = "closed"]

ServiceEnds(w, how) ==
  /\ process = "running"
  /\ JobEnds(w, how)
  /\ DropStream(job[w], how)
  /\ UNCHANGED <<process, inHand, backlog, arrived>>

-----------------------------------------------------------------------------
(* Nobody has anything left to do. *)
Quiet ==
  /\ \A c \in Conns : net[c] \notin {"new", "backlog", "open"}
  /\ process = "ended" \/ \A w \in Workers : pc[w] \in {"lock", "recv"}
  /\ UNCHANGED allVars

MainStep == CreateThread \/ CreateFails \/ Accept \/ HandOver

ServerNext ==
  \/ MainStep
  \/ ProcessDies
  \/ \E w \in Workers :
       TakesJob(w) \/ \E how \in {"returned", "panicked"} : ServiceEnds(w, how)
  \/ \E c \in Conns : Connect(c)
  \/ ResetBacklog
  \/ Quiet

ServerSpec == ServerInit /\ [][ServerNext]_allVars

(* The fairness of ThreadPool, for the main thread and the workers of a    *)
(* process that runs; the kernel resets what nobody will accept.           *)
ServerFairness ==
  /\ WF_allVars(MainStep)
  /\ WF_allVars(ResetBacklog)
  /\ WF_allVars(process = "running" /\ UNCHANGED serverVars /\ \E w \in Workers : LockReceiver(w))
  /\ \A w \in Workers :
       /\ WF_allVars(pc[w] # "lock" /\ TakesJob(w))
       /\ WF_allVars(\E how \in {"returned", "panicked"} : ServiceEnds(w, how))

FairServer == ServerSpec /\ ServerFairness

-----------------------------------------------------------------------------
(* A stream is open exactly as long as somebody is responsible for it: the *)
(* main thread, the channel, or the worker whose job it is.  None leaks,   *)
(* and none is closed under a handler.                                     *)
StreamsHaveOwners ==
  process = "running" =>
    Open = ({inHand} \cup Range(queue) \cup {job[w] : w \in Workers}) \ {NoConn, NoJob}

(* The workers receive the connections in the order in which the clients   *)
(* connected, through the backlog, the main thread's hand and the channel. *)
(* It says nothing of the order in which the handlers start: a worker lets *)
(* the next one receive before it starts its own.                          *)
TakenInArrivalOrder ==
  /\ Len(taken) <= Len(arrived)
  /\ taken = SubSeq(arrived, 1, Len(taken))

(* The descriptors run out and the handlers panic, and yet a client is     *)
(* served or, if the process ends, sees its connection end: as long as     *)
(* fewer peers are silent than there are workers and descriptors.          *)
EveryClientSettled ==
  \A c \in Conns \ Stuck :
    net[c] = "backlog" /\ Cardinality(Stuck) < Size /\ Cardinality(Stuck) < FdLimit
      ~> net[c] \in {"closed", "reset", "cut"}

-----------------------------------------------------------------------------
(* What makes the safety invariants inductive.                             *)

ServerTypeOK ==
  /\ process \in {"running", "ended"}
  /\ inHand \in Conns \cup {NoConn}
  /\ net \in [Conns -> {"new", "backlog", "open", "closed", "refused", "reset", "cut"}]
  /\ backlog \in Seq(Conns)
  /\ arrived \in Seq(Conns)

(* As long as the process runs nobody drops the pool, and the main thread  *)
(* has a connection in its hands only in the accept loop.                  *)
ProcessAgrees ==
  /\ process = "running" => owner \in {"spawning", "ready"}
  /\ inHand # NoConn => process = "running" /\ owner = "ready"

(* Everybody arrives once, and what has arrived was submitted, is in the   *)
(* main thread's hands or waits in the backlog, in this order.             *)
ArrivalsAgree ==
  /\ IsInjective(arrived) /\ IsInjective(backlog)
  /\ \A c \in Range(arrived) : net[c] # "new"
  /\ \A c \in Range(backlog) : net[c] = "backlog"
  /\ process = "running" =>
       arrived = (IF inHand = NoConn THEN submitted ELSE Append(submitted, inHand)) \o backlog

(* The invariant the proofs carry from step to step. *)
ServerInv ==
  /\ PoolInv
  /\ ServerTypeOK
  /\ ProcessAgrees
  /\ ArrivalsAgree
  /\ StreamsHaveOwners
  /\ TakenInArrivalOrder

-----------------------------------------------------------------------------
(* The server as an implementation of the abstract service.                *)

(* A connection that is cut stays in the phase it was in. *)
ConnPhase(c) ==
  CASE net[c] = "backlog" -> "accepted"
    [] net[c] = "open"    -> IF HeldIn(c, {"run"}) THEN "serving" ELSE "accepted"
    [] net[c] = "closed"  -> "done"
    [] net[c] = "cut"     -> IF HeldIn(c, {"run"}) THEN "serving" ELSE "accepted"
    [] net[c] = "reset"   -> "refused"
    [] OTHER -> "new"

ServerService == INSTANCE BoundedService
  WITH Tasks <- Conns, Limit <- Size, MayRefuse <- TRUE,
       phase <- [c \in Conns |-> ConnPhase(c)]

(* Each connection is served once at most, Size at a time, and given up    *)
(* only before its service has begun.                                      *)
ServerImplementsService == ServerService!Spec

=============================================================================
