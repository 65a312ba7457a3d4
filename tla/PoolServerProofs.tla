-------------------------- MODULE PoolServerProofs --------------------------
(***************************************************************************)
(* Machine-checked proofs about PoolServer, for every set of connections,  *)
(* every pool size and every number of descriptors.  What the pool does    *)
(* inside the server was proved of the pool.                               *)
(***************************************************************************)
EXTENDS PoolServer, ThreadPoolProofs

-----------------------------------------------------------------------------
(* Sequences.                                                              *)

(* Appending to the second of two sequences appends to both.               *)
LEMMA AppendToConcat ==
  ASSUME NEW S, NEW s \in Seq(S), NEW t \in Seq(S), NEW e \in S
  PROVE  Append(s \o t, e) = s \o Append(t, e)
  OBVIOUS

(* The beginning of three sequences in a row is the first of them.         *)
LEMMA FirstOfThree ==
  ASSUME NEW S, NEW s \in Seq(S), NEW t \in Seq(S), NEW u \in Seq(S)
  PROVE  /\ Len(s) <= Len((s \o t) \o u)
         /\ s = SubSeq((s \o t) \o u, 1, Len(s))
<1> DEFINE all == (s \o t) \o u
<1>1. /\ Len(s) \in Nat /\ Len(t) \in Nat /\ Len(u) \in Nat
      /\ s \o t \in Seq(S) /\ all \in Seq(S)
      /\ Len(s \o t) = Len(s) + Len(t)
      /\ Len(all) = Len(s) + Len(t) + Len(u)
  BY ConcatProperties
<1>2. \A i \in 1 .. Len(s) : all[i] = s[i]
  BY <1>1, ConcatProperties
<1>3. /\ SubSeq(all, 1, Len(s)) \in Seq(S)
      /\ Len(SubSeq(all, 1, Len(s))) = Len(s)
      /\ \A i \in 1 .. Len(s) : SubSeq(all, 1, Len(s))[i] = all[i]
  BY <1>1, SubSeqProperties
<1>4. s = SubSeq(all, 1, Len(s))
  BY <1>2, <1>3, SeqEqual
<1> QED  BY <1>1, <1>4

(* The beginning of a sequence without repetition has none.                *)
LEMMA BeginningIsInjective ==
  ASSUME NEW S, NEW s \in Seq(S), NEW t \in Seq(S), IsInjective(s \o t)
  PROVE  IsInjective(s)
<1>1. /\ DOMAIN s = 1 .. Len(s) /\ DOMAIN (s \o t) = 1 .. Len(s) + Len(t)
      /\ Len(s) \in Nat /\ Len(t) \in Nat
      /\ \A i \in 1 .. Len(s) : (s \o t)[i] = s[i]
  BY ConcatProperties
<1> QED  BY <1>1 DEF IsInjective

(* The last element of a sequence without repetition is not before it.     *)
LEMMA LastIsNew ==
  ASSUME NEW S, NEW s \in Seq(S), NEW e \in S, IsInjective(Append(s, e))
  PROVE  e \notin Range(s)
<1>1. /\ DOMAIN s = 1 .. Len(s) /\ DOMAIN Append(s, e) = 1 .. Len(s) + 1
      /\ Len(s) \in Nat
      /\ \A i \in 1 .. Len(s) : Append(s, e)[i] = s[i]
      /\ Append(s, e)[Len(s) + 1] = e
  OBVIOUS
<1> QED  BY <1>1 DEF IsInjective, Range

(* Taking the head off a sequence without repetition leaves one without.   *)
LEMMA TailIsInjective ==
  ASSUME NEW S, NEW s \in Seq(S), s # << >>, IsInjective(s)
  PROVE  IsInjective(Tail(s)) /\ Head(s) \notin Range(Tail(s))
<1>1. /\ Head(s) = s[1] /\ Len(s) \in Nat /\ Len(s) > 0
      /\ DOMAIN s = 1 .. Len(s) /\ DOMAIN Tail(s) = 1 .. Len(s) - 1
      /\ \A i \in 1 .. Len(s) - 1 : Tail(s)[i] = s[i + 1]
      /\ \A i \in 1 .. Len(s) - 1 : i + 1 \in 1 .. Len(s) /\ i + 1 # 1
  BY HeadTailProperties, EmptySeq
<1>2. IsInjective(Tail(s))
  BY <1>1 DEF IsInjective
<1>3. Head(s) \notin Range(Tail(s))
  BY <1>1 DEF IsInjective, Range
<1> QED  BY <1>2, <1>3

-----------------------------------------------------------------------------
(* The server's pool is a pool.                                            *)

(* Each step of the server is one of the pool, or leaves the pool alone.   *)
LEMMA StepIsPoolStep == ASSUME ServerTypeOK, [ServerNext]_allVars PROVE [Next]_vars
<1>1. CASE UNCHANGED vars
  BY <1>1
<1>2. CASE CreateThread \/ CreateFails
  BY <1>2 DEF CreateThread, CreateFails, Next, OwnerStep
<1>3. CASE HandOver
  <2>1. PICK j \in Jobs : j = inHand
    BY <1>3 DEF HandOver, ServerTypeOK, Conns
  <2>2. Execute(j)
    BY <1>3, <2>1 DEF HandOver
  <2> QED  BY <2>2 DEF Next, OwnerStep
<1>4. ASSUME NEW w \in Workers, TakesJob(w) PROVE [Next]_vars
  BY <1>4 DEF TakesJob, Next, WorkerStep
<1>5. ASSUME NEW w \in Workers, NEW how \in {"returned", "panicked"}, ServiceEnds(w, how)
      PROVE  [Next]_vars
  BY <1>5 DEF ServiceEnds, Next, WorkerStep
<1> QED
  BY <1>1, <1>2, <1>3, <1>4, <1>5
     DEF ServerNext, allVars, MainStep, Accept, ProcessDies, Connect, ResetBacklog, Quiet

(* The pool's invariant holds inside the server.                           *)
LEMMA StepPoolInv ==
  ASSUME PoolInv, ServerTypeOK, [ServerNext]_allVars
  PROVE  PoolInv'
  BY StepIsPoolStep, StepFrame, StepLock, StepDrained, StepOnce, StepFifo, StepOnePlace
     DEF PoolInv, Frame

-----------------------------------------------------------------------------
(* Types, the process and the order of arrival.                            *)

(* The step keeps the server's types and the state of its process.         *)
LEMMA StepProcess ==
  ASSUME ServerInv, [ServerNext]_allVars
  PROVE  ServerTypeOK' /\ ProcessAgrees'
<1> USE ServerAssumption DEF ServerInv, ServerTypeOK, ProcessAgrees, Conns
<1>1. CASE UNCHANGED allVars \/ Quiet
  BY <1>1 DEF allVars, vars, serverVars, Quiet
<1>2. CASE CreateThread
  BY <1>2 DEF CreateThread, SpawnWorker, serverVars
<1>3. CASE CreateFails \/ ProcessDies
  BY <1>3 DEF CreateFails, ProcessDies, EndProcess
<1>4. CASE Accept
  <2>1. Head(backlog) \in Conns /\ Tail(backlog) \in Seq(Conns)
    BY <1>4, HeadTailProperties DEF Accept
  <2> QED  BY <1>4, <2>1 DEF Accept, vars
<1>5. CASE HandOver
  BY <1>5 DEF HandOver, Execute
<1>6. ASSUME NEW w \in Workers, TakesJob(w) PROVE ServerTypeOK' /\ ProcessAgrees'
  BY <1>6 DEF TakesJob, LockReceiver, Recv, Unlock, serverVars
<1>7. ASSUME NEW w \in Workers, NEW how \in {"returned", "panicked"}, ServiceEnds(w, how)
      PROVE  ServerTypeOK' /\ ProcessAgrees'
  BY <1>7 DEF ServiceEnds, DropStream, JobEnds
<1>8. ASSUME NEW c \in Conns, Connect(c) PROVE ServerTypeOK' /\ ProcessAgrees'
  <2>1. UNCHANGED <<process, inHand, owner>>
    BY <1>8 DEF Connect, vars
  <2>2. CASE process = "running"
    <3>1. /\ net' = [net EXCEPT ![c] = "backlog"]
          /\ backlog' = Append(backlog, c) /\ arrived' = Append(arrived, c)
      BY <1>8, <2>2 DEF Connect
    <3>2. backlog' \in Seq(Conns) /\ arrived' \in Seq(Conns)
      BY <3>1
    <3> QED  BY <2>1, <3>1, <3>2
  <2>3. CASE process # "running"
    BY <1>8, <2>1, <2>3 DEF Connect
  <2> QED  BY <2>2, <2>3
<1>9. CASE ResetBacklog
  <2>1. Head(backlog) \in Conns /\ Tail(backlog) \in Seq(Conns)
    BY <1>9, HeadTailProperties DEF ResetBacklog
  <2> QED  BY <1>9, <2>1 DEF ResetBacklog, vars
<1> QED
  BY <1>1, <1>2, <1>3, <1>4, <1>5, <1>6, <1>7, <1>8, <1>9 DEF ServerNext, MainStep

(* The steps of the workers and the creation of threads keep the order.    *)
LEMMA StepArrivals ==
  ASSUME ServerInv, [ServerNext]_allVars
  PROVE  ArrivalsAgree'
<1> USE ServerAssumption DEF Conns
<1>1. /\ backlog \in Seq(Jobs) /\ arrived \in Seq(Jobs) /\ submitted \in Seq(Jobs)
      /\ IsInjective(arrived) /\ IsInjective(backlog)
      /\ ArrivalsAgree
      /\ inHand \in Jobs \cup {NoConn}
      /\ net \in [Jobs -> {"new", "backlog", "open", "closed", "refused", "reset", "cut"}]
  BY DEF ServerInv, ServerTypeOK, ArrivalsAgree, PoolInv, TypeOK
<1>2. CASE UNCHANGED <<process, inHand, net, backlog, arrived, submitted>>
  BY <1>1, <1>2 DEF ArrivalsAgree
<1>3. CASE EndProcess
  <2>1. \A c \in Jobs : net[c] # "open" => net'[c] = net[c]
    BY <1>1, <1>3 DEF EndProcess
  <2>2. Range(arrived) \subseteq Jobs /\ Range(backlog) \subseteq Jobs
    BY <1>1, RangeOfSeq
  <2> QED  BY <1>1, <1>3, <2>1, <2>2 DEF EndProcess, ArrivalsAgree
<1>4. CASE Accept
  <2>1. /\ backlog # << >> /\ Head(backlog) \in Jobs /\ Tail(backlog) \in Seq(Jobs)
        /\ Range(backlog) = {Head(backlog)} \cup Range(Tail(backlog))
        /\ IsInjective(Tail(backlog)) /\ Head(backlog) \notin Range(Tail(backlog))
    BY <1>1, <1>4, HeadTailProperties, RangeOfHeadTail, TailIsInjective DEF Accept
  <2>2. submitted \o backlog = Append(submitted, Head(backlog)) \o Tail(backlog)
    BY <1>1, <2>1, MoveHead
  <2>3. /\ Range(arrived) \subseteq Jobs /\ Range(backlog) \subseteq Jobs
    BY <1>1, RangeOfSeq
  <2>4. /\ UNCHANGED <<submitted, process, arrived>>
        /\ process = "running" /\ inHand = NoConn
        /\ inHand' = Head(backlog) /\ backlog' = Tail(backlog)
        /\ net' = [net EXCEPT ![Head(backlog)] = "open"]
    BY <1>4 DEF Accept, vars
  <2>5. arrived' = Append(submitted', inHand') \o backlog'
    BY <1>1, <2>2, <2>4 DEF ArrivalsAgree
  <2> QED  BY <1>1, <2>1, <2>3, <2>4, <2>5 DEF ArrivalsAgree
<1>5. CASE HandOver
  BY <1>1, <1>5 DEF HandOver, Execute, ArrivalsAgree
<1>6. ASSUME NEW w \in Workers, NEW how \in {"returned", "panicked"}, ServiceEnds(w, how)
      PROVE  ArrivalsAgree'
  <2>1. /\ UNCHANGED <<process, inHand, backlog, arrived, submitted>>
        /\ net' = [net EXCEPT ![job[w]] = "closed"]
    BY <1>6 DEF ServiceEnds, DropStream, JobEnds
  <2>2. job[w] \in Jobs /\ job[w] \notin Range(backlog)
    <3>1. job[w] \in Jobs /\ process = "running"
      BY <1>6 DEF ServiceEnds, JobEnds, ServerInv, PoolInv, TypeOK, ThreadsAgree
    <3>2. net[job[w]] = "open"
      BY <3>1, PoolAssumption DEF ServerInv, StreamsHaveOwners, Open
    <3> QED  BY <1>1, <3>1, <3>2 DEF ArrivalsAgree
  <2>3. /\ Range(arrived) \subseteq Jobs /\ Range(backlog) \subseteq Jobs
    BY <1>1, RangeOfSeq
  <2> QED  BY <1>1, <2>1, <2>2, <2>3 DEF ArrivalsAgree
<1>7. ASSUME NEW c \in Conns, Connect(c) PROVE ArrivalsAgree'
  <2>1. c \notin Range(arrived) /\ c \notin Range(backlog) /\ c \in Jobs
    BY <1>1, <1>7 DEF Connect, ArrivalsAgree
  <2>2. UNCHANGED <<process, inHand, submitted>>
    BY <1>7 DEF Connect, vars
  <2>3. /\ Range(arrived) \subseteq Jobs /\ Range(backlog) \subseteq Jobs
    BY <1>1, RangeOfSeq
  <2>4. CASE process = "running"
    <3>1. /\ net' = [net EXCEPT ![c] = "backlog"]
          /\ backlog' = Append(backlog, c) /\ arrived' = Append(arrived, c)
      BY <1>7, <2>4 DEF Connect
    <3>2. IsInjective(arrived') /\ IsInjective(backlog')
      BY <1>1, <2>1, <3>1, AppendKeepsInjective
    <3>3. Range(arrived') = Range(arrived) \cup {c} /\ Range(backlog') = Range(backlog) \cup {c}
      BY <1>1, <2>1, <3>1, RangeOfAppend
    <3>4. ASSUME NEW before \in Seq(Jobs), arrived = before \o backlog
          PROVE  arrived' = before \o backlog'
      BY <1>1, <2>1, <3>1, <3>4, AppendToConcat, SMTT(30)
    <3>5. process' = "running" =>
            arrived' = (IF inHand' = NoConn THEN submitted' ELSE Append(submitted', inHand')) \o backlog'
      <4>1. (IF inHand = NoConn THEN submitted ELSE Append(submitted, inHand)) \in Seq(Jobs)
        BY <1>1
      <4>2. arrived = (IF inHand = NoConn THEN submitted ELSE Append(submitted, inHand)) \o backlog
        BY <1>1, <2>4 DEF ArrivalsAgree
      <4> QED  BY <2>2, <3>4, <4>1, <4>2
    <3>6. /\ \A d \in Range(arrived') : net'[d] # "new"
          /\ \A d \in Range(backlog') : net'[d] = "backlog"
      BY <1>1, <2>1, <2>3, <3>1, <3>3 DEF ArrivalsAgree
    <3> QED  BY <3>2, <3>5, <3>6 DEF ArrivalsAgree
  <2>5. CASE process # "running"
    <3>1. net' = [net EXCEPT ![c] = "refused"] /\ UNCHANGED <<backlog, arrived>>
      BY <1>7, <2>5 DEF Connect
    <3> QED  BY <1>1, <2>1, <2>2, <2>3, <2>5, <3>1 DEF ArrivalsAgree
  <2> QED  BY <2>4, <2>5
<1>8. CASE ResetBacklog
  <2>1. /\ backlog # << >> /\ Head(backlog) \in Jobs /\ Tail(backlog) \in Seq(Jobs)
        /\ Range(backlog) = {Head(backlog)} \cup Range(Tail(backlog))
        /\ IsInjective(Tail(backlog)) /\ Head(backlog) \notin Range(Tail(backlog))
    BY <1>1, <1>8, HeadTailProperties, RangeOfHeadTail, TailIsInjective DEF ResetBacklog
  <2>2. /\ Range(arrived) \subseteq Jobs /\ Range(backlog) \subseteq Jobs
    BY <1>1, RangeOfSeq
  <2>3. /\ UNCHANGED <<process, arrived>>
        /\ process = "ended" /\ backlog' = Tail(backlog)
        /\ net' = [net EXCEPT ![Head(backlog)] = "reset"]
    BY <1>8 DEF ResetBacklog
  <2> QED  BY <1>1, <2>1, <2>2, <2>3 DEF ArrivalsAgree
<1>9. CASE CreateThread
  BY <1>2, <1>9 DEF CreateThread, SpawnWorker, serverVars
<1>10. ASSUME NEW w \in Workers, TakesJob(w) PROVE ArrivalsAgree'
  BY <1>2, <1>10 DEF TakesJob, LockReceiver, Recv, Unlock, serverVars
<1>11. CASE UNCHANGED allVars \/ Quiet
  BY <1>2, <1>11 DEF allVars, vars, serverVars, Quiet
<1> QED
  BY <1>3, <1>4, <1>5, <1>6, <1>7, <1>8, <1>9, <1>10, <1>11
     DEF ServerNext, MainStep, CreateFails, ProcessDies

-----------------------------------------------------------------------------
(* Streams and their owners, and the order of service.                     *)

(* Those the server has to answer for.                                     *)
Owned == ({inHand} \cup Range(queue) \cup {job[w] : w \in Workers}) \ {NoConn, NoJob}

(* The connection in the main thread's hands is no job of a worker.        *)
LEMMA HandIsNotAJob ==
  ASSUME ServerInv, NEW w \in Workers, job[w] # NoJob
  PROVE  job[w] # inHand
<1> SUFFICES ASSUME job[w] = inHand PROVE FALSE
  OBVIOUS
<1>1. /\ job[w] \in Jobs /\ inHand # NoConn /\ process = "running"
      /\ submitted \in Seq(Jobs) /\ backlog \in Seq(Jobs)
      /\ taken \in Seq(Jobs) /\ queue \in Seq(Jobs)
  BY ServerAssumption DEF ServerInv, ServerTypeOK, ProcessAgrees, PoolInv, TypeOK, Conns
<1>2. arrived = Append(submitted, inHand) \o backlog /\ IsInjective(arrived)
  BY <1>1 DEF ServerInv, ArrivalsAgree
<1>3. inHand \in Jobs /\ Append(submitted, inHand) \in Seq(Jobs)
  BY <1>1
<1>4. inHand \notin Range(submitted)
  BY <1>1, <1>2, <1>3, BeginningIsInjective, LastIsNew
<1>5. inHand \in Range(taken)
  BY <1>1, PoolAssumption DEF ServerInv, PoolInv, EachJobInOnePlace
<1>6. Range(taken) \subseteq Range(submitted)
  BY <1>1, RangeConcatenation DEF ServerInv, PoolInv, ChannelIsFifo
<1> QED  BY <1>4, <1>5, <1>6

(* The step leaves every open stream with one owner.                       *)
LEMMA StepStreams ==
  ASSUME ServerInv, [ServerNext]_allVars
  PROVE  StreamsHaveOwners'
<1> USE ServerAssumption, PoolAssumption DEF Conns
<1>1. /\ queue \in Seq(Jobs) /\ backlog \in Seq(Jobs)
      /\ job \in [Workers -> Jobs \cup {NoJob}]
      /\ inHand \in Jobs \cup {NoConn}
      /\ net \in [Jobs -> {"new", "backlog", "open", "closed", "refused", "reset", "cut"}]
  BY DEF ServerInv, ServerTypeOK, PoolInv, TypeOK
<1>2. process = "running" => Open = Owned
  BY DEF ServerInv, StreamsHaveOwners, Owned
<1>3. SUFFICES ASSUME process' = "running" PROVE Open' = Owned'
  BY DEF StreamsHaveOwners, Owned
<1>4. CASE process = "running" /\ UNCHANGED <<inHand, queue, job, net>>
  BY <1>2, <1>4 DEF Open, Owned
<1>5. CASE Accept
  <2>1. Head(backlog) \in Jobs
    BY <1>1, <1>5, HeadTailProperties DEF Accept
  <2>2. Open' = Open \cup {Head(backlog)}
    BY <1>1, <1>5, <2>1 DEF Accept, Open
  <2>3. Owned' = Owned \cup {Head(backlog)}
    BY <1>5, <2>1 DEF Accept, Owned, vars
  <2> QED  BY <1>2, <1>5, <2>2, <2>3 DEF Accept
<1>6. CASE HandOver
  <2>1. Range(queue') = Range(queue) \cup {inHand}
    BY <1>1, <1>6, RangeOfAppend DEF HandOver, Execute
  <2>2. Owned' = Owned
    BY <1>6, <2>1 DEF HandOver, Execute, Owned
  <2>3. Open' = Open
    BY <1>6 DEF HandOver, Open
  <2> QED  BY <1>2, <1>6, <2>2, <2>3 DEF HandOver
<1>7. ASSUME NEW w \in Workers, TakesJob(w) PROVE Open' = Owned'
  <2>1. process = "running" /\ UNCHANGED <<inHand, net>>
    BY <1>7 DEF TakesJob, serverVars
  <2>2. CASE LockReceiver(w) \/ Unlock(w)
    BY <1>4, <2>1, <2>2 DEF LockReceiver, Unlock
  <2>3. CASE Recv(w)
    <3>1. /\ Range(queue) = {Head(queue)} \cup Range(queue')
          /\ job' = [job EXCEPT ![w] = Head(queue)]
      BY <1>1, <2>3, RangeOfHeadTail DEF Recv, TakeJob
    <3>2. job[w] = NoJob
      BY <2>3 DEF Recv, ServerInv, PoolInv, ThreadsAgree
    <3>3. {job'[v] : v \in Workers} \ {NoJob}
            = ({job[v] : v \in Workers} \cup {Head(queue)}) \ {NoJob}
      BY <1>1, <3>1, <3>2
    <3>4. Owned' = Owned
      BY <2>1, <3>1, <3>3 DEF Owned
    <3> QED  BY <1>2, <2>1, <3>4 DEF Open
  <2> QED  BY <1>7, <2>2, <2>3 DEF TakesJob
<1>8. ASSUME NEW w \in Workers, NEW how \in {"returned", "panicked"}, ServiceEnds(w, how)
      PROVE  Open' = Owned'
  <2>1. /\ process = "running" /\ UNCHANGED <<inHand, queue>>
        /\ job' = [job EXCEPT ![w] = NoJob]
        /\ net' = [net EXCEPT ![job[w]] = "closed"]
        /\ job[w] # NoJob
    BY <1>8 DEF ServiceEnds, JobEnds, Settle, DropStream, ServerInv, PoolInv, ThreadsAgree
  <2>2. /\ \A v \in Workers : job[v] = job[w] => v = w
        /\ job[w] \notin Range(queue)
        /\ job[w] # inHand
    BY <2>1, WaitingIsNotHeld, HandIsNotAJob DEF ServerInv, PoolInv, EachJobInOnePlace
  <2>3. {job'[v] : v \in Workers} \ {NoJob} = {job[v] : v \in Workers} \ {NoJob, job[w]}
    BY <1>1, <2>1, <2>2
  <2>4. Owned' = Owned \ {job[w]}
    BY <2>1, <2>2, <2>3 DEF Owned
  <2>5. Open' = Open \ {job[w]}
    BY <1>1, <2>1 DEF Open
  <2> QED  BY <1>2, <2>1, <2>4, <2>5
<1>9. ASSUME NEW c \in Conns, Connect(c) PROVE Open' = Owned'
  <2>1. UNCHANGED <<inHand, queue, job, process>>
    BY <1>9 DEF Connect, vars
  <2>2. Open' = Open
    BY <1>1, <1>3, <1>9, <2>1 DEF Connect, Open
  <2> QED  BY <1>2, <1>3, <2>1, <2>2 DEF Owned
<1>10. CASE UNCHANGED allVars \/ Quiet \/ CreateThread
  BY <1>3, <1>4, <1>10 DEF allVars, vars, serverVars, Quiet, CreateThread, SpawnWorker
<1>11. ~CreateFails /\ ~ProcessDies /\ ~ResetBacklog
  BY <1>3 DEF CreateFails, ProcessDies, EndProcess, ResetBacklog
<1> QED
  BY <1>5, <1>6, <1>7, <1>8, <1>9, <1>10, <1>11 DEF ServerNext, MainStep

(* What was taken is the beginning of what arrived; nothing moves once the *)
(* process has ended.                                                      *)
LEMMA StepOrder ==
  ASSUME ServerInv, [ServerNext]_allVars, PoolInv', ServerTypeOK', ArrivalsAgree'
  PROVE  TakenInArrivalOrder'
<1>1. CASE process' = "running"
  <2>1. /\ taken' \in Seq(Jobs) /\ queue' \in Seq(Jobs) /\ backlog' \in Seq(Jobs)
        /\ inHand' \in Jobs \cup {NoConn}
        /\ submitted' = taken' \o queue'
    BY DEF PoolInv, TypeOK, ChannelIsFifo, ServerTypeOK, Conns
  <2>2. PICK rest \in Seq(Jobs) : arrived' = (taken' \o rest) \o backlog'
    <3>1. CASE inHand' = NoConn
      BY <1>1, <2>1, <3>1 DEF ArrivalsAgree
    <3>2. CASE inHand' # NoConn
      <4>1. PICK c \in Jobs, q \in Seq(Jobs), t \in Seq(Jobs) :
               c = inHand' /\ q = queue' /\ t = taken'
        BY <2>1, <3>2
      <4>2. Append(q, c) \in Seq(Jobs)
        OBVIOUS
      <4>3. Append(t \o q, c) = t \o Append(q, c)
        OBVIOUS
      <4>4. arrived' = Append(t \o q, c) \o backlog'
        BY <1>1, <2>1, <3>2, <4>1 DEF ArrivalsAgree
      <4> QED  BY <4>1, <4>2, <4>3, <4>4
    <3> QED  BY <3>1, <3>2
  <2> QED  BY <2>1, <2>2, FirstOfThree DEF TakenInArrivalOrder
<1>2. CASE process' # "running"
  <2>1. UNCHANGED <<taken, arrived>>
    BY <1>2, ServerAssumption
       DEF ServerNext, allVars, vars, serverVars, MainStep, CreateThread, CreateFails,
           SpawnFails, Accept, HandOver, ProcessDies, EndProcess, TakesJob, ServiceEnds,
           Connect, ResetBacklog, Quiet, ServerInv, ServerTypeOK
  <2> QED  BY <2>1 DEF ServerInv, TakenInArrivalOrder
<1> QED  BY <1>1, <1>2

-----------------------------------------------------------------------------
(* The invariant.                                                          *)

(* The invariant holds when the address is bound and nobody has connected. *)
LEMMA InitServerInv == ServerInit => ServerInv
<1> SUFFICES ASSUME ServerInit PROVE ServerInv
  OBVIOUS
<1>1. PoolInv /\ Init
  BY InitPoolInv DEF ServerInit
<1>2. ServerTypeOK /\ ProcessAgrees
  BY <1>1 DEF ServerInit, Init, ServerTypeOK, ProcessAgrees
<1>3. ArrivalsAgree
  <2>1. Range(<< >>) = {} /\ IsInjective(<< >>)
    BY DEF Range, IsInjective
  <2>2. submitted = << >> /\ arrived = << >> /\ backlog = << >> /\ inHand = NoConn
    BY <1>1 DEF ServerInit, Init
  <2> QED  BY <2>1, <2>2 DEF ArrivalsAgree
<1>4. StreamsHaveOwners
  <2>1. /\ Range(queue) = {} /\ inHand = NoConn
        /\ \A w \in Workers : job[w] = NoJob
    BY <1>1 DEF ServerInit, Init, Range
  <2>2. Open = {}
    BY DEF ServerInit, Open
  <2> QED  BY <2>1, <2>2 DEF StreamsHaveOwners
<1>5. TakenInArrivalOrder
  <2>1. taken = << >> /\ arrived = << >>
    BY <1>1 DEF ServerInit, Init
  <2> QED  BY <2>1 DEF TakenInArrivalOrder
<1> QED  BY <1>1, <1>2, <1>3, <1>4, <1>5 DEF ServerInv

(* Every step of the server keeps its invariant.                           *)
LEMMA StepServerInv == ServerInv /\ [ServerNext]_allVars => ServerInv'
<1> SUFFICES ASSUME ServerInv, [ServerNext]_allVars PROVE ServerInv'
  OBVIOUS
<1>1. PoolInv'
  BY StepPoolInv DEF ServerInv
<1>2. ServerTypeOK' /\ ProcessAgrees'
  BY StepProcess
<1>3. ArrivalsAgree' /\ StreamsHaveOwners'
  BY StepArrivals, StepStreams
<1>4. TakenInArrivalOrder'
  BY <1>1, <1>2, <1>3, StepOrder
<1> QED  BY <1>1, <1>2, <1>3, <1>4 DEF ServerInv

(* The invariant ServerInv holds in every reachable state of every server. *)
THEOREM ServerInvariant == ServerSpec => []ServerInv
  BY InitServerInv, StepServerInv, PTL DEF ServerSpec

(* While the process runs a stream is open exactly as long as the main     *)
(* thread, the channel or a worker is responsible for it: no panic leaks   *)
(* one and none is closed under a handler.                                 *)
THEOREM StreamsAreOwned == ServerSpec => []StreamsHaveOwners
<1>1. ServerInv => StreamsHaveOwners
  BY DEF ServerInv
<1> QED  BY ServerInvariant, <1>1, PTL

(* The workers take the connections in the order in which they were made,  *)
(* through the backlog, the main thread's hands and the channel.           *)
THEOREM OrderOfService == ServerSpec => []TakenInArrivalOrder
<1>1. ServerInv => TakenInArrivalOrder
  BY DEF ServerInv
<1> QED  BY ServerInvariant, <1>1, PTL

-----------------------------------------------------------------------------
(* The server implements the abstract service.                             *)

Runs(c) == HeldIn(c, {"run"})

(* What is left of ConnPhase when the cases are told apart.                *)
PhasesOfConns ==
  \A c \in Conns :
    ConnPhase(c) =
      IF net[c] = "backlog" THEN "accepted"
      ELSE IF net[c] \in {"open", "cut"} THEN IF Runs(c) THEN "serving" ELSE "accepted"
      ELSE IF net[c] = "closed" THEN "done"
      ELSE IF net[c] = "reset" THEN "refused" ELSE "new"

(* The cases of ConnPhase exclude each other.                              *)
LEMMA ConnPhases == PhasesOfConns
  BY DEF PhasesOfConns, ConnPhase, Runs

(* One connection changes its phase and no other does.                     *)
LEMMA OneConnMoves ==
  ASSUME NEW t \in Conns, NEW from, NEW to,
         ConnPhase(t) = from, ConnPhase(t)' = to,
         \A c \in Conns \ {t} : ConnPhase(c)' = ConnPhase(c)
  PROVE  ServerService!Move(t, from, to)
  BY DEF ServerService!Move

(* No connection changes its phase.                                        *)
LEMMA NoConnMoves ==
  ASSUME \A c \in Conns : ConnPhase(c)' = ConnPhase(c)
  PROVE  UNCHANGED [c \in Conns |-> ConnPhase(c)]
  OBVIOUS

(* Whoever runs a job is running that of an open stream.                   *)
LEMMA JobsAreOpen ==
  ASSUME ServerInv, process = "running", NEW w \in Workers, job[w] # NoJob
  PROVE  job[w] \in Conns /\ net[job[w]] = "open"
<1>1. job[w] \in Conns /\ job[w] # NoConn
  BY ServerAssumption DEF ServerInv, PoolInv, TypeOK, Conns
<1> QED  BY <1>1 DEF ServerInv, StreamsHaveOwners, Open

(* A worker that does not run a job leaves room for one.                   *)
LEMMA RoomForConn ==
  ASSUME PoolInv, NEW w \in Workers, pc[w] # "run"
  PROVE  Cardinality(ServerService!Serving) < Size
<1>1. IsFiniteSet(Service!Serving) /\ Cardinality(Service!Serving) < Size
  BY RoomToServe
<1>2. ServerService!Serving \subseteq Service!Serving
  BY ConnPhases, Phases
     DEF PhasesOfConns, PhasesDisjoint, Runs, ServerService!Serving, Service!Serving, Conns
<1>3. /\ Cardinality(ServerService!Serving) <= Cardinality(Service!Serving)
      /\ Cardinality(ServerService!Serving) \in Nat /\ Cardinality(Service!Serving) \in Nat
  BY <1>1, <1>2, FS_Subset, FS_CardinalityType
<1> QED  BY <1>1, <1>3, PoolAssumption

(* A step of the pool that starts and ends no job moves no connection, as  *)
(* long as the streams stay as they are or are cut.                        *)
LEMMA RunnersUnchanged ==
  ASSUME \A c \in Conns : Runs(c)' <=> Runs(c),
         \A c \in Conns : \/ net'[c] = net[c]
                          \/ net[c] = "open" /\ net'[c] = "cut"
                          \/ net[c] = "new" /\ net'[c] = "refused"
                          \/ net[c] = "backlog" /\ net'[c] = "open" /\ ~Runs(c)
  PROVE  UNCHANGED [c \in Conns |-> ConnPhase(c)]
<1>1. PhasesOfConns /\ PhasesOfConns'
  BY ConnPhases, PTL
<1>2. \A c \in Conns : ConnPhase(c)' = ConnPhase(c)
  BY <1>1 DEF PhasesOfConns
<1> QED  BY <1>2, NoConnMoves

(* The pool as it is, or with another worker, runs the jobs it ran.        *)
LEMMA SameRunners ==
  ASSUME PoolInv, \/ UNCHANGED <<pc, job>>
                  \/ SpawnWorker
                  \/ \E w \in Workers : LockReceiver(w) \/ Recv(w)
  PROVE  \A c \in Conns : Runs(c)' <=> Runs(c)
<1>1. CASE UNCHANGED <<pc, job>>
  BY <1>1 DEF Runs, HeldIn
<1>2. CASE SpawnWorker
  <2>1. job' = job /\ \A w \in Workers : pc'[w] = "run" <=> pc[w] = "run"
    BY <1>2 DEF SpawnWorker, PoolInv, TypeOK, OwnerAgrees, ThreadsAgree, Workers
  <2> QED  BY <2>1 DEF Runs, HeldIn
<1>3. ASSUME NEW w \in Workers, LockReceiver(w) \/ Recv(w)
      PROVE  \A c \in Conns : Runs(c)' <=> Runs(c)
  <2>1. /\ \A v \in Workers : pc'[v] = "run" <=> pc[v] = "run"
        /\ \A v \in Workers : pc[v] = "run" => job'[v] = job[v]
    BY <1>3 DEF LockReceiver, Recv, TakeJob, PoolInv, TypeOK
  <2> QED  BY <2>1 DEF Runs, HeldIn
<1> QED  BY <1>1, <1>2, <1>3

(* Each step of the server is one of the service, or none.                 *)
LEMMA StepServerService ==
  ASSUME ServerInv, [ServerNext]_allVars
  PROVE  [ServerService!Next]_([c \in Conns |-> ConnPhase(c)])
<1> DEFINE phase == [c \in Conns |-> ConnPhase(c)]
<1>1. PhasesOfConns /\ PhasesOfConns'
  BY ConnPhases, PTL
<1>2. /\ PoolInv
      /\ net \in [Conns -> {"new", "backlog", "open", "closed", "refused", "reset", "cut"}]
      /\ job \in [Workers -> Conns \cup {NoJob}]
      /\ backlog \in Seq(Conns)
  BY DEF ServerInv, ServerTypeOK, PoolInv, TypeOK, Conns
<1>3. CASE \/ UNCHANGED allVars \/ Quiet \/ CreateThread \/ HandOver
           \/ \E w \in Workers : TakesJob(w) /\ ~Unlock(w)
  <2>1. net' = net
    BY <1>3 DEF allVars, serverVars, Quiet, CreateThread, HandOver, TakesJob
  <2>2. \/ UNCHANGED <<pc, job>>
        \/ SpawnWorker
        \/ \E w \in Workers : LockReceiver(w) \/ Recv(w)
    BY <1>3 DEF allVars, vars, Quiet, CreateThread, HandOver, Execute, TakesJob
  <2> QED  BY <1>2, <2>1, <2>2, SameRunners, RunnersUnchanged
<1>4. CASE CreateFails \/ ProcessDies
  <2>1. UNCHANGED <<pc, job>>
    BY <1>4 DEF CreateFails, SpawnFails, ProcessDies, vars
  <2>2. \A c \in Conns : net'[c] = IF net[c] = "open" THEN "cut" ELSE net[c]
    BY <1>4 DEF CreateFails, ProcessDies, EndProcess
  <2> QED  BY <1>2, <2>1, <2>2, SameRunners, RunnersUnchanged
<1>5. CASE Accept
  <2>1. PICK t \in Conns : t = Head(backlog)
    BY <1>2, <1>5, HeadTailProperties DEF Accept
  <2>2. net[t] = "backlog"
    <3>1. t \in Range(backlog)
      BY <1>2, <1>5, <2>1, RangeOfHeadTail DEF Accept
    <3> QED  BY <3>1 DEF ServerInv, ArrivalsAgree
  <2>3. ~Runs(t)
    <3>1. t # NoJob /\ process = "running"
      BY <1>5, PoolAssumption DEF Accept, Conns
    <3> QED  BY <2>2, <3>1, JobsAreOpen DEF Runs, HeldIn
  <2>4. net' = [net EXCEPT ![t] = "open"] /\ UNCHANGED <<pc, job>>
    BY <1>5, <2>1 DEF Accept, vars
  <2> QED  BY <1>2, <2>2, <2>3, <2>4, SameRunners, RunnersUnchanged
<1>6. ASSUME NEW c \in Conns, Connect(c) PROVE [ServerService!Next]_phase
  <2>1. net[c] = "new" /\ UNCHANGED <<pc, job>>
    BY <1>6 DEF Connect, vars
  <2>2. \A d \in Conns : Runs(d)' <=> Runs(d)
    BY <1>2, <2>1, SameRunners
  <2>3. CASE net' = [net EXCEPT ![c] = "refused"]
    BY <1>2, <2>1, <2>2, <2>3, RunnersUnchanged
  <2>4. CASE net' = [net EXCEPT ![c] = "backlog"]
    <3>1. ConnPhase(c) = "new" /\ ConnPhase(c)' = "accepted"
      BY <1>1, <1>2, <2>1, <2>4 DEF PhasesOfConns
    <3>2. \A d \in Conns \ {c} : ConnPhase(d)' = ConnPhase(d)
      BY <1>1, <1>2, <2>2, <2>4 DEF PhasesOfConns
    <3>3. ServerService!Accept(c)
      BY <3>1, <3>2, OneConnMoves DEF ServerService!Accept
    <3> QED  BY <3>3 DEF ServerService!Next
  <2> QED  BY <1>6, <2>3, <2>4 DEF Connect
<1>7. CASE ResetBacklog
  <2>1. PICK t \in Conns : t = Head(backlog)
    BY <1>2, <1>7, HeadTailProperties DEF ResetBacklog
  <2>2. net[t] = "backlog"
    <3>1. t \in Range(backlog)
      BY <1>2, <1>7, <2>1, RangeOfHeadTail DEF ResetBacklog
    <3> QED  BY <3>1 DEF ServerInv, ArrivalsAgree
  <2>3. net' = [net EXCEPT ![t] = "reset"] /\ UNCHANGED <<pc, job>>
    BY <1>7, <2>1 DEF ResetBacklog, vars
  <2>4. \A d \in Conns : Runs(d)' <=> Runs(d)
    BY <1>2, <2>3, SameRunners
  <2>5. ConnPhase(t) = "accepted" /\ ConnPhase(t)' = "refused"
    BY <1>1, <1>2, <2>2, <2>3 DEF PhasesOfConns
  <2>6. \A d \in Conns \ {t} : ConnPhase(d)' = ConnPhase(d)
    BY <1>1, <1>2, <2>3, <2>4 DEF PhasesOfConns
  <2>7. ServerService!Refuse(t)
    BY <2>5, <2>6, OneConnMoves DEF ServerService!Refuse
  <2> QED  BY <2>7 DEF ServerService!Next
<1>8. ASSUME NEW w \in Workers, TakesJob(w), Unlock(w) PROVE [ServerService!Next]_phase
  <2>1. CASE pc[w] = "closed"
    <3>1. net' = net /\ job' = job
      BY <1>8 DEF TakesJob, serverVars, Unlock
    <3>2. \A v \in Workers : pc'[v] = "run" <=> pc[v] = "run"
      BY <1>2, <1>8, <2>1 DEF Unlock, PoolInv, TypeOK
    <3>3. \A d \in Conns : Runs(d)' <=> Runs(d)
      BY <3>1, <3>2 DEF Runs, HeldIn
    <3> QED  BY <3>1, <3>3, RunnersUnchanged
  <2>2. CASE pc[w] = "got"
    <3>1. PICK t \in Conns : t = job[w]
      BY <1>2, <2>2 DEF PoolInv, ThreadsAgree
    <3>2. /\ t # NoJob /\ net[t] = "open"
          /\ \A v \in Workers : job[v] = t => v = w
      <4>1. t # NoJob /\ process = "running"
        BY <1>8, PoolAssumption DEF TakesJob, Conns
      <4> QED  BY <1>2, <3>1, <4>1, JobsAreOpen DEF PoolInv, EachJobInOnePlace
    <3>3. /\ net' = net /\ job' = job
          /\ pc'[w] = "run"
          /\ \A v \in Workers : v # w => pc'[v] = pc[v]
      BY <1>2, <1>8, <2>2 DEF TakesJob, serverVars, Unlock, PoolInv, TypeOK
    <3>4. ~Runs(t) /\ Runs(t)'
      BY <2>2, <3>1, <3>2, <3>3 DEF Runs, HeldIn
    <3>5. \A d \in Conns \ {t} : Runs(d)' <=> Runs(d)
      BY <3>1, <3>3 DEF Runs, HeldIn
    <3>6. ConnPhase(t) = "accepted" /\ ConnPhase(t)' = "serving"
      BY <1>1, <3>2, <3>3, <3>4 DEF PhasesOfConns
    <3>7. \A d \in Conns \ {t} : ConnPhase(d)' = ConnPhase(d)
      BY <1>1, <3>3, <3>5 DEF PhasesOfConns
    <3>8. ServerService!Start(t)
      <4>1. ServerService!Move(t, "accepted", "serving")
        BY <3>6, <3>7, OneConnMoves
      <4>2. Cardinality(ServerService!Serving) < Size
        BY <1>2, <2>2, RoomForConn
      <4>3. ServerService!Cardinality(ServerService!Serving) = Cardinality(ServerService!Serving)
        BY DEF ServerService!Cardinality, Cardinality
      <4> QED  BY ONLY <4>1, <4>2, <4>3 DEF ServerService!Start
    <3> QED  BY <3>8 DEF ServerService!Next
  <2> QED  BY <1>8, <2>1, <2>2 DEF Unlock
<1>9. ASSUME NEW w \in Workers, NEW how \in {"returned", "panicked"}, ServiceEnds(w, how)
      PROVE  [ServerService!Next]_phase
  <2>1. PICK t \in Conns : t = job[w]
    BY <1>2, <1>9 DEF ServiceEnds, JobEnds, PoolInv, ThreadsAgree
  <2>2. /\ t # NoJob /\ net[t] = "open"
        /\ \A v \in Workers : job[v] = t => v = w
    <3>1. t # NoJob /\ process = "running"
      BY <1>9, PoolAssumption DEF ServiceEnds, Conns
    <3> QED  BY <1>2, <2>1, <3>1, JobsAreOpen DEF PoolInv, EachJobInOnePlace
  <2>3. /\ pc[w] = "run" /\ job'[w] = NoJob
        /\ \A v \in Workers : v # w => job'[v] = job[v] /\ pc'[v] = pc[v]
        /\ net' = [net EXCEPT ![t] = "closed"]
    BY <1>2, <1>9, <2>1 DEF ServiceEnds, DropStream, JobEnds, Settle, PoolInv, TypeOK
  <2>4. Runs(t)
    BY <2>1, <2>3 DEF Runs, HeldIn
  <2>5. \A d \in Conns \ {t} : Runs(d)' <=> Runs(d)
    BY <2>1, <2>3, PoolAssumption DEF Runs, HeldIn, Conns
  <2>6. ConnPhase(t) = "serving" /\ ConnPhase(t)' = "done"
    BY <1>1, <1>2, <2>2, <2>3, <2>4 DEF PhasesOfConns
  <2>7. \A d \in Conns \ {t} : ConnPhase(d)' = ConnPhase(d)
    BY <1>1, <1>2, <2>3, <2>5 DEF PhasesOfConns
  <2>8. ServerService!Finish(t)
    BY <2>6, <2>7, OneConnMoves DEF ServerService!Finish
  <2> QED  BY <2>8 DEF ServerService!Next
<1> QED
  BY <1>3, <1>4, <1>5, <1>6, <1>7, <1>8, <1>9 DEF ServerNext, MainStep

(* The server implements BoundedService: each connection is served once at *)
(* most, no more of them at a time than there are workers, and given up    *)
(* only before its service has begun.                                      *)
THEOREM ServerServes == ServerSpec => ServerImplementsService
<1>1. ServerInit => ServerService!Init
  <2>1. ServerInit => \A c \in Conns : ConnPhase(c) = "new"
    BY ConnPhases DEF PhasesOfConns, ServerInit
  <2> QED  BY <2>1 DEF ServerService!Init
<1>2. ServerInv /\ [ServerNext]_allVars
        => [ServerService!Next]_([c \in Conns |-> ConnPhase(c)])
  BY StepServerService
<1> QED  BY ServerInvariant, <1>1, <1>2, PTL
            DEF ServerSpec, ServerImplementsService, ServerService!Spec

=============================================================================
