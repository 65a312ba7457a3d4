-------------------------- MODULE ThreadPoolProofs --------------------------
(***************************************************************************)
(* Machine-checked proofs about ThreadPool, for every pool size, every set *)
(* of jobs and every set of jobs that never return.                        *)
(***************************************************************************)
EXTENDS ThreadPool, SequenceTheorems, FiniteSetTheorems, TLAPS

-----------------------------------------------------------------------------
(* Sequences without repetition.                                           *)

(* Appending adds one element to the range.                                *)
LEMMA RangeOfAppend ==
  ASSUME NEW S, NEW s \in Seq(S), NEW e \in S
  PROVE  Range(Append(s, e)) = Range(s) \cup {e}
<1>1. /\ Append(s, e) \in Seq(S)
      /\ Len(Append(s, e)) = Len(s) + 1
      /\ \A i \in 1 .. Len(s) : Append(s, e)[i] = s[i]
      /\ Append(s, e)[Len(s) + 1] = e
  OBVIOUS
<1>2. /\ Range(s) = {s[i] : i \in 1 .. Len(s)}
      /\ Range(Append(s, e)) = {Append(s, e)[i] : i \in 1 .. Len(s) + 1}
  BY <1>1, RangeEquality
<1>3. Len(s) \in Nat
  OBVIOUS
<1>4. 1 .. Len(s) + 1 = (1 .. Len(s)) \cup {Len(s) + 1}
  BY <1>3
<1> QED  BY <1>1, <1>2, <1>4

(* Appending something new repeats nothing.                                *)
LEMMA AppendKeepsInjective ==
  ASSUME NEW S, NEW s \in Seq(S), NEW e \in S, IsInjective(s), e \notin Range(s)
  PROVE  IsInjective(Append(s, e))
<1>1. /\ DOMAIN s = 1 .. Len(s)
      /\ DOMAIN Append(s, e) = 1 .. Len(s) + 1
      /\ Len(s) \in Nat
      /\ \A i \in 1 .. Len(s) : Append(s, e)[i] = s[i]
      /\ Append(s, e)[Len(s) + 1] = e
  OBVIOUS
<1>2. \A i \in 1 .. Len(s) : s[i] \in Range(s)
  BY <1>1 DEF Range
<1> QED  BY <1>1, <1>2 DEF IsInjective

(* The next job of the channel has not been received before.               *)
LEMMA HeadIsFresh ==
  ASSUME NEW S, NEW s \in Seq(S), NEW t \in Seq(S), t # << >>, IsInjective(s \o t)
  PROVE  Head(t) \notin Range(s)
<1>1. /\ Len(s) \in Nat /\ Len(t) \in Nat /\ Len(t) > 0
      /\ Head(t) = t[1]
      /\ DOMAIN (s \o t) = 1 .. Len(s) + Len(t)
      /\ DOMAIN s = 1 .. Len(s)
  BY EmptySeq
<1>2. /\ \A i \in 1 .. Len(s) : (s \o t)[i] = s[i]
      /\ (s \o t)[Len(s) + 1] = t[1]
  BY <1>1, ConcatProperties
<1>3. SUFFICES ASSUME NEW i \in 1 .. Len(s), s[i] = Head(t) PROVE FALSE
  BY <1>1 DEF Range
<1>4. (s \o t)[i] = (s \o t)[Len(s) + 1]
  BY <1>1, <1>2, <1>3
<1> QED  BY <1>1, <1>4 DEF IsInjective

(* Two parts of a sequence without repetition have nothing in common.      *)
LEMMA PartsAreDisjoint ==
  ASSUME NEW S, NEW s \in Seq(S), NEW t \in Seq(S), IsInjective(s \o t)
  PROVE  Range(s) \cap Range(t) = {}
<1>1. /\ Len(s) \in Nat /\ Len(t) \in Nat
      /\ DOMAIN (s \o t) = 1 .. Len(s) + Len(t)
      /\ DOMAIN s = 1 .. Len(s) /\ DOMAIN t = 1 .. Len(t)
  OBVIOUS
<1>2. SUFFICES ASSUME NEW i \in 1 .. Len(s), NEW k \in 1 .. Len(t), s[i] = t[k]
               PROVE  FALSE
  BY <1>1 DEF Range
<1>3. /\ (s \o t)[i] = s[i] /\ (s \o t)[Len(s) + k] = t[k]
      /\ i \in 1 .. Len(s) + Len(t) /\ Len(s) + k \in 1 .. Len(s) + Len(t)
      /\ i # Len(s) + k
  BY <1>1, ConcatProperties
<1> QED  BY <1>1, <1>2, <1>3 DEF IsInjective

(* Taking the head off removes one element from the range.                 *)
LEMMA RangeOfHeadTail ==
  ASSUME NEW S, NEW s \in Seq(S), s # << >>
  PROVE  Range(s) = {Head(s)} \cup Range(Tail(s))
<1>1. /\ Head(s) = s[1] /\ Len(s) \in Nat /\ Len(s) > 0
      /\ DOMAIN s = 1 .. Len(s) /\ DOMAIN Tail(s) = 1 .. Len(s) - 1
      /\ \A i \in 1 .. Len(s) - 1 : Tail(s)[i] = s[i + 1]
  BY HeadTailProperties, EmptySeq
<1>2. \A i \in 1 .. Len(s) : i = 1 \/ (i - 1 \in 1 .. Len(s) - 1 /\ s[i] = Tail(s)[i - 1])
  BY <1>1
<1>3. \A i \in 1 .. Len(s) - 1 : i + 1 \in 1 .. Len(s)
  BY <1>1
<1>4. /\ Range(s) = {s[i] : i \in 1 .. Len(s)}
      /\ Range(Tail(s)) = {Tail(s)[i] : i \in 1 .. Len(s) - 1}
  BY <1>1 DEF Range
<1>5. ASSUME NEW x PROVE x \in Range(s) <=> x = Head(s) \/ x \in Range(Tail(s))
  <2>1. CASE x \in Range(s)
    BY <1>1, <1>2, <1>4, <2>1
  <2>2. CASE x = Head(s) \/ x \in Range(Tail(s))
    BY <1>1, <1>3, <1>4, <2>2
  <2> QED  BY <2>1, <2>2
<1> QED  BY <1>5

(* Receiving moves the head from one sequence to the end of the other.     *)
LEMMA MoveHead ==
  ASSUME NEW S, NEW s \in Seq(S), NEW t \in Seq(S), t # << >>
  PROVE  s \o t = Append(s, Head(t)) \o Tail(t)
<1>1. /\ Head(t) \in S /\ Tail(t) \in Seq(S)
      /\ Len(Tail(t)) = Len(t) - 1
      /\ \A i \in 1 .. Len(Tail(t)) : Tail(t)[i] = t[i + 1]
      /\ Head(t) = t[1]
      /\ Len(s) \in Nat /\ Len(t) \in Nat /\ Len(t) > 0
  BY HeadTailProperties, EmptySeq
<1>2. /\ Append(s, Head(t)) \in Seq(S)
      /\ Len(Append(s, Head(t))) = Len(s) + 1
  BY <1>1
<1>3. /\ s \o t \in Seq(S)
      /\ Append(s, Head(t)) \o Tail(t) \in Seq(S)
      /\ Len(s \o t) = Len(s) + Len(t)
      /\ Len(Append(s, Head(t)) \o Tail(t)) = Len(s) + Len(t)
  BY <1>1, <1>2, ConcatProperties
<1>4. ASSUME NEW i \in 1 .. Len(s) + Len(t)
      PROVE  (s \o t)[i] = (Append(s, Head(t)) \o Tail(t))[i]
  BY <1>1, <1>2, ConcatProperties
<1> QED  BY <1>3, <1>4, SeqEqual

-----------------------------------------------------------------------------
(* The frame: types, and the owner and the threads in step with each other. *)

Frame == TypeOK /\ OwnerAgrees /\ ThreadsAgree

(* The frame holds when new has made the channel and no worker yet.        *)
LEMMA InitFrame == Init => Frame
  BY PoolAssumption
     DEF Frame, Init, TypeOK, OwnerAgrees, ThreadsAgree, Workers, NoWorker, OwnerStates,
         WorkerStates, HoldingLock

(* The owner keeps the frame.                                              *)
LEMMA OwnerFrame == Frame /\ OwnerStep => Frame'
<1> SUFFICES ASSUME Frame, OwnerStep PROVE Frame'
  OBVIOUS
<1> USE PoolAssumption
    DEF Frame, TypeOK, OwnerAgrees, ThreadsAgree, Workers, NoWorker, OwnerStates,
        WorkerStates, HoldingLock
<1>1. CASE SpawnWorker
  BY <1>1 DEF SpawnWorker
<1>2. CASE SpawnFails
  BY <1>2 DEF SpawnFails
<1>3. ASSUME NEW j \in Jobs, Execute(j) PROVE Frame'
  BY <1>3 DEF Execute
<1>4. CASE BeginDrop
  <2>1. OwnerAgrees'
    <3>1. joined' < Size /\ spawned' = Size /\ owner' = "joining"
      BY <1>4 DEF BeginDrop
    <3>2. ~sender'
      BY <1>4 DEF BeginDrop
    <3> QED  BY <3>1, <3>2
  <2>2. TypeOK' /\ ThreadsAgree'
    BY <1>4 DEF BeginDrop
  <2> QED  BY <2>1, <2>2
<1>5. CASE JoinWorker
  BY <1>5 DEF JoinWorker
<1> QED  BY <1>1, <1>2, <1>3, <1>4, <1>5 DEF OwnerStep

(* A worker keeps the frame.                                               *)
LEMMA WorkerFrame == ASSUME NEW w \in Workers, Frame, WorkerStep(w) PROVE Frame'
<1> USE PoolAssumption
    DEF Frame, TypeOK, OwnerAgrees, ThreadsAgree, Workers, NoWorker, OwnerStates,
        WorkerStates, HoldingLock
<1>1. CASE LockReceiver(w)
  BY <1>1 DEF LockReceiver
<1>2. CASE Recv(w)
  <2>1. /\ Head(queue) \in Jobs
        /\ Tail(queue) \in Seq(Jobs)
        /\ Append(taken, Head(queue)) \in Seq(Jobs)
    BY <1>2, HeadTailProperties DEF Recv
  <2> QED  BY <1>2, <2>1 DEF Recv, TakeJob
<1>3. CASE RecvFails(w)
  BY <1>3 DEF RecvFails
<1>4. CASE Unlock(w)
  BY <1>4 DEF Unlock, ReleaseLock
<1>5. ASSUME NEW how \in {"returned", "panicked"}, JobEnds(w, how) PROVE Frame'
  BY <1>5 DEF JobEnds, Settle, AfterJob
<1> QED  BY <1>1, <1>2, <1>3, <1>4, <1>5 DEF WorkerStep

(* Every step keeps the frame.                                             *)
LEMMA StepFrame == Frame /\ [Next]_vars => Frame'
<1> SUFFICES ASSUME Frame, [Next]_vars PROVE Frame'
  OBVIOUS
<1>1. CASE UNCHANGED vars
  BY <1>1 DEF Frame, TypeOK, OwnerAgrees, ThreadsAgree, vars
<1>2. CASE Terminated
  BY <1>1, <1>2 DEF Terminated
<1> QED  BY <1>1, <1>2, OwnerFrame, WorkerFrame DEF Next

(* The variables keep their types: thread_pool.rs never joins a worker     *)
(* that does not exist, receives from an empty channel or runs a job that  *)
(* nobody sent.                                                            *)
THEOREM Typed == Spec => []TypeOK
<1>1. Frame => TypeOK
  BY DEF Frame
<1> QED  BY InitFrame, StepFrame, <1>1, PTL DEF Spec

-----------------------------------------------------------------------------
(* The lock, the closed channel and the order of the jobs.                 *)

(* Every step keeps the lock with the worker inside the let statement.     *)
LEMMA StepLock ==
  Frame /\ LockCoversReceiveOnly /\ [Next]_vars => LockCoversReceiveOnly'
<1> SUFFICES ASSUME Frame, LockCoversReceiveOnly, [Next]_vars
             PROVE  LockCoversReceiveOnly'
  OBVIOUS
<1> USE PoolAssumption
    DEF Frame, TypeOK, OwnerAgrees, ThreadsAgree, LockCoversReceiveOnly, HoldingLock,
        Workers, NoWorker, WorkerStates
<1>1. CASE UNCHANGED vars \/ Terminated
  BY <1>1 DEF vars, Terminated
<1>2. CASE OwnerStep
  <2>1. CASE SpawnWorker
    BY <2>1 DEF SpawnWorker
  <2>2. CASE ~SpawnWorker
    <3>1. UNCHANGED <<pc, mutex>>
      BY <1>2, <2>2 DEF OwnerStep, SpawnFails, Execute, BeginDrop, JoinWorker
    <3> QED  BY <3>1
  <2> QED  BY <2>1, <2>2
<1>3. ASSUME NEW w \in Workers, WorkerStep(w) PROVE LockCoversReceiveOnly'
  <2>1. CASE LockReceiver(w)
    BY <2>1 DEF LockReceiver
  <2>2. CASE Recv(w)
    BY <2>2 DEF Recv
  <2>3. CASE RecvFails(w)
    BY <2>3 DEF RecvFails
  <2>4. CASE Unlock(w)
    BY <2>4 DEF Unlock, ReleaseLock
  <2>5. ASSUME NEW how \in {"returned", "panicked"}, JobEnds(w, how)
        PROVE  LockCoversReceiveOnly'
    BY <2>5 DEF JobEnds, AfterJob
  <2> QED  BY <1>3, <2>1, <2>2, <2>3, <2>4, <2>5 DEF WorkerStep
<1> QED  BY <1>1, <1>2, <1>3 DEF Next

(* Once a worker has seen the end of the channel it stays empty.           *)
LEMMA StepDrained ==
  Frame /\ ClosedMeansDrained /\ [Next]_vars => ClosedMeansDrained'
<1> SUFFICES ASSUME Frame, ClosedMeansDrained, [Next]_vars
             PROVE  ClosedMeansDrained'
  OBVIOUS
<1> USE DEF Frame, TypeOK, OwnerAgrees, ThreadsAgree, ClosedMeansDrained
<1>1. CASE UNCHANGED vars \/ Terminated
  BY <1>1 DEF vars, Terminated
<1>2. CASE OwnerStep
  <2>1. CASE SpawnWorker
    <3>1. \A w \in Workers : pc'[w] \in {"closed", "exited"} => pc[w] = pc'[w]
      BY <2>1 DEF SpawnWorker
    <3> QED  BY <2>1, <3>1 DEF SpawnWorker
  <2>2. ASSUME NEW j \in Jobs, Execute(j) PROVE ClosedMeansDrained'
    BY <2>2 DEF Execute
  <2>3. CASE SpawnFails \/ BeginDrop \/ JoinWorker
    BY <2>3 DEF SpawnFails, BeginDrop, JoinWorker
  <2> QED  BY <1>2, <2>1, <2>2, <2>3 DEF OwnerStep
<1>3. ASSUME NEW w \in Workers, WorkerStep(w) PROVE ClosedMeansDrained'
  <2>1. CASE LockReceiver(w)
    BY <2>1 DEF LockReceiver
  <2>2. CASE Recv(w)
    BY <2>2 DEF Recv
  <2>3. CASE RecvFails(w)
    BY <2>3 DEF RecvFails, SeesDisconnect
  <2>4. CASE Unlock(w)
    BY <2>4 DEF Unlock
  <2>5. ASSUME NEW how \in {"returned", "panicked"}, JobEnds(w, how)
        PROVE  ClosedMeansDrained'
    BY <2>5 DEF JobEnds, Settle, AfterJob
  <2> QED  BY <1>3, <2>1, <2>2, <2>3, <2>4, <2>5 DEF WorkerStep
<1> QED  BY <1>1, <1>2, <1>3 DEF Next

(* Everything but Execute and Recv leaves the three sequences alone.       *)
LEMMA SequencesMove ==
  [Next]_vars => \/ UNCHANGED <<queue, submitted, taken>>
                 \/ \E j \in Jobs : Execute(j)
                 \/ \E w \in Workers : Recv(w)
  BY DEF Next, OwnerStep, WorkerStep, SpawnWorker, SpawnFails, BeginDrop, JoinWorker,
         LockReceiver, RecvFails, Unlock, JobEnds, Settle, Terminated, vars

(* execute and recv keep the order of the jobs.                            *)
LEMMA StepFifo ==
  Frame /\ ChannelIsFifo /\ [Next]_vars => ChannelIsFifo'
<1> SUFFICES ASSUME Frame, ChannelIsFifo, [Next]_vars PROVE ChannelIsFifo'
  OBVIOUS
<1> USE DEF Frame, TypeOK, ChannelIsFifo
<1>1. CASE UNCHANGED <<queue, submitted, taken>>
  BY <1>1
<1>2. ASSUME NEW j \in Jobs, Execute(j) PROVE ChannelIsFifo'
  <2>1. Append(taken \o queue, j) = taken \o Append(queue, j)
    <3>1. taken \in Seq(Jobs) /\ queue \in Seq(Jobs)
      OBVIOUS
    <3> HIDE DEF Frame, TypeOK, ChannelIsFifo
    <3>2. ASSUME NEW s \in Seq(Jobs), NEW t \in Seq(Jobs)
          PROVE  Append(s \o t, j) = s \o Append(t, j)
      OBVIOUS
    <3> QED  BY <3>1, <3>2
  <2> QED  BY <1>2, <2>1 DEF Execute
<1>3. ASSUME NEW w \in Workers, Recv(w) PROVE ChannelIsFifo'
  BY <1>3, MoveHead DEF Recv, TakeJob
<1> QED  BY <1>1, <1>2, <1>3, SequencesMove

(* No job is submitted twice.                                              *)
LEMMA StepOnce ==
  Frame /\ SubmittedOnce /\ [Next]_vars => SubmittedOnce'
<1> SUFFICES ASSUME Frame, SubmittedOnce, [Next]_vars PROVE SubmittedOnce'
  OBVIOUS
<1>1. CASE UNCHANGED submitted
  BY <1>1 DEF SubmittedOnce
<1>2. ASSUME NEW j \in Jobs, Execute(j) PROVE SubmittedOnce'
  BY <1>2, AppendKeepsInjective DEF Execute, Frame, TypeOK, SubmittedOnce
<1>3. ASSUME NEW w \in Workers, Recv(w) PROVE UNCHANGED submitted
  BY <1>3 DEF Recv
<1> QED  BY <1>1, <1>2, <1>3, SequencesMove

-----------------------------------------------------------------------------
(* Each job is in one place.                                               *)

(* A job goes from the channel to a worker and from there to its end.      *)
LEMMA StepOnePlace ==
  ASSUME Frame, SubmittedOnce, ChannelIsFifo, EachJobInOnePlace, [Next]_vars
  PROVE  EachJobInOnePlace'
<1> USE DEF EachJobInOnePlace
<1>1. CASE UNCHANGED <<taken, job, outcome>>
  BY <1>1
<1>2. ASSUME NEW w \in Workers, Recv(w) PROVE EachJobInOnePlace'
  <2> DEFINE h == Head(queue)
  <2>1. /\ h \in Jobs /\ h # NoJob
        /\ h \notin Range(taken)
    <3>1. h \in Jobs
      BY <1>2, HeadTailProperties DEF Recv, Frame, TypeOK
    <3>2. h \notin Range(taken)
      BY <1>2, HeadIsFresh DEF Recv, Frame, TypeOK, SubmittedOnce, ChannelIsFifo
    <3> QED  BY <3>1, <3>2, PoolAssumption
  <2>2. Range(taken') = Range(taken) \cup {h}
    BY <1>2, <2>1, RangeOfAppend DEF Recv, TakeJob, Frame, TypeOK
  <2>3. /\ job \in [Workers -> Jobs \cup {NoJob}]
        /\ job[w] = NoJob
        /\ job' = [job EXCEPT ![w] = h]
        /\ outcome' = outcome
    BY <1>2 DEF Recv, TakeJob, Frame, TypeOK, ThreadsAgree
  <2>4. outcome[h] = "none" /\ \A v \in Workers : job[v] # h
    BY <2>1
  <2> HIDE DEF h
  <2>5. /\ job'[w] = h
        /\ \A v \in Workers : v # w => job'[v] = job[v]
    BY <2>3
  <2>6. ASSUME NEW j \in Jobs
        PROVE  j \in Range(taken') <=> ((\E v \in Workers : job'[v] = j) \/ outcome'[j] # "none")
    <3>1. CASE j = h
      BY <2>2, <2>5, <3>1
    <3>2. CASE j # h
      <4>1. (\E v \in Workers : job'[v] = j) <=> (\E v \in Workers : job[v] = j)
        BY <2>3, <2>5, <3>2, PoolAssumption
      <4> QED  BY <2>2, <2>3, <3>2, <4>1
    <3> QED  BY <3>1, <3>2
  <2>7. \A v \in Workers : job'[v] # NoJob => outcome'[job'[v]] = "none"
    BY <2>3, <2>4, <2>5
  <2>8. \A u, v \in Workers : job'[u] = job'[v] /\ job'[u] # NoJob => u = v
    BY <2>4, <2>5
  <2> QED  BY <2>6, <2>7, <2>8
<1>3. ASSUME NEW w \in Workers, NEW how \in {"returned", "panicked"}, JobEnds(w, how)
      PROVE  EachJobInOnePlace'
  <2>1. /\ job \in [Workers -> Jobs \cup {NoJob}]
        /\ outcome \in [Jobs -> {"none", "returned", "panicked"}]
        /\ job[w] \in Jobs /\ job[w] # NoJob
        /\ job' = [job EXCEPT ![w] = NoJob]
        /\ outcome' = [outcome EXCEPT ![job[w]] = how]
        /\ taken' = taken
        /\ how # "none"
    BY <1>3 DEF JobEnds, Settle, Frame, TypeOK, ThreadsAgree
  <2> QED  BY <2>1, PoolAssumption
<1> QED
  BY <1>1, <1>2, <1>3
     DEF Next, OwnerStep, WorkerStep, SpawnWorker, SpawnFails, Execute, BeginDrop,
         JoinWorker, LockReceiver, RecvFails, Unlock, Terminated, vars

-----------------------------------------------------------------------------
(* The invariant of the pool and what follows from it.                     *)

(* The invariant holds initially.                                          *)
LEMMA InitPoolInv == Init => PoolInv
<1> SUFFICES ASSUME Init PROVE PoolInv
  OBVIOUS
<1>1. Frame
  BY InitFrame
<1>2. LockCoversReceiveOnly
  BY PoolAssumption DEF Init, LockCoversReceiveOnly, Workers, NoWorker, HoldingLock
<1>3. ClosedMeansDrained
  BY DEF Init, ClosedMeansDrained
<1>4. SubmittedOnce /\ ChannelIsFifo
  BY DEF Init, SubmittedOnce, ChannelIsFifo, IsInjective
<1>5. EachJobInOnePlace
  <2>1. Range(taken) = {}
    BY DEF Init, Range
  <2> QED  BY <2>1, PoolAssumption DEF Init, EachJobInOnePlace
<1> QED  BY <1>1, <1>2, <1>3, <1>4, <1>5 DEF PoolInv, Frame

(* The invariant PoolInv holds in every reachable state of every pool.     *)
THEOREM PoolInvariant == Spec => []PoolInv
<1>1. PoolInv /\ [Next]_vars => PoolInv'
  BY StepFrame, StepLock, StepDrained, StepOnce, StepFifo, StepOnePlace
     DEF PoolInv, Frame
<1> QED  BY InitPoolInv, <1>1, PTL DEF Spec

(* A worker holds the receiver's lock only inside the let statement of     *)
(* worker_loop, and only one worker does.                                  *)
THEOREM LockOnlyToReceive == Spec => []LockCoversReceiveOnly
<1>1. PoolInv => LockCoversReceiveOnly
  BY DEF PoolInv
<1> QED  BY PoolInvariant, <1>1, PTL

(* No job is lost, invented or overtaken in the channel.                   *)
THEOREM JobsInOrder == Spec => []ChannelIsFifo
<1>1. PoolInv => ChannelIsFifo
  BY DEF PoolInv
<1> QED  BY PoolInvariant, <1>1, PTL

(* Each job is run exactly once, whether it returns or panics.             *)
THEOREM JobsRunOnce == Spec => []EachJobInOnePlace
<1>1. PoolInv => EachJobInOnePlace
  BY DEF PoolInv
<1> QED  BY PoolInvariant, <1>1, PTL

(* The unwrap of execute's send never fails: whatever the jobs did, no     *)
(* worker has ended while the owner may still submit.                      *)
THEOREM SendAlwaysSucceeds == Spec => []SendNeverFails
<1>1. PoolInv => SendNeverFails
  BY DEF PoolInv, SendNeverFails, OwnerAgrees, ThreadsAgree, ClosedMeansDrained,
         TypeOK, Workers
<1> QED  BY PoolInvariant, <1>1, PTL

(* When drop has returned, every job ever accepted has ended and every     *)
(* worker is gone.                                                         *)
THEOREM DropCompletesAllJobs == Spec => []DropIsGraceful
<1>1. PoolInv => DropIsGraceful
  <2> SUFFICES ASSUME PoolInv, owner = "dropped"
               PROVE  /\ queue = << >>
                      /\ \A j \in Range(submitted) : outcome[j] # "none"
                      /\ \A w \in Workers : pc[w] = "exited"
    BY DEF DropIsGraceful
  <2>1. \A w \in Workers : pc[w] = "exited"
    <3>1. joined = Size
      BY DEF PoolInv, OwnerAgrees
    <3>2. \A w \in Workers : w < Size
      BY PoolAssumption DEF Workers
    <3> QED  BY <3>1, <3>2 DEF PoolInv, ThreadsAgree
  <2>2. queue = << >>
    <3>1. 0 \in Workers
      BY PoolAssumption DEF Workers
    <3> QED  BY <2>1, <3>1 DEF PoolInv, ClosedMeansDrained
  <2>3. submitted = taken
    BY <2>2, ConcatEmptySeq DEF PoolInv, TypeOK, ChannelIsFifo
  <2>4. \A w \in Workers : job[w] = NoJob
    BY <2>1 DEF PoolInv, ThreadsAgree
  <2>5. ASSUME NEW j \in Range(submitted) PROVE outcome[j] # "none"
    <3>1. j \in Jobs /\ j \in Range(taken)
      BY <2>3, <2>5, RangeOfSeq DEF PoolInv, TypeOK
    <3> QED  BY <2>4, <3>1, PoolAssumption DEF PoolInv, EachJobInOnePlace
  <2> QED  BY <2>1, <2>2, <2>5
<1> QED  BY PoolInvariant, <1>1, PTL

-----------------------------------------------------------------------------
(* The pool implements the abstract service.                               *)

(* A job that runs, waits, has ended or was never submitted does only that. *)
PhasesDisjoint ==
  \A j \in Jobs :
    JobPhase(j) = IF HeldIn(j, {"run"}) THEN "serving"
                  ELSE IF HeldIn(j, {"got"}) \/ j \in Range(queue) THEN "accepted"
                  ELSE IF outcome[j] # "none" THEN "done" ELSE "new"

(* A job in the channel was not received, and one that was received has    *)
(* one holder until it ends.                                               *)
LEMMA WaitingIsNotHeld ==
  ASSUME PoolInv, NEW j \in Range(queue)
  PROVE  /\ j \in Jobs /\ j # NoJob
         /\ outcome[j] = "none"
         /\ \A w \in Workers : job[w] # j
<1>1. j \in Jobs
  BY RangeOfSeq DEF PoolInv, TypeOK
<1>2. j \notin Range(taken)
  BY PartsAreDisjoint DEF PoolInv, TypeOK, SubmittedOnce, ChannelIsFifo
<1> QED  BY <1>1, <1>2, PoolAssumption DEF PoolInv, EachJobInOnePlace

(* The phases of a state of the pool exclude each other.                   *)
LEMMA Phases == PoolInv => PhasesDisjoint
<1> SUFFICES ASSUME PoolInv, NEW j \in Jobs
             PROVE  JobPhase(j) = IF HeldIn(j, {"run"}) THEN "serving"
                                  ELSE IF HeldIn(j, {"got"}) \/ j \in Range(queue) THEN "accepted"
                                  ELSE IF outcome[j] # "none" THEN "done" ELSE "new"
  BY DEF PhasesDisjoint
<1>1. ~ (HeldIn(j, {"run"}) /\ HeldIn(j, {"got"}))
  BY PoolAssumption DEF HeldIn, PoolInv, EachJobInOnePlace
<1>2. j \in Range(queue) => ~ HeldIn(j, {"run"})
  BY WaitingIsNotHeld DEF HeldIn
<1> QED  BY <1>1, <1>2 DEF JobPhase

(* One job changes its phase and no other does.                            *)
LEMMA OneJobMoves ==
  ASSUME NEW t \in Jobs, NEW from, NEW to,
         JobPhase(t) = from, JobPhase(t)' = to,
         \A j \in Jobs \ {t} : JobPhase(j)' = JobPhase(j)
  PROVE  Service!Move(t, from, to)
  BY DEF Service!Move

(* No job changes its phase.                                               *)
LEMMA NoJobMoves ==
  ASSUME \A j \in Jobs : JobPhase(j)' = JobPhase(j)
  PROVE  UNCHANGED [j \in Jobs |-> JobPhase(j)]
  OBVIOUS

(* A worker that does not run a job leaves room for one.                   *)
LEMMA RoomToServe ==
  ASSUME PoolInv, NEW w \in Workers, pc[w] # "run"
  PROVE  IsFiniteSet(Service!Serving) /\ Cardinality(Service!Serving) < Size
<1> DEFINE running == {v \in Workers : pc[v] = "run"}
           holds == [v \in running |-> job[v]]
<1>1. IsFiniteSet(Workers) /\ Cardinality(Workers) = Size
  BY PoolAssumption, FS_Interval DEF Workers
<1>2. IsFiniteSet(Workers \ {w}) /\ Cardinality(Workers \ {w}) = Size - 1
  BY <1>1, FS_RemoveElement
<1>3. running \in SUBSET (Workers \ {w})
  OBVIOUS
<1>4. /\ IsFiniteSet(running)
      /\ Cardinality(running) <= Size - 1
      /\ Cardinality(running) \in Nat
  BY <1>2, <1>3, FS_Subset, FS_CardinalityType
<1>5. Service!Serving = {j \in Jobs : HeldIn(j, {"run"})}
  BY Phases DEF Service!Serving, PhasesDisjoint
<1>6. holds \in Surjection(running, Service!Serving)
  <2>1. \A v \in running : job[v] \in Service!Serving
    BY <1>5, PoolAssumption DEF HeldIn, PoolInv, TypeOK, ThreadsAgree
  <2>2. \A j \in Service!Serving : \E v \in running : holds[v] = j
    BY <1>5 DEF HeldIn
  <2> QED  BY <2>1, <2>2 DEF Surjection
<1>7. /\ IsFiniteSet(Service!Serving)
      /\ Cardinality(Service!Serving) <= Cardinality(running)
  BY <1>4, <1>6, FS_Surjection
<1>8. Cardinality(Service!Serving) \in Nat
  BY <1>7, FS_CardinalityType
<1> QED  BY <1>4, <1>7, <1>8, PoolAssumption

(* A step that gives no job to anybody and takes none away moves no job.   *)
LEMMA HandsUnchanged ==
  ASSUME PoolInv, PhasesDisjoint, PhasesDisjoint', UNCHANGED <<queue, job, outcome>>,
         \A w \in Workers : job[w] # NoJob => pc'[w] = pc[w]
  PROVE  UNCHANGED [j \in Jobs |-> JobPhase(j)]
<1>1. ASSUME NEW j \in Jobs, NEW st PROVE HeldIn(j, {st})' <=> HeldIn(j, {st})
  BY PoolAssumption DEF HeldIn
<1>2. \A j \in Jobs : JobPhase(j)' = JobPhase(j)
  BY <1>1 DEF PhasesDisjoint
<1> QED  BY <1>2, NoJobMoves

(* Each step of the pool is one of the service, or none.                   *)
LEMMA StepPoolService ==
  ASSUME PoolInv, PoolInv', [Next]_vars
  PROVE  [Service!Next]_([j \in Jobs |-> JobPhase(j)])
<1> DEFINE phase == [j \in Jobs |-> JobPhase(j)]
<1>1. PhasesDisjoint /\ PhasesDisjoint'
  BY Phases, PTL
<1>2. CASE UNCHANGED vars \/ Terminated \/ SpawnFails \/ BeginDrop \/ JoinWorker
  <2>1. UNCHANGED <<queue, job, outcome, pc>>
    BY <1>2 DEF vars, Terminated, SpawnFails, BeginDrop, JoinWorker
  <2> QED  BY <2>1, <1>1, HandsUnchanged
<1>3. CASE SpawnWorker
  <2>1. /\ UNCHANGED <<queue, job, outcome>>
        /\ \A w \in Workers : job[w] # NoJob => pc'[w] = pc[w]
    BY <1>3 DEF SpawnWorker, PoolInv, TypeOK, OwnerAgrees, ThreadsAgree, Workers
  <2> QED  BY <2>1, <1>1, HandsUnchanged
<1>4. ASSUME NEW j \in Jobs, Execute(j) PROVE [Service!Next]_phase
  <2>1. Range(queue') = Range(queue) \cup {j}
    BY <1>4, RangeOfAppend DEF Execute, PoolInv, TypeOK
  <2>2. /\ j \notin Range(queue) /\ outcome[j] = "none"
        /\ \A w \in Workers : job[w] # j
    <3>1. j \notin Range(taken) /\ j \notin Range(queue)
      BY <1>4, RangeConcatenation DEF Execute, PoolInv, TypeOK, ChannelIsFifo
    <3> QED  BY <3>1 DEF PoolInv, EachJobInOnePlace
  <2>3. UNCHANGED <<pc, job, outcome>>
    BY <1>4 DEF Execute
  <2>4. JobPhase(j) = "new" /\ JobPhase(j)' = "accepted"
    BY <1>1, <2>1, <2>2, <2>3 DEF PhasesDisjoint, HeldIn
  <2>5. \A k \in Jobs \ {j} : JobPhase(k)' = JobPhase(k)
    BY <1>1, <2>1, <2>3 DEF PhasesDisjoint, HeldIn
  <2>6. Service!Accept(j)
    BY <2>4, <2>5, OneJobMoves DEF Service!Accept
  <2> QED  BY <2>6 DEF Service!Next
<1>5. ASSUME NEW w \in Workers, LockReceiver(w) \/ RecvFails(w) PROVE [Service!Next]_phase
  <2>1. /\ UNCHANGED <<queue, job, outcome>>
        /\ \A v \in Workers : job[v] # NoJob => pc'[v] = pc[v]
    BY <1>5 DEF LockReceiver, RecvFails, PoolInv, TypeOK, ThreadsAgree
  <2> QED  BY <2>1, <1>1, HandsUnchanged
<1>6. ASSUME NEW w \in Workers, Recv(w) PROVE [Service!Next]_phase
  <2>1. PICK h \in Jobs : h = Head(queue)
    BY <1>6, HeadTailProperties DEF Recv, PoolInv, TypeOK
  <2>2. Range(queue) = {h} \cup Range(queue')
    BY <1>6, <2>1, RangeOfHeadTail DEF Recv, TakeJob, PoolInv, TypeOK
  <2>3. h # NoJob /\ outcome[h] = "none" /\ \A v \in Workers : job[v] # h
    BY <2>2, WaitingIsNotHeld
  <2>4. /\ outcome' = outcome
        /\ job[w] = NoJob /\ job'[w] = h /\ pc'[w] = "got"
        /\ \A v \in Workers : v # w => job'[v] = job[v] /\ pc'[v] = pc[v]
    BY <1>6, <2>1 DEF Recv, TakeJob, PoolInv, TypeOK, ThreadsAgree
  <2>5. JobPhase(h) = "accepted" /\ JobPhase(h)' = "accepted"
    BY <1>1, <2>2, <2>3, <2>4 DEF PhasesDisjoint, HeldIn
  <2>6. ASSUME NEW k \in Jobs, k # h PROVE JobPhase(k)' = JobPhase(k)
    <3>1. /\ HeldIn(k, {"run"})' <=> HeldIn(k, {"run"})
          /\ HeldIn(k, {"got"})' <=> HeldIn(k, {"got"})
      BY <2>4, <2>6, PoolAssumption DEF HeldIn
    <3> QED  BY <1>1, <2>2, <2>4, <2>6, <3>1 DEF PhasesDisjoint
  <2> QED  BY <2>5, <2>6, NoJobMoves
<1>7. ASSUME NEW w \in Workers, Unlock(w) PROVE [Service!Next]_phase
  <2>1. CASE pc[w] = "closed"
    <3>1. /\ UNCHANGED <<queue, job, outcome>>
          /\ \A v \in Workers : job[v] # NoJob => pc'[v] = pc[v]
      BY <1>7, <2>1 DEF Unlock, PoolInv, TypeOK, ThreadsAgree
    <3> QED  BY <3>1, <1>1, HandsUnchanged
  <2>2. CASE pc[w] = "got"
    <3>1. PICK t \in Jobs : t = job[w]
      BY <2>2 DEF PoolInv, TypeOK, ThreadsAgree
    <3>2. /\ t # NoJob
          /\ \A v \in Workers : job[v] = t => v = w
      BY <3>1, PoolAssumption DEF PoolInv, EachJobInOnePlace
    <3>3. /\ UNCHANGED <<queue, job, outcome>>
          /\ pc'[w] = "run"
          /\ \A v \in Workers : v # w => pc'[v] = pc[v]
      BY <1>7, <2>2 DEF Unlock, PoolInv, TypeOK
    <3>4. JobPhase(t) = "accepted" /\ JobPhase(t)' = "serving"
      BY <1>1, <2>2, <3>1, <3>2, <3>3 DEF PhasesDisjoint, HeldIn
    <3>5. ASSUME NEW k \in Jobs \ {t} PROVE JobPhase(k)' = JobPhase(k)
      <4>1. /\ HeldIn(k, {"run"})' <=> HeldIn(k, {"run"})
            /\ HeldIn(k, {"got"})' <=> HeldIn(k, {"got"})
        BY <3>1, <3>3 DEF HeldIn
      <4> QED  BY <1>1, <3>3, <4>1 DEF PhasesDisjoint
    <3>6. Service!Start(t)
      <4>1. Service!Move(t, "accepted", "serving")
        BY <3>4, <3>5, OneJobMoves
      <4>2. Cardinality(Service!Serving) < Size
        BY <2>2, RoomToServe
      <4>3. Service!Cardinality(Service!Serving) = Cardinality(Service!Serving)
        BY DEF Service!Cardinality, Cardinality
      <4> QED  BY ONLY <4>1, <4>2, <4>3 DEF Service!Start
    <3> QED  BY <3>6 DEF Service!Next
  <2> QED  BY <1>7, <2>1, <2>2 DEF Unlock
<1>8. ASSUME NEW w \in Workers, NEW how \in {"returned", "panicked"}, JobEnds(w, how)
      PROVE  [Service!Next]_phase
  <2>1. PICK t \in Jobs : t = job[w]
    BY <1>8 DEF JobEnds, PoolInv, TypeOK, ThreadsAgree
  <2>2. /\ t # NoJob
        /\ t \notin Range(queue)
        /\ \A v \in Workers : job[v] = t => v = w
    BY <2>1, PoolAssumption, WaitingIsNotHeld DEF PoolInv, EachJobInOnePlace
  <2>3. /\ queue' = queue
        /\ outcome'[t] # "none"
        /\ \A k \in Jobs : k # t => outcome'[k] = outcome[k]
        /\ pc[w] = "run" /\ job'[w] = NoJob
        /\ \A v \in Workers : v # w => job'[v] = job[v] /\ pc'[v] = pc[v]
    BY <1>8, <2>1 DEF JobEnds, Settle, PoolInv, TypeOK
  <2>4. JobPhase(t) = "serving" /\ JobPhase(t)' = "done"
    BY <1>1, <2>1, <2>2, <2>3 DEF PhasesDisjoint, HeldIn
  <2>5. ASSUME NEW k \in Jobs \ {t} PROVE JobPhase(k)' = JobPhase(k)
    <3>1. /\ HeldIn(k, {"run"})' <=> HeldIn(k, {"run"})
          /\ HeldIn(k, {"got"})' <=> HeldIn(k, {"got"})
      BY <2>1, <2>3, PoolAssumption DEF HeldIn
    <3> QED  BY <1>1, <2>3, <3>1 DEF PhasesDisjoint
  <2>6. Service!Finish(t)
    BY <2>4, <2>5, OneJobMoves DEF Service!Finish
  <2> QED  BY <2>6 DEF Service!Next
<1> QED
  BY <1>2, <1>3, <1>4, <1>5, <1>6, <1>7, <1>8 DEF Next, OwnerStep, WorkerStep

(* A pool without jobs is a service without tasks.                         *)
LEMMA InitPoolService == Init => Service!Init
<1> SUFFICES ASSUME Init PROVE Service!Init
  OBVIOUS
<1>1. PhasesDisjoint
  BY InitPoolInv, Phases
<1>2. \A j \in Jobs : JobPhase(j) = "new"
  <2>1. ASSUME NEW j \in Jobs
        PROVE  ~HeldIn(j, {"run"}) /\ ~HeldIn(j, {"got"}) /\ j \notin Range(queue)
    BY PoolAssumption DEF Init, HeldIn, Range
  <2> QED  BY <1>1, <2>1 DEF Init, PhasesDisjoint
<1> QED  BY <1>2 DEF Service!Init

(* The pool implements BoundedService: each job is run once at most, no    *)
(* more of them at a time than there are workers, and none is given up.    *)
THEOREM PoolServes == Spec => ImplementsService
<1>1. PoolInv /\ [Next]_vars => PoolInv'
  BY StepFrame, StepLock, StepDrained, StepOnce, StepFifo, StepOnePlace
     DEF PoolInv, Frame
<1>2. PoolInv /\ [Next]_vars => [Service!Next]_([j \in Jobs |-> JobPhase(j)])
  BY <1>1, StepPoolService
<1> QED  BY InitPoolService, PoolInvariant, <1>2, PTL
            DEF Spec, ImplementsService, Service!Spec

=============================================================================
