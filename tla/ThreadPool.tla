----------------------------- MODULE ThreadPool -----------------------------
(***************************************************************************)
(* tcp-server/src/thread_pool.rs: a fixed set of worker threads taking     *)
(* jobs from one mpsc channel whose receiver sits behind a mutex.          *)
(*                                                                         *)
(* The owner is the thread that creates the pool, hands it jobs through    *)
(* execute, and finally drops it.  A worker locks the receiver, blocks in  *)
(* recv while holding the lock, releases the lock at the end of the let    *)
(* statement, and only then runs the job inside catch_unwind.              *)
(***************************************************************************)
EXTENDS Integers, Sequences, FiniteSets, Functions

CONSTANTS
  Size,   \* the argument of ThreadPool::new
  Jobs,   \* every closure that may ever be handed to execute
  Stuck,  \* the jobs that never return, such as a handler whose peer is silent
  NoJob

ASSUME PoolAssumption ==
  /\ Size \in Nat \ {0}
  /\ Stuck \subseteq Jobs
  /\ NoJob \notin Jobs

(* The size of a default pool: the CPUs the process may run on or, when    *)
(* the kernel does not say, those that are online (-1 for not known).      *)
NumCpus(known, affinity, online) ==
  IF known THEN Cardinality(affinity) ELSE IF online > 1 THEN online ELSE 1

Workers == 0 .. Size - 1
NoWorker == -1

VARIABLES
  owner,      \* where the owning thread is in the life of the pool
  spawned,    \* how many worker threads new has created
  sender,     \* TRUE while the channel's only Sender exists
  queue,      \* the jobs in the channel
  mutex,      \* the worker that holds the receiver's lock, or NoWorker
  pc,         \* where each worker is in worker_loop
  job,        \* the job a worker has received and not finished
  joined,     \* how many workers drop has joined
  submitted,  \* history: the jobs sent, in order
  taken,      \* history: the jobs received, in order
  outcome     \* history: how each job ended

vars == <<owner, spawned, sender, queue, mutex, pc, job, joined,
          submitted, taken, outcome>>

OwnerStates == {"spawning", "ready", "joining", "dropped", "failed"}
HoldingLock == {"recv", "got", "closed"}
WorkerStates == {"none", "lock", "run", "exited"} \cup HoldingLock

Init ==
  /\ owner = "spawning"
  /\ spawned = 0
  /\ sender = TRUE
  /\ queue = << >>
  /\ mutex = NoWorker
  /\ pc = [w \in Workers |-> "none"]
  /\ job = [w \in Workers |-> NoJob]
  /\ joined = 0
  /\ submitted = << >>
  /\ taken = << >>
  /\ outcome = [j \in Jobs |-> "none"]

-----------------------------------------------------------------------------
(* The owner.                                                              *)

(* Mutant: the range includes its upper bound. *)
SpawnWorker_OneMore ==
  /\ owner = "spawning"
  /\ pc' = [pc EXCEPT ![spawned] = "lock"]
  /\ spawned' = spawned + 1
  /\ owner' = IF spawned' > Size THEN "ready" ELSE "spawning"
  /\ UNCHANGED <<sender, queue, mutex, job, joined, submitted, taken, outcome>>

SpawnWorker ==
  /\ owner = "spawning"
  /\ pc' = [pc EXCEPT ![spawned] = "lock"]
  /\ spawned' = spawned + 1
  /\ owner' = IF spawned' = Size THEN "ready" ELSE "spawning"
  /\ UNCHANGED <<sender, queue, mutex, job, joined, submitted, taken, outcome>>

(* Mutant: a Sender survives the unwinding. *)
SpawnFails_KeepsSender ==
  /\ owner = "spawning"
  /\ owner' = "failed"
  /\ UNCHANGED <<spawned, sender, queue, mutex, pc, job, joined, submitted, taken, outcome>>

(* thread::spawn panics when the system refuses a thread: new unwinds, the *)
(* channel's Sender goes with it and the workers already there are left    *)
(* detached.                                                               *)
SpawnFails ==
  /\ owner = "spawning"
  /\ owner' = "failed"
  /\ sender' = FALSE
  /\ UNCHANGED <<spawned, queue, mutex, pc, job, joined, submitted, taken, outcome>>

(* A job is accepted twice only if the caller makes it twice. *)
Execute(j) ==
  /\ owner = "ready"
  /\ j \notin Range(submitted)
  /\ queue' = Append(queue, j)
  /\ submitted' = Append(submitted, j)
  /\ UNCHANGED <<owner, spawned, sender, mutex, pc, job, joined, taken, outcome>>

BeginDrop ==
  /\ owner = "ready"
  /\ owner' = "joining"
  /\ sender' = FALSE
  /\ UNCHANGED <<spawned, queue, mutex, pc, job, joined, submitted, taken, outcome>>

(* Mutant: the handles are dropped instead of joined. *)
JoinWorker_Detach ==
  /\ owner = "joining"
  /\ joined' = joined + 1
  /\ owner' = IF joined' = Size THEN "dropped" ELSE "joining"
  /\ UNCHANGED <<spawned, sender, queue, mutex, pc, job, submitted, taken, outcome>>

(* drop joins the workers in the order they were created. *)
JoinWorker ==
  /\ owner = "joining"
  /\ pc[joined] = "exited"
  /\ joined' = joined + 1
  /\ owner' = IF joined' = Size THEN "dropped" ELSE "joining"
  /\ UNCHANGED <<spawned, sender, queue, mutex, pc, job, submitted, taken, outcome>>

-----------------------------------------------------------------------------
(* The workers.                                                            *)

LockReceiver(w) ==
  /\ pc[w] = "lock"
  /\ mutex = NoWorker
  /\ mutex' = w
  /\ pc' = [pc EXCEPT ![w] = "recv"]
  /\ UNCHANGED <<owner, spawned, sender, queue, job, joined, submitted, taken, outcome>>

(* Mutant: the newest job is served first. *)
TakeJob_Newest(w) ==
  /\ job' = [job EXCEPT ![w] = queue[Len(queue)]]
  /\ taken' = Append(taken, queue[Len(queue)])
  /\ queue' = SubSeq(queue, 1, Len(queue) - 1)

TakeJob(w) ==
  /\ job' = [job EXCEPT ![w] = Head(queue)]
  /\ taken' = Append(taken, Head(queue))
  /\ queue' = Tail(queue)

(* recv blocks while the channel is empty and connected; it returns what   *)
(* is buffered before it reports that the Sender is gone.                  *)
Recv(w) ==
  /\ pc[w] = "recv"
  /\ queue # << >>
  /\ TakeJob(w)
  /\ pc' = [pc EXCEPT ![w] = "got"]
  /\ UNCHANGED <<owner, spawned, sender, mutex, joined, submitted, outcome>>

(* Mutant: a disconnected channel ends the worker even with jobs in it. *)
SeesDisconnect_Early == ~sender

(* Mutant: an empty channel ends the worker, as try_recv would. *)
SeesDisconnect_WhenEmpty == queue = << >>

SeesDisconnect == ~sender /\ queue = << >>

RecvFails(w) ==
  /\ pc[w] = "recv"
  /\ SeesDisconnect
  /\ pc' = [pc EXCEPT ![w] = "closed"]
  /\ UNCHANGED <<owner, spawned, sender, queue, mutex, job, joined, submitted,
                 taken, outcome>>

(* Mutant: the guard outlives the let statement when a job was received.   *)
ReleaseLock_AfterMatch(w) == mutex' = IF pc[w] = "got" THEN mutex ELSE NoWorker

ReleaseLock(w) == mutex' = NoWorker

(* The guard is a temporary of the let statement: it is dropped before the *)
(* match runs the job or breaks out of the loop.  Here the job starts with *)
(* this step; a thread may be slower, so that nothing may be concluded     *)
(* about the order in which the jobs of two workers start.                 *)
Unlock(w) ==
  /\ pc[w] \in {"got", "closed"}
  /\ ReleaseLock(w)
  /\ pc' = [pc EXCEPT ![w] = IF pc[w] = "got" THEN "run" ELSE "exited"]
  /\ UNCHANGED <<owner, spawned, sender, queue, job, joined, submitted, taken, outcome>>

(* Mutant: no catch_unwind, a panic in the job ends the thread. *)
AfterJob_NoCatch(how) == IF how = "panicked" THEN "exited" ELSE "lock"

(* catch_unwind turns a panic of the job into a log line. *)
AfterJob(how) == "lock"

(* Mutant: the job is put back when it panics. *)
Settle_Requeue(w, how) ==
  /\ outcome' = [outcome EXCEPT ![job[w]] = how]
  /\ job' = [job EXCEPT ![w] = NoJob]
  /\ queue' = IF how = "panicked" THEN Append(queue, job[w]) ELSE queue

Settle(w, how) ==
  /\ outcome' = [outcome EXCEPT ![job[w]] = how]
  /\ job' = [job EXCEPT ![w] = NoJob]
  /\ UNCHANGED queue

JobEnds(w, how) ==
  /\ pc[w] = "run"
  /\ job[w] \notin Stuck
  /\ Settle(w, how)
  /\ pc' = [pc EXCEPT ![w] = AfterJob(how)]
  /\ UNCHANGED <<owner, spawned, sender, mutex, joined, submitted, taken>>

-----------------------------------------------------------------------------
(* Nothing is left to run: the owner is gone, or waits for a worker whose  *)
(* job never returns, and every other thread has ended.                    *)
Terminated ==
  /\ owner \in {"joining", "dropped", "failed"}
  /\ \A w \in Workers :
       pc[w] \in {"none", "exited"} \/ (pc[w] = "run" /\ job[w] \in Stuck)
  /\ owner = "joining" => pc[joined] = "run"
  /\ UNCHANGED vars

OwnerStep == SpawnWorker \/ SpawnFails \/ BeginDrop \/ JoinWorker \/ \E j \in Jobs : Execute(j)

WorkerStep(w) ==
  \/ LockReceiver(w)
  \/ Recv(w)
  \/ RecvFails(w)
  \/ Unlock(w)
  \/ \E how \in {"returned", "panicked"} : JobEnds(w, how)

Next == OwnerStep \/ (\E w \in Workers : WorkerStep(w)) \/ Terminated

Spec == Init /\ [][Next]_vars

(***************************************************************************)
(* The operating system runs every runnable thread, so what a thread can   *)
(* do on its own it eventually does.  A std Mutex promises no order among  *)
(* its waiters: only that a free lock is taken by somebody.  Nothing is    *)
(* assumed of the owner's decisions to submit a job or to drop the pool.   *)
(***************************************************************************)
Fairness ==
  /\ WF_vars(\E w \in Workers : LockReceiver(w))
  /\ \A w \in Workers :
       /\ WF_vars(Recv(w) \/ RecvFails(w))
       /\ WF_vars(Unlock(w))
       /\ WF_vars(\E how \in {"returned", "panicked"} : JobEnds(w, how))
  /\ WF_vars(SpawnWorker \/ SpawnFails)
  /\ WF_vars(JoinWorker)

FairSpec == Spec /\ Fairness

-----------------------------------------------------------------------------
(* The types of the variables, every worker and every job in its own       *)
(* state: the frame the other invariants are read in.                      *)
TypeOK ==
  /\ owner \in OwnerStates
  /\ spawned \in 0 .. Size
  /\ sender \in BOOLEAN
  /\ queue \in Seq(Jobs)
  /\ mutex \in Workers \cup {NoWorker}
  /\ pc \in [Workers -> WorkerStates]
  /\ job \in [Workers -> Jobs \cup {NoJob}]
  /\ joined \in 0 .. Size
  /\ submitted \in Seq(Jobs)
  /\ taken \in Seq(Jobs)
  /\ outcome \in [Jobs -> {"none", "returned", "panicked"}]

(* The lock is held by the one worker that is inside the let statement and *)
(* never by a worker that runs a job: a slow job does not keep the others  *)
(* from the channel.                                                       *)
LockCoversReceiveOnly ==
  \A w \in Workers : mutex = w <=> pc[w] \in HoldingLock

(* The channel loses nothing, invents nothing and keeps the order: what    *)
(* was sent is what was received followed by what is still inside.         *)
ChannelIsFifo == submitted = taken \o queue

(* A job is run exactly once even when it panics: a job that was received  *)
(* is either in the hands of one worker or has ended, never both.          *)
EachJobInOnePlace ==
  /\ \A j \in Jobs :
       j \in Range(taken) <=> ((\E w \in Workers : job[w] = j) \/ outcome[j] # "none")
  /\ \A w \in Workers : job[w] # NoJob => outcome[job[w]] = "none"
  /\ \A v, w \in Workers : job[v] = job[w] /\ job[v] # NoJob => v = w

(* execute ends in send(job).unwrap().  The receiver is dropped with the   *)
(* last worker thread, so the unwrap never panics as long as some worker   *)
(* is alive whenever the owner may call execute, however many jobs have    *)
(* panicked before.                                                        *)
SendNeverFails ==
  owner = "ready" => \A w \in Workers : pc[w] \notin {"none", "exited"}

(* When drop returns the channel has been drained, every job that was ever *)
(* accepted has ended, and no thread of the pool is left.                  *)
DropIsGraceful ==
  owner = "dropped" =>
    /\ queue = << >>
    /\ \A j \in Range(submitted) : outcome[j] # "none"
    /\ \A w \in Workers : pc[w] = "exited"

(* Every job accepted by execute is run to its end, in spite of panics and *)
(* of a drop that starts at any time, as long as fewer jobs than workers   *)
(* never return.  (A job that never returns is excused itself.)            *)
EveryJobEnds ==
  \A j \in Jobs \ Stuck :
    Cardinality(Stuck) < Size /\ j \in Range(submitted) ~> outcome[j] # "none"

(* No thread outlives its pool: when all jobs return, drop does too, with  *)
(* every worker joined; and a construction that failed half-way, which     *)
(* nobody drops, leaves no thread either.                                  *)
ThreadsEndWithPool ==
  Range(submitted) \cap Stuck = {} /\ owner \in {"joining", "failed"} ~>
    /\ owner \in {"dropped", "failed"}
    /\ \A w \in Workers : pc[w] \in {"none", "exited"}

-----------------------------------------------------------------------------
(* What makes the safety invariants inductive.                             *)

OwnerAgrees ==
  /\ sender <=> owner \in {"spawning", "ready"}
  /\ owner = "spawning" => spawned < Size
  /\ owner \in {"ready", "joining", "dropped"} => spawned = Size
  /\ owner = "joining" => joined < Size
  /\ owner = "dropped" => joined = Size
  /\ owner \notin {"joining", "dropped"} => joined = 0

ThreadsAgree ==
  /\ \A w \in Workers : pc[w] = "none" <=> w >= spawned
  /\ \A w \in Workers : job[w] # NoJob <=> pc[w] \in {"got", "run"}
  /\ \A w \in Workers : w < joined => pc[w] = "exited"

ClosedMeansDrained ==
  (\E w \in Workers : pc[w] \in {"closed", "exited"}) => ~sender /\ queue = << >>

SubmittedOnce == IsInjective(submitted)

(* The invariant the proofs carry from step to step: a worker only ends    *)
(* when the Sender is gone and the channel is empty, and then nobody can   *)
(* fill the channel again.                                                 *)
PoolInv ==
  /\ TypeOK
  /\ OwnerAgrees
  /\ ThreadsAgree
  /\ ClosedMeansDrained
  /\ SubmittedOnce
  /\ LockCoversReceiveOnly
  /\ ChannelIsFifo
  /\ EachJobInOnePlace

-----------------------------------------------------------------------------
(* The pool as an implementation of the abstract service.                  *)

HeldIn(j, states) == \E w \in Workers : job[w] = j /\ pc[w] \in states

JobPhase(j) ==
  CASE HeldIn(j, {"run"})      -> "serving"
    [] HeldIn(j, {"got"})      -> "accepted"
    [] j \in Range(queue)      -> "accepted"
    [] OTHER -> IF outcome[j] # "none" THEN "done" ELSE "new"

Service == INSTANCE BoundedService
  WITH Tasks <- Jobs, Limit <- Size, MayRefuse <- FALSE,
       phase <- [j \in Jobs |-> JobPhase(j)]

(* The pool serves each job at most once, at most Size at a time, and      *)
(* never gives one up.                                                     *)
ImplementsService == Service!Spec

=============================================================================
