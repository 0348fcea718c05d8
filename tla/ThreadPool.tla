----------------------------- MODULE ThreadPool -----------------------------
(***************************************************************************)
(* threadpool/threadpool.c: a fixed set of workers that take jobs from a   *)
(* bounded FIFO list guarded by one mutex and three condition variables.   *)
(*                                                                         *)
(* Every critical section of the code is short and never blocks while it   *)
(* holds the mutex (pthread_cond_wait releases it), so each one is an      *)
(* action.  A thread asleep on a condition variable is a thread whose      *)
(* program counter names it: "waiting" (queue_not_empty), "fullWait"       *)
(* (queue_not_full), "emptyWait" (queue_empty).  A woken thread goes back  *)
(* to the test of its while loop, which is again a critical section.       *)
(***************************************************************************)
EXTENDS Integers, Sequences, FiniteSets

CONSTANTS
  Workers,      \* the threads running threadpool_function
  Callers,      \* the threads that call threadpool_add_job
  Destroyers,   \* those of them that call threadpool_destroy
  Jobs,         \* the jobs the callers may submit, each one at most once
  NoJob,        \* the null job pointer
  QueueMax      \* queue_max_num

ASSUME ThreadPoolAssumption ==
  /\ Destroyers \subseteq Callers
  /\ IsFiniteSet(Callers)
  /\ NoJob \notin Jobs
  /\ QueueMax \in Nat \ {0}

VARIABLES
  jobs,         \* the linked list from pool->head to pool->tail
  cur,          \* queue_cur_num
  queueClose,   \* queue_close
  poolClose,    \* pool_close
  freed,        \* the pool has been destroyed and freed
  wpc,          \* where each worker is
  held,         \* the job each worker has popped
  cpc,          \* where each caller is
  arg,          \* the job each caller is adding
  accepted,     \* history: jobs appended to the list, in order
  started,      \* history: jobs popped from the list, in order
  finished      \* history: jobs whose callback has returned

queueVars  == <<jobs, cur, queueClose, poolClose, freed>>
workerVars == <<wpc, held>>
callerVars == <<cpc, arg>>
history    == <<accepted, started, finished>>
vars == <<queueVars, workerVars, callerVars, history>>

WorkerStates == {"ready", "waiting", "running", "exited"}
CallerStates == {"idle", "adding", "fullWait", "draining", "emptyWait",
                 "wakeWorkers", "wakeAdders", "joining", "freeing", "done",
                 "undefined"}

TypeOK ==
  /\ jobs \in Seq(Jobs)
  /\ cur \in Nat
  /\ queueClose \in BOOLEAN
  /\ poolClose \in BOOLEAN
  /\ freed \in BOOLEAN
  /\ wpc \in [Workers -> WorkerStates]
  /\ held \in [Workers -> Jobs \cup {NoJob}]
  /\ cpc \in [Callers -> CallerStates]
  /\ arg \in [Callers -> Jobs \cup {NoJob}]
  /\ accepted \in Seq(Jobs)
  /\ started \in Seq(Jobs)
  /\ finished \subseteq Jobs

(* threadpool_init: an empty open pool whose workers are about to lock.    *)
Init ==
  /\ jobs = <<>>
  /\ cur = 0
  /\ queueClose = FALSE
  /\ poolClose = FALSE
  /\ freed = FALSE
  /\ wpc = [w \in Workers |-> "ready"]
  /\ held = [w \in Workers |-> NoJob]
  /\ cpc = [c \in Callers |-> "idle"]
  /\ arg = [c \in Callers |-> NoJob]
  /\ accepted = <<>>
  /\ started = <<>>
  /\ finished = {}

-----------------------------------------------------------------------------
(* Condition variables.                                                    *)

BroadcastNotEmpty == [w \in Workers |->
                        IF wpc[w] = "waiting" THEN "ready" ELSE wpc[w]]

\* Mutant: the count is compared before it is decremented.
AfterPopOffByOne(n) == [c \in Callers |->
                          CASE cpc[c] = "fullWait" /\ n = QueueMax -> "adding"
                            [] cpc[c] = "emptyWait" /\ n = 0 -> "draining"
                            [] OTHER -> cpc[c]]

\* cpc with every caller asleep on queue_not_full awake, and, when the list
\* is empty, the one thread that can be asleep on queue_empty awake as well.
AfterPop(n) == [c \in Callers |->
                  CASE cpc[c] = "fullWait" /\ n = QueueMax - 1 -> "adding"
                    [] cpc[c] = "emptyWait" /\ n = 0 -> "draining"
                    [] OTHER -> cpc[c]]

\* pthread_cond_wait may return without a signal.
SpuriousWakeup ==
  /\ ~freed
  /\ \/ \E w \in Workers :
          /\ wpc[w] = "waiting"
          /\ wpc' = [wpc EXCEPT ![w] = "ready"]
          /\ UNCHANGED cpc
     \/ \E c \in Callers :
          /\ cpc[c] \in {"fullWait", "emptyWait"}
          /\ cpc' = [cpc EXCEPT ![c] =
                       IF @ = "fullWait" THEN "adding" ELSE "draining"]
          /\ UNCHANGED wpc
  /\ UNCHANGED <<queueVars, held, arg, history>>

-----------------------------------------------------------------------------
(* threadpool_add_job                                                      *)

Closed == queueClose \/ poolClose

Given == {arg[c] : c \in Callers} \cup {accepted[i] : i \in DOMAIN accepted}

\* A caller that still knows the pool calls threadpool_add_job with a new job.
Submit(c, j) ==
  /\ ~freed
  /\ cpc[c] = "idle"
  /\ j \notin Given
  /\ cpc' = [cpc EXCEPT ![c] = "adding"]
  /\ arg' = [arg EXCEPT ![c] = j]
  /\ UNCHANGED <<queueVars, workerVars, history>>

AddWait(c) ==
  /\ ~freed
  /\ cpc[c] = "adding"
  /\ cur = QueueMax
  /\ ~Closed
  /\ cpc' = [cpc EXCEPT ![c] = "fullWait"]
  /\ UNCHANGED <<queueVars, workerVars, arg, history>>

\* return -1: the pool is closing, or there is no memory for the job.
AddRefused(c) ==
  /\ ~freed
  /\ cpc[c] = "adding"
  /\ Closed \/ cur # QueueMax
  /\ cpc' = [cpc EXCEPT ![c] = "idle"]
  /\ arg' = [arg EXCEPT ![c] = NoJob]
  /\ UNCHANGED <<queueVars, workerVars, history>>

\* Mutant: an if in place of the while, so the count is not tested again.
AddAppendUntested(c) ==
  /\ ~freed
  /\ cpc[c] = "adding"
  /\ ~Closed
  /\ jobs' = Append(jobs, arg[c])
  /\ cur' = cur + 1
  /\ wpc' = IF jobs = <<>> THEN BroadcastNotEmpty ELSE wpc
  /\ accepted' = Append(accepted, arg[c])
  /\ cpc' = [cpc EXCEPT ![c] = "idle"]
  /\ arg' = [arg EXCEPT ![c] = NoJob]
  /\ UNCHANGED <<queueClose, poolClose, freed, held, started, finished>>

AddAppend(c) ==
  /\ ~freed
  /\ cpc[c] = "adding"
  /\ ~Closed
  /\ cur # QueueMax
  /\ jobs' = Append(jobs, arg[c])
  /\ cur' = cur + 1
  /\ wpc' = IF jobs = <<>> THEN BroadcastNotEmpty ELSE wpc
  /\ accepted' = Append(accepted, arg[c])
  /\ cpc' = [cpc EXCEPT ![c] = "idle"]
  /\ arg' = [arg EXCEPT ![c] = NoJob]
  /\ UNCHANGED <<queueClose, poolClose, freed, held, started, finished>>

-----------------------------------------------------------------------------
(* threadpool_function                                                     *)

WorkerWait(w) ==
  /\ wpc[w] = "ready"
  /\ cur = 0
  /\ ~poolClose
  /\ wpc' = [wpc EXCEPT ![w] = "waiting"]
  /\ UNCHANGED <<queueVars, held, callerVars, history>>

WorkerExit(w) ==
  /\ wpc[w] = "ready"
  /\ poolClose
  /\ wpc' = [wpc EXCEPT ![w] = "exited"]
  /\ UNCHANGED <<queueVars, held, callerVars, history>>

WorkerTake(w) ==
  /\ wpc[w] = "ready"
  /\ cur # 0
  /\ ~poolClose
  /\ cur' = cur - 1
  /\ held' = [held EXCEPT ![w] = Head(jobs)]
  /\ jobs' = IF cur - 1 = 0 THEN <<>> ELSE Tail(jobs)
  /\ started' = Append(started, Head(jobs))
  /\ cpc' = AfterPop(cur - 1)
  /\ wpc' = [wpc EXCEPT ![w] = "running"]
  /\ UNCHANGED <<queueClose, poolClose, freed, arg, accepted, finished>>

\* The callback returns and the job is freed.
WorkerFinish(w) ==
  /\ wpc[w] = "running"
  /\ finished' = finished \cup {held[w]}
  /\ held' = [held EXCEPT ![w] = NoJob]
  /\ wpc' = [wpc EXCEPT ![w] = "ready"]
  /\ UNCHANGED <<queueVars, callerVars, accepted, started>>

-----------------------------------------------------------------------------
(* threadpool_destroy                                                      *)

\* The rest of the critical section: wait for an empty list, or close.
\* (Mutant: the pool is closed without waiting for an empty queue.)
CloseAtOnce(c) ==
  /\ poolClose' = TRUE
  /\ cpc' = [cpc EXCEPT ![c] = "wakeWorkers"]

DrainOrClose(c) ==
  \/ /\ cur # 0
     /\ cpc' = [cpc EXCEPT ![c] = "emptyWait"]
     /\ UNCHANGED poolClose
  \/ /\ cur = 0
     /\ poolClose' = TRUE
     /\ cpc' = [cpc EXCEPT ![c] = "wakeWorkers"]

DestroyEnter(c) ==
  /\ ~freed
  /\ cpc[c] = "idle"
  /\ ~Closed
  /\ queueClose' = TRUE
  /\ DrainOrClose(c)
  /\ UNCHANGED <<jobs, cur, freed, workerVars, arg, history>>

\* return -1: another thread is destroying the pool.
DestroyRefused(c) ==
  /\ ~freed
  /\ cpc[c] = "idle"
  /\ Closed
  /\ cpc' = [cpc EXCEPT ![c] = "done"]
  /\ UNCHANGED <<queueVars, workerVars, arg, history>>

DestroyRetest(c) ==
  /\ cpc[c] = "draining"
  /\ DrainOrClose(c)
  /\ UNCHANGED <<jobs, cur, queueClose, freed, workerVars, arg, history>>

\* Mutant: the sleeping workers are not woken.
DestroyWakeNobody(c) ==
  /\ cpc[c] = "wakeWorkers"
  /\ cpc' = [cpc EXCEPT ![c] = "wakeAdders"]
  /\ UNCHANGED <<queueVars, workerVars, arg, history>>

DestroyWakeWorkers(c) ==
  /\ cpc[c] = "wakeWorkers"
  /\ wpc' = BroadcastNotEmpty
  /\ cpc' = [cpc EXCEPT ![c] = "wakeAdders"]
  /\ UNCHANGED <<queueVars, held, arg, history>>

DestroyWakeAdders(c) ==
  /\ cpc[c] = "wakeAdders"
  /\ cpc' = [d \in Callers |->
               CASE d = c -> "joining"
                 [] cpc[d] = "fullWait" -> "adding"
                 [] OTHER -> cpc[d]]
  /\ UNCHANGED <<queueVars, workerVars, arg, history>>

\* Mutant: the threads are not joined.
DestroyNoJoin(c) ==
  /\ cpc[c] = "joining"
  /\ cpc' = [cpc EXCEPT ![c] = "freeing"]
  /\ UNCHANGED <<queueVars, workerVars, arg, history>>

DestroyJoin(c) ==
  /\ cpc[c] = "joining"
  /\ \A w \in Workers : wpc[w] = "exited"
  /\ cpc' = [cpc EXCEPT ![c] = "freeing"]
  /\ UNCHANGED <<queueVars, workerVars, arg, history>>

DestroyFree(c) ==
  /\ cpc[c] = "freeing"
  /\ jobs' = <<>>
  /\ freed' = TRUE
  /\ cpc' = [cpc EXCEPT ![c] = "done"]
  /\ UNCHANGED <<cur, queueClose, poolClose, workerVars, arg, history>>

\* A thread still inside a call locks the mutex of a pool that is gone: the
\* code has no defined behaviour from here on.
TouchFreed(c) ==
  /\ freed
  /\ cpc[c] \in {"adding", "fullWait", "draining", "emptyWait"}
  /\ cpc' = [cpc EXCEPT ![c] = "undefined"]
  /\ UNCHANGED <<queueVars, workerVars, arg, history>>

-----------------------------------------------------------------------------
Worker(w) == WorkerWait(w) \/ WorkerExit(w) \/ WorkerTake(w) \/ WorkerFinish(w)

InAdd(c) == AddWait(c) \/ AddRefused(c) \/ AddAppend(c) \/ TouchFreed(c)

InDestroy(c) ==
  \/ DestroyRetest(c)
  \/ DestroyWakeWorkers(c)
  \/ DestroyWakeAdders(c)
  \/ DestroyJoin(c)
  \/ DestroyFree(c)

Next ==
  \/ \E w \in Workers : Worker(w)
  \/ \E c \in Callers : InAdd(c) \/ \E j \in Jobs : Submit(c, j)
  \/ \E c \in Destroyers : DestroyEnter(c) \/ DestroyRefused(c) \/ InDestroy(c)
  \/ SpuriousWakeup

Spec == Init /\ [][Next]_vars

(* Threads keep running and callbacks return; nobody is obliged to submit  *)
(* a job or to destroy the pool, and wakeups are never merely spurious.    *)
Fairness ==
  /\ \A w \in Workers : WF_vars(Worker(w))
  /\ \A c \in Callers : WF_vars(InAdd(c))
  /\ \A c \in Destroyers : WF_vars(InDestroy(c))

FairSpec == Spec /\ Fairness

-----------------------------------------------------------------------------
(* Safety.                                                                 *)

(* The list, its counter and the history agree: a job that add_job accepted*)
(* is either still queued or was popped exactly once, in the order of      *)
(* acceptance, and queue_cur_num counts the list.                          *)
FifoExactlyOnce ==
  /\ accepted = started \o jobs
  /\ cur = Len(jobs)
  /\ cur <= QueueMax

(* No lost wakeup: add_job broadcasts queue_not_empty only when the list   *)
(* was empty, and threadpool_function queue_not_full only when it leaves   *)
(* the full state; still no worker sleeps while a job is queued and no     *)
(* adder sleeps while there is room.                                       *)
NoLostWakeup ==
  /\ \A w \in Workers : wpc[w] = "waiting" => cur = 0
  /\ \A c \in Callers : cpc[c] = "fullWait" => cur = QueueMax
  /\ \A c \in Callers : cpc[c] = "emptyWait" => cur # 0

(* threadpool_destroy frees the pool after every worker has left it, and   *)
(* no second thread is inside threadpool_destroy then.  Only an adder can  *)
(* still be there: one that slept on queue_not_full locks the mutex of the *)
(* freed pool (TouchFreed), unless, as in the program, the thread that     *)
(* destroys the pool is the only one that adds.                            *)
NoUseAfterFree ==
  freed => /\ \A w \in Workers : wpc[w] = "exited"
           /\ \A c \in Callers : cpc[c] \in {"idle", "done", "adding", "undefined"}
           /\ Cardinality(Callers) = 1 => \A c \in Callers : cpc[c] # "adding"

-----------------------------------------------------------------------------
(* Liveness, under FairSpec.                                               *)

(* Every job add_job accepts is run to its end.                            *)
AcceptedJobsRun ==
  \A j \in Jobs :
    (\E i \in DOMAIN accepted : accepted[i] = j) ~> j \in finished

(* threadpool_destroy returns: no worker is left asleep to be joined.      *)
DestroyReturns ==
  \A c \in Destroyers :
    cpc[c] \in {"draining", "emptyWait", "wakeWorkers", "joining"} ~> cpc[c] = "done"

-----------------------------------------------------------------------------
(* What the pool promises: a job service.                                  *)
Service == INSTANCE JobService WITH
  pending <- jobs,
  running <- {held[w] : w \in Workers} \ {NoJob},
  phase <- IF freed THEN "stopped" ELSE IF queueClose THEN "closing" ELSE "open"

(* Each step of the pool is a step of the job service or invisible to it.  *)
ImplementsJobService == Service!Spec

=============================================================================
