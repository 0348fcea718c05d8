-------------------------- MODULE ThreadPoolProofs --------------------------
(***************************************************************************)
(* Theorems of the thread pool, for any sets of workers, callers and jobs  *)
(* and any queue size.                                                     *)
(***************************************************************************)
EXTENDS ThreadPool, FiniteSetTheorems, SequenceTheorems, TLAPS

(* Popping the head of the list and logging it leaves started \o jobs.     *)
LEMMA PopKeepsOrder ==
  ASSUME NEW S, NEW s \in Seq(S), NEW q \in Seq(S), q # <<>>
  PROVE  /\ Append(s, Head(q)) \in Seq(S)
         /\ Tail(q) \in Seq(S)
         /\ Len(Tail(q)) = Len(q) - 1
         /\ Append(s, Head(q)) \o Tail(q) = s \o q
<1>1. /\ Head(q) \in S /\ Tail(q) \in Seq(S)
      /\ Len(Tail(q)) = Len(q) - 1
      /\ \A i \in 1 .. Len(Tail(q)) : Tail(q)[i] = q[i + 1]
  BY HeadTailProperties
<1>2. Len(q) \in Nat \ {0}
  BY EmptySeq
<1>3. Append(s, Head(q)) \in Seq(S)
  BY <1>1
<1>4. /\ Append(s, Head(q)) \o Tail(q) \in Seq(S)
      /\ s \o q \in Seq(S)
  BY <1>1, <1>3, ConcatProperties
<1>5. Len(Append(s, Head(q)) \o Tail(q)) = Len(s \o q)
  <2>1. Len(Append(s, Head(q)) \o Tail(q)) = Len(s) + 1 + Len(q) - 1
    BY <1>1, <1>2, <1>3, ConcatProperties
  <2>2. Len(s \o q) = Len(s) + Len(q)
    BY ConcatProperties
  <2> QED BY <2>1, <2>2, <1>2
<1>6. ASSUME NEW i \in 1 .. Len(s \o q)
      PROVE  (Append(s, Head(q)) \o Tail(q))[i] = (s \o q)[i]
  <2>0. Len(s) \in Nat /\ Len(s \o q) = Len(s) + Len(q)
    BY ConcatProperties
  <2>1. (s \o q)[i] = IF i <= Len(s) THEN s[i] ELSE q[i - Len(s)]
    BY <2>0, ConcatProperties
  <2>2. (Append(s, Head(q)) \o Tail(q))[i] =
          IF i <= Len(s) + 1 THEN Append(s, Head(q))[i]
                             ELSE Tail(q)[i - (Len(s) + 1)]
    BY <1>1, <1>2, <1>3, <2>0, ConcatProperties
  <2>3. CASE i <= Len(s)
    BY <2>1, <2>2, <2>3, <2>0, <1>1
  <2>4. CASE i = Len(s) + 1
    BY <2>1, <2>2, <2>4, <2>0, <1>1, <1>2
  <2>5. CASE i > Len(s) + 1
    BY <2>1, <2>2, <2>5, <2>0, <1>1, <1>2
  <2> QED BY <2>3, <2>4, <2>5, <2>0
<1> QED BY <1>1, <1>3, <1>4, <1>5, <1>6, SeqEqual

(* Appending to the list is appending to started \o jobs.                  *)
LEMMA AppendKeepsOrder ==
  ASSUME NEW S, NEW s \in Seq(S), NEW q \in Seq(S), NEW e \in S
  PROVE  s \o Append(q, e) = Append(s \o q, e)
<1>1. /\ s \o q \in Seq(S)
      /\ Append(q, e) \in Seq(S)
      /\ Append(s \o q, e) \in Seq(S)
      /\ s \o Append(q, e) \in Seq(S)
  BY ConcatProperties
<1>2. Len(s \o q) = Len(s) + Len(q)
  BY ConcatProperties
<1>3. Len(s \o Append(q, e)) = Len(Append(s \o q, e))
  BY <1>1, <1>2, ConcatProperties
<1>4. ASSUME NEW i \in 1 .. Len(s) + Len(q) + 1
      PROVE  (s \o Append(q, e))[i] = Append(s \o q, e)[i]
  <2>1. (s \o Append(q, e))[i] =
           IF i <= Len(s) THEN s[i] ELSE Append(q, e)[i - Len(s)]
    BY <1>1, ConcatProperties
  <2>2. CASE i <= Len(s) + Len(q)
    <3>1. (s \o q)[i] = IF i <= Len(s) THEN s[i] ELSE q[i - Len(s)]
      BY <2>2, ConcatProperties
    <3> QED BY <2>1, <2>2, <3>1, <1>1, <1>2
  <2>3. CASE i = Len(s) + Len(q) + 1
    BY <2>1, <2>3, <1>1, <1>2
  <2> QED BY <2>2, <2>3
<1>5. Len(Append(s \o q, e)) = Len(s) + Len(q) + 1
  BY <1>1, <1>2
<1> QED BY <1>1, <1>3, <1>4, <1>5, SeqEqual

-----------------------------------------------------------------------------
(***************************************************************************)
(* The inductive invariant behind the queue discipline.  Beside the        *)
(* properties it needs facts about program counters: a caller that is      *)
(* still adding and a worker that is running hold a real job, a draining   *)
(* destroyer has closed the queue, and a destroyer past its drain test has *)
(* set pool_close, so that the list it finally frees is empty.             *)
(***************************************************************************)
Closing == {"wakeWorkers", "wakeAdders", "joining", "freeing"}
Draining == {"draining", "emptyWait"}

QueueInv ==
  /\ TypeOK
  /\ FifoExactlyOnce
  /\ NoLostWakeup
  /\ \A c \in Callers : cpc[c] \in {"adding", "fullWait"} => arg[c] \in Jobs
  /\ \A w \in Workers : wpc[w] = "running" => held[w] \in Jobs
  /\ \A c \in Callers : cpc[c] \in Draining => queueClose
  /\ \A c \in Callers : cpc[c] \in Closing => poolClose
  /\ poolClose => queueClose /\ jobs = <<>>

LEMMA InitQueueInv == Init => QueueInv
<1> SUFFICES ASSUME Init PROVE QueueInv
  OBVIOUS
<1>1. TypeOK
  <2>1. queueClose \in BOOLEAN /\ poolClose \in BOOLEAN /\ freed \in BOOLEAN
    BY Zenon DEF Init
  <2>2. jobs \in Seq(Jobs) /\ accepted \in Seq(Jobs) /\ started \in Seq(Jobs)
    BY EmptySeq DEF Init
  <2>3. /\ wpc \in [Workers -> WorkerStates]
        /\ cpc \in [Callers -> CallerStates]
        /\ held \in [Workers -> Jobs \cup {NoJob}]
        /\ arg \in [Callers -> Jobs \cup {NoJob}]
    BY DEF Init, WorkerStates, CallerStates
  <2> QED BY <2>1, <2>2, <2>3 DEF Init, TypeOK
<1>2. FifoExactlyOnce
  BY ThreadPoolAssumption DEF Init, FifoExactlyOnce
<1>3. NoLostWakeup
  BY DEF Init, NoLostWakeup
<1>4. \A c \in Callers : cpc[c] = "idle"
  BY DEF Init
<1>5. ~poolClose
  BY DEF Init
<1>6. \A w \in Workers : wpc[w] = "ready"
  BY DEF Init
<1> QED BY <1>1, <1>2, <1>3, <1>4, <1>5, <1>6 DEF QueueInv, Closing, Draining

LEMMA NextQueueInv == QueueInv /\ [Next]_vars => QueueInv'
<1> SUFFICES ASSUME QueueInv, [Next]_vars PROVE QueueInv'
  OBVIOUS
<1> USE ThreadPoolAssumption
<1> USE DEF QueueInv, TypeOK, FifoExactlyOnce, NoLostWakeup, Closing, Draining,
            WorkerStates, CallerStates
<1>1. ASSUME NEW c \in Callers, NEW j \in Jobs, Submit(c, j)
      PROVE  QueueInv'
  BY <1>1 DEF Submit, queueVars, workerVars, history
<1>2. ASSUME NEW c \in Callers, AddWait(c)
      PROVE  QueueInv'
  BY <1>2 DEF AddWait, queueVars, workerVars, history
<1>3. ASSUME NEW c \in Callers, AddRefused(c)
      PROVE  QueueInv'
  BY <1>3 DEF AddRefused, queueVars, workerVars, history
<1>4. ASSUME NEW c \in Callers, AddAppend(c)
      PROVE  QueueInv'
  <2>0. arg[c] \in Jobs /\ cur < QueueMax
    BY <1>4 DEF AddAppend
  <2>1. TypeOK'
    BY <1>4, <2>0 DEF AddAppend, BroadcastNotEmpty
  <2>2. FifoExactlyOnce'
    <3>1. started \o jobs' = accepted'
      BY <1>4, <2>0, AppendKeepsOrder DEF AddAppend
    <3> QED BY <1>4, <2>0, <3>1 DEF AddAppend
  <2>3. NoLostWakeup'
    <3>1. ASSUME NEW w \in Workers PROVE wpc'[w] # "waiting"
      BY <1>4 DEF AddAppend, BroadcastNotEmpty
    <3> QED BY <1>4, <2>0, <3>1 DEF AddAppend
  <2>4. ~poolClose'
    BY <1>4 DEF AddAppend, Closed
  <2>5. \A w \in Workers : wpc'[w] = "running" => held'[w] \in Jobs
    BY <1>4 DEF AddAppend, BroadcastNotEmpty
  <2>6. /\ \A d \in Callers : cpc'[d] \in {"adding", "fullWait"} => arg'[d] \in Jobs
        /\ \A d \in Callers : cpc'[d] \in Draining => queueClose'
        /\ \A d \in Callers : cpc'[d] \in Closing => poolClose'
    BY <1>4 DEF AddAppend
  <2> QED BY <2>1, <2>2, <2>3, <2>4, <2>5, <2>6
<1>5. ASSUME NEW c \in Callers, TouchFreed(c)
      PROVE  QueueInv'
  BY <1>5 DEF TouchFreed, queueVars, workerVars, history
<1>6. ASSUME NEW w \in Workers, WorkerWait(w)
      PROVE  QueueInv'
  BY <1>6 DEF WorkerWait, queueVars, callerVars, history
<1>7. ASSUME NEW w \in Workers, WorkerExit(w)
      PROVE  QueueInv'
  BY <1>7 DEF WorkerExit, queueVars, callerVars, history
<1>8. ASSUME NEW w \in Workers, WorkerTake(w)
      PROVE  QueueInv'
  <2>0. jobs # <<>> /\ Len(jobs) = cur /\ cur \in Nat \ {0}
    BY <1>8 DEF WorkerTake
  <2>1. /\ started' \in Seq(Jobs)
        /\ Tail(jobs) \in Seq(Jobs)
        /\ Len(Tail(jobs)) = cur - 1
        /\ started' \o Tail(jobs) = accepted
        /\ Head(jobs) \in Jobs
    <3>1. /\ jobs \in Seq(Jobs) /\ started \in Seq(Jobs)
          /\ accepted = started \o jobs
          /\ started' = Append(started, Head(jobs))
      BY <1>8 DEF WorkerTake
    <3> HIDE DEF QueueInv, TypeOK, FifoExactlyOnce, NoLostWakeup
    <3>2. /\ Head(jobs) \in Jobs /\ Tail(jobs) \in Seq(Jobs)
          /\ Len(Tail(jobs)) = Len(jobs) - 1
      BY <2>0, <3>1, HeadTailProperties
    <3>3. Append(started, Head(jobs)) \in Seq(Jobs)
      BY <3>1, <3>2
    <3>4. Append(started, Head(jobs)) \o Tail(jobs) = started \o jobs
      BY <2>0, <3>1, PopKeepsOrder
    <3> QED BY <2>0, <3>1, <3>2, <3>3, <3>4
  <2>2. jobs' = Tail(jobs)
    <3>1. CASE cur - 1 = 0
      <4>1. Tail(jobs) = <<>>
        BY <2>1, <3>1, EmptySeq
      <4> QED BY <1>8, <3>1, <4>1 DEF WorkerTake
    <3>2. CASE cur - 1 # 0
      BY <1>8, <3>2 DEF WorkerTake
    <3> QED BY <3>1, <3>2
  <2>3. /\ cpc' \in [Callers -> CallerStates]
        /\ \A c \in Callers :
             /\ cpc'[c] = "fullWait" => cpc[c] = "fullWait" /\ cur - 1 # QueueMax - 1
             /\ cpc'[c] = "emptyWait" => cur - 1 # 0
             /\ cpc'[c] = "adding" => cpc[c] \in {"adding", "fullWait"}
             /\ cpc'[c] \in Closing => cpc'[c] = cpc[c]
             /\ cpc'[c] \in Draining => cpc[c] \in Draining
    BY <1>8, <2>0 DEF WorkerTake, AfterPop
  <2>4. TypeOK'
    BY <1>8, <2>0, <2>1, <2>2, <2>3 DEF WorkerTake
  <2>5. FifoExactlyOnce'
    <3>1. accepted' = accepted /\ cur' = cur - 1
      BY <1>8 DEF WorkerTake
    <3>2. cur \in Nat /\ cur <= QueueMax /\ QueueMax \in Nat
      BY <2>0
    <3> HIDE DEF QueueInv, TypeOK, NoLostWakeup
    <3> QED BY <2>1, <2>2, <3>1, <3>2
  <2>6. NoLostWakeup'
    BY <1>8, <2>0, <2>3 DEF WorkerTake
  <2>7. /\ ~poolClose'
        /\ \A c \in Callers : cpc'[c] \notin Closing
        /\ \A c \in Callers : cpc'[c] \in Draining => queueClose'
    BY <1>8, <2>3 DEF WorkerTake
  <2>9. \A v \in Workers : wpc'[v] = "running" => held'[v] \in Jobs
    BY <1>8, <2>1 DEF WorkerTake
  <2>8. \A c \in Callers : cpc'[c] \in {"adding", "fullWait"} => arg'[c] \in Jobs
    BY <1>8, <2>3 DEF WorkerTake
  <2> QED BY <2>4, <2>5, <2>6, <2>7, <2>8, <2>9
<1>9. ASSUME NEW w \in Workers, WorkerFinish(w)
      PROVE  QueueInv'
  <2>1. held[w] \in Jobs
    BY <1>9 DEF WorkerFinish
  <2> QED BY <1>9, <2>1 DEF WorkerFinish, queueVars, callerVars, history
<1>10. ASSUME NEW c \in Destroyers, DestroyEnter(c)
       PROVE  QueueInv'
  <2>1. CASE cur # 0
    <3>1. /\ cpc' = [cpc EXCEPT ![c] = "emptyWait"]
          /\ poolClose' = poolClose
          /\ UNCHANGED <<jobs, cur, freed, wpc, held, arg, accepted, started, finished>>
      BY <1>10, <2>1 DEF DestroyEnter, DrainOrClose, workerVars, history
    <3>2. queueClose'
      BY <1>10 DEF DestroyEnter
    <3>3. queueClose' \in BOOLEAN
      BY <1>10 DEF DestroyEnter
    <3> QED BY <2>1, <3>1, <3>2, <3>3
  <2>2. CASE cur = 0
    <3>1. jobs = <<>>
      BY <2>2, EmptySeq
    <3> QED BY <1>10, <2>2, <3>1 DEF DestroyEnter, DrainOrClose, workerVars, history
  <2> QED BY <2>1, <2>2
<1>11. ASSUME NEW c \in Destroyers, DestroyRefused(c)
       PROVE  QueueInv'
  BY <1>11 DEF DestroyRefused, queueVars, workerVars, history
<1>12. ASSUME NEW c \in Destroyers, DestroyRetest(c)
       PROVE  QueueInv'
  <2>1. CASE cur # 0
    <3>1. /\ cpc' = [cpc EXCEPT ![c] = "emptyWait"]
          /\ poolClose' = poolClose
          /\ UNCHANGED <<jobs, cur, freed, wpc, held, arg, accepted, started, finished>>
      BY <1>12, <2>1 DEF DestroyRetest, DrainOrClose, workerVars, history
    <3>2. queueClose'
      BY <1>12 DEF DestroyRetest
    <3>3. queueClose' \in BOOLEAN
      BY <1>12 DEF DestroyRetest
    <3> QED BY <2>1, <3>1, <3>2, <3>3
  <2>2. CASE cur = 0
    <3>1. jobs = <<>>
      BY <2>2, EmptySeq
    <3> QED BY <1>12, <2>2, <3>1 DEF DestroyRetest, DrainOrClose, workerVars, history
  <2> QED BY <2>1, <2>2
<1>13. ASSUME NEW c \in Destroyers, DestroyWakeWorkers(c)
       PROVE  QueueInv'
  BY <1>13 DEF DestroyWakeWorkers, BroadcastNotEmpty, queueVars, history
<1>14. ASSUME NEW c \in Destroyers, DestroyWakeAdders(c)
       PROVE  QueueInv'
  BY <1>14 DEF DestroyWakeAdders, queueVars, workerVars, history
<1>15. ASSUME NEW c \in Destroyers, DestroyJoin(c)
       PROVE  QueueInv'
  BY <1>15 DEF DestroyJoin, queueVars, workerVars, history
<1>16. ASSUME NEW c \in Destroyers, DestroyFree(c)
       PROVE  QueueInv'
  BY <1>16 DEF DestroyFree, workerVars, history
<1>17. CASE SpuriousWakeup
  BY <1>17 DEF SpuriousWakeup, queueVars, history
<1>18. CASE UNCHANGED vars
  BY <1>18 DEF vars, queueVars, workerVars, callerVars, history
<1> QED
  BY <1>1, <1>2, <1>3, <1>4, <1>5, <1>6, <1>7, <1>8, <1>9, <1>10, <1>11,
     <1>12, <1>13, <1>14, <1>15, <1>16, <1>17, <1>18
  DEF Next, Worker, InAdd, InDestroy

(* The variables of the pool keep their types.                             *)
THEOREM TypeCorrect == Spec => []TypeOK
<1>1. QueueInv => TypeOK
  BY DEF QueueInv
<1> QED BY <1>1, InitQueueInv, NextQueueInv, PTL DEF Spec

(* A job add_job accepted is queued or was popped once, in order, and      *)
(* queue_cur_num counts the list and stays within queue_max_num.           *)
THEOREM QueueIsFifo == Spec => []FifoExactlyOnce
<1>1. QueueInv => FifoExactlyOnce
  BY DEF QueueInv
<1> QED BY <1>1, InitQueueInv, NextQueueInv, PTL DEF Spec

(* No thread of the pool sleeps through the condition it waits for.        *)
THEOREM WakeupsSuffice == Spec => []NoLostWakeup
<1>1. QueueInv => NoLostWakeup
  BY DEF QueueInv
<1> QED BY <1>1, InitQueueInv, NextQueueInv, PTL DEF Spec

-----------------------------------------------------------------------------
(***************************************************************************)
(* Destruction.  queue_close lets one thread at a time into                *)
(* threadpool_destroy; when it reaches the join every adder has been woken *)
(* and refuses to sleep again, and when it frees the pool every worker has *)
(* left for good.                                                          *)
(***************************************************************************)
Inside == Draining \cup Closing

OneDestroyer == \A c, d \in Callers : cpc[c] \in Inside /\ cpc[d] \in Inside => c = d

FreeInv ==
  /\ QueueInv
  /\ OneDestroyer
  /\ \A c \in Callers : cpc[c] \in Inside => ~freed
  /\ freed => poolClose
  /\ freed => \A w \in Workers : wpc[w] = "exited"
  /\ \A c \in Callers : cpc[c] = "freeing" => \A w \in Workers : wpc[w] = "exited"
  /\ \A c, d \in Callers : cpc[c] \in {"joining", "freeing"} => cpc[d] # "fullWait"
  /\ freed => \A d \in Callers : cpc[d] # "fullWait"
  /\ freed /\ (\A c, d \in Callers : c = d) => \A c \in Callers : cpc[c] = "done"

LEMMA InitFreeInv == Init => FreeInv
<1> SUFFICES ASSUME Init PROVE FreeInv
  OBVIOUS
<1>1. ~freed /\ \A c \in Callers : cpc[c] = "idle"
  BY DEF Init
<1> QED BY <1>1, InitQueueInv DEF FreeInv, OneDestroyer, Inside, Closing, Draining

LEMMA NextFreeInv == FreeInv /\ [Next]_vars => FreeInv'
<1> SUFFICES ASSUME FreeInv, [Next]_vars PROVE FreeInv'
  OBVIOUS
<1> USE ThreadPoolAssumption
<1>0. QueueInv'
  BY NextQueueInv DEF FreeInv
<1>T. /\ cpc \in [Callers -> CallerStates] /\ wpc \in [Workers -> WorkerStates]
      /\ \A c \in Callers : cpc[c] \in Draining => queueClose
      /\ \A c \in Callers : cpc[c] \in Closing => poolClose
      /\ poolClose => queueClose
  BY DEF FreeInv, QueueInv, TypeOK
<1> USE DEF FreeInv, OneDestroyer, Inside, Closing, Draining
<1> HIDE DEF QueueInv
<1>1. ASSUME NEW c \in Callers, NEW j \in Jobs, Submit(c, j)
      PROVE  FreeInv'
  BY <1>0, <1>1, <1>T DEF Submit, queueVars, workerVars
<1>2. ASSUME NEW c \in Callers, AddWait(c)
      PROVE  FreeInv'
  BY <1>0, <1>2, <1>T DEF AddWait, Closed, queueVars, workerVars
<1>3. ASSUME NEW c \in Callers, AddRefused(c)
      PROVE  FreeInv'
  BY <1>0, <1>3, <1>T DEF AddRefused, queueVars, workerVars
<1>4. ASSUME NEW c \in Callers, AddAppend(c)
      PROVE  FreeInv'
  BY <1>0, <1>4, <1>T DEF AddAppend, Closed
<1>5. ASSUME NEW c \in Callers, TouchFreed(c)
      PROVE  FreeInv'
  BY <1>0, <1>5, <1>T DEF TouchFreed, queueVars, workerVars
<1>6. ASSUME NEW w \in Workers, WorkerWait(w)
      PROVE  FreeInv'
  BY <1>0, <1>6, <1>T DEF WorkerWait, queueVars, callerVars
<1>7. ASSUME NEW w \in Workers, WorkerExit(w)
      PROVE  FreeInv'
  BY <1>0, <1>7, <1>T DEF WorkerExit, queueVars, callerVars
<1>8. ASSUME NEW w \in Workers, WorkerTake(w)
      PROVE  FreeInv'
  BY <1>0, <1>8, <1>T DEF WorkerTake, AfterPop
<1>9. ASSUME NEW w \in Workers, WorkerFinish(w)
      PROVE  FreeInv'
  BY <1>0, <1>9, <1>T DEF WorkerFinish, queueVars, callerVars
<1>10. ASSUME NEW c \in Destroyers, DestroyEnter(c)
       PROVE  FreeInv'
  <2>1. /\ cpc' \in {[cpc EXCEPT ![c] = "emptyWait"], [cpc EXCEPT ![c] = "wakeWorkers"]}
        /\ UNCHANGED <<freed, wpc>>
    BY <1>10 DEF DestroyEnter, DrainOrClose, workerVars
  <2>2. ~freed /\ \A d \in Callers : cpc[d] \notin Inside
    BY <1>10, <1>T DEF DestroyEnter, Closed
  <2> QED BY <1>0, <1>T, <2>1, <2>2
<1>11. ASSUME NEW c \in Destroyers, DestroyRefused(c)
       PROVE  FreeInv'
  BY <1>0, <1>11, <1>T DEF DestroyRefused, queueVars, workerVars
<1>12. ASSUME NEW c \in Destroyers, DestroyRetest(c)
       PROVE  FreeInv'
  <2>1. /\ cpc' \in {[cpc EXCEPT ![c] = "emptyWait"], [cpc EXCEPT ![c] = "wakeWorkers"]}
        /\ UNCHANGED <<freed, wpc>>
    BY <1>12 DEF DestroyRetest, DrainOrClose, workerVars
  <2>2. ~freed /\ cpc[c] \in Inside
    BY <1>12, <1>T DEF DestroyRetest
  <2> QED BY <1>0, <1>T, <2>1, <2>2
<1>13. ASSUME NEW c \in Destroyers, DestroyWakeWorkers(c)
       PROVE  FreeInv'
  BY <1>0, <1>13, <1>T DEF DestroyWakeWorkers, BroadcastNotEmpty, queueVars
<1>14. ASSUME NEW c \in Destroyers, DestroyWakeAdders(c)
       PROVE  FreeInv'
  BY <1>0, <1>14, <1>T DEF DestroyWakeAdders, queueVars, workerVars
<1>15. ASSUME NEW c \in Destroyers, DestroyJoin(c)
       PROVE  FreeInv'
  BY <1>0, <1>15, <1>T DEF DestroyJoin, queueVars, workerVars
<1>16. ASSUME NEW c \in Destroyers, DestroyFree(c)
       PROVE  FreeInv'
  BY <1>0, <1>16, <1>T DEF DestroyFree, workerVars
<1>17. CASE SpuriousWakeup
  BY <1>0, <1>17, <1>T DEF SpuriousWakeup, queueVars
<1>18. CASE UNCHANGED vars
  BY <1>0, <1>18 DEF vars, queueVars, workerVars, callerVars
<1> QED
  BY <1>1, <1>2, <1>3, <1>4, <1>5, <1>6, <1>7, <1>8, <1>9, <1>10, <1>11,
     <1>12, <1>13, <1>14, <1>15, <1>16, <1>17, <1>18
  DEF Next, Worker, InAdd, InDestroy

LEMMA FreeInvariant == Spec => []FreeInv
BY InitFreeInv, NextFreeInv, PTL DEF Spec

(* When threadpool_destroy frees the pool no worker and no other destroyer *)
(* is inside it; an adder can still be, but not where, as in the program,  *)
(* the thread that destroys the pool is the only one that adds.            *)
THEOREM FreedAfterUse == Spec => []NoUseAfterFree
<1>1. FreeInv => NoUseAfterFree
  <2> SUFFICES ASSUME FreeInv, freed PROVE NoUseAfterFree
    BY DEF NoUseAfterFree
  <2>1. \A c \in Callers : cpc[c] \in {"idle", "done", "adding", "undefined"}
    BY DEF FreeInv, QueueInv, TypeOK, Inside, Closing, Draining, CallerStates
  <2>2. Cardinality(Callers) = 1 => \A c, d \in Callers : c = d
    BY ThreadPoolAssumption, FS_Singleton
  <2>3. Cardinality(Callers) = 1 => \A c \in Callers : cpc[c] # "adding"
    BY <2>2 DEF FreeInv
  <2> QED BY <2>1, <2>3 DEF NoUseAfterFree, FreeInv
<1> QED BY <1>1, FreeInvariant, PTL

-----------------------------------------------------------------------------
(***************************************************************************)
(* The pool implements the job service.  The service forgets a job it has  *)
(* finished and never starts one twice, so the refinement needs that a job *)
(* is with one caller, in the list or behind it, and with one worker.      *)
(***************************************************************************)
Logged == {accepted[i] : i \in DOMAIN accepted}
Begun == {started[i] : i \in DOMAIN started}

ServiceInv ==
  /\ FreeInv
  /\ \A w \in Workers : wpc[w] # "running" => held[w] = NoJob
  /\ \A w \in Workers : held[w] # NoJob => held[w] \in Begun
  /\ \A v, w \in Workers : v # w /\ held[v] = held[w] => held[v] = NoJob
  /\ finished \subseteq Begun
  /\ \A i, k \in DOMAIN accepted : accepted[i] = accepted[k] => i = k
  /\ \A c \in Callers : arg[c] # NoJob => arg[c] \notin Logged
  /\ \A c, d \in Callers : c # d /\ arg[c] = arg[d] => arg[c] = NoJob

(* What has begun was logged; the head of the list was not begun before.   *)
LEMMA HeadIsNew ==
  ASSUME QueueInv,
         \A i, k \in DOMAIN accepted : accepted[i] = accepted[k] => i = k
  PROVE  /\ Begun \subseteq Logged
         /\ jobs # <<>> => Head(jobs) \in Jobs /\ Head(jobs) \notin Begun
<1>1. /\ started \in Seq(Jobs) /\ jobs \in Seq(Jobs) /\ accepted = started \o jobs
  BY DEF QueueInv, TypeOK, FifoExactlyOnce
<1>2. /\ DOMAIN accepted = 1 .. Len(started) + Len(jobs)
      /\ DOMAIN started = 1 .. Len(started)
      /\ Len(started) \in Nat /\ Len(jobs) \in Nat
      /\ \A i \in 1 .. Len(started) : accepted[i] = started[i]
      /\ \A i \in 1 .. Len(jobs) : accepted[Len(started) + i] = jobs[i]
  BY <1>1, ConcatProperties
<1>3. Begun \subseteq Logged
  BY <1>2 DEF Begun, Logged
<1>4. ASSUME jobs # <<>> PROVE Head(jobs) \in Jobs /\ Head(jobs) \notin Begun
  <2>1. Len(jobs) \in Nat \ {0} /\ Head(jobs) = jobs[1] /\ Head(jobs) \in Jobs
    BY <1>1, <1>4, EmptySeq, HeadTailProperties
  <2>2. accepted[Len(started) + 1] = Head(jobs)
    BY <1>2, <2>1
  <2>3. \A i \in 1 .. Len(started) : accepted[i] # Head(jobs)
    <3> SUFFICES ASSUME NEW i \in 1 .. Len(started), accepted[i] = Head(jobs)
                 PROVE  FALSE
      OBVIOUS
    <3>1. i \in DOMAIN accepted /\ Len(started) + 1 \in DOMAIN accepted
      BY <1>2, <2>1
    <3>2. i = Len(started) + 1
      BY <2>2, <3>1
    <3> QED BY <1>2, <3>2
  <2> QED BY <1>2, <2>1, <2>3 DEF Begun
<1> QED BY <1>3, <1>4

LEMMA InitServiceInv == Init => ServiceInv
<1> SUFFICES ASSUME Init PROVE ServiceInv
  OBVIOUS
<1>1. /\ \A w \in Workers : held[w] = NoJob
      /\ \A c \in Callers : arg[c] = NoJob
      /\ finished = {} /\ accepted = <<>>
  BY DEF Init
<1>2. DOMAIN accepted = {}
  BY <1>1
<1> QED BY <1>1, <1>2, InitFreeInv DEF ServiceInv

LEMMA NextServiceInv == ServiceInv /\ [Next]_vars => ServiceInv'
<1> SUFFICES ASSUME ServiceInv, [Next]_vars PROVE ServiceInv'
  OBVIOUS
<1> USE ThreadPoolAssumption
<1>0. FreeInv'
  BY NextFreeInv DEF ServiceInv
<1>T. /\ wpc \in [Workers -> WorkerStates]
      /\ held \in [Workers -> Jobs \cup {NoJob}]
      /\ arg \in [Callers -> Jobs \cup {NoJob}]
      /\ accepted \in Seq(Jobs) /\ started \in Seq(Jobs)
      /\ \A c \in Callers : cpc[c] \in {"adding", "fullWait"} => arg[c] \in Jobs
      /\ \A w \in Workers : wpc[w] = "running" => held[w] \in Jobs
  BY DEF ServiceInv, FreeInv, QueueInv, TypeOK
<1>U. /\ Begun \subseteq Logged
      /\ jobs # <<>> => Head(jobs) \in Jobs /\ Head(jobs) \notin Begun
  BY HeadIsNew DEF ServiceInv, FreeInv
<1> USE DEF ServiceInv
<1> HIDE DEF FreeInv
<1>1. ASSUME NEW c \in Callers, NEW j \in Jobs, Submit(c, j)
      PROVE  ServiceInv'
  <2>1. /\ arg' = [arg EXCEPT ![c] = j]
        /\ UNCHANGED <<wpc, held, accepted, started, finished>>
    BY <1>1 DEF Submit, workerVars, history
  <2>2. j \notin Logged /\ \A d \in Callers : arg[d] # j
    BY <1>1 DEF Submit, Given, Logged
  <2> QED BY <1>0, <1>T, <2>1, <2>2 DEF Logged, Begun
<1>2. ASSUME NEW c \in Callers, AddWait(c)
      PROVE  ServiceInv'
  BY <1>0, <1>2 DEF AddWait, workerVars, history, Logged, Begun
<1>3. ASSUME NEW c \in Callers, AddRefused(c)
      PROVE  ServiceInv'
  <2>1. /\ arg' = [arg EXCEPT ![c] = NoJob]
        /\ UNCHANGED <<wpc, held, accepted, started, finished>>
    BY <1>3 DEF AddRefused, workerVars, history
  <2> QED BY <1>0, <1>T, <2>1 DEF Logged, Begun
<1>4. ASSUME NEW c \in Callers, AddAppend(c)
      PROVE  ServiceInv'
  <2>1. /\ arg' = [arg EXCEPT ![c] = NoJob]
        /\ accepted' = Append(accepted, arg[c])
        /\ UNCHANGED <<held, started, finished>>
        /\ arg[c] \in Jobs
    BY <1>4, <1>T DEF AddAppend
  <2>2. \A w \in Workers : wpc'[w] = "running" <=> wpc[w] = "running"
    BY <1>4, <1>T DEF AddAppend, BroadcastNotEmpty
  <2>3. /\ DOMAIN accepted = 1 .. Len(accepted) /\ Len(accepted) \in Nat
        /\ DOMAIN accepted' = 1 .. Len(accepted) + 1
        /\ \A i \in 1 .. Len(accepted) : accepted'[i] = accepted[i]
        /\ accepted'[Len(accepted) + 1] = arg[c]
    BY <1>T, <2>1, AppendProperties
  <2>4. Logged' \subseteq Logged \cup {arg[c]}
    BY <2>3 DEF Logged
  <2>5. \A i, k \in DOMAIN accepted' : accepted'[i] = accepted'[k] => i = k
    <3>1. \A i \in 1 .. Len(accepted) : accepted[i] # arg[c]
      BY <1>T, <2>1, <2>3 DEF Logged
    <3> QED BY <2>3, <3>1
  <2>6. /\ \A d \in Callers : arg'[d] # NoJob => arg'[d] = arg[d] /\ d # c
        /\ \A d, e \in Callers : d # e /\ arg'[d] = arg'[e] => arg'[d] = NoJob
    BY <1>T, <2>1
  <2>7. \A d \in Callers : arg'[d] # NoJob => arg'[d] \notin Logged'
    BY <1>T, <2>1, <2>4, <2>6
  <2>8. Begun' = Begun
    BY <2>1 DEF Begun
  <2> QED BY <1>0, <2>1, <2>2, <2>5, <2>6, <2>7, <2>8
<1>5. ASSUME NEW c \in Callers, TouchFreed(c)
      PROVE  ServiceInv'
  BY <1>0, <1>5 DEF TouchFreed, workerVars, history, Logged, Begun
<1>6. ASSUME NEW w \in Workers, WorkerWait(w) \/ WorkerExit(w)
      PROVE  ServiceInv'
  BY <1>0, <1>6, <1>T DEF WorkerWait, WorkerExit, callerVars, history, Logged, Begun
<1>7. ASSUME NEW w \in Workers, WorkerTake(w)
      PROVE  ServiceInv'
  <2>1. /\ held' = [held EXCEPT ![w] = Head(jobs)]
        /\ wpc' = [wpc EXCEPT ![w] = "running"]
        /\ started' = Append(started, Head(jobs))
        /\ UNCHANGED <<arg, accepted, finished>>
    BY <1>7 DEF WorkerTake
  <2>2. jobs # <<>>
    BY <1>7 DEF WorkerTake, FreeInv, QueueInv, FifoExactlyOnce
  <2>3. Begun' = Begun \cup {Head(jobs)}
    <3>1. /\ DOMAIN started = 1 .. Len(started) /\ Len(started) \in Nat
          /\ DOMAIN started' = 1 .. Len(started) + 1
          /\ \A i \in 1 .. Len(started) : started'[i] = started[i]
          /\ started'[Len(started) + 1] = Head(jobs)
      BY <1>T, <1>U, <2>1, <2>2, AppendProperties
    <3>2. Begun' \subseteq Begun \cup {Head(jobs)}
      BY <3>1 DEF Begun
    <3>3. Begun \cup {Head(jobs)} \subseteq Begun'
      BY <3>1 DEF Begun
    <3> QED BY <3>2, <3>3
  <2>4. /\ \A v \in Workers : wpc'[v] # "running" => held'[v] = NoJob
        /\ \A v \in Workers : held'[v] # NoJob => held'[v] \in Begun'
        /\ \A u, v \in Workers : u # v /\ held'[u] = held'[v] => held'[u] = NoJob
    BY <1>T, <1>U, <2>1, <2>2, <2>3
  <2>5. Logged' = Logged
    BY <2>1 DEF Logged
  <2> QED BY <1>0, <2>1, <2>3, <2>4, <2>5
<1>8. ASSUME NEW w \in Workers, WorkerFinish(w)
      PROVE  ServiceInv'
  <2>1. /\ finished' = finished \cup {held[w]}
        /\ held' = [held EXCEPT ![w] = NoJob]
        /\ wpc' = [wpc EXCEPT ![w] = "ready"]
        /\ UNCHANGED <<arg, accepted, started>>
        /\ held[w] \in Jobs
    BY <1>8, <1>T DEF WorkerFinish, callerVars
  <2>2. Begun' = Begun /\ Logged' = Logged
    BY <2>1 DEF Begun, Logged
  <2> QED BY <1>0, <1>T, <2>1, <2>2
<1>9. ASSUME NEW c \in Destroyers,
             \/ DestroyEnter(c) \/ DestroyRefused(c) \/ DestroyRetest(c)
             \/ DestroyWakeAdders(c) \/ DestroyJoin(c) \/ DestroyFree(c)
      PROVE  ServiceInv'
  <2>1. UNCHANGED <<wpc, held, arg, accepted, started, finished>>
    BY <1>9
    DEF DestroyEnter, DestroyRefused, DestroyRetest, DestroyWakeAdders, DestroyJoin,
        DestroyFree, workerVars, history
  <2> QED BY <1>0, <2>1 DEF Logged, Begun
<1>10. ASSUME NEW c \in Destroyers, DestroyWakeWorkers(c)
       PROVE  ServiceInv'
  BY <1>0, <1>10, <1>T DEF DestroyWakeWorkers, BroadcastNotEmpty, history, Logged, Begun
<1>11. CASE SpuriousWakeup
  BY <1>0, <1>11, <1>T DEF SpuriousWakeup, history, Logged, Begun
<1>12. CASE UNCHANGED vars
  BY <1>0, <1>12 DEF vars, workerVars, callerVars, history, Logged, Begun
<1> QED
  BY <1>1, <1>2, <1>3, <1>4, <1>5, <1>6, <1>7, <1>8, <1>9, <1>10, <1>11, <1>12
  DEF Next, Worker, InAdd, InDestroy

LEMMA ServiceInvariant == Spec => []ServiceInv
BY InitServiceInv, NextServiceInv, PTL DEF Spec

Running == {held[w] : w \in Workers} \ {NoJob}
Phase == IF freed THEN "stopped" ELSE IF queueClose THEN "closing" ELSE "open"

\* Appending to the list is accepting the job.
LEMMA AppendIsAccept ==
  ASSUME ServiceInv, NEW c \in Callers, AddAppend(c)
  PROVE  \E j \in Jobs : Service!Accept(j)
<1>1. arg[c] \in Jobs /\ arg[c] # NoJob
  BY ThreadPoolAssumption DEF ServiceInv, FreeInv, QueueInv, AddAppend
<1>2. arg[c] \notin Running \cup finished
  <2>1. arg[c] \notin Begun
    BY <1>1, HeadIsNew DEF ServiceInv, FreeInv
  <2> QED BY <2>1 DEF ServiceInv, Running
<1>3. Phase = "open"
  BY DEF AddAppend, Closed, Phase
<1>4. /\ jobs' = Append(jobs, arg[c])
      /\ UNCHANGED <<Running, finished, Phase>>
  BY DEF AddAppend, Running, Phase
<1>5. Service!Accept(arg[c])
  BY <1>2, <1>3, <1>4 DEF Service!Accept, Running, Phase
<1> QED BY <1>1, <1>5

\* Taking a job is starting the first one.
LEMMA TakeIsStart ==
  ASSUME ServiceInv, NEW w \in Workers, WorkerTake(w)
  PROVE  Service!Start
<1>1. ~freed
  BY DEF ServiceInv, FreeInv, WorkerTake
<1>2. jobs # <<>> /\ jobs \in Seq(Jobs) /\ cur = Len(jobs)
  BY DEF ServiceInv, FreeInv, QueueInv, TypeOK, FifoExactlyOnce, WorkerTake
<1>3. jobs' = Tail(jobs)
  <2>1. Tail(jobs) \in Seq(Jobs) /\ Len(Tail(jobs)) = cur - 1
    BY <1>2, HeadTailProperties
  <2>2. CASE cur - 1 = 0
    BY <2>1, <2>2, EmptySeq DEF WorkerTake
  <2>3. CASE cur - 1 # 0
    BY <2>3 DEF WorkerTake
  <2> QED BY <2>2, <2>3
<1>4. /\ held \in [Workers -> Jobs \cup {NoJob}] /\ held[w] = NoJob
      /\ held' = [held EXCEPT ![w] = Head(jobs)]
      /\ Head(jobs) \in Jobs /\ Head(jobs) # NoJob
  BY <1>2, HeadTailProperties, ThreadPoolAssumption
  DEF ServiceInv, FreeInv, QueueInv, TypeOK, WorkerTake
<1>5. Running' = Running \cup {Head(jobs)}
  <2>1. held'[w] = Head(jobs) /\ \A v \in Workers \ {w} : held'[v] = held[v]
    BY <1>4
  <2>2. Running' \subseteq Running \cup {Head(jobs)}
    BY <1>4, <2>1 DEF Running
  <2>3. Running \cup {Head(jobs)} \subseteq Running'
    BY <1>4, <2>1 DEF Running
  <2> QED BY <2>2, <2>3
<1>6. Phase # "stopped" /\ UNCHANGED <<finished, Phase>>
  BY <1>1 DEF WorkerTake, Phase
<1> QED BY <1>2, <1>3, <1>5, <1>6 DEF Service!Start, Running, Phase

\* The callback's return finishes the job, which no other worker runs.
LEMMA ReturnIsFinish ==
  ASSUME ServiceInv, NEW w \in Workers, WorkerFinish(w)
  PROVE  \E j \in Jobs : Service!Finish(j)
<1>1. ~freed
  BY DEF ServiceInv, FreeInv, WorkerFinish
<1>2. /\ held \in [Workers -> Jobs \cup {NoJob}] /\ held[w] \in Jobs
      /\ held[w] # NoJob /\ held' = [held EXCEPT ![w] = NoJob]
      /\ \A v \in Workers \ {w} : held[v] # held[w]
  BY ThreadPoolAssumption DEF ServiceInv, FreeInv, QueueInv, TypeOK, WorkerFinish
<1>3. held[w] \in Running /\ Running' = Running \ {held[w]}
  <2>1. held'[w] = NoJob /\ \A v \in Workers \ {w} : held'[v] = held[v]
    BY <1>2
  <2>2. held[w] \in Running
    BY <1>2 DEF Running
  <2>3. Running' \subseteq Running \ {held[w]}
    BY <1>2, <2>1 DEF Running
  <2>4. Running \ {held[w]} \subseteq Running'
    BY <1>2, <2>1 DEF Running
  <2> QED BY <2>2, <2>3, <2>4
<1>4. /\ Phase # "stopped" /\ finished' = finished \cup {held[w]}
      /\ UNCHANGED <<jobs, Phase>>
  BY <1>1 DEF WorkerFinish, Phase, queueVars
<1>5. PICK j \in Jobs : j = held[w]
  BY <1>2
<1>6. Service!Finish(j)
  BY <1>3, <1>4, <1>5 DEF Service!Finish, Running, Phase
<1> QED BY <1>6

\* Freeing the pool stops the service.
LEMMA FreeIsStop ==
  ASSUME ServiceInv, NEW c \in Callers, DestroyFree(c)
  PROVE  Service!Stop
<1>1. /\ ~freed /\ poolClose /\ queueClose /\ jobs = <<>>
      /\ \A w \in Workers : wpc[w] = "exited"
  BY DEF ServiceInv, FreeInv, QueueInv, DestroyFree, Inside, Closing
<1>2. Running = {} /\ Running' = Running
  <2>1. \A w \in Workers : held[w] = NoJob
    BY <1>1 DEF ServiceInv
  <2> QED BY <2>1 DEF Running, DestroyFree, workerVars
<1>3. Phase = "closing" /\ Phase' = "stopped"
  BY <1>1 DEF Phase, DestroyFree
<1>4. UNCHANGED <<jobs, finished>>
  BY <1>1 DEF DestroyFree, history
<1> QED BY <1>1, <1>2, <1>3, <1>4 DEF Service!Stop, Running, Phase

(* Every behaviour of the pool is one of the job service: accepted jobs    *)
(* start in order, each once, and the service stops with nothing pending   *)
(* or running.                                                             *)
THEOREM PoolIsService == Spec => ImplementsJobService
<1>1. Init => Service!Init
  <2> SUFFICES ASSUME Init PROVE Service!Init
    OBVIOUS
  <2>1. Running = {}
    BY DEF Init, Running
  <2>2. Phase = "open"
    BY DEF Init, Phase
  <2>3. jobs = <<>> /\ finished = {}
    BY DEF Init
  <2> QED BY <2>1, <2>2, <2>3 DEF Service!Init, Running, Phase
<1>2. ServiceInv /\ [Next]_vars => [Service!Next]_Service!svars
  <2> SUFFICES ASSUME ServiceInv, [Next]_vars
               PROVE  Service!Next \/ UNCHANGED <<jobs, Running, finished, Phase>>
    BY DEF Service!svars, Running, Phase
  <2>1. ASSUME NEW c \in Callers, AddAppend(c) PROVE Service!Next
    BY <2>1, AppendIsAccept DEF Service!Next
  <2>2. ASSUME NEW w \in Workers, WorkerTake(w) PROVE Service!Next
    BY <2>2, TakeIsStart DEF Service!Next
  <2>3. ASSUME NEW w \in Workers, WorkerFinish(w) PROVE Service!Next
    BY <2>3, ReturnIsFinish DEF Service!Next
  <2>4. ASSUME NEW c \in Destroyers, DestroyFree(c) PROVE Service!Next
    BY <2>4, FreeIsStop, ThreadPoolAssumption DEF Service!Next
  <2>5. ASSUME NEW c \in Destroyers, DestroyEnter(c) PROVE Service!Next
    <3>1. /\ Phase = "open" /\ Phase' = "closing"
          /\ UNCHANGED <<jobs, Running, finished>>
      BY <2>5 DEF DestroyEnter, Closed, Phase, Running, workerVars, history
    <3>2. Service!Close
      BY <3>1 DEF Service!Close, Running, Phase
    <3> QED BY <3>2 DEF Service!Next
  <2>6. ASSUME UNCHANGED <<jobs, held, finished, freed, queueClose>>
        PROVE  UNCHANGED <<jobs, Running, finished, Phase>>
    BY <2>6 DEF Running, Phase
  <2>7. ASSUME NEW c \in Callers,
               \/ \E j \in Jobs : Submit(c, j)
               \/ AddWait(c) \/ AddRefused(c) \/ TouchFreed(c)
        PROVE  UNCHANGED <<jobs, held, finished, freed, queueClose>>
    BY <2>7 DEF Submit, AddWait, AddRefused, TouchFreed, queueVars, workerVars, history
  <2>8. ASSUME NEW w \in Workers, WorkerWait(w) \/ WorkerExit(w)
        PROVE  UNCHANGED <<jobs, held, finished, freed, queueClose>>
    BY <2>8 DEF WorkerWait, WorkerExit, queueVars, history
  <2>9. ASSUME NEW c \in Destroyers,
               \/ DestroyRefused(c) \/ DestroyRetest(c) \/ DestroyWakeWorkers(c)
               \/ DestroyWakeAdders(c) \/ DestroyJoin(c)
        PROVE  UNCHANGED <<jobs, held, finished, freed, queueClose>>
    BY <2>9
    DEF DestroyRefused, DestroyRetest, DestroyWakeWorkers, DestroyWakeAdders,
        DestroyJoin, queueVars, workerVars, history
  <2>10. CASE SpuriousWakeup
    BY <2>6, <2>10 DEF SpuriousWakeup, queueVars, history
  <2>11. CASE UNCHANGED vars
    BY <2>6, <2>11 DEF vars, queueVars, workerVars, history
  <2> QED
    BY <2>1, <2>2, <2>3, <2>4, <2>5, <2>6, <2>7, <2>8, <2>9, <2>10, <2>11
    DEF Next, Worker, InAdd, InDestroy
<1> QED
  BY <1>1, <1>2, ServiceInvariant, PTL DEF Spec, ImplementsJobService, Service!Spec

=============================================================================
