-------------------------- MODULE ApartmentProofs --------------------------
(***************************************************************************)
(* The message calls of an apartment are safe for every set of callers and *)
(* messages and every queue length.  ApartInv says where each call is: a   *)
(* blocking message that is queued or in hand belongs to a caller that     *)
(* waits with an unreleased semaphore, and a released semaphore means that *)
(* the handler ran, the result is there and the message is gone.           *)
(***************************************************************************)
EXTENDS Apartment, TLAPS

(* A caller inside a call has issued its message, alone.                   *)
Issued ==
  /\ \A c \in Callers : pc[c] # "idle" => call[c] \in issued
  /\ \A c, d \in Callers :
        c # d /\ pc[c] # "idle" /\ pc[d] # "idle" => call[c] # call[d]
  /\ Queued \subseteq issued
  /\ srv # "recv" => cur \in issued

(* The frame of a call exists for as long as the call.                     *)
Frames ==
  /\ \A c \in Callers : pc[c] # "idle" /\ call[c] \in Blocking => call[c] \in live
  /\ \A c \in Callers : pc[c] \in {"wait", "delete"} => call[c] \in Blocking
  /\ \A m \in Messages : m \notin issued => sem[m] = 0

(* A blocking message in flight belongs to a waiting caller.               *)
Waiting ==
  \A m \in Blocking : InFlight(m) =>
    sem[m] = 0 /\ \E c \in Callers : pc[c] = "wait" /\ call[c] = m

(* Each message is in flight at most once, and not before it is queued.    *)
Once ==
  /\ \A i, k \in DOMAIN chan : chan[i] = chan[k] => i = k
  /\ srv # "recv" => cur \notin Queued
  /\ \A c \in Callers : pc[c] = "send" => ~InFlight(call[c]) /\ sem[call[c]] = 0

(* The handler ran and the result is stored before the semaphore is        *)
(* released.                                                               *)
Stored ==
  /\ \A m \in Messages : sem[m] > 0 => result[m] = Reply[m] /\ Ran(m)
  /\ srv \in {"result", "release"} => Ran(cur)
  /\ srv = "release" /\ cur \in Blocking => result[cur] = Reply[cur]
  /\ OwnResult
  /\ \A c \in Callers : pc[c] = "delete" => Ran(call[c])
  /\ \A m \in Blocking : m \in issued /\ m \notin live => Ran(m)

ApartInv == TypeOK /\ Issued /\ Frames /\ Waiting /\ Once /\ Stored

-----------------------------------------------------------------------------
(* Queueing a message adds it to the queue.                                *)
LEMMA QueuedAfterAppend ==
  ASSUME TypeOK, NEW m \in Messages, chan' = Append(chan, m)
  PROVE  /\ chan' \in Seq(Messages)
         /\ Queued' = Queued \cup {m}
         /\ (\A i, k \in DOMAIN chan : chan[i] = chan[k] => i = k) /\ m \notin Queued
              => \A i, k \in DOMAIN chan' : chan'[i] = chan'[k] => i = k
<1>1. /\ DOMAIN chan = 1 .. Len(chan) /\ DOMAIN chan' = 1 .. Len(chan) + 1
      /\ Len(chan) \in Nat
      /\ \A i \in 1 .. Len(chan) : chan'[i] = chan[i]
      /\ chan'[Len(chan) + 1] = m
      /\ chan' \in Seq(Messages)
  BY DEF TypeOK
<1>2. Queued' = Queued \cup {m}
  BY <1>1 DEF Queued
<1> QED BY <1>1, <1>2 DEF Queued

(* Receiving takes the first message out of it.                            *)
LEMMA QueuedAfterTail ==
  ASSUME TypeOK, chan # <<>>, chan' = Tail(chan),
         \A i, k \in DOMAIN chan : chan[i] = chan[k] => i = k
  PROVE  /\ chan' \in Seq(Messages) /\ Head(chan) \in Messages
         /\ Queued = Queued' \cup {Head(chan)} /\ Head(chan) \notin Queued'
         /\ \A i, k \in DOMAIN chan' : chan'[i] = chan'[k] => i = k
<1>1. /\ DOMAIN chan = 1 .. Len(chan) /\ DOMAIN chan' = 1 .. Len(chan) - 1
      /\ Len(chan) \in Nat \ {0}
      /\ \A i \in 1 .. Len(chan) - 1 : chan'[i] = chan[i + 1]
      /\ Head(chan) = chan[1] /\ Head(chan) \in Messages
      /\ chan' \in Seq(Messages)
  BY DEF TypeOK
<1>2. \A i, k \in DOMAIN chan' : chan'[i] = chan'[k] => i = k
  BY <1>1
<1>3. Head(chan) \notin Queued'
  BY <1>1 DEF Queued
<1>4. Queued \subseteq Queued' \cup {Head(chan)}
  <2> SUFFICES ASSUME NEW i \in 1 .. Len(chan) PROVE chan[i] \in Queued' \cup {Head(chan)}
    BY <1>1 DEF Queued
  <2>1. CASE i = 1
    BY <2>1, <1>1
  <2>2. CASE i # 1
    <3>1. i - 1 \in DOMAIN chan' /\ chan'[i - 1] = chan[i]
      BY <2>2, <1>1
    <3> QED BY <3>1 DEF Queued
  <2> QED BY <2>1, <2>2
<1>5. Queued' \cup {Head(chan)} \subseteq Queued
  BY <1>1 DEF Queued
<1> QED BY <1>1, <1>2, <1>3, <1>4, <1>5

LEMMA InitApartInv == Init => ApartInv
<1> SUFFICES ASSUME Init PROVE ApartInv
  OBVIOUS
<1> USE ApartmentAssumption
<1>1. Queued = {}
  BY DEF Init, Queued
<1>2. TypeOK
  BY DEF Init, TypeOK
<1>3. \A m : ~InFlight(m)
  BY <1>1 DEF Init, InFlight
<1> QED
  BY <1>1, <1>2, <1>3
     DEF Init, ApartInv, Issued, Frames, Waiting, Once, Stored, OwnResult

-----------------------------------------------------------------------------
LEMMA NextApartInv == ApartInv /\ [Next]_vars => ApartInv'
<1> SUFFICES ASSUME ApartInv, [Next]_vars PROVE ApartInv'
  OBVIOUS
<1> USE ApartmentAssumption
<1> USE DEF ApartInv
<1>1. ASSUME NEW c \in Callers, NEW m \in Messages, Issue(c, m) PROVE ApartInv'
  <2> USE <1>1 DEF Issue
  <2>1. Queued' = Queued /\ (\A x : InFlight(x)' <=> InFlight(x)) /\ ~InFlight(m) /\ sem[m] = 0
    BY DEF Queued, InFlight, Issued, Frames
  <2>2. /\ pc[c] = "idle" /\ pc'[c] = "send" /\ call'[c] = m
        /\ \A d \in Callers : d # c => pc'[d] = pc[d] /\ call'[d] = call[d]
    BY DEF TypeOK
  <2>3. TypeOK'
    BY DEF TypeOK
  <2>4. Issued'
    BY <2>1, <2>2 DEF Issued
  <2>5. Frames'
    BY <2>1, <2>2 DEF Frames
  <2>6. Waiting'
    BY <2>1, <2>2 DEF Waiting
  <2>7. Once'
    BY <2>1, <2>2 DEF Once
  <2>8. Stored'
    BY <2>1, <2>2 DEF Stored, OwnResult, Ran
  <2> QED BY <2>3, <2>4, <2>5, <2>6, <2>7, <2>8
<1>2. ASSUME NEW c \in Callers, SendToQueue(c) PROVE ApartInv'
  <2> USE <1>2 DEF SendToQueue
  <2> DEFINE m == call[c]
  <2>1. m \in issued /\ m \in Messages /\ ~InFlight(m) /\ m \notin Queued /\ sem[m] = 0
    BY DEF Issued, Once, InFlight, TypeOK
  <2>2. /\ chan' \in Seq(Messages) /\ Queued' = Queued \cup {m}
        /\ \A i, k \in DOMAIN chan' : chan'[i] = chan'[k] => i = k
    BY <2>1, QueuedAfterAppend DEF Once
  <2>3. /\ pc'[c] = IF m \in Blocking THEN "wait" ELSE "idle"
        /\ \A d \in Callers : d # c => pc'[d] = pc[d]
    BY DEF TypeOK
  <2>4. \A x : InFlight(x)' <=> InFlight(x) \/ x = m
    BY <2>2 DEF InFlight
  <2> HIDE DEF m
  <2>5. TypeOK'
    BY <2>2 DEF TypeOK
  <2>6. Issued'
    BY <2>1, <2>2, <2>3 DEF Issued, m
  <2>7. Frames'
    BY <2>1, <2>3 DEF Frames, m
  <2>8. Waiting'
    <3> SUFFICES ASSUME NEW x \in Blocking, InFlight(x)'
                 PROVE  sem[x] = 0 /\ \E d \in Callers : pc'[d] = "wait" /\ call[d] = x
      BY DEF Waiting
    <3>1. CASE x = m
      BY <3>1, <2>1, <2>3 DEF m
    <3>2. CASE x # m
      BY <3>2, <2>4, <2>3 DEF Waiting
    <3> QED BY <3>1, <3>2
  <2>9. Once'
    <3>1. srv # "recv" => cur # m
      BY <2>1 DEF InFlight
    <3>2. \A d \in Callers : pc'[d] = "send" => call[d] # m /\ d # c /\ pc[d] = "send"
      BY <2>3 DEF Issued, m
    <3> QED BY <3>1, <3>2, <2>2, <2>4 DEF Once
  <2>10. Stored'
    BY <2>3 DEF Stored, OwnResult, Ran
  <2> QED BY <2>5, <2>6, <2>7, <2>8, <2>9, <2>10
<1>3. ASSUME NEW c \in Callers, Obtain(c) PROVE ApartInv'
  <2> USE <1>3 DEF Obtain
  <2> DEFINE m == call[c]
  <2>1. m \in Blocking /\ m \in Messages /\ m \in issued /\ ~InFlight(m)
    BY DEF Frames, Issued, Waiting, TypeOK
  <2>2. /\ pc'[c] = "delete" /\ \A d \in Callers : d # c => pc'[d] = pc[d]
        /\ sem[m] \in Nat /\ sem[m] > 0 /\ sem'[m] = sem[m] - 1
        /\ \A x \in Messages : x # m => sem'[x] = sem[x]
    BY <2>1 DEF TypeOK
  <2>3. Queued' = Queued /\ (\A x : InFlight(x)' <=> InFlight(x))
    BY DEF Queued, InFlight
  <2> HIDE DEF m
  <2>4. TypeOK'
    BY <2>2 DEF TypeOK, m
  <2>5. Issued'
    BY <2>2, <2>3 DEF Issued
  <2>6. Frames'
    BY <2>1, <2>2 DEF Frames, m
  <2>7. Waiting'
    BY <2>1, <2>2, <2>3 DEF Waiting, m
  <2>8. Once'
    BY <2>1, <2>2, <2>3 DEF Once, Issued, TypeOK, m
  <2>9. Stored'
    BY <2>1, <2>2 DEF Stored, OwnResult, Ran, m
  <2> QED BY <2>4, <2>5, <2>6, <2>7, <2>8, <2>9
<1>4. ASSUME NEW c \in Callers, Return(c) PROVE ApartInv'
  <2> USE <1>4 DEF Return
  <2>1. /\ pc'[c] = "idle" /\ \A d \in Callers : d # c => pc'[d] = pc[d]
        /\ call[c] \in Messages /\ Ran(call[c])
    BY DEF TypeOK, Stored, Frames
  <2>2. Queued' = Queued /\ (\A x : InFlight(x)' <=> InFlight(x))
    BY DEF Queued, InFlight
  <2>3. TypeOK'
    BY <2>1 DEF TypeOK
  <2>4. Issued'
    BY <2>1, <2>2 DEF Issued
  <2>5. Frames'
    BY <2>1 DEF Frames, Issued
  <2>6. Waiting'
    BY <2>1, <2>2 DEF Waiting
  <2>7. Once'
    BY <2>1, <2>2 DEF Once
  <2>8. Stored'
    BY <2>1 DEF Stored, OwnResult, Ran
  <2> QED BY <2>3, <2>4, <2>5, <2>6, <2>7, <2>8
<1>5. CASE Recv
  <2> USE <1>5 DEF Recv
  <2>1. /\ chan' \in Seq(Messages) /\ cur' \in Messages
        /\ Queued = Queued' \cup {cur'} /\ cur' \notin Queued'
        /\ \A i, k \in DOMAIN chan' : chan'[i] = chan'[k] => i = k
    BY QueuedAfterTail DEF Once
  <2>2. \A x : InFlight(x)' <=> InFlight(x)
    BY <2>1 DEF InFlight
  <2>3. TypeOK'
    BY <2>1 DEF TypeOK
  <2>4. Issued'
    BY <2>1 DEF Issued
  <2>5. Frames' /\ Waiting'
    BY <2>2 DEF Frames, Waiting
  <2>6. Once'
    BY <2>1, <2>2 DEF Once
  <2>7. Stored'
    BY DEF Stored, OwnResult, Ran
  <2> QED BY <2>3, <2>4, <2>5, <2>6, <2>7
<1>6. CASE Handle
  <2> USE <1>6 DEF Handle
  <2>1. Queued' = Queued /\ (\A x : InFlight(x)' <=> InFlight(x)) /\ cur \in Messages
    BY DEF Queued, InFlight, Issued, TypeOK
  <2>2. handled' \in Seq(Messages) /\ Ran(cur)' /\ \A x : Ran(x) => Ran(x)'
    <3>1. /\ DOMAIN handled = 1 .. Len(handled) /\ DOMAIN handled' = 1 .. Len(handled) + 1
          /\ Len(handled) \in Nat /\ handled'[Len(handled) + 1] = cur
          /\ \A i \in DOMAIN handled : handled'[i] = handled[i]
          /\ handled' \in Seq(Messages)
      BY <2>1 DEF TypeOK
    <3> QED BY <3>1 DEF Ran
  <2>3. TypeOK'
    BY <2>2 DEF TypeOK
  <2>4. Issued' /\ Frames' /\ Waiting' /\ Once'
    BY <2>1 DEF Issued, Frames, Waiting, Once
  <2>5. Stored'
    BY <2>2 DEF Stored, OwnResult
  <2> QED BY <2>3, <2>4, <2>5
<1>7. CASE WriteResult
  <2> USE <1>7 DEF WriteResult
  <2>1. Queued' = Queued /\ (\A x : InFlight(x)' <=> InFlight(x)) /\ cur \in Messages
    BY DEF Queued, InFlight, Issued, TypeOK
  <2>2. /\ cur \in Blocking => result'[cur] = Reply[cur]
        /\ \A x \in Messages : result'[x] = result[x] \/ result'[x] = Reply[x]
    BY <2>1 DEF TypeOK
  <2>3. TypeOK'
    BY <2>1 DEF TypeOK
  <2>4. Issued' /\ Frames' /\ Waiting' /\ Once'
    BY <2>1 DEF Issued, Frames, Waiting, Once
  <2>5. Stored'
    BY <2>2 DEF Stored, OwnResult, Ran, Frames
  <2> QED BY <2>3, <2>4, <2>5
<1>8. CASE Release
  <2> USE <1>8 DEF Release
  <2>1. Queued' = Queued /\ (\A x : InFlight(x)' => InFlight(x)) /\ ~InFlight(cur)'
        /\ InFlight(cur) /\ cur \in Messages /\ cur \in issued
    BY DEF Queued, InFlight, Once, Issued, TypeOK
  <2>2. /\ cur \notin Blocking => sem' = sem
        /\ \A x \in Messages : x # cur => sem'[x] = sem[x]
    BY <2>1 DEF TypeOK
  <2>3. TypeOK'
    BY <2>1 DEF TypeOK
  <2>4. Issued' /\ Frames'
    BY <2>1, <2>2 DEF Issued, Frames
  <2>5. Waiting'
    BY <2>1, <2>2 DEF Waiting
  <2>6. Once'
    <3>1. \A d \in Callers : pc[d] = "send" => call[d] # cur /\ call[d] \in Messages
      BY <2>1 DEF Once, Issued, TypeOK
    <3> QED BY <3>1, <2>1, <2>2 DEF Once
  <2>7. Stored'
    BY <2>2 DEF Stored, OwnResult, Ran
  <2> QED BY <2>3, <2>4, <2>5, <2>6, <2>7
<1>9. CASE UNCHANGED vars
  BY <1>9 DEF vars, TypeOK, Issued, Frames, Waiting, Once, Stored, OwnResult,
             Ran, InFlight, Queued
<1> QED
  BY <1>1, <1>2, <1>3, <1>4, <1>5, <1>6, <1>7, <1>8, <1>9
     DEF Next, InCall, ApartmentThread

LEMMA ApartInvariant == Spec => []ApartInv
<1> QED BY InitApartInv, NextApartInv, PTL DEF Spec

-----------------------------------------------------------------------------
(* Every variable of the apartment keeps its type.                         *)
THEOREM TypeCorrect == Spec => []TypeOK
<1>1. ApartInv => TypeOK
  BY DEF ApartInv
<1> QED BY <1>1, ApartInvariant, PTL

(* ApartmentThread never answers a call whose frame is gone.               *)
THEOREM FramesOutliveAnswers == Spec => []NoDeadFrame
<1>1. ApartInv => NoDeadFrame
  BY DEF ApartInv, NoDeadFrame, Waiting, Frames, InFlight
<1> QED BY <1>1, ApartInvariant, PTL

(* A call that got its semaphore holds the result of its own message.      *)
THEOREM ResultsAreOwn == Spec => []OwnResult
<1>1. ApartInv => OwnResult
  BY DEF ApartInv, Stored
<1> QED BY <1>1, ApartInvariant, PTL

(* Once a call has returned its handler has ended and its message is gone: *)
(* the buffer it pointed to may be freed.                                  *)
THEOREM BuffersMayBeFreed == Spec => []FreeAfterCall
<1>1. ApartInv => FreeAfterCall
  BY DEF ApartInv, FreeAfterCall, Stored, Waiting, Frames
<1> QED BY <1>1, ApartInvariant, PTL

=============================================================================
