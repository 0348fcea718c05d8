----------------------------- MODULE MsOSQueue -----------------------------
(***************************************************************************)
(* pgos/MsOS_queue.c: a message queue made of a fixed array of nodes kept  *)
(* on a free list and a used list, and of three counting semaphores:       *)
(* lockSemaphore (a mutex around each list operation), sendSemaphore (free *)
(* nodes a sender may claim) and recvSemaphore (messages a receiver may    *)
(* take).  Each locked list operation is one action; between two of them a *)
(* thread can be preempted, so the counts and the lists disagree for a     *)
(* while and the queue is correct only if the differences always add up.   *)
(***************************************************************************)
EXTENDS Integers, Sequences, FiniteSets

CONSTANTS
  Senders,      \* threads in MsOS_SendToQueue
  Receivers,    \* threads in MsOS_RecvFromQueue
  Timed,        \* the threads that wait for a limited time
  Messages,     \* the messages that may be sent, each one at most once
  Oversized,    \* those of them larger than maxSizeOfMsg
  MaxNumOfMsgs, \* maxNumOfMsgs
  NoNode, NoMsg

Nodes == 1 .. MaxNumOfMsgs

ASSUME MsOSQueueAssumption ==
  /\ MaxNumOfMsgs \in Nat \ {0}
  /\ NoNode \notin Nodes
  /\ NoMsg \notin Messages
  /\ Oversized \subseteq Messages
  /\ IsFiniteSet(Senders) /\ IsFiniteSet(Receivers)
  /\ Senders \cap Receivers = {}

VARIABLES
  free,         \* the list from pFreeHead
  used,         \* the list from pUsedHead
  msg,          \* what each node holds
  sendSem,      \* count of sendSemaphore
  recvSem,      \* count of recvSemaphore
  pc,           \* where each thread is
  node,         \* the node each thread owns
  out,          \* the message each sender is sending
  leaked,       \* history: claims given back without releasing sendSemaphore
  sent,         \* history: messages linked into the used list, in order
  received      \* history: messages unlinked from it, in order

vars == <<free, used, msg, sendSem, recvSem, pc, node, out, leaked, sent, received>>

Threads == Senders \cup Receivers
SenderStates   == {"idle", "obtain", "claim", "fill", "return", "link", "signal"}
ReceiverStates == {"idle", "unlink", "copy", "signal"}

TypeOK ==
  /\ free \in Seq(Nodes)
  /\ used \in Seq(Nodes)
  /\ msg \in [Nodes -> Messages \cup {NoMsg}]
  /\ sendSem \in Nat
  /\ recvSem \in Nat
  /\ pc \in [Threads -> SenderStates \cup ReceiverStates]
  /\ \A s \in Senders : pc[s] \in SenderStates
  /\ \A r \in Receivers : pc[r] \in ReceiverStates
  /\ node \in [Threads -> Nodes \cup {NoNode}]
  /\ out \in [Senders -> Messages \cup {NoMsg}]
  /\ leaked \in Nat
  /\ sent \in Seq(Messages)
  /\ received \in Seq(Messages)

\* MsOS_CreateQueue
Init ==
  /\ free = [i \in 1 .. MaxNumOfMsgs |-> i]
  /\ used = <<>>
  /\ msg = [n \in Nodes |-> NoMsg]
  /\ sendSem = MaxNumOfMsgs
  /\ recvSem = 0
  /\ pc = [t \in Threads |-> "idle"]
  /\ node = [t \in Threads |-> NoNode]
  /\ out = [s \in Senders |-> NoMsg]
  /\ leaked = 0
  /\ sent = <<>>
  /\ received = <<>>

At(f, S, l) == {t \in S : f[t] = l}

Goto(t, l) == pc' = [pc EXCEPT ![t] = l]

Given == {out[s] : s \in Senders} \cup {sent[i] : i \in DOMAIN sent}

-----------------------------------------------------------------------------
(* MsOS_SendToQueue                                                        *)

Send(s, m) ==
  /\ pc[s] = "idle"
  /\ m \notin Given
  /\ out' = [out EXCEPT ![s] = m]
  /\ Goto(s, "obtain")
  /\ UNCHANGED <<free, used, msg, sendSem, recvSem, node, leaked, sent, received>>

\* QueueClaim: obtain sendSemaphore, or give up after the wait.
ObtainSend(s) ==
  /\ pc[s] = "obtain"
  /\ sendSem > 0
  /\ sendSem' = sendSem - 1
  /\ Goto(s, "claim")
  /\ UNCHANGED <<free, used, msg, recvSem, node, out, leaked, sent, received>>

SendTimeout(s) ==
  /\ s \in Timed
  /\ pc[s] = "obtain"
  /\ sendSem = 0
  /\ out' = [out EXCEPT ![s] = NoMsg]
  /\ Goto(s, "idle")
  /\ UNCHANGED <<free, used, msg, sendSem, recvSem, node, leaked, sent, received>>

\* QueueClaim: unlink the first free node.
Claim(s) ==
  /\ pc[s] = "claim"
  /\ IF free = <<>>
     THEN /\ Goto(s, "idle")
          /\ out' = [out EXCEPT ![s] = NoMsg]
          /\ UNCHANGED <<free, node>>
     ELSE /\ node' = [node EXCEPT ![s] = Head(free)]
          /\ free' = Tail(free)
          /\ Goto(s, "fill")
          /\ UNCHANGED out
  /\ UNCHANGED <<used, msg, sendSem, recvSem, leaked, sent, received>>

\* The message is copied outside the lock, if it fits.
Fill(s) ==
  /\ pc[s] = "fill"
  /\ \/ /\ out[s] \notin Oversized
        /\ msg' = [msg EXCEPT ![node[s]] = out[s]]
        /\ Goto(s, "link")
     \/ /\ out[s] \in Oversized
        /\ Goto(s, "return")
        /\ UNCHANGED msg
  /\ UNCHANGED <<free, used, sendSem, recvSem, node, out, leaked, sent, received>>

\* Mutant: the node is not put back on the free list.
ReturnNodeLost(s) ==
  /\ pc[s] = "return"
  /\ node' = [node EXCEPT ![s] = NoNode]
  /\ leaked' = leaked + 1
  /\ out' = [out EXCEPT ![s] = NoMsg]
  /\ Goto(s, "idle")
  /\ UNCHANGED <<free, used, msg, sendSem, recvSem, sent, received>>

\* An oversized message: the node goes back to the free list but
\* sendSemaphore is not released, so one claim is lost for good.
ReturnNode(s) ==
  /\ pc[s] = "return"
  /\ free' = Append(free, node[s])
  /\ node' = [node EXCEPT ![s] = NoNode]
  /\ leaked' = leaked + 1
  /\ out' = [out EXCEPT ![s] = NoMsg]
  /\ Goto(s, "idle")
  /\ UNCHANGED <<used, msg, sendSem, recvSem, sent, received>>

\* Mutant: the node is put at the head of the used list.
LinkAtHead(s) ==
  /\ pc[s] = "link"
  /\ used' = <<node[s]>> \o used
  /\ sent' = Append(sent, msg[node[s]])
  /\ node' = [node EXCEPT ![s] = NoNode]
  /\ out' = [out EXCEPT ![s] = NoMsg]
  /\ Goto(s, "signal")
  /\ UNCHANGED <<free, msg, sendSem, recvSem, leaked, received>>

\* QueueSend: append to the used list ...
Link(s) ==
  /\ pc[s] = "link"
  /\ used' = Append(used, node[s])
  /\ sent' = Append(sent, msg[node[s]])
  /\ node' = [node EXCEPT ![s] = NoNode]
  /\ out' = [out EXCEPT ![s] = NoMsg]
  /\ Goto(s, "signal")
  /\ UNCHANGED <<free, msg, sendSem, recvSem, leaked, received>>

\* Mutant: recvSemaphore is not released.
SignalRecvForgotten(s) ==
  /\ pc[s] = "signal" /\ s \in Senders
  /\ Goto(s, "idle")
  /\ UNCHANGED <<free, used, msg, sendSem, recvSem, node, out, leaked, sent, received>>

\* ... and release recvSemaphore.
SignalRecv(s) ==
  /\ pc[s] = "signal" /\ s \in Senders
  /\ recvSem' = recvSem + 1
  /\ Goto(s, "idle")
  /\ UNCHANGED <<free, used, msg, sendSem, node, out, leaked, sent, received>>

-----------------------------------------------------------------------------
(* MsOS_RecvFromQueue                                                      *)

\* QueueRecv: obtain recvSemaphore (a receiver that times out is idle again).
ObtainRecv(r) ==
  /\ pc[r] = "idle"
  /\ recvSem > 0
  /\ recvSem' = recvSem - 1
  /\ Goto(r, "unlink")
  /\ UNCHANGED <<free, used, msg, sendSem, node, out, leaked, sent, received>>

\* QueueRecv: unlink the first used node.
Unlink(r) ==
  /\ pc[r] = "unlink"
  /\ IF used = <<>>
     THEN Goto(r, "idle") /\ UNCHANGED <<used, node, received>>
     ELSE /\ node' = [node EXCEPT ![r] = Head(used)]
          /\ used' = Tail(used)
          /\ received' = Append(received, msg[Head(used)])
          /\ Goto(r, "copy")
  /\ UNCHANGED <<free, msg, sendSem, recvSem, out, leaked, sent>>

\* The copy to the caller, then QueueFree: append to the free list ...
FreeNode(r) ==
  /\ pc[r] = "copy"
  /\ free' = Append(free, node[r])
  /\ node' = [node EXCEPT ![r] = NoNode]
  /\ Goto(r, "signal")
  /\ UNCHANGED <<used, msg, sendSem, recvSem, out, leaked, sent, received>>

\* Mutant: sendSemaphore is not released.
SignalSendForgotten(r) ==
  /\ pc[r] = "signal" /\ r \in Receivers
  /\ Goto(r, "idle")
  /\ UNCHANGED <<free, used, msg, sendSem, recvSem, node, out, leaked, sent, received>>

\* ... and release sendSemaphore.
SignalSend(r) ==
  /\ pc[r] = "signal" /\ r \in Receivers
  /\ sendSem' = sendSem + 1
  /\ Goto(r, "idle")
  /\ UNCHANGED <<free, used, msg, recvSem, node, out, leaked, sent, received>>

-----------------------------------------------------------------------------
InSend(s) ==
  \/ ObtainSend(s) \/ SendTimeout(s) \/ Claim(s) \/ Fill(s) \/ ReturnNode(s)
  \/ Link(s) \/ SignalRecv(s)

InRecv(r) == ObtainRecv(r) \/ Unlink(r) \/ FreeNode(r) \/ SignalSend(r)

Next ==
  \/ \E s \in Senders : InSend(s) \/ \E m \in Messages : Send(s, m)
  \/ \E r \in Receivers : InRecv(r)

Spec == Init /\ [][Next]_vars

(* Threads keep running and a receiver asks again for messages, as the      *)
(* loops of ApartmentThread and EventTask do.  sem_wait promises no order    *)
(* among its waiters, so nothing stronger is assumed.                       *)
Fairness ==
  /\ \A s \in Senders : WF_vars(InSend(s))
  /\ \A r \in Receivers : WF_vars(InRecv(r))

FairSpec == Spec /\ Fairness

-----------------------------------------------------------------------------
Elements(q) == {q[i] : i \in DOMAIN q}

(* The semaphores count the lists, up to the threads caught between a      *)
(* semaphore and its list and the claims an oversized message has lost.    *)
Accounting ==
  /\ Len(free) = sendSem + Cardinality(At(pc, Senders, "claim"))
                         + Cardinality(At(pc, Receivers, "signal")) + leaked
  /\ Len(used) =
       recvSem + Cardinality(At(pc, Receivers, "unlink"))
               + Cardinality(At(pc, Senders, "signal"))

(* A thread that got its semaphore finds a node: QueueClaim and QueueRecv  *)
(* never return a null node after the semaphore was obtained.              *)
PermitMeansNode ==
  /\ At(pc, Senders, "claim") # {} => free # <<>>
  /\ At(pc, Receivers, "unlink") # {} => used # <<>>

(* Every node is in one place only, the free list, the used list or the    *)
(* hands of one thread, so no message is overwritten while it is queued or *)
(* read, and no node is lost.                                              *)
NodeConservation ==
  LET owned == {node[t] : t \in Threads} \ {NoNode} IN
  /\ \A t, u \in Threads : t # u /\ node[t] = node[u] => node[t] = NoNode
  /\ \A i, k \in DOMAIN free : free[i] = free[k] => i = k
  /\ \A i, k \in DOMAIN used : used[i] = used[k] => i = k
  /\ Elements(free) \cap Elements(used) = {}
  /\ owned \cap (Elements(free) \cup Elements(used)) = {}
  /\ owned \cup Elements(free) \cup Elements(used) = Nodes

Contents(q) == [i \in DOMAIN q |-> msg[q[i]]]

(* Claims are not lost: while the receivers keep receiving, a sender that  *)
(* waits for ever gets through once the other senders pause, unless        *)
(* oversized messages have eaten every claim of the queue.                 *)
SendersProgress ==
  \A s \in Senders : pc[s] = "obtain" ~> pc[s] = "idle" \/ leaked = MaxNumOfMsgs

(* Every message that was linked is received.                              *)
SentIsReceived ==
  \A m \in Messages : m \in Elements(sent) ~> m \in Elements(received)

Channel == INSTANCE MsgChannel WITH
  chan <- Contents(used), Capacity <- MaxNumOfMsgs

(* The queue implements the bounded channel.                               *)
ImplementsChannel == Channel!Spec

=============================================================================
