-------------------------- MODULE MsOSQueueProofs --------------------------
(***************************************************************************)
(* Theorems of the message queue, for any finite sets of senders and       *)
(* receivers, any messages and any number of nodes.                        *)
(***************************************************************************)
EXTENDS MsOSQueue, SequenceTheorems, FiniteSetTheorems, TLAPS

(* How many threads of S stand at l after one thread has moved.            *)
LEMMA CountMove ==
  ASSUME NEW D, NEW f, f = [d \in D |-> f[d]],
         NEW t \in D, NEW k, NEW l, NEW S, S \subseteq D, IsFiniteSet(S)
  PROVE  LET n == Cardinality(At(f, S, l))
             m == Cardinality(At([f EXCEPT ![t] = k], S, l))
         IN  /\ n \in Nat /\ m \in Nat
             /\ t \in S /\ k = l /\ f[t] # l => m = n + 1
             /\ t \in S /\ k # l /\ f[t] = l => m = n - 1
             /\ t \notin S => m = n
             /\ (k = l) <=> (f[t] = l) => m = n
<1> DEFINE g == [f EXCEPT ![t] = k]
           A == At(f, S, l)
           B == At(g, S, l)
<1>1. A \in SUBSET S /\ B \in SUBSET S
  BY DEF At
<1>2. IsFiniteSet(A) /\ IsFiniteSet(B)
  BY <1>1, FS_Subset
<1>3. Cardinality(A) \in Nat /\ Cardinality(B) \in Nat
  BY <1>2, FS_CardinalityType
<1>4. \A d \in D : g[d] = IF d = t THEN k ELSE f[d]
  OBVIOUS
<1>5. CASE t \in S /\ k = l /\ f[t] # l
  <2>1. B = A \cup {t} /\ t \notin A
    BY <1>4, <1>5 DEF At
  <2>2. Cardinality(B) = Cardinality(A) + 1
    BY <1>2, <2>1, FS_AddElement
  <2> QED BY <1>3, <1>5, <2>2
<1>6. CASE t \in S /\ k # l /\ f[t] = l
  <2>1. B = A \ {t} /\ t \in A
    BY <1>4, <1>6 DEF At
  <2>2. Cardinality(B) = Cardinality(A) - 1
    BY <1>2, <2>1, FS_RemoveElement
  <2> QED BY <1>3, <1>6, <2>2
<1>7. CASE t \notin S \/ ((k = l) <=> (f[t] = l))
  <2>1. B = A
    BY <1>4, <1>7 DEF At
  <2> QED BY <1>3, <1>7, <2>1
<1> QED BY <1>5, <1>6, <1>7

-----------------------------------------------------------------------------
(***************************************************************************)
(* The inductive invariant: the semaphores account for the lists, and each *)
(* thread carries what its program counter says it carries.                *)
(***************************************************************************)
Carrying ==
  /\ \A t \in Threads : pc[t] \in {"fill", "return", "link", "copy"} => node[t] \in Nodes
  /\ \A s \in Senders :
       pc[s] \in {"obtain", "claim", "fill", "return", "link"} => out[s] \in Messages
  /\ \A s \in Senders : pc[s] = "link" => msg[node[s]] \in Messages
  /\ \A i \in DOMAIN used : msg[used[i]] \in Messages

QueueInv == TypeOK /\ Accounting /\ Carrying

(* The four counts of Accounting after thread t has gone to k.             *)
LEMMA CountGoto ==
  ASSUME TypeOK, NEW t \in Threads, NEW k, Goto(t, k),
         NEW l, NEW S, S \in {Senders, Receivers}
  PROVE  LET n == Cardinality(At(pc, S, l))
             m == Cardinality(At(pc', S, l))
         IN  /\ n \in Nat /\ m \in Nat
             /\ t \in S /\ k = l /\ pc[t] # l => m = n + 1
             /\ t \in S /\ k # l /\ pc[t] = l => m = n - 1
             /\ t \notin S => m = n
             /\ (k = l) <=> (pc[t] = l) => m = n
<1>1. pc = [d \in Threads |-> pc[d]]
  BY DEF TypeOK
<1>2. S \subseteq Threads /\ IsFiniteSet(S)
  BY MsOSQueueAssumption DEF Threads
<1>3. pc' = [pc EXCEPT ![t] = k]
  BY DEF Goto
<1> QED BY <1>1, <1>2, <1>3, CountMove

(* The same as a difference.                                               *)
LEMMA CountDelta ==
  ASSUME TypeOK, NEW t \in Threads, NEW k, Goto(t, k),
         NEW l, NEW S, S \in {Senders, Receivers}
  PROVE  LET n == Cardinality(At(pc, S, l))
             m == Cardinality(At(pc, S, l))'
         IN  /\ n \in Nat /\ m \in Nat
             /\ t \in S => m = n + (IF k = l THEN 1 ELSE 0) - (IF pc[t] = l THEN 1 ELSE 0)
             /\ t \notin S => m = n
<1> DEFINE n == Cardinality(At(pc, S, l))
           m == Cardinality(At(pc, S, l))'
<1>1. /\ n \in Nat /\ m \in Nat
      /\ t \in S /\ k = l /\ pc[t] # l => m = n + 1
      /\ t \in S /\ k # l /\ pc[t] = l => m = n - 1
      /\ t \notin S => m = n
      /\ (k = l) <=> (pc[t] = l) => m = n
  BY CountGoto
<1> HIDE DEF n, m
<1>2. /\ n \in Nat /\ m \in Nat
      /\ t \in S => m = n + (IF k = l THEN 1 ELSE 0) - (IF pc[t] = l THEN 1 ELSE 0)
      /\ t \notin S => m = n
  BY <1>1
<1> QED BY <1>2 DEF n, m

LEMMA InitQueueInv == Init => QueueInv
<1> SUFFICES ASSUME Init PROVE QueueInv
  OBVIOUS
<1> USE MsOSQueueAssumption
<1>1. \A i \in 1 .. MaxNumOfMsgs : i \in Nodes
  BY DEF Nodes
<1>2. free \in Seq(Nodes) /\ Len(free) = MaxNumOfMsgs
  BY <1>1 DEF Init
<1>3. TypeOK
  <2>1. used \in Seq(Nodes) /\ sent \in Seq(Messages) /\ received \in Seq(Messages)
    BY EmptySeq DEF Init
  <2>2. /\ pc \in [Threads -> SenderStates \cup ReceiverStates]
        /\ \A s \in Senders : pc[s] \in SenderStates
        /\ \A r \in Receivers : pc[r] \in ReceiverStates
    BY DEF Init, Threads, SenderStates, ReceiverStates
  <2> QED BY <1>2, <2>1, <2>2 DEF Init, TypeOK
<1>4. Accounting
  <2>1. \A S, l : S \subseteq Threads /\ l # "idle" => At(pc, S, l) = {}
    BY DEF Init, At
  <2>2. /\ At(pc, Senders, "claim") = {} /\ At(pc, Receivers, "signal") = {}
        /\ At(pc, Receivers, "unlink") = {} /\ At(pc, Senders, "signal") = {}
    BY <2>1 DEF Threads
  <2>3. /\ Cardinality(At(pc, Senders, "claim")) = 0
        /\ Cardinality(At(pc, Receivers, "signal")) = 0
        /\ Cardinality(At(pc, Receivers, "unlink")) = 0
        /\ Cardinality(At(pc, Senders, "signal")) = 0
    BY <2>2, FS_EmptySet
  <2>4. sendSem = MaxNumOfMsgs /\ recvSem = 0 /\ leaked = 0 /\ Len(used) = 0
    BY DEF Init
  <2> QED BY <1>2, <2>3, <2>4 DEF Accounting
<1>5. Carrying
  <2>1. \A t \in Threads : pc[t] = "idle"
    BY DEF Init
  <2>2. Senders \subseteq Threads
    BY DEF Threads
  <2>3. DOMAIN used = {}
    BY DEF Init
  <2> QED BY <2>1, <2>2, <2>3 DEF Carrying
<1> QED BY <1>3, <1>4, <1>5 DEF QueueInv

(* Program counters and node ownership after a move of t, which carries n.  *)
LEMMA NextType == QueueInv /\ [Next]_vars => TypeOK' /\ Carrying'
<1> SUFFICES ASSUME QueueInv, [Next]_vars PROVE TypeOK' /\ Carrying'
  OBVIOUS
<1> USE MsOSQueueAssumption
<1> USE DEF QueueInv, TypeOK, Carrying, Goto, Threads, SenderStates, ReceiverStates
<1>1. ASSUME NEW s \in Senders, NEW m \in Messages, Send(s, m)
      PROVE  TypeOK' /\ Carrying'
  BY <1>1 DEF Send
<1>2. ASSUME NEW s \in Senders, ObtainSend(s)
      PROVE  TypeOK' /\ Carrying'
  BY <1>2 DEF ObtainSend
<1>3. ASSUME NEW s \in Senders, SendTimeout(s)
      PROVE  TypeOK' /\ Carrying'
  BY <1>3 DEF SendTimeout
<1>4. ASSUME NEW s \in Senders, Claim(s)
      PROVE  TypeOK' /\ Carrying'
  <2>0. UNCHANGED <<used, msg, sendSem, recvSem, leaked, sent, received>>
    BY <1>4 DEF Claim
  <2>1. CASE free = <<>>
    <3>1. /\ pc' = [pc EXCEPT ![s] = "idle"]
          /\ out' = [out EXCEPT ![s] = NoMsg]
          /\ UNCHANGED <<free, node>>
      BY <1>4, <2>1 DEF Claim
    <3>2. TypeOK'
      BY <2>0, <3>1
    <3> QED BY <2>0, <3>1, <3>2
  <2>2. CASE free # <<>>
    <3>1. Head(free) \in Nodes /\ Tail(free) \in Seq(Nodes)
      BY <2>2, HeadTailProperties
    <3>2. /\ pc' = [pc EXCEPT ![s] = "fill"]
          /\ node' = [node EXCEPT ![s] = Head(free)]
          /\ free' = Tail(free)
          /\ UNCHANGED out
      BY <1>4, <2>2 DEF Claim
    <3>3. pc[s] = "claim"
      BY <1>4 DEF Claim
    <3>4. TypeOK'
      BY <2>0, <3>1, <3>2
    <3> QED BY <2>0, <3>1, <3>2, <3>3, <3>4
  <2> QED BY <2>1, <2>2
<1>5. ASSUME NEW s \in Senders, Fill(s)
      PROVE  TypeOK' /\ Carrying'
  <2>0. node[s] \in Nodes /\ out[s] \in Messages
    BY <1>5 DEF Fill
  <2>1. CASE out[s] \notin Oversized /\ Goto(s, "link")
    <3>1. msg' = [msg EXCEPT ![node[s]] = out[s]]
      BY <1>5, <2>1 DEF Fill
    <3>2. msg' \in [Nodes -> Messages \cup {NoMsg}]
      BY <2>0, <3>1
    <3>3. \A n \in Nodes : msg[n] \in Messages => msg'[n] \in Messages
      BY <2>0, <3>1
    <3>4. msg'[node[s]] \in Messages
      BY <2>0, <3>1
    <3>5. TypeOK'
      BY <1>5, <2>1, <3>2 DEF Fill
    <3>6. \A i \in DOMAIN used : used[i] \in Nodes
      OBVIOUS
    <3>7. UNCHANGED <<used, node, out>> /\ pc' = [pc EXCEPT ![s] = "link"]
      BY <1>5, <2>1 DEF Fill
    <3> QED BY <2>0, <3>3, <3>4, <3>5, <3>6, <3>7
  <2>2. CASE out[s] \in Oversized
    BY <1>5, <2>0, <2>2 DEF Fill
  <2> QED BY <1>5, <2>1, <2>2 DEF Fill
<1>6. ASSUME NEW s \in Senders, ReturnNode(s)
      PROVE  TypeOK' /\ Carrying'
  BY <1>6 DEF ReturnNode
<1>7. ASSUME NEW s \in Senders, Link(s)
      PROVE  TypeOK' /\ Carrying'
  <2>0. node[s] \in Nodes /\ msg[node[s]] \in Messages
    BY <1>7 DEF Link
  <2>1. TypeOK'
    BY <1>7, <2>0 DEF Link
  <2>2. \A i \in DOMAIN used' : msg'[used'[i]] \in Messages
    BY <1>7, <2>0 DEF Link
  <2> QED BY <1>7, <2>0, <2>1, <2>2 DEF Link
<1>8. ASSUME NEW s \in Senders, SignalRecv(s)
      PROVE  TypeOK' /\ Carrying'
  BY <1>8 DEF SignalRecv
<1>9. ASSUME NEW r \in Receivers, ObtainRecv(r)
      PROVE  TypeOK' /\ Carrying'
  BY <1>9 DEF ObtainRecv
<1>10. ASSUME NEW r \in Receivers, Unlink(r)
       PROVE  TypeOK' /\ Carrying'
  <2>1. CASE used = <<>>
    BY <1>10, <2>1 DEF Unlink
  <2>2. CASE used # <<>>
    <3>1. /\ Head(used) \in Nodes /\ Tail(used) \in Seq(Nodes)
          /\ Len(Tail(used)) = Len(used) - 1
          /\ \A i \in 1 .. Len(Tail(used)) : Tail(used)[i] = used[i + 1]
          /\ Len(used) \in Nat \ {0}
      BY <2>2, HeadTailProperties, EmptySeq
    <3>2. msg[Head(used)] \in Messages
      BY <2>2
    <3>3. \A i \in DOMAIN Tail(used) : msg[Tail(used)[i]] \in Messages
      BY <3>1
    <3>4. TypeOK'
      <4>1. /\ used' = Tail(used)
            /\ received' = Append(received, msg[Head(used)])
            /\ node' = [node EXCEPT ![r] = Head(used)]
            /\ pc' = [pc EXCEPT ![r] = "copy"]
            /\ UNCHANGED <<free, msg, sendSem, recvSem, out, leaked, sent>>
        BY <1>10, <2>2 DEF Unlink
      <4>2. received' \in Seq(Messages)
        BY <3>2, <4>1
      <4>3. /\ pc' \in [Threads -> SenderStates \cup ReceiverStates]
            /\ \A s \in Senders : pc'[s] \in SenderStates
            /\ \A q \in Receivers : pc'[q] \in ReceiverStates
        BY <4>1
      <4>4. node' \in [Threads -> Nodes \cup {NoNode}]
        BY <3>1, <4>1
      <4> QED BY <3>1, <4>1, <4>2, <4>3, <4>4
    <3>5. \A t \in Threads :
            pc'[t] \in {"fill", "return", "link", "copy"} => node'[t] \in Nodes
      BY <1>10, <2>2, <3>1 DEF Unlink
    <3> QED BY <1>10, <2>2, <3>3, <3>4, <3>5 DEF Unlink
  <2> QED BY <2>1, <2>2
<1>11. ASSUME NEW r \in Receivers, FreeNode(r)
       PROVE  TypeOK' /\ Carrying'
  BY <1>11 DEF FreeNode
<1>12. ASSUME NEW r \in Receivers, SignalSend(r)
       PROVE  TypeOK' /\ Carrying'
  BY <1>12 DEF SignalSend
<1>13. CASE UNCHANGED vars
  BY <1>13 DEF vars
<1> QED
  BY <1>1, <1>2, <1>3, <1>4, <1>5, <1>6, <1>7, <1>8, <1>9, <1>10, <1>11,
     <1>12, <1>13
  DEF Next, InSend, InRecv

LEMMA NextAccounting == QueueInv /\ [Next]_vars => Accounting'
<1> SUFFICES ASSUME QueueInv, [Next]_vars PROVE Accounting'
  OBVIOUS
<1> USE MsOSQueueAssumption
<1> DEFINE claim  == Cardinality(At(pc, Senders, "claim"))
           freed  == Cardinality(At(pc, Receivers, "signal"))
           unlink == Cardinality(At(pc, Receivers, "unlink"))
           linked == Cardinality(At(pc, Senders, "signal"))
<1>0. /\ TypeOK
      /\ Len(free) = sendSem + claim + freed + leaked
      /\ Len(used) = recvSem + unlink + linked
      /\ Len(free) \in Nat /\ Len(used) \in Nat
      /\ sendSem \in Nat /\ recvSem \in Nat /\ leaked \in Nat
  BY DEF QueueInv, Accounting, TypeOK
<1> DEFINE Moved(t, k) ==
      /\ claim \in Nat /\ freed \in Nat /\ unlink \in Nat /\ linked \in Nat
      /\ claim' \in Nat /\ freed' \in Nat /\ unlink' \in Nat /\ linked' \in Nat
      /\ t \in Senders =>
           /\ freed' = freed /\ unlink' = unlink
           /\ claim' = claim + (IF k = "claim" THEN 1 ELSE 0)
                             - (IF pc[t] = "claim" THEN 1 ELSE 0)
           /\ linked' = linked + (IF k = "signal" THEN 1 ELSE 0)
                               - (IF pc[t] = "signal" THEN 1 ELSE 0)
      /\ t \in Receivers =>
           /\ claim' = claim /\ linked' = linked
           /\ freed' = freed + (IF k = "signal" THEN 1 ELSE 0)
                             - (IF pc[t] = "signal" THEN 1 ELSE 0)
           /\ unlink' = unlink + (IF k = "unlink" THEN 1 ELSE 0)
                               - (IF pc[t] = "unlink" THEN 1 ELSE 0)
<1>A. ASSUME NEW t \in Threads, NEW k, Goto(t, k)
      PROVE  Moved(t, k)
  <2>1. t \in Senders => t \notin Receivers
    OBVIOUS
  <2>2. /\ claim \in Nat /\ claim' \in Nat
        /\ t \in Senders =>
             claim' = claim + (IF k = "claim" THEN 1 ELSE 0)
                            - (IF pc[t] = "claim" THEN 1 ELSE 0)
        /\ t \notin Senders => claim' = claim
    BY <1>0, <1>A, CountDelta
  <2>3. /\ linked \in Nat /\ linked' \in Nat
        /\ t \in Senders =>
             linked' = linked + (IF k = "signal" THEN 1 ELSE 0)
                              - (IF pc[t] = "signal" THEN 1 ELSE 0)
        /\ t \notin Senders => linked' = linked
    BY <1>0, <1>A, CountDelta
  <2>4. /\ freed \in Nat /\ freed' \in Nat
        /\ t \in Receivers =>
             freed' = freed + (IF k = "signal" THEN 1 ELSE 0)
                            - (IF pc[t] = "signal" THEN 1 ELSE 0)
        /\ t \notin Receivers => freed' = freed
    BY <1>0, <1>A, CountDelta
  <2>5. /\ unlink \in Nat /\ unlink' \in Nat
        /\ t \in Receivers =>
             unlink' = unlink + (IF k = "unlink" THEN 1 ELSE 0)
                              - (IF pc[t] = "unlink" THEN 1 ELSE 0)
        /\ t \notin Receivers => unlink' = unlink
    BY <1>0, <1>A, CountDelta
  <2> QED BY <2>1, <2>2, <2>3, <2>4, <2>5
<1> HIDE DEF claim, freed, unlink, linked
<1>B. Accounting' <=> /\ Len(free') = sendSem' + claim' + freed' + leaked'
                      /\ Len(used') = recvSem' + unlink' + linked'
  BY DEF Accounting, claim, freed, unlink, linked
<1>1. ASSUME NEW s \in Senders, NEW m \in Messages, Send(s, m)
      PROVE  Accounting'
  <2>1. Moved(s, "obtain")
    BY <1>1, <1>A DEF Send, Threads
  <2> QED BY <1>0, <1>1, <1>B, <2>1 DEF Send
<1>2. ASSUME NEW s \in Senders, ObtainSend(s)
      PROVE  Accounting'
  <2>1. Moved(s, "claim")
    BY <1>2, <1>A DEF ObtainSend, Threads
  <2> QED BY <1>0, <1>2, <1>B, <2>1 DEF ObtainSend
<1>3. ASSUME NEW s \in Senders, SendTimeout(s)
      PROVE  Accounting'
  <2>1. Moved(s, "idle")
    BY <1>3, <1>A DEF SendTimeout, Threads
  <2> QED BY <1>0, <1>3, <1>B, <2>1 DEF SendTimeout
<1>4. ASSUME NEW s \in Senders, Claim(s)
      PROVE  Accounting'
  <2>0. s \in At(pc, Senders, "claim") /\ claim \in Nat /\ claim # 0
    <3>1. s \in At(pc, Senders, "claim")
      BY <1>4 DEF Claim, At
    <3>2. IsFiniteSet(At(pc, Senders, "claim"))
      <4>1. At(pc, Senders, "claim") \in SUBSET Senders
        BY DEF At
      <4> QED BY <4>1, FS_Subset
    <3> QED BY <3>1, <3>2, FS_EmptySet, FS_CardinalityType DEF claim
  <2>1. freed \in Nat
    <3>1. Goto(s, "idle") \/ Goto(s, "fill")
      BY <1>4 DEF Claim
    <3> QED BY <3>1, <1>A DEF Threads
  <2>2. free # <<>>
    BY <1>0, <2>0, <2>1
  <2>3. Moved(s, "fill")
    BY <1>4, <1>A, <2>2 DEF Claim, Threads
  <2>4. free' = Tail(free) /\ Len(Tail(free)) = Len(free) - 1
    BY <1>0, <1>4, <2>2, HeadTailProperties DEF Claim, TypeOK
  <2> QED BY <1>0, <1>4, <1>B, <2>3, <2>4 DEF Claim
<1>5. ASSUME NEW s \in Senders, Fill(s)
      PROVE  Accounting'
  <2>1. Moved(s, "link") \/ Moved(s, "return")
    BY <1>5, <1>A DEF Fill, Threads
  <2> QED BY <1>0, <1>5, <1>B, <2>1 DEF Fill
<1>6. ASSUME NEW s \in Senders, ReturnNode(s)
      PROVE  Accounting'
  <2>1. Moved(s, "idle")
    BY <1>6, <1>A DEF ReturnNode, Threads
  <2>2. node[s] \in Nodes
    BY <1>6 DEF ReturnNode, QueueInv, Carrying, Threads
  <2>3. Len(free') = Len(free) + 1
    <3>1. free' = Append(free, node[s])
      BY <1>6 DEF ReturnNode
    <3> QED BY <1>0, <2>2, <3>1 DEF TypeOK
  <2> QED BY <1>0, <1>6, <1>B, <2>1, <2>3 DEF ReturnNode
<1>7. ASSUME NEW s \in Senders, Link(s)
      PROVE  Accounting'
  <2>1. Moved(s, "signal")
    BY <1>7, <1>A DEF Link, Threads
  <2>2. node[s] \in Nodes
    BY <1>7 DEF Link, QueueInv, Carrying, Threads
  <2>3. Len(used') = Len(used) + 1
    <3>1. used' = Append(used, node[s])
      BY <1>7 DEF Link
    <3> QED BY <1>0, <2>2, <3>1 DEF TypeOK
  <2> QED BY <1>0, <1>7, <1>B, <2>1, <2>3 DEF Link
<1>8. ASSUME NEW s \in Senders, SignalRecv(s)
      PROVE  Accounting'
  <2>1. Moved(s, "idle")
    BY <1>8, <1>A DEF SignalRecv, Threads
  <2> QED BY <1>0, <1>8, <1>B, <2>1 DEF SignalRecv
<1>9. ASSUME NEW r \in Receivers, ObtainRecv(r)
      PROVE  Accounting'
  <2>1. Moved(r, "unlink")
    BY <1>9, <1>A DEF ObtainRecv, Threads
  <2> QED BY <1>0, <1>9, <1>B, <2>1 DEF ObtainRecv
<1>10. ASSUME NEW r \in Receivers, Unlink(r)
       PROVE  Accounting'
  <2>0. unlink \in Nat /\ unlink # 0
    <3>1. r \in At(pc, Receivers, "unlink")
      BY <1>10 DEF Unlink, At
    <3>2. IsFiniteSet(At(pc, Receivers, "unlink"))
      <4>1. At(pc, Receivers, "unlink") \in SUBSET Receivers
        BY DEF At
      <4> QED BY <4>1, FS_Subset
    <3> QED BY <3>1, <3>2, FS_EmptySet, FS_CardinalityType DEF unlink
  <2>1. linked \in Nat
    <3>1. Goto(r, "idle") \/ Goto(r, "copy")
      BY <1>10 DEF Unlink
    <3> QED BY <3>1, <1>A DEF Threads
  <2>2. used # <<>>
    BY <1>0, <2>0, <2>1
  <2>3. Moved(r, "copy")
    BY <1>10, <1>A, <2>2 DEF Unlink, Threads
  <2>4. used' = Tail(used) /\ Len(Tail(used)) = Len(used) - 1
    BY <1>0, <1>10, <2>2, HeadTailProperties DEF Unlink, TypeOK
  <2>5. pc[r] = "unlink" /\ UNCHANGED <<free, sendSem, recvSem, leaked>>
    BY <1>10 DEF Unlink
  <2>6. Len(used') = Len(used) - 1
    BY <2>4
  <2>7. r \in Receivers /\ "copy" \notin {"signal", "unlink"}
    OBVIOUS
  <2>8. /\ claim' = claim /\ linked' = linked
        /\ freed' = freed /\ unlink' = unlink - 1
        /\ claim \in Nat /\ linked \in Nat /\ freed \in Nat /\ unlink \in Nat
    BY <2>3, <2>5, <2>7
  <2> HIDE DEF Moved
  <2> QED BY <1>0, <1>B, <2>5, <2>6, <2>8
<1>11. ASSUME NEW r \in Receivers, FreeNode(r)
       PROVE  Accounting'
  <2>1. Moved(r, "signal")
    BY <1>11, <1>A DEF FreeNode, Threads
  <2>2. node[r] \in Nodes
    BY <1>11 DEF FreeNode, QueueInv, Carrying, Threads
  <2>3. Len(free') = Len(free) + 1
    <3>1. free' = Append(free, node[r])
      BY <1>11 DEF FreeNode
    <3> QED BY <1>0, <2>2, <3>1 DEF TypeOK
  <2>4. pc[r] = "copy" /\ UNCHANGED <<used, sendSem, recvSem, leaked>>
    BY <1>11 DEF FreeNode
  <2> QED BY <1>0, <1>B, <2>1, <2>3, <2>4
<1>12. ASSUME NEW r \in Receivers, SignalSend(r)
       PROVE  Accounting'
  <2>1. Moved(r, "idle")
    BY <1>12, <1>A DEF SignalSend, Threads
  <2> QED BY <1>0, <1>12, <1>B, <2>1 DEF SignalSend
<1>13. CASE UNCHANGED vars
  BY <1>13 DEF vars, QueueInv, Accounting, At
<1> QED
  BY <1>1, <1>2, <1>3, <1>4, <1>5, <1>6, <1>7, <1>8, <1>9, <1>10, <1>11,
     <1>12, <1>13
  DEF Next, InSend, InRecv

LEMMA QueueInvariant == Spec => []QueueInv
<1>1. QueueInv /\ [Next]_vars => QueueInv'
  BY NextType, NextAccounting DEF QueueInv
<1> QED BY <1>1, InitQueueInv, PTL DEF Spec

(* The variables of the queue keep their types.                            *)
THEOREM TypeCorrect == Spec => []TypeOK
<1>1. QueueInv => TypeOK
  BY DEF QueueInv
<1> QED BY <1>1, QueueInvariant, PTL

(* The semaphores count the lists up to the threads in between and to the  *)
(* claims lost by oversized messages.                                      *)
THEOREM SemaphoresCount == Spec => []Accounting
<1>1. QueueInv => Accounting
  BY DEF QueueInv
<1> QED BY <1>1, QueueInvariant, PTL

(* A thread that obtained its semaphore always finds a node.               *)
THEOREM PermitFindsNode == Spec => []PermitMeansNode
<1>1. QueueInv => PermitMeansNode
  <2> SUFFICES ASSUME QueueInv PROVE PermitMeansNode
    OBVIOUS
  <2>1. \A S \in {Senders, Receivers} : \A l :
          /\ Cardinality(At(pc, S, l)) \in Nat
          /\ At(pc, S, l) # {} => Cardinality(At(pc, S, l)) # 0
    <3> SUFFICES ASSUME NEW S \in {Senders, Receivers}, NEW l
                 PROVE  /\ Cardinality(At(pc, S, l)) \in Nat
                        /\ At(pc, S, l) # {} => Cardinality(At(pc, S, l)) # 0
      OBVIOUS
    <3>1. IsFiniteSet(S) /\ At(pc, S, l) \in SUBSET S
      BY MsOSQueueAssumption DEF At
    <3>2. IsFiniteSet(At(pc, S, l))
      BY <3>1, FS_Subset
    <3> QED BY <3>2, FS_CardinalityType, FS_EmptySet
  <2>2. CASE At(pc, Senders, "claim") # {}
    <3>1. Len(free) # 0
      BY <2>1, <2>2 DEF QueueInv, Accounting, TypeOK
    <3> QED
      <4>1. free # <<>>
        BY <3>1
      <4>2. At(pc, Receivers, "unlink") # {} => Len(used) # 0
        BY <2>1 DEF QueueInv, Accounting, TypeOK
      <4> QED BY <4>1, <4>2 DEF PermitMeansNode
  <2>3. CASE At(pc, Senders, "claim") = {}
    <3>1. At(pc, Receivers, "unlink") # {} => Len(used) # 0
      BY <2>1 DEF QueueInv, Accounting, TypeOK
    <3> QED BY <2>3, <3>1 DEF PermitMeansNode
  <2> QED BY <2>2, <2>3
<1> QED BY <1>1, QueueInvariant, PTL

-----------------------------------------------------------------------------
(***************************************************************************)
(* Where the nodes are: NodeConservation for the two lists and the hands.   *)
(***************************************************************************)
Distinct(q) == \A i, k \in DOMAIN q : q[i] = q[k] => i = k
Hands(nd) == {nd[t] : t \in Threads} \ {NoNode}
Conserved(p, q, nd) ==
  /\ \A t, u \in Threads : t # u /\ nd[t] = nd[u] => nd[t] = NoNode
  /\ Distinct(p) /\ Distinct(q)
  /\ Elements(p) \cap Elements(q) = {}
  /\ Hands(nd) \cap (Elements(p) \cup Elements(q)) = {}
  /\ Hands(nd) \cup Elements(p) \cup Elements(q) = Nodes

\* Who is not between a list and a list has nothing in its hands.
HandsFree ==
  \A t \in Threads : pc[t] \notin {"fill", "return", "link", "copy"} => node[t] = NoNode

NodeInv == QueueInv /\ HandsFree /\ Conserved(free, used, node)

LEMMA Headless ==
  ASSUME NEW q \in Seq(Nodes), q # <<>>, Distinct(q)
  PROVE  /\ Distinct(Tail(q))
         /\ Head(q) \in Elements(q) /\ Head(q) \in Nodes
         /\ Elements(Tail(q)) = Elements(q) \ {Head(q)}
<1>1. /\ Tail(q) \in Seq(Nodes) /\ Len(Tail(q)) = Len(q) - 1
      /\ \A i \in 1 .. Len(Tail(q)) : Tail(q)[i] = q[i + 1]
      /\ Head(q) \in Nodes /\ Head(q) = q[1]
      /\ Len(q) \in Nat \ {0} /\ DOMAIN q = 1 .. Len(q)
      /\ DOMAIN Tail(q) = 1 .. Len(Tail(q))
  BY HeadTailProperties, EmptySeq
<1>2. Distinct(Tail(q))
  BY <1>1 DEF Distinct
<1>3. Elements(Tail(q)) \subseteq Elements(q) \ {Head(q)}
  BY <1>1 DEF Elements, Distinct
<1>4. Elements(q) \ {Head(q)} \subseteq Elements(Tail(q))
  <2> SUFFICES ASSUME NEW i \in 1 .. Len(q), q[i] # q[1]
               PROVE  q[i] \in Elements(Tail(q))
    BY <1>1 DEF Elements
  <2>1. i - 1 \in 1 .. Len(Tail(q)) /\ Tail(q)[i - 1] = q[i]
    BY <1>1
  <2> QED BY <1>1, <2>1 DEF Elements
<1>5. Head(q) \in Elements(q)
  BY <1>1 DEF Elements
<1> QED BY <1>1, <1>2, <1>3, <1>4, <1>5

LEMMA Appended ==
  ASSUME NEW q \in Seq(Nodes), NEW n \in Nodes
  PROVE  /\ Elements(Append(q, n)) = Elements(q) \cup {n}
         /\ Distinct(q) /\ n \notin Elements(q) => Distinct(Append(q, n))
<1> DEFINE r == Append(q, n)
<1>1. /\ DOMAIN q = 1 .. Len(q) /\ DOMAIN r = 1 .. Len(q) + 1 /\ Len(q) \in Nat
      /\ \A i \in 1 .. Len(q) : r[i] = q[i]
      /\ r[Len(q) + 1] = n
  BY AppendProperties
<1> HIDE DEF r
<1>2. Elements(r) = Elements(q) \cup {n}
  <2>1. Elements(r) \subseteq Elements(q) \cup {n}
    BY <1>1 DEF Elements
  <2>2. Elements(q) \cup {n} \subseteq Elements(r)
    BY <1>1 DEF Elements
  <2> QED BY <2>1, <2>2
<1>3. ASSUME Distinct(q), n \notin Elements(q) PROVE Distinct(r)
  BY <1>1, <1>3 DEF Distinct, Elements
<1> QED BY <1>2, <1>3 DEF r

LEMMA HandsTaken ==
  ASSUME NEW nd \in [Threads -> Nodes \cup {NoNode}], NEW t \in Threads,
         nd[t] \in Nodes,
         \A u, v \in Threads : u # v /\ nd[u] = nd[v] => nd[u] = NoNode
  PROVE  Hands([nd EXCEPT ![t] = NoNode]) = Hands(nd) \ {nd[t]}
<1>1. NoNode \notin Nodes
  BY MsOSQueueAssumption
<1> QED BY <1>1 DEF Hands

LEMMA Symmetric ==
  ASSUME NEW p, NEW q, NEW nd, Conserved(p, q, nd)
  PROVE  Conserved(q, p, nd)
BY Zenon DEF Conserved

\* The first node of a list goes into free hands.
LEMMA Take ==
  ASSUME NEW p \in Seq(Nodes), NEW q \in Seq(Nodes), p # <<>>,
         NEW nd \in [Threads -> Nodes \cup {NoNode}], NEW t \in Threads,
         nd[t] = NoNode, Conserved(p, q, nd)
  PROVE  Conserved(Tail(p), q, [nd EXCEPT ![t] = Head(p)])
<1> DEFINE me == [nd EXCEPT ![t] = Head(p)]
           h == Head(p)
<1>0. me = [nd EXCEPT ![t] = h]
  OBVIOUS
<1>1. NoNode \notin Nodes
  BY MsOSQueueAssumption
<1>2. /\ Distinct(Tail(p)) /\ h \in Elements(p) /\ h \in Nodes
      /\ Elements(Tail(p)) = Elements(p) \ {h}
  BY Headless DEF Conserved
<1>3. Hands(me) = Hands(nd) \cup {h}
  <2>1. h \in Nodes
    BY <1>2
  <2> HIDE DEF h, me
  <2>2. me[t] = h /\ \A u \in Threads \ {t} : me[u] = nd[u]
    BY <1>0
  <2>3. h # NoNode /\ nd[t] = NoNode
    BY <1>1, <2>1
  <2>4. ASSUME NEW n PROVE n \in Hands(me) <=> n \in Hands(nd) \cup {h}
    BY <2>2, <2>3 DEF Hands
  <2> QED BY <2>4
<1>4. \A u, v \in Threads : u # v /\ me[u] = me[v] => me[u] = NoNode
  <2>1. \A u \in Threads : nd[u] # h
    BY <1>1, <1>2 DEF Conserved, Hands
  <2>2. \A u, v \in Threads : u # v /\ nd[u] = nd[v] => nd[u] = NoNode
    BY Zenon DEF Conserved
  <2> HIDE DEF h, me
  <2>3. me[t] = h /\ \A u \in Threads \ {t} : me[u] = nd[u]
    BY <1>0
  <2> SUFFICES ASSUME NEW u \in Threads, NEW v \in Threads, u # v, me[u] = me[v]
               PROVE  me[u] = NoNode
    OBVIOUS
  <2>4. u # t /\ v # t
    BY <2>1, <2>3
  <2> QED BY <2>2, <2>3, <2>4
<1> HIDE DEF me, h
<1>5. /\ Elements(Tail(p)) \cap Elements(q) = {}
      /\ Hands(me) \cap (Elements(Tail(p)) \cup Elements(q)) = {}
      /\ Hands(me) \cup Elements(Tail(p)) \cup Elements(q) = Nodes
  BY <1>2, <1>3 DEF Conserved
<1>6. Conserved(Tail(p), q, me)
  BY <1>2, <1>4, <1>5 DEF Conserved
<1> QED BY <1>6 DEF me, h

\* What a thread holds goes to the end of a list.
LEMMA Lay ==
  ASSUME NEW p \in Seq(Nodes), NEW q \in Seq(Nodes),
         NEW nd \in [Threads -> Nodes \cup {NoNode}], NEW t \in Threads,
         nd[t] \in Nodes, Conserved(p, q, nd)
  PROVE  Conserved(Append(p, nd[t]), q, [nd EXCEPT ![t] = NoNode])
<1> DEFINE me == [nd EXCEPT ![t] = NoNode]
           n == nd[t]
<1>1. n \in Hands(nd) /\ n \in Nodes
  BY MsOSQueueAssumption DEF Hands
<1>2. /\ Elements(Append(p, n)) = Elements(p) \cup {n}
      /\ Distinct(Append(p, n))
  BY <1>1, Appended DEF Conserved
<1>3. Hands(me) = Hands(nd) \ {n}
  BY HandsTaken DEF Conserved
<1>4. \A u, v \in Threads : u # v /\ me[u] = me[v] => me[u] = NoNode
  BY DEF Conserved
<1> HIDE DEF me, n
<1>5. /\ Elements(Append(p, n)) \cap Elements(q) = {}
      /\ Hands(me) \cap (Elements(Append(p, n)) \cup Elements(q)) = {}
      /\ Hands(me) \cup Elements(Append(p, n)) \cup Elements(q) = Nodes
  BY <1>1, <1>2, <1>3 DEF Conserved
<1>6. Conserved(Append(p, n), q, me)
  BY <1>2, <1>4, <1>5 DEF Conserved
<1> QED BY <1>6 DEF me, n

LEMMA InitNodes == Init => HandsFree /\ Conserved(free, used, node)
<1> SUFFICES ASSUME Init PROVE HandsFree /\ Conserved(free, used, node)
  OBVIOUS
<1>1. /\ free = [i \in 1 .. MaxNumOfMsgs |-> i] /\ used = <<>>
      /\ \A t \in Threads : node[t] = NoNode
  BY DEF Init
<1>2. Elements(free) = Nodes /\ Elements(used) = {} /\ Hands(node) = {}
  BY <1>1 DEF Elements, Hands, Nodes
<1>3. Distinct(free) /\ Distinct(used)
  BY <1>1 DEF Distinct
<1> QED BY <1>1, <1>2, <1>3 DEF HandsFree, Conserved

LEMMA NextNodes ==
  NodeInv /\ [Next]_vars => HandsFree' /\ Conserved(free, used, node)'
<1> SUFFICES ASSUME NodeInv, [Next]_vars
             PROVE  HandsFree' /\ Conserved(free', used', node')
  BY DEF Conserved, Hands, Elements, Distinct
<1>0. /\ free \in Seq(Nodes) /\ used \in Seq(Nodes)
      /\ node \in [Threads -> Nodes \cup {NoNode}]
      /\ pc \in [Threads -> SenderStates \cup ReceiverStates]
      /\ Conserved(free, used, node) /\ HandsFree
      /\ \A t \in Threads : pc[t] \in {"fill", "return", "link", "copy"} => node[t] \in Nodes
  BY DEF NodeInv, QueueInv, TypeOK, Carrying
<1>S. \A s \in Senders : s \in Threads
  BY DEF Threads
<1>R. \A r \in Receivers : r \in Threads
  BY DEF Threads
<1>1. ASSUME NEW s \in Senders, Claim(s)
      PROVE  HandsFree' /\ Conserved(free', used', node')
  <2>1. node[s] = NoNode /\ pc[s] = "claim"
    BY <1>0, <1>1, <1>S DEF Claim, HandsFree
  <2>2. CASE free = <<>>
    BY <1>0, <1>1, <2>1, <2>2, <1>S DEF Claim, Goto, HandsFree
  <2>3. CASE free # <<>>
    <3>1. /\ node' = [node EXCEPT ![s] = Head(free)] /\ free' = Tail(free)
          /\ used' = used /\ pc' = [pc EXCEPT ![s] = "fill"]
      BY <1>1, <2>3 DEF Claim, Goto
    <3>2. Conserved(free', used', node')
      BY <1>0, <1>S, <2>1, <2>3, <3>1, Take
    <3>3. HandsFree'
      BY <1>0, <1>S, <3>1 DEF HandsFree
    <3> QED BY <3>2, <3>3
  <2> QED BY <2>2, <2>3
<1>2. ASSUME NEW s \in Senders, ReturnNode(s)
      PROVE  HandsFree' /\ Conserved(free', used', node')
  <2>1. node[s] \in Nodes
    BY <1>0, <1>2, <1>S DEF ReturnNode
  <2>2. /\ free' = Append(free, node[s]) /\ node' = [node EXCEPT ![s] = NoNode]
        /\ used' = used /\ pc' = [pc EXCEPT ![s] = "idle"]
    BY <1>2 DEF ReturnNode, Goto
  <2>3. Conserved(free', used', node')
    BY <1>0, <1>S, <2>1, <2>2, Lay
  <2> QED BY <1>0, <1>S, <2>2, <2>3 DEF HandsFree
<1>3. ASSUME NEW s \in Senders, Link(s)
      PROVE  HandsFree' /\ Conserved(free', used', node')
  <2>1. node[s] \in Nodes
    BY <1>0, <1>3, <1>S DEF Link
  <2>2. /\ used' = Append(used, node[s]) /\ node' = [node EXCEPT ![s] = NoNode]
        /\ free' = free /\ pc' = [pc EXCEPT ![s] = "signal"]
    BY <1>3 DEF Link, Goto
  <2>3. Conserved(used', free', node')
    BY <1>0, <1>S, <2>1, <2>2, Lay, Symmetric
  <2> QED BY <1>0, <1>S, <2>2, <2>3, Symmetric DEF HandsFree
<1>4. ASSUME NEW r \in Receivers, Unlink(r)
      PROVE  HandsFree' /\ Conserved(free', used', node')
  <2>1. node[r] = NoNode /\ pc[r] = "unlink"
    BY <1>0, <1>4, <1>R DEF Unlink, HandsFree
  <2>2. CASE used = <<>>
    BY <1>0, <1>4, <2>1, <2>2, <1>R DEF Unlink, Goto, HandsFree
  <2>3. CASE used # <<>>
    <3>1. /\ node' = [node EXCEPT ![r] = Head(used)] /\ used' = Tail(used)
          /\ free' = free /\ pc' = [pc EXCEPT ![r] = "copy"]
      BY <1>4, <2>3 DEF Unlink, Goto
    <3>2. Conserved(used', free', node')
      BY <1>0, <1>R, <2>1, <2>3, <3>1, Take, Symmetric
    <3>3. HandsFree'
      BY <1>0, <1>R, <3>1 DEF HandsFree
    <3> QED BY <3>2, <3>3, Symmetric
  <2> QED BY <2>2, <2>3
<1>5. ASSUME NEW r \in Receivers, FreeNode(r)
      PROVE  HandsFree' /\ Conserved(free', used', node')
  <2>1. node[r] \in Nodes
    BY <1>0, <1>5, <1>R DEF FreeNode
  <2>2. /\ free' = Append(free, node[r]) /\ node' = [node EXCEPT ![r] = NoNode]
        /\ used' = used /\ pc' = [pc EXCEPT ![r] = "signal"]
    BY <1>5 DEF FreeNode, Goto
  <2>3. Conserved(free', used', node')
    BY <1>0, <1>R, <2>1, <2>2, Lay
  <2> QED BY <1>0, <1>R, <2>2, <2>3 DEF HandsFree
<1>6. ASSUME NEW s \in Senders, NEW m \in Messages, Send(s, m)
      PROVE  HandsFree' /\ Conserved(free', used', node')
  <2>1. UNCHANGED <<free, used, node>> /\ pc[s] = "idle" /\ Goto(s, "obtain")
    BY <1>6 DEF Send
  <2>2. HandsFree'
    BY <1>0, <1>S, <2>1 DEF HandsFree, Goto
  <2> QED BY <1>0, <2>1, <2>2
<1>7. ASSUME NEW s \in Senders,
             ObtainSend(s) \/ SendTimeout(s) \/ Fill(s) \/ SignalRecv(s)
      PROVE  HandsFree' /\ Conserved(free', used', node')
  <2>1. UNCHANGED <<free, used, node>>
    BY <1>7 DEF ObtainSend, SendTimeout, Fill, SignalRecv
  <2>2. \/ pc[s] = "fill" /\ (Goto(s, "link") \/ Goto(s, "return"))
        \/ /\ pc[s] \notin {"fill", "return", "link", "copy"}
           /\ Goto(s, "claim") \/ Goto(s, "idle")
    BY <1>7 DEF ObtainSend, SendTimeout, Fill, SignalRecv
  <2>3. HandsFree'
    BY <1>0, <1>S, <2>1, <2>2 DEF HandsFree, Goto
  <2> QED BY <1>0, <2>1, <2>3
<1>8. ASSUME NEW r \in Receivers, ObtainRecv(r) \/ SignalSend(r)
      PROVE  HandsFree' /\ Conserved(free', used', node')
  <2>1. UNCHANGED <<free, used, node>>
    BY <1>8 DEF ObtainRecv, SignalSend
  <2>2. /\ pc[r] \notin {"fill", "return", "link", "copy"}
        /\ Goto(r, "unlink") \/ Goto(r, "idle")
    BY <1>8 DEF ObtainRecv, SignalSend
  <2>3. HandsFree'
    BY <1>0, <1>R, <2>1, <2>2 DEF HandsFree, Goto
  <2> QED BY <1>0, <2>1, <2>3
<1>9. CASE UNCHANGED vars
  BY <1>0, <1>9 DEF vars, HandsFree
<1> QED
  BY <1>1, <1>2, <1>3, <1>4, <1>5, <1>6, <1>7, <1>8, <1>9
  DEF Next, InSend, InRecv

LEMMA NodeInvariant == Spec => []NodeInv
<1>1. Init => NodeInv
  BY InitQueueInv, InitNodes DEF NodeInv
<1>2. NodeInv /\ [Next]_vars => NodeInv'
  BY NextType, NextAccounting, NextNodes DEF NodeInv, QueueInv
<1> QED BY <1>1, <1>2, PTL DEF Spec

(* Every node is in one place only, the free list, the used list or the    *)
(* hands of one thread.                                                    *)
THEOREM NodesAreConserved == Spec => []NodeConservation
<1>1. NodeInv => NodeConservation
  BY DEF NodeInv, NodeConservation, Conserved, Hands, Distinct
<1> QED BY <1>1, NodeInvariant, PTL

-----------------------------------------------------------------------------
(***************************************************************************)
(* The queue implements the channel: linking a node is Put, unlinking one  *)
(* is Get, and everything else leaves the messages in the list alone.       *)
(***************************************************************************)
\* A list that lacks a node is shorter than the queue.
LEMMA RoomLeft ==
  ASSUME NEW q \in Seq(Nodes), Distinct(q), NEW n \in Nodes, n \notin Elements(q)
  PROVE  Len(q) < MaxNumOfMsgs
<1> DEFINE r == Append(q, n)
           D == 1 .. Len(q) + 1
<1>1. Len(q) \in Nat /\ MaxNumOfMsgs \in Nat
  BY MsOSQueueAssumption
<1>2. Distinct(r) /\ r \in [D -> Nodes] /\ DOMAIN r = D
  <2>1. Distinct(r)
    BY Appended
  <2>2. r \in Seq(Nodes) /\ Len(r) = Len(q) + 1
    BY AppendProperties
  <2> HIDE DEF r
  <2>3. r \in [1 .. Len(r) -> Nodes]
    BY <2>2
  <2> QED BY <2>1, <2>2, <2>3
<1>3. IsFiniteSet(D) /\ Cardinality(D) = Len(q) + 1
  BY <1>1, FS_Interval
<1>4. IsFiniteSet(Nodes) /\ Cardinality(Nodes) = MaxNumOfMsgs
  BY <1>1, MsOSQueueAssumption, FS_Interval DEF Nodes
<1> HIDE DEF r, D
<1>5. ~(Cardinality(Nodes) < Cardinality(D))
  BY <1>2, <1>3, <1>4, FS_PigeonHole DEF Distinct
<1> QED BY <1>1, <1>3, <1>4, <1>5

LEMMA LinkIsPut ==
  ASSUME NodeInv, NEW s \in Senders, Link(s)
  PROVE  \E m \in Messages : Channel!Put(m)
<1>1. /\ used \in Seq(Nodes) /\ Distinct(used) /\ node[s] \in Nodes
      /\ msg[node[s]] \in Messages
  BY DEF NodeInv, QueueInv, TypeOK, Carrying, Conserved, Link, Threads
<1>2. node[s] \notin Elements(used)
  BY <1>1, MsOSQueueAssumption DEF NodeInv, Conserved, Hands, Threads
<1>3. /\ used' = Append(used, node[s]) /\ msg' = msg /\ received' = received
  BY DEF Link
<1>4. Contents(used)' = Append(Contents(used), msg[node[s]])
  BY <1>1, <1>3 DEF Contents
<1>5. Len(Contents(used)) < MaxNumOfMsgs
  BY <1>1, <1>2, RoomLeft DEF Contents
<1> QED BY <1>1, <1>3, <1>4, <1>5 DEF Channel!Put

LEMMA UnlinkIsGet ==
  ASSUME NodeInv, NEW r \in Receivers, Unlink(r), used # <<>>
  PROVE  Channel!Get
<1>1. used \in Seq(Nodes)
  BY DEF NodeInv, QueueInv, TypeOK
<1>2. /\ used' = Tail(used) /\ msg' = msg
      /\ received' = Append(received, msg[Head(used)])
  BY DEF Unlink
<1>3. Contents(used) # <<>> /\ Head(Contents(used)) = msg[Head(used)]
  BY <1>1 DEF Contents
<1>4. Contents(used)' = Tail(Contents(used))
  BY <1>1, <1>2, HeadTailProperties DEF Contents
<1> QED BY <1>2, <1>3, <1>4 DEF Channel!Get

LEMMA FillIsHidden ==
  ASSUME NodeInv, NEW s \in Senders, Fill(s)
  PROVE  UNCHANGED <<Contents(used), received>>
<1>1. used' = used /\ received' = received
  BY DEF Fill
<1>2. \A i \in DOMAIN used : used[i] # node[s]
  BY MsOSQueueAssumption
  DEF NodeInv, QueueInv, Carrying, Conserved, Hands, Elements, Fill, Threads
<1>3. msg' = msg \/ msg' = [msg EXCEPT ![node[s]] = out[s]]
  BY DEF Fill
<1>4. \A i \in DOMAIN used : used[i] \in Nodes
  BY DEF NodeInv, QueueInv, TypeOK
<1>5. \A i \in DOMAIN used : msg'[used[i]] = msg[used[i]]
  BY <1>2, <1>3, <1>4 DEF NodeInv, QueueInv, TypeOK
<1> QED BY <1>1, <1>5 DEF Contents

(* Every behaviour of the queue is one of the bounded FIFO channel whose    *)
(* contents are the messages in the used list.                              *)
THEOREM QueueIsChannel == Spec => ImplementsChannel
<1>1. Init => Channel!Init
  BY DEF Init, Channel!Init, Contents
<1>2. NodeInv /\ [Next]_vars => [Channel!Next]_Channel!cvars
  <2> SUFFICES ASSUME NodeInv, [Next]_vars
               PROVE  Channel!Next \/ UNCHANGED <<Contents(used), received>>
    BY DEF Channel!cvars
  <2>1. ASSUME NEW s \in Senders, Link(s) PROVE Channel!Next
    BY <2>1, LinkIsPut DEF Channel!Next
  <2>2. ASSUME NEW r \in Receivers, Unlink(r)
        PROVE  Channel!Next \/ UNCHANGED <<Contents(used), received>>
    <3>1. CASE used = <<>>
      BY <2>2, <3>1 DEF Unlink, Contents
    <3>2. CASE used # <<>>
      BY <2>2, <3>2, UnlinkIsGet DEF Channel!Next
    <3> QED BY <3>1, <3>2
  <2>3. ASSUME NEW s \in Senders, Fill(s)
        PROVE  UNCHANGED <<Contents(used), received>>
    BY <2>3, FillIsHidden
  <2>4. ASSUME UNCHANGED <<used, msg, received>>
        PROVE  UNCHANGED <<Contents(used), received>>
    BY <2>4 DEF Contents
  <2>5. ASSUME NEW s \in Senders, NEW m \in Messages, Send(s, m)
        PROVE  UNCHANGED <<used, msg, received>>
    BY <2>5 DEF Send
  <2>6. ASSUME NEW s \in Senders,
               \/ ObtainSend(s) \/ SendTimeout(s) \/ Claim(s) \/ ReturnNode(s)
               \/ SignalRecv(s)
        PROVE  UNCHANGED <<used, msg, received>>
    BY <2>6 DEF ObtainSend, SendTimeout, Claim, ReturnNode, SignalRecv
  <2>7. ASSUME NEW r \in Receivers, ObtainRecv(r) \/ FreeNode(r) \/ SignalSend(r)
        PROVE  UNCHANGED <<used, msg, received>>
    BY <2>7 DEF ObtainRecv, FreeNode, SignalSend
  <2>8. CASE UNCHANGED vars
    BY <2>4, <2>8 DEF vars
  <2> QED
    BY <2>1, <2>2, <2>3, <2>4, <2>5, <2>6, <2>7, <2>8 DEF Next, InSend, InRecv
<1> QED BY <1>1, <1>2, NodeInvariant, PTL DEF Spec, ImplementsChannel, Channel!Spec

=============================================================================
