----------------------------- MODULE Apartment -----------------------------
(***************************************************************************)
(* pgos/MsOS_control.c and the message calls of pgos/MsOS_queue.c: an      *)
(* apartment is one thread that takes messages from a queue and runs a     *)
(* handler on each.  MsOS_PostMessage only queues a message.               *)
(* MsOS_SendMessage is a call: the message carries the address of a local  *)
(* variable of the caller for the result and a semaphore created for this  *)
(* call, and the caller waits on the semaphore, deletes it and returns.    *)
(* The apartment must not use either once the caller has gone on.  The     *)
(* queue is the bounded channel MsOSQueue implements.                      *)
(***************************************************************************)
EXTENDS Naturals, Sequences, FiniteSets

CONSTANTS
  Callers,    \* threads that send or post
  Messages,   \* the messages, each issued at most once
  Blocking,   \* those of them sent with MsOS_SendMessage
  Results,    \* what handlers return
  Reply,      \* the result of the handler for each message
  NoResult,   \* (MS_U32)-1, the initial value of Result
  NoMessage,
  Capacity    \* length of the queue, 100 in MsOS_CreateApartment

ASSUME ApartmentAssumption ==
  /\ Blocking \subseteq Messages
  /\ Reply \in [Messages -> Results]
  /\ NoMessage \notin Messages
  /\ Capacity \in Nat \ {0}

VARIABLES
  pc,        \* each caller: idle, send, wait or delete
  call,      \* the message each caller is issuing
  issued,    \* the messages issued so far
  live,      \* the messages whose frame (Result and semaphore) exists
  sem,       \* the count of the semaphore of each frame
  result,    \* the Result variable of each frame
  chan,      \* the queue
  srv,       \* ApartmentThread: recv, handle, result or release
  cur,       \* its local variable Message
  handled,   \* history: the messages the handler ran on, in order
  returned   \* history: what each call returned

vars == <<pc, call, issued, live, sem, result, chan, srv, cur, handled, returned>>

TypeOK ==
  /\ pc \in [Callers -> {"idle", "send", "wait", "delete"}]
  /\ call \in [Callers -> Messages \cup {NoMessage}]
  /\ issued \subseteq Messages
  /\ live \subseteq Messages
  /\ sem \in [Messages -> Nat]
  /\ result \in [Messages -> Results \cup {NoResult}]
  /\ chan \in Seq(Messages)
  /\ srv \in {"recv", "handle", "result", "release"}
  /\ cur \in Messages \cup {NoMessage}
  /\ handled \in Seq(Messages)
  /\ returned \in [Messages -> Results \cup {NoResult}]

\* MsOS_CreateApartment
Init ==
  /\ pc = [c \in Callers |-> "idle"]
  /\ call = [c \in Callers |-> NoMessage]
  /\ issued = {}
  /\ live = {}
  /\ sem = [m \in Messages |-> 0]
  /\ result = [m \in Messages |-> NoResult]
  /\ chan = <<>>
  /\ srv = "recv"
  /\ cur = NoMessage
  /\ handled = <<>>
  /\ returned = [m \in Messages |-> NoResult]

-----------------------------------------------------------------------------
\* MsOS_SendMessage builds the message, its result and its semaphore;
\* MsOS_PostMessage only the message.
Issue(c, m) ==
  /\ pc[c] = "idle"
  /\ m \notin issued
  /\ issued' = issued \cup {m}
  /\ pc' = [pc EXCEPT ![c] = "send"]
  /\ call' = [call EXCEPT ![c] = m]
  /\ live' = IF m \in Blocking THEN live \cup {m} ELSE live
  /\ UNCHANGED <<sem, result, chan, srv, cur, handled, returned>>

\* MsOS_SendToQueue with an endless wait.
SendToQueue(c) ==
  /\ pc[c] = "send"
  /\ Len(chan) < Capacity
  /\ chan' = Append(chan, call[c])
  /\ pc' = [pc EXCEPT ![c] = IF call[c] \in Blocking THEN "wait" ELSE "idle"]
  /\ UNCHANGED <<call, issued, live, sem, result, srv, cur, handled, returned>>

\* Mutant: the caller goes on whatever the wait returned.
ObtainUnchecked(c) ==
  /\ pc[c] = "wait"
  /\ sem' = [sem EXCEPT ![call[c]] = @ - 1]
  /\ pc' = [pc EXCEPT ![c] = "delete"]
  /\ UNCHANGED <<call, issued, live, result, chan, srv, cur, handled, returned>>

\* MsOS_ObtainSemaphore(Message.ReturnSemaphore, -1)
Obtain(c) ==
  /\ pc[c] = "wait"
  /\ sem[call[c]] > 0
  /\ sem' = [sem EXCEPT ![call[c]] = @ - 1]
  /\ pc' = [pc EXCEPT ![c] = "delete"]
  /\ UNCHANGED <<call, issued, live, result, chan, srv, cur, handled, returned>>

\* MsOS_DeleteSemaphore, then return Result: the frame is gone.
Return(c) ==
  /\ pc[c] = "delete"
  /\ pc' = [pc EXCEPT ![c] = "idle"]
  /\ live' = live \ {call[c]}
  /\ returned' = [returned EXCEPT ![call[c]] = result[call[c]]]
  /\ UNCHANGED <<call, issued, sem, result, chan, srv, cur, handled>>

-----------------------------------------------------------------------------
(* ApartmentThread                                                         *)

Recv ==
  /\ srv = "recv"
  /\ chan # <<>>
  /\ cur' = Head(chan)
  /\ chan' = Tail(chan)
  /\ srv' = "handle"
  /\ UNCHANGED <<pc, call, issued, live, sem, result, handled, returned>>

Handle ==
  /\ srv = "handle"
  /\ handled' = Append(handled, cur)
  /\ srv' = "result"
  /\ UNCHANGED <<pc, call, issued, live, sem, result, chan, cur, returned>>

\* Mutant: the semaphore is released before the result is stored.
WriteResultLate ==
  /\ srv = "result"
  /\ sem' = IF cur \in Blocking THEN [sem EXCEPT ![cur] = @ + 1] ELSE sem
  /\ srv' = "release"
  /\ UNCHANGED <<pc, call, issued, live, result, chan, cur, handled, returned>>

WriteResult ==
  /\ srv = "result"
  /\ result' = IF cur \in Blocking THEN [result EXCEPT ![cur] = Reply[cur]] ELSE result
  /\ srv' = "release"
  /\ UNCHANGED <<pc, call, issued, live, sem, chan, cur, handled, returned>>

\* Mutant: the caller is never woken.
ReleaseForgotten ==
  /\ srv = "release"
  /\ srv' = "recv"
  /\ UNCHANGED <<pc, call, issued, live, sem, result, chan, cur, handled, returned>>

Release ==
  /\ srv = "release"
  /\ sem' = IF cur \in Blocking THEN [sem EXCEPT ![cur] = @ + 1] ELSE sem
  /\ srv' = "recv"
  /\ UNCHANGED <<pc, call, issued, live, result, chan, cur, handled, returned>>

-----------------------------------------------------------------------------
InCall(c) == SendToQueue(c) \/ Obtain(c) \/ Return(c)

ApartmentThread == Recv \/ Handle \/ WriteResult \/ Release

Next ==
  \/ \E c \in Callers : InCall(c) \/ \E m \in Messages : Issue(c, m)
  \/ ApartmentThread

Spec == Init /\ [][Next]_vars

(* All threads keep running and the handlers return.  Messages are finite,  *)
(* so weak fairness is enough for a sender that waits for room.            *)
FairSpec ==
  /\ Spec
  /\ WF_vars(ApartmentThread)
  /\ \A c \in Callers : WF_vars(InCall(c))

-----------------------------------------------------------------------------
Queued == {chan[i] : i \in DOMAIN chan}

InFlight(m) == m \in Queued \/ (m = cur /\ srv # "recv")

Ran(m) == \E i \in DOMAIN handled : handled[i] = m

(* ApartmentThread stores the result and releases the semaphore only while *)
(* the caller's frame exists, so it never writes to a stack that is gone   *)
(* or posts a semaphore that was freed.                                    *)
NoDeadFrame ==
  srv # "recv" /\ cur \in Blocking => cur \in live

(* A caller that has its semaphore finds the result of its own message,    *)
(* not the initial -1 and not that of another call.                        *)
OwnResult ==
  \A c \in Callers : pc[c] = "delete" => result[call[c]] = Reply[call[c]]

(* A call returns only after its handler ended, and by then no copy of its *)
(* message is left: a buffer the message points to may be freed (the box   *)
(* firmware of clirecvcmd5srv.c:723).                                      *)
FreeAfterCall ==
  \A m \in Blocking : m \in issued /\ m \notin live =>
    Ran(m) /\ ~InFlight(m)

(* Every MsOS_SendMessage returns.                                         *)
CallsReturn ==
  \A c \in Callers : pc[c] \in {"send", "wait"} ~> pc[c] = "idle"

=============================================================================
