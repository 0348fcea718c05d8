-------------------------------- MODULE Link --------------------------------
(***************************************************************************)
(* The two TCP connections between the panel and the PC (client.c): the    *)
(* one client_connect opens once a multicast names the PC, kept in send_fd *)
(* and used by the heartbeat timer, and the one server_start accepts, kept *)
(* in client_socket.  server_guard breaks both when no multicast came for  *)
(* a while.  Only the guard and client_mutilcast share the mutex m: the    *)
(* two descriptors and the address are read and written by all threads     *)
(* without it.                                                             *)
(***************************************************************************)
EXTENDS Integers

CONSTANTS
  MaxFd,    \* bound: descriptors are 1 .. MaxFd (0 is the standard input)
  Limit,    \* seconds without a multicast that break the link (5)
  Leaves    \* bound: times the PC leaves

ASSUME LinkAssumption ==
  MaxFd \in Nat \ {0} /\ Limit \in Nat \ {0} /\ Leaves \in Nat

VARIABLES
  fds,            \* per descriptor: state of the connection and who opened it
  send_fd, client_socket,
  ip,             \* s_server_ipaddr is set
  link_on, time_alive_timeout,
  conn, serv,     \* client_connect, server_start: place and descriptor in use
  heart,          \* the heartbeat callback: place and descriptor passed to send
  guard,          \* place of server_guard; it holds m unless it is "idle"
  pcUp,           \* the PC runs and multicasts
  pending,        \* connection of the PC that waits to be accepted
  leaves,         \* times the PC left
  forgotten       \* open descriptors that guard or heartbeat overwrote

shared == <<fds, send_fd, client_socket, ip>>
pcVars == <<pcUp, pending, leaves>>
linkVars == <<link_on, time_alive_timeout>>
threads == <<conn, serv, heart, guard>>
vars == <<shared, linkVars, threads, pcVars, forgotten>>

Fds == 1 .. MaxFd
None == -1
States == {"free", "up", "dead", "unacked", "closed", "shut"}
Free == [st |-> "free", by |-> "none"]
OpenAs(n) == {f \in Fds : f = n /\ fds[f].st # "free"}
Live(f) == f \in Fds /\ fds[f].st \in {"up", "dead", "unacked"}
FreeFds == {f \in Fds : fds[f].st = "free"}
Lowest == CHOOSE f \in FreeFds : \A g \in FreeFds : f <= g
At(t, place) == t.at = place
To(place, f) == [at |-> place, fd |-> f]

\* shutdown(fd) and close(fd): nothing happens to a number that is no socket.
Shutdown(f) ==
  fds' = IF f \in Fds /\ fds[f].st # "free"
           THEN [fds EXCEPT ![f].st = "shut"] ELSE fds
Close(f) == fds' = IF f \in Fds THEN [fds EXCEPT ![f] = Free] ELSE fds

\* Mutant: a return value of 0 is not taken for the end of the connection.
RecvFailsNegative(f) == f \notin Fds

\* recv returns no data: a bad descriptor, the end of the stream, an error.
RecvFails(f) == ~Live(f)

Init ==
  /\ fds = [f \in Fds |-> Free]
  /\ send_fd = 0 /\ client_socket = 0 /\ ip = FALSE
  /\ link_on = 0 /\ time_alive_timeout = 0
  /\ conn = To("wait", None) /\ serv = To("accept", None)
  /\ heart = To("idle", None) /\ guard = "idle"
  /\ pcUp = TRUE /\ pending = "no" /\ leaves = 0
  /\ forgotten = {}

-----------------------------------------------------------------------------
(* client_connect. *)

ConnWait ==
  /\ At(conn, "wait") /\ ip
  /\ conn' = To("dial", None)
  /\ UNCHANGED <<shared, linkVars, serv, heart, guard, pcVars, forgotten>>

\* xconnect, whose result goes to send_fd in any case.
ConnDial ==
  /\ At(conn, "dial")
  /\ \/ /\ send_fd' = None
        /\ conn' = To("wait", None)
        /\ UNCHANGED fds
     \/ /\ pcUp /\ FreeFds # {}
        /\ fds' = [fds EXCEPT ![Lowest] = [st |-> "up", by |-> "conn"]]
        /\ send_fd' = Lowest
        /\ conn' = To("recv", None)
  /\ UNCHANGED <<client_socket, ip, linkVars, serv, heart, guard, pcVars, forgotten>>

\* recv reads send_fd once, and blocks on that descriptor.
ConnRecv ==
  /\ At(conn, "recv")
  /\ conn' = To("blocked", send_fd)
  /\ UNCHANGED <<shared, linkVars, serv, heart, guard, pcVars, forgotten>>

ConnData ==
  /\ At(conn, "blocked") /\ Live(conn.fd) /\ fds[conn.fd].st = "up"
  /\ conn' = To("recv", None)
  /\ UNCHANGED <<shared, linkVars, serv, heart, guard, pcVars, forgotten>>

ConnEnd ==
  /\ At(conn, "blocked") /\ RecvFails(conn.fd)
  /\ IF send_fd # None
       THEN conn' = To("close", None) /\ UNCHANGED ip
       ELSE conn' = To("wait", None) /\ ip' = FALSE
  /\ UNCHANGED <<fds, send_fd, client_socket, linkVars, serv, heart, guard, pcVars, forgotten>>

\* Mutant: as close_all_socket does it, shutdown instead of close.
ConnCloseShut ==
  /\ At(conn, "close")
  /\ Shutdown(send_fd)
  /\ conn' = To("forget", None)
  /\ UNCHANGED <<send_fd, client_socket, ip, linkVars, serv, heart, guard, pcVars, forgotten>>

ConnClose ==
  /\ At(conn, "close")
  /\ Close(send_fd)
  /\ forgotten' = forgotten \ {send_fd}
  /\ conn' = To("forget", None)
  /\ UNCHANGED <<send_fd, client_socket, ip, linkVars, serv, heart, guard, pcVars>>

ConnForget ==
  /\ At(conn, "forget")
  /\ send_fd' = None
  /\ ip' = FALSE
  /\ conn' = To("wait", None)
  /\ UNCHANGED <<fds, client_socket, linkVars, serv, heart, guard, pcVars, forgotten>>

Connect == ConnWait \/ ConnDial \/ ConnRecv \/ ConnEnd \/ ConnClose \/ ConnForget

-----------------------------------------------------------------------------
(* server_start.  Its messages are left out: they do not touch the link.    *)

\* accept; without a free descriptor it fails, and recv(-1) after it.
ServAccept ==
  /\ At(serv, "accept") /\ pending # "no"
  /\ IF FreeFds = {}
       THEN client_socket' = None /\ UNCHANGED <<fds, pending>>
       ELSE /\ fds' = [fds EXCEPT ![Lowest] = [st |-> pending, by |-> "serv"]]
            /\ client_socket' = Lowest
            /\ pending' = "no"
  /\ serv' = To("recv", None)
  /\ UNCHANGED <<send_fd, ip, linkVars, conn, heart, guard, pcUp, leaves, forgotten>>

ServRecv ==
  /\ At(serv, "recv")
  /\ serv' = To("blocked", client_socket)
  /\ UNCHANGED <<shared, linkVars, conn, heart, guard, pcVars, forgotten>>

ServData ==
  /\ At(serv, "blocked") /\ Live(serv.fd) /\ fds[serv.fd].st = "up"
  /\ serv' = To("recv", None)
  /\ UNCHANGED <<shared, linkVars, conn, heart, guard, pcVars, forgotten>>

ServEnd ==
  /\ At(serv, "blocked") /\ RecvFails(serv.fd)
  /\ serv' = To(IF client_socket # None THEN "close" ELSE "accept", None)
  /\ UNCHANGED <<shared, linkVars, conn, heart, guard, pcVars, forgotten>>

ServClose ==
  /\ At(serv, "close")
  /\ Close(client_socket)
  /\ forgotten' = forgotten \ {client_socket}
  /\ serv' = To("forget", None)
  /\ UNCHANGED <<send_fd, client_socket, ip, linkVars, conn, heart, guard, pcVars>>

ServForget ==
  /\ At(serv, "forget")
  /\ client_socket' = None
  /\ serv' = To("accept", None)
  /\ UNCHANGED <<fds, send_fd, ip, linkVars, conn, heart, guard, pcVars, forgotten>>

Serve == ServAccept \/ ServRecv \/ ServEnd \/ ServClose \/ ServForget

-----------------------------------------------------------------------------
(* client_rebackHeart, once a second on the timer thread. *)

HeartCheck ==
  /\ At(heart, "idle") /\ send_fd # None
  /\ heart' = To("call", None)
  /\ UNCHANGED <<shared, linkVars, conn, serv, guard, pcVars, forgotten>>

\* The argument of sendSocketCmd is read here, the package built, then sent.
HeartCall ==
  /\ At(heart, "call")
  /\ heart' = To("send", send_fd)
  /\ UNCHANGED <<shared, linkVars, conn, serv, guard, pcVars, forgotten>>

\* A package to a PC that is gone is buffered.
HeartSend ==
  /\ At(heart, "send")
  /\ IF Live(heart.fd)
       THEN /\ fds' = IF fds[heart.fd].st = "dead"
                        THEN [fds EXCEPT ![heart.fd].st = "unacked"] ELSE fds
            /\ heart' = To("idle", None)
       ELSE heart' = To("shutdown", None) /\ UNCHANGED fds
  /\ UNCHANGED <<send_fd, client_socket, ip, linkVars, conn, serv, guard, pcVars, forgotten>>

HeartShutdown ==
  /\ At(heart, "shutdown")
  /\ Shutdown(send_fd)
  /\ heart' = To("forget", None)
  /\ UNCHANGED <<send_fd, client_socket, ip, linkVars, conn, serv, guard, pcVars, forgotten>>

HeartForget ==
  /\ At(heart, "forget")
  /\ forgotten' = forgotten \union OpenAs(send_fd)
  /\ send_fd' = None
  /\ heart' = To("idle", None)
  /\ UNCHANGED <<fds, client_socket, ip, linkVars, conn, serv, guard, pcVars>>

Heartbeat == HeartCheck \/ HeartCall \/ HeartSend \/ HeartShutdown \/ HeartForget

-----------------------------------------------------------------------------
(* server_guard, once a second, and close_all_socket. *)

GuardTick ==
  /\ guard = "idle"
  /\ time_alive_timeout' = IF time_alive_timeout < Limit
                             THEN time_alive_timeout + 1 ELSE time_alive_timeout
  /\ IF time_alive_timeout' >= Limit /\ link_on = 1
       THEN /\ ip' = FALSE
            /\ guard' = "send"
       ELSE UNCHANGED <<ip, guard>>
  /\ UNCHANGED <<fds, send_fd, client_socket, link_on, conn, serv, heart, pcVars, forgotten>>

GuardSend ==
  /\ guard = "send"
  /\ IF send_fd # None
       THEN Shutdown(send_fd) /\ guard' = "send_forget"
       ELSE guard' = "client" /\ UNCHANGED fds
  /\ UNCHANGED <<send_fd, client_socket, ip, linkVars, conn, serv, heart, pcVars, forgotten>>

GuardSendForget ==
  /\ guard = "send_forget"
  /\ forgotten' = forgotten \union OpenAs(send_fd)
  /\ send_fd' = None
  /\ guard' = "client"
  /\ UNCHANGED <<fds, client_socket, ip, linkVars, conn, serv, heart, pcVars>>

GuardClient ==
  /\ guard = "client"
  /\ IF client_socket # None
       THEN Shutdown(client_socket) /\ guard' = "client_forget"
       ELSE guard' = "end" /\ UNCHANGED fds
  /\ UNCHANGED <<send_fd, client_socket, ip, linkVars, conn, serv, heart, pcVars, forgotten>>

GuardClientForget ==
  /\ guard = "client_forget"
  /\ forgotten' = forgotten \union OpenAs(client_socket)
  /\ client_socket' = None
  /\ guard' = "end"
  /\ UNCHANGED <<fds, send_fd, ip, linkVars, conn, serv, heart, pcVars>>

GuardEnd ==
  /\ guard = "end"
  /\ link_on' = 0
  /\ guard' = "idle"
  /\ UNCHANGED <<shared, time_alive_timeout, conn, serv, heart, pcVars, forgotten>>

Guard == GuardTick \/ GuardSend \/ GuardSendForget \/ GuardClient
           \/ GuardClientForget \/ GuardEnd

-----------------------------------------------------------------------------
(* The PC and the network. *)

\* client_mutilcast takes m.
Multicast ==
  /\ pcUp /\ guard = "idle"
  /\ ip' = TRUE /\ link_on' = 1 /\ time_alive_timeout' = 0
  /\ UNCHANGED <<fds, send_fd, client_socket, threads, pcVars, forgotten>>

PcConnects ==
  /\ pcUp /\ pending = "no"
  /\ \A f \in Fds : ~(fds[f].st = "up" /\ fds[f].by = "serv")
  /\ pending' = "up"
  /\ UNCHANGED <<shared, linkVars, threads, pcUp, leaves, forgotten>>

\* The PC leaves, after closing its connections, or vanishes.
PcLeaves(state) ==
  /\ pcUp /\ pcUp' = FALSE
  /\ leaves < Leaves /\ leaves' = leaves + 1
  /\ fds' = [f \in Fds |-> IF fds[f].st = "up" THEN [fds[f] EXCEPT !.st = state]
                                               ELSE fds[f]]
  /\ pending' = IF pending = "up" THEN state ELSE pending
  /\ UNCHANGED <<send_fd, client_socket, ip, linkVars, threads, forgotten>>
PcReturns ==
  /\ ~pcUp /\ pcUp' = TRUE
  /\ UNCHANGED <<shared, linkVars, threads, pending, leaves, forgotten>>

\* TCP gives up on data that nobody acknowledges, or is told to by the PC
\* that came back.
Abort ==
  /\ \E f \in Fds : /\ fds[f].st = "unacked"
                    /\ fds' = [fds EXCEPT ![f].st = "closed"]
  /\ UNCHANGED <<send_fd, client_socket, ip, linkVars, threads, pcVars, forgotten>>

Next == \/ Connect \/ ConnData \/ Serve \/ ServData \/ Heartbeat \/ Guard
        \/ Multicast \/ PcConnects \/ PcLeaves("dead") \/ PcLeaves("closed") \/ PcReturns \/ Abort
Spec == Init /\ [][Next]_vars

\* Every thread runs; the heartbeat and the guard come round every second.
FairSpec == Spec /\ WF_vars(Connect) /\ WF_vars(Serve) /\ WF_vars(Heartbeat)
                 /\ WF_vars(Guard) /\ WF_vars(Abort)

-----------------------------------------------------------------------------
TypeOK ==
  /\ fds \in [Fds -> [st : States, by : {"none", "conn", "serv"}]]
  /\ {send_fd, client_socket} \subseteq Fds \union {0, None}
  /\ ip \in BOOLEAN /\ link_on \in {0, 1} /\ time_alive_timeout \in 0 .. Limit
  /\ {conn.fd, serv.fd, heart.fd} \subseteq Fds \union {0, None}
  /\ conn.at \in {"wait", "dial", "recv", "blocked", "close", "forget"}
  /\ serv.at \in {"accept", "recv", "blocked", "close", "forget"}
  /\ heart.at \in {"idle", "call", "send", "shutdown", "forget"}
  /\ guard \in {"idle", "send", "send_forget", "client", "client_forget", "end"}
  /\ pcUp \in BOOLEAN /\ pending \in {"no", "up", "dead", "closed"}
  /\ leaves \in 0 .. Leaves /\ forgotten \subseteq Fds

\* Open descriptors that no variable and no thread knows any more.
Orphans == {f \in Fds : fds[f].st # "free"} \ {send_fd, client_socket, conn.fd, serv.fd}

\* Every descriptor that leaks was overwritten by the guard or by a failed
\* heartbeat: whatever the threads do to each other's descriptors, the
\* connections the PC ends are closed (client_connect, server_start).
OnlyForgottenLeak == Orphans \subseteq forgotten

\* client_connect leaves a connection whose PC vanished, unless a heartbeat
\* or the guard that saw an earlier value of send_fd is about to overwrite
\* it: the heartbeat finds out, or the guard breaks the link.
Watched(f) ==
  /\ At(conn, "blocked") /\ conn.fd = f /\ send_fd = f
  /\ fds[f].st \in {"dead", "unacked"}
  /\ heart.at \notin {"shutdown", "forget"} /\ guard # "send_forget"
WatchedIsLeft == \A f \in Fds : Watched(f) ~> At(conn, "wait")
=============================================================================
