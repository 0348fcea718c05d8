----------------------------- MODULE LinkBreak -----------------------------
(***************************************************************************)
(* What a break of the link promises: Link with a history variable that    *)
(* keeps, from the moment the guard begins to close the connections to its *)
(* end, the ones a thread was reading at that moment.                      *)
(***************************************************************************)
EXTENDS Link

VARIABLE blocked

HistoryInit == Init /\ blocked = {}

Read == {t.fd : t \in {u \in {conn, serv} : At(u, "blocked") /\ Live(u.fd)}}

HistoryNext ==
  /\ Next
  /\ blocked' = CASE guard = "idle" /\ guard' = "send" -> Read
                  [] guard' = "idle" -> {}
                  [] OTHER -> blocked

HistorySpec == HistoryInit /\ [][HistoryNext]_<<vars, blocked>>

\* "close all connect." (server_guard, close_all_socket): a connection that a
\* thread was reading when the guard began to break the link is ended when
\* it is done.
AllConnectionsEnd == guard = "end" => \A f \in blocked : ~Live(f)
=============================================================================
