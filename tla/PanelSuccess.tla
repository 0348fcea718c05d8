--------------------------- MODULE PanelSuccess ----------------------------
(***************************************************************************)
(* What the success of a switch-on promises: PanelPower with a history     *)
(* variable that remembers a call which announced it.                      *)
(***************************************************************************)
EXTENDS MCPanelPower

VARIABLE lied

HistoryInit == Init /\ lied = FALSE

Announces(t) == pc[t] = "success" /\ pc'[t] = "out"

HistoryNext ==
  /\ Next
  /\ lied' = (lied \/ \E t \in Callers : Announces(t) /\ ~switched[t])

HistorySpec == HistoryInit /\ [][HistoryNext]_<<vars, lied>>

\* "Power on succeeded" (clipg.c) is announced only by a call that switched
\* the panel on.
SuccessMeansOn == ~lied
=============================================================================
