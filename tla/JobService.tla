----------------------------- MODULE JobService -----------------------------
(***************************************************************************)
(* What threadpool/threadpool.c promises to its user: jobs are accepted    *)
(* while the service is open, started in the order of acceptance, each one *)
(* once, and the service stops only when nothing is pending or running.    *)
(***************************************************************************)
EXTENDS Sequences

CONSTANT Jobs

VARIABLES pending, running, finished, phase

svars == <<pending, running, finished, phase>>

Init ==
  /\ pending = <<>>
  /\ running = {}
  /\ finished = {}
  /\ phase = "open"

Accept(j) ==
  /\ phase = "open"
  /\ j \notin running \cup finished
  /\ pending' = Append(pending, j)
  /\ UNCHANGED <<running, finished, phase>>

Start ==
  /\ phase # "stopped"
  /\ pending # <<>>
  /\ pending' = Tail(pending)
  /\ running' = running \cup {Head(pending)}
  /\ UNCHANGED <<finished, phase>>

Finish(j) ==
  /\ phase # "stopped"
  /\ j \in running
  /\ running' = running \ {j}
  /\ finished' = finished \cup {j}
  /\ UNCHANGED <<pending, phase>>

Close ==
  /\ phase = "open"
  /\ phase' = "closing"
  /\ UNCHANGED <<pending, running, finished>>

Stop ==
  /\ phase = "closing"
  /\ pending = <<>>
  /\ running = {}
  /\ phase' = "stopped"
  /\ UNCHANGED <<pending, running, finished>>

Next ==
  \/ \E j \in Jobs : Accept(j) \/ Finish(j)
  \/ Start
  \/ Close
  \/ Stop

Spec == Init /\ [][Next]_svars

=============================================================================
