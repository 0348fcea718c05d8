----------------------------- MODULE MsgChannel -----------------------------
(***************************************************************************)
(* What a pgos message queue promises: a bounded FIFO channel that neither *)
(* loses nor duplicates nor reorders the messages put into it.             *)
(***************************************************************************)
EXTENDS Naturals, Sequences

CONSTANTS Messages, Capacity

VARIABLES chan, received

cvars == <<chan, received>>

Init == chan = <<>> /\ received = <<>>

Put(m) ==
  /\ Len(chan) < Capacity
  /\ chan' = Append(chan, m)
  /\ UNCHANGED received

Get ==
  /\ chan # <<>>
  /\ chan' = Tail(chan)
  /\ received' = Append(received, Head(chan))

Next == Get \/ \E m \in Messages : Put(m)

Spec == Init /\ [][Next]_cvars

=============================================================================
