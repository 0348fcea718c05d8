\* Timed and untimed senders, two receivers, two nodes, one message too large.
SPECIFICATION FairSpec
CONSTANTS
  Senders = {s1, s2}
  Receivers = {r1, r2}
  Timed = {s2}
  Messages = {m1, m2, m3, m4}
  Oversized = {m4}
  MaxNumOfMsgs = 2
  NoNode = NoNode
  NoMsg = NoMsg
INVARIANTS
  Accounting
  NodeConservation
PROPERTIES
  SendersProgress
  SentIsReceived
  ImplementsChannel
CHECK_DEADLOCK FALSE
