\* Three threads, two calls and two posts through a queue of two messages.
SPECIFICATION FairSpec
CONSTANTS
  m1 = m1  m2 = m2  m3 = m3  m4 = m4
  r1 = r1  r2 = r2
  Callers = {c1, c2, c3}
  Messages = {m1, m2, m3, m4}
  Blocking = {m1, m2}
  Results = {r1, r2}
  Reply <- MCReply
  NoResult = NoResult
  NoMessage = NoMessage
  Capacity = 2
INVARIANTS
  NoDeadFrame
  OwnResult
  FreeAfterCall
PROPERTIES
  CallsReturn
CHECK_DEADLOCK FALSE
