\* Four messages of three commands, two bad crcs and a disconnection.
SPECIFICATION PackSpec
CONSTANTS
  Cmds = {a, b, c}
  Lasts = {0, 1}
  HeadLen = 2
  Trail = 1
  Sizes = {4}
  MaxSize = 4
  MaxLen = 5
  RecvMax = 2
  Window = 5
  Messages = 4
  Corrupts = 2
  Cuts = 1
  a = a
  b = b
  c = c
INVARIANTS RingHoldsStream RoomWhileInSync AllDelivered UndamagedIntact TornTakesDamage
SYMMETRY Symmetry
CHECK_DEADLOCK FALSE
