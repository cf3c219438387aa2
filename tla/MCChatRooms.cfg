\* From the first login on: joins that race in the map of rooms.
\* The server may stop: fatal, or a crash in the map, ends the process.
SPECIFICATION Spec
CONSTANTS
  Senders   = {s1, s2}
  Receivers = {1}
  RoomNames = {red, blue}
  QUEUE_MAX = 1
  SockMax   = 1
  MaxSends  = 2
  MaxJoins  = 2
  Unruly    = {s1, 1}
  NoName    = NoName
INVARIANTS RoomIsUnique AnsweredIsMember OnlyOwnRoom AnsweredFirst
SYMMETRY Symmetry
CHECK_DEADLOCK FALSE
