\* Two senders in the room of a receiver whose client may hang up.  Nothing
\* has to happen once the broadcasts are over and the queues empty.
SPECIFICATION FairWalkSpec
CONSTANTS
  Senders   = {s1, s2}
  Receivers = {1}
  RoomNames = {red}
  QUEUE_MAX = 2
  SockMax   = 1
  MaxSends  = 4
  MaxJoins  = 1
  Unruly    = {1}
  NoName    = NoName
INVARIANTS SenderOrderKept MembersStay
PROPERTIES SendallAnswered QueuedIsRead
CHECK_DEADLOCK FALSE
