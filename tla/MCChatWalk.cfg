\* Three receivers join while broadcasts walk over the members: an insert of
\* the third may rotate the tree.  Nothing has to happen once the broadcasts
\* are over and the queues empty.
SPECIFICATION WalkSpec
CONSTANTS
  Senders   = {s1}
  Receivers = {1, 2, 3}
  RoomNames = {red}
  QUEUE_MAX = 2
  SockMax   = 1
  MaxSends  = 2
  MaxJoins  = 1
  Unruly    = {}
  NoName    = NoName
PROPERTY BroadcastReachesAll
CHECK_DEADLOCK FALSE
