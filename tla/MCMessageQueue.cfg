\* Two senders' workers and two dequeuing threads around a queue of two slots.
SPECIFICATION FairSpec
CONSTANTS
  Producers = {p1, p2}
  Consumers = {c1, c2}
  Messages  = {m1, m2}
  QUEUE_MAX = 2
  NoMessage = NoMessage
  NoThread  = NoThread
INVARIANTS NeverPopsEmpty Balanced
PROPERTIES ImplementsFifo EveryMessageTaken FullQueueDrains
