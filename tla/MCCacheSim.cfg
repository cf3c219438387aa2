\* Every trace of six accesses to three blocks of one set and one of another.
\* The program stops at the end of the trace.
SPECIFICATION Spec
CONSTANTS
  num_sets    = 2
  num_slots   = 2
  slot_size   = 4
  Addresses   <- Trace
  MaxAccesses = 6
INVARIANTS OneCopy CyclesAccounted
PROPERTY ImplementsPolicy
CHECK_DEADLOCK FALSE
