\* parsort.c says where it merges that the child has completed successfully.
SPECIFICATION Spec
CONSTANTS
  N           = 3
  Values      = {1, 2}
  Threshold   = 1
  MaxFailures = 1
INVARIANT ChildCompleted
