\* The sender makes up to three requests after its login.
\* Nothing has to happen once the clients have gone or wait for input.
SPECIFICATION FairSpec
CONSTANTS
  UserNames   <- Names
  RoomNames   <- Rooms
  Texts       <- Lengths
  MaxRequests = 4
  Unruly      = {"sender", "receiver"}
  NoRoom      = NoRoom
INVARIANTS InStep RoomsAgree ResultIsTrue
PROPERTIES ListensOn SendReturns WorkerEnds
CHECK_DEADLOCK FALSE
