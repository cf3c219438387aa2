\* message.h says that a message may have MAX_LEN characters.
SPECIFICATION FairSpec
CONSTANTS
  UserNames   <- ShortNames
  RoomNames   <- ShortRooms
  Texts       <- LegalTexts
  MaxRequests = 4
  Unruly      = {}
  NoRoom      = NoRoom
INVARIANT OneAnswerEach
CHECK_DEADLOCK FALSE
