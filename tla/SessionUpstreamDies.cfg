\* The server dies while the client keeps stdin open.
SPECIFICATION FairSpec
CONSTANTS
  MaxMessages = 1
  PipeCap = 1
PROPERTIES
  ServerDeathEndsShim
\* The session ends.
CHECK_DEADLOCK FALSE
