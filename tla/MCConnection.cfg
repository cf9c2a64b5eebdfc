\* Buffers that hold a message with a two-digit length, a kernel that holds less
\* than the server can read, and a slow peer.
CONSTANTS
  Scenarios <- AllScenarios
  ReadMax = 13
  WriteMax = 5
  ReceiveRoom = 13
  SendRoom = 2
  Segments = {1, 4}
  MaxPushes = 1
SPECIFICATION FairSpec
CHECK_DEADLOCK FALSE
INVARIANT TypeOK
INVARIANT EchoIsExact
INVARIANT MessagesArriveAsSent
INVARIANT AnswersAreFramed
INVARIANT NothingIsForgotten
INVARIANT ExitsOnlyWhenFull
PROPERTY EchoIsComplete
