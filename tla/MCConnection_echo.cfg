\* A kernel that holds more than the server's read buffer.
CONSTANTS
  Scenarios <- EchoOnly
  ReadMax = 4
  WriteMax = 8
  ReceiveRoom = 7
  SendRoom = 8
  Segments = {1, 4}
  MaxPushes = 0
SPECIFICATION FairSpec
CHECK_DEADLOCK FALSE
PROPERTY EchoIsComplete
