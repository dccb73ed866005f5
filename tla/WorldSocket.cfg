SPECIFICATION Spec
CONSTANTS
  MapThreads = {m1}
  BufferSize = 2
  HighWater = 3
  GreetSize = 2
  ReplySize = 1
  Sizes = {2, 3}
  MaxPackets = 3
  HeaderSize = 2
  RecvSize = 3
  Client <- ClientPackets
INVARIANTS
  WireInOrder
  ReferencesHeld
  NoUpdateBeforeBuffer
  NoUseAfterDelete
PROPERTIES
  OutputFlushed
  SocketFreed
CHECK_DEADLOCK FALSE
