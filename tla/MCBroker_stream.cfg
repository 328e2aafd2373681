SPECIFICATION FairSpec
CONSTANTS
  Streams = {c1, c2}
  BufferSize = 1
  MaxEvents = 3
INVARIANTS
  BrokerInv
  NoSendOnClosed
  Accounted
PROPERTIES
  ImplementsStream
  FanOutEnds
  LockIsGranted
  BufferedIsWritten
