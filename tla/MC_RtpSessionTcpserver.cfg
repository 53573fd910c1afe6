SPECIFICATION Spec
CONSTANTS
  Ports <- MCPorts
  LocalPorts <- MCLocalPorts
  BusyPorts <- MCBusyPorts
  Streams <- MCStreams
  MaxTryTimes = 2
  MaxInits = 2
  CanFail = TRUE
INVARIANTS
  TypeOK
  DummyPaired
  SessionOrdering
  FramesInOrder
PROPERTIES
  FramesDrained
CHECK_DEADLOCK FALSE
