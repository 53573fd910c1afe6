CONSTANTS
  Kinds              <- MCVideoKinds
  BaseRedlineBytes   <- MCBaseRedlineBytes
  AudioRedlineBytes  <- MCAudioRedlineBytes
  VideoRedlineBytes  <- MCVideoRedlineBytes
  VideoRedlineFrames <- MCVideoRedlineFrames
  MaxFrameBytes      <- MCMaxFrameBytes
  Sizes              <- MCSizes
  MaxPackets         <- MCMaxPackets
  SendModes          <- MCDirectSend
  Durations          <- MCDurations
  MaxTick            <- MCMaxTick
  RedlineBytesArgs   <- MCNoRedlineArg
  RedlineFramesArgs  <- MCNoRedlineArg
  NoFrame            =  NoFrame
SPECIFICATION Spec
CHECK_DEADLOCK FALSE
INVARIANT TypeOK
INVARIANT FramesConservation
PROPERTY KeyFrameChain
PROPERTY Drained
PROPERTY ErasureReported
