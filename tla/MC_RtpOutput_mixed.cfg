CONSTANTS
  Kinds              <- MCMixedKinds
  BaseRedlineBytes   <- MCBaseRedlineBytes
  AudioRedlineBytes  <- MCAudioRedlineBytes
  VideoRedlineBytes  <- MCVideoRedlineBytes
  VideoRedlineFrames <- MCVideoRedlineFrames
  MaxFrameBytes      <- MCMaxFrameBytes
  Sizes              <- MCMixedSizes
  MaxPackets         <- MCMaxPackets
  SendModes          <- MCAnySend
  Durations          <- MCDurations
  MaxTick            <- MCMaxTick
  RedlineBytesArgs   <- MCMixedRedlineArgs
  RedlineFramesArgs  <- MCNoRedlineArg
  NoFrame            =  NoFrame
SPECIFICATION Spec
CHECK_DEADLOCK FALSE
INVARIANT BytesConservation
INVARIANT TimerDeadline
PROPERTY Drained
PROPERTY ErasureReported
