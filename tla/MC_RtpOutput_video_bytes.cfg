CONSTANTS
  Kinds              <- MCVideoKinds
  BaseRedlineBytes   <- MCBaseRedlineBytes
  AudioRedlineBytes  <- MCAudioRedlineBytes
  VideoRedlineBytes  <- MCVideoRedlineBytes
  VideoRedlineFrames <- MCVideoRedlineFrames
  MaxFrameBytes      <- MCMaxFrameBytes
  Sizes              <- MCSizes
  MaxPackets         <- MCMaxPackets
  SendModes          <- MCDirectSend
  Durations          <- MCDurations
  MaxTick            <- MCMaxTick
  RedlineBytesArgs   <- MCVideoRedlineArgs
  RedlineFramesArgs  <- MCVideoRedlineArgs
  NoFrame            =  NoFrame
SPECIFICATION Spec
CHECK_DEADLOCK FALSE
INVARIANT BytesConservation
