---------------------------- MODULE MC_RtpOutput ----------------------------
(***************************************************************************)
(* Model-checking instance of RtpOutput.  One byte unit stands for a large *)
(* packet: for the video bucket 512 KiB, so that BASE_REDLINE_BYTES (1     *)
(* MiB) is 2 units and MAX_FRAME_BYTES (about 3 MiB) 6, and a frame's own  *)
(* CRtpBucket refuses packets long before the frame reaches                *)
(* MAX_FRAME_BYTES, as with the real constants.  The session redlines are  *)
(* small enough that a few packets reach them.                             *)
(***************************************************************************)
EXTENDS RtpOutput

MCBaseRedlineBytes   == 2
MCAudioRedlineBytes  == 3
MCVideoRedlineBytes  == 3
MCVideoRedlineFrames == 2
MCMaxFrameBytes      == 6
MCSizes              == {1, 2}
MCMaxPackets         == 4
MCDurations          == {0, 4}
MCMaxTick            == 5
MCVideoKinds         == {"video"}
MCMixedKinds         == {"base", "audio"}
MCDirectSend         == {"direct"}
MCAnySend            == {"direct", "timer"}
MCMixedSizes         == {1}
MCVideoRedlineArgs   == {0, 1}
MCMixedRedlineArgs   == {0, 1, 4}
MCNoRedlineArg       == {0}
=============================================================================
