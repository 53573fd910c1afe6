------------------------------ MODULE RtpBucket ------------------------------
(***************************************************************************)
(* The three send queues of src/src/pro/pro_rtp/rtp_bucket.cpp, as pure    *)
(* operators on a bucket record: CRtpBucket (FIFO refusing packets at the  *)
(* redline), CRtpAudioBucket (FIFO evicting the oldest packets at the      *)
(* redline) and CRtpVideoBucket (frames gathered in their own CRtpBucket,  *)
(* resynchronised on key frames).  Each operator returns the bucket after  *)
(* the call; a call that also returns a value gives [b |-> .., ok |-> ..]. *)
(* RtpOutput composes them into the send path of CRtpSessionWrapper.       *)
(*                                                                         *)
(* Bytes are counted in abstract units (see the README).  m_flowStat only  *)
(* feeds statistics, and m_nextSeq/m_ssrc only the checks disabled by      *)
(* "if (0)"; both are left out.                                            *)
(***************************************************************************)
EXTENDS Naturals, Sequences, SequencesExt

CONSTANTS
  BaseRedlineBytes,   \* BASE_REDLINE_BYTES
  AudioRedlineBytes,  \* AUDIO_REDLINE_BYTES
  VideoRedlineBytes,  \* VIDEO_REDLINE_BYTES
  VideoRedlineFrames, \* VIDEO_REDLINE_FRAMES
  MaxFrameBytes,      \* MAX_FRAME_BYTES
  NoFrame             \* model value: a NULL RTP_VIDEO_FRAME pointer

(* The payload bytes of a sequence of packets. *)
Bytes(s) == FoldLeft(LAMBDA acc, p : acc + p.size, 0, s)

-----------------------------------------------------------------------------
(* CRtpBucket and CRtpAudioBucket: m_packets, m_totalBytes, m_redlineBytes *)

(* CRtpBucket::CRtpBucket *)
NewBaseBucket ==
  [packets |-> <<>>, totalBytes |-> 0, redlineBytes |-> BaseRedlineBytes]

(* CRtpAudioBucket::CRtpAudioBucket *)
NewAudioBucket == [NewBaseBucket EXCEPT !.redlineBytes = AudioRedlineBytes]

(* CRtpBucket::SetRedline, also CRtpAudioBucket's: a 0 keeps the current  *)
(* value, and the frame redline is accepted and ignored.  Nothing is       *)
(* evicted or refused until the next push.                                 *)
BaseSetRedline(bk, rb, rf) ==
  IF rb > 0 THEN [bk EXCEPT !.redlineBytes = rb] ELSE bk

(* CRtpBucket::GetFront: NULL while m_totalBytes is 0, even when packets   *)
(* of payload size 0 are queued.                                           *)
BaseHasFront(bk) == bk.totalBytes # 0

(* CRtpBucket::PushBackAddRef: refused once m_totalBytes reaches the       *)
(* redline; the packet that crosses it is still accepted.                  *)
BasePushBackAddRef(bk, p) ==
  IF bk.totalBytes >= bk.redlineBytes
  THEN [b |-> bk, ok |-> FALSE]
  ELSE [b |-> [bk EXCEPT !.packets = Append(@, p),
                         !.totalBytes = @ + p.size],
        ok |-> TRUE]

(* CRtpBucket::PopFrontRelease(front), and CRtpAudioBucket's, identical.   *)
BasePopFrontRelease(bk) ==
  IF bk.totalBytes = 0 THEN bk
  ELSE [bk EXCEPT !.packets = Tail(@), !.totalBytes = @ - Head(bk.packets).size]

(* Mutant of BaseReset: m_totalBytes is not cleared. *)
BaseResetKeepBytes(bk) == [bk EXCEPT !.packets = <<>>]

(* CRtpBucket::Reset *)
BaseReset(bk) == [bk EXCEPT !.packets = <<>>, !.totalBytes = 0]

(* The "remove old packets" loop of CRtpAudioBucket::PushBackAddRef.       *)
RECURSIVE EvictOld(_)
EvictOld(bk) ==
  IF bk.totalBytes >= bk.redlineBytes
  THEN EvictOld([bk EXCEPT !.packets = Tail(@),
                           !.totalBytes = @ - Head(bk.packets).size])
  ELSE bk

(* CRtpAudioBucket::PushBackAddRef: evicts from the head until below the   *)
(* redline, then always accepts.                                           *)
AudioPushBackAddRef(bk, p) ==
  LET e == EvictOld(bk) IN
  [b |-> [e EXCEPT !.packets = Append(@, p), !.totalBytes = @ + p.size],
   ok |-> TRUE]

-----------------------------------------------------------------------------
(* CRtpVideoBucket.  A frame is RTP_VIDEO_FRAME: [key, bucket] with bucket *)
(* a CRtpBucket of redline BASE_REDLINE_BYTES.                             *)

(* CRtpVideoBucket::CRtpVideoBucket *)
NewVideoBucket ==
  [frames |-> <<>>, waiting |-> NoFrame, sending |-> NoFrame,
   totalBytes |-> 0, totalFrames |-> 0, needKeyFrame |-> TRUE,
   redlineBytes |-> VideoRedlineBytes, redlineFrames |-> VideoRedlineFrames]

FrameBytes(f) == IF f = NoFrame THEN 0 ELSE f.bucket.totalBytes

FrameCount(f) == IF f = NoFrame THEN 0 ELSE 1

(* Mutant of DiscardWaiting: the frame is dropped without resynchronising. *)
DiscardWaitingNoResync(bk, w, b, n) ==
  [bk EXCEPT !.waiting = NoFrame, !.totalBytes = b - w.bucket.totalBytes,
             !.totalFrames = n - 1, !.needKeyFrame = FALSE]

(* Discarding the waiting frame w (steps 5 and 6 of PushBackAddRef): its   *)
(* bytes, as its own bucket counts them, and the frame leave the totals,   *)
(* and the bucket waits for the next key frame ("===resynchronize===").    *)
DiscardWaiting(bk, w, b, n) ==
  [bk EXCEPT !.waiting = NoFrame, !.totalBytes = b - w.bucket.totalBytes,
             !.totalFrames = n - 1, !.needKeyFrame = TRUE]

(* CRtpVideoBucket::PushBackAddRef.  w is the waiting frame after step 4,  *)
(* which pushes the packet into the frame's own bucket without looking at  *)
(* the result but adds its size to m_totalBytes all the same; b and n are  *)
(* m_totalBytes and m_totalFrames after step 4.  The remaining cases are   *)
(* steps 1 (sync point), 4 (no frame begun), 5 (frame too big, or not      *)
(* complete), 6 (redline) and 7-8 (key frame flushes the queue).           *)
VideoPushBackAddRef(bk, p) ==
  LET sync == ~bk.needKeyFrame \/ (p.key /\ p.first)
      w0 == IF p.first THEN [key |-> p.key, bucket |-> NewBaseBucket]
            ELSE bk.waiting
      b  == (IF p.first THEN bk.totalBytes - FrameBytes(bk.waiting)
                        ELSE bk.totalBytes) + p.size
      n  == IF p.first THEN bk.totalFrames - FrameCount(bk.waiting) + 1
            ELSE bk.totalFrames
      w  == [w0 EXCEPT !.bucket = BasePushBackAddRef(@, p).b]
      queued == [bk EXCEPT !.waiting = NoFrame, !.totalBytes = b,
                           !.totalFrames = n, !.needKeyFrame = FALSE]
  IN
  CASE ~sync ->
         [b |-> bk, ok |-> FALSE]
    [] ~p.first /\ bk.waiting = NoFrame ->
         [b |-> [bk EXCEPT !.needKeyFrame = TRUE], ok |-> FALSE]
    [] ~p.marker /\ w.bucket.totalBytes >= MaxFrameBytes ->
         [b |-> DiscardWaiting(bk, w, b, n), ok |-> FALSE]
    [] ~p.marker ->
         [b |-> [queued EXCEPT !.waiting = w], ok |-> TRUE]
    [] ~w.key /\ b <= bk.redlineBytes /\ n <= bk.redlineFrames ->
         [b |-> [queued EXCEPT !.frames = Append(@, w)], ok |-> TRUE]
    [] ~w.key ->
         [b |-> DiscardWaiting(bk, w, b, n), ok |-> FALSE]
    [] OTHER ->
         [b |-> [queued EXCEPT
                   !.frames = <<w>>,
                   !.totalBytes = @ - FoldLeft(LAMBDA a, f : a + FrameBytes(f),
                                                0, bk.frames),
                   !.totalFrames = @ - Len(bk.frames)],
          ok |-> TRUE]

(* Mutant of VideoGetFront: --m_totalFrames outside the "sending frame     *)
(* present" block.                                                         *)
VideoGetFrontMisplaced(bk) ==
  IF bk.sending # NoFrame /\ BaseHasFront(bk.sending.bucket) THEN bk
  ELSE LET bk1 == [bk EXCEPT !.sending = NoFrame, !.totalFrames = @ - 1] IN
       IF bk1.frames = <<>> THEN bk1
       ELSE [bk1 EXCEPT !.sending = Head(bk1.frames), !.frames = Tail(@)]

(* CRtpVideoBucket::GetFront: a drained sending frame is deleted, and the  *)
(* head of m_frames becomes the sending frame.                             *)
VideoGetFront(bk) ==
  IF bk.sending # NoFrame /\ BaseHasFront(bk.sending.bucket) THEN bk
  ELSE LET bk1 == IF bk.sending = NoFrame THEN bk
                  ELSE [bk EXCEPT !.sending = NoFrame, !.totalFrames = @ - 1]
       IN IF bk1.frames = <<>> THEN bk1
          ELSE [bk1 EXCEPT !.sending = Head(bk1.frames), !.frames = Tail(@)]

(* The packet GetFront returned, if any (a bucket after VideoGetFront). *)
VideoHasFront(bk) == bk.sending # NoFrame /\ BaseHasFront(bk.sending.bucket)

(* Mutant of VideoPopFrontRelease: the drained frame is deleted without    *)
(* --m_totalFrames.                                                        *)
VideoPopFrontReleaseKeepCount(bk) ==
  LET s == BasePopFrontRelease(bk.sending.bucket) IN
  [bk EXCEPT !.totalBytes = @ - Head(bk.sending.bucket.packets).size,
             !.sending = IF BaseHasFront(s) THEN [@ EXCEPT !.bucket = s]
                         ELSE NoFrame]

(* CRtpVideoBucket::PopFrontRelease(front): a drained frame is deleted. *)
VideoPopFrontRelease(bk) ==
  LET s == BasePopFrontRelease(bk.sending.bucket) IN
  [bk EXCEPT !.totalBytes = @ - Head(bk.sending.bucket.packets).size,
             !.sending = IF BaseHasFront(s) THEN [@ EXCEPT !.bucket = s]
                         ELSE NoFrame,
             !.totalFrames = IF BaseHasFront(s) THEN @ ELSE @ - 1]

(* CRtpVideoBucket::SetRedline: each nonzero argument replaces its limit; *)
(* the queued frames are judged against it only when the next frame       *)
(* completes.                                                              *)
VideoSetRedline(bk, rb, rf) ==
  [bk EXCEPT !.redlineBytes = IF rb > 0 THEN rb ELSE @,
             !.redlineFrames = IF rf > 0 THEN rf ELSE @]

(* CRtpVideoBucket::Reset *)
VideoReset(bk) ==
  [bk EXCEPT !.frames = <<>>, !.waiting = NoFrame, !.sending = NoFrame,
             !.totalBytes = 0, !.totalFrames = 0, !.needKeyFrame = TRUE]
=============================================================================
