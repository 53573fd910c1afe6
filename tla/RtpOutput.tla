------------------------------ MODULE RtpOutput ------------------------------
(***************************************************************************)
(* The output path of CRtpSessionWrapper (rtp_session_wrapper.cpp) over    *)
(* the bucket CreateRtpBucket gives it (RtpBucket), between the           *)
(* application thread that calls SendPacket and the session whose          *)
(* callbacks (OnOkSession, OnSendSession, OnCloseSession) arrive on I/O    *)
(* threads.  Every wrapper method runs under m_lock, so each is one step;  *)
(* the observer upcalls that follow the unlock are part of the same step,  *)
(* since the session serialises its callbacks (spec 5).                    *)
(*                                                                         *)
(* The session below the wrapper (CRtpSessionBase and its transport) is    *)
(* not in this repository's sources and is modelled from spec 4.3-4.4:     *)
(* SendPacket is refused before the handshake completes and while the      *)
(* transport still holds unsent bytes; the transport calls OnSend once it  *)
(* has flushed them, or after RequestOnSend.                               *)
(***************************************************************************)
EXTENDS RtpBucket

CONSTANTS
  Kinds,       \* the classes CreateRtpBucket may pick: "base", "audio", "video"
  Sizes,       \* payload sizes a packet may have
  MaxPackets,  \* bound: number of packets the application sends
  SendModes,   \* how the application sends: "direct" (SendPacket), "timer"
  Durations,   \* the sendDurationMs values it passes
  MaxTick,     \* bound: milliseconds the send timer runs
  RedlineBytesArgs,  \* the redlineBytes values passed to SetOutputRedline
  RedlineFramesArgs  \* the redlineFrames values passed to SetOutputRedline

ASSUME Kinds \subseteq {"base", "audio", "video"}
ASSUME Sizes \subseteq Nat \ {0} /\ MaxPackets \in Nat
ASSUME RedlineBytesArgs \subseteq Nat /\ RedlineFramesArgs \subseteq Nat
ASSUME SendModes \subseteq {"direct", "timer"} /\ Durations \subseteq Nat /\ MaxTick \in Nat

VARIABLES
  kind,          \* the class of *m_bucket
  bucket,        \* *m_bucket
  enableOutput,  \* m_enableOutput
  pushRet1,      \* m_pushToBucketRet1 (m_pushToBucketRet2 is its copy)
  packetErased,  \* m_packetErased
  onOkCalled,    \* m_onOkCalled
  sessState,     \* the session: "connecting", "ok" or "closed" (m_session NULL)
  transBusy,     \* the transport holds bytes not yet flushed
  onSendPending, \* the transport owes the session an OnSend
  \* the application's encoder
  nextId, frameNo, inFrame, frameKey, produced,
  \* the timer-paced send: m_sendTimerId # 0, m_pushPackets,
  \* m_sendDurationMs, m_pushTick, and the tick of the send timer
  sendTimerOn, pushPackets, sendDurationMs, pushTick, now,
  \* history: the last packet handed to the session
  lastOut

wrapperVars  == <<kind, bucket, enableOutput, pushRet1, packetErased, onOkCalled>>
sessionVars  == <<sessState, transBusy, onSendPending>>
producerVars == <<nextId, frameNo, inFrame, frameKey, produced>>
timerVars    == <<sendTimerOn, pushPackets, sendDurationMs, pushTick, now>>
vars         == <<wrapperVars, sessionVars, producerVars, timerVars, lastOut>>

(* A packet: GetKeyFrame, GetFirstPacketOfFrame, GetMarker, GetPayloadSize *)
(* and, to follow it, an id and the number of its frame.                   *)
Packet == [id : Nat, frame : Nat, key : BOOLEAN, first : BOOLEAN,
           marker : BOOLEAN, size : Sizes]

NoPacket == [id |-> 0, frame |-> 0]

-----------------------------------------------------------------------------
(* IRtpBucket, dispatched on the class CreateRtpBucket instantiated. *)

(* CreateRtpBucket *)
CreateRtpBucket ==
  CASE kind = "audio" -> NewAudioBucket
    [] kind = "video" -> NewVideoBucket
    [] OTHER          -> NewBaseBucket

PushBackAddRef(bk, p) ==
  CASE kind = "audio" -> AudioPushBackAddRef(bk, p)
    [] kind = "video" -> VideoPushBackAddRef(bk, p)
    [] OTHER          -> BasePushBackAddRef(bk, p)

GetFront(bk) == IF kind = "video" THEN VideoGetFront(bk) ELSE bk

(* The packet GetFront returned, or NoPacket for NULL. *)
FrontOf(bk) ==
  IF kind = "video"
  THEN IF VideoHasFront(bk) THEN Head(bk.sending.bucket.packets) ELSE NoPacket
  ELSE IF BaseHasFront(bk) THEN Head(bk.packets) ELSE NoPacket

PopFrontRelease(bk) ==
  IF kind = "video" THEN VideoPopFrontRelease(bk) ELSE BasePopFrontRelease(bk)

SetRedline(bk, rb, rf) ==
  IF kind = "video" THEN VideoSetRedline(bk, rb, rf) ELSE BaseSetRedline(bk, rb, rf)

BucketReset(bk) == IF kind = "video" THEN VideoReset(bk) ELSE BaseReset(bk)

(* The packets the bucket holds, and those GetFront can still hand out. *)
FramePackets(f) == IF f = NoFrame THEN <<>> ELSE f.bucket.packets

QueuedPackets(bk) ==
  FlattenSeq([i \in DOMAIN bk.frames |-> bk.frames[i].bucket.packets])

Sendable(bk) ==
  IF kind = "video" THEN FramePackets(bk.sending) \o QueuedPackets(bk)
  ELSE bk.packets

Retained(bk) ==
  IF kind = "video" THEN Sendable(bk) \o FramePackets(bk.waiting)
  ELSE bk.packets

-----------------------------------------------------------------------------
(* The wrapper's output state, as one value that the calls made under      *)
(* m_lock transform in turn: the bucket, the push bookkeeping, and what    *)
(* the session and transport below hold.                                   *)
OutState == [bucket |-> bucket, pushRet1 |-> pushRet1,
             packetErased |-> packetErased, onSendPending |-> onSendPending,
             transBusy |-> transBusy, lastOut |-> lastOut]

SetOut(w) ==
  /\ bucket' = w.bucket /\ pushRet1' = w.pushRet1
  /\ packetErased' = w.packetErased /\ onSendPending' = w.onSendPending
  /\ transBusy' = w.transBusy /\ lastOut' = w.lastOut

(* The session below the wrapper (spec 4.3-4.4). *)

(* IRtpSession::SendPacket *)
SessionAccepts(w) == sessState = "ok" /\ ~w.transBusy

(* The transport flushes its pending bytes and reports it with OnSend. *)
TransportFlush ==
  /\ sessState # "closed" /\ transBusy
  /\ transBusy' = FALSE /\ onSendPending' = TRUE
  /\ UNCHANGED <<kind, bucket, enableOutput, pushRet1, packetErased, onOkCalled,
                 sessState, producerVars, timerVars, lastOut>>

(* The handshake fails or the peer goes away: OnCloseSession sets          *)
(* m_session to NULL, and the observer is told.                            *)
OnCloseSession ==
  /\ sessState # "closed"
  /\ sessState' = "closed"
  /\ UNCHANGED <<wrapperVars, transBusy, onSendPending, producerVars,
                 timerVars, lastOut>>

-----------------------------------------------------------------------------
(* The send attempt that ends both SendPacketUnlock overloads: GetFront,   *)
(* session->SendPacket, and PopFrontRelease when the session took it.      *)
TrySendFront(w) ==
  LET g == GetFront(w.bucket)
      f == FrontOf(g)
      sent == f # NoPacket /\ SessionAccepts(w)
  IN [w EXCEPT !.bucket = IF sent THEN PopFrontRelease(g) ELSE g,
               !.transBusy = @ \/ sent,
               !.lastOut = IF sent THEN f ELSE @]

(* Mutant of SendPacketUnlock: no RequestOnSend on the 1 -> 0 transition. *)
SendPacketUnlockNoRequest(w, p) ==
  LET r == PushBackAddRef(w.bucket, p) IN
  TrySendFront([w EXCEPT !.bucket = r.b, !.pushRet1 = r.ok,
                         !.packetErased = CASE w.pushRet1 /\ ~r.ok -> TRUE
                                            [] ~w.pushRet1 /\ r.ok -> FALSE
                                            [] OTHER -> @])

(* CRtpSessionWrapper::SendPacketUnlock(packet): push, record the 1 -> 0   *)
(* and 0 -> 1 transitions of the push result (RequestOnSend on 1 -> 0),    *)
(* then try to send the front.                                             *)
SendPacketUnlock(w, p) ==
  LET r == PushBackAddRef(w.bucket, p) IN
  TrySendFront([w EXCEPT !.bucket = r.b, !.pushRet1 = r.ok,
                         !.packetErased = CASE w.pushRet1 /\ ~r.ok -> TRUE
                                            [] ~w.pushRet1 /\ r.ok -> FALSE
                                            [] OTHER -> @,
                         !.onSendPending = @ \/ (w.pushRet1 /\ ~r.ok)])

(* The application's encoder: frames of packets, the first flagged         *)
(* firstPacketOfFrame, the last flagged marker, all packets of a key frame *)
(* flagged keyFrame.  The next packet has the given flags and size.        *)
NewPacket(key, marker, size) ==
  [id |-> nextId, frame |-> IF inFrame THEN frameNo ELSE frameNo + 1,
   key |-> IF inFrame THEN frameKey ELSE key, first |-> ~inFrame,
   marker |-> marker, size |-> size]

(* Only the video bucket reads keyFrame and marker; for the others every   *)
(* packet is sent as a non-key frame of its own.                           *)
FrameFlags  == IF kind = "video" THEN BOOLEAN ELSE {FALSE}
MarkerFlags == IF kind = "video" THEN BOOLEAN ELSE {TRUE}

Produced(p) ==
  /\ nextId' = nextId + 1 /\ frameNo' = p.frame /\ frameKey' = p.key
  /\ inFrame' = ~p.marker /\ produced' = Append(produced, p)

(* CRtpSessionWrapper::SendPacket(packet, false), from the application:    *)
(* refused while output is disabled.                                       *)
SendPacket ==
  /\ "direct" \in SendModes
  /\ nextId <= MaxPackets /\ sessState # "closed"
  /\ \E key \in FrameFlags, marker \in MarkerFlags, size \in Sizes :
       LET p == NewPacket(key, marker, size) IN
       /\ Produced(p)
       /\ IF enableOutput THEN SetOut(SendPacketUnlock(OutState, p))
          ELSE UNCHANGED <<bucket, pushRet1, packetErased, sessionVars, lastOut>>
  /\ UNCHANGED <<kind, enableOutput, onOkCalled, sessState, timerVars>>

(* CRtpSessionWrapper::SendPacketByTimer(packet, sendDurationMs,           *)
(* handshaking): refused while output is disabled unless handshaking;      *)
(* otherwise the packet joins m_pushPackets, the 1 ms send timer is        *)
(* scheduled if it is not yet, and the duration and push tick are those    *)
(* of this call, for the whole list.                                       *)
SendPacketByTimer ==
  /\ "timer" \in SendModes
  /\ nextId <= MaxPackets /\ sessState # "closed"
  /\ \E key \in FrameFlags, marker \in MarkerFlags, size \in Sizes,
        d \in Durations, handshaking \in BOOLEAN :
       LET p == NewPacket(key, marker, size) IN
       /\ Produced(p)
       /\ IF ~handshaking /\ ~enableOutput
          THEN UNCHANGED timerVars
          ELSE /\ sendTimerOn' = TRUE
               /\ pushPackets' = Append(pushPackets, p)
               /\ sendDurationMs' = d
               /\ pushTick' = now
               /\ UNCHANGED now
  /\ UNCHANGED <<wrapperVars, sessionVars, lastOut>>

(* Mutant of TimerSendCount: the time left ignores the time elapsed. *)
TimerSendCountNoElapsed(n, tick) ==
  LET d == IF sendDurationMs < 1 THEN 1 ELSE sendDurationMs
      c == (n + d \div 2) \div d
  IN IF c < 1 THEN 1 ELSE c

(* maxSendCount in OnTimer: the n pending packets spread, rounded, over    *)
(* the milliseconds left until m_pushTick + m_sendDurationMs, at least 1.  *)
TimerSendCount(n, tick) ==
  LET left == pushTick + sendDurationMs - tick
      d == IF left < 1 THEN 1 ELSE left
      c == (n + d \div 2) \div d
  IN IF c < 1 THEN 1 ELSE c

(* CRtpSessionWrapper::OnTimer for m_sendTimerId, every millisecond: up to *)
(* maxSendCount packets leave m_pushPackets, each through                  *)
(* SendPacketUnlock(packet).  Nothing happens once m_session is NULL.      *)
OnTimer ==
  /\ sendTimerOn /\ now < MaxTick
  /\ now' = now + 1
  /\ IF sessState = "closed"
     THEN UNCHANGED <<bucket, pushRet1, packetErased, sessionVars, lastOut,
                      pushPackets>>
     ELSE LET n == Len(pushPackets)
              c == TimerSendCount(n, now + 1)
              k == IF c < n THEN c ELSE n
          IN /\ SetOut(FoldLeft(SendPacketUnlock, OutState, SubSeq(pushPackets, 1, k)))
             /\ pushPackets' = SubSeq(pushPackets, k + 1, n)
  /\ UNCHANGED <<kind, enableOutput, onOkCalled, sessState, producerVars,
                 sendTimerOn, sendDurationMs, pushTick>>

(* Mutant of OnOkSession: no RequestOnSend after the upcall. *)
OnOkSessionNoRequest ==
  /\ sessState = "connecting"
  /\ sessState' = "ok" /\ onOkCalled' = TRUE
  /\ UNCHANGED <<kind, bucket, enableOutput, pushRet1, packetErased, transBusy,
                 onSendPending, producerVars, timerVars, lastOut>>

(* CRtpSessionWrapper::OnOkSession: the handshake completed; m_onOkCalled  *)
(* is set, the observer told, and RequestOnSend drains what was queued.    *)
OnOkSession ==
  /\ sessState = "connecting"
  /\ sessState' = "ok" /\ onOkCalled' = TRUE
  /\ onSendPending' = TRUE
  /\ UNCHANGED <<kind, bucket, enableOutput, pushRet1, packetErased, transBusy,
                 producerVars, timerVars, lastOut>>

(* Mutant of OnSendSession: m_packetErased is reported but not cleared. *)
OnSendSessionNoClear ==
  /\ sessState # "closed" /\ onSendPending
  /\ SetOut([TrySendFront(OutState) EXCEPT !.onSendPending = FALSE])
  /\ UNCHANGED <<kind, enableOutput, onOkCalled, sessState, producerVars, timerVars>>

(* CRtpSessionWrapper::OnSendSession: SendPacketUnlock(); unless it sent a *)
(* packet with no erasure to report, and once OnOkSession has run, the     *)
(* observer gets OnSendSession(packetErased) and the flag is cleared.      *)
OnSendSession ==
  /\ sessState # "closed" /\ onSendPending
  /\ LET w == TrySendFront(OutState)
         sent == w.lastOut # lastOut
     IN SetOut([w EXCEPT !.onSendPending = FALSE,
                         !.packetErased = IF (sent /\ ~@) \/ ~onOkCalled THEN @
                                          ELSE FALSE])
  /\ UNCHANGED <<kind, enableOutput, onOkCalled, sessState, producerVars, timerVars>>

(* CRtpSessionWrapper::EnableOutput(enable): a change resets the bucket    *)
(* and the push-result bookkeeping and drops m_pushPackets.                *)
EnableOutput ==
  /\ sessState # "closed"
  /\ \E enable \in BOOLEAN :
       /\ enable # enableOutput
       /\ enableOutput' = enable
       /\ bucket' = BucketReset(bucket)
       /\ pushRet1' = TRUE /\ packetErased' = FALSE
       /\ pushPackets' = <<>>
  /\ UNCHANGED <<kind, onOkCalled, sessionVars, producerVars, lastOut, sendTimerOn,
                 sendDurationMs, pushTick, now>>

(* CRtpSessionWrapper::SetOutputRedline, from the application: passed to  *)
(* the bucket under m_lock while the session is set.                       *)
SetOutputRedline ==
  /\ sessState # "closed"
  /\ \E rb \in RedlineBytesArgs, rf \in RedlineFramesArgs :
       bucket' = SetRedline(bucket, rb, rf)
  /\ UNCHANGED <<kind, enableOutput, pushRet1, packetErased, onOkCalled,
                 sessionVars, producerVars, timerVars, lastOut>>

-----------------------------------------------------------------------------
(* CRtpSessionWrapper::CRtpSessionWrapper and Init: the session is being   *)
(* set up, the bucket is empty and no send timer is scheduled.             *)
Init ==
  /\ kind \in Kinds
  /\ bucket = CreateRtpBucket
  /\ enableOutput = TRUE /\ pushRet1 = TRUE /\ packetErased = FALSE
  /\ onOkCalled = FALSE
  /\ sessState = "connecting" /\ transBusy = FALSE /\ onSendPending = FALSE
  /\ nextId = 1 /\ frameNo = 0 /\ inFrame = FALSE /\ frameKey = FALSE
  /\ produced = <<>>
  /\ sendTimerOn = FALSE /\ pushPackets = <<>> /\ sendDurationMs = 0
  /\ pushTick = 0 /\ now = 0
  /\ lastOut = NoPacket

Next ==
  \/ SendPacket
  \/ SendPacketByTimer
  \/ OnTimer
  \/ OnOkSession
  \/ OnSendSession
  \/ EnableOutput
  \/ SetOutputRedline
  \/ TransportFlush
  \/ OnCloseSession

(* The transport flushes what it holds and delivers the OnSend it owes     *)
(* (reactor I/O events); nothing obliges the application, the handshake   *)
(* or the peer to act.                                                     *)
Spec == Init /\ [][Next]_vars /\ WF_vars(TransportFlush) /\ WF_vars(OnSendSession)
-----------------------------------------------------------------------------
TypeOK ==
  /\ kind \in Kinds
  /\ kind = "video" =>
       /\ bucket.frames \in Seq([key : BOOLEAN, bucket : [packets : Seq(Packet),
                                  totalBytes : Nat, redlineBytes : Nat]])
       /\ bucket.totalFrames \in Nat /\ bucket.needKeyFrame \in BOOLEAN
  /\ bucket.totalBytes \in Nat
  /\ enableOutput \in BOOLEAN /\ pushRet1 \in BOOLEAN
  /\ packetErased \in BOOLEAN /\ onOkCalled \in BOOLEAN
  /\ sessState \in {"connecting", "ok", "closed"}
  /\ transBusy \in BOOLEAN /\ onSendPending \in BOOLEAN
  /\ lastOut \in Packet \cup {NoPacket}
  /\ sendTimerOn \in BOOLEAN /\ pushPackets \in Seq(Packet)
  /\ sendDurationMs \in Durations \cup {0} /\ pushTick \in 0..now /\ now \in 0..MaxTick

(* Spec 4.6/8, bucket conservation: m_totalBytes is the sum of the payload *)
(* sizes of the packets the bucket still holds, across pushes that evict,  *)
(* refuse, discard or flush and the sends and resets that remove packets.  *)
BytesConservation ==
  bucket.totalBytes = Bytes(Retained(bucket))

(* Spec 4.6/8, video bucket conservation: m_totalFrames counts the queued  *)
(* frames plus the waiting and the sending frame, whichever of the         *)
(* replacing, discarding, flushing pushes and GetFront/PopFrontRelease     *)
(* calls came before.                                                      *)
FramesConservation ==
  kind = "video" =>
    bucket.totalFrames = Len(bucket.frames) + FrameCount(bucket.waiting)
                           + FrameCount(bucket.sending)

(* Video key-frame gate (spec 4.6): the first packet of a frame handed to  *)
(* the session belongs to a key frame, or to the frame right after the     *)
(* last one sent; a frame the bucket discarded (redline, key-frame flush,  *)
(* EnableOutput reset) is never followed by a frame that depends on it.    *)
KeyFrameChain ==
  [][ (kind = "video" /\ lastOut' # lastOut /\ lastOut'.frame # lastOut.frame)
        => \/ lastOut'.key
           \/ lastOut # NoPacket /\ lastOut'.frame = lastOut.frame + 1 ]_vars

(* Spec 4.8: whatever the bucket holds that GetFront can hand out reaches  *)
(* the session while it stays open: OnOkSession and every transport flush  *)
(* lead to OnSendSession, which sends the next packet.                     *)
Drained ==
  [](sessState = "ok" /\ Sendable(bucket) # <<>>
       => <>(Sendable(bucket) = <<>> \/ sessState = "closed"))

(* Spec 4.8: once a push is refused after an accepted one (packetErased),  *)
(* the observer is eventually given OnSendSession(packetErased = true), or *)
(* the flag is withdrawn, while the session stays up.                      *)
ErasureReported ==
  [](sessState = "ok" /\ packetErased
       => <>(~packetErased \/ sessState = "closed"))

(* The last timer tick of a paced send: while m_session is set, whatever   *)
(* SendPacketByTimer queued has left m_pushPackets for the bucket by the   *)
(* OnTimer run at m_pushTick + m_sendDurationMs - 1, one tick before the   *)
(* duration of the latest call runs out, however OnTimer rounded           *)
(* maxSendCount on the ticks before.                                       *)
TimerDeadline ==
  sessState # "closed" /\ pushPackets # <<>> =>
    now = pushTick \/ now + 1 < pushTick + sendDurationMs
=============================================================================
