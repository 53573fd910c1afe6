------------------------- MODULE RtpSessionTcpserver -------------------------
(***************************************************************************)
(* CRtpSessionTcpserver (src/src/pro/pro_rtp/rtp_session_tcpserver.cpp):   *)
(* the plain TCP session that listens on an RTP port pair, takes one       *)
(* connection and cuts its byte stream into RTP packets.                   *)
(*                                                                         *)
(* Init runs on the application thread; OnAccept and OnRecv are reactor    *)
(* callbacks.  Both callbacks hold m_lockUpcall for their whole run and    *)
(* m_lock only around their state changes, so the observer upcall that     *)
(* follows the lock is a step of its own, and Fini (m_lock only) can come  *)
(* between.  The TCP transport, the acceptor, the packet parser and the    *)
(* base class's timeout timer are not in this repository's sources and are *)
(* modelled from spec 4.3-4.5: bytes arrive in chunks of any size, and a   *)
(* payload is a valid RTP buffer unless its first byte is BadByte.         *)
(***************************************************************************)
EXTENDS Naturals, Sequences, SequencesExt

CONSTANTS
  Ports,        \* local ports, small numbers standing for port numbers
  LocalPorts,   \* localPort arguments the application passes to Init
  MaxTryTimes,  \* MAX_TRY_TIMES (100), scaled down
  MaxInits,     \* bound: Init calls
  Streams,      \* byte streams a peer may send, frames already encoded
  BusyPorts,    \* ports other sockets of the host may hold
  CanFail       \* ProCreateTcpTransport and CreateInstance may fail

ASSUME MaxTryTimes \in Nat \ {0} /\ MaxInits \in Nat /\ CanFail \in BOOLEAN

VARIABLES
  busy,         \* ports other sockets of the host hold
  localPort,    \* the port of m_localAddr
  acceptor,     \* m_acceptor: its port, or 0 for NULL
  dummy,        \* m_dummySockId: its port, or 0 for -1
  observer,     \* m_observer # NULL (m_reactor is set and cleared with it)
  trans,        \* m_trans # NULL
  timer,        \* m_timeoutTimerId # 0
  tcpConnected, \* m_tcpConnected
  canUpcall,    \* m_canUpcall
  onOkCalled,   \* m_onOkCalled
  upcall,       \* who holds m_lockUpcall: "none", "acceptOk", "acceptFail", "recv"
  inits,        \* Init calls so far
  peer,         \* the stream the peer sends
  wire,         \* its bytes not yet received
  pool,         \* the transport's receive pool
  recvPending,  \* the transport owes an OnRecv
  upcalls,      \* history: the observer callbacks, in order
  delivered     \* history: the payloads of the packets given to OnRecvSession

vars == <<busy, localPort, acceptor, dummy, observer, trans, timer, tcpConnected,
          canUpcall, onOkCalled, upcall, inits, peer, wire, pool, recvPending,
          upcalls, delivered>>

BadByte == 0

-----------------------------------------------------------------------------
(* Mutant of RtcpPort: the dummy socket takes the port below. *)
RtcpPortBelow(p) == p - 1

(* The port the dummy socket reserves for RTCP beside an even RTP port. *)
RtcpPort(p) == p + 1

(* Mutant of TryPort: a failed acceptor leaves the dummy socket open. *)
TryPortKeepDummy(p, b, d) ==
  LET dd == IF p % 2 = 0 THEN (IF RtcpPort(p) \in b THEN 0 ELSE RtcpPort(p)) ELSE d
  IN CASE p % 2 = 0 /\ dd = 0 -> [acceptor |-> 0, dummy |-> 0]
       [] p \in b               -> [acceptor |-> 0, dummy |-> dd]
       [] OTHER                 -> [acceptor |-> p, dummy |-> dd]

(* The port-pair loop of Init.  tries[i] is what AllocRtpTcpPort returns   *)
(* on the i-th pass (spec 4.5: an even port).  d is m_dummySockId as a     *)
(* port, 0 for -1.  An even port first needs its odd neighbour as a dummy  *)
(* socket, and a dummy that cannot be opened skips the pass; an acceptor   *)
(* that cannot be created closes the dummy.                                *)
TryPort(p, b, d) ==
  LET dd == IF p % 2 = 0 THEN (IF RtcpPort(p) \in b THEN 0 ELSE RtcpPort(p)) ELSE d
  IN CASE p % 2 = 0 /\ dd = 0 -> [acceptor |-> 0, dummy |-> 0]
       [] p \in b               -> [acceptor |-> 0, dummy |-> 0]
       [] OTHER                 -> [acceptor |-> p, dummy |-> dd]

(* The for loop: count passes, one when the caller names the port. *)
RECURSIVE PortLoop(_, _, _, _, _)
PortLoop(lp, tries, i, b, d) ==
  IF i > (IF lp > 0 THEN 1 ELSE MaxTryTimes)
  THEN [acceptor |-> 0, dummy |-> d]
  ELSE LET r == TryPort(IF lp = 0 THEN tries[i] ELSE lp, b, d)
       IN IF r.acceptor # 0 THEN r ELSE PortLoop(lp, tries, i + 1, b, r.dummy)

(* CRtpSessionTcpserver::Init: refused once set up; on success the session *)
(* listens, holds the dummy port and starts the timeout timer.             *)
InitSession ==
  /\ ~observer /\ ~trans /\ acceptor = 0 /\ inits < MaxInits
  /\ \E lp \in LocalPorts, tries \in [1..MaxTryTimes -> {p \in Ports : p % 2 = 0}] :
       LET r == PortLoop(lp, tries, 1, busy, dummy) IN
       IF r.acceptor = 0
       THEN /\ dummy' = r.dummy
            /\ UNCHANGED <<localPort, acceptor, observer, timer>>
       ELSE /\ localPort' = r.acceptor /\ acceptor' = r.acceptor
            /\ dummy' = r.dummy /\ observer' = TRUE /\ timer' = TRUE
  /\ inits' = inits + 1
  /\ UNCHANGED <<busy, trans, tcpConnected, canUpcall, onOkCalled, upcall,
                 peer, wire, pool, recvPending, upcalls, delivered>>

(* The part of Fini under m_lock: the timer, the dummy, the acceptor, the  *)
(* transport and the observer are let go.                                  *)
FiniEffect ==
  /\ timer' = FALSE /\ dummy' = 0 /\ acceptor' = 0 /\ trans' = FALSE
  /\ observer' = FALSE

(* CRtpSessionTcpserver::Fini, from the application. *)
Fini ==
  /\ observer
  /\ FiniEffect
  /\ UNCHANGED <<busy, localPort, tcpConnected, canUpcall, onOkCalled, upcall,
                 inits, peer, wire, pool, recvPending, upcalls, delivered>>

finiVars == <<timer, dummy, acceptor, trans, observer>>

-----------------------------------------------------------------------------
(* CRtpSessionTcpserver::OnAccept, under m_lock: the connection becomes    *)
(* the transport (or is closed if it cannot), the timer is cancelled only  *)
(* if it did, and the acceptor is given up.                                *)
OnAccept ==
  /\ acceptor # 0 /\ observer /\ upcall = "none"
  /\ \E ok \in IF CanFail THEN BOOLEAN ELSE {TRUE} :
       /\ tcpConnected' = TRUE /\ trans' = ok
       /\ timer' = (timer /\ ~ok)
       /\ upcall' = IF ok THEN "acceptOk" ELSE "acceptFail"
  /\ acceptor' = 0
  /\ \E s \in Streams : peer' = s /\ wire' = s
  /\ pool' = <<>> /\ recvPending' = FALSE /\ delivered' = <<>>
  /\ UNCHANGED <<busy, localPort, dummy, observer, canUpcall, onOkCalled, inits,
                 upcalls>>

(* The rest of OnAccept, after m_lock: OnCloseSession if the socket was    *)
(* closed, OnOkSession the first time otherwise; m_lockUpcall is released. *)
OnAcceptUpcall ==
  /\ upcall \in {"acceptOk", "acceptFail"}
  /\ upcall' = "none"
  /\ IF ~canUpcall THEN UNCHANGED <<canUpcall, onOkCalled, upcalls>>
     ELSE IF upcall = "acceptFail"
     THEN /\ canUpcall' = FALSE /\ upcalls' = Append(upcalls, "close")
          /\ UNCHANGED onOkCalled
     ELSE IF onOkCalled THEN UNCHANGED <<canUpcall, onOkCalled, upcalls>>
     ELSE /\ onOkCalled' = TRUE /\ upcalls' = Append(upcalls, "ok")
          /\ UNCHANGED canUpcall
  /\ UNCHANGED <<busy, localPort, acceptor, dummy, observer, trans, timer,
                 tcpConnected, inits, peer, wire, pool, recvPending, delivered>>

(* The base class's timeout timer (spec 4.3: the handshake fails at the    *)
(* deadline): the session closes with OnCloseSession.                      *)
OnTimeout ==
  /\ timer /\ observer /\ upcall = "none"
  /\ timer' = FALSE
  /\ IF canUpcall THEN canUpcall' = FALSE /\ upcalls' = Append(upcalls, "close")
     ELSE UNCHANGED <<canUpcall, upcalls>>
  /\ UNCHANGED <<busy, localPort, acceptor, dummy, observer, trans, tcpConnected,
                 onOkCalled, upcall, inits, peer, wire, pool, recvPending, delivered>>

(* The transport reads a chunk of the peer's bytes into the receive pool   *)
(* and calls OnRecv.                                                       *)
TransportRecv ==
  /\ trans /\ wire # <<>>
  /\ \E k \in 1..Len(wire) :
       /\ pool' = pool \o SubSeq(wire, 1, k)
       /\ wire' = SubSeq(wire, k + 1, Len(wire))
  /\ recvPending' = TRUE
  /\ UNCHANGED <<busy, localPort, acceptor, dummy, observer, trans, timer,
                 tcpConnected, canUpcall, onOkCalled, upcall, inits, peer,
                 upcalls, delivered>>

-----------------------------------------------------------------------------
(* Mutant of RecvEntry: OnRecv does not take m_lockUpcall. *)
RecvEntryNoLock == recvPending

(* OnRecv.  One step is one pass of its while loop: the m_lock section and *)
(* the upcall after it.  The whole loop holds m_lockUpcall.                *)
RecvEntry == recvPending /\ upcall \in {"none", "recv"}

(* The two-byte big-endian length at the head of the pool. *)
FrameSize == IF Len(pool) >= 2 THEN pool[1] * 256 + pool[2] ELSE 0

(* The pool after the length and the frame that follows it are flushed. *)
AfterFrame == SubSeq(pool, 3 + FrameSize, Len(pool))

(* CRtpPacket::ParseRtpBuffer, from spec 4.4: the payload is a valid RTP   *)
(* buffer with a non-empty payload.                                        *)
ParseRtpBuffer(payload) == payload # <<>> /\ payload[1] # BadByte

(* The loop returns (the session was finished) or breaks (no whole frame   *)
(* in the pool): m_lockUpcall is released.                                 *)
RecvBreak ==
  /\ RecvEntry
  /\ ~observer \/ ~trans \/ Len(pool) < 2 + FrameSize
  /\ upcall' = "none" /\ recvPending' = FALSE
  /\ UNCHANGED <<busy, localPort, acceptor, dummy, observer, trans, timer,
                 tcpConnected, canUpcall, onOkCalled, inits, peer, wire, pool,
                 upcalls, delivered>>

(* Mutant of RecvSkipEmpty: a zero-length frame ends the loop. *)
RecvSkipEmptyBreak ==
  /\ RecvEntry /\ observer /\ trans
  /\ Len(pool) >= 2 /\ FrameSize = 0
  /\ pool' = AfterFrame /\ upcall' = "none" /\ recvPending' = FALSE
  /\ UNCHANGED <<busy, localPort, acceptor, dummy, observer, trans, timer,
                 tcpConnected, canUpcall, onOkCalled, inits, peer, wire,
                 upcalls, delivered>>

(* A zero-length frame: its length is flushed and the loop continues. *)
RecvSkipEmpty ==
  /\ RecvEntry /\ observer /\ trans
  /\ Len(pool) >= 2 /\ FrameSize = 0
  /\ pool' = AfterFrame /\ upcall' = "recv"
  /\ UNCHANGED <<busy, localPort, acceptor, dummy, observer, trans, timer,
                 tcpConnected, canUpcall, onOkCalled, inits, peer, wire,
                 recvPending, upcalls, delivered>>

(* Mutant of RecvPacket: a payload that fails to parse is not flushed. *)
RecvPacketNoFlush ==
  /\ RecvEntry /\ observer /\ trans
  /\ FrameSize > 0 /\ Len(pool) >= 2 + FrameSize
  /\ \E created \in IF CanFail THEN BOOLEAN ELSE {TRUE} :
       LET payload == SubSeq(pool, 3, 2 + FrameSize) IN
       IF created /\ ~ParseRtpBuffer(payload)
       THEN /\ upcall' = "recv" /\ pool' = SubSeq(pool, 3, Len(pool))
            /\ UNCHANGED <<canUpcall, recvPending, upcalls, delivered, finiVars>>
       ELSE /\ pool' = AfterFrame
            /\ canUpcall' = (canUpcall /\ created)
            /\ upcalls' = IF canUpcall
                          THEN Append(upcalls, IF created THEN "recv" ELSE "close")
                          ELSE upcalls
            /\ delivered' = IF canUpcall /\ created
                            THEN Append(delivered, payload) ELSE delivered
            /\ IF canUpcall'
               THEN upcall' = "recv" /\ UNCHANGED <<recvPending, finiVars>>
               ELSE upcall' = "none" /\ recvPending' = FALSE /\ FiniEffect
  /\ UNCHANGED <<busy, localPort, tcpConnected, onOkCalled, inits, peer, wire>>

(* A whole frame: CreateInstance may fail (error: OnCloseSession); a       *)
(* payload ParseRtpBuffer refuses is flushed and the loop continues;       *)
(* otherwise the packet goes to OnRecvSession.  Either upcall happens only *)
(* while m_canUpcall holds, and a session that may no longer upcall is     *)
(* finished and the loop left.                                             *)
RecvPacket ==
  /\ RecvEntry /\ observer /\ trans
  /\ FrameSize > 0 /\ Len(pool) >= 2 + FrameSize
  /\ pool' = AfterFrame
  /\ \E created \in IF CanFail THEN BOOLEAN ELSE {TRUE} :
       LET payload == SubSeq(pool, 3, 2 + FrameSize) IN
       IF created /\ ~ParseRtpBuffer(payload)
       THEN /\ upcall' = "recv"
            /\ UNCHANGED <<canUpcall, recvPending, upcalls, delivered, finiVars>>
       ELSE /\ canUpcall' = (canUpcall /\ created)
            /\ upcalls' = IF canUpcall
                          THEN Append(upcalls, IF created THEN "recv" ELSE "close")
                          ELSE upcalls
            /\ delivered' = IF canUpcall /\ created
                            THEN Append(delivered, payload) ELSE delivered
            /\ IF canUpcall'
               THEN upcall' = "recv" /\ UNCHANGED <<recvPending, finiVars>>
               ELSE upcall' = "none" /\ recvPending' = FALSE /\ FiniEffect
  /\ UNCHANGED <<busy, localPort, tcpConnected, onOkCalled, inits, peer, wire>>

-----------------------------------------------------------------------------
Init ==
  /\ busy \in SUBSET BusyPorts
  /\ localPort = 0 /\ acceptor = 0 /\ dummy = 0
  /\ observer = FALSE /\ trans = FALSE /\ timer = FALSE
  /\ tcpConnected = FALSE /\ canUpcall = TRUE /\ onOkCalled = FALSE
  /\ upcall = "none" /\ inits = 0
  /\ peer = <<>> /\ wire = <<>> /\ pool = <<>> /\ recvPending = FALSE
  /\ upcalls = <<>> /\ delivered = <<>>

Next ==
  \/ InitSession
  \/ Fini
  \/ OnAccept
  \/ OnAcceptUpcall
  \/ OnTimeout
  \/ TransportRecv
  \/ RecvBreak
  \/ RecvSkipEmpty
  \/ RecvPacket

(* The reactor runs a callback it has begun to the end, and reads a socket *)
(* that has bytes; the application's calls and the peer are not forced.   *)
Spec ==
  /\ Init /\ [][Next]_vars
  /\ WF_vars(OnAcceptUpcall) /\ WF_vars(TransportRecv)
  /\ WF_vars(RecvBreak) /\ WF_vars(RecvSkipEmpty) /\ WF_vars(RecvPacket)

-----------------------------------------------------------------------------
(* Spec 4.4's framing, as a reference: a stream is frames, each a 16-bit   *)
(* big-endian length and that many bytes; a tail too short is no frame.    *)
RECURSIVE Frames(_)
Frames(s) ==
  IF Len(s) < 2 THEN <<>>
  ELSE LET n == s[1] * 256 + s[2]
       IN IF Len(s) < 2 + n THEN <<>>
          ELSE <<SubSeq(s, 3, 2 + n)>> \o Frames(SubSeq(s, 3 + n, Len(s)))

(* The bytes OnRecv has flushed from the pool. *)
Consumed == SubSeq(peer, 1, Len(peer) - Len(wire) - Len(pool))

(* The frames a session should hand up: non-empty and valid RTP. *)
GoodFrames(fs) == SelectSeq(fs, ParseRtpBuffer)

TypeOK ==
  /\ busy \subseteq BusyPorts /\ localPort \in Ports \cup {0}
  /\ acceptor \in Ports \cup {0} /\ dummy \in Ports \cup {0}
  /\ {observer, trans, timer, tcpConnected, canUpcall, onOkCalled, recvPending}
       \subseteq BOOLEAN
  /\ upcall \in {"none", "acceptOk", "acceptFail", "recv"}
  /\ inits \in 0..MaxInits
  /\ peer \in Streams \cup {<<>>} /\ IsSuffix(wire, peer)
  /\ upcalls \in Seq({"ok", "recv", "close"})

(* Init's port loop and Fini never leak the RTCP reservation (spec 4.5 and *)
(* its boundary case: a port-0 Init that runs out of tries holds no dummy  *)
(* socket): a dummy socket is open only while the session is set up, and  *)
(* then it is the odd neighbour of the even port the session listens on.   *)
DummyPaired ==
  dummy # 0 => /\ observer
               /\ localPort % 2 = 0 /\ dummy = localPort + 1
               /\ acceptor \in {0, localPort}

(* The observer sees OnOkSession; OnRecvSession*; OnCloseSession, a prefix *)
(* of it, or OnCloseSession alone (spec 8): OnAccept's upcall and OnRecv's *)
(* loop run under m_lockUpcall, so a packet never overtakes OnOkSession,   *)
(* and once m_canUpcall is cleared nothing follows the close.              *)
SessionOrdering ==
  \A i \in 1..Len(upcalls) :
    /\ upcalls[i] = "ok" => i = 1
    /\ upcalls[i] = "recv" => upcalls[1] = "ok"
    /\ upcalls[i] = "close" => i = Len(upcalls)

(* OnRecv's framing loop stays on the peer's frame boundaries however the *)
(* transport chunked the bytes, and hands up exactly the valid non-empty   *)
(* frames it has consumed, in order; after a close, a prefix of them.      *)
FramesInOrder ==
  /\ Frames(Consumed) \o Frames(pool \o wire) = Frames(peer)
  /\ IsPrefix(delivered, GoodFrames(Frames(Consumed)))
  /\ canUpcall => delivered = GoodFrames(Frames(Consumed))

(* A whole frame in the receive pool is eventually consumed, or the        *)
(* transport is gone: OnRecv's loop does not stop while one is left.       *)
FramesDrained ==
  (trans /\ Frames(pool) # <<>>) ~> (~trans \/ Frames(pool) = <<>>)
====
