# TLA+ models of libpronet

This directory holds TLA+ models of the parts of libpronet (`src/src/pro/...`)
whose behaviour depends on the order of events: the RTP send buckets, the
output path of the session wrapper, the message server, the TCP server
session and the config stream. Each model
is translated from the C++ source. `PROJECT.json` maps every definition to the
lines it models, lists the TLC runs and their mutants, and lists the hazards
and findings.

Run a model from this directory with `tlc -workers 2 -config <cfg> <MC module>`.

## 1. Inventory of the system

| Part | Source | State | Operations | Interacts with |
|---|---|---|---|---|
| Send buckets | `pro_rtp/rtp_bucket.cpp` | packet FIFO, byte count, redline; for video: waiting/queued/sending frames, frame count, need-key-frame flag | `PushBackAddRef`, `GetFront`, `PopFrontRelease`, `Reset`, `SetRedline`, `CreateRtpBucket` | session wrapper |
| Session wrapper | `pro_rtp/rtp_session_wrapper.cpp` | bucket, `m_pushToBucketRet1/2`, `m_packetErased`, `m_enableOutput/Input`, `m_onOkCalled`, timer push list, reorder buffer | `SendPacket`, `SendPacketByTimer`, `SendPacketUnlock`, `EnableOutput/Input`, `OnOkSession`, `OnRecvSession`, `OnSendSession`, `OnCloseSession`, `OnTimer`, `Init`, `Fini` | session (below), observer (above), reactor timers |
| Session base, transports, reactor | not in `src/` | handshake state, pending output | `SendPacket`, `RequestOnSend`, `OnSend`, close | wrapper |
| Message server | `pro_rtp/rtp_msg_server.cpp` | user→ctx and session→ctx maps, sub-users of C2S links, functor task queue, id counters | accept (TCP/SSL), async accept, recv/route, C2S login/logout, close, kickout, `SendMsg` | many wrappers, the application observer |
| TCP server session | `pro_rtp/rtp_session_tcpserver.cpp` | listening port + dummy odd port, receive pool | `Init` port loop, `OnAccept`, `OnRecv` framing | reactor, transport |
| Config stream | `pro_util/pro_config_stream.cpp` | list of (name, value) items | `BufToConfigs`, `StringToConfigs`, `ConfigsToString`, `Add`, `Get`, `ToString` | config files |
| Thread base | `pro_util/pro_thread.cpp` | thread count, condition | `Spawn`, `SvcRun`, `Wait` | worker threads |
| Notify pipe | `pro_net/pro_notify_pipe.cpp` | enabled flag, last notify tick | `Notify`, `EnableNotify` | reactor select loop |
| File monitor | `pro_util/pro_file_monitor.cpp` | existence flag, update tick | `UpdateFileExist` | callers on several threads |
| Shared clock, timer ids | `pro_shared/pro_shared.cpp` | 32-bit tick extension, id counters | `ProGetTickCount64_s`, `ProMakeTimerId`, `ProMakeMmTimerId` | every timer user |
| SGI pool allocator | `sgi_pool/stl_alloc.h`, `pro_shared/pro_shared.cpp` | per instance: 60 free lists, chunk rest, heap size; a size header per buffer | `ProAllocateSgiPoolBuffer`, `ProReallocateSgiPoolBuffer`, `ProDeallocateSgiPoolBuffer` over `allocate`, `reallocate`, `deallocate` | every buffer user, malloc |
| String helpers, headers | `pro_z.cpp`, `*.h` | — | — | not modelled (see §5) |

The outbound data flow is: application `SendPacket` → wrapper → bucket →
session → transport; the transport reports a flush with `OnSend`, which the
wrapper answers by sending the next packet from the bucket. The message server
is an observer of many wrappers and routes messages between them.

## 2. Plan

Modules, most important first (✓ = done):

1. ✓ `RtpBucket` – the three bucket classes as pure operators on a bucket record.
2. ✓ `RtpOutput` – the wrapper's output path over one bucket kind (a
   constant), composed with a spec-modelled session/transport, with the
   timer-paced send (`SendPacketByTimer`, `OnTimer`). Next:
   `SetOutputRedline` and the input path.
3. ✓ `RtpMsgServer` – user/session maps, task queue, accept, C2S login and
   logout, close, kickout; an abstract directory of users
   (`UserDirectory`) refined by it through `INSTANCE ... WITH`. Next: the
   auto-assigned id counters and their wrap, `SendMsg` from the application.
4. ✓ `RtpSessionTcpserver` – the port-pair loop of `Init`, `OnAccept`,
   the receive framing loop, `Fini` and the timeout. Next: the SSL server
   session, whose accept path adds a handshake.
5. ✓ `ConfigStream` – the parser and writer as operators over byte
   strings, and the stream object's Add/Remove/Clear/Get, checked against
   a reference grouping and the round trip.
6. ✓ `SgiPool` – the pool allocator and the three buffer functions over
   it, with malloc over a bounded heap.
7. ✓ `ThreadBase` – thread count, `SvcRun` steps and `Wait`'s condition
   loop.
8. ✓ `NotifyPipe` – `Notify`'s unlocked steps against the reactor's
   drain and `EnableNotify`. `FileMonitor`, `TickCount`: not modelled
   (see §5).

## 3. Modules

### RtpBucket (`rtp_bucket.cpp`)

Pure operators, no variables. A base/audio bucket is
`[packets, totalBytes, redlineBytes]`; a video bucket is
`[frames, waiting, sending, totalBytes, totalFrames, needKeyFrame,
redlineBytes, redlineFrames]`, each frame `[key, bucket]` holding its own
base bucket, as `RTP_VIDEO_FRAME` does. `VideoPushBackAddRef` follows steps
1, 4, 5, 6, 7 and 8 of the source (steps 2 and 3 are disabled by `if (0)`),
including the unchecked push into the frame's own bucket.

### RtpOutput (`rtp_session_wrapper.cpp` output path)

Variables: `bucket`, `enableOutput`, `pushRet1` (`m_pushToBucketRet1`;
`m_pushToBucketRet2` always equals it after a call), `packetErased`,
`onOkCalled`, the session (`sessState`, `transBusy`, `onSendPending`), the
application's encoder (`nextId`, `frameNo`, `inFrame`, `frameKey`,
`produced`), the timer-paced send (`sendTimerOn` for `m_sendTimerId != 0`,
`pushPackets`, `sendDurationMs`, `pushTick`, and `now`, the tick of the
1 ms timer) and `lastOut`, the last packet handed to the session.

Actions: `SendPacket` (with `SendPacketUnlock(packet)`: push, the 1→0/0→1
bookkeeping, `RequestOnSend`, and the send attempt), `OnOkSession`,
`OnSendSession` (with `SendPacketUnlock()` and the erasure upcall),
`EnableOutput` (which also drops `m_pushPackets`), `OnCloseSession`, the
transport's `TransportFlush`, `SendPacketByTimer` and `OnTimer`, and
`SetOutputRedline` (the bucket's `SetRedline`: a nonzero argument replaces
the limit, the generic and audio class ignore the frame limit, and nothing
is evicted or refused until the next push; its arguments are the constants
`RedlineBytesArgs` and `RedlineFramesArgs`). The
constant `SendModes` says which of `SendPacket` and `SendPacketByTimer` the
application uses, and `Kinds` which bucket classes `CreateRtpBucket` may
pick; the variable `kind` is the class of this wrapper's bucket. The calls made
under one lock are functions of the output state `OutState`
(`SendPacketUnlock(w, p)`, `TrySendFront(w)`), so that `OnTimer` folds
`SendPacketUnlock` over the `maxSendCount` packets it pops in one step.
`OnTimer` advances `now` by one up to `MaxTick`; `TimerSendCount` is the
code's rounded `maxSendCount`.
Every wrapper method runs under `m_lock`; the upcalls after the unlock are
serialised by the session, so each callback is one step.

The session below the wrapper is not in the sources and is modelled from
spec §4.3–4.4: it refuses `SendPacket` before the handshake and while the
transport holds unsent bytes, and calls `OnSend` after a flush or a
`RequestOnSend`.

The encoder is well formed: each frame's first packet is flagged
first-of-frame, its last is the marker, and all packets of a frame share the
key-frame flag. For the base and audio buckets, which read neither flag,
every packet is a one-packet non-key frame.

Fairness: weak fairness on `TransportFlush` and `OnSendSession`. The reactor
delivers the write event of a transport with pending bytes and the `OnSend`
it owes; nothing obliges the application to send, the peer to finish the
handshake or to stay connected, so those actions have no fairness.

### RtpMsgServer (`rtp_msg_server.cpp`)

Variables: `session2Ctx` and `user2Ctx` (`m_session2Ctx`, `m_user2Ctx`; a
context is `[base, isC2s, subs]` and is named by its session), `task` (the
commands queued on `m_task`, in order), `conn` (each accepted socket and
the session wrapper made for it: idle, queued, open, closing, gone),
`requested` (what the C2S relay at the other end has asked for), and two
bound counters.

Actions: the I/O-thread callbacks `OnAcceptSession` (refused at
`MAX_PENDING_COUNT`), `OnRecvSession` (a relay's `client_login`, capped,
or `client_logout`, uncapped), `OnCloseSession`, and the application's
`KickoutUser` only queue commands; the worker thread's
`AsyncOnAcceptSession` (with `AddBaseUser`), `ProcessMsg_client_login`
(with `AddSubUser`), `ProcessMsg_client_logout`, `AsyncOnCloseSession` and
`AsyncKickoutUser` change the maps. `RemoveOld` is the "remove old" block
the three of them share. Each step is one action because all of them run
under `m_lock` and the observer upcalls after the unlock run on the
command's own thread. `OnCheckUser` is a nondeterministic accept/refuse
(and, for a server-class user, `isC2s`). The routing loop of
`OnRecvSession` only reads the maps and sends packets; it changes no state
and is not modelled (observation 5 is what a check of it would show).

`UserDirectory` is the abstract promise: who is online and through which
base user, which online base users are C2S relays, and which logins are
pending. `RtpMsgServer` maps onto it with `Via`, `C2sBases` and `Asked`
(the queued `client_login` commands), and `DirectorySpec` checks the
refinement.

Fairness: weak fairness on the worker (`Worker`), which the code's
`CProFunctorCommandTask` thread gives: it runs queued commands as long as
there are any. Peers and the application get none.

### ConfigStream (`pro_config_stream.cpp`)

`BufToConfigs` is the recursive operator `ParseLines` over a byte string,
one call per line: `LineEnd` finds the line (`\r\n` and also `\n\n` end
one line), the first line may skip a BOM, `SkipFwd`/`SkipBack` trim it,
blank and comment lines are skipped, and `LineItem` runs the two passes of
the field loop (`Field`). A corrupt line stops the loop with `ok = FALSE`
and the items read so far, as the code leaves them in `configs`. Every
byte is read through `Char`, the conversion to `char`: with `CharIsSigned`
the bytes above 127 become negative, as on x86 and MSVC builds.
`ConfigsToString` writes one `"name""value"` line per item.

The stream object (`name2Configs`, `name2Index`, `nextIndex`) has no lock
and is used by one thread. `Add` covers the string overloads: a list of one
or two items is added in order through `AddOne`. `Remove` and `Clear` drop
names (keeping `m_nextIndex`). `GetAll` is `Get(configs)`, through
`index2Name`; `ToString` writes it. The history variable `log` holds the
items given and not removed, and `Grouped(log)` is the reference definition
of the grouping `Get` promises.

### RtpSessionTcpserver (`rtp_session_tcpserver.cpp`)

`InitSession` is `CRtpSessionTcpserver::Init`: `PortLoop` runs its `for`
loop over the ports `AllocRtpTcpPort` returns (the argument `tries`, all
chosen at once), one pass when the caller names the port; `TryPort` is one
pass: an even port first opens the dummy socket on `RtcpPort(p)` and skips
the pass if it cannot, and an acceptor that cannot be created closes the
dummy. Other sockets of the host hold a subset of `BusyPorts` (`busy`). The
variables `acceptor` and `dummy` hold the port of `m_acceptor` and of
`m_dummySockId`, 0 for none.

The callbacks hold `m_lockUpcall` throughout and `m_lock` only around their
state changes; the variable `upcall` says which one holds `m_lockUpcall`.
`OnAccept` is two steps: the `m_lock` part (the transport is created, or
the socket closed; the timer is cancelled; the acceptor given up) and
`OnAcceptUpcall` (`OnCloseSession` or the first `OnOkSession`). A new
connection chooses the stream its peer sends from `Streams`: whole frames,
each a 16-bit big-endian length and the payload. `TransportRecv` moves a
chunk of any size into the receive pool and owes an `OnRecv`. A pass of
`OnRecv`'s loop is one step: `RecvBreak` (returns, or no whole frame left),
`RecvSkipEmpty` (a zero-length frame) or `RecvPacket` (create the packet,
which may fail, parse it, flush the frame, upcall, and `Fini` once
`m_canUpcall` is clear). `Fini` may run between passes, as the application
calls it with `m_lock` only. `OnTimeout` is the base class's timer
(`CRtpSessionBase::OnTimer` is not in `src/`): the session closes if the
timer is still set. `ParseRtpBuffer` (in `rtp_packet.cpp`, not in `src/`)
refuses a payload whose first byte is `BadByte`.

The history variables `upcalls` (the observer's callbacks) and `delivered`
(the payloads handed up on the current connection) state the properties;
`Frames` is spec 4.4's framing as a reference parser.

Fairness: weak fairness on `OnAcceptUpcall` and on the three passes of
`OnRecv` (a callback the reactor has begun runs to its end), and on
`TransportRecv` (the reactor reads a socket that has bytes). The
application's `Init` and `Fini`, the peer's connect and the timer have
none.

### SgiPool (`sgi_pool/stl_alloc.h`, buffer functions of `pro_shared.cpp`)

One pool index: its two instances `"a"` (blocks up to `SMALL_OBJ_SIZE`,
header included) and `"b"`, both under the index's mutex, so each buffer
call is one step. `mem` holds each instance's free lists (`fl`, a sequence
of addresses per class, head first), chunk rest (`st`, `en`) and
`_S_heap_size` (`heap`), and malloc's state: the next fresh address `brk`
and the set `mall` of blocks malloc handed out; malloc fails past
`HeapLimit`, which is what drives `_S_chunk_alloc` into its half-chunk
retry and its scavenging. `live` is what the application holds per
handle: the block, the header value and, as a ghost, the bytes the block
really has (`cap`).

The allocator functions are operators on `mem` that return the new `mem`
and the address, composed inside the three actions as the calls are:
`FreelistIndex`/`Search` (`_S_freelist_index`), `RoundUp`, `Distribute`
(the leftover loop), `Scavenge`, `ChunkAlloc` (recursive, as the code),
`Refill`, `Allocate`, `Deallocate`, `Reallocate`. `ReqSize` and `Inst` are
the size and instance choice of the buffer functions. libc `realloc` is a
malloc of the new size and a free of the old block (its contents are not
modelled). The `p == 0`, `old_sz == 0` and `new_sz == 0` entries of
`reallocate` are never reached from `ProReallocateSgiPoolBuffer`, which
handles NULL and 0 itself by calling the other two functions.

`Regions` lists every stretch of memory somebody owns, tagged by where it
sits (a block on a free list twice counts twice). The properties:
`TypeOK` (with every address the pool holds below malloc's break, so a
chunk ends where malloc's block ends, after the half-chunk retry too),
`BlocksDisjoint` (no two regions overlap and each lies in a malloc'd
block), `NoLeak` (the regions add up to what malloc gave), `CapacityOK`
(each buffer's header is at most its real size). No fairness: the
application may stop at any time, and no property is about progress.

### ThreadBase (`pro_util/pro_thread.cpp`)

`threadCount` and `realtime` are `m_threadCount` and `m_realtime`; `th`
follows each thread through `SvcRun` (`created` by `Spawn`, `synced` after
the empty `m_lock` section, `running` once it has read `m_realtime` into
`prio` and entered `Svc`, `done` after the final `m_lock` section); `wt`
follows each `Wait` caller (`waiting` is blocked in `m_cond.Wait`, `woken`
has been woken and must take `m_lock` back). `before` is a history
variable: the threads spawned when a `Wait` began. Each `m_lock` section
is one step: `Spawn` (thread creation may fail, and then nothing is
counted), `SvcSync`, `SvcFinish` (uncount and `Signal`), `WaitEnter` and
`WaitRecheck` (the `while` test). `CProThreadCondition` is not in `src/`:
`Signal` wakes a nonempty set of the blocked waiters, and a blocked waiter
may wake spuriously (`SpuriousWakeup`), which is why `Wait` loops.

Fairness: weak fairness on each thread's `SvcRun` steps (a created thread
is scheduled and its `Svc` returns; the application stops `Svc` before it
calls `Wait`) and on `WaitRecheck` (a woken waiter gets the lock back).
`Spawn`, `WaitEnter` and spurious wakeups are the application's or the
platform's and need not happen.

Properties: `WaitMeansDone` (a `Wait` that returns has seen every thread
spawned before it finish), `WaitReturns` (a `Wait` that began returns).

### NotifyPipe (`pro_net/pro_notify_pipe.cpp`)

`CProNotifyPipe` is the socket pair by which a thread that changes the
reactor's watched set wakes the reactor thread blocked in `select`.
`enableNotify` and `notifyTick` are its two members, `pipe` the bytes
written and not yet read, `now` the millisecond clock. `Notify` takes no
lock, so it is three actions per writer (`wpc`): `NotifyCheck` (the reads
of both members and the early return when a byte was already written in
this millisecond, lines 168-176), `NotifySend` (`pbsd_send`) and
`NotifyStore` (the writes after a successful send, lines 180-183).
`EnableNotify` (lines 153-157) is a reactor step. The reactor itself is
not in `src/`: `Change` (a writer changes the watched set, then calls
`Notify`), `Wake` (select returns on a readable pipe, which is drained)
and `Scan` (the reactor takes in the watched set) are modelled from
spec 4.1, in the order it gives. `Init`'s socket creation and `Fini` are
not modelled: the model starts with the pair created, and the `-1`
early return of `Notify` is not reachable in it. No fairness: the only
run is a safety violation.

## 4. Runs

`MC_RtpOutput` gives the constants in abstract byte units: for the video
bucket one unit is 512 KiB, so `BASE_REDLINE_BYTES` = 2 and
`MAX_FRAME_BYTES` = 6 keep their real ratio (a frame's own bucket refuses
packets long before the frame is too big); packets have 1 or 2 units; the
session redlines are 2–3 units and 2 frames so that four packets reach them.
The application sends at most 4 packets (`MaxPackets`), enough for two
frames to be queued, a redline drop, a key-frame flush, and a 4-packet frame
whose prefix would reach `MAX_FRAME_BYTES` (observation 2). `CHECK_DEADLOCK FALSE`: the
application stops after `MaxPackets`, and a quiet session then has nothing
to do.

| Run | Expect | Properties | What it shows |
|---|---|---|---|
| `output_video` | pass | TypeOK, FramesConservation, KeyFrameChain, Drained, ErasureReported | The video bucket's frame count stays exact through discards, flushes and sends; no frame follows a dropped reference frame; the sendable backlog drains while the session is up; an erasure is reported. |
| `output_mixed` | pass | BytesConservation, TimerDeadline, Drained, ErasureReported | Over the generic and the audio bucket (the bucket's class is chosen in `Init`), with packets sent both by `SendPacket` and by `SendPacketByTimer` and with `SetOutputRedline` raising and lowering the redline in between: the byte count is exact through evictions, refusals and resets; whatever the timer list holds has reached the bucket one tick before the latest call's duration ends; the queue drains; erasures are reported. |
| `video_bytes_drift` | violation | BytesConservation | Finding 1. |
| `server_maps` | pass | TypeOK, MapsConsistent, LiveSessionsTracked, DirectorySpec, ClosedReleased | The maps agree, context pointers are live, and exactly the undeleted sessions are in `m_session2Ctx`, through any order of reconnects, logins, logouts, closes and kickouts; the server refines `UserDirectory`; a session the peer closed is eventually removed and deleted. |
| `config_stream` | pass | TypeOK, GetMatchesLog, StreamRoundTrip | Through any Add/Remove/Clear sequence, `Get` groups the items by name in first-added order, and `BufToConfigs(ToString)` gives `Get` back. |
| `config_bom_rejected` | violation | BomTolerated | Finding 6. |
| `server_stale_login` | violation | SubUsersRequested | Finding 3. |
| `tcp_server` | pass | TypeOK, DummyPaired, SessionOrdering, FramesInOrder, FramesDrained | No dummy port is held outside a set-up session or beside the wrong port, after failed or repeated `Init`s; the observer sees `OnOkSession`, packets, `OnCloseSession` in that order and nothing after the close; `OnRecv` stays on frame boundaries for any chunking, hands up the valid frames in order, and leaves no whole frame unread. |
| `sgi_pool` | pass | TypeOK, BlocksDisjoint, NoLeak, CapacityOK | Two buffers allocated, reallocated across classes, instances and the malloc boundary and freed in any order, with chunks running out, partial refills, leftovers spread over the free lists, a half-chunk retry and scavenging: no byte is handed out twice, none is lost, and every buffer holds its header's size, for sizes outside the top class. |
| `sgi_realloc_grow` | violation | CapacityOK | Finding 8. |
| `notify_lost_wakeup` | violation | NoStrandedChange | Finding 9. |
| `thread_base` | pass | TypeOK, WaitMeansDone, WaitReturns | With thread creation that may fail and spurious wakeups, `Wait` returns only once every thread spawned before it has left `Svc`, and a `Wait` that began returns. |

`output_mixed` uses 1-unit packets (the generic redline of 2 and the audio
redline of 3 are still reached by four packets), timer durations of 0 and
4 ms and 5 ticks: 4 ms leaves three ticks of rounded pacing before the
deadline, enough for a tick to send fewer than the spec's ceil. The
application may call `SetOutputRedline` with 0 (keep), 1 (below a backlog
of one packet) or 4 bytes (above both defaults), any number of times. About
381 000 states, 2 minutes. `output_video` keeps its redlines (arguments
{0}: a changing video redline multiplies its state space past five
minutes; `MC_RtpOutput_video_bytes.cfg` gives it 0 or 1 for both); about
178 000 states.

`MC_NotifyPipe` has one writer, three changes and a clock of two
milliseconds: one writer suffices, because the reactor's drain and
`EnableNotify` are what fall between its send and its stores, and the
second millisecond lets the store write a non-zero tick. As a control, the
same model with the send and the stores as one step (what a lock around
them would give) satisfies `NoStrandedChange`, with one writer (182
states) and with two (622).

`MC_ConfigStream` uses the names `a`, the empty name and `"# "`, and the
values empty, tab-semicolon and `//`: every comment and blank character the
parser looks for, inside quotes, and the empty fields. Up to 3 items and 3
indices: enough to add, remove and re-add a name behind another. About
1 600 states; the parser runs on every one of them.

`MC_RtpMsgServer` has three connections: the relay `a` twice (so that a
reconnect can overtake commands of its first session) and the client `x`
once; `x` and `y` can also log in through `a`, so a client can move from a
base binding to a relay and back. `MaxPending` = 2 makes both the refused
and the accepted branch of each capped queue reachable; each connection
sends at most 2 C2S messages (a login and a logout, or two logins), the
application kicks out at most one user, and headers have up to 2
destinations. About 458 000 states.

`MC_RtpSessionTcpserver` has ports 2–5, of which 3 and 4 may be busy, two
tries per `Init` and two `Init`s: enough for a pass whose dummy fails, a
pass whose acceptor fails after its dummy opened, success on the second
port, an `Init` that runs out of tries, and an `Init` after a `Fini`. The
application passes port 0 or the odd port 3 (one pass, no dummy). A peer
sends one or two frames from: empty, bad, and two valid frames of 1 and 2
bytes, in every chunking. The transport and the packet allocation may
fail. About 70 000 states. `CHECK_DEADLOCK FALSE`: after its last `Init`
fails, or after `Fini`, the session has nothing left to do.

`MC_SgiPool` replaces the 60 classes by `<<1, 2, 3, 4, 6, 8>>`: 4 stands
for both `SMALL_OBJ_SIZE` and the 4096 of `_S_chunk_alloc`, 8 for
`_MAX_BYTES`, and the first class, like the 8-byte one, is reached only by
leftovers. Header 1, 3 objects per refill, a chunk of 12, and a heap of
27 addresses: the requests (0, 3, 4 or 9 bytes; reallocations to 1 or 9)
give blocks of class 2, 4 and 6 and malloc'd blocks of 10, so that a chunk
runs out part way (partial refill and leftovers), the third chunk fails
and the half chunk succeeds or scavenging takes over, and a realloc keeps
its block (2 to 2), moves between instances (5 to 2) and crosses
`_MAX_BYTES` both ways. The 27 is chosen so that a malloc can end exactly
at the limit. Sizes of the top class (6 and 7 bytes, 7 and 8 with the
header) are left to `MC_SgiPool_grow.cfg`, which exists to show what they
do. About 122 000 states, 25 s.

`MC_ThreadBase` has two threads, either of which may fail to be created,
and one `Wait` caller, which may call before, between or after the
spawns; every interleaving of the two `SvcRun`s with the waiter's loop
and its spurious wakeups is explored. About 540 states. With a second
`Wait` caller `WaitReturns` fails: the last `Signal` may wake only one of
them (see the hazard at `pro_thread.cpp:191`); the run keeps one caller,
as the library's users do (`Wait` is called by the owner that stops the
threads). `CHECK_DEADLOCK FALSE`: once the threads are done and `Wait`
returned, nothing is left to do.

Each property of a passing run has a mutant in `PROJECT.json` (an operator
named `...NoRequest`, `...KeepCount`, ... defined just before the definition
it replaces) that TLC finds violating it.

### Findings

1. **Video bucket byte count drifts** (`rtp_bucket.cpp:424`).
   `CRtpVideoBucket::PushBackAddRef` ignores the result of pushing the packet
   into the frame's own `CRtpBucket` (redline `BASE_REDLINE_BYTES`) but adds
   its size to `m_totalBytes`. Once a frame passes 1 MiB, later packets are
   dropped from the frame yet counted. The count only comes back down as
   much as is popped or discarded, so the excess stays until a `Reset`; it
   makes the bucket look fuller than it is, and non-key frames are refused
   at the redline earlier than the bytes really held would require.
2. *Observation, no run.* **Oversized frames are sent truncated**
   (`rtp_bucket.cpp:433`). The
   `MAX_FRAME_BYTES` test reads the frame's own byte count, which stops near
   1 MiB, so it can never fire: such a frame is kept, cut to its first
   1 MiB without its marker packet, and sent. An earlier violation run
   (`OversizedFrameDropped`) showed it; it was retired to keep the project
   within twelve runs, as it follows from finding 1's ignored push.

3. **A stale C2S login lands on the relay's new session**
   (`rtp_msg_server.cpp:1538`). Trace: relay `a` is online on `c1`; its
   reconnect `c2` is accepted and queued; `a` sends `client_login(x)` on
   `c1`, which is still current, so it is queued behind the accept. The
   accept replaces `c1`'s context with `c2`'s; the login then runs and
   `AddSubUser` binds `x` to `a`'s current context, on `c2`, and sends
   `client_login_ok` there. The relay on `c2` never asked for `x`.
4. *Observation, no run.* **The task queue exceeds `MAX_PENDING_COUNT`**
   (`rtp_msg_server.cpp:1312`). Closes, logouts and kickouts are queued
   without the cap that spec 4.9 states (the spec lists the logout case as
   an open question). Its violation run (`QueueBounded`) was retired to
   keep within twelve runs: capping these commands would lose closes, so
   it is the weakest of the disagreements.
5. *Observation, no run.* **Two packets to one session**
   (`rtp_msg_server.cpp:932`). A header that names a user twice, or a
   relay and one of its clients, makes `OnRecvSession` send two packets to
   the same session; spec 4.9 says exactly one. Its violation run
   (`OnePacketPerSession`) was retired to make room for `thread_base`,
   and the routing loop is no longer modelled: that every bound
   destination is reached follows from `MapsConsistent` alone.

6. **A BOM is never skipped on signed-char builds**
   (`pro_config_stream.cpp:84`). `p[0] == 0xEF` compares a `char` with
   239; where `char` is signed, `p[0]` is -17 and the test is always false.
   The first line then starts with byte 0xEF rather than a quote and the
   whole text is rejected, even a file holding only the BOM. With unsigned
   `char` the same model passes `BomTolerated`.

7. *Observation, no run.* **A bad TCP frame is skipped, not fatal**
   (`rtp_session_tcpserver.cpp:390`). When `ParseRtpBuffer` refuses a
   frame, `OnRecv` flushes it and continues with the next one; the session
   stays open and the observer is not told. Spec 4.4 says any parse failure
   closes the session with `BAD_FRAME`. Trace: the peer sends a bad frame,
   it is consumed, and the session is still up. Its violation run
   (`BadFrameCloses`) was retired to make room for `notify_lost_wakeup`;
   `FramesInOrder` still checks that the valid frames around a bad one are
   handed up in order.

8. **Growing a top-class pool buffer past 128 KiB overflows it**
   (`stl_alloc.h:210`). `reallocate` keeps the block when
   `_S_round_up(old) == _S_round_up(new)`, and `_S_round_up` clamps every
   size above `_MAX_BYTES` to the 128 KiB class. A buffer of 126 977 to
   131 072 bytes (header included) grown past 128 KiB comes back unchanged;
   `ProReallocateSgiPoolBuffer` writes the new size into its header
   (`pro_shared.cpp:1148`) and the caller writes past the block; freeing it
   later hands a pool block to `free()`. Trace: allocate 7 (header value 8,
   the top class), reallocate to 9 (header 10): same block, capacity 8.
   The mirror case, shrinking a malloc'd block above 128 KiB to the top
   class, keeps the block too and later pushes it onto the 128 KiB free
   list, losing its excess.

9. **A late store in `Notify` strands a change**
   (`pro_notify_pipe.cpp:181`). `Notify` writes `m_enableNotify = false`
   and `m_notifyTick` after `pbsd_send`, without a lock. Trace: a writer
   changes the set and sends a byte; before its stores, the reactor wakes,
   drains the pipe, calls `EnableNotify` and takes in the set; the stores
   then disable the pipe with `m_notifyTick` = now although no byte is
   pending. A second change in the same millisecond makes `Notify` return
   at `tick <= m_notifyTick`, and the reactor stays in `select` on an empty
   pipe with the change not taken in, until some later `Notify` in a later
   millisecond or another event wakes it. Spec 4.1 says the pipe wakes the
   selecting thread whenever the watched set changes.

## 5. Not modelled

- `CProFileMonitor` and the tick and timer-id functions of
  `pro_shared.cpp`: small concurrent utilities. The stale `m_exist` of
  `UpdateFileExist` is listed as a hazard without a property; the per-thread wrap
  count of `ProGetTickCount64_s` (a thread idle for a whole 49.7-day wrap
  misses one) are further such windows. The project uses the twelve runs
  it may have on the components above, and the tick extension is
  Windows-only code.
- In `ThreadBase`, the priority a thread takes: `SvcRun` reads
  `m_realtime` outside the lock (`pro_thread.cpp:176`), so a second
  `Spawn` with another flag can overwrite it first and the earlier thread
  runs with the later call's priority. The model records it (`prio`) but
  no run checks it: the priority does not change what any property is
  about.
- `pro_z.cpp`: string helpers (character data).
- Headers with no implementation in `src/`.
- Flow and rate statistics (`m_flowStat`, `m_stat*`): they are only read by
  getters.
- `CProNotifyPipe::Init` and `Fini` (socket-pair creation and close).
- The message server's id counters (their wrap from 0xFFFFFFFFFF to
  0xF000000000 needs some 2^36 assignments, and `OnCheckUser` may set ids
  itself), `SendMsg`, `Init`/`Fini`,
  `SetOutputRedline` and the SSL accept (identical to the TCP one after
  its own checks); the observer's application state.
- The per-tick rate of the send timer against spec 4.8: `OnTimer` rounds
  `pending/remaining` to nearest where the spec says ceil (4 pending with
  3 ms left sends 1, not 2). Only the deadline is checked
  (`TimerDeadline`); the rate changes how evenly packets are spread, not
  whether they are sent.
- The numeric `AddInt`/`GetInt`/... overloads of the config stream: they
  format and scan numbers around `Add` and `Get`.
- The wrap of the config stream's `m_nextIndex` (see its hazard).
- The window of `OnRecv` and `OnAccept` between their `m_lock` section and
  their upcall: one step in the model, so an upcall after `Fini` is not
  explored (see the hazard at `rtp_session_tcpserver.cpp:421`).
- Zero-size payloads: packets have positive sizes (see the hazard at
  `rtp_bucket.cpp:84`).
