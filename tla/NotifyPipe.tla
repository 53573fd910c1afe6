------------------------------ MODULE NotifyPipe ------------------------------
(***************************************************************************)
(* CProNotifyPipe (src/src/pro/pro_net/pro_notify_pipe.cpp): a connected   *)
(* socket pair by which other threads wake the reactor thread blocked in   *)
(* select on the reader end.  Notify writes one byte unless a byte was     *)
(* written in the same millisecond and the reactor has not yet called      *)
(* EnableNotify; EnableNotify re-arms it.  Notify takes no lock: its       *)
(* reads of m_enableNotify and m_notifyTick, the send, and its writes of   *)
(* the two members are separate steps, which the reactor's EnableNotify    *)
(* may fall between.  The two reads are one step here: a torn read, with  *)
(* m_enableNotify from before an EnableNotify and m_notifyTick from after  *)
(* it, sends as a read after it does.  Notify after a failed Init or after *)
(* Fini (writer socket -1) returns at once; the model starts with the pair *)
(* created and has no Fini.                                                *)
(*                                                                         *)
(* The reactor is not in this repository's sources; its loop is modelled  *)
(* from spec 4.1: a thread that changes the watched set then calls Notify; *)
(* the selecting thread wakes when the pipe is readable, drains it, calls  *)
(* EnableNotify, and then takes in the changed set.                        *)
(***************************************************************************)
EXTENDS Naturals

CONSTANTS
  Writers,     \* threads that change the watched set and call Notify
  MaxChanges,  \* bound: changes of the watched set
  MaxTick      \* bound: the millisecond clock of ProGetTickCount64

VARIABLES
  enableNotify,  \* m_enableNotify
  notifyTick,    \* m_notifyTick
  now,           \* ProGetTickCount64(), in ms
  pipe,          \* bytes written to the pipe and not yet read
  wpc,           \* per writer: "idle", "check", "send", "store"
  wtick,         \* per writer: Notify's local tick
  rpc,           \* the reactor thread: "select", "enable", "scan"
  dirty,         \* a change of the watched set the reactor has not taken in
  changes        \* changes so far

vars == <<enableNotify, notifyTick, now, pipe, wpc, wtick, rpc, dirty, changes>>

(* The constructor, and Init having created the socket pair. *)
Init ==
  /\ enableNotify = TRUE
  /\ notifyTick = 0
  /\ now = 1
  /\ pipe = 0
  /\ wpc = [w \in Writers |-> "idle"]
  /\ wtick = [w \in Writers |-> 0]
  /\ rpc = "select"
  /\ dirty = FALSE
  /\ changes = 0

(* A writer changes the watched set (add_handler, remove_handler) and      *)
(* goes on to call Notify.                                                 *)
Change(w) ==
  /\ wpc[w] = "idle" /\ changes < MaxChanges
  /\ dirty' = TRUE /\ changes' = changes + 1
  /\ wpc' = [wpc EXCEPT ![w] = "check"]
  /\ UNCHANGED <<enableNotify, notifyTick, now, pipe, wtick, rpc>>

(* Notify, up to the send: while disabled, a call in the millisecond of    *)
(* the last byte (tick <= m_notifyTick) returns; tick stays 0 when the    *)
(* pipe was enabled.                                                       *)
NotifyCheck(w) ==
  /\ wpc[w] = "check"
  /\ LET tick == IF enableNotify THEN 0 ELSE now IN
     IF ~enableNotify /\ tick <= notifyTick
     THEN /\ wpc' = [wpc EXCEPT ![w] = "idle"]
          /\ UNCHANGED wtick
     ELSE /\ wpc' = [wpc EXCEPT ![w] = "send"]
          /\ wtick' = [wtick EXCEPT ![w] = tick]
  /\ UNCHANGED <<enableNotify, notifyTick, now, pipe, rpc, dirty, changes>>

(* pbsd_send of one byte on the writer end; the socket buffer (8 KiB)      *)
(* outlasts any number of bytes the model writes.                          *)
NotifySend(w) ==
  /\ wpc[w] = "send"
  /\ pipe' = pipe + 1
  /\ wpc' = [wpc EXCEPT ![w] = "store"]
  /\ UNCHANGED <<enableNotify, notifyTick, now, wtick, rpc, dirty, changes>>

(* After a successful send: m_enableNotify = false, and m_notifyTick the   *)
(* tick read before, or the clock read now.                                *)
NotifyStore(w) ==
  /\ wpc[w] = "store"
  /\ enableNotify' = FALSE
  /\ notifyTick' = IF wtick[w] > 0 THEN wtick[w] ELSE now
  /\ wpc' = [wpc EXCEPT ![w] = "idle"]
  /\ UNCHANGED <<now, pipe, wtick, rpc, dirty, changes>>

(* The reactor thread wakes on a readable pipe and reads it empty. *)
Wake ==
  /\ rpc = "select" /\ pipe > 0
  /\ pipe' = 0 /\ rpc' = "enable"
  /\ UNCHANGED <<enableNotify, notifyTick, now, wpc, wtick, dirty, changes>>

(* CProNotifyPipe::EnableNotify, from the reactor thread. *)
EnableNotify ==
  /\ rpc = "enable"
  /\ enableNotify' = TRUE /\ notifyTick' = 0
  /\ rpc' = "scan"
  /\ UNCHANGED <<now, pipe, wpc, wtick, dirty, changes>>

(* The reactor takes in the watched set and selects again. *)
Scan ==
  /\ rpc = "scan"
  /\ dirty' = FALSE /\ rpc' = "select"
  /\ UNCHANGED <<enableNotify, notifyTick, now, pipe, wpc, wtick, changes>>

(* The millisecond clock advances. *)
Tick ==
  /\ now < MaxTick
  /\ now' = now + 1
  /\ UNCHANGED <<enableNotify, notifyTick, pipe, wpc, wtick, rpc, dirty, changes>>

Next ==
  \/ \E w \in Writers :
       Change(w) \/ NotifyCheck(w) \/ NotifySend(w) \/ NotifyStore(w)
  \/ Wake \/ EnableNotify \/ Scan
  \/ Tick

Spec == Init /\ [][Next]_vars

-----------------------------------------------------------------------------
(* Spec 4.1: the notify pipe wakes the selecting thread whenever the       *)
(* watched set changes.  The reactor is never blocked in select on an      *)
(* empty pipe while a change it has not taken in waits there with no       *)
(* Notify of it still to write its byte.                                   *)
NoStrandedChange ==
  (rpc = "select" /\ pipe = 0 /\ dirty) =>
    \E w \in Writers : wpc[w] \in {"check", "send"}
====
