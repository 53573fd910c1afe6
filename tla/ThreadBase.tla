------------------------------ MODULE ThreadBase ------------------------------
(***************************************************************************)
(* CProThreadBase (src/src/pro/pro_util/pro_thread.cpp): Spawn starts a    *)
(* thread running SvcRun and counts it in m_threadCount; SvcRun waits for  *)
(* Spawn to leave m_lock, reads m_realtime, runs Svc, and under m_lock     *)
(* uncounts itself and signals m_cond; Wait loops on m_cond while the      *)
(* count is positive.                                                      *)
(*                                                                         *)
(* Every section under m_lock is one step.  m_cond.Wait releases the lock  *)
(* and blocks; CProThreadCondition is not in this repository's sources,    *)
(* so its Signal is modelled as a condition variable's signal: it wakes at *)
(* least one blocked waiter (none if there is none), and a blocked waiter  *)
(* may also wake spuriously.                                               *)
(***************************************************************************)
EXTENDS Naturals, FiniteSets

CONSTANTS
  Threads,   \* the threads Spawn may create (a bound on Spawn calls that succeed)
  Waiters,   \* the application threads that call Wait
  CanFail    \* pthread_create / _beginthreadex may fail

VARIABLES
  threadCount,  \* m_threadCount
  realtime,     \* m_realtime
  th,           \* per thread: "none", "created", "synced", "running", "done"
  prio,         \* per thread: the m_realtime it read in SvcRun
  wt,           \* per waiter: "idle", "waiting", "woken", "returned"
  before        \* history: per waiter, the threads spawned when its Wait began

vars == <<threadCount, realtime, th, prio, wt, before>>

Init ==
  /\ threadCount = 0
  /\ realtime = FALSE
  /\ th = [t \in Threads |-> "none"]
  /\ prio = [t \in Threads |-> FALSE]
  /\ wt = [w \in Waiters |-> "idle"]
  /\ before = [w \in Waiters |-> {}]

(* Mutant: the count is raised before the thread is known to exist. *)
SpawnCountFailed(t, rt, ok) ==
  /\ th[t] = "none"
  /\ threadCount' = threadCount + 1
  /\ realtime' = IF ok THEN rt ELSE realtime
  /\ th' = IF ok THEN [th EXCEPT ![t] = "created"] ELSE th
  /\ UNCHANGED <<prio, wt, before>>

(* Spawn: under m_lock, create the thread; on failure return false,        *)
(* else count it and store the realtime flag.                              *)
Spawn(t, rt, ok) ==
  /\ th[t] = "none"
  /\ threadCount' = IF ok THEN threadCount + 1 ELSE threadCount
  /\ realtime' = IF ok THEN rt ELSE realtime
  /\ th' = IF ok THEN [th EXCEPT ![t] = "created"] ELSE th
  /\ UNCHANGED <<prio, wt, before>>

(* SvcRun's empty m_lock section: the thread waits for Spawn to finish. *)
SvcSync(t) ==
  /\ th[t] = "created"
  /\ th' = [th EXCEPT ![t] = "synced"]
  /\ UNCHANGED <<threadCount, realtime, prio, wt, before>>

(* SvcRun reads m_realtime outside the lock to set its priority, then     *)
(* runs Svc.                                                              *)
SvcStart(t) ==
  /\ th[t] = "synced"
  /\ th' = [th EXCEPT ![t] = "running"]
  /\ prio' = [prio EXCEPT ![t] = realtime]
  /\ UNCHANGED <<threadCount, realtime, wt, before>>

(* m_cond.Signal(): at least one blocked waiter wakes. *)
Signal ==
  LET blocked == {w \in Waiters : wt[w] = "waiting"}
  IN \E s \in SUBSET blocked :
       /\ blocked # {} => s # {}
       /\ wt' = [w \in Waiters |-> IF w \in s THEN "woken" ELSE wt[w]]

(* Mutant: the last thread leaves without signalling. *)
SvcFinishNoSignal(t) ==
  /\ th[t] = "running"
  /\ th' = [th EXCEPT ![t] = "done"]
  /\ threadCount' = threadCount - 1
  /\ UNCHANGED <<realtime, prio, wt, before>>

(* Svc has returned: under m_lock, uncount the thread and signal. *)
SvcFinish(t) ==
  /\ th[t] = "running"
  /\ th' = [th EXCEPT ![t] = "done"]
  /\ threadCount' = threadCount - 1
  /\ Signal
  /\ UNCHANGED <<realtime, prio, before>>

(* Wait's first entry into m_lock. *)
WaitEnter(w) ==
  /\ wt[w] = "idle"
  /\ before' = [before EXCEPT ![w] = {t \in Threads : th[t] # "none"}]
  /\ wt' = [wt EXCEPT ![w] = IF threadCount > 0 THEN "waiting" ELSE "returned"]
  /\ UNCHANGED <<threadCount, realtime, th, prio>>

(* Mutant: the loop is an if; a wakeup returns whatever the count. *)
WaitRecheckOnce(w) ==
  /\ wt[w] = "woken"
  /\ wt' = [wt EXCEPT ![w] = "returned"]
  /\ UNCHANGED <<threadCount, realtime, th, prio, before>>

(* A woken waiter takes m_lock back and tests the loop condition again. *)
WaitRecheck(w) ==
  /\ wt[w] = "woken"
  /\ wt' = [wt EXCEPT ![w] = IF threadCount > 0 THEN "waiting" ELSE "returned"]
  /\ UNCHANGED <<threadCount, realtime, th, prio, before>>

(* A blocked waiter wakes without a signal. *)
SpuriousWakeup(w) ==
  /\ wt[w] = "waiting"
  /\ wt' = [wt EXCEPT ![w] = "woken"]
  /\ UNCHANGED <<threadCount, realtime, th, prio, before>>

Next ==
  \/ \E t \in Threads, rt \in BOOLEAN, ok \in IF CanFail THEN BOOLEAN ELSE {TRUE} :
        Spawn(t, rt, ok)
  \/ \E t \in Threads : SvcSync(t) \/ SvcStart(t) \/ SvcFinish(t)
  \/ \E w \in Waiters : WaitEnter(w) \/ WaitRecheck(w) \/ SpuriousWakeup(w)

(* A thread, once created, runs to its end (Svc returns: Wait is called   *)
(* after Svc has been told to stop), and a woken waiter gets m_lock back. *)
(* The application's Spawn and Wait calls and spurious wakeups need not   *)
(* happen.                                                                 *)
Spec ==
  /\ Init /\ [][Next]_vars
  /\ \A t \in Threads : WF_vars(SvcSync(t)) /\ WF_vars(SvcStart(t)) /\ WF_vars(SvcFinish(t))
  /\ \A w \in Waiters : WF_vars(WaitRecheck(w))

-----------------------------------------------------------------------------
TypeOK ==
  /\ threadCount \in 0..Cardinality(Threads)
  /\ realtime \in BOOLEAN
  /\ th \in [Threads -> {"none", "created", "synced", "running", "done"}]
  /\ prio \in [Threads -> BOOLEAN]
  /\ wt \in [Waiters -> {"idle", "waiting", "woken", "returned"}]
  /\ before \in [Waiters -> SUBSET Threads]

(* When Wait returns, every thread spawned before it was called has left  *)
(* Svc and uncounted itself: the while loop of Wait, the increment in      *)
(* Spawn and the decrement at the end of SvcRun agree, through spurious    *)
(* and early wakeups.                                                      *)
WaitMeansDone ==
  \A w \in Waiters :
     wt[w] = "returned" => \A t \in before[w] : th[t] = "done"

(* A Wait that has begun returns once the threads it waits for have       *)
(* ended: the last SvcRun signals m_cond after uncounting itself.          *)
WaitReturns ==
  \A w \in Waiters : (wt[w] # "idle") ~> (wt[w] = "returned")
====
