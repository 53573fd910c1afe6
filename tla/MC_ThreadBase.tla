---------------------------- MODULE MC_ThreadBase ----------------------------
(***************************************************************************)
(* CProThreadBase with two threads and one caller of Wait (the owner that  *)
(* waits for its pool to end); a Spawn may fail.                           *)
(***************************************************************************)
EXTENDS ThreadBase

CONSTANTS t1, t2, w1

MCThreads == {t1, t2}
MCWaiters == {w1}
====
