---------------------------- MODULE MC_NotifyPipe ----------------------------
(* Model-checking instance of NotifyPipe: one writer thread (enough for    *)
(* its own delayed store to race the reactor) and two milliseconds.        *)
EXTENDS NotifyPipe

CONSTANTS w1

MCWriters == {w1}
====
