--------------------------- MODULE MC_RtpMsgServer ---------------------------
(* Three connections: the C2S relay a connects twice (a reconnect), the    *)
(* client x once; x and y can also log in through a.                       *)
EXTENDS RtpMsgServer

CONSTANTS a, x, y, c1, c2, c3

MCUsers == {a, x, y}
MCC2sUsers == {a}
MCConns == {c1, c2, c3}
MCConnUser == (c1 :> a) @@ (c2 :> a) @@ (c3 :> x)
====
