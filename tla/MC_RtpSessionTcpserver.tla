------------------------ MODULE MC_RtpSessionTcpserver ------------------------
EXTENDS RtpSessionTcpserver

(* Frames as the peer encodes them: empty, bad, and two valid ones whose   *)
(* payloads tell them apart.                                               *)
MCFrames == {<<0, 0>>, <<0, 1, BadByte>>, <<0, 1, 1>>, <<0, 2, 2, 2>>}

(* Every stream of one or two frames. *)
MCStreams ==
  {f : f \in MCFrames} \cup {f \o g : f, g \in MCFrames}

MCPorts == {2, 3, 4, 5}
MCLocalPorts == {0, 3}
MCBusyPorts == {3, 4}
====
