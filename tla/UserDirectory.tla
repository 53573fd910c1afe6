---------------------------- MODULE UserDirectory ----------------------------
(***************************************************************************)
(* What the message server promises about who is online, without sessions *)
(* or the task queue.  via[u] is the base user through which the online    *)
(* user u is reached (u itself for a base user, its C2S relay for a        *)
(* sub-user); c2s is the set of online base users accepted as C2S relays;  *)
(* asked holds the pairs <<relay, client>> of logins a relay has pending.  *)
(*                                                                         *)
(* A base user's arrival replaces whatever binding it had; a client comes  *)
(* online only through a C2S relay that is online as a base user and has  *)
(* asked for it; a base user leaves together with all users reached        *)
(* through it, a sub-user leaves alone.  RtpMsgServer implements it.       *)
(***************************************************************************)
EXTENDS FiniteSets, Functions, TLC

CONSTANTS Users

VARIABLES via, c2s, asked

dirVars == <<via, c2s, asked>>

TypeOK ==
  /\ DOMAIN via \subseteq Users
  /\ \A u \in DOMAIN via : via[u] \in DOMAIN via /\ via[via[u]] = via[u]
  /\ c2s \subseteq DOMAIN via
  /\ asked \subseteq Users \X Users

(* The users reached through base user b. *)
Group(b) == {u \in DOMAIN via : via[u] = b}

(* The users still online once u's binding is dropped. *)
Unbind(u) ==
  IF u \notin DOMAIN via THEN DOMAIN via
  ELSE IF via[u] = u THEN DOMAIN via \ Group(u)
  ELSE DOMAIN via \ {u}

Leave(u) ==
  /\ u \in DOMAIN via
  /\ via' = Restrict(via, Unbind(u))
  /\ c2s' = c2s \ {u}
  /\ UNCHANGED asked

JoinBase(u, isC2s) ==
  /\ via' = (u :> u) @@ Restrict(via, Unbind(u))
  /\ c2s' = IF isC2s THEN c2s \cup {u} ELSE c2s \ {u}
  /\ UNCHANGED asked

JoinSub(x, a) ==
  /\ a \in c2s
  /\ x # a
  /\ <<a, x>> \in asked
  /\ via' = (x :> a) @@ Restrict(via, Unbind(x))
  /\ c2s' = c2s \ {x}
  /\ asked' \subseteq asked

(* Relays ask for clients and withdraw; the directory does not change. *)
Request ==
  /\ asked' \subseteq Users \X Users
  /\ UNCHANGED <<via, c2s>>

Init ==
  /\ via = <<>>
  /\ c2s = {}
  /\ asked = {}

Next ==
  \/ \E u \in Users : Leave(u)
  \/ \E u \in Users, isC2s \in BOOLEAN : JoinBase(u, isC2s)
  \/ \E x, a \in Users : JoinSub(x, a)
  \/ Request

Spec == Init /\ [][Next]_dirVars
====
