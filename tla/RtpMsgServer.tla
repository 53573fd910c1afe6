----------------------------- MODULE RtpMsgServer -----------------------------
(***************************************************************************)
(* CRtpMsgServer of src/src/pro/pro_rtp/rtp_msg_server.cpp: the broker     *)
(* that binds users to sessions.  m_session2Ctx and m_user2Ctx map a       *)
(* session to its link context RTP_MSG_LINK_CTX {session, baseUser, isC2s, *)
(* subUsers} and a user to the context it is bound to.  The I/O callbacks  *)
(* (OnAcceptSession, OnRecvSession, OnCloseSession) and KickoutUser only   *)
(* read the maps and queue a functor command on m_task; one worker thread  *)
(* runs the commands in order (AsyncOnAcceptSession, AsyncOnRecvSession,   *)
(* AsyncOnCloseSession, AsyncKickoutUser), and only they change the maps.  *)
(* Every step holds m_lock, so each callback and each command is one       *)
(* action.  The observer upcalls made after the unlock (OnCheckUser,       *)
(* OnOkUser, OnCloseUser) run on the same thread as the command.           *)
(*                                                                         *)
(* A connection is a model value; the session created for it by            *)
(* AddBaseUser is named by the same value.  The user a connection claims   *)
(* in its handshake is the constant ConnUser.  The C2S relay at the other  *)
(* end of a session (not in src/) sends client_login and client_logout     *)
(* for its local clients; requested[c] is the set of clients it has asked  *)
(* for over c and not logged out.                                          *)
(***************************************************************************)
EXTENDS Naturals, Sequences, FiniteSets, Functions, TLC

CONSTANTS
  Users,        \* RTP_MSG_USER values (classId, userId, instId)
  C2sUsers,     \* the users of classId SERVER_CID (C2S relays)
  Conns,        \* accepted sockets, and the sessions made for them
  ConnUser,     \* the baseUser each connection claims in its handshake
  NoUser,       \* model value: no user
  NoConn,       \* model value: no connection
  MaxPending,   \* MAX_PENDING_COUNT
  MaxC2sMsgs,   \* bound: C2S protocol messages sent over one connection
  MaxKickouts   \* bound: KickoutUser calls by the application

ASSUME ConnUser \in [Conns -> Users] /\ C2sUsers \subseteq Users
ASSUME NoUser \notin Users /\ NoConn \notin Conns

VARIABLES
  session2Ctx,  \* m_session2Ctx: session -> [base, isC2s, subs]
  user2Ctx,     \* m_user2Ctx: user -> session of its context
  task,         \* m_task: the queued functor commands, in order
  conn,         \* lifecycle of each connection and of its session wrapper
  requested,    \* the C2S relay's view: clients asked for over a session
  c2sSent,      \* C2S protocol messages sent over each connection
  kickouts      \* KickoutUser calls so far

vars == <<session2Ctx, user2Ctx, task, conn, requested, c2sSent, kickouts>>

ConnStates == {"idle", "queued", "open", "closing", "gone"}
TaskKinds == {"accept", "login", "logout", "close", "kickout"}

Ctx == [base : Users, isC2s : BOOLEAN, subs : SUBSET Users]
Task == [kind : TaskKinds, conn : Conns \cup {NoConn}, user : Users \cup {NoUser}]

(* The two maps as one value, with the sessions a step deletes. *)
Maps == [s2c |-> session2Ctx, u2c |-> user2Ctx, deleted |-> {}]

(* OnCheckUser sets isC2s; only a SERVER_CID user can use the C2S port. *)
C2sFlags(u) == IF u \in C2sUsers THEN BOOLEAN ELSE {FALSE}

-----------------------------------------------------------------------------
(* Mutant of RemoveOld: a base user's sub-users stay in m_user2Ctx. *)
RemoveOldKeepSubs(m, u) ==
  IF u \notin DOMAIN m.u2c THEN m
  ELSE LET s == m.u2c[u] IN
       IF u = m.s2c[s].base
       THEN [s2c |-> Restrict(m.s2c, DOMAIN m.s2c \ {s}),
             u2c |-> Restrict(m.u2c, DOMAIN m.u2c \ {u}),
             deleted |-> m.deleted \cup {s}]
       ELSE [m EXCEPT !.s2c[s].subs = @ \ {u},
                      !.u2c = Restrict(@, DOMAIN @ \ {u})]

(* Mutant of RemoveOld: a sub-user stays in its old ctx->subUsers. *)
RemoveOldKeepInCtx(m, u) ==
  IF u \notin DOMAIN m.u2c THEN m
  ELSE LET s == m.u2c[u] IN
       IF u = m.s2c[s].base
       THEN [s2c |-> Restrict(m.s2c, DOMAIN m.s2c \ {s}),
             u2c |-> Restrict(m.u2c, DOMAIN m.u2c \ ({u} \cup m.s2c[s].subs)),
             deleted |-> m.deleted \cup {s}]
       ELSE [m EXCEPT !.u2c = Restrict(@, DOMAIN @ \ {u})]

(* The "remove old" block of AddBaseUser, AddSubUser and AsyncKickoutUser. *)
(* A base user takes its whole context with it: its sub-users leave        *)
(* m_user2Ctx, the context leaves m_session2Ctx, and its session is        *)
(* deleted (DeleteRtpSessionWrapper after the unlock).  A sub-user leaves  *)
(* its context alone; NotifyKickout tells the C2S, which is output only.   *)
RemoveOld(m, u) ==
  IF u \notin DOMAIN m.u2c THEN m
  ELSE LET s == m.u2c[u] IN
       IF u = m.s2c[s].base
       THEN [s2c |-> Restrict(m.s2c, DOMAIN m.s2c \ {s}),
             u2c |-> Restrict(m.u2c, DOMAIN m.u2c \ ({u} \cup m.s2c[s].subs)),
             deleted |-> m.deleted \cup {s}]
       ELSE [m EXCEPT !.s2c[s].subs = @ \ {u},
                      !.u2c = Restrict(@, DOMAIN @ \ {u})]

(* Writes a Maps value back, marking the deleted sessions gone. *)
Commit(m, live) ==
  /\ session2Ctx' = m.s2c
  /\ user2Ctx' = m.u2c
  /\ conn' = [c \in Conns |-> IF c \in m.deleted THEN "gone"
                              ELSE IF c \in live THEN "open" ELSE conn[c]]

-----------------------------------------------------------------------------
(* OnAcceptSession: refused, and the socket closed, once m_task holds      *)
(* MAX_PENDING_COUNT commands; otherwise AsyncOnAcceptSession is queued.   *)
OnAcceptSession(c) ==
  /\ conn[c] = "idle"
  /\ IF Len(task) >= MaxPending
     THEN /\ conn' = [conn EXCEPT ![c] = "gone"]
          /\ UNCHANGED task
     ELSE /\ conn' = [conn EXCEPT ![c] = "queued"]
          /\ task' = Append(task, [kind |-> "accept", conn |-> c, user |-> NoUser])
  /\ UNCHANGED <<session2Ctx, user2Ctx, requested, c2sSent, kickouts>>

(* AddBaseUser: the session is created, the user's old binding removed,    *)
(* and a new context with no sub-users added for it.                       *)
AddBaseUser(c, u, isC2s) ==
  LET m == RemoveOld(Maps, u) IN
  Commit([m EXCEPT !.s2c = (c :> [base |-> u, isC2s |-> isC2s, subs |-> {}]) @@ @,
                   !.u2c = (u :> c) @@ @], {c})

(* AsyncOnAcceptSession: OnCheckUser accepts or refuses the claimed user   *)
(* (CreateRtpSessionWrapper failing is a refusal too); a refused socket is *)
(* closed.  User ids given as 0 are assigned before the check; the model's *)
(* users already carry their final ids.                                    *)
AsyncOnAcceptSession ==
  /\ task # <<>>
  /\ Head(task).kind = "accept"
  /\ LET c == Head(task).conn IN
     \E ok \in BOOLEAN, isC2s \in C2sFlags(ConnUser[c]) :
       IF ok THEN AddBaseUser(c, ConnUser[c], isC2s)
       ELSE /\ conn' = [conn EXCEPT ![c] = "gone"]
            /\ UNCHANGED <<session2Ctx, user2Ctx>>
  /\ task' = Tail(task)
  /\ UNCHANGED <<requested, c2sSent, kickouts>>

-----------------------------------------------------------------------------
(* OnRecvSession for a message the C2S relay on c addresses to the C2S     *)
(* port.  The session must be known and the sender its baseUser; only a   *)
(* C2S context of a SERVER_CID user takes client_login, which is dropped   *)
(* once m_task is full, and client_logout, which is always queued.         *)
OnRecvSession(c, x, msg) ==
  /\ conn[c] = "open"
  /\ c2sSent[c] < MaxC2sMsgs
  /\ ConnUser[c] \in C2sUsers
  /\ IF msg = "login" THEN x \notin requested[c] ELSE x \in requested[c]
  /\ requested' = [requested EXCEPT ![c] = IF msg = "login" THEN @ \cup {x}
                                                            ELSE @ \ {x}]
  /\ c2sSent' = [c2sSent EXCEPT ![c] = @ + 1]
  /\ IF /\ c \in DOMAIN session2Ctx
        /\ session2Ctx[c].isC2s
        /\ msg = "logout" \/ Len(task) < MaxPending
     THEN task' = Append(task, [kind |-> msg, conn |-> c, user |-> x])
     ELSE UNCHANGED task
  /\ UNCHANGED <<session2Ctx, user2Ctx, conn, kickouts>>

(* Mutant of AddSubUser: the old session is not deleted. *)
AddSubUserNoDelete(c2sUser, subUser) ==
  IF \/ c2sUser \notin DOMAIN user2Ctx
     \/ ~session2Ctx[user2Ctx[c2sUser]].isC2s
     \/ c2sUser # session2Ctx[user2Ctx[c2sUser]].base
  THEN UNCHANGED <<session2Ctx, user2Ctx, conn>>
  ELSE LET n == user2Ctx[c2sUser]
           m == RemoveOld(Maps, subUser)
       IN Commit([m EXCEPT !.s2c[n].subs = @ \cup {subUser},
                           !.u2c = (subUser :> n) @@ @, !.deleted = {}], {})

(* Mutant of AddSubUser: the context is not checked to be a C2S one. *)
AddSubUserNoC2sCheck(c2sUser, subUser) ==
  IF \/ c2sUser \notin DOMAIN user2Ctx
     \/ c2sUser # session2Ctx[user2Ctx[c2sUser]].base
  THEN UNCHANGED <<session2Ctx, user2Ctx, conn>>
  ELSE LET n == user2Ctx[c2sUser]
           m == RemoveOld(Maps, subUser)
       IN Commit([m EXCEPT !.s2c[n].subs = @ \cup {subUser},
                           !.u2c = (subUser :> n) @@ @], {})

(* AddSubUser: the C2S user's CURRENT context receives the sub-user, which *)
(* first leaves its old binding (NotifyKickout only if that was another    *)
(* C2S); client_login_ok goes out on that context's session.  Nothing      *)
(* happens if the C2S user is not the base of a C2S context.               *)
AddSubUser(c2sUser, subUser) ==
  IF \/ c2sUser \notin DOMAIN user2Ctx
     \/ ~session2Ctx[user2Ctx[c2sUser]].isC2s
     \/ c2sUser # session2Ctx[user2Ctx[c2sUser]].base
  THEN UNCHANGED <<session2Ctx, user2Ctx, conn>>
  ELSE LET n == user2Ctx[c2sUser]
           m == RemoveOld(Maps, subUser)
       IN Commit([m EXCEPT !.s2c[n].subs = @ \cup {subUser},
                           !.u2c = (subUser :> n) @@ @], {})

(* AsyncOnRecvSession with client_login: ProcessMsg_client_login returns   *)
(* if the client is the C2S user itself; otherwise OnCheckUser decides,    *)
(* and a refusal sends client_login_error on the session the login came    *)
(* from.                                                                   *)
ProcessMsg_client_login ==
  /\ task # <<>>
  /\ Head(task).kind = "login"
  /\ LET t == Head(task)
         c2sUser == ConnUser[t.conn]
     IN IF t.user = c2sUser THEN UNCHANGED <<session2Ctx, user2Ctx, conn>>
        ELSE \E ok \in BOOLEAN :
               IF ok THEN AddSubUser(c2sUser, t.user)
               ELSE UNCHANGED <<session2Ctx, user2Ctx, conn>>
  /\ task' = Tail(task)
  /\ UNCHANGED <<requested, c2sSent, kickouts>>

(* AsyncOnRecvSession with client_logout: the client must be bound as a    *)
(* sub-user of a C2S context whose base is the sending C2S user.           *)
ProcessMsg_client_logout ==
  /\ task # <<>>
  /\ Head(task).kind = "logout"
  /\ LET t == Head(task)
         c2sUser == ConnUser[t.conn]
         x == t.user
     IN IF \/ x = c2sUser
           \/ x \notin DOMAIN user2Ctx
           \/ ~session2Ctx[user2Ctx[x]].isC2s
           \/ c2sUser # session2Ctx[user2Ctx[x]].base
        THEN UNCHANGED <<session2Ctx, user2Ctx>>
        ELSE /\ session2Ctx' = [session2Ctx EXCEPT ![user2Ctx[x]].subs = @ \ {x}]
             /\ user2Ctx' = Restrict(user2Ctx, DOMAIN user2Ctx \ {x})
  /\ task' = Tail(task)
  /\ UNCHANGED <<conn, requested, c2sSent, kickouts>>

-----------------------------------------------------------------------------
(* Mutant of OnCloseSession: the close is dropped when m_task is full, as *)
(* OnAcceptSession drops an accept.                                        *)
OnCloseSessionCapped(c) ==
  /\ conn[c] = "open"
  /\ conn' = [conn EXCEPT ![c] = "closing"]
  /\ task' = IF Len(task) >= MaxPending THEN task
             ELSE Append(task, [kind |-> "close", conn |-> c, user |-> NoUser])
  /\ UNCHANGED <<session2Ctx, user2Ctx, requested, c2sSent, kickouts>>

(* The peer closes an open session: the wrapper calls OnCloseSession,      *)
(* which queues AsyncOnCloseSession whatever the queue's size.             *)
OnCloseSession(c) ==
  /\ conn[c] = "open"
  /\ conn' = [conn EXCEPT ![c] = "closing"]
  /\ task' = Append(task, [kind |-> "close", conn |-> c, user |-> NoUser])
  /\ UNCHANGED <<session2Ctx, user2Ctx, requested, c2sSent, kickouts>>

(* AsyncOnCloseSession: a session still in m_session2Ctx takes its base    *)
(* and sub-users with it and is deleted; one already removed (replaced by  *)
(* a new login of its user, or kicked out) was deleted then.               *)
AsyncOnCloseSession ==
  /\ task # <<>>
  /\ Head(task).kind = "close"
  /\ LET c == Head(task).conn IN
     IF c \notin DOMAIN session2Ctx
     THEN UNCHANGED <<session2Ctx, user2Ctx, conn>>
     ELSE Commit(RemoveOld(Maps, session2Ctx[c].base), {})
  /\ task' = Tail(task)
  /\ UNCHANGED <<requested, c2sSent, kickouts>>

(* KickoutUser: the application queues AsyncKickoutUser, whatever the      *)
(* queue's size.                                                           *)
KickoutUser(u) ==
  /\ kickouts < MaxKickouts
  /\ kickouts' = kickouts + 1
  /\ task' = Append(task, [kind |-> "kickout", conn |-> NoConn, user |-> u])
  /\ UNCHANGED <<session2Ctx, user2Ctx, conn, requested, c2sSent>>

(* AsyncKickoutUser: the user's binding is removed as in "remove old".     *)
AsyncKickoutUser ==
  /\ task # <<>>
  /\ Head(task).kind = "kickout"
  /\ LET u == Head(task).user IN
     IF u \notin DOMAIN user2Ctx THEN UNCHANGED <<session2Ctx, user2Ctx, conn>>
     ELSE Commit(RemoveOld(Maps, u), {})
  /\ task' = Tail(task)
  /\ UNCHANGED <<requested, c2sSent, kickouts>>

-----------------------------------------------------------------------------
Init ==
  /\ session2Ctx = <<>>
  /\ user2Ctx = <<>>
  /\ task = <<>>
  /\ conn = [c \in Conns |-> "idle"]
  /\ requested = [c \in Conns |-> {}]
  /\ c2sSent = [c \in Conns |-> 0]
  /\ kickouts = 0

(* The commands the worker thread of m_task runs. *)
Worker ==
  \/ AsyncOnAcceptSession
  \/ ProcessMsg_client_login
  \/ ProcessMsg_client_logout
  \/ AsyncOnCloseSession
  \/ AsyncKickoutUser

Next ==
  \/ \E c \in Conns : OnAcceptSession(c) \/ OnCloseSession(c)
  \/ \E c \in Conns, x \in Users, msg \in {"login", "logout"} :
       OnRecvSession(c, x, msg)
  \/ \E u \in Users : KickoutUser(u)
  \/ Worker

(* The worker thread runs while m_task holds commands; peers and the       *)
(* application act when they choose.                                       *)
Spec == Init /\ [][Next]_vars /\ WF_vars(Worker)

-----------------------------------------------------------------------------
(* Properties *)

(* Types, with m_user2Ctx's RTP_MSG_LINK_CTX pointers pointing at live     *)
(* contexts, those of m_session2Ctx.                                       *)
TypeOK ==
  /\ DOMAIN session2Ctx \subseteq Conns
  /\ \A s \in DOMAIN session2Ctx : session2Ctx[s] \in Ctx
  /\ DOMAIN user2Ctx \subseteq Users
  /\ \A u \in DOMAIN user2Ctx : user2Ctx[u] \in DOMAIN session2Ctx
  /\ task \in Seq(Task)
  /\ conn \in [Conns -> ConnStates]
  /\ requested \in [Conns -> SUBSET Users]
  /\ c2sSent \in [Conns -> 0 .. MaxC2sMsgs]
  /\ kickouts \in 0 .. MaxKickouts

(* The two maps of CRtpMsgServer agree, through every sequence of logins,  *)
(* reconnects, closes and kickouts: each context's base and sub-users map  *)
(* back to it, every bound user is the base or a sub-user of its context,  *)
(* no user is both, and only C2S contexts have sub-users.  GetUserCount's  *)
(* sub-user count m_user2Ctx.size() - m_session2Ctx.size() relies on it.   *)
MapsConsistent ==
  /\ \A s \in DOMAIN session2Ctx :
       LET ctx == session2Ctx[s] IN
       /\ ctx.base \in DOMAIN user2Ctx /\ user2Ctx[ctx.base] = s
       /\ ctx.base \notin ctx.subs
       /\ \A u \in ctx.subs : u \in DOMAIN user2Ctx /\ user2Ctx[u] = s
       /\ ctx.subs # {} => ctx.isC2s
  /\ \A u \in DOMAIN user2Ctx :
       /\ user2Ctx[u] \in DOMAIN session2Ctx
       /\ u = session2Ctx[user2Ctx[u]].base \/ u \in session2Ctx[user2Ctx[u]].subs

(* Exactly the sessions that are alive (created by AddBaseUser and not yet *)
(* passed to DeleteRtpSessionWrapper) are in m_session2Ctx: no session is *)
(* leaked when its context is dropped, and no deleted session is left in   *)
(* the map for OnRecvSession or SendMsg to use.                            *)
LiveSessionsTracked ==
  DOMAIN session2Ctx = {c \in Conns : conn[c] \in {"open", "closing"}}

(* A C2S context's sub-users are clients its own relay asked for over its  *)
(* session (spec 7, test 4: client_login_ok is sent on the same session),  *)
(* once no login or logout of that session is still queued.                *)
SubUsersRequested ==
  \A s \in DOMAIN session2Ctx :
    (\A i \in 1 .. Len(task) : task[i].conn = s => task[i].kind \notin {"login", "logout"})
      => session2Ctx[s].subs \subseteq requested[s]

(* A session the peer closed is eventually released: OnCloseSession always *)
(* queues its command, and the worker removes the context and deletes the  *)
(* session, unless a newer login of its user did so first.                 *)
ClosedReleased == \A c \in Conns : conn[c] = "closing" ~> conn[c] = "gone"

-----------------------------------------------------------------------------
(* The refinement mapping onto UserDirectory: each bound user is reached   *)
(* through the base user of its context; a relay's pending logins are the  *)
(* client_login commands queued from its sessions.                         *)
Via == [u \in DOMAIN user2Ctx |-> session2Ctx[user2Ctx[u]].base]

C2sBases == {session2Ctx[s].base : s \in {s \in DOMAIN session2Ctx : session2Ctx[s].isC2s}}

Asked == {<<ConnUser[task[i].conn], task[i].user>> :
            i \in {j \in 1 .. Len(task) : task[j].kind = "login"}}

Directory == INSTANCE UserDirectory WITH via <- Via, c2s <- C2sBases, asked <- Asked

(* Every change CRtpMsgServer makes to its maps is a step of the user      *)
(* directory: a base login replaces the user's binding, a client joins     *)
(* only through an online C2S relay with a queued login for it, and a base *)
(* user's departure takes the users behind it along.                       *)
DirectorySpec == Directory!Spec
====
