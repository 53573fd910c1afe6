CONSTANTS
  a = a
  x = x
  y = y
  c1 = c1
  c2 = c2
  c3 = c3
  NoUser = NoUser
  NoConn = NoConn
  Users <- MCUsers
  C2sUsers <- MCC2sUsers
  Conns <- MCConns
  ConnUser <- MCConnUser
  MaxPending = 2
  MaxC2sMsgs = 2
  MaxKickouts = 1
SPECIFICATION Spec
CHECK_DEADLOCK FALSE
INVARIANT SubUsersRequested
