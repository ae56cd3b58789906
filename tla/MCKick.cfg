SPECIFICATION SystemSpec
CONSTANTS
  u1 = u1
  u2 = u2
  u3 = u3
  s1 = s1
  s2 = s2
  p1 = p1
  p2 = p2
  p3 = p3
  NoUser = NoUser
  NoClient = NoClient
  NotInSession = NotInSession
  User <- ThreeUsers
  InitialUsers <- ThreeUsers
  Session <- OneSession
  Client <- ThreeClients
  Account <- ThreeAccounts
  Typed <- KickAndPromote
  Hasty <- Nothing
  Coalesce = FALSE
  THREAD_CAPACITY = 3
  thread_number = 3
  MAX_SESSION_USER = 3
  MAX_USER_COUNT = 3
  MaxInFlight = 4
  Traffic <- AllTraffic
SYMMETRY Exchange
INVARIANTS
  FlagsAgree
  OneAdmin
  SoleMemberIsAdmin
PROPERTIES
  AdminActs
CHECK_DEADLOCK FALSE
