SPECIFICATION SystemSpec
CONSTANTS
  u1 = u1
  u2 = u2
  u3 = u3
  s1 = s1
  s2 = s2
  p1 = p1
  p2 = p2
  p3 = p3
  NoUser = NoUser
  NoClient = NoClient
  NotInSession = NotInSession
  User <- TwoUsers
  InitialUsers <- TwoUsers
  Session <- OneSession
  Client <- TwoClients
  Account <- OwnerAndNewcomer
  Typed <- Removals
  Hasty <- Nothing
  Coalesce = FALSE
  THREAD_CAPACITY = 2
  thread_number = 3
  MAX_SESSION_USER = 2
  MAX_USER_COUNT = 2
  MaxInFlight = 6
  Traffic <- AllTraffic
INVARIANTS
  UserListMutexReleased
CHECK_DEADLOCK FALSE
