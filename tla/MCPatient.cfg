SPECIFICATION ChatLossSpec
CONSTANTS
  u1 = u1
  u2 = u2
  u3 = u3
  s1 = s1
  s2 = s2
  p1 = p1
  p2 = p2
  p3 = p3
  NoUser = NoUser
  NoClient = NoClient
  NotInSession = NotInSession
  User <- TwoUsers
  InitialUsers <- OneUser
  Session <- TwoSessions
  Client <- TwoClients
  Account <- CarefulAndNewcomer
  Typed <- AllButKick
  Hasty <- Chat
  Coalesce = TRUE
  THREAD_CAPACITY = 3
  thread_number = 4
  MAX_SESSION_USER = 2
  MAX_USER_COUNT = 2
  MaxInFlight = 2
  Traffic <- AllTraffic
SYMMETRY Swap
INVARIANTS
  FlagsAgree
  NoGhostUsers
  UserListMutexReleased
PROPERTIES
  Spec
  ImplementsModerated
CHECK_DEADLOCK FALSE
