SPECIFICATION FairSpec
CONSTANTS
  u1 = u1
  u2 = u2
  u3 = u3
  s1 = s1
  s2 = s2
  p1 = p1
  p2 = p2
  p3 = p3
  NoUser = NoUser
  NoClient = NoClient
  NotInSession = NotInSession
  User <- TwoUsers
  InitialUsers <- OneUser
  Session <- OneSession
  Client <- TwoClients
  Account <- CarefulAndNewcomer
  Typed <- Lifetimes
  Hasty <- Nothing
  Coalesce = FALSE
  THREAD_CAPACITY = 2
  thread_number = 2
  MAX_SESSION_USER = 2
  MAX_USER_COUNT = 2
  MaxInFlight = 6
  Traffic <- AllTraffic
INVARIANTS
  NoNullDereference
  ReadsItsSocket
PROPERTIES
  QuitEnds
  Answered
CHECK_DEADLOCK FALSE
