SPECIFICATION Spec
CONSTANTS
  u1 = u1
  u2 = u2
  u3 = u3
  s1 = s1
  s2 = s2
  NoUser = NoUser
  NotInSession = NotInSession
  User <- ThreeUsers
  InitialUsers <- ThreeUsers
  Session <- OneSession
  THREAD_CAPACITY = 3
  MAX_SESSION_USER = 2
  MAX_USER_COUNT = 3
  Coalesce = FALSE
  MaxInFlight = 1
  Traffic <- Gathering
SYMMETRY Exchange
INVARIANTS
  SessionNotOverfull
  OnlineSocketServed
CHECK_DEADLOCK FALSE
