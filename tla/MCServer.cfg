SPECIFICATION Spec
CONSTANTS
  u1 = u1
  u2 = u2
  u3 = u3
  s1 = s1
  s2 = s2
  NoUser = NoUser
  NotInSession = NotInSession
  User <- TwoUsers
  InitialUsers <- OneUser
  Session <- TwoSessions
  THREAD_CAPACITY = 2
  MAX_SESSION_USER = 2
  MAX_USER_COUNT = 2
  Coalesce = TRUE
  MaxInFlight = 2
  Traffic <- Silent
SYMMETRY Swap
INVARIANTS
  TypeOK
  MembershipAgrees
  RwMutexReleased
  AdminInSession
PROPERTIES
  AdminGivesUpRole
  RemovalIsLocal
  ImplementsRooms
CHECK_DEADLOCK FALSE
