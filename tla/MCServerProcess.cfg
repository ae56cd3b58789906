SPECIFICATION FairSpec
CONSTANTS
  alice = alice
  bob = bob
  quoted = quoted
  Account <- Accounts3
  Awkward <- Quoted
  Shipped <- Files
  MAX_USER_COUNT = 2
  Unlucky <- Bob
  THREAD_CAPACITY = 2
  PromptThreads = TRUE
  MaxStarts = 2
INVARIANTS
  OwnClient
  NoSocketLost
  FreedUnused
  
  
PROPERTIES
  
  StartEnds
  ShutdownEnds
CHECK_DEADLOCK FALSE
