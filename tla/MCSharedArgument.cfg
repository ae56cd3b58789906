SPECIFICATION Spec
CONSTANTS
  alice = alice
  bob = bob
  quoted = quoted
  Account <- Accounts3
  Awkward <- Quoted
  Shipped <- Files
  MAX_USER_COUNT = 3
  Unlucky <- Bob
  THREAD_CAPACITY = 2
  PromptThreads = FALSE
  MaxStarts = 2
INVARIANTS
  OwnClient
CHECK_DEADLOCK FALSE
