SPECIFICATION ProgramsSpec
CONSTANTS
  s1 = s1
  s2 = s2
  Colon = Colon
  Nul = Nul
  a = a
  b = b
  x = x
  y = y
  plain = plain
  shorter = shorter
  divided = divided
  nothing = nothing
  Sender <- Senders
  Upload <- Uploads
  NoUpload = NoUpload
  Name <- Names
  Content <- Contents
  file_frag_size = 2
  MaxUploads = 3
  MayLose = TRUE
  ServerMayFail = TRUE
  c1 = c1
  c2 = c2
  Client <- Clients
  NetworkLoses = TRUE
  Space = Space
  newline = newline
  MESSAGE = 10
  Traffic <- Messages
  maximum_buffer_size = 20
  MaxUnread = 3
  empty = empty
  short = short
  long = long
  NoFile = NoFile
  File <- Files
  Fragments <- Sizes
  MaxTransfers = 3
  MaxInFlight = 3
  TimerExact = TRUE
  MayFail = TRUE
INVARIANTS
  OnlyWhatFits
  AnswersMatch
  AnswersInTime
  ReadAsSent
PROPERTIES
  CopiesFaithfully
  TransferEnds
  StoredWhenGoodbye
  EverySenderEnds
  HandshakeEnds
CHECK_DEADLOCK FALSE
