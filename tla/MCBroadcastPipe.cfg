SPECIFICATION RelaySpec
CONSTANTS
  c1 = c1
  c2 = c2
  c3 = c3
  Clients <- TwoClients
  NoClient = NoClient
  ServerFd = 3
  FdLimit = 6
  Backlog = 1
  Inbox = 4
  MaxBytes <- OneLine
  BufSize = 2
  Lines <- TwoLetters
INVARIANT SurvivesWriteErrors
CHECK_DEADLOCK FALSE
