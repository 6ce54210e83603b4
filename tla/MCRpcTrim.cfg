SPECIFICATION Spec
CONSTANTS
  monitor = monitor
  user = user
  c1 = c1
  c2 = c2
  None = None
  Threads <- MCThreads
  Calls <- MCLogin
  Conns <- MCConns
  Queries <- MCQueries
  Lenient <- MCLenient
  Simple <- MCSimple
  Unread <- MCUnread
  Commands <- MCCommands
  TimeoutsOccur = FALSE
  MaxQueue = 1
INVARIANT AppSurvives
