SPECIFICATION Spec
CONSTANTS
  t1 = t1
  c1 = c1
  c2 = c2
  None = None
  Threads <- MCThreads
  Calls <- MCCalls
  Conns <- MCConns
  Queries <- MCQueries
  Lenient <- MCLenient
  Simple <- MCSimple
  Unread <- MCUnread
  Commands <- MCCommands
  TimeoutsOccur = TRUE
  MaxQueue = 2
INVARIANT TypeOK
INVARIANT ReplyAnswersCall
INVARIANT AppSurvives
PROPERTY AliveUnlessLate
PROPERTY ImplementsService
