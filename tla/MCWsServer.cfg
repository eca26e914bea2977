SPECIFICATION MCSpec
CONSTANTS
  c1 = c1
  c2 = c2
  u1 = u1
  u2 = u2
  news = news
  w1 = w1
  Conns <- MCConns
  Users <- MCUsers
  Topics <- MCTopics
  MaxConns = 1
  PingLimit = 2
  Peers <- MCConns
  Subscribers <- MCSubscribers
  Actions = {"echo"}
  Middlewares <- MCMiddlewares
  Configured = "protobuf"
  QueueSize = 1
  MaxMessage = 1
  ReadLimit = 2
  Requests <- MCRequests
  Notices = {"n1"}
  HandlerAnswers = 1
INVARIANTS
  CountAgrees
  SubscriptionsAgree
  AnsweredOnce
  FramesMatch
PROPERTIES
  LossIsCleared
  ShutdownSweeps
CHECK_DEADLOCK FALSE
