CONSTANTS
  x = x
  y = y
  c1 = c1
  c2 = c2
  b1 = b1
  b2 = b2
  d = d
  Global = Global
  Bot = {b1, b2, d, Global}
  NoMessage = NoMessage
  NoBot = NoBot
  NoConfig = NoConfig
  NoMatch = NoMatch
  NoTicker = NoTicker
  RetryCount = 1
  Faults = {"redis", "refused", "lost", "cancel"}
  Messages <- AllMessages
  TokenLists <- Lists
  Telegrams <- Defaults
  MaxChanges = 1
  Worker = {w1, w2}
  CacheTTL = 4
  CacheMaxAge = 2
  QueueTime = 1
  WriteTime = 2
  Skew = 1
SPECIFICATION NotificationFairSpec
INVARIANTS NotificationTypeOK OnlyAsConfigured SilenceHasReason ErrorHasReason OkMeansDelivered CopiesNeedLostAnswers ShownIsRecent
PROPERTY AlwaysReturns
CHECK_DEADLOCK FALSE
