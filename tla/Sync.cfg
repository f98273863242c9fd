CONSTANTS
  w1 = w1  w2 = w2  t1 = t1  t2 = t2  x1 = x1  x2 = x2  s1 = s1  g1 = g1  g2 = g2
  Admin <- MCAdmin
  Token <- MCToken
  Address = {x1, x2}
  Stream = {s1}
  Telegram = {g1, g2}
  DefaultTelegram = g1
  Form <- MCForm
  ConfigFile <- MCConfigFile
  Ops = {"add", "update", "delete", "notify", "streams", "stream", "config", "telegram", "initialize", "reset"}
  MaxRequests = 4
  MaxOverlapping = 3
  Faults = {"redis", "crash"}
  NoToken = NoToken
  NoRequest = NoRequest
  NoMap = NoMap
  NoAdmin = NoAdmin
SYMMETRY Renamings
SPECIFICATION SyncSpec
INVARIANTS SyncTypeOK LostOnlyToStaleWrites TelegramAgrees WantedIsSubscribed SubscribedIsConfigured
PROPERTY DuplicatesHaveACause
