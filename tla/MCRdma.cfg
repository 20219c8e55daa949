SPECIFICATION MCSpec
CONSTANTS
  c1 = c1
  c2 = c2
  s1 = s1
  Clients = {c1, c2}
  Servers = {s1}
  Ids = {1, 2}
  coros = 2
  NumCors = 12
  ServerOf <- MCServerOf
  SessionId <- MCSessionId
  Losses <- MCLosses
  MaxCalls <- MCMaxCalls
  NoKey = 0
  CacheKeys = {1, 2, 3, 4, 5}
INVARIANTS
  ReplyIsMine
  NoAssertFails
  OneOutstanding
  StoreKeysFound
  StoreEntriesDistinct
  LruHoldsMostRecent
PROPERTIES
  CallsReturn
CHECK_DEADLOCK FALSE
