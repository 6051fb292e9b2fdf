CONSTANTS
  Clients = {c1, c2}
  Worker = w
  T1 = T1
  T2 = T2
  K1 = K1
  K2 = K2
  K3 = K3
  Tables = {T1, T2}
  Keys = {K1, K3}
  TableOf <- MCTableOf
  Values = {v1}
  NFrames = 1
  Policy = "lru"
  PrefetchEnabled = TRUE
  ConcurrentFlush = FALSE
  MaxTicket = 2
  None = None
SPECIFICATION FairSpec
INVARIANT PinsAccounted
PROPERTIES
  ImplementsPageStore
  CallsReturn
