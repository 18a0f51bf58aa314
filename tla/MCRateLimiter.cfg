SPECIFICATION FairSpec
CONSTANTS
  NoValue = NoValue
  Requests = {r1, r2, r3}
  ip1 = ip1
  ip2 = ip2
  k1 = k1
  k2 = k2
  Ips = {ip1, ip2}
  Keys = {k1, k2}
  RateLimitKey <- MCRateLimitKey
  MaxLimit = 1
  Faults = {"crash", "redis_error", "lost_reply"}
INVARIANTS
  TypeOK
  WindowQuota
  RejectionIsEarned
  UndatedKeyHasCause
PROPERTIES
  WindowNotExtended
  WindowEnds
  ImplementsQuota
