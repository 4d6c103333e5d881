SPECIFICATION ReliableSpec
CONSTANTS
  r1 = r1
  r2 = r2
  Users = {u1}
  Requests = {r1}
  Nonces = {n1}
  NoNonce = NoNonce
  Handlers <- GoogleHandlers
  SessionTTL = 2
  LinkTTL <- MCLinkTTL
  MaxClock = 1
  MaxSessions = 2
  MaxLinks = 2
  MaxPasswords = 2
CHECK_DEADLOCK FALSE
INVARIANT LinkEndsEverySession
