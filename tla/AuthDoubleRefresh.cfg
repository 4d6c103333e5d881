SPECIFICATION Spec
CONSTANTS
  r1 = r1
  r2 = r2
  Users = {u1}
  Requests = {r1, r2}
  Nonces = {n1}
  NoNonce = NoNonce
  Handlers <- RefreshHandlers
  SessionTTL = 2
  LinkTTL <- MCLinkTTL
  MaxClock = 1
  MaxSessions = 3
  MaxLinks = 0
  MaxPasswords = 1
SYMMETRY MCSymmetry
CHECK_DEADLOCK FALSE
INVARIANT RefreshTokensAreSingleUse
