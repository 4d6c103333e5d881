SPECIFICATION PartSpec
CONSTANTS
  r1 = r1
  r2 = r2
  u1 = u1
  u2 = u2
  n1 = n1
  n2 = n2
  NoNonce = NoNonce
  Users = {u1, u2}
  Requests = {r1, r2}
  Nonces = {n1, n2}
  Handlers <- GoogleHandlers
  SessionTTL = 2
  LinkTTL <- CodeFirst
  MaxClock = 1
  MaxSessions = 2
  MaxLinks = 2
  MaxPasswords = 2
SYMMETRY MCSymmetry
CHECK_DEADLOCK FALSE
INVARIANTS TypeOK LinksOverlapOnlyByRace OldPasswordSessionsEnd
PROPERTY OneTimeTokensAreSingleUse
