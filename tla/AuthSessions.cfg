SPECIFICATION SessionSpec
CONSTANTS
  r1 = r1
  r2 = r2
  Users = {u1}
  Requests = {r1, r2}
  Nonces = {n1}
  NoNonce = NoNonce
  Handlers <- SessionHandlers
  SessionTTL = 1
  LinkTTL <- MCLinkTTL
  MaxClock = 1
  MaxSessions = 3
  MaxLinks = 1
  MaxPasswords = 2
SYMMETRY MCSymmetry
CHECK_DEADLOCK FALSE
INVARIANTS NoSessionForClosedAccount RefreshChainsDoNotGrow OldPasswordSessionsEnd
