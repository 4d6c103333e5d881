SPECIFICATION ReliableSpec
CONSTANTS
  p1 = p1
  p2 = p2
  ann = ann
  bob = bob
  r1 = r1
  r2 = r2
  Posts = {p1}
  Users = {ann, bob}
  Admins = {bob}
  NoUser = NoUser
  AuthorOf <- MCAuthorOf
  Contents = {t1}
  NoContent = NoContent
  Clients = {r1}
  Runners = {c1}
  MaxClock = 2
  Handlers <- AuthorlessHandlers
CHECK_DEADLOCK FALSE
INVARIANT NothingStopsTheAnnouncement
