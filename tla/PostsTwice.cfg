SPECIFICATION ReliableSpec
CONSTANTS
  p1 = p1
  p2 = p2
  ann = ann
  bob = bob
  r1 = r1
  r2 = r2
  Posts = {p1}
  Users = {ann}
  Admins = {}
  NoUser = NoUser
  AuthorOf <- MCAuthorOf
  Contents = {t1}
  NoContent = NoContent
  Clients = {r1, r2}
  Runners = {}
  MaxClock = 1
  Handlers <- TwiceHandlers
CHECK_DEADLOCK FALSE
INVARIANT PublishingTwiceEmailsOnce
