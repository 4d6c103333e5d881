SPECIFICATION RunnerSpec
CONSTANTS
  p1 = p1
  p2 = p2
  ann = ann
  bob = bob
  r1 = r1
  r2 = r2
  Posts = {p1, p2}
  Users = {ann}
  Admins = {}
  NoUser = NoUser
  AuthorOf <- MCAuthorOf
  Contents = {t1}
  NoContent = NoContent
  Clients = {r1}
  Runners = {c1}
  MaxClock = 3
  Handlers <- RunnerHandlers
CHECK_DEADLOCK FALSE
INVARIANT RunsHoldDuePosts
PROPERTY DuePostIsPublished
