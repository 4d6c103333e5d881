SPECIFICATION AudienceSpec
CONSTANTS
  ann = ann
  bob = bob
  p1 = p1
  t1 = t1
  d1 = d1
  q1 = q1
  v1 = v1
  v2 = v2
  r1 = r1
  r2 = r2
  NoOne = NoOne
  Trigger = Trigger
  Users = {ann, bob}
  Things = {t1}
  OwnerOf <- MCOwnerOf
  Requests = {r1, r2}
  Admins = {bob}
  Lookers = {r1}
  DocOwner <- MCDocOwner
  Score <- MCScore
  PageSize = 2
  MaxDocs = 4
  Askers = {ann}
  LimitOf <- MCLimitOf
  Servers = {v1, v2}
  Budget = 2
  MaxDay = 2
  Members = {ann}
  Devices = {d1}
  Questions = {q1}
  Caches = {v1}
  Remembered = 1
  Capacity = 2
  MaxVersion = 3
  MaxAnswers = 3
  Addresses = {ann, bob}
  Spaces = {"devscript"}
  BatchSize = 1
  MaxTokens = 3
  Posts = {p1}
  People = {ann, bob}
  Staff = {}
  NoPerson = NoPerson
  AuthorOf <- MCAuthorOf
  Clients = {r1, r2}
  Handlers <- AllHandlers
  MaxRows = 2
  MaxDebt = 1
SYMMETRY MCSymmetry
CHECK_DEADLOCK FALSE
INVARIANTS PartsOK NothingWithoutRight PagesShowEachOnce NothingLeaks QuotaHolds
           ViewersCountOnce AnswersAreFresh CacheKeepsLatest MailsAreWanted
           EngagementOK BookmarkCountAgrees RemovedPostsLeaveNothing
           DeletedAccountsLeaveNothing
