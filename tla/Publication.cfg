SPECIFICATION PublicationSpec
CONSTANTS
  p1 = p1
  p2 = p2
  s1 = s1
  c1 = c1
  c2 = c2
  ann = ann
  bob = bob
  r1 = r1
  r2 = r2
  None = None
  Posts = {p1}
  Users = {ann, bob}
  Admins = {bob}
  NoUser = NoUser
  AuthorOf <- MCAuthorOf
  Contents = {n1, n2}
  NoContent = NoContent
  Clients = {r1, r2}
  Runners = {cron}
  MaxClock = 2
  Handlers <- PublishHandlers
  Writers = {ann}
  Editors = {}
  EditHandlers <- TextHandlers
  EditClock = 1
  Categories = {c1, c2}
  SeriesIds = {s1}
  OwnerOf <- MCOwnerOf
  Kinds <- MCKinds
  Orders = {}
  Made = {c1, s1}
  MaxCount = 2
  MaxCalls = 4
  MaxGallery = 2
  MaxFiles = 3
  MaxDownloads = 1
  MaxVersion = 3
  FieldsFiles = 2
  FieldsVersion = 2
  Articles = {p1}
  People = {ann, bob}
  Staff = {}
  NoOne = NoOne
  WriterOf <- MCWriterOf
  Visitors = {r1, r2}
  MaxComments = 2
SYMMETRY PublicationSymmetry
CHECK_DEADLOCK FALSE
INVARIANTS TypeOK AnnouncedOnce PublishedIsAnnounced EmbeddingCurrent
           ContentOK CountsAgree NoPostOnMissingShelf PostsFitTheirSpace
           NothingDangles CoverIsInGallery GalleryIsInOrder FieldsStayWithTheirImage
           
           ThreadsOK RepliesKeepParents DeletedTextIsHidden RemovedPostsLeaveNoThread
           DeletedAccountsFallSilent
