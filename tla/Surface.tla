------------------------------- MODULE Surface --------------------------------
(***************************************************************************)
(* What callers meet: Access, Feed, Quota, Readers and Newsletter, side by *)
(* side.  None reads what another one writes, so a behaviour takes one of  *)
(* them: part says which, and the variables of the others rest.  Access,   *)
(* with its tables, is extended for TLC to compute them once.              *)
(***************************************************************************)
EXTENDS Access, TLC

CONSTANTS
  Admins, Lookers, DocOwner, Score, PageSize, MaxDocs,            \* Feed
  Askers, LimitOf, Servers, Budget, MaxDay,                       \* Quota
  Members, Devices, Questions, Caches, Remembered, Capacity,      \* Readers
  MaxVersion, MaxAnswers,
  Addresses, Spaces, BatchSize, MaxTokens                         \* Newsletter

VARIABLES part, day,
          docs, walk,                                             \* Feed
          usage, spent, granted, late,                            \* Quota
          published, version, viewers, views, answers, counted, used, stale,
          subscriber, inbox, last, agreed, wrong                  \* Newsletter

ofAccess == <<account, overreach>>
ofFeed == <<docs, walk>>
ofQuota == <<usage, spent, granted, late>>
ofReaders == <<published, version, viewers, views, answers, counted, used, stale>>
ofNewsletter == <<subscriber, inbox, last, agreed, wrong>>

surfaceVars == <<part, day, req, ofAccess, ofFeed, ofQuota, ofReaders, ofNewsletter>>

F == INSTANCE Feed WITH Readers <- Lookers, OwnerOf <- DocOwner

Q == INSTANCE Quota WITH Users <- Askers, Processes <- Servers

R == INSTANCE Readers WITH Users <- Members, Processes <- Caches

N == INSTANCE Newsletter

\* What the proofs take of the constants.
ASSUME SurfaceAssumption == F!Sensible /\ Q!Sensible /\ R!Sensible /\ N!Sensible

-----------------------------------------------------------------------------

AccessRests == account = 0 /\ overreach = FALSE
FeedRests == docs = 0 /\ walk = 0
QuotaRests == usage = 0 /\ spent = 0 /\ granted = 0 /\ late = {}
ReadersRest == /\ published = FALSE /\ version = 0 /\ viewers = <<>> /\ views = 0
               /\ answers = 0 /\ counted = <<>> /\ used = 0 /\ stale = FALSE
NewsletterRests == subscriber = 0 /\ inbox = 0 /\ last = 0 /\ agreed = {} /\ wrong = FALSE

SurfaceInit ==
  \/ /\ part = "access" /\ Init /\ day = 0
     /\ FeedRests /\ QuotaRests /\ ReadersRest /\ NewsletterRests
  \/ /\ part = "feed" /\ F!Init /\ day = 0 /\ req = 0
     /\ AccessRests /\ QuotaRests /\ ReadersRest /\ NewsletterRests
  \/ /\ part = "quota" /\ Q!Init
     /\ AccessRests /\ FeedRests /\ ReadersRest /\ NewsletterRests
  \/ /\ part = "readers" /\ R!Init
     /\ AccessRests /\ FeedRests /\ QuotaRests /\ NewsletterRests
  \/ /\ part = "newsletter" /\ N!Init /\ day = 0
     /\ AccessRests /\ FeedRests /\ QuotaRests /\ ReadersRest

AccessNext == /\ part = "access" /\ Next
              /\ UNCHANGED <<part, day, ofFeed, ofQuota, ofReaders, ofNewsletter>>

FeedNext == /\ part = "feed" /\ F!Next
            /\ UNCHANGED <<part, day, req, ofAccess, ofQuota, ofReaders, ofNewsletter>>

QuotaNext == /\ part = "quota" /\ Q!Next
             /\ UNCHANGED <<part, ofAccess, ofFeed, ofReaders, ofNewsletter>>

ReadersNext == /\ part = "readers" /\ R!Next
               /\ UNCHANGED <<part, ofAccess, ofFeed, ofQuota, ofNewsletter>>

NewsletterNext == /\ part = "newsletter" /\ N!Next
                  /\ UNCHANGED <<part, day, ofAccess, ofFeed, ofQuota, ofReaders>>

SurfaceNext == AccessNext \/ FeedNext \/ QuotaNext \/ ReadersNext \/ NewsletterNext

SurfaceSpec == SurfaceInit /\ [][SurfaceNext]_surfaceVars

-----------------------------------------------------------------------------
(* The properties of the part that is checked                              *)

\* Every part keeps its documents and requests well formed.
PartsOK == /\ part = "access" => TypeOK
           /\ part = "feed" => F!TypeOK
           /\ part = "quota" => Q!TypeOK
           /\ part = "readers" => R!TypeOK
           /\ part = "newsletter" => N!TypeOK

\* Feed: the pages of a list show each document once.
PagesShowEachOnce == part = "feed" => F!PagesShowEachOnce

\* Feed: no list shows what is hidden from its caller.
NothingLeaks == part = "feed" => F!NothingLeaks

\* Quota: no account is granted more than its plan has.
QuotaHolds == part = "quota" => Q!QuotaHolds

\* Readers: who saw a post counts once while the post remembers it.
ViewersCountOnce == part = "readers" => R!ViewersCountOnce

\* Readers: no answer is older than what was read.
AnswersAreFresh == part = "readers" => R!AnswersAreFresh

\* Readers: the cache holds the answers used last.
CacheKeepsLatest == part = "readers" => R!CacheKeepsLatest

\* Newsletter: mails go to those who asked for them, one each.
MailsAreWanted == part = "newsletter" => N!MailsAreWanted

=============================================================================
