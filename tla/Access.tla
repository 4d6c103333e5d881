-------------------------------- MODULE Access --------------------------------
(***************************************************************************)
(* Who may do what: the endpoints of both doors, REST and GraphQL, the     *)
(* guards in front of them, what their handlers ask of the caller, and the *)
(* operations that change what an account may do while requests of that    *)
(* account are in progress.                                                *)
(*                                                                         *)
(* An access token is good for minutes, whatever becomes of its account,   *)
(* so every request looks its account up.  A request is three steps: it    *)
(* arrives, its account is read and the guards decide on that copy, and    *)
(* its handler takes effect, with the same copy.                           *)
(*                                                                         *)
(* Left out: what the effect is, but for accounts (other modules have it); *)
(* the life of tokens (Auth); how often a caller may call.                 *)
(***************************************************************************)
EXTENDS Naturals, FiniteSets

CONSTANTS
  Users,     \* accounts
  NoOne,     \* a caller without a token
  Trigger,   \* the caller that has the cron secret
  Things,    \* hidden posts, comments and series
  OwnerOf,   \* the account each of them belongs to
  Requests   \* requests that may be in progress at one time

VARIABLES
  account,  \* users collection
  req,      \* requests in progress
  \* History, read by no guard:
  overreach \* something took effect for a caller who never had the right

vars == <<account, req, overreach>>

-----------------------------------------------------------------------------
(* The endpoints: operations and their guards                              *)

E(ops, guards) == {[op |-> o, guards |-> guards] : o \in ops}

Open == {}
Secret == {"secret"}
Optional == {"optional"}
Jwt == {"jwt"}
Verified == {"jwt", "verified"}
AdminOnly == {"jwt", "admin"}

PostsRest ==
  E({"createPost", "updatePost", "deletePost", "removeGalleryImage"}, Jwt)
  \cup E({"publishPost", "addGalleryImages", "generateNarration"}, Verified)
  \cup E({"posts", "post", "relatedPosts", "downloadImage"}, Open)
  \cup E({"publishScheduled"}, Secret)

PostsGql ==
  E({"createPost", "updatePost", "deletePost", "cancelSchedule", "myAnalytics",
     "setPostCover", "reorderGallery", "updateGalleryImageAlt"}, Jwt)
  \cup E({"publishPost", "schedulePost", "generateNarration"}, Verified)
  \cup E({"posts", "post", "recordPostView", "relatedPosts", "postGallery"}, Optional)
  \cup E({"trackImageDownload"}, Open)

CommentsRest == E({"createComment"}, Verified) \cup E({"comments"}, Open)
                \cup E({"updateComment", "deleteComment"}, Jwt)

CommentsGql == E({"createComment"}, Verified) \cup E({"comments"}, Open)
               \cup E({"updateComment", "deleteComment"}, Jwt)

AdminOps == {"platformStats", "adminUsers", "deactivateUser", "activateUser",
             "changeUserRole", "adminDeletePost", "adminDeleteComment", "featurePost",
             "adminReports", "reviewReport"}

\* Guards of the whole class.
AdminRest == E(AdminOps, AdminOnly)

AdminGql == E(AdminOps, AdminOnly)

Reporting == E({"reportContent"}, Jwt)

CategoriesRest == E({"createCategory", "updateCategory", "deleteCategory"}, AdminOnly)
                  \cup E({"categories", "category"}, Open)

CategoriesGql == E({"createCategory", "updateCategory", "deleteCategory"}, AdminOnly)
                 \cup E({"categories", "category"}, Open)

SeriesGql == E({"createSeries", "addPostToSeries", "removePostFromSeries", "deleteSeries"},
               Jwt)
             \cup E({"authorSeries", "series"}, Open)

BookmarksRest == E({"toggleBookmark", "myBookmarks", "isBookmarked"}, Jwt)

BookmarksGql == E({"toggleBookmark", "myBookmarks", "isBookmarked"}, Jwt)

FollowsRest == E({"followUser", "unfollowUser"}, Jwt)
               \cup E({"followers", "following"}, Open) \cup E({"followStats"}, Optional)

FollowsGql == E({"followUser", "unfollowUser"}, Jwt)
              \cup E({"followers", "following"}, Open) \cup E({"followStats"}, Optional)

ReactionsRest == E({"toggleReaction"}, Jwt) \cup E({"reactions"}, Optional)

ReactionsGql == E({"toggleReaction"}, Jwt) \cup E({"reactions"}, Optional)

NotificationsRest == E({"notifications", "unreadCount", "markAsRead", "markAllAsRead"}, Jwt)

NotificationsGql == E({"notifications", "unreadCount", "markAsRead", "markAllAsRead"}, Jwt)

UsersRest == E({"me", "updateProfile"}, Jwt) \cup E({"uploadAvatar"}, Verified)
             \cup E({"user"}, Open)

UsersGql == E({"me", "updateProfile"}, Jwt) \cup E({"user"}, Open)

AccountRest == E({"exportMyData", "deleteAccount"}, Jwt)

AccountGql == E({"exportMyData", "deleteAccount"}, Jwt)

\* A link or a code in the mail, a password or a refresh token is asked for
\* by the handler; see Auth.
AuthRest ==
  E({"register", "login", "googleLogin", "googleCallback", "googleExchange",
     "verifyEmail", "forgotPassword", "resetPassword", "refresh"}, Open)
  \cup E({"resendVerification", "logout"}, Jwt)

AuthGql ==
  E({"register", "login", "verifyEmail", "forgotPassword", "resetPassword", "refresh"},
    Open)
  \cup E({"resendVerification", "logout", "logoutAll"}, Jwt)

\* Readers may ask about a post without an account.
AiGql == E({"generateSummary", "suggestTags", "suggestTitles", "reviewDraft"}, Verified)
         \cup E({"askPost"}, Open)

NewsletterRest == E({"subscribe", "confirm", "unsubscribe"}, Open)

NewsletterGql == E({"subscribe", "confirm", "unsubscribe", "subscriberCount"}, Open)

SearchRest == E({"search", "topPosts", "trendingTags"}, Open)

SearchGql == E({"search", "topPosts", "trendingTags"}, Open)

SitePages == E({"sitemap", "rss", "robots"}, Open)

Endpoints ==
  PostsRest \cup PostsGql \cup CommentsRest \cup CommentsGql \cup AdminRest \cup AdminGql
  \cup Reporting \cup CategoriesRest \cup CategoriesGql \cup SeriesGql
  \cup BookmarksRest \cup BookmarksGql \cup FollowsRest \cup FollowsGql
  \cup ReactionsRest \cup ReactionsGql \cup NotificationsRest \cup NotificationsGql
  \cup UsersRest \cup UsersGql \cup AccountRest \cup AccountGql \cup AuthRest \cup AuthGql
  \cup AiGql \cup NewsletterRest \cup NewsletterGql \cup SearchRest \cup SearchGql
  \cup SitePages

\* Operations that change accounts; the others take effect elsewhere.
Moderations == {"deactivateUser", "activateUser", "changeUserRole"}

-----------------------------------------------------------------------------
(* Accounts and requests                                                   *)

Account == [there : BOOLEAN, active : BOOLEAN, verified : BOOLEAN, admin : BOOLEAN]

NoAccount == [there |-> FALSE, active |-> FALSE, verified |-> FALSE, admin |-> FALSE]

Callers == Users \cup {NoOne, Trigger}

\* Handlers that ask whether what they are about to change, or to show
\* although it is hidden, belongs to the caller.
OfAuthor == {"updateComment"}

OfAuthorOrAdmin ==
  {"updatePost", "deletePost", "publishPost", "schedulePost", "cancelSchedule",
   "generateNarration", "addGalleryImages", "removeGalleryImage", "setPostCover",
   "reorderGallery", "updateGalleryImageAlt", "generateSummary", "deleteComment",
   "addPostToSeries", "removePostFromSeries", "deleteSeries",
   "post", "relatedPosts", "postGallery", "downloadImage"}

PCs == {"idle", "arrived", "admitted"}

\* What a request is remembered by: the guards in front of it, what its handler
\* asks about its target, and what it does to an account.  The rest is history:
\* what the repository grants it for.
Kind == [guards : SUBSET {"jwt", "optional", "verified", "admin", "secret"},
         asks : {"nothing", "author", "authorOrAdmin"},
         does : Moderations \cup {"deleteAccount", "other"},
         grant : {"open", "trigger", "member", "confirmed", "admin"}]

NoKind == [guards |-> {}, asks |-> "nothing", does |-> "other", grant |-> "open"]

Request == [pc : PCs, kind : Kind, caller : Callers, copy : Account,
            thing : Things \cup {NoOne}, user : Users \cup {NoOne}, entitled : BOOLEAN]

Idle == [pc |-> "idle", kind |-> NoKind, caller |-> NoOne, copy |-> NoAccount,
         thing |-> NoOne, user |-> NoOne, entitled |-> FALSE]

At(r, pc) == req[r].pc = pc

Fit(a) == a.there /\ a.active

-----------------------------------------------------------------------------
(* What the repository grants, endpoint or not                             *)

\* docs/DECISIONS.md:46: what accounts may do only with a confirmed address.
ConfirmedOps == {"publishPost", "schedulePost", "createComment", "addGalleryImages",
                 "uploadAvatar", "generateNarration", "generateSummary", "suggestTags",
                 "suggestTitles", "reviewDraft"}

CategoryOps == {"createCategory", "updateCategory", "deleteCategory"}

\* What a stranger may do.
OpenOps ==
  {"posts", "recordPostView", "trackImageDownload", "comments", "categories", "category",
   "authorSeries", "series", "followers", "following", "followStats", "reactions", "user",
   "register", "login", "googleLogin", "googleCallback", "googleExchange", "verifyEmail",
   "forgotPassword", "resetPassword", "refresh", "askPost", "subscribe", "confirm",
   "unsubscribe", "subscriberCount", "search", "topPosts", "trendingTags", "sitemap",
   "rss", "robots"}

Grant(op) == CASE op \in OpenOps -> "open"
               [] op = "publishScheduled" -> "trigger"
               [] op \in ConfirmedOps -> "confirmed"
               [] op \in AdminOps \cup CategoryOps -> "admin"
               [] OTHER -> "member"

KindOf(e) ==
  [guards |-> e.guards, grant |-> Grant(e.op),
   asks |-> CASE e.op \in OfAuthor -> "author"
              [] e.op \in OfAuthorOrAdmin -> "authorOrAdmin"
              [] OTHER -> "nothing",
   does |-> IF e.op \in Moderations \cup {"deleteAccount"} THEN e.op ELSE "other"]

\* Requests to endpoints with the same answers are alike.
Kinds == {KindOf(e) : e \in Endpoints}

\* History: the caller of q has the right to it, accounts being as in acc.
Entitled(q, acc) == LET c == q.caller k == q.kind IN
  CASE k.grant = "open" -> TRUE
    [] k.grant = "trigger" -> c = Trigger
    [] OTHER ->
         /\ c \in Users /\ Fit(acc[c])
         /\ k.grant = "confirmed" => acc[c].verified
         /\ k.grant = "admin" => acc[c].admin
         /\ k.asks = "author" => OwnerOf[q.thing] = c
         /\ k.asks = "authorOrAdmin" => OwnerOf[q.thing] = c \/ acc[c].admin

\* Every request in progress is told what accounts became.
Told(q, acc) ==
  IF q.pc = "idle" THEN q ELSE [q EXCEPT !.entitled = @ \/ Entitled(q, acc)]

Become(r, q) == req' = [x \in Requests |-> IF x = r THEN q ELSE Told(req[x], account')]

-----------------------------------------------------------------------------
(* A request                                                               *)

\* user: the account a moderation is about.  The trigger has one endpoint.
Arrive(r, k, c, t, u) ==
  LET q == [Idle EXCEPT !.pc = "arrived", !.kind = k, !.caller = c, !.thing = t,
              !.user = u]
  IN
  /\ At(r, "idle") /\ (c = Trigger => k.grant = "trigger")
  /\ IF k.asks = "nothing" THEN t = NoOne ELSE t \in Things
  /\ IF k.does \in Moderations THEN u \in Users ELSE u = NoOne
  /\ UNCHANGED <<account, overreach>>
  /\ Become(r, [q EXCEPT !.entitled = Entitled(q, account)])

\* Mutant: an account that was deactivated still counts.
Validate_Any(c) == IF c \in Users /\ account[c].there THEN account[c] ELSE NoAccount

\* JwtStrategy.validate: the account as it is now, if it may act at all.
Validate(c) == IF c \in Users /\ Fit(account[c]) THEN account[c] ELSE NoAccount

\* Each guard in turn, on the account that was read.
Admits(q, copy) ==
  /\ "jwt" \in q.kind.guards => copy.there
  /\ "verified" \in q.kind.guards => copy.verified
  /\ "admin" \in q.kind.guards => copy.admin
  /\ "secret" \in q.kind.guards => q.caller = Trigger

\* An optional guard lets a stranger, or a bad token, in as nobody; so does no
\* guard at all.
Authenticate(r) ==
  LET q == req[r]
      copy == IF q.kind.guards \cap {"jwt", "optional"} # {} THEN Validate(q.caller)
              ELSE NoAccount
  IN
  /\ At(r, "arrived")
  /\ UNCHANGED <<account, overreach>>
  /\ Become(r, IF Admits(q, copy) THEN [q EXCEPT !.pc = "admitted", !.copy = copy]
               ELSE Idle)

Owns(q) == q.copy.there /\ OwnerOf[q.thing] = q.caller

\* assertIsAuthor, assertIsAuthorOrAdmin, assertVisible.
Permits(q) == /\ q.kind.asks = "author" => Owns(q)
              /\ q.kind.asks = "authorOrAdmin" => Owns(q) \/ q.copy.admin

\* findByIdAndUpdate, whoever the account is, the admin's own included.
Moderated(a, does) ==
  CASE does = "deactivateUser" -> {[a EXCEPT !.active = FALSE]}
    [] does = "activateUser" -> {[a EXCEPT !.active = TRUE]}
    [] does = "changeUserRole" -> {[a EXCEPT !.admin = role] : role \in BOOLEAN}

\* deleteOne
Closed == NoAccount

Effect(q) ==
  IF q.kind.does \in Moderations /\ account[q.user].there
  THEN \E a \in Moderated(account[q.user], q.kind.does) :
         account' = [account EXCEPT ![q.user] = a]
  ELSE IF q.kind.does = "deleteAccount"
  THEN account' = [account EXCEPT ![q.caller] = Closed]
  ELSE UNCHANGED account

\* The copy decides, whatever became of the account since.
Handle(r) == LET q == req[r] IN
  /\ At(r, "admitted")
  /\ IF Permits(q) THEN Effect(q) /\ overreach' = (overreach \/ ~q.entitled)
     ELSE UNCHANGED <<account, overreach>>
  /\ Become(r, Idle)

\* Whoever follows a link sent to the address confirms it.
Confirm(u) ==
  /\ account[u].there /\ ~account[u].verified
  /\ account' = [account EXCEPT ![u].verified = TRUE]
  /\ req' = [x \in Requests |-> Told(req[x], account')]
  /\ UNCHANGED overreach

-----------------------------------------------------------------------------

Init ==
  /\ account \in [Users -> {a \in Account : a.there}]
  /\ req = [r \in Requests |-> Idle]
  /\ overreach = FALSE

Call(r) == /\ At(r, "idle")
           /\ \E k \in Kinds, c \in Callers, t \in Things \cup {NoOne},
                 u \in Users \cup {NoOne} : Arrive(r, k, c, t, u)

Next == \/ \E r \in Requests : Call(r) \/ Authenticate(r) \/ Handle(r)
        \/ \E u \in Users : Confirm(u)

Spec == Init /\ [][Next]_vars

-----------------------------------------------------------------------------
(* Properties                                                              *)

\* Accounts and requests stay well formed.
TypeOK ==
  /\ account \in [Users -> Account]
  /\ req \in [Requests -> Request]
  /\ overreach \in BOOLEAN

\* jwt.strategy.ts:38, roles.guard.ts:50, email-verified.guard.ts:10,
\* docs/DECISIONS.md:46: through whichever door, nothing takes effect for a
\* caller who was not entitled to it at any moment of the request, whatever
\* token is still valid and whoever is moderated, deleted or confirmed while
\* the request is under way.
NothingWithoutRight == ~overreach

=============================================================================
