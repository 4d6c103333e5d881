# devscript-api in TLA+

A model of the NestJS/MongoDB API in `src/`: TLA+ modules for its stateful
parts, TLC configurations that check them on small instances, and proofs that
TLAPS checks for every instance. File and line references in the modules
(`auth.service.ts:266`) are to files under `src/src/`.

## The system

One Node process, or many serverless ones, serve GraphQL and REST from MongoDB
through Mongoose. There are no transactions and no locks, no optimistic
concurrency is turned on, and the process may be frozen or killed at any
`await` (`vercel.json`, `posts.cron.ts`). So **the unit of atomicity is one
database call**, and every handler of more than one call interleaves with
everything else. This is where the hard behaviour of this code is, and every
module here is built around it.

What Mongoose and MongoDB do is modelled from how the code uses them:

- a single `updateOne`, `deleteMany`, `findOneAndDelete` is atomic per document;
- `find` then `save()` writes only the paths changed on the copy, whatever the
  document holds by then, and throws if the document is gone;
- a unique index turns the later of two inserts into an error (E11000);
- a TTL index removes a document some time after its date, not at it.

### Inventory

| component | state it keeps | operations | what is hard | what makes it correct | module |
|---|---|---|---|---|---|
| auth (`auth/`) | `refreshtokens`, `onetimetokens`, users' password, `googleId`, `emailVerified`, `isActive` | register, login, refresh, logout (one, all), forgot/reset password, verify, resend, Google sign-in, code exchange | check-then-act across calls; tokens signed with whole seconds; revocation against logins under way; lost processes; TTL | sessions of an old password end; one-time tokens are single-use; closed accounts get no sessions; token chains do not multiply | `Auth` |
| guards, roles (`auth/guards`, `common/guards`, `admin/`) | users' `isActive`, `role`, `emailVerified` | every endpoint, moderation | two doors with guards of their own; tokens that outlive their account's state | nothing takes effect without the right to it | `Access` |
| posts: lifecycle | posts: status, `scheduledAt`, text, embedding | create, update, publish, schedule, cancel, remove, the publisher, embedding | save of an old copy; two publishers; a loop that fails half-way | announced once; published means announced; due posts get published; the embedding is the text's | `PostLifecycle` |
| posts: gallery, cover, narration; avatars | `gallery`, cover, `ogImage`, narration, avatar; files at Cloudinary | upload, remove, reorder, alt text, cover, narrate, replace | the limit under two uploads; positional array writes; document and file are two calls | at most ten in order; the cover is an image; no dangling and no forgotten file | `Media` |
| posts: views, questions | counters, `uniqueViewers`, LRU cache of answers | view, ask | cap of the viewer list; versions read before an `await` | a viewer counts once; no stale answer | `Readers` |
| listing, bookmarks, followers, notifications, accounts, reports, search | none of their own | pages by cursor, visibility | documents come, go and change between pages | no page skips or repeats what did not change; nothing hidden is shown | `Feed` |
| bookmarks, reactions, follows | their collections, counters on posts | toggle, create, delete | unique index against toggles; counter apart from rows; removal cascade | counters equal rows | `Engagement` |
| comments | comments | write, reply, edit, delete | replies against deletion | threads keep parents | `Threads` |
| categories, series | membership, order, cached counts | create, file, move, remove | counters moved on stale reads | counts equal members; nothing on a shelf that is gone | `Shelves` |
| newsletter | subscribers | subscribe, confirm, unsubscribe, mailing in batches | overlapping subscriptions; one token for two links | mails only to who asked, one each | `Newsletter` |
| account | everything of one user | delete, export | twelve calls without a transaction, racing the user's own requests | nothing of the account is active afterwards | `Auth`, `PostLifecycle`, `Engagement`, `Threads` |
| ai | quota per user and day, budget per process | consume, spend | midnight; limits under concurrency; restarts | never above the limit | `Quota` |
| email, seo, health, config, throttling, uploads, queue, WebSocket gateway | none, or not loaded | | | | not modelled |

Components meet through the database (all of them write `posts` and `users`),
through direct service calls (posts → newsletter, notifications, ai,
categories; admin → auth, users; account → every collection), and through the
external trigger and cron job that call the publisher.

## Modules

| module | what it is |
|---|---|
| `SingleUse` | abstract: what a store of single-use tokens promises |
| `Auth` | sessions, one-time links, passwords, Google sign-in, closing accounts |
| `Access` | every endpoint, its guards, and accounts that change under a request |
| `PostLifecycle` | drafting, publishing, scheduling, the publisher, embeddings, deletion of the author |
| `Shelves` | the space and type of posts, categories and series with their counts |
| `Media` | gallery, cover, link preview, narration, avatar, and the files behind them |
| `Feed` | lists read page by page while what they list changes |
| `Readers` | views and remembered viewers, questions and cached answers |
| `Engagement` | bookmarks and their count, reactions to posts, follows, notifications, and the cascades that clear them |
| `Threads` | comments and replies, edits, soft and hard deletion, and the cascades |
| `Quota` | AI calls: quota of accounts in the database, budget of processes in memory |
| `Newsletter` | double opt-in subscriptions and mailings |
| `MCAuth`, `MCLinks` | instances of `Auth` for TLC; `MCLinks` holds two |
| `MCPosts` | instances of `PostLifecycle` |
| `MCMedia`, `MCFeed` | an instance of `Media`, one of `Feed`, for what they contradict |
| `Content` | `PostLifecycle`, `Shelves` and `Media`, one at a time |
| `Publication`, `MCPublication` | `Content` and `Threads`, one part at a time, and an instance |
| `Surface` | `Access`, `Feed`, `Quota`, `Readers` and `Newsletter`, one at a time |
| `Audience`, `MCAudience` | `Surface` and `Engagement`, one part at a time, and an instance |
| `AuthProofs`, `PostProofs`, `EngagementProofs`, `ThreadsProofs`, `SurfaceProofs`, `ShelvesProofs`, `MediaProofs` | theorems, for every value of the constants |

**Runs of several parts.** `MCLinks`, `Content` and `Surface` put modules, or
instances of one module, side by side: a variable `part`, chosen in `Init` and
never changed, says which one steps, and the variables the others have of their
own rest at a fixed value. Every behaviour of such a run is a behaviour of one
part, so it checks exactly what separate runs would. `Content` takes `Media`
three times, each time with some of its handlers (`CoverNext`, `FieldsNext`,
`FilesNext`). `Content` and `Surface` leave their constants open, so that it can
be proved of them, for all constants, what the runs check of one instance.
`Publication` adds `Threads` to `Content`, and `Audience` adds `Engagement` to
`Surface`; these two keep constants, variables and definitions under names of
their own (`People`, `tasks`, `ThreadsNext`, `EngagementOK`) for this, and rest
where they begin. They too are taken with some of their handlers at a time:
`Engagement` with those of posts (`OfPostsNext`) and those of follows
(`OfFollowsNext`), which share only the deletion of an account; `Threads` with
three sets (`TalkNext`, `LeavingNext`, `ErasingNext`) such that any two handlers
meet in one of them. Behaviours that mix more are left to the proofs, which are
about `ThreadsNext` and `EngagementNext` with every handler.

### Auth

`user`, `sessions` (refresh token documents) and `links` (one-time tokens) are
the three collections; `req[r]` is the local state of a handler in progress
(`pc` names its next database call). Each action is the code between two
`await`s on the database: `Login` is the look-up and comparison of
`auth.service.ts:72-92`, `CreateSession` the token insert of `:321-343`,
`RefreshFind`/`RefreshDelete`/`FindUser` the three calls of a refresh, and so
on. A JWT without random part is modelled as what it is a function of: a
session is named by owner and second, so equal tokens really are equal.
`SessionTTL`, `LinkTTL`, `MaxClock`, `MaxSessions`, `MaxLinks` and
`MaxPasswords` bound the instance and appear as guards. `ReapSession` and
`ReapLink` are the TTL monitor, `Crash` a process lost between two calls.
History variables (`unrevoked`, `doubled`, the flags `late` and `closed`) are
read by no guard.

`OneTimeTokensAreSingleUse` maps `Auth` onto `SingleUse`: a link that can still
be redeemed is a usable token, and what a redemption returned is its grant.

### PostLifecycle

`post` is the collection, `req[r]` a request or a run of the publisher, with
the *copies* it read; a copy records whether the document was written since
(`stale` for status or date, `reworded` for text). `Save` is Mongoose's
`save()`. `Publish`…`CancelSave` are the handlers of `posts.service.ts:232-447`
split at the read and the save; `CronFind`, `CronSave` the loop of `:452-470`;
`Announce` and `Embed` are `afterPublish` (its `allSettled` branches run side by
side and touch different state, so their order does not matter except that the
embedding, which reads an old copy, is kept as a separate later step); `Related`
and `RelatedLook` are the readers' lazy embedding; `DraftPosts` and
`DeleteUser` what account deletion does here. Title and
body are one content, so the embedding of a new title with an old body is not
told apart. A publisher run whose post is
gone, or whose author is, ends there, as the loop does.

### Engagement and Threads

Both follow the same scheme: a collection is a set of documents, a request is
a record whose `pc` names its next database call, and the calls of a
`Promise.all` are the set `todo`, taken in any order (`bookmarks.service.ts:35`,
`posts.service.ts:304`, `account.service.ts:183`). The two cascades, removal of
a post and deletion of an account, appear in each module as far as its own
collections go: the parts run side by side in the code too, or one after the
other without reading what the other wrote.

In `Engagement` a *row* is a bookmark, a reaction or a follow. `Toggle` is the
first look-up of `toggle`, `Check` the look at the post, `Insert` the `create`
with its unique index, `Count` the increment, `DropRow` and `DropCount` the two
sides of taking a bookmark back. A row or notification is `late` if its post or
a user it names was gone or under deletion when it was stored; a post is
`drifted` when a toggle was lost half-way, two toggles took one bookmark back,
or a reader's account was deleted, which clears bookmarks without the count.

In `Threads`, `CreateComment`, `Parent`, `Insert`, `Notify` are the four calls of a
comment or reply; `LookForReplies` decides between `SoftDelete` and
`HardDelete`; `EditSave` writes its text whatever became of the comment.
`orphaned` and `exposed` remember comments whose deletion met a reply or an edit
that was already under way.

### Shelves

A *shelf* is a category or a series. Each handler is split at its calls:
`UpdatePost` reads the post and decides, `AssertCategory` looks the category up,
`SavePost` is `save()` (the paths changed on the copy, over what is stored by
then), `ShiftCount` one `$inc` after the other. `Shifts` says which counts a
handler moves and in which order. `RemoveFromSeries` lowers the count *before*
it saves (`series.service.ts:162`), hence `Uncount`. The history variables name
the exceptions: `stale` (saved from an old copy), `torn` (shelves whose count
was lost in a crash, or whose post was on others than the handler took it to be
on), `moved` (a filed post given another space, which nothing in `update`
prevents), `crossed` (a shelf deleted while a post was being put on it).

### Media

One post, its gallery with mongoose's `__v`, and the files at Cloudinary. How
`save()` writes an array is modelled by what mongoose does: `push` appends and
moves `__v` on (`PushImages`), a gallery assigned or sorted as a whole is written
only over the `__v` that was read (`RewriteGallery`), a field of one element goes
by its index, with the same test (`SaveAlt`), and a positional `$` update is
atomic (`CountDownload`). `Replace`, `DropOld`, `Fill`, `Keep` are narration and
avatar, which both call `deleteFile` for the old file first.

`deleteFile` calls `destroy` without a `resource_type`
(`upload.service.ts:94`), and Cloudinary then looks among images. Audio is
uploaded as `video` (`upload.service.ts:83`), so that the call finds no
narration and returns without an error: `Finds` says which files it finds. The
old avatar is gone before the new one is looked at, the old narration never.

The history variables name the exceptions: `late` (a cover or preview saved from
an outdated copy: it may name an image whose file is gone), `crowded` (images
pushed to a gallery that had changed since it was counted), `rewritten` (images
downloaded while their gallery was rewritten), `broken` (the avatar could not be
replaced after its old file was deleted), `strays` (files left by a crash, by a
call that failed, such as one of the best-effort deletions of `remove`, or by a
handler whose copy was out of date) and `unfound` (narrations that `deleteFile`
did not find, when they were replaced or their post removed).

`NothingDangles` and `FilesAreAccountedFor` are the two halves of documents and
files. The first says without any exception that the images and the narration
exist; the cover and the preview but for `late`; the avatar but while it is
being replaced, and for `broken`. The second says that a file nobody names is in
the hands of a request, or in `strays` or `unfound`. What the repository
promises beyond that is contradicted by `cover_dangles` and `narration_stays`.

### Access

The tables `PostsRest` … `SitePages` are the endpoints of each controller and
resolver with their guards; `Grant` is what the repository says an operation is
for. A request is three steps: `Arrive`, `Authenticate` (`JwtStrategy.validate`
reads the account, the guards decide on that copy), `Handle` (the handler asks
about the owner, with the same copy, and takes effect). `entitled` remembers
whether the caller had the right at any moment of the request; moderation,
confirmation and deletion of accounts run meanwhile.

### Feed

A document is `unborn`, `open`, `closed` or `gone`, which stands for published
or hidden, unread or read, active or not, pending or reviewed. `Selects` has one
operator for the query of each list, `Shows` what `populate` with `match` and
`filter(Boolean)` drop from a page afterwards, `Page` one query with its cursor.
`steady` is the set of documents that were listed when the reader began and
have not changed since.

### Readers, Quota, Newsletter

`Readers`: `RecordView` is the one update of `posts.service.ts:350`, `Look` and
`Answered` the two sides of the `await` on the model, `Got` and `Put` the LRU
cache. `Quota`: `Consume` is the one pipeline update of `ai-quota.service.ts:21`
with the day its request computed, `Spend` the budget in memory, lost in
`Restart`. `Newsletter`: `Subscribe`, `Insert` and `MailLink`, `Confirm` and
`SaveConfirmed` are the calls of the two handlers, a token is drawn anew by every
document, and a mail may be lost.

## Runs

`CHECK_DEADLOCK FALSE` is set everywhere because the bounds on the clock and on
what is created let an instance come to rest; nothing waits for anything in
this code.

`SessionNext` (`MCAuth`) and `RunnerNext` (`MCPosts`) are `Next` without the
steps of handlers that `auth_sessions` and `posts_runner` do not call; those
take their turn in `auth_links` and `publication`.

| run | result | question |
|---|---|---|
| `auth_sessions` | holds | Can a closed account get a session, can one login's chain of refresh tokens multiply, can a session outlive its password, other than in the named cases? |
| `auth_links` | holds | Do links coexist only by a race, are one-time tokens and nonce-bound codes single-use, do old sessions end when Google is linked? |
| `auth_double_refresh` | violated | Two refreshes of one token both succeed. |
| `auth_link_refused` | violated | Linking Google to a deactivated account keeps the old sessions. |
| `posts_runner` | holds | A run holds due posts only; no post stays due. |
| `posts_twice` | violated | Two publish requests mail twice. |
| `posts_authorless` | violated | A deleted author's post stops the publisher after it is published. |
| `publication` | holds | Announced once, published means announced, the embedding follows the text; counts of categories and series are exact and nothing is on a shelf that is gone; the gallery is in order, its cover is one of its images, and images and narrations exist, and so do cover and avatar, and no file is forgotten; threads keep their parents, deleted texts stay hidden, and neither comment nor notification of a removed post is left: each but for the named races, failures and files not found. |
| `cover_dangles` | violated | A cover set from a copy read before its image was removed names a file that is deleted. |
| `narration_stays` | violated | The old narration is still there when the new one is saved: `deleteFile` does not find it. |
| `audience` | holds | Does anything take effect without the right to it; do pages show each document once and nothing hidden; is a quota exceeded, a viewer counted twice, an answer stale, a mail unwanted; is the bookmark count exact, and do the cascades leave nothing, but for the named races and losses? |
| `review_queue` | violated | The second page of reports repeats the first, and later reports are never reached. |

**Bounds.** Two requests at one time: every race found is between two, a third
adds none because requests meet only in the database and each property is about
one document. One user and three sessions (`auth_sessions`) are what a doubled
refresh and its successor need; two users and both kinds of link (`auth_links`)
tell apart *whose* link is deleted. Lives of tokens keep the order they have in
the code, so that some expire and some do not within the clock. In the posts
parts one post and two clients with a runner give all races of a single
document, and two posts with a runner the loop that ends half-way. Three ticks
let a post be due before, at and after a run. In the parts of `audience` that
take `Engagement` two rows are enough for a bookmark that is taken back and
stored again under another toggle, and for two that meet the unique index; a count may fall to -1, one
below any honest value, which `MaxDebt` caps because a lost toggle can be
repeated for ever. In the parts of `publication` that take `Threads` two comments
are a parent and its reply.

In `publication`, a post moves between two categories, one of which is made later,
and a series, by at most four requests (`MaxCalls`): a creation, two that race,
and one that meets what they left. A gallery holds two images instead of ten
and three files are ever uploaded, so an upload can exceed the limit, meet a
removal, and replace what was removed. The runs of `MCMedia` have the same
gallery and files: two images are the cover and the one that follows it, and two
requests the removal and the stale save. In `audience`, four documents are two
pages of two, with one of them another author's; the quota is two calls on two
instances over two days; a post remembers one viewer of three; a cache holds
two of three answers; three tokens let an address subscribe, cancel and
subscribe again beside another one.

**Fairness.** Only `posts_runner` needs it. The publisher is triggered again and
again (`@Cron(EVERY_MINUTE)`, or `vercel.json` and an external trigger), hence
weak fairness of `CronFind` and of the steps of a run (`Fairness`); a run may be lost
arbitrarily often but not every time just before it would save one and the same
post, hence strong fairness of `CronSave` per post. Nothing is assumed of
clients.

The properties that hold name their exceptions (a late session, a raced post, a
torn shelf) through history variables, which no guard reads. That is deliberate:
the exceptions are the races the code has, and the property says there are no
others. The violated runs show the ones where a comment or document of the
repository promises more.

Races these models contain that have no run of their own: two forgot-password
requests leave two live links (the exception of `LinksOverlapOnlyByRace`); a
login or refresh under way during a reset keeps a session (`late` in
`OldPasswordSessionsEnd`); a refresh during deactivation (`closed` in
`NoSessionForClosedAccount`); a refresh within the second of its token's
signature gets the same token again; a verification between the read and the
save of a Google link; a schedule request that takes a published post back
(`raced` in `AnnouncedOnce`); a publish request that outlives its author's
account and leaves the post public; the exceptions `drifted`, `late` and `lost`
of `Engagement`, `late`, `missed`, `orphaned` and `exposed` of `Threads`, `torn`,
`moved` and `crossed` of `Shelves`, `crowded`, `rewritten`, `broken` and `strays`
of `Media` (`broken`: a new avatar that cannot be uploaded or saved leaves its
account naming the old one, deleted first, `users.controller.ts:107`), `late` of
`Quota`, each of which TLC reaches: the comment at `posts.service.ts:295`, that
nothing may keep pointing at a deleted post and counters must not drift, holds
up to these. By one caller and without a race, a post added to a series after
another was taken out gets a place that is already taken
(`series.service.ts:123`), and an edit may move a filed post to the other space
(`posts.service.ts:261`) and leave it on its shelf.

## Proofs

The theorems hold for every value of the constants that the named assumptions
allow: any number of users, requests, publisher runs, tokens, posts, documents
and instances. `AuthAssumption` and `PostAssumption` ask for disjoint names,
positive lives of tokens and a clock of at least one tick;
`EngagementAssumption` asks for disjoint names and bounds that are numbers,
`ThreadsAssumption` for a bound on the comments that is one. `Sensible` of `Feed`
asks for a page that holds something and a relevance for every document, of
`Quota` for plans with calls and an instance that is up, of `Readers` for a
process, a question and limits that are numbers, of `Newsletter` for finitely
many addresses and sites and a batch that holds something; `Access` needs no
assumption. `Surface` assumes the four of its parts, so TLC evaluates them.
`Sensible` of `Shelves` asks for names that mean one thing and finitely many
posts and requests to count, of `Media` for a `None` that is no file and bounds
that are numbers; `Content` assumes both. Each safety theorem is proved from an
inductive invariant, with one lemma per action or group of actions.

A theorem of `SurfaceProofs` states its property twice: of the specification of
the part (`Q!Spec => []Q!QuotaHolds`) and of the five side by side, which is what
the run `audience` checks of it (`SurfaceSpec => []QuotaHolds`). Its invariants are named
after the part; `SurfaceInv` says that the part which steps has its own
(`OnePartSteps`: the others rest). The theorems of `ShelvesProofs` and
`MediaProofs` do the same for `Shelves`, `Media` and `Content`. Those of
`EngagementProofs` and `ThreadsProofs` are about the module on its own
(`ThreadsSpec => []RepliesKeepParents`), whose behaviours are those of its part in
`audience` or `publication`.

| theorem | states | invariant it rests on |
|---|---|---|
| `AuthProofs!TypeCorrect` | `TypeOK` | itself |
| `AuthProofs!LinksOverlapCorrect` | `LinksOverlapOnlyByRace` | `LinkInv` |
| `AuthProofs!ClosedAccountCorrect` | `NoSessionForClosedAccount` | `ClosedKnown` |
| `AuthProofs!OldPasswordCorrect` | `OldPasswordSessionsEnd` | `PasswordInv` |
| `AuthProofs!ChainsCorrect` | `RefreshChainsDoNotGrow` | `ChainInv` |
| `AuthProofs!SingleUseCorrect` | `OneTimeTokensAreSingleUse` | `LinkInv`, `LinksDiffer` |
| `PostProofs!TypeCorrect` | `TypeOK` | itself |
| `PostProofs!RunsCorrect` | `RunsHoldDuePosts` | `HeldInv` |
| `PostProofs!AnnouncedOnceCorrect` | `AnnouncedOnce` | `HeldInv`, `AnnounceInv` |
| `PostProofs!PublishedIsAnnouncedCorrect` | `PublishedIsAnnounced` | `HeldInv` |
| `PostProofs!EmbeddingCorrect` | `EmbeddingCurrent` | `HeldInv`, `WordsInv` |
| `EngagementProofs!RemovedCorrect` | `RemovedPostsLeaveNothing` | `Shaped`, `Cleared` |
| `EngagementProofs!DeletedCorrect` | `DeletedAccountsLeaveNothing` | `Shaped`, `Hushed` |
| `EngagementProofs!CountCorrect` | `BookmarkCountAgrees` | `Shaped`, `CountInv` |
| `EngagementProofs!TypeCorrect` | `EngagementOK` | `Shaped`, `CountInv` |
| `ThreadsProofs!TypeCorrect` | `ThreadsOK` | `Typed` |
| `ThreadsProofs!ParentsCorrect` | `RepliesKeepParents` | `Coherent` |
| `ThreadsProofs!HiddenCorrect` | `DeletedTextIsHidden` | `Coherent` |
| `ThreadsProofs!RemovedCorrect` | `RemovedPostsLeaveNoThread` | `Cleared` |
| `ThreadsProofs!SilentCorrect` | `DeletedAccountsFallSilent` | `Hushed` |
| `SurfaceProofs!EndpointsGuarded` | every endpoint has the guards its operation asks for | no invariant: the tables, case by case |
| `SurfaceProofs!PartsCorrect` | `PartsOK` | `SurfaceInv` |
| `SurfaceProofs!RightsCorrect` | `NothingWithoutRight` | `AccessInv` (`AccessRemembers`) |
| `SurfaceProofs!PagesCorrect` | `PagesShowEachOnce` | `FeedInv` (`FeedOnTrack`) |
| `SurfaceProofs!LeaksCorrect` | `NothingLeaks` | `FeedInv` |
| `SurfaceProofs!QuotaCorrect` | `QuotaHolds` | `QuotaInv` (`QuotaExact`) |
| `SurfaceProofs!ViewersCorrect` | `ViewersCountOnce` | `ReadersInv` (`ReadersViewsInv`) |
| `SurfaceProofs!FreshCorrect` | `AnswersAreFresh` | `ReadersInv` (`ReadersCachesInv`) |
| `SurfaceProofs!CacheCorrect` | `CacheKeepsLatest` | `ReadersInv` (`ReadersCachesInv`) |
| `SurfaceProofs!MailsCorrect` | `MailsAreWanted` | `NewsletterInv` |
| `ShelvesProofs!CountsCorrect` | `CountsAgree` | `ShelvesInv` |
| `ShelvesProofs!FilingCorrect` | `NoPostOnMissingShelf` | `ShelvesInv` |
| `ShelvesProofs!SpacesCorrect` | `PostsFitTheirSpace` | `ShelvesInv` |
| `MediaProofs!FilesExist` | `NothingDangles` | `MediaInv` (`KnowsFiles`, `FilesThere`) |
| `MediaProofs!CoverCorrect` | `CoverIsInGallery` | `MediaInv` (`HoldsCopy`) |
| `MediaProofs!GalleryCorrect` | `GalleryIsInOrder` | `MediaInv` (`HoldsCopy`) |
| `MediaProofs!FieldsCorrect` | `FieldsStayWithTheirImage` | `MediaInv` (`KnowsGallery`, `KnowsFields`) |
| `MediaProofs!FilesAccounted` | `FilesAreAccountedFor` | `MediaInv` (`HoldsFiles`, `KnowsFiles`) |
| `MediaProofs!ContentTyped` | `ContentOK` | `ShelvesInv`, `MediaInv` |

*Why the invariants are what they are.* No property of `Auth` is inductive,
because each speaks of stored documents and the danger is in the local state of
a handler that is about to store one. `LinkInv` adds what a request between
clearing and inserting a link knows. `ClosedKnown` adds the requests that found
an account open. `PasswordInv` has four parts: `Founded`, a session's password
is one its user had; `Carriers`, a request that carries a password is known to
be late once the password changes; `StaleSessions` and `StaleRequests`, an old
password in a session or a request means that its revocation is still to come,
was lost or refused, or passed it by. `ChainInv` counts what a login may still
grow into: the tokens of its chain that no refresh has gone past, stored or in
the hands of a refresh (`Unspent`), and the refreshes between deleting a token
and storing the next (`OnTheWay`). A refresh moves one from the first set to the
second and back; only one that finds its token spent adds to the sum, and that
one is in `doubled`. Live sessions are unspent tokens, and different ones.

That `Auth` implements `SingleUse` needs two things of the collection: an `_id`
is given once (`LinksDiffer`), and none is ahead of the counter. `UsableMeans`
turns the refinement mapping into facts about single documents; then
`consumeOneTimeToken` is a `Redeem` (`Redeeming`), `createOneTimeToken` an
`Issue` (`Issuing`), and every other step, the clock's and the TTL monitor's
among them, a `Retire` of the tokens that can no longer be used (`Retiring`).

`HeldInv` says what the copies of a request mean: what a copy says of its
post's status and date is what the document has, unless the copy is marked as
old or the post is gone; a request has one copy of a post; a publisher's copies
were due. Without it a save from a copy could be about anything. With it, a
save from an unmarked copy takes a draft or scheduled post to published, so it
is the first; `AnnounceInv` turns this into a count: a post never saved from an
old copy is not announced before it is published, is announced by at most one
request, and is announced at most once. `WordsInv` says the same of the text:
an unmarked copy has the words of its post, so what is embedded from it is
current, and `EmbeddingCurrent` is then inductive.

In `Threads`, `Coherent` says what a comment (`Threaded`) and a request
(`Knows`) may take for granted of the others: the parent of a reply is on the
reply's post, so that a cascade takes both; the parent a request found is still
there when it stores the reply, or is in `orphaned`; a deletion for good has no
replies to leave behind, or they are in `orphaned`; a copy to be saved is of a
comment that is not deleted, or is in `exposed`; a number is given once.
`Cleared` and `Hushed` follow the two cascades: they say of a deletion that is
under way what it has already cleared, so that nothing can be left when it is
over. `Cleared` says it of both calls of a removal, that for comments and that
for notifications, each of which has its own `Leftovers`. The lemma `Descent`,
that only an insertion brings a comment nobody had written, leaves them one
interesting step each.

`Engagement` has the same two cascades and the same two invariants, kind by
kind: `Cleared` says of a removal which kinds it has cleared, `Hushed` of a
deletion which it has left. `Timeliness` is the lemma both rest on: what a step
stores without a mark names a post that is there and accounts nobody is
deleting. They need less than the type: `Shaped` leaves out the bound of
`bookmarksCount`, which rests on counting.

That count is the sum of what single requests owe a post: `Weight` is what one
request has still to add or to take, and `Balancing` that a step moves the sum
by the difference in the weight of the one request that makes it. A step is
correct (`Agreeing`) if it moves count, bookmarks and weight together. `CountInv`
adds what makes a toggle take back the row it read or none: an `_id` is given
once, and what a request read of it stays true (`Aimed`).

In `Access` the request is decided on a copy of the account, and the property
is about the account itself: `AccessRemembers` says that what a request was allowed
on its copy, it was entitled to at that moment. That the guards of an endpoint
imply its grant is `AccessKindsSound`, over what an endpoint tells TLC apart, and
`EndpointsGuarded`, over the endpoints themselves.

In `Quota`, `QuotaExact` relates the one counter an account has to what it was
granted in the name of every day: nothing after the day counted, the count on
that day, at most the limit on any before. The exception, an account in `late`,
is the request that spends in the name of yesterday after one of today.

In `Feed`, `FeedOnTrack` says of a walk half-way that what it has shown is before
the cursor in the list's order, and that every steady document before the
cursor has been shown. That a page ends at the cursor (`FeedCursorIsLast`), takes
an initial piece of what is left (`FeedTakenIsInitial`) and takes all of it on the
last page (`FeedTakenAll`) is proved of the operators, from the well-foundedness of
finite sets. The list of reports is excluded by the theorem and contradicted by
the run `review_queue`; the search is excluded because a comment of the code
says so.

In `Readers`, both memories are *ends* of histories nobody cuts off (`Ends`). The
remembered viewers are the last `Remembered` of those counted, and have no
repetition: a viewer who is not among them either was never counted or came
before all of them, which is what `ViewersCountOnce` asks for when it is counted
once more. The keys of a cache are the last `Capacity` of the keys that were
used, in the order of their last use: taking a key out of the middle and putting
it last is done to both sequences alike, and dropping the first on overflow
leaves an end an end. An answer carries the version of its own key
(`ReadersFromKeys`), which makes it fresh.

In `Newsletter`, tokens are drawn one after the other, hence each belongs to one
subscription and reached the inbox of one address only (`NewsletterTokensOK`); a
request half-way through a confirmation has a token that was mailed and followed
(`NewsletterInOrder`), whatever was cancelled and subscribed again meanwhile. Of
a mailing `NewsletterSending` says that what it has sent and what is left of its
batch are the list up to the end of the batch, and disjoint; the list itself has
no repetition, so nobody is written to twice and, once the batches are past the
end, everybody was.

`Shelves` counts as `Engagement` does: `Owed` is the sum of what single requests
owe the count of a shelf (`Weight`, `Owing`), the members of a shelf change with
one document at a time (`MembersMove`), and `PostStep` asks of a step that writes a
post that it changes membership and weight alike. That it does, `SaveShifts` shows
for every edit and every addition to a series; a copy that is out of date can only
fail on shelves which are then in `torn`. What makes the weight countable is that a
request never has the same shift to make twice (`Apart`): a category is no series.
`Knows` says what else a request may take for granted: what kind of change it
makes to its post (`EditsPost`, `FilesPost`), and that the shelves it puts the post
on (`Joins`) were found there, in its space, and are still there or in `crossed`.
`DropsEmpty` is the other half: a shelf that is about to be deleted has no post
but those put on it since it was found empty, and they put it in `crossed`.

In `Media`, a copy and the gallery are related by the version alone:
`KnowsGallery` says that a copy whose `__v` is the one stored has the stored images at
the stored places (`SameImages`), though perhaps not their texts and downloads,
which change without moving `__v`. That is why an index taken from a copy names the
right image, and why a rewrite may put an old field back; `Faithful` says of every
image, stored or about to be written back (`KnowsFields`), how far its downloads may
be behind, and only for images in `rewritten`. `HoldsCopy` says what each request
has made of its copy: that the gallery it will write is that of the copy without
the image it removes, numbered anew. This rests on lemmas about the sorting in the
code: `Ordered` (sorting by order takes every image once, the one of rank *k* to
place *k*; ranks are counted, so nothing is recursive), `WithoutImage`, and
`ReorderedImages`, for which `OrderIsRank` shows that an order numbered from zero is
its own rank. `LongAsMany` turns the number of ids a caller names into the length
of the gallery. `KnowsFiles` is who holds a file: what a request has uploaded no
document names and no other request uploads or deletes (`AllDisjoint`), and what it is
about to delete no document names, but for the old file of the slot it replaces.
`FilesThere` is what is left of `NothingDangles` once the cover is known to be an
image of the gallery: the images exist, and a slot whose file is gone is the
avatar, `broken` or in the hands of a request that has just deleted it
(`Replaces`). A request that keeps a new file in a slot knows of the old one that it
is gone or `Lost`, that is, in `strays` or `unfound`, which is why
`FilesAreAccountedFor` does not lose sight of it.
`Spares` sums up what a step of one request may do to the others; `KnowsMediaLasts`
shows once that whoever is spared still knows what it knew, so that each action
needs to be looked at only for the request that takes it.

Only model-checked: the liveness property `DuePostIsPublished`, because liveness
under fairness is beyond the proof system. Every other property that a passing run
checks is stated by a theorem. There are no `RECURSIVE` operators.

## Not modelled

- **WebSocket gateway, queue**: not registered as providers or imported, so the
  code never runs.
- **E-mail, RSS, sitemap, text generation, humanizing**: formatting and one HTTP
  request, no state. That a mail or a call may fail is in the modules that make
  it.
- **Throttling**: the counters are the library's; every caller may call at any
  time in the models, which is more than any limit allows.
- **Top-k heap, depth limit, recognition of file types**: pure functions of
  small inputs, which the unit tests enumerate.
- **Single writes**: the edit of one's profile, filing and reviewing a report,
  featuring a post. Each is one update that no property here relates to
  anything else.
- **Reactions to comments**: `Engagement` has reactions to posts. The cascade
  for those to comments reads the comments first (`posts.service.ts:299`), a
  race listed among the hazards without a property.
- **Google's side of the sign-in** and the encoding of state and cookies;
  **configuration and health**.

## What is left

1. An abstract counter, equal to the size of a set, which the counts of
   `Engagement` and `Shelves` implement up to the increments under way.
2. Reactions to comments, in `Threads`.
3. A place in a series that two posts share: `Shelves` has the behaviour, and a
   property needs a statement of the repository to hold it against.
