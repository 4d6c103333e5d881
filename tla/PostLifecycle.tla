--------------------------- MODULE PostLifecycle ---------------------------
(***************************************************************************)
(* Drafting, publishing and scheduling posts, the scheduled publisher, and *)
(* what account deletion does to an author's posts.                        *)
(*                                                                         *)
(* As in module Auth, a handler is a sequence of database calls and any    *)
(* other request may run between two of them.  Every handler here reads    *)
(* the post, decides on the copy it read and saves it: Mongoose's save()   *)
(* writes only the paths that were changed on the copy, without looking at *)
(* what the document holds by then, and fails if the document is gone.     *)
(*                                                                         *)
(* A request keeps the copies it read as records (Copy).  The publisher    *)
(* reads all due posts at once and works through its copies one by one;    *)
(* several of its runs may overlap.                                        *)
(*                                                                         *)
(* Abstracted: title, body and tags are one content value; the embedding   *)
(* of a content is that content.  Left to other modules: categories and    *)
(* series, gallery and cover, comments, reactions, bookmarks, views, and   *)
(* what mailing a post to each subscriber takes.                           *)
(***************************************************************************)
EXTENDS Naturals, FiniteSets

CONSTANTS
  Posts,      \* posts
  Users,      \* accounts
  Admins,     \* accounts with the admin role
  NoUser,     \* a reference that populates to null
  AuthorOf,   \* author of each post
  Contents,   \* values of a post's title and body
  NoContent,  \* a post that was never embedded
  Clients,    \* requests of users that may be in progress at one time
  Runners,    \* runs of the publisher that may be in progress at one time
  Handlers,   \* the handlers clients call in this instance
  MaxClock    \* bound: last tick

AllHandlers == {"create", "update", "publish", "schedule", "cancel", "remove",
                "deleteAccount", "related"}

Requests == Clients \cup Runners

ASSUME PostAssumption ==
  /\ Handlers \subseteq AllHandlers
  /\ Admins \subseteq Users /\ NoUser \notin Users
  /\ AuthorOf \in [Posts -> Users]
  /\ Contents # {} /\ NoContent \notin Contents
  /\ Clients \cap Runners = {}
  /\ MaxClock \in Nat \ {0}

VARIABLES
  post,       \* posts collection
  accounts,   \* users whose document exists
  req,        \* requests and publisher runs in progress
  now,        \* the clock
  \* History, read by no guard and by no other variable:
  announced,  \* announced[p]: newsletters for p: 0, 1 or more (2)
  told,       \* <<p, u>>: u's followers were notified that u published p
  raced,      \* posts saved from a copy whose status or date was old, or
              \* taken back when their author's account was deleted
  lost,       \* posts whose announcement a crash or an error cut off
  blurred     \* posts whose embedding was skipped, cut off or made from an
              \* old content

vars == <<post, accounts, req, now, announced, told, raced, lost, blurred>>

-----------------------------------------------------------------------------
(* Documents and copies                                                    *)

\* PostStatus; "new": not created yet, "gone": removed.
Statuses == {"new", "draft", "scheduled", "published", "gone"}

NoDate == 0
Dates == 0 .. MaxClock

Post == [status : Statuses, at : Dates, content : Contents,
         embedding : Contents \cup {NoContent}]

Exists(p) == post[p].status \notin {"new", "gone"}

\* What a request knows of a post: the fields it decides on as it read them,
\* who is named as publisher, and (history) whether the document's status or
\* date, or its content, was written since.
Copy == [p : Posts, status : Statuses, at : Dates, content : Contents,
         by : Users \cup {NoUser}, stale : BOOLEAN, reworded : BOOLEAN]

CopyOf(p, u) == [p |-> p, status |-> post[p].status, at |-> post[p].at,
                 content |-> post[p].content, by |-> u, stale |-> FALSE,
                 reworded |-> FALSE]

\* publicUser('author') populates to null once the account is gone.
Author(p) == IF AuthorOf[p] \in accounts THEN AuthorOf[p] ELSE NoUser

MayEdit(u, p) == u = AuthorOf[p] \/ u \in Admins

-----------------------------------------------------------------------------
(* Requests                                                                *)

PCs == {"idle", "updateSave", "publishSave", "scheduleSave", "cancelSave",
        "cronSave", "announce", "embed", "related", "draftPosts", "deleteUser"}

\* copies: what is still to be handled (one copy but for the publisher);
\* cur: the copies saved last, at most one; at, content: the input.
Request == [pc : PCs, copies : SUBSET Copy, cur : SUBSET Copy, at : Dates,
            content : Contents \cup {NoContent}, user : Users \cup {NoUser}]

Idle == [pc |-> "idle", copies |-> {}, cur |-> {}, at |-> NoDate,
         content |-> NoContent, user |-> NoUser]

At(r, pc) == req[r].pc = pc

Become(r, q) == req' = [req EXCEPT ![r] = q]

\* The copies of the posts in S are no longer what the database holds.
Aged(cs, S, reworded) ==
  {IF c.p \notin S THEN c
   ELSE IF reworded THEN [c EXCEPT !.reworded = TRUE]
        ELSE [c EXCEPT !.stale = TRUE] : c \in cs}

\* r goes on as q, having written the posts in S under everybody else.
BecomeWriting(r, q, S, reworded) ==
  req' = [x \in Requests |->
            IF x = r THEN q
            ELSE [req[x] EXCEPT !.copies = Aged(@, S, reworded),
                                !.cur = Aged(@, S, reworded)]]

\* An authenticated user calls handler h for post p; findEditable finds p
\* and the user may edit it.
Edits(r, h, u, p) ==
  /\ h \in Handlers /\ r \in Clients /\ At(r, "idle")
  /\ u \in accounts /\ Exists(p) /\ MayEdit(u, p)

\* The handler has read p and goes on to pc.
Opened(pc, u, p) == [Idle EXCEPT !.pc = pc, !.copies = {CopyOf(p, u)}]

-----------------------------------------------------------------------------
(* Create, update, remove                                                  *)

Create(u, p, c) ==
  /\ "create" \in Handlers
  /\ u \in accounts /\ u = AuthorOf[p] /\ post[p].status = "new"
  /\ post' = [post EXCEPT ![p] = [status |-> "draft", at |-> NoDate,
                                  content |-> c, embedding |-> NoContent]]
  /\ UNCHANGED <<accounts, req, now, announced, told, raced, lost, blurred>>

\* deleteOne after findEditable; it succeeds whoever deleted the post.
Remove(u, p) ==
  /\ "remove" \in Handlers
  /\ u \in accounts /\ Exists(p) /\ MayEdit(u, p)
  /\ post' = [post EXCEPT ![p].status = "gone"]
  /\ UNCHANGED <<accounts, req, now, announced, told, raced, lost, blurred>>

Update(r, u, p, c) ==
  /\ Edits(r, "update", u, p)
  /\ Become(r, [Opened("updateSave", u, p) EXCEPT !.content = c])
  /\ UNCHANGED <<post, accounts, now, announced, told, raced, lost, blurred>>

\* Mutant: an edited post keeps the embedding of its old content.
Reembeds_Never(c) == FALSE

\* A published post is embedded again; the copy tells whether it is one.
Reembeds(c) == c.status = "published"

UpdateSave(r) == \E c \in req[r].copies :
  /\ At(r, "updateSave")
  /\ IF Exists(c.p)
     THEN /\ post' = [post EXCEPT ![c.p].content =
                                     IF req[r].content = c.content THEN @ ELSE req[r].content]
          /\ BecomeWriting(r, IF Reembeds(c)
                              THEN [Idle EXCEPT !.pc = "embed",
                                      !.cur = {[c EXCEPT !.content = req[r].content,
                                          !.reworded = @ /\ req[r].content = c.content]}]
                              ELSE Idle, {c.p}, TRUE)
          /\ blurred' = IF c.status # "published" /\ c.stale
                        THEN blurred \cup {c.p} ELSE blurred
     ELSE Become(r, Idle) /\ UNCHANGED <<post, blurred>>
  /\ UNCHANGED <<accounts, now, announced, told, raced, lost>>

-----------------------------------------------------------------------------
(* Publish, schedule, cancel                                               *)

\* Mutant: a post is published again.
MayPublish_Always(p) == TRUE

\* Idempotent: publishing twice must not email every subscriber twice.
MayPublish(p) == post[p].status # "published"

Publish(r, u, p) ==
  /\ Edits(r, "publish", u, p)
  /\ MayPublish(p)
  /\ Become(r, Opened("publishSave", u, p))
  /\ UNCHANGED <<post, accounts, now, announced, told, raced, lost, blurred>>

\* save() writes status, and scheduledAt when the copy had one.
PublishWrite(c) ==
  [post EXCEPT ![c.p] = [@ EXCEPT !.status = "published",
                                  !.at = IF c.at # NoDate THEN NoDate ELSE post[c.p].at]]

\* The save of a copy c, after which r goes on as q.
Save(r, c, written, q) ==
  /\ post' = written
  /\ BecomeWriting(r, q, {c.p}, FALSE)
  /\ raced' = IF c.stale THEN raced \cup {c.p} ELSE raced

\* Mutant: the request ends without afterPublish.
PublishSave_Silent(r) == \E c \in req[r].copies :
  /\ At(r, "publishSave")
  /\ IF Exists(c.p) THEN Save(r, c, PublishWrite(c), Idle)
     ELSE Become(r, Idle) /\ UNCHANGED <<post, raced>>
  /\ UNCHANGED <<accounts, now, announced, told, lost, blurred>>

PublishSave(r) == \E c \in req[r].copies :
  /\ At(r, "publishSave")
  /\ IF Exists(c.p)
     THEN Save(r, c, PublishWrite(c), [Idle EXCEPT !.pc = "announce", !.cur = {c}])
     ELSE Become(r, Idle) /\ UNCHANGED <<post, raced>>
  /\ UNCHANGED <<accounts, now, announced, told, lost, blurred>>

Schedule(r, u, p, t) ==
  /\ Edits(r, "schedule", u, p)
  /\ post[p].status # "published" /\ t > now
  /\ Become(r, [Opened("scheduleSave", u, p) EXCEPT !.at = t])
  /\ UNCHANGED <<post, accounts, now, announced, told, raced, lost, blurred>>

\* Only what differs from the copy is written.
ScheduleWrite(c, t) ==
  [post EXCEPT ![c.p] =
     [@ EXCEPT !.status = IF c.status = "scheduled" THEN post[c.p].status ELSE "scheduled",
               !.at = IF c.at = t THEN post[c.p].at ELSE t]]

ScheduleSave(r) == \E c \in req[r].copies :
  /\ At(r, "scheduleSave")
  /\ IF Exists(c.p) THEN Save(r, c, ScheduleWrite(c, req[r].at), Idle)
     ELSE Become(r, Idle) /\ UNCHANGED <<post, raced>>
  /\ UNCHANGED <<accounts, now, announced, told, lost, blurred>>

Cancel(r, u, p) ==
  /\ Edits(r, "cancel", u, p)
  /\ post[p].status = "scheduled"
  /\ Become(r, Opened("cancelSave", u, p))
  /\ UNCHANGED <<post, accounts, now, announced, told, raced, lost, blurred>>

\* Mutant: a cancelled post gets a status that is no PostStatus.
CancelWrite_Named(c) == [post EXCEPT ![c.p].status = "cancelled"]

CancelWrite(c) ==
  [post EXCEPT ![c.p] = [@ EXCEPT !.status = "draft",
                                  !.at = IF c.at # NoDate THEN NoDate ELSE post[c.p].at]]

CancelSave(r) == \E c \in req[r].copies :
  /\ At(r, "cancelSave")
  /\ IF Exists(c.p) THEN Save(r, c, CancelWrite(c), Idle)
     ELSE Become(r, Idle) /\ UNCHANGED <<post, raced>>
  /\ UNCHANGED <<accounts, now, announced, told, lost, blurred>>

-----------------------------------------------------------------------------
(* The scheduled publisher: @Cron every minute, or an external trigger     *)

\* Mutants: the status is forgotten; a run only finds what is due just now.
Due_AnyStatus(p) == Exists(p) /\ post[p].at # NoDate /\ post[p].at <= now

Due_Exact(p) == post[p].status = "scheduled" /\ post[p].at # NoDate /\ post[p].at = now

\* A null scheduledAt does not compare with a date.
Due(p) == post[p].status = "scheduled" /\ post[p].at # NoDate /\ post[p].at <= now

\* find and populate; a run that finds nothing changes nothing.
CronFind(r) ==
  /\ r \in Runners /\ At(r, "idle")
  /\ \E p \in Posts : Due(p)
  /\ Become(r, [Idle EXCEPT !.pc = "cronSave",
                            !.copies = {CopyOf(p, Author(p)) : p \in {x \in Posts : Due(x)}}])
  /\ UNCHANGED <<post, accounts, now, announced, told, raced, lost, blurred>>

\* The loop takes the next copy c.  If its post is gone, save() throws and
\* the run ends without the rest.
CronSave(r, c) ==
  /\ At(r, "cronSave") /\ c \in req[r].copies
  /\ IF Exists(c.p)
     THEN Save(r, c, PublishWrite(c),
               [req[r] EXCEPT !.pc = "announce", !.cur = {c}, !.copies = @ \ {c}])
     ELSE Become(r, Idle) /\ UNCHANGED <<post, raced>>
  /\ UNCHANGED <<accounts, now, announced, told, lost, blurred>>

-----------------------------------------------------------------------------
(* afterPublish                                                            *)

\* Newsletter and follower notifications.  With a null author the call throws
\* before either begins, which also ends a run of the publisher.
Announce(r) == \E c \in req[r].cur :
  /\ At(r, "announce")
  /\ IF c.by = NoUser
     THEN /\ Become(r, Idle)
          /\ lost' = lost \cup {c.p} /\ blurred' = blurred \cup {c.p}
          /\ UNCHANGED <<announced, told>>
     ELSE /\ announced' = [announced EXCEPT ![c.p] = IF @ = 2 THEN 2 ELSE @ + 1]
          /\ told' = told \cup {<<c.p, c.by>>}
          /\ Become(r, [req[r] EXCEPT !.pc = "embed"])
          /\ UNCHANGED <<lost, blurred>>
  /\ UNCHANGED <<post, accounts, now, raced>>

\* The rest of a publisher's run, or the end of the request.
AfterEmbed(q) == IF q.copies = {} THEN Idle
                 ELSE [q EXCEPT !.pc = "cronSave", !.cur = {}]

\* embedPost: the provider may give no vector; updateOne on a removed post
\* does nothing.
Embed(r) == \E c \in req[r].cur, ok \in BOOLEAN :
  /\ At(r, "embed")
  /\ post' = IF ok /\ Exists(c.p)
             THEN [post EXCEPT ![c.p].embedding = c.content] ELSE post
  /\ blurred' = IF ~ok \/ c.reworded THEN blurred \cup {c.p} ELSE blurred
  /\ Become(r, AfterEmbed(req[r]))
  /\ UNCHANGED <<accounts, now, announced, told, raced, lost>>

\* getRelatedPosts of a published post: a reader's request may embed it, if
\* it has no embedding, from the copy it read before it looked.
Related(r, p) ==
  /\ "related" \in Handlers /\ r \in Clients /\ At(r, "idle")
  /\ post[p].status = "published"
  /\ Become(r, [Idle EXCEPT !.pc = "related", !.cur = {CopyOf(p, NoUser)}])
  /\ UNCHANGED <<post, accounts, now, announced, told, raced, lost, blurred>>

RelatedLook(r) == \E c \in req[r].cur :
  /\ At(r, "related")
  /\ Become(r, IF post[c.p].embedding = NoContent THEN [req[r] EXCEPT !.pc = "embed"]
                ELSE Idle)
  /\ UNCHANGED <<post, accounts, now, announced, told, raced, lost, blurred>>

-----------------------------------------------------------------------------
(* Account deletion, as far as posts are concerned                         *)

DeleteAccount(r, u) ==
  /\ "deleteAccount" \in Handlers /\ r \in Clients /\ At(r, "idle")
  /\ u \in accounts
  /\ Become(r, [Idle EXCEPT !.pc = "draftPosts", !.user = u])
  /\ UNCHANGED <<post, accounts, now, announced, told, raced, lost, blurred>>

\* updateMany: the posts become drafts and keep their scheduledAt.
DraftPosts(r) ==
  LET mine == {p \in Posts : AuthorOf[p] = req[r].user /\ Exists(p)}
  IN /\ At(r, "draftPosts")
     /\ post' = [p \in Posts |-> IF p \in mine THEN [post[p] EXCEPT !.status = "draft"]
                                 ELSE post[p]]
     /\ BecomeWriting(r, [req[r] EXCEPT !.pc = "deleteUser"], mine, FALSE)
     /\ raced' = raced \cup {p \in mine : post[p].status = "published"}
     /\ UNCHANGED <<accounts, now, announced, told, lost, blurred>>

DeleteUser(r) ==
  /\ At(r, "deleteUser")
  /\ accounts' = accounts \ {req[r].user}
  /\ Become(r, Idle)
  /\ UNCHANGED <<post, now, announced, told, raced, lost, blurred>>

-----------------------------------------------------------------------------

Tick ==
  /\ now < MaxClock
  /\ now' = now + 1
  /\ UNCHANGED <<post, accounts, req, announced, told, raced, lost, blurred>>

\* The process is lost: what is left of the handler or run never happens.
Crash(r) ==
  /\ ~At(r, "idle")
  /\ lost' = IF At(r, "announce") THEN lost \cup {c.p : c \in req[r].cur} ELSE lost
  /\ blurred' = IF At(r, "announce") \/ At(r, "embed")
                THEN blurred \cup {c.p : c \in req[r].cur} ELSE blurred
  /\ Become(r, Idle)
  /\ UNCHANGED <<post, accounts, now, announced, told, raced>>

\* No post exists yet.
Init ==
  /\ \E c \in Contents :
       post = [p \in Posts |-> [status |-> "new", at |-> NoDate, content |-> c,
                                embedding |-> NoContent]]
  /\ accounts = Users
  /\ req = [r \in Requests |-> Idle]
  /\ now = 1
  /\ announced = [p \in Posts |-> 0]
  /\ told = {} /\ raced = {} /\ lost = {} /\ blurred = {}

Call(r) == At(r, "idle") /\ \E u \in Users :
  \/ DeleteAccount(r, u)
  \/ \E p \in Posts : \/ Publish(r, u, p) \/ Cancel(r, u, p) \/ Related(r, p)
                      \/ \E t \in Dates : Schedule(r, u, p, t)
                      \/ \E c \in Contents : Update(r, u, p, c)

Continue(r) ==
  \/ UpdateSave(r) \/ PublishSave(r) \/ ScheduleSave(r) \/ CancelSave(r)
  \/ (\E c \in req[r].copies : CronSave(r, c)) \/ Announce(r) \/ Embed(r)
  \/ RelatedLook(r) \/ DraftPosts(r) \/ DeleteUser(r)

Environment ==
  \/ \E u \in Users, p \in Posts : \/ Remove(u, p)
                                   \/ \E c \in Contents : Create(u, p, c)
  \/ Tick

Next == \/ \E r \in Requests : Call(r) \/ CronFind(r) \/ Continue(r) \/ Crash(r)
        \/ Environment

Spec == Init /\ [][Next]_vars

\* The publisher is triggered again and again (@Cron, or the external
\* trigger) and a run makes progress unless it is lost; it is not lost every
\* single time just before it would save one and the same post.
Fairness ==
  \A r \in Runners :
    /\ WF_vars(CronFind(r)) /\ WF_vars(Announce(r)) /\ WF_vars(Embed(r))
    /\ \A p \in Posts :
         SF_vars(\E c \in req[r].copies : c.p = p /\ CronSave(r, c))

FairSpec == Spec /\ Fairness

-----------------------------------------------------------------------------
(* Properties                                                              *)

\* Posts, requests and copies stay well formed: in particular every status is
\* one of PostStatus and every publisher is an account or null.
TypeOK ==
  /\ post \in [Posts -> Post]
  /\ accounts \subseteq Users
  /\ req \in [Requests -> Request]
  /\ \A r \in Requests : At(r, "updateSave") => req[r].content \in Contents
  /\ now \in 1 .. MaxClock
  /\ announced \in [Posts -> 0 .. 2]
  /\ told \subseteq Posts \X (Users \cup {NoUser})
  /\ raced \subseteq Posts /\ lost \subseteq Posts /\ blurred \subseteq Posts

\* publish (posts.service.ts:282): a post goes out to the subscribers once,
\* unless some handler or publisher run saved it from a copy that was already
\* old, or its author's account was deleted, which takes posts back to draft.
AnnouncedOnce == \A p \in Posts : announced[p] <= 1 \/ p \in raced

\* r is about to announce p.
Announcing(r, p) == At(r, "announce") /\ \E c \in req[r].cur : c.p = p

\* publish and publishDueScheduledPosts (posts.service.ts:287, :465): a
\* published post was announced or is about to be, unless a lost process or
\* the null author of a deleted account cut it off.
PublishedIsAnnounced == \A p \in Posts :
  post[p].status = "published" =>
    announced[p] > 0 \/ p \in lost \/ \E r \in Requests : Announcing(r, p)

\* publishDueScheduledPosts (posts.service.ts:453): what a run has still to
\* publish is scheduled and its date has come, unless the post was removed or
\* its status or date written since the run read it.
RunsHoldDuePosts == \A r \in Runners : \A c \in req[r].copies :
  \/ c.stale \/ ~Exists(c.p)
  \/ post[c.p].status = "scheduled" /\ post[c.p].at \in 1 .. now

\* update and embedPost (posts.service.ts:266, :825): the embedding a published
\* post is found by is that of its text, or is about to be, unless embedding
\* failed or another request changed the text or status under way.
EmbeddingCurrent == \A p \in Posts :
  LET e == post[p].embedding
  IN post[p].status = "published" /\ e # NoContent /\ e # post[p].content =>
       \/ p \in blurred
       \/ \E r \in Requests : /\ req[r].pc \in {"announce", "embed"}
                             /\ \E c \in req[r].cur : c.p = p

\* publishDueScheduledPosts (posts.service.ts:452): a due post does not stay
\* due: it is published, or else cancelled, scheduled anew, drafted or removed.
DuePostIsPublished == \A p \in Posts :
  (post[p].status = "scheduled" /\ post[p].at \in 1 .. now)
    ~> ~(post[p].status = "scheduled" /\ post[p].at \in 1 .. now)

=============================================================================
