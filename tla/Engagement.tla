----------------------------- MODULE Engagement -----------------------------
(***************************************************************************)
(* What readers attach to posts and to each other - bookmarks, reactions,  *)
(* follows and the notifications these cause - and the two cascades that   *)
(* clear it: removal of a post and deletion of an account.                 *)
(*                                                                         *)
(* MongoDB has neither transactions here nor ON DELETE CASCADE.  Each step *)
(* of a handler is one database call; the calls of a Promise.all are the   *)
(* set todo of the request, taken in any order.                            *)
(*                                                                         *)
(* Abstracted: one type of reaction; a notification is who is told of whom *)
(* and of which post, and whether it was read is left out.  Left to other  *)
(* modules: how a post comes to be published and followers hear of it      *)
(* (PostLifecycle), comments, and the counts of categories and series.     *)
(***************************************************************************)
EXTENDS Integers, FiniteSets

CONSTANTS
  Posts,     \* posts
  People,    \* accounts
  Staff,     \* accounts with the admin role
  NoPerson,  \* no user, no post
  AuthorOf,  \* author of each post
  Clients,   \* requests that may be in progress at one time
  Handlers,  \* the handlers called in this instance
  MaxRows,   \* bound: bookmarks, reactions and follows ever stored
  MaxDebt    \* bound: how far below zero a bookmarksCount goes

AllHandlers == {"bookmark", "reaction", "follow", "unfollow", "remove", "deleteAccount"}

ASSUME EngagementAssumption ==
  /\ Handlers \subseteq AllHandlers
  /\ Staff \subseteq People /\ People \cap Posts = {} /\ NoPerson \notin People \cup Posts
  /\ AuthorOf \in [Posts -> People]
  /\ MaxRows \in Nat /\ MaxDebt \in Nat

VARIABLES
  post,      \* posts collection
  accounts,  \* users whose document exists
  rows,      \* bookmarks, reactions and follows
  notices,   \* notifications
  tasks,     \* requests in progress
  lastRow,   \* last _id of a row
  \* History, read by no guard:
  drifted,   \* posts whose bookmarksCount and bookmarks went apart
  lost       \* posts whose removal was lost before it had cleared everything

engagementVars == <<post, accounts, rows, notices, tasks, lastRow, drifted, lost>>

-----------------------------------------------------------------------------
(* Documents                                                               *)

Post == [status : {"draft", "published", "gone"}, count : -MaxDebt .. MaxRows]

Exists(p) == post[p].status # "gone"

RowKinds == {"bookmark", "reaction", "follow"}

\* late (history): stored when its post or a user it names was gone or under
\* deletion.
Row == [kind : RowKinds, by : People, on : Posts \cup People, id : 1 .. MaxRows,
        late : BOOLEAN]

Notice == [to : People, by : People, on : Posts \cup {NoPerson}, late : BOOLEAN]

\* The unique index (user, post), (user, target) or (follower, following).
Stored(k, u, x) == {d \in rows : d.kind = k /\ d.by = u /\ d.on = x}

Bookmarks(p) == {d \in rows : d.kind = "bookmark" /\ d.on = p}

-----------------------------------------------------------------------------
(* Requests                                                                *)

Steps == {"idle", "check", "insert", "count", "notify", "off", "removePost", "sweep",
        "leave", "draftPosts", "deleteUser"}

\* A call of a Promise.all: deletion of one row or of all of a kind, or the
\* decrement of bookmarksCount.
Calls == RowKinds \cup {"notice", "row", "count"}

\* user: the caller; on: the post or user it is about; id: the row it read;
\* todo: calls of a Promise.all not yet made.
Task == [pc : Steps, kind : RowKinds, user : People \cup {NoPerson},
            on : Posts \cup People \cup {NoPerson}, id : 0 .. MaxRows,
            todo : SUBSET Calls]

NoTask == [pc |-> "idle", kind |-> "bookmark", user |-> NoPerson, on |-> NoPerson, id |-> 0,
         todo |-> {}]

IsAt(r, pc) == tasks[r].pc = pc

Becomes(r, q) == tasks' = [tasks EXCEPT ![r] = q]

\* JwtAuthGuard: the account exists.
Caller(r, h, u) == h \in Handlers /\ IsAt(r, "idle") /\ u \in accounts

\* History: x is a post that is gone, or a user whose document is gone or is
\* being deleted.
Leaving(x) == \/ x \in Posts /\ ~Exists(x)
              \/ x \in People /\ (x \notin accounts
                                 \/ \E r \in Clients :
                                      tasks[r].user = x
                                      /\ tasks[r].pc \in {"leave", "draftPosts", "deleteUser"})

-----------------------------------------------------------------------------
(* Bookmarks and reactions                                                 *)

\* toggle: a row that is there is deleted by its _id.
Toggle(r, k, u, p) ==
  /\ k \in {"bookmark", "reaction"} /\ Caller(r, k, u)
  /\ IF Stored(k, u, p) = {}
     THEN Becomes(r, [NoTask EXCEPT !.pc = "check", !.kind = k, !.user = u, !.on = p])
     ELSE \E d \in Stored(k, u, p) :
            Becomes(r, [NoTask EXCEPT !.pc = "off", !.kind = k, !.user = u, !.on = p, !.id = d.id,
                         !.todo = IF k = "bookmark" THEN {"row", "count"} ELSE {"row"}])
  /\ UNCHANGED <<post, accounts, rows, notices, lastRow, drifted, lost>>

\* Only published posts can be bookmarked; hidden ones look missing.
Check(r) ==
  /\ IsAt(r, "check")
  /\ Becomes(r, IF post[tasks[r].on].status = "published" THEN [tasks[r] EXCEPT !.pc = "insert"]
                ELSE NoTask)
  /\ UNCHANGED <<post, accounts, rows, notices, lastRow, drifted, lost>>

\* What follows a stored row: a reaction is told to the author unless he is
\* the reader.
AfterInsert(q) ==
  CASE q.kind = "bookmark" -> [q EXCEPT !.pc = "count"]
    [] q.kind = "reaction" -> IF AuthorOf[q.on] = q.user THEN NoTask ELSE [q EXCEPT !.pc = "notify"]
    [] OTHER -> [q EXCEPT !.pc = "notify"]

\* Mutant: a duplicate moves the count.
Insert_CountAnyway(r) == LET q == tasks[r] IN
  /\ IsAt(r, "insert")
  /\ IF Stored(q.kind, q.user, q.on) # {} THEN UNCHANGED <<rows, lastRow>>
     ELSE /\ lastRow < MaxRows /\ lastRow' = lastRow + 1
          /\ rows' = rows \cup {[kind |-> q.kind, by |-> q.user, on |-> q.on, id |-> lastRow',
                                 late |-> Leaving(q.user) \/ Leaving(q.on)]}
  /\ Becomes(r, AfterInsert(q))
  /\ UNCHANGED <<post, accounts, notices, drifted, lost>>

\* create: a duplicate is a conflict and ends the request.
Insert(r) == LET q == tasks[r] IN
  /\ IsAt(r, "insert")
  /\ IF Stored(q.kind, q.user, q.on) # {} THEN Becomes(r, NoTask) /\ UNCHANGED <<rows, lastRow>>
     ELSE /\ lastRow < MaxRows /\ lastRow' = lastRow + 1
          /\ rows' = rows \cup {[kind |-> q.kind, by |-> q.user, on |-> q.on, id |-> lastRow',
                                 late |-> Leaving(q.user) \/ Leaving(q.on)]}
          /\ Becomes(r, AfterInsert(q))
  /\ UNCHANGED <<post, accounts, notices, drifted, lost>>

\* Mutant: the sign of $inc is lost on the way.
Counted_Reversed(p, n) == IF Exists(p) THEN [post EXCEPT ![p].count = @ - n] ELSE post

\* $inc on a post that is gone does nothing.
Counted(p, n) == IF Exists(p) THEN [post EXCEPT ![p].count = @ + n] ELSE post

Count(r) ==
  /\ IsAt(r, "count")
  /\ post' = Counted(tasks[r].on, 1)
  /\ Becomes(r, NoTask)
  /\ UNCHANGED <<accounts, rows, notices, lastRow, drifted, lost>>

\* The request with one call of its Promise.all made; next is what it does
\* after the last one.
Made(q, call, next) == LET todo == q.todo \ {call}
                       IN IF todo = {} THEN next ELSE [q EXCEPT !.todo = todo]

\* deleteOne by _id: another toggle may have deleted the row already.
DropRow(r) == LET q == tasks[r] IN
  /\ IsAt(r, "off") /\ "row" \in q.todo
  /\ rows' = {d \in rows : d.id # q.id}
  /\ drifted' = IF q.kind = "bookmark" /\ rows' = rows THEN drifted \cup {q.on} ELSE drifted
  /\ Becomes(r, Made(q, "row", NoTask))
  /\ UNCHANGED <<post, accounts, notices, lastRow, lost>>

DropCount(r) ==
  /\ IsAt(r, "off") /\ "count" \in tasks[r].todo
  /\ Exists(tasks[r].on) => post[tasks[r].on].count > -MaxDebt
  /\ post' = Counted(tasks[r].on, -1)
  /\ Becomes(r, Made(tasks[r], "count", NoTask))
  /\ UNCHANGED <<accounts, rows, notices, lastRow, drifted, lost>>

-----------------------------------------------------------------------------
(* Follows and notifications                                               *)

\* findById of the user to follow.
Follow(r, u, v) ==
  /\ Caller(r, "follow", u) /\ v # u /\ v \in accounts
  /\ Becomes(r, [NoTask EXCEPT !.pc = "insert", !.kind = "follow", !.user = u, !.on = v])
  /\ UNCHANGED <<post, accounts, rows, notices, lastRow, drifted, lost>>

Unfollow(u, v) ==
  /\ "unfollow" \in Handlers /\ u \in accounts /\ Stored("follow", u, v) # {}
  /\ rows' = rows \ Stored("follow", u, v)
  /\ UNCHANGED <<post, accounts, notices, tasks, lastRow, drifted, lost>>

\* The notification that user v gets from u about post p.
NoticeOf(v, u, p) == [to |-> v, by |-> u, on |-> p,
                      late |-> Leaving(v) \/ Leaving(u) \/ Leaving(p)]

\* notifyNewFollower, notifyPostReaction.
Notify(r) == LET q == tasks[r] IN
  /\ IsAt(r, "notify")
  /\ notices' = notices \cup {IF q.kind = "follow" THEN NoticeOf(q.on, q.user, NoPerson)
                              ELSE NoticeOf(AuthorOf[q.on], q.user, q.on)}
  /\ Becomes(r, NoTask)
  /\ UNCHANGED <<post, accounts, rows, lastRow, drifted, lost>>

-----------------------------------------------------------------------------
(* Removal of a post, deletion of an account                               *)

MayEdit(u, p) == u = AuthorOf[p] \/ u \in Staff

\* findEditable.
Remove(r, u, p) ==
  /\ Caller(r, "remove", u) /\ Exists(p) /\ MayEdit(u, p)
  /\ Becomes(r, [NoTask EXCEPT !.pc = "removePost", !.on = p])
  /\ UNCHANGED <<post, accounts, rows, notices, lastRow, drifted, lost>>

\* Mutant: the notifications are forgotten.
Cascade_NoNotices == {"bookmark", "reaction"}

\* What goes with a post.
Cascade == {"bookmark", "reaction", "notice"}

RemovePost(r) ==
  /\ IsAt(r, "removePost")
  /\ post' = [post EXCEPT ![tasks[r].on].status = "gone"]
  /\ Becomes(r, [tasks[r] EXCEPT !.pc = "sweep", !.todo = Cascade])
  /\ UNCHANGED <<accounts, rows, notices, lastRow, drifted, lost>>

\* The password is confirmed.
DeleteAccount(r, u) ==
  /\ Caller(r, "deleteAccount", u)
  /\ Becomes(r, [NoTask EXCEPT !.pc = "leave", !.user = u,
                               !.todo = {"follow", "bookmark", "reaction", "notice"}])
  /\ UNCHANGED <<post, accounts, rows, notices, lastRow, drifted, lost>>

\* Mutant: whoever followed the account still follows it.
Names_Followers(q, d) ==
  IF q.pc = "sweep" THEN d.on = q.on ELSE d.by = q.user

\* Row d is among those the cascade of q deletes: both directions of follow.
Names(q, d) ==
  IF q.pc = "sweep" THEN d.on = q.on ELSE d.by = q.user \/ d.on = q.user

NamesNotice(q, d) == Names(q, d) \/ (q.pc = "leave" /\ d.to = q.user)

\* One deleteMany of a cascade.
Sweep(r, k) == LET q == tasks[r] IN
  /\ q.pc \in {"sweep", "leave"} /\ k \in q.todo
  /\ rows' = {d \in rows : ~(d.kind = k /\ Names(q, d))}
  /\ notices' = IF k = "notice" THEN {d \in notices : ~NamesNotice(q, d)} ELSE notices
  /\ drifted' = drifted \cup {p \in Posts : Bookmarks(p) # {} /\ Bookmarks(p)' # Bookmarks(p)}
  /\ Becomes(r, Made(q, k, IF q.pc = "sweep" THEN NoTask
                           ELSE [q EXCEPT !.pc = "draftPosts", !.todo = {}]))
  /\ UNCHANGED <<post, accounts, lastRow, lost>>

DraftPosts(r) ==
  /\ IsAt(r, "draftPosts")
  /\ post' = [p \in Posts |-> IF AuthorOf[p] = tasks[r].user /\ Exists(p)
                              THEN [post[p] EXCEPT !.status = "draft"] ELSE post[p]]
  /\ Becomes(r, [tasks[r] EXCEPT !.pc = "deleteUser"])
  /\ UNCHANGED <<accounts, rows, notices, lastRow, drifted, lost>>

DeleteUser(r) ==
  /\ IsAt(r, "deleteUser")
  /\ accounts' = accounts \ {tasks[r].user}
  /\ Becomes(r, NoTask)
  /\ UNCHANGED <<post, rows, notices, lastRow, drifted, lost>>

-----------------------------------------------------------------------------

\* A request that changed a bookmark and has still to change the count, or
\* the other way round.
Unbalanced(q) == \/ q.pc = "count"
                 \/ q.pc = "off" /\ q.kind = "bookmark" /\ q.todo # {"row", "count"}

\* The process is lost: what is left of the handler never happens.
Crash(r) ==
  /\ ~IsAt(r, "idle")
  /\ drifted' = IF Unbalanced(tasks[r]) THEN drifted \cup {tasks[r].on} ELSE drifted
  /\ lost' = IF IsAt(r, "sweep") THEN lost \cup {tasks[r].on} ELSE lost
  /\ Becomes(r, NoTask)
  /\ UNCHANGED <<post, accounts, rows, notices, lastRow>>

\* Published posts that nobody has seen yet.
EngagementInit ==
  /\ post = [p \in Posts |-> [status |-> "published", count |-> 0]]
  /\ accounts = People
  /\ rows = {} /\ notices = {}
  /\ tasks = [r \in Clients |-> NoTask]
  /\ lastRow = 0
  /\ drifted = {} /\ lost = {}

Start(r) == \E u \in People :
  \/ DeleteAccount(r, u)
  \/ \E v \in People : Follow(r, u, v)
  \/ \E p \in Posts : \/ \E k \in RowKinds : Toggle(r, k, u, p)
                      \/ Remove(r, u, p)

Continue(r) ==
  \/ Check(r) \/ Insert(r) \/ Count(r) \/ DropRow(r) \/ DropCount(r)
  \/ Notify(r) \/ RemovePost(r) \/ (\E k \in Calls : Sweep(r, k)) \/ DraftPosts(r) \/ DeleteUser(r)

EngagementNext == \/ \E r \in Clients : Start(r) \/ Continue(r) \/ Crash(r)
                  \/ \E u, v \in People : Unfollow(u, v)

EngagementSpec == EngagementInit /\ [][EngagementNext]_engagementVars

-----------------------------------------------------------------------------
(* Properties                                                              *)

\* Rows, notifications and requests stay well formed.
EngagementOK ==
  /\ post \in [Posts -> Post]
  /\ accounts \subseteq People
  /\ rows \subseteq Row /\ notices \subseteq Notice
  /\ tasks \in [Clients -> Task]
  /\ lastRow \in 0 .. MaxRows
  /\ drifted \subseteq Posts /\ lost \subseteq Posts

\* Requests that stored a bookmark of p and have not counted it, ...
Uncounted(p) == {r \in Clients : IsAt(r, "count") /\ tasks[r].on = p}

\* ... and that are half-way through taking one back, call being left.
HalfOff(p, call) == {r \in Clients : /\ IsAt(r, "off") /\ tasks[r].kind = "bookmark"
                                     /\ tasks[r].on = p /\ tasks[r].todo = {call}}

\* bookmarks.service.ts:52: the cached bookmarksCount of a post is the number
\* of its bookmarks, up to the toggles half-way through, unless a toggle was
\* lost half-way, two toggles took the same bookmark back, or the account of
\* a reader was deleted.
BookmarkCountAgrees == \A p \in Posts \ drifted : Exists(p) =>
  post[p].count + Cardinality(Uncounted(p)) + Cardinality(HalfOff(p, "row")) =
    Cardinality(Bookmarks(p)) + Cardinality(HalfOff(p, "count"))

\* A removal of p that deleted p and has not cleared everything yet.
Removing(p) == \E r \in Clients : IsAt(r, "sweep") /\ tasks[r].on = p

\* remove (posts.service.ts:295): once its removal is over, nothing points at a
\* deleted post but what a request stored that had looked at the post before.
RemovedPostsLeaveNothing == \A p \in Posts :
  ~Exists(p) /\ ~Removing(p) /\ p \notin lost =>
    \A d \in rows \cup notices : d.on = p => d.late

\* deleteAccount (account.service.ts:181): nothing names a deleted account but
\* what was stored while it was being deleted or after.
DeletedAccountsLeaveNothing == \A u \in People \ accounts :
  /\ \A d \in rows : u \in {d.by, d.on} => d.late
  /\ \A d \in notices : u \in {d.by, d.to} => d.late

=============================================================================
