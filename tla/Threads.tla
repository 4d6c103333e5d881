------------------------------- MODULE Threads -------------------------------
(***************************************************************************)
(* Comments and replies: writing, editing, the soft and hard deletion that *)
(* keeps threads together, the notifications they cause, and what removal  *)
(* of a post and deletion of an account do to them.                        *)
(*                                                                         *)
(* As in module Engagement, each step is one database call, and the calls  *)
(* of a Promise.all are taken in any order.  A comment is read, decided on *)
(* and saved: save() writes the paths changed on the copy.                 *)
(*                                                                         *)
(* Abstracted: of a body, only whether it is a text or one of the two      *)
(* marks that replace it.  Left out: the reactions to comments.            *)
(***************************************************************************)
EXTENDS Naturals, FiniteSets

CONSTANTS
  Articles,    \* posts
  People,      \* accounts
  Staff,       \* accounts with the admin role
  NoOne,       \* no user, no post
  WriterOf,    \* author of each post
  Visitors,    \* requests that may be in progress at one time
  MaxComments  \* bound: comments ever stored

ASSUME ThreadsAssumption ==
  /\ Staff \subseteq People /\ NoOne \notin People \cup Articles
  /\ WriterOf \in [Articles -> People]
  /\ MaxComments \in Nat

VARIABLES
  status,       \* status of each post
  members,      \* users whose document exists
  comments,     \* comments collection
  notices,      \* notifications of comments and replies
  tasks,        \* requests in progress
  lastComment,  \* last _id of a comment
  \* History, read by no guard:
  orphaned,     \* comments deleted for good while a reply to them was under way
  exposed,      \* comments deleted while an edit of them was under way
  missed        \* posts whose removal was lost before it had cleared everything

threadsVars == <<status, members, comments, notices, tasks, lastComment, orphaned,
                 exposed, missed>>

-----------------------------------------------------------------------------
(* Documents                                                               *)

PostStates == {"draft", "published", "gone"}

Remains(p) == status[p] # "gone"

Ids == 1 .. MaxComments

NoParent == 0

\* "text": what the author wrote; the others replace it.
Bodies == {"text", "[deleted]", "[deleted account]"}

\* late (history): stored when its post was gone or its author's account gone
\* or under deletion.
Comment == [id : Ids, author : People, post : Articles, parent : Ids \cup {NoParent},
            isDeleted : BOOLEAN, body : Bodies, late : BOOLEAN]

Notice == [to : People, by : People, on : Articles, late : BOOLEAN]

Found(c) == {d \in comments : d.id = c}

Replies(c) == {d \in comments : d.parent = c}

-----------------------------------------------------------------------------
(* Requests                                                                *)

Steps == {"idle", "parent", "insert", "notify", "edit", "replies", "soft", "hard",
        "removePost", "sweep", "leave", "soften", "draftPosts", "deleteUser"}

\* A request: user, the post it is about, the comment (copy: as it was read)
\* or the parent, and the calls of a Promise.all not yet made.
Task == [pc : Steps, user : People \cup {NoOne}, on : Articles \cup {NoOne},
            parent : Ids \cup {NoParent}, to : People \cup {NoOne},
            copy : SUBSET Comment, todo : SUBSET {"comment", "notice"}]

NoTask == [pc |-> "idle", user |-> NoOne, on |-> NoOne, parent |-> NoParent, to |-> NoOne,
         copy |-> {}, todo |-> {}]

IsAt(r, pc) == tasks[r].pc = pc

Becomes(r, q) == tasks' = [tasks EXCEPT ![r] = q]

\* JwtAuthGuard: the account exists.
Caller(r, u) == IsAt(r, "idle") /\ u \in members

\* History: the post is gone, or the user is or is being deleted.
Leaving(x) == \/ x \in Articles /\ ~Remains(x)
              \/ x \in People /\ (x \notin members
                                 \/ \E r \in Visitors :
                                      /\ tasks[r].user = x
                                      /\ tasks[r].pc \in {"leave", "soften", "draftPosts",
                                                        "deleteUser"})

-----------------------------------------------------------------------------
(* Writing and editing                                                     *)

\* findPublished: hidden posts look missing.
CreateComment(r, u, p, parent) ==
  /\ Caller(r, u) /\ status[p] = "published"
  /\ Becomes(r, [NoTask EXCEPT !.pc = IF parent = NoParent THEN "insert" ELSE "parent",
                  !.user = u, !.on = p, !.parent = parent,
                  !.to = IF parent = NoParent /\ WriterOf[p] \in members
                         THEN WriterOf[p] ELSE NoOne])
  /\ UNCHANGED <<status, members, comments, notices, lastComment, orphaned, exposed, missed>>

\* A reply needs a top-level comment of the same post that is not deleted.
ReplyTo(d, p) == ~d.isDeleted /\ d.parent = NoParent /\ d.post = p

Parent(r) == LET q == tasks[r] IN
  /\ IsAt(r, "parent")
  /\ IF \E d \in Found(q.parent) : ReplyTo(d, q.on)
     THEN \E d \in Found(q.parent) : Becomes(r, [q EXCEPT !.pc = "insert", !.to = d.author])
     ELSE Becomes(r, NoTask)
  /\ UNCHANGED <<status, members, comments, notices, lastComment, orphaned, exposed, missed>>

\* create; nobody is told of his own comment, or of an authorless post.
Insert(r) == LET q == tasks[r] IN
  /\ IsAt(r, "insert") /\ lastComment < MaxComments
  /\ lastComment' = lastComment + 1
  /\ comments' = comments \cup
       {[id |-> lastComment', author |-> q.user, post |-> q.on, parent |-> q.parent,
         isDeleted |-> FALSE, body |-> "text", late |-> Leaving(q.user) \/ Leaving(q.on)]}
  /\ orphaned' = IF \E x \in Visitors : IsAt(x, "hard") /\ \E d \in tasks[x].copy : d.id = q.parent
                 THEN orphaned \cup {q.parent} ELSE orphaned
  /\ Becomes(r, IF q.to \in {NoOne, q.user} THEN NoTask ELSE [q EXCEPT !.pc = "notify"])
  /\ UNCHANGED <<status, members, notices, exposed, missed>>

Notify(r) == LET q == tasks[r] IN
  /\ IsAt(r, "notify")
  /\ notices' = notices \cup {[to |-> q.to, by |-> q.user, on |-> q.on,
                               late |-> Leaving(q.to) \/ Leaving(q.user) \/ Leaving(q.on)]}
  /\ Becomes(r, NoTask)
  /\ UNCHANGED <<status, members, comments, lastComment, orphaned, exposed, missed>>

\* Mutant: a deleted comment may be edited.
MayRewrite_Deleted(u, d) == d.author = u

\* Only the author edits, and no deleted comment.
MayRewrite(u, d) == d.author = u /\ ~d.isDeleted

Edit(r, u, c) == \E d \in Found(c) :
  /\ Caller(r, u) /\ MayRewrite(u, d)
  /\ Becomes(r, [NoTask EXCEPT !.pc = "edit", !.user = u, !.copy = {d}])
  /\ UNCHANGED <<status, members, comments, notices, lastComment, orphaned, exposed, missed>>

\* save() writes the body, whatever became of the comment.
EditSave(r) == \E d \in tasks[r].copy :
  /\ IsAt(r, "edit")
  /\ comments' = {IF x.id = d.id THEN [x EXCEPT !.body = "text"] ELSE x : x \in comments}
  /\ Becomes(r, NoTask)
  /\ UNCHANGED <<status, members, notices, lastComment, orphaned, exposed, missed>>

-----------------------------------------------------------------------------
(* Deleting a comment                                                      *)

RemoveComment(r, u, c) == \E d \in Found(c) :
  /\ Caller(r, u) /\ (d.author = u \/ u \in Staff)
  /\ Becomes(r, [NoTask EXCEPT !.pc = "replies", !.copy = {d}])
  /\ UNCHANGED <<status, members, comments, notices, lastComment, orphaned, exposed, missed>>

\* Mutant: a comment is deleted for good although it has replies.
Deletion_Hard(d) == "hard"

\* A comment with replies is only marked, to preserve the thread.
Deletion(d) == IF Replies(d.id) # {} THEN "soft" ELSE "hard"

LookForReplies(r) == \E d \in tasks[r].copy :
  /\ IsAt(r, "replies")
  /\ Becomes(r, [tasks[r] EXCEPT !.pc = Deletion(d)])
  /\ UNCHANGED <<status, members, comments, notices, lastComment, orphaned, exposed, missed>>

\* History: an edit of a comment in C is under way.
Edited(C) == {d.id : d \in UNION {tasks[x].copy : x \in {y \in Visitors : IsAt(y, "edit")}}}
             \cap C

\* save() writes what the copy did not have.
SoftDelete(r) == \E d \in tasks[r].copy :
  /\ IsAt(r, "soft")
  /\ comments' = {IF x.id # d.id THEN x
                  ELSE [x EXCEPT !.isDeleted = TRUE,
                          !.body = IF d.body = "[deleted]" THEN @ ELSE "[deleted]"] :
                   x \in comments}
  /\ exposed' = exposed \cup Edited({d.id})
  /\ Becomes(r, NoTask)
  /\ UNCHANGED <<status, members, notices, lastComment, orphaned, missed>>

HardDelete(r) == \E d \in tasks[r].copy :
  /\ IsAt(r, "hard")
  /\ comments' = comments \ Found(d.id)
  /\ orphaned' = IF \E x \in Visitors : IsAt(x, "insert") /\ tasks[x].parent = d.id
                 THEN orphaned \cup {d.id} ELSE orphaned
  /\ Becomes(r, NoTask)
  /\ UNCHANGED <<status, members, notices, lastComment, exposed, missed>>

-----------------------------------------------------------------------------
(* Removal of a post, deletion of an account                               *)

\* findEditable.
RemovePost(r, u, p) ==
  /\ Caller(r, u) /\ Remains(p) /\ (u = WriterOf[p] \/ u \in Staff)
  /\ Becomes(r, [NoTask EXCEPT !.pc = "removePost", !.on = p])
  /\ UNCHANGED <<status, members, comments, notices, lastComment, orphaned, exposed, missed>>

DeletePost(r) ==
  /\ IsAt(r, "removePost")
  /\ status' = [status EXCEPT ![tasks[r].on] = "gone"]
  /\ Becomes(r, [tasks[r] EXCEPT !.pc = "sweep", !.todo = {"comment", "notice"}])
  /\ UNCHANGED <<members, comments, notices, lastComment, orphaned, exposed, missed>>

Swept(r, call) == LET todo == tasks[r].todo \ {call}
                  IN IF todo = {} THEN NoTask ELSE [tasks[r] EXCEPT !.todo = todo]

\* Mutant: replies are taken to go with their parents.
Gone_TopLevel(p) == {d \in comments : d.post = p /\ d.parent = NoParent}

\* All comments of p, replies included.
Gone(p) == {d \in comments : d.post = p}

SweepComments(r) ==
  /\ IsAt(r, "sweep") /\ "comment" \in tasks[r].todo
  /\ comments' = comments \ Gone(tasks[r].on)
  /\ Becomes(r, Swept(r, "comment"))
  /\ UNCHANGED <<status, members, notices, lastComment, orphaned, exposed, missed>>

\* Mutant: only what the author of the post was told goes.
NoticesOn_Author(p) == {d \in notices : d.on = p /\ d.to = WriterOf[p]}

\* All notifications about p, whoever they were sent to.
NoticesOn(p) == {d \in notices : d.on = p}

SweepNotices(r) ==
  /\ IsAt(r, "sweep") /\ "notice" \in tasks[r].todo
  /\ notices' = notices \ NoticesOn(tasks[r].on)
  /\ Becomes(r, Swept(r, "notice"))
  /\ UNCHANGED <<status, members, comments, lastComment, orphaned, exposed, missed>>

\* The password is confirmed.
CloseAccount(r, u) ==
  /\ Caller(r, u)
  /\ Becomes(r, [NoTask EXCEPT !.pc = "leave", !.user = u])
  /\ UNCHANGED <<status, members, comments, notices, lastComment, orphaned, exposed, missed>>

\* Mutant: notifications the user caused stay.
NoticesOf_Received(u) == {d \in notices : d.to = u}

\* Both sent to them and triggered by them.
NoticesOf(u) == {d \in notices : d.to = u \/ d.by = u}

DeleteNotices(r) ==
  /\ IsAt(r, "leave")
  /\ notices' = notices \ NoticesOf(tasks[r].user)
  /\ Becomes(r, [tasks[r] EXCEPT !.pc = "soften"])
  /\ UNCHANGED <<status, members, comments, lastComment, orphaned, exposed, missed>>

\* Mutant: the mark is none of those the reader knows.
Softened_Named(u) ==
  {IF d.author = u THEN [d EXCEPT !.isDeleted = TRUE, !.body = "[gone]"] ELSE d : d \in comments}

\* updateMany: soft delete, so that replies keep their thread.
Softened(u) ==
  {IF d.author = u THEN [d EXCEPT !.isDeleted = TRUE, !.body = "[deleted account]"] ELSE d :
     d \in comments}

SoftenComments(r) == LET u == tasks[r].user IN
  /\ IsAt(r, "soften")
  /\ comments' = Softened(u)
  /\ exposed' = exposed \cup Edited({d.id : d \in {x \in comments : x.author = u}})
  /\ Becomes(r, [tasks[r] EXCEPT !.pc = "draftPosts"])
  /\ UNCHANGED <<status, members, notices, lastComment, orphaned, missed>>

DraftArticles(r) ==
  /\ IsAt(r, "draftPosts")
  /\ status' = [p \in Articles |-> IF WriterOf[p] = tasks[r].user /\ Remains(p) THEN "draft"
                                   ELSE status[p]]
  /\ Becomes(r, [tasks[r] EXCEPT !.pc = "deleteUser"])
  /\ UNCHANGED <<members, comments, notices, lastComment, orphaned, exposed, missed>>

EraseUser(r) ==
  /\ IsAt(r, "deleteUser")
  /\ members' = members \ {tasks[r].user}
  /\ Becomes(r, NoTask)
  /\ UNCHANGED <<status, comments, notices, lastComment, orphaned, exposed, missed>>

-----------------------------------------------------------------------------

\* The process is lost: what is left of the handler never happens.
CrashTask(r) ==
  /\ ~IsAt(r, "idle")
  /\ missed' = IF IsAt(r, "sweep") THEN missed \cup {tasks[r].on} ELSE missed
  /\ Becomes(r, NoTask)
  /\ UNCHANGED <<status, members, comments, notices, lastComment, orphaned, exposed>>

\* Published posts without comments.
ThreadsInit ==
  /\ status = [p \in Articles |-> "published"]
  /\ members = People
  /\ comments = {} /\ notices = {}
  /\ tasks = [r \in Visitors |-> NoTask]
  /\ lastComment = 0
  /\ orphaned = {} /\ exposed = {} /\ missed = {}

Start(r) == \E u \in People :
  \/ CloseAccount(r, u)
  \/ \E p \in Articles : \/ RemovePost(r, u, p)
                         \/ \E c \in Ids \cup {NoParent} : CreateComment(r, u, p, c)
  \/ \E c \in Ids : Edit(r, u, c) \/ RemoveComment(r, u, c)

Proceed(r) ==
  \/ Parent(r) \/ Insert(r) \/ Notify(r) \/ EditSave(r)
  \/ LookForReplies(r) \/ SoftDelete(r) \/ HardDelete(r)
  \/ DeletePost(r) \/ SweepComments(r) \/ SweepNotices(r)
  \/ DeleteNotices(r) \/ SoftenComments(r) \/ DraftArticles(r) \/ EraseUser(r)

ThreadsNext == \E r \in Visitors : Start(r) \/ Proceed(r) \/ CrashTask(r)

ThreadsSpec == ThreadsInit /\ [][ThreadsNext]_threadsVars

-----------------------------------------------------------------------------
(* Properties                                                              *)

\* Comments, notifications and requests stay well formed, and an _id names one
\* comment.
ThreadsOK ==
  /\ status \in [Articles -> PostStates]
  /\ members \subseteq People
  /\ comments \subseteq Comment /\ notices \subseteq Notice
  /\ tasks \in [Visitors -> Task]
  /\ lastComment \in 0 .. MaxComments
  /\ orphaned \subseteq Ids /\ exposed \subseteq Ids /\ missed \subseteq Articles

\* remove (comments.service.ts:149): deleting comments does not tear threads: a
\* reply on a post that is there has its parent, marked or not, unless the
\* reply was being stored while its parent was deleted for good.
RepliesKeepParents == \A d \in comments :
  d.parent # NoParent /\ Remains(d.post) => Found(d.parent) # {} \/ d.parent \in orphaned

\* update and remove (comments.service.ts:118, :151): the text of a deleted
\* comment stays hidden, unless an edit was under way when it was deleted.
DeletedTextIsHidden == \A d \in comments :
  d.isDeleted /\ d.body = "text" => d.id \in exposed

\* A removal of p that deleted p and has not cleared everything yet.
Removing(p) == \E r \in Visitors : IsAt(r, "sweep") /\ tasks[r].on = p

\* PostsService.remove (posts.service.ts:295): once its removal is over, no
\* comment or notification of a deleted post is left but what a request stored
\* that had looked at the post before.
RemovedPostsLeaveNoThread == \A p \in Articles :
  ~Remains(p) /\ ~Removing(p) /\ p \notin missed =>
    /\ \A d \in comments : d.post = p => d.late
    /\ \A d \in notices : d.on = p => d.late

\* deleteAccount (account.service.ts:202): of a deleted account, no comment is
\* left unmarked and no notification names it but what was stored while it was
\* being deleted or after.
DeletedAccountsFallSilent == \A u \in People \ members :
  /\ \A d \in comments : d.author = u => d.isDeleted \/ d.late
  /\ \A d \in notices : u \in {d.to, d.by} => d.late

=============================================================================
