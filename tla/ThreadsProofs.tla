----------------------------- MODULE ThreadsProofs -----------------------------
(***************************************************************************)
(* Module Threads keeps its type and its four properties, whatever the     *)
(* number of posts, accounts, requests and comments.                       *)
(***************************************************************************)
EXTENDS Threads, TLAPS

-----------------------------------------------------------------------------
(* Types                                                                   *)

\* What a request names, by the call it is about to make.
Formed(q) ==
  /\ q.pc \in {"parent", "insert", "notify"} => q.user \in People /\ q.on \in Articles
  /\ q.pc = "notify" => q.to \in People
  /\ q.pc \in {"leave", "soften", "draftPosts", "deleteUser"} => q.user \in People
  /\ q.pc \in {"removePost", "sweep"} => q.on \in Articles
  /\ \A d, e \in q.copy : d = e

Typed == ThreadsOK /\ \A r \in Visitors : Formed(tasks[r])

LEMMA IdleIsFormed == NoTask \in Task /\ Formed(NoTask) /\ NoTask.pc = "idle" /\ NoTask.copy = {}
BY DEF NoTask, Task, Steps, Formed, NoParent

\* The process that serves r changes r alone.
LEMMA Becoming ==
  ASSUME Typed, NEW r \in Visitors, NEW q, Becomes(r, q)
  PROVE  /\ tasks'[r] = q
         /\ \A x \in Visitors \ {r} : tasks'[x] = tasks[x]
         /\ tasks' = [tasks EXCEPT ![r] = q]
         /\ q \in Task => tasks' \in [Visitors -> Task]
         /\ Formed(q) => \A x \in Visitors : Formed(tasks'[x])
<1>1. tasks \in [Visitors -> Task] /\ tasks' = [tasks EXCEPT ![r] = q]
  BY DEF Typed, ThreadsOK, Becomes
<1>2. tasks'[r] = q /\ \A x \in Visitors \ {r} : tasks'[x] = tasks[x]
  BY <1>1
<1>3. ASSUME Formed(q), NEW x \in Visitors PROVE Formed(tasks'[x])
  <2>1. CASE x = r
    BY <1>2, <1>3, <2>1
  <2>2. CASE x # r
    <3>1. tasks'[x] = tasks[x] /\ Formed(tasks[x])
      BY <1>2, <2>2 DEF Typed
    <3> QED BY <3>1
  <2> QED BY <2>1, <2>2
<1> QED BY <1>1, <1>2, <1>3

\* r is at what it is at.
LEMMA Asking ==
  ASSUME Typed, NEW r \in Visitors
  PROVE  tasks[r] \in Task /\ Formed(tasks[r])
BY DEF Typed, ThreadsOK

LEMMA InitTyped == ThreadsInit => Typed
<1> SUFFICES ASSUME ThreadsInit PROVE Typed
  OBVIOUS
<1>1. ThreadsOK
  BY IdleIsFormed, ThreadsAssumption DEF ThreadsInit, ThreadsOK, PostStates
<1>2. \A r \in Visitors : tasks[r] = NoTask
  BY DEF ThreadsInit
<1> QED BY <1>1, <1>2, IdleIsFormed DEF Typed

\* A step that makes r a well-formed q and keeps the collections well typed.
LEMMA Keeping ==
  ASSUME Typed, NEW r \in Visitors, NEW q \in Task, Formed(q), Becomes(r, q),
         status' \in [Articles -> PostStates], members' \subseteq People,
         comments' \subseteq Comment, notices' \subseteq Notice, lastComment' \in 0 .. MaxComments,
         orphaned' \subseteq Ids, exposed' \subseteq Ids, missed' \subseteq Articles
  PROVE  Typed'
<1>1. tasks' \in [Visitors -> Task] /\ \A x \in Visitors : Formed(tasks'[x])
  BY Becoming
<1>2. ThreadsOK'
  BY <1>1 DEF ThreadsOK
<1>3. \A x \in Visitors : Formed(tasks[x])'
  BY <1>1 DEF Formed
<1> QED BY <1>2, <1>3 DEF Typed

\* The calls of clients begin a request that is well formed.
LEMMA CallTyped == ASSUME Typed, NEW r \in Visitors, Start(r) PROVE Typed'
<1> USE DEF Typed, ThreadsOK
<1>1. ASSUME NEW u \in People, CloseAccount(r, u) PROVE Typed'
  <2> DEFINE q == [NoTask EXCEPT !.pc = "leave", !.user = u]
  <2>1. q \in Task /\ Formed(q)
    BY DEF NoTask, Task, Steps, Formed, NoParent
  <2> QED BY <1>1, <2>1, Keeping DEF CloseAccount
<1>2. ASSUME NEW u \in People, NEW p \in Articles, RemovePost(r, u, p) PROVE Typed'
  <2> DEFINE q == [NoTask EXCEPT !.pc = "removePost", !.on = p]
  <2>1. q \in Task /\ Formed(q)
    BY DEF NoTask, Task, Steps, Formed, NoParent
  <2> QED BY <1>2, <2>1, Keeping DEF RemovePost
<1>3. ASSUME NEW u \in People, NEW p \in Articles, NEW c \in Ids \cup {NoParent},
             CreateComment(r, u, p, c)
      PROVE  Typed'
  <2> DEFINE q == [NoTask EXCEPT !.pc = IF c = NoParent THEN "insert" ELSE "parent",
                     !.user = u, !.on = p, !.parent = c,
                     !.to = IF c = NoParent /\ WriterOf[p] \in members
                            THEN WriterOf[p] ELSE NoOne]
  <2>1. q \in Task /\ Formed(q)
    BY DEF NoTask, Task, Steps, Formed, NoParent
  <2> QED BY <1>3, <2>1, Keeping DEF CreateComment
<1>4. ASSUME NEW u \in People, NEW c \in Ids, Edit(r, u, c) PROVE Typed'
  <2>1. PICK d \in Found(c) : Becomes(r, [NoTask EXCEPT !.pc = "edit", !.user = u, !.copy = {d}])
    BY <1>4 DEF Edit
  <2> DEFINE q == [NoTask EXCEPT !.pc = "edit", !.user = u, !.copy = {d}]
  <2>2. q \in Task /\ Formed(q)
    BY DEF NoTask, Task, Steps, Formed, NoParent, Found
  <2> QED BY <1>4, <2>1, <2>2, Keeping DEF Edit
<1>5. ASSUME NEW u \in People, NEW c \in Ids, RemoveComment(r, u, c) PROVE Typed'
  <2>1. PICK d \in Found(c) : Becomes(r, [NoTask EXCEPT !.pc = "replies", !.copy = {d}])
    BY <1>5 DEF RemoveComment
  <2> DEFINE q == [NoTask EXCEPT !.pc = "replies", !.copy = {d}]
  <2>2. q \in Task /\ Formed(q)
    BY DEF NoTask, Task, Steps, Formed, NoParent, Found
  <2> QED BY <1>5, <2>1, <2>2, Keeping DEF RemoveComment
<1> QED BY <1>1, <1>2, <1>3, <1>4, <1>5 DEF Start

\* Writing and editing.
LEMMA WritingTyped ==
  ASSUME Typed, NEW r \in Visitors, Parent(r) \/ Insert(r) \/ Notify(r) \/ EditSave(r)
  PROVE  Typed'
<1> DEFINE q == tasks[r]
<1> USE DEF Typed, ThreadsOK
<1>0. q \in Task /\ Formed(q)
  BY Asking
<1>1. CASE Parent(r)
  <2>1. CASE Becomes(r, NoTask)
    BY <1>1, <2>1, IdleIsFormed, Keeping DEF Parent
  <2>2. CASE ~Becomes(r, NoTask)
    <3>1. PICK d \in Found(q.parent) : Becomes(r, [q EXCEPT !.pc = "insert", !.to = d.author])
      BY <1>1, <2>2 DEF Parent
    <3>2. d.author \in People
      BY DEF Found, Comment
    <3>3. /\ [q EXCEPT !.pc = "insert", !.to = d.author] \in Task
          /\ Formed([q EXCEPT !.pc = "insert", !.to = d.author])
      BY <1>0, <1>1, <3>2 DEF Parent, IsAt, Task, Steps, Formed
    <3> QED BY <1>1, <3>1, <3>3, Keeping DEF Parent
  <2> QED BY <2>1, <2>2
<1>2. CASE Insert(r)
  <2>1. lastComment + 1 \in Ids /\ lastComment + 1 \in 0 .. MaxComments
    BY <1>2, ThreadsAssumption DEF Insert, Ids
  <2> DEFINE c == [id |-> lastComment + 1, author |-> q.user, post |-> q.on, parent |-> q.parent,
                   isDeleted |-> FALSE, body |-> "text",
                   late |-> Leaving(q.user) \/ Leaving(q.on)]
  <2>2. c \in Comment
    <3>1. q.user \in People /\ q.on \in Articles /\ q.parent \in Ids \cup {NoParent}
      BY <1>0, <1>2 DEF Insert, IsAt, Formed, Task
    <3>2. (Leaving(q.user) \/ Leaving(q.on)) \in BOOLEAN
      OBVIOUS
    <3> HIDE DEF q
    <3> QED BY <2>1, <3>1, <3>2 DEF Comment, Bodies
  <2>3. comments' = comments \cup {c} /\ lastComment' = lastComment + 1
    BY <1>2 DEF Insert
  <2>4. orphaned' \subseteq Ids
    <3>1. ASSUME NEW x \in Visitors, NEW d \in tasks[x].copy, d.id = q.parent
          PROVE  q.parent \in Ids
      <4>1. d \in Comment
        BY Asking, <3>1 DEF Task
      <4> QED BY <3>1, <4>1 DEF Comment
    <3> QED BY <1>2, <3>1 DEF Insert
  <2> DEFINE n == IF q.to \in {NoOne, q.user} THEN NoTask ELSE [q EXCEPT !.pc = "notify"]
  <2>5. n \in Task /\ Formed(n)
    BY <1>0, <1>2, IdleIsFormed DEF Insert, IsAt, Task, Steps, Formed
  <2>6. Becomes(r, n)
    BY <1>2 DEF Insert
  <2>7. UNCHANGED <<status, members, notices, exposed, missed>>
    BY <1>2 DEF Insert
  <2> HIDE DEF c, n
  <2> QED BY <2>1, <2>2, <2>3, <2>4, <2>5, <2>6, <2>7, Keeping
<1>3. CASE Notify(r)
  <2> DEFINE n == [to |-> q.to, by |-> q.user, on |-> q.on,
                   late |-> Leaving(q.to) \/ Leaving(q.user) \/ Leaving(q.on)]
  <2>1. n \in Notice
    <3>1. q.to \in People /\ q.user \in People /\ q.on \in Articles
      BY <1>0, <1>3 DEF Notify, IsAt, Formed
    <3> QED BY <3>1 DEF Notice
  <2> QED BY <1>3, <2>1, IdleIsFormed, Keeping DEF Notify
<1>4. CASE EditSave(r)
  <2>1. comments' \subseteq Comment
    <3>1. PICK d \in q.copy :
            comments' = {IF x.id = d.id THEN [x EXCEPT !.body = "text"] ELSE x : x \in comments}
      BY <1>4 DEF EditSave
    <3>2. \A x \in Comment : [x EXCEPT !.body = "text"] \in Comment
      BY DEF Comment, Bodies
    <3> QED BY <3>1, <3>2
  <2> QED BY <1>4, <2>1, IdleIsFormed, Keeping DEF EditSave
<1> QED BY <1>1, <1>2, <1>3, <1>4

\* Deleting a comment.
LEMMA DeletingTyped ==
  ASSUME Typed, NEW r \in Visitors, LookForReplies(r) \/ SoftDelete(r) \/ HardDelete(r)
  PROVE  Typed'
<1> DEFINE q == tasks[r]
<1> USE DEF Typed, ThreadsOK
<1>0. q \in Task /\ Formed(q)
  BY Asking
<1>1. \A d \in q.copy : d \in Comment /\ d.id \in Ids
  BY <1>0 DEF Task, Comment
<1>2. CASE LookForReplies(r)
  <2>1. PICK d \in q.copy : Becomes(r, [q EXCEPT !.pc = Deletion(d)])
    BY <1>2 DEF LookForReplies
  <2>2. /\ [q EXCEPT !.pc = Deletion(d)] \in Task
        /\ Formed([q EXCEPT !.pc = Deletion(d)])
    BY <1>0, <1>2 DEF LookForReplies, IsAt, Deletion, Task, Steps, Formed
  <2> QED BY <1>2, <2>1, <2>2, Keeping DEF LookForReplies
<1>3. CASE SoftDelete(r)
  <2>1. PICK d \in q.copy :
          /\ comments' = {IF x.id # d.id THEN x
                          ELSE [x EXCEPT !.isDeleted = TRUE,
                                  !.body = IF d.body = "[deleted]" THEN @ ELSE "[deleted]"] :
                            x \in comments}
          /\ exposed' = exposed \cup Edited({d.id})
    BY <1>3 DEF SoftDelete
  <2>2. \A x \in Comment :
          [x EXCEPT !.isDeleted = TRUE,
             !.body = IF d.body = "[deleted]" THEN @ ELSE "[deleted]"] \in Comment
    BY DEF Comment, Bodies
  <2>3. comments' \subseteq Comment /\ exposed' \subseteq Ids
    BY <1>1, <2>1, <2>2 DEF Edited
  <2> QED BY <1>3, <2>3, IdleIsFormed, Keeping DEF SoftDelete
<1>4. CASE HardDelete(r)
  <2>1. PICK d \in q.copy :
          /\ comments' = comments \ Found(d.id)
          /\ orphaned' \subseteq orphaned \cup {d.id}
    BY <1>4 DEF HardDelete
  <2> QED BY <1>1, <1>4, <2>1, IdleIsFormed, Keeping DEF HardDelete
<1> QED BY <1>2, <1>3, <1>4

\* Removal of a post.
LEMMA RemovingTyped ==
  ASSUME Typed, NEW r \in Visitors, DeletePost(r) \/ SweepComments(r) \/ SweepNotices(r)
  PROVE  Typed'
<1> DEFINE q == tasks[r]
<1> USE DEF Typed, ThreadsOK
<1>0. q \in Task /\ Formed(q)
  BY Asking
<1>1. CASE DeletePost(r)
  <2>1. /\ [q EXCEPT !.pc = "sweep", !.todo = {"comment", "notice"}] \in Task
        /\ Formed([q EXCEPT !.pc = "sweep", !.todo = {"comment", "notice"}])
    BY <1>0, <1>1 DEF DeletePost, IsAt, Task, Steps, Formed
  <2>2. status' \in [Articles -> PostStates]
    BY <1>1 DEF DeletePost, PostStates
  <2> QED BY <1>1, <2>1, <2>2, Keeping DEF DeletePost
<1>2. ASSUME NEW c PROVE Swept(r, c) \in Task /\ Formed(Swept(r, c))
  <2>1. [q EXCEPT !.todo = q.todo \ {c}] \in Task
    BY <1>0 DEF Task
  <2>2. Formed([q EXCEPT !.todo = q.todo \ {c}])
    BY <1>0 DEF Formed, Task
  <2> QED BY <2>1, <2>2, IdleIsFormed DEF Swept
<1>3. CASE SweepComments(r)
  BY <1>2, <1>3, Keeping DEF SweepComments
<1>4. CASE SweepNotices(r)
  <2>1. notices' \subseteq Notice
    BY <1>4 DEF SweepNotices
  <2> QED BY <1>2, <1>4, <2>1, Keeping DEF SweepNotices
<1> QED BY <1>1, <1>3, <1>4

\* Deletion of an account, and losing a process.
LEMMA LeavingTyped ==
  ASSUME Typed, NEW r \in Visitors,
         DeleteNotices(r) \/ SoftenComments(r) \/ DraftArticles(r) \/ EraseUser(r) \/ CrashTask(r)
  PROVE  Typed'
<1> DEFINE q == tasks[r]
<1> USE DEF Typed, ThreadsOK
<1>0. q \in Task /\ Formed(q)
  BY Asking
<1>1. CASE DeleteNotices(r)
  <2>1. [q EXCEPT !.pc = "soften"] \in Task /\ Formed([q EXCEPT !.pc = "soften"])
    BY <1>0, <1>1 DEF DeleteNotices, IsAt, Task, Steps, Formed
  <2> QED BY <1>1, <2>1, Keeping DEF DeleteNotices
<1>2. CASE SoftenComments(r)
  <2>1. [q EXCEPT !.pc = "draftPosts"] \in Task /\ Formed([q EXCEPT !.pc = "draftPosts"])
    BY <1>0, <1>2 DEF SoftenComments, IsAt, Task, Steps, Formed
  <2>2. \A x \in Comment : /\ [x EXCEPT !.isDeleted = TRUE, !.body = "[deleted account]"] \in Comment
                            /\ x.id \in Ids
    BY DEF Comment, Bodies
  <2>3. comments' \subseteq Comment /\ exposed' \subseteq Ids
    BY <1>2, <2>2 DEF SoftenComments, Softened, Edited
  <2> QED BY <1>2, <2>1, <2>3, Keeping DEF SoftenComments
<1>3. CASE DraftArticles(r)
  <2>1. [q EXCEPT !.pc = "deleteUser"] \in Task /\ Formed([q EXCEPT !.pc = "deleteUser"])
    BY <1>0, <1>3 DEF DraftArticles, IsAt, Task, Steps, Formed
  <2>2. status' \in [Articles -> PostStates]
    BY <1>3 DEF DraftArticles, PostStates
  <2> QED BY <1>3, <2>1, <2>2, Keeping DEF DraftArticles
<1>4. CASE EraseUser(r)
  BY <1>4, IdleIsFormed, Keeping DEF EraseUser
<1>5. CASE CrashTask(r)
  <2>1. missed' \subseteq Articles
    BY <1>0, <1>5 DEF CrashTask, IsAt, Formed
  <2> QED BY <1>5, <2>1, IdleIsFormed, Keeping DEF CrashTask
<1> QED BY <1>1, <1>2, <1>3, <1>4, <1>5

LEMMA StepTyped == Typed /\ [ThreadsNext]_threadsVars => Typed'
<1> SUFFICES ASSUME Typed, [ThreadsNext]_threadsVars PROVE Typed'
  OBVIOUS
<1>1. CASE UNCHANGED threadsVars
  BY <1>1 DEF threadsVars, Typed, ThreadsOK, Formed
<1>2. ASSUME NEW r \in Visitors, Start(r) \/ Proceed(r) \/ CrashTask(r) PROVE Typed'
  BY <1>2, CallTyped, WritingTyped, DeletingTyped, RemovingTyped, LeavingTyped DEF Proceed
<1> QED BY <1>1, <1>2 DEF ThreadsNext

THEOREM AlwaysTyped == ThreadsSpec => []Typed
<1>1. ThreadsInit => Typed
  BY InitTyped
<1>2. Typed /\ [ThreadsNext]_threadsVars => Typed'
  BY StepTyped
<1> QED BY <1>1, <1>2, PTL DEF ThreadsSpec

\* Comments, notifications and requests stay well formed.
THEOREM TypeCorrect == ThreadsSpec => []ThreadsOK
<1>1. Typed => ThreadsOK
  BY DEF Typed
<1> QED BY <1>1, AlwaysTyped, PTL

-----------------------------------------------------------------------------
(* What comments and requests know of each other                           *)

\* A comment that is stored.  Without its number a new comment might be taken
\* for one that was deleted; without the second line a soft deletion that
\* leaves the mark alone might leave a text.
Threaded(d) ==
  /\ d.id <= lastComment /\ d.parent <= lastComment
  /\ d.body # "text" => d.isDeleted
  /\ d.isDeleted /\ d.body = "text" => d.id \in exposed
  /\ \A e \in Found(d.parent) : e.post = d.post
  /\ d.parent # NoParent /\ Remains(d.post) => Found(d.parent) # {} \/ d.parent \in orphaned

\* The copy of a comment a request holds.
KnowsCopy(r) == \A d \in tasks[r].copy :
  /\ d.id <= lastComment
  /\ d.body # "text" => d.isDeleted
  /\ \A x \in Found(d.id) : /\ d.isDeleted => x.isDeleted
                            /\ IsAt(r, "edit") /\ x.isDeleted => x.id \in exposed
  /\ IsAt(r, "hard") => \A x \in comments : x.parent = d.id => d.id \in orphaned

\* The parent of the reply a request is about to store.
KnowsParent(r) == LET q == tasks[r] IN IsAt(r, "insert") =>
  /\ q.parent <= lastComment
  /\ \A e \in Found(q.parent) : e.post = q.on
  /\ q.parent # NoParent /\ Remains(q.on) => Found(q.parent) # {} \/ q.parent \in orphaned

\* A cascade comes after its post.
KnowsGone(r) == IsAt(r, "sweep") => ~Remains(tasks[r].on)

Knows(r) == KnowsCopy(r) /\ KnowsParent(r) /\ KnowsGone(r)

\* An _id names one comment.
Unique == \A d, e \in comments : d.id = e.id => d = e

Coherent == /\ Typed
            /\ Unique
            /\ \A d \in comments : Threaded(d)
            /\ \A r \in Visitors : Knows(r)

LEMMA InitCoherent == ThreadsInit => Coherent
<1> SUFFICES ASSUME ThreadsInit PROVE Coherent
  OBVIOUS
<1>1. ASSUME NEW r \in Visitors PROVE Knows(r)
  <2>1. tasks[r] = NoTask
    BY DEF ThreadsInit
  <2> QED BY <2>1, IdleIsFormed DEF Knows, KnowsCopy, KnowsParent, KnowsGone, IsAt
<1> QED BY <1>1, InitTyped DEF Coherent, Unique, ThreadsInit

\* Who is idle, and has no copy, knows nothing wrong.
LEMMA IdleKnows ==
  ASSUME Typed, NEW r \in Visitors, Becomes(r, NoTask)
  PROVE  Knows(r)'
<1>1. tasks'[r] = NoTask
  BY Becoming
<1> QED BY <1>1, IdleIsFormed DEF Knows, KnowsCopy, KnowsParent, KnowsGone, IsAt

\* A step that leaves comments alone, and brings back no post, disturbs no
\* other request.
LEMMA Quiet ==
  ASSUME Coherent, Typed', NEW r \in Visitors, NEW q, Becomes(r, q), Knows(r)',
         UNCHANGED <<comments, lastComment, orphaned, exposed>>,
         \A p \in Articles : Remains(p)' => Remains(p)
  PROVE  Coherent'
<1> USE DEF Coherent
<1>1. ASSUME NEW d \in comments PROVE Threaded(d)'
  <2>1. d.post \in Articles
    BY DEF Typed, ThreadsOK, Comment
  <2>2. Threaded(d)
    OBVIOUS
  <2> QED BY <2>1, <2>2 DEF Threaded, Found
<1>2. ASSUME NEW x \in Visitors \ {r} PROVE Knows(x)'
  <2>1. tasks'[x] = tasks[x]
    BY Becoming
  <2>2. Knows(x) /\ Formed(tasks[x])
    BY DEF Typed
  <2>3. KnowsCopy(x)'
    BY <2>1, <2>2 DEF Knows, KnowsCopy, IsAt, Found
  <2>4. KnowsParent(x)'
    BY <2>1, <2>2 DEF Knows, KnowsParent, IsAt, Found, Formed
  <2>5. KnowsGone(x)'
    BY <2>1, <2>2 DEF Knows, KnowsGone, IsAt, Formed
  <2> QED BY <2>3, <2>4, <2>5 DEF Knows
<1>3. Unique'
  BY DEF Unique
<1> QED BY <1>1, <1>2, <1>3

\* A step of r after which r is none of those that know something.
LEMMA Forgetting ==
  ASSUME Coherent, NEW r \in Visitors, NEW q, Becomes(r, q),
         q.pc \notin {"edit", "hard", "insert", "sweep"}, q.copy \subseteq tasks[r].copy,
         UNCHANGED <<comments, lastComment>>
  PROVE  Knows(r)'
<1>1. tasks'[r] = q
  BY Becoming DEF Coherent
<1>2. KnowsCopy(r)'
  BY <1>1 DEF Coherent, Knows, KnowsCopy, IsAt, Found
<1> QED BY <1>1, <1>2 DEF Knows, KnowsParent, KnowsGone, IsAt

LEMMA CallCoherent == ASSUME Coherent, NEW r \in Visitors, Start(r) PROVE Coherent'
<1>0. Typed /\ Typed'
  BY CallTyped DEF Coherent
<1>1. ASSUME NEW u \in People, CloseAccount(r, u) PROVE Coherent'
  <2> DEFINE q == [NoTask EXCEPT !.pc = "leave", !.user = u]
  <2>1. q.pc = "leave" /\ q.copy = {}
    BY DEF NoTask
  <2>2. Knows(r)'
    BY <1>1, <2>1, Forgetting DEF CloseAccount
  <2> QED BY <1>0, <1>1, <2>2, Quiet DEF CloseAccount, Remains
<1>2. ASSUME NEW u \in People, NEW p \in Articles, RemovePost(r, u, p) PROVE Coherent'
  <2> DEFINE q == [NoTask EXCEPT !.pc = "removePost", !.on = p]
  <2>1. q.pc = "removePost" /\ q.copy = {}
    BY DEF NoTask
  <2>2. Knows(r)'
    BY <1>2, <2>1, Forgetting DEF RemovePost
  <2> QED BY <1>0, <1>2, <2>2, Quiet DEF RemovePost, Remains
<1>3. ASSUME NEW u \in People, NEW p \in Articles, NEW c \in Ids \cup {NoParent},
             CreateComment(r, u, p, c)
      PROVE  Coherent'
  <2> DEFINE q == [NoTask EXCEPT !.pc = IF c = NoParent THEN "insert" ELSE "parent",
                     !.user = u, !.on = p, !.parent = c,
                     !.to = IF c = NoParent /\ WriterOf[p] \in members
                            THEN WriterOf[p] ELSE NoOne]
  <2>0. /\ q.pc = (IF c = NoParent THEN "insert" ELSE "parent")
        /\ q.copy = {} /\ q.parent = c
    BY DEF NoTask
  <2>a. Becomes(r, q)
    BY <1>3 DEF CreateComment
  <2> HIDE DEF q
  <2>1. /\ tasks'[r].pc = (IF c = NoParent THEN "insert" ELSE "parent")
        /\ tasks'[r].copy = {} /\ tasks'[r].parent = c
    BY <1>0, <2>0, <2>a, Becoming
  <2>2. lastComment' >= 0 /\ Found(NoParent)' = {}
    BY <1>0 DEF Typed, ThreadsOK, Found, Comment, Ids, NoParent
  <2>3. Knows(r)'
    BY <2>1, <2>2 DEF Knows, KnowsCopy, KnowsParent, KnowsGone, IsAt, NoParent
  <2> QED BY <1>0, <1>3, <2>a, <2>3, Quiet DEF CreateComment, Remains
<1>4. ASSUME NEW u \in People, NEW c \in Ids, Edit(r, u, c) PROVE Coherent'
  <2>1. PICK d \in Found(c) :
          /\ ~d.isDeleted
          /\ Becomes(r, [NoTask EXCEPT !.pc = "edit", !.user = u, !.copy = {d}])
    BY <1>4 DEF Edit, MayRewrite
  <2> DEFINE q == [NoTask EXCEPT !.pc = "edit", !.user = u, !.copy = {d}]
  <2>a. q.pc = "edit" /\ q.copy = {d}
    BY DEF NoTask
  <2>b. Becomes(r, q)
    BY <2>1
  <2> HIDE DEF q
  <2>2. tasks'[r].pc = "edit" /\ tasks'[r].copy = {d}
    BY <1>0, <2>a, <2>b, Becoming
  <2>3. Knows(r)'
    <3>1. d \in comments /\ d.id = c /\ Threaded(d)
      BY DEF Found, Coherent
    <3>2. \A x \in Found(d.id) : x = d
      BY <3>1 DEF Found, Coherent, Unique
    <3>3. UNCHANGED <<comments, lastComment>>
      BY <1>4 DEF Edit
    <3>4. KnowsCopy(r)'
      BY <2>1, <2>2, <3>1, <3>2, <3>3 DEF KnowsCopy, IsAt, Found, Threaded
    <3> QED BY <2>2, <3>4 DEF Knows, KnowsParent, KnowsGone, IsAt
  <2> QED BY <1>0, <1>4, <2>b, <2>3, Quiet DEF Edit, Remains
<1>5. ASSUME NEW u \in People, NEW c \in Ids, RemoveComment(r, u, c) PROVE Coherent'
  <2>1. PICK d \in Found(c) : Becomes(r, [NoTask EXCEPT !.pc = "replies", !.copy = {d}])
    BY <1>5 DEF RemoveComment
  <2> DEFINE q == [NoTask EXCEPT !.pc = "replies", !.copy = {d}]
  <2>a. q.pc = "replies" /\ q.copy = {d}
    BY DEF NoTask
  <2>b. Becomes(r, q)
    BY <2>1
  <2> HIDE DEF q
  <2>2. tasks'[r].pc = "replies" /\ tasks'[r].copy = {d}
    BY <1>0, <2>a, <2>b, Becoming
  <2>3. Knows(r)'
    <3>1. d \in comments /\ d.id = c /\ Threaded(d)
      BY DEF Found, Coherent
    <3>2. \A x \in Found(d.id) : x = d
      BY <3>1 DEF Found, Coherent, Unique
    <3>3. UNCHANGED <<comments, lastComment>>
      BY <1>5 DEF RemoveComment
    <3>4. KnowsCopy(r)'
      BY <2>2, <3>1, <3>2, <3>3 DEF KnowsCopy, IsAt, Found, Threaded
    <3> QED BY <2>2, <3>4 DEF Knows, KnowsParent, KnowsGone, IsAt
  <2> QED BY <1>0, <1>5, <2>b, <2>3, Quiet DEF RemoveComment, Remains
<1> QED BY <1>1, <1>2, <1>3, <1>4, <1>5 DEF Start

\* Steps that leave comments alone.
LEMMA QuietCoherent ==
  ASSUME Coherent, NEW r \in Visitors,
         \/ Parent(r) \/ Notify(r) \/ LookForReplies(r)
         \/ DeletePost(r) \/ SweepNotices(r)
         \/ DeleteNotices(r) \/ DraftArticles(r) \/ EraseUser(r) \/ CrashTask(r)
  PROVE  Coherent'
<1> DEFINE q == tasks[r]
<1>0. Typed /\ Typed' /\ Knows(r) /\ Formed(q) /\ q \in Task
  BY WritingTyped, DeletingTyped, RemovingTyped, LeavingTyped, Asking DEF Coherent
<1>1. CASE Parent(r)
  <2>1. CASE Becomes(r, NoTask)
    BY <1>0, <1>1, <2>1, IdleKnows, Quiet DEF Parent, Remains
  <2>2. CASE ~Becomes(r, NoTask)
    <3>1. PICK e \in Found(q.parent) : ReplyTo(e, q.on)
      BY <1>1, <2>2 DEF Parent
    <3>2. PICK d \in Found(q.parent) : Becomes(r, [q EXCEPT !.pc = "insert", !.to = d.author])
      BY <1>1, <2>2 DEF Parent
    <3>3. d = e /\ d \in comments /\ d.id = q.parent /\ Threaded(d) /\ d.post = q.on
          /\ \A x \in Found(q.parent) : x = d
      BY <3>1 DEF Found, Coherent, Unique, ReplyTo
    <3> DEFINE n == [q EXCEPT !.pc = "insert", !.to = d.author]
    <3>a. n.pc = "insert" /\ n.copy = q.copy /\ n.parent = q.parent /\ n.on = q.on
      BY <1>0 DEF Task
    <3>b. tasks'[r] = n
      BY <1>0, <3>2, Becoming
    <3> HIDE DEF n
    <3>4. /\ tasks'[r].pc = "insert" /\ tasks'[r].copy = q.copy /\ tasks'[r].parent = q.parent
          /\ tasks'[r].on = q.on
      BY <3>a, <3>b
    <3>5. UNCHANGED <<comments, lastComment>>
      BY <1>1 DEF Parent
    <3>6. KnowsCopy(r)'
      BY <1>0, <3>4, <3>5 DEF Knows, KnowsCopy, IsAt, Found
    <3>7. KnowsParent(r)'
      BY <3>3, <3>4, <3>5 DEF KnowsParent, IsAt, Found, Threaded
    <3>8. Knows(r)'
      BY <3>4, <3>6, <3>7 DEF Knows, KnowsGone, IsAt
    <3> QED BY <1>0, <1>1, <3>2, <3>8, Quiet DEF Parent, Remains
  <2> QED BY <2>1, <2>2
<1>2. CASE Notify(r)
  BY <1>0, <1>2, IdleKnows, Quiet DEF Notify, Remains
<1>3. CASE LookForReplies(r)
  <2>1. PICK d \in q.copy : Becomes(r, [q EXCEPT !.pc = Deletion(d)])
    BY <1>3 DEF LookForReplies
  <2>2. tasks'[r].pc = Deletion(d) /\ tasks'[r].copy = q.copy
    BY <1>0, <2>1, Becoming DEF Task
  <2>3. UNCHANGED <<comments, lastComment>>
    BY <1>3 DEF LookForReplies
  <2>4. q.copy = {d}
    BY <1>0 DEF Formed
  <2>5. KnowsCopy(r)'
    BY <1>0, <2>2, <2>3, <2>4 DEF Knows, KnowsCopy, IsAt, Found, Deletion, Replies
  <2>6. Knows(r)'
    BY <2>2, <2>5 DEF Knows, KnowsParent, KnowsGone, IsAt, Deletion
  <2> QED BY <1>0, <1>3, <2>1, <2>6, Quiet DEF LookForReplies, Remains
<1>4. CASE DeletePost(r)
  <2>1. Becomes(r, [q EXCEPT !.pc = "sweep", !.todo = {"comment", "notice"}])
    BY <1>4 DEF DeletePost
  <2> DEFINE n == [q EXCEPT !.pc = "sweep", !.todo = {"comment", "notice"}]
  <2>a. n.pc = "sweep" /\ n.copy = q.copy /\ n.on = q.on
    BY <1>0 DEF Task
  <2>b. tasks'[r] = n
    BY <1>0, <2>1, Becoming
  <2> HIDE DEF n
  <2>2. tasks'[r].pc = "sweep" /\ tasks'[r].copy = q.copy /\ tasks'[r].on = q.on
    BY <2>a, <2>b
  <2>3. status \in [Articles -> PostStates] /\ q.on \in Articles
    BY <1>0, <1>4 DEF Typed, ThreadsOK, DeletePost, IsAt, Formed
  <2>4. status' = [status EXCEPT ![q.on] = "gone"]
    BY <1>4 DEF DeletePost
  <2>5. status'[q.on] = "gone" /\ \A p \in Articles : Remains(p)' => Remains(p)
    BY <2>3, <2>4 DEF Remains
  <2>6. KnowsGone(r)'
    BY <2>2, <2>5 DEF KnowsGone, IsAt, Remains
  <2>7. KnowsCopy(r)'
    BY <1>0, <1>4, <2>2 DEF Knows, KnowsCopy, IsAt, Found, DeletePost
  <2>8. Knows(r)'
    BY <2>2, <2>6, <2>7 DEF Knows, KnowsParent, IsAt
  <2> QED BY <1>0, <1>4, <2>1, <2>5, <2>8, Quiet DEF DeletePost
<1>5. CASE SweepNotices(r)
  <2>1. CASE Becomes(r, NoTask)
    BY <1>0, <1>5, <2>1, IdleKnows, Quiet DEF SweepNotices, Remains
  <2>2. CASE ~Becomes(r, NoTask)
    <3>1. Becomes(r, [q EXCEPT !.todo = q.todo \ {"notice"}])
      BY <1>5, <2>2 DEF SweepNotices, Swept
    <3>2. tasks'[r].pc = "sweep" /\ tasks'[r].copy = q.copy /\ tasks'[r].on = q.on
      BY <1>0, <1>5, <3>1, Becoming DEF Task, SweepNotices, IsAt
    <3>3. Knows(r)'
      BY <1>0, <1>5, <3>2 DEF SweepNotices, Knows, KnowsCopy, KnowsParent, KnowsGone, IsAt, Found,
                             Remains
    <3> QED BY <1>0, <1>5, <3>1, <3>3, Quiet DEF SweepNotices, Remains
  <2> QED BY <2>1, <2>2
<1>6. CASE DeleteNotices(r)
  <2>1. [q EXCEPT !.pc = "soften"].pc = "soften" /\ [q EXCEPT !.pc = "soften"].copy = q.copy
    BY <1>0 DEF Task
  <2>2. Knows(r)'
    BY <1>6, <2>1, Forgetting DEF DeleteNotices
  <2> QED BY <1>0, <1>6, <2>2, Quiet DEF DeleteNotices, Remains
<1>7. CASE DraftArticles(r)
  <2>1. /\ [q EXCEPT !.pc = "deleteUser"].pc = "deleteUser"
        /\ [q EXCEPT !.pc = "deleteUser"].copy = q.copy
    BY <1>0 DEF Task
  <2>2. Knows(r)'
    BY <1>7, <2>1, Forgetting DEF DraftArticles
  <2>3. \A p \in Articles : Remains(p)' => Remains(p)
    BY <1>7 DEF DraftArticles, Remains
  <2> QED BY <1>0, <1>7, <2>2, <2>3, Quiet DEF DraftArticles
<1>8. CASE EraseUser(r)
  BY <1>0, <1>8, IdleKnows, Quiet DEF EraseUser, Remains
<1>9. CASE CrashTask(r)
  BY <1>0, <1>9, IdleKnows, Quiet DEF CrashTask, Remains
<1> QED BY <1>1, <1>2, <1>3, <1>4, <1>5, <1>6, <1>7, <1>8, <1>9

\* After a step of r that ends with q, only the other requests hold a copy to
\* save, a parent or a cascade, and they are as they were.
LEMMA Others ==
  ASSUME Typed, NEW r \in Visitors, NEW q, Becomes(r, q),
         q.pc \notin {"edit", "hard", "insert"}, q.copy \subseteq tasks[r].copy
  PROVE  \A x \in Visitors :
           /\ tasks'[x].copy \subseteq tasks[x].copy
           /\ tasks'[x].pc \in {"edit", "hard", "insert"} => x # r /\ tasks'[x] = tasks[x]
           /\ tasks'[x] = tasks[x] \/ tasks'[x] = q
<1> SUFFICES ASSUME NEW x \in Visitors
             PROVE  /\ tasks'[x].copy \subseteq tasks[x].copy
                    /\ tasks'[x].pc \in {"edit", "hard", "insert"} => x # r /\ tasks'[x] = tasks[x]
                    /\ tasks'[x] = tasks[x] \/ tasks'[x] = q
  OBVIOUS
<1>1. CASE x = r
  <2>1. tasks'[r] = q
    BY Becoming
  <2> QED BY <1>1, <2>1
<1>2. CASE x # r
  <2>1. tasks'[x] = tasks[x]
    BY <1>2, Becoming
  <2> QED BY <1>2, <2>1
<1> QED BY <1>1, <1>2

\* A new comment has a number of its own.
LEMMA InsertCoherent == ASSUME Coherent, NEW r \in Visitors, Insert(r) PROVE Coherent'
<1> DEFINE q == tasks[r]
           n == IF q.to \in {NoOne, q.user} THEN NoTask ELSE [q EXCEPT !.pc = "notify"]
<1>0. Typed /\ Typed' /\ q \in Task /\ lastComment \in Nat
  BY WritingTyped, Asking DEF Coherent, Typed, ThreadsOK
<1>a. PICK k, p : k = q.parent /\ p = q.on
  OBVIOUS
<1>1. PICK c : /\ comments' = comments \cup {c}
               /\ c.id = lastComment + 1 /\ c.post = p /\ c.parent = k
               /\ ~c.isDeleted /\ c.body = "text"
  <2> DEFINE b == Leaving(q.user) \/ Leaving(q.on)
             new == [id |-> lastComment', author |-> q.user, post |-> q.on, parent |-> q.parent,
                     isDeleted |-> FALSE, body |-> "text", late |-> b]
  <2>1. comments' = comments \cup {new} /\ lastComment' = lastComment + 1
    BY DEF Insert
  <2> HIDE DEF b, q
  <2>2. /\ new.id = lastComment' /\ new.post = q.on /\ new.parent = q.parent
        /\ ~new.isDeleted /\ new.body = "text"
    OBVIOUS
  <2> HIDE DEF new
  <2> QED BY <1>a, <2>1, <2>2
<1>2. /\ lastComment' = lastComment + 1 /\ orphaned \subseteq orphaned'
      /\ UNCHANGED <<status, exposed>>
      /\ \A x \in Visitors :
           IsAt(x, "hard") /\ (\E d \in tasks[x].copy : d.id = k) => k \in orphaned'
  BY <1>a DEF Insert
<1>3. /\ k \in Nat /\ k <= lastComment
      /\ \A e \in Found(k) : e.post = p
      /\ k # NoParent /\ Remains(p) => Found(k) # {} \/ k \in orphaned
  <2>1. k \in Nat
    BY <1>0, <1>a DEF Task, Ids, NoParent
  <2> QED BY <1>a, <2>1 DEF Insert, Coherent, Knows, KnowsParent
<1>4. \A x \in Visitors :
        /\ tasks'[x].copy \subseteq tasks[x].copy
        /\ tasks'[x].pc \in {"edit", "hard", "insert"} => x # r /\ tasks'[x] = tasks[x]
        /\ tasks'[x] = tasks[x] \/ tasks'[x] = n
  <2>1. n.pc \in {"idle", "notify"} /\ n.copy \subseteq q.copy
    BY <1>0, IdleIsFormed DEF Task
  <2>2. Becomes(r, n)
    BY DEF Insert
  <2> HIDE DEF n, q
  <2> QED BY <1>0, <2>1, <2>2, Others DEF q
<1>5. n.pc # "sweep"
  BY <1>0, IdleIsFormed DEF Task
<1> HIDE DEF n, q
<1>6. \A d \in comments : /\ d.id \in Nat /\ d.parent \in Nat
                          /\ d.id <= lastComment /\ d.parent <= lastComment
  BY <1>0 DEF Typed, ThreadsOK, Comment, Ids, NoParent, Coherent, Threaded
<1>7. \A i \in Nat : i <= lastComment => Found(i)' = Found(i)
  BY <1>0, <1>1 DEF Found
<1>8. Unique'
  BY <1>0, <1>1, <1>6 DEF Unique, Coherent
<1>9. ASSUME NEW d \in comments' PROVE Threaded(d)'
  <2>1. CASE d \in comments
    <3>1. Threaded(d) /\ Found(d.parent)' = Found(d.parent)
      BY <1>6, <1>7, <2>1 DEF Coherent
    <3> QED BY <1>0, <1>2, <1>6, <2>1, <3>1 DEF Threaded, Remains
  <2>2. CASE d \notin comments
    <3>1. d = c /\ Found(k)' = Found(k)
      BY <1>1, <1>3, <1>7, <2>2
    <3> QED BY <1>0, <1>1, <1>2, <1>3, <3>1 DEF Threaded, Remains
  <2> QED BY <2>1, <2>2
<1>10. ASSUME NEW x \in Visitors PROVE Knows(x)'
  <2>0. Knows(x) /\ tasks[x] \in Task
    BY <1>0, Asking DEF Coherent
  <2>1. KnowsCopy(x)'
    <3> SUFFICES ASSUME NEW d \in tasks'[x].copy
                 PROVE  /\ d.id <= lastComment'
                        /\ d.body # "text" => d.isDeleted
                        /\ \A y \in Found(d.id)' : /\ d.isDeleted => y.isDeleted
                                                   /\ IsAt(x, "edit")' /\ y.isDeleted => y.id \in exposed'
                        /\ IsAt(x, "hard")' => \A y \in comments' : y.parent = d.id => d.id \in orphaned'
      BY DEF KnowsCopy
    <3>1. d \in tasks[x].copy /\ d.id \in Nat /\ d.id <= lastComment /\ Found(d.id)' = Found(d.id)
      BY <1>4, <1>7, <2>0 DEF Task, Comment, Ids, Knows, KnowsCopy
    <3>2. IsAt(x, "edit")' => IsAt(x, "edit")
      BY <1>4 DEF IsAt
    <3>3. ASSUME IsAt(x, "hard")', NEW y \in comments', y.parent = d.id PROVE d.id \in orphaned'
      <4>1. IsAt(x, "hard")
        BY <1>4, <3>3 DEF IsAt
      <4>2. CASE y \in comments
        BY <1>2, <2>0, <3>1, <3>3, <4>1, <4>2 DEF Knows, KnowsCopy
      <4>3. CASE y \notin comments
        BY <1>1, <1>2, <3>1, <3>3, <4>1, <4>3
      <4> QED BY <4>2, <4>3
    <3> QED BY <1>0, <1>2, <2>0, <3>1, <3>2, <3>3 DEF Knows, KnowsCopy
  <2>2. KnowsParent(x)'
    <3> SUFFICES ASSUME IsAt(x, "insert")' PROVE KnowsParent(x)'
      BY DEF KnowsParent
    <3>1. tasks'[x] = tasks[x] /\ IsAt(x, "insert")
      BY <1>4 DEF IsAt
    <3>2. tasks[x].parent \in Nat /\ tasks[x].parent <= lastComment
      BY <2>0, <3>1 DEF Task, Ids, NoParent, Knows, KnowsParent
    <3>4. \A e \in comments' : e.id = tasks[x].parent => e \in Found(tasks[x].parent)
      BY <1>0, <1>1, <3>2 DEF Found
    <3>5. Found(tasks[x].parent) \subseteq comments'
      BY <1>1 DEF Found
    <3> QED BY <1>0, <1>2, <2>0, <3>1, <3>2, <3>4, <3>5 DEF Knows, KnowsParent, Remains, Found
  <2>3. KnowsGone(x)'
    BY <1>2, <1>4, <1>5, <2>0 DEF Knows, KnowsGone, IsAt, Remains
  <2> QED BY <2>1, <2>2, <2>3 DEF Knows
<1> QED BY <1>0, <1>8, <1>9, <1>10 DEF Coherent

\* A deletion is not undone, so a deleted copy is of a deleted comment.
LEMMA Copied ==
  ASSUME NEW r \in Visitors, KnowsCopy(r), NEW d \in tasks[r].copy, NEW x \in Found(d.id)
  PROVE  d.isDeleted => x.isDeleted
BY DEF KnowsCopy

\* An edit of d is under way.
LEMMA Editing ==
  ASSUME NEW r \in Visitors, IsAt(r, "edit"), NEW d \in tasks[r].copy
  PROVE  d.id \in Edited({d.id})
BY DEF Edited

\* A step of r that rewrites comments in place, and shows no text it should
\* hide.
LEMMA Rewriting ==
  ASSUME Coherent, Typed', NEW r \in Visitors, NEW q, Becomes(r, q),
         q.pc \notin {"edit", "hard", "insert", "sweep"}, q.copy \subseteq tasks[r].copy,
         NEW f, comments' = {f[x] : x \in comments},
         \A x \in comments :
           /\ f[x].id = x.id /\ f[x].post = x.post /\ f[x].parent = x.parent
           /\ x.isDeleted => f[x].isDeleted
           /\ f[x].body # "text" => f[x].isDeleted
           /\ f[x].isDeleted /\ f[x].body = "text" => x.id \in exposed'
           /\ f[x].isDeleted /\ ~x.isDeleted => Edited({x.id}) \subseteq exposed',
         exposed \subseteq exposed', UNCHANGED <<status, lastComment, orphaned>>
  PROVE  Coherent'
<1>1. \A x \in Visitors :
        /\ tasks'[x].copy \subseteq tasks[x].copy
        /\ tasks'[x].pc \in {"edit", "hard", "insert"} => x # r /\ tasks'[x] = tasks[x]
        /\ tasks'[x] = tasks[x] \/ tasks'[x] = q
  BY Others DEF Coherent
<1>2. ASSUME NEW y \in comments' PROVE \E x \in comments : y = f[x]
  OBVIOUS
<1>3. ASSUME NEW k
      PROVE  /\ \A y \in Found(k)' : \E x \in Found(k) : y = f[x]
             /\ Found(k) # {} => Found(k)' # {}
  <2>1. ASSUME NEW y \in Found(k)' PROVE \E x \in Found(k) : y = f[x]
    <3>1. y \in comments' /\ y.id = k
      BY <2>1 DEF Found
    <3>2. PICK x \in comments : y = f[x]
      BY <1>2, <3>1
    <3>3. x.id = k
      BY <3>1, <3>2
    <3> QED BY <3>2, <3>3 DEF Found
  <2>2. ASSUME NEW x \in Found(k) PROVE f[x] \in Found(k)'
    <3>1. x \in comments /\ x.id = k
      BY <2>2 DEF Found
    <3>2. f[x].id = k /\ f[x] \in comments'
      BY <3>1
    <3> QED BY <3>2 DEF Found
  <2> QED BY <2>1, <2>2
<1>4. Unique'
  <2>1. ASSUME NEW y \in comments', NEW z \in comments', y.id = z.id PROVE y = z
    <3>1. PICK x \in comments : y = f[x]
      BY <1>2
    <3>2. PICK w \in comments : z = f[w]
      BY <1>2
    <3>3. x.id = w.id
      BY <2>1, <3>1, <3>2
    <3>4. x = w
      BY <3>3 DEF Coherent, Unique
    <3> QED BY <3>1, <3>2, <3>4
  <2> QED BY <2>1 DEF Unique
<1>5. ASSUME NEW y \in comments' PROVE Threaded(y)'
  <2>1. PICK x \in comments : y = f[x]
    BY <1>2
  <2>2. Threaded(x) /\ y.id = x.id /\ y.post = x.post /\ y.parent = x.parent
    BY <2>1 DEF Coherent
  <2>3. \A e \in Found(y.parent)' : e.post = y.post
    <3>1. ASSUME NEW e \in Found(y.parent)' PROVE e.post = y.post
      <4>1. PICK z \in Found(y.parent) : e = f[z]
        BY <1>3, <3>1
      <4>2. z \in comments /\ z.post = x.post
        BY <2>2, <4>1 DEF Threaded, Found
      <4> QED BY <2>2, <4>1, <4>2
    <3> QED BY <3>1
  <2>4. y.parent # NoParent /\ Remains(y.post)' => Found(y.parent)' # {} \/ y.parent \in orphaned'
    BY <1>3, <2>2 DEF Threaded, Remains
  <2> QED BY <2>1, <2>2, <2>3, <2>4 DEF Threaded
<1>6. ASSUME NEW z \in Visitors PROVE Knows(z)'
  <2>1. Knows(z)
    BY DEF Coherent
  <2>2. KnowsCopy(z)'
    <3>1. ASSUME NEW d \in tasks'[z].copy
          PROVE  /\ d.id <= lastComment'
                 /\ d.body # "text" => d.isDeleted
                 /\ \A y \in Found(d.id)' : /\ d.isDeleted => y.isDeleted
                                            /\ IsAt(z, "edit")' /\ y.isDeleted => y.id \in exposed'
                 /\ IsAt(z, "hard")' => \A y \in comments' : y.parent = d.id => d.id \in orphaned'
      <4>1. /\ d \in tasks[z].copy
            /\ IsAt(z, "edit")' => IsAt(z, "edit")
            /\ IsAt(z, "hard")' => IsAt(z, "hard")
        BY <1>1, <3>1 DEF IsAt
      <4>2. d.id <= lastComment' /\ (d.body # "text" => d.isDeleted)
        BY <2>1, <4>1 DEF Knows, KnowsCopy
      <4>3. ASSUME NEW y \in Found(d.id)'
            PROVE  /\ d.isDeleted => y.isDeleted
                   /\ IsAt(z, "edit")' /\ y.isDeleted => y.id \in exposed'
        <5>1. PICK x \in Found(d.id) : y = f[x]
          BY <1>3, <4>3
        <5>2. x \in comments /\ x.id = d.id /\ y.id = d.id
          BY <5>1 DEF Found
        <5>3. d.isDeleted => x.isDeleted
          BY <2>1, <4>1, <5>1, Copied DEF Knows
        <5>4. ASSUME IsAt(z, "edit")', y.isDeleted PROVE y.id \in exposed'
          <6>1. CASE x.isDeleted
            <7>1. x.id \in exposed
              BY <2>1, <4>1, <5>1, <5>4, <6>1 DEF Knows, KnowsCopy
            <7> QED BY <5>2, <7>1
          <6>2. CASE ~x.isDeleted
            <7>1. d.id \in Edited({d.id})
              BY <4>1, <5>4, Editing
            <7>2. Edited({x.id}) \subseteq exposed'
              BY <5>1, <5>2, <5>4, <6>2
            <7> QED BY <5>2, <7>1, <7>2
          <6> QED BY <6>1, <6>2
        <5> QED BY <5>1, <5>2, <5>3, <5>4
      <4>4. ASSUME IsAt(z, "hard")', NEW y \in comments', y.parent = d.id PROVE d.id \in orphaned'
        <5>1. PICK x \in comments : y = f[x]
          BY <1>2
        <5>2. x.parent = d.id
          BY <4>4, <5>1
        <5>3. d.id \in orphaned
          BY <2>1, <4>1, <4>4, <5>2 DEF Knows, KnowsCopy
        <5> QED BY <5>3
      <4> QED BY <4>2, <4>3, <4>4
    <3> QED BY <3>1 DEF KnowsCopy
  <2>3. KnowsParent(z)'
    <3> SUFFICES ASSUME IsAt(z, "insert")' PROVE KnowsParent(z)'
      BY DEF KnowsParent
    <3>1. tasks'[z] = tasks[z] /\ IsAt(z, "insert")
      BY <1>1 DEF IsAt
    <3>2. PICK k : k = tasks[z].parent
      OBVIOUS
    <3>3. ASSUME NEW e \in Found(k)' PROVE e.post = tasks[z].on
      <4>1. PICK x \in Found(k) : e = f[x]
        BY <1>3, <3>3
      <4>2. x \in comments /\ x.post = tasks[z].on
        BY <2>1, <3>1, <3>2, <4>1 DEF Knows, KnowsParent, Found
      <4> QED BY <4>1, <4>2
    <3>4. k # NoParent /\ Remains(tasks[z].on) => Found(k)' # {} \/ k \in orphaned'
      BY <1>3, <2>1, <3>1, <3>2 DEF Knows, KnowsParent
    <3> QED BY <2>1, <3>1, <3>2, <3>3, <3>4 DEF Knows, KnowsParent, Remains, Found
  <2>4. KnowsGone(z)'
    BY <1>1, <2>1 DEF Knows, KnowsGone, IsAt, Remains
  <2> QED BY <2>2, <2>3, <2>4 DEF Knows
<1> QED BY <1>4, <1>5, <1>6 DEF Coherent

\* A step of r that drops the comments C, with their replies unless those are
\* known to have crossed them.
LEMMA Dropping ==
  ASSUME Coherent, Typed', NEW r \in Visitors, NEW q, Becomes(r, q),
         q.pc \notin {"edit", "hard", "insert"}, q.copy \subseteq tasks[r].copy,
         q.pc = "sweep" => ~Remains(q.on),
         NEW C, comments' = comments \ C, C \subseteq comments,
         \A d \in C, e \in comments \ C :
           e.parent = d.id /\ Remains(e.post) => d.id \in orphaned',
         \A d \in C, x \in Visitors :
           IsAt(x, "insert") /\ tasks[x].parent = d.id /\ Remains(tasks[x].on) => d.id \in orphaned',
         orphaned \subseteq orphaned', UNCHANGED <<status, lastComment, exposed>>
  PROVE  Coherent'
<1>1. \A x \in Visitors :
        /\ tasks'[x].copy \subseteq tasks[x].copy
        /\ tasks'[x].pc \in {"edit", "hard", "insert"} => x # r /\ tasks'[x] = tasks[x]
        /\ tasks'[x] = tasks[x] \/ tasks'[x] = q
  BY Others DEF Coherent
<1>2. Unique'
  BY DEF Coherent, Unique
<1>3. ASSUME NEW k
      PROVE  /\ Found(k)' \subseteq Found(k)
             /\ Found(k) # {} /\ Found(k)' = {} => \E d \in C : d.id = k
  BY DEF Found
<1>4. ASSUME NEW y \in comments' PROVE Threaded(y)'
  <2>1. Threaded(y) /\ y \in comments \ C
    BY DEF Coherent
  <2>2. \A e \in Found(y.parent)' : e.post = y.post
    BY <1>3, <2>1 DEF Threaded
  <2>3. y.parent # NoParent /\ Remains(y.post)' => Found(y.parent)' # {} \/ y.parent \in orphaned'
    BY <1>3, <2>1 DEF Threaded, Remains
  <2> QED BY <2>1, <2>2, <2>3 DEF Threaded
<1>5. ASSUME NEW z \in Visitors PROVE Knows(z)'
  <2>1. Knows(z)
    BY DEF Coherent
  <2>2. KnowsCopy(z)'
    <3>1. ASSUME NEW d \in tasks'[z].copy
          PROVE  /\ d.id <= lastComment'
                 /\ d.body # "text" => d.isDeleted
                 /\ \A y \in Found(d.id)' : /\ d.isDeleted => y.isDeleted
                                            /\ IsAt(z, "edit")' /\ y.isDeleted => y.id \in exposed'
                 /\ IsAt(z, "hard")' => \A y \in comments' : y.parent = d.id => d.id \in orphaned'
      <4>1. /\ d \in tasks[z].copy
            /\ IsAt(z, "edit")' => IsAt(z, "edit")
            /\ IsAt(z, "hard")' => IsAt(z, "hard")
        BY <1>1, <3>1 DEF IsAt
      <4>2. comments' \subseteq comments
        OBVIOUS
      <4> QED BY <1>3, <2>1, <4>1, <4>2 DEF Knows, KnowsCopy
    <3> QED BY <3>1 DEF KnowsCopy
  <2>3. KnowsParent(z)'
    <3> SUFFICES ASSUME IsAt(z, "insert")' PROVE KnowsParent(z)'
      BY DEF KnowsParent
    <3>1. tasks'[z] = tasks[z] /\ IsAt(z, "insert")
      BY <1>1 DEF IsAt
    <3>2. PICK k : k = tasks[z].parent
      OBVIOUS
    <3>3. \A e \in Found(k)' : e.post = tasks[z].on
      BY <1>3, <2>1, <3>1, <3>2 DEF Knows, KnowsParent
    <3>4. k # NoParent /\ Remains(tasks[z].on) => Found(k)' # {} \/ k \in orphaned'
      BY <1>3, <2>1, <3>1, <3>2 DEF Knows, KnowsParent
    <3> QED BY <2>1, <3>1, <3>2, <3>3, <3>4 DEF Knows, KnowsParent, Remains, Found
  <2>4. KnowsGone(z)'
    BY <1>1, <2>1 DEF Knows, KnowsGone, IsAt, Remains
  <2> QED BY <2>2, <2>3, <2>4 DEF Knows
<1> QED BY <1>2, <1>4, <1>5 DEF Coherent

\* The steps that rewrite comments in place.
LEMMA RewritingCoherent ==
  ASSUME Coherent, NEW r \in Visitors, EditSave(r) \/ SoftDelete(r) \/ SoftenComments(r)
  PROVE  Coherent'
<1>0. /\ Typed /\ Typed' /\ KnowsCopy(r) /\ tasks[r] \in Task
      /\ \A d, e \in tasks[r].copy : d = e
  BY WritingTyped, DeletingTyped, LeavingTyped, Asking DEF Coherent, Knows, Formed
<1>1. \A x \in comments : x \in Comment /\ Threaded(x)
  BY <1>0 DEF Typed, ThreadsOK, Coherent
<1>2. CASE EditSave(r)
  <2>1. PICK d \in tasks[r].copy :
          comments' = {IF x.id = d.id THEN [x EXCEPT !.body = "text"] ELSE x : x \in comments}
    BY <1>2 DEF EditSave
  <2> DEFINE f == [x \in comments |-> IF x.id = d.id THEN [x EXCEPT !.body = "text"] ELSE x]
  <2>2. comments' = {f[x] : x \in comments}
    BY <2>1
  <2>3. /\ Becomes(r, NoTask) /\ exposed \subseteq exposed'
        /\ UNCHANGED <<status, lastComment, orphaned, exposed>>
    BY <1>2 DEF EditSave
  <2>4. ASSUME NEW x \in comments
        PROVE  /\ f[x].id = x.id /\ f[x].post = x.post /\ f[x].parent = x.parent
               /\ x.isDeleted => f[x].isDeleted
               /\ f[x].body # "text" => f[x].isDeleted
               /\ f[x].isDeleted /\ f[x].body = "text" => x.id \in exposed'
               /\ f[x].isDeleted /\ ~x.isDeleted => Edited({x.id}) \subseteq exposed'
    <3>1. CASE x.id = d.id
      <4>1. /\ f[x].id = x.id /\ f[x].post = x.post /\ f[x].parent = x.parent
            /\ f[x].isDeleted = x.isDeleted /\ f[x].body = "text"
        BY <1>1, <3>1 DEF Comment
      <4>2. x.isDeleted => x.id \in exposed
        <5>1. IsAt(r, "edit") /\ x \in Found(d.id)
          BY <1>2, <3>1 DEF EditSave, Found
        <5> QED BY <1>0, <5>1 DEF KnowsCopy
      <4> HIDE DEF f
      <4> QED BY <2>3, <4>1, <4>2
    <3>2. CASE x.id # d.id
      <4>1. f[x] = x
        BY <3>2
      <4> HIDE DEF f
      <4> QED BY <1>1, <2>3, <4>1 DEF Threaded
    <3> QED BY <3>1, <3>2
  <2> HIDE DEF f
  <2> QED BY <1>0, <2>2, <2>3, <2>4, IdleIsFormed, Rewriting
<1>3. CASE SoftDelete(r)
  <2>1. PICK d \in tasks[r].copy :
          /\ comments' = {IF x.id # d.id THEN x
                          ELSE [x EXCEPT !.isDeleted = TRUE,
                                  !.body = IF d.body = "[deleted]" THEN @ ELSE "[deleted]"] :
                            x \in comments}
          /\ exposed' = exposed \cup Edited({d.id})
    BY <1>3 DEF SoftDelete
  <2> DEFINE f == [x \in comments |->
                     IF x.id # d.id THEN x
                     ELSE [x EXCEPT !.isDeleted = TRUE,
                             !.body = IF d.body = "[deleted]" THEN @ ELSE "[deleted]"]]
  <2>2. comments' = {f[x] : x \in comments}
    BY <2>1
  <2>3. Becomes(r, NoTask) /\ exposed \subseteq exposed' /\ UNCHANGED <<status, lastComment, orphaned>>
    BY <1>3, <2>1 DEF SoftDelete
  <2>4. ASSUME NEW x \in comments
        PROVE  /\ f[x].id = x.id /\ f[x].post = x.post /\ f[x].parent = x.parent
               /\ x.isDeleted => f[x].isDeleted
               /\ f[x].body # "text" => f[x].isDeleted
               /\ f[x].isDeleted /\ f[x].body = "text" => x.id \in exposed'
               /\ f[x].isDeleted /\ ~x.isDeleted => Edited({x.id}) \subseteq exposed'
    <3>1. CASE x.id = d.id
      <4>1. /\ f[x].id = x.id /\ f[x].post = x.post /\ f[x].parent = x.parent
            /\ f[x].isDeleted = TRUE
            /\ f[x].body = IF d.body = "[deleted]" THEN x.body ELSE "[deleted]"
        BY <1>1, <3>1 DEF Comment
      <4>2. d.body = "[deleted]" /\ x.body = "text" => x.id \in exposed
        <5>1. SUFFICES ASSUME d.body = "[deleted]", x.body = "text" PROVE x.id \in exposed
          OBVIOUS
        <5>2. d.isDeleted /\ x \in Found(d.id)
          BY <1>0, <3>1, <5>1 DEF KnowsCopy, Found
        <5>3. x.isDeleted
          BY <1>0, <5>2, Copied
        <5> QED BY <1>1, <5>1, <5>3 DEF Threaded
      <4>3. Edited({x.id}) \subseteq exposed'
        BY <2>1, <3>1
      <4> HIDE DEF f
      <4> QED BY <2>3, <4>1, <4>2, <4>3
    <3>2. CASE x.id # d.id
      <4>1. f[x] = x
        BY <3>2
      <4> HIDE DEF f
      <4> QED BY <1>1, <2>3, <4>1 DEF Threaded
    <3> QED BY <3>1, <3>2
  <2> HIDE DEF f
  <2> QED BY <1>0, <2>2, <2>3, <2>4, IdleIsFormed, Rewriting
<1>4. CASE SoftenComments(r)
  <2>1. PICK u : u = tasks[r].user
    OBVIOUS
  <2> DEFINE f == [x \in comments |->
                     IF x.author = u
                     THEN [x EXCEPT !.isDeleted = TRUE, !.body = "[deleted account]"] ELSE x]
             n == [tasks[r] EXCEPT !.pc = "draftPosts"]
  <2>2. comments' = {f[x] : x \in comments}
    BY <1>4, <2>1 DEF SoftenComments, Softened
  <2>3. /\ Becomes(r, n) /\ UNCHANGED <<status, lastComment, orphaned>>
        /\ exposed' = exposed \cup Edited({d.id : d \in {x \in comments : x.author = u}})
    BY <1>4, <2>1 DEF SoftenComments
  <2>4. n.pc = "draftPosts" /\ n.copy = tasks[r].copy
    BY <1>0 DEF Task
  <2>5. ASSUME NEW x \in comments
        PROVE  /\ f[x].id = x.id /\ f[x].post = x.post /\ f[x].parent = x.parent
               /\ x.isDeleted => f[x].isDeleted
               /\ f[x].body # "text" => f[x].isDeleted
               /\ f[x].isDeleted /\ f[x].body = "text" => x.id \in exposed'
               /\ f[x].isDeleted /\ ~x.isDeleted => Edited({x.id}) \subseteq exposed'
    <3>1. CASE x.author = u
      <4>1. /\ f[x].id = x.id /\ f[x].post = x.post /\ f[x].parent = x.parent
            /\ f[x].isDeleted = TRUE /\ f[x].body = "[deleted account]"
        BY <1>1, <3>1 DEF Comment
      <4>2. Edited({x.id}) \subseteq exposed'
        BY <2>3, <3>1 DEF Edited
      <4> HIDE DEF f
      <4> QED BY <4>1, <4>2
    <3>2. CASE x.author # u
      <4>1. f[x] = x
        BY <3>2
      <4> HIDE DEF f
      <4> QED BY <1>1, <2>3, <4>1 DEF Threaded
    <3> QED BY <3>1, <3>2
  <2> HIDE DEF f, n
  <2> QED BY <1>0, <2>2, <2>3, <2>4, <2>5, Rewriting
<1> QED BY <1>2, <1>3, <1>4

\* The steps that drop comments.
LEMMA DroppingCoherent ==
  ASSUME Coherent, NEW r \in Visitors, HardDelete(r) \/ SweepComments(r)
  PROVE  Coherent'
<1>0. Typed /\ Typed' /\ Knows(r) /\ tasks[r] \in Task
  BY DeletingTyped, RemovingTyped, Asking DEF Coherent
<1>1. CASE HardDelete(r)
  <2>1. PICK d \in tasks[r].copy :
          /\ comments' = comments \ Found(d.id)
          /\ orphaned' = IF \E x \in Visitors : IsAt(x, "insert") /\ tasks[x].parent = d.id
                         THEN orphaned \cup {d.id} ELSE orphaned
    BY <1>1 DEF HardDelete
  <2>2. IsAt(r, "hard") /\ Becomes(r, NoTask) /\ UNCHANGED <<status, lastComment, exposed>>
    BY <1>1 DEF HardDelete
  <2>3. \A e \in comments : e.parent = d.id => d.id \in orphaned
    BY <1>0, <2>2 DEF Knows, KnowsCopy
  <2>4. orphaned \subseteq orphaned'
    BY <2>1
  <2>5. \A c \in Found(d.id), e \in comments \ Found(d.id) :
          e.parent = c.id /\ Remains(e.post) => c.id \in orphaned'
    BY <2>3, <2>4 DEF Found
  <2>6. \A c \in Found(d.id), x \in Visitors :
          IsAt(x, "insert") /\ tasks[x].parent = c.id /\ Remains(tasks[x].on) => c.id \in orphaned'
    BY <2>1 DEF Found
  <2>7. Found(d.id) \subseteq comments
    BY DEF Found
  <2> QED BY <1>0, <2>1, <2>2, <2>4, <2>5, <2>6, <2>7, IdleIsFormed, Dropping
<1>2. CASE SweepComments(r)
  <2>1. PICK C, q : /\ C = Gone(tasks[r].on) /\ q = Swept(r, "comment")
    OBVIOUS
  <2>2. /\ comments' = comments \ C /\ Becomes(r, q) /\ UNCHANGED <<status, lastComment, orphaned, exposed>>
        /\ ~Remains(tasks[r].on)
    BY <1>0, <1>2, <2>1 DEF SweepComments, Knows, KnowsGone
  <2>3. /\ q.pc \in {"idle", "sweep"} /\ q.copy \subseteq tasks[r].copy
        /\ q.pc = "sweep" => q.on = tasks[r].on
    <3>1. CASE q = NoTask
      BY <3>1, IdleIsFormed
    <3>2. CASE q = [tasks[r] EXCEPT !.todo = tasks[r].todo \ {"comment"}]
      BY <1>0, <1>2, <3>2 DEF Task, SweepComments, IsAt
    <3> QED BY <2>1, <3>1, <3>2 DEF Swept
  <2>4. C \subseteq comments /\ \A c \in comments : c \in C <=> c.post = tasks[r].on
    BY <2>1 DEF Gone
  <2>5. \A c \in C, e \in comments \ C : e.parent # c.id
    <3>1. ASSUME NEW c \in C, NEW e \in comments \ C, e.parent = c.id PROVE FALSE
      <4>1. Threaded(e) /\ c \in Found(e.parent)
        BY <2>4, <3>1 DEF Coherent, Found
      <4> QED BY <2>4, <4>1 DEF Threaded
    <3> QED BY <3>1
  <2>6. ASSUME NEW c \in C, NEW x \in Visitors, IsAt(x, "insert"), tasks[x].parent = c.id
        PROVE  ~Remains(tasks[x].on)
    <3>1. c \in Found(tasks[x].parent)
      BY <2>4, <2>6 DEF Found
    <3>2. c.post = tasks[x].on
      BY <2>6, <3>1 DEF Coherent, Knows, KnowsParent
    <3> QED BY <2>2, <2>4, <3>2
  <2>7. ~Remains(q.on) \/ q.pc # "sweep"
    BY <2>2, <2>3
  <2> QED BY <1>0, <2>2, <2>3, <2>4, <2>5, <2>6, <2>7, Dropping
<1> QED BY <1>1, <1>2

LEMMA StepCoherent == Coherent /\ [ThreadsNext]_threadsVars => Coherent'
<1> SUFFICES ASSUME Coherent, [ThreadsNext]_threadsVars PROVE Coherent'
  OBVIOUS
<1>1. CASE UNCHANGED threadsVars
  <2>1. Typed'
    BY StepTyped DEF Coherent
  <2> QED BY <1>1, <2>1 DEF threadsVars, Coherent, Unique, Threaded, Knows, KnowsCopy, KnowsParent,
                            KnowsGone, IsAt, Found, Remains
<1>2. ASSUME NEW r \in Visitors, Start(r) \/ Proceed(r) \/ CrashTask(r) PROVE Coherent'
  BY <1>2, CallCoherent, QuietCoherent, InsertCoherent, RewritingCoherent, DroppingCoherent
     DEF Proceed
<1> QED BY <1>1, <1>2 DEF ThreadsNext

\* What comments and requests know of each other stays true.
THEOREM AlwaysCoherent == ThreadsSpec => []Coherent
<1>1. ThreadsInit => Coherent
  BY InitCoherent
<1>2. Coherent /\ [ThreadsNext]_threadsVars => Coherent'
  BY StepCoherent
<1> QED BY <1>1, <1>2, PTL DEF ThreadsSpec

\* Deleting comments does not tear threads.
THEOREM ParentsCorrect == ThreadsSpec => []RepliesKeepParents
<1>1. Coherent => RepliesKeepParents
  BY DEF Coherent, Threaded, RepliesKeepParents
<1> QED BY <1>1, AlwaysCoherent, PTL

\* The text of a deleted comment stays hidden.
THEOREM HiddenCorrect == ThreadsSpec => []DeletedTextIsHidden
<1>1. Coherent => DeletedTextIsHidden
  BY DEF Coherent, Threaded, DeletedTextIsHidden
<1> QED BY <1>1, AlwaysCoherent, PTL

-----------------------------------------------------------------------------
(* Comments of removed posts                                               *)

\* What is left of a comment: its author, its post and its marks.
Descends(y, x) == /\ y.author = x.author /\ y.post = x.post
                  /\ x.late => y.late
                  /\ x.isDeleted => y.isDeleted

\* No step but an insertion brings a comment nobody had written.
LEMMA Descent ==
  ASSUME Typed, NEW r \in Visitors,
         \/ UNCHANGED comments
         \/ EditSave(r) \/ SoftDelete(r) \/ SoftenComments(r)
         \/ HardDelete(r) \/ SweepComments(r)
  PROVE  \A y \in comments' : \E x \in comments : Descends(y, x)
<1>0. \A x \in comments : x \in Comment /\ Descends(x, x)
  BY DEF Typed, ThreadsOK, Descends
<1>1. CASE comments' \subseteq comments
  BY <1>0, <1>1
<1>2. CASE EditSave(r)
  <2>1. PICK d \in tasks[r].copy :
          comments' = {IF x.id = d.id THEN [x EXCEPT !.body = "text"] ELSE x : x \in comments}
    BY <1>2 DEF EditSave
  <2>2. \A x \in comments : Descends([x EXCEPT !.body = "text"], x)
    BY <1>0 DEF Descends, Comment
  <2> QED BY <1>0, <2>1, <2>2
<1>3. CASE SoftDelete(r)
  <2>1. PICK d \in tasks[r].copy :
          comments' = {IF x.id # d.id THEN x
                       ELSE [x EXCEPT !.isDeleted = TRUE,
                               !.body = IF d.body = "[deleted]" THEN @ ELSE "[deleted]"] :
                         x \in comments}
    BY <1>3 DEF SoftDelete
  <2>2. \A x \in comments :
          Descends([x EXCEPT !.isDeleted = TRUE,
                      !.body = IF d.body = "[deleted]" THEN @ ELSE "[deleted]"], x)
    BY <1>0 DEF Descends, Comment
  <2> QED BY <1>0, <2>1, <2>2
<1>4. CASE SoftenComments(r)
  <2>1. comments' = Softened(tasks[r].user)
    BY <1>4 DEF SoftenComments
  <2>2. \A x \in comments :
          Descends([x EXCEPT !.isDeleted = TRUE, !.body = "[deleted account]"], x)
    BY <1>0 DEF Descends, Comment
  <2> QED BY <1>0, <2>1, <2>2 DEF Softened
<1>5. UNCHANGED comments \/ HardDelete(r) \/ SweepComments(r) => comments' \subseteq comments
  BY DEF HardDelete, SweepComments
<1> QED BY <1>1, <1>2, <1>3, <1>4, <1>5

\* The calls of a cascade.
Sweeps == {"comment", "notice"}

\* r has yet to make one of the calls of the removal of p.
Clears(r, p, sweep) == IsAt(r, "sweep") /\ tasks[r].on = p /\ sweep \in tasks[r].todo

\* What was stored in time, and this call is there to delete.
Leftovers(p, sweep) == IF sweep = "comment" THEN {d \in comments : d.post = p /\ ~d.late}
                       ELSE {d \in notices : d.on = p /\ ~d.late}

Cleared == \A p \in Articles, sweep \in Sweeps :
  ~Remains(p) /\ p \notin missed =>
    (\E r \in Visitors : Clears(r, p, sweep)) \/ Leftovers(p, sweep) = {}

\* A step of r that deletes no post, adds nothing in time, and drops no call of
\* a cascade unless it is made or lost.
LEMMA Clearing ==
  ASSUME Typed, Cleared, NEW r \in Visitors, NEW q, Becomes(r, q),
         \A p \in Articles : ~Remains(p)' => ~Remains(p),
         missed \subseteq missed',
         \A y \in comments' : y.late \/ Remains(y.post)
                              \/ \E x \in comments : Descends(y, x),
         \A n \in notices' : n.late \/ Remains(n.on) \/ n \in notices,
         \A p \in Articles, sweep \in Sweeps : Clears(r, p, sweep) =>
           \/ q.pc = "sweep" /\ q.on = p /\ sweep \in q.todo
           \/ p \in missed'
           \/ Leftovers(p, sweep)' = {}
  PROVE  Cleared'
<1> SUFFICES ASSUME NEW p \in Articles, NEW sweep \in Sweeps, ~Remains(p)', p \notin missed'
             PROVE  \/ \E x \in Visitors : Clears(x, p, sweep)'
                    \/ Leftovers(p, sweep)' = {}
  BY DEF Cleared
<1>1. ~Remains(p) /\ p \notin missed
  OBVIOUS
<1>2. ASSUME NEW x \in Visitors, Clears(x, p, sweep), x # r PROVE Clears(x, p, sweep)'
  <2>1. tasks'[x] = tasks[x]
    BY <1>2, Becoming
  <2> QED BY <1>2, <2>1 DEF Clears, IsAt
<1>3. CASE Clears(r, p, sweep)
  <2>1. tasks'[r] = q
    BY Becoming
  <2> QED BY <1>3, <2>1 DEF Clears, IsAt
<1>4. CASE Leftovers(p, sweep) = {}
  <2>1. CASE sweep = "comment"
    <3>1. ASSUME NEW y \in comments', y.post = p PROVE y.late
      BY <1>1, <1>4, <2>1, <3>1 DEF Descends, Leftovers
    <3> QED BY <2>1, <3>1 DEF Leftovers
  <2>2. CASE sweep = "notice"
    <3>1. ASSUME NEW n \in notices', n.on = p PROVE n.late
      BY <1>1, <1>4, <2>2, <3>1 DEF Leftovers
    <3> QED BY <2>2, <3>1 DEF Leftovers
  <2> QED BY <2>1, <2>2 DEF Sweeps
<1> QED BY <1>1, <1>2, <1>3, <1>4 DEF Cleared

\* A cascade that makes a call still has the other one to make.
LEMMA Sweeping ==
  ASSUME Typed, NEW r \in Visitors, NEW call \in Sweeps, NEW sweep \in Sweeps, sweep # call,
         NEW p \in Articles, Clears(r, p, sweep)
  PROVE  /\ Swept(r, call).pc = "sweep" /\ Swept(r, call).on = p
         /\ sweep \in Swept(r, call).todo
<1>1. tasks[r] \in Task
  BY Asking
<1>2. sweep \in tasks[r].todo \ {call}
  BY DEF Clears
<1>3. Swept(r, call) = [tasks[r] EXCEPT !.todo = tasks[r].todo \ {call}]
  BY <1>2 DEF Swept
<1> QED BY <1>1, <1>2, <1>3 DEF Task, Clears, IsAt

LEMMA StepCleared == Typed /\ Cleared /\ [ThreadsNext]_threadsVars => Cleared'
<1> SUFFICES ASSUME Typed, Cleared, [ThreadsNext]_threadsVars PROVE Cleared'
  OBVIOUS
<1>1. CASE UNCHANGED threadsVars
  BY <1>1 DEF threadsVars, Cleared, Clears, Leftovers, IsAt, Remains
<1> SUFFICES ASSUME NEW r \in Visitors, Start(r) \/ Proceed(r) \/ CrashTask(r) PROVE Cleared'
  BY <1>1 DEF ThreadsNext
<1>0. tasks[r] \in Task /\ status \in [Articles -> PostStates] /\ Formed(tasks[r])
  BY Asking DEF Typed, ThreadsOK
<1>2. ASSUME UNCHANGED comments PROVE \A y \in comments' : \E x \in comments : Descends(y, x)
  BY <1>2, Descent
<1>3. CASE Start(r)
  <2>1. PICK q : Becomes(r, q)
    BY <1>3 DEF Start, CloseAccount, RemovePost, CreateComment, Edit, RemoveComment
  <2>2. IsAt(r, "idle") /\ UNCHANGED <<status, comments, notices, missed>>
    BY <1>3 DEF Start, CloseAccount, RemovePost, CreateComment, Edit, RemoveComment, Caller
  <2>3. \A p, sweep : ~Clears(r, p, sweep)
    BY <2>2 DEF Clears, IsAt
  <2> QED BY <1>2, <2>1, <2>2, <2>3, Clearing DEF Remains
<1>4. CASE Parent(r) \/ LookForReplies(r) \/ DeleteNotices(r) \/ EraseUser(r)
  <2>1. PICK q : Becomes(r, q)
    BY <1>4 DEF Parent, LookForReplies, DeleteNotices, EraseUser
  <2>2. ~IsAt(r, "sweep") /\ UNCHANGED <<status, comments, missed>> /\ notices' \subseteq notices
    BY <1>4 DEF Parent, LookForReplies, DeleteNotices, EraseUser, IsAt
  <2>3. \A p, sweep : ~Clears(r, p, sweep)
    BY <2>2 DEF Clears
  <2> QED BY <1>2, <2>1, <2>2, <2>3, Clearing DEF Remains
<1>5. CASE EditSave(r) \/ SoftDelete(r) \/ HardDelete(r) \/ SoftenComments(r)
  <2>1. PICK q : Becomes(r, q)
    BY <1>5 DEF EditSave, SoftDelete, HardDelete, SoftenComments
  <2>2. ~IsAt(r, "sweep") /\ UNCHANGED <<status, notices, missed>>
    BY <1>5 DEF EditSave, SoftDelete, HardDelete, SoftenComments, IsAt
  <2>3. \A p, sweep : ~Clears(r, p, sweep)
    BY <2>2 DEF Clears
  <2>4. \A y \in comments' : \E x \in comments : Descends(y, x)
    BY <1>5, Descent
  <2> QED BY <2>1, <2>2, <2>3, <2>4, Clearing DEF Remains
<1>6. CASE Insert(r)
  <2> DEFINE q == tasks[r]
             b == Leaving(q.user) \/ Leaving(q.on)
             new == [id |-> lastComment', author |-> q.user, post |-> q.on, parent |-> q.parent,
                     isDeleted |-> FALSE, body |-> "text", late |-> b]
  <2>1. /\ comments' = comments \cup {new} /\ UNCHANGED <<status, notices, missed>>
        /\ IsAt(r, "insert")
    BY <1>6 DEF Insert
  <2>2. PICK n : Becomes(r, n)
    BY <1>6 DEF Insert
  <2>3. ~Remains(q.on) => b
    BY <1>0, <2>1 DEF Leaving, IsAt, Formed
  <2> HIDE DEF b, q
  <2>4. new.post = q.on /\ (b => new.late)
    OBVIOUS
  <2> HIDE DEF new
  <2>5. \A y \in comments' : y.late \/ Remains(y.post) \/ \E x \in comments : Descends(y, x)
    BY <2>1, <2>3, <2>4 DEF Descends
  <2>6. \A p, sweep : ~Clears(r, p, sweep)
    BY <2>1 DEF Clears, IsAt
  <2> QED BY <2>1, <2>2, <2>5, <2>6, Clearing DEF Remains
<1>7. CASE Notify(r)
  <2> DEFINE q == tasks[r]
             b == Leaving(q.to) \/ Leaving(q.user) \/ Leaving(q.on)
             new == [to |-> q.to, by |-> q.user, on |-> q.on, late |-> b]
  <2>1. /\ notices' = notices \cup {new} /\ UNCHANGED <<status, comments, missed>>
        /\ IsAt(r, "notify") /\ Becomes(r, NoTask)
    BY <1>7 DEF Notify
  <2>2. ~Remains(q.on) => b
    BY <1>0, <2>1 DEF Leaving, IsAt, Formed
  <2> HIDE DEF b, q
  <2>3. new.on = q.on /\ (b => new.late)
    OBVIOUS
  <2> HIDE DEF new
  <2>4. \A n \in notices' : n.late \/ Remains(n.on) \/ n \in notices
    BY <2>1, <2>2, <2>3
  <2>5. \A p, sweep : ~Clears(r, p, sweep)
    BY <2>1 DEF Clears, IsAt
  <2> QED BY <1>2, <2>1, <2>4, <2>5, Clearing DEF Remains
<1>8. CASE SweepNotices(r)
  <2>1. /\ Becomes(r, Swept(r, "notice")) /\ UNCHANGED <<status, comments, missed>>
        /\ notices' = notices \ NoticesOn(tasks[r].on)
    BY <1>8 DEF SweepNotices
  <2>2. \A p \in Articles : Clears(r, p, "notice") => Leftovers(p, "notice")' = {}
    BY <2>1 DEF Clears, NoticesOn, Leftovers
  <2>3. \A p \in Articles : Clears(r, p, "comment") =>
          /\ Swept(r, "notice").pc = "sweep" /\ Swept(r, "notice").on = p
          /\ "comment" \in Swept(r, "notice").todo
    BY Sweeping DEF Sweeps
  <2>4. \A n \in notices' : n \in notices
    BY <2>1
  <2> QED BY <1>2, <2>1, <2>2, <2>3, <2>4, Clearing DEF Remains, Sweeps
<1>9. CASE SweepComments(r)
  <2>1. /\ Becomes(r, Swept(r, "comment")) /\ UNCHANGED <<status, notices, missed>>
        /\ comments' = comments \ Gone(tasks[r].on)
    BY <1>9 DEF SweepComments
  <2>2. \A p \in Articles : Clears(r, p, "comment") => Leftovers(p, "comment")' = {}
    BY <2>1 DEF Clears, Gone, Leftovers
  <2>3. \A p \in Articles : Clears(r, p, "notice") =>
          /\ Swept(r, "comment").pc = "sweep" /\ Swept(r, "comment").on = p
          /\ "notice" \in Swept(r, "comment").todo
    BY Sweeping DEF Sweeps
  <2>4. \A y \in comments' : \E x \in comments : Descends(y, x)
    BY <1>9, Descent
  <2> QED BY <2>1, <2>2, <2>3, <2>4, Clearing DEF Remains, Sweeps
<1>10. CASE DraftArticles(r)
  <2>1. PICK q : Becomes(r, q)
    BY <1>10 DEF DraftArticles
  <2>2. UNCHANGED <<comments, notices, missed>> /\ \A p \in Articles : ~Remains(p)' => ~Remains(p)
    BY <1>10 DEF DraftArticles, Remains
  <2>3. \A p, sweep : ~Clears(r, p, sweep)
    BY <1>10 DEF DraftArticles, Clears, IsAt
  <2> QED BY <1>2, <2>1, <2>2, <2>3, Clearing
<1>11. CASE CrashTask(r)
  <2>1. Becomes(r, NoTask) /\ UNCHANGED <<status, comments, notices>> /\ missed \subseteq missed'
    BY <1>11 DEF CrashTask
  <2>2. \A p, sweep : Clears(r, p, sweep) => p \in missed'
    BY <1>11 DEF CrashTask, Clears
  <2> QED BY <1>2, <2>1, <2>2, Clearing DEF Remains
<1>12. CASE DeletePost(r)
  <2> DEFINE n == [tasks[r] EXCEPT !.pc = "sweep", !.todo = {"comment", "notice"}]
  <2>1. /\ IsAt(r, "removePost") /\ Becomes(r, n) /\ UNCHANGED <<comments, notices, missed>>
        /\ status' = [status EXCEPT ![tasks[r].on] = "gone"]
    BY <1>12 DEF DeletePost
  <2>2. n.pc = "sweep" /\ n.on = tasks[r].on /\ n.todo = Sweeps
    BY <1>0 DEF Task, Sweeps
  <2>3. tasks'[r] = n /\ \A x \in Visitors \ {r} : tasks'[x] = tasks[x]
    BY <2>1, Becoming
  <2> HIDE DEF n
  <2> SUFFICES ASSUME NEW p \in Articles, NEW sweep \in Sweeps, ~Remains(p)', p \notin missed'
               PROVE  \/ \E x \in Visitors : Clears(x, p, sweep)'
                      \/ Leftovers(p, sweep)' = {}
    BY DEF Cleared
  <2>5. CASE p = tasks[r].on
    BY <2>2, <2>3, <2>5 DEF Clears, IsAt
  <2>6. CASE p # tasks[r].on
    <3>1. ~Remains(p) /\ p \notin missed
      BY <1>0, <2>1, <2>6 DEF Remains
    <3>2. ASSUME NEW x \in Visitors, Clears(x, p, sweep) PROVE Clears(x, p, sweep)'
      <4>1. x # r
        BY <2>1, <3>2 DEF Clears, IsAt
      <4> QED BY <2>3, <3>2, <4>1 DEF Clears, IsAt
    <3>3. Leftovers(p, sweep)' = Leftovers(p, sweep)
      BY <2>1 DEF Leftovers
    <3> QED BY <3>1, <3>2, <3>3 DEF Cleared
  <2> QED BY <2>5, <2>6
<1> QED BY <1>3, <1>4, <1>5, <1>6, <1>7, <1>8, <1>9, <1>10, <1>11, <1>12 DEF Proceed

\* posts.service.ts:295: once its removal is over, no comment of a deleted post
\* is left, nor a notification about it, that was stored in time.
THEOREM RemovedCorrect == ThreadsSpec => []RemovedPostsLeaveNoThread
<1>1. ThreadsInit => Cleared
  BY DEF ThreadsInit, Cleared, Remains
<1>2. Typed /\ Cleared /\ [ThreadsNext]_threadsVars => Cleared'
  BY StepCleared
<1>3. Cleared => RemovedPostsLeaveNoThread
  <2> SUFFICES ASSUME Cleared, NEW p \in Articles, ~Remains(p), ~Removing(p), p \notin missed
               PROVE  /\ \A d \in comments : d.post = p => d.late
                      /\ \A d \in notices : d.on = p => d.late
    BY DEF RemovedPostsLeaveNoThread
  <2>1. Leftovers(p, "comment") = {} /\ Leftovers(p, "notice") = {}
    BY DEF Cleared, Clears, Removing, Sweeps
  <2> QED BY <2>1 DEF Leftovers
<1> QED BY <1>1, <1>2, <1>3, AlwaysTyped, PTL DEF ThreadsSpec

-----------------------------------------------------------------------------
(* What deleted accounts leave                                             *)

\* The deletion of u is past one of these calls.
Past(u, pcs) == u \notin members \/ \E r \in Visitors : tasks[r].user = u /\ tasks[r].pc \in pcs

Softens == {"draftPosts", "deleteUser"}

Silences == Softens \cup {"soften"}

Hushed == \A u \in People :
  /\ Past(u, Softens) => \A d \in comments : d.author = u => d.isDeleted \/ d.late
  /\ Past(u, Silences) => \A d \in notices : u \in {d.to, d.by} => d.late

\* r does not bring the deletion of u past pcs.
LEMMA NotPast ==
  ASSUME Typed, NEW r \in Visitors, NEW q, Becomes(r, q), NEW u, NEW pcs,
         u \in members /\ u \notin members' => Past(u, pcs),
         q.user = u /\ q.pc \in pcs => Past(u, pcs)
  PROVE  Past(u, pcs)' => Past(u, pcs)
<1>1. tasks'[r] = q /\ \A x \in Visitors \ {r} : tasks'[x] = tasks[x]
  BY Becoming
<1> SUFFICES ASSUME NEW x \in Visitors, tasks'[x].user = u, tasks'[x].pc \in pcs
             PROVE  Past(u, pcs)
  BY DEF Past
<1>2. CASE x = r
  BY <1>1, <1>2
<1>3. CASE x # r
  BY <1>1, <1>3 DEF Past
<1> QED BY <1>2, <1>3

\* A step that brings no deletion further, and neither a comment nor a
\* notification in time of an account under deletion.
LEMMA Hushing ==
  ASSUME Typed, Hushed,
         \A u \in People : /\ Past(u, Softens)' => Past(u, Softens)
                           /\ Past(u, Silences)' => Past(u, Silences),
         \A y \in comments' : \/ y.late \/ ~Past(y.author, Softens)
                              \/ \E x \in comments : Descends(y, x),
         \A y \in notices' : \/ y \in notices \/ y.late
                             \/ ~Past(y.to, Silences) /\ ~Past(y.by, Silences)
  PROVE  Hushed'
<1>1. ASSUME NEW u \in People, Past(u, Softens)', NEW y \in comments', y.author = u
      PROVE  y.isDeleted \/ y.late
  <2>1. Past(u, Softens)
    BY <1>1
  <2>2. CASE \E x \in comments : Descends(y, x)
    BY <1>1, <2>1, <2>2 DEF Hushed, Descends
  <2> QED BY <1>1, <2>1, <2>2
<1>2. ASSUME NEW u \in People, Past(u, Silences)', NEW y \in notices', u \in {y.to, y.by}
      PROVE  y.late
  <2>1. Past(u, Silences)
    BY <1>2
  <2> QED BY <1>2, <2>1 DEF Hushed
<1> QED BY <1>1, <1>2 DEF Hushed

\* Who is past a call of his deletion is being deleted.
LEMMA PastIsLeaving == ASSUME NEW u \in People, Past(u, Silences) PROVE Leaving(u)
BY DEF Past, Leaving, Silences, Softens

LEMMA SoftensSilences == ASSUME NEW u, Past(u, Softens) PROVE Past(u, Silences)
BY DEF Past, Silences

LEMMA StepHushed == Typed /\ Hushed /\ [ThreadsNext]_threadsVars => Hushed'
<1> SUFFICES ASSUME Typed, Hushed, [ThreadsNext]_threadsVars PROVE Hushed'
  OBVIOUS
<1>1. CASE UNCHANGED threadsVars
  BY <1>1 DEF threadsVars, Hushed, Past
<1> SUFFICES ASSUME NEW r \in Visitors, Start(r) \/ Proceed(r) \/ CrashTask(r) PROVE Hushed'
  BY <1>1 DEF ThreadsNext
<1>0. tasks[r] \in Task /\ Formed(tasks[r])
  BY Asking
<1>2. ASSUME UNCHANGED comments PROVE \A y \in comments' : \E x \in comments : Descends(y, x)
  BY <1>2, Descent
\* A step after which r is at none of the calls that follow.
<1>3. ASSUME NEW q, Becomes(r, q), q.pc \notin Silences, UNCHANGED members
      PROVE  \A u \in People : /\ Past(u, Softens)' => Past(u, Softens)
                               /\ Past(u, Silences)' => Past(u, Silences)
  <2>1. q.pc \notin Softens
    BY <1>3 DEF Silences
  <2> QED BY <1>3, <2>1, NotPast
<1>4. CASE Start(r)
  <2>1. \E q : Becomes(r, q) /\ q.pc \notin Silences
    <3>1. ASSUME NEW u \in People, CloseAccount(r, u) PROVE \E q : Becomes(r, q) /\ q.pc = "leave"
      <4> DEFINE n == [NoTask EXCEPT !.pc = "leave", !.user = u]
      <4>1. n.pc = "leave"
        BY DEF NoTask
      <4>2. Becomes(r, n)
        BY <3>1 DEF CloseAccount
      <4> HIDE DEF n
      <4> QED BY <4>1, <4>2
    <3>2. ASSUME NEW u \in People, NEW p \in Articles, RemovePost(r, u, p)
          PROVE  \E q : Becomes(r, q) /\ q.pc = "removePost"
      <4> DEFINE n == [NoTask EXCEPT !.pc = "removePost", !.on = p]
      <4>1. n.pc = "removePost"
        BY DEF NoTask
      <4>2. Becomes(r, n)
        BY <3>2 DEF RemovePost
      <4> HIDE DEF n
      <4> QED BY <4>1, <4>2
    <3>3. ASSUME NEW u \in People, NEW p \in Articles, NEW c \in Ids \cup {NoParent},
                 CreateComment(r, u, p, c)
          PROVE  \E q : Becomes(r, q) /\ q.pc \in {"insert", "parent"}
      <4> DEFINE n == [NoTask EXCEPT !.pc = IF c = NoParent THEN "insert" ELSE "parent",
                         !.user = u, !.on = p, !.parent = c,
                         !.to = IF c = NoParent /\ WriterOf[p] \in members
                                THEN WriterOf[p] ELSE NoOne]
      <4>1. n.pc \in {"insert", "parent"}
        BY DEF NoTask
      <4>2. Becomes(r, n)
        BY <3>3 DEF CreateComment
      <4> HIDE DEF n
      <4> QED BY <4>1, <4>2
    <3>4. ASSUME NEW u \in People, NEW c \in Ids, Edit(r, u, c)
          PROVE  \E q : Becomes(r, q) /\ q.pc = "edit"
      <4>0. PICK d \in Found(c) : Becomes(r, [NoTask EXCEPT !.pc = "edit", !.user = u, !.copy = {d}])
        BY <3>4 DEF Edit
      <4> DEFINE n == [NoTask EXCEPT !.pc = "edit", !.user = u, !.copy = {d}]
      <4>1. n.pc = "edit"
        BY DEF NoTask
      <4>2. Becomes(r, n)
        BY <4>0
      <4> HIDE DEF n
      <4> QED BY <4>1, <4>2
    <3>5. ASSUME NEW u \in People, NEW c \in Ids, RemoveComment(r, u, c)
          PROVE  \E q : Becomes(r, q) /\ q.pc = "replies"
      <4>0. PICK d \in Found(c) : Becomes(r, [NoTask EXCEPT !.pc = "replies", !.copy = {d}])
        BY <3>5 DEF RemoveComment
      <4> DEFINE n == [NoTask EXCEPT !.pc = "replies", !.copy = {d}]
      <4>1. n.pc = "replies"
        BY DEF NoTask
      <4>2. Becomes(r, n)
        BY <4>0
      <4> HIDE DEF n
      <4> QED BY <4>1, <4>2
    <3>6. \E q : /\ Becomes(r, q)
                 /\ q.pc \in {"leave", "removePost", "insert", "parent", "edit", "replies"}
      BY <1>4, <3>1, <3>2, <3>3, <3>4, <3>5 DEF Start
    <3> QED BY <3>6 DEF Silences, Softens
  <2>2. UNCHANGED <<members, comments, notices>>
    BY <1>4 DEF Start, CloseAccount, RemovePost, CreateComment, Edit, RemoveComment
  <2> QED BY <1>2, <1>3, <2>1, <2>2, Hushing
<1>5. CASE Parent(r) \/ LookForReplies(r) \/ DeletePost(r) \/ CrashTask(r)
  <2>1. \E q : Becomes(r, q) /\ q.pc \notin Silences
    <3>1. /\ \A t : [tasks[r] EXCEPT !.pc = "insert", !.to = t].pc = "insert"
          /\ \A d : [tasks[r] EXCEPT !.pc = Deletion(d)].pc \in {"soft", "hard"}
          /\ [tasks[r] EXCEPT !.pc = "sweep", !.todo = {"comment", "notice"}].pc = "sweep"
      BY <1>0 DEF Task, Deletion
    <3> QED BY <1>5, <3>1, IdleIsFormed DEF Parent, LookForReplies, DeletePost, CrashTask, Silences,
                                           Softens
  <2>2. UNCHANGED <<members, comments, notices>>
    BY <1>5 DEF Parent, LookForReplies, DeletePost, CrashTask
  <2> QED BY <1>2, <1>3, <2>1, <2>2, Hushing
<1>6. CASE EditSave(r) \/ SoftDelete(r) \/ HardDelete(r)
  <2>1. Becomes(r, NoTask) /\ UNCHANGED <<members, notices>>
    BY <1>6 DEF EditSave, SoftDelete, HardDelete
  <2>2. \A y \in comments' : \E x \in comments : Descends(y, x)
    BY <1>6, Descent
  <2>3. NoTask.pc \notin Silences
    BY IdleIsFormed DEF Silences, Softens
  <2> QED BY <1>3, <2>1, <2>2, <2>3, Hushing
<1>7. CASE SweepComments(r) \/ SweepNotices(r)
  <2>1. PICK c : Becomes(r, Swept(r, c)) /\ IsAt(r, "sweep")
    BY <1>7 DEF SweepComments, SweepNotices
  <2>2. UNCHANGED members /\ notices' \subseteq notices
    BY <1>7 DEF SweepComments, SweepNotices
  <2>3. \A y \in comments' : \E x \in comments : Descends(y, x)
    <3>1. UNCHANGED comments \/ SweepComments(r)
      BY <1>7 DEF SweepNotices
    <3> QED BY <3>1, Descent
  <2>4. Swept(r, c).pc \notin Silences
    BY <1>0, <2>1, IdleIsFormed DEF Swept, Task, IsAt, Silences, Softens
  <2> QED BY <1>3, <2>1, <2>2, <2>3, <2>4, Hushing
<1>8. CASE Insert(r)
  <2> DEFINE q == tasks[r]
             n == IF q.to \in {NoOne, q.user} THEN NoTask ELSE [q EXCEPT !.pc = "notify"]
             b == Leaving(q.user) \/ Leaving(q.on)
             new == [id |-> lastComment', author |-> q.user, post |-> q.on, parent |-> q.parent,
                     isDeleted |-> FALSE, body |-> "text", late |-> b]
  <2>1. /\ comments' = comments \cup {new} /\ UNCHANGED <<members, notices>>
        /\ Becomes(r, n) /\ IsAt(r, "insert")
    BY <1>8 DEF Insert
  <2>2. n.pc \notin Silences
    BY <1>0, IdleIsFormed DEF Task, Silences, Softens
  <2>3. q.user \in People
    BY <1>0, <2>1 DEF IsAt, Formed
  <2>4. Past(q.user, Softens) => b
    BY <2>3, PastIsLeaving, SoftensSilences
  <2> HIDE DEF b, q, n
  <2>5. new.author = q.user /\ (b => new.late)
    OBVIOUS
  <2> HIDE DEF new
  <2>6. ASSUME NEW y \in comments'
        PROVE  y.late \/ ~Past(y.author, Softens) \/ \E x \in comments : Descends(y, x)
    <3>1. CASE y \in comments
      BY <3>1 DEF Descends
    <3>2. CASE y = new
      BY <2>4, <2>5, <3>2
    <3> QED BY <2>1, <3>1, <3>2
  <2> QED BY <1>3, <2>1, <2>2, <2>6, Hushing
<1>9. CASE Notify(r)
  <2> DEFINE q == tasks[r]
             b == Leaving(q.to) \/ Leaving(q.user) \/ Leaving(q.on)
             new == [to |-> q.to, by |-> q.user, on |-> q.on, late |-> b]
  <2>1. /\ notices' = notices \cup {new} /\ UNCHANGED <<members, comments>>
        /\ Becomes(r, NoTask) /\ IsAt(r, "notify")
    BY <1>9 DEF Notify
  <2>2. NoTask.pc \notin Silences
    BY IdleIsFormed DEF Silences, Softens
  <2>3. q.user \in People /\ q.to \in People
    BY <1>0, <2>1 DEF IsAt, Formed
  <2>4. Past(q.user, Silences) \/ Past(q.to, Silences) => b
    BY <2>3, PastIsLeaving
  <2> HIDE DEF b, q
  <2>5. new.to = q.to /\ new.by = q.user /\ (b => new.late)
    OBVIOUS
  <2> HIDE DEF new
  <2>6. \A y \in notices' : \/ y \in notices \/ y.late
                            \/ ~Past(y.to, Silences) /\ ~Past(y.by, Silences)
    BY <2>1, <2>4, <2>5
  <2> QED BY <1>2, <1>3, <2>1, <2>2, <2>6, Hushing
<1>10. CASE DraftArticles(r) \/ EraseUser(r)
  <2>1. tasks[r].pc \in Softens /\ UNCHANGED <<comments, notices>>
    BY <1>10 DEF DraftArticles, EraseUser, IsAt, Softens
  <2>2. Past(tasks[r].user, Softens) /\ Past(tasks[r].user, Silences)
    BY <2>1 DEF Past, Silences
  <2>3. \E q : /\ Becomes(r, q)
               /\ q.user = tasks[r].user \/ q.pc \notin Silences
               /\ members \ {tasks[r].user} \subseteq members'
    <3>1. [tasks[r] EXCEPT !.pc = "deleteUser"].user = tasks[r].user
      BY <1>0 DEF Task
    <3> QED BY <1>10, <3>1, IdleIsFormed DEF DraftArticles, EraseUser, Silences, Softens
  <2>4. ASSUME NEW u \in People
        PROVE  /\ Past(u, Softens)' => Past(u, Softens)
               /\ Past(u, Silences)' => Past(u, Silences)
    <3>1. PICK q : /\ Becomes(r, q)
                   /\ q.user = tasks[r].user \/ q.pc \notin Silences
                   /\ members \ {tasks[r].user} \subseteq members'
      BY <2>3
    <3>2. q.pc \notin Silences => q.pc \notin Softens
      BY DEF Silences
    <3> QED BY <2>2, <3>1, <3>2, NotPast
  <2> QED BY <1>2, <2>1, <2>4, Hushing
<1>11. CASE DeleteNotices(r)
  <2> DEFINE n == [tasks[r] EXCEPT !.pc = "soften"]
  <2>1. PICK v : v = tasks[r].user
    OBVIOUS
  <2>2. Becomes(r, n) /\ UNCHANGED <<members, comments>> /\ notices' = notices \ NoticesOf(v)
    BY <1>11, <2>1 DEF DeleteNotices
  <2>3. n.pc = "soften" /\ n.user = v
    BY <1>0, <2>1 DEF Task
  <2> HIDE DEF n
  <2>4. \A u \in People : Past(u, Softens)' => Past(u, Softens)
    BY <2>2, <2>3, NotPast DEF Softens
  <2>5. \A u \in People \ {v} : Past(u, Silences)' => Past(u, Silences)
    BY <2>2, <2>3, NotPast
  <2>6. \A d \in notices' : d \in notices /\ v \notin {d.to, d.by}
    BY <2>2 DEF NoticesOf
  <2> QED BY <2>2, <2>4, <2>5, <2>6 DEF Hushed
<1>12. CASE SoftenComments(r)
  <2> DEFINE n == [tasks[r] EXCEPT !.pc = "draftPosts"]
  <2>1. PICK v : v = tasks[r].user
    OBVIOUS
  <2>2. Becomes(r, n) /\ UNCHANGED <<members, notices>> /\ comments' = Softened(v)
    BY <1>12, <2>1 DEF SoftenComments
  <2>3. n.pc = "draftPosts" /\ n.user = v
    BY <1>0, <2>1 DEF Task
  <2> HIDE DEF n
  <2>4. \A u \in People : Past(u, Silences)' => Past(u, Silences)
    <3>1. Past(v, Silences)
      BY <1>12, <2>1 DEF SoftenComments, IsAt, Past, Silences
    <3> QED BY <2>2, <2>3, <3>1, NotPast
  <2>5. \A u \in People \ {v} : Past(u, Softens)' => Past(u, Softens)
    BY <2>2, <2>3, NotPast
  <2>6. \A y \in comments' : \E x \in comments : Descends(y, x)
    BY <1>12, Descent
  <2>7. \A y \in comments' : y.author = v => y.isDeleted
    <3>1. \A x \in comments :
            [x EXCEPT !.isDeleted = TRUE, !.body = "[deleted account]"].isDeleted
      BY DEF Typed, ThreadsOK, Comment
    <3> QED BY <2>2, <3>1 DEF Softened
  <2>8. ASSUME NEW u \in People, Past(u, Softens)', NEW y \in comments', y.author = u
        PROVE  y.isDeleted \/ y.late
    <3>1. CASE u = v
      BY <2>7, <2>8, <3>1
    <3>2. CASE u # v
      BY <2>5, <2>6, <2>8, <3>2 DEF Hushed, Descends
    <3> QED BY <3>1, <3>2
  <2> QED BY <2>2, <2>4, <2>8 DEF Hushed
<1> QED BY <1>4, <1>5, <1>6, <1>7, <1>8, <1>9, <1>10, <1>11, <1>12 DEF Proceed

\* A deleted account leaves no comment unmarked and no notification that was
\* there in time.
THEOREM SilentCorrect == ThreadsSpec => []DeletedAccountsFallSilent
<1>1. ThreadsInit => Hushed
  BY DEF ThreadsInit, Hushed
<1>2. Typed /\ Hushed /\ [ThreadsNext]_threadsVars => Hushed'
  BY StepHushed
<1>3. Hushed => DeletedAccountsFallSilent
  <2> SUFFICES ASSUME Hushed, NEW u \in People \ members
               PROVE  /\ \A d \in comments : d.author = u => d.isDeleted \/ d.late
                      /\ \A d \in notices : u \in {d.to, d.by} => d.late
    BY DEF DeletedAccountsFallSilent
  <2>1. Past(u, Softens) /\ Past(u, Silences)
    BY DEF Past
  <2> QED BY <2>1 DEF Hushed
<1> QED BY <1>1, <1>2, <1>3, AlwaysTyped, PTL DEF ThreadsSpec

=============================================================================
