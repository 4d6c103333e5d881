--------------------------- MODULE EngagementProofs ---------------------------
(***************************************************************************)
(* What the two cascades of module Engagement leave behind, and what the   *)
(* cached counts say, whatever the number of posts, accounts and requests. *)
(***************************************************************************)
EXTENDS Engagement, FiniteSetTheorems, TLAPS

-----------------------------------------------------------------------------
(* Shapes                                                                  *)

\* What a request names, by the call it is about to make.
Formed(q) ==
  /\ q.pc \in {"check", "insert", "notify"} =>
       /\ q.user \in People
       /\ IF q.kind = "follow" THEN q.on \in People ELSE q.on \in Posts
  /\ q.pc \in {"leave", "draftPosts", "deleteUser"} => q.user \in People
  /\ q.pc \in {"removePost", "sweep"} => q.on \in Posts

\* As much of the type as the cascades rest on.  The bounds of bookmarksCount
\* are not part of it: they follow from counting.
Shaped ==
  /\ post \in [Posts -> [status : {"draft", "published", "gone"}, count : Int]]
  /\ rows \subseteq Row /\ notices \subseteq Notice
  /\ \A d \in rows : IF d.kind = "follow" THEN d.on \in People ELSE d.on \in Posts
  /\ tasks \in [Clients -> Task]
  /\ lastRow \in 0 .. MaxRows
  /\ \A r \in Clients : Formed(tasks[r])

LEMMA IdleIsFormed ==
  /\ NoTask \in Task /\ Formed(NoTask)
  /\ NoTask.pc = "idle" /\ NoTask.todo = {}
BY EngagementAssumption DEF NoTask, Task, Steps, RowKinds, Formed

\* The process that serves r changes r alone.
LEMMA Becoming ==
  ASSUME Shaped, NEW r \in Clients, NEW q, Becomes(r, q)
  PROVE  /\ tasks'[r] = q
         /\ \A x \in Clients \ {r} : tasks'[x] = tasks[x]
         /\ q \in Task => tasks' \in [Clients -> Task]
         /\ Formed(q) => \A x \in Clients : Formed(tasks'[x])
<1>1. tasks \in [Clients -> Task] /\ tasks' = [tasks EXCEPT ![r] = q]
  BY DEF Shaped, Becomes
<1>2. tasks'[r] = q /\ \A x \in Clients \ {r} : tasks'[x] = tasks[x]
  BY <1>1
<1>3. ASSUME Formed(q), NEW x \in Clients PROVE Formed(tasks'[x])
  <2>1. CASE x = r
    BY <1>2, <1>3, <2>1
  <2>2. CASE x # r
    <3>1. tasks'[x] = tasks[x] /\ Formed(tasks[x])
      BY <1>2, <2>2 DEF Shaped
    <3> QED BY <3>1
  <2> QED BY <2>1, <2>2
<1> QED BY <1>1, <1>2, <1>3

LEMMA Asking ==
  ASSUME Shaped, NEW r \in Clients
  PROVE  tasks[r] \in Task /\ Formed(tasks[r])
BY DEF Shaped

LEMMA InitShaped == EngagementInit => Shaped
<1> SUFFICES ASSUME EngagementInit PROVE Shaped
  OBVIOUS
<1>1. \A r \in Clients : tasks[r] = NoTask
  BY DEF EngagementInit
<1> QED BY <1>1, IdleIsFormed, EngagementAssumption DEF EngagementInit, Shaped

\* A step of r that ends with a well-formed q and keeps the collections.
LEMMA Keeping ==
  ASSUME Shaped, NEW r \in Clients, NEW q \in Task, Formed(q), Becomes(r, q),
         post' \in [Posts -> [status : {"draft", "published", "gone"}, count : Int]],
         lastRow' \in 0 .. MaxRows,
         rows' \subseteq Row, notices' \subseteq Notice,
         \A d \in rows' : IF d.kind = "follow" THEN d.on \in People ELSE d.on \in Posts
  PROVE  Shaped'
<1>1. tasks' \in [Clients -> Task] /\ \A x \in Clients : Formed(tasks'[x])
  BY Becoming
<1>2. \A x \in Clients : Formed(tasks[x])'
  BY <1>1 DEF Formed
<1> QED BY <1>1, <1>2 DEF Shaped

LEMMA CallShaped == ASSUME Shaped, NEW r \in Clients, Start(r) PROVE Shaped'
<1> USE DEF Shaped
<1>1. ASSUME NEW u \in People, DeleteAccount(r, u) PROVE Shaped'
  <2> DEFINE q == [NoTask EXCEPT !.pc = "leave", !.user = u,
                     !.todo = {"follow", "bookmark", "reaction", "notice"}]
  <2>1. q \in Task /\ Formed(q)
    <3>1. q \in Task
      BY IdleIsFormed DEF Task, Steps, RowKinds, Calls
    <3>2. Formed(q)
      BY IdleIsFormed DEF Task, Formed
    <3> QED BY <3>1, <3>2
  <2> QED BY <1>1, <2>1, Keeping DEF DeleteAccount
<1>2. ASSUME NEW u \in People, NEW v \in People, Follow(r, u, v) PROVE Shaped'
  <2> DEFINE q == [NoTask EXCEPT !.pc = "insert", !.kind = "follow", !.user = u, !.on = v]
  <2>1. q \in Task /\ Formed(q)
    <3>1. q \in Task
      BY IdleIsFormed DEF Task, Steps, RowKinds, Calls
    <3>2. Formed(q)
      BY IdleIsFormed DEF Task, Formed
    <3> QED BY <3>1, <3>2
  <2> QED BY <1>2, <2>1, Keeping DEF Follow
<1>3. ASSUME NEW u \in People, NEW p \in Posts, Remove(r, u, p) PROVE Shaped'
  <2> DEFINE q == [NoTask EXCEPT !.pc = "removePost", !.on = p]
  <2>1. q \in Task /\ Formed(q)
    <3>1. q \in Task
      BY IdleIsFormed DEF Task, Steps, RowKinds, Calls
    <3>2. Formed(q)
      BY IdleIsFormed DEF Task, Formed
    <3> QED BY <3>1, <3>2
  <2> QED BY <1>3, <2>1, Keeping DEF Remove
<1>4. ASSUME NEW u \in People, NEW p \in Posts, NEW k \in RowKinds, Toggle(r, k, u, p)
      PROVE  Shaped'
  <2>0. k \in {"bookmark", "reaction"} /\ UNCHANGED <<post, rows, notices, lastRow>>
    BY <1>4 DEF Toggle
  <2>1. CASE Stored(k, u, p) = {}
    <3> DEFINE q == [NoTask EXCEPT !.pc = "check", !.kind = k, !.user = u, !.on = p]
    <3>1. q \in Task /\ Formed(q)
      <4>1. q \in Task
        BY <2>0, IdleIsFormed DEF Task, Steps, RowKinds, Calls
      <4>2. Formed(q)
        BY <2>0, IdleIsFormed DEF Task, Formed
      <4> QED BY <4>1, <4>2
    <3>2. Becomes(r, q)
      BY <1>4, <2>1 DEF Toggle
    <3> QED BY <2>0, <3>1, <3>2, Keeping
  <2>2. CASE Stored(k, u, p) # {}
    <3>1. PICK d \in Stored(k, u, p) :
            Becomes(r, [NoTask EXCEPT !.pc = "off", !.kind = k, !.user = u, !.on = p, !.id = d.id,
                         !.todo = IF k = "bookmark" THEN {"row", "count"} ELSE {"row"}])
      BY <1>4, <2>2 DEF Toggle
    <3> DEFINE q == [NoTask EXCEPT !.pc = "off", !.kind = k, !.user = u, !.on = p, !.id = d.id,
                       !.todo = IF k = "bookmark" THEN {"row", "count"} ELSE {"row"}]
    <3>2. d.id \in 0 .. MaxRows
      BY EngagementAssumption DEF Stored, Row
    <3>3. q \in Task /\ Formed(q)
      <4>1. q \in Task
        BY <2>0, <3>2, IdleIsFormed DEF Task, Steps, RowKinds, Calls
      <4>2. Formed(q)
        BY <2>0, <3>2, IdleIsFormed DEF Task, Formed
      <4> QED BY <4>1, <4>2
    <3> QED BY <2>0, <3>1, <3>3, Keeping
  <2> QED BY <2>1, <2>2
<1> QED BY <1>1, <1>2, <1>3, <1>4 DEF Start

\* A request with one call of its Promise.all made.
LEMMA Making ==
  ASSUME NEW q \in Task, Formed(q), NEW call, NEW n \in Task, Formed(n)
  PROVE  Made(q, call, n) \in Task /\ Formed(Made(q, call, n))
<1>1. [q EXCEPT !.todo = q.todo \ {call}] \in Task
  BY DEF Task
<1>2. Formed([q EXCEPT !.todo = q.todo \ {call}])
  BY DEF Task, Formed
<1> QED BY <1>1, <1>2 DEF Made

\* $inc leaves the status alone.
LEMMA Counting ==
  ASSUME Shaped, NEW p, NEW n \in Int
  PROVE  /\ Counted(p, n) \in [Posts -> [status : {"draft", "published", "gone"}, count : Int]]
         /\ \A x \in Posts : Counted(p, n)[x].status = post[x].status
<1>1. post \in [Posts -> [status : {"draft", "published", "gone"}, count : Int]]
  BY DEF Shaped
<1>2. CASE p \in Posts
  <2>1. post[p].count + n \in Int
    BY <1>1, <1>2
  <2>2. /\ [post[p] EXCEPT !.count = post[p].count + n]
             \in [status : {"draft", "published", "gone"}, count : Int]
        /\ [post[p] EXCEPT !.count = post[p].count + n].status = post[p].status
    BY <1>1, <1>2, <2>1
  <2> QED BY <1>1, <1>2, <2>2 DEF Counted
<1>3. CASE p \notin Posts
  <2>1. [post EXCEPT ![p].count = @ + n] = post
    BY <1>1, <1>3
  <2> QED BY <1>1, <2>1 DEF Counted
<1> QED BY <1>2, <1>3

\* A row that is stored.
LEMMA Storing ==
  ASSUME Shaped, NEW r \in Clients, IsAt(r, "insert"), lastRow < MaxRows, NEW b \in BOOLEAN,
         NEW d, d = [kind |-> tasks[r].kind, by |-> tasks[r].user, on |-> tasks[r].on,
                     id |-> lastRow + 1, late |-> b]
  PROVE  /\ d \in Row /\ (IF d.kind = "follow" THEN d.on \in People ELSE d.on \in Posts)
         /\ lastRow + 1 \in 0 .. MaxRows
<1>1. lastRow + 1 \in 1 .. MaxRows /\ lastRow + 1 \in 0 .. MaxRows
  BY EngagementAssumption DEF Shaped
<1>2. /\ tasks[r].kind \in RowKinds /\ tasks[r].user \in People
      /\ IF tasks[r].kind = "follow" THEN tasks[r].on \in People ELSE tasks[r].on \in Posts
  BY Asking DEF Task, Formed, IsAt
<1> QED BY <1>1, <1>2 DEF Row

LEMMA ContinueShaped == ASSUME Shaped, NEW r \in Clients, Continue(r) \/ Crash(r) PROVE Shaped'
<1> DEFINE q == tasks[r]
<1>0. q \in Task /\ Formed(q)
  BY Asking
<1>1. CASE Check(r)
  <2>1. /\ [q EXCEPT !.pc = "insert"] \in Task
        /\ Formed([q EXCEPT !.pc = "insert"])
    BY <1>0, <1>1 DEF Check, IsAt, Task, Steps, Formed
  <2> QED BY <1>1, <2>1, IdleIsFormed, Keeping DEF Check, Shaped
<1>2. CASE Insert(r)
  <2>1. CASE Stored(q.kind, q.user, q.on) # {}
    BY <1>2, <2>1, IdleIsFormed, Keeping DEF Insert, Shaped
  <2>2. CASE Stored(q.kind, q.user, q.on) = {}
    <3> DEFINE b == Leaving(q.user) \/ Leaving(q.on)
               new == [kind |-> q.kind, by |-> q.user, on |-> q.on, id |-> lastRow + 1,
                       late |-> b]
    <3>1. /\ IsAt(r, "insert") /\ lastRow < MaxRows /\ lastRow' = lastRow + 1
          /\ rows' = rows \cup {new} /\ Becomes(r, AfterInsert(q)) /\ UNCHANGED <<post, notices>>
      BY <1>2, <2>2 DEF Insert
    <3>2. AfterInsert(q) \in Task /\ Formed(AfterInsert(q))
      BY <1>0, <3>1, IdleIsFormed DEF AfterInsert, IsAt, Task, Steps, Formed
    <3>3. b \in BOOLEAN
      OBVIOUS
    <3> HIDE DEF b
    <3>4. /\ new \in Row /\ (IF new.kind = "follow" THEN new.on \in People ELSE new.on \in Posts)
          /\ lastRow + 1 \in 0 .. MaxRows
      BY <3>1, <3>3, Storing
    <3> HIDE DEF new, q
    <3> QED BY <3>1, <3>2, <3>4, Keeping DEF Shaped
  <2> QED BY <2>1, <2>2
<1>3. CASE Count(r)
  <2>1. /\ post' = Counted(q.on, 1) /\ Becomes(r, NoTask)
        /\ UNCHANGED <<rows, notices, lastRow>>
    BY <1>3 DEF Count
  <2> HIDE DEF q
  <2>2. post' \in [Posts -> [status : {"draft", "published", "gone"}, count : Int]]
    BY <2>1, Counting
  <2> QED BY <2>1, <2>2, IdleIsFormed, Keeping DEF Shaped
<1>4. CASE DropRow(r)
  <2>1. Made(q, "row", NoTask) \in Task /\ Formed(Made(q, "row", NoTask))
    BY <1>0, IdleIsFormed, Making
  <2>2. /\ rows' \subseteq rows /\ Becomes(r, Made(q, "row", NoTask))
        /\ UNCHANGED <<post, notices, lastRow>>
    BY <1>4 DEF DropRow
  <2> QED BY <2>1, <2>2, Keeping DEF Shaped
<1>5. CASE DropCount(r)
  <2>1. Made(q, "count", NoTask) \in Task /\ Formed(Made(q, "count", NoTask))
    BY <1>0, IdleIsFormed, Making
  <2>2. /\ post' = Counted(q.on, -1) /\ Becomes(r, Made(q, "count", NoTask))
        /\ UNCHANGED <<rows, notices, lastRow>>
    BY <1>5 DEF DropCount
  <2> HIDE DEF q
  <2>3. post' \in [Posts -> [status : {"draft", "published", "gone"}, count : Int]]
    BY <2>2, Counting
  <2> QED BY <2>1, <2>2, <2>3, Keeping DEF Shaped
<1>6. CASE Notify(r)
  <2>1. ASSUME NEW v \in People, NEW u \in People, NEW p \in Posts \cup {NoPerson}
        PROVE  NoticeOf(v, u, p) \in Notice
    <3>1. (Leaving(v) \/ Leaving(u) \/ Leaving(p)) \in BOOLEAN
      OBVIOUS
    <3> QED BY <3>1 DEF NoticeOf, Notice
  <2>2. q.user \in People /\ IF q.kind = "follow" THEN q.on \in People ELSE q.on \in Posts
    BY <1>0, <1>6 DEF Notify, IsAt, Formed
  <2>3. q.kind # "follow" => AuthorOf[q.on] \in People
    BY <2>2, EngagementAssumption
  <2>4. (IF q.kind = "follow" THEN NoticeOf(q.on, q.user, NoPerson)
         ELSE NoticeOf(AuthorOf[q.on], q.user, q.on)) \in Notice
    BY <2>1, <2>2, <2>3
  <2>5. notices' \subseteq Notice
    BY <1>6, <2>4 DEF Notify, Shaped
  <2> QED BY <1>6, <2>5, IdleIsFormed, Keeping DEF Notify, Shaped
<1>7. CASE RemovePost(r)
  <2>1. /\ [q EXCEPT !.pc = "sweep", !.todo = Cascade] \in Task
        /\ Formed([q EXCEPT !.pc = "sweep", !.todo = Cascade])
    BY <1>0, <1>7 DEF RemovePost, IsAt, Task, Steps, Formed, Cascade, Calls, RowKinds
  <2>2. q.on \in Posts /\ post' = [post EXCEPT ![q.on].status = "gone"]
    BY <1>0, <1>7 DEF RemovePost, IsAt, Formed
  <2>3. post' \in [Posts -> [status : {"draft", "published", "gone"}, count : Int]]
    BY <2>2 DEF Shaped
  <2> QED BY <1>7, <2>1, <2>3, Keeping DEF RemovePost, Shaped
<1>8. ASSUME NEW k \in Calls, Sweep(r, k) PROVE Shaped'
  <2> DEFINE n == IF q.pc = "sweep" THEN NoTask ELSE [q EXCEPT !.pc = "draftPosts", !.todo = {}]
  <2>1. n \in Task /\ Formed(n)
    BY <1>0, <1>8, IdleIsFormed DEF Sweep, Task, Steps, Formed
  <2>2. /\ rows' \subseteq rows /\ notices' \subseteq notices /\ Becomes(r, Made(q, k, n))
        /\ UNCHANGED <<post, lastRow>>
    BY <1>8 DEF Sweep
  <2> HIDE DEF n
  <2>3. Made(q, k, n) \in Task /\ Formed(Made(q, k, n))
    BY <1>0, <2>1, Making
  <2> QED BY <2>2, <2>3, Keeping DEF Shaped
<1>9. CASE DraftPosts(r)
  <2>1. [q EXCEPT !.pc = "deleteUser"] \in Task /\ Formed([q EXCEPT !.pc = "deleteUser"])
    BY <1>0, <1>9 DEF DraftPosts, IsAt, Task, Steps, Formed
  <2>2. post' \in [Posts -> [status : {"draft", "published", "gone"}, count : Int]]
    BY <1>9 DEF DraftPosts, Shaped
  <2> QED BY <1>9, <2>1, <2>2, Keeping DEF DraftPosts, Shaped
<1>10. CASE DeleteUser(r)
  BY <1>10, IdleIsFormed, Keeping DEF DeleteUser, Shaped
<1>11. CASE Crash(r)
  BY <1>11, IdleIsFormed, Keeping DEF Crash, Shaped
<1> QED BY <1>1, <1>2, <1>3, <1>4, <1>5, <1>6, <1>7, <1>8, <1>9, <1>10, <1>11 DEF Continue

LEMMA StepShaped == Shaped /\ [EngagementNext]_engagementVars => Shaped'
<1> SUFFICES ASSUME Shaped, [EngagementNext]_engagementVars PROVE Shaped'
  OBVIOUS
<1>1. CASE UNCHANGED engagementVars
  BY <1>1 DEF engagementVars, Shaped, Formed
<1>2. ASSUME NEW r \in Clients, Start(r) \/ Continue(r) \/ Crash(r) PROVE Shaped'
  BY <1>2, CallShaped, ContinueShaped
<1>3. ASSUME NEW u \in People, NEW v \in People, Unfollow(u, v) PROVE Shaped'
  BY <1>3 DEF Unfollow, Shaped, Formed
<1> QED BY <1>1, <1>2, <1>3 DEF EngagementNext

THEOREM AlwaysShaped == EngagementSpec => []Shaped
<1>1. EngagementInit => Shaped
  BY InitShaped
<1>2. Shaped /\ [EngagementNext]_engagementVars => Shaped'
  BY StepShaped
<1> QED BY <1>1, <1>2, PTL DEF EngagementSpec

-----------------------------------------------------------------------------
(* What a step stores                                                      *)

\* A step stores nothing unmarked that names a post that is gone or a user
\* who is leaving.
Timely ==
  /\ \A y \in rows' : y \in rows \/ y.late \/ \A x \in {y.by, y.on} : ~Leaving(x)
  /\ \A y \in notices' : y \in notices \/ y.late \/ \A x \in {y.by, y.to, y.on} : ~Leaving(x)

LEMMA Timeliness == ASSUME Shaped, [EngagementNext]_engagementVars PROVE Timely
<1>1. CASE rows' \subseteq rows /\ notices' \subseteq notices
  BY <1>1 DEF Timely
<1>2. ASSUME NEW r \in Clients, Insert(r) PROVE Timely
  <2> DEFINE q == tasks[r]
  <2>1. CASE Stored(q.kind, q.user, q.on) # {}
    BY <1>1, <1>2, <2>1 DEF Insert
  <2>2. CASE Stored(q.kind, q.user, q.on) = {}
    <3> DEFINE b == Leaving(q.user) \/ Leaving(q.on)
               new == [kind |-> q.kind, by |-> q.user, on |-> q.on, id |-> lastRow', late |-> b]
    <3>1. rows' = rows \cup {new} /\ UNCHANGED notices
      BY <1>2, <2>2 DEF Insert
    <3>2. ~b => ~Leaving(q.user) /\ ~Leaving(q.on)
      OBVIOUS
    <3> HIDE DEF b, q
    <3>3. new.by = q.user /\ new.on = q.on /\ (b => new.late)
      OBVIOUS
    <3> HIDE DEF new
    <3> QED BY <3>1, <3>2, <3>3 DEF Timely
  <2> QED BY <2>1, <2>2
<1>3. ASSUME NEW r \in Clients, Notify(r) PROVE Timely
  <2> DEFINE q == tasks[r]
  <2>1. ASSUME NEW v, NEW u, NEW p, notices' = notices \cup {NoticeOf(v, u, p)}, UNCHANGED rows
        PROVE  Timely
    <3> DEFINE b == Leaving(v) \/ Leaving(u) \/ Leaving(p)
               new == [to |-> v, by |-> u, on |-> p, late |-> b]
    <3>1. notices' = notices \cup {new}
      BY <2>1 DEF NoticeOf
    <3>2. ~b => ~Leaving(v) /\ ~Leaving(u) /\ ~Leaving(p)
      OBVIOUS
    <3> HIDE DEF b
    <3>3. new.to = v /\ new.by = u /\ new.on = p /\ (b => new.late)
      OBVIOUS
    <3> HIDE DEF new
    <3> QED BY <2>1, <3>1, <3>2, <3>3 DEF Timely
  <2>2. \/ notices' = notices \cup {NoticeOf(q.on, q.user, NoPerson)}
        \/ notices' = notices \cup {NoticeOf(AuthorOf[q.on], q.user, q.on)}
    BY <1>3 DEF Notify
  <2>3. UNCHANGED rows
    BY <1>3 DEF Notify
  <2> QED BY <2>1, <2>2, <2>3
<1>4. ASSUME NEW r \in Clients, Start(r) \/ Continue(r) \/ Crash(r), ~Insert(r), ~Notify(r)
      PROVE  rows' \subseteq rows /\ notices' \subseteq notices
  <2>1. CASE Start(r)
    BY <2>1 DEF Start, DeleteAccount, Follow, Toggle, Remove
  <2>2. CASE Check(r) \/ Count(r) \/ DropCount(r) \/ RemovePost(r) \/ DraftPosts(r)
             \/ DeleteUser(r) \/ Crash(r)
    BY <2>2 DEF Check, Count, DropCount, RemovePost, DraftPosts, DeleteUser, Crash
  <2>3. CASE DropRow(r) \/ \E k \in Calls : Sweep(r, k)
    BY <2>3 DEF DropRow, Sweep
  <2> QED BY <1>4, <2>1, <2>2, <2>3 DEF Continue
<1>5. ASSUME NEW u \in People, NEW v \in People, Unfollow(u, v) PROVE Timely
  BY <1>1, <1>5 DEF Unfollow
<1> QED BY <1>1, <1>2, <1>3, <1>4, <1>5 DEF EngagementNext, engagementVars

-----------------------------------------------------------------------------
(* Removed posts                                                           *)

\* r has yet to delete what is of kind k on p.
Clears(r, p, k) == IsAt(r, "sweep") /\ tasks[r].on = p /\ k \in tasks[r].todo

On(p, k) == IF k = "notice" THEN {d \in notices : d.on = p}
            ELSE {d \in rows : d.kind = k /\ d.on = p}

Cleared == \A p \in Posts, k \in Cascade : ~Exists(p) /\ p \notin lost =>
  \/ \E r \in Clients : Clears(r, p, k)
  \/ \A d \in On(p, k) : d.late

\* A step of r that deletes no post and drops no call of a cascade unless it is
\* done or lost.
LEMMA Clearing ==
  ASSUME Shaped, Cleared, Timely, NEW r \in Clients, NEW q, Becomes(r, q),
         \A p \in Posts : ~Exists(p)' => ~Exists(p),
         lost \subseteq lost',
         \A p \in Posts, k \in Cascade : Clears(r, p, k) =>
           \/ q.pc = "sweep" /\ q.on = p /\ k \in q.todo
           \/ p \in lost'
           \/ \A d \in On(p, k)' : d.late
  PROVE  Cleared'
<1> SUFFICES ASSUME NEW p \in Posts, NEW k \in Cascade, ~Exists(p)', p \notin lost'
             PROVE  \/ \E x \in Clients : Clears(x, p, k)'
                    \/ \A d \in On(p, k)' : d.late
  BY DEF Cleared, Cascade
<1>1. ~Exists(p) /\ p \notin lost
  OBVIOUS
<1>2. ASSUME NEW x \in Clients, Clears(x, p, k), x # r PROVE Clears(x, p, k)'
  <2>1. tasks'[x] = tasks[x]
    BY <1>2, Becoming
  <2> QED BY <1>2, <2>1 DEF Clears, IsAt
<1>3. CASE Clears(r, p, k)
  <2>1. tasks'[r] = q
    BY Becoming
  <2> QED BY <1>3, <2>1 DEF Clears, IsAt
<1>4. CASE \A d \in On(p, k) : d.late
  <2>1. Leaving(p)
    BY <1>1 DEF Leaving
  <2>2. ASSUME NEW y \in On(p, k)' PROVE y.late
    <3>1. CASE k = "notice"
      <4>1. y \in notices' /\ y.on = p
        BY <2>2, <3>1 DEF On
      <4>2. y \in notices \/ y.late
        BY <2>1, <4>1 DEF Timely
      <4> QED BY <1>4, <3>1, <4>1, <4>2 DEF On
    <3>2. CASE k # "notice"
      <4>1. y \in rows' /\ y.on = p /\ y.kind = k
        BY <2>2, <3>2 DEF On
      <4>2. y \in rows \/ y.late
        BY <2>1, <4>1 DEF Timely
      <4> QED BY <1>4, <3>2, <4>1, <4>2 DEF On
    <3> QED BY <3>1, <3>2
  <2> QED BY <2>2
<1> QED BY <1>1, <1>2, <1>3, <1>4 DEF Cleared

LEMMA StepCleared == Shaped /\ Cleared /\ [EngagementNext]_engagementVars => Cleared'
<1> SUFFICES ASSUME Shaped, Cleared, [EngagementNext]_engagementVars PROVE Cleared'
  OBVIOUS
<1>0. Timely
  BY Timeliness
<1>1. CASE UNCHANGED engagementVars
  BY <1>1 DEF engagementVars, Cleared, Clears, On, IsAt, Exists, Cascade
<1>2. ASSUME NEW u \in People, NEW v \in People, Unfollow(u, v) PROVE Cleared'
  <2>1. rows' \subseteq rows /\ UNCHANGED <<post, notices, tasks, lost>>
    BY <1>2 DEF Unfollow
  <2>2. \A p, k : On(p, k)' \subseteq On(p, k) /\ (Exists(p)' <=> Exists(p))
    BY <2>1 DEF On, Exists
  <2>3. \A r \in Clients : \A p, k : Clears(r, p, k)' <=> Clears(r, p, k)
    BY <2>1 DEF Clears, IsAt
  <2> QED BY <2>1, <2>2, <2>3 DEF Cleared, Cascade
<1> SUFFICES ASSUME NEW r \in Clients, Start(r) \/ Continue(r) \/ Crash(r) PROVE Cleared'
  BY <1>1, <1>2 DEF EngagementNext
<1>3. tasks[r] \in Task /\ Formed(tasks[r])
  BY Asking
<1>4. CASE Start(r)
  <2>1. PICK q : Becomes(r, q)
    BY <1>4 DEF Start, DeleteAccount, Follow, Toggle, Remove
  <2>2. IsAt(r, "idle") /\ UNCHANGED <<post, lost>>
    BY <1>4 DEF Start, DeleteAccount, Follow, Toggle, Remove, Caller
  <2>3. \A p \in Posts, k \in Cascade : ~Clears(r, p, k)
    BY <2>2 DEF Clears, IsAt
  <2> QED BY <1>0, <2>1, <2>2, <2>3, Clearing DEF Exists
<1>5. CASE Check(r) \/ Insert(r) \/ DropRow(r) \/ Notify(r) \/ DeleteUser(r)
  <2>1. PICK q : Becomes(r, q)
    BY <1>5 DEF Check, Insert, DropRow, Notify, DeleteUser
  <2>2. ~IsAt(r, "sweep") /\ UNCHANGED <<post, lost>>
    BY <1>5 DEF Check, Insert, DropRow, Notify, DeleteUser, IsAt
  <2>3. \A p \in Posts, k \in Cascade : ~Clears(r, p, k)
    BY <2>2 DEF Clears
  <2> QED BY <1>0, <2>1, <2>2, <2>3, Clearing DEF Exists
<1>6. CASE Count(r) \/ DropCount(r)
  <2>1. PICK q : Becomes(r, q)
    BY <1>6 DEF Count, DropCount
  <2>2. /\ ~IsAt(r, "sweep") /\ UNCHANGED lost
        /\ post' = Counted(tasks[r].on, 1) \/ post' = Counted(tasks[r].on, -1)
    BY <1>6 DEF Count, DropCount, IsAt
  <2>3. \A p \in Posts, k \in Cascade : ~Clears(r, p, k)
    BY <2>2 DEF Clears
  <2>4. \A p \in Posts : ~Exists(p)' => ~Exists(p)
    BY <2>2, Counting DEF Exists
  <2> QED BY <1>0, <2>1, <2>2, <2>3, <2>4, Clearing
<1>7. CASE DraftPosts(r)
  <2>1. PICK q : Becomes(r, q)
    BY <1>7 DEF DraftPosts
  <2>2. \A p \in Posts : ~Exists(p)' => ~Exists(p)
    BY <1>7 DEF DraftPosts, Exists, Shaped
  <2>3. UNCHANGED lost /\ \A p \in Posts, k \in Cascade : ~Clears(r, p, k)
    BY <1>7 DEF DraftPosts, Clears, IsAt
  <2> QED BY <1>0, <2>1, <2>2, <2>3, Clearing
<1>8. CASE Crash(r)
  <2>1. Becomes(r, NoTask) /\ UNCHANGED post /\ lost \subseteq lost'
    BY <1>8 DEF Crash
  <2>2. \A p \in Posts, k \in Cascade : Clears(r, p, k) => p \in lost'
    BY <1>8 DEF Crash, Clears
  <2> QED BY <1>0, <2>1, <2>2, Clearing DEF Exists
<1>9. ASSUME NEW k \in Calls, Sweep(r, k) PROVE Cleared'
  <2> DEFINE n == IF tasks[r].pc = "sweep" THEN NoTask
                  ELSE [tasks[r] EXCEPT !.pc = "draftPosts", !.todo = {}]
  <2>1. /\ Becomes(r, Made(tasks[r], k, n)) /\ UNCHANGED <<post, lost>>
        /\ rows' = {d \in rows : ~(d.kind = k /\ Names(tasks[r], d))}
        /\ notices' = IF k = "notice" THEN {d \in notices : ~NamesNotice(tasks[r], d)} ELSE notices
    BY <1>9 DEF Sweep
  <2> HIDE DEF n
  <2>2. ASSUME NEW p \in Posts, NEW j \in Cascade, Clears(r, p, j)
        PROVE  LET q == Made(tasks[r], k, n)
               IN  \/ q.pc = "sweep" /\ q.on = p /\ j \in q.todo
                   \/ \A d \in On(p, j)' : d.late
    <3>1. CASE j = k
      <4>1. \A d : d.on = p => Names(tasks[r], d) /\ NamesNotice(tasks[r], d)
        BY <2>2 DEF Clears, IsAt, Names, NamesNotice
      <4>2. On(p, j)' = {}
        BY <2>1, <3>1, <4>1 DEF On
      <4> QED BY <4>2
    <3>2. CASE j # k
      <4>1. j \in tasks[r].todo \ {k}
        BY <2>2, <3>2 DEF Clears
      <4>2. Made(tasks[r], k, n) = [tasks[r] EXCEPT !.todo = tasks[r].todo \ {k}]
        BY <4>1 DEF Made
      <4> QED BY <1>3, <2>2, <4>1, <4>2 DEF Task, Clears, IsAt
    <3> QED BY <3>1, <3>2
  <2> QED BY <1>0, <2>1, <2>2, Clearing DEF Exists
<1>10. CASE RemovePost(r)
  <2> DEFINE n == [tasks[r] EXCEPT !.pc = "sweep", !.todo = Cascade]
  <2>1. /\ IsAt(r, "removePost") /\ Becomes(r, n) /\ UNCHANGED <<rows, notices, lost>>
        /\ post' = [post EXCEPT ![tasks[r].on].status = "gone"]
    BY <1>10 DEF RemovePost
  <2>2. n.pc = "sweep" /\ n.on = tasks[r].on /\ n.todo = Cascade
    BY <1>3 DEF Task
  <2>3. tasks'[r] = n /\ \A x \in Clients \ {r} : tasks'[x] = tasks[x]
    BY <2>1, Becoming
  <2> HIDE DEF n
  <2> SUFFICES ASSUME NEW p \in Posts, NEW k \in Cascade, ~Exists(p)', p \notin lost'
               PROVE  \/ \E x \in Clients : Clears(x, p, k)'
                      \/ \A d \in On(p, k)' : d.late
    BY DEF Cleared, Cascade
  <2>4. CASE p = tasks[r].on
    BY <2>2, <2>3, <2>4 DEF Clears, IsAt
  <2>5. CASE p # tasks[r].on
    <3>1. ~Exists(p) /\ p \notin lost
      BY <2>1, <2>5 DEF Exists, Shaped
    <3>2. ASSUME NEW x \in Clients, Clears(x, p, k) PROVE Clears(x, p, k)'
      <4>1. x # r
        BY <2>1, <3>2 DEF Clears, IsAt
      <4> QED BY <2>3, <3>2, <4>1 DEF Clears, IsAt
    <3>3. On(p, k)' = On(p, k)
      BY <2>1 DEF On
    <3> QED BY <3>1, <3>2, <3>3 DEF Cleared
  <2> QED BY <2>4, <2>5
<1> QED BY <1>4, <1>5, <1>6, <1>7, <1>8, <1>9, <1>10 DEF Continue

\* Once its removal is over, nothing that was there in time points at a deleted
\* post.
THEOREM RemovedCorrect == EngagementSpec => []RemovedPostsLeaveNothing
<1>1. EngagementInit => Cleared
  BY DEF EngagementInit, Cleared, Exists
<1>2. Shaped /\ Cleared /\ [EngagementNext]_engagementVars => Cleared'
  BY StepCleared
<1>3. Shaped /\ Cleared => RemovedPostsLeaveNothing
  <2> SUFFICES ASSUME Shaped, Cleared, NEW p \in Posts, ~Exists(p), ~Removing(p), p \notin lost,
                      NEW d \in rows \cup notices, d.on = p
               PROVE  d.late
    BY DEF RemovedPostsLeaveNothing
  <2>1. \A k \in Cascade : \A e \in On(p, k) : e.late
    BY DEF Cleared, Clears, Removing
  <2>2. CASE d \in notices
    BY <2>1, <2>2 DEF On, Cascade
  <2>3. CASE d \in rows
    <3>1. d.kind \in {"bookmark", "reaction"}
      BY <2>3, EngagementAssumption DEF Shaped, Row, RowKinds
    <3> QED BY <2>1, <2>3, <3>1 DEF On, Cascade
  <2> QED BY <2>2, <2>3
<1> QED BY <1>1, <1>2, <1>3, AlwaysShaped, PTL DEF EngagementSpec

-----------------------------------------------------------------------------
(* Deleted accounts                                                        *)

\* What the deletion of an account clears.
Cleaned == {"follow", "bookmark", "reaction", "notice"}

\* r has deleted what is of kind k and names u.
Clean(r, u, k) == /\ tasks[r].user = u
                  /\ \/ tasks[r].pc \in {"draftPosts", "deleteUser"}
                     \/ tasks[r].pc = "leave" /\ k \notin tasks[r].todo

\* The deletion of u has come past what is of kind k.
Past(u, k) == u \notin accounts \/ \E r \in Clients : Clean(r, u, k)

Naming(u, k) == IF k = "notice" THEN {d \in notices : u \in {d.by, d.to}}
                ELSE {d \in rows : d.kind = k /\ u \in {d.by, d.on}}

Hushed == \A u \in People, k \in Cleaned : Past(u, k) => \A d \in Naming(u, k) : d.late

LEMMA PastIsLeaving == ASSUME NEW u \in People, NEW k, Past(u, k) PROVE Leaving(u)
BY DEF Past, Clean, Leaving

\* A step that brings the deletion of an account past k only if nothing is left
\* of k.
LEMMA Hushing ==
  ASSUME Shaped, Hushed, Timely,
         \A u \in People, k \in Cleaned : Past(u, k)' => Past(u, k) \/ Naming(u, k)' = {}
  PROVE  Hushed'
<1> SUFFICES ASSUME NEW u \in People, NEW k \in Cleaned, Past(u, k)', NEW y \in Naming(u, k)'
             PROVE  y.late
  BY DEF Hushed, Cleaned
<1>1. Past(u, k) /\ Leaving(u)
  BY PastIsLeaving
<1>2. CASE k = "notice"
  <2>1. y \in notices' /\ u \in {y.by, y.to}
    BY <1>2 DEF Naming
  <2>2. y \in notices \/ y.late
    BY <1>1, <2>1 DEF Timely
  <2> QED BY <1>1, <1>2, <2>1, <2>2 DEF Hushed, Naming
<1>3. CASE k # "notice"
  <2>1. y \in rows' /\ y.kind = k /\ u \in {y.by, y.on}
    BY <1>3 DEF Naming
  <2>2. y \in rows \/ y.late
    BY <1>1, <2>1 DEF Timely
  <2> QED BY <1>1, <1>3, <2>1, <2>2 DEF Hushed, Naming
<1> QED BY <1>2, <1>3

\* A step of r that deletes no account, and after which r is not clean of what
\* it was not.
LEMMA NotPast ==
  ASSUME Shaped, NEW r \in Clients, NEW q, Becomes(r, q), NEW u, NEW k,
         u \in accounts /\ u \notin accounts' => Past(u, k),
         /\ q.user = u
         /\ q.pc \in {"draftPosts", "deleteUser"} \/ (q.pc = "leave" /\ k \notin q.todo)
         => Past(u, k)
  PROVE  Past(u, k)' => Past(u, k)
<1>1. tasks'[r] = q /\ \A x \in Clients \ {r} : tasks'[x] = tasks[x]
  BY Becoming
<1> SUFFICES ASSUME NEW x \in Clients, Clean(x, u, k)' PROVE Past(u, k)
  BY DEF Past
<1>2. CASE x = r
  <2>1. tasks'[x] = q
    BY <1>1, <1>2
  <2>2. /\ q.user = u
        /\ q.pc \in {"draftPosts", "deleteUser"} \/ (q.pc = "leave" /\ k \notin q.todo)
    BY <2>1 DEF Clean
  <2> QED BY <2>2
<1>3. CASE x # r
  <2>1. Clean(x, u, k)
    BY <1>1, <1>3 DEF Clean
  <2> QED BY <2>1 DEF Past
<1> QED BY <1>2, <1>3

LEMMA StepHushed == Shaped /\ Hushed /\ [EngagementNext]_engagementVars => Hushed'
<1> SUFFICES ASSUME Shaped, Hushed, [EngagementNext]_engagementVars PROVE Hushed'
  OBVIOUS
<1>0. Timely
  BY Timeliness
<1>1. ASSUME UNCHANGED <<accounts, tasks>> PROVE Hushed'
  <2>1. \A u \in People, k \in Cleaned : Past(u, k)' => Past(u, k)
    BY <1>1 DEF Past, Clean
  <2> QED BY <1>0, <2>1, Hushing
<1> SUFFICES ASSUME NEW r \in Clients, Start(r) \/ Continue(r) \/ Crash(r) PROVE Hushed'
  BY <1>1 DEF EngagementNext, engagementVars, Unfollow
<1>2. tasks[r] \in Task /\ Formed(tasks[r])
  BY Asking
\* A step after which r deletes no account.
<1>3. ASSUME NEW q, Becomes(r, q), q.pc \notin {"leave", "draftPosts", "deleteUser"},
             UNCHANGED accounts
      PROVE  Hushed'
  <2>1. \A u \in People, k \in Cleaned : Past(u, k)' => Past(u, k)
    BY <1>3, NotPast
  <2> QED BY <1>0, <2>1, Hushing
<1>4. ASSUME NEW u \in People, DeleteAccount(r, u) PROVE Hushed'
  <2> DEFINE n == [NoTask EXCEPT !.pc = "leave", !.user = u,
                     !.todo = {"follow", "bookmark", "reaction", "notice"}]
  <2>1. Becomes(r, n) /\ UNCHANGED accounts
    BY <1>4 DEF DeleteAccount
  <2>2. n.pc = "leave" /\ n.todo = Cleaned
    BY IdleIsFormed DEF Task, Cleaned
  <2> HIDE DEF n
  <2>3. \A v \in People, k \in Cleaned : Past(v, k)' => Past(v, k)
    BY <2>1, <2>2, NotPast
  <2> QED BY <1>0, <2>3, Hushing
<1>5. ASSUME NEW u \in People, NEW v \in People, Follow(r, u, v) PROVE Hushed'
  <2>1. [NoTask EXCEPT !.pc = "insert", !.kind = "follow", !.user = u, !.on = v].pc = "insert"
    BY IdleIsFormed DEF Task
  <2> QED BY <1>3, <1>5, <2>1 DEF Follow
<1>6. ASSUME NEW u \in People, NEW p \in Posts, Remove(r, u, p) PROVE Hushed'
  <2>1. [NoTask EXCEPT !.pc = "removePost", !.on = p].pc = "removePost"
    BY IdleIsFormed DEF Task
  <2> QED BY <1>3, <1>6, <2>1 DEF Remove
<1>7. ASSUME NEW u \in People, NEW p \in Posts, NEW k \in RowKinds, Toggle(r, k, u, p)
      PROVE  Hushed'
  <2>1. CASE Stored(k, u, p) = {}
    <3>1. [NoTask EXCEPT !.pc = "check", !.kind = k, !.user = u, !.on = p].pc = "check"
      BY IdleIsFormed DEF Task
    <3> QED BY <1>3, <1>7, <2>1, <3>1 DEF Toggle
  <2>2. CASE Stored(k, u, p) # {}
    <3>1. PICK d \in Stored(k, u, p) :
            Becomes(r, [NoTask EXCEPT !.pc = "off", !.kind = k, !.user = u, !.on = p, !.id = d.id,
                         !.todo = IF k = "bookmark" THEN {"row", "count"} ELSE {"row"}])
      BY <1>7, <2>2 DEF Toggle
    <3> DEFINE n == [NoTask EXCEPT !.pc = "off", !.kind = k, !.user = u, !.on = p, !.id = d.id,
                       !.todo = IF k = "bookmark" THEN {"row", "count"} ELSE {"row"}]
    <3>2. n.pc = "off"
      BY IdleIsFormed DEF Task
    <3>3. Becomes(r, n) /\ UNCHANGED accounts
      BY <1>7, <3>1 DEF Toggle
    <3> HIDE DEF n
    <3> QED BY <1>3, <3>2, <3>3
  <2> QED BY <2>1, <2>2
<1>8. CASE Check(r) \/ Insert(r) \/ RemovePost(r)
  <2>1. \E q : Becomes(r, q) /\ q.pc \notin {"leave", "draftPosts", "deleteUser"}
    <3>1. /\ [tasks[r] EXCEPT !.pc = "insert"].pc = "insert"
          /\ [tasks[r] EXCEPT !.pc = "sweep", !.todo = Cascade].pc = "sweep"
      BY <1>2 DEF Task
    <3>2. AfterInsert(tasks[r]).pc \in {"idle", "count", "notify"}
      BY <1>2, IdleIsFormed DEF AfterInsert, Task
    <3> QED BY <1>8, <3>1, <3>2, IdleIsFormed DEF Check, Insert, RemovePost
  <2>2. UNCHANGED accounts
    BY <1>8 DEF Check, Insert, RemovePost
  <2> QED BY <1>3, <2>1, <2>2
<1>9. CASE Count(r) \/ Notify(r) \/ Crash(r)
  BY <1>3, <1>9, IdleIsFormed DEF Count, Notify, Crash
<1>10. CASE DropRow(r) \/ DropCount(r)
  <2>1. ASSUME NEW c, IsAt(r, "off") PROVE Made(tasks[r], c, NoTask).pc \in {"idle", "off"}
    BY <1>2, <2>1, IdleIsFormed DEF Made, Task, IsAt
  <2> QED BY <1>3, <1>10, <2>1 DEF DropRow, DropCount
<1>11. ASSUME NEW c \in Calls, Sweep(r, c) PROVE Hushed'
  <2> DEFINE n == IF tasks[r].pc = "sweep" THEN NoTask
                  ELSE [tasks[r] EXCEPT !.pc = "draftPosts", !.todo = {}]
  <2>1. PICK q, v : q = Made(tasks[r], c, n) /\ v = tasks[r].user
    OBVIOUS
  <2>2. /\ Becomes(r, q) /\ UNCHANGED accounts /\ tasks[r].pc \in {"sweep", "leave"}
        /\ rows' = {d \in rows : ~(d.kind = c /\ Names(tasks[r], d))}
        /\ notices' = IF c = "notice" THEN {d \in notices : ~NamesNotice(tasks[r], d)} ELSE notices
    BY <1>11, <2>1 DEF Sweep
  <2>3. /\ n.pc = "sweep" \/ n.pc \in {"idle", "draftPosts"}
        /\ tasks[r].pc = "sweep" => n.pc = "idle"
        /\ tasks[r].pc = "leave" => n.pc = "draftPosts" /\ n.user = v
    BY <1>2, <2>1, IdleIsFormed DEF Task
  <2> HIDE DEF n
  <2>4. \/ q = n /\ tasks[r].todo \ {c} = {}
        \/ q = [tasks[r] EXCEPT !.todo = tasks[r].todo \ {c}]
    BY <2>1 DEF Made
  <2>5. CASE tasks[r].pc = "sweep"
    <3>1. q.pc \in {"idle", "sweep"}
      BY <1>2, <2>3, <2>4, <2>5 DEF Task
    <3> QED BY <1>3, <2>2, <3>1
  <2>6. CASE tasks[r].pc = "leave"
    <3>1. ASSUME NEW k \in Cleaned, k # c,
                 q.pc \in {"draftPosts", "deleteUser"} \/ (q.pc = "leave" /\ k \notin q.todo)
          PROVE  Clean(r, v, k)
      <4>1. k \notin tasks[r].todo
        BY <1>2, <2>3, <2>4, <2>6, <3>1 DEF Task
      <4> QED BY <2>1, <2>6, <4>1 DEF Clean
    <3>2. q.user = v
      BY <1>2, <2>1, <2>3, <2>4, <2>6 DEF Task
    <3>3. Naming(v, c)' = {}
      BY <2>1, <2>2, <2>6 DEF Naming, Names, NamesNotice
    <3>4. ASSUME NEW u \in People, NEW k \in Cleaned, u # v \/ k # c
          PROVE  Past(u, k)' => Past(u, k)
      <4>1. CASE u # v
        BY <2>2, <3>2, <4>1, NotPast
      <4>2. CASE u = v /\ k # c
        <5>1. q.pc \in {"draftPosts", "deleteUser"} \/ (q.pc = "leave" /\ k \notin q.todo)
              => Past(u, k)
          BY <3>1, <4>2 DEF Past
        <5> QED BY <2>2, <5>1, NotPast
      <4> QED BY <3>4, <4>1, <4>2
    <3> QED BY <1>0, <3>3, <3>4, Hushing
  <2> QED BY <2>2, <2>5, <2>6
<1>12. CASE DraftPosts(r) \/ DeleteUser(r)
  <2>1. tasks[r].pc \in {"draftPosts", "deleteUser"}
    BY <1>12 DEF DraftPosts, DeleteUser, IsAt
  <2>2. \A k : Past(tasks[r].user, k)
    BY <2>1 DEF Past, Clean
  <2>3. \E q : /\ Becomes(r, q)
               /\ q.user = tasks[r].user \/ q.pc = "idle"
               /\ accounts \ {tasks[r].user} \subseteq accounts'
    <3>1. [tasks[r] EXCEPT !.pc = "deleteUser"].user = tasks[r].user
      BY <1>2 DEF Task
    <3> QED BY <1>12, <3>1, IdleIsFormed DEF DraftPosts, DeleteUser
  <2>4. \A u \in People, k \in Cleaned : Past(u, k)' => Past(u, k)
    <3>1. PICK q : /\ Becomes(r, q)
                   /\ q.user = tasks[r].user \/ q.pc = "idle"
                   /\ accounts \ {tasks[r].user} \subseteq accounts'
      BY <2>3
    <3> QED BY <2>2, <3>1, NotPast
  <2> QED BY <1>0, <2>4, Hushing
<1> QED BY <1>4, <1>5, <1>6, <1>7, <1>8, <1>9, <1>10, <1>11, <1>12 DEF Start, Continue

\* A deleted account leaves no row and no notification that was there in time.
THEOREM DeletedCorrect == EngagementSpec => []DeletedAccountsLeaveNothing
<1>1. EngagementInit => Hushed
  BY DEF EngagementInit, Hushed, Naming
<1>2. Shaped /\ Hushed /\ [EngagementNext]_engagementVars => Hushed'
  BY StepHushed
<1>3. Shaped /\ Hushed => DeletedAccountsLeaveNothing
  <2> SUFFICES ASSUME Shaped, Hushed, NEW u \in People \ accounts
               PROVE  /\ \A d \in rows : u \in {d.by, d.on} => d.late
                      /\ \A d \in notices : u \in {d.by, d.to} => d.late
    BY DEF DeletedAccountsLeaveNothing
  <2>1. \A k \in Cleaned : \A d \in Naming(u, k) : d.late
    BY DEF Hushed, Past
  <2>2. \A d \in rows : d.kind \in {"bookmark", "reaction", "follow"}
    BY DEF Shaped, Row, RowKinds
  <2> QED BY <2>1, <2>2 DEF Naming, Cleaned
<1> QED BY <1>1, <1>2, <1>3, AlwaysShaped, PTL DEF EngagementSpec

-----------------------------------------------------------------------------
(* Counting                                                                *)

\* What request q adds to Uncounted(p), and to HalfOff(p, call).
Due(q, p) == IF q.pc = "count" /\ q.on = p THEN 1 ELSE 0

Half(q, p, call) ==
  IF q.pc = "off" /\ q.kind = "bookmark" /\ q.on = p /\ q.todo = {call} THEN 1 ELSE 0

\* What is to be added to bookmarksCount on its account.
Weight(q, p) == Due(q, p) + Half(q, p, "row") - Half(q, p, "count")

\* Rows are finitely many, and an _id is given once.
RowsNumbered ==
  /\ IsFiniteSet(rows)
  /\ \A d \in rows : d.id <= lastRow
  /\ \A d, e \in rows : d.id = e.id => d = e

\* A request that takes a row back takes back that row or none.
Aimed(q) ==
  /\ q.pc = "count" => q.on \in Posts
  /\ q.pc = "off" =>
       /\ q.on \in Posts /\ q.id <= lastRow
       /\ q.todo \in IF q.kind = "bookmark" THEN {{"row"}, {"count"}, {"row", "count"}}
                     ELSE {{"row"}}
       /\ \A d \in rows : d.id = q.id => d.kind = q.kind /\ d.on = q.on

Balanced(p) ==
  post[p].count + Cardinality(Uncounted(p)) + Cardinality(HalfOff(p, "row")) =
    Cardinality(Bookmarks(p)) + Cardinality(HalfOff(p, "count"))

BusyFinite(p) == /\ IsFiniteSet(Uncounted(p))
                 /\ IsFiniteSet(HalfOff(p, "row")) /\ IsFiniteSet(HalfOff(p, "count"))

Bounded(p) == /\ -MaxDebt <= post[p].count
              /\ post[p].count + Cardinality(Uncounted(p)) <= lastRow

CountInv ==
  /\ RowsNumbered
  /\ \A r \in Clients : Aimed(tasks[r])
  /\ \A p \in Posts : BusyFinite(p) /\ Bounded(p)
  /\ \A p \in Posts \ drifted : Exists(p) => Balanced(p)
  /\ accounts \subseteq People /\ drifted \subseteq Posts /\ lost \subseteq Posts

\* Sets that differ in r at most.
LEMMA Moving ==
  ASSUME NEW S, NEW T, NEW r, IsFiniteSet(S), T \ {r} = S \ {r}
  PROVE  /\ IsFiniteSet(T) /\ Cardinality(S) \in Nat /\ Cardinality(T) \in Nat
         /\ Cardinality(T) - (IF r \in T THEN 1 ELSE 0) =
              Cardinality(S) - (IF r \in S THEN 1 ELSE 0)
<1>1. IsFiniteSet(S \ {r}) /\ Cardinality(S \ {r}) =
          IF r \in S THEN Cardinality(S) - 1 ELSE Cardinality(S)
  BY FS_RemoveElement
<1>2. T = T \ {r} \/ T = (T \ {r}) \cup {r}
  OBVIOUS
<1>3. IsFiniteSet(T)
  BY <1>1, <1>2, FS_AddElement
<1>4. Cardinality(T \ {r}) =
          IF r \in T THEN Cardinality(T) - 1 ELSE Cardinality(T)
  BY <1>3, FS_RemoveElement
<1>5. Cardinality(S) \in Nat /\ Cardinality(T) \in Nat
  BY <1>3, FS_CardinalityType
<1> QED BY <1>1, <1>3, <1>4, <1>5

\* What a step of r does to the numbers of post p.
LEMMA Balancing ==
  ASSUME Shaped, NEW r \in Clients, NEW q, Becomes(r, q), NEW p \in Posts, BusyFinite(p)
  PROVE  /\ BusyFinite(p)'
         /\ Cardinality(Uncounted(p)) \in Nat /\ Cardinality(Uncounted(p)') \in Nat
         /\ Cardinality(HalfOff(p, "row")) \in Nat /\ Cardinality(HalfOff(p, "row")') \in Nat
         /\ Cardinality(HalfOff(p, "count")) \in Nat
         /\ Cardinality(HalfOff(p, "count")') \in Nat
         /\ Cardinality(Uncounted(p)') = Cardinality(Uncounted(p)) + Due(q, p) - Due(tasks[r], p)
         /\ Cardinality(HalfOff(p, "row")') =
              Cardinality(HalfOff(p, "row")) + Half(q, p, "row") - Half(tasks[r], p, "row")
         /\ Cardinality(HalfOff(p, "count")') =
              Cardinality(HalfOff(p, "count")) + Half(q, p, "count") - Half(tasks[r], p, "count")
<1>1. tasks'[r] = q /\ \A x \in Clients \ {r} : tasks'[x] = tasks[x]
  BY Becoming
<1>2. /\ IsFiniteSet(Uncounted(p)') /\ Cardinality(Uncounted(p)) \in Nat
      /\ Cardinality(Uncounted(p)') \in Nat
      /\ Cardinality(Uncounted(p)') = Cardinality(Uncounted(p)) + Due(q, p) - Due(tasks[r], p)
  <2>1. Uncounted(p)' \ {r} = Uncounted(p) \ {r}
    BY <1>1 DEF Uncounted, IsAt
  <2>2. /\ Due(q, p) = IF r \in Uncounted(p)' THEN 1 ELSE 0
        /\ Due(tasks[r], p) = IF r \in Uncounted(p) THEN 1 ELSE 0
    BY <1>1 DEF Uncounted, IsAt, Due
  <2> QED BY <2>1, <2>2, Moving DEF BusyFinite
<1>3. ASSUME NEW c \in {"row", "count"}
      PROVE  /\ IsFiniteSet(HalfOff(p, c)') /\ Cardinality(HalfOff(p, c)) \in Nat
             /\ Cardinality(HalfOff(p, c)') \in Nat
             /\ Cardinality(HalfOff(p, c)') =
                  Cardinality(HalfOff(p, c)) + Half(q, p, c) - Half(tasks[r], p, c)
  <2>1. HalfOff(p, c)' \ {r} = HalfOff(p, c) \ {r}
    BY <1>1 DEF HalfOff, IsAt
  <2>2. /\ Half(q, p, c) = IF r \in HalfOff(p, c)' THEN 1 ELSE 0
        /\ Half(tasks[r], p, c) = IF r \in HalfOff(p, c) THEN 1 ELSE 0
    BY <1>1 DEF HalfOff, IsAt, Half
  <2>3. IsFiniteSet(HalfOff(p, c))
    BY DEF BusyFinite
  <2> QED BY <2>1, <2>2, <2>3, Moving
<1> QED BY <1>2, <1>3 DEF BusyFinite

\* A step of r keeps the count if it moves count, bookmarks and request
\* together.
LEMMA Agreeing ==
  ASSUME Shaped, CountInv, Shaped', NEW r \in Clients, NEW q, Becomes(r, q),
         RowsNumbered', lastRow <= lastRow', \A x \in Clients : Aimed(tasks[x])',
         accounts' \subseteq accounts, drifted \subseteq drifted', lost \subseteq lost',
         drifted' \subseteq Posts, lost' \subseteq Posts,
         \A p \in Posts :
           /\ -MaxDebt <= post'[p].count
           /\ post'[p].count + Due(q, p) - lastRow' <= post[p].count + Due(tasks[r], p) - lastRow,
         \A p \in Posts \ drifted' : Exists(p)' =>
           /\ Exists(p)
           /\ post'[p].count + Weight(q, p) - Cardinality(Bookmarks(p)') =
                post[p].count + Weight(tasks[r], p) - Cardinality(Bookmarks(p))
  PROVE  CountInv'
<1>1. ASSUME NEW p \in Posts
      PROVE  /\ post[p].count \in Int /\ post'[p].count \in Int
             /\ Due(q, p) \in Nat /\ Due(tasks[r], p) \in Nat
             /\ \A c : Half(q, p, c) \in Nat /\ Half(tasks[r], p, c) \in Nat
             /\ Cardinality(Bookmarks(p)) \in Nat /\ Cardinality(Bookmarks(p)') \in Nat
  <2>1. Bookmarks(p) \subseteq rows /\ Bookmarks(p)' \subseteq rows'
    BY DEF Bookmarks
  <2>2. IsFiniteSet(rows) /\ IsFiniteSet(rows')
    BY DEF CountInv, RowsNumbered
  <2> QED BY <2>1, <2>2, FS_Subset, FS_CardinalityType DEF Shaped, Due, Half
<1>2. lastRow \in Nat /\ lastRow' \in Nat
  BY DEF Shaped
<1>3. ASSUME NEW p \in Posts PROVE BusyFinite(p)' /\ Bounded(p)'
  <2>1. BusyFinite(p) /\ Bounded(p)
    BY DEF CountInv
  <2>2. post'[p].count + Cardinality(Uncounted(p)') <= lastRow'
    BY <1>1, <1>2, <2>1, Balancing DEF Bounded
  <2> QED BY <2>1, <2>2, Balancing DEF Bounded
<1>4. ASSUME NEW p \in Posts \ drifted', Exists(p)' PROVE Balanced(p)'
  <2>1. BusyFinite(p) /\ Balanced(p)
    BY <1>4 DEF CountInv
  <2>2. post'[p].count + Weight(q, p) - Cardinality(Bookmarks(p)') =
          post[p].count + Weight(tasks[r], p) - Cardinality(Bookmarks(p))
    BY <1>4
  <2> QED BY <1>1, <2>1, <2>2, Balancing DEF Balanced, Weight
<1> QED BY <1>3, <1>4 DEF CountInv

\* A step that stores no row leaves every request aimed.
LEMMA Aiming ==
  ASSUME Shaped, CountInv, NEW r \in Clients, NEW q, Becomes(r, q), Aimed(q),
         rows' \subseteq rows, lastRow' = lastRow
  PROVE  RowsNumbered' /\ \A x \in Clients : Aimed(tasks[x])'
<1>1. RowsNumbered'
  BY FS_Subset DEF CountInv, RowsNumbered
<1>2. ASSUME NEW x \in Clients PROVE Aimed(tasks[x])'
  <2>1. Aimed(tasks'[x])
    <3>1. CASE x = r
      BY <3>1, Becoming
    <3>2. CASE x # r
      <4>1. tasks'[x] = tasks[x] /\ Aimed(tasks[x])
        BY <3>2, Becoming DEF CountInv
      <4> QED BY <4>1
    <3> QED BY <3>1, <3>2
  <2> QED BY <2>1 DEF Aimed
<1> QED BY <1>1, <1>2

\* A step that moves neither counts nor bookmarks, nor what is due to them.
LEMMA Quiet ==
  ASSUME Shaped, CountInv, Shaped', NEW r \in Clients, NEW q, Becomes(r, q), Aimed(q),
         rows' \subseteq rows, lastRow' = lastRow, accounts' \subseteq accounts,
         drifted \subseteq drifted', lost \subseteq lost',
         drifted' \subseteq Posts, lost' \subseteq Posts,
         \A p \in Posts : /\ post'[p].count = post[p].count /\ (Exists(p)' => Exists(p))
                          /\ Due(q, p) <= Due(tasks[r], p),
         \A p \in Posts \ drifted' : /\ Bookmarks(p)' = Bookmarks(p)
                                     /\ Weight(q, p) = Weight(tasks[r], p)
  PROVE  CountInv'
<1>1. RowsNumbered' /\ \A x \in Clients : Aimed(tasks[x])'
  BY Aiming
<1>2. lastRow \in Nat
  BY DEF Shaped
<1>3. ASSUME NEW p \in Posts
      PROVE  /\ -MaxDebt <= post'[p].count
             /\ post'[p].count + Due(q, p) - lastRow' <= post[p].count + Due(tasks[r], p) - lastRow
  <2>1. -MaxDebt <= post[p].count /\ post[p].count \in Int
    BY DEF CountInv, Bounded, Shaped
  <2>2. Due(q, p) \in Nat /\ Due(tasks[r], p) \in Nat
    BY DEF Due
  <2> QED BY <1>2, <2>1, <2>2
<1>4. ASSUME NEW p \in Posts \ drifted', Exists(p)'
      PROVE  /\ Exists(p)
             /\ post'[p].count + Weight(q, p) - Cardinality(Bookmarks(p)') =
                  post[p].count + Weight(tasks[r], p) - Cardinality(Bookmarks(p))
  BY <1>4
<1> QED BY <1>1, <1>2, <1>3, <1>4, Agreeing

LEMMA IdleAimed ==
  /\ Aimed(NoTask)
  /\ \A p : Due(NoTask, p) = 0 /\ Weight(NoTask, p) = 0
  /\ \A q, p : q.pc \notin {"count", "off"} => Aimed(q) /\ Due(q, p) = 0 /\ Weight(q, p) = 0
BY DEF Aimed, NoTask, Due, Half, Weight

\* From a request that owes no post anything to another, only cascades touched.
LEMMA Unowing ==
  ASSUME Shaped, CountInv, Shaped', NEW r \in Clients, NEW q, Becomes(r, q),
         q.pc \notin {"count", "off"}, tasks[r].pc \notin {"count", "off"},
         UNCHANGED <<rows, lastRow, drifted, lost>>, accounts' \subseteq accounts,
         \A p \in Posts : post'[p].count = post[p].count /\ (Exists(p)' => Exists(p))
  PROVE  CountInv'
<1>1. /\ Aimed(q)
      /\ \A p \in Posts : /\ Due(q, p) = 0 /\ Due(tasks[r], p) = 0
                          /\ Weight(q, p) = 0 /\ Weight(tasks[r], p) = 0
  BY IdleAimed
<1>2. \A p \in Posts : Bookmarks(p)' = Bookmarks(p)
  BY DEF Bookmarks
<1>3. drifted \subseteq Posts /\ lost \subseteq Posts
  BY DEF CountInv
<1> QED BY <1>1, <1>2, <1>3, Quiet

LEMMA CountAtCalls ==
  ASSUME Shaped, CountInv, Shaped', NEW r \in Clients, Start(r)
  PROVE  CountInv'
<1>1. tasks[r].pc = "idle" /\ UNCHANGED <<post, rows, lastRow, drifted, lost, accounts>>
  BY DEF Start, DeleteAccount, Follow, Toggle, Remove, Caller, IsAt
<1>2. \A p \in Posts : post'[p].count = post[p].count /\ (Exists(p)' => Exists(p))
  BY <1>1 DEF Exists
<1>3. ASSUME NEW q, Becomes(r, q), q.pc \notin {"count", "off"} PROVE CountInv'
  BY <1>1, <1>2, <1>3, Unowing
<1>4. ASSUME NEW u \in People, NEW v \in People, Follow(r, u, v) PROVE CountInv'
  BY <1>3, <1>4 DEF Follow, NoTask
<1>5. ASSUME NEW u \in People, DeleteAccount(r, u) PROVE CountInv'
  BY <1>3, <1>5 DEF DeleteAccount, NoTask
<1>6. ASSUME NEW u \in People, NEW p \in Posts, Remove(r, u, p) PROVE CountInv'
  BY <1>3, <1>6 DEF Remove, NoTask
<1>7. ASSUME NEW u \in People, NEW p \in Posts, NEW k \in RowKinds, Toggle(r, k, u, p)
      PROVE  CountInv'
  <2>1. CASE Stored(k, u, p) = {}
    BY <1>3, <1>7, <2>1 DEF Toggle, NoTask
  <2>2. CASE Stored(k, u, p) # {}
    <3>1. PICK d \in Stored(k, u, p) :
            Becomes(r, [NoTask EXCEPT !.pc = "off", !.kind = k, !.user = u, !.on = p, !.id = d.id,
                         !.todo = IF k = "bookmark" THEN {"row", "count"} ELSE {"row"}])
      BY <1>7, <2>2 DEF Toggle
    <3> DEFINE q == [NoTask EXCEPT !.pc = "off", !.kind = k, !.user = u, !.on = p, !.id = d.id,
                       !.todo = IF k = "bookmark" THEN {"row", "count"} ELSE {"row"}]
    <3>2. /\ q.pc = "off" /\ q.kind = k /\ q.on = p /\ q.id = d.id
          /\ q.todo = IF k = "bookmark" THEN {"row", "count"} ELSE {"row"}
      BY DEF NoTask
    <3>3. d \in rows /\ d.kind = k /\ d.on = p
      BY DEF Stored
    <3>4. Becomes(r, q)
      BY <3>1
    <3> HIDE DEF q
    <3>5. Aimed(q)
      BY <3>2, <3>3 DEF Aimed, CountInv, RowsNumbered
    <3>6. ASSUME NEW x \in Posts
          PROVE  /\ Due(q, x) = 0 /\ Due(tasks[r], x) = 0
                 /\ Weight(q, x) = 0 /\ Weight(tasks[r], x) = 0
      <4>1. {"row", "count"} # {"row"} /\ {"row", "count"} # {"count"}
        OBVIOUS
      <4> QED BY <1>1, <3>2, <4>1, IdleAimed DEF Due, Half, Weight
    <3>7. \A x \in Posts : Bookmarks(x)' = Bookmarks(x)
      BY <1>1 DEF Bookmarks
    <3>8. drifted \subseteq Posts /\ lost \subseteq Posts
      BY DEF CountInv
    <3> QED BY <1>1, <1>2, <3>4, <3>5, <3>6, <3>7, <3>8, Quiet
  <2> QED BY <2>1, <2>2
<1> QED BY <1>4, <1>5, <1>6, <1>7 DEF Start

\* A row is stored.
LEMMA CountAtInsert ==
  ASSUME Shaped, CountInv, Shaped', NEW r \in Clients, Insert(r)
  PROVE  CountInv'
<1> DEFINE q == tasks[r]
<1>1. /\ q.pc = "insert" /\ UNCHANGED <<post, accounts, drifted, lost>>
      /\ q \in Task /\ Formed(q)
  BY Asking DEF Insert, IsAt
<1>2. CASE Becomes(r, NoTask) /\ UNCHANGED <<rows, lastRow>>
  <2>1. \A p \in Posts : post'[p].count = post[p].count /\ (Exists(p)' => Exists(p))
    BY <1>1 DEF Exists
  <2> QED BY <1>1, <1>2, <2>1, IdleIsFormed, Unowing
<1>3. ASSUME NEW d, d.kind = q.kind, d.on = q.on, d.id = lastRow + 1,
             rows' = rows \cup {d}, lastRow' = lastRow + 1, Becomes(r, AfterInsert(q))
      PROVE  CountInv'
  <2> DEFINE n == AfterInsert(q)
  <2>1. lastRow \in Nat
    BY DEF Shaped
  <2>2. q.kind \in RowKinds /\ q.on \in Posts \cup People
    BY <1>1 DEF Task, Formed
  <2>3. /\ n.pc \in {"count", "idle", "notify"}
        /\ n.pc = "count" <=> q.kind = "bookmark"
        /\ n.pc = "count" => n.on = q.on /\ q.on \in Posts
    BY <1>1, <2>2, IdleIsFormed DEF AfterInsert, Task, Formed, RowKinds
  <2>4. Becomes(r, n)
    BY <1>3
  <2> HIDE DEF n, q
  <2>5. Aimed(n)
    BY <2>3 DEF Aimed
  <2>6. ASSUME NEW p \in Posts
        PROVE  /\ Due(q, p) = 0 /\ Weight(q, p) = 0 /\ Weight(n, p) = Due(n, p)
               /\ Due(n, p) = IF q.kind = "bookmark" /\ q.on = p THEN 1 ELSE 0
    BY <1>1, <2>3 DEF Due, Half, Weight
  <2>7. d \notin rows /\ \A e \in rows : e.id # lastRow + 1 /\ e.id \in Nat
    BY <1>3, <2>1 DEF CountInv, RowsNumbered, Shaped, Row
  <2>8. RowsNumbered'
    <3>1. IsFiniteSet(rows')
      BY <1>3, FS_AddElement DEF CountInv, RowsNumbered
    <3>2. \A e \in rows' : e.id <= lastRow'
      BY <1>3, <2>1, <2>7 DEF CountInv, RowsNumbered
    <3>3. \A e, f \in rows' : e.id = f.id => e = f
      BY <1>3, <2>7 DEF CountInv, RowsNumbered
    <3> QED BY <3>1, <3>2, <3>3 DEF RowsNumbered
  <2>9. ASSUME NEW x \in Clients PROVE Aimed(tasks[x])'
    <3>1. CASE x = r
      <4>1. tasks'[x] = n
        BY <2>4, <3>1, Becoming
      <4> QED BY <2>3, <4>1 DEF Aimed
    <3>2. CASE x # r
      <4>1. tasks'[x] = tasks[x] /\ Aimed(tasks[x]) /\ tasks[x].id \in Nat
        BY <2>4, <3>2, Becoming DEF CountInv, Shaped, Task
      <4> HIDE DEF CountInv
      <4>2. tasks[x].pc = "off" => /\ tasks[x].id <= lastRow' /\ tasks[x].id # lastRow + 1
                                   /\ \A e \in rows' : e.id = tasks[x].id => e \in rows
        BY <1>3, <2>1, <4>1 DEF Aimed
      <4> QED BY <4>1, <4>2 DEF Aimed
    <3> QED BY <3>1, <3>2
  <2>10. ASSUME NEW p \in Posts
         PROVE  /\ Cardinality(Bookmarks(p)) \in Nat
                /\ Cardinality(Bookmarks(p)') = Cardinality(Bookmarks(p)) + Due(n, p)
    <3>1. IsFiniteSet(Bookmarks(p))
      <4>1. Bookmarks(p) \subseteq rows
        BY DEF Bookmarks
      <4> QED BY <4>1, FS_Subset DEF CountInv, RowsNumbered
    <3>2. Bookmarks(p)' = IF q.kind = "bookmark" /\ q.on = p THEN Bookmarks(p) \cup {d}
                          ELSE Bookmarks(p)
      BY <1>3 DEF Bookmarks, q
    <3>3. d \notin Bookmarks(p)
      BY <2>7 DEF Bookmarks
    <3> QED BY <2>6, <3>1, <3>2, <3>3, FS_AddElement, FS_CardinalityType
  <2>11. ASSUME NEW p \in Posts
         PROVE  /\ -MaxDebt <= post'[p].count
                /\ post'[p].count + Due(n, p) - lastRow' <= post[p].count + Due(q, p) - lastRow
    <3>1. -MaxDebt <= post[p].count /\ post[p].count \in Int /\ post'[p].count = post[p].count
      BY <1>1 DEF CountInv, Bounded, Shaped
    <3> QED BY <1>3, <2>1, <2>6, <3>1
  <2>12. ASSUME NEW p \in Posts \ drifted', Exists(p)'
         PROVE  /\ Exists(p)
                /\ post'[p].count + Weight(n, p) - Cardinality(Bookmarks(p)') =
                     post[p].count + Weight(q, p) - Cardinality(Bookmarks(p))
    <3>1. post[p].count \in Int /\ post'[p].count = post[p].count /\ Due(n, p) \in Nat
      BY <1>1, <2>6 DEF Shaped
    <3> QED BY <1>1, <2>6, <2>10, <2>12, <3>1 DEF Exists
  <2>13. lastRow <= lastRow' /\ drifted \subseteq Posts /\ lost \subseteq Posts
    BY <1>3, <2>1 DEF CountInv
  <2> QED BY <1>1, <2>4, <2>8, <2>9, <2>11, <2>12, <2>13, Agreeing DEF q
<1>4. CASE Stored(q.kind, q.user, q.on) = {}
  <2> DEFINE new == [kind |-> q.kind, by |-> q.user, on |-> q.on, id |-> lastRow + 1,
                     late |-> Leaving(q.user) \/ Leaving(q.on)]
  <2>1. /\ rows' = rows \cup {new} /\ lastRow' = lastRow + 1 /\ Becomes(r, AfterInsert(q))
    BY <1>4 DEF Insert
  <2>2. new.kind = q.kind /\ new.on = q.on /\ new.id = lastRow + 1
    OBVIOUS
  <2> HIDE DEF new, q
  <2> QED BY <1>3, <2>1, <2>2
<1> QED BY <1>2, <1>4 DEF Insert

\* $inc, post by post.
LEMMA Incrementing ==
  ASSUME Shaped, NEW x \in Posts, NEW n \in Int, NEW p \in Posts, post' = Counted(x, n)
  PROVE  /\ post'[p].count = IF p = x /\ Exists(p) THEN post[p].count + n ELSE post[p].count
         /\ Exists(p)' <=> Exists(p)
<1>1. post \in [Posts -> [status : {"draft", "published", "gone"}, count : Int]]
  BY DEF Shaped
<1>2. CASE Exists(x)
  <2>1. post' = [post EXCEPT ![x] = [post[x] EXCEPT !.count = post[x].count + n]]
    BY <1>2 DEF Counted
  <2> QED BY <1>1, <1>2, <2>1 DEF Exists
<1>3. CASE ~Exists(x)
  BY <1>3 DEF Counted, Exists
<1> QED BY <1>2, <1>3

\* What is left of a toggle once one of its calls is made.
LEMMA Halving ==
  ASSUME NEW q \in Task, q.pc = "off", Aimed(q), NEW c \in {"row", "count"}, c \in q.todo,
         NEW n, n = Made(q, c, NoTask)
  PROVE  /\ Aimed(n)
         /\ \A p : Due(n, p) = 0 /\ Due(q, p) = 0
         /\ \A p : p # q.on \/ q.kind # "bookmark" => Weight(n, p) = 0 /\ Weight(q, p) = 0
         /\ q.kind = "bookmark" =>
              Weight(n, q.on) - Weight(q, q.on) = IF c = "count" THEN 1 ELSE -1
         /\ c = "count" => q.kind = "bookmark"
<1>1. q.todo \in IF q.kind = "bookmark" THEN {{"row"}, {"count"}, {"row", "count"}}
                 ELSE {{"row"}}
  BY DEF Aimed
<1>2. c = "count" => q.kind = "bookmark"
  BY <1>1
<1>3. CASE q.todo = {c}
  <2>1. n = NoTask
    BY <1>3 DEF Made
  <2>2. \A p : Due(n, p) = 0 /\ Weight(n, p) = 0 /\ Aimed(n)
    BY <2>1, IdleAimed
  <2>3. \A p : /\ Due(q, p) = 0
               /\ p # q.on \/ q.kind # "bookmark" => Weight(q, p) = 0
    BY DEF Due, Half, Weight
  <2>4. q.kind = "bookmark" => Weight(q, q.on) = IF c = "count" THEN -1 ELSE 1
    <3>1. {"row"} # {"count"}
      OBVIOUS
    <3> QED BY <1>3, <3>1 DEF Due, Half, Weight
  <2> QED BY <1>2, <2>2, <2>3, <2>4
<1>4. CASE q.todo # {c}
  <2> DEFINE o == IF c = "row" THEN "count" ELSE "row"
  <2>1. q.todo = {"row", "count"} /\ q.kind = "bookmark"
    BY <1>1, <1>4
  <2>2. q.todo \ {c} = {o} /\ {o} # {}
    BY <2>1
  <2>3. n = [q EXCEPT !.todo = {o}]
    BY <2>2 DEF Made
  <2>4. /\ n.pc = "off" /\ n.kind = "bookmark" /\ n.on = q.on /\ n.id = q.id
        /\ n.todo = {o}
    BY <2>1, <2>3 DEF Task
  <2>5. {"row"} # {"count"} /\ {"row", "count"} # {"row"} /\ {"row", "count"} # {"count"}
    OBVIOUS
  <2>6. Aimed(n)
    BY <2>1, <2>4 DEF Aimed
  <2>7. \A p : /\ Due(n, p) = 0 /\ Due(q, p) = 0 /\ Weight(q, p) = 0
               /\ p # q.on => Weight(n, p) = 0
    BY <2>1, <2>4, <2>5 DEF Due, Half, Weight
  <2>8. Weight(n, q.on) = IF c = "count" THEN 1 ELSE -1
    BY <2>4, <2>5 DEF Due, Half, Weight
  <2> QED BY <2>1, <2>6, <2>7, <2>8
<1> QED BY <1>3, <1>4

LEMMA CountAtCount ==
  ASSUME Shaped, CountInv, Shaped', NEW r \in Clients, Count(r)
  PROVE  CountInv'
<1> DEFINE q == tasks[r]
<1>1. /\ q.pc = "count" /\ q.on \in Posts /\ post' = Counted(q.on, 1) /\ Becomes(r, NoTask)
      /\ UNCHANGED <<rows, lastRow, accounts, drifted, lost>>
  BY DEF Count, IsAt, CountInv, Aimed
<1>2. \A p \in Posts : /\ Due(q, p) = IF p = q.on THEN 1 ELSE 0
                       /\ Weight(q, p) = Due(q, p)
                       /\ Due(NoTask, p) = 0 /\ Weight(NoTask, p) = 0
  BY <1>1, IdleAimed DEF Due, Half, Weight
<1>3. RowsNumbered' /\ \A x \in Clients : Aimed(tasks[x])'
  BY <1>1, IdleAimed, Aiming
<1>4. ASSUME NEW p \in Posts
      PROVE  /\ post[p].count \in Int /\ post'[p].count \in Int /\ lastRow \in Nat
             /\ post'[p].count = IF p = q.on /\ Exists(p) THEN post[p].count + 1
                                 ELSE post[p].count
             /\ Exists(p)' <=> Exists(p)
             /\ -MaxDebt <= post[p].count
             /\ Bookmarks(p)' = Bookmarks(p) /\ Cardinality(Bookmarks(p)) \in Nat
  <2>1. IsFiniteSet(Bookmarks(p))
    <3>1. Bookmarks(p) \subseteq rows
      BY DEF Bookmarks
    <3> QED BY <3>1, FS_Subset DEF CountInv, RowsNumbered
  <2>2. Bookmarks(p)' = Bookmarks(p)
    BY <1>1 DEF Bookmarks
  <2> QED BY <1>1, <2>1, <2>2, Incrementing, FS_CardinalityType
      DEF Shaped, CountInv, Bounded
<1> HIDE DEF q
<1>5. ASSUME NEW p \in Posts
      PROVE  /\ -MaxDebt <= post'[p].count
             /\ post'[p].count + Due(NoTask, p) - lastRow' <= post[p].count + Due(q, p) - lastRow
  <2>1. -MaxDebt <= post'[p].count
    BY <1>4, EngagementAssumption
  <2> QED BY <1>1, <1>2, <1>4, <2>1
<1>6. ASSUME NEW p \in Posts \ drifted', Exists(p)'
      PROVE  /\ Exists(p)
             /\ post'[p].count + Weight(NoTask, p) - Cardinality(Bookmarks(p)') =
                  post[p].count + Weight(q, p) - Cardinality(Bookmarks(p))
  BY <1>2, <1>4, <1>6
<1>7. lastRow <= lastRow' /\ drifted \subseteq Posts /\ lost \subseteq Posts
  BY <1>1 DEF CountInv, Shaped
<1> QED BY <1>1, <1>3, <1>5, <1>6, <1>7, Agreeing DEF q

LEMMA CountAtDropCount ==
  ASSUME Shaped, CountInv, Shaped', NEW r \in Clients, DropCount(r)
  PROVE  CountInv'
<1> DEFINE q == tasks[r]
           n == Made(q, "count", NoTask)
<1>1. /\ q.pc = "off" /\ "count" \in q.todo /\ Aimed(q) /\ q \in Task /\ q.on \in Posts
      /\ Exists(q.on) => post[q.on].count > -MaxDebt
      /\ post' = Counted(q.on, -1) /\ Becomes(r, n)
      /\ UNCHANGED <<rows, lastRow, accounts, drifted, lost>>
  BY DEF DropCount, IsAt, CountInv, Aimed, Shaped
<1> HIDE DEF n, q
<1>2. /\ Aimed(n)
      /\ \A p : Due(n, p) = 0 /\ Due(q, p) = 0
      /\ \A p : p # q.on => Weight(n, p) = 0 /\ Weight(q, p) = 0
      /\ Weight(n, q.on) - Weight(q, q.on) = 1
  BY <1>1, Halving DEF n
<1>3. RowsNumbered' /\ \A x \in Clients : Aimed(tasks[x])'
  BY <1>1, <1>2, Aiming
<1>4. ASSUME NEW p \in Posts
      PROVE  /\ post[p].count \in Int /\ post'[p].count \in Int /\ lastRow \in Nat
             /\ post'[p].count = IF p = q.on /\ Exists(p) THEN post[p].count - 1
                                 ELSE post[p].count
             /\ Exists(p)' <=> Exists(p)
             /\ -MaxDebt <= post[p].count
             /\ Bookmarks(p)' = Bookmarks(p) /\ Cardinality(Bookmarks(p)) \in Nat
             /\ Weight(n, p) \in Int /\ Weight(q, p) \in Int
  <2>1. IsFiniteSet(Bookmarks(p))
    <3>1. Bookmarks(p) \subseteq rows
      BY DEF Bookmarks
    <3> QED BY <3>1, FS_Subset DEF CountInv, RowsNumbered
  <2>2. Bookmarks(p)' = Bookmarks(p)
    BY <1>1 DEF Bookmarks
  <2>3. /\ post'[p].count = IF p = q.on /\ Exists(p) THEN post[p].count + (-1)
                            ELSE post[p].count
        /\ Exists(p)' <=> Exists(p)
    BY <1>1, Incrementing
  <2>4. post[p].count \in Int /\ post'[p].count \in Int /\ lastRow \in Nat
    BY DEF Shaped
  <2>5. -MaxDebt <= post[p].count
    BY DEF CountInv, Bounded
  <2>6. Weight(n, p) \in Int /\ Weight(q, p) \in Int
    BY DEF Weight, Due, Half
  <2> QED BY <2>1, <2>2, <2>3, <2>4, <2>5, <2>6, FS_CardinalityType
<1>5. ASSUME NEW p \in Posts
      PROVE  /\ -MaxDebt <= post'[p].count
             /\ post'[p].count + Due(n, p) - lastRow' <= post[p].count + Due(q, p) - lastRow
  <2>1. -MaxDebt <= post'[p].count
    BY <1>1, <1>4, EngagementAssumption
  <2> QED BY <1>1, <1>2, <1>4, <2>1
<1>6. ASSUME NEW p \in Posts \ drifted', Exists(p)'
      PROVE  /\ Exists(p)
             /\ post'[p].count + Weight(n, p) - Cardinality(Bookmarks(p)') =
                  post[p].count + Weight(q, p) - Cardinality(Bookmarks(p))
  BY <1>2, <1>4, <1>6
<1>7. lastRow <= lastRow' /\ drifted \subseteq Posts /\ lost \subseteq Posts
  BY <1>1 DEF CountInv, Shaped
<1> QED BY <1>1, <1>3, <1>5, <1>6, <1>7, Agreeing DEF q

LEMMA CountAtDropRow ==
  ASSUME Shaped, CountInv, Shaped', NEW r \in Clients, DropRow(r)
  PROVE  CountInv'
<1> DEFINE q == tasks[r]
           n == Made(q, "row", NoTask)
<1>1. /\ q.pc = "off" /\ "row" \in q.todo /\ Aimed(q) /\ q \in Task /\ q.on \in Posts
      /\ rows' = {d \in rows : d.id # q.id} /\ Becomes(r, n)
      /\ drifted' = IF q.kind = "bookmark" /\ rows' = rows THEN drifted \cup {q.on} ELSE drifted
      /\ UNCHANGED <<post, lastRow, accounts, lost>>
  BY DEF DropRow, IsAt, CountInv, Aimed, Shaped
<1> HIDE DEF n, q
<1>2. /\ Aimed(n)
      /\ \A p : Due(n, p) = 0 /\ Due(q, p) = 0
      /\ \A p : p # q.on \/ q.kind # "bookmark" => Weight(n, p) = 0 /\ Weight(q, p) = 0
      /\ q.kind = "bookmark" => Weight(n, q.on) - Weight(q, q.on) = -1
  BY <1>1, Halving DEF n
<1>3. /\ drifted \subseteq drifted' /\ drifted' \subseteq Posts /\ lost \subseteq Posts
      /\ lastRow \in Nat
  BY <1>1 DEF CountInv, Shaped
<1>4. \A d \in rows : d.id = q.id => d.kind = q.kind /\ d.on = q.on
  BY <1>1 DEF Aimed
<1>5. \A p \in Posts : /\ post'[p].count = post[p].count /\ (Exists(p)' <=> Exists(p))
                       /\ post[p].count \in Int /\ -MaxDebt <= post[p].count
  BY <1>1 DEF Exists, Shaped, CountInv, Bounded
<1>6. CASE q.kind # "bookmark" \/ rows' = rows
  <2>1. ASSUME NEW p \in Posts PROVE Bookmarks(p)' = Bookmarks(p)
    BY <1>1, <1>4, <1>6 DEF Bookmarks
  <2>2. \A p \in Posts \ drifted' : Weight(n, p) = Weight(q, p)
    BY <1>1, <1>2, <1>6
  <2>3. \A p \in Posts : Due(n, p) <= Due(q, p)
    BY <1>2
  <2>4. rows' \subseteq rows
    BY <1>1
  <2> QED BY <1>1, <1>2, <1>3, <1>5, <2>1, <2>2, <2>3, <2>4, Quiet DEF q
<1>7. CASE q.kind = "bookmark" /\ rows' # rows
  <2>1. PICK d \in rows : d.id = q.id
    BY <1>1, <1>7
  <2>2. rows' = rows \ {d} /\ d.kind = "bookmark" /\ d.on = q.on
    BY <1>1, <1>4, <1>7, <2>1 DEF CountInv, RowsNumbered
  <2>3. RowsNumbered' /\ \A x \in Clients : Aimed(tasks[x])'
    BY <1>1, <1>2, Aiming
  <2>4. ASSUME NEW p \in Posts
        PROVE  /\ Cardinality(Bookmarks(p)) \in Nat
               /\ Cardinality(Bookmarks(p)') =
                    IF p = q.on THEN Cardinality(Bookmarks(p)) - 1 ELSE Cardinality(Bookmarks(p))
    <3>1. IsFiniteSet(Bookmarks(p))
      <4>1. Bookmarks(p) \subseteq rows
        BY DEF Bookmarks
      <4> QED BY <4>1, FS_Subset DEF CountInv, RowsNumbered
    <3>2. Bookmarks(p)' = Bookmarks(p) \ {d} /\ (d \in Bookmarks(p) <=> p = q.on)
      BY <2>1, <2>2 DEF Bookmarks
    <3> QED BY <3>1, <3>2, FS_RemoveElement, FS_CardinalityType
  <2>5. ASSUME NEW p \in Posts
        PROVE  /\ -MaxDebt <= post'[p].count
               /\ post'[p].count + Due(n, p) - lastRow' <= post[p].count + Due(q, p) - lastRow
    BY <1>1, <1>2, <1>3, <1>5
  <2>6. ASSUME NEW p \in Posts \ drifted', Exists(p)'
        PROVE  /\ Exists(p)
               /\ post'[p].count + Weight(n, p) - Cardinality(Bookmarks(p)') =
                    post[p].count + Weight(q, p) - Cardinality(Bookmarks(p))
    <3>1. Weight(n, p) \in Int /\ Weight(q, p) \in Int
      BY DEF Weight, Due, Half
    <3> QED BY <1>2, <1>5, <1>7, <2>4, <2>6, <3>1
  <2>7. lastRow <= lastRow'
    BY <1>1, <1>3
  <2> QED BY <1>1, <1>3, <2>3, <2>5, <2>6, <2>7, Agreeing DEF q
<1> QED BY <1>6, <1>7

LEMMA CountAtSweep ==
  ASSUME Shaped, CountInv, Shaped', NEW r \in Clients, NEW k \in Calls, Sweep(r, k)
  PROVE  CountInv'
<1> DEFINE q == tasks[r]
           o == IF q.pc = "sweep" THEN NoTask ELSE [q EXCEPT !.pc = "draftPosts", !.todo = {}]
           n == Made(q, k, o)
<1>1. /\ q.pc \in {"sweep", "leave"} /\ q \in Task /\ Becomes(r, n)
      /\ rows' \subseteq rows
      /\ drifted' = drifted \cup
           {p \in Posts : Bookmarks(p) # {} /\ Bookmarks(p)' # Bookmarks(p)}
      /\ UNCHANGED <<post, lastRow, accounts, lost>>
  BY DEF Sweep, Shaped
<1>2. o.pc \notin {"count", "off"}
  BY <1>1, IdleIsFormed DEF Task
<1>3. n.pc \notin {"count", "off"}
  <2> HIDE DEF o, q
  <2>1. n = o \/ n = [q EXCEPT !.todo = q.todo \ {k}]
    BY DEF Made
  <2>2. [q EXCEPT !.todo = q.todo \ {k}].pc = q.pc
    BY <1>1 DEF Task
  <2> QED BY <1>1, <1>2, <2>1, <2>2
<1> HIDE DEF n, q
<1>4. /\ Aimed(n)
      /\ \A p \in Posts : /\ Due(n, p) <= Due(q, p) /\ Weight(n, p) = Weight(q, p)
  BY <1>1, <1>3, IdleAimed
<1>5. ASSUME NEW p \in Posts \ drifted' PROVE Bookmarks(p)' = Bookmarks(p)
  <2>1. Bookmarks(p)' \subseteq Bookmarks(p)
    BY <1>1 DEF Bookmarks
  <2> QED BY <1>1, <2>1
<1>6. \A p \in Posts : post'[p].count = post[p].count /\ (Exists(p)' => Exists(p))
  BY <1>1 DEF Exists
<1>7. drifted \subseteq drifted' /\ drifted' \subseteq Posts /\ lost \subseteq Posts
  BY <1>1 DEF CountInv
<1> QED BY <1>1, <1>4, <1>5, <1>6, <1>7, Quiet DEF q

LEMMA CountAtCrash ==
  ASSUME Shaped, CountInv, Shaped', NEW r \in Clients, Crash(r)
  PROVE  CountInv'
<1> DEFINE q == tasks[r]
<1>1. /\ q \in Task /\ Formed(q) /\ Aimed(q) /\ Becomes(r, NoTask)
      /\ drifted' = IF Unbalanced(q) THEN drifted \cup {q.on} ELSE drifted
      /\ lost' = IF q.pc = "sweep" THEN lost \cup {q.on} ELSE lost
      /\ UNCHANGED <<post, accounts, rows, lastRow>>
  BY Asking DEF Crash, IsAt, CountInv
<1> HIDE DEF q
<1>2. /\ drifted \subseteq drifted' /\ drifted' \subseteq Posts
      /\ lost \subseteq lost' /\ lost' \subseteq Posts
  BY <1>1 DEF CountInv, Unbalanced, Aimed, Formed
<1>3. ASSUME NEW p \in Posts \ drifted' PROVE Weight(q, p) = 0
  <2>1. ~Unbalanced(q) \/ q.on # p
    BY <1>1
  <2>2. {"row", "count"} # {"row"} /\ {"row", "count"} # {"count"}
    OBVIOUS
  <2> QED BY <2>1, <2>2 DEF Unbalanced, Weight, Due, Half
<1>4. \A p \in Posts : Due(NoTask, p) <= Due(q, p)
  BY IdleAimed DEF Due
<1>5. \A p \in Posts : /\ post'[p].count = post[p].count /\ (Exists(p)' => Exists(p))
                       /\ Bookmarks(p)' = Bookmarks(p)
  BY <1>1 DEF Exists, Bookmarks
<1>6. rows' \subseteq rows /\ accounts' \subseteq accounts /\ lastRow' = lastRow
  BY <1>1
<1> QED BY <1>1, <1>2, <1>3, <1>4, <1>5, <1>6, IdleAimed, Quiet DEF q

LEMMA CountAtSteps ==
  ASSUME Shaped, CountInv, Shaped', NEW r \in Clients, Continue(r)
  PROVE  CountInv'
<1> DEFINE q == tasks[r]
<1>1. q \in Task /\ Formed(q) /\ NoTask.pc = "idle"
  BY Asking, IdleIsFormed
<1>2. CASE Check(r)
  <2>1. \A p \in Posts : post'[p].count = post[p].count /\ (Exists(p)' => Exists(p))
    BY <1>2 DEF Check, Exists
  <2>2. [q EXCEPT !.pc = "insert"].pc = "insert"
    BY <1>1 DEF Task
  <2> QED BY <1>1, <1>2, <2>1, <2>2, Unowing DEF Check, IsAt
<1>3. CASE Notify(r)
  <2>1. \A p \in Posts : post'[p].count = post[p].count /\ (Exists(p)' => Exists(p))
    BY <1>3 DEF Notify, Exists
  <2> QED BY <1>1, <1>3, <2>1, Unowing DEF Notify, IsAt
<1>4. CASE RemovePost(r)
  <2>1. post' = [post EXCEPT ![q.on].status = "gone"]
    BY <1>4 DEF RemovePost
  <2>2. \A p \in Posts : post'[p].count = post[p].count /\ (Exists(p)' => Exists(p))
    BY <2>1 DEF Exists, Shaped
  <2>3. [q EXCEPT !.pc = "sweep", !.todo = Cascade].pc = "sweep"
    BY <1>1 DEF Task
  <2> QED BY <1>4, <2>2, <2>3, Unowing DEF RemovePost, IsAt
<1>5. CASE DraftPosts(r)
  <2>1. ASSUME NEW p \in Posts
        PROVE  post'[p].count = post[p].count /\ (Exists(p)' => Exists(p))
    BY <1>5 DEF DraftPosts, Exists, Shaped
  <2>2. [q EXCEPT !.pc = "deleteUser"].pc = "deleteUser"
    BY <1>1 DEF Task
  <2> QED BY <1>5, <2>1, <2>2, Unowing DEF DraftPosts, IsAt
<1>6. CASE DeleteUser(r)
  <2>1. \A p \in Posts : post'[p].count = post[p].count /\ (Exists(p)' => Exists(p))
    BY <1>6 DEF DeleteUser, Exists
  <2> QED BY <1>1, <1>6, <2>1, Unowing DEF DeleteUser, IsAt
<1> QED BY <1>2, <1>3, <1>4, <1>5, <1>6, CountAtInsert, CountAtCount, CountAtDropRow,
        CountAtDropCount, CountAtSweep DEF Continue

LEMMA StepCounted == Shaped /\ CountInv /\ [EngagementNext]_engagementVars => CountInv'
<1> SUFFICES ASSUME Shaped, CountInv, [EngagementNext]_engagementVars PROVE CountInv'
  OBVIOUS
<1>1. Shaped'
  BY StepShaped
<1>2. ASSUME UNCHANGED <<post, accounts, tasks, lastRow, drifted, lost>>, rows' \subseteq rows,
             \A p \in Posts : Bookmarks(p)' = Bookmarks(p)
      PROVE  CountInv'
  <2>1. RowsNumbered'
    BY <1>2, FS_Subset DEF CountInv, RowsNumbered
  <2>2. \A x \in Clients : Aimed(tasks[x])'
    BY <1>2 DEF CountInv, Aimed
  <2>3. \A p \in Posts : BusyFinite(p)' /\ Bounded(p)'
    BY <1>2 DEF CountInv, BusyFinite, Bounded, Uncounted, HalfOff, IsAt
  <2>4. \A p \in Posts \ drifted' : Exists(p)' => Balanced(p)'
    BY <1>2 DEF CountInv, Balanced, Exists, Uncounted, HalfOff, IsAt
  <2> QED BY <1>2, <2>1, <2>2, <2>3, <2>4 DEF CountInv
<1>3. ASSUME NEW u \in People, NEW v \in People, Unfollow(u, v) PROVE CountInv'
  <2>1. \A p \in Posts : Bookmarks(p)' = Bookmarks(p)
    BY <1>3 DEF Unfollow, Bookmarks, Stored
  <2> QED BY <1>2, <1>3, <2>1 DEF Unfollow
<1>4. CASE UNCHANGED engagementVars
  BY <1>2, <1>4 DEF engagementVars, Bookmarks
<1> QED BY <1>1, <1>3, <1>4, CountAtCalls, CountAtSteps, CountAtCrash DEF EngagementNext

LEMMA InitCounted == EngagementInit => CountInv
<1> SUFFICES ASSUME EngagementInit PROVE CountInv
  OBVIOUS
<1>1. \A r \in Clients : tasks[r].pc = "idle"
  BY IdleIsFormed DEF EngagementInit
<1>2. RowsNumbered
  BY FS_EmptySet DEF EngagementInit, RowsNumbered
<1>3. \A r \in Clients : Aimed(tasks[r])
  BY <1>1 DEF Aimed
<1>4. ASSUME NEW p \in Posts
      PROVE  /\ Uncounted(p) = {} /\ HalfOff(p, "row") = {} /\ HalfOff(p, "count") = {}
             /\ Bookmarks(p) = {} /\ post[p].count = 0
  BY <1>1 DEF EngagementInit, Uncounted, HalfOff, Bookmarks, IsAt
<1>5. Cardinality({}) = 0 /\ IsFiniteSet({})
  BY FS_EmptySet
<1>6. -MaxDebt <= 0 /\ lastRow = 0
  BY EngagementAssumption DEF EngagementInit
<1>7. ASSUME NEW p \in Posts PROVE BusyFinite(p) /\ Bounded(p) /\ Balanced(p)
  <2>1. BusyFinite(p)
    BY <1>4, <1>5 DEF BusyFinite
  <2>2. Bounded(p)
    <3>1. post[p].count = 0 /\ Cardinality(Uncounted(p)) = 0
      BY <1>4, <1>5
    <3> QED BY <3>1, <1>6 DEF Bounded
  <2>3. Balanced(p)
    BY <1>4, <1>5 DEF Balanced
  <2> QED BY <2>1, <2>2, <2>3
<1> QED BY <1>2, <1>3, <1>7 DEF EngagementInit, CountInv

\* BookmarkCountAgrees, for any number of posts, readers and requests: the
\* cached count is the number of bookmarks, up to the toggles half-way through
\* and but for what the property names.
THEOREM CountCorrect == EngagementSpec => []BookmarkCountAgrees
<1>1. CountInv => BookmarkCountAgrees
  BY DEF CountInv, BookmarkCountAgrees, Balanced
<1> QED BY <1>1, InitCounted, StepCounted, AlwaysShaped, PTL DEF EngagementSpec

\* Rows, notifications and requests stay well formed, the count within its
\* bounds included, for any number of posts, accounts and requests.
THEOREM TypeCorrect == EngagementSpec => []EngagementOK
<1>1. Shaped /\ CountInv => EngagementOK
  <2> SUFFICES ASSUME Shaped, CountInv PROVE EngagementOK
    OBVIOUS
  <2>1. ASSUME NEW p \in Posts PROVE post[p] \in Post
    <3>1. post[p] \in [status : {"draft", "published", "gone"}, count : Int]
      BY DEF Shaped
    <3>2. IsFiniteSet(Uncounted(p)) /\ Bounded(p)
      BY DEF CountInv, BusyFinite
    <3>3. post[p].count \in -MaxDebt .. MaxRows
      <4>1. Cardinality(Uncounted(p)) \in Nat
        BY <3>2, FS_CardinalityType
      <4>2. lastRow \in Nat /\ lastRow <= MaxRows
        BY EngagementAssumption DEF Shaped
      <4> QED BY <3>1, <3>2, <4>1, <4>2, EngagementAssumption DEF Bounded
    <3> QED BY <3>1, <3>3 DEF Post
  <2>2. post \in [Posts -> Post]
    BY <2>1 DEF Shaped
  <2> QED BY <2>2 DEF Shaped, CountInv, EngagementOK
<1> QED BY <1>1, InitCounted, StepCounted, AlwaysShaped, PTL DEF EngagementSpec

=============================================================================
