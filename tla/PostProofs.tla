----------------------------- MODULE PostProofs -----------------------------
(***************************************************************************)
(* What module PostLifecycle guarantees for any number of posts, accounts, *)
(* requests and publisher runs, and any clock.                             *)
(***************************************************************************)
EXTENDS PostLifecycle, TLAPS

-----------------------------------------------------------------------------
(* Types                                                                   *)

PostsOK == post \in [Posts -> Post]

\* An edit knows the text it is to write.
Knows(q) == q.pc = "updateSave" => q.content \in Contents

RequestsOK ==
  /\ req \in [Requests -> Request]
  /\ \A x \in Requests : Knows(req[x])

\* The collections and history that steps of requests seldom touch.
RestOK ==
  /\ accounts \subseteq Users
  /\ now \in 1 .. MaxClock
  /\ announced \in [Posts -> 0 .. 2]
  /\ told \subseteq Posts \X (Users \cup {NoUser})
  /\ raced \subseteq Posts /\ lost \subseteq Posts /\ blurred \subseteq Posts

LEMMA TypeParts ==
  /\ TypeOK <=> PostsOK /\ RequestsOK /\ RestOK
  /\ TypeOK' <=> PostsOK' /\ RequestsOK' /\ RestOK'
BY DEF TypeOK, PostsOK, RequestsOK, RestOK, Knows, At

LEMMA IdleType == Idle \in Request /\ Knows(Idle)
BY PostAssumption DEF Idle, Request, PCs, Dates, NoDate, Knows

LEMMA TypeInit == Init => TypeOK
<1> SUFFICES ASSUME Init PROVE TypeOK
  OBVIOUS
<1> USE PostAssumption DEF Init
<1>1. PostsOK
  BY DEF PostsOK, Post, Statuses, Dates, NoDate
<1>2. RequestsOK
  BY IdleType DEF RequestsOK
<1>3. RestOK
  BY DEF RestOK
<1> QED
  BY <1>1, <1>2, <1>3, TypeParts

\* A copy of a post is a copy, and stays one when the post is written.
LEMMA CopyOfType ==
  ASSUME PostsOK, NEW p \in Posts, NEW u \in Users \cup {NoUser}
  PROVE  CopyOf(p, u) \in Copy
BY DEF PostsOK, Post, CopyOf, Copy

LEMMA AgedType ==
  ASSUME NEW cs \in SUBSET Copy, NEW S, NEW w
  PROVE  Aged(cs, S, w) \in SUBSET Copy
BY DEF Aged, Copy

LEMMA BecomeType ==
  ASSUME RequestsOK, NEW r \in Requests, NEW q \in Request, Knows(q),
         Become(r, q)
  PROVE  RequestsOK'
BY DEF RequestsOK, Become

LEMMA WritingType ==
  ASSUME RequestsOK, NEW r \in Requests, NEW q \in Request, Knows(q), NEW S, NEW w,
         BecomeWriting(r, q, S, w)
  PROVE  RequestsOK'
<1>1. ASSUME NEW x \in Requests
      PROVE  LET q2 == [req[x] EXCEPT !.copies = Aged(@, S, w), !.cur = Aged(@, S, w)]
             IN  q2 \in Request /\ Knows(q2)
  <2>1. req[x] \in Request /\ Knows(req[x])
    BY DEF RequestsOK
  <2>2. /\ Aged(req[x].copies, S, w) \in SUBSET Copy
        /\ Aged(req[x].cur, S, w) \in SUBSET Copy
    BY <2>1, AgedType DEF Request
  <2> QED
    BY <2>1, <2>2 DEF Request, Knows
<1> QED
  BY <1>1 DEF RequestsOK, BecomeWriting

\* A copy that a request holds names a post.
LEMMA HeldType ==
  ASSUME RequestsOK, NEW r \in Requests
  PROVE  /\ req[r] \in Request
         /\ req[r].copies \in SUBSET Copy /\ req[r].cur \in SUBSET Copy
         /\ \A c \in req[r].copies \cup req[r].cur : c \in Copy /\ c.p \in Posts
BY DEF RequestsOK, Request, Copy

LEMMA OpenedType ==
  ASSUME PostsOK, NEW pc \in PCs, NEW u \in Users, NEW p \in Posts
  PROVE  /\ Opened(pc, u, p) \in Request
         /\ pc # "updateSave" => Knows(Opened(pc, u, p))
BY CopyOfType, IdleType DEF Opened, Request, Knows

\* Writing a status and a date that are one of each keeps the posts' types.
LEMMA SaveType ==
  ASSUME RequestsOK, RestOK, NEW r \in Requests, NEW c \in Copy, NEW q \in Request,
         Knows(q), NEW written \in [Posts -> Post], Save(r, c, written, q)
  PROVE  /\ PostsOK' /\ RequestsOK'
         /\ raced' \subseteq Posts
<1>1. RequestsOK'
  BY WritingType DEF Save
<1> QED
  BY <1>1 DEF Save, PostsOK, RestOK, Copy

LEMMA CallType ==
  ASSUME TypeOK, NEW r \in Requests, Call(r) \/ CronFind(r)
  PROVE  TypeOK'
<1> USE PostAssumption
<1>1. PostsOK /\ RequestsOK /\ RestOK
  BY TypeParts
<1>2. ASSUME NEW q \in Request, Knows(q), Become(r, q),
             UNCHANGED <<post, accounts, now, announced, told, raced, lost, blurred>>
      PROVE  TypeOK'
  BY <1>1, <1>2, BecomeType, TypeParts DEF PostsOK, RestOK
<1>3. ASSUME NEW u \in Users, DeleteAccount(r, u) PROVE TypeOK'
  BY <1>2, <1>3, IdleType DEF DeleteAccount, Request, PCs, Knows
<1>4. ASSUME NEW u \in Users, NEW p \in Posts, Publish(r, u, p) PROVE TypeOK'
  BY <1>1, <1>2, <1>4, OpenedType DEF Publish, PCs
<1>5. ASSUME NEW u \in Users, NEW p \in Posts, Cancel(r, u, p) PROVE TypeOK'
  BY <1>1, <1>2, <1>5, OpenedType DEF Cancel, PCs
<1>6. ASSUME NEW u \in Users, NEW p \in Posts, NEW t \in Dates, Schedule(r, u, p, t)
      PROVE  TypeOK'
  <2>1. Opened("scheduleSave", u, p) \in Request /\ Knows(Opened("scheduleSave", u, p))
    BY <1>1, OpenedType DEF PCs
  <2> DEFINE q == [Opened("scheduleSave", u, p) EXCEPT !.at = t]
  <2>2. q \in Request /\ Knows(q)
    BY <2>1 DEF Request, Knows
  <2>3. /\ Become(r, q)
        /\ UNCHANGED <<post, accounts, now, announced, told, raced, lost, blurred>>
    BY <1>6 DEF Schedule
  <2> HIDE DEF q
  <2> QED
    BY <1>2, <2>2, <2>3
<1>7. ASSUME NEW u \in Users, NEW p \in Posts, NEW c \in Contents, Update(r, u, p, c)
      PROVE  TypeOK'
  <2>1. Opened("updateSave", u, p) \in Request
    BY <1>1, OpenedType DEF PCs
  <2>2. LET q == [Opened("updateSave", u, p) EXCEPT !.content = c]
       IN  q \in Request /\ Knows(q)
    BY <2>1 DEF Request, Knows
  <2> QED
    BY <1>2, <1>7, <2>2 DEF Update
<1>8. ASSUME NEW p \in Posts, Related(r, p) PROVE TypeOK'
  <2>1. CopyOf(p, NoUser) \in Copy
    BY <1>1, CopyOfType
  <2>2. LET q == [Idle EXCEPT !.pc = "related", !.cur = {CopyOf(p, NoUser)}]
       IN  q \in Request /\ Knows(q)
    BY <2>1, IdleType DEF Request, Knows, PCs
  <2> QED
    BY <1>2, <1>8, <2>2 DEF Related
<1>9. CASE CronFind(r)
  <2> DEFINE found == {CopyOf(p, Author(p)) : p \in {x \in Posts : Due(x)}}
  <2>1. \A p \in Posts : Author(p) \in Users \cup {NoUser}
    BY <1>1 DEF Author, RestOK
  <2>2. found \in SUBSET Copy
    BY <1>1, <2>1, CopyOfType
  <2>3. LET q == [Idle EXCEPT !.pc = "cronSave", !.copies = found]
       IN  q \in Request /\ Knows(q)
    BY <2>2, IdleType DEF Request, Knows, PCs
  <2> QED
    BY <1>2, <1>9, <2>3 DEF CronFind
<1> QED
  BY <1>3, <1>4, <1>5, <1>6, <1>7, <1>8, <1>9 DEF Call

LEMMA WriteTypes ==
  ASSUME PostsOK, NEW c \in Copy
  PROVE  /\ PublishWrite(c) \in [Posts -> Post]
         /\ CancelWrite(c) \in [Posts -> Post]
         /\ \A t \in Dates : ScheduleWrite(c, t) \in [Posts -> Post]
<1>1. PICK p \in Posts : p = c.p
  BY DEF Copy
<1>2. post[p] \in Post
  BY DEF PostsOK
<1>3. ASSUME NEW s \in Statuses, NEW t \in Dates
      PROVE  [post[p] EXCEPT !.status = s, !.at = t] \in Post
  BY <1>2, <1>3 DEF Post
<1>4. NoDate \in Dates /\ post[p].at \in Dates /\ post[p].status \in Statuses
  BY <1>2, PostAssumption DEF Post, NoDate, Dates
<1>5. {"draft", "scheduled", "published"} \subseteq Statuses
  BY DEF Statuses
<1>6. ASSUME NEW x \in Post PROVE [post EXCEPT ![p] = x] \in [Posts -> Post]
  BY DEF PostsOK
<1>7. PublishWrite(c) \in [Posts -> Post]
  <2> DEFINE t == IF c.at # NoDate THEN NoDate ELSE post[p].at
  <2>1. t \in Dates
    BY <1>4
  <2>2. [post[p] EXCEPT !.status = "published", !.at = t] \in Post
    BY <1>3, <1>5, <2>1
  <2>3. PublishWrite(c) = [post EXCEPT ![p] = [post[p] EXCEPT !.status = "published", !.at = t]]
    BY <1>1 DEF PublishWrite
  <2> HIDE DEF t
  <2> QED
    BY <1>6, <2>2, <2>3
<1>8. CancelWrite(c) \in [Posts -> Post]
  <2> DEFINE t == IF c.at # NoDate THEN NoDate ELSE post[p].at
  <2>1. t \in Dates
    BY <1>4
  <2>2. [post[p] EXCEPT !.status = "draft", !.at = t] \in Post
    BY <1>3, <1>5, <2>1
  <2>3. CancelWrite(c) = [post EXCEPT ![p] = [post[p] EXCEPT !.status = "draft", !.at = t]]
    BY <1>1 DEF CancelWrite
  <2> HIDE DEF t
  <2> QED
    BY <1>6, <2>2, <2>3
<1>9. ASSUME NEW d \in Dates PROVE ScheduleWrite(c, d) \in [Posts -> Post]
  <2> DEFINE s == IF c.status = "scheduled" THEN post[p].status ELSE "scheduled"
             t == IF c.at = d THEN post[p].at ELSE d
  <2>1. s \in Statuses /\ t \in Dates
    BY <1>4, <1>5
  <2>2. [post[p] EXCEPT !.status = s, !.at = t] \in Post
    BY <1>3, <2>1
  <2>3. ScheduleWrite(c, d) = [post EXCEPT ![p] = [post[p] EXCEPT !.status = s, !.at = t]]
    BY <1>1 DEF ScheduleWrite
  <2> HIDE DEF s, t
  <2> QED
    BY <1>6, <2>2, <2>3
<1> QED
  BY <1>7, <1>8, <1>9

LEMMA ContinueType ==
  ASSUME TypeOK, NEW r \in Requests, Continue(r)
  PROVE  TypeOK'
<1> USE PostAssumption
<1>1. PostsOK /\ RequestsOK /\ RestOK
  BY TypeParts
<1>2. /\ req[r] \in Request
      /\ \A c \in req[r].copies \cup req[r].cur : c \in Copy /\ c.p \in Posts
  BY <1>1, HeldType
<1>3. ASSUME NEW q \in Request, Knows(q), Become(r, q), UNCHANGED <<post, accounts, now>>,
             UNCHANGED <<announced, told, raced, lost, blurred>>
      PROVE  TypeOK'
  BY <1>1, <1>3, BecomeType, TypeParts DEF PostsOK, RestOK
\* The end of a request whose post is gone.
<1>4. ASSUME Become(r, Idle), UNCHANGED <<post, accounts, now, announced, told>>,
             UNCHANGED <<raced, lost, blurred>>
      PROVE  TypeOK'
  BY <1>3, <1>4, IdleType
\* A save and what does not change with it.
<1>5. ASSUME NEW c \in Copy, NEW q \in Request, Knows(q),
             NEW written \in [Posts -> Post], Save(r, c, written, q),
             UNCHANGED <<accounts, now, announced, told, lost, blurred>>
      PROVE  TypeOK'
  <2>1. PostsOK' /\ RequestsOK' /\ raced' \subseteq Posts
    BY <1>1, <1>5, SaveType
  <2> QED
    BY <1>1, <1>5, <2>1, TypeParts DEF RestOK
<1>6. CASE UpdateSave(r)
  <2>1. PICK c \in req[r].copies : UpdateSave(r)!(c)
    BY <1>6 DEF UpdateSave
  <2>2. CASE Exists(c.p)
    <3> DEFINE e == [c EXCEPT !.content = req[r].content,
                              !.reworded = @ /\ req[r].content = c.content]
               q == IF Reembeds(c) THEN [Idle EXCEPT !.pc = "embed", !.cur = {e}]
                    ELSE Idle
    <3>1. req[r].content \in Contents
      BY <1>1, <2>1 DEF RequestsOK, Knows, At
    <3>2. e \in Copy
      BY <1>2, <3>1 DEF Copy
    <3>3. q \in Request /\ Knows(q)
      BY <3>2, IdleType DEF Request, PCs, Knows
    <3>4. BecomeWriting(r, q, {c.p}, TRUE)
      BY <2>1, <2>2
    <3>5. RequestsOK'
      BY <1>1, <3>3, <3>4, WritingType
    <3>6. PostsOK' /\ blurred' \subseteq Posts
      BY <1>1, <1>2, <2>1, <2>2, <3>1 DEF PostsOK, Post, RestOK
    <3> QED
      BY <1>1, <2>1, <3>5, <3>6, TypeParts DEF RestOK
  <2>3. CASE ~Exists(c.p)
    BY <1>4, <2>1, <2>3
  <2> QED
    BY <2>2, <2>3
<1>7. CASE PublishSave(r)
  <2>1. PICK c \in req[r].copies : PublishSave(r)!(c)
    BY <1>7 DEF PublishSave
  <2>2. CASE Exists(c.p)
    <3>1. LET q == [Idle EXCEPT !.pc = "announce", !.cur = {c}]
       IN  q \in Request /\ Knows(q)
      BY <1>2, IdleType DEF Request, Knows, PCs
    <3> QED
      BY <1>1, <1>2, <1>5, <2>1, <2>2, <3>1, WriteTypes
  <2> QED
    BY <1>4, <2>1, <2>2
<1>8. CASE ScheduleSave(r)
  <2>1. PICK c \in req[r].copies : ScheduleSave(r)!(c)
    BY <1>8 DEF ScheduleSave
  <2>2. req[r].at \in Dates
    BY <1>2 DEF Request
  <2>3. CASE Exists(c.p)
    BY <1>1, <1>2, <1>5, <2>1, <2>2, <2>3, IdleType, WriteTypes
  <2> QED
    BY <1>4, <2>1, <2>3
<1>9. CASE CancelSave(r)
  <2>1. PICK c \in req[r].copies : CancelSave(r)!(c)
    BY <1>9 DEF CancelSave
  <2>2. CASE Exists(c.p)
    BY <1>1, <1>2, <1>5, <2>1, <2>2, IdleType, WriteTypes
  <2> QED
    BY <1>4, <2>1, <2>2
<1>10. ASSUME NEW c \in req[r].copies, CronSave(r, c) PROVE TypeOK'
  <2>1. CASE Exists(c.p)
    <3>1. LET q == [req[r] EXCEPT !.pc = "announce", !.cur = {c}, !.copies = @ \ {c}]
       IN  q \in Request /\ Knows(q)
      BY <1>2 DEF Request, Knows, PCs
    <3> QED
      BY <1>1, <1>2, <1>5, <1>10, <2>1, <3>1, WriteTypes DEF CronSave
  <2> QED
    BY <1>4, <1>10, <2>1 DEF CronSave
<1>11. CASE Announce(r)
  <2>1. PICK c \in req[r].cur : Announce(r)!(c)
    BY <1>11 DEF Announce
  <2>2. CASE c.by = NoUser
    <3>1. RequestsOK'
      BY <1>1, <2>1, <2>2, IdleType, BecomeType
    <3> QED
      BY <1>1, <1>2, <2>1, <2>2, <3>1, TypeParts DEF RestOK, PostsOK
  <2>3. CASE c.by # NoUser
    <3>1. LET q == [req[r] EXCEPT !.pc = "embed"]
       IN  q \in Request /\ Knows(q)
      BY <1>2 DEF Request, Knows, PCs
    <3>2. RequestsOK'
      BY <1>1, <2>1, <2>3, <3>1, BecomeType
    <3>3. announced' \in [Posts -> 0 .. 2]
      BY <1>1, <2>1, <2>3 DEF RestOK
    <3>4. told' \subseteq Posts \X (Users \cup {NoUser})
      BY <1>1, <1>2, <2>1, <2>3 DEF RestOK, Copy
    <3> QED
      BY <1>1, <2>1, <2>3, <3>2, <3>3, <3>4, TypeParts DEF RestOK, PostsOK
  <2> QED
    BY <2>2, <2>3
<1>12. CASE Embed(r)
  <2>1. PICK c \in req[r].cur, ok \in BOOLEAN : Embed(r)!(c, ok)
    BY <1>12 DEF Embed
  <2>2. AfterEmbed(req[r]) \in Request /\ Knows(AfterEmbed(req[r]))
    BY <1>2, IdleType DEF AfterEmbed, Request, PCs, Knows
  <2>3. RequestsOK'
    BY <1>1, <2>1, <2>2, BecomeType
  <2>4. PostsOK'
    BY <1>1, <1>2, <2>1 DEF PostsOK, Post, Copy
  <2>5. blurred' \subseteq Posts
    BY <1>1, <1>2, <2>1 DEF RestOK
  <2> QED
    BY <1>1, <2>1, <2>3, <2>4, <2>5, TypeParts DEF RestOK
<1>13. CASE RelatedLook(r)
  <2>1. LET q == [req[r] EXCEPT !.pc = "embed"]
       IN  q \in Request /\ Knows(q)
    BY <1>2 DEF Request, Knows, PCs
  <2> QED
    BY <1>3, <1>13, <2>1, IdleType DEF RelatedLook
<1>14. CASE DraftPosts(r)
  <2>1. LET q == [req[r] EXCEPT !.pc = "deleteUser"]
       IN  q \in Request /\ Knows(q)
    BY <1>2 DEF Request, Knows, PCs
  <2>2. RequestsOK'
    BY <1>1, <1>14, <2>1, WritingType DEF DraftPosts
  <2>3. PostsOK' /\ raced' \subseteq Posts
    BY <1>1, <1>14 DEF DraftPosts, PostsOK, Post, Statuses, RestOK
  <2> QED
    BY <1>1, <1>14, <2>2, <2>3, TypeParts DEF RestOK, DraftPosts
<1>15. CASE DeleteUser(r)
  <2>1. RequestsOK'
    BY <1>1, <1>15, IdleType, BecomeType DEF DeleteUser
  <2> QED
    BY <1>1, <1>15, <2>1, TypeParts DEF RestOK, PostsOK, DeleteUser
<1> QED
  BY <1>6, <1>7, <1>8, <1>9, <1>10, <1>11, <1>12, <1>13, <1>14, <1>15 DEF Continue

LEMMA WorldType ==
  ASSUME TypeOK, Environment \/ \E r \in Requests : Crash(r)
  PROVE  TypeOK'
<1> USE PostAssumption
<1>1. PostsOK /\ RequestsOK /\ RestOK
  BY TypeParts
<1>2. ASSUME NEW r \in Requests, Crash(r) PROVE TypeOK'
  <2>1. RequestsOK'
    BY <1>1, <1>2, IdleType, BecomeType DEF Crash
  <2>2. {c.p : c \in req[r].cur} \subseteq Posts
    BY <1>1, HeldType
  <2>3. lost' \subseteq Posts /\ blurred' \subseteq Posts
    BY <1>1, <1>2, <2>2 DEF Crash, RestOK
  <2> QED
    BY <1>1, <1>2, <2>1, <2>3, TypeParts DEF Crash, PostsOK, RestOK
<1>3. ASSUME NEW u \in Users, NEW p \in Posts, Remove(u, p) PROVE TypeOK'
  BY <1>1, <1>3, TypeParts DEF Remove, PostsOK, Post, Statuses, RequestsOK, RestOK
<1>4. ASSUME NEW u \in Users, NEW p \in Posts, NEW c \in Contents, Create(u, p, c)
      PROVE  TypeOK'
  BY <1>1, <1>4, TypeParts
  DEF Create, PostsOK, Post, Statuses, Dates, NoDate, RequestsOK, RestOK
<1>5. CASE Tick
  BY <1>1, <1>5, TypeParts DEF Tick, PostsOK, RequestsOK, RestOK
<1> QED
  BY <1>2, <1>3, <1>4, <1>5 DEF Environment

LEMMA TypeNext == TypeOK /\ [Next]_vars => TypeOK'
<1> SUFFICES ASSUME TypeOK, [Next]_vars PROVE TypeOK'
  OBVIOUS
<1>1. CASE UNCHANGED vars
  BY <1>1 DEF TypeOK, vars, At
<1>2. CASE Next
  BY <1>2, CallType, ContinueType, WorldType DEF Next
<1> QED
  BY <1>1, <1>2

\* TypeOK, for every number of posts, accounts, requests and runs.
THEOREM TypeCorrect == Spec => []TypeOK
<1>1. Init => TypeOK
  BY TypeInit
<1>2. TypeOK /\ [Next]_vars => TypeOK'
  BY TypeNext
<1> QED
  BY <1>1, <1>2, PTL DEF Spec

-----------------------------------------------------------------------------
(* What the copies say                                                     *)

\* What a copy says of its post's status and date is what the post has, unless
\* the copy is marked or the post is removed.
Matches(c) ==
  \/ c.stale
  \/ post[c.p].status = "gone"
  \/ post[c.p].status = c.status /\ post[c.p].at = c.at

\* A request holds one copy of a post, of a post that existed.
CopiesOK(x) ==
  /\ \A c \in req[x].copies : /\ c.status \in {"draft", "scheduled", "published"}
                              /\ Matches(c)
  /\ \A c, d \in req[x].copies : c.p = d.p => c = d
  /\ \A c, d \in req[x].cur : c = d

\* A request that is to write a status holds no published copy; one that
\* deletes an account holds none.
StageOK(x) ==
  /\ req[x].pc # "updateSave" => \A c \in req[x].copies : c.status # "published"
  /\ req[x].pc = "draftPosts" => req[x].copies = {}

\* What a publisher run read was due.
RunOK(x) == x \in Runners =>
  \A c \in req[x].copies : c.status = "scheduled" /\ c.at \in 1 .. now

Held(x) == CopiesOK(x) /\ StageOK(x) /\ RunOK(x)

HeldInv == \A x \in Requests : Held(x)

\* A step that changes no post's status or date, but to create or remove it.
Settled(p) ==
  \/ post'[p].status = "gone"
  \/ post[p].status = "new"
  \/ post'[p].status = post[p].status /\ post'[p].at = post[p].at

LEMMA HeldStart == Init => HeldInv
BY DEF Init, HeldInv, Held, CopiesOK, StageOK, RunOK, Idle

\* A request left with no copies to handle.
LEMMA HandsEmpty ==
  ASSUME NEW x \in Requests, req'[x].copies = {},
         \A c, d \in req'[x].cur : c = d
  PROVE  Held(x)'
BY DEF Held, CopiesOK, StageOK, RunOK

\* A request that does not take part in the step, which writes no status.
LEMMA HeldSettled ==
  ASSUME TypeOK, TypeOK', NEW x \in Requests, Held(x), req'[x].copies = req[x].copies,
         \A c, d \in req'[x].cur : c = d,
         req'[x].pc \in {"updateSave", "draftPosts"} => req'[x].pc = req[x].pc,
         req[x].pc = "updateSave" => req'[x].copies = {} \/ req'[x].pc = "updateSave",
         \A p \in Posts : Settled(p), now <= now'
  PROVE  Held(x)'
<1>1. \A c \in req[x].copies : c.p \in Posts /\ c.at \in Dates
  BY DEF TypeOK, Request, Copy
<1>2. CopiesOK(x)'
  <2>1. ASSUME NEW c \in req[x].copies PROVE Matches(c)'
    BY <1>1 DEF Held, CopiesOK, Matches, Settled
  <2> QED
    BY <2>1 DEF Held, CopiesOK
<1>3. StageOK(x)'
  BY DEF Held, StageOK
<1>4. RunOK(x)'
  BY <1>1, PostAssumption DEF Held, RunOK, TypeOK
<1> QED
  BY <1>2, <1>3, <1>4 DEF Held

\* What ageing does to a copy, and that it is a function of the copy.
AgedCopy(c, S, w) ==
  IF c.p \notin S THEN c
  ELSE IF w THEN [c EXCEPT !.reworded = TRUE] ELSE [c EXCEPT !.stale = TRUE]

LEMMA AgedCopies ==
  ASSUME NEW cs, NEW S, NEW w
  PROVE  Aged(cs, S, w) = {AgedCopy(c, S, w) : c \in cs}
BY DEF Aged, AgedCopy

LEMMA AgedFields ==
  ASSUME NEW c \in Copy, NEW S, NEW w \in BOOLEAN
  PROVE  /\ AgedCopy(c, S, w).p = c.p
         /\ AgedCopy(c, S, w).status = c.status
         /\ AgedCopy(c, S, w).at = c.at
         /\ c.p \notin S \/ w => AgedCopy(c, S, w).stale = c.stale
         /\ c.p \in S /\ ~w => AgedCopy(c, S, w).stale
BY DEF Copy, AgedCopy

LEMMA HeldAged ==
  ASSUME TypeOK, NEW x \in Requests, Held(x), NEW S, NEW w \in BOOLEAN,
         req'[x] = [req[x] EXCEPT !.copies = Aged(@, S, w), !.cur = Aged(@, S, w)],
         \A p \in Posts : p \notin S \/ w => Settled(p), now' = now
  PROVE  Held(x)'
<1>1. /\ req[x] \in Request
      /\ req[x].copies \in SUBSET Copy /\ req[x].cur \in SUBSET Copy
      /\ \A c \in req[x].copies : c.p \in Posts
  BY DEF TypeOK, Request, Copy
<1> DEFINE f(c) == AgedCopy(c, S, w)
<1>2. /\ req'[x].copies = {f(c) : c \in req[x].copies}
      /\ req'[x].cur = {f(c) : c \in req[x].cur}
      /\ req'[x].pc = req[x].pc
  BY <1>1, AgedCopies DEF Request
<1>3. \A c \in req[x].copies :
        /\ f(c).p = c.p /\ f(c).status = c.status /\ f(c).at = c.at
        /\ c.p \notin S \/ w => f(c).stale = c.stale
        /\ c.p \in S /\ ~w => f(c).stale
  BY <1>1, AgedFields
<1> HIDE DEF f
<1>4. CopiesOK(x)'
  <2>1. ASSUME NEW d \in req'[x].copies
        PROVE  d.status \in {"draft", "scheduled", "published"} /\ Matches(d)'
    <3>1. PICK c \in req[x].copies :
            /\ d.p = c.p /\ d.status = c.status /\ d.at = c.at
            /\ c.p \notin S \/ w => d.stale = c.stale
            /\ c.p \in S /\ ~w => d.stale
      BY <1>2, <1>3, <2>1
    <3>2. c.status \in {"draft", "scheduled", "published"} /\ Matches(c) /\ c.p \in Posts
      BY <1>1 DEF Held, CopiesOK
    <3>3. CASE c.p \in S /\ ~w
      BY <3>1, <3>2, <3>3 DEF Matches
    <3>4. CASE c.p \notin S \/ w
      BY <3>1, <3>2, <3>4 DEF Matches, Settled
    <3> QED
      BY <3>3, <3>4
  <2>2. \A c, d \in req'[x].copies : c.p = d.p => c = d
    <3>1. \A c, d \in req[x].copies : c.p = d.p => c = d
      BY DEF Held, CopiesOK
    <3> QED
      BY <1>2, <1>3, <3>1
  <2>3. \A c, d \in req'[x].cur : c = d
    <3>1. \A c, d \in req[x].cur : c = d
      BY DEF Held, CopiesOK
    <3> QED
      BY <1>2, <1>3, <3>1
  <2> QED
    BY <2>1, <2>2, <2>3 DEF CopiesOK
<1>5. StageOK(x)'
  <2>1. req[x].copies = {} => req'[x].copies = {}
    BY <1>2, <1>3
  <2>2. ASSUME req[x].pc # "updateSave", NEW d \in req'[x].copies
        PROVE  d.status # "published"
    <3>1. PICK c \in req[x].copies : d.status = c.status
      BY <1>2, <1>3, <2>2
    <3> QED
      BY <2>2, <3>1 DEF Held, StageOK
  <2> QED
    BY <1>2, <2>1, <2>2 DEF Held, StageOK
<1>6. RunOK(x)'
  <2>1. ASSUME x \in Runners, NEW d \in req'[x].copies
        PROVE  d.status = "scheduled" /\ d.at \in 1 .. now
    <3>1. PICK c \in req[x].copies : d.status = c.status /\ d.at = c.at
      BY <1>2, <1>3, <2>1
    <3> QED
      BY <2>1, <3>1 DEF Held, RunOK
  <2> QED
    BY <2>1 DEF RunOK
<1> QED
  BY <1>4, <1>5, <1>6 DEF Held

\* The other requests of a step of r that writes no status.
LEMMA OthersHeld ==
  ASSUME TypeOK, TypeOK', HeldInv, NEW r \in Requests,
         \A x \in Requests \ {r} : req'[x] = req[x],
         \A p \in Posts : Settled(p), now <= now'
  PROVE  \A x \in Requests \ {r} : Held(x)'
BY HeldSettled DEF HeldInv, Held, CopiesOK

\* Nothing but a request's own state changed.
LEMMA PostsSettled == UNCHANGED post => \A p \in Posts : Settled(p)
BY DEF Settled

LEMMA ClockStays == TypeOK /\ UNCHANGED now => now <= now'
BY PostAssumption DEF TypeOK

\* A client that opened p for a write of its status or text.
LEMMA OpenedHeld ==
  ASSUME TypeOK, NEW r \in Clients, NEW p \in Posts, NEW u \in Users,
         UNCHANGED post, Exists(p),
         req'[r].copies = {CopyOf(p, u)}, req'[r].cur = {},
         req'[r].pc # "draftPosts",
         req'[r].pc = "updateSave" \/ post[p].status # "published"
  PROVE  Held(r)'
<1>1. post[p] \in Post
  BY DEF TypeOK
<1>2. CopiesOK(r)'
  BY <1>1 DEF CopiesOK, Matches, CopyOf, Exists, Post, Statuses
<1>3. StageOK(r)' /\ RunOK(r)'
  BY PostAssumption DEF StageOK, RunOK, CopyOf
<1> QED
  BY <1>2, <1>3 DEF Held

LEMMA HeldCalls ==
  ASSUME TypeOK, TypeOK', HeldInv, NEW r \in Requests, Call(r) \/ CronFind(r)
  PROVE  HeldInv'
<1>1. \A x \in Requests : req[x] \in Request
  BY DEF TypeOK
<1>2. /\ UNCHANGED <<post, now>>
      /\ \A x \in Requests \ {r} : req'[x] = req[x]
  BY DEF TypeOK, Call, CronFind, DeleteAccount, Publish, Cancel, Related, Schedule,
         Update, Become
<1>3. \A x \in Requests \ {r} : Held(x)'
  BY <1>2, OthersHeld, PostsSettled, ClockStays
<1> SUFFICES Held(r)'
  BY <1>3 DEF HeldInv
<1>4. ASSUME NEW u \in Users, DeleteAccount(r, u) PROVE Held(r)'
  <2>1. req'[r].copies = {} /\ req'[r].cur = {}
    BY <1>4 DEF DeleteAccount, Become, TypeOK, Idle
  <2> QED
    BY <2>1, HandsEmpty
<1>5. ASSUME NEW u \in Users, NEW p \in Posts, Publish(r, u, p) PROVE Held(r)'
  <2>1. /\ r \in Clients /\ Exists(p) /\ post[p].status # "published"
        /\ req'[r].copies = {CopyOf(p, u)} /\ req'[r].cur = {}
        /\ req'[r].pc = "publishSave"
    BY <1>5 DEF Publish, Edits, MayPublish, Become, TypeOK, Opened, Idle
  <2> QED
    BY <1>2, <2>1, OpenedHeld
<1>6. ASSUME NEW u \in Users, NEW p \in Posts, Cancel(r, u, p) PROVE Held(r)'
  <2>1. /\ r \in Clients /\ Exists(p) /\ post[p].status # "published"
        /\ req'[r].copies = {CopyOf(p, u)} /\ req'[r].cur = {}
        /\ req'[r].pc = "cancelSave"
    BY <1>6 DEF Cancel, Edits, Become, TypeOK, Opened, Idle
  <2> QED
    BY <1>2, <2>1, OpenedHeld
<1>7. ASSUME NEW u \in Users, NEW p \in Posts, NEW t \in Dates, Schedule(r, u, p, t)
      PROVE  Held(r)'
  <2>1. /\ r \in Clients /\ Exists(p) /\ post[p].status # "published"
        /\ req'[r].copies = {CopyOf(p, u)} /\ req'[r].cur = {}
        /\ req'[r].pc = "scheduleSave"
    BY <1>7 DEF Schedule, Edits, Become, TypeOK, Opened, Idle
  <2> QED
    BY <1>2, <2>1, OpenedHeld
<1>8. ASSUME NEW u \in Users, NEW p \in Posts, NEW c \in Contents, Update(r, u, p, c)
      PROVE  Held(r)'
  <2>1. /\ r \in Clients /\ Exists(p)
        /\ req'[r].copies = {CopyOf(p, u)} /\ req'[r].cur = {}
        /\ req'[r].pc = "updateSave"
    BY <1>8 DEF Update, Edits, Become, TypeOK, Opened, Idle
  <2> QED
    BY <1>2, <2>1, OpenedHeld
<1>9. ASSUME NEW p \in Posts, Related(r, p) PROVE Held(r)'
  <2>1. req'[r].copies = {} /\ req'[r].cur = {CopyOf(p, NoUser)}
    BY <1>9 DEF Related, Become, TypeOK, Idle
  <2> QED
    BY <2>1, HandsEmpty
<1>10. CASE CronFind(r)
  <2>1. /\ req'[r].copies = {CopyOf(p, Author(p)) : p \in {x \in Posts : Due(x)}}
        /\ req'[r].cur = {} /\ req'[r].pc = "cronSave"
    BY <1>10 DEF CronFind, Become, TypeOK, Idle
  <2>2. ASSUME NEW c \in req'[r].copies
        PROVE  \E p \in Posts : Due(p) /\ c = CopyOf(p, Author(p))
    BY <2>1
  <2>3. \A c \in req'[r].copies :
          /\ c.status = "scheduled" /\ c.at \in 1 .. now
          /\ post[c.p].status = c.status /\ post[c.p].at = c.at
    <3>1. ASSUME NEW p \in Posts, Due(p) PROVE post[p].at \in 1 .. now
      BY <3>1, PostAssumption DEF TypeOK, Post, Dates, Due, NoDate
    <3> QED
      BY <2>2, <3>1 DEF Due, CopyOf
  <2>4. ASSUME NEW c \in req'[r].copies, NEW d \in req'[r].copies, c.p = d.p
        PROVE  c = d
    <3>1. c = CopyOf(c.p, Author(c.p)) /\ d = CopyOf(d.p, Author(d.p))
      BY <2>2 DEF CopyOf
    <3> QED
      BY <2>4, <3>1
  <2>5. CopiesOK(r)'
    BY <1>2, <2>1, <2>3, <2>4 DEF CopiesOK, Matches
  <2>6. StageOK(r)' /\ RunOK(r)'
    BY <1>2, <2>1, <2>3 DEF StageOK, RunOK
  <2> QED
    BY <2>5, <2>6 DEF Held
<1> QED
  BY <1>4, <1>5, <1>6, <1>7, <1>8, <1>9, <1>10 DEF Call

\* Everybody but r while r writes the posts in S.
LEMMA OthersAged ==
  ASSUME TypeOK, HeldInv, NEW r \in Requests, NEW q, NEW S, NEW w \in BOOLEAN,
         BecomeWriting(r, q, S, w),
         \A p \in Posts : p \notin S \/ w => Settled(p), now' = now
  PROVE  \A x \in Requests \ {r} : Held(x)'
<1> SUFFICES ASSUME NEW x \in Requests \ {r} PROVE Held(x)'
  OBVIOUS
<1>1. req'[x] = [req[x] EXCEPT !.copies = Aged(@, S, w), !.cur = Aged(@, S, w)]
  BY DEF BecomeWriting
<1> QED
  BY <1>1, HeldAged DEF HeldInv

\* A save writes the status and date of one post.
LEMMA SaveSettles ==
  ASSUME TypeOK, NEW c \in Copy, NEW p \in Posts, p # c.p, NEW t \in Dates,
         post' \in {PublishWrite(c), CancelWrite(c), ScheduleWrite(c, t)}
  PROVE  Settled(p)
BY DEF TypeOK, PublishWrite, CancelWrite, ScheduleWrite, Settled

LEMMA HeldContinues ==
  ASSUME TypeOK, TypeOK', HeldInv, NEW r \in Requests, Continue(r)
  PROVE  HeldInv'
<1> USE PostAssumption
<1>1. /\ req \in [Requests -> Request] /\ req[r] \in Request /\ now \in Nat
      /\ \A c \in req[r].copies \cup req[r].cur : c \in Copy /\ c.p \in Posts
  <2>1. req[r] \in Request /\ now \in Nat
    BY DEF TypeOK
  <2> QED
    BY <2>1 DEF Request, Copy, TypeOK
<1>2. /\ \A c, d \in req[r].copies : c.p = d.p => c = d
      /\ \A c, d \in req[r].cur : c = d
  BY DEF HeldInv, Held, CopiesOK
<1>3. ASSUME Held(r)', \A x \in Requests \ {r} : Held(x)' PROVE HeldInv'
  BY <1>3 DEF HeldInv
\* r is done, and wrote nothing.
<1>4. ASSUME Become(r, Idle), UNCHANGED <<post, now>> PROVE HeldInv'
  <2>1. req'[r] = Idle /\ \A x \in Requests \ {r} : req'[x] = req[x]
    BY <1>1, <1>4 DEF Become
  <2>2. Held(r)'
    BY <2>1, HandsEmpty DEF Idle
  <2> QED
    BY <1>3, <1>4, <2>1, <2>2, OthersHeld, PostsSettled, ClockStays
\* r is done, or has one post to announce, after a save.
<1>5. ASSUME NEW c \in req[r].copies, NEW q, NEW t \in Dates, now' = now,
             BecomeWriting(r, q, {c.p}, FALSE), q.copies = {},
             \A a, b \in q.cur : a = b,
             post' \in {PublishWrite(c), CancelWrite(c), ScheduleWrite(c, t)}
      PROVE  HeldInv'
  <2>1. req'[r] = q
    BY <1>5 DEF BecomeWriting
  <2>2. Held(r)'
    BY <1>5, <2>1, HandsEmpty
  <2>3. \A p \in Posts : p \notin {c.p} \/ FALSE => Settled(p)
    BY <1>1, <1>5, SaveSettles
  <2> QED
    BY <1>3, <1>5, <2>2, <2>3, OthersAged
<1>6. CASE UpdateSave(r)
  <2>1. PICK c \in req[r].copies : UpdateSave(r)!(c)
    BY <1>6 DEF UpdateSave
  <2>2. CASE Exists(c.p)
    <3> DEFINE e == [c EXCEPT !.content = req[r].content,
                              !.reworded = @ /\ req[r].content = c.content]
               q == IF Reembeds(c) THEN [Idle EXCEPT !.pc = "embed", !.cur = {e}]
                    ELSE Idle
    <3>1. BecomeWriting(r, q, {c.p}, TRUE)
      BY <2>1, <2>2
    <3>2. q.copies = {} /\ \A a, b \in q.cur : a = b
      BY DEF Idle
    <3> HIDE DEF q
    <3>3. Held(r)'
      BY <3>1, <3>2, HandsEmpty DEF BecomeWriting
    <3>4. \A p \in Posts : Settled(p)
      BY <1>1, <2>1, <2>2 DEF Settled, TypeOK, Post
    <3>5. now' = now /\ TRUE \in BOOLEAN
      BY <2>1
    <3> QED
      BY <1>3, <3>1, <3>3, <3>4, <3>5, OthersAged
  <2> QED
    BY <1>4, <2>1, <2>2
<1>7. CASE PublishSave(r)
  <2>1. PICK c \in req[r].copies : PublishSave(r)!(c)
    BY <1>7 DEF PublishSave
  <2>2. CASE Exists(c.p)
    <3> DEFINE q == [Idle EXCEPT !.pc = "announce", !.cur = {c}]
    <3>1. q.copies = {} /\ \A a, b \in q.cur : a = b
      BY DEF Idle
    <3>2. BecomeWriting(r, q, {c.p}, FALSE) /\ post' = PublishWrite(c) /\ now' = now
      BY <2>1, <2>2 DEF Save
    <3>3. NoDate \in Dates
      BY DEF NoDate, Dates
    <3> HIDE DEF q
    <3> QED
      BY <1>5, <3>1, <3>2, <3>3
  <2> QED
    BY <1>4, <2>1, <2>2
<1>8. CASE ScheduleSave(r)
  <2>1. PICK c \in req[r].copies : ScheduleSave(r)!(c)
    BY <1>8 DEF ScheduleSave
  <2>2. CASE Exists(c.p)
    <3>1. Idle.copies = {} /\ \A a, b \in Idle.cur : a = b
      BY DEF Idle
    <3>2. /\ BecomeWriting(r, Idle, {c.p}, FALSE) /\ now' = now
          /\ post' = ScheduleWrite(c, req[r].at)
      BY <2>1, <2>2 DEF Save
    <3>3. req[r].at \in Dates
      BY <1>1 DEF Request
    <3> QED
      BY <1>5, <3>1, <3>2, <3>3
  <2> QED
    BY <1>4, <2>1, <2>2
<1>9. CASE CancelSave(r)
  <2>1. PICK c \in req[r].copies : CancelSave(r)!(c)
    BY <1>9 DEF CancelSave
  <2>2. CASE Exists(c.p)
    <3>1. Idle.copies = {} /\ \A a, b \in Idle.cur : a = b
      BY DEF Idle
    <3>2. BecomeWriting(r, Idle, {c.p}, FALSE) /\ post' = CancelWrite(c) /\ now' = now
      BY <2>1, <2>2 DEF Save
    <3>3. NoDate \in Dates
      BY DEF NoDate, Dates
    <3> QED
      BY <1>5, <3>1, <3>2, <3>3
  <2> QED
    BY <1>4, <2>1, <2>2
<1>10. ASSUME NEW c \in req[r].copies, CronSave(r, c) PROVE HeldInv'
  <2>1. CASE Exists(c.p)
    <3> DEFINE q == [req[r] EXCEPT !.pc = "announce", !.cur = {c}, !.copies = @ \ {c}]
    <3>1. /\ q.copies = req[r].copies \ {c} /\ q.cur = {c} /\ q.pc = "announce"
          /\ req[r].pc = "cronSave"
      BY <1>1, <1>10 DEF Request, CronSave, At
    <3>2. BecomeWriting(r, q, {c.p}, FALSE) /\ post' = PublishWrite(c) /\ now' = now
      BY <1>10, <2>1 DEF CronSave, Save
    <3> HIDE DEF q
    <3>3. req'[r] = q
      BY <3>2 DEF BecomeWriting
    <3>4. NoDate \in Dates
      BY DEF NoDate, Dates
    <3>5. \A p \in Posts : p # c.p => Settled(p)
      BY <1>1, <3>2, <3>4, SaveSettles
    <3>6. CopiesOK(r)'
      <4>1. ASSUME NEW d \in q.copies
            PROVE  d.status \in {"draft", "scheduled", "published"} /\ Matches(d)'
        <5>1. d \in req[r].copies /\ d.p # c.p /\ d.p \in Posts
          BY <1>1, <1>2, <3>1, <4>1
        <5>2. d.status \in {"draft", "scheduled", "published"} /\ Matches(d)
          BY <5>1 DEF HeldInv, Held, CopiesOK
        <5> QED
          BY <3>5, <5>1, <5>2 DEF Matches, Settled
      <4> QED
        BY <1>2, <3>1, <3>3, <4>1 DEF CopiesOK
    <3>7. StageOK(r)' /\ RunOK(r)'
      BY <3>1, <3>2, <3>3 DEF HeldInv, Held, StageOK, RunOK
    <3>8. \A x \in Requests \ {r} : Held(x)'
      BY <3>2, <3>5, OthersAged
    <3> QED
      BY <1>3, <3>6, <3>7, <3>8 DEF Held
  <2> QED
    BY <1>4, <1>10, <2>1 DEF CronSave
<1>11. CASE Announce(r)
  <2>1. PICK c \in req[r].cur : Announce(r)!(c)
    BY <1>11 DEF Announce
  <2>2. CASE c.by # NoUser
    <3>1. /\ req'[r] = [req[r] EXCEPT !.pc = "embed"]
          /\ \A x \in Requests \ {r} : req'[x] = req[x]
          /\ UNCHANGED <<post, now>> /\ req[r].pc = "announce"
      BY <1>1, <2>1, <2>2 DEF Become, At
    <3>2. /\ req'[r].copies = req[r].copies /\ req'[r].cur = req[r].cur
          /\ req'[r].pc = "embed"
      BY <1>1, <3>1 DEF Request
    <3>3. Held(r) /\ (\A p \in Posts : Settled(p)) /\ now <= now'
      BY <1>1, <3>1, PostsSettled DEF HeldInv
    <3>4. Held(r)'
      BY <1>2, <3>1, <3>2, <3>3, HeldSettled
    <3> QED
      BY <1>3, <3>1, <3>3, <3>4, OthersHeld
  <2> QED
    BY <1>4, <2>1, <2>2
<1>12. CASE Embed(r)
  <2>1. PICK c \in req[r].cur, ok \in BOOLEAN : Embed(r)!(c, ok)
    BY <1>12 DEF Embed
  <2>2. /\ req'[r] = AfterEmbed(req[r]) /\ req[r].pc = "embed" /\ now' = now
        /\ \A x \in Requests \ {r} : req'[x] = req[x]
    BY <1>1, <2>1 DEF Become, At
  <2>3. /\ req'[r].copies = req[r].copies /\ req'[r].cur = {}
        /\ req'[r].pc \in {"idle", "cronSave"}
    BY <1>1, <2>2 DEF AfterEmbed, Idle, Request
  <2>4. \A p \in Posts : Settled(p)
    BY <1>1, <2>1 DEF Settled, TypeOK, Post
  <2>5. now <= now'
    BY <1>1, <2>2
  <2>6. Held(r)'
    BY <2>2, <2>3, <2>4, <2>5, HeldSettled DEF HeldInv
  <2> QED
    BY <1>3, <2>2, <2>4, <2>5, <2>6, OthersHeld
<1>13. CASE RelatedLook(r)
  <2>1. PICK c \in req[r].cur : RelatedLook(r)!(c)
    BY <1>13 DEF RelatedLook
  <2>2. CASE post[c.p].embedding = NoContent
    <3>1. /\ req'[r] = [req[r] EXCEPT !.pc = "embed"]
          /\ \A x \in Requests \ {r} : req'[x] = req[x]
          /\ UNCHANGED <<post, now>> /\ req[r].pc = "related"
      BY <1>1, <2>1, <2>2 DEF Become, At
    <3>2. /\ req'[r].copies = req[r].copies /\ req'[r].cur = req[r].cur
          /\ req'[r].pc = "embed"
      BY <1>1, <3>1 DEF Request
    <3>3. Held(r) /\ (\A p \in Posts : Settled(p)) /\ now <= now'
      BY <1>1, <3>1, PostsSettled DEF HeldInv
    <3>4. Held(r)'
      BY <1>2, <3>1, <3>2, <3>3, HeldSettled
    <3> QED
      BY <1>3, <3>1, <3>3, <3>4, OthersHeld
  <2> QED
    BY <1>4, <2>1, <2>2
<1>14. CASE DraftPosts(r)
  <2> DEFINE mine == {p \in Posts : AuthorOf[p] = req[r].user /\ Exists(p)}
             q == [req[r] EXCEPT !.pc = "deleteUser"]
  <2>1. q.copies = {} /\ q.cur = req[r].cur
    BY <1>1, <1>14 DEF Request, DraftPosts, At, HeldInv, Held, StageOK
  <2>2. BecomeWriting(r, q, mine, FALSE) /\ now' = now
    BY <1>14 DEF DraftPosts
  <2>3. \A p \in Posts : p \notin mine \/ FALSE => Settled(p)
    BY <1>14 DEF DraftPosts, Settled
  <2> HIDE DEF mine, q
  <2>4. Held(r)'
    BY <1>2, <2>1, <2>2, HandsEmpty DEF BecomeWriting
  <2> QED
    BY <1>3, <2>2, <2>3, <2>4, OthersAged
<1>15. CASE DeleteUser(r)
  BY <1>4, <1>15 DEF DeleteUser
<1> QED
  BY <1>6, <1>7, <1>8, <1>9, <1>10, <1>11, <1>12, <1>13, <1>14, <1>15 DEF Continue

LEMMA HeldWorld ==
  ASSUME TypeOK, TypeOK', HeldInv, Environment \/ \E r \in Requests : Crash(r)
  PROVE  HeldInv'
<1>1. now \in Nat /\ req \in [Requests -> Request]
  BY PostAssumption DEF TypeOK
<1>2. ASSUME NEW r \in Requests, Crash(r) PROVE HeldInv'
  <2>1. /\ req'[r] = Idle /\ \A x \in Requests \ {r} : req'[x] = req[x]
        /\ UNCHANGED <<post, now>>
    BY <1>1, <1>2 DEF Crash, Become
  <2>2. Held(r)'
    BY <2>1, HandsEmpty DEF Idle
  <2> QED
    BY <2>1, <2>2, OthersHeld, PostsSettled, ClockStays DEF HeldInv
<1>3. ASSUME req' = req, \A p \in Posts : Settled(p), now <= now' PROVE HeldInv'
  <2> SUFFICES ASSUME NEW x \in Requests PROVE Held(x)'
    BY DEF HeldInv
  <2>1. Held(x) /\ \A c, d \in req[x].cur : c = d
    BY DEF HeldInv, Held, CopiesOK
  <2> QED
    BY <1>3, <2>1, HeldSettled
<1>4. ASSUME NEW u \in Users, NEW p \in Posts, Remove(u, p) PROVE HeldInv'
  <2>1. \A x \in Posts : Settled(x)
    BY <1>4 DEF Remove, Settled, TypeOK, Post
  <2> QED
    BY <1>1, <1>3, <1>4, <2>1 DEF Remove
<1>5. ASSUME NEW u \in Users, NEW p \in Posts, NEW c \in Contents, Create(u, p, c)
      PROVE  HeldInv'
  <2>1. \A x \in Posts : Settled(x)
    BY <1>5 DEF Create, Settled, TypeOK
  <2> QED
    BY <1>1, <1>3, <1>5, <2>1 DEF Create
<1>6. CASE Tick
  BY <1>1, <1>3, <1>6, PostsSettled DEF Tick
<1> QED
  BY <1>2, <1>4, <1>5, <1>6 DEF Environment

LEMMA HeldNext == TypeOK /\ HeldInv /\ [Next]_vars => HeldInv'
<1> SUFFICES ASSUME TypeOK, HeldInv, [Next]_vars PROVE HeldInv'
  OBVIOUS
<1>1. TypeOK'
  BY TypeNext
<1>2. CASE UNCHANGED vars
  BY <1>2 DEF vars, HeldInv, Held, CopiesOK, StageOK, RunOK, Matches
<1>3. CASE Next
  BY <1>1, <1>3, HeldCalls, HeldContinues, HeldWorld DEF Next
<1> QED
  BY <1>2, <1>3

\* RunsHoldDuePosts, for every number of posts, requests and runs.
THEOREM RunsCorrect == Spec => []RunsHoldDuePosts
<1>1. TypeOK /\ HeldInv => RunsHoldDuePosts
  <2> SUFFICES ASSUME TypeOK, HeldInv, NEW r \in Runners, NEW c \in req[r].copies
               PROVE  \/ c.stale \/ ~Exists(c.p)
                      \/ post[c.p].status = "scheduled" /\ post[c.p].at \in 1 .. now
    BY DEF RunsHoldDuePosts
  <2>1. Matches(c) /\ c.status = "scheduled" /\ c.at \in 1 .. now
    BY DEF HeldInv, Held, CopiesOK, RunOK, Requests
  <2> QED
    BY <2>1 DEF Matches, Exists
<1> QED
  BY <1>1, TypeInit, TypeNext, HeldStart, HeldNext, PTL DEF Spec

-----------------------------------------------------------------------------
(* Announcements                                                           *)

\* A post saved from current copies only was announced, or is being announced,
\* at most once, and not at all before it is published.
AnnounceInv == \A p \in Posts : p \notin raced =>
  /\ post[p].status \in {"new", "draft", "scheduled"} =>
       announced[p] = 0 /\ \A x \in Requests : ~Announcing(x, p)
  /\ announced[p] <= 1
  /\ announced[p] = 1 => \A x \in Requests : ~Announcing(x, p)
  /\ \A x, y \in Requests : Announcing(x, p) /\ Announcing(y, p) => x = y

LEMMA AnnounceStart == Init => AnnounceInv
BY DEF Init, AnnounceInv, Announcing, At, Idle

\* While r writes, the others are about to announce what they were.
LEMMA AnnouncingStays ==
  ASSUME TypeOK, NEW r \in Requests, NEW q, NEW S, NEW w \in BOOLEAN,
         BecomeWriting(r, q, S, w), NEW x \in Requests \ {r}, NEW p \in Posts
  PROVE  Announcing(x, p)' <=> Announcing(x, p)
<1>1. /\ req[x] \in Request /\ req[x].cur \in SUBSET Copy
      /\ req'[x] = [req[x] EXCEPT !.copies = Aged(@, S, w), !.cur = Aged(@, S, w)]
  BY DEF TypeOK, Request, BecomeWriting
<1> DEFINE f(c) == AgedCopy(c, S, w)
<1>2. req'[x].cur = {f(c) : c \in req[x].cur} /\ req'[x].pc = req[x].pc
  BY <1>1, AgedCopies DEF Request
<1>3. \A c \in req[x].cur : f(c).p = c.p
  BY <1>1, AgedFields
<1> HIDE DEF f
<1> QED
  BY <1>2, <1>3 DEF Announcing, At

\* A step that neither announces nor publishes anything.
LEMMA AnnounceCalm ==
  ASSUME AnnounceInv, raced \subseteq raced', announced' = announced,
         \A p \in Posts \ raced' :
           post'[p].status \in {"new", "draft", "scheduled"} =>
             post[p].status \in {"new", "draft", "scheduled"},
         \A p \in Posts : \A x \in Requests : Announcing(x, p)' => Announcing(x, p)
  PROVE  AnnounceInv'
BY DEF AnnounceInv

\* A save of the copy c that publishes its post, to be announced by r.
LEMMA AnnouncePublish ==
  ASSUME TypeOK, TypeOK', HeldInv, AnnounceInv, NEW r \in Requests,
         NEW c \in req[r].copies, NEW q, Save(r, c, PublishWrite(c), q),
         q.pc = "announce", q.cur = {c}, Exists(c.p), req[r].pc # "updateSave",
         req[r].pc # "announce", announced' = announced
  PROVE  AnnounceInv'
<1>1. /\ c \in Copy /\ c.p \in Posts /\ req'[r] = q
      /\ raced \subseteq raced' /\ (c.stale => c.p \in raced')
  <2>1. c \in Copy
    BY DEF TypeOK, Request
  <2> QED
    BY <2>1 DEF Copy, Save, BecomeWriting
<1>2. \A x \in Requests \ {r}, p \in Posts : Announcing(x, p)' <=> Announcing(x, p)
  BY AnnouncingStays DEF Save
<1>3. \A p \in Posts : /\ ~Announcing(r, p)
                       /\ Announcing(r, p)' <=> p = c.p
  BY <1>1 DEF Announcing, At
<1>4. \A p \in Posts : p # c.p => post'[p] = post[p]
  BY <1>1 DEF Save, PublishWrite, TypeOK
<1>5. post'[c.p].status = "published"
  BY <1>1 DEF Save, PublishWrite, TypeOK, Post
<1>6. c.p \notin raced' => post[c.p].status \in {"draft", "scheduled"}
  BY <1>1 DEF HeldInv, Held, CopiesOK, StageOK, Matches, Exists
<1> SUFFICES ASSUME NEW p \in Posts, p \notin raced'
             PROVE  /\ post'[p].status \in {"new", "draft", "scheduled"} =>
                         announced'[p] = 0 /\ \A x \in Requests : ~Announcing(x, p)'
                    /\ announced'[p] <= 1
                    /\ announced'[p] = 1 => \A x \in Requests : ~Announcing(x, p)'
                    /\ \A x, y \in Requests : Announcing(x, p)' /\ Announcing(y, p)' => x = y
  BY DEF AnnounceInv
<1>7. CASE p = c.p
  <2>1. announced[p] = 0 /\ \A x \in Requests : ~Announcing(x, p)
    BY <1>1, <1>6, <1>7 DEF AnnounceInv
  <2> QED
    BY <1>2, <1>3, <1>5, <1>7, <2>1
<1>8. CASE p # c.p
  BY <1>1, <1>2, <1>3, <1>4, <1>8 DEF AnnounceInv
<1> QED
  BY <1>7, <1>8

\* Who announces what after a request has moved on without writing.
LEMMA MoveAnnounces ==
  ASSUME TypeOK, NEW r \in Requests, NEW q, Become(r, q)
  PROVE  /\ req'[r] = q
         /\ \A x \in Requests \ {r}, p \in Posts : Announcing(x, p)' <=> Announcing(x, p)
BY DEF TypeOK, Become, Announcing, At

LEMMA AnnounceCalls ==
  ASSUME TypeOK, AnnounceInv, NEW r \in Requests, Call(r) \/ CronFind(r)
  PROVE  AnnounceInv'
<1>1. UNCHANGED <<post, announced, raced>>
  BY DEF Call, CronFind, DeleteAccount, Publish, Cancel, Related, Schedule, Update
<1>2. /\ req'[r].pc # "announce"
      /\ \A x \in Requests \ {r} : req'[x] = req[x]
  <2>1. /\ Idle.pc # "announce" /\ req \in [Requests -> Request]
        /\ \A pc, u, p : Opened(pc, u, p).pc = pc
    BY DEF Idle, TypeOK, Opened
  <2>2. ASSUME NEW u \in Users, DeleteAccount(r, u) PROVE <1>2!:
    BY <2>1, <2>2 DEF DeleteAccount, Become, Idle
  <2>3. ASSUME NEW u \in Users, NEW p \in Posts,
               Publish(r, u, p) \/ Cancel(r, u, p) \/ Related(r, p)
        PROVE  <1>2!:
    <3>1. CASE Publish(r, u, p)
      <4>1. req' = [req EXCEPT ![r] = Opened("publishSave", u, p)]
        BY <3>1 DEF Publish, Become
      <4> QED
        BY <2>1, <4>1
    <3>2. CASE Cancel(r, u, p)
      <4>1. req' = [req EXCEPT ![r] = Opened("cancelSave", u, p)]
        BY <3>2 DEF Cancel, Become
      <4> QED
        BY <2>1, <4>1
    <3>3. CASE Related(r, p)
      <4>1. req' = [req EXCEPT ![r] = [Idle EXCEPT !.pc = "related", !.cur = {CopyOf(p, NoUser)}]]
        BY <3>3 DEF Related, Become
      <4> QED
        BY <2>1, <4>1 DEF Idle
    <3> QED
      BY <2>3, <3>1, <3>2, <3>3
  <2>4. ASSUME NEW u \in Users, NEW p \in Posts, NEW t \in Dates, Schedule(r, u, p, t)
        PROVE  <1>2!:
    BY <2>1, <2>4 DEF Schedule, Become, Opened, Idle
  <2>5. ASSUME NEW u \in Users, NEW p \in Posts, NEW c \in Contents, Update(r, u, p, c)
        PROVE  <1>2!:
    BY <2>1, <2>5 DEF Update, Become, Opened, Idle
  <2>6. CASE CronFind(r)
    BY <2>1, <2>6 DEF CronFind, Become, Idle
  <2> QED
    BY <2>2, <2>3, <2>4, <2>5, <2>6 DEF Call
<1>3. \A p \in Posts : \A x \in Requests : Announcing(x, p)' => Announcing(x, p)
  BY <1>2 DEF Announcing, At
<1> QED
  BY <1>1, <1>3, AnnounceCalm

\* A write by r, of status or text, after which r has nothing to announce.
LEMMA AnnounceWrites ==
  ASSUME TypeOK, AnnounceInv, NEW r \in Requests, NEW q, NEW S, NEW w \in BOOLEAN,
         BecomeWriting(r, q, S, w), q.pc # "announce",
         raced \subseteq raced', announced' = announced,
         \A p \in Posts \ raced' :
           post'[p].status \in {"new", "draft", "scheduled"} =>
             post[p].status \in {"new", "draft", "scheduled"}
  PROVE  AnnounceInv'
<1>1. req'[r] = q
  BY DEF BecomeWriting
<1>2. \A p \in Posts : \A x \in Requests : Announcing(x, p)' => Announcing(x, p)
  BY <1>1, AnnouncingStays DEF Announcing, At
<1> QED
  BY <1>2, AnnounceCalm

LEMMA AnnounceContinues ==
  ASSUME TypeOK, TypeOK', HeldInv, AnnounceInv, NEW r \in Requests, Continue(r)
  PROVE  AnnounceInv'
<1>1. /\ req \in [Requests -> Request] /\ req[r] \in Request
      /\ \A c \in req[r].copies \cup req[r].cur : c \in Copy /\ c.p \in Posts
  <2>1. req[r] \in Request
    BY DEF TypeOK
  <2> QED
    BY <2>1 DEF Request, Copy, TypeOK
\* r moves on, writes no status and has nothing to announce.
<1>2. ASSUME NEW q, Become(r, q), q.pc # "announce", UNCHANGED <<announced, raced>>,
             \A p \in Posts : post'[p].status = post[p].status
      PROVE  AnnounceInv'
  <2>1. \A p \in Posts : \A x \in Requests : Announcing(x, p)' => Announcing(x, p)
    BY <1>2, MoveAnnounces DEF Announcing, At
  <2> QED
    BY <1>2, <2>1, AnnounceCalm
<1>3. ASSUME Become(r, Idle), UNCHANGED <<post, announced, raced>> PROVE AnnounceInv'
  <2>1. Idle.pc # "announce"
    BY DEF Idle
  <2> QED
    BY <1>2, <1>3, <2>1
\* A save that takes its post from draft or scheduled to draft or scheduled,
\* unless the copy is old.
<1>4. ASSUME NEW c \in req[r].copies, NEW written, Save(r, c, written, Idle),
             req[r].pc # "updateSave", Exists(c.p), announced' = announced,
             \A p \in Posts : p # c.p => written[p] = post[p]
      PROVE  AnnounceInv'
  <2>1. c.stale \/ post[c.p].status \in {"draft", "scheduled"}
    BY <1>1, <1>4 DEF HeldInv, Held, CopiesOK, StageOK, Matches, Exists
  <2>2. \A p \in Posts \ raced' :
          post'[p].status \in {"new", "draft", "scheduled"} =>
            post[p].status \in {"new", "draft", "scheduled"}
    BY <1>1, <1>4, <2>1 DEF Save
  <2>3. raced \subseteq raced' /\ BecomeWriting(r, Idle, {c.p}, FALSE) /\ FALSE \in BOOLEAN
    BY <1>4 DEF Save
  <2>4. Idle.pc # "announce"
    BY DEF Idle
  <2> QED
    BY <1>4, <2>2, <2>3, <2>4, AnnounceWrites
<1>5. CASE UpdateSave(r)
  <2>1. PICK c \in req[r].copies : UpdateSave(r)!(c)
    BY <1>5 DEF UpdateSave
  <2>2. CASE Exists(c.p)
    <3> DEFINE e == [c EXCEPT !.content = req[r].content,
                              !.reworded = @ /\ req[r].content = c.content]
               q == IF Reembeds(c) THEN [Idle EXCEPT !.pc = "embed", !.cur = {e}]
                    ELSE Idle
    <3>1. BecomeWriting(r, q, {c.p}, TRUE)
      BY <2>1, <2>2
    <3>2. q.pc # "announce"
      BY DEF Idle
    <3>3. \A p \in Posts : post'[p].status = post[p].status
      BY <1>1, <2>1, <2>2 DEF TypeOK, Post
    <3>4. UNCHANGED <<announced, raced>> /\ TRUE \in BOOLEAN
      BY <2>1
    <3> HIDE DEF q
    <3> QED
      BY <3>1, <3>2, <3>3, <3>4, AnnounceWrites
  <2> QED
    BY <1>3, <2>1, <2>2
<1>6. CASE PublishSave(r)
  <2>1. PICK c \in req[r].copies : PublishSave(r)!(c)
    BY <1>6 DEF PublishSave
  <2>2. CASE Exists(c.p)
    <3> DEFINE q == [Idle EXCEPT !.pc = "announce", !.cur = {c}]
    <3>1. q.pc = "announce" /\ q.cur = {c}
      BY DEF Idle
    <3>2. /\ Save(r, c, PublishWrite(c), q) /\ req[r].pc = "publishSave"
          /\ announced' = announced
      BY <2>1, <2>2 DEF At
    <3> HIDE DEF q
    <3> QED
      BY <2>2, <3>1, <3>2, AnnouncePublish
  <2> QED
    BY <1>3, <2>1, <2>2
<1>7. CASE ScheduleSave(r)
  <2>1. PICK c \in req[r].copies : ScheduleSave(r)!(c)
    BY <1>7 DEF ScheduleSave
  <2>2. CASE Exists(c.p)
    <3>1. \A p \in Posts : p # c.p => ScheduleWrite(c, req[r].at)[p] = post[p]
      BY DEF TypeOK, ScheduleWrite
    <3>2. /\ Save(r, c, ScheduleWrite(c, req[r].at), Idle) /\ announced' = announced
          /\ req[r].pc = "scheduleSave"
      BY <2>1, <2>2 DEF At
    <3> QED
      BY <1>4, <2>2, <3>1, <3>2
  <2> QED
    BY <1>3, <2>1, <2>2
<1>8. CASE CancelSave(r)
  <2>1. PICK c \in req[r].copies : CancelSave(r)!(c)
    BY <1>8 DEF CancelSave
  <2>2. CASE Exists(c.p)
    <3>1. \A p \in Posts : p # c.p => CancelWrite(c)[p] = post[p]
      BY DEF TypeOK, CancelWrite
    <3>2. /\ Save(r, c, CancelWrite(c), Idle) /\ announced' = announced
          /\ req[r].pc = "cancelSave"
      BY <2>1, <2>2 DEF At
    <3> QED
      BY <1>4, <2>2, <3>1, <3>2
  <2> QED
    BY <1>3, <2>1, <2>2
<1>9. ASSUME NEW c \in req[r].copies, CronSave(r, c) PROVE AnnounceInv'
  <2>1. CASE Exists(c.p)
    <3> DEFINE q == [req[r] EXCEPT !.pc = "announce", !.cur = {c}, !.copies = @ \ {c}]
    <3>1. q.pc = "announce" /\ q.cur = {c}
      BY <1>1 DEF Request
    <3>2. /\ Save(r, c, PublishWrite(c), q) /\ req[r].pc = "cronSave"
          /\ announced' = announced
      BY <1>9, <2>1 DEF CronSave, At
    <3> HIDE DEF q
    <3> QED
      BY <2>1, <3>1, <3>2, AnnouncePublish
  <2> QED
    BY <1>3, <1>9, <2>1 DEF CronSave
<1>10. CASE Announce(r)
  <2>1. PICK c \in req[r].cur : Announce(r)!(c)
    BY <1>10 DEF Announce
  <2>2. CASE c.by # NoUser
    <3> DEFINE q == [req[r] EXCEPT !.pc = "embed"]
    <3>1. q.pc = "embed"
      BY <1>1 DEF Request
    <3>2. Become(r, q) /\ UNCHANGED <<post, raced>> /\ Announcing(r, c.p)
      BY <2>1, <2>2 DEF Announcing
    <3> HIDE DEF q
    <3>3. /\ \A p \in Posts : ~Announcing(r, p)'
          /\ \A x \in Requests \ {r}, p \in Posts : Announcing(x, p)' <=> Announcing(x, p)
      BY <3>1, <3>2, MoveAnnounces DEF Announcing, At
    <3>4. \A p \in Posts : p # c.p => announced'[p] = announced[p]
      BY <2>1, <2>2 DEF TypeOK
    <3>5. announced[c.p] = 0 => announced'[c.p] = 1
      BY <1>1, <2>1, <2>2 DEF TypeOK
    <3> SUFFICES ASSUME NEW p \in Posts, p \notin raced
                 PROVE  /\ post[p].status \in {"new", "draft", "scheduled"} =>
                             announced'[p] = 0 /\ \A x \in Requests : ~Announcing(x, p)'
                        /\ announced'[p] <= 1
                        /\ announced'[p] = 1 => \A x \in Requests : ~Announcing(x, p)'
                        /\ \A x, y \in Requests :
                             Announcing(x, p)' /\ Announcing(y, p)' => x = y
      BY <3>2 DEF AnnounceInv
    <3>6. CASE p = c.p
      <4>1. /\ post[p].status \notin {"new", "draft", "scheduled"}
            /\ announced[p] = 0 /\ \A x \in Requests \ {r} : ~Announcing(x, p)
        <5>1. announced[p] \in 0 .. 2 /\ announced[p] <= 1 /\ announced[p] # 1
          BY <3>2, <3>6 DEF AnnounceInv, TypeOK
        <5> QED
          BY <3>2, <3>6, <5>1 DEF AnnounceInv
      <4> QED
        BY <3>3, <3>5, <3>6, <4>1
    <3>7. CASE p # c.p
      BY <3>3, <3>4, <3>7 DEF AnnounceInv
    <3> QED
      BY <3>6, <3>7
  <2> QED
    BY <1>3, <2>1, <2>2
<1>11. CASE Embed(r)
  <2>1. PICK c \in req[r].cur, ok \in BOOLEAN : Embed(r)!(c, ok)
    BY <1>11 DEF Embed
  <2>2. AfterEmbed(req[r]).pc # "announce"
    BY <1>1 DEF AfterEmbed, Idle, Request
  <2>3. \A p \in Posts : post'[p].status = post[p].status
    BY <1>1, <2>1 DEF TypeOK, Post
  <2> QED
    BY <1>2, <2>1, <2>2, <2>3
<1>12. CASE RelatedLook(r)
  <2>1. PICK c \in req[r].cur : RelatedLook(r)!(c)
    BY <1>12 DEF RelatedLook
  <2>2. [req[r] EXCEPT !.pc = "embed"].pc # "announce"
    BY <1>1 DEF Request
  <2>3. UNCHANGED <<post, announced, raced>>
    BY <2>1
  <2>4. CASE post[c.p].embedding = NoContent
    <3>1. Become(r, [req[r] EXCEPT !.pc = "embed"])
      BY <2>1, <2>4
    <3> QED
      BY <1>2, <2>2, <2>3, <3>1
  <2> QED
    BY <1>3, <2>1, <2>3, <2>4
<1>13. CASE DraftPosts(r)
  <2> DEFINE mine == {p \in Posts : AuthorOf[p] = req[r].user /\ Exists(p)}
             q == [req[r] EXCEPT !.pc = "deleteUser"]
  <2>1. q.pc # "announce"
    BY <1>1 DEF Request
  <2>2. /\ BecomeWriting(r, q, mine, FALSE) /\ FALSE \in BOOLEAN
        /\ announced' = announced /\ raced \subseteq raced'
    BY <1>13 DEF DraftPosts
  <2>3. \A p \in Posts \ raced' :
          post'[p].status \in {"new", "draft", "scheduled"} =>
            post[p].status \in {"new", "draft", "scheduled"}
    BY <1>13 DEF DraftPosts, Exists, TypeOK, Post, Statuses
  <2> HIDE DEF mine, q
  <2> QED
    BY <2>1, <2>2, <2>3, AnnounceWrites
<1>14. CASE DeleteUser(r)
  BY <1>3, <1>14 DEF DeleteUser
<1> QED
  BY <1>5, <1>6, <1>7, <1>8, <1>9, <1>10, <1>11, <1>12, <1>13, <1>14 DEF Continue

LEMMA AnnounceWorld ==
  ASSUME TypeOK, AnnounceInv, Environment \/ \E r \in Requests : Crash(r)
  PROVE  AnnounceInv'
<1>1. ASSUME NEW r \in Requests, Crash(r) PROVE AnnounceInv'
  <2>1. Become(r, Idle) /\ UNCHANGED <<post, announced, raced>>
    BY <1>1 DEF Crash
  <2>2. \A p \in Posts : \A x \in Requests : Announcing(x, p)' => Announcing(x, p)
    BY <2>1, MoveAnnounces DEF Announcing, At, Idle
  <2> QED
    BY <2>1, <2>2, AnnounceCalm
<1>2. ASSUME NEW u \in Users, NEW p \in Posts, Remove(u, p) PROVE AnnounceInv'
  BY <1>2, AnnounceCalm DEF Remove, TypeOK, Post, Announcing, At
<1>3. ASSUME NEW u \in Users, NEW p \in Posts, NEW c \in Contents, Create(u, p, c)
      PROVE  AnnounceInv'
  BY <1>3, AnnounceCalm DEF Create, TypeOK, Announcing, At
<1>4. CASE Tick
  BY <1>4, AnnounceCalm DEF Tick, Announcing, At
<1> QED
  BY <1>1, <1>2, <1>3, <1>4 DEF Environment

LEMMA AnnounceNext ==
  TypeOK /\ HeldInv /\ AnnounceInv /\ [Next]_vars => AnnounceInv'
<1> SUFFICES ASSUME TypeOK, HeldInv, AnnounceInv, [Next]_vars PROVE AnnounceInv'
  OBVIOUS
<1>1. TypeOK'
  BY TypeNext
<1>2. CASE UNCHANGED vars
  BY <1>2 DEF vars, AnnounceInv, Announcing, At
<1>3. CASE Next
  BY <1>1, <1>3, AnnounceCalls, AnnounceContinues, AnnounceWorld DEF Next
<1> QED
  BY <1>2, <1>3

\* AnnouncedOnce, for every number of posts, requests and runs: a post goes out
\* twice only after a save from an old copy or its author's deletion.
THEOREM AnnouncedOnceCorrect == Spec => []AnnouncedOnce
<1>1. AnnounceInv => AnnouncedOnce
  BY DEF AnnounceInv, AnnouncedOnce
<1> QED
  BY <1>1, TypeInit, TypeNext, HeldStart, HeldNext, AnnounceStart, AnnounceNext, PTL
  DEF Spec

-----------------------------------------------------------------------------
(* Every published post is announced                                       *)

\* It is enough that a step announces what it publishes and keeps what is
\* being announced, unless it announces or loses it.
LEMMA PublishedKept ==
  ASSUME PublishedIsAnnounced,
         \A p \in Posts : post'[p].status = "published" =>
           post[p].status = "published" \/ \E x \in Requests : Announcing(x, p)',
         \A p \in Posts : announced[p] > 0 => announced'[p] > 0,
         lost \subseteq lost',
         \A p \in Posts : \A x \in Requests : Announcing(x, p) =>
           Announcing(x, p)' \/ p \in lost' \/ announced'[p] > 0
  PROVE  PublishedIsAnnounced'
BY DEF PublishedIsAnnounced

\* A request that is not announcing moves on or writes; the others go on
\* announcing.
LEMMA AnnouncingKept ==
  ASSUME TypeOK, NEW r \in Requests, ~At(r, "announce"), NEW q, NEW S, NEW w \in BOOLEAN,
         Become(r, q) \/ BecomeWriting(r, q, S, w)
  PROVE  \A p \in Posts : \A x \in Requests : Announcing(x, p) => Announcing(x, p)'
<1>1. \A p \in Posts : \A x \in Requests \ {r} : Announcing(x, p) => Announcing(x, p)'
  <2>1. CASE Become(r, q)
    BY <2>1, MoveAnnounces
  <2>2. CASE BecomeWriting(r, q, S, w)
    BY <2>2, AnnouncingStays
  <2> QED
    BY <2>1, <2>2
<1> QED
  BY <1>1 DEF Announcing

\* A request that is not announcing leaves every post's status alone, or takes
\* posts out of the published ones.
LEMMA PublishedQuiet ==
  ASSUME TypeOK, PublishedIsAnnounced, NEW r \in Requests, ~At(r, "announce"),
         NEW q, NEW S, NEW w \in BOOLEAN, Become(r, q) \/ BecomeWriting(r, q, S, w),
         \A p \in Posts : post'[p].status = "published" => post[p].status = "published",
         announced' = announced, lost \subseteq lost'
  PROVE  PublishedIsAnnounced'
BY AnnouncingKept, PublishedKept

\* A save that publishes a post which its request will announce.
LEMMA PublishedSave ==
  ASSUME TypeOK, PublishedIsAnnounced, NEW r \in Requests, ~At(r, "announce"),
         NEW c \in Copy, NEW q, Save(r, c, PublishWrite(c), q),
         q.pc = "announce", c \in q.cur, announced' = announced, lost' = lost
  PROVE  PublishedIsAnnounced'
<1>1. BecomeWriting(r, q, {c.p}, FALSE) /\ FALSE \in BOOLEAN
  BY DEF Save
<1>2. \A p \in Posts : \A x \in Requests : Announcing(x, p) => Announcing(x, p)'
  BY <1>1, AnnouncingKept
<1>3. Announcing(r, c.p)'
  BY <1>1 DEF BecomeWriting, Announcing, At
<1>4. \A p \in Posts : p # c.p => post'[p] = post[p]
  BY DEF Save, PublishWrite, TypeOK
<1> QED
  BY <1>2, <1>3, <1>4, PublishedKept

LEMMA PublishedCalls ==
  ASSUME TypeOK, PublishedIsAnnounced, NEW r \in Requests, Call(r) \/ CronFind(r)
  PROVE  PublishedIsAnnounced'
<1>1. UNCHANGED <<post, announced, lost>>
  BY DEF Call, CronFind, DeleteAccount, Publish, Cancel, Related, Schedule, Update
<1>2. At(r, "idle")
  BY DEF Call, CronFind, DeleteAccount, Publish, Cancel, Related, Schedule, Update, Edits
<1>3. \E q : Become(r, q)
  BY DEF Call, CronFind, DeleteAccount, Publish, Cancel, Related, Schedule, Update
<1>4. PICK q : Become(r, q)
  BY <1>3
<1>5. ~At(r, "announce") /\ FALSE \in BOOLEAN
  BY <1>2 DEF At
<1> QED
  BY <1>1, <1>4, <1>5, PublishedQuiet

LEMMA PublishedContinues ==
  ASSUME TypeOK, HeldInv, PublishedIsAnnounced, NEW r \in Requests, Continue(r)
  PROVE  PublishedIsAnnounced'
<1>1. /\ req \in [Requests -> Request] /\ req[r] \in Request
      /\ \A c \in req[r].copies \cup req[r].cur : c \in Copy /\ c.p \in Posts
  <2>1. req[r] \in Request
    BY DEF TypeOK
  <2> QED
    BY <2>1 DEF Request, Copy, TypeOK
\* r moves on without publishing or announcing.
<1>2. ASSUME NEW q, ~At(r, "announce"), Become(r, q),
             UNCHANGED <<announced, lost>>,
             \A p \in Posts : post'[p].status = post[p].status
      PROVE  PublishedIsAnnounced'
  BY <1>2, FALSE \in BOOLEAN, PublishedQuiet
\* A save that publishes nothing.
<1>3. ASSUME NEW c, NEW written, NEW q, ~At(r, "announce"), Save(r, c, written, q),
             \A p \in Posts : written[p].status = "published" => post[p].status = "published",
             UNCHANGED <<announced, lost>>
      PROVE  PublishedIsAnnounced'
  <2>1. BecomeWriting(r, q, {c.p}, FALSE) /\ FALSE \in BOOLEAN /\ post' = written
    BY <1>3 DEF Save
  <2> QED
    BY <1>3, <2>1, PublishedQuiet
<1>4. CASE UpdateSave(r)
  <2>1. PICK c \in req[r].copies : UpdateSave(r)!(c)
    BY <1>4 DEF UpdateSave
  <2>2. ~At(r, "announce") /\ UNCHANGED <<announced, lost>> /\ TRUE \in BOOLEAN
    BY <2>1 DEF At
  <2>3. \A p \in Posts : post'[p].status = post[p].status
    <3>1. CASE Exists(c.p)
      BY <1>1, <2>1, <3>1 DEF TypeOK, Post
    <3>2. CASE ~Exists(c.p)
      BY <2>1, <3>2
    <3> QED
      BY <3>1, <3>2
  <2>4. \E q, S : Become(r, q) \/ BecomeWriting(r, q, S, TRUE)
    BY <2>1
  <2> QED
    BY <2>2, <2>3, <2>4, PublishedQuiet
<1>5. CASE PublishSave(r)
  <2>1. PICK c \in req[r].copies : PublishSave(r)!(c)
    BY <1>5 DEF PublishSave
  <2>2. ~At(r, "announce") /\ UNCHANGED <<announced, lost>>
    BY <2>1 DEF At
  <2>3. CASE Exists(c.p)
    <3> DEFINE q == [Idle EXCEPT !.pc = "announce", !.cur = {c}]
    <3>1. q.pc = "announce" /\ c \in q.cur
      BY DEF Idle
    <3>2. Save(r, c, PublishWrite(c), q)
      BY <2>1, <2>3
    <3> HIDE DEF q
    <3> QED
      BY <1>1, <2>2, <3>1, <3>2, PublishedSave
  <2> QED
    BY <1>2, <2>1, <2>2, <2>3
<1>6. CASE ScheduleSave(r)
  <2>1. PICK c \in req[r].copies : ScheduleSave(r)!(c)
    BY <1>6 DEF ScheduleSave
  <2>2. ~At(r, "announce") /\ UNCHANGED <<announced, lost>>
    BY <2>1 DEF At
  <2>3. \A p \in Posts : ScheduleWrite(c, req[r].at)[p].status = "published" =>
                           post[p].status = "published"
    BY <1>1 DEF ScheduleWrite, TypeOK, Post
  <2> QED
    BY <1>2, <1>3, <2>1, <2>2, <2>3
<1>7. CASE CancelSave(r)
  <2>1. PICK c \in req[r].copies : CancelSave(r)!(c)
    BY <1>7 DEF CancelSave
  <2>2. ~At(r, "announce") /\ UNCHANGED <<announced, lost>>
    BY <2>1 DEF At
  <2>3. \A p \in Posts : CancelWrite(c)[p].status = "published" =>
                           post[p].status = "published"
    BY <1>1 DEF CancelWrite, TypeOK, Post
  <2> QED
    BY <1>2, <1>3, <2>1, <2>2, <2>3
<1>8. ASSUME NEW c \in req[r].copies, CronSave(r, c) PROVE PublishedIsAnnounced'
  <2>1. ~At(r, "announce") /\ UNCHANGED <<announced, lost>>
    BY <1>8 DEF CronSave, At
  <2>2. CASE Exists(c.p)
    <3> DEFINE q == [req[r] EXCEPT !.pc = "announce", !.cur = {c}, !.copies = @ \ {c}]
    <3>1. q.pc = "announce" /\ c \in q.cur
      BY <1>1 DEF Request
    <3>2. Save(r, c, PublishWrite(c), q)
      BY <1>8, <2>2 DEF CronSave
    <3> HIDE DEF q
    <3> QED
      BY <1>1, <2>1, <3>1, <3>2, PublishedSave
  <2> QED
    BY <1>2, <1>8, <2>1, <2>2 DEF CronSave
<1>9. CASE Announce(r)
  <2>1. PICK c \in req[r].cur : Announce(r)!(c)
    BY <1>9 DEF Announce
\* c is the only copy r holds: what r was announcing is announced or lost.
  <2>2. \A p \in Posts : Announcing(r, p) => p = c.p
    BY <2>1 DEF Announcing, HeldInv, Held, CopiesOK
  <2>3. \A x \in Requests \ {r}, p \in Posts : Announcing(x, p) <=> Announcing(x, p)'
    BY <2>1, MoveAnnounces
  <2>4. /\ c.p \in lost' \/ announced'[c.p] > 0
        /\ lost \subseteq lost'
        /\ \A p \in Posts : announced[p] > 0 => announced'[p] > 0
    <3>1. CASE c.by = NoUser
      BY <1>1, <2>1, <3>1
    <3>2. CASE c.by # NoUser
      BY <1>1, <2>1, <3>2 DEF TypeOK
    <3> QED
      BY <3>1, <3>2
  <2>5. \A p \in Posts : \A x \in Requests : Announcing(x, p) =>
          Announcing(x, p)' \/ p \in lost' \/ announced'[p] > 0
    BY <2>2, <2>3, <2>4
  <2>6. post' = post
    BY <2>1
  <2> QED
    BY <2>4, <2>5, <2>6, PublishedKept
<1>10. CASE Embed(r)
  <2>1. PICK c \in req[r].cur, ok \in BOOLEAN : Embed(r)!(c, ok)
    BY <1>10 DEF Embed
  <2>2. \A p \in Posts : post'[p].status = post[p].status
    BY <1>1, <2>1 DEF TypeOK, Post
  <2>3. ~At(r, "announce")
    BY <2>1 DEF At
  <2> QED
    BY <1>2, <2>1, <2>2, <2>3
<1>11. CASE RelatedLook(r)
  <2>1. /\ ~At(r, "announce") /\ UNCHANGED <<post, announced, lost>>
        /\ \E q : Become(r, q)
    BY <1>11 DEF RelatedLook, At
  <2> QED
    BY <1>2, <2>1
<1>12. CASE DraftPosts(r)
  <2>1. /\ ~At(r, "announce") /\ UNCHANGED <<announced, lost>> /\ FALSE \in BOOLEAN
        /\ \E q, S : BecomeWriting(r, q, S, FALSE)
    BY <1>12 DEF DraftPosts, At
  <2>2. \A p \in Posts : post'[p].status = "published" => post[p].status = "published"
    BY <1>12 DEF DraftPosts, TypeOK, Post
  <2> QED
    BY <2>1, <2>2, PublishedQuiet
<1>13. CASE DeleteUser(r)
  <2>1. ~At(r, "announce") /\ UNCHANGED <<post, announced, lost>> /\ Become(r, Idle)
    BY <1>13 DEF DeleteUser, At
  <2> QED
    BY <1>2, <2>1
<1> QED
  BY <1>4, <1>5, <1>6, <1>7, <1>8, <1>9, <1>10, <1>11, <1>12, <1>13 DEF Continue

LEMMA PublishedWorld ==
  ASSUME TypeOK, HeldInv, PublishedIsAnnounced, Environment \/ \E r \in Requests : Crash(r)
  PROVE  PublishedIsAnnounced'
<1>1. ASSUME NEW r \in Requests, Crash(r) PROVE PublishedIsAnnounced'
  <2>1. Become(r, Idle) /\ UNCHANGED <<post, announced>> /\ lost \subseteq lost'
    BY <1>1 DEF Crash
  <2>2. \A x \in Requests \ {r}, p \in Posts : Announcing(x, p) => Announcing(x, p)'
    BY <2>1, MoveAnnounces
  <2>3. \A p \in Posts : Announcing(r, p) => p \in lost'
    BY <1>1 DEF Crash, Announcing
  <2> QED
    BY <2>1, <2>2, <2>3, PublishedKept
<1>2. ASSUME NEW u \in Users, NEW p \in Posts, Remove(u, p) PROVE PublishedIsAnnounced'
  BY <1>2, PublishedKept DEF Remove, TypeOK, Post, Announcing, At
<1>3. ASSUME NEW u \in Users, NEW p \in Posts, NEW c \in Contents, Create(u, p, c)
      PROVE  PublishedIsAnnounced'
  BY <1>3, PublishedKept DEF Create, TypeOK, Announcing, At
<1>4. CASE Tick
  BY <1>4, PublishedKept DEF Tick, Announcing, At
<1> QED
  BY <1>1, <1>2, <1>3, <1>4 DEF Environment

LEMMA PublishedNext ==
  TypeOK /\ HeldInv /\ PublishedIsAnnounced /\ [Next]_vars => PublishedIsAnnounced'
<1> SUFFICES ASSUME TypeOK, HeldInv, PublishedIsAnnounced, [Next]_vars
             PROVE  PublishedIsAnnounced'
  OBVIOUS
<1>1. CASE UNCHANGED vars
  BY <1>1 DEF vars, PublishedIsAnnounced, Announcing, At
<1>2. CASE Next
  BY <1>2, PublishedCalls, PublishedContinues, PublishedWorld DEF Next
<1> QED
  BY <1>1, <1>2

\* PublishedIsAnnounced, for every number of posts, requests and runs: no
\* interleaving publishes a post that nobody announces, unless a lost process
\* or the null author of a deleted account cuts its announcement off.
THEOREM PublishedIsAnnouncedCorrect == Spec => []PublishedIsAnnounced
<1>1. Init => PublishedIsAnnounced
  BY DEF Init, PublishedIsAnnounced
<1> QED
  BY <1>1, TypeInit, TypeNext, HeldStart, HeldNext, PublishedNext, PTL DEF Spec

-----------------------------------------------------------------------------
(* Embeddings                                                              *)

\* What a copy d says of its post's text is what the post has, unless the copy
\* is marked; a post that was copied is no longer to be created.
Worded(d) ==
  /\ post[d.p].status # "new"
  /\ d.reworded \/ d.content = post[d.p].content

Copies(x) == req[x].copies \cup req[x].cur

WordsInv == \A x \in Requests : \A d \in Copies(x) : Worded(d)

\* A step that changes the text of no post but those in S, and marks it.
TextsStay(S, w) == \A p \in Posts : post[p].status # "new" =>
  /\ post'[p].status # "new"
  /\ post'[p].content = post[p].content \/ (p \in S /\ w)

\* r goes on as q, having written the posts in S, if any.
MovesOn(r, q, S, w) == (S = {} /\ Become(r, q)) \/ BecomeWriting(r, q, S, w)

LEMMA WordFields ==
  ASSUME NEW c \in Copy, NEW S, NEW w \in BOOLEAN
  PROVE  /\ AgedCopy(c, S, w).p = c.p
         /\ AgedCopy(c, S, w).content = c.content
         /\ c.reworded \/ (c.p \in S /\ w) => AgedCopy(c, S, w).reworded
BY DEF Copy, AgedCopy

\* What the other requests hold after the step follows from what they held.
LEMMA OthersCopies ==
  ASSUME TypeOK, NEW r \in Requests, NEW q, NEW S, NEW w \in BOOLEAN,
         MovesOn(r, q, S, w), NEW x \in Requests \ {r}
  PROVE  /\ req'[x].pc = req[x].pc
         /\ \A d \in req'[x].copies \cup req'[x].cur : \E c \in Copies(x) :
              /\ d.p = c.p /\ d.content = c.content
              /\ c.reworded \/ (c.p \in S /\ w) => d.reworded
         /\ \A c \in req[x].cur : \E d \in req'[x].cur : d.p = c.p
<1>1. /\ req \in [Requests -> Request] /\ req[x] \in Request
      /\ req[x].copies \in SUBSET Copy /\ req[x].cur \in SUBSET Copy
  BY DEF TypeOK, Request
<1>2. CASE S = {} /\ Become(r, q)
  <2>1. req'[x] = req[x]
    BY <1>1, <1>2 DEF Become
  <2> QED BY <1>2, <2>1 DEF Copies
<1>3. CASE BecomeWriting(r, q, S, w)
  <2> DEFINE f(c) == AgedCopy(c, S, w)
  <2>1. req'[x] = [req[x] EXCEPT !.copies = Aged(@, S, w), !.cur = Aged(@, S, w)]
    BY <1>3 DEF BecomeWriting
  <2>2. /\ req'[x].copies = {f(c) : c \in req[x].copies}
        /\ req'[x].cur = {f(c) : c \in req[x].cur}
        /\ req'[x].pc = req[x].pc
    BY <1>1, <2>1, AgedCopies DEF Request
  <2>3. \A c \in Copies(x) :
          /\ f(c).p = c.p /\ f(c).content = c.content
          /\ c.reworded \/ (c.p \in S /\ w) => f(c).reworded
    BY <1>1, WordFields DEF Copies
  <2> HIDE DEF f
  <2> QED BY <2>2, <2>3 DEF Copies
<1> QED BY <1>2, <1>3 DEF MovesOn

LEMMA WordsStep ==
  ASSUME TypeOK, WordsInv, NEW r \in Requests, NEW q, NEW S, NEW w \in BOOLEAN,
         MovesOn(r, q, S, w), TextsStay(S, w),
         \A d \in q.copies \cup q.cur :
           /\ post'[d.p].status # "new"
           /\ d.reworded \/ d.content = post'[d.p].content
  PROVE  WordsInv'
<1>1. req \in [Requests -> Request]
  BY DEF TypeOK
<1>2. req'[r] = q
  BY <1>1 DEF MovesOn, Become, BecomeWriting
<1>3. ASSUME NEW x \in Requests, NEW d \in req'[x].copies \cup req'[x].cur
      PROVE  /\ post'[d.p].status # "new"
             /\ d.reworded \/ d.content = post'[d.p].content
  <2>1. CASE x = r
    BY <1>2, <1>3, <2>1
  <2>2. CASE x # r
    <3>1. PICK c \in Copies(x) :
            /\ d.p = c.p /\ d.content = c.content
            /\ c.reworded \/ (c.p \in S /\ w) => d.reworded
      BY <1>3, <2>2, OthersCopies
    <3>2. c.p \in Posts /\ Worded(c)
      BY HeldType, TypeParts DEF Copies, WordsInv
    <3> QED BY <3>1, <3>2 DEF Worded, TextsStay
  <2> QED BY <2>1, <2>2
<1> QED BY <1>3 DEF WordsInv, Copies, Worded

\* A step that leaves the copies alone.
LEMMA WordsStay ==
  ASSUME TypeOK, WordsInv, req' = req, TextsStay({}, FALSE)
  PROVE  WordsInv'
<1>1. \A x \in Requests : \A d \in Copies(x) : d.p \in Posts /\ Worded(d)
  BY HeldType, TypeParts DEF Copies, WordsInv
<1> QED BY <1>1 DEF WordsInv, Copies, Worded, TextsStay

\* A call copies a post that is there, if any.
LEMMA WordsCalls ==
  ASSUME TypeOK, WordsInv, NEW r \in Requests, Call(r) \/ CronFind(r)
  PROVE  WordsInv'
<1>1. UNCHANGED post
  BY DEF Call, CronFind, DeleteAccount, Publish, Cancel, Related, Schedule, Update
<1>2. TextsStay({}, FALSE)
  BY <1>1 DEF TextsStay
<1>3. ASSUME NEW q, Become(r, q),
             \A d \in q.copies \cup q.cur : \E p \in Posts : \E u :
               d = CopyOf(p, u) /\ post[p].status # "new"
      PROVE  WordsInv'
  <2>1. \A d \in q.copies \cup q.cur :
          /\ post'[d.p].status # "new"
          /\ d.reworded \/ d.content = post'[d.p].content
    BY <1>1, <1>3 DEF CopyOf
  <2>2. MovesOn(r, q, {}, FALSE)
    BY <1>3 DEF MovesOn
  <2>3. FALSE \in BOOLEAN
    OBVIOUS
  <2> QED BY <1>2, <2>1, <2>2, <2>3, WordsStep
<1>4. ASSUME NEW u \in Users, DeleteAccount(r, u) PROVE WordsInv'
  <2> DEFINE q == [Idle EXCEPT !.pc = "draftPosts", !.user = u]
  <2>1. q.copies = {} /\ q.cur = {}
    BY DEF Idle
  <2> HIDE DEF q
  <2>2. Become(r, q)
    BY <1>4 DEF DeleteAccount, q
  <2> QED BY <1>3, <2>1, <2>2
<1>5. ASSUME NEW u \in Users, NEW p \in Posts, NEW q, Exists(p), Become(r, q),
             q.copies = {CopyOf(p, u)}, q.cur = {}
      PROVE  WordsInv'
  BY <1>3, <1>5 DEF Exists
<1>6. ASSUME NEW u \in Users, NEW p \in Posts, NEW pc
      PROVE  Opened(pc, u, p).copies = {CopyOf(p, u)} /\ Opened(pc, u, p).cur = {}
  BY DEF Opened, Idle
<1>7. ASSUME NEW u \in Users, NEW p \in Posts, Publish(r, u, p) \/ Cancel(r, u, p)
      PROVE  WordsInv'
  <2>1. Exists(p) /\ \E pc : Become(r, Opened(pc, u, p))
    BY <1>7 DEF Publish, Cancel, Edits
  <2> QED BY <1>5, <1>6, <2>1
<1>8. ASSUME NEW u \in Users, NEW p \in Posts, NEW t \in Dates, Schedule(r, u, p, t)
      PROVE  WordsInv'
  <2> DEFINE q == [Opened("scheduleSave", u, p) EXCEPT !.at = t]
  <2>1. q.copies = {CopyOf(p, u)} /\ q.cur = {}
    BY DEF Opened, Idle
  <2>2. Exists(p) /\ Become(r, q)
    BY <1>8 DEF Schedule, Edits
  <2> HIDE DEF q
  <2> QED BY <1>5, <2>1, <2>2
<1>9. ASSUME NEW u \in Users, NEW p \in Posts, NEW c \in Contents, Update(r, u, p, c)
      PROVE  WordsInv'
  <2> DEFINE q == [Opened("updateSave", u, p) EXCEPT !.content = c]
  <2>1. q.copies = {CopyOf(p, u)} /\ q.cur = {}
    BY DEF Opened, Idle
  <2>2. Exists(p) /\ Become(r, q)
    BY <1>9 DEF Update, Edits
  <2> HIDE DEF q
  <2> QED BY <1>5, <2>1, <2>2
<1>10. ASSUME NEW p \in Posts, Related(r, p) PROVE WordsInv'
  <2> DEFINE q == [Idle EXCEPT !.pc = "related", !.cur = {CopyOf(p, NoUser)}]
  <2>1. q.copies = {} /\ q.cur = {CopyOf(p, NoUser)}
    BY DEF Idle
  <2> HIDE DEF q
  <2>2. Become(r, q) /\ post[p].status # "new"
    BY <1>10 DEF Related, q
  <2> QED BY <1>3, <2>1, <2>2
<1>11. CASE CronFind(r)
  <2> DEFINE q == [Idle EXCEPT !.pc = "cronSave",
                     !.copies = {CopyOf(p, Author(p)) : p \in {x \in Posts : Due(x)}}]
  <2>1. q.copies = {CopyOf(p, Author(p)) : p \in {x \in Posts : Due(x)}} /\ q.cur = {}
    BY DEF Idle
  <2> HIDE DEF q
  <2>2. Become(r, q)
    BY <1>11 DEF CronFind, q
  <2>3. \A p \in Posts : Due(p) => post[p].status # "new"
    BY DEF Due
  <2>4. \A d \in q.copies \cup q.cur : \E p \in Posts : \E u :
          d = CopyOf(p, u) /\ post[p].status # "new"
    BY <2>1, <2>3
  <2> QED BY <1>3, <2>2, <2>4
<1> QED BY <1>4, <1>7, <1>8, <1>9, <1>10, <1>11 DEF Call

LEMMA WordsContinues ==
  ASSUME TypeOK, WordsInv, NEW r \in Requests, Continue(r)
  PROVE  WordsInv'
<1>0. FALSE \in BOOLEAN /\ TRUE \in BOOLEAN
  OBVIOUS
<1>1. /\ req[r] \in Request
      /\ req[r].copies \in SUBSET Copy /\ req[r].cur \in SUBSET Copy
      /\ \A d \in Copies(r) : d \in Copy /\ d.p \in Posts /\ Worded(d)
  BY HeldType, TypeParts DEF Copies, WordsInv
\* r goes on with some of its copies, having written no text.
<1>2. ASSUME NEW q, NEW S, MovesOn(r, q, S, FALSE), TextsStay(S, FALSE),
             q.copies \cup q.cur \subseteq Copies(r)
      PROVE  WordsInv'
  <2>1. \A d \in q.copies \cup q.cur :
          /\ post'[d.p].status # "new"
          /\ d.reworded \/ d.content = post'[d.p].content
    BY <1>1, <1>2 DEF Worded, TextsStay
  <2> QED BY <1>0, <1>2, <2>1, WordsStep
<1>3. ASSUME UNCHANGED post PROVE \A S : TextsStay(S, FALSE)
  BY <1>3 DEF TextsStay
<1>4. Idle.copies = {} /\ Idle.cur = {}
  BY DEF Idle
\* r is done, and wrote nothing.
<1>5. ASSUME Become(r, Idle), UNCHANGED post PROVE WordsInv'
  <2>1. MovesOn(r, Idle, {}, FALSE) /\ TextsStay({}, FALSE)
    BY <1>3, <1>5 DEF MovesOn
  <2> QED BY <1>2, <1>4, <2>1
\* A save of a status.
<1>6. ASSUME NEW c \in req[r].copies, NEW q, NEW t, Save(r, c, post', q),
             post' \in {PublishWrite(c), CancelWrite(c), ScheduleWrite(c, t)},
             q.copies \cup q.cur \subseteq Copies(r)
      PROVE  WordsInv'
  <2>1. MovesOn(r, q, {c.p}, FALSE)
    BY <1>6 DEF Save, MovesOn
  <2>2. c.p \in Posts /\ post[c.p].status # "new"
    BY <1>1 DEF Copies, Worded
  <2>3. TextsStay({c.p}, FALSE)
    <3> SUFFICES ASSUME NEW p \in Posts, post[p].status # "new"
                 PROVE  post'[p].status # "new" /\ post'[p].content = post[p].content
      BY DEF TextsStay
    <3>1. post \in [Posts -> Post]
      BY DEF TypeOK
    <3>2. CASE post' = PublishWrite(c)
      BY <2>2, <3>1, <3>2 DEF PublishWrite, Post
    <3>3. CASE post' = CancelWrite(c)
      BY <2>2, <3>1, <3>3 DEF CancelWrite, Post
    <3>4. CASE post' = ScheduleWrite(c, t)
      BY <2>2, <3>1, <3>4 DEF ScheduleWrite, Post
    <3> QED BY <1>6, <3>2, <3>3, <3>4
  <2> QED BY <1>2, <1>6, <2>1, <2>3
<1>7. CASE UpdateSave(r)
  <2>1. PICK c \in req[r].copies : UpdateSave(r)!(c)
    BY <1>7 DEF UpdateSave
  <2>2. CASE Exists(c.p)
    <3> DEFINE e == [c EXCEPT !.content = req[r].content,
                              !.reworded = @ /\ req[r].content = c.content]
               q == IF Reembeds(c) THEN [Idle EXCEPT !.pc = "embed", !.cur = {e}]
                    ELSE Idle
    <3>1. MovesOn(r, q, {c.p}, TRUE)
      BY <2>1, <2>2 DEF MovesOn
    <3>2. c \in Copy /\ c.p \in Posts /\ Worded(c)
      BY <1>1 DEF Copies
    <3>3. /\ e.p = c.p /\ e.content = req[r].content
          /\ e.reworded = (c.reworded /\ req[r].content = c.content)
      BY <3>2 DEF Copy
    <3>4. q.copies \cup q.cur \subseteq {e}
      BY DEF Idle
    <3> HIDE DEF e, q
    <3>5. /\ post' = [post EXCEPT ![c.p].content =
                        IF req[r].content = c.content THEN @ ELSE req[r].content]
          /\ post \in [Posts -> Post]
      BY <2>1, <2>2 DEF TypeOK
    <3>6. TextsStay({c.p}, TRUE)
      BY <3>2, <3>5 DEF TextsStay, Post
    <3>7. /\ post'[c.p].status # "new"
          /\ e.reworded \/ e.content = post'[c.p].content
      BY <3>2, <3>3, <3>5 DEF Worded, Post
    <3> QED BY <1>0, <3>1, <3>3, <3>4, <3>6, <3>7, WordsStep
  <2> QED BY <1>5, <2>1, <2>2
<1>8. CASE PublishSave(r)
  <2>1. PICK c \in req[r].copies : PublishSave(r)!(c)
    BY <1>8 DEF PublishSave
  <2>2. CASE Exists(c.p)
    <3> DEFINE q == [Idle EXCEPT !.pc = "announce", !.cur = {c}]
    <3>1. q.copies \cup q.cur \subseteq Copies(r)
      BY DEF Idle, Copies
    <3>2. Save(r, c, post', q) /\ post' = PublishWrite(c)
      BY <2>1, <2>2 DEF Save
    <3> HIDE DEF q
    <3> QED BY <1>6, <3>1, <3>2
  <2> QED BY <1>5, <2>1, <2>2
<1>9. CASE ScheduleSave(r)
  <2>1. PICK c \in req[r].copies : ScheduleSave(r)!(c)
    BY <1>9 DEF ScheduleSave
  <2>2. CASE Exists(c.p)
    <3>1. Save(r, c, post', Idle) /\ post' = ScheduleWrite(c, req[r].at)
      BY <2>1, <2>2 DEF Save
    <3>2. Idle.copies \cup Idle.cur \subseteq Copies(r)
      BY <1>4
    <3> QED BY <1>6, <3>1, <3>2
  <2> QED BY <1>5, <2>1, <2>2
<1>10. CASE CancelSave(r)
  <2>1. PICK c \in req[r].copies : CancelSave(r)!(c)
    BY <1>10 DEF CancelSave
  <2>2. CASE Exists(c.p)
    <3>1. Save(r, c, post', Idle) /\ post' = CancelWrite(c)
      BY <2>1, <2>2 DEF Save
    <3>2. Idle.copies \cup Idle.cur \subseteq Copies(r)
      BY <1>4
    <3> QED BY <1>6, <3>1, <3>2
  <2> QED BY <1>5, <2>1, <2>2
<1>11. ASSUME NEW c \in req[r].copies, CronSave(r, c) PROVE WordsInv'
  <2>1. CASE Exists(c.p)
    <3> DEFINE q == [req[r] EXCEPT !.pc = "announce", !.cur = {c}, !.copies = @ \ {c}]
    <3>1. q.copies \cup q.cur \subseteq Copies(r)
      BY <1>1 DEF Request, Copies
    <3>2. Save(r, c, post', q) /\ post' = PublishWrite(c)
      BY <1>11, <2>1 DEF CronSave, Save
    <3> HIDE DEF q
    <3> QED BY <1>6, <3>1, <3>2
  <2> QED BY <1>5, <1>11, <2>1 DEF CronSave
\* r looks at nothing new, and wrote no text.
<1>12. ASSUME NEW q, Become(r, q), TextsStay({}, FALSE),
              q.copies \cup q.cur \subseteq Copies(r)
       PROVE  WordsInv'
  <2>1. MovesOn(r, q, {}, FALSE)
    BY <1>12 DEF MovesOn
  <2> QED BY <1>2, <1>12, <2>1
<1>13. ASSUME NEW pc
       PROVE  LET q == [req[r] EXCEPT !.pc = pc] IN q.copies \cup q.cur \subseteq Copies(r)
  BY <1>1 DEF Request, Copies
<1>14. CASE Announce(r)
  <2>1. PICK c \in req[r].cur : Announce(r)!(c)
    BY <1>14 DEF Announce
  <2>2. CASE c.by # NoUser
    <3> DEFINE q == [req[r] EXCEPT !.pc = "embed"]
    <3>1. Become(r, q) /\ UNCHANGED post
      BY <2>1, <2>2
    <3>2. q.copies \cup q.cur \subseteq Copies(r)
      BY <1>13
    <3> HIDE DEF q
    <3> QED BY <1>3, <1>12, <3>1, <3>2
  <2> QED BY <1>5, <2>1, <2>2
<1>15. CASE Embed(r)
  <2>1. PICK c \in req[r].cur, ok \in BOOLEAN : Embed(r)!(c, ok)
    BY <1>15 DEF Embed
  <2>2. Become(r, AfterEmbed(req[r]))
    BY <2>1
  <2>3. AfterEmbed(req[r]).copies \cup AfterEmbed(req[r]).cur \subseteq Copies(r)
    BY <1>1, <1>4 DEF AfterEmbed, Request, Copies
  <2>4. TextsStay({}, FALSE)
    BY <1>1, <2>1 DEF TextsStay, TypeOK, Post, Copies
  <2> QED BY <1>12, <2>2, <2>3, <2>4
<1>16. CASE RelatedLook(r)
  <2>1. PICK c \in req[r].cur : RelatedLook(r)!(c)
    BY <1>16 DEF RelatedLook
  <2>2. CASE post[c.p].embedding = NoContent
    <3> DEFINE q == [req[r] EXCEPT !.pc = "embed"]
    <3>1. Become(r, q) /\ UNCHANGED post
      BY <2>1, <2>2
    <3>2. q.copies \cup q.cur \subseteq Copies(r)
      BY <1>13
    <3> HIDE DEF q
    <3> QED BY <1>3, <1>12, <3>1, <3>2
  <2> QED BY <1>5, <2>1, <2>2
<1>17. CASE DraftPosts(r)
  <2> DEFINE mine == {p \in Posts : AuthorOf[p] = req[r].user /\ Exists(p)}
             q == [req[r] EXCEPT !.pc = "deleteUser"]
  <2>1. MovesOn(r, q, mine, FALSE)
    BY <1>17 DEF DraftPosts, MovesOn
  <2>2. TextsStay(mine, FALSE)
    BY <1>17 DEF DraftPosts, TextsStay, TypeOK, Post
  <2>3. q.copies \cup q.cur \subseteq Copies(r)
    BY <1>13
  <2> HIDE DEF mine, q
  <2> QED BY <1>2, <2>1, <2>2, <2>3
<1>18. CASE DeleteUser(r)
  BY <1>5, <1>18 DEF DeleteUser
<1> QED
  BY <1>7, <1>8, <1>9, <1>10, <1>11, <1>14, <1>15, <1>16, <1>17, <1>18 DEF Continue

LEMMA WordsNext == TypeOK /\ WordsInv /\ [Next]_vars => WordsInv'
<1> SUFFICES ASSUME TypeOK, WordsInv, [Next]_vars PROVE WordsInv'
  OBVIOUS
<1>1. CASE UNCHANGED vars
  BY <1>1, WordsStay DEF vars, TextsStay
<1>2. ASSUME NEW r \in Requests, Crash(r) PROVE WordsInv'
  <2>1. MovesOn(r, Idle, {}, FALSE) /\ TextsStay({}, FALSE)
    BY <1>2 DEF Crash, MovesOn, TextsStay
  <2>2. Idle.copies \cup Idle.cur = {} /\ FALSE \in BOOLEAN
    BY DEF Idle
  <2> QED BY <2>1, <2>2, WordsStep
<1>3. CASE Environment
  <2>1. req' = req
    BY <1>3 DEF Environment, Remove, Create, Tick
  <2>2. TextsStay({}, FALSE)
    <3>1. ASSUME NEW u \in Users, NEW p \in Posts, Remove(u, p) PROVE TextsStay({}, FALSE)
      BY <3>1 DEF Remove, TextsStay, TypeOK, Post
    <3>2. ASSUME NEW u \in Users, NEW p \in Posts, NEW c \in Contents, Create(u, p, c)
          PROVE  TextsStay({}, FALSE)
      BY <3>2 DEF Create, TextsStay, TypeOK
    <3>3. CASE Tick
      BY <3>3 DEF Tick, TextsStay
    <3> QED BY <1>3, <3>1, <3>2, <3>3 DEF Environment
  <2> QED BY <2>1, <2>2, WordsStay
<1> QED BY <1>1, <1>2, <1>3, WordsCalls, WordsContinues DEF Next

\* A post found by the embedding of another text.
Misleads(p) ==
  /\ post[p].status = "published" /\ post[p].embedding # NoContent
  /\ post[p].embedding # post[p].content

\* x has still to embed p.
Embeds(x, p) == req[x].pc \in {"announce", "embed"} /\ \E c \in req[x].cur : c.p = p

LEMMA EmbeddingMeans ==
  EmbeddingCurrent <=>
    \A p \in Posts : Misleads(p) => p \in blurred \/ \E x \in Requests : Embeds(x, p)
BY DEF EmbeddingCurrent, Misleads, Embeds

LEMMA EmbeddingMeansAfter ==
  EmbeddingCurrent' <=>
    \A p \in Posts : Misleads(p)' => p \in blurred' \/ \E x \in Requests : Embeds(x, p)'
BY DEF EmbeddingCurrent, Misleads, Embeds

\* What a step of r must see to: r embeds, or has embedded, what its step
\* makes misleading, and the others go on.
LEMMA EmbeddingKept ==
  ASSUME TypeOK, EmbeddingCurrent, NEW r \in Requests, NEW q, NEW S, NEW w \in BOOLEAN,
         MovesOn(r, q, S, w), blurred \subseteq blurred',
         \A p \in Posts : Misleads(p)' =>
           \/ Misleads(p) /\ ~Embeds(r, p)
           \/ p \in blurred'
           \/ q.pc \in {"announce", "embed"} /\ \E c \in q.cur : c.p = p
  PROVE  EmbeddingCurrent'
<1>1. req \in [Requests -> Request]
  BY DEF TypeOK
<1>2. req'[r] = q
  BY <1>1 DEF MovesOn, Become, BecomeWriting
<1>3. ASSUME NEW p \in Posts, Misleads(p)'
      PROVE  p \in blurred' \/ \E x \in Requests : Embeds(x, p)'
  <2>1. CASE Misleads(p) /\ ~Embeds(r, p)
    <3>1. p \in blurred \/ \E x \in Requests \ {r} : Embeds(x, p)
      BY <2>1, EmbeddingMeans
    <3>2. ASSUME NEW x \in Requests \ {r}, Embeds(x, p) PROVE Embeds(x, p)'
      <4>1. /\ req'[x].pc = req[x].pc
            /\ \A c \in req[x].cur : \E d \in req'[x].cur : d.p = c.p
        BY OthersCopies
      <4> QED BY <3>2, <4>1 DEF Embeds
    <3> QED BY <3>1, <3>2
  <2>2. CASE q.pc \in {"announce", "embed"} /\ \E c \in q.cur : c.p = p
    <3>1. Embeds(r, p)'
      BY <1>2, <2>2 DEF Embeds
    <3> QED BY <3>1
  <2> QED BY <1>3, <2>1, <2>2
<1> QED BY <1>3, EmbeddingMeansAfter

\* The same of a step that makes nothing misleading and ends no embedding.
LEMMA EmbeddingQuiet ==
  ASSUME TypeOK, EmbeddingCurrent, NEW r \in Requests, NEW q, NEW S,
         req[r].pc \notin {"announce", "embed"},
         MovesOn(r, q, S, FALSE), blurred \subseteq blurred',
         \A p \in Posts : Misleads(p)' => Misleads(p)
  PROVE  EmbeddingCurrent'
<1>1. \A p \in Posts : ~Embeds(r, p)
  BY DEF Embeds
<1>2. FALSE \in BOOLEAN
  OBVIOUS
<1> QED BY <1>1, <1>2, EmbeddingKept

LEMMA EmbeddingCalls ==
  ASSUME TypeOK, EmbeddingCurrent, NEW r \in Requests, Call(r) \/ CronFind(r)
  PROVE  EmbeddingCurrent'
<1>1. UNCHANGED <<post, blurred>>
  BY DEF Call, CronFind, DeleteAccount, Publish, Cancel, Related, Schedule, Update
<1>2. At(r, "idle")
  BY DEF Call, CronFind, DeleteAccount, Publish, Cancel, Related, Schedule, Update, Edits
<1>3. \E q : Become(r, q)
  BY DEF Call, CronFind, DeleteAccount, Publish, Cancel, Related, Schedule, Update
<1>4. PICK q : MovesOn(r, q, {}, FALSE)
  BY <1>3 DEF MovesOn
<1>5. \A p \in Posts : Misleads(p)' => Misleads(p)
  BY <1>1 DEF Misleads
<1>6. req[r].pc \notin {"announce", "embed"} /\ blurred \subseteq blurred'
  BY <1>1, <1>2 DEF At
<1> QED BY <1>4, <1>5, <1>6, EmbeddingQuiet

LEMMA EmbeddingContinues ==
  ASSUME TypeOK, HeldInv, WordsInv, EmbeddingCurrent, NEW r \in Requests, Continue(r)
  PROVE  EmbeddingCurrent'
<1>0. FALSE \in BOOLEAN /\ TRUE \in BOOLEAN /\ post \in [Posts -> Post]
  BY DEF TypeOK
<1>1. /\ req[r] \in Request
      /\ req[r].copies \in SUBSET Copy /\ req[r].cur \in SUBSET Copy
      /\ \A d \in Copies(r) : d \in Copy /\ d.p \in Posts /\ Worded(d)
  BY HeldType, TypeParts DEF Copies, WordsInv
<1>2. \A c, d \in req[r].cur : c = d
  BY DEF HeldInv, Held, CopiesOK
\* r moves on without writing, and was not to embed anything.
<1>3. ASSUME NEW q, Become(r, q), UNCHANGED <<post, blurred>>,
             req[r].pc \notin {"announce", "embed"}
      PROVE  EmbeddingCurrent'
  <2>1. MovesOn(r, q, {}, FALSE) /\ \A p \in Posts : Misleads(p)' => Misleads(p)
    BY <1>3 DEF MovesOn, Misleads
  <2> QED BY <1>3, <2>1, EmbeddingQuiet
\* A save that publishes a post, which r goes on to announce and embed.
<1>4. ASSUME NEW c \in req[r].copies, NEW q, Save(r, c, PublishWrite(c), q),
             blurred' = blurred, q.pc = "announce", q.cur = {c},
             req[r].pc \notin {"announce", "embed"}
      PROVE  EmbeddingCurrent'
  <2>1. MovesOn(r, q, {c.p}, FALSE)
    BY <1>4 DEF Save, MovesOn
  <2>2. \A p \in Posts : ~Embeds(r, p)
    BY <1>4 DEF Embeds
  <2>3. \A p \in Posts : p # c.p => post'[p] = post[p]
    BY <1>0, <1>4 DEF Save, PublishWrite
  <2>4. \A p \in Posts : Misleads(p)' => p = c.p \/ Misleads(p)
    BY <2>3 DEF Misleads
  <2> QED BY <1>0, <1>4, <2>1, <2>2, <2>4, EmbeddingKept
<1>5. CASE UpdateSave(r)
  <2>1. PICK c \in req[r].copies : UpdateSave(r)!(c)
    BY <1>5 DEF UpdateSave
  <2>2. req[r].pc = "updateSave" /\ c \in Copy /\ c.p \in Posts
    BY <1>1, <2>1 DEF At, Copies
  <2>3. CASE Exists(c.p)
    <3> DEFINE e == [c EXCEPT !.content = req[r].content,
                              !.reworded = @ /\ req[r].content = c.content]
               q == IF Reembeds(c) THEN [Idle EXCEPT !.pc = "embed", !.cur = {e}]
                    ELSE Idle
    <3>1. MovesOn(r, q, {c.p}, TRUE)
      BY <2>1, <2>3 DEF MovesOn
    <3>2. e.p = c.p
      BY <2>2 DEF Copy
    <3>3. c.status = "published" => q.pc = "embed" /\ q.cur = {e}
      BY DEF Reembeds, Idle
    <3> HIDE DEF e, q
    <3>4. /\ \A p \in Posts : p # c.p => post'[p] = post[p]
          /\ post'[c.p].status = post[c.p].status
          /\ blurred \subseteq blurred'
          /\ c.status # "published" /\ c.stale => c.p \in blurred'
      BY <1>0, <2>1, <2>2, <2>3 DEF Post
    <3>5. ASSUME Misleads(c.p)'
          PROVE  c.p \in blurred' \/ (q.pc \in {"announce", "embed"} /\ \E d \in q.cur : d.p = c.p)
      <4>1. post[c.p].status = "published"
        BY <3>4, <3>5 DEF Misleads
      <4>2. c.stale \/ c.status = "published"
        BY <4>1 DEF HeldInv, Held, CopiesOK, Matches
      <4> QED BY <3>2, <3>3, <3>4, <4>2
    <3>6. \A p \in Posts : Misleads(p)' => p = c.p \/ Misleads(p)
      BY <3>4 DEF Misleads
    <3>7. \A p \in Posts : ~Embeds(r, p)
      BY <2>2 DEF Embeds
    <3> QED BY <1>0, <3>1, <3>4, <3>5, <3>6, <3>7, EmbeddingKept
  <2> QED BY <1>3, <2>1, <2>2, <2>3
<1>6. CASE PublishSave(r)
  <2>1. PICK c \in req[r].copies : PublishSave(r)!(c)
    BY <1>6 DEF PublishSave
  <2>2. req[r].pc \notin {"announce", "embed"} /\ UNCHANGED blurred
    BY <2>1 DEF At
  <2>3. CASE Exists(c.p)
    <3> DEFINE q == [Idle EXCEPT !.pc = "announce", !.cur = {c}]
    <3>1. q.pc = "announce" /\ q.cur = {c}
      BY DEF Idle
    <3>2. Save(r, c, PublishWrite(c), q)
      BY <2>1, <2>3
    <3> HIDE DEF q
    <3> QED BY <1>4, <2>2, <3>1, <3>2
  <2> QED BY <1>3, <2>1, <2>2, <2>3
<1>7. CASE ScheduleSave(r)
  <2>1. PICK c \in req[r].copies : ScheduleSave(r)!(c)
    BY <1>7 DEF ScheduleSave
  <2>2. req[r].pc \notin {"announce", "embed"} /\ UNCHANGED blurred
    BY <2>1 DEF At
  <2>3. CASE Exists(c.p)
    <3>1. MovesOn(r, Idle, {c.p}, FALSE) /\ post' = ScheduleWrite(c, req[r].at)
      BY <2>1, <2>3 DEF Save, MovesOn
    <3>2. \A p \in Posts : Misleads(p)' => Misleads(p)
      BY <1>0, <1>1, <3>1 DEF Misleads, ScheduleWrite, Post, Copies
    <3> QED BY <2>2, <3>1, <3>2, EmbeddingQuiet
  <2> QED BY <1>3, <2>1, <2>2, <2>3
<1>8. CASE CancelSave(r)
  <2>1. PICK c \in req[r].copies : CancelSave(r)!(c)
    BY <1>8 DEF CancelSave
  <2>2. req[r].pc \notin {"announce", "embed"} /\ UNCHANGED blurred
    BY <2>1 DEF At
  <2>3. CASE Exists(c.p)
    <3>1. MovesOn(r, Idle, {c.p}, FALSE) /\ post' = CancelWrite(c)
      BY <2>1, <2>3 DEF Save, MovesOn
    <3>2. \A p \in Posts : Misleads(p)' => Misleads(p)
      BY <1>0, <1>1, <3>1 DEF Misleads, CancelWrite, Post, Copies
    <3> QED BY <2>2, <3>1, <3>2, EmbeddingQuiet
  <2> QED BY <1>3, <2>1, <2>2, <2>3
<1>9. ASSUME NEW c \in req[r].copies, CronSave(r, c) PROVE EmbeddingCurrent'
  <2>1. req[r].pc \notin {"announce", "embed"} /\ UNCHANGED blurred
    BY <1>9 DEF CronSave, At
  <2>2. CASE Exists(c.p)
    <3> DEFINE q == [req[r] EXCEPT !.pc = "announce", !.cur = {c}, !.copies = @ \ {c}]
    <3>1. q.pc = "announce" /\ q.cur = {c}
      BY <1>1 DEF Request
    <3>2. Save(r, c, PublishWrite(c), q)
      BY <1>9, <2>2 DEF CronSave
    <3> HIDE DEF q
    <3> QED BY <1>4, <2>1, <3>1, <3>2
  <2> QED BY <1>3, <1>9, <2>1, <2>2 DEF CronSave
<1>10. CASE Announce(r)
  <2>1. PICK c \in req[r].cur : Announce(r)!(c)
    BY <1>10 DEF Announce
  <2>2. \A p \in Posts : Embeds(r, p) => p = c.p
    BY <1>2 DEF Embeds
  <2>3. \A p \in Posts : Misleads(p)' => Misleads(p)
    BY <2>1 DEF Misleads
  <2>4. CASE c.by = NoUser
    <3>1. MovesOn(r, Idle, {}, FALSE) /\ blurred' = blurred \cup {c.p}
      BY <2>1, <2>4 DEF MovesOn
    <3> QED BY <1>0, <2>2, <2>3, <3>1, EmbeddingKept
  <2>5. CASE c.by # NoUser
    <3> DEFINE q == [req[r] EXCEPT !.pc = "embed"]
    <3>1. MovesOn(r, q, {}, FALSE) /\ blurred' = blurred
      BY <2>1, <2>5 DEF MovesOn
    <3>2. q.pc = "embed" /\ q.cur = req[r].cur
      BY <1>1 DEF Request
    <3> HIDE DEF q
    <3> QED BY <1>0, <2>2, <2>3, <3>1, <3>2, EmbeddingKept
  <2> QED BY <2>4, <2>5
\* The embedding is that of the copy's text, and the text the post's, unless
\* the copy is marked.
<1>11. CASE Embed(r)
  <2>1. PICK c \in req[r].cur, ok \in BOOLEAN : Embed(r)!(c, ok)
    BY <1>11 DEF Embed
  <2>2. \A p \in Posts : Embeds(r, p) => p = c.p
    BY <1>2 DEF Embeds
  <2>3. c.p \in Posts /\ Worded(c)
    BY <1>1 DEF Copies
  <2>4. \A p \in Posts : p # c.p => post'[p] = post[p]
    BY <1>0, <2>1
  <2>5. \A p \in Posts : p # c.p /\ Misleads(p)' => Misleads(p)
    BY <2>4 DEF Misleads
  <2>6. ~ok \/ c.reworded => c.p \in blurred'
    BY <2>1
  <2>7. ASSUME ok, ~c.reworded PROVE ~Misleads(c.p)'
    <3>1. CASE Exists(c.p)
      <4>1. /\ post'[c.p].embedding = c.content
            /\ post'[c.p].content = post[c.p].content
        BY <1>0, <2>1, <2>3, <2>7, <3>1 DEF Post
      <4> QED BY <2>3, <2>7, <4>1 DEF Misleads, Worded
    <3>2. CASE ~Exists(c.p)
      BY <2>1, <3>2 DEF Misleads, Exists
    <3> QED BY <3>1, <3>2
  <2>8. MovesOn(r, AfterEmbed(req[r]), {}, FALSE) /\ blurred \subseteq blurred'
    BY <2>1 DEF MovesOn
  <2> QED BY <1>0, <2>2, <2>5, <2>6, <2>7, <2>8, EmbeddingKept
<1>12. CASE RelatedLook(r)
  <2>1. /\ req[r].pc \notin {"announce", "embed"} /\ UNCHANGED <<post, blurred>>
        /\ \E q : Become(r, q)
    BY <1>12 DEF RelatedLook, At
  <2> QED BY <1>3, <2>1
<1>13. CASE DraftPosts(r)
  <2>1. /\ req[r].pc \notin {"announce", "embed"} /\ UNCHANGED blurred
        /\ \E q, S : MovesOn(r, q, S, FALSE)
    BY <1>13 DEF DraftPosts, At, MovesOn
  <2>2. \A p \in Posts : Misleads(p)' => Misleads(p)
    BY <1>0, <1>13 DEF DraftPosts, Misleads, Post
  <2> QED BY <2>1, <2>2, EmbeddingQuiet
<1>14. CASE DeleteUser(r)
  <2>1. /\ req[r].pc \notin {"announce", "embed"} /\ UNCHANGED <<post, blurred>>
        /\ Become(r, Idle)
    BY <1>14 DEF DeleteUser, At
  <2> QED BY <1>3, <2>1
<1> QED
  BY <1>5, <1>6, <1>7, <1>8, <1>9, <1>10, <1>11, <1>12, <1>13, <1>14 DEF Continue

LEMMA EmbeddingWorld ==
  ASSUME TypeOK, EmbeddingCurrent, Environment \/ \E r \in Requests : Crash(r)
  PROVE  EmbeddingCurrent'
<1>1. ASSUME NEW r \in Requests, Crash(r) PROVE EmbeddingCurrent'
  <2>1. MovesOn(r, Idle, {}, FALSE) /\ post' = post /\ blurred \subseteq blurred'
    BY <1>1 DEF Crash, MovesOn
  <2>2. \A p \in Posts : Embeds(r, p) => p \in blurred'
    BY <1>1 DEF Crash, At, Embeds
  <2>3. \A p \in Posts : Misleads(p)' => Misleads(p)
    BY <2>1 DEF Misleads
  <2>4. FALSE \in BOOLEAN
    OBVIOUS
  <2> QED BY <2>1, <2>2, <2>3, <2>4, EmbeddingKept
<1>2. ASSUME UNCHANGED <<req, blurred>>, \A p \in Posts : Misleads(p)' => Misleads(p)
      PROVE  EmbeddingCurrent'
  BY <1>2, EmbeddingMeans, EmbeddingMeansAfter DEF Embeds
<1>3. ASSUME NEW u \in Users, NEW p \in Posts, Remove(u, p) PROVE EmbeddingCurrent'
  BY <1>2, <1>3 DEF Remove, TypeOK, Post, Misleads
<1>4. ASSUME NEW u \in Users, NEW p \in Posts, NEW c \in Contents, Create(u, p, c)
      PROVE  EmbeddingCurrent'
  BY <1>2, <1>4 DEF Create, TypeOK, Misleads
<1>5. CASE Tick
  BY <1>2, <1>5 DEF Tick, Misleads
<1> QED BY <1>1, <1>3, <1>4, <1>5 DEF Environment

LEMMA EmbeddingNext ==
  TypeOK /\ HeldInv /\ WordsInv /\ EmbeddingCurrent /\ [Next]_vars => EmbeddingCurrent'
<1> SUFFICES ASSUME TypeOK, HeldInv, WordsInv, EmbeddingCurrent, [Next]_vars
             PROVE  EmbeddingCurrent'
  OBVIOUS
<1>1. CASE UNCHANGED vars
  BY <1>1 DEF vars, EmbeddingCurrent
<1>2. CASE Next
  BY <1>2, EmbeddingCalls, EmbeddingContinues, EmbeddingWorld DEF Next
<1> QED BY <1>1, <1>2

\* EmbeddingCurrent, for every number of posts, requests, runs and texts: no
\* interleaving of edits, publications and readers leaves a published post
\* with the embedding of another text, unless an embedding failed, was cut off
\* or was made from a copy that an edit passed by.
THEOREM EmbeddingCorrect == Spec => []EmbeddingCurrent
<1>1. Init => WordsInv
  BY DEF Init, WordsInv, Copies, Idle
<1>2. Init => EmbeddingCurrent
  BY DEF Init, EmbeddingCurrent
<1> QED
  BY <1>1, <1>2, TypeInit, TypeNext, HeldStart, HeldNext, WordsNext, EmbeddingNext, PTL
  DEF Spec

=============================================================================
