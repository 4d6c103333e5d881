------------------------------ MODULE MCPosts ------------------------------
(***************************************************************************)
(* Instances of module PostLifecycle for TLC.                              *)
(***************************************************************************)
EXTENDS PostLifecycle, TLC

CONSTANTS p1, p2, ann, bob, r1, r2

\* Ann writes every post; bob, where there is a bob, is an admin.
MCAuthorOf == [p \in Posts |-> ann]

\* What clients call in each run.
PublishHandlers == {"create", "publish", "schedule", "cancel", "remove",
                    "deleteAccount"}
TextHandlers == {"create", "update", "publish", "related", "remove"}
RunnerHandlers == {"create", "schedule", "cancel", "remove", "deleteAccount"}
TwiceHandlers == {"create", "publish"}
AuthorlessHandlers == {"create", "schedule", "deleteAccount"}

\* No process is lost: every handler and run goes on to its end.
ReliableNext == \/ \E r \in Requests : Call(r) \/ CronFind(r) \/ Continue(r)
                \/ Environment

ReliableSpec == Init /\ [][ReliableNext]_vars

\* The steps of RunnerHandlers, beside those of the publisher.
RunnerNext ==
  \/ \E r \in Requests :
       \/ CronFind(r) \/ (\E c \in req[r].copies : CronSave(r, c)) \/ Announce(r) \/ Embed(r)
       \/ \E u \in Users : \/ DeleteAccount(r, u)
                           \/ \E p \in Posts : \/ Cancel(r, u, p)
                                              \/ \E t \in Dates : Schedule(r, u, p, t)
       \/ ScheduleSave(r) \/ CancelSave(r) \/ DraftPosts(r) \/ DeleteUser(r)
       \/ Crash(r)
  \/ Environment

RunnerSpec == Init /\ [][RunnerNext]_vars /\ Fairness

-----------------------------------------------------------------------------
(* What the repository says of publishing, and the code does not do        *)

\* posts.service.ts:282: publishing twice must not email every subscriber
\* twice.
PublishingTwiceEmailsOnce == \A p \in Posts : announced[p] <= 1

\* posts.service.ts:792: one failing side effect does not stop the others.  A
\* published post is announced unless its process is lost.
NothingStopsTheAnnouncement == \A p \in Posts :
  post[p].status = "published" =>
    announced[p] > 0 \/ \E r \in Requests : Announcing(r, p)

=============================================================================
