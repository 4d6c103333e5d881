------------------------------- MODULE Audience -------------------------------
(***************************************************************************)
(* What callers meet and what readers attach: Surface and Engagement, side *)
(* by side.  Neither reads what the other one writes, so a behaviour takes *)
(* one of the parts of Surface or Engagement, and the others rest.         *)
(* Engagement is taken twice, with the handlers of posts and with those of *)
(* follows; the deletion of an account is in both.                         *)
(***************************************************************************)
EXTENDS Surface, Engagement

audienceVars == <<surfaceVars, engagementVars>>

SurfaceRests == /\ day = 0 /\ req = 0
                /\ AccessRests /\ FeedRests /\ QuotaRests /\ ReadersRest /\ NewsletterRests

\* Engagement rests where it begins.
AudienceInit == /\ EngagementInit
                /\ SurfaceInit \/ (part \in {"posts", "follows"} /\ SurfaceRests)

GoesOn(r) == (\E u \in People : DeleteAccount(r, u)) \/ Continue(r) \/ Crash(r)

OfPostsNext == \E r \in Clients :
  \/ \E u \in People, p \in Posts : Remove(r, u, p) \/ \E k \in RowKinds : Toggle(r, k, u, p)
  \/ GoesOn(r)

OfFollowsNext ==
  \/ \E r \in Clients : (\E u, v \in People : Follow(r, u, v)) \/ GoesOn(r)
  \/ \E u, v \in People : Unfollow(u, v)

AudienceNext ==
  \/ SurfaceNext /\ UNCHANGED engagementVars
  \/ /\ \/ part = "posts" /\ OfPostsNext
        \/ part = "follows" /\ OfFollowsNext
     /\ UNCHANGED surfaceVars

AudienceSpec == AudienceInit /\ [][AudienceNext]_audienceVars

=============================================================================
