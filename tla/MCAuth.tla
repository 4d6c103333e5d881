------------------------------- MODULE MCAuth -------------------------------
(***************************************************************************)
(* Instances of module Auth for TLC.  The lives of the tokens keep the     *)
(* order they have in the code, where OAUTH_CODE_TTL_S is 60 s and reset   *)
(* and verification links live for hours.                                  *)
(***************************************************************************)
EXTENDS Auth, TLC

CONSTANTS r1, r2

MCLinkTTL == [p \in Purposes |-> IF p = "oauth_code" THEN 1 ELSE 2]

\* Requests are interchangeable.
MCSymmetry == Permutations({r1, r2})

\* What clients call in each run.
SessionHandlers == {"login", "refresh", "logout", "logoutAll", "moderate",
                    "delete", "forgot", "reset"}
GoogleHandlers == {"register", "login", "google", "exchange", "moderate"}
RefreshHandlers == {"login", "refresh", "moderate"}

\* The steps of SessionHandlers.  A reset link outlives the clock.
SessionNext ==
  \/ \E r \in Requests :
       \/ \E u \in Users : Login(r, u) \/ LogoutAll(r, u) \/ Forgot(r, u) \/ Delete(r, u)
       \/ \E d \in sessions : RefreshFind(r, d) \/ Logout(r, d)
       \/ \E l \in links : Reset(r, l)
       \/ ClearLinks(r) \/ CreateLink(r) \/ CreateSession(r) \/ RefreshDelete(r) \/ FindUser(r)
       \/ LogoutDelete(r) \/ RevokeAll(r) \/ SetPassword(r)
       \/ DeleteCheck(r) \/ DeleteSessions(r) \/ DeleteUser(r) \/ Crash(r)
  \/ \E u \in Users : Deactivate(u) \/ Activate(u)
  \/ \E d \in sessions : ReapSession(d)
  \/ Tick

SessionSpec == Init /\ [][SessionNext]_vars

\* No request is lost: every handler runs to its end.
ReliableNext == \/ \E r \in Requests : Call(r) \/ Continue(r)
                \/ Environment

ReliableSpec == Init /\ [][ReliableNext]_vars

-----------------------------------------------------------------------------
(* What the repository says of its tokens, and the code does not do        *)

\* docs/FRONTEND_SPEC.md:132 says of two concurrent refreshes that the second
\* fails, and auth.controller.ts:175 that refresh tokens are single-use: no
\* refresh token lets two refreshes through.
RefreshTokensAreSingleUse == \A k \in SessionIds : doubled[k] = 0

\* auth.service.ts:100: whoever held the old password may still be logged in
\* when Google is linked: end it all.
LinkEndsEverySession ==
  \A d \in sessions : Outdated(d) /\ user[d.owner].google =>
    \E r \in Requests : req[r].u = d.owner /\ At(r, "revokeAll")

=============================================================================
