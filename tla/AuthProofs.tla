----------------------------- MODULE AuthProofs -----------------------------
(***************************************************************************)
(* What module Auth guarantees for any number of accounts, requests and    *)
(* tokens; and that it implements module SingleUse: every step of the      *)
(* service is a step of the abstract store of single-use tokens, or leaves *)
(* it as it is.                                                            *)
(***************************************************************************)
EXTENDS Auth, FiniteSetTheorems, TLAPS

-----------------------------------------------------------------------------
(* Types                                                                   *)

\* A freshly created account is an account.
LEMMA AccountTypes ==
  /\ NewAccount \in Account
  /\ \A p \in {NoPassword} \cup Passwords : LocalAccount(p) \in Account
  /\ \A a \in Account : [a EXCEPT !.verified = TRUE] \in Account
BY DEF Account, NewAccount, LocalAccount, NoPassword

LEMMA TypeInit == Init => TypeOK
<1> SUFFICES ASSUME Init PROVE TypeOK
  OBVIOUS
<1> USE AuthAssumption DEF Init
<1>1. user \in [Users -> Account]
  <2>1. 1 \in {NoPassword} \cup Passwords
    BY DEF Passwords
  <2>2. /\ NewAccount \in Account /\ LocalAccount(1) \in Account
        /\ [LocalAccount(1) EXCEPT !.verified = TRUE] \in Account
    BY <2>1, AccountTypes
  <2> QED
    BY <2>2
<1>2. sessions \in SUBSET Session /\ links \in SUBSET Link
  OBVIOUS
<1>3. RequestsOK
  BY DEF Request, RequestsOK, Idle, KnowsToken
<1>4. /\ now \in Nat /\ lastSession \in 0 .. MaxSessions
      /\ lastLink \in 0 .. MaxLinks /\ lastPassword \in Passwords
  BY DEF Passwords
<1>5. /\ redeemed \in [LinkIds -> Seq(Right)]
      /\ rotated \in SUBSET SessionIds
      /\ doubled \in [SessionIds -> Nat]
      /\ unrevoked \in SUBSET Users
  OBVIOUS
<1> QED
  BY <1>1, <1>2, <1>3, <1>4, <1>5 DEF TypeOK, StoreOK

\* A request that has begun is one that is in progress.
LEMMA BegunType ==
  ASSUME NEW h \in AllHandlers, NEW pc \in PCs, NEW u \in Users
  PROVE  Begun(h, pc, u) \in Pending
BY AuthAssumption DEF Begun, Idle, Pending, Purposes, NoPassword

LEMMA AtPending ==
  ASSUME RequestsOK, NEW r \in Requests, req[r].pc # "idle"
  PROVE  req[r] \in Pending
BY DEF RequestsOK, Request, Idle

\* A request that moves to another call keeps its type.
LEMMA GotoType ==
  ASSUME NEW q \in Pending, NEW pc \in PCs
  PROVE  [q EXCEPT !.pc = pc] \in Pending
BY DEF Pending

\* Only the step of r changes r, and to a request.
LEMMA BecomeType ==
  ASSUME RequestsOK, NEW r \in Requests, NEW q \in Request, Become(r, q),
         KnowsToken(q)
  PROVE  RequestsOK'
BY DEF RequestsOK, Become

LEMMA FinishType ==
  ASSUME RequestsOK, NEW r \in Requests, Finish(r)
  PROVE  RequestsOK'
BY BecomeType DEF Finish, Request, Idle, KnowsToken

LEMMA GotoStep ==
  ASSUME RequestsOK, NEW r \in Requests, req[r].pc # "idle",
         NEW pc \in PCs \ {"refreshDelete"}, Goto(r, pc)
  PROVE  RequestsOK'
<1>1. req[r] \in Pending
  BY AtPending
<1>2. [req[r] EXCEPT !.pc = pc] \in Request
  BY <1>1, GotoType DEF Request
<1>3. KnowsToken([req[r] EXCEPT !.pc = pc])
  BY <1>1 DEF RequestsOK, Pending, KnowsToken
<1> QED
  BY <1>2, <1>3, BecomeType DEF Goto

\* Marking the requests a revocation or a closed account passes by.
LEMMA RevokePassingType ==
  ASSUME RequestsOK, NEW u \in Users, NEW r \in Requests, NEW q \in Request,
         KnowsToken(q),
         RevokePassing(u, r, q)
  PROVE  RequestsOK'
<1>1. \A x \in Requests : req[x].u = u => req[x] \in Pending
  BY AuthAssumption DEF RequestsOK, Request, Idle
<1>2. \A x \in Requests : req[x].u = u =>
        /\ [req[x] EXCEPT !.late = TRUE] \in Request
        /\ KnowsToken([req[x] EXCEPT !.late = TRUE])
  BY <1>1 DEF Pending, Request, RequestsOK, KnowsToken
<1> QED
  BY <1>2 DEF RequestsOK, RevokePassing

LEMMA PassedByType ==
  ASSUME RequestsOK, NEW u \in Users, NEW x \in Requests
  PROVE  /\ PassedBy(x, u) \in Request
         /\ KnowsToken(PassedBy(x, u))
<1>1. req[x].u = u /\ Authorised(req[x]) => req[x] \in Pending
  BY DEF RequestsOK, Request, Idle, Authorised
<1> QED
  BY <1>1 DEF RequestsOK, Request, PassedBy, Pending, KnowsToken

\* A step that only moves requests keeps the collections' types.
StoreUnchanged == UNCHANGED <<user, sessions, links, now, lastSession,
                   lastLink, lastPassword, redeemed, rotated, doubled, unrevoked>>

LEMMA StoreUnchangedType == StoreOK /\ StoreUnchanged => StoreOK'
BY DEF StoreUnchanged, StoreOK

\* Redeeming a one-time token removes it and records the right it granted.
LEMMA RedeemsType ==
  ASSUME StoreOK, NEW l \in links, NEW p \in Purposes,
         NEW n \in Nonces \cup {NoNonce}, Redeems(l, p, n),
         UNCHANGED <<user, sessions, now, lastSession, lastLink, lastPassword,
                     rotated, doubled, unrevoked>>
  PROVE  StoreOK' /\ l.owner \in Users
<1>1. l \in Link
  BY DEF StoreOK
<1>2. [owner |-> l.owner, purpose |-> p, binding |-> n] \in Right /\ l.id \in LinkIds
  BY <1>1 DEF Right, Link
<1>3. redeemed' \in [LinkIds -> Seq(Right)]
  BY <1>2 DEF Redeems, Grants, StoreOK
<1> QED
  BY <1>1, <1>3 DEF Redeems, StoreOK, Link

LEMMA CallsType ==
  ASSUME StoreOK, RequestsOK, NEW r \in Requests, Call(r)
  PROVE  StoreOK' /\ RequestsOK'
<1> USE AuthAssumption
<1>1. ASSUME NEW u \in Users, Register(r, u) PROVE StoreOK' /\ RequestsOK'
  <2>1. Begun("register", "createUser", u) \in Pending
    BY BegunType DEF AllHandlers, PCs
  <2>2. KnowsToken(Begun("register", "createUser", u))
    BY DEF Begun, Idle, KnowsToken
  <2> QED
    BY <1>1, <2>1, <2>2, BecomeType, StoreUnchangedType DEF Register, Request, StoreUnchanged
<1>2. ASSUME NEW u \in Users, Login(r, u) PROVE StoreOK' /\ RequestsOK'
  <2> DEFINE q == [Begun("login", "createSession", u) EXCEPT !.password = user[u].password]
  <2>1. Begun("login", "createSession", u) \in Pending
    BY BegunType DEF AllHandlers, PCs
  <2>2. q \in Pending /\ KnowsToken(q)
    BY <2>1 DEF Begun, Idle, KnowsToken, StoreOK, Account, Pending
  <2> QED
    BY <1>2, <2>2, BecomeType, StoreUnchangedType DEF Login, Request, StoreUnchanged
<1>3. ASSUME NEW u \in Users, LogoutAll(r, u) PROVE StoreOK' /\ RequestsOK'
  <2>1. Begun("logoutAll", "revokeAll", u) \in Pending
    BY BegunType DEF AllHandlers, PCs
  <2>2. KnowsToken(Begun("logoutAll", "revokeAll", u))
    BY DEF Begun, Idle, KnowsToken
  <2> QED
    BY <1>3, <2>1, <2>2, BecomeType, StoreUnchangedType DEF LogoutAll, Request, StoreUnchanged
<1>4. ASSUME NEW u \in Users, Forgot(r, u) PROVE StoreOK' /\ RequestsOK'
  <2> DEFINE q == [Begun("forgot", "clearLinks", u) EXCEPT !.purpose = "password_reset"]
  <2>1. Begun("forgot", "clearLinks", u) \in Pending
    BY BegunType DEF AllHandlers, PCs
  <2>2. q \in Pending /\ KnowsToken(q)
    BY <2>1 DEF Begun, Idle, KnowsToken, Pending, Purposes
  <2> QED
    BY <1>4, <2>2, BecomeType, StoreUnchangedType DEF Forgot, Request, StoreUnchanged
<1>5. ASSUME NEW u \in Users, Resend(r, u) PROVE StoreOK' /\ RequestsOK'
  <2> DEFINE q == [Begun("resend", "clearLinks", u) EXCEPT !.purpose = "email_verify"]
  <2>1. Begun("resend", "clearLinks", u) \in Pending
    BY BegunType DEF AllHandlers, PCs
  <2>2. q \in Pending /\ KnowsToken(q)
    BY <2>1 DEF Begun, Idle, KnowsToken, Pending, Purposes
  <2> QED
    BY <1>5, <2>2, BecomeType, StoreUnchangedType DEF Resend, Request, StoreUnchanged
<1>6. ASSUME NEW u \in Users, Delete(r, u) PROVE StoreOK' /\ RequestsOK'
  <2>1. Begun("delete", "deleteCheck", u) \in Pending
    BY BegunType DEF AllHandlers, PCs
  <2>2. KnowsToken(Begun("delete", "deleteCheck", u))
    BY DEF Begun, Idle, KnowsToken
  <2> QED
    BY <1>6, <2>1, <2>2, BecomeType, StoreUnchangedType DEF Delete, Request, StoreUnchanged
<1>7. ASSUME NEW u \in Users, NEW n \in Nonces, NEW v \in BOOLEAN, Google(r, u, n, v)
      PROVE  StoreOK' /\ RequestsOK'
  <2> DEFINE q(pc) == [Begun("google", pc, u) EXCEPT !.nonce = n]
  <2>1. ASSUME NEW pc \in {"createLink", "googleByEmail"}
        PROVE  q(pc) \in Request /\ KnowsToken(q(pc))
    <3>1. Begun("google", pc, u) \in Pending
      BY BegunType DEF AllHandlers, PCs
    <3> QED
      BY <3>1 DEF Begun, Idle, KnowsToken, Pending, Request
  <2>2. \E pc \in {"createLink", "googleByEmail"} : Become(r, q(pc))
    BY <1>7 DEF Google
  <2>3. StoreUnchanged
    BY <1>7 DEF Google, StoreUnchanged
  <2> QED
    BY <2>1, <2>2, <2>3, BecomeType, StoreUnchangedType
<1>8. ASSUME NEW d \in sessions, RefreshFind(r, d) PROVE StoreOK' /\ RequestsOK'
  <2> DEFINE q == [Begun("refresh", "refreshDelete", d.owner)
                     EXCEPT !.doc = d.id, !.iat = d.iat, !.root = d.root,
                            !.password = d.password, !.late = d.late]
  <2>1. d \in Session
    BY DEF StoreOK
  <2>2. Begun("refresh", "refreshDelete", d.owner) \in Pending
    BY <2>1, BegunType DEF AllHandlers, PCs, Session
  <2>3. q \in Pending /\ KnowsToken(q)
    BY <2>1, <2>2 DEF Begun, Idle, KnowsToken, Pending, Session
  <2> QED
    BY <1>8, <2>1, <2>3, BecomeType, StoreUnchangedType DEF RefreshFind, Request, StoreUnchanged,
                                                            Session
<1>9. ASSUME NEW d \in sessions, Logout(r, d) PROVE StoreOK' /\ RequestsOK'
  <2> DEFINE q == [Begun("logout", "logoutDelete", d.owner) EXCEPT !.iat = d.iat]
  <2>1. d \in Session
    BY DEF StoreOK
  <2>2. Begun("logout", "logoutDelete", d.owner) \in Pending
    BY <2>1, BegunType DEF AllHandlers, PCs, Session
  <2>3. q \in Pending /\ KnowsToken(q)
    BY <2>1, <2>2 DEF Begun, Idle, KnowsToken, Pending, Session
  <2> QED
    BY <1>9, <2>3, BecomeType, StoreUnchangedType DEF Logout, Request, StoreUnchanged
<1>10. ASSUME NEW l \in links, Reset(r, l) PROVE StoreOK' /\ RequestsOK'
  <2>1. StoreOK' /\ l.owner \in Users
    BY <1>10, RedeemsType DEF Reset, Purposes
  <2>2. Begun("reset", "setPassword", l.owner) \in Pending
    BY <2>1, BegunType DEF AllHandlers, PCs
  <2>3. KnowsToken(Begun("reset", "setPassword", l.owner))
    BY DEF Begun, Idle, KnowsToken
  <2> QED
    BY <1>10, <2>1, <2>2, <2>3, BecomeType DEF Reset, Request
<1>11. ASSUME NEW l \in links, Verify(r, l) PROVE StoreOK' /\ RequestsOK'
  <2>1. StoreOK' /\ l.owner \in Users
    BY <1>11, RedeemsType DEF Verify, Purposes
  <2>2. Begun("verify", "markVerified", l.owner) \in Pending
    BY <2>1, BegunType DEF AllHandlers, PCs
  <2>3. KnowsToken(Begun("verify", "markVerified", l.owner))
    BY DEF Begun, Idle, KnowsToken
  <2> QED
    BY <1>11, <2>1, <2>2, <2>3, BecomeType DEF Verify, Request
<1>12. ASSUME NEW l \in links, NEW n \in Nonces, Exchange(r, l, n) PROVE StoreOK' /\ RequestsOK'
  <2>1. StoreOK' /\ l.owner \in Users
    BY <1>12, RedeemsType DEF Exchange, Purposes
  <2>2. Begun("exchange", "findUser", l.owner) \in Pending
    BY <2>1, BegunType DEF AllHandlers, PCs
  <2>3. KnowsToken(Begun("exchange", "findUser", l.owner))
    BY DEF Begun, Idle, KnowsToken
  <2> QED
    BY <1>12, <2>1, <2>2, <2>3, BecomeType DEF Exchange, Request
<1> QED
  BY <1>1, <1>2, <1>3, <1>4, <1>5, <1>6, <1>7, <1>8, <1>9, <1>10, <1>11, <1>12
  DEF Call

LEMMA ContinueType ==
  ASSUME StoreOK, RequestsOK, NEW r \in Requests, Continue(r)
  PROVE  StoreOK' /\ RequestsOK'
<1> USE AuthAssumption
<1> DEFINE u == req[r].u
<1>a. \A pc \in PCs : pc # "idle"
  BY DEF PCs
<1>1. CASE CreateUser(r)
  <2>1. req[r] \in Pending
    BY <1>1, AtPending DEF CreateUser, At
  <2>2. CASE user[u].status = "new"
    <3> DEFINE q == [req[r] EXCEPT !.pc = "clearLinks", !.purpose = "email_verify",
                                   !.password = lastPassword + 1]
    <3>1. lastPassword + 1 \in Passwords
      BY <1>1, <2>2 DEF CreateUser, StoreOK, Passwords
    <3>2. user' = [user EXCEPT ![u] = LocalAccount(lastPassword + 1)]
      BY <1>1, <2>2 DEF CreateUser
    <3>3. user' \in [Users -> Account]
      BY <2>1, <3>1, <3>2, AccountTypes DEF StoreOK
    <3>4. q \in Pending /\ q.op = req[r].op /\ q.doc = req[r].doc /\ q.root = req[r].root
        /\ q.pc # "refreshDelete"
      BY <2>1, <3>1 DEF Pending, PCs, Purposes
    <3>5. RequestsOK'
      <4>1. Become(r, q)
        BY <1>1, <2>2 DEF CreateUser
      <4>2. KnowsToken(q)
        BY <3>4 DEF RequestsOK, KnowsToken
      <4> QED
        BY <3>4, <4>1, <4>2, BecomeType DEF Request
    <3> QED
      BY <1>1, <2>2, <3>1, <3>3, <3>5 DEF CreateUser, StoreOK
  <2>3. CASE user[u].status # "new"
    BY <1>1, <2>3, FinishType, StoreUnchangedType DEF CreateUser, StoreUnchanged
  <2> QED
    BY <2>2, <2>3
<1>2. CASE ClearLinks(r)
  <2> DEFINE q == [req[r] EXCEPT !.pc = "createLink", !.since = lastLink]
  <2>1. req[r] \in Pending
    BY <1>2, AtPending DEF ClearLinks, At
  <2>2a. lastLink \in Nat
    BY DEF StoreOK
  <2>2. q \in Pending /\ q.op = req[r].op /\ q.doc = req[r].doc /\ q.root = req[r].root
        /\ q.pc # "refreshDelete"
    BY <2>1, <2>2a DEF Pending, PCs
  <2>3. RequestsOK'
    <3>1. KnowsToken(q)
      BY <2>2 DEF RequestsOK, KnowsToken
    <3> QED
      BY <1>2, <2>2, <3>1, BecomeType DEF Request, ClearLinks
  <2> QED
    BY <1>2, <2>3 DEF ClearLinks, StoreOK
<1>3. CASE CreateLink(r)
  <2> DEFINE l == [id |-> lastLink + 1, owner |-> req[r].u, purpose |-> req[r].purpose,
                   binding |-> req[r].nonce, since |-> req[r].since,
                   expiresAt |-> now + LinkTTL[req[r].purpose]]
  <2>1. req[r] \in Pending
    BY <1>3, AtPending DEF CreateLink, At
  <2>2. lastLink + 1 \in LinkIds /\ lastLink' \in 0 .. MaxLinks
    BY <1>3 DEF CreateLink, StoreOK, LinkIds
  <2>3. l \in Link
    BY <2>1, <2>2 DEF Link, Pending, StoreOK
  <2>4. links' \in SUBSET Link
    BY <1>3, <2>3 DEF CreateLink, StoreOK
  <2>5. RequestsOK'
    BY <1>3, FinishType, GotoStep DEF CreateLink, At, PCs
  <2> QED
    BY <1>3, <2>2, <2>4, <2>5 DEF CreateLink, StoreOK
<1>4. CASE CreateSession(r)
  <2> DEFINE d == [id |-> lastSession + 1, owner |-> req[r].u, iat |-> now,
                   password |-> req[r].password, late |-> req[r].late,
                   root |-> IF req[r].op = "refresh" THEN req[r].root
                            ELSE lastSession + 1]
  <2>1. req[r] \in Pending
    BY <1>4, AtPending DEF CreateSession, At
  <2>2. lastSession + 1 \in SessionIds /\ lastSession' \in 0 .. MaxSessions
    BY <1>4 DEF CreateSession, StoreOK, SessionIds
  <2>3. d.root \in SessionIds
    BY <2>2 DEF RequestsOK, KnowsToken
  <2>4. d \in Session
    BY <2>1, <2>2, <2>3 DEF Session, Pending, StoreOK
  <2>5. sessions' \in SUBSET Session
    BY <1>4, <2>4 DEF CreateSession, StoreOK
  <2>6. RequestsOK'
    BY <1>4, FinishType DEF CreateSession
  <2>7. UNCHANGED <<user, links, now, lastLink, lastPassword, redeemed, rotated,
                    doubled, unrevoked>>
    BY <1>4 DEF CreateSession
  <2> QED
    BY <2>2, <2>5, <2>6, <2>7 DEF StoreOK
<1>5. CASE RefreshDelete(r)
  <2>1. req[r] \in Pending /\ RequestsOK'
    BY <1>5, AtPending, GotoStep DEF RefreshDelete, At, PCs
  <2> QED
    BY <1>5, <2>1 DEF RefreshDelete, Rotated, StoreOK, RequestsOK, KnowsToken, At
<1>6. CASE FindUser(r)
  BY <1>6, FinishType, GotoStep, StoreUnchangedType DEF FindUser, StoreUnchanged, At, PCs
<1>7. CASE LogoutDelete(r)
  <2>1. sessions' \in SUBSET Session
    BY <1>7 DEF LogoutDelete, StoreOK
  <2> QED
    BY <1>7, <2>1, FinishType DEF LogoutDelete, StoreOK
<1>8. CASE RevokeAll(r)
  <2> DEFINE q == IF req[r].op = "google"
                  THEN [req[r] EXCEPT !.pc = "createLink"] ELSE Idle
  <2>1. req[r] \in Pending
    BY <1>8, AtPending DEF RevokeAll, At
  <2>2. u \in Users /\ q \in Request /\ KnowsToken(q)
    BY <2>1 DEF Pending, Request, PCs, Idle, KnowsToken, RequestsOK
  <2>3. RequestsOK'
    BY <1>8, <2>2, RevokePassingType DEF RevokeAll
  <2> QED
    BY <1>8, <2>2, <2>3 DEF RevokeAll, SessionsOf, StoreOK
<1>9. CASE SetPassword(r)
  <2>1. req[r] \in Pending /\ RequestsOK'
    BY <1>9, AtPending, GotoStep DEF SetPassword, At, PCs
  <2>2. CASE user[u].status = "present"
    <3>1. lastPassword + 1 \in Passwords /\ lastPassword' = lastPassword + 1
      BY <1>9, <2>2 DEF SetPassword, StoreOK, Passwords
    <3>2. user[u] \in Account
      BY <2>1 DEF Pending, StoreOK
    <3>3. [user[u] EXCEPT !.password = lastPassword + 1, !.verified = TRUE] \in Account
      BY <3>1, <3>2 DEF Account
    <3>4. user' = [user EXCEPT ![u] = [user[u] EXCEPT !.password = lastPassword + 1,
                                                     !.verified = TRUE]]
      BY <1>9, <2>2 DEF SetPassword, StoreOK
    <3>5. user' \in [Users -> Account]
      BY <2>1, <3>3, <3>4 DEF StoreOK
    <3> QED
      BY <1>9, <2>1, <3>1, <3>5 DEF SetPassword, StoreOK
  <2>3. CASE user[u].status # "present"
    BY <1>9, <2>1, <2>3 DEF SetPassword, StoreOK
  <2> QED
    BY <2>2, <2>3
<1>10. CASE MarkVerified(r)
  <2>1. user' \in [Users -> Account]
    <3>1. CASE user[u].status = "present"
      <4>1. user' = [user EXCEPT ![u] = [user[u] EXCEPT !.verified = TRUE]]
        BY <1>10, <3>1 DEF MarkVerified, StoreOK
      <4> QED
        BY <4>1, AccountTypes DEF StoreOK
    <3>2. CASE user[u].status # "present"
      BY <1>10, <3>2 DEF MarkVerified, StoreOK
    <3> QED
      BY <3>1, <3>2
  <2> QED
    BY <1>10, <2>1, FinishType DEF MarkVerified, StoreOK
<1>11. CASE GoogleByEmail(r)
  <2> DEFINE q == [req[r] EXCEPT !.pc = "googleSave", !.trusted = user[u].verified,
                                 !.active = user[u].active]
  <2>1. req[r] \in Pending
    BY <1>11, AtPending DEF GoogleByEmail, At
  <2>2. q \in Pending /\ q.op = req[r].op /\ q.doc = req[r].doc /\ q.root = req[r].root
        /\ q.pc # "refreshDelete"
    BY <2>1 DEF Pending, PCs, StoreOK, Account
  <2>3. KnowsToken(q)
    BY <2>2 DEF RequestsOK, KnowsToken
  <2>4. CASE user[u].status = "present"
    BY <1>11, <2>2, <2>3, <2>4, BecomeType, StoreUnchangedType
    DEF GoogleByEmail, Request, StoreUnchanged
  <2>5. CASE user[u].status # "present"
    BY <1>11, <2>5, GotoStep, StoreUnchangedType DEF GoogleByEmail, StoreUnchanged, At, PCs
  <2> QED
    BY <2>4, <2>5
<1>12. CASE GoogleSave(r)
  <2>1. req[r] \in Pending
    BY <1>12, AtPending DEF GoogleSave, At
  <2>2. RequestsOK'
    BY <1>12, FinishType, GotoStep DEF GoogleSave, At, PCs, AfterLink
  <2>3. CASE user[u].status = "present"
    <3> DEFINE a == [user[u] EXCEPT !.google = TRUE, !.verified = TRUE,
                       !.password = IF req[r].trusted THEN @ ELSE NoPassword]
    <3>1. user[u] \in Account /\ u \in Users
      BY <2>1 DEF Pending, StoreOK
    <3>2. a \in Account
      BY <3>1 DEF Account
    <3>3. user' = [user EXCEPT ![u] = a]
      BY <1>12, <2>3 DEF GoogleSave, StoreOK
    <3> QED
      BY <1>12, <2>2, <2>3, <3>1, <3>2, <3>3 DEF GoogleSave, StoreOK
  <2>4. CASE user[u].status # "present"
    BY <1>12, <2>2, <2>4 DEF GoogleSave, StoreOK
  <2> QED
    BY <2>3, <2>4
<1>13. CASE GoogleCreate(r)
  <2>1. RequestsOK'
    BY <1>13, FinishType, GotoStep DEF GoogleCreate, At, PCs
  <2>2. [LocalAccount(NoPassword) EXCEPT !.verified = TRUE, !.google = TRUE] \in Account
    BY DEF LocalAccount, NewAccount, Account
  <2>3. user' \in [Users -> Account]
    BY <1>13, <2>2 DEF GoogleCreate, StoreOK
  <2> QED
    BY <1>13, <2>1, <2>3 DEF GoogleCreate, StoreOK
<1>14. CASE DeleteCheck(r)
  BY <1>14, FinishType, GotoStep, StoreUnchangedType DEF DeleteCheck, StoreUnchanged, At, PCs
<1>15. CASE DeleteSessions(r)
  <2> DEFINE q == [req[r] EXCEPT !.pc = "deleteUser"]
  <2>1. req[r] \in Pending
    BY <1>15, AtPending DEF DeleteSessions, At
  <2>2. q \in Request /\ u \in Users /\ q.op = req[r].op /\ q.doc = req[r].doc
        /\ q.root = req[r].root /\ q.pc # "refreshDelete"
    BY <2>1 DEF Pending, PCs, Request
  <2>3. RequestsOK'
    <3>1. KnowsToken(q)
      BY <2>2 DEF RequestsOK, KnowsToken
    <3> QED
      BY <1>15, <2>2, <3>1, RevokePassingType DEF DeleteSessions
  <2> QED
    BY <1>15, <2>2, <2>3 DEF DeleteSessions, SessionsOf, StoreOK
<1>16. CASE DeleteUser(r)
  <2>1. req[r] \in Pending
    BY <1>16, AtPending DEF DeleteUser, At
  <2>2. u \in Users /\ Idle \in Request /\ KnowsToken(Idle)
    BY <2>1 DEF Pending, Request, Idle, KnowsToken
  <2>3. RequestsOK'
    BY <1>16, <2>2, PassedByType DEF DeleteUser, RequestsOK
  <2>4. [NewAccount EXCEPT !.status = "deleted"] \in Account
    BY DEF NewAccount, Account
  <2>5. user' \in [Users -> Account]
    BY <1>16, <2>2, <2>4 DEF DeleteUser, StoreOK
  <2> QED
    BY <1>16, <2>3, <2>5 DEF DeleteUser, StoreOK
<1> QED
  BY <1>1, <1>2, <1>3, <1>4, <1>5, <1>6, <1>7, <1>8, <1>9, <1>10, <1>11,
     <1>12, <1>13, <1>14, <1>15, <1>16 DEF Continue

LEMMA TypeNext == TypeOK /\ [Next]_vars => TypeOK'
<1> SUFFICES ASSUME StoreOK, RequestsOK, [Next]_vars PROVE StoreOK' /\ RequestsOK'
  BY DEF TypeOK
<1> USE AuthAssumption
<1>1. ASSUME NEW r \in Requests, Crash(r) PROVE StoreOK' /\ RequestsOK'
  <2>1. req[r] \in Pending
    BY <1>1, AtPending DEF Crash, At
  <2>2. unrevoked' \in SUBSET Users
    BY <1>1, <2>1 DEF Crash, Pending, StoreOK
  <2> QED
    BY <1>1, <2>2, FinishType DEF Crash, StoreOK
<1>2. ASSUME NEW u \in Users, Deactivate(u) PROVE StoreOK' /\ RequestsOK'
  <2>1. RequestsOK'
    BY <1>2, PassedByType DEF Deactivate, RequestsOK
  <2>2. user' \in [Users -> Account]
    BY <1>2 DEF Deactivate, StoreOK, Account
  <2> QED
    BY <1>2, <2>1, <2>2 DEF Deactivate, StoreOK
<1>3. ASSUME NEW u \in Users, Activate(u) PROVE StoreOK' /\ RequestsOK'
  <2>1. user' \in [Users -> Account]
    BY <1>3 DEF Activate, StoreOK, Account
  <2> QED
    BY <1>3, <2>1 DEF Activate, StoreOK, RequestsOK
<1>4. ASSUME NEW d \in sessions, ReapSession(d) PROVE StoreOK' /\ RequestsOK'
  BY <1>4 DEF ReapSession, StoreOK, RequestsOK
<1>5. ASSUME NEW l \in links, ReapLink(l) PROVE StoreOK' /\ RequestsOK'
  BY <1>5 DEF ReapLink, StoreOK, RequestsOK
<1>6. CASE Tick
  BY <1>6 DEF Tick, StoreOK, RequestsOK
<1>7. CASE UNCHANGED vars
  BY <1>7 DEF vars, StoreOK, RequestsOK
<1> QED
  BY <1>1, <1>2, <1>3, <1>4, <1>5, <1>6, <1>7, CallsType, ContinueType
  DEF Next, Environment

\* Every collection and every request in progress always has its type, for any
\* number of accounts, requests and tokens.
THEOREM TypeCorrect == Spec => []TypeOK
<1>1. Init => TypeOK
  BY TypeInit
<1>2. TypeOK /\ [Next]_vars => TypeOK'
  BY TypeNext
<1> QED
  BY <1>1, <1>2, PTL DEF Spec

-----------------------------------------------------------------------------
(* Control                                                                 *)

\* Every request is at a call of its own handler.
LEMMA ControlStart == Init => ControlOK
BY DEF Init, ControlOK, OnPath, Idle

LEMMA ControlBecome ==
  ASSUME RequestsOK, ControlOK, NEW r \in Requests, NEW q, Become(r, q), OnPath(q)
  PROVE  ControlOK'
BY DEF RequestsOK, ControlOK, Become

LEMMA ControlFinish ==
  ASSUME RequestsOK, ControlOK, NEW r \in Requests, Finish(r)
  PROVE  ControlOK'
BY ControlBecome DEF Finish, OnPath, Idle

LEMMA ControlMarks ==
  ASSUME RequestsOK, ControlOK, NEW x \in Requests, NEW u \in Users
  PROVE  /\ req[x].u = u => OnPath([req[x] EXCEPT !.late = TRUE])
         /\ OnPath(PassedBy(x, u))
<1>1. req[x].u = u \/ Authorised(req[x]) => req[x] \in Pending
  BY AuthAssumption DEF RequestsOK, Request, Idle, Authorised
<1>2. OnPath(req[x])
  BY DEF ControlOK
<1>3. ASSUME req[x] \in Pending
      PROVE  /\ OnPath([req[x] EXCEPT !.late = TRUE])
             /\ OnPath([req[x] EXCEPT !.closed = TRUE])
  BY <1>2, <1>3 DEF OnPath, Pending
<1> QED
  BY <1>1, <1>2, <1>3 DEF PassedBy

LEMMA ControlNext == TypeOK /\ ControlOK /\ [Next]_vars => ControlOK'
<1> SUFFICES ASSUME StoreOK, RequestsOK, ControlOK, [Next]_vars PROVE ControlOK'
  BY DEF TypeOK
<1> USE AuthAssumption
<1>1. ASSUME NEW r \in Requests, Call(r) PROVE ControlOK'
  <2>1. ASSUME NEW u \in Users, Register(r, u) PROVE ControlOK'
    BY <2>1, ControlBecome DEF Register, Begun, Idle, OnPath
  <2>2. ASSUME NEW u \in Users, Login(r, u) PROVE ControlOK'
    BY <2>2, ControlBecome DEF Login, Begun, Idle, OnPath
  <2>3. ASSUME NEW u \in Users, LogoutAll(r, u) PROVE ControlOK'
    BY <2>3, ControlBecome DEF LogoutAll, Begun, Idle, OnPath
  <2>4. ASSUME NEW u \in Users, Forgot(r, u) PROVE ControlOK'
    BY <2>4, ControlBecome DEF Forgot, Begun, Idle, OnPath
  <2>5. ASSUME NEW u \in Users, Resend(r, u) PROVE ControlOK'
    BY <2>5, ControlBecome DEF Resend, Begun, Idle, OnPath
  <2>6. ASSUME NEW u \in Users, Delete(r, u) PROVE ControlOK'
    BY <2>6, ControlBecome DEF Delete, Begun, Idle, OnPath
  <2>7. ASSUME NEW u \in Users, NEW n \in Nonces, NEW v \in BOOLEAN, Google(r, u, n, v)
        PROVE  ControlOK'
    <3>1. \E pc \in {"createLink", "googleByEmail"} :
            Become(r, [Begun("google", pc, u) EXCEPT !.nonce = n])
      BY <2>7 DEF Google
    <3> QED
      BY <3>1, ControlBecome DEF Begun, Idle, OnPath
  <2>8. ASSUME NEW d \in sessions, RefreshFind(r, d) PROVE ControlOK'
    BY <2>8, ControlBecome DEF RefreshFind, Begun, Idle, OnPath
  <2>9. ASSUME NEW d \in sessions, Logout(r, d) PROVE ControlOK'
    BY <2>9, ControlBecome DEF Logout, Begun, Idle, OnPath
  <2>10. ASSUME NEW l \in links, Reset(r, l) PROVE ControlOK'
    BY <2>10, ControlBecome DEF Reset, Begun, Idle, OnPath
  <2>11. ASSUME NEW l \in links, Verify(r, l) PROVE ControlOK'
    BY <2>11, ControlBecome DEF Verify, Begun, Idle, OnPath
  <2>12. ASSUME NEW l \in links, NEW n \in Nonces, Exchange(r, l, n) PROVE ControlOK'
    BY <2>12, ControlBecome DEF Exchange, Begun, Idle, OnPath
  <2> QED
    BY <1>1, <2>1, <2>2, <2>3, <2>4, <2>5, <2>6, <2>7, <2>8, <2>9, <2>10, <2>11,
       <2>12 DEF Call
<1>2. ASSUME NEW r \in Requests, Continue(r) PROVE ControlOK'
  <2>1. req[r] \in Pending /\ OnPath(req[r]) /\ req[r].u \in Users
    BY <1>2, AtPending DEF Continue, CreateUser, ClearLinks, CreateLink, CreateSession,
       RefreshDelete, FindUser, LogoutDelete, RevokeAll, SetPassword, MarkVerified,
       GoogleByEmail, GoogleSave, GoogleCreate, DeleteCheck, DeleteSessions,
       DeleteUser, At, ControlOK, Pending
  <2>2. CASE CreateUser(r)
    BY <2>1, <2>2, ControlBecome, ControlFinish DEF CreateUser, At, OnPath, Pending
  <2>3. CASE ClearLinks(r)
    BY <2>1, <2>3, ControlBecome DEF ClearLinks, At, OnPath, Pending
  <2>4. CASE CreateLink(r)
    BY <2>1, <2>4, ControlBecome, ControlFinish DEF CreateLink, Goto, At, OnPath, Pending
  <2>5. CASE CreateSession(r)
    BY <2>5, ControlFinish DEF CreateSession
  <2>6. CASE RefreshDelete(r)
    BY <2>1, <2>6, ControlBecome DEF RefreshDelete, Goto, At, OnPath, Pending
  <2>7. CASE FindUser(r)
    BY <2>1, <2>7, ControlBecome, ControlFinish DEF FindUser, Goto, At, OnPath, Pending
  <2>8. CASE LogoutDelete(r)
    BY <2>8, ControlFinish DEF LogoutDelete
  <2>9. CASE RevokeAll(r)
    <3>1. OnPath(IF req[r].op = "google" THEN [req[r] EXCEPT !.pc = "createLink"] ELSE Idle)
      BY <2>1, <2>9 DEF RevokeAll, At, OnPath, Pending, Idle
    <3> QED
      BY <2>1, <2>9, <3>1, ControlMarks DEF RevokeAll, RevokePassing, ControlOK
  <2>10. CASE SetPassword(r)
    BY <2>1, <2>10, ControlBecome DEF SetPassword, Goto, At, OnPath, Pending
  <2>11. CASE MarkVerified(r)
    BY <2>11, ControlFinish DEF MarkVerified
  <2>12. CASE GoogleByEmail(r)
    BY <2>1, <2>12, ControlBecome DEF GoogleByEmail, Goto, At, OnPath, Pending
  <2>13. CASE GoogleSave(r)
    BY <2>1, <2>13, ControlBecome, ControlFinish
    DEF GoogleSave, AfterLink, Goto, At, OnPath, Pending
  <2>14. CASE GoogleCreate(r)
    BY <2>1, <2>14, ControlBecome, ControlFinish DEF GoogleCreate, Goto, At, OnPath, Pending
  <2>15. CASE DeleteCheck(r)
    BY <2>1, <2>15, ControlBecome, ControlFinish DEF DeleteCheck, Goto, At, OnPath, Pending
  <2>16. CASE DeleteSessions(r)
    <3>1. OnPath([req[r] EXCEPT !.pc = "deleteUser"])
      BY <2>1, <2>16 DEF DeleteSessions, At, OnPath, Pending
    <3> QED
      BY <2>1, <2>16, <3>1, ControlMarks DEF DeleteSessions, RevokePassing, ControlOK
  <2>17. CASE DeleteUser(r)
    <3>1. OnPath(Idle)
      BY DEF OnPath, Idle
    <3> QED
      BY <2>1, <2>17, <3>1, ControlMarks DEF DeleteUser, ControlOK
  <2> QED
    BY <1>2, <2>2, <2>3, <2>4, <2>5, <2>6, <2>7, <2>8, <2>9, <2>10, <2>11, <2>12,
       <2>13, <2>14, <2>15, <2>16, <2>17 DEF Continue
<1>3. ASSUME NEW r \in Requests, Crash(r) PROVE ControlOK'
  BY <1>3, ControlFinish DEF Crash
<1>4. ASSUME NEW u \in Users, Deactivate(u) PROVE ControlOK'
  BY <1>4, ControlMarks DEF Deactivate, ControlOK
<1>5. CASE UNCHANGED req
  BY <1>5 DEF ControlOK
<1> QED
  BY <1>1, <1>2, <1>3, <1>4, <1>5
  DEF Next, Environment, Activate, ReapSession, ReapLink, Tick, vars

-----------------------------------------------------------------------------
(* Emailed links                                                           *)

\* Requests that will store a link after they cleared their user's links.
Armed(q) == q.pc = "createLink" /\ q.purpose # "oauth_code"

\* The _ids of stored links were all handed out.
LinksNumbered == \A l \in links : l.id <= lastLink

\* The links a request about to store one will leave behind are newer than
\* its clearing of the user's links.
ArmedAhead ==
  \A r \in Requests : Armed(req[r]) =>
    /\ req[r].since <= lastLink
    /\ \A l \in links : l.owner = req[r].u /\ l.purpose = req[r].purpose
                          => req[r].since < l.id

\* The induction: TypeOK and ControlOK hold beside it.
LinkInv == LinksNumbered /\ ArmedAhead /\ LinksOverlapOnlyByRace

LEMMA LinkStart == Init => LinkInv
BY DEF Init, LinkInv, LinksNumbered, ArmedAhead, Armed, Idle,
       LinksOverlapOnlyByRace

\* What every step but clearing and storing links does to them.
LinksOnlyGo ==
  /\ links' \subseteq links
  /\ lastLink' = lastLink
  /\ \A x \in Requests : Armed(req'[x]) =>
       /\ Armed(req[x])
       /\ req'[x].u = req[x].u
       /\ req'[x].purpose = req[x].purpose
       /\ req'[x].since = req[x].since

LEMMA LinksGone == LinkInv /\ LinksOnlyGo => LinkInv'
<1> SUFFICES ASSUME LinkInv, LinksOnlyGo PROVE LinkInv'
  OBVIOUS
<1>1. LinksNumbered'
  BY DEF LinkInv, LinksOnlyGo, LinksNumbered
<1>2. ArmedAhead'
  BY DEF LinkInv, LinksOnlyGo, ArmedAhead
<1>3. LinksOverlapOnlyByRace'
  BY DEF LinkInv, LinksOnlyGo, LinksOverlapOnlyByRace
<1> QED
  BY <1>1, <1>2, <1>3 DEF LinkInv

\* A request that goes on as one that is not armed leaves the links alone.
LEMMA NotArmed ==
  ASSUME RequestsOK, NEW r \in Requests, NEW q, Become(r, q), ~Armed(q),
         links' \subseteq links, lastLink' = lastLink
  PROVE  LinksOnlyGo
BY DEF RequestsOK, Become, LinksOnlyGo

\* The same when the step also marks requests it passes by.
LEMMA MarksNotArmed ==
  ASSUME RequestsOK, NEW r \in Requests, NEW q, ~Armed(q),
         NEW u \in Users, RevokePassing(u, r, q),
         links' \subseteq links, lastLink' = lastLink
  PROVE  LinksOnlyGo
<1>1. \A x \in Requests : req[x].u = u => req[x] \in Pending
  BY AuthAssumption DEF RequestsOK, Request, Idle
<1>2. \A x \in Requests : x # r =>
        /\ req'[x].pc = req[x].pc /\ req'[x].u = req[x].u
        /\ req'[x].purpose = req[x].purpose /\ req'[x].since = req[x].since
  BY <1>1 DEF RevokePassing, Pending
<1>3. req'[r] = q
  BY DEF RevokePassing
<1> QED
  BY <1>2, <1>3 DEF LinksOnlyGo, Armed

LEMMA PassedByNotArmed ==
  ASSUME RequestsOK, NEW u \in Users, NEW x \in Requests
  PROVE  /\ PassedBy(x, u).pc = req[x].pc /\ PassedBy(x, u).u = req[x].u
         /\ PassedBy(x, u).purpose = req[x].purpose
         /\ PassedBy(x, u).since = req[x].since
<1>1. req[x].u = u /\ Authorised(req[x]) => req[x] \in Pending
  BY DEF RequestsOK, Request, Idle, Authorised
<1> QED
  BY <1>1 DEF PassedBy, Pending

\* Clearing: the cleared links are older, and none of the user's is left.
LEMMA ClearLinksStep ==
  ASSUME TypeOK, LinkInv, NEW r \in Requests, ClearLinks(r)
  PROVE  LinkInv'
<1>1. req[r] \in Pending
  BY AtPending DEF ClearLinks, At, TypeOK
<1>2. /\ links' = links \ Superseded(req[r].u, req[r].purpose)
      /\ lastLink' = lastLink /\ lastLink \in Nat
  BY DEF ClearLinks, TypeOK, StoreOK
<1>3. /\ req'[r].since = lastLink /\ req'[r].u = req[r].u
      /\ req'[r].purpose = req[r].purpose
      /\ \A x \in Requests \ {r} : req'[x] = req[x]
  BY <1>1 DEF ClearLinks, Become, TypeOK, RequestsOK, Pending
<1>4. LinksNumbered' /\ LinksOverlapOnlyByRace'
  BY <1>2 DEF LinkInv, LinksNumbered, LinksOverlapOnlyByRace
<1>5. ArmedAhead'
  <2> SUFFICES ASSUME NEW x \in Requests, Armed(req'[x])
               PROVE  /\ req'[x].since <= lastLink'
                      /\ \A l \in links' :
                           l.owner = req'[x].u /\ l.purpose = req'[x].purpose
                           => req'[x].since < l.id
    BY DEF ArmedAhead
  <2>1. CASE x = r
    BY <1>2, <1>3, <2>1 DEF Superseded
  <2>2. CASE x # r
    BY <1>2, <1>3, <2>2 DEF LinkInv, ArmedAhead
  <2> QED
    BY <2>1, <2>2
<1> QED
  BY <1>4, <1>5 DEF LinkInv

\* Storing: the new link is newer than every clearing and every link.
LEMMA CreateLinkStep ==
  ASSUME TypeOK, LinkInv, NEW r \in Requests, CreateLink(r)
  PROVE  LinkInv'
<1> DEFINE new == [id |-> lastLink + 1, owner |-> req[r].u,
                   purpose |-> req[r].purpose, binding |-> req[r].nonce,
                   since |-> req[r].since,
                   expiresAt |-> now + LinkTTL[req[r].purpose]]
<1>1. req[r] \in Pending /\ req[r].pc = "createLink"
  BY AtPending DEF CreateLink, At, TypeOK
<1>2. links' = links \cup {new} /\ lastLink' = lastLink + 1 /\ lastLink \in Nat
  BY DEF CreateLink, TypeOK, StoreOK
<1>3. /\ req'[r].pc # "createLink"
      /\ \A x \in Requests \ {r} : req'[x] = req[x]
  BY <1>1 DEF CreateLink, Goto, Finish, Become, TypeOK, RequestsOK, Pending, Idle
<1>4. \A l \in links : l.id \in Nat /\ l.id <= lastLink
  BY DEF LinkInv, LinksNumbered, TypeOK, StoreOK, Link, LinkIds
<1>5. LinksNumbered'
  BY <1>2, <1>4 DEF LinksNumbered
<1>6. ArmedAhead'
  <2> SUFFICES ASSUME NEW x \in Requests, Armed(req'[x])
               PROVE  /\ req'[x].since <= lastLink'
                      /\ \A l \in links' :
                           l.owner = req'[x].u /\ l.purpose = req'[x].purpose
                           => req'[x].since < l.id
    BY DEF ArmedAhead
  <2>1. x # r /\ req'[x] = req[x] /\ Armed(req[x])
    BY <1>3 DEF Armed
  <2>2. req[x] \in Pending /\ req[x].since \in Nat
    BY <2>1, AtPending DEF Armed, TypeOK, Pending
  <2>3. req[x].since <= lastLink
    BY <2>1 DEF LinkInv, ArmedAhead
  <2> QED
    BY <1>2, <2>1, <2>2, <2>3 DEF LinkInv, ArmedAhead
<1>7. LinksOverlapOnlyByRace'
  <2> SUFFICES ASSUME NEW a \in links', NEW b \in links',
                      a.owner = b.owner, a.purpose = b.purpose,
                      a.purpose # "oauth_code", a.id < b.id
               PROVE  b.since < a.id
    BY DEF LinksOverlapOnlyByRace
  <2>1. a \in links
    BY <1>2, <1>4
  <2>2. CASE b \in links
    BY <2>1, <2>2 DEF LinkInv, LinksOverlapOnlyByRace
  <2>3. CASE b = new
    BY <1>1, <2>1, <2>3 DEF LinkInv, ArmedAhead, Armed
  <2> QED
    BY <1>2, <2>2, <2>3
<1> QED
  BY <1>5, <1>6, <1>7 DEF LinkInv

LEMMA LinkNext ==
  TypeOK /\ ControlOK /\ LinkInv /\ [Next]_vars => LinkInv'
<1> SUFFICES ASSUME TypeOK, ControlOK, LinkInv, [Next]_vars PROVE LinkInv'
  OBVIOUS
<1> RequestsOK
  BY DEF TypeOK
<1>1. ASSUME NEW r \in Requests, Call(r) PROVE LinksOnlyGo
  <2>2. ASSUME NEW u \in Users, Register(r, u) PROVE LinksOnlyGo
    BY <2>2, NotArmed DEF Register, Begun, Idle, Armed
  <2>3. ASSUME NEW u \in Users, Login(r, u) PROVE LinksOnlyGo
    BY <2>3, NotArmed DEF Login, Begun, Idle, Armed
  <2>4. ASSUME NEW u \in Users, LogoutAll(r, u) PROVE LinksOnlyGo
    BY <2>4, NotArmed DEF LogoutAll, Begun, Idle, Armed
  <2>5. ASSUME NEW u \in Users, Forgot(r, u) PROVE LinksOnlyGo
    BY <2>5, NotArmed DEF Forgot, Begun, Idle, Armed
  <2>6. ASSUME NEW u \in Users, Resend(r, u) PROVE LinksOnlyGo
    BY <2>6, NotArmed DEF Resend, Begun, Idle, Armed
  <2>7. ASSUME NEW u \in Users, Delete(r, u) PROVE LinksOnlyGo
    BY <2>7, NotArmed DEF Delete, Begun, Idle, Armed
  <2>8. ASSUME NEW u \in Users, NEW n \in Nonces, NEW v \in BOOLEAN, Google(r, u, n, v)
        PROVE  LinksOnlyGo
    <3>1. \E pc \in {"createLink", "googleByEmail"} :
            Become(r, [Begun("google", pc, u) EXCEPT !.nonce = n])
      BY <2>8 DEF Google
    <3> QED
      BY <2>8, <3>1, NotArmed DEF Google, Begun, Idle, Armed
  <2>9. ASSUME NEW d \in sessions, RefreshFind(r, d) PROVE LinksOnlyGo
    BY <2>9, NotArmed DEF RefreshFind, Begun, Idle, Armed
  <2>10. ASSUME NEW d \in sessions, Logout(r, d) PROVE LinksOnlyGo
    BY <2>10, NotArmed DEF Logout, Begun, Idle, Armed
  <2>11. ASSUME NEW l \in links, Reset(r, l) PROVE LinksOnlyGo
    BY <2>11, NotArmed DEF Reset, Redeems, Begun, Idle, Armed
  <2>12. ASSUME NEW l \in links, Verify(r, l) PROVE LinksOnlyGo
    BY <2>12, NotArmed DEF Verify, Redeems, Begun, Idle, Armed
  <2>13. ASSUME NEW l \in links, NEW n \in Nonces, Exchange(r, l, n) PROVE LinksOnlyGo
    BY <2>13, NotArmed DEF Exchange, Redeems, Begun, Idle, Armed
  <2> QED
    BY <1>1, <2>2, <2>3, <2>4, <2>5, <2>6, <2>7, <2>8, <2>9, <2>10, <2>11,
       <2>12, <2>13 DEF Call
<1>2. ASSUME NEW r \in Requests, Continue(r), ~ClearLinks(r), ~CreateLink(r)
      PROVE  LinksOnlyGo
  <2>1. req[r] \in Pending /\ OnPath(req[r]) /\ req[r].u \in Users
    BY <1>2, AtPending DEF Continue, CreateUser, ClearLinks, CreateLink, CreateSession,
       RefreshDelete, FindUser, LogoutDelete, RevokeAll, SetPassword, MarkVerified,
       GoogleByEmail, GoogleSave, GoogleCreate, DeleteCheck, DeleteSessions,
       DeleteUser, At, ControlOK, Pending
  <2>2. ~Armed(Idle)
    BY DEF Armed, Idle
  <2>3. CASE CreateUser(r)
    BY <2>1, <2>2, <2>3, NotArmed DEF CreateUser, Finish, Armed, Pending
  <2>4. CASE CreateSession(r)
    BY <2>2, <2>4, NotArmed DEF CreateSession, Finish
  <2>5. CASE RefreshDelete(r)
    BY <2>1, <2>5, NotArmed DEF RefreshDelete, Goto, Armed, Pending
  <2>6. CASE FindUser(r)
    BY <2>1, <2>2, <2>6, NotArmed DEF FindUser, Goto, Finish, Armed, Pending
  <2>7. CASE LogoutDelete(r)
    BY <2>2, <2>7, NotArmed DEF LogoutDelete, Finish
  <2>8. CASE RevokeAll(r)
    <3>1. ~Armed(IF req[r].op = "google" THEN [req[r] EXCEPT !.pc = "createLink"] ELSE Idle)
      BY <2>1, <2>2, <2>8 DEF RevokeAll, At, OnPath, Armed, Pending
    <3> QED
      BY <2>1, <2>8, <3>1, MarksNotArmed DEF RevokeAll
  <2>9. CASE SetPassword(r)
    BY <2>1, <2>9, NotArmed DEF SetPassword, Goto, Armed, Pending
  <2>10. CASE MarkVerified(r)
    BY <2>2, <2>10, NotArmed DEF MarkVerified, Finish
  <2>11. CASE GoogleByEmail(r)
    BY <2>1, <2>11, NotArmed DEF GoogleByEmail, Goto, Armed, Pending
  <2>12. CASE GoogleSave(r)
    <3>1. req[r].purpose = "oauth_code"
      BY <2>1, <2>12 DEF GoogleSave, At, OnPath
    <3>2. \E q : Become(r, q) /\ ~Armed(q)
      BY <2>1, <2>2, <2>12, <3>1 DEF GoogleSave, Goto, Finish, Armed, Pending
    <3> QED
      BY <2>12, <3>2, NotArmed DEF GoogleSave
  <2>13. CASE GoogleCreate(r)
    <3>1. req[r].purpose = "oauth_code"
      BY <2>1, <2>13 DEF GoogleCreate, At, OnPath
    <3>2. \E q : Become(r, q) /\ ~Armed(q)
      BY <2>1, <2>2, <2>13, <3>1 DEF GoogleCreate, Goto, Finish, Armed, Pending
    <3> QED
      BY <2>13, <3>2, NotArmed DEF GoogleCreate
  <2>14. CASE DeleteCheck(r)
    BY <2>1, <2>2, <2>14, NotArmed DEF DeleteCheck, Goto, Finish, Armed, Pending
  <2>15. CASE DeleteSessions(r)
    <3>1. ~Armed([req[r] EXCEPT !.pc = "deleteUser"])
      BY <2>1 DEF Armed, Pending
    <3> QED
      BY <2>1, <2>15, <3>1, MarksNotArmed DEF DeleteSessions
  <2>16. CASE DeleteUser(r)
    <3>1. \A x \in Requests : req'[x] = IF x = r THEN Idle ELSE PassedBy(x, req[r].u)
      BY <2>16 DEF DeleteUser
    <3> QED
      BY <2>1, <2>2, <2>16, <3>1, PassedByNotArmed DEF DeleteUser, LinksOnlyGo, Armed
  <2> QED
    BY <1>2, <2>3, <2>4, <2>5, <2>6, <2>7, <2>8, <2>9, <2>10, <2>11, <2>12, <2>13,
       <2>14, <2>15, <2>16 DEF Continue
<1>3. ASSUME NEW r \in Requests, Crash(r) PROVE LinksOnlyGo
  BY <1>3, NotArmed DEF Crash, Finish, Armed, Idle
<1>4. ASSUME NEW u \in Users, Deactivate(u) PROVE LinksOnlyGo
  BY <1>4, PassedByNotArmed DEF Deactivate, LinksOnlyGo, Armed
<1>5. ASSUME Environment \/ UNCHANGED vars PROVE LinksOnlyGo
  <2>1. CASE UNCHANGED <<req, lastLink>> /\ links' \subseteq links
    BY <2>1 DEF LinksOnlyGo
  <2>2. CASE UNCHANGED vars
    BY <2>1, <2>2 DEF vars
  <2>3. CASE Environment
    BY <1>4, <2>1, <2>3 DEF Environment, Activate, ReapSession, ReapLink, Tick
  <2> QED
    BY <1>5, <2>2, <2>3
<1> QED
  BY <1>1, <1>2, <1>3, <1>5, LinksGone, ClearLinksStep, CreateLinkStep DEF Next

\* Whatever the interleaving, two links a user holds for one purpose at one
\* time come from requests that overlapped (auth.service.ts:196 and :218).
THEOREM LinksOverlapCorrect == Spec => []LinksOverlapOnlyByRace
<1>1. Init => LinkInv
  BY LinkStart
<1>2. Init => ControlOK
  BY ControlStart
<1>3. TypeOK /\ ControlOK /\ [Next]_vars => ControlOK'
  BY ControlNext
<1>4. TypeOK /\ ControlOK /\ LinkInv /\ [Next]_vars => LinkInv'
  BY LinkNext
<1>5. LinkInv => LinksOverlapOnlyByRace
  BY DEF LinkInv
<1> QED
  BY <1>1, <1>2, <1>3, <1>4, <1>5, TypeCorrect, PTL DEF Spec

-----------------------------------------------------------------------------
(* Closed accounts                                                         *)

\* The induction: it also covers the registrations that have created their
\* account but are not yet about to open the session.
ClosedKnown ==
  \A r \in Requests : Authorised(req[r]) /\ ~Live(req[r].u) => req[r].closed

LEMMA ClosedStart == Init => ClosedKnown
BY DEF Init, ClosedKnown, Authorised, Idle

\* What every step but closing an account does: live accounts stay live, and
\* a request is given leave to open a session only for a live account.
AccountsStay ==
  /\ \A u \in Users : Live(u) => user'[u].status = "present" /\ user'[u].active
  /\ \A x \in Requests : Authorised(req'[x]) =>
       \/ user'[req'[x].u].status = "present" /\ user'[req'[x].u].active
       \/ /\ Authorised(req[x])
          /\ req'[x].u = req[x].u /\ req'[x].closed = req[x].closed

LEMMA AuthorisedType ==
  ASSUME RequestsOK, NEW x \in Requests, Authorised(req[x])
  PROVE  req[x] \in Pending /\ req[x].u \in Users
<1>1. req[x] \in Pending
  BY DEF RequestsOK, Request, Idle, Authorised
<1> QED
  BY <1>1 DEF Pending

LEMMA AccountsStayClosed ==
  RequestsOK /\ ClosedKnown /\ AccountsStay => ClosedKnown'
<1> SUFFICES ASSUME RequestsOK, ClosedKnown, AccountsStay,
                    NEW x \in Requests, Authorised(req'[x]),
                    ~(user'[req'[x].u].status = "present" /\ user'[req'[x].u].active)
             PROVE  req'[x].closed
  BY DEF ClosedKnown, Live
<1>1. Authorised(req[x]) /\ req'[x].u = req[x].u /\ req'[x].closed = req[x].closed
  BY DEF AccountsStay
<1>2. ~Live(req[x].u)
  BY <1>1, AuthorisedType DEF AccountsStay
<1> QED
  BY <1>1, <1>2 DEF ClosedKnown

\* Steps of one request that write no account.
LEMMA NoAccountWritten ==
  ASSUME RequestsOK, NEW r \in Requests, NEW q, Become(r, q), user' = user,
         \/ ~Authorised(q)
         \/ Live(q.u)
         \/ Authorised(req[r]) /\ q.u = req[r].u /\ q.closed = req[r].closed
  PROVE  AccountsStay
BY DEF RequestsOK, Become, AccountsStay, Live

\* Steps that delete a user's sessions under the other requests.
LEMMA RevokeStays ==
  ASSUME RequestsOK, NEW r \in Requests, NEW q, ~Authorised(q), user' = user,
         NEW u \in Users, RevokePassing(u, r, q)
  PROVE  AccountsStay
<1>1. \A x \in Requests : req[x].u = u => req[x] \in Pending
  BY AuthAssumption DEF RequestsOK, Request, Idle
<1>2. \A x \in Requests : x # r =>
        /\ req'[x].pc = req[x].pc /\ req'[x].u = req[x].u
        /\ req'[x].op = req[x].op /\ req'[x].closed = req[x].closed
  BY <1>1 DEF RevokePassing, Pending
<1>3. req'[r] = q
  BY DEF RevokePassing
<1> QED
  BY <1>2, <1>3 DEF AccountsStay, Authorised, Live

\* Closing an account tells every request that is past its check.
LEMMA ClosingTells ==
  ASSUME RequestsOK, ClosedKnown, NEW u \in Users,
         \A v \in Users \ {u} : user'[v] = user[v],
         \A x \in Requests : req'[x] = PassedBy(x, u) \/ req'[x] = Idle
  PROVE  ClosedKnown'
<1> SUFFICES ASSUME NEW x \in Requests, Authorised(req'[x]),
                    ~(user'[req'[x].u].status = "present" /\ user'[req'[x].u].active)
             PROVE  req'[x].closed
  BY DEF ClosedKnown, Live
<1>1. req'[x] = PassedBy(x, u)
  BY DEF Authorised, Idle
<1>2. CASE req[x].u = u /\ Authorised(req[x])
  <2>1. req[x] \in Pending
    BY <1>2, AuthorisedType
  <2> QED
    BY <1>1, <1>2, <2>1 DEF PassedBy, Pending
<1>3. CASE ~(req[x].u = u /\ Authorised(req[x]))
  <2>1. req'[x] = req[x] /\ req[x].u # u
    BY <1>1, <1>3 DEF PassedBy
  <2>2. req[x].u \in Users
    BY <2>1, AuthorisedType
  <2> QED
    BY <2>1, <2>2 DEF ClosedKnown, Live
<1> QED
  BY <1>2, <1>3

LEMMA ClosedNext ==
  TypeOK /\ ControlOK /\ ClosedKnown /\ [Next]_vars => ClosedKnown'
<1> SUFFICES ASSUME TypeOK, ControlOK, ClosedKnown, [Next]_vars
             PROVE  ClosedKnown'
  OBVIOUS
<1>1. RequestsOK /\ user \in [Users -> Account]
  BY DEF TypeOK, StoreOK
<1>2. ASSUME NEW r \in Requests, Call(r) PROVE AccountsStay
  <2>1. ASSUME NEW u \in Users, Register(r, u) PROVE AccountsStay
    BY <1>1, <2>1, NoAccountWritten DEF Register, Begun, Idle, Authorised
  <2>2. ASSUME NEW u \in Users, Login(r, u) PROVE AccountsStay
    BY <1>1, <2>2, NoAccountWritten DEF Login, Begun, Idle
  <2>3. ASSUME NEW u \in Users, LogoutAll(r, u) PROVE AccountsStay
    BY <1>1, <2>3, NoAccountWritten DEF LogoutAll, Begun, Idle, Authorised
  <2>4. ASSUME NEW u \in Users, Forgot(r, u) PROVE AccountsStay
    BY <1>1, <2>4, NoAccountWritten DEF Forgot, Begun, Idle, Authorised
  <2>5. ASSUME NEW u \in Users, Resend(r, u) PROVE AccountsStay
    BY <1>1, <2>5, NoAccountWritten DEF Resend, Begun, Idle, Authorised
  <2>6. ASSUME NEW u \in Users, Delete(r, u) PROVE AccountsStay
    BY <1>1, <2>6, NoAccountWritten DEF Delete, Begun, Idle, Authorised
  <2>7. ASSUME NEW u \in Users, NEW n \in Nonces, NEW v \in BOOLEAN, Google(r, u, n, v)
        PROVE  AccountsStay
    <3>1. \E pc \in {"createLink", "googleByEmail"} :
            Become(r, [Begun("google", pc, u) EXCEPT !.nonce = n])
      BY <2>7 DEF Google
    <3> QED
      BY <1>1, <2>7, <3>1, NoAccountWritten DEF Google, Begun, Idle, Authorised
  <2>8. ASSUME NEW d \in sessions, RefreshFind(r, d) PROVE AccountsStay
    BY <1>1, <2>8, NoAccountWritten DEF RefreshFind, Begun, Idle, Authorised
  <2>9. ASSUME NEW d \in sessions, Logout(r, d) PROVE AccountsStay
    BY <1>1, <2>9, NoAccountWritten DEF Logout, Begun, Idle, Authorised
  <2>10. ASSUME NEW l \in links, Reset(r, l) PROVE AccountsStay
    BY <1>1, <2>10, NoAccountWritten DEF Reset, Begun, Idle, Authorised
  <2>11. ASSUME NEW l \in links, Verify(r, l) PROVE AccountsStay
    BY <1>1, <2>11, NoAccountWritten DEF Verify, Begun, Idle, Authorised
  <2>12. ASSUME NEW l \in links, NEW n \in Nonces, Exchange(r, l, n) PROVE AccountsStay
    BY <1>1, <2>12, NoAccountWritten DEF Exchange, Begun, Idle, Authorised
  <2> QED
    BY <1>2, <2>1, <2>2, <2>3, <2>4, <2>5, <2>6, <2>7, <2>8, <2>9, <2>10, <2>11,
       <2>12 DEF Call
<1>3. ASSUME NEW r \in Requests, Continue(r) PROVE ClosedKnown'
  <2>1. req[r] \in Pending /\ OnPath(req[r]) /\ req[r].u \in Users
    BY <1>1, <1>3, AtPending DEF Continue, CreateUser, ClearLinks, CreateLink, CreateSession,
       RefreshDelete, FindUser, LogoutDelete, RevokeAll, SetPassword, MarkVerified,
       GoogleByEmail, GoogleSave, GoogleCreate, DeleteCheck, DeleteSessions,
       DeleteUser, At, ControlOK, Pending
  <2>2. ~Authorised(Idle) /\ req[r].u # "none"
    BY <2>1, AuthAssumption DEF Authorised, Idle
  <2>3. CASE CreateUser(r)
    <3>1. CASE user[req[r].u].status = "new"
      <4>1. /\ user' = [user EXCEPT ![req[r].u] = LocalAccount(lastPassword + 1)]
            /\ req' = [req EXCEPT ![r] = [req[r] EXCEPT !.pc = "clearLinks",
                                                       !.purpose = "email_verify",
                                                       !.password = lastPassword + 1]]
        BY <2>3, <3>1 DEF CreateUser, Become
      <4>2. user'[req[r].u].status = "present" /\ user'[req[r].u].active
        BY <1>1, <2>1, <4>1 DEF LocalAccount, NewAccount
      <4>3. req'[r].u = req[r].u
        BY <1>1, <2>1, <4>1 DEF RequestsOK, Pending
      <4>4. \A u \in Users : Live(u) => user'[u] = user[u]
        BY <1>1, <3>1, <4>1 DEF Live
      <4>5. \A x \in Requests \ {r} : req'[x] = req[x]
        BY <1>1, <4>1 DEF RequestsOK
      <4> QED
        BY <1>1, <4>2, <4>3, <4>4, <4>5, AccountsStayClosed DEF AccountsStay, Live
    <3>2. CASE user[req[r].u].status # "new"
      BY <1>1, <2>2, <2>3, <3>2, NoAccountWritten, AccountsStayClosed DEF CreateUser, Finish
    <3> QED
      BY <3>1, <3>2
  <2>4. CASE ClearLinks(r)
    BY <1>1, <2>1, <2>4, NoAccountWritten, AccountsStayClosed
    DEF ClearLinks, At, OnPath, Authorised, Pending
  <2>5. CASE CreateLink(r)
    <3>1. CASE req[r].op = "register"
      BY <1>1, <2>1, <2>2, <2>5, <3>1, NoAccountWritten, AccountsStayClosed
      DEF CreateLink, Goto, At, Authorised, Pending
    <3>2. CASE req[r].op # "register"
      BY <1>1, <2>2, <2>5, <3>2, NoAccountWritten, AccountsStayClosed DEF CreateLink, Finish
    <3> QED
      BY <3>1, <3>2
  <2>6. CASE CreateSession(r)
    BY <1>1, <2>2, <2>6, NoAccountWritten, AccountsStayClosed DEF CreateSession, Finish
  <2>7. CASE RefreshDelete(r)
    BY <1>1, <2>1, <2>7, NoAccountWritten, AccountsStayClosed
    DEF RefreshDelete, Goto, At, OnPath, Authorised, Pending
  <2>8. CASE FindUser(r)
    <3>1. CASE Live(req[r].u)
      BY <1>1, <2>1, <2>8, <3>1, NoAccountWritten, AccountsStayClosed
      DEF FindUser, Goto, Pending
    <3>2. CASE ~Live(req[r].u)
      BY <1>1, <2>2, <2>8, <3>2, NoAccountWritten, AccountsStayClosed DEF FindUser, Finish
    <3> QED
      BY <3>1, <3>2
  <2>9. CASE LogoutDelete(r)
    BY <1>1, <2>2, <2>9, NoAccountWritten, AccountsStayClosed DEF LogoutDelete, Finish
  <2>10. CASE RevokeAll(r)
    <3>1. ~Authorised(IF req[r].op = "google" THEN [req[r] EXCEPT !.pc = "createLink"] ELSE Idle)
      BY <2>1, <2>2 DEF Authorised, Pending
    <3> QED
      BY <1>1, <2>1, <2>10, <3>1, RevokeStays, AccountsStayClosed DEF RevokeAll
  <2>11. CASE SetPassword(r)
    <3>1. \A u \in Users : Live(u) => user'[u].status = "present" /\ user'[u].active
      BY <1>1, <2>1, <2>11 DEF SetPassword, Live, Account
    <3>2. /\ ~Authorised(req'[r])
          /\ \A x \in Requests \ {r} : req'[x] = req[x]
      BY <1>1, <2>1, <2>11 DEF SetPassword, Goto, Become, At, OnPath, RequestsOK, Authorised,
                               Pending
    <3> QED
      BY <1>1, <3>1, <3>2, AccountsStayClosed DEF AccountsStay
  <2>12. CASE MarkVerified(r)
    <3>1. \A u \in Users : Live(u) => user'[u].status = "present" /\ user'[u].active
      BY <1>1, <2>1, <2>12 DEF MarkVerified, Live, Account
    <3>2. /\ ~Authorised(req'[r])
          /\ \A x \in Requests \ {r} : req'[x] = req[x]
      BY <1>1, <2>2, <2>12 DEF MarkVerified, Finish, Become, RequestsOK
    <3> QED
      BY <1>1, <3>1, <3>2, AccountsStayClosed DEF AccountsStay
  <2>13. CASE GoogleByEmail(r)
    BY <1>1, <2>1, <2>13, NoAccountWritten, AccountsStayClosed
    DEF GoogleByEmail, Goto, At, OnPath, Authorised, Pending
  <2>14. CASE GoogleSave(r)
    <3>1. \A u \in Users : Live(u) => user'[u].status = "present" /\ user'[u].active
      BY <1>1, <2>1, <2>14 DEF GoogleSave, Live, Account
    <3>2. \E q : Become(r, q) /\ ~Authorised(q)
      BY <2>1, <2>2, <2>14
      DEF GoogleSave, AfterLink, Goto, Finish, At, OnPath, Authorised, Pending
    <3>3. /\ ~Authorised(req'[r])
          /\ \A x \in Requests \ {r} : req'[x] = req[x]
      BY <1>1, <3>2 DEF Become, RequestsOK
    <3> QED
      BY <1>1, <3>1, <3>3, AccountsStayClosed DEF AccountsStay
  <2>15. CASE GoogleCreate(r)
    <3>1. \A u \in Users : Live(u) => user'[u].status = "present" /\ user'[u].active
      BY <1>1, <2>1, <2>15 DEF GoogleCreate, Live, Account
    <3>2. \E q : Become(r, q) /\ ~Authorised(q)
      BY <2>1, <2>2, <2>15 DEF GoogleCreate, Goto, Finish, At, OnPath, Authorised, Pending
    <3>3. /\ ~Authorised(req'[r])
          /\ \A x \in Requests \ {r} : req'[x] = req[x]
      BY <1>1, <3>2 DEF Become, RequestsOK
    <3> QED
      BY <1>1, <3>1, <3>3, AccountsStayClosed DEF AccountsStay
  <2>16. CASE DeleteCheck(r)
    BY <1>1, <2>1, <2>2, <2>16, NoAccountWritten, AccountsStayClosed
    DEF DeleteCheck, Goto, Finish, At, OnPath, Authorised, Pending
  <2>17. CASE DeleteSessions(r)
    <3>1. ~Authorised([req[r] EXCEPT !.pc = "deleteUser"])
      BY <2>1, <2>17 DEF DeleteSessions, At, OnPath, Authorised, Pending
    <3> QED
      BY <1>1, <2>1, <2>17, <3>1, RevokeStays, AccountsStayClosed DEF DeleteSessions
  <2>18. CASE DeleteUser(r)
    <3>1. \A v \in Users \ {req[r].u} : user'[v] = user[v]
      BY <1>1, <2>1, <2>18 DEF DeleteUser
    <3>2. \A x \in Requests : req'[x] = PassedBy(x, req[r].u) \/ req'[x] = Idle
      BY <2>18 DEF DeleteUser
    <3> QED
      BY <1>1, <2>1, <3>1, <3>2, ClosingTells
  <2> QED
    BY <1>3, <2>3, <2>4, <2>5, <2>6, <2>7, <2>8, <2>9, <2>10, <2>11, <2>12, <2>13,
       <2>14, <2>15, <2>16, <2>17, <2>18 DEF Continue
<1>4. ASSUME NEW r \in Requests, Crash(r) PROVE AccountsStay
  BY <1>1, <1>4, NoAccountWritten DEF Crash, Finish, Authorised, Idle
<1>5. ASSUME NEW u \in Users, Deactivate(u) PROVE ClosedKnown'
  <2>1. \A v \in Users \ {u} : user'[v] = user[v]
    BY <1>1, <1>5 DEF Deactivate
  <2>2. \A x \in Requests : req'[x] = PassedBy(x, u) \/ req'[x] = Idle
    BY <1>5 DEF Deactivate
  <2> QED
    BY <1>1, <2>1, <2>2, ClosingTells
<1>6. ASSUME NEW u \in Users, Activate(u) PROVE AccountsStay
  BY <1>1, <1>6 DEF Activate, AccountsStay, Live, Account
<1>7. CASE UNCHANGED <<user, req>>
  BY <1>7 DEF ClosedKnown, Live
<1> QED
  BY <1>1, <1>2, <1>3, <1>4, <1>5, <1>6, <1>7, AccountsStayClosed
  DEF Next, Environment, ReapSession, ReapLink, Tick, vars

\* Only a request that was past its check when the account was closed is
\* about to open a session for a closed account (auth.service.ts:146).
THEOREM ClosedAccountCorrect == Spec => []NoSessionForClosedAccount
<1>1. Init => ClosedKnown
  BY ClosedStart
<1>2. Init => ControlOK
  BY ControlStart
<1>3. TypeOK /\ ControlOK /\ [Next]_vars => ControlOK'
  BY ControlNext
<1>4. TypeOK /\ ControlOK /\ ClosedKnown /\ [Next]_vars => ClosedKnown'
  BY ClosedNext
<1>5. ClosedKnown => NoSessionForClosedAccount
  BY DEF ClosedKnown, NoSessionForClosedAccount, Authorised, At
<1> QED
  BY <1>1, <1>2, <1>3, <1>4, <1>5, TypeCorrect, PTL DEF Spec

-----------------------------------------------------------------------------
(* Sessions of an old password                                             *)

\* A request that would open a session with an old password.
Stale(q) == /\ q.password # NoPassword
            /\ user[q.u].status = "present"
            /\ user[q.u].password # q.password

\* The end of u's sessions is still to come, or was lost.
Ending(u) ==
  \/ u \in unrevoked
  \/ \E r \in Requests : /\ At(r, "revokeAll") /\ req[r].u = u
                         /\ req[r].op # "logoutAll"

\* Nobody holds a session, or leave to open one, for an account not created.
Founded ==
  /\ \A d \in sessions : user[d.owner].status # "new"
  /\ \A r \in Requests : Authorised(req[r]) \/ req[r].password # NoPassword
                           => user[req[r].u].status # "new"

\* Only logins, registrations and refreshes carry a password.
Carriers ==
  \A r \in Requests : req[r].password # NoPassword =>
                        req[r].op \in {"login", "register", "refresh"}

StaleSessions == \A d \in sessions : Outdated(d) => d.late \/ Ending(d.owner)

StaleRequests ==
  \A r \in Requests : Stale(req[r]) => req[r].late \/ Ending(req[r].u)

\* The induction: sessions come from requests and refreshes from sessions,
\* so the excuse of the one must be the excuse of the other.
PasswordInv == Founded /\ Carriers /\ StaleSessions /\ StaleRequests

LEMMA PasswordStart == Init => PasswordInv
BY DEF Init, PasswordInv, Founded, Carriers, StaleSessions, StaleRequests, Idle,
       Stale, Authorised, NoPassword

\* What r may go on as in a step that gives it no new password: no password,
\* the one it had, or the one its account has.
Sound(r, q) ==
  /\ \/ q.password = NoPassword
     \/ /\ q.password = req[r].password /\ q.u = req[r].u
        /\ q.op = req[r].op /\ (req[r].late => q.late)
     \/ /\ q.password = user[q.u].password /\ user[q.u].status = "present"
        /\ q.op \in {"login", "register", "refresh"}
  /\ Authorised(q) => \/ user[q.u].status = "present"
                      \/ Authorised(req[r]) /\ q.u = req[r].u

\* A step that touches no password, opens no session and calls off no end.
Calm ==
  /\ \A u \in Users : /\ user'[u].password = user[u].password
                         \/ user'[u].status # "present"
                      /\ user'[u].status = user[u].status
                         \/ user'[u].status = "deleted"
  /\ sessions' \subseteq sessions
  /\ \A u \in Users : Ending(u) => Ending(u)'
  /\ \A x \in Requests : Sound(x, req'[x])

LEMMA CarrierType ==
  ASSUME RequestsOK, NEW x \in Requests,
         Authorised(req[x]) \/ req[x].password # NoPassword
  PROVE  req[x].u \in Users
BY DEF RequestsOK, Request, Pending, Idle, Authorised

LEMMA CalmKeeps ==
  ASSUME TypeOK, RequestsOK', PasswordInv, Calm
  PROVE  PasswordInv'
<1>1. RequestsOK /\ \A d \in sessions : d.owner \in Users
  BY DEF TypeOK, StoreOK, Session
<1>2. Founded'
  <2>1. \A d \in sessions' : user'[d.owner].status # "new"
    BY <1>1 DEF Calm, PasswordInv, Founded
  <2>2. ASSUME NEW x \in Requests,
               Authorised(req'[x]) \/ req'[x].password # NoPassword
        PROVE  user'[req'[x].u].status # "new"
    <3>1. req'[x].u \in Users
      BY <2>2 DEF RequestsOK, Request, Pending, Idle, Authorised
    <3>2. user[req'[x].u].status # "new"
      BY <2>2 DEF Calm, Sound, PasswordInv, Founded
    <3> QED
      BY <3>1, <3>2 DEF Calm
  <2> QED
    BY <2>1, <2>2 DEF Founded, Authorised
<1>3. Carriers'
  BY DEF Calm, Sound, PasswordInv, Carriers
<1>4. StaleSessions'
  <2> SUFFICES ASSUME NEW d \in sessions', Outdated(d)' PROVE d.late \/ Ending(d.owner)'
    BY DEF StaleSessions
  <2>1. d \in sessions /\ d.owner \in Users
    BY <1>1 DEF Calm
  <2>2. Outdated(d)
    BY <2>1 DEF Outdated, Calm
  <2> QED
    BY <2>1, <2>2 DEF PasswordInv, StaleSessions, Calm
<1>5. StaleRequests'
  <2> SUFFICES ASSUME NEW x \in Requests, Stale(req[x])'
               PROVE  (req[x].late \/ Ending(req[x].u))'
    BY DEF StaleRequests
  <2>1. req'[x].u \in Users /\ req'[x].password # NoPassword
    BY DEF RequestsOK, Request, Pending, Idle, Stale
  <2>2. req'[x].password = req[x].password /\ req'[x].u = req[x].u
        /\ (req[x].late => req'[x].late)
    BY <2>1 DEF Calm, Sound, Stale
  <2>3. Stale(req[x])
    BY <2>1, <2>2 DEF Calm, Stale
  <2>4. req[x].late \/ Ending(req[x].u)
    BY <2>3 DEF PasswordInv, StaleRequests
  <2>5. CASE req[x].late
    BY <2>2, <2>5
  <2>6. CASE Ending(req[x].u)
    BY <2>1, <2>2, <2>6 DEF Calm
  <2> QED
    BY <2>4, <2>5, <2>6
<1> QED
  BY <1>2, <1>3, <1>4, <1>5 DEF PasswordInv

\* Steps of one request that write no account and open no session.
LEMMA CalmStep ==
  ASSUME RequestsOK, NEW r \in Requests, NEW q, Become(r, q), user' = user,
         sessions' \subseteq sessions, unrevoked \subseteq unrevoked',
         \/ ~At(r, "revokeAll") \/ req[r].op = "logoutAll"
         \/ req[r].u \in unrevoked',
         Sound(r, q)
  PROVE  Calm
<1>1. req'[r] = q /\ \A x \in Requests \ {r} : req'[x] = req[x]
  BY DEF Become, RequestsOK
<1>2. \A x \in Requests : Sound(x, req'[x])
  BY <1>1 DEF Sound
<1>3. ASSUME NEW u \in Users, Ending(u) PROVE Ending(u)'
  BY <1>1, <1>3 DEF Ending, At
<1> QED
  BY <1>2, <1>3 DEF Calm

LEMMA SoundIdle == ASSUME NEW r PROVE Sound(r, Idle)
BY DEF Sound, Idle, Authorised, NoPassword

\* The old-password sessions go, and what is being opened is marked.
LEMMA RevokeKeeps ==
  ASSUME TypeOK, RequestsOK', PasswordInv, NEW r \in Requests, NEW q,
         NEW u \in Users, RevokePassing(u, r, q), user' = user,
         q.password = NoPassword, ~Authorised(q), req[r].u = u,
         sessions' = sessions \ SessionsOf(u), unrevoked' = unrevoked \ {u}
  PROVE  PasswordInv'
<1>1. \A x \in Requests : req[x].u = u => req[x] \in Pending
  BY AuthAssumption DEF TypeOK, RequestsOK, Request, Idle
<1>2. req'[r] = q
  BY DEF RevokePassing
<1>3. \A x \in Requests \ {r} :
        /\ req'[x].pc = req[x].pc /\ req'[x].u = req[x].u
        /\ req'[x].op = req[x].op /\ req'[x].password = req[x].password
        /\ (req[x].late => req'[x].late) /\ (req[x].u = u => req'[x].late)
  BY <1>1 DEF RevokePassing, Pending, TypeOK, RequestsOK, Request, Idle
<1>4. Founded' /\ Carriers'
  BY <1>2, <1>3 DEF PasswordInv, Founded, Carriers, Authorised
<1>5. ASSUME NEW v \in Users \ {u}, Ending(v) PROVE Ending(v)'
  BY <1>3, <1>5 DEF Ending, At
<1>6. StaleSessions'
  <2> SUFFICES ASSUME NEW d \in sessions', Outdated(d)' PROVE d.late \/ Ending(d.owner)'
    BY DEF StaleSessions
  <2>1. d \in sessions /\ d.owner \in Users \ {u}
    BY DEF SessionsOf, TypeOK, StoreOK, Session
  <2>2. Outdated(d)
    BY <2>1 DEF Outdated
  <2> QED
    BY <1>5, <2>1, <2>2 DEF PasswordInv, StaleSessions
<1>7. StaleRequests'
  <2> SUFFICES ASSUME NEW x \in Requests, Stale(req[x])'
               PROVE  (req[x].late \/ Ending(req[x].u))'
    BY DEF StaleRequests
  <2>1. x # r
    BY <1>2 DEF Stale
  <2>2. Stale(req[x]) /\ req[x].u \in Users
    BY <1>3, <2>1 DEF Stale, TypeOK, RequestsOK, Request, Pending, Idle
  <2> QED
    BY <1>3, <1>5, <2>1, <2>2 DEF PasswordInv, StaleRequests
<1> QED
  BY <1>4, <1>6, <1>7 DEF PasswordInv

\* The fields a request keeps when it moves to another call.
LEMMA GotoFields ==
  ASSUME NEW q \in Pending, NEW pc
  PROVE  /\ [q EXCEPT !.pc = pc].pc = pc /\ [q EXCEPT !.pc = pc].u = q.u
         /\ [q EXCEPT !.pc = pc].op = q.op /\ [q EXCEPT !.pc = pc].late = q.late
         /\ [q EXCEPT !.pc = pc].password = q.password
BY DEF Pending

LEMMA PassedByFields ==
  ASSUME RequestsOK, NEW u \in Users, NEW x \in Requests
  PROVE  /\ PassedBy(x, u).pc = req[x].pc /\ PassedBy(x, u).u = req[x].u
         /\ PassedBy(x, u).op = req[x].op /\ PassedBy(x, u).late = req[x].late
         /\ PassedBy(x, u).password = req[x].password
<1>1. req[x].u = u /\ Authorised(req[x]) => req[x] \in Pending
  BY DEF RequestsOK, Request, Idle, Authorised
<1> QED
  BY <1>1 DEF PassedBy, Pending

\* A step of r that writes a present account whose sessions are then to end.
LEMMA WriteKeeps ==
  ASSUME TypeOK, RequestsOK', PasswordInv, NEW r \in Requests, NEW q,
         Become(r, q), ~At(r, "revokeAll"), q.password = NoPassword,
         ~Authorised(q), NEW u \in Users,
         user[u].status = "present", user'[u].status = "present",
         \A v \in Users \ {u} : user'[v] = user[v],
         sessions' = sessions, unrevoked \subseteq unrevoked', Ending(u)'
  PROVE  PasswordInv'
<1>1. req'[r] = q /\ \A x \in Requests \ {r} : req'[x] = req[x]
  BY DEF Become, TypeOK, RequestsOK
<1>2. ASSUME NEW v \in Users, Ending(v) PROVE Ending(v)'
  BY <1>1, <1>2 DEF Ending, At
<1>3. \A d \in sessions : d.owner \in Users
  BY DEF TypeOK, StoreOK, Session
<1>4. \A x \in Requests : Authorised(req[x]) \/ req[x].password # NoPassword
                            => req[x].u \in Users
  BY CarrierType DEF TypeOK
<1>5. Founded' /\ Carriers'
  BY <1>1, <1>3, <1>4 DEF PasswordInv, Founded, Carriers, Authorised
<1>6. StaleSessions'
  <2> SUFFICES ASSUME NEW d \in sessions, Outdated(d)' PROVE d.late \/ Ending(d.owner)'
    BY DEF StaleSessions
  <2>1. CASE d.owner # u
    BY <1>2, <1>3, <2>1 DEF Outdated, PasswordInv, StaleSessions
  <2> QED
    BY <2>1
<1>7. StaleRequests'
  <2> SUFFICES ASSUME NEW x \in Requests, Stale(req[x])'
               PROVE  (req[x].late \/ Ending(req[x].u))'
    BY DEF StaleRequests
  <2>1. x # r /\ req'[x] = req[x] /\ req[x].u \in Users
    BY <1>1, <1>4 DEF Stale
  <2>2. CASE req[x].u # u
    BY <1>2, <2>1, <2>2 DEF Stale, PasswordInv, StaleRequests
  <2> QED
    BY <2>1, <2>2
<1> QED
  BY <1>5, <1>6, <1>7 DEF PasswordInv

\* A new account has no sessions and no request carries a password of it.
LEMMA FoundingKeeps ==
  ASSUME TypeOK, RequestsOK', PasswordInv, NEW r \in Requests, NEW q,
         Become(r, q), ~At(r, "revokeAll"), NEW u \in Users,
         user[u].status = "new", user'[u].status = "present",
         \A v \in Users \ {u} : user'[v] = user[v],
         q.u = u, q.password # NoPassword => q.op = "register",
         q.password # NoPassword => q.password = user'[u].password,
         sessions' = sessions, unrevoked' = unrevoked
  PROVE  PasswordInv'
<1>1. req'[r] = q /\ \A x \in Requests \ {r} : req'[x] = req[x]
  BY DEF Become, TypeOK, RequestsOK
<1>2. ASSUME NEW v \in Users, Ending(v) PROVE Ending(v)'
  BY <1>1, <1>2 DEF Ending, At
<1>3. \A d \in sessions : d.owner \in Users \ {u}
  BY DEF TypeOK, StoreOK, Session, PasswordInv, Founded
<1>4. \A x \in Requests : Authorised(req[x]) \/ req[x].password # NoPassword
                            => req[x].u \in Users \ {u}
  BY CarrierType DEF TypeOK, PasswordInv, Founded
<1>5. Founded' /\ Carriers'
  BY <1>1, <1>3, <1>4 DEF PasswordInv, Founded, Carriers, Authorised
<1>6. StaleSessions'
  BY <1>2, <1>3 DEF Outdated, PasswordInv, StaleSessions
<1>7. StaleRequests'
  <2> SUFFICES ASSUME NEW x \in Requests, Stale(req[x])'
               PROVE  (req[x].late \/ Ending(req[x].u))'
    BY DEF StaleRequests
  <2>1. x # r /\ req'[x] = req[x]
    BY <1>1 DEF Stale
  <2>2. req[x].u \in Users \ {u} /\ Stale(req[x])
    BY <1>4, <2>1 DEF Stale
  <2> QED
    BY <1>2, <2>1, <2>2 DEF PasswordInv, StaleRequests
<1> QED
  BY <1>5, <1>6, <1>7 DEF PasswordInv

LEMMA PasswordNext ==
  TypeOK /\ ControlOK /\ PasswordInv /\ [Next]_vars => PasswordInv'
<1> SUFFICES ASSUME TypeOK, ControlOK, PasswordInv, [Next]_vars
             PROVE  PasswordInv'
  OBVIOUS
<1>1. /\ RequestsOK /\ user \in [Users -> Account]
      /\ \A d \in sessions : d.owner \in Users
      /\ \A l \in links : l.owner \in Users
  BY DEF TypeOK, StoreOK, Session, Link
<1>2. RequestsOK'
  BY TypeNext DEF TypeOK
<1>3. ASSUME NEW r \in Requests, Call(r) PROVE PasswordInv'
  <2>1. ~At(r, "revokeAll") \/ req[r].op = "logoutAll"
    BY <1>3 DEF Call, Calls, At, Register, Login, LogoutAll, Forgot, Resend, Delete,
       Google, RefreshFind, Logout, Reset, Verify, Exchange
  <2>2. ASSUME NEW u \in Users, Register(r, u) PROVE Calm
    BY <1>1, <2>1, <2>2, CalmStep DEF Register, Begun, Idle, Sound, Authorised
  <2>3. ASSUME NEW u \in Users, Login(r, u) PROVE Calm
    BY <1>1, <2>1, <2>3, CalmStep DEF Login, Begun, Idle, Sound, Authorised, Live
  <2>4. ASSUME NEW u \in Users, LogoutAll(r, u) PROVE Calm
    BY <1>1, <2>1, <2>4, CalmStep DEF LogoutAll, Begun, Idle, Sound, Authorised
  <2>5. ASSUME NEW u \in Users, Forgot(r, u) PROVE Calm
    BY <1>1, <2>1, <2>5, CalmStep DEF Forgot, Begun, Idle, Sound, Authorised
  <2>6. ASSUME NEW u \in Users, Resend(r, u) PROVE Calm
    BY <1>1, <2>1, <2>6, CalmStep DEF Resend, Begun, Idle, Sound, Authorised
  <2>7. ASSUME NEW u \in Users, Delete(r, u) PROVE Calm
    BY <1>1, <2>1, <2>7, CalmStep DEF Delete, Begun, Idle, Sound, Authorised
  <2>8. ASSUME NEW u \in Users, NEW n \in Nonces, NEW v \in BOOLEAN, Google(r, u, n, v)
        PROVE  Calm
    <3>1. \E pc \in {"createLink", "googleByEmail"} :
            Become(r, [Begun("google", pc, u) EXCEPT !.nonce = n])
      BY <2>8 DEF Google
    <3> QED
      BY <1>1, <2>1, <2>8, <3>1, CalmStep DEF Google, Begun, Idle, Sound, Authorised
  <2>9. ASSUME NEW d \in sessions, RefreshFind(r, d) PROVE PasswordInv'
    <3> DEFINE q == [Begun("refresh", "refreshDelete", d.owner)
                       EXCEPT !.doc = d.id, !.iat = d.iat, !.root = d.root,
                              !.password = d.password, !.late = d.late]
    <3>1. req'[r] = q /\ \A x \in Requests \ {r} : req'[x] = req[x]
      BY <1>1, <2>9 DEF RefreshFind, Become, RequestsOK
    <3>2. /\ q.op = "refresh" /\ q.pc = "refreshDelete" /\ q.u = d.owner
          /\ q.password = d.password /\ q.late = d.late
      BY DEF Begun, Idle
    <3>3. user' = user /\ sessions' = sessions /\ unrevoked' = unrevoked
      BY <2>9 DEF RefreshFind
    <3> HIDE DEF q
    <3>4. ASSUME NEW u \in Users, Ending(u) PROVE Ending(u)'
      BY <2>1, <3>1, <3>3, <3>4 DEF Ending, At
    <3>5. Founded' /\ Carriers'
      BY <3>1, <3>2, <3>3 DEF PasswordInv, Founded, Carriers, Authorised
    <3>6. StaleSessions'
      BY <1>1, <3>3, <3>4 DEF PasswordInv, StaleSessions, Outdated
    <3>7. StaleRequests'
      <4> SUFFICES ASSUME NEW x \in Requests, Stale(req[x])'
                   PROVE  (req[x].late \/ Ending(req[x].u))'
        BY DEF StaleRequests
      <4>1. CASE x = r
        <5>1. Outdated(d)
          BY <3>1, <3>2, <3>3, <4>1 DEF Outdated, Stale
        <5> QED
          BY <1>1, <3>1, <3>2, <3>4, <4>1, <5>1 DEF PasswordInv, StaleSessions
      <4>2. CASE x # r
        <5>1. Stale(req[x])
          BY <3>1, <3>3, <4>2 DEF Stale
        <5>2. req[x].u \in Users
          BY <1>1, <5>1, CarrierType DEF Stale
        <5> QED
          BY <3>1, <3>4, <4>2, <5>1, <5>2 DEF PasswordInv, StaleRequests
      <4> QED
        BY <4>1, <4>2
    <3> QED
      BY <3>5, <3>6, <3>7 DEF PasswordInv
  <2>10. ASSUME NEW d \in sessions, Logout(r, d) PROVE Calm
    BY <1>1, <2>1, <2>10, CalmStep DEF Logout, Begun, Idle, Sound, Authorised
  <2>11. ASSUME NEW l \in links, Reset(r, l) PROVE Calm
    BY <1>1, <2>1, <2>11, CalmStep DEF Reset, Begun, Idle, Sound, Authorised
  <2>12. ASSUME NEW l \in links, Verify(r, l) PROVE Calm
    BY <1>1, <2>1, <2>12, CalmStep DEF Verify, Begun, Idle, Sound, Authorised
  <2>13. ASSUME NEW l \in links, NEW n \in Nonces, Exchange(r, l, n) PROVE Calm
    BY <1>1, <2>1, <2>13, CalmStep DEF Exchange, Begun, Idle, Sound, Authorised
  <2> QED
    BY <1>2, <1>3, <2>2, <2>3, <2>4, <2>5, <2>6, <2>7, <2>8, <2>9, <2>10, <2>11,
       <2>12, <2>13, CalmKeeps DEF Call
<1>4. ASSUME NEW r \in Requests, Continue(r) PROVE PasswordInv'
  <2>1. req[r] \in Pending /\ OnPath(req[r]) /\ req[r].u \in Users
    BY <1>1, <1>4, AtPending DEF Continue, CreateUser, ClearLinks, CreateLink, CreateSession,
       RefreshDelete, FindUser, LogoutDelete, RevokeAll, SetPassword, MarkVerified,
       GoogleByEmail, GoogleSave, GoogleCreate, DeleteCheck, DeleteSessions,
       DeleteUser, At, ControlOK, Pending
  <2>2. Sound(r, Idle)
    BY SoundIdle
  <2>3. PICK me \in Users : me = req[r].u
    BY <2>1
  <2>4. CASE CreateUser(r)
    <3>1. CASE user[req[r].u].status = "new"
      <4> DEFINE q == [req[r] EXCEPT !.pc = "clearLinks", !.purpose = "email_verify",
                                     !.password = lastPassword + 1]
      <4>1. /\ user' = [user EXCEPT ![req[r].u] = LocalAccount(lastPassword + 1)]
            /\ Become(r, q) /\ sessions' = sessions /\ unrevoked' = unrevoked
        BY <2>4, <3>1 DEF CreateUser
      <4>2. q.u = req[r].u /\ q.op = "register" /\ q.password = lastPassword + 1
        BY <2>1, <2>4 DEF CreateUser, At, OnPath, Pending
      <4>3. /\ user'[req[r].u].status = "present"
            /\ user'[req[r].u].password = lastPassword + 1
            /\ \A v \in Users \ {req[r].u} : user'[v] = user[v]
        BY <1>1, <2>1, <4>1 DEF LocalAccount, NewAccount
      <4>4. ~At(r, "revokeAll")
        BY <2>4 DEF CreateUser, At
      <4> QED
        <5>1. /\ user[me].status = "new" /\ user'[me].status = "present"
              /\ \A v \in Users \ {me} : user'[v] = user[v]
              /\ q.u = me /\ user'[me].password = q.password
          BY <2>3, <3>1, <4>2, <4>3
        <5> HIDE DEF q
        <5> QED
          BY <1>2, <4>1, <4>2, <4>4, <5>1, FoundingKeeps
    <3>2. CASE user[req[r].u].status # "new"
      BY <1>1, <1>2, <2>2, <2>4, <3>2, CalmStep, CalmKeeps DEF CreateUser, Finish, At
    <3> QED
      BY <3>1, <3>2
  <2>5. CASE ClearLinks(r)
    <3> DEFINE q == [req[r] EXCEPT !.pc = "createLink", !.since = lastLink]
    <3>1. /\ q.pc = "createLink" /\ q.u = req[r].u /\ q.op = req[r].op
          /\ q.late = req[r].late /\ q.password = req[r].password
      BY <2>1 DEF Pending
    <3>2. Sound(r, q)
      BY <2>1, <2>5, <3>1 DEF ClearLinks, At, Sound, Authorised
    <3> QED
      BY <1>1, <1>2, <2>5, <3>2, CalmStep, CalmKeeps DEF ClearLinks, At
  <2>6. CASE CreateLink(r)
    <3>1. CASE req[r].op = "register"
      <4>1. Sound(r, [req[r] EXCEPT !.pc = "createSession"])
        BY <2>1, <2>6, <3>1, GotoFields, AuthAssumption DEF CreateLink, At, Sound, Authorised
      <4> QED
        BY <1>1, <1>2, <2>6, <3>1, <4>1, CalmStep, CalmKeeps DEF CreateLink, Goto, At
    <3>2. CASE req[r].op # "register"
      BY <1>1, <1>2, <2>2, <2>6, <3>2, CalmStep, CalmKeeps DEF CreateLink, Finish, At
    <3> QED
      BY <3>1, <3>2
  <2>7. CASE CreateSession(r)
    <3> DEFINE d == [id |-> lastSession + 1, owner |-> req[r].u, iat |-> now,
                     password |-> req[r].password, late |-> req[r].late,
                     root |-> IF req[r].op = "refresh" THEN req[r].root
                              ELSE lastSession + 1]
    <3>1. /\ sessions' = sessions \cup {d} /\ d.owner = req[r].u
          /\ d.password = req[r].password /\ d.late = req[r].late
      BY <2>7 DEF CreateSession
    <3> HIDE DEF d
    <3>2. /\ req'[r] = Idle /\ \A x \in Requests \ {r} : req'[x] = req[x]
          /\ user' = user /\ unrevoked' = unrevoked /\ req[r].pc = "createSession"
      BY <1>1, <2>7 DEF CreateSession, Finish, Become, RequestsOK, At
    <3>3. ASSUME NEW u \in Users, Ending(u) PROVE Ending(u)'
      BY <3>2, <3>3 DEF Ending, At
    <3>4. Founded' /\ Carriers'
      BY <3>1, <3>2 DEF PasswordInv, Founded, Carriers, Authorised, Idle
    <3>5. StaleSessions'
      <4> SUFFICES ASSUME NEW e \in sessions', Outdated(e)'
                   PROVE  e.late \/ Ending(e.owner)'
        BY DEF StaleSessions
      <4>1. CASE e \in sessions
        BY <1>1, <3>2, <3>3, <4>1 DEF Outdated, PasswordInv, StaleSessions
      <4>2. CASE e = d
        <5>1. Stale(req[r])
          BY <3>1, <3>2, <4>2 DEF Outdated, Stale
        <5> QED
          BY <2>1, <3>1, <3>3, <4>2, <5>1 DEF PasswordInv, StaleRequests
      <4> QED
        BY <3>1, <4>1, <4>2
    <3>6. StaleRequests'
      <4> SUFFICES ASSUME NEW x \in Requests, Stale(req[x])'
                   PROVE  (req[x].late \/ Ending(req[x].u))'
        BY DEF StaleRequests
      <4>1. x # r /\ req'[x] = req[x] /\ Stale(req[x])
        BY <3>2 DEF Stale, Idle
      <4>2. req[x].u \in Users
        BY <1>1, <4>1, CarrierType DEF Stale
      <4> QED
        BY <3>3, <4>1, <4>2 DEF PasswordInv, StaleRequests
    <3> QED
      BY <3>4, <3>5, <3>6 DEF PasswordInv
  <2>8. CASE RefreshDelete(r)
    <3>1. Sound(r, [req[r] EXCEPT !.pc = "findUser"])
      BY <2>1, <2>8, GotoFields DEF RefreshDelete, At, OnPath, Sound, Authorised
    <3>2. sessions' \subseteq sessions
      BY <2>8 DEF RefreshDelete, Rotated
    <3> QED
      BY <1>1, <1>2, <2>8, <3>1, <3>2, CalmStep, CalmKeeps DEF RefreshDelete, Goto, At
  <2>9. CASE FindUser(r)
    <3>1. CASE Live(req[r].u)
      <4>1. Sound(r, [req[r] EXCEPT !.pc = "createSession"])
        BY <2>1, <3>1, GotoFields DEF Live, Sound
      <4> QED
        BY <1>1, <1>2, <2>9, <3>1, <4>1, CalmStep, CalmKeeps DEF FindUser, Goto, At
    <3>2. CASE ~Live(req[r].u)
      BY <1>1, <1>2, <2>2, <2>9, <3>2, CalmStep, CalmKeeps DEF FindUser, Finish, At
    <3> QED
      BY <3>1, <3>2
  <2>10. CASE LogoutDelete(r)
    <3>1. sessions' \subseteq sessions
      BY <2>10 DEF LogoutDelete
    <3> QED
      BY <1>1, <1>2, <2>2, <2>10, <3>1, CalmStep, CalmKeeps DEF LogoutDelete, Finish, At
  <2>11. CASE RevokeAll(r)
    <3> DEFINE q == IF req[r].op = "google"
                    THEN [req[r] EXCEPT !.pc = "createLink"] ELSE Idle
    <3>1. CASE req[r].op = "google"
      <4>1. q.password = NoPassword /\ ~Authorised(q)
        BY <2>1, <3>1, GotoFields DEF PasswordInv, Carriers, Authorised
      <4> QED
        BY <1>2, <2>1, <2>11, <4>1, RevokeKeeps DEF RevokeAll
    <3>2. CASE req[r].op # "google"
      <4>1. q.password = NoPassword /\ ~Authorised(q)
        BY <3>2 DEF Idle, Authorised
      <4> QED
        BY <1>2, <2>1, <2>11, <4>1, RevokeKeeps DEF RevokeAll
    <3> QED
      BY <3>1, <3>2
  <2>12. CASE SetPassword(r)
    <3> DEFINE q == [req[r] EXCEPT !.pc = "revokeAll"]
    <3>1. /\ q.pc = "revokeAll" /\ q.u = req[r].u /\ q.op = "reset"
          /\ q.password = NoPassword /\ q.late = req[r].late
          /\ ~Authorised(q)
      BY <2>1, <2>12, GotoFields
      DEF SetPassword, At, OnPath, PasswordInv, Carriers, Authorised
    <3>2. Become(r, q) /\ ~At(r, "revokeAll") /\ sessions' = sessions /\ unrevoked' = unrevoked
      BY <2>12 DEF SetPassword, Goto, At
    <3>3. CASE user[req[r].u].status = "present"
      <4>1. req'[r] = q
        BY <1>1, <3>2 DEF Become, RequestsOK
      <4>2. Ending(me)'
        BY <2>3, <3>1, <4>1 DEF Ending, At
      <4>3. /\ user[me].status = "present" /\ user'[me].status = "present"
            /\ \A v \in Users \ {me} : user'[v] = user[v]
        BY <1>1, <2>3, <2>12, <3>3 DEF SetPassword, Account
      <4> HIDE DEF q
      <4> QED
        BY <1>2, <3>1, <3>2, <4>2, <4>3, WriteKeeps
    <3>4. CASE user[req[r].u].status # "present"
      <4>1. Sound(r, q) /\ user' = user
        BY <2>12, <3>1, <3>4 DEF SetPassword, Sound
      <4> HIDE DEF q
      <4> QED
        BY <1>1, <1>2, <3>2, <4>1, CalmStep, CalmKeeps
    <3> QED
      BY <3>3, <3>4
  <2>13. CASE MarkVerified(r)
    <3>1. \A u \in Users : /\ user'[u].password = user[u].password
                           /\ user'[u].status = user[u].status
      BY <1>1, <2>1, <2>13 DEF MarkVerified, Account
    <3>2. /\ req'[r] = Idle /\ \A x \in Requests \ {r} : req'[x] = req[x]
          /\ unrevoked' = unrevoked /\ sessions' = sessions /\ req[r].pc = "markVerified"
      BY <1>1, <2>13 DEF MarkVerified, Finish, Become, RequestsOK, At
    <3>3. \A x \in Requests : Sound(x, req'[x])
      BY <2>2, <3>2 DEF Sound
    <3>4. ASSUME NEW u \in Users, Ending(u) PROVE Ending(u)'
      BY <3>2, <3>4 DEF Ending, At
    <3> QED
      BY <1>2, <3>1, <3>2, <3>3, <3>4, CalmKeeps DEF Calm
  <2>14. CASE GoogleByEmail(r)
    <3>1. PICK q : /\ Become(r, q) /\ q.password = req[r].password
                   /\ q.u = req[r].u /\ q.op = req[r].op /\ q.late = req[r].late
                   /\ q.pc \in {"googleSave", "googleCreate"}
      <4>1. CASE user[req[r].u].status = "present"
        <5> DEFINE q == [req[r] EXCEPT !.pc = "googleSave",
                           !.trusted = user[req[r].u].verified,
                           !.active = user[req[r].u].active]
        <5>1. Become(r, q)
          BY <2>14, <4>1 DEF GoogleByEmail
        <5>2. /\ q.password = req[r].password /\ q.u = req[r].u
              /\ q.op = req[r].op /\ q.late = req[r].late /\ q.pc = "googleSave"
          BY <2>1 DEF Pending
        <5> HIDE DEF q
        <5> QED
          BY <5>1, <5>2
      <4>2. CASE user[req[r].u].status # "present"
        <5> DEFINE q == [req[r] EXCEPT !.pc = "googleCreate"]
        <5>1. Become(r, q)
          BY <2>14, <4>2 DEF GoogleByEmail, Goto
        <5>2. /\ q.password = req[r].password /\ q.u = req[r].u
              /\ q.op = req[r].op /\ q.late = req[r].late /\ q.pc = "googleCreate"
          BY <2>1 DEF Pending
        <5> HIDE DEF q
        <5> QED
          BY <5>1, <5>2
      <4> QED
        BY <4>1, <4>2
    <3>2. Sound(r, q)
      BY <2>1, <2>14, <3>1 DEF GoogleByEmail, At, OnPath, Sound, Authorised
    <3> QED
      BY <1>1, <1>2, <2>14, <3>1, <3>2, CalmStep, CalmKeeps DEF GoogleByEmail, At
  <2>15. CASE GoogleSave(r)
    <3>1. req[r].op = "google" /\ req[r].password = NoPassword /\ ~At(r, "revokeAll")
      BY <2>1, <2>15 DEF GoogleSave, At, OnPath, PasswordInv, Carriers
    <3>2. CASE user[req[r].u].status # "present"
      BY <1>1, <1>2, <2>2, <2>15, <3>1, <3>2, CalmStep, CalmKeeps DEF GoogleSave, Finish
    <3>3. CASE user[req[r].u].status = "present"
      <4>1. PICK q : /\ Become(r, q) /\ q.password = NoPassword /\ ~Authorised(q)
                     /\ (req[r].active /\ ~req[r].trusted =>
                           q.pc = "revokeAll" /\ q.op = "google" /\ q.u = req[r].u)
        <5>1. CASE req[r].active
          <6> DEFINE q == [req[r] EXCEPT !.pc = AfterLink(req[r])]
          <6>1. Become(r, q)
            BY <2>15, <3>3, <5>1 DEF GoogleSave, Goto
          <6>2. /\ q.password = NoPassword /\ q.op = "google" /\ q.u = req[r].u
                /\ q.pc = AfterLink(req[r])
            BY <2>1, <3>1, GotoFields
          <6> HIDE DEF q
          <6> QED
            BY <6>1, <6>2 DEF AfterLink, Authorised
        <5>2. CASE ~req[r].active
          BY <2>15, <3>3, <5>2 DEF GoogleSave, Finish, Authorised, Idle
        <5> QED
          BY <5>1, <5>2
      <4>2. req'[r] = q /\ \A x \in Requests \ {r} : req'[x] = req[x]
        BY <1>1, <4>1 DEF Become, RequestsOK
      <4>3. /\ user'[req[r].u].status = "present"
            /\ \A v \in Users \ {req[r].u} : user'[v] = user[v]
            /\ sessions' = sessions /\ unrevoked \subseteq unrevoked'
            /\ req[r].trusted => user'[req[r].u].password = user[req[r].u].password
        BY <1>1, <2>1, <2>15, <3>3 DEF GoogleSave, Account
      <4>4. CASE ~req[r].trusted
        <5>1. Ending(me)'
          <6>1. CASE req[r].active
            BY <2>3, <4>1, <4>2, <4>4, <6>1 DEF Ending, At
          <6>2. CASE ~req[r].active
            BY <2>3, <2>15, <3>3, <4>4, <6>2 DEF GoogleSave, Ending
          <6> QED
            BY <6>1, <6>2
        <5>2. /\ user[me].status = "present" /\ user'[me].status = "present"
              /\ \A v \in Users \ {me} : user'[v] = user[v]
          BY <2>3, <3>3, <4>3
        <5> QED
          BY <1>2, <3>1, <4>1, <4>3, <5>1, <5>2, WriteKeeps
      <4>5. CASE req[r].trusted
        <5>1. ASSUME NEW u \in Users, Ending(u) PROVE Ending(u)'
          BY <3>1, <4>2, <4>3, <5>1 DEF Ending, At
        <5>2. \A x \in Requests : Sound(x, req'[x])
          BY <4>1, <4>2 DEF Sound
        <5> QED
          BY <1>2, <2>1, <3>3, <4>3, <4>5, <5>1, <5>2, CalmKeeps DEF Calm
      <4> QED
        BY <4>4, <4>5
    <3> QED
      BY <3>2, <3>3
  <2>16. CASE GoogleCreate(r)
    <3>1. req[r].op = "google" /\ req[r].password = NoPassword /\ ~At(r, "revokeAll")
      BY <2>1, <2>16 DEF GoogleCreate, At, OnPath, PasswordInv, Carriers
    <3>2. CASE user[req[r].u].status = "new"
      <4>1. /\ user'[req[r].u].status = "present"
            /\ \A v \in Users \ {req[r].u} : user'[v] = user[v]
            /\ sessions' = sessions /\ unrevoked' = unrevoked
        BY <1>1, <2>1, <2>16, <3>2 DEF GoogleCreate, LocalAccount, NewAccount
      <4>2. Become(r, [req[r] EXCEPT !.pc = "createLink"])
        BY <2>16, <3>2 DEF GoogleCreate, Goto
      <4>3. /\ [req[r] EXCEPT !.pc = "createLink"].password = NoPassword
            /\ [req[r] EXCEPT !.pc = "createLink"].u = req[r].u
        BY <2>1, <3>1, GotoFields
      <4> QED
        BY <1>2, <2>3, <3>1, <3>2, <4>1, <4>2, <4>3, FoundingKeeps
    <3>3. CASE user[req[r].u].status # "new"
      BY <1>1, <1>2, <2>2, <2>16, <3>1, <3>3, CalmStep, CalmKeeps DEF GoogleCreate, Finish
    <3> QED
      BY <3>2, <3>3
  <2>17. CASE DeleteCheck(r)
    <3>1. Sound(r, [req[r] EXCEPT !.pc = "deleteSessions"])
      BY <2>1, <2>17, GotoFields DEF DeleteCheck, At, OnPath, Sound, Authorised
    <3> QED
      BY <1>1, <1>2, <2>2, <2>17, <3>1, CalmStep, CalmKeeps
      DEF DeleteCheck, Goto, Finish, At
  <2>18. CASE DeleteSessions(r)
    <3>1. /\ [req[r] EXCEPT !.pc = "deleteUser"].password = NoPassword
          /\ ~Authorised([req[r] EXCEPT !.pc = "deleteUser"])
      BY <2>1, <2>18, GotoFields
      DEF DeleteSessions, At, OnPath, PasswordInv, Carriers, Authorised
    <3> QED
      BY <1>2, <2>1, <2>18, <3>1, RevokeKeeps DEF DeleteSessions
  <2>19. CASE DeleteUser(r)
    <3>1. /\ user'[req[r].u].status = "deleted"
          /\ \A v \in Users \ {req[r].u} : user'[v] = user[v]
          /\ sessions' = sessions /\ unrevoked' = unrevoked
      BY <1>1, <2>1, <2>19 DEF DeleteUser, NewAccount
    <3>2. /\ req'[r] = Idle /\ req[r].pc = "deleteUser"
          /\ \A x \in Requests \ {r} : req'[x] = PassedBy(x, req[r].u)
      BY <2>19 DEF DeleteUser, At
    <3>3. ASSUME NEW u \in Users, Ending(u) PROVE Ending(u)'
      BY <1>1, <2>1, <3>1, <3>2, <3>3, PassedByFields DEF Ending, At
    <3>4. \A x \in Requests : Sound(x, req'[x])
      BY <1>1, <2>1, <2>2, <3>2, PassedByFields DEF Sound, Authorised
    <3> QED
      BY <1>2, <3>1, <3>3, <3>4, CalmKeeps DEF Calm
  <2> QED
    BY <1>4, <2>4, <2>5, <2>6, <2>7, <2>8, <2>9, <2>10, <2>11, <2>12, <2>13,
       <2>14, <2>15, <2>16, <2>17, <2>18, <2>19 DEF Continue
<1>5. ASSUME NEW r \in Requests, Crash(r) PROVE Calm
  BY <1>1, <1>5, SoundIdle, CalmStep DEF Crash, Finish, At
<1>6. ASSUME Environment \/ UNCHANGED vars PROVE Calm
  <2>1. ASSUME NEW u \in Users, Deactivate(u) PROVE Calm
    <3>1. \A v \in Users : /\ user'[v].password = user[v].password
                           /\ user'[v].status = user[v].status
      BY <1>1, <2>1 DEF Deactivate, Account
    <3>2. /\ sessions' = sessions /\ unrevoked' = unrevoked
          /\ \A x \in Requests : req'[x] = PassedBy(x, u)
      BY <2>1 DEF Deactivate
    <3>3. ASSUME NEW v \in Users, Ending(v) PROVE Ending(v)'
      BY <1>1, <3>2, <3>3, PassedByFields DEF Ending, At
    <3>4. \A x \in Requests : Sound(x, req'[x])
      BY <1>1, <3>2, PassedByFields DEF Sound, Authorised
    <3> QED
      BY <3>1, <3>2, <3>3, <3>4 DEF Calm
  <2>2. CASE /\ UNCHANGED <<req, unrevoked>> /\ sessions' \subseteq sessions
             /\ \A u \in Users : /\ user'[u].password = user[u].password
                                 /\ user'[u].status = user[u].status
    <3>1. ASSUME NEW v \in Users, Ending(v) PROVE Ending(v)'
      BY <2>2, <3>1 DEF Ending, At
    <3>2. \A x \in Requests : Sound(x, req'[x])
      BY <2>2 DEF Sound
    <3> QED
      BY <2>2, <3>1, <3>2 DEF Calm
  <2>3. ASSUME NEW u \in Users, Activate(u) PROVE Calm
    BY <1>1, <2>2, <2>3 DEF Activate, Account
  <2>4. CASE Tick \/ (\E d \in sessions : ReapSession(d)) \/ UNCHANGED vars
             \/ \E l \in links : ReapLink(l)
    BY <2>2, <2>4 DEF Tick, ReapSession, ReapLink, vars
  <2> QED
    BY <1>6, <2>1, <2>3, <2>4 DEF Environment
<1> QED
  BY <1>2, <1>3, <1>4, <1>5, <1>6, CalmKeeps DEF Next

\* A reset or a Google link leaves no session of the old password except
\* while its revocation is to come, was lost, or passed the session by while
\* it was being made (auth.service.ts:100 and :266).
THEOREM OldPasswordCorrect == Spec => []OldPasswordSessionsEnd
<1>1. Init => PasswordInv
  BY PasswordStart
<1>2. Init => ControlOK
  BY ControlStart
<1>3. TypeOK /\ ControlOK /\ [Next]_vars => ControlOK'
  BY ControlNext
<1>4. TypeOK /\ ControlOK /\ PasswordInv /\ [Next]_vars => PasswordInv'
  BY PasswordNext
<1>5. PasswordInv => OldPasswordSessionsEnd
  BY DEF PasswordInv, StaleSessions, Ending, OldPasswordSessionsEnd
<1> QED
  BY <1>1, <1>2, <1>3, <1>4, <1>5, TypeCorrect, PTL DEF Spec

-----------------------------------------------------------------------------
(* Chains of refreshes                                                     *)

\* A refresh that deleted its token and has not stored the next one.
Between(q) == q.op = "refresh" /\ q.pc \in {"findUser", "createSession"}

\* A refresh that is about to delete its token.
Presents(q, i, k) ==
  q.op = "refresh" /\ q.pc = "refreshDelete" /\ q.doc = i /\ q.root = k

\* The tokens of login k's chain that a refresh can still be the first to use.
Unspent(k) == {i \in SessionIds \ rotated :
  \/ \E d \in sessions : d.id = i /\ d.root = k
  \/ \E x \in Requests : Presents(req[x], i, k)}

OnTheWay(k) == {x \in Requests : Between(req[x]) /\ req[x].root = k}

\* Every _id and root in use was handed out.
Handed ==
  /\ \A d \in sessions : d.id <= lastSession /\ d.root <= lastSession
  /\ \A x \in Requests : req[x].op = "refresh" =>
       req[x].doc <= lastSession /\ req[x].root <= lastSession
  /\ \A i \in rotated : i <= lastSession

\* An _id is given once, and a token a refresh went past is not stored.
SessionsDiffer ==
  /\ \A a, b \in sessions : a.id = b.id => a = b
  /\ \A d \in sessions : d.id \notin rotated

ChainsBounded == \A k \in SessionIds :
  /\ IsFiniteSet(OnTheWay(k))
  /\ Cardinality(Unspent(k)) + Cardinality(OnTheWay(k)) <= 1 + doubled[k]

ChainInv == Handed /\ SessionsDiffer /\ ChainsBounded

\* The tokens of a chain are finitely many.
LEMMA TokensFinite ==
  ASSUME NEW S \in SUBSET SessionIds
  PROVE  IsFiniteSet(S) /\ Cardinality(S) \in Nat
<1>1. IsFiniteSet(SessionIds)
  BY FS_Interval, AuthAssumption DEF SessionIds
<1> QED BY <1>1, FS_Subset, FS_CardinalityType

LEMMA ChainStart == Init => ChainInv
<1> SUFFICES ASSUME Init PROVE ChainInv
  OBVIOUS
<1>1. Handed /\ SessionsDiffer
  BY DEF Init, Handed, SessionsDiffer, Idle
<1>2. ASSUME NEW k \in SessionIds
      PROVE  /\ IsFiniteSet(OnTheWay(k))
             /\ Cardinality(Unspent(k)) + Cardinality(OnTheWay(k)) <= 1 + doubled[k]
  <2>1. Unspent(k) = {} /\ OnTheWay(k) = {}
    BY DEF Init, Unspent, OnTheWay, Presents, Between, Idle
  <2>2. doubled[k] = 0
    BY DEF Init
  <2> QED BY <2>1, <2>2, FS_EmptySet
<1> QED BY <1>1, <1>2 DEF ChainInv, ChainsBounded

\* Request x comes no nearer to adding a session to a chain: it keeps its
\* place in the chain or falls behind, or it has just found its token.
FallsBehind(x) == req'[x].op = "refresh" =>
  \/ /\ req[x].op = "refresh"
     /\ req'[x].doc = req[x].doc /\ req'[x].root = req[x].root
     /\ req'[x].pc = "refreshDelete" => req[x].pc = "refreshDelete"
     /\ Between(req'[x]) => Between(req[x])
  \/ /\ req'[x].pc = "refreshDelete"
     /\ \E d \in sessions : req'[x].doc = d.id /\ req'[x].root = d.root

LEMMA ChainsShrink ==
  ASSUME TypeOK, ChainInv, sessions' \subseteq sessions,
         UNCHANGED <<lastSession, rotated, doubled>>,
         \A x \in Requests : FallsBehind(x)
  PROVE  ChainInv'
<1>1. Handed' /\ SessionsDiffer'
  BY DEF ChainInv, Handed, SessionsDiffer, FallsBehind
<1>2. ASSUME NEW k \in SessionIds
      PROVE  /\ IsFiniteSet(OnTheWay(k)')
             /\ Cardinality(Unspent(k)') + Cardinality(OnTheWay(k)') <= 1 + doubled'[k]
  <2>1. OnTheWay(k)' \subseteq OnTheWay(k)
    BY DEF OnTheWay, FallsBehind, Between
  <2>2. Unspent(k)' \subseteq Unspent(k)
    BY DEF Unspent, FallsBehind, Presents
  <2>3. /\ IsFiniteSet(OnTheWay(k))
        /\ Cardinality(Unspent(k)) + Cardinality(OnTheWay(k)) <= 1 + doubled[k]
    BY DEF ChainInv, ChainsBounded
  <2>4. Unspent(k) \in SUBSET SessionIds
    BY DEF Unspent
  <2>5. /\ Cardinality(Unspent(k)) \in Nat /\ Cardinality(Unspent(k)') \in Nat
        /\ Cardinality(Unspent(k)') <= Cardinality(Unspent(k))
    BY <2>2, <2>4, TokensFinite, FS_Subset
  <2>6. /\ IsFiniteSet(OnTheWay(k)')
        /\ Cardinality(OnTheWay(k)) \in Nat /\ Cardinality(OnTheWay(k)') \in Nat
        /\ Cardinality(OnTheWay(k)') <= Cardinality(OnTheWay(k))
    BY <2>1, <2>3, FS_Subset, FS_CardinalityType
  <2>7. doubled'[k] = doubled[k] /\ doubled[k] \in Nat
    BY DEF TypeOK, StoreOK
  <2> QED BY <2>3, <2>5, <2>6, <2>7
<1> QED BY <1>1, <1>2 DEF ChainInv, ChainsBounded

\* A step of one request that leaves the chains as they are or shorter.
LEMMA ChainsStay ==
  ASSUME TypeOK, ChainInv, NEW r \in Requests, NEW q, Become(r, q),
         sessions' \subseteq sessions,
         UNCHANGED <<lastSession, rotated, doubled>>,
         q.op = "refresh" =>
           \/ /\ req[r].op = "refresh"
              /\ q.doc = req[r].doc /\ q.root = req[r].root
              /\ q.pc = "refreshDelete" => req[r].pc = "refreshDelete"
              /\ Between(q) => Between(req[r])
           \/ /\ q.pc = "refreshDelete"
              /\ \E d \in sessions : q.doc = d.id /\ q.root = d.root
  PROVE  ChainInv'
<1>1. req' = [req EXCEPT ![r] = q] /\ req \in [Requests -> Request]
  BY DEF Become, TypeOK, RequestsOK
<1>2. ASSUME NEW x \in Requests PROVE FallsBehind(x)
  BY <1>1 DEF FallsBehind
<1> QED BY <1>2, ChainsShrink

\* A refresh deletes its token: the token was the chain's to spend, or the
\* refresh is one beyond the first.
LEMMA ChainSpends ==
  ASSUME TypeOK, ControlOK, ChainInv, NEW r \in Requests, RefreshDelete(r)
  PROVE  ChainInv'
<1> DEFINE i == req[r].doc
           j == req[r].root
<1>1. /\ req[r].op = "refresh" /\ req[r].pc = "refreshDelete"
      /\ i \in SessionIds /\ j \in SessionIds /\ i <= lastSession
  BY DEF RefreshDelete, At, ControlOK, OnPath, TypeOK, RequestsOK, KnowsToken,
         ChainInv, Handed
<1>2. /\ req[r] \in Pending
      /\ req' = [req EXCEPT ![r] = [req[r] EXCEPT !.pc = "findUser"]]
      /\ req \in [Requests -> Request]
  BY <1>1, AtPending DEF RefreshDelete, Goto, Become, TypeOK, RequestsOK
<1>3. /\ req'[r].op = "refresh" /\ req'[r].pc = "findUser"
      /\ req'[r].doc = i /\ req'[r].root = j
      /\ \A x \in Requests \ {r} : req'[x] = req[x]
  BY <1>1, <1>2 DEF Pending
<1>4. /\ sessions' = {d \in sessions : d.id # i}
      /\ rotated' = rotated \cup {i} /\ lastSession' = lastSession
  BY DEF RefreshDelete, Rotated
<1>5. Handed'
  <2>1. \A x \in Requests : req'[x].op = "refresh" =>
          req'[x].doc <= lastSession /\ req'[x].root <= lastSession
    BY <1>1, <1>3 DEF ChainInv, Handed
  <2> QED BY <1>1, <1>4, <2>1 DEF ChainInv, Handed
<1>6. SessionsDiffer'
  BY <1>4 DEF ChainInv, SessionsDiffer
<1>7. ASSUME NEW k \in SessionIds
      PROVE  /\ IsFiniteSet(OnTheWay(k)')
             /\ Cardinality(Unspent(k)') + Cardinality(OnTheWay(k)') <= 1 + doubled'[k]
  <2>1. Unspent(k)' \subseteq Unspent(k) \ {i}
    BY <1>3, <1>4 DEF Unspent, Presents
  <2>2. OnTheWay(k)' = IF k = j THEN OnTheWay(k) \cup {r} ELSE OnTheWay(k)
    BY <1>1, <1>3 DEF OnTheWay, Between
  <2>3. /\ IsFiniteSet(OnTheWay(k))
        /\ Cardinality(Unspent(k)) + Cardinality(OnTheWay(k)) <= 1 + doubled[k]
        /\ Cardinality(OnTheWay(k)) \in Nat
    BY FS_CardinalityType DEF ChainInv, ChainsBounded
  <2>4. /\ IsFiniteSet(Unspent(k)) /\ Cardinality(Unspent(k)) \in Nat
        /\ IsFiniteSet(Unspent(k) \ {i})
        /\ Cardinality(Unspent(k)') \in Nat
    <3>1. Unspent(k) \in SUBSET SessionIds
      BY DEF Unspent
    <3> QED BY <2>1, <3>1, TokensFinite
  <2>5. Cardinality(Unspent(k)') <= Cardinality(Unspent(k) \ {i})
    BY <2>1, <2>4, FS_Subset
  <2>6. Cardinality(Unspent(k) \ {i}) =
          IF i \in Unspent(k) THEN Cardinality(Unspent(k)) - 1 ELSE Cardinality(Unspent(k))
    BY <2>4, FS_RemoveElement
  <2>7. /\ IsFiniteSet(OnTheWay(k)')
        /\ Cardinality(OnTheWay(k)') \in Nat
        /\ Cardinality(OnTheWay(k)') <=
             IF k = j THEN Cardinality(OnTheWay(k)) + 1 ELSE Cardinality(OnTheWay(k))
    <3>1. /\ IsFiniteSet(OnTheWay(k) \cup {r})
          /\ Cardinality(OnTheWay(k) \cup {r}) =
               IF r \in OnTheWay(k) THEN Cardinality(OnTheWay(k))
               ELSE Cardinality(OnTheWay(k)) + 1
      BY <2>3, FS_AddElement
    <3> QED BY <2>2, <2>3, <3>1, FS_CardinalityType
  <2>8. /\ doubled \in [SessionIds -> Nat]
        /\ doubled' = IF i \in rotated
                      THEN [doubled EXCEPT ![j] = doubled[j] + 1] ELSE doubled
    BY DEF RefreshDelete, TypeOK, StoreOK
  <2>9. doubled[k] \in Nat /\ doubled'[k] \in Nat
        /\ doubled'[k] = IF k = j /\ i \in rotated THEN doubled[k] + 1 ELSE doubled[k]
    BY <1>1, <2>8
  <2>10. k = j /\ i \notin rotated => i \in Unspent(k)
    BY <1>1 DEF Unspent, Presents
  <2> HIDE DEF i, j
  <2> QED BY <2>3, <2>4, <2>5, <2>6, <2>7, <2>9, <2>10
<1> QED BY <1>5, <1>6, <1>7 DEF ChainInv, ChainsBounded

\* A session is stored: by a refresh, which leaves its chain one longer and is
\* done, or as the first of a chain of its own.
LEMMA ChainExtends ==
  ASSUME TypeOK, ControlOK, ChainInv, NEW r \in Requests, CreateSession(r)
  PROVE  ChainInv'
<1> DEFINE n == lastSession + 1
           j == IF req[r].op = "refresh" THEN req[r].root ELSE n
<1>1. /\ lastSession \in Nat /\ n \in SessionIds
      /\ lastSession' = n /\ UNCHANGED <<rotated, doubled>>
  BY AuthAssumption DEF CreateSession, TypeOK, StoreOK, SessionIds
<1>2. PICK e : /\ sessions' = sessions \cup {e} /\ e.id = n /\ e.root = j
  <2> DEFINE new == [id |-> n, owner |-> req[r].u, iat |-> now,
                     password |-> req[r].password, late |-> req[r].late, root |-> j]
  <2>1. sessions' = sessions \cup {new}
    BY DEF CreateSession
  <2>2. new.id = n /\ new.root = j
    OBVIOUS
  <2> HIDE DEF new, j, n
  <2> QED BY <2>1, <2>2
<1>3. /\ req \in [Requests -> Request]
      /\ req[r].pc = "createSession"
      /\ req' = [req EXCEPT ![r] = Idle]
      /\ req'[r].op = "none"
      /\ \A x \in Requests \ {r} : req'[x] = req[x]
  BY DEF CreateSession, At, Finish, Become, TypeOK, RequestsOK, Idle
<1>4. \A d \in sessions : d.id \in Nat /\ d.root \in Nat
  BY DEF TypeOK, StoreOK, Session, SessionIds
<1>5. /\ \A i \in rotated : i \in Nat
      /\ \A x \in Requests : req[x].op = "refresh" => req[x].doc \in Nat /\ req[x].root \in Nat
  BY DEF TypeOK, StoreOK, RequestsOK, KnowsToken, SessionIds
<1>6. j \in Nat /\ j <= n
  BY <1>1, <1>5 DEF ChainInv, Handed
<1>7. Handed'
  <2>1. \A d \in sessions' : d.id <= n /\ d.root <= n
    <3> HIDE DEF n, j
    <3>1. lastSession <= n /\ n \in Nat
      BY <1>1 DEF n
    <3>2. ASSUME NEW d \in sessions' PROVE d.id <= n /\ d.root <= n
      <4>1. CASE d = e
        BY <4>1, <1>2, <1>6, <3>1
      <4>2. CASE d \in sessions
        <5>1. d.id <= lastSession /\ d.root <= lastSession
          BY <4>2 DEF ChainInv, Handed
        <5> QED BY <1>1, <1>4, <3>1, <4>2, <5>1
      <4> QED BY <1>2, <4>1, <4>2
    <3> QED BY <3>2
  <2>2. \A x \in Requests : req'[x].op = "refresh" => req'[x].doc <= n /\ req'[x].root <= n
    <3>1. ASSUME NEW x \in Requests, req'[x].op = "refresh"
          PROVE  req'[x].doc <= n /\ req'[x].root <= n
      <4>1. req'[x] = req[x]
        BY <1>3, <3>1
      <4>2. req[x].doc <= lastSession /\ req[x].root <= lastSession
        BY <3>1, <4>1 DEF ChainInv, Handed
      <4> QED BY <1>1, <1>5, <3>1, <4>1, <4>2
    <3> QED BY <3>1
  <2>3. \A i \in rotated : i <= n
    BY <1>1, <1>5 DEF ChainInv, Handed
  <2> QED BY <1>1, <2>1, <2>2, <2>3 DEF Handed
<1>8. SessionsDiffer'
  <2>1. \A d \in sessions : d.id # n
    BY <1>1, <1>4 DEF ChainInv, Handed
  <2>2. n \notin rotated
    BY <1>1, <1>5 DEF ChainInv, Handed
  <2> HIDE DEF n, j
  <2> QED BY <1>1, <1>2, <2>1, <2>2 DEF ChainInv, SessionsDiffer
<1>9. ASSUME NEW k \in SessionIds
      PROVE  /\ IsFiniteSet(OnTheWay(k)')
             /\ Cardinality(Unspent(k)') + Cardinality(OnTheWay(k)') <= 1 + doubled'[k]
  <2>1. Unspent(k)' \subseteq IF k = j THEN Unspent(k) \cup {n} ELSE Unspent(k)
    <3> HIDE DEF n, j
    <3> QED BY <1>1, <1>2, <1>3 DEF Unspent, Presents
  <2>2. OnTheWay(k)' = OnTheWay(k) \ {r}
    BY <1>3 DEF OnTheWay, Between
  <2>3. /\ IsFiniteSet(OnTheWay(k))
        /\ Cardinality(Unspent(k)) + Cardinality(OnTheWay(k)) <= 1 + doubled[k]
        /\ Cardinality(OnTheWay(k)) \in Nat
    BY FS_CardinalityType DEF ChainInv, ChainsBounded
  <2>4. /\ IsFiniteSet(OnTheWay(k)')
        /\ Cardinality(OnTheWay(k)') \in Nat
        /\ Cardinality(OnTheWay(k)') =
             IF r \in OnTheWay(k) THEN Cardinality(OnTheWay(k)) - 1
             ELSE Cardinality(OnTheWay(k))
    BY <2>2, <2>3, FS_RemoveElement, FS_CardinalityType
  <2>5. /\ IsFiniteSet(Unspent(k)) /\ Cardinality(Unspent(k)) \in Nat
        /\ Cardinality(Unspent(k)') \in Nat
    <3>1. Unspent(k) \in SUBSET SessionIds /\ Unspent(k)' \in SUBSET SessionIds
      BY DEF Unspent, SessionIds
    <3> QED BY <3>1, TokensFinite
  <2>6. Cardinality(Unspent(k)') <=
          IF k = j THEN Cardinality(Unspent(k)) + 1 ELSE Cardinality(Unspent(k))
    <3>1. /\ IsFiniteSet(Unspent(k) \cup {n})
          /\ Cardinality(Unspent(k) \cup {n}) =
               IF n \in Unspent(k) THEN Cardinality(Unspent(k))
               ELSE Cardinality(Unspent(k)) + 1
      BY <2>5, FS_AddElement
    <3>2. CASE k = j
      <4>1. Cardinality(Unspent(k)') <= Cardinality(Unspent(k) \cup {n})
        BY <2>1, <3>1, <3>2, FS_Subset
      <4> QED BY <2>5, <3>1, <3>2, <4>1
    <3>3. CASE k # j
      BY <2>1, <2>5, <3>3, FS_Subset
    <3> QED BY <3>2, <3>3
  <2>7. doubled'[k] = doubled[k] /\ doubled[k] \in Nat
    BY <1>1 DEF TypeOK, StoreOK
  <2>8. CASE req[r].op = "refresh"
    <3>1. k = j => r \in OnTheWay(k)
      BY <1>3, <2>8 DEF OnTheWay, Between
    <3> HIDE DEF n, j
    <3> QED BY <2>3, <2>4, <2>5, <2>6, <2>7, <3>1
  <2>9. CASE req[r].op # "refresh" /\ k = n
    <3>1. Unspent(k) = {}
      BY <1>1, <1>4, <1>5, <2>9 DEF Unspent, Presents, ChainInv, Handed
    <3>2. OnTheWay(k) = {}
      BY <1>1, <1>5, <2>9 DEF OnTheWay, Between, ChainInv, Handed
    <3>3. Cardinality(Unspent(k)) = 0 /\ Cardinality(OnTheWay(k)) = 0
      BY <3>1, <3>2, FS_EmptySet
    <3> HIDE DEF n, j
    <3> QED BY <2>4, <2>5, <2>6, <2>7, <3>3
  <2>10. CASE req[r].op # "refresh" /\ k # n
    <3>1. k # j
      BY <2>10
    <3> HIDE DEF n, j
    <3> QED BY <2>3, <2>4, <2>5, <2>6, <2>7, <3>1
  <2> QED BY <2>8, <2>9, <2>10
<1> QED BY <1>7, <1>8, <1>9 DEF ChainInv, ChainsBounded

\* Closing an account under a request moves it nowhere.
LEMMA PassedByBehind ==
  ASSUME TypeOK, NEW x \in Requests, NEW u, req'[x] = PassedBy(x, u)
  PROVE  FallsBehind(x)
<1>1. req[x] \in Pending \/ req[x] = Idle
  BY DEF TypeOK, RequestsOK, Request
<1>2. /\ req'[x].op = req[x].op /\ req'[x].pc = req[x].pc
      /\ req'[x].doc = req[x].doc /\ req'[x].root = req[x].root
  BY <1>1 DEF PassedBy, Pending, Idle
<1> QED BY <1>2 DEF FallsBehind, Between

LEMMA ChainsAtCalls ==
  ASSUME TypeOK, ChainInv, NEW r \in Requests, Call(r)
  PROVE  ChainInv'
<1>1. ASSUME NEW d \in sessions, RefreshFind(r, d) PROVE ChainInv'
  <2> DEFINE q == [Begun("refresh", "refreshDelete", d.owner)
                     EXCEPT !.doc = d.id, !.iat = d.iat, !.root = d.root,
                            !.password = d.password, !.late = d.late]
  <2>1. Become(r, q) /\ UNCHANGED <<sessions, lastSession, rotated, doubled>>
    BY <1>1 DEF RefreshFind
  <2>2. q.pc = "refreshDelete" /\ q.doc = d.id /\ q.root = d.root
    BY DEF Begun, Idle
  <2> HIDE DEF q
  <2> QED BY <2>1, <2>2, ChainsStay
<1>2. ASSUME NEW q, Become(r, q), q.op # "refresh",
             UNCHANGED <<sessions, lastSession, rotated, doubled>>
      PROVE  ChainInv'
  BY <1>2, ChainsStay
<1>3. ASSUME NEW u \in Users, Register(r, u) PROVE ChainInv'
  BY <1>2, <1>3 DEF Register, Begun, Idle
<1>4. ASSUME NEW u \in Users, Login(r, u) PROVE ChainInv'
  BY <1>2, <1>4 DEF Login, Begun, Idle
<1>5. ASSUME NEW u \in Users, LogoutAll(r, u) PROVE ChainInv'
  BY <1>2, <1>5 DEF LogoutAll, Begun, Idle
<1>6. ASSUME NEW u \in Users, Forgot(r, u) PROVE ChainInv'
  BY <1>2, <1>6 DEF Forgot, Begun, Idle
<1>7. ASSUME NEW u \in Users, Resend(r, u) PROVE ChainInv'
  BY <1>2, <1>7 DEF Resend, Begun, Idle
<1>8. ASSUME NEW u \in Users, Delete(r, u) PROVE ChainInv'
  BY <1>2, <1>8 DEF Delete, Begun, Idle
<1>9. ASSUME NEW u \in Users, NEW n \in Nonces, NEW v \in BOOLEAN,
             Google(r, u, n, v)
      PROVE  ChainInv'
  <2>1. \E pc \in {"createLink", "googleByEmail"} :
          Become(r, [Begun("google", pc, u) EXCEPT !.nonce = n])
    BY <1>9 DEF Google
  <2> QED BY <1>2, <1>9, <2>1 DEF Google, Begun, Idle
<1>10. ASSUME NEW d \in sessions, Logout(r, d) PROVE ChainInv'
  BY <1>2, <1>10 DEF Logout, Begun, Idle
<1>11. ASSUME NEW l \in links, Reset(r, l) PROVE ChainInv'
  BY <1>2, <1>11 DEF Reset, Begun, Idle
<1>12. ASSUME NEW l \in links, Verify(r, l) PROVE ChainInv'
  BY <1>2, <1>12 DEF Verify, Begun, Idle
<1>13. ASSUME NEW l \in links, NEW n \in Nonces, Exchange(r, l, n) PROVE ChainInv'
  BY <1>2, <1>13 DEF Exchange, Begun, Idle
<1> QED BY <1>1, <1>3, <1>4, <1>5, <1>6, <1>7, <1>8, <1>9, <1>10, <1>11, <1>12, <1>13
        DEF Call

LEMMA ChainsAtSteps ==
  ASSUME TypeOK, ControlOK, ChainInv, NEW r \in Requests, Continue(r)
  PROVE  ChainInv'
<1>1. /\ req \in [Requests -> Request] /\ OnPath(req[r])
      /\ req[r].pc # "idle" => req[r] \in Pending
  BY AtPending DEF TypeOK, RequestsOK, ControlOK
<1>2. ASSUME Finish(r), sessions' \subseteq sessions,
             UNCHANGED <<lastSession, rotated, doubled>>
      PROVE  ChainInv'
  BY <1>2, ChainsStay DEF Finish, Idle
<1>3. ASSUME NEW q, Become(r, q), q.op = req[r].op, req[r].op # "refresh",
             UNCHANGED <<sessions, lastSession, rotated, doubled>>
      PROVE  ChainInv'
  BY <1>3, ChainsStay
<1>4. CASE CreateUser(r)
  <2>1. req[r].op # "refresh" /\ req[r] \in Pending
    BY <1>1, <1>4 DEF CreateUser, At, OnPath
  <2>2. UNCHANGED <<sessions, lastSession, rotated, doubled>>
    BY <1>4 DEF CreateUser
  <2>3. CASE Finish(r)
    BY <1>2, <2>2, <2>3
  <2>4. CASE Become(r, [req[r] EXCEPT !.pc = "clearLinks", !.purpose = "email_verify",
                                      !.password = lastPassword + 1])
    BY <1>3, <2>1, <2>2, <2>4 DEF Pending
  <2> QED BY <1>4, <2>3, <2>4 DEF CreateUser
<1>5. CASE ClearLinks(r)
  BY <1>1, <1>3, <1>5 DEF ClearLinks, At, OnPath, Pending
<1>6. CASE CreateLink(r)
  BY <1>1, <1>2, <1>3, <1>6 DEF CreateLink, Goto, At, OnPath, Pending
<1>7. CASE FindUser(r)
  <2>1. UNCHANGED <<sessions, lastSession, rotated, doubled>>
    BY <1>7 DEF FindUser
  <2>2. CASE Finish(r)
    BY <1>2, <2>1, <2>2
  <2>3. CASE Goto(r, "createSession")
    <3>1. Become(r, [req[r] EXCEPT !.pc = "createSession"])
      BY <2>3 DEF Goto
    <3>2. req[r].pc = "findUser" /\ req[r] \in Pending
      BY <1>1, <1>7 DEF FindUser, At
    <3> DEFINE q == [req[r] EXCEPT !.pc = "createSession"]
    <3>3. /\ q.op = req[r].op /\ q.pc = "createSession"
          /\ q.doc = req[r].doc /\ q.root = req[r].root
      BY <3>2 DEF Pending
    <3>4. Between(q) => Between(req[r])
      BY <3>2, <3>3 DEF Between
    <3> HIDE DEF q
    <3> QED BY <2>1, <3>1, <3>3, <3>4, ChainsStay DEF q
  <2> QED BY <1>7, <2>2, <2>3 DEF FindUser
<1>8. CASE LogoutDelete(r)
  BY <1>2, <1>8 DEF LogoutDelete
<1>9. ASSUME NEW u, NEW q, q.op # "refresh", RevokePassing(u, r, q),
             sessions' \subseteq sessions, UNCHANGED <<lastSession, rotated, doubled>>
      PROVE  ChainInv'
  <2>1. ASSUME NEW x \in Requests PROVE FallsBehind(x)
    <3>1. CASE x = r
      BY <1>9, <3>1 DEF RevokePassing, FallsBehind
    <3>2. CASE x # r
      <4>1. req[x] \in Pending \/ req[x] = Idle
        BY <1>1 DEF Request
      <4>2. /\ req'[x].op = req[x].op /\ req'[x].pc = req[x].pc
            /\ req'[x].doc = req[x].doc /\ req'[x].root = req[x].root
        BY <1>9, <3>2, <4>1 DEF RevokePassing, Pending, Idle
      <4> QED BY <4>2 DEF FallsBehind, Between
    <3> QED BY <3>1, <3>2
  <2> QED BY <1>9, <2>1, ChainsShrink
<1>10. CASE RevokeAll(r)
  <2>1. /\ req[r] \in Pending /\ req[r].op # "refresh"
    BY <1>1, <1>10 DEF RevokeAll, At, OnPath
  <2> DEFINE q == IF req[r].op = "google" THEN [req[r] EXCEPT !.pc = "createLink"] ELSE Idle
  <2>2. q.op # "refresh"
    BY <2>1 DEF Pending, Idle
  <2>3. /\ RevokePassing(req[r].u, r, q) /\ sessions' \subseteq sessions
        /\ UNCHANGED <<lastSession, rotated, doubled>>
    BY <1>10 DEF RevokeAll
  <2> HIDE DEF q
  <2> QED BY <1>9, <2>2, <2>3
<1>11. CASE SetPassword(r)
  BY <1>1, <1>3, <1>11 DEF SetPassword, Goto, At, OnPath, Pending
<1>12. CASE MarkVerified(r)
  BY <1>2, <1>12 DEF MarkVerified
<1>13. CASE GoogleByEmail(r)
  BY <1>1, <1>3, <1>13 DEF GoogleByEmail, Goto, At, OnPath, Pending
<1>14. CASE GoogleSave(r)
  BY <1>1, <1>2, <1>3, <1>14 DEF GoogleSave, Goto, At, OnPath, Pending
<1>15. CASE GoogleCreate(r)
  BY <1>1, <1>2, <1>3, <1>15 DEF GoogleCreate, Goto, At, OnPath, Pending
<1>16. CASE DeleteCheck(r)
  BY <1>1, <1>2, <1>3, <1>16 DEF DeleteCheck, Goto, At, OnPath, Pending
<1>17. CASE DeleteSessions(r)
  <2>1. req[r] \in Pending /\ req[r].op # "refresh"
    BY <1>1, <1>17 DEF DeleteSessions, At, OnPath
  <2> DEFINE q == [req[r] EXCEPT !.pc = "deleteUser"]
  <2>2. q.op # "refresh"
    BY <2>1 DEF Pending
  <2>3. /\ RevokePassing(req[r].u, r, q) /\ sessions' \subseteq sessions
        /\ UNCHANGED <<lastSession, rotated, doubled>>
    BY <1>17 DEF DeleteSessions
  <2> HIDE DEF q
  <2> QED BY <1>9, <2>2, <2>3
<1>18. CASE DeleteUser(r)
  <2>1. ASSUME NEW x \in Requests PROVE FallsBehind(x)
    <3>1. CASE x = r
      BY <1>18, <3>1 DEF DeleteUser, FallsBehind, Idle
    <3>2. CASE x # r
      BY <1>1, <1>18, <3>2, PassedByBehind DEF DeleteUser
    <3> QED BY <3>1, <3>2
  <2> QED BY <1>18, <2>1, ChainsShrink DEF DeleteUser
<1> QED BY <1>4, <1>5, <1>6, <1>7, <1>8, <1>10, <1>11, <1>12, <1>13, <1>14, <1>15, <1>16,
        <1>17, <1>18, ChainSpends, ChainExtends DEF Continue

LEMMA ChainNext == TypeOK /\ ControlOK /\ ChainInv /\ [Next]_vars => ChainInv'
<1> SUFFICES ASSUME TypeOK, ControlOK, ChainInv, [Next]_vars PROVE ChainInv'
  OBVIOUS
<1>1. ASSUME NEW r \in Requests, Crash(r) PROVE ChainInv'
  BY <1>1, ChainsStay DEF Crash, Finish, Idle
<1>2. ASSUME NEW u \in Users, Deactivate(u) PROVE ChainInv'
  <2>1. \A x \in Requests : FallsBehind(x)
    BY <1>2, PassedByBehind DEF Deactivate
  <2> QED BY <1>2, <2>1, ChainsShrink DEF Deactivate
<1>3. ASSUME UNCHANGED req, sessions' \subseteq sessions,
             UNCHANGED <<lastSession, rotated, doubled>>
      PROVE  ChainInv'
  BY <1>3, ChainsShrink DEF FallsBehind
<1>4. ASSUME Environment, \A u \in Users : ~Deactivate(u) PROVE ChainInv'
  BY <1>3, <1>4 DEF Environment, Activate, ReapSession, ReapLink, Tick
<1>5. CASE UNCHANGED vars
  BY <1>3, <1>5 DEF vars
<1> QED BY <1>1, <1>2, <1>4, <1>5, ChainsAtCalls, ChainsAtSteps DEF Next

\* Different sessions of a chain are different tokens of it.
LEMMA ChainCounted ==
  ASSUME TypeOK, ChainInv, NEW k \in SessionIds
  PROVE  ChainLength(k) <= 1 + doubled[k]
<1> DEFINE S == {d \in sessions : d.root = k}
           f == [d \in S |-> d.id]
<1>1. f \in Injection(S, Unspent(k))
  <2>1. f \in [S -> Unspent(k)]
    BY DEF TypeOK, StoreOK, Session, Unspent, ChainInv, SessionsDiffer
  <2>2. \A a, b \in S : f[a] = f[b] => a = b
    BY DEF ChainInv, SessionsDiffer
  <2> HIDE DEF f, S
  <2> QED BY <2>1, <2>2 DEF Injection, IsInjective
<1>2. IsFiniteSet(Unspent(k)) /\ Cardinality(Unspent(k)) \in Nat
  <2>1. Unspent(k) \in SUBSET SessionIds
    BY DEF Unspent
  <2> QED BY <2>1, TokensFinite
<1>3. Cardinality(S) \in Nat /\ Cardinality(S) <= Cardinality(Unspent(k))
  <2> HIDE DEF f, S
  <2>1. IsFiniteSet(S) /\ Cardinality(S) <= Cardinality(Unspent(k))
    BY <1>1, <1>2, FS_Injection
  <2> QED BY <2>1, FS_CardinalityType
<1>4. ChainLength(k) = Cardinality(S) + Cardinality(OnTheWay(k))
  <2>1. OnTheWay(k) = {x \in Requests : /\ req[x].op = "refresh" /\ req[x].root = k
                                        /\ req[x].pc \in {"findUser", "createSession"}}
    BY DEF OnTheWay, Between
  <2> QED BY <2>1 DEF ChainLength
<1>5. /\ Cardinality(Unspent(k)) + Cardinality(OnTheWay(k)) <= 1 + doubled[k]
      /\ Cardinality(OnTheWay(k)) \in Nat /\ doubled[k] \in Nat
  BY FS_CardinalityType DEF ChainInv, ChainsBounded, TypeOK, StoreOK
<1> HIDE DEF S, f
<1> QED BY <1>2, <1>3, <1>4, <1>5

\* RefreshChainsDoNotGrow, for any number of sessions and requests: a login
\* grows into more than one live refresh token only by refreshes that used a
\* token another refresh had used.
THEOREM ChainsCorrect == Spec => []RefreshChainsDoNotGrow
<1>1. TypeOK /\ ChainInv => RefreshChainsDoNotGrow
  BY ChainCounted DEF RefreshChainsDoNotGrow
<1> QED
  BY <1>1, TypeInit, TypeNext, ControlStart, ControlNext, ChainStart, ChainNext, PTL
  DEF Spec

-----------------------------------------------------------------------------
(* The links that can be used                                              *)

\* No two documents have one _id.
LinksDiffer == \A a, b \in links : a.id = b.id => a = b

\* What the refinement needs to know of the collection.
LinksKnown == TypeOK /\ LinksNumbered /\ LinksDiffer

\* A live link stands for its right, ...
LEMMA LiveIsUsable ==
  ASSUME LinksKnown, NEW l \in links, ~Dead(l)
  PROVE  usableLinks[l.id] = RightOf(l)
<1>1. l.id \in LinkIds
  BY DEF LinksKnown, TypeOK, StoreOK, Link
<1>2. Usable(l.id) = {l}
  BY DEF LinksKnown, LinksDiffer, Usable
<1>3. (CHOOSE x \in Usable(l.id) : TRUE) = l
  BY <1>2
<1>4. usableLinks[l.id] = RightOf(CHOOSE x \in Usable(l.id) : TRUE)
  BY <1>1, <1>2 DEF usableLinks
<1> QED BY <1>3, <1>4

\* ... and an _id without a live link for none.
LEMMA NoneIsUsable ==
  ASSUME NEW i \in LinkIds, \A l \in links : l.id = i => Dead(l)
  PROVE  usableLinks[i] = NoRight
<1>1. Usable(i) = {}
  BY DEF Usable
<1> QED BY <1>1 DEF usableLinks

\* All that is known of usableLinks, in a state and in the one after it.
UsableMeans ==
  /\ usableLinks = [i \in LinkIds |-> usableLinks[i]]
  /\ \A l \in links : l.id \in LinkIds
  /\ \A l \in links : RightOf(l) \in Right /\ RightOf(l) # NoRight
  /\ \A l \in links : ~Dead(l) => usableLinks[l.id] = RightOf(l)
  /\ \A i \in LinkIds : (\A l \in links : l.id = i => Dead(l)) => usableLinks[i] = NoRight

LEMMA Meaning == LinksKnown => UsableMeans
<1> SUFFICES ASSUME LinksKnown PROVE UsableMeans
  OBVIOUS
<1>1. usableLinks = [i \in LinkIds |-> usableLinks[i]]
  BY DEF usableLinks
<1>2. ASSUME NEW l \in links
      PROVE  /\ l.id \in LinkIds
             /\ RightOf(l) \in Right /\ RightOf(l) # NoRight
  <2>1. /\ l.id \in LinkIds /\ l.owner \in Users /\ l.purpose \in Purposes
        /\ l.binding \in Nonces \cup {NoNonce}
    BY DEF LinksKnown, TypeOK, StoreOK, Link
  <2>2. RightOf(l) \in Right
    BY <2>1 DEF RightOf, Right
  <2>3. RightOf(l).owner # NoRight.owner
    BY <2>1, AuthAssumption DEF RightOf, NoRight
  <2> QED BY <2>1, <2>2, <2>3
<1> QED BY <1>1, <1>2, LiveIsUsable, NoneIsUsable DEF UsableMeans

LEMMA MeaningAfter == LinksKnown' => UsableMeans'
BY Meaning, PTL

-----------------------------------------------------------------------------
(* The three steps of the abstract store                                   *)

\* What has become of the links when no step but the clock's, the TTL
\* monitor's or a clearing touched them.
OnlyRetired ==
  /\ links' \subseteq links /\ now' \in Nat /\ now <= now'
  /\ UNCHANGED <<lastLink, redeemed>>

LEMMA Retiring ==
  ASSUME LinksKnown, LinksKnown', OnlyRetired
  PROVE  LinkStore!SUNext
<1> DEFINE S == {i \in LinkIds : usableLinks'[i] = NoRight}
<1>1. UsableMeans /\ UsableMeans'
  BY Meaning, MeaningAfter
<1>2. \A l \in links' : Dead(l) => Dead(l)'
  BY DEF OnlyRetired, Dead, LinksKnown, TypeOK, StoreOK, Link
<1>3. ASSUME NEW i \in LinkIds
      PROVE  usableLinks'[i] = IF i \in S THEN NoRight ELSE usableLinks[i]
  <2>1. CASE \A l \in links' : l.id = i => Dead(l)'
    BY <1>1, <2>1 DEF UsableMeans
  <2>2. CASE \E l \in links' : l.id = i /\ ~Dead(l)'
    <3>1. PICK l \in links' : l.id = i /\ ~Dead(l)'
      BY <2>2
    <3>2. l \in links /\ ~Dead(l)
      BY <1>2, <3>1 DEF OnlyRetired
    <3>3. usableLinks[i] = RightOf(l) /\ usableLinks'[i] = RightOf(l)
      BY <1>1, <3>1, <3>2 DEF UsableMeans, RightOf
    <3> QED BY <1>1, <3>2, <3>3 DEF UsableMeans
  <2> QED BY <2>1, <2>2
<1>4. usableLinks' = [i \in LinkIds |-> IF i \in S THEN NoRight ELSE usableLinks[i]]
  BY <1>1, <1>3 DEF UsableMeans
<1>5. LinkStore!Retire(S)
  BY <1>4 DEF LinkStore!Retire, OnlyRetired
<1> QED BY <1>5 DEF LinkStore!SUNext

\* consumeOneTimeToken: of several requests with one token, one finds it.
LEMMA Redeeming ==
  ASSUME LinksKnown, LinksKnown', NEW l \in links, NEW p, NEW n,
         Redeems(l, p, n), UNCHANGED <<lastLink, now>>
  PROVE  LinkStore!SUNext
<1>1. UsableMeans /\ UsableMeans'
  BY Meaning, MeaningAfter
<1>2. l.id \in LinkIds /\ usableLinks[l.id] = RightOf(l) /\ RightOf(l) # NoRight
  BY <1>1 DEF Redeems, UsableMeans
<1>3. RightOf(l) = [owner |-> l.owner, purpose |-> p, binding |-> n]
  BY DEF Redeems, RightOf
<1>4. redeemed' = [redeemed EXCEPT ![l.id] = Append(@, usableLinks[l.id])]
  BY <1>2, <1>3 DEF Redeems, Grants
<1>5. links' = links \ {l} /\ (\A k \in links : Dead(k)' <=> Dead(k))
  BY DEF Redeems, Dead
<1>6. ASSUME NEW i \in LinkIds
      PROVE  usableLinks'[i] = IF i = l.id THEN NoRight ELSE usableLinks[i]
  <2>1. CASE i = l.id
    <3>1. \A k \in links' : k.id # i
      BY <1>5, <2>1 DEF LinksKnown, LinksDiffer
    <3> QED BY <1>1, <2>1, <3>1 DEF UsableMeans
  <2>2. CASE i # l.id /\ \A k \in links : k.id = i => Dead(k)
    <3>1. \A k \in links' : k.id = i => Dead(k)'
      BY <1>5, <2>2
    <3> QED BY <1>1, <2>2, <3>1 DEF UsableMeans
  <2>3. CASE i # l.id /\ \E k \in links : k.id = i /\ ~Dead(k)
    <3>1. PICK k \in links : k.id = i /\ ~Dead(k)
      BY <2>3
    <3>2. k \in links' /\ ~Dead(k)'
      BY <1>5, <2>3, <3>1
    <3>3. usableLinks[i] = RightOf(k) /\ usableLinks'[i] = RightOf(k)
      BY <1>1, <3>1, <3>2 DEF UsableMeans, RightOf
    <3> QED BY <2>3, <3>3
  <2> QED BY <2>1, <2>2, <2>3
<1>7. usableLinks' = [usableLinks EXCEPT ![l.id] = NoRight]
  BY <1>1, <1>2, <1>6 DEF UsableMeans
<1>8. LinkStore!Redeem(l.id)
  BY <1>2, <1>4, <1>7 DEF LinkStore!Redeem
<1> QED BY <1>2, <1>8 DEF LinkStore!SUNext

\* createOneTimeToken: the token is new and can be used from now on.
LEMMA Issuing ==
  ASSUME LinksKnown, LinksKnown', NEW r \in Requests, CreateLink(r)
  PROVE  LinkStore!SUNext
<1>0. PICK new :
        new = [id |-> lastLink + 1, owner |-> req[r].u,
               purpose |-> req[r].purpose, binding |-> req[r].nonce,
               since |-> req[r].since,
               expiresAt |-> now + LinkTTL[req[r].purpose]]
  OBVIOUS
<1>1. UsableMeans /\ UsableMeans'
  BY Meaning, MeaningAfter
<1>2. /\ links' = links \cup {new} /\ lastLink' = lastLink + 1
      /\ now' = now /\ redeemed' = redeemed
      /\ lastLink \in Nat /\ lastLink + 1 \in LinkIds /\ now \in Nat
  BY <1>0, AuthAssumption DEF CreateLink, LinksKnown, TypeOK, StoreOK, LinkIds
<1>3. req[r] \in Pending
  BY AtPending DEF CreateLink, At, LinksKnown, TypeOK
<1>4. ~Dead(new)'
  <2>1. LinkTTL[req[r].purpose] \in Nat \ {0}
    BY <1>3, AuthAssumption DEF Pending
  <2> QED BY <1>0, <1>2, <2>1 DEF Dead
<1>5. RightOf(new) \in Right
  BY <1>0, <1>3 DEF RightOf, Right, Pending
<1>6. \A k \in links : k.id # lastLink + 1 /\ (Dead(k)' <=> Dead(k))
  BY <1>2 DEF LinksKnown, LinksNumbered, TypeOK, StoreOK, Link, LinkIds, Dead
<1>7. ASSUME NEW i \in LinkIds
      PROVE  usableLinks'[i] = IF i = lastLink + 1 THEN RightOf(new) ELSE usableLinks[i]
  <2>1. CASE i = lastLink + 1
    <3>1. new \in links' /\ new.id = i
      BY <1>0, <1>2, <2>1
    <3>2. usableLinks'[i] = RightOf(new)
      BY <1>1, <1>4, <3>1 DEF UsableMeans, RightOf
    <3> QED BY <2>1, <3>2
  <2>2. CASE i # lastLink + 1 /\ \A k \in links : k.id = i => Dead(k)
    <3>1. \A k \in links' : k.id = i => Dead(k)'
      BY <1>0, <1>2, <1>6, <2>2
    <3> QED BY <1>1, <2>2, <3>1 DEF UsableMeans
  <2>3. CASE i # lastLink + 1 /\ \E k \in links : k.id = i /\ ~Dead(k)
    <3>1. PICK k \in links : k.id = i /\ ~Dead(k)
      BY <2>3
    <3>2. k \in links' /\ ~Dead(k)'
      BY <1>2, <1>6, <3>1
    <3>3. usableLinks[i] = RightOf(k) /\ usableLinks'[i] = RightOf(k)
      BY <1>1, <3>1, <3>2 DEF UsableMeans, RightOf
    <3> QED BY <2>3, <3>3
  <2> QED BY <2>1, <2>2, <2>3
<1>8. usableLinks' = [usableLinks EXCEPT ![lastLink + 1] = RightOf(new)]
  BY <1>1, <1>2, <1>7 DEF UsableMeans
<1>9. /\ lastLink + 1 \notin 1 .. lastLink
      /\ 1 .. lastLink' = 1 .. lastLink \cup {lastLink + 1}
  BY <1>2
<1>10. LinkStore!Issue(lastLink + 1, RightOf(new))
  BY <1>2, <1>8, <1>9 DEF LinkStore!Issue
<1> QED BY <1>2, <1>5, <1>10 DEF LinkStore!SUNext

-----------------------------------------------------------------------------
(* Every step of the service                                               *)

LEMMA StoreStart == Init => LinksDiffer /\ LinkStore!SUInit
<1> SUFFICES ASSUME Init PROVE LinksDiffer /\ LinkStore!SUInit
  OBVIOUS
<1>1. links = {} /\ lastLink = 0 /\ redeemed = [i \in LinkIds |-> <<>>]
  BY DEF Init
<1>2. 1 .. lastLink = {}
  BY <1>1
<1>3. usableLinks = [i \in LinkIds |-> NoRight]
  BY <1>1 DEF usableLinks, Usable
<1> QED BY <1>1, <1>2, <1>3 DEF LinksDiffer, LinkStore!SUInit

\* Of the steps only createOneTimeToken adds a document, under a new _id.
LEMMA DifferNext ==
  ASSUME LinksKnown, links' \subseteq links \/ \E r \in Requests : CreateLink(r)
  PROVE  LinksDiffer'
<1>1. CASE links' \subseteq links
  BY <1>1 DEF LinksKnown, LinksDiffer
<1>2. ASSUME NEW r \in Requests, CreateLink(r) PROVE LinksDiffer'
  <2>1. PICK new : links' = links \cup {new} /\ new.id = lastLink + 1
    <3>1. PICK new : new = [id |-> lastLink + 1, owner |-> req[r].u,
                            purpose |-> req[r].purpose, binding |-> req[r].nonce,
                            since |-> req[r].since,
                            expiresAt |-> now + LinkTTL[req[r].purpose]]
      OBVIOUS
    <3>2. links' = links \cup {new}
      BY <1>2, <3>1 DEF CreateLink
    <3> QED BY <3>1, <3>2
  <2>2. \A l \in links : l.id # lastLink + 1
    BY DEF LinksKnown, LinksNumbered, TypeOK, StoreOK, Link, LinkIds
  <2> QED BY <2>1, <2>2 DEF LinksKnown, LinksDiffer
<1> QED BY <1>1, <1>2

\* Which steps redeem, which store, and what the others leave.
LEMMA StepsOfTheStore ==
  ASSUME TypeOK, [Next]_vars
  PROVE  \/ \E r \in Requests : CreateLink(r)
         \/ /\ \E l \in links : \E p, n : Redeems(l, p, n)
            /\ UNCHANGED <<lastLink, now>>
         \/ OnlyRetired
<1>0. now \in Nat
  BY DEF TypeOK, StoreOK
<1>1. ASSUME NEW r \in Requests, Call(r)
      PROVE  \/ /\ \E l \in links : \E p, n : Redeems(l, p, n)
                /\ UNCHANGED <<lastLink, now>>
             \/ OnlyRetired
  <2>1. ASSUME NEW u \in Users,
               \/ Register(r, u) \/ Login(r, u) \/ LogoutAll(r, u) \/ Forgot(r, u)
               \/ Resend(r, u) \/ Delete(r, u)
               \/ \E n \in Nonces, v \in BOOLEAN : Google(r, u, n, v)
        PROVE  OnlyRetired
    <3>1. CASE \/ Register(r, u) \/ Login(r, u) \/ LogoutAll(r, u)
               \/ Forgot(r, u) \/ Resend(r, u) \/ Delete(r, u)
      <4>1. UNCHANGED <<links, now, lastLink, redeemed>>
        BY <3>1 DEF Register, Login, LogoutAll, Forgot, Resend, Delete
      <4> QED BY <1>0, <4>1 DEF OnlyRetired
    <3>2. CASE \E n \in Nonces, v \in BOOLEAN : Google(r, u, n, v)
      BY <1>0, <3>2 DEF Google, OnlyRetired
    <3> QED BY <2>1, <3>1, <3>2
  <2>2. ASSUME NEW d \in sessions, RefreshFind(r, d) \/ Logout(r, d)
        PROVE  OnlyRetired
    BY <1>0, <2>2 DEF RefreshFind, Logout, OnlyRetired
  <2>3. ASSUME NEW l \in links, Reset(r, l)
        PROVE  Redeems(l, "password_reset", NoNonce) /\ UNCHANGED <<lastLink, now>>
    BY <2>3 DEF Reset
  <2>4. ASSUME NEW l \in links, Verify(r, l)
        PROVE  Redeems(l, "email_verify", NoNonce) /\ UNCHANGED <<lastLink, now>>
    BY <2>4 DEF Verify
  <2>5. ASSUME NEW l \in links, NEW n \in Nonces, Exchange(r, l, n)
        PROVE  Redeems(l, "oauth_code", n) /\ UNCHANGED <<lastLink, now>>
    BY <2>5 DEF Exchange
  <2> QED BY <1>1, <2>1, <2>2, <2>3, <2>4, <2>5 DEF Call
<1>2. ASSUME NEW r \in Requests, Continue(r)
      PROVE  CreateLink(r) \/ OnlyRetired
  BY <1>0, <1>2 DEF Continue, CreateUser, ClearLinks, CreateSession, RefreshDelete,
     FindUser, LogoutDelete, RevokeAll, SetPassword, MarkVerified, GoogleByEmail,
     GoogleSave, GoogleCreate, DeleteCheck, DeleteSessions, DeleteUser, OnlyRetired
<1>3. ASSUME NEW r \in Requests, Crash(r) PROVE OnlyRetired
  BY <1>0, <1>3 DEF Crash, OnlyRetired
<1>4. CASE Environment
  BY <1>0, <1>4 DEF Environment, Deactivate, Activate, ReapSession, ReapLink, Tick,
     OnlyRetired
<1>5. CASE UNCHANGED vars
  BY <1>0, <1>5 DEF vars, OnlyRetired
<1> QED BY <1>1, <1>2, <1>3, <1>4, <1>5 DEF Next

LEMMA LinksKnownNext ==
  TypeOK /\ ControlOK /\ LinkInv /\ LinksDiffer /\ [Next]_vars => LinksDiffer'
<1> SUFFICES ASSUME TypeOK, LinkInv, LinksDiffer, [Next]_vars PROVE LinksDiffer'
  OBVIOUS
<1>1. LinksKnown
  BY DEF LinksKnown, LinkInv
<1>2. links' \subseteq links \/ \E r \in Requests : CreateLink(r)
  BY StepsOfTheStore DEF OnlyRetired, Redeems
<1> QED BY <1>1, <1>2, DifferNext

LEMMA StoreStep ==
  ASSUME LinksKnown, LinksKnown', [Next]_vars
  PROVE  LinkStore!SUNext
<1>1. TypeOK
  BY DEF LinksKnown
<1>2. ASSUME NEW r \in Requests, CreateLink(r) PROVE LinkStore!SUNext
  BY <1>2, Issuing
<1>3. ASSUME NEW l \in links, NEW p, NEW n, Redeems(l, p, n), UNCHANGED <<lastLink, now>>
      PROVE  LinkStore!SUNext
  BY <1>3, Redeeming
<1>4. CASE OnlyRetired
  BY <1>4, Retiring
<1> QED BY <1>1, <1>2, <1>3, <1>4, StepsOfTheStore

\* A one-time token grants what it was stored for, to whom it was stored for,
\* in the browser it is bound to, before it expires, and at most once: every
\* step of the service is a step of the abstract store
\* (auth.service.ts:363).
THEOREM SingleUseCorrect == Spec => OneTimeTokensAreSingleUse
<1>1. Init => LinkInv /\ ControlOK /\ LinksDiffer /\ LinkStore!SUInit
  BY LinkStart, ControlStart, StoreStart
<1>2. TypeOK /\ ControlOK /\ [Next]_vars => ControlOK'
  BY ControlNext
<1>3. TypeOK /\ ControlOK /\ LinkInv /\ [Next]_vars => LinkInv'
  BY LinkNext
<1>4. TypeOK /\ ControlOK /\ LinkInv /\ LinksDiffer /\ [Next]_vars => LinksDiffer'
  BY LinksKnownNext
<1>5. TypeOK /\ LinkInv /\ LinksDiffer => LinksKnown
  BY DEF LinksKnown, LinkInv
<1>6. LinksKnown /\ LinksKnown' /\ [Next]_vars => [LinkStore!SUNext]_(LinkStore!suVars)
  BY StoreStep
<1> QED
  BY <1>1, <1>2, <1>3, <1>4, <1>5, <1>6, TypeCorrect, PTL
  DEF Spec, OneTimeTokensAreSingleUse, LinkStore!SUSpec

=============================================================================
