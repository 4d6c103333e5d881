-------------------------------- MODULE Auth --------------------------------
(***************************************************************************)
(* Accounts, login sessions and one-time tokens of the API.                *)
(*                                                                         *)
(* The API runs as any number of stateless processes over one MongoDB, and *)
(* uses no transactions.  A request handler is therefore a program whose   *)
(* atomic steps are its database calls: between two awaits every other     *)
(* request may run, and the process may be stopped for good.  Each record  *)
(* req[r] is one request in progress; its pc names the database call it is *)
(* about to make, the other fields are its local variables.  The local     *)
(* computation between two calls belongs to the step of the earlier call.  *)
(*                                                                         *)
(* Abstracted: passwords are numbered versions (an account's password is   *)
(* the version last stored, bcrypt accepts exactly that one); an account   *)
(* stands for its e-mail address, its Google id and its _id at once, so an *)
(* address is not registered again after its account was deleted; e-mails  *)
(* are delivered or not, and whoever holds a link may use it at any time;  *)
(* seconds are ticks of one clock.                                         *)
(***************************************************************************)
EXTENDS Naturals, Sequences, FiniteSets

CONSTANTS
  Users,         \* accounts
  Requests,      \* requests that may be in progress at one time
  Nonces,        \* values of the oauth_nonce cookie
  NoNonce,       \* bindingHash of a token that is bound to no browser
  Handlers,      \* the handlers clients call in this instance
  SessionTTL,    \* life of a refresh token, in ticks
  LinkTTL,       \* life of a one-time token by purpose, in ticks
  MaxClock,      \* bound: last tick
  MaxSessions,   \* bound: refresh tokens stored in a behaviour
  MaxLinks,      \* bound: one-time tokens stored in a behaviour
  MaxPasswords   \* bound: password versions chosen in a behaviour

Purposes == {"oauth_code", "password_reset", "email_verify"}

AllHandlers == {"register", "login", "refresh", "logout", "logoutAll",
                "forgot", "reset", "verify", "resend", "google", "exchange",
                "delete", "moderate"}

ASSUME AuthAssumption ==
  /\ Handlers \subseteq AllHandlers
  /\ NoNonce \notin Nonces /\ "none" \notin Users
  /\ SessionTTL \in Nat \ {0}
  /\ LinkTTL \in [Purposes -> Nat \ {0}]
  /\ MaxClock \in Nat /\ MaxSessions \in Nat /\ MaxLinks \in Nat
  /\ MaxPasswords \in Nat \ {0}

VARIABLES
  user,         \* users collection
  sessions,     \* refresh token collection, a set of documents
  links,        \* one-time token collection, a set of documents
  req,          \* requests in progress
  now,          \* the clock
  lastSession, lastLink, lastPassword,  \* last _id, last _id, last version
  \* History, read by no guard and by no other variable:
  redeemed,     \* redeemed[l]: the rights granted for one-time token l
  rotated,      \* refresh tokens some refresh went past the deletion of
  doubled,      \* doubled[k]: refreshes of login k's chain beyond the first
                \* of their token
  unrevoked     \* users whose old sessions a request should have ended when
                \* it was lost or gave up

vars == <<user, sessions, links, req, now, lastSession, lastLink,
          lastPassword, redeemed, rotated, doubled, unrevoked>>

-----------------------------------------------------------------------------
(* Documents                                                               *)

NoPassword == 0
Passwords == 1 .. MaxPasswords
SessionIds == 1 .. MaxSessions
LinkIds == 1 .. MaxLinks

\* status "new": no document yet; "deleted": removed by deleteAccount.
Account == [status : {"new", "present", "deleted"}, active : BOOLEAN,
            verified : BOOLEAN, google : BOOLEAN,
            password : {NoPassword} \cup Passwords]

\* The raw refresh token is a JWT over {sub, type, iat, exp} and iat counts
\* seconds: owner and iat are all there is to it.  The fields after iat are
\* history: the password the login gave (NoPassword: Google), the first
\* session of the chain of refreshes, and whether a revocation of the owner's
\* sessions passed by while the session was being made.
Session == [id : SessionIds, owner : Users, iat : Nat,
            password : {NoPassword} \cup Passwords, root : SessionIds,
            late : BOOLEAN]

\* "since" is history: the last token that existed when the request that
\* stored this one cleared its user's older tokens (0: it cleared none).
Link == [id : LinkIds, owner : Users, purpose : Purposes,
         binding : Nonces \cup {NoNonce}, expiresAt : Nat, since : Nat]

\* What a one-time token stands for.
Right == [owner : Users, purpose : Purposes, binding : Nonces \cup {NoNonce}]

Live(u) == user[u].status = "present" /\ user[u].active

Expired(d) == now >= d.iat + SessionTTL

Dead(l) == now >= l.expiresAt

NewAccount == [status |-> "new", active |-> TRUE, verified |-> FALSE,
               google |-> FALSE, password |-> NoPassword]

\* usersService.create: a local account with the password version p.
LocalAccount(p) == [NewAccount EXCEPT !.status = "present", !.password = p]

-----------------------------------------------------------------------------
(* Requests                                                                *)

Idle == [op |-> "none", pc |-> "idle", u |-> "none", doc |-> 0, iat |-> 0,
         password |-> NoPassword, root |-> 0, purpose |-> "oauth_code",
         nonce |-> NoNonce, since |-> 0, trusted |-> TRUE, active |-> TRUE,
         late |-> FALSE, closed |-> FALSE]

PCs == {"createUser", "clearLinks", "createLink", "createSession",
        "refreshDelete", "findUser", "logoutDelete", "revokeAll",
        "setPassword", "markVerified", "googleByEmail", "googleSave",
        "googleCreate", "deleteCheck", "deleteSessions", "deleteUser"}

Pending == [op : AllHandlers, pc : PCs, u : Users,
            doc : SessionIds \cup {0}, iat : Nat,
            password : {NoPassword} \cup Passwords,
            root : SessionIds \cup {0}, purpose : Purposes,
            nonce : Nonces \cup {NoNonce}, since : Nat, trusted : BOOLEAN,
            active : BOOLEAN, late : BOOLEAN, closed : BOOLEAN]

Request == {Idle} \cup Pending

\* A client calls handler h; its first database call is this step.
Calls(r, h) == h \in Handlers /\ req[r].pc = "idle"

\* Mutant: the handler loses the user it acts for.
Begun_NoUser(h, pc, u) == [Idle EXCEPT !.op = h, !.pc = pc]

Begun(h, pc, u) == [Idle EXCEPT !.op = h, !.pc = pc, !.u = u]

At(r, pc) == req[r].pc = pc

Become(r, q) == req' = [req EXCEPT ![r] = q]

Goto(r, pc) == Become(r, [req[r] EXCEPT !.pc = pc])

Finish(r) == Become(r, Idle)

\* Requests that already decided to open a session for their user.
Authorised(q) == q.pc = "createSession" \/ (q.op = "register" /\ q.u # "none"
                                            /\ q.pc # "createUser")

\* Request x when u's account is closed under it.
PassedBy(x, u) == IF req[x].u = u /\ Authorised(req[x])
                  THEN [req[x] EXCEPT !.closed = TRUE] ELSE req[x]

\* r goes on as q while the sessions of u are deleted under every other
\* request that is making one.
RevokePassing(u, r, q) ==
  req' = [x \in Requests |->
            IF x = r THEN q
            ELSE IF req[x].u = u THEN [req[x] EXCEPT !.late = TRUE]
                 ELSE req[x]]

-----------------------------------------------------------------------------
(* Steps several handlers share                                            *)

\* The caller of consumeOneTimeToken goes on in the name of l's owner.
Grants(l, p, n) ==
  redeemed' = [redeemed EXCEPT ![l.id] =
    Append(@, [owner |-> l.owner, purpose |-> p, binding |-> n])]

\* Mutant: expiry is left to the TTL monitor.
Redeems_Expired(l, p, n) ==
  l.purpose = p /\ l.binding = n /\ links' = links \ {l} /\ Grants(l, p, n)

\* findOneAndDelete of consumeOneTimeToken: purpose p and the cookie's nonce
\* n are the caller's, the user is the document's.
Redeems(l, p, n) ==
  /\ l.purpose = p /\ l.binding = n /\ ~Dead(l)
  /\ links' = links \ {l}
  /\ Grants(l, p, n)

\* Mutant: the older links are left alone.
Superseded_None(u, p) == {}

\* The user's links a new one replaces.
Superseded(u, p) == {l \in links : l.owner = u /\ l.purpose = p}

\* deleteMany of forgotPassword and sendVerificationEmail: one active link
\* per user and purpose.
ClearLinks(r) ==
  /\ At(r, "clearLinks")
  /\ links' = links \ Superseded(req[r].u, req[r].purpose)
  /\ Become(r, [req[r] EXCEPT !.pc = "createLink", !.since = lastLink])
  /\ UNCHANGED <<user, sessions, now, lastSession, lastLink, lastPassword,
                 redeemed, rotated, doubled, unrevoked>>

\* createOneTimeToken: 32 random bytes, so a token unlike every other.
CreateLink(r) ==
  /\ At(r, "createLink")
  /\ lastLink < MaxLinks
  /\ lastLink' = lastLink + 1
  /\ links' = links \cup
       {[id |-> lastLink + 1, owner |-> req[r].u, purpose |-> req[r].purpose,
         binding |-> req[r].nonce, since |-> req[r].since,
         expiresAt |-> now + LinkTTL[req[r].purpose]]}
  /\ IF req[r].op = "register" THEN Goto(r, "createSession") ELSE Finish(r)
  /\ UNCHANGED <<user, sessions, now, lastSession, lastPassword,
                 redeemed, rotated, doubled, unrevoked>>

\* createRefreshToken: the token is signed with the second it is made in.
CreateSession(r) ==
  /\ At(r, "createSession")
  /\ lastSession < MaxSessions
  /\ lastSession' = lastSession + 1
  /\ sessions' = sessions \cup
       {[id |-> lastSession + 1, owner |-> req[r].u, iat |-> now,
         password |-> req[r].password, late |-> req[r].late,
         root |-> IF req[r].op = "refresh" THEN req[r].root
                  ELSE lastSession + 1]}
  /\ Finish(r)
  /\ UNCHANGED <<user, links, now, lastLink, lastPassword,
                 redeemed, rotated, doubled, unrevoked>>

\* Mutant: the account is not looked at again.
FindUser_Unchecked(r) ==
  /\ At(r, "findUser")
  /\ Goto(r, "createSession")
  /\ UNCHANGED <<user, sessions, links, now, lastSession, lastLink,
                 lastPassword, redeemed, rotated, doubled, unrevoked>>

\* findByIdRaw, then the isActive test of refreshTokens and exchangeOAuthCode.
FindUser(r) ==
  /\ At(r, "findUser")
  /\ IF Live(req[r].u) THEN Goto(r, "createSession") ELSE Finish(r)
  /\ UNCHANGED <<user, sessions, links, now, lastSession, lastLink,
                 lastPassword, redeemed, rotated, doubled, unrevoked>>

\* Mutant: deleteOne where deleteMany is meant.
SessionsOf_One(u) ==
  {d \in sessions : d.owner = u /\ \A e \in sessions : e.owner = u => d.id <= e.id}

\* What deleteMany by user deletes.
SessionsOf(u) == {d \in sessions : d.owner = u}

\* revokeAllUserTokens, reached from resetPassword, findOrCreateGoogleUser
\* and logoutAllDevices.
RevokeAll(r) ==
  /\ At(r, "revokeAll")
  /\ sessions' = sessions \ SessionsOf(req[r].u)
  /\ unrevoked' = unrevoked \ {req[r].u}
  /\ RevokePassing(req[r].u, r,
                   IF req[r].op = "google"
                   THEN [req[r] EXCEPT !.pc = "createLink"] ELSE Idle)
  /\ UNCHANGED <<user, links, now, lastSession, lastLink, lastPassword,
                 redeemed, rotated, doubled>>

-----------------------------------------------------------------------------
(* register, login, refresh, logout                                        *)

\* usersService.create looks for the address first.
Register(r, u) ==
  /\ Calls(r, "register")
  /\ user[u].status = "new"
  /\ Become(r, Begun("register", "createUser", u))
  /\ UNCHANGED <<user, sessions, links, now, lastSession, lastLink,
                 lastPassword, redeemed, rotated, doubled, unrevoked>>

\* user.save(); the unique index on email refuses the second of two.
CreateUser(r) ==
  /\ At(r, "createUser")
  /\ IF user[req[r].u].status = "new"
     THEN /\ lastPassword < MaxPasswords
          /\ lastPassword' = lastPassword + 1
          /\ user' = [user EXCEPT ![req[r].u] = LocalAccount(lastPassword + 1)]
          /\ Become(r, [req[r] EXCEPT !.pc = "clearLinks",
                                      !.purpose = "email_verify",
                                      !.password = lastPassword + 1])
     ELSE Finish(r) /\ UNCHANGED <<user, lastPassword>>
  /\ UNCHANGED <<sessions, links, now, lastSession, lastLink,
                 redeemed, rotated, doubled, unrevoked>>

\* findByEmail with the password hash; bcrypt.compare and the isActive test
\* are on the document read here.  A refused login changes nothing.
Login(r, u) ==
  /\ Calls(r, "login")
  /\ Live(u) /\ user[u].password # NoPassword
  /\ Become(r, [Begun("login", "createSession", u)
                  EXCEPT !.password = user[u].password])
  /\ UNCHANGED <<user, sessions, links, now, lastSession, lastLink,
                 lastPassword, redeemed, rotated, doubled, unrevoked>>

\* refreshTokens, the findOne by user and token hash: of the documents with
\* the presented token's hash, one.
RefreshFind(r, d) ==
  /\ Calls(r, "refresh")
  /\ ~Expired(d)
  /\ Become(r, [Begun("refresh", "refreshDelete", d.owner)
                  EXCEPT !.doc = d.id, !.iat = d.iat, !.root = d.root,
                         !.password = d.password, !.late = d.late])
  /\ UNCHANGED <<user, sessions, links, now, lastSession, lastLink,
                 lastPassword, redeemed, rotated, doubled, unrevoked>>

\* Mutant: the old token is not deleted.
Rotated_Kept(r) == sessions

\* The collection without the token request r refreshes.
Rotated(r) == {d \in sessions : d.id # req[r].doc}

\* storedToken.deleteOne(): nobody looks at how many documents it deleted.
RefreshDelete(r) ==
  /\ At(r, "refreshDelete")
  /\ sessions' = Rotated(r)
  /\ rotated' = rotated \cup {req[r].doc}
  /\ doubled' = IF req[r].doc \in rotated
                THEN [doubled EXCEPT ![req[r].root] = @ + 1] ELSE doubled
  /\ Goto(r, "findUser")
  /\ UNCHANGED <<user, links, now, lastSession, lastLink, lastPassword,
                 redeemed, unrevoked>>

\* JwtAuthGuard lets a live account through; d's token is in the cookie.
Logout(r, d) ==
  /\ Calls(r, "logout")
  /\ Live(d.owner)
  /\ Become(r, [Begun("logout", "logoutDelete", d.owner) EXCEPT !.iat = d.iat])
  /\ UNCHANGED <<user, sessions, links, now, lastSession, lastLink,
                 lastPassword, redeemed, rotated, doubled, unrevoked>>

\* revokeRefreshToken: deleteOne by hash, that is one of the documents of
\* that owner and second, if there is one.
LogoutDelete(r) ==
  LET same == {d \in sessions : d.owner = req[r].u /\ d.iat = req[r].iat} IN
  /\ At(r, "logoutDelete")
  /\ IF same = {} THEN UNCHANGED sessions
     ELSE \E d \in same : sessions' = sessions \ {d}
  /\ Finish(r)
  /\ UNCHANGED <<user, links, now, lastSession, lastLink, lastPassword,
                 redeemed, rotated, doubled, unrevoked>>

LogoutAll(r, u) ==
  /\ Calls(r, "logoutAll")
  /\ Live(u)
  /\ Become(r, Begun("logoutAll", "revokeAll", u))
  /\ UNCHANGED <<user, sessions, links, now, lastSession, lastLink,
                 lastPassword, redeemed, rotated, doubled, unrevoked>>

-----------------------------------------------------------------------------
(* Emailed links: password reset and address verification                  *)

\* forgotPassword, the findByEmail.
Forgot(r, u) ==
  /\ Calls(r, "forgot")
  /\ Live(u)
  /\ Become(r, [Begun("forgot", "clearLinks", u)
                  EXCEPT !.purpose = "password_reset"])
  /\ UNCHANGED <<user, sessions, links, now, lastSession, lastLink,
                 lastPassword, redeemed, rotated, doubled, unrevoked>>

\* resendVerificationEmail decides on the document the guard loaded.
Resend(r, u) ==
  /\ Calls(r, "resend")
  /\ Live(u) /\ ~user[u].verified
  /\ Become(r, [Begun("resend", "clearLinks", u)
                  EXCEPT !.purpose = "email_verify"])
  /\ UNCHANGED <<user, sessions, links, now, lastSession, lastLink,
                 lastPassword, redeemed, rotated, doubled, unrevoked>>

Reset(r, l) ==
  /\ Calls(r, "reset")
  /\ Redeems(l, "password_reset", NoNonce)
  /\ Become(r, Begun("reset", "setPassword", l.owner))
  /\ UNCHANGED <<user, sessions, now, lastSession, lastLink, lastPassword,
                 rotated, doubled, unrevoked>>

\* usersService.setPassword: the link proved the inbox, so it verifies too.
\* An account deleted meanwhile is not written.
SetPassword(r) ==
  /\ At(r, "setPassword")
  /\ IF user[req[r].u].status = "present"
     THEN /\ lastPassword < MaxPasswords
          /\ lastPassword' = lastPassword + 1
          /\ user' = [user EXCEPT ![req[r].u].password = lastPassword + 1,
                                  ![req[r].u].verified = TRUE]
     ELSE UNCHANGED <<user, lastPassword>>
  /\ Goto(r, "revokeAll")
  /\ UNCHANGED <<sessions, links, now, lastSession, lastLink,
                 redeemed, rotated, doubled, unrevoked>>

Verify(r, l) ==
  /\ Calls(r, "verify")
  /\ Redeems(l, "email_verify", NoNonce)
  /\ Become(r, Begun("verify", "markVerified", l.owner))
  /\ UNCHANGED <<user, sessions, now, lastSession, lastLink, lastPassword,
                 rotated, doubled, unrevoked>>

MarkVerified(r) ==
  /\ At(r, "markVerified")
  /\ IF user[req[r].u].status = "present"
     THEN user' = [user EXCEPT ![req[r].u].verified = TRUE]
     ELSE UNCHANGED user
  /\ Finish(r)
  /\ UNCHANGED <<sessions, links, now, lastSession, lastLink, lastPassword,
                 redeemed, rotated, doubled, unrevoked>>

-----------------------------------------------------------------------------
(* Google sign-in: callback, then the exchange of the one-time code        *)

\* findOne by googleId; vouched is Google's own flag for the address.  The
\* nonce n came back in state.  A deactivated account is refused.
Google(r, u, n, vouched) ==
  /\ Calls(r, "google")
  /\ IF user[u].status = "present" /\ user[u].google
     THEN /\ user[u].active
          /\ Become(r, [Begun("google", "createLink", u) EXCEPT !.nonce = n])
     ELSE /\ vouched
          /\ Become(r, [Begun("google", "googleByEmail", u) EXCEPT !.nonce = n])
  /\ UNCHANGED <<user, sessions, links, now, lastSession, lastLink,
                 lastPassword, redeemed, rotated, doubled, unrevoked>>

\* findOne by address; what it read decides what save() will write.
GoogleByEmail(r) ==
  LET a == user[req[r].u] IN
  /\ At(r, "googleByEmail")
  /\ IF a.status = "present"
     THEN Become(r, [req[r] EXCEPT !.pc = "googleSave",
                                   !.trusted = a.verified,
                                   !.active = a.active])
     ELSE Goto(r, "googleCreate")
  /\ UNCHANGED <<user, sessions, links, now, lastSession, lastLink,
                 lastPassword, redeemed, rotated, doubled, unrevoked>>

\* Mutant: the sessions of the password that was removed are not ended.
AfterLink_Kept(q) == "createLink"

\* Linking Google to an unverified account ends its sessions first.
AfterLink(q) == IF q.trusted THEN "createLink" ELSE "revokeAll"

\* user.save() writes the changed paths only: googleId and emailVerified, and
\* the removal of the password when the document read was unverified.  Then
\* findOrCreateGoogleUser tests isActive of that document, and only after
\* that ends the old sessions.
GoogleSave(r) ==
  LET q == req[r] IN
  /\ At(r, "googleSave")
  /\ IF user[q.u].status = "present"
     THEN /\ user' = [user EXCEPT
               ![q.u].google = TRUE, ![q.u].verified = TRUE,
               ![q.u].password = IF q.trusted THEN @ ELSE NoPassword]
          /\ unrevoked' = IF ~q.active /\ ~q.trusted
                          THEN unrevoked \cup {q.u} ELSE unrevoked
          /\ IF ~q.active THEN Finish(r)
             ELSE Goto(r, AfterLink(q))
     ELSE Finish(r) /\ UNCHANGED <<user, unrevoked>>
  /\ UNCHANGED <<sessions, links, now, lastSession, lastLink, lastPassword,
                 redeemed, rotated, doubled>>

\* userModel.create for a new address, refused by the unique index if another
\* request was first.
GoogleCreate(r) ==
  /\ At(r, "googleCreate")
  /\ IF user[req[r].u].status = "new"
     THEN /\ user' = [user EXCEPT ![req[r].u] =
                        [LocalAccount(NoPassword) EXCEPT !.verified = TRUE,
                                                         !.google = TRUE]]
          /\ Goto(r, "createLink")
     ELSE Finish(r) /\ UNCHANGED user
  /\ UNCHANGED <<sessions, links, now, lastSession, lastLink, lastPassword,
                 redeemed, rotated, doubled, unrevoked>>

\* exchangeOAuthCode: n is the cookie of the browser that presents the code.
Exchange(r, l, n) ==
  /\ Calls(r, "exchange")
  /\ Redeems(l, "oauth_code", n)
  /\ Become(r, Begun("exchange", "findUser", l.owner))
  /\ UNCHANGED <<user, sessions, now, lastSession, lastLink, lastPassword,
                 rotated, doubled, unrevoked>>

-----------------------------------------------------------------------------
(* Moderation and account deletion                                         *)

\* admin.service deactivateUser: one update, no session is touched.
Deactivate(u) ==
  /\ "moderate" \in Handlers
  /\ Live(u)
  /\ user' = [user EXCEPT ![u].active = FALSE]
  /\ req' = [x \in Requests |-> PassedBy(x, u)]
  /\ UNCHANGED <<sessions, links, now, lastSession, lastLink, lastPassword,
                 redeemed, rotated, doubled, unrevoked>>

Activate(u) ==
  /\ "moderate" \in Handlers
  /\ user[u].status = "present" /\ ~user[u].active
  /\ user' = [user EXCEPT ![u].active = TRUE]
  /\ UNCHANGED <<sessions, links, req, now, lastSession, lastLink,
                 lastPassword, redeemed, rotated, doubled, unrevoked>>

\* deleteAccount, the guard of its route.
Delete(r, u) ==
  /\ Calls(r, "delete")
  /\ Live(u)
  /\ Become(r, Begun("delete", "deleteCheck", u))
  /\ UNCHANGED <<user, sessions, links, now, lastSession, lastLink,
                 lastPassword, redeemed, rotated, doubled, unrevoked>>

\* findById with the hash, and bcrypt.compare with the password given.
DeleteCheck(r) ==
  /\ At(r, "deleteCheck")
  /\ \/ /\ user[req[r].u].status = "present"
        /\ user[req[r].u].password # NoPassword
        /\ Goto(r, "deleteSessions")
     \/ Finish(r)
  /\ UNCHANGED <<user, sessions, links, now, lastSession, lastLink,
                 lastPassword, redeemed, rotated, doubled, unrevoked>>

DeleteSessions(r) ==
  /\ At(r, "deleteSessions")
  /\ sessions' = sessions \ SessionsOf(req[r].u)
  /\ unrevoked' = unrevoked \ {req[r].u}
  /\ RevokePassing(req[r].u, r, [req[r] EXCEPT !.pc = "deleteUser"])
  /\ UNCHANGED <<user, links, now, lastSession, lastLink, lastPassword,
                 redeemed, rotated, doubled>>

\* The user document goes last; one-time tokens stay until they expire.
DeleteUser(r) ==
  /\ At(r, "deleteUser")
  /\ user' = [user EXCEPT ![req[r].u] = [NewAccount EXCEPT !.status = "deleted"]]
  /\ req' = [x \in Requests |-> IF x = r THEN Idle ELSE PassedBy(x, req[r].u)]
  /\ UNCHANGED <<sessions, links, now, lastSession, lastLink, lastPassword,
                 redeemed, rotated, doubled, unrevoked>>

-----------------------------------------------------------------------------
(* Time, MongoDB's TTL monitor, lost requests                              *)

Tick ==
  /\ now < MaxClock
  /\ now' = now + 1
  /\ UNCHANGED <<user, sessions, links, req, lastSession, lastLink,
                 lastPassword, redeemed, rotated, doubled, unrevoked>>

\* The monitor runs about every 60 seconds: an expired document may stay.
ReapSession(d) ==
  /\ Expired(d)
  /\ sessions' = sessions \ {d}
  /\ UNCHANGED <<user, links, req, now, lastSession, lastLink, lastPassword,
                 redeemed, rotated, doubled, unrevoked>>

ReapLink(l) ==
  /\ Dead(l)
  /\ links' = links \ {l}
  /\ UNCHANGED <<user, sessions, req, now, lastSession, lastLink,
                 lastPassword, redeemed, rotated, doubled, unrevoked>>

\* The process is frozen or killed, or the database call fails: the rest of
\* the handler never runs and nothing already written is undone.
Crash(r) ==
  /\ ~At(r, "idle")
  /\ unrevoked' = IF At(r, "revokeAll") /\ req[r].op # "logoutAll"
                  THEN unrevoked \cup {req[r].u} ELSE unrevoked
  /\ Finish(r)
  /\ UNCHANGED <<user, sessions, links, now, lastSession, lastLink,
                 lastPassword, redeemed, rotated, doubled>>

-----------------------------------------------------------------------------
\* The service starts over a database that may hold accounts, nobody is
\* logged in and no link is out.
Init ==
  /\ user \in [Users -> {NewAccount, LocalAccount(1),
                         [LocalAccount(1) EXCEPT !.verified = TRUE]}]
  /\ sessions = {} /\ links = {}
  /\ req = [r \in Requests |-> Idle]
  /\ now = 0 /\ lastSession = 0 /\ lastLink = 0 /\ lastPassword = 1
  /\ redeemed = [i \in LinkIds |-> <<>>]
  /\ rotated = {}
  /\ doubled = [i \in SessionIds |-> 0]
  /\ unrevoked = {}

\* A client's call, up to its first database access.
Call(r) ==
  \/ \E u \in Users : \/ Register(r, u) \/ Login(r, u) \/ LogoutAll(r, u)
                      \/ Forgot(r, u) \/ Resend(r, u) \/ Delete(r, u)
                      \/ \E n \in Nonces, v \in BOOLEAN : Google(r, u, n, v)
  \/ \E d \in sessions : RefreshFind(r, d) \/ Logout(r, d)
  \/ \E l \in links : \/ Reset(r, l) \/ Verify(r, l)
                      \/ \E n \in Nonces : Exchange(r, l, n)

\* A request in progress makes its next database call.
Continue(r) ==
  \/ CreateUser(r) \/ ClearLinks(r) \/ CreateLink(r) \/ CreateSession(r)
  \/ RefreshDelete(r) \/ FindUser(r) \/ LogoutDelete(r) \/ RevokeAll(r)
  \/ SetPassword(r) \/ MarkVerified(r)
  \/ GoogleByEmail(r) \/ GoogleSave(r) \/ GoogleCreate(r)
  \/ DeleteCheck(r) \/ DeleteSessions(r) \/ DeleteUser(r)

Environment ==
  \/ \E u \in Users : Deactivate(u) \/ Activate(u)
  \/ \E d \in sessions : ReapSession(d)
  \/ \E l \in links : ReapLink(l)
  \/ Tick

Next == \/ \E r \in Requests : Call(r) \/ Continue(r) \/ Crash(r)
        \/ Environment

Spec == Init /\ [][Next]_vars

-----------------------------------------------------------------------------
(* Properties                                                              *)

\* Type invariant of the collections and of the requests in progress.
StoreOK ==
  /\ user \in [Users -> Account]
  /\ sessions \in SUBSET Session
  /\ links \in SUBSET Link
  /\ now \in Nat /\ lastSession \in 0 .. MaxSessions
  /\ lastLink \in 0 .. MaxLinks /\ lastPassword \in Passwords
  /\ redeemed \in [LinkIds -> Seq(Right)]
  /\ rotated \in SUBSET SessionIds
  /\ doubled \in [SessionIds -> Nat]
  /\ unrevoked \in SUBSET Users

\* A refresh knows the token it was given.
KnowsToken(q) == q.op = "refresh" \/ q.pc = "refreshDelete" =>
                   q.doc \in SessionIds /\ q.root \in SessionIds

RequestsOK ==
  /\ req \in [Requests -> Request]
  /\ \A r \in Requests : KnowsToken(req[r])

TypeOK == StoreOK /\ RequestsOK

\* The database calls each handler makes, in some order.
OnPath(q) ==
  \/ q.op = "none" /\ q.pc = "idle"
  \/ q.op = "register" /\ q.pc \in {"createUser", "clearLinks", "createLink",
                                   "createSession"}
  \/ q.op = "login" /\ q.pc = "createSession"
  \/ q.op = "refresh" /\ q.pc \in {"refreshDelete", "findUser", "createSession"}
  \/ q.op = "logout" /\ q.pc = "logoutDelete"
  \/ q.op = "logoutAll" /\ q.pc = "revokeAll"
  \/ q.op \in {"forgot", "resend"} /\ q.pc \in {"clearLinks", "createLink"}
  \/ q.op = "reset" /\ q.pc \in {"setPassword", "revokeAll"}
  \/ q.op = "verify" /\ q.pc = "markVerified"
  \/ /\ q.op = "google" /\ q.purpose = "oauth_code"
     /\ q.pc \in {"googleByEmail", "googleSave", "googleCreate", "revokeAll",
                  "createLink"}
  \/ q.op = "exchange" /\ q.pc \in {"findUser", "createSession"}
  \/ q.op = "delete" /\ q.pc \in {"deleteCheck", "deleteSessions", "deleteUser"}

ControlOK == \A r \in Requests : OnPath(req[r])

\* A session opened with a password that is no longer its owner's.
Outdated(d) == /\ d.password # NoPassword
               /\ user[d.owner].status = "present"
               /\ user[d.owner].password # d.password

\* resetPassword and the Google link of an unverified account end every
\* session of the old password (auth.service.ts:100 and :266).  A session of
\* an old password exists only while that revocation is still to come, after
\* its request was lost or refused in between, or if it was being made by a
\* request that had passed its checks before the revocation ran.
OldPasswordSessionsEnd ==
  \A d \in sessions : Outdated(d) =>
    \/ d.late
    \/ d.owner \in unrevoked
    \/ \E r \in Requests : At(r, "revokeAll") /\ req[r].u = d.owner

\* A login, refresh, registration or code exchange that is about to open a
\* session for a deactivated or deleted account was past its check of the
\* account when the account was closed (auth.service.ts:146).
NoSessionForClosedAccount ==
  \A r \in Requests :
    At(r, "createSession") /\ ~Live(req[r].u) => req[r].closed

\* Two reset links, or two verification links, of one user are stored at one
\* time only if their requests overlapped: the one that stored the later link
\* had cleared the user's links before the earlier one was stored
\* (auth.service.ts:196 and :218).
LinksOverlapOnlyByRace ==
  \A a, b \in links :
    /\ a.owner = b.owner /\ a.purpose = b.purpose
    /\ a.purpose # "oauth_code" /\ a.id < b.id
    => b.since < a.id

\* What one login may grow into: the live refresh tokens of its chain and the
\* requests on the way to adding one are never more than one, plus one for
\* every refresh that used a token some other refresh had used
\* (auth.service.ts:140).
ChainLength(k) ==
  LET Holds(q) == q.op = "refresh" /\ q.root = k
                  /\ q.pc \in {"findUser", "createSession"}
  IN Cardinality({d \in sessions : d.root = k})
     + Cardinality({r \in Requests : Holds(req[r])})

RefreshChainsDoNotGrow ==
  \A k \in SessionIds : ChainLength(k) <= 1 + doubled[k]

-----------------------------------------------------------------------------
(* The one-time token collection keeps the promise of module SingleUse:    *)
(* a document past its expiresAt is a retired token, whether or not the    *)
(* TTL monitor has removed it.                                             *)

NoRight == [owner |-> "none", purpose |-> "none", binding |-> NoNonce]

RightOf(l) == [owner |-> l.owner, purpose |-> l.purpose, binding |-> l.binding]

Usable(i) == {l \in links : l.id = i /\ ~Dead(l)}

usableLinks == [i \in LinkIds |->
                  IF Usable(i) = {} THEN NoRight
                  ELSE RightOf(CHOOSE l \in Usable(i) : TRUE)]

LinkStore == INSTANCE SingleUse
               WITH Tokens <- LinkIds, Rights <- Right, NoRight <- NoRight,
                    issued <- 1 .. lastLink, usable <- usableLinks,
                    granted <- redeemed

\* A one-time token grants what it was stored for, to whom it was stored for,
\* in the browser it is bound to, before it expires, and at most once: every
\* step of the service is a step of the abstract store
\* (auth.service.ts:363).
OneTimeTokensAreSingleUse == LinkStore!SUSpec

=============================================================================
