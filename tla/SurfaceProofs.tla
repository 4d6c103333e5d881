------------------------------ MODULE SurfaceProofs ------------------------------
(***************************************************************************)
(* What callers meet keeps its promises, whatever the number of accounts,  *)
(* things, documents, processes, addresses and requests.  The five parts   *)
(* of module Surface are proved about one after the other, each by its own *)
(* invariant; then they are put side by side.                              *)
(***************************************************************************)
EXTENDS Surface, SequencesExt, FiniteSetTheorems, SequenceTheorems, TLAPS

-----------------------------------------------------------------------------
(* Access: the endpoints, one by one                                       *)

\* The guards of endpoint e keep out whoever is not granted its operation, or
\* leave that to a handler that asks for the owner.
AccessGuarded(e) ==
  /\ e.guards \subseteq {"jwt", "optional", "verified", "admin", "secret"}
  /\ e.op = "publishScheduled" => "secret" \in e.guards
  /\ e.op \in ConfirmedOps => {"jwt", "verified"} \subseteq e.guards
  /\ e.op \in AdminOps \cup CategoryOps => {"jwt", "admin"} \subseteq e.guards
  /\ \/ e.op \in OpenOps \cup {"publishScheduled"} \cup OfAuthorOrAdmin
     \/ "jwt" \in e.guards

LEMMA AccessPostsGuarded == \A e \in PostsRest \cup PostsGql : AccessGuarded(e)
<1> USE DEF AccessGuarded, E, Open, Secret, Optional, Jwt, Verified, AdminOnly,
        ConfirmedOps, AdminOps, CategoryOps, OpenOps, OfAuthorOrAdmin
<1>1. \A e \in PostsRest : AccessGuarded(e)
  BY DEF PostsRest
<1>2. \A e \in PostsGql : AccessGuarded(e)
  BY DEF PostsGql
<1> QED BY <1>1, <1>2

LEMMA AccessCommentsGuarded == \A e \in CommentsRest \cup CommentsGql : AccessGuarded(e)
BY DEF CommentsRest, CommentsGql, AccessGuarded, E, Open, Jwt, Verified,
       ConfirmedOps, AdminOps, CategoryOps, OpenOps, OfAuthorOrAdmin

LEMMA AccessAdminGuarded == \A e \in AdminRest \cup AdminGql \cup Reporting : AccessGuarded(e)
BY DEF AdminRest, AdminGql, Reporting, AccessGuarded, E, Jwt, AdminOnly,
       ConfirmedOps, AdminOps, CategoryOps, OpenOps, OfAuthorOrAdmin

LEMMA AccessShelvesGuarded ==
  \A e \in CategoriesRest \cup CategoriesGql \cup SeriesGql : AccessGuarded(e)
BY DEF CategoriesRest, CategoriesGql, SeriesGql, AccessGuarded, E, Open, Jwt, AdminOnly,
       ConfirmedOps, AdminOps, CategoryOps, OpenOps, OfAuthorOrAdmin

LEMMA AccessEngagementGuarded ==
  \A e \in BookmarksRest \cup BookmarksGql \cup FollowsRest \cup FollowsGql
           \cup ReactionsRest \cup ReactionsGql
           \cup NotificationsRest \cup NotificationsGql : AccessGuarded(e)
BY DEF BookmarksRest, BookmarksGql, FollowsRest, FollowsGql, ReactionsRest, ReactionsGql,
       NotificationsRest, NotificationsGql, AccessGuarded, E, Open, Optional, Jwt,
       ConfirmedOps, AdminOps, CategoryOps, OpenOps, OfAuthorOrAdmin

LEMMA AccessUsersGuarded ==
  \A e \in UsersRest \cup UsersGql \cup AccountRest \cup AccountGql : AccessGuarded(e)
BY DEF UsersRest, UsersGql, AccountRest, AccountGql, AccessGuarded, E, Open, Jwt, Verified,
       ConfirmedOps, AdminOps, CategoryOps, OpenOps, OfAuthorOrAdmin

LEMMA AccessAuthGuarded == \A e \in AuthRest \cup AuthGql : AccessGuarded(e)
BY DEF AuthRest, AuthGql, AccessGuarded, E, Open, Jwt,
       ConfirmedOps, AdminOps, CategoryOps, OpenOps, OfAuthorOrAdmin

LEMMA AccessSitesGuarded ==
  \A e \in AiGql \cup NewsletterRest \cup NewsletterGql \cup SearchRest \cup SearchGql
           \cup SitePages : AccessGuarded(e)
BY DEF AiGql, NewsletterRest, NewsletterGql, SearchRest, SearchGql, SitePages,
       AccessGuarded, E, Open, Verified,
       ConfirmedOps, AdminOps, CategoryOps, OpenOps, OfAuthorOrAdmin

\* docs/DECISIONS.md:46: no endpoint, of either door, lacks a guard.
THEOREM EndpointsGuarded == \A e \in Endpoints : AccessGuarded(e)
BY AccessPostsGuarded, AccessCommentsGuarded, AccessAdminGuarded, AccessShelvesGuarded,
   AccessEngagementGuarded,
   AccessUsersGuarded, AccessAuthGuarded, AccessSitesGuarded DEF Endpoints

\* The same of what a request remembers of its endpoint.
AccessSound(k) ==
  /\ k.grant = "trigger" => "secret" \in k.guards
  /\ k.grant = "confirmed" => "verified" \in k.guards
  /\ k.grant = "admin" => "admin" \in k.guards
  /\ k.grant \in {"member", "confirmed", "admin"} =>
       "jwt" \in k.guards \/ k.asks = "authorOrAdmin"

LEMMA AccessKindsSound == \A k \in Kinds : k \in Kind /\ AccessSound(k)
<1> SUFFICES ASSUME NEW e \in Endpoints PROVE KindOf(e) \in Kind /\ AccessSound(KindOf(e))
  BY DEF Kinds
<1>1. AccessGuarded(e)
  BY EndpointsGuarded
<1>2. /\ Grant(e.op) \in {"open", "trigger", "member", "confirmed", "admin"}
      /\ Grant(e.op) = "trigger" => e.op = "publishScheduled"
      /\ Grant(e.op) = "confirmed" => e.op \in ConfirmedOps
      /\ Grant(e.op) = "admin" => e.op \in AdminOps \cup CategoryOps
      /\ Grant(e.op) # "open" => e.op \notin OpenOps
      /\ e.op = "publishScheduled" => Grant(e.op) \in {"open", "trigger"}
  <2> DEFINE o == e.op
             c == o \in ConfirmedOps
             a == o \in AdminOps \cup CategoryOps
             f == o \in OpenOps
  <2>1. Grant(o) = CASE f -> "open"
                     [] o = "publishScheduled" -> "trigger"
                     [] c -> "confirmed"
                     [] a -> "admin"
                     [] OTHER -> "member"
    BY DEF Grant
  <2>2. c => ~f /\ o # "publishScheduled" /\ ~a
    BY DEF ConfirmedOps, OpenOps, AdminOps, CategoryOps
  <2>3. a => ~f /\ o # "publishScheduled"
    BY DEF OpenOps, AdminOps, CategoryOps
  <2>4. f => o # "publishScheduled"
    BY DEF OpenOps
  <2> HIDE DEF o, c, a, f
  <2>5. /\ Grant(o) \in {"open", "trigger", "member", "confirmed", "admin"}
        /\ Grant(o) = "trigger" => o = "publishScheduled"
        /\ Grant(o) = "confirmed" => c
        /\ Grant(o) = "admin" => a
        /\ Grant(o) # "open" => ~f
        /\ o = "publishScheduled" => Grant(o) \in {"open", "trigger"}
    BY <2>1, <2>2, <2>3, <2>4
  <2> QED BY <2>5 DEF o, c, a, f
<1> DEFINE k == KindOf(e)
<1>3. /\ k.guards = e.guards /\ k.grant = Grant(e.op)
      /\ k.asks \in {"nothing", "author", "authorOrAdmin"}
      /\ e.op \in OfAuthorOrAdmin => k.asks = "authorOrAdmin"
      /\ k.does \in Moderations \cup {"deleteAccount", "other"}
      /\ k \in [guards : {k.guards}, asks : {k.asks}, does : {k.does}, grant : {k.grant}]
  <2>1. e.op \in OfAuthorOrAdmin => e.op \notin OfAuthor
    BY DEF OfAuthor, OfAuthorOrAdmin
  <2> QED BY <2>1 DEF KindOf
<1> HIDE DEF k
<1>4. k \in Kind
  BY <1>1, <1>2, <1>3 DEF Kind, AccessGuarded
<1>5. AccessSound(k)
  BY <1>1, <1>2, <1>3 DEF AccessSound, AccessGuarded
<1> QED BY <1>4, <1>5 DEF k

-----------------------------------------------------------------------------
(* Access: the invariant                                                   *)

\* A request in progress was remembered as entitled if it is now, and so was
\* one its handler would let through.
AccessRemembers(r) == LET q == req[r] IN q.pc # "idle" =>
  /\ AccessSound(q.kind)
  /\ Entitled(q, account) => q.entitled
  /\ q.pc = "admitted" /\ Permits(q) => q.entitled

AccessInv == TypeOK /\ NothingWithoutRight /\ \A r \in Requests : AccessRemembers(r)

LEMMA AccessIdleIsRequest == Idle \in Request
BY DEF Idle, Request, PCs, NoKind, Kind, Callers, NoAccount, Account

\* What a request is told about accounts keeps it well formed and remembering.
LEMMA AccessTelling ==
  ASSUME AccessInv, NEW x \in Requests, req'[x] = Told(req[x], account')
  PROVE  req'[x] \in Request /\ AccessRemembers(x)'
<1> DEFINE q == req[x]
<1>1. q \in Request /\ AccessRemembers(x)
  BY DEF AccessInv, TypeOK
<1>2. CASE q.pc = "idle"
  BY <1>1, <1>2 DEF Told, AccessRemembers
<1>3. CASE q.pc # "idle"
  <2> DEFINE e == q.entitled \/ Entitled(q, account')
             n == [q EXCEPT !.entitled = e]
  <2>1. req'[x] = n
    BY <1>3 DEF Told
  <2>2. e \in BOOLEAN
    BY <1>1 DEF Request
  <2>3. n \in Request /\ n.entitled = e /\ n.pc = q.pc /\ n.kind = q.kind
        /\ n.caller = q.caller /\ n.copy = q.copy /\ n.thing = q.thing
    BY <1>1, <2>2 DEF Request
  <2>4. Entitled(n, account') = Entitled(q, account') /\ Permits(n) = Permits(q)
    BY <2>3 DEF Entitled, Permits, Owns
  <2> HIDE DEF e, n
  <2>5. AccessRemembers(x)'
    <3>1. (Permits(req[x]))' <=> Permits(n)
      BY <2>1 DEF Permits, Owns
    <3>2. (Entitled(req[x], account))' <=> Entitled(n, account')
      BY <2>1 DEF Entitled
    <3> QED BY <1>1, <1>3, <2>1, <2>3, <2>4, <3>1, <3>2 DEF AccessRemembers, e
  <2> QED BY <2>1, <2>3, <2>5
<1> QED BY <1>2, <1>3

\* A step of request r that leaves it well formed and remembering does so to
\* all of them.
LEMMA AccessBecoming ==
  ASSUME AccessInv, NEW r \in Requests, NEW q \in Request, Become(r, q),
         account' \in [Users -> Account], overreach' = FALSE,
         q.pc # "idle" => /\ AccessSound(q.kind)
                          /\ Entitled(q, account') => q.entitled
                          /\ q.pc = "admitted" /\ Permits(q) => q.entitled
  PROVE  AccessInv'
<1>1. req' = [x \in Requests |-> IF x = r THEN q ELSE Told(req[x], account')]
  BY DEF Become
<1>2. ASSUME NEW x \in Requests PROVE req'[x] \in Request /\ AccessRemembers(x)'
  <2>1. CASE x = r
    <3>1. req'[x] = q
      BY <1>1, <2>1
    <3>2. (Permits(req[x]))' <=> Permits(q)
      BY <3>1 DEF Permits, Owns
    <3>3. (Entitled(req[x], account))' <=> Entitled(q, account')
      BY <3>1 DEF Entitled
    <3> QED BY <3>1, <3>2, <3>3 DEF AccessRemembers
  <2>2. CASE x # r
    BY <1>1, <2>2, AccessTelling
  <2> QED BY <2>1, <2>2
<1>3. TypeOK'
  BY <1>1, <1>2 DEF TypeOK
<1> QED BY <1>2, <1>3 DEF AccessInv, NothingWithoutRight

-----------------------------------------------------------------------------
(* Access: the steps                                                       *)

LEMMA AccessInitInv == Init => AccessInv
<1> SUFFICES ASSUME Init PROVE AccessInv
  OBVIOUS
<1>1. TypeOK
  BY AccessIdleIsRequest DEF Init, TypeOK
<1>2. \A r \in Requests : AccessRemembers(r)
  <2>1. Idle.pc = "idle"
    BY DEF Idle
  <2> QED BY <2>1 DEF Init, AccessRemembers
<1>3. NothingWithoutRight
  BY DEF Init, NothingWithoutRight
<1> QED BY <1>1, <1>2, <1>3 DEF AccessInv

LEMMA AccessArriveInv ==
  ASSUME AccessInv, NEW r \in Requests, NEW k \in Kinds, NEW c \in Callers,
         NEW t \in Things \cup {NoOne}, NEW u \in Users \cup {NoOne}, Arrive(r, k, c, t, u)
  PROVE  AccessInv'
<1> DEFINE q == [Idle EXCEPT !.pc = "arrived", !.kind = k, !.caller = c, !.thing = t,
                   !.user = u]
           e == Entitled(q, account)
           n == [q EXCEPT !.entitled = e]
<1>1. k \in Kind /\ AccessSound(k)
  BY AccessKindsSound
<1>2. q \in Request /\ q.pc = "arrived" /\ q.kind = k
  BY <1>1, AccessIdleIsRequest DEF Request, PCs
<1>3. e \in BOOLEAN
  BY DEF Entitled
<1>4. Become(r, n) /\ UNCHANGED <<account, overreach>>
  BY DEF Arrive
<1> HIDE DEF q
<1>5. n \in Request /\ n.entitled = e /\ n.pc = "arrived" /\ n.kind = k
      /\ n.caller = q.caller /\ n.thing = q.thing
  BY <1>2, <1>3 DEF Request
<1>6. Entitled(n, account) = Entitled(q, account)
  BY <1>2, <1>5 DEF Entitled
<1> HIDE DEF e, n
<1>7. Entitled(n, account') => n.entitled
  BY <1>4, <1>5, <1>6 DEF e
<1>8. account' \in [Users -> Account] /\ overreach' = FALSE
  BY <1>4 DEF AccessInv, TypeOK, NothingWithoutRight
<1> QED BY <1>1, <1>4, <1>5, <1>7, <1>8, AccessBecoming

\* Whom the guards admit and the handler lets through is entitled at the
\* moment the account is read.
LEMMA AccessAdmittedIsEntitled ==
  ASSUME AccessInv, NEW q \in Request, AccessSound(q.kind),
         NEW copy \in {Validate(q.caller), NoAccount},
         q.copy = copy, Admits(q, copy), Permits(q)
  PROVE  Entitled(q, account)
<1>1. /\ q.kind \in Kind /\ q.caller \in Callers /\ copy \in Account
      /\ copy.there => q.caller \in Users /\ Fit(account[q.caller])
                       /\ copy = account[q.caller]
      /\ copy.admin => copy.there
  BY DEF Request, Validate, NoAccount, Fit, Account, AccessInv, TypeOK
<1>2. CASE q.kind.grant = "open"
  BY <1>2 DEF Entitled
<1>3. CASE q.kind.grant = "trigger"
  BY <1>3 DEF Entitled, AccessSound, Admits
<1>4. CASE q.kind.grant \in {"member", "confirmed", "admin"}
  <2>1. copy.there
    BY <1>1, <1>4 DEF AccessSound, Admits, Permits, Owns
  <2>2. q.kind.grant = "confirmed" => copy.verified
    BY DEF AccessSound, Admits
  <2>3. q.kind.grant = "admin" => copy.admin
    BY DEF AccessSound, Admits
  <2>4. /\ q.kind.asks = "author" => OwnerOf[q.thing] = q.caller
        /\ q.kind.asks = "authorOrAdmin" => OwnerOf[q.thing] = q.caller \/ copy.admin
    BY DEF Permits, Owns
  <2> QED BY <1>1, <1>4, <2>1, <2>2, <2>3, <2>4 DEF Entitled
<1> QED BY <1>1, <1>2, <1>3, <1>4 DEF Kind

LEMMA AccessAuthenticateInv ==
  ASSUME AccessInv, NEW r \in Requests, Authenticate(r) PROVE AccessInv'
<1> DEFINE q == req[r]
           copy == IF q.kind.guards \cap {"jwt", "optional"} # {} THEN Validate(q.caller)
                   ELSE NoAccount
           n == [q EXCEPT !.pc = "admitted", !.copy = copy]
<1>1. q \in Request /\ q.pc = "arrived" /\ AccessRemembers(r)
  BY DEF AccessInv, TypeOK, Authenticate, At
<1>2. /\ Become(r, IF Admits(q, copy) THEN n ELSE Idle)
      /\ UNCHANGED <<account, overreach>>
  BY DEF Authenticate
<1>3. copy \in {Validate(q.caller), NoAccount} /\ copy \in Account
  BY DEF Validate, NoAccount, Account, Fit, AccessInv, TypeOK
<1>4. account' \in [Users -> Account] /\ overreach' = FALSE
  BY <1>2 DEF AccessInv, TypeOK, NothingWithoutRight
<1> HIDE DEF q, copy
<1>5. /\ n \in Request /\ n.pc = "admitted" /\ n.kind = q.kind /\ n.caller = q.caller
      /\ n.copy = copy /\ n.thing = q.thing /\ n.entitled = q.entitled
  BY <1>1, <1>3 DEF Request, PCs
<1> HIDE DEF n
<1>6. CASE Admits(q, copy)
  <2>1. AccessSound(n.kind) /\ (Entitled(q, account) => q.entitled)
    BY <1>1, <1>5 DEF AccessRemembers, q
  <2>2. Entitled(n, account) <=> Entitled(q, account)
    BY <1>5 DEF Entitled
  <2>3. Permits(n) => Entitled(n, account)
    <3>1. Admits(n, copy)
      BY <1>5, <1>6 DEF Admits
    <3> QED BY <1>3, <1>5, <2>1, <3>1, AccessAdmittedIsEntitled
  <2>4. Entitled(n, account') => n.entitled
    BY <1>2, <1>5, <2>1, <2>2
  <2>5. Permits(n) => n.entitled
    BY <1>5, <2>1, <2>2, <2>3
  <2>6. Become(r, n)
    BY <1>2, <1>6
  <2> QED BY <1>4, <1>5, <2>1, <2>4, <2>5, <2>6, AccessBecoming
<1>7. CASE ~Admits(q, copy)
  <2>1. Become(r, Idle) /\ Idle.pc = "idle"
    BY <1>2, <1>7 DEF Idle
  <2> QED BY <1>4, <2>1, AccessIdleIsRequest, AccessBecoming
<1> QED BY <1>6, <1>7

LEMMA AccessHandleInv ==
  ASSUME AccessInv, NEW r \in Requests, Handle(r) PROVE AccessInv'
<1> DEFINE q == req[r]
<1>1. q \in Request /\ q.pc = "admitted" /\ AccessRemembers(r)
  BY DEF AccessInv, TypeOK, Handle, At
<1>2. overreach' = FALSE
  <2>1. overreach = FALSE
    BY DEF AccessInv, TypeOK, NothingWithoutRight
  <2>2. Permits(q) => q.entitled = TRUE
    BY <1>1 DEF AccessRemembers, Request
  <2>3. overreach' = overreach \/ (Permits(q) /\ overreach' = (overreach \/ ~q.entitled))
    BY DEF Handle
  <2> HIDE DEF q
  <2>4. CASE overreach' = overreach
    BY <2>1, <2>4
  <2>5. CASE Permits(q) /\ overreach' = (overreach \/ ~q.entitled)
    BY <2>1, <2>2, <2>5
  <2> QED BY <2>3, <2>4, <2>5
<1>3. account' \in [Users -> Account]
  <2>1. account \in [Users -> Account]
    BY DEF AccessInv, TypeOK
  <2>2. CASE Effect(q)
    <3>1. CASE q.kind.does \in Moderations /\ account[q.user].there
      <4>1. PICK a \in Moderated(account[q.user], q.kind.does) :
              account' = [account EXCEPT ![q.user] = a]
        BY <2>2, <3>1 DEF Effect
      <4>2. CASE q.user \in Users
        <5>1. a \in Account
          BY <2>1, <3>1, <4>1, <4>2 DEF Moderated, Moderations, Account
        <5> QED BY <2>1, <4>1, <5>1
      <4>3. CASE q.user \notin Users
        BY <2>1, <4>1, <4>3
      <4> QED BY <4>2, <4>3
    <3>2. CASE ~(q.kind.does \in Moderations /\ account[q.user].there)
      <4>1. Closed \in Account
        BY DEF Closed, NoAccount, Account
      <4>2. account' = [account EXCEPT ![q.caller] = Closed] \/ account' = account
        BY <2>2, <3>2 DEF Effect
      <4> HIDE DEF q
      <4> QED BY <2>1, <4>1, <4>2
    <3> QED BY <3>1, <3>2
  <2>3. CASE UNCHANGED account
    BY <2>1, <2>3
  <2> QED BY <2>2, <2>3 DEF Handle
<1>4. Become(r, Idle) /\ Idle.pc = "idle"
  BY DEF Handle, Idle
<1> QED BY <1>2, <1>3, <1>4, AccessIdleIsRequest, AccessBecoming

LEMMA AccessConfirmInv ==
  ASSUME AccessInv, NEW u \in Users, Confirm(u) PROVE AccessInv'
<1>1. account' \in [Users -> Account]
  BY DEF AccessInv, TypeOK, Confirm, Account
<1>2. \A x \in Requests : req'[x] = Told(req[x], account')
  BY DEF Confirm
<1>3. \A x \in Requests : req'[x] \in Request /\ AccessRemembers(x)'
  BY <1>2, AccessTelling
<1>4. TypeOK'
  BY <1>1, <1>3 DEF TypeOK, Confirm, AccessInv
<1> QED BY <1>3, <1>4 DEF AccessInv, NothingWithoutRight, Confirm

LEMMA AccessStepInv == AccessInv /\ [Next]_vars => AccessInv'
<1> SUFFICES ASSUME AccessInv, [Next]_vars PROVE AccessInv'
  OBVIOUS
<1>1. ASSUME NEW r \in Requests, Call(r) PROVE AccessInv'
  BY <1>1, AccessArriveInv DEF Call
<1>2. ASSUME NEW r \in Requests, Authenticate(r) PROVE AccessInv'
  BY <1>2, AccessAuthenticateInv
<1>3. ASSUME NEW r \in Requests, Handle(r) PROVE AccessInv'
  BY <1>3, AccessHandleInv
<1>4. ASSUME NEW u \in Users, Confirm(u) PROVE AccessInv'
  BY <1>4, AccessConfirmInv
<1>5. CASE UNCHANGED vars
  <2>1. \A x \in Requests : AccessRemembers(x)'
    BY <1>5 DEF AccessInv, AccessRemembers, Permits, Owns, Entitled, vars
  <2> QED BY <1>5, <2>1 DEF AccessInv, TypeOK, NothingWithoutRight, vars
<1> QED BY <1>1, <1>2, <1>3, <1>4, <1>5 DEF Next

-----------------------------------------------------------------------------
(* Feed: its operators are the library's                                   *)

LEMMA FeedCardinality == \A S : F!Cardinality(S) = Cardinality(S)
BY DEF F!Cardinality, Cardinality

-----------------------------------------------------------------------------
(* Feed: orders of finite sets                                             *)

LEMMA FeedIdsFinite == ASSUME F!Sensible PROVE IsFiniteSet(F!Ids) /\ F!Ids \subseteq Nat \ {0}
BY FS_Interval DEF F!Ids, F!Sensible

\* Every order of a list is strict.
LEMMA FeedBeforeIsStrict ==
  ASSUME F!Sensible, NEW q \in F!Query, NEW i \in F!Ids, NEW j \in F!Ids, NEW k \in F!Ids
  PROVE  /\ ~F!Before(q, i, i)
         /\ F!Before(q, i, j) /\ F!Before(q, j, k) => F!Before(q, i, k)
<1>1. i \in Nat /\ j \in Nat /\ k \in Nat
      /\ Score[i] \in Nat /\ Score[j] \in Nat /\ Score[k] \in Nat
  BY DEF F!Sensible, F!Ids
<1>2. CASE q.list = "reports"
  BY <1>1, <1>2 DEF F!Before
<1>3. CASE q.list = "search"
  BY <1>1, <1>3 DEF F!Before
<1>4. CASE q.list \notin {"reports", "search"}
  BY <1>1, <1>4 DEF F!Before
<1> QED BY <1>2, <1>3, <1>4

\* A set of sets of documents has one that no other is a part of.
LEMMA FeedLeastSet ==
  ASSUME F!Sensible, NEW G \in SUBSET (SUBSET F!Ids), G # {}
  PROVE  \E A \in G : \A B \in G : ~(B \subseteq A /\ B # A)
<1>1. IsWellFoundedOn(StrictSubsetOrdering(F!Ids), SUBSET F!Ids)
  <2>1. FiniteSubsetsOf(F!Ids) = SUBSET F!Ids
    BY FeedIdsFinite, FS_FiniteSubsetsOfFinite
  <2>2. IsWellFoundedOn(StrictSubsetOrdering(F!Ids), FiniteSubsetsOf(F!Ids))
    BY FS_StrictSubsetOrderingWellFounded
  <2> QED BY <2>1, <2>2
<1>2. PICK A \in G : \A B \in G : <<B, A>> \notin StrictSubsetOrdering(F!Ids)
  BY <1>1, WFMin
<1>3. ASSUME NEW B \in G, B \subseteq A, B # A PROVE FALSE
  BY <1>2, <1>3 DEF StrictSubsetOrdering
<1> QED BY <1>3

\* Documents have a last one, and a first one, in the order of any list.
LEMMA FeedLastExists ==
  ASSUME F!Sensible, NEW q \in F!Query, NEW T \in SUBSET F!Ids, T # {}
  PROVE  \E i \in T : \A j \in T : ~F!Before(q, i, j)
<1> DEFINE After(i) == {j \in T : F!Before(q, i, j)}
           G == {After(i) : i \in T}
<1>1. G \in SUBSET (SUBSET F!Ids) /\ G # {}
  OBVIOUS
<1>2. PICK A \in G : \A B \in G : ~(B \subseteq A /\ B # A)
  BY <1>1, FeedLeastSet
<1>3. PICK i \in T : A = After(i)
  BY <1>2
<1>4. ASSUME NEW j \in T, F!Before(q, i, j) PROVE FALSE
  <2>1. After(j) \subseteq After(i)
    BY <1>4, FeedBeforeIsStrict
  <2>2. j \in After(i) /\ j \notin After(j)
    BY <1>4, FeedBeforeIsStrict
  <2> QED BY <1>2, <1>3, <2>1, <2>2
<1> QED BY <1>4

LEMMA FeedFirstExists ==
  ASSUME F!Sensible, NEW q \in F!Query, NEW T \in SUBSET F!Ids, T # {}
  PROVE  \E i \in T : \A j \in T : ~F!Before(q, j, i)
<1> DEFINE Ahead(i) == {j \in T : F!Before(q, j, i)}
           G == {Ahead(i) : i \in T}
<1>1. G \in SUBSET (SUBSET F!Ids) /\ G # {}
  OBVIOUS
<1>2. PICK A \in G : \A B \in G : ~(B \subseteq A /\ B # A)
  BY <1>1, FeedLeastSet
<1>3. PICK i \in T : A = Ahead(i)
  BY <1>2
<1>4. ASSUME NEW j \in T, F!Before(q, j, i) PROVE FALSE
  <2>1. Ahead(j) \subseteq Ahead(i)
    BY <1>4, FeedBeforeIsStrict
  <2>2. j \in Ahead(i) /\ j \notin Ahead(j)
    BY <1>4, FeedBeforeIsStrict
  <2> QED BY <1>2, <1>3, <2>1, <2>2
<1> QED BY <1>4

-----------------------------------------------------------------------------
(* Feed: pages                                                             *)

\* Sets of documents can be counted.
LEMMA FeedCounting ==
  ASSUME F!Sensible, NEW T \in SUBSET F!Ids, NEW S \in SUBSET T
  PROVE  /\ Cardinality(T) \in Nat /\ Cardinality(S) \in Nat
         /\ Cardinality(S) <= Cardinality(T)
         /\ S # T => Cardinality(S) < Cardinality(T)
<1>1. IsFiniteSet(T) /\ IsFiniteSet(S)
  BY FeedIdsFinite, FS_Subset
<1> QED BY <1>1, FS_Subset, FS_CardinalityType

\* A page is not empty if there is something to show.
LEMMA FeedTakenSome ==
  ASSUME F!Sensible, NEW q \in F!Query, NEW T \in SUBSET F!Ids, T # {}
  PROVE  F!Taken(q, T, PageSize) # {}
<1>1. PICK i \in T : \A j \in T : ~F!Before(q, j, i)
  BY FeedFirstExists
<1>2. {j \in T : F!Before(q, j, i)} = {}
  BY <1>1
<1>3. Cardinality({j \in T : F!Before(q, j, i)}) = 0
  BY <1>2, FS_EmptySet
<1>4. 0 < PageSize
  BY DEF F!Sensible
<1> QED BY <1>1, <1>3, <1>4, FeedCardinality DEF F!Taken

\* All is shown if it fits on the page.
LEMMA FeedTakenAll ==
  ASSUME F!Sensible, NEW q \in F!Query, NEW T \in SUBSET F!Ids, ~(Cardinality(T) > PageSize)
  PROVE  F!Taken(q, T, PageSize) = T
<1> SUFFICES ASSUME NEW i \in T PROVE Cardinality({j \in T : F!Before(q, j, i)}) < PageSize
  BY FeedCardinality DEF F!Taken
<1> DEFINE S == {j \in T : F!Before(q, j, i)}
<1>1. i \notin S
  BY FeedBeforeIsStrict
<1>2. Cardinality(S) < Cardinality(T) /\ Cardinality(S) \in Nat /\ Cardinality(T) \in Nat
  BY <1>1, FeedCounting
<1> QED BY <1>2 DEF F!Sensible

\* What comes before a document of the page is on the page.
LEMMA FeedTakenIsInitial ==
  ASSUME F!Sensible, NEW q \in F!Query, NEW T \in SUBSET F!Ids,
         NEW i \in F!Taken(q, T, PageSize), NEW k \in T, F!Before(q, k, i)
  PROVE  k \in F!Taken(q, T, PageSize)
<1> DEFINE S == {j \in T : F!Before(q, j, i)}
           P == {j \in T : F!Before(q, j, k)}
<1>1. i \in T /\ Cardinality(S) < PageSize
  BY FeedCardinality DEF F!Taken
<1>2. P \subseteq S /\ S \subseteq T
  BY <1>1, FeedBeforeIsStrict
<1>3. Cardinality(P) <= Cardinality(S) /\ Cardinality(P) \in Nat /\ Cardinality(S) \in Nat
  BY <1>2, FeedCounting
<1>4. Cardinality(P) < PageSize
  BY <1>1, <1>3 DEF F!Sensible
<1> QED BY <1>4, FeedCardinality DEF F!Taken

\* The cursor is a document of the page, and none of the page comes after it.
LEMMA FeedCursorIsLast ==
  ASSUME F!Sensible, NEW q \in F!Query, NEW T \in SUBSET F!Ids, T # {}
  PROVE  /\ F!CursorAfter(q, T) \in F!Taken(q, T, PageSize)
         /\ \A j \in F!Taken(q, T, PageSize) : ~F!Before(q, F!CursorAfter(q, T), j)
<1>1. F!Taken(q, T, PageSize) \in SUBSET F!Ids /\ F!Taken(q, T, PageSize) # {}
  BY FeedTakenSome DEF F!Taken
<1>2. \E i \in F!Taken(q, T, PageSize) : \A j \in F!Taken(q, T, PageSize) : ~F!Before(q, i, j)
  BY <1>1, FeedLastExists
<1> QED BY <1>2 DEF F!CursorAfter

-----------------------------------------------------------------------------
(* Feed: the invariant                                                     *)

\* What a reader that stands at v has been through, the documents being d: if
\* the cursor fits the list, it has seen nothing below the cursor, and above
\* it all that was steady.
FeedOnTrack(v, d) == v.query.list \notin {"reports", "search"} =>
  /\ ~v.again
  /\ \A i \in v.steady : F!Lists(v.query, i, d[i])
  /\ v.pc # "done" => \A i \in v.seen : v.cursor # 0 /\ i >= v.cursor
  /\ v.pc # "done" => \A i \in v.steady : v.cursor # 0 /\ i >= v.cursor => i \in v.seen
  /\ v.pc = "done" => v.steady \subseteq v.seen

FeedInv == F!TypeOK /\ F!NothingLeaks /\ \A w \in Lookers : FeedOnTrack(walk[w], docs)

LEMMA FeedIdleIsWalk == F!Idle \in F!Walk /\ F!Idle.pc = "idle" /\ ~F!Idle.leaked
BY DEF F!Idle, F!Walk, F!NoQuery, F!Query

LEMMA FeedInitInv == F!Init => FeedInv
<1> SUFFICES ASSUME F!Init PROVE FeedInv
  OBVIOUS
<1>1. F!TypeOK
  BY FeedIdleIsWalk DEF F!Init, F!TypeOK
<1>2. F!NothingLeaks
  BY FeedIdleIsWalk DEF F!Init, F!NothingLeaks
<1>3. \A w \in Lookers : FeedOnTrack(walk[w], docs)
  BY DEF F!Init, FeedOnTrack, F!Idle
<1> QED BY <1>1, <1>2, <1>3 DEF FeedInv

\* A reader that goes on as v is on track, and the others stay there.
LEMMA FeedBecoming ==
  ASSUME FeedInv, NEW w \in Lookers, NEW v \in F!Walk, F!Become(w, v), UNCHANGED docs,
         ~v.leaked, FeedOnTrack(v, docs)
  PROVE  FeedInv'
<1>1. walk' = [walk EXCEPT ![w] = v] /\ walk \in [Lookers -> F!Walk] /\ docs' = docs
  BY DEF F!Become, FeedInv, F!TypeOK
<1>2. F!TypeOK'
  BY <1>1 DEF FeedInv, F!TypeOK
<1>3. F!NothingLeaks'
  BY <1>1 DEF FeedInv, F!NothingLeaks
<1>4. \A x \in Lookers : FeedOnTrack(walk'[x], docs')
  BY <1>1 DEF FeedInv
<1> QED BY <1>2, <1>3, <1>4 DEF FeedInv

LEMMA FeedBeginInv ==
  ASSUME F!Sensible, FeedInv, NEW w \in Lookers, NEW q \in F!Query, F!Begin(w, q) PROVE FeedInv'
<1> DEFINE v == [F!Idle EXCEPT !.pc = "reading", !.query = q, !.steady = F!Listed(q)]
<1>1. v \in F!Walk /\ ~v.leaked
  BY FeedIdleIsWalk DEF F!Walk, F!Listed
<1>2. F!Become(w, v) /\ UNCHANGED docs
  BY DEF F!Begin
<1>3. /\ v.pc = "reading" /\ v.query = q /\ v.steady = F!Listed(q)
      /\ v.cursor = 0 /\ v.seen = {} /\ ~v.again
  BY DEF F!Idle
<1>4. \A i \in F!Listed(q) : F!Lists(q, i, docs[i])
  BY DEF F!Listed
<1> HIDE DEF v
<1>5. FeedOnTrack(v, docs)
  BY <1>3, <1>4 DEF FeedOnTrack
<1> QED BY <1>1, <1>2, <1>5, FeedBecoming

\* posts.service.ts:141: what a list selects and shows is for its reader.
LEMMA FeedSelectedMayBeSeen ==
  ASSUME NEW q \in F!Query, NEW i \in F!Ids, NEW s \in F!Doc, F!Lists(q, i, s)
  PROVE  F!MaySee(q, i, s)
BY DEF F!Query, F!Lists, F!Selects, F!SelectsPost, F!Bookmarked, F!Notified, F!Following, F!Account,
       F!Reported, F!Found, F!Shows, F!Fits, F!There, F!MaySee

\* A reader who is at cursor c has seen what comes up to there.
FeedReached(c, seen, steady) ==
  /\ c # 0
  /\ \A i \in seen : i >= c
  /\ \A i \in steady : i >= c => i \in seen

\* A list by descending id, whose reader has seen all that was steady from
\* the cursor c0 on: after the page that begins there and ends at c, it has
\* seen all from c on, and nothing twice.
LEMMA FeedNextPage ==
  ASSUME F!Sensible, NEW q \in F!Query, q.list \notin {"reports", "search"},
         NEW hits \in SUBSET F!Ids, NEW c0 \in F!Ids \cup {0},
         \A i \in hits : F!Below(c0, i),
         NEW seen \in SUBSET F!Ids, NEW steady \in SUBSET F!Ids,
         \A i \in seen : c0 # 0 /\ i >= c0,
         \A i \in steady : i \in hits \/ i \in seen,
         NEW c \in F!Taken(q, hits, PageSize),
         \A j \in F!Taken(q, hits, PageSize) : ~F!Before(q, c, j)
  PROVE  FeedReached(c, seen \cup F!Taken(q, hits, PageSize), steady)
<1> DEFINE T == F!Taken(q, hits, PageSize)
<1>1. T \subseteq hits
  BY DEF F!Taken
<1>2. /\ F!Ids \subseteq Nat /\ 0 \notin F!Ids /\ c \in F!Ids
      /\ \A i, j \in F!Ids : F!Before(q, i, j) <=> i > j
  BY <1>1, FeedIdsFinite DEF F!Before
<1>3. \A j \in T : j >= c
  <2> SUFFICES ASSUME NEW j \in T PROVE j >= c
    OBVIOUS
  <2>1. j \in F!Ids /\ ~(c > j) /\ j \in Nat /\ c \in Nat
    BY <1>1, <1>2
  <2> QED BY <2>1
<1>4. \A i \in seen : i >= c
  <2> SUFFICES ASSUME NEW i \in seen PROVE i >= c
    OBVIOUS
  <2>1. c0 # 0 /\ i >= c0 /\ c < c0
    BY <1>1, <1>2 DEF F!Below
  <2>2. i \in Nat /\ c \in Nat /\ c0 \in Nat
    BY <1>2
  <2> QED BY <2>1, <2>2
<1>5. ASSUME NEW i \in hits, i >= c PROVE i \in T
  <2>1. i \in Nat /\ c \in Nat
    BY <1>2
  <2>2. CASE i = c
    BY <2>2
  <2>3. CASE i > c
    <3>1. F!Before(q, i, c)
      BY <1>2, <2>3
    <3> QED BY <3>1, FeedTakenIsInitial
  <2> QED BY <2>1, <1>5, <2>2, <2>3
<1>6. \A i \in steady : i >= c => i \in seen \cup T
  BY <1>5
<1> QED BY <1>2, <1>3, <1>4, <1>6 DEF FeedReached

LEMMA FeedPageInv ==
  ASSUME F!Sensible, FeedInv, NEW w \in Lookers, F!Page(w) PROVE FeedInv'
<1> DEFINE v == walk[w]
           q == v.query
           hits == {i \in F!Ids : F!Selects(q, i, docs[i]) /\ F!Below(v.cursor, i)}
           T == F!Taken(q, hits, PageSize)
           shown == {i \in T : F!Shows(q, docs[i])}
           more == Cardinality(hits) > PageSize
           c == IF more THEN F!CursorAfter(q, hits) ELSE 0
           twice == v.again \/ v.seen \cap shown # {}
           leaks == v.leaked \/ \E i \in shown : ~F!MaySee(q, i, docs[i])
           pc == IF more THEN "reading" ELSE "done"
           n == [v EXCEPT !.pc = pc, !.cursor = c, !.seen = @ \cup shown,
                   !.again = twice, !.leaked = leaks]
<1>1. /\ v \in F!Walk /\ q \in F!Query /\ v.pc = "reading" /\ ~v.leaked /\ FeedOnTrack(v, docs)
      /\ docs \in [F!Ids -> F!Doc]
  BY DEF FeedInv, F!TypeOK, F!Walk, F!Page, F!NothingLeaks
<1>2. T \subseteq hits /\ hits \in SUBSET F!Ids /\ shown \subseteq T
  BY DEF F!Taken
<1>3. more => /\ c \in T
              /\ \A j \in T : ~F!Before(q, c, j)
  <2>1. more => hits # {}
    BY FS_EmptySet DEF F!Sensible
  <2> QED BY <1>1, <1>2, <2>1, FeedCursorIsLast
<1>4. c \in F!Ids \cup {0}
  BY <1>2, <1>3
<1>5. ~\E i \in shown : ~F!MaySee(q, i, docs[i])
  BY <1>1, <1>2, FeedSelectedMayBeSeen DEF F!Lists
<1>6. F!Become(w, n) /\ UNCHANGED docs
  BY FeedCardinality DEF F!Page
<1>7. /\ DOMAIN v = {"pc", "query", "cursor", "seen", "steady", "again", "leaked"}
      /\ v.again \in BOOLEAN /\ v.leaked \in BOOLEAN /\ v.cursor \in F!Ids \cup {0}
      /\ v.seen \in SUBSET F!Ids /\ v.steady \in SUBSET F!Ids
  BY <1>1 DEF F!Walk
<1>8. /\ n.pc = pc /\ n.cursor = c /\ n.seen = v.seen \cup shown /\ n.query = q
      /\ n.steady = v.steady /\ n.again = twice /\ n.leaked = leaks
  <2> HIDE DEF c, shown, twice, leaks, pc
  <2> QED BY <1>7
<1>9. twice \in BOOLEAN /\ leaks = FALSE
  BY <1>1, <1>5, <1>7
<1>10. n \in F!Walk /\ ~n.leaked
  <2>1. pc \in {"idle", "reading", "done"} /\ v.seen \cup shown \in SUBSET F!Ids
    BY <1>2, <1>7
  <2> HIDE DEF c, shown, twice, leaks, pc
  <2> QED BY <1>1, <1>4, <1>8, <1>9, <2>1 DEF F!Walk
<1> HIDE DEF n
<1>11. FeedOnTrack(n, docs)
  <2> SUFFICES ASSUME q.list \notin {"reports", "search"} PROVE FeedOnTrack(n, docs)
    BY <1>8 DEF FeedOnTrack
  <2>1. /\ ~v.again /\ \A i \in v.steady : F!Lists(q, i, docs[i])
        /\ \A i \in v.seen : v.cursor # 0 /\ i >= v.cursor
        /\ \A i \in v.steady : v.cursor # 0 /\ i >= v.cursor => i \in v.seen
    BY <1>1 DEF FeedOnTrack
  <2>2. F!Ids \subseteq Nat /\ 0 \notin F!Ids /\ v.cursor \in Nat
    BY <1>7, FeedIdsFinite
  <2>3. \A i \in hits : F!Below(v.cursor, i)
    OBVIOUS
  <2>4. v.seen \cap shown = {}
    <3> SUFFICES ASSUME NEW i \in v.seen, i \in shown PROVE FALSE
      OBVIOUS
    <3>1. v.cursor # 0 /\ i >= v.cursor /\ i < v.cursor /\ i \in Nat
      BY <1>2, <1>7, <2>1, <2>2, <2>3 DEF F!Below
    <3> QED BY <2>2, <3>1
  <2>5. \A i \in v.steady : i \in hits \/ i \in v.seen
    <3> SUFFICES ASSUME NEW i \in v.steady, i \notin v.seen PROVE i \in hits
      OBVIOUS
    <3>1. i \in F!Ids /\ i \in Nat /\ F!Selects(q, i, docs[i])
      BY <1>7, <2>1, <2>2 DEF F!Lists
    <3>2. v.cursor = 0 \/ ~(i >= v.cursor)
      BY <2>1
    <3>3. v.cursor = 0 \/ i < v.cursor
      BY <2>2, <3>1, <3>2
    <3> QED BY <3>1, <3>3 DEF F!Below
  <2>6. \A i \in v.steady : F!Shows(q, docs[i])
    BY <2>1 DEF F!Lists
  <2>7. CASE ~more
    <3>1. T = hits
      BY <1>1, <1>2, <2>7, FeedTakenAll
    <3>2. v.steady \subseteq v.seen \cup shown
      BY <2>5, <2>6, <3>1
    <3> HIDE DEF hits, T, shown, more, c
    <3> QED BY <1>8, <2>1, <2>4, <2>7, <3>2 DEF FeedOnTrack
  <2>8. CASE more
    <3>1. /\ c # 0
          /\ \A i \in v.seen \cup T : i >= c
          /\ \A i \in v.steady : i >= c => i \in v.seen \cup T
      <4>1. c \in T /\ \A j \in T : ~F!Before(q, c, j)
        BY <1>3, <2>8
      <4>2. hits \in SUBSET F!Ids
        BY <1>2
      <4>3. /\ q \in F!Query /\ v.cursor \in F!Ids \cup {0}
            /\ v.seen \in SUBSET F!Ids /\ v.steady \in SUBSET F!Ids
        BY <1>1, <1>7
      <4>4. \A i \in v.seen : v.cursor # 0 /\ i >= v.cursor
        BY <2>1
      <4>5. FeedReached(c, v.seen \cup F!Taken(q, hits, PageSize), v.steady)
        <5> HIDE DEF v, q, hits, more, c
        <5> QED BY <2>3, <2>5, <4>1, <4>2, <4>3, <4>4, FeedNextPage
      <4> HIDE DEF v, q, hits, more, c
      <4> QED BY <4>5 DEF FeedReached
    <3>2. \A i \in v.steady : i >= c => i \in v.seen \cup shown
      BY <2>6, <3>1
    <3>3. \A i \in v.seen \cup shown : i >= c
      BY <1>2, <3>1
    <3> HIDE DEF hits, T, shown, more, c
    <3> QED BY <1>8, <2>1, <2>4, <2>8, <3>1, <3>2, <3>3 DEF FeedOnTrack
  <2> QED BY <2>7, <2>8
<1> QED BY <1>6, <1>10, <1>11, FeedBecoming

\* What others do to document i leaves the readers on track.
LEMMA FeedStirredInv ==
  ASSUME FeedInv, NEW i \in F!Ids, NEW s \in F!Doc, docs' = [docs EXCEPT ![i] = s],
         walk' = F!Stirred(i)
  PROVE  FeedInv'
<1>1. docs \in [F!Ids -> F!Doc] /\ walk \in [Lookers -> F!Walk]
  BY DEF FeedInv, F!TypeOK
<1>2. ASSUME NEW w \in Lookers
      PROVE  walk'[w] \in F!Walk /\ ~walk'[w].leaked /\ FeedOnTrack(walk'[w], docs')
  <2> DEFINE v == walk[w]
             n == [v EXCEPT !.steady = @ \ {i}]
  <2>1. walk'[w] = n
    BY DEF F!Stirred
  <2>2. v \in F!Walk /\ ~v.leaked /\ FeedOnTrack(v, docs)
    BY DEF FeedInv, F!TypeOK, F!NothingLeaks
  <2> HIDE DEF v
  <2>3. /\ n \in F!Walk /\ n.steady = v.steady \ {i} /\ n.pc = v.pc /\ n.query = v.query
        /\ n.cursor = v.cursor /\ n.seen = v.seen /\ n.again = v.again
        /\ n.leaked = v.leaked
    BY <2>2 DEF F!Walk
  <2> HIDE DEF n
  <2>4. v.steady \subseteq F!Ids
    BY <2>2 DEF F!Walk
  <2>5. \A j \in n.steady : j \in v.steady /\ docs'[j] = docs[j]
    BY <1>1, <2>3, <2>4
  <2>6. FeedOnTrack(n, docs')
    BY <2>2, <2>3, <2>5 DEF FeedOnTrack
  <2> QED BY <2>1, <2>2, <2>3, <2>6
<1>3. F!TypeOK'
  BY <1>1, <1>2 DEF F!TypeOK, F!Stirred
<1>4. F!NothingLeaks'
  BY <1>2 DEF F!NothingLeaks
<1> QED BY <1>2, <1>3, <1>4 DEF FeedInv

LEMMA FeedStepInv == ASSUME F!Sensible PROVE FeedInv /\ [F!Next]_F!vars => FeedInv'
<1> SUFFICES ASSUME FeedInv, [F!Next]_F!vars PROVE FeedInv'
  OBVIOUS
<1>1. ASSUME NEW w \in Lookers, F!Read(w) PROVE FeedInv'
  BY <1>1, FeedBeginInv, FeedPageInv DEF F!Read
<1>2. ASSUME NEW i \in F!Ids, NEW s \in F!Doc, F!Insert(i, s) PROVE FeedInv'
  BY <1>2, FeedStirredInv DEF F!Insert
<1>3. ASSUME NEW i \in F!Ids, F!Change(i) PROVE FeedInv'
  <2>1. (IF docs[i] = "open" THEN "closed" ELSE "open") \in F!Doc
    BY DEF F!Doc
  <2>2. docs' = [docs EXCEPT ![i] = IF docs[i] = "open" THEN "closed" ELSE "open"]
    BY <1>3 DEF F!Change
  <2> QED BY <1>3, <2>1, <2>2, FeedStirredInv DEF F!Change
<1>4. ASSUME NEW i \in F!Ids, F!Delete(i) PROVE FeedInv'
  BY <1>4, FeedStirredInv DEF F!Delete, F!Doc
<1>5. CASE UNCHANGED F!vars
  <2>1. docs' = docs /\ walk' = walk
    BY <1>5 DEF F!vars
  <2>2. F!TypeOK' /\ F!NothingLeaks'
    BY <2>1 DEF FeedInv, F!TypeOK, F!NothingLeaks
  <2>3. \A w \in Lookers : FeedOnTrack(walk'[w], docs')
    BY <2>1 DEF FeedInv
  <2> QED BY <2>2, <2>3 DEF FeedInv
<1> QED BY <1>1, <1>2, <1>3, <1>4, <1>5 DEF F!Next

-----------------------------------------------------------------------------
(* Quota: the invariant                                                    *)

\* A request that is about to consume is of an account and of a day that was.
QuotaNamed(r) == Q!At(r, "consume") => req[r].user \in Askers /\ req[r].day \in Q!Days

\* What account u was granted on day d, unless its count began again: nothing
\* after the day that is counted, the count on that day, no more than the
\* limit on any.
QuotaExact(u, d) ==
  /\ d > usage[u].day => granted[u][d] = 0
  /\ d = usage[u].day => granted[u][d] = usage[u].count
  /\ granted[u][d] <= LimitOf[u]

QuotaInv ==
  /\ Q!TypeOK
  /\ \A r \in Requests : QuotaNamed(r)
  /\ \A u \in Askers \ late, d \in Q!Days : QuotaExact(u, d)

-----------------------------------------------------------------------------
(* Quota: requests                                                         *)

\* A request that does nothing is a request.
LEMMA QuotaIdleIsRequest == ASSUME Q!Sensible PROVE Q!Idle \in Q!Request /\ Q!Idle.pc = "idle"
<1>1. (CHOOSE p \in Servers : TRUE) \in Servers
  BY DEF Q!Sensible
<1> QED BY <1>1 DEF Q!Sensible, Q!Idle, Q!Request

\* The process that serves r changes r alone, and what it becomes is in order.
LEMMA QuotaBecoming ==
  ASSUME QuotaInv, NEW r \in Requests, NEW q \in Q!Request, Q!Become(r, q),
         q.pc = "consume" => q.user \in Askers /\ q.day \in Q!Days
  PROVE  req' \in [Requests -> Q!Request] /\ \A x \in Requests : QuotaNamed(x)'
<1>1. req \in [Requests -> Q!Request] BY DEF QuotaInv, Q!TypeOK
<1>2. req' = [req EXCEPT ![r] = q] BY DEF Q!Become
<1>3. req' \in [Requests -> Q!Request] BY <1>1, <1>2
<1>4. ASSUME NEW x \in Requests PROVE QuotaNamed(x)'
  <2>1. QuotaNamed(x) BY DEF QuotaInv
  <2>2. CASE x = r
    BY <1>1, <1>2, <2>2 DEF QuotaNamed, Q!At
  <2>3. CASE x # r
    BY <1>1, <1>2, <2>1, <2>3 DEF QuotaNamed, Q!At
  <2> QED BY <2>2, <2>3
<1> QED BY <1>3, <1>4

-----------------------------------------------------------------------------
(* Quota: the steps                                                        *)

LEMMA QuotaInitInv == ASSUME Q!Sensible PROVE Q!Init => QuotaInv
<1> SUFFICES ASSUME Q!Init PROVE QuotaInv
  OBVIOUS
<1>1. Q!TypeOK
  <2>1. /\ Q!Never \in [day : 0 .. MaxDay, count : Nat]
        /\ \A u \in Askers : Q!Never.count <= LimitOf[u]
    BY DEF Q!Sensible, Q!Never
  <2>2. Q!Never \in Q!Count(Budget)
    BY DEF Q!Sensible, Q!Never, Q!Count
  <2> QED BY <2>1, <2>2, QuotaIdleIsRequest DEF Q!Init, Q!TypeOK, Q!Sensible, Q!Days
<1>2. \A r \in Requests : QuotaNamed(r)
  BY QuotaIdleIsRequest DEF Q!Init, QuotaNamed, Q!At
<1>3. \A u \in Askers \ late, d \in Q!Days : QuotaExact(u, d)
  BY DEF Q!Init, QuotaExact, Q!Never, Q!Days, Q!Sensible
<1> QED BY <1>1, <1>2, <1>3 DEF QuotaInv

LEMMA QuotaAskInv ==
  ASSUME Q!Sensible, QuotaInv, NEW r \in Requests, NEW u \in Askers \cup {NoOne},
         NEW p \in Servers, Q!Ask(r, u, p)
  PROVE  QuotaInv'
<1> DEFINE q == [pc |-> IF u = NoOne THEN "spend" ELSE "consume", user |-> u, day |-> day,
                 process |-> p]
<1>1. day \in Q!Days /\ Q!Days \subseteq 0 .. MaxDay
  BY DEF QuotaInv, Q!TypeOK, Q!Days, Q!Sensible
<1>2. q \in Q!Request
  BY <1>1 DEF Q!Request
<1>3. q.pc = "consume" => q.user \in Askers /\ q.day \in Q!Days
  BY <1>1
<1>4. Q!Become(r, q)
  BY DEF Q!Ask
<1> HIDE DEF q
<1>5. req' \in [Requests -> Q!Request] /\ \A x \in Requests : QuotaNamed(x)'
  BY <1>2, <1>3, <1>4, QuotaBecoming
<1> QED BY <1>5 DEF QuotaInv, Q!TypeOK, QuotaExact, Q!Ask

\* What is counted for an account is within its limit.
LEMMA QuotaUsageIsCount ==
  ASSUME Q!Sensible, QuotaInv, NEW u \in Askers PROVE usage[u] \in Q!Count(LimitOf[u])
BY DEF Q!Sensible, QuotaInv, Q!TypeOK, Q!Count

\* What is counted for u after a request of day d was granted is in order.
LEMMA QuotaConsumedIsCount ==
  ASSUME Q!Sensible, QuotaInv, NEW u \in Askers, NEW d \in Q!Days, Q!MayConsume(u, d)
  PROVE  /\ Q!Consumed(u, d) \in Q!Count(LimitOf[u])
         /\ Q!Consumed(u, d).day = d
         /\ Q!Consumed(u, d).count = IF usage[u].day = d THEN usage[u].count + 1 ELSE 1
<1>1. usage[u] \in Q!Count(LimitOf[u]) /\ LimitOf[u] \in Nat \ {0} /\ d \in 0 .. MaxDay
  BY QuotaUsageIsCount DEF Q!Days, Q!Sensible
<1> QED BY <1>1 DEF Q!Consumed, Q!MayConsume, Q!Count

LEMMA QuotaConsumeInv ==
  ASSUME Q!Sensible, QuotaInv, NEW r \in Requests, Q!Consume(r) PROVE QuotaInv'
<1> DEFINE u == req[r].user
           d == req[r].day
           q == [req[r] EXCEPT !.pc = "spend"]
<1>1. u \in Askers /\ d \in Q!Days /\ req[r] \in Q!Request
  BY DEF QuotaInv, Q!TypeOK, QuotaNamed, Q!Consume
<1>2. q \in Q!Request /\ q.pc = "spend"
  BY <1>1 DEF Q!Request
<1>3. CASE Q!MayConsume(u, d)
  <2>1. /\ usage' = [usage EXCEPT ![u] = Q!Consumed(u, d)]
        /\ granted' = [granted EXCEPT ![u][d] = @ + 1]
        /\ late' = IF d < usage[u].day THEN late \cup {u} ELSE late
        /\ Q!Become(r, q)
        /\ UNCHANGED <<day, spent>>
    BY <1>3 DEF Q!Consume
  <2> HIDE DEF u, d, q
  <2>2. req' \in [Requests -> Q!Request] /\ \A x \in Requests : QuotaNamed(x)'
    BY <1>2, <2>1, QuotaBecoming
  <2>3. /\ Q!Consumed(u, d) \in Q!Count(LimitOf[u])
        /\ Q!Consumed(u, d).day = d
        /\ Q!Consumed(u, d).count = IF usage[u].day = d THEN usage[u].count + 1 ELSE 1
    BY <1>1, <1>3, QuotaConsumedIsCount
  <2>4. usage'[u] = Q!Consumed(u, d) /\ \A v \in Askers \ {u} : usage'[v] = usage[v]
    BY <1>1, <2>1 DEF QuotaInv, Q!TypeOK
  <2>5. Q!TypeOK'
    <3>1. Q!Consumed(u, d) \in [day : 0 .. MaxDay, count : Nat]
          /\ Q!Consumed(u, d).count <= LimitOf[u]
      BY <1>1, <2>3 DEF Q!Count, Q!Sensible
    <3> QED BY <1>1, <2>1, <2>2, <2>4, <3>1 DEF QuotaInv, Q!TypeOK
  <2>6. ASSUME NEW v \in Askers \ late', NEW e \in Q!Days PROVE QuotaExact(v, e)'
    <3>1. v \in Askers \ late /\ QuotaExact(v, e)
      BY <2>1, <2>6 DEF QuotaInv
    <3>2. CASE v # u
      BY <2>1, <2>4, <3>1, <3>2 DEF QuotaExact
    <3>3. CASE v = u
      <4>1. usage[u] \in Q!Count(LimitOf[u]) /\ LimitOf[u] \in Nat \ {0}
            /\ granted \in [Askers -> [Q!Days -> Nat]] /\ granted[u][e] \in Nat
        BY <1>1, QuotaUsageIsCount DEF QuotaInv, Q!TypeOK, Q!Sensible
      <4>2. usage[u].day \in Nat /\ usage[u].count \in Nat /\ d \in Nat /\ e \in Nat
            /\ MaxDay \in Nat
        BY <1>1, <4>1 DEF Q!Count, Q!Days, Q!Sensible
      <4>3. ~(d < usage[u].day)
        BY <2>1, <3>3, <2>6
      <4>4. granted'[u][e] = IF e = d THEN granted[u][e] + 1 ELSE granted[u][e]
        BY <1>1, <2>1, <4>1
      <4>5. usage'[u].day = d
            /\ usage'[u].count = IF usage[u].day = d THEN usage[u].count + 1 ELSE 1
        BY <2>3, <2>4
      <4>6. usage[u].day = d => usage[u].count < LimitOf[u]
        BY <1>3 DEF Q!MayConsume
      <4> QED BY <3>1, <3>3, <4>1, <4>2, <4>3, <4>4, <4>5, <4>6 DEF QuotaExact
    <3> QED BY <3>2, <3>3
  <2> QED BY <2>2, <2>5, <2>6 DEF QuotaInv
<1>4. CASE ~Q!MayConsume(u, d)
  <2>1. Q!Become(r, Q!Idle) /\ UNCHANGED <<day, spent, usage, granted, late>>
    BY <1>4 DEF Q!Consume
  <2>2. req' \in [Requests -> Q!Request] /\ \A x \in Requests : QuotaNamed(x)'
    BY <2>1, QuotaIdleIsRequest, QuotaBecoming
  <2> QED BY <2>1, <2>2 DEF QuotaInv, Q!TypeOK, QuotaExact
<1> QED BY <1>3, <1>4

LEMMA QuotaSpendInv ==
  ASSUME Q!Sensible, QuotaInv, NEW r \in Requests, Q!Spend(r) PROVE QuotaInv'
<1> DEFINE p == req[r].process
           n == Q!Today(spent[p])
           q == IF n < Budget THEN [req[r] EXCEPT !.pc = "model"] ELSE Q!Idle
           s == [day |-> day, count |-> IF n < Budget THEN n + 1 ELSE n]
<1>1. p \in Servers /\ req[r] \in Q!Request
  BY DEF QuotaInv, Q!TypeOK, Q!Request
<1>2. q \in Q!Request /\ q.pc # "consume"
  BY <1>1, QuotaIdleIsRequest DEF Q!Request
<1>3. n \in 0 .. Budget
  BY <1>1 DEF QuotaInv, Q!TypeOK, Q!Count, Q!Today, Q!Sensible
<1>4. s \in Q!Count(Budget)
  BY <1>3 DEF Q!Count, QuotaInv, Q!TypeOK, Q!Days, Q!Sensible
<1>5. /\ spent' = [spent EXCEPT ![p] = s]
      /\ Q!Become(r, q)
      /\ UNCHANGED <<day, usage, granted, late>>
  BY DEF Q!Spend
<1> HIDE DEF p, n, q, s
<1>6. req' \in [Requests -> Q!Request] /\ \A x \in Requests : QuotaNamed(x)'
  BY <1>2, <1>5, QuotaBecoming
<1> QED BY <1>1, <1>4, <1>5, <1>6 DEF QuotaInv, Q!TypeOK, QuotaExact

\* Refuse and Model only end the request.
LEMMA QuotaEndInv ==
  ASSUME Q!Sensible, QuotaInv, NEW r \in Requests, Q!Become(r, Q!Idle),
         UNCHANGED <<day, usage, spent, granted, late>>
  PROVE  QuotaInv'
<1>1. req' \in [Requests -> Q!Request] /\ \A x \in Requests : QuotaNamed(x)'
  BY QuotaIdleIsRequest, QuotaBecoming
<1> QED BY <1>1 DEF QuotaInv, Q!TypeOK, QuotaExact

LEMMA QuotaMidnightInv == ASSUME Q!Sensible, QuotaInv, Q!Midnight PROVE QuotaInv'
<1>1. day' \in Q!Days
  BY DEF QuotaInv, Q!TypeOK, Q!Midnight, Q!Days, Q!Sensible
<1>2. Q!TypeOK'
  BY <1>1 DEF QuotaInv, Q!TypeOK, Q!Midnight
<1>3. \A r \in Requests : QuotaNamed(r)'
  BY DEF QuotaInv, QuotaNamed, Q!At, Q!Midnight
<1> QED BY <1>2, <1>3 DEF QuotaInv, QuotaExact, Q!Midnight

LEMMA QuotaRestartInv ==
  ASSUME Q!Sensible, QuotaInv, NEW p \in Servers, Q!Restart(p) PROVE QuotaInv'
<1>1. spent' \in [Servers -> Q!Count(Budget)]
  <2>1. Q!Never \in Q!Count(Budget)
    BY DEF Q!Never, Q!Count, Q!Sensible
  <2> QED BY <2>1 DEF QuotaInv, Q!TypeOK, Q!Restart
<1>2. req' \in [Requests -> Q!Request]
  BY QuotaIdleIsRequest DEF QuotaInv, Q!TypeOK, Q!Restart
<1>3. ASSUME NEW r \in Requests PROVE QuotaNamed(r)'
  <2>1. req'[r] \in {Q!Idle, req[r]} /\ QuotaNamed(r)
    BY DEF QuotaInv, Q!Restart
  <2> QED BY <2>1, QuotaIdleIsRequest DEF QuotaNamed, Q!At
<1> QED BY <1>1, <1>2, <1>3 DEF QuotaInv, Q!TypeOK, QuotaExact, Q!Restart

LEMMA QuotaStepInv == ASSUME Q!Sensible PROVE QuotaInv /\ [Q!Next]_Q!vars => QuotaInv'
<1> SUFFICES ASSUME QuotaInv, [Q!Next]_Q!vars PROVE QuotaInv'
  OBVIOUS
<1>1. ASSUME NEW r \in Requests, Q!Serve(r) PROVE QuotaInv'
  <2>1. CASE \E u \in Askers \cup {NoOne}, p \in Servers : Q!Ask(r, u, p)
    BY <2>1, QuotaAskInv
  <2>2. CASE Q!Consume(r)
    BY <2>2, QuotaConsumeInv
  <2>3. CASE Q!Spend(r)
    BY <2>3, QuotaSpendInv
  <2>4. CASE Q!Refuse(r)
    BY <2>4, QuotaEndInv DEF Q!Refuse
  <2>5. CASE Q!Model(r)
    BY <2>5, QuotaEndInv DEF Q!Model
  <2> QED BY <1>1, <2>1, <2>2, <2>3, <2>4, <2>5 DEF Q!Serve
<1>2. CASE Q!Midnight
  BY <1>2, QuotaMidnightInv
<1>3. CASE \E p \in Servers : Q!Restart(p)
  BY <1>3, QuotaRestartInv
<1>4. CASE UNCHANGED Q!vars
  BY <1>4 DEF Q!vars, QuotaInv, Q!TypeOK, QuotaNamed, Q!At, QuotaExact
<1> QED BY <1>1, <1>2, <1>3, <1>4 DEF Q!Next

-----------------------------------------------------------------------------
(* Readers: its operators are the library's                                *)

LEMMA ReadersOperators ==
  /\ \A S : R!Cardinality(S) = Cardinality(S)
  /\ \A f : R!Range(f) = Range(f)
  /\ \A s, i : R!RemoveAt(s, i) = RemoveAt(s, i)
BY DEF R!Cardinality, Cardinality, R!Range, Range, R!RemoveAt, RemoveAt

-----------------------------------------------------------------------------
(* Readers: sequences                                                      *)

\* Sequence s is the end of sequence t.
Ends(s, t) ==
  /\ Len(s) <= Len(t)
  /\ \A i \in 1 .. Len(s) : s[i] = t[Len(t) - Len(s) + i]

\* No element is there twice.
Distinct(s) == \A i, j \in 1 .. Len(s) : s[i] = s[j] => i = j

\* A sequence without its place i.
LEMMA Removing ==
  ASSUME NEW T, NEW s \in Seq(T), NEW i \in 1 .. Len(s)
  PROVE  /\ RemoveAt(s, i) \in Seq(T)
         /\ Len(RemoveAt(s, i)) = Len(s) - 1
         /\ \A j \in 1 .. Len(s) - 1 :
              RemoveAt(s, i)[j] = IF j < i THEN s[j] ELSE s[j + 1]
<1>1. Len(s) \in Nat /\ DOMAIN s = 1 .. Len(s) /\ \A j \in 1 .. Len(s) : s[j] \in T
  BY LenProperties, ElementOfSeq
<1> DEFINE a == SubSeq(s, 1, i - 1)
           b == SubSeq(s, i + 1, Len(s))
<1>2. /\ a \in Seq(T) /\ Len(a) = i - 1
      /\ \A j \in 1 .. i - 1 : a[j] = s[j]
  BY <1>1, SubSeqProperties
<1>3. /\ b \in Seq(T) /\ Len(b) = Len(s) - i
      /\ \A j \in 1 .. Len(s) - i : b[j] = s[i + j]
  <2>1. \A j \in i + 1 .. Len(s) : s[j] \in T
    BY <1>1
  <2>2. /\ b \in Seq(T) /\ Len(b) = IF i + 1 <= Len(s) THEN Len(s) - (i + 1) + 1 ELSE 0
        /\ \A j \in 1 .. Len(s) - (i + 1) + 1 : b[j] = s[i + 1 + j - 1]
    BY <1>1, <2>1, SubSeqProperties
  <2> HIDE DEF b
  <2>3. Len(b) = Len(s) - i
    <3>1. Len(s) \in Nat /\ i \in Int /\ i <= Len(s)
      BY <1>1
    <3>2. Len(b) = IF i + 1 <= Len(s) THEN Len(s) - (i + 1) + 1 ELSE 0
      BY <2>2
    <3> QED BY <3>1, <3>2
  <2>4. ASSUME NEW j \in 1 .. Len(s) - i PROVE b[j] = s[i + j]
    <3>1. i + 1 + j - 1 = i + j /\ j \in 1 .. Len(s) - (i + 1) + 1
      BY <1>1
    <3> QED BY <2>2, <3>1
  <2> QED BY <2>2, <2>3, <2>4
<1> HIDE DEF a, b
<1>4. /\ a \o b \in Seq(T) /\ Len(a \o b) = Len(s) - 1
      /\ \A j \in 1 .. Len(s) - 1 : (a \o b)[j] = IF j <= i - 1 THEN a[j] ELSE b[j - (i - 1)]
  <2>1. /\ a \o b \in Seq(T) /\ Len(a \o b) = Len(a) + Len(b)
        /\ \A j \in 1 .. Len(a) + Len(b) :
             (a \o b)[j] = IF j <= Len(a) THEN a[j] ELSE b[j - Len(a)]
    BY <1>2, <1>3, ConcatProperties
  <2>2. Len(a) + Len(b) = Len(s) - 1 /\ Len(a) = i - 1
    BY <1>1, <1>2, <1>3
  <2> QED BY <2>1, <2>2
<1>5. RemoveAt(s, i) = a \o b
  BY DEF RemoveAt, a, b
<1>6. ASSUME NEW j \in 1 .. Len(s) - 1
      PROVE  (a \o b)[j] = IF j < i THEN s[j] ELSE s[j + 1]
  <2>1. CASE j < i
    BY <1>1, <1>2, <1>4, <2>1
  <2>2. CASE ~(j < i)
    <3>1. j - (i - 1) \in 1 .. Len(s) - i /\ ~(j <= i - 1)
      BY <1>1, <2>2
    <3>2. b[j - (i - 1)] = s[i + (j - (i - 1))] /\ i + (j - (i - 1)) = j + 1
      BY <1>1, <1>3, <3>1
    <3> QED BY <1>4, <2>2, <3>1, <3>2
  <2> QED BY <2>1, <2>2
<1> QED BY <1>4, <1>5, <1>6

\* x comes after a sequence that S, one place at most, was taken out of.
LEMMA ReadersMoving ==
  ASSUME NEW T, NEW s \in Seq(T), NEW x \in T,
         NEW S \in SUBSET (1 .. Len(s)), \A i, j \in S : i = j
  PROVE  LET t == Append(R!Without(s, S), x)
         IN  /\ t \in Seq(T) /\ t[Len(t)] = x
             /\ \/ /\ S = {} /\ Len(t) = Len(s) + 1
                   /\ \A j \in 1 .. Len(s) : t[j] = s[j]
                \/ \E i \in S :
                     /\ S = {i} /\ Len(t) = Len(s)
                     /\ \A j \in 1 .. Len(s) - 1 : t[j] = IF j < i THEN s[j] ELSE s[j + 1]
<1> DEFINE u == R!Without(s, S)
           t == Append(u, x)
<1>1. Len(s) \in Nat
  BY LenProperties
<1>2. CASE S = {}
  <2>1. u = s
    BY <1>2 DEF R!Without
  <2>2. /\ t \in Seq(T) /\ Len(t) = Len(s) + 1 /\ t[Len(s) + 1] = x
        /\ \A j \in 1 .. Len(s) : t[j] = s[j]
    BY <2>1, AppendProperties
  <2> QED BY <1>2, <2>2
<1>3. CASE S # {}
  <2>1. PICK i \in S : S = {i}
    BY <1>3
  <2>2. (CHOOSE k \in S : TRUE) = i
    BY <2>1
  <2>3. u = RemoveAt(s, i)
    BY <1>3, <2>2, ReadersOperators DEF R!Without
  <2>4. /\ u \in Seq(T) /\ Len(u) = Len(s) - 1
        /\ \A j \in 1 .. Len(s) - 1 : u[j] = IF j < i THEN s[j] ELSE s[j + 1]
    BY <2>3, Removing
  <2> HIDE DEF u
  <2>5. /\ t \in Seq(T) /\ Len(t) = Len(u) + 1 /\ t[Len(u) + 1] = x
        /\ \A j \in 1 .. Len(u) : t[j] = u[j]
    BY <2>4, AppendProperties
  <2> HIDE DEF t
  <2>6. Len(t) = Len(s) /\ t[Len(t)] = x
    BY <1>1, <2>4, <2>5
  <2>7. \A j \in 1 .. Len(s) - 1 : t[j] = IF j < i THEN s[j] ELSE s[j + 1]
    BY <2>4, <2>5
  <2>8. \E k \in S :
          /\ S = {k} /\ Len(t) = Len(s)
          /\ \A j \in 1 .. Len(s) - 1 : t[j] = IF j < k THEN s[j] ELSE s[j + 1]
    BY <2>1, <2>6, <2>7
  <2> QED BY <2>5, <2>6, <2>8 DEF t, u
<1> QED BY <1>2, <1>3

\* Sequence t has k at its end, and else the elements of s in their order.
ReadersUsed(s, t, k) ==
  \/ /\ Len(t) = Len(s) + 1
     /\ \A j \in 1 .. Len(s) : t[j] = s[j] /\ s[j] # k
  \/ \E i \in 1 .. Len(s) :
       /\ s[i] = k /\ Len(t) = Len(s)
       /\ \A j \in 1 .. Len(s) - 1 : t[j] = IF j < i THEN s[j] ELSE s[j + 1]

\* What is used now comes last, once.
LEMMA ReadersLatestIsDistinct ==
  ASSUME NEW T, NEW s \in Seq(T), Distinct(s), NEW k \in T
  PROVE  LET t == R!Latest(s, k)
         IN  /\ t \in Seq(T) /\ Distinct(t) /\ t[Len(t)] = k
             /\ ReadersUsed(s, t, k)
<1> DEFINE S == {i \in DOMAIN s : s[i] = k}
           t == R!Latest(s, k)
<1>1. Len(s) \in Nat /\ DOMAIN s = 1 .. Len(s)
  BY LenProperties
<1>2. S \in SUBSET (1 .. Len(s)) /\ \A i, j \in S : i = j
  BY <1>1 DEF Distinct
<1>3. t = Append(R!Without(s, S), k)
  BY DEF R!Latest
<1> HIDE DEF t
<1>4. /\ t \in Seq(T) /\ t[Len(t)] = k
      /\ \/ /\ S = {} /\ Len(t) = Len(s) + 1
            /\ \A j \in 1 .. Len(s) : t[j] = s[j]
         \/ \E i \in S :
              /\ S = {i} /\ Len(t) = Len(s)
              /\ \A j \in 1 .. Len(s) - 1 : t[j] = IF j < i THEN s[j] ELSE s[j + 1]
  <2> HIDE DEF S
  <2> QED BY <1>2, <1>3, ReadersMoving
<1>5. CASE S = {} /\ Len(t) = Len(s) + 1 /\ \A j \in 1 .. Len(s) : t[j] = s[j]
  <2>1. \A j \in 1 .. Len(s) : s[j] # k
    BY <1>1, <1>5
  <2>2. Distinct(t)
    <3> SUFFICES ASSUME NEW x \in 1 .. Len(t), NEW y \in 1 .. Len(t), t[x] = t[y], x < y
                 PROVE  FALSE
      BY <1>1, <1>5 DEF Distinct
    <3>1. x \in 1 .. Len(s) /\ (y \in 1 .. Len(s) \/ y = Len(t))
      BY <1>1, <1>5
    <3>2. t[x] = s[x] /\ s[x] # k
      BY <1>5, <2>1, <3>1
    <3>3. y \in 1 .. Len(s) /\ t[y] = s[y]
      BY <1>4, <1>5, <3>1, <3>2
    <3>4. x = y
      BY <3>1, <3>2, <3>3 DEF Distinct
    <3> QED BY <1>1, <3>1, <3>4
  <2> QED BY <1>4, <1>5, <2>1, <2>2 DEF t, ReadersUsed
<1>6. ASSUME NEW i \in S, Len(t) = Len(s),
             \A j \in 1 .. Len(s) - 1 : t[j] = IF j < i THEN s[j] ELSE s[j + 1]
      PROVE  Distinct(t) /\ i \in 1 .. Len(s) /\ s[i] = k
  <2>1. i \in 1 .. Len(s) /\ s[i] = k
    BY <1>1
  <2>2. Distinct(t)
    <3> SUFFICES ASSUME NEW x \in 1 .. Len(t), NEW y \in 1 .. Len(t), t[x] = t[y], x < y
                 PROVE  FALSE
      BY <1>1, <1>6 DEF Distinct
    <3>1. x \in 1 .. Len(s) - 1
      BY <1>1, <1>6
    <3> DEFINE x1 == IF x < i THEN x ELSE x + 1
    <3>2. x1 \in 1 .. Len(s) /\ x1 # i /\ t[x] = s[x1]
      BY <1>1, <1>6, <3>1
    <3>3. CASE y = Len(t)
      BY <1>4, <2>1, <3>2, <3>3 DEF Distinct
    <3>4. CASE y # Len(t)
      <4> DEFINE y1 == IF y < i THEN y ELSE y + 1
      <4>1. y \in 1 .. Len(s) - 1
        <5>1. y \in 1 .. Len(t) /\ y # Len(t) /\ Len(t) = Len(s) /\ Len(s) \in Nat
          BY <1>1, <1>6, <3>4
        <5> QED BY <5>1
      <4>2. y1 \in 1 .. Len(s) /\ t[y] = s[y1]
        BY <1>1, <1>6, <4>1
      <4>3. x1 # y1
        BY <1>1, <3>1, <4>1
      <4> QED BY <3>2, <4>2, <4>3 DEF Distinct
    <3> QED BY <3>3, <3>4
  <2> QED BY <2>1, <2>2
<1>7. Distinct(t) /\ ReadersUsed(s, t, k)
  BY <1>4, <1>5, <1>6 DEF ReadersUsed
<1> QED BY <1>4, <1>7 DEF t

-----------------------------------------------------------------------------
(* Readers: views                                                          *)

\* Of n elements, the capacity c is what can be kept.
AtMost(n, c) == IF n < c THEN n ELSE c

\* The post remembers the viewers that were counted last, each once.
ReadersRemembersLatest ==
  /\ Ends(viewers, counted) /\ Distinct(viewers)
  /\ Len(viewers) = AtMost(Len(counted), Remembered)

\* $slice keeps the newest.
LEMMA ReadersNewestEnds ==
  ASSUME NEW T, NEW s \in Seq(T), Remembered \in Nat
  PROVE  /\ R!Newest(s) \in Seq(T) /\ Ends(R!Newest(s), s)
         /\ Len(R!Newest(s)) = AtMost(Len(s), Remembered)
<1>1. Len(s) \in Nat /\ \A i \in 1 .. Len(s) : s[i] \in T
  BY LenProperties, ElementOfSeq
<1>2. CASE Len(s) <= Remembered
  BY <1>1, <1>2 DEF R!Newest, Ends, AtMost
<1>3. CASE ~(Len(s) <= Remembered)
  <2> DEFINE m == Len(s) - Remembered + 1
             t == SubSeq(s, m, Len(s))
  <2>1. m \in 1 .. Len(s) + 1 /\ m \in Int
    BY <1>1, <1>3
  <2>2. \A i \in m .. Len(s) : s[i] \in T
    BY <1>1, <2>1
  <2> HIDE DEF m
  <2>3. /\ t \in Seq(T)
        /\ Len(t) = IF m <= Len(s) THEN Len(s) - m + 1 ELSE 0
        /\ \A i \in 1 .. Len(s) - m + 1 : t[i] = s[m + i - 1]
    BY <1>1, <2>1, <2>2, SubSeqProperties
  <2> HIDE DEF t
  <2>4. Len(t) = Remembered
    <3>1. Len(t) = IF m <= Len(s) THEN Len(s) - m + 1 ELSE 0
      BY <2>3
    <3> QED BY <1>1, <1>3, <3>1 DEF m
  <2>5. \A i \in 1 .. Len(t) : t[i] = s[Len(s) - Len(t) + i]
    <3> SUFFICES ASSUME NEW i \in 1 .. Len(t) PROVE t[i] = s[Len(s) - Len(t) + i]
      OBVIOUS
    <3>1. i \in 1 .. Len(s) - m + 1 /\ m + i - 1 = Len(s) - Len(t) + i
      BY <1>1, <1>3, <2>4 DEF m
    <3> QED BY <2>3, <3>1
  <2>6. R!Newest(s) = t
    BY <1>3 DEF R!Newest, t, m
  <2>7. Remembered <= Len(s) /\ AtMost(Len(s), Remembered) = Remembered
    BY <1>1, <1>3 DEF AtMost
  <2> QED BY <2>3, <2>4, <2>5, <2>6, <2>7 DEF Ends
<1> QED BY <1>2, <1>3

\* An end of an end is an end.
LEMMA EndsTransitive ==
  ASSUME NEW s, NEW t, NEW u, Len(s) \in Nat, Len(t) \in Nat, Len(u) \in Nat,
         Ends(s, t), Ends(t, u)
  PROVE  Ends(s, u)
<1> SUFFICES ASSUME NEW i \in 1 .. Len(s) PROVE s[i] = u[Len(u) - Len(s) + i]
  BY DEF Ends
<1>1. Len(t) - Len(s) + i \in 1 .. Len(t)
  BY DEF Ends
<1>2. s[i] = t[Len(t) - Len(s) + i]
  BY DEF Ends
<1>3. t[Len(t) - Len(s) + i] = u[Len(u) - Len(t) + (Len(t) - Len(s) + i)]
  BY <1>1 DEF Ends
<1>4. Len(u) - Len(t) + (Len(t) - Len(s) + i) = Len(u) - Len(s) + i
  OBVIOUS
<1> QED BY <1>2, <1>3, <1>4

\* An end of a sequence without repetition has none.
LEMMA EndIsDistinct ==
  ASSUME NEW s, NEW t, Len(s) \in Nat, Len(t) \in Nat, Ends(s, t), Distinct(t)
  PROVE  Distinct(s)
<1> SUFFICES ASSUME NEW i \in 1 .. Len(s), NEW j \in 1 .. Len(s), s[i] = s[j]
             PROVE  i = j
  BY DEF Distinct
<1> DEFINE d == Len(t) - Len(s)
<1>1. d \in Nat /\ d + i \in 1 .. Len(t) /\ d + j \in 1 .. Len(t)
  BY DEF Ends
<1>2. t[d + i] = t[d + j]
  BY DEF Ends
<1>3. d + i = d + j
  BY <1>1, <1>2 DEF Distinct
<1> QED BY <1>1, <1>3

\* Without repetition, there are as many elements as places.
LEMMA DistinctCounts ==
  ASSUME NEW T, NEW s \in Seq(T), Distinct(s)
  PROVE  IsFiniteSet(Range(s)) /\ Cardinality(Range(s)) = Len(s)
<1>1. Len(s) \in Nat /\ DOMAIN s = 1 .. Len(s) /\ s \in [1 .. Len(s) -> T]
  BY LenProperties
<1>2. s \in [1 .. Len(s) -> Range(s)]
  BY <1>1 DEF Range
<1>3. s \in Surjection(1 .. Len(s), Range(s))
  BY <1>1, <1>2 DEF Surjection, Range
<1>4. s \in Injection(1 .. Len(s), Range(s))
  BY <1>1, <1>2 DEF Injection, IsInjective, Distinct
<1>5. IsFiniteSet(1 .. Len(s)) /\ Cardinality(1 .. Len(s)) = Len(s)
  BY <1>1, FS_Interval
<1> QED BY <1>3, <1>4, <1>5, FS_Surjection

\* The elements at some places of a sequence are finitely many.
LEMMA WindowIsFinite ==
  ASSUME NEW s, NEW a \in Int, NEW b \in Int
  PROVE  IsFiniteSet({s[k] : k \in a .. b})
<1> DEFINE f == [k \in a .. b |-> s[k]]
           S == {s[k] : k \in a .. b}
<1>1. f \in Surjection(a .. b, S)
  BY DEF Surjection
<1>2. IsFiniteSet(a .. b)
  BY FS_Interval
<1> HIDE DEF f, S
<1>3. IsFiniteSet(S)
  BY <1>1, <1>2, FS_Surjection
<1> QED BY <1>3 DEF S

\* What the views keep of the post.
ReadersViewsInv ==
  /\ viewers \in Seq(R!Viewer) /\ counted \in Seq(R!Viewer) /\ views = Len(counted)
  /\ ReadersRemembersLatest /\ R!ViewersCountOnce

\* A viewer the post does not remember, that is the last counted one.
LEMMA ReadersCountsViewer ==
  ASSUME Remembered \in Nat, NEW k \in R!Viewer, ReadersViewsInv, R!RecordView(k)
  PROVE  ReadersViewsInv'
<1> DEFINE n == Len(counted)
           m == Len(viewers)
           v == Append(viewers, k)
<1>1. n \in Nat /\ m \in Nat /\ m <= n /\ m = AtMost(n, Remembered)
  BY LenProperties DEF ReadersViewsInv, ReadersRemembersLatest, Ends
<1>2. /\ v \in Seq(R!Viewer) /\ Len(v) = m + 1 /\ v[m + 1] = k
      /\ \A i \in 1 .. m : v[i] = viewers[i]
  BY AppendProperties DEF ReadersViewsInv
<1>3. /\ counted' = Append(counted, k)
      /\ counted' \in Seq(R!Viewer) /\ Len(counted') = n + 1 /\ counted'[n + 1] = k
      /\ \A i \in 1 .. n : counted'[i] = counted[i]
  BY AppendProperties DEF ReadersViewsInv, R!RecordView
<1>4. /\ viewers' \in Seq(R!Viewer) /\ Ends(viewers', v)
      /\ Len(viewers') = AtMost(Len(v), Remembered)
  BY <1>2, ReadersNewestEnds DEF R!RecordView
<1>5. DOMAIN viewers = 1 .. m /\ DOMAIN counted = 1 .. n /\ DOMAIN counted' = 1 .. n + 1
  BY <1>3, LenProperties DEF ReadersViewsInv
<1>6. \A i \in 1 .. m : viewers[i] # k
  BY <1>5, ReadersOperators DEF R!RecordView, Range
<1>7. Distinct(v)
  <2> SUFFICES ASSUME NEW i \in 1 .. Len(v), NEW j \in 1 .. Len(v), v[i] = v[j] PROVE i = j
    BY DEF Distinct
  <2> HIDE DEF m, n, v
  <2>1. (i \in 1 .. m \/ i = m + 1) /\ (j \in 1 .. m \/ j = m + 1)
    BY <1>1, <1>2
  <2>2. \A x, y \in 1 .. m : viewers[x] = viewers[y] => x = y
    BY DEF ReadersViewsInv, ReadersRemembersLatest, Distinct, m
  <2> QED BY <1>2, <1>6, <2>1, <2>2
<1>8. Ends(v, counted')
  <2> HIDE DEF m, n, v
  <2>1. Len(v) <= Len(counted')
    BY <1>1, <1>2, <1>3
  <2> SUFFICES ASSUME NEW i \in 1 .. Len(v)
               PROVE  v[i] = counted'[Len(counted') - Len(v) + i]
    BY <2>1 DEF Ends
  <2>2. CASE i = m + 1
    <3>1. Len(counted') - Len(v) + i = n + 1
      BY <1>1, <1>2, <1>3, <2>2
    <3> QED BY <1>2, <1>3, <2>2, <3>1
  <2>3. CASE i \in 1 .. m
    <3>1. Len(counted') - Len(v) + i = n - m + i /\ n - m + i \in 1 .. n
      BY <1>1, <1>2, <1>3, <2>3
    <3>2. viewers[i] = counted[n - m + i]
      BY <2>3 DEF ReadersViewsInv, ReadersRemembersLatest, Ends, m, n
    <3> QED BY <1>2, <1>3, <2>3, <3>1, <3>2
  <2> QED BY <1>1, <1>2, <2>2, <2>3
<1>9. ReadersRemembersLatest'
  <2>1. Len(viewers') \in Nat
    BY <1>4, LenProperties
  <2>2. Len(viewers') = AtMost(Len(counted'), Remembered)
    <3>1. Len(viewers') = AtMost(m + 1, Remembered) /\ Len(counted') = n + 1
      BY <1>2, <1>3, <1>4
    <3> HIDE DEF m, n
    <3> QED BY <1>1, <3>1 DEF AtMost
  <2>3. Ends(viewers', counted')
    <3>1. Len(v) \in Nat /\ Len(counted') \in Nat
      BY <1>1, <1>2, <1>3
    <3> HIDE DEF v
    <3> QED BY <1>4, <1>8, <2>1, <3>1, EndsTransitive
  <2>4. Distinct(viewers')
    <3>1. Len(v) \in Nat
      BY <1>1, <1>2
    <3> HIDE DEF v
    <3> QED BY <1>4, <1>7, <2>1, <3>1, EndIsDistinct
  <2> QED BY <2>2, <2>3, <2>4 DEF ReadersRemembersLatest, Ends, Distinct
<1>10. R!ViewersCountOnce'
  <2> SUFFICES ASSUME NEW i \in 1 .. n + 1, NEW j \in 1 .. n + 1, i < j,
                      counted'[i] = counted'[j]
               PROVE  Cardinality({counted'[x] : x \in i + 1 .. j - 1}) >= Remembered
    BY <1>5, ReadersOperators DEF R!ViewersCountOnce
  <2> HIDE DEF m, n
  <2> DEFINE S == {counted[x] : x \in i + 1 .. j - 1}
  <2>1. {counted'[x] : x \in i + 1 .. j - 1} = S
    <3>1. \A x \in i + 1 .. j - 1 : x \in 1 .. n
      BY <1>1
    <3> QED BY <1>3, <3>1
  <2>2. i \in 1 .. n /\ counted'[i] = counted[i]
    BY <1>1, <1>3
  <2>3. CASE j \in 1 .. n
    <3>1. counted[i] = counted[j]
      BY <1>3, <2>2, <2>3
    <3> QED BY <1>5, <2>1, <2>2, <2>3, <3>1, ReadersOperators
           DEF ReadersViewsInv, R!ViewersCountOnce
  <2>4. CASE j = n + 1
    <3>1. counted[i] = k
      BY <1>3, <2>2, <2>4
    <3>2. i <= n - m
      <4> SUFFICES ASSUME n - m < i PROVE FALSE
        BY <1>1
      <4>1. i - (n - m) \in 1 .. m /\ n - m + (i - (n - m)) = i
        BY <1>1, <2>2
      <4>2. viewers[i - (n - m)] = counted[n - m + (i - (n - m))]
        BY <4>1 DEF ReadersViewsInv, ReadersRemembersLatest, Ends, m, n
      <4> QED BY <1>6, <3>1, <4>1, <4>2
    <3>3. m = Remembered
      BY <1>1, <2>2, <3>2 DEF AtMost
    <3>4. IsFiniteSet(Range(viewers)) /\ Cardinality(Range(viewers)) = m
      BY DistinctCounts DEF ReadersViewsInv, ReadersRemembersLatest, m
    <3>5. Range(viewers) \subseteq S
      <4> SUFFICES ASSUME NEW x \in 1 .. m PROVE viewers[x] \in S
        BY <1>5 DEF Range
      <4>1. n - m + x \in i + 1 .. j - 1
        BY <1>1, <2>2, <2>4, <3>2
      <4>2. viewers[x] = counted[n - m + x]
        BY DEF ReadersViewsInv, ReadersRemembersLatest, Ends, m, n
      <4> QED BY <4>1, <4>2
    <3>6. IsFiniteSet(S)
      <4>1. i + 1 \in Int /\ j - 1 \in Int
        BY <1>1
      <4> QED BY <4>1, WindowIsFinite
    <3>7. Cardinality(Range(viewers)) <= Cardinality(S) /\ Cardinality(S) \in Nat
      <4> HIDE DEF S
      <4> QED BY <3>5, <3>6, FS_Subset, FS_CardinalityType
    <3> HIDE DEF S
    <3> QED BY <2>1, <3>3, <3>4, <3>7
  <2> QED BY <1>1, <2>3, <2>4
<1>11. views' = Len(counted')
  BY <1>3 DEF ReadersViewsInv, R!RecordView
<1> QED BY <1>3, <1>4, <1>9, <1>10, <1>11 DEF ReadersViewsInv

-----------------------------------------------------------------------------
(* Readers: answers                                                        *)

ReadersKeys == (0 .. MaxVersion) \X Questions

\* The answers of a are of the keys at the end of u, in their order.
ReadersKeysEnd(a, u) ==
  /\ Len(a) <= Len(u)
  /\ \A i \in 1 .. Len(a) : a[i].key = u[Len(u) - Len(a) + i]

\* Every answer is drawn from the version of its key.
ReadersFromKeys(a) == \A i \in 1 .. Len(a) : a[i].from = a[i].key[1]

\* Cache a holds the answers of the keys used last, u being all of them.
ReadersCached(a, u) ==
  /\ a \in Seq(R!Answer) /\ u \in Seq(ReadersKeys) /\ Distinct(u)
  /\ ReadersKeysEnd(a, u) /\ ReadersFromKeys(a) /\ Len(a) = AtMost(Len(u), Capacity)

\* An answer that becomes the newest of the cache: the cache may then hold
\* one too many.
LEMMA ReadersRenewing ==
  ASSUME NEW a, NEW u, ReadersCached(a, u), NEW x \in R!Answer, x.from = x.key[1], Capacity \in Nat
  PROVE  LET b == Append(R!Drop(a, x.key), x)
             v == R!Latest(u, x.key)
         IN  /\ b \in Seq(R!Answer) /\ v \in Seq(ReadersKeys) /\ Distinct(v)
             /\ ReadersKeysEnd(b, v) /\ ReadersFromKeys(b)
             /\ \/ /\ \E i \in 1 .. Len(a) : a[i].key = x.key
                   /\ Len(b) = Len(a) /\ Len(v) = Len(u)
                \/ /\ \A i \in 1 .. Len(a) : a[i].key # x.key
                   /\ Len(b) = Len(a) + 1
                   /\ \/ Len(v) = Len(u) + 1
                      \/ Len(v) = Len(u) /\ Len(a) < Len(u)
<1> DEFINE k == x.key
           n == Len(a)
           l == Len(u)
           S == {i \in DOMAIN a : a[i].key = k}
           b == Append(R!Drop(a, k), x)
           v == R!Latest(u, k)
<1>1. n \in Nat /\ l \in Nat /\ n <= l /\ DOMAIN a = 1 .. n
  BY LenProperties DEF ReadersCached, ReadersKeysEnd
<1>2. k \in ReadersKeys
  BY DEF R!Answer, ReadersKeys
<1>3. \A i \in 1 .. n : l - n + i \in 1 .. l /\ a[i].key = u[l - n + i]
  BY <1>1 DEF ReadersCached, ReadersKeysEnd
<1>4. S \in SUBSET (1 .. n) /\ \A i, j \in S : i = j
  <2>1. ASSUME NEW i \in 1 .. n, NEW j \in 1 .. n, a[i].key = a[j].key
        PROVE  l - n + i = l - n + j
    <3>1. u[l - n + i] = u[l - n + j]
      BY <1>3, <2>1
    <3>2. l - n + i \in 1 .. l /\ l - n + j \in 1 .. l
      BY <1>3
    <3> QED BY <3>1, <3>2 DEF ReadersCached, Distinct
  <2>2. \A i, j \in 1 .. n : a[i].key = a[j].key => i = j
    BY <1>1, <2>1
  <2> QED BY <1>1, <2>2
<1>5. b = Append(R!Without(a, S), x)
  BY DEF R!Drop
<1>6. /\ b \in Seq(R!Answer) /\ b[Len(b)] = x
      /\ \/ /\ S = {} /\ Len(b) = n + 1
            /\ \A j \in 1 .. n : b[j] = a[j]
         \/ \E i \in S :
              /\ S = {i} /\ Len(b) = n
              /\ \A j \in 1 .. n - 1 : b[j] = IF j < i THEN a[j] ELSE a[j + 1]
  <2>1. a \in Seq(R!Answer)
    BY DEF ReadersCached
  <2> HIDE DEF S, b
  <2> QED BY <1>4, <1>5, <2>1, ReadersMoving
<1>7. /\ v \in Seq(ReadersKeys) /\ Distinct(v) /\ v[Len(v)] = k
      /\ \/ /\ Len(v) = l + 1
            /\ \A j \in 1 .. l : v[j] = u[j] /\ u[j] # k
         \/ \E i \in 1 .. l :
              /\ u[i] = k /\ Len(v) = l
              /\ \A j \in 1 .. l - 1 : v[j] = IF j < i THEN u[j] ELSE u[j + 1]
  <2>1. u \in Seq(ReadersKeys) /\ Distinct(u)
    BY DEF ReadersCached
  <2> HIDE DEF k
  <2>2. R!Latest(u, k) \in Seq(ReadersKeys) /\ Distinct(R!Latest(u, k))
    BY <1>2, <2>1, ReadersLatestIsDistinct
  <2>3. R!Latest(u, k)[Len(R!Latest(u, k))] = k
    BY <1>2, <2>1, ReadersLatestIsDistinct
  <2>4. ReadersUsed(u, R!Latest(u, k), k)
    BY <1>2, <2>1, ReadersLatestIsDistinct
  <2> QED BY <2>2, <2>3, <2>4 DEF ReadersUsed
<1>8. \A i \in 1 .. n : a[i].from = a[i].key[1]
  BY DEF ReadersCached, ReadersFromKeys
<1> HIDE DEF b, v, n, l
<1>9. CASE S = {} /\ Len(b) = n + 1 /\ \A j \in 1 .. n : b[j] = a[j]
  <2>1. \A i \in 1 .. n : a[i].key # k
    BY <1>1, <1>9
  <2>2. ASSUME NEW i \in 1 .. n + 1 PROVE b[i].from = b[i].key[1]
    BY <1>1, <1>6, <1>8, <1>9
  <2>3. CASE Len(v) = l + 1 /\ \A j \in 1 .. l : v[j] = u[j] /\ u[j] # k
    <3>1. ASSUME NEW i \in 1 .. n + 1 PROVE b[i].key = v[(l + 1) - (n + 1) + i]
      <4>1. CASE i = n + 1
        <5>1. (l + 1) - (n + 1) + i = l + 1
          BY <1>1, <4>1
        <5> QED BY <1>6, <1>7, <1>9, <2>3, <4>1, <5>1
      <4>2. CASE i \in 1 .. n
        <5>1. (l + 1) - (n + 1) + i = l - n + i
          BY <1>1
        <5> QED BY <1>3, <1>9, <2>3, <4>2, <5>1
      <4> QED BY <1>1, <4>1, <4>2
    <3>2. ReadersKeysEnd(b, v)
      BY <1>1, <1>9, <2>3, <3>1 DEF ReadersKeysEnd
    <3> QED BY <1>6, <1>7, <1>9, <2>1, <2>2, <2>3, <3>2 DEF ReadersFromKeys, b, v, n, l, k
  <2>4. ASSUME NEW i0 \in 1 .. l, u[i0] = k, Len(v) = l,
               \A j \in 1 .. l - 1 : v[j] = IF j < i0 THEN u[j] ELSE u[j + 1]
        PROVE  ReadersKeysEnd(b, v) /\ n < l
    <3>1. i0 <= l - n
      <4> SUFFICES ASSUME l - n < i0 PROVE FALSE
        BY <1>1
      <4>1. i0 - (l - n) \in 1 .. n /\ l - n + (i0 - (l - n)) = i0
        BY <1>1
      <4> QED BY <1>3, <2>1, <2>4, <4>1
    <3>2. n < l
      BY <1>1, <3>1
    <3>3. ASSUME NEW i \in 1 .. n + 1 PROVE b[i].key = v[l - (n + 1) + i]
      <4>1. CASE i = n + 1
        <5>1. l - (n + 1) + i = l
          BY <1>1, <4>1
        <5> QED BY <1>6, <1>7, <1>9, <2>4, <4>1, <5>1
      <4>2. CASE i \in 1 .. n
        <5> DEFINE j == l - (n + 1) + i
        <5>1. j \in 1 .. l - 1 /\ ~(j < i0) /\ j + 1 = l - n + i
          BY <1>1, <3>1, <3>2, <4>2
        <5>2. v[j] = u[j + 1]
          BY <2>4, <5>1
        <5> QED BY <1>3, <1>9, <4>2, <5>1, <5>2
      <4> QED BY <1>1, <4>1, <4>2
    <3> QED BY <1>1, <1>9, <2>4, <3>2, <3>3 DEF ReadersKeysEnd
  <2>5. CASE \E i \in 1 .. l :
               /\ u[i] = k /\ Len(v) = l
               /\ \A j \in 1 .. l - 1 : v[j] = IF j < i THEN u[j] ELSE u[j + 1]
    <3>1. ReadersKeysEnd(b, v) /\ n < l /\ Len(v) = l
      BY <2>4, <2>5
    <3> QED BY <1>6, <1>7, <1>9, <2>1, <2>2, <3>1 DEF ReadersFromKeys, b, v, n, l, k
  <2> QED BY <1>7, <2>3, <2>5
<1>10. ASSUME NEW i1 \in S, Len(b) = n,
              \A j \in 1 .. n - 1 : b[j] = IF j < i1 THEN a[j] ELSE a[j + 1]
       PROVE  /\ ReadersKeysEnd(b, v) /\ ReadersFromKeys(b) /\ Len(v) = l
              /\ i1 \in 1 .. n /\ a[i1].key = k
  <2>1. i1 \in 1 .. n /\ a[i1].key = k
    BY <1>1, <1>10
  <2>2. l - n + i1 \in 1 .. l /\ u[l - n + i1] = k
    BY <1>3, <2>1
  <2>3. /\ Len(v) = l
        /\ \A j \in 1 .. l - 1 : v[j] = IF j < l - n + i1 THEN u[j] ELSE u[j + 1]
    <3>1. PICK i \in 1 .. l :
              /\ u[i] = k /\ Len(v) = l
              /\ \A j \in 1 .. l - 1 : v[j] = IF j < i THEN u[j] ELSE u[j + 1]
      BY <1>7, <2>2
    <3>2. i = l - n + i1
      BY <2>2, <3>1 DEF ReadersCached, Distinct, l
    <3> QED BY <3>1, <3>2
  <2>4. ASSUME NEW i \in 1 .. n PROVE b[i].key = v[l - n + i] /\ b[i].from = b[i].key[1]
    <3>1. CASE i = n
      <4>1. l - n + i = l
        BY <1>1, <3>1
      <4> QED BY <1>6, <1>7, <1>10, <2>3, <3>1, <4>1
    <3>2. CASE i # n
      <4> DEFINE j == l - n + i
      <4>1. i \in 1 .. n - 1 /\ j \in 1 .. l - 1 /\ i + 1 \in 1 .. n /\ j + 1 = l - n + (i + 1)
        BY <1>1, <3>2
      <4>2. j < l - n + i1 <=> i < i1
        BY <1>1, <2>1
      <4>3. a[i].key = u[j] /\ a[i + 1].key = u[j + 1]
        BY <1>3, <4>1
      <4>4. v[j] = IF i < i1 THEN u[j] ELSE u[j + 1]
        BY <2>3, <4>1, <4>2
      <4>5. b[i] = IF i < i1 THEN a[i] ELSE a[i + 1]
        BY <1>10, <4>1
      <4> QED BY <1>8, <4>1, <4>3, <4>4, <4>5
    <3> QED BY <3>1, <3>2
  <2> QED BY <1>1, <1>10, <2>1, <2>3, <2>4 DEF ReadersKeysEnd, ReadersFromKeys
<1>11. CASE \E i \in S :
              /\ S = {i} /\ Len(b) = n
              /\ \A j \in 1 .. n - 1 : b[j] = IF j < i THEN a[j] ELSE a[j + 1]
  <2>1. /\ ReadersKeysEnd(b, v) /\ ReadersFromKeys(b) /\ Len(v) = l /\ Len(b) = n
        /\ \E i \in 1 .. n : a[i].key = k
    BY <1>10, <1>11
  <2> QED BY <1>6, <1>7, <2>1 DEF b, v, n, l, k
<1> QED BY <1>6, <1>9, <1>11

\* get keeps the cache.
LEMMA ReadersGetsLatest ==
  ASSUME NEW a, NEW u, ReadersCached(a, u), NEW i \in 1 .. Len(a), Capacity \in Nat
  PROVE  ReadersCached(R!Got(a, a[i]), R!Latest(u, a[i].key))
<1> DEFINE x == a[i]
           b == Append(R!Drop(a, x.key), x)
           v == R!Latest(u, x.key)
<1>1. x \in R!Answer
  BY ElementOfSeq DEF ReadersCached
<1>2. x.from = x.key[1]
  BY DEF ReadersCached, ReadersFromKeys
<1>3. \E j \in 1 .. Len(a) : a[j].key = x.key
  OBVIOUS
<1> HIDE DEF x
<1>4. /\ b \in Seq(R!Answer) /\ v \in Seq(ReadersKeys) /\ Distinct(v)
      /\ ReadersKeysEnd(b, v) /\ ReadersFromKeys(b) /\ Len(b) = Len(a) /\ Len(v) = Len(u)
  BY <1>1, <1>2, <1>3, ReadersRenewing
<1> QED BY <1>4 DEF ReadersCached, R!Got, x

\* set keeps the cache: what is beyond its capacity is its oldest answer.
LEMMA ReadersPutsLatest ==
  ASSUME NEW a, NEW u, ReadersCached(a, u), NEW x \in R!Answer, x.from = x.key[1], Capacity \in Nat
  PROVE  ReadersCached(R!Put(a, x), R!Latest(u, x.key))
<1> DEFINE b == Append(R!Drop(a, x.key), x)
           v == R!Latest(u, x.key)
<1>1. Len(a) \in Nat /\ Len(u) \in Nat /\ Len(a) = AtMost(Len(u), Capacity)
  BY LenProperties DEF ReadersCached
<1>2. /\ b \in Seq(R!Answer) /\ v \in Seq(ReadersKeys) /\ Distinct(v)
      /\ ReadersKeysEnd(b, v) /\ ReadersFromKeys(b)
      /\ \/ Len(b) = Len(a) /\ Len(v) = Len(u)
         \/ /\ Len(b) = Len(a) + 1
            /\ \/ Len(v) = Len(u) + 1
               \/ Len(v) = Len(u) /\ Len(a) < Len(u)
  BY ReadersRenewing
<1>3. R!Put(a, x) = IF Len(b) > Capacity THEN Tail(b) ELSE b
  BY DEF R!Put
<1> HIDE DEF b, v
<1>4. CASE ~(Len(b) > Capacity)
  <2>1. Len(b) = AtMost(Len(v), Capacity)
    BY <1>1, <1>2, <1>4 DEF AtMost
  <2> QED BY <1>2, <1>3, <1>4, <2>1 DEF ReadersCached, v
<1>5. CASE Len(b) > Capacity
  <2> DEFINE c == Tail(b)
  <2>1. Len(b) = Capacity + 1 /\ Len(v) >= Capacity + 1 /\ Len(v) \in Nat
    <3>1. Len(b) <= Len(v)
      BY <1>2 DEF ReadersKeysEnd
    <3> QED BY <1>1, <1>2, <1>5, <3>1 DEF AtMost
  <2>2. b # <<>>
    <3>1. Len(<<>>) = 0
      BY EmptySeq
    <3> QED BY <2>1, <3>1
  <2>3. /\ c \in Seq(R!Answer) /\ Len(c) = Capacity
        /\ \A i \in 1 .. Capacity : c[i] = b[i + 1]
    <3>1. c \in Seq(R!Answer) /\ Len(c) = Len(b) - 1 /\ \A i \in 1 .. Len(c) : c[i] = b[i + 1]
      BY <1>2, <2>2, HeadTailProperties
    <3>2. Len(c) = Capacity
      BY <2>1, <3>1
    <3> QED BY <3>1, <3>2
  <2> HIDE DEF c
  <2>4. ReadersKeysEnd(c, v)
    <3> SUFFICES ASSUME NEW i \in 1 .. Capacity PROVE c[i].key = v[Len(v) - Capacity + i]
      BY <2>1, <2>3 DEF ReadersKeysEnd
    <3>1. b[i + 1].key = v[Len(v) - Len(b) + (i + 1)]
      <4>1. i + 1 \in 1 .. Len(b)
        BY <2>1
      <4> QED BY <1>2, <4>1 DEF ReadersKeysEnd
    <3>2. Len(v) - Len(b) + (i + 1) = Len(v) - Capacity + i
      BY <2>1
    <3> QED BY <2>3, <3>1, <3>2
  <2>5. ReadersFromKeys(c)
    <3> SUFFICES ASSUME NEW i \in 1 .. Capacity PROVE c[i].from = c[i].key[1]
      BY <2>3 DEF ReadersFromKeys
    <3>1. i + 1 \in 1 .. Len(b)
      BY <2>1
    <3> QED BY <1>2, <2>3, <3>1 DEF ReadersFromKeys
  <2>6. Len(c) = AtMost(Len(v), Capacity)
    BY <2>1, <2>3 DEF AtMost
  <2> QED BY <1>2, <1>3, <1>5, <2>3, <2>4, <2>5, <2>6 DEF ReadersCached, c, v
<1> QED BY <1>4, <1>5

-----------------------------------------------------------------------------
(* Readers: the invariant                                                  *)

ReadersCachesInv ==
  /\ answers \in [Caches -> Seq(R!Answer)] /\ used \in [Caches -> Seq(ReadersKeys)]
  /\ \A p \in Caches : ReadersCached(answers[p], used[p])
  /\ req \in [Requests -> R!Request] /\ stale = FALSE

\* The post has its versions and its days.
ReadersPostInv == day \in 1 .. MaxDay /\ published \in BOOLEAN /\ version \in 0 .. MaxVersion

ReadersInv == ReadersPostInv /\ ReadersViewsInv /\ ReadersCachesInv

LEMMA ReadersIdleIsRequest == ASSUME R!Sensible PROVE R!Idle \in R!Request
<1>1. /\ (CHOOSE p \in Caches : TRUE) \in Caches
      /\ (CHOOSE q \in Questions : TRUE) \in Questions
  BY DEF R!Sensible
<1> QED BY <1>1 DEF R!Sensible, R!Idle, R!Request

LEMMA ReadersEmptyCache == ASSUME R!Sensible PROVE ReadersCached(<<>>, <<>>)
<1>1. /\ <<>> \in Seq(R!Answer) /\ <<>> \in Seq(ReadersKeys) /\ Len(<<>>) = 0
  BY EmptySeq
<1> QED BY <1>1 DEF R!Sensible, ReadersCached, Distinct, ReadersKeysEnd, ReadersFromKeys, AtMost

LEMMA ReadersInitInv == ASSUME R!Sensible PROVE R!Init => ReadersInv
<1> SUFFICES ASSUME R!Init PROVE ReadersInv
  OBVIOUS
<1>1. ReadersPostInv
  BY DEF R!Init, ReadersPostInv, R!Sensible
<1>2. ReadersViewsInv
  <2>1. <<>> \in Seq(R!Viewer) /\ Len(<<>>) = 0 /\ DOMAIN <<>> = {}
    BY EmptySeq
  <2> QED BY <2>1 DEF R!Init, R!Sensible, ReadersViewsInv, ReadersRemembersLatest,
                      R!ViewersCountOnce, Ends,
                      Distinct, AtMost
<1>3. ReadersCachesInv
  <2>1. <<>> \in Seq(R!Answer) /\ <<>> \in Seq(ReadersKeys)
    BY EmptySeq
  <2> QED BY <2>1, ReadersEmptyCache, ReadersIdleIsRequest DEF R!Init, ReadersCachesInv
<1> QED BY <1>1, <1>2, <1>3 DEF ReadersInv

\* What most steps leave alone.
LEMMA ReadersPostRests == ReadersPostInv /\ UNCHANGED <<day, published, version>> => ReadersPostInv'
BY DEF ReadersPostInv

LEMMA ReadersViewsRest ==
  ReadersViewsInv /\ UNCHANGED <<viewers, views, counted>> => ReadersViewsInv'
<1> SUFFICES ASSUME ReadersViewsInv, UNCHANGED <<viewers, views, counted>> PROVE ReadersViewsInv'
  OBVIOUS
<1>1. \A i, j \in Int :
        {counted'[k] : k \in (i + 1) .. (j - 1)} = {counted[k] : k \in (i + 1) .. (j - 1)}
  OBVIOUS
<1>2. DOMAIN counted = 1 .. Len(counted)
  BY LenProperties DEF ReadersViewsInv
<1>3. R!ViewersCountOnce'
  BY <1>1, <1>2 DEF ReadersViewsInv, R!ViewersCountOnce
<1>4. ReadersRemembersLatest'
  BY DEF ReadersViewsInv, ReadersRemembersLatest, Ends, Distinct
<1> QED BY <1>3, <1>4 DEF ReadersViewsInv

\* The cache of process p changes as its keys do.
LEMMA ReadersCacheChanges ==
  ASSUME ReadersCachesInv, NEW p \in Caches, NEW a, NEW u, ReadersCached(a, u),
         answers' = [answers EXCEPT ![p] = a], used' = [used EXCEPT ![p] = u]
  PROVE  /\ answers' \in [Caches -> Seq(R!Answer)] /\ used' \in [Caches -> Seq(ReadersKeys)]
         /\ \A o \in Caches : ReadersCached(answers'[o], used'[o])
<1>1. a \in Seq(R!Answer) /\ u \in Seq(ReadersKeys)
  BY DEF ReadersCached
<1>2. answers' \in [Caches -> Seq(R!Answer)] /\ used' \in [Caches -> Seq(ReadersKeys)]
  BY <1>1 DEF ReadersCachesInv
<1>3. ASSUME NEW o \in Caches PROVE ReadersCached(answers'[o], used'[o])
  <2>1. CASE o = p
    <3>1. answers'[o] = a /\ used'[o] = u
      BY <2>1 DEF ReadersCachesInv
    <3> QED BY <3>1
  <2>2. CASE o # p
    <3>1. answers'[o] = answers[o] /\ used'[o] = used[o]
      BY <2>2 DEF ReadersCachesInv
    <3> QED BY <3>1 DEF ReadersCachesInv
  <2> QED BY <2>1, <2>2
<1> QED BY <1>2, <1>3

-----------------------------------------------------------------------------
(* Readers: the steps                                                      *)

LEMMA ReadersViewInv == ASSUME R!Sensible, ReadersInv, R!View PROVE ReadersInv'
<1>1. PICK k \in R!Viewer : R!RecordView(k)
  BY DEF R!View, R!Viewer, ReadersInv, ReadersPostInv
<1>2. ReadersViewsInv'
  BY <1>1, ReadersCountsViewer DEF ReadersInv, R!Sensible
<1>3. ReadersPostInv'
  BY <1>1 DEF R!RecordView, ReadersInv, ReadersPostInv, R!Sensible
<1>4. ReadersCachesInv'
  BY <1>1 DEF R!RecordView, ReadersInv, ReadersCachesInv
<1> QED BY <1>2, <1>3, <1>4 DEF ReadersInv

LEMMA ReadersAskInv ==
  ASSUME ReadersInv, NEW r \in Requests, NEW p \in Caches, NEW q \in Questions, R!AskPost(r, p, q)
  PROVE  ReadersInv'
<1>1. ReadersPostInv' /\ ReadersViewsInv'
  BY ReadersPostRests, ReadersViewsRest DEF ReadersInv, R!AskPost
<1>2. [pc |-> "look", process |-> p, version |-> version, question |-> q] \in R!Request
  BY DEF R!Request, ReadersInv, ReadersPostInv
<1>3. ReadersCachesInv'
  BY <1>2 DEF ReadersInv, R!AskPost, ReadersCachesInv, R!Become
<1> QED BY <1>1, <1>3 DEF ReadersInv

LEMMA ReadersLookInv ==
  ASSUME R!Sensible, ReadersInv, NEW r \in Requests, R!Look(r)
  PROVE  ReadersInv'
<1> DEFINE q == req[r]
           p == q.process
           k == R!Key(q.version, q.question)
           hit == {a \in Range(answers[p]) : a.key = k}
<1>1. ReadersPostInv' /\ ReadersViewsInv'
  BY ReadersPostRests, ReadersViewsRest DEF ReadersInv, R!Look
<1>2. q \in R!Request /\ p \in Caches
  BY DEF ReadersInv, ReadersCachesInv, R!Request
<1>3. CASE hit = {}
  <2>1. [q EXCEPT !.pc = "model"] \in R!Request
    BY <1>2 DEF R!Request
  <2> QED BY <1>1, <1>3, <2>1, ReadersOperators DEF R!Look, ReadersInv, ReadersCachesInv, R!Become
<1>4. CASE hit # {}
  <2>1. PICK a \in hit : /\ answers' = [answers EXCEPT ![p] = R!Got(@, a)]
                         /\ stale' = (stale \/ a.from # q.version)
    BY <1>4, ReadersOperators DEF R!Look
  <2>2. req' = [req EXCEPT ![r] = R!Idle] /\ used' = [used EXCEPT ![p] = R!Latest(@, k)]
    BY <1>4, ReadersOperators DEF R!Look, R!Become, R!Using
  <2>3. ReadersCached(answers[p], used[p]) /\ answers[p] \in Seq(R!Answer)
    BY <1>2 DEF ReadersInv, ReadersCachesInv
  <2>4. PICK i \in 1 .. Len(answers[p]) : a = answers[p][i]
    BY <2>3, LenProperties DEF Range
  <2>5. a.key = k /\ a.from = k[1]
    BY <2>3, <2>4 DEF ReadersCached, ReadersFromKeys
  <2>6. a.from = q.version
    BY <2>5 DEF R!Key
  <2>7. ReadersCached(R!Got(answers[p], a), R!Latest(used[p], k))
    <3>1. ReadersCached(R!Got(answers[p], answers[p][i]), R!Latest(used[p], answers[p][i].key))
      <4> HIDE DEF p
      <4> QED BY <2>3, ReadersGetsLatest DEF R!Sensible
    <3> QED BY <2>4, <2>5, <3>1
  <2>8. /\ answers' = [answers EXCEPT ![p] = R!Got(answers[p], a)]
        /\ used' = [used EXCEPT ![p] = R!Latest(used[p], k)]
    BY <2>1, <2>2
  <2>9. /\ answers' \in [Caches -> Seq(R!Answer)] /\ used' \in [Caches -> Seq(ReadersKeys)]
        /\ \A o \in Caches : ReadersCached(answers'[o], used'[o])
    <3> HIDE DEF p, k
    <3> QED BY <1>2, <2>7, <2>8, ReadersCacheChanges DEF ReadersInv
  <2>10. req' \in [Requests -> R!Request]
    BY <2>2, ReadersIdleIsRequest DEF ReadersInv, ReadersCachesInv
  <2>11. stale' = FALSE
    BY <2>1, <2>6 DEF ReadersInv, ReadersCachesInv
  <2> QED BY <1>1, <2>9, <2>10, <2>11 DEF ReadersInv, ReadersCachesInv
<1> QED BY <1>3, <1>4

LEMMA ReadersAnsweredInv ==
  ASSUME R!Sensible, ReadersInv, NEW r \in Requests, R!Answered(r)
  PROVE  ReadersInv'
<1> DEFINE q == req[r]
           p == q.process
           k == R!Key(q.version, q.question)
           x == [key |-> k, from |-> q.version]
<1>1. ReadersPostInv' /\ ReadersViewsInv'
  BY ReadersPostRests, ReadersViewsRest DEF ReadersInv, R!Answered
<1>2. q \in R!Request /\ p \in Caches
  BY DEF ReadersInv, ReadersCachesInv, R!Request
<1>3. req' \in [Requests -> R!Request] /\ stale' = FALSE
  BY ReadersIdleIsRequest DEF R!Answered, R!Become, ReadersInv, ReadersCachesInv
<1>4. CASE UNCHANGED <<answers, used>>
  BY <1>1, <1>3, <1>4 DEF ReadersInv, ReadersCachesInv
<1>5. CASE /\ answers' = [answers EXCEPT ![p] = R!Put(@, x)]
           /\ R!Using(p, k)
  <2>1. ReadersCached(answers[p], used[p])
    BY <1>2 DEF ReadersInv, ReadersCachesInv
  <2>2. x \in R!Answer /\ x.from = x.key[1] /\ x.key = k
    BY <1>2 DEF R!Answer, R!Request, R!Key
  <2>3. ReadersCached(R!Put(answers[p], x), R!Latest(used[p], k))
    <3>1. ReadersCached(R!Put(answers[p], x), R!Latest(used[p], x.key))
      <4> HIDE DEF p, x
      <4> QED BY <2>1, <2>2, ReadersPutsLatest DEF R!Sensible
    <3> QED BY <2>2, <3>1
  <2>4. /\ answers' = [answers EXCEPT ![p] = R!Put(answers[p], x)]
        /\ used' = [used EXCEPT ![p] = R!Latest(used[p], k)]
    BY <1>5 DEF R!Using
  <2>5. /\ answers' \in [Caches -> Seq(R!Answer)] /\ used' \in [Caches -> Seq(ReadersKeys)]
        /\ \A o \in Caches : ReadersCached(answers'[o], used'[o])
    <3> HIDE DEF p, k, x
    <3> QED BY <1>2, <2>3, <2>4, ReadersCacheChanges DEF ReadersInv
  <2> QED BY <1>1, <1>3, <2>5 DEF ReadersInv, ReadersCachesInv
<1> QED BY <1>4, <1>5 DEF R!Answered

LEMMA ReadersRestartInv ==
  ASSUME R!Sensible, ReadersInv, NEW p \in Caches, R!Restart(p)
  PROVE  ReadersInv'
<1>1. ReadersPostInv' /\ ReadersViewsInv'
  BY ReadersPostRests, ReadersViewsRest DEF ReadersInv, R!Restart
<1>2. /\ answers' \in [Caches -> Seq(R!Answer)] /\ used' \in [Caches -> Seq(ReadersKeys)]
      /\ \A o \in Caches : ReadersCached(answers'[o], used'[o])
  BY ReadersEmptyCache, ReadersCacheChanges DEF ReadersInv, R!Restart
<1>3. req' \in [Requests -> R!Request]
  BY ReadersIdleIsRequest DEF ReadersInv, ReadersCachesInv, R!Restart
<1>4. stale' = FALSE
  BY DEF ReadersInv, ReadersCachesInv, R!Restart
<1> QED BY <1>1, <1>2, <1>3, <1>4 DEF ReadersInv, ReadersCachesInv

LEMMA ReadersStepInv == ASSUME R!Sensible PROVE ReadersInv /\ [R!Next]_R!vars => ReadersInv'
<1> SUFFICES ASSUME ReadersInv, [R!Next]_R!vars PROVE ReadersInv'
  OBVIOUS
<1>1. CASE R!View
  BY <1>1, ReadersViewInv
<1>2. CASE \E r \in Requests : R!Serve(r)
  BY <1>2, ReadersAskInv, ReadersLookInv, ReadersAnsweredInv DEF R!Serve
<1>3. CASE R!Write \/ R!Midnight \/ UNCHANGED R!vars
  <2>1. ReadersPostInv'
    <3>1. CASE R!Write
      <4>1. published' \in {TRUE, published}
        BY <3>1, Zenon DEF R!Write
      <4>2. published' \in BOOLEAN
        BY <4>1 DEF ReadersInv, ReadersPostInv
      <4>3. day' \in 1 .. MaxDay /\ version' \in 0 .. MaxVersion
        BY <3>1 DEF R!Write, ReadersInv, ReadersPostInv, R!Sensible
      <4> QED BY <4>2, <4>3 DEF ReadersPostInv
    <3>2. CASE R!Midnight
      BY <3>2 DEF R!Midnight, ReadersInv, ReadersPostInv, R!Sensible
    <3>3. CASE UNCHANGED R!vars
      BY <3>3, ReadersPostRests DEF R!vars, ReadersInv
    <3> QED BY <1>3, <3>1, <3>2, <3>3
  <2>2. ReadersViewsInv'
    <3>1. UNCHANGED <<viewers, views, counted>>
      BY <1>3 DEF R!Write, R!Midnight, R!vars
    <3> QED BY <3>1, ReadersViewsRest DEF ReadersInv
  <2>3. ReadersCachesInv'
    BY <1>3 DEF R!Write, R!Midnight, R!vars, ReadersInv, ReadersCachesInv
  <2> QED BY <2>1, <2>2, <2>3 DEF ReadersInv
<1>4. CASE \E p \in Caches : R!Restart(p)
  BY <1>4, ReadersRestartInv
<1> QED BY <1>1, <1>2, <1>3, <1>4 DEF R!Next

-----------------------------------------------------------------------------
(* Newsletter: its operators are the library's                             *)

LEMMA NewsletterOperators ==
  /\ \A S : N!IsFiniteSet(S) <=> IsFiniteSet(S)
  /\ \A S : N!SetToSeq(S) = SetToSeq(S)
  /\ \A f : N!Range(f) = Range(f)
<1>1. \A S : N!IsFiniteSet(S) <=> IsFiniteSet(S)
  BY DEF N!IsFiniteSet, IsFiniteSet
<1>2. \A S : N!SetToSeq(S) = SetToSeq(S)
  BY DEF N!SetToSeq, SetToSeq, N!Cardinality, Cardinality, N!IsInjective, IsInjective
<1> QED BY <1>1, <1>2 DEF N!Range, Range

-----------------------------------------------------------------------------
(* Newsletter: lists and batches                                           *)


\* The elements of list up to place n.
NewsletterUpTo(list, n) == {list[k] : k \in {k \in DOMAIN list : k <= n}}

\* The list of a finite set has each of its elements once.
LEMMA NewsletterListOnce ==
  ASSUME NEW S, IsFiniteSet(S)
  PROVE  LET s == SetToSeq(S) IN s \in Seq(S) /\ Distinct(s) /\ Range(s) = S
<1> DEFINE n == Cardinality(S)
           s == SetToSeq(S)
<1>1. n \in Nat /\ ExistsBijection(1 .. n, S)
  BY FS_CardinalityType
<1>2. \E f \in [1 .. n -> S] : IsInjective(f)
  BY <1>1 DEF ExistsBijection, Bijection, Injection
<1>3. s \in [1 .. n -> S] /\ IsInjective(s)
  BY <1>2 DEF SetToSeq
<1> HIDE DEF n, s
<1>4. s \in Seq(S) /\ Len(s) = n /\ DOMAIN s = 1 .. n
  <2>1. s \in Seq(S)
    BY <1>1, <1>3, SeqDef
  <2>2. DOMAIN s = 1 .. n
    BY <1>3
  <2>3. Len(s) = n
    BY <1>1, <2>1, <2>2, LenProperties
  <2> QED BY <2>1, <2>2, <2>3
<1>5. Distinct(s)
  BY <1>3, <1>4 DEF IsInjective, Distinct
<1>6. s \in Injection(1 .. n, S)
  BY <1>3 DEF Injection
<1>7. Cardinality(1 .. n) = n
  BY <1>1, FS_Interval
<1>8. s \in Surjection(1 .. n, S)
  BY <1>6, <1>7, FS_Injection DEF n
<1>9. Range(s) = S
  BY <1>3, <1>4, <1>8 DEF Range, Surjection
<1> QED BY <1>4, <1>5, <1>9 DEF s

\* The next batch has what comes after place n, and nothing of what was before.
LEMMA NewsletterBatchNext ==
  ASSUME NEW T, NEW list \in Seq(T), Distinct(list), NEW n \in Nat, BatchSize \in Nat
  PROVE  /\ N!BatchFrom(list, n) \subseteq T
         /\ NewsletterUpTo(list, n) \cup N!BatchFrom(list, n) = NewsletterUpTo(list, n + BatchSize)
         /\ NewsletterUpTo(list, n) \cap N!BatchFrom(list, n) = {}
<1>1. DOMAIN list = 1 .. Len(list) /\ Len(list) \in Nat /\ \A k \in 1 .. Len(list) : list[k] \in T
  BY LenProperties, ElementOfSeq
<1>2. NewsletterUpTo(list, n) \cap N!BatchFrom(list, n) = {}
  <2> SUFFICES ASSUME NEW k \in 1 .. Len(list), k <= n,
                      NEW j \in 1 .. Len(list), j > n, list[k] = list[j]
               PROVE  FALSE
    BY <1>1 DEF NewsletterUpTo, N!BatchFrom
  <2>1. k = j
    BY DEF Distinct
  <2> QED BY <1>1, <2>1
<1>3. \A k \in 1 .. Len(list) : k <= n + BatchSize <=> k <= n \/ (k > n /\ k <= n + BatchSize)
  BY <1>1
<1>4. NewsletterUpTo(list, n) \cup N!BatchFrom(list, n) = NewsletterUpTo(list, n + BatchSize)
  BY <1>1, <1>3 DEF NewsletterUpTo, N!BatchFrom
<1> QED BY <1>1, <1>2, <1>4 DEF N!BatchFrom

\* A batch that ends beyond the list has ended it.
LEMMA NewsletterUpToAll ==
  ASSUME NEW T, NEW list \in Seq(T), NEW n \in Nat, ~(n < Len(list))
  PROVE  NewsletterUpTo(list, n) = Range(list)
<1>1. DOMAIN list = 1 .. Len(list) /\ Len(list) \in Nat
  BY LenProperties
<1>2. \A k \in 1 .. Len(list) : k <= n
  BY <1>1
<1> QED BY <1>1, <1>2 DEF NewsletterUpTo, Range

-----------------------------------------------------------------------------
(* Newsletter: the invariant                                               *)

\* The subscriptions and the mails.
NewsletterStoreOK ==
  /\ subscriber \in [N!Subscriptions -> N!Subscriber]
  /\ inbox \in [Addresses -> SUBSET N!Tokens] /\ last \in 0 .. MaxTokens
  /\ agreed \subseteq N!Tokens /\ wrong = FALSE

\* Tokens were drawn one after the other: each is of one subscription, and
\* reached no address but this one's.
NewsletterTokensOK ==
  /\ \A x \in N!Subscriptions :
       /\ subscriber[x].token <= last
       /\ subscriber[x].token = 0 => subscriber[x] = N!Nobody
  /\ \A x, y \in N!Subscriptions :
       subscriber[x].token = subscriber[y].token => x = y \/ subscriber[x].token = 0
  /\ \A a \in Addresses : \A t \in inbox[a] :
       /\ t <= last
       /\ \A x \in N!Subscriptions : subscriber[x].token = t => x[1] = a

\* Who is confirmed followed the link.
NewsletterConfirmedOK == \A x \in N!Subscriptions : subscriber[x].confirmed =>
  subscriber[x].token \in agreed \cap inbox[x[1]]

\* A request that sends mails sent those up to its batch, and this one's rest
\* remains.
NewsletterSending(q) ==
  /\ Distinct(q.list)
  /\ q.sent \cup q.batch = NewsletterUpTo(q.list, q.next) /\ q.sent \cap q.batch = {}

\* A request that mails a link has the token of its subscription, if it is
\* still there; one that confirms has a link that was mailed and followed.
NewsletterInOrder(q) ==
  /\ q.token <= last
  /\ q.pc = "mail" => /\ q.token # 0
                      /\ \A x \in N!Subscriptions : subscriber[x].token = q.token => x = q.x
  /\ q.pc = "save" => q.token \in agreed \cap inbox[q.x[1]]
  /\ q.pc = "batch" => NewsletterSending(q)

NewsletterInv ==
  /\ NewsletterStoreOK /\ NewsletterTokensOK /\ NewsletterConfirmedOK
  /\ req \in [Requests -> N!Request]
  /\ \A r \in Requests : NewsletterInOrder(req[r])

-----------------------------------------------------------------------------
(* Newsletter: requests                                                    *)

\* A request that does nothing is in order.
LEMMA NewsletterIdleInOrder ==
  ASSUME N!Sensible
  PROVE  N!Idle \in N!Request /\ (last \in 0 .. MaxTokens => NewsletterInOrder(N!Idle))
<1>1. (CHOOSE x \in N!Subscriptions : TRUE) \in N!Subscriptions
  <2>1. N!Subscriptions # {}
    <3>1. PICK a \in Addresses, sp \in Spaces : TRUE
      BY DEF N!Sensible
    <3>2. <<a, sp>> \in N!Subscriptions
      BY DEF N!Subscriptions
    <3> QED BY <3>2
  <2> QED BY <2>1
<1>2. <<>> \in Seq(N!Subscriptions)
  BY EmptySeq
<1>3. N!Idle \in N!Request
  BY <1>1, <1>2 DEF N!Sensible, N!Idle, N!Request, N!PCs
<1>4. last \in 0 .. MaxTokens => NewsletterInOrder(N!Idle)
  BY DEF N!Idle, NewsletterInOrder, N!Sensible
<1> QED BY <1>3, <1>4

\* Tokens are only drawn, mailed, followed and dropped.
NewsletterGrows ==
  /\ last' \in Nat /\ last <= last' /\ agreed \subseteq agreed'
  /\ \A a \in Addresses : inbox[a] \subseteq inbox'[a]
  /\ \A x \in N!Subscriptions :
       subscriber'[x].token \in {subscriber[x].token, 0} \cup {t \in Nat : t > last}

\* Then a request that is not served stays in order.
LEMMA NewsletterStaysInOrder ==
  ASSUME NewsletterStoreOK, NEW q \in N!Request, NewsletterInOrder(q), NewsletterGrows
  PROVE  NewsletterInOrder(q)'
<1>1. q.token \in Nat /\ last \in Nat /\ q.x[1] \in Addresses /\ q.token <= last
  BY DEF N!Request, NewsletterStoreOK, N!Subscriptions, NewsletterInOrder
<1>2. q.token <= last'
  BY <1>1 DEF NewsletterGrows
<1>3. ASSUME q.pc = "mail", NEW x \in N!Subscriptions, subscriber'[x].token = q.token
      PROVE  x = q.x
  <2>1. q.token # 0
    BY <1>3 DEF NewsletterInOrder
  <2>2. subscriber[x].token = q.token
    BY <1>1, <1>3, <2>1 DEF NewsletterGrows
  <2> QED BY <1>3, <2>2 DEF NewsletterInOrder
<1>4. q.pc = "save" => q.token \in agreed' \cap inbox'[q.x[1]]
  BY <1>1 DEF NewsletterInOrder, NewsletterGrows
<1> QED BY <1>2, <1>3, <1>4 DEF NewsletterInOrder, NewsletterSending

\* Request r becomes q, which is in order; the others rest.
LEMMA NewsletterBecoming ==
  ASSUME NewsletterInv, NewsletterGrows, NEW r \in Requests, NEW q \in N!Request, N!Become(r, q),
         NewsletterInOrder(req[r])'
  PROVE  req' \in [Requests -> N!Request] /\ \A o \in Requests : NewsletterInOrder(req[o])'
<1>1. req \in [Requests -> N!Request] /\ req' = [req EXCEPT ![r] = q]
  BY DEF NewsletterInv, N!Become
<1>2. ASSUME NEW o \in Requests, o # r PROVE NewsletterInOrder(req[o])'
  <2>1. PICK z \in N!Request : z = req[o]
    BY <1>1
  <2>2. NewsletterInOrder(z)
    BY <2>1 DEF NewsletterInv
  <2>3. NewsletterInOrder(z)'
    BY <2>2, NewsletterStaysInOrder DEF NewsletterInv
  <2>4. req'[o] = z
    BY <1>1, <1>2, <2>1
  <2> QED BY <2>3, <2>4 DEF NewsletterInOrder, NewsletterSending
<1> QED BY <1>1, <1>2

LEMMA NewsletterInitInv == ASSUME N!Sensible PROVE N!Init => NewsletterInv
<1> SUFFICES ASSUME N!Init PROVE NewsletterInv
  OBVIOUS
<1>1. NewsletterStoreOK
  BY DEF N!Init, NewsletterStoreOK, N!Subscriber, N!Nobody, N!Sensible
<1>2. NewsletterTokensOK /\ NewsletterConfirmedOK
  BY DEF N!Init, NewsletterTokensOK, NewsletterConfirmedOK, N!Nobody
<1>3. last \in 0 .. MaxTokens
  BY <1>1 DEF NewsletterStoreOK
<1> QED BY <1>1, <1>2, <1>3, NewsletterIdleInOrder DEF N!Init, NewsletterInv

-----------------------------------------------------------------------------
(* Newsletter: the steps                                                   *)

\* What a step that leaves the store alone keeps.
LEMMA NewsletterStoreRests ==
  ASSUME NewsletterInv, UNCHANGED <<subscriber, inbox, last, agreed>>
  PROVE  /\ NewsletterGrows
         /\ NewsletterTokensOK'
         /\ NewsletterConfirmedOK'
         /\ (wrong' = FALSE => NewsletterStoreOK')
BY DEF NewsletterInv, NewsletterGrows, NewsletterStoreOK, NewsletterTokensOK, NewsletterConfirmedOK

\* A request that ends.
LEMMA NewsletterEnding ==
  ASSUME N!Sensible, NewsletterInv, NewsletterGrows, last' \in 0 .. MaxTokens,
         NEW r \in Requests, N!Become(r, N!Idle)
  PROVE  req' \in [Requests -> N!Request] /\ \A o \in Requests : NewsletterInOrder(req[o])'
<1>1. N!Idle \in N!Request
  BY NewsletterIdleInOrder
<1>2. req'[r] = N!Idle
  BY DEF NewsletterInv, N!Become
<1>3. NewsletterInOrder(req[r])'
  BY <1>2 DEF N!Idle, NewsletterInOrder, N!Sensible
<1> QED BY <1>1, <1>3, NewsletterBecoming

LEMMA NewsletterSubscribeInv ==
  ASSUME N!Sensible, NewsletterInv, NEW r \in Requests, NEW x \in N!Subscriptions, N!Subscribe(r, x)
  PROVE  NewsletterInv'
<1> DEFINE s == subscriber[x]
           q == [N!Idle EXCEPT !.pc = IF s.token = 0 THEN "insert" ELSE "mail", !.x = x,
                   !.token = s.token]
<1>1. NewsletterStoreOK' /\ NewsletterTokensOK' /\ NewsletterConfirmedOK' /\ NewsletterGrows
  BY NewsletterStoreRests DEF N!Subscribe, NewsletterInv, NewsletterStoreOK
<1>2. s.token \in 0 .. MaxTokens /\ s.token <= last
  BY DEF NewsletterInv, NewsletterStoreOK, NewsletterTokensOK, N!Subscriber
<1>3. q \in N!Request
  BY <1>2, NewsletterIdleInOrder DEF N!Request, N!PCs
<1>4. N!Become(r, q)
  BY DEF N!Subscribe
<1>5. req'[r] = q /\ q.token = s.token /\ q.x = x /\ q.pc \in {"insert", "mail"}
      /\ (q.pc = "mail" => s.token # 0)
  BY <1>4, NewsletterIdleInOrder DEF N!Become, NewsletterInv, N!Request
<1>6. ASSUME q.pc = "mail", NEW y \in N!Subscriptions, subscriber[y].token = s.token PROVE y = x
  BY <1>5, <1>6 DEF NewsletterInv, NewsletterTokensOK
<1>7. NewsletterInOrder(req[r])'
  <2> HIDE DEF q
  <2>1. last' = last /\ subscriber' = subscriber
    BY DEF N!Subscribe
  <2> QED BY <1>2, <1>5, <1>6, <2>1 DEF NewsletterInOrder
<1> HIDE DEF q
<1> QED BY <1>1, <1>3, <1>4, <1>7, NewsletterBecoming DEF NewsletterInv

LEMMA NewsletterInsertInv ==
  ASSUME N!Sensible, NewsletterInv, NEW r \in Requests, N!Insert(r)
  PROVE  NewsletterInv'
<1> DEFINE x == req[r].x
           n == last + 1
           q == [req[r] EXCEPT !.pc = "mail", !.token = n]
<1>1. req[r] \in N!Request /\ x \in N!Subscriptions
  BY DEF NewsletterInv, N!Request
<1>2. CASE ~N!Vacant(x)
  <2>1. NewsletterStoreOK' /\ NewsletterTokensOK' /\ NewsletterConfirmedOK' /\ NewsletterGrows
    BY <1>2, NewsletterStoreRests DEF N!Insert, NewsletterInv, NewsletterStoreOK
  <2>2. last' \in 0 .. MaxTokens
    BY <2>1 DEF NewsletterStoreOK
  <2>3. N!Become(r, N!Idle)
    BY <1>2 DEF N!Insert
  <2> QED BY <2>1, <2>2, <2>3, NewsletterEnding DEF NewsletterInv
<1>3. CASE N!Vacant(x)
  <2>1. /\ last < MaxTokens /\ last' = n /\ N!Become(r, q)
        /\ subscriber' = [subscriber EXCEPT ![x] = [token |-> n, confirmed |-> FALSE]]
        /\ UNCHANGED <<inbox, agreed, wrong>>
    BY <1>3 DEF N!Insert
  <2>2. n \in 1 .. MaxTokens /\ last \in Nat /\ n > last
    BY <2>1 DEF NewsletterInv, NewsletterStoreOK, N!Sensible
  <2>3. /\ \A y \in N!Subscriptions : subscriber'[y] =
             IF y = x THEN [token |-> n, confirmed |-> FALSE] ELSE subscriber[y]
        /\ subscriber' \in [N!Subscriptions -> N!Subscriber]
    BY <1>1, <2>1, <2>2 DEF NewsletterInv, NewsletterStoreOK, N!Subscriber
  <2>4. NewsletterStoreOK'
    BY <2>1, <2>2, <2>3 DEF NewsletterInv, NewsletterStoreOK
  <2>5. \A y \in N!Subscriptions : subscriber[y].token \in Nat /\ subscriber[y].token <= last
    BY DEF NewsletterInv, NewsletterStoreOK, NewsletterTokensOK, N!Subscriber
  <2> HIDE DEF x, n, q
  <2>6. NewsletterTokensOK'
    <3>1. \A y \in N!Subscriptions :
            /\ subscriber'[y].token <= last'
            /\ subscriber'[y].token = 0 => subscriber'[y] = N!Nobody
      BY <2>1, <2>2, <2>3, <2>5 DEF NewsletterInv, NewsletterTokensOK
    <3>2. \A y, z \in N!Subscriptions :
            subscriber'[y].token = subscriber'[z].token => y = z \/ subscriber'[y].token = 0
      BY <2>2, <2>3, <2>5 DEF NewsletterInv, NewsletterTokensOK
    <3>3. \A a \in Addresses : \A t \in inbox[a] :
            /\ t \in Nat /\ t <= last'
            /\ \A y \in N!Subscriptions : subscriber'[y].token = t => y[1] = a
      <4> SUFFICES ASSUME NEW a \in Addresses, NEW t \in inbox[a]
                   PROVE  /\ t \in Nat /\ t <= last'
                          /\ \A y \in N!Subscriptions : subscriber'[y].token = t => y[1] = a
        OBVIOUS
      <4>1. t \in Nat /\ t <= last
        BY DEF NewsletterInv, NewsletterStoreOK, NewsletterTokensOK, N!Tokens
      <4> QED BY <2>1, <2>2, <2>3, <4>1 DEF NewsletterInv, NewsletterTokensOK
    <3> QED BY <2>1, <3>1, <3>2, <3>3 DEF NewsletterTokensOK
  <2>7. NewsletterConfirmedOK'
    BY <2>1, <2>3 DEF NewsletterInv, NewsletterConfirmedOK
  <2>8. NewsletterGrows
    BY <2>1, <2>2, <2>3, <2>5 DEF NewsletterGrows
  <2>9. q \in N!Request /\ q.pc = "mail" /\ q.token = n /\ q.x = x
    <3>1. n \in 0 .. MaxTokens /\ "mail" \in N!PCs
      BY <2>2 DEF N!PCs
    <3> QED BY <1>1, <3>1 DEF N!Request, q, x
  <2>10. req'[r] = q
    BY <2>1 DEF NewsletterInv, N!Become
  <2>11. \A y \in N!Subscriptions : subscriber'[y].token = n => y = x
    BY <2>2, <2>3, <2>5
  <2>12. NewsletterInOrder(req[r])'
    BY <2>1, <2>2, <2>9, <2>10, <2>11 DEF NewsletterInOrder
  <2> QED BY <2>1, <2>4, <2>6, <2>7, <2>8, <2>9, <2>12, NewsletterBecoming DEF NewsletterInv
<1> QED BY <1>2, <1>3

LEMMA NewsletterMailLinkInv ==
  ASSUME N!Sensible, NewsletterInv, NEW r \in Requests, N!MailLink(r)
  PROVE  NewsletterInv'
<1> DEFINE q == req[r]
           a == q.x[1]
<1>1. q \in N!Request /\ a \in Addresses /\ q.token \in 0 .. MaxTokens
  BY DEF NewsletterInv, N!Request, N!Subscriptions
<1>2. /\ q.token <= last /\ q.token # 0
      /\ \A x \in N!Subscriptions : subscriber[x].token = q.token => x = q.x
  BY DEF NewsletterInv, NewsletterInOrder, N!MailLink, N!At
<1>3. UNCHANGED <<subscriber, last, agreed, wrong>> /\ N!Become(r, N!Idle)
      /\ inbox' \in {inbox, [inbox EXCEPT ![a] = @ \cup {q.token}]}
  BY DEF N!MailLink
<1> HIDE DEF q, a
<1>4. /\ inbox' \in [Addresses -> SUBSET N!Tokens]
      /\ \A b \in Addresses : inbox[b] \subseteq inbox'[b]
      /\ \A b \in Addresses : \A t \in inbox'[b] : t \in inbox[b] \/ (b = a /\ t = q.token)
  <2>1. q.token \in N!Tokens
    BY <1>1, <1>2 DEF N!Tokens
  <2>2. CASE inbox' = inbox
    BY <2>2 DEF NewsletterInv, NewsletterStoreOK
  <2>3. CASE inbox' = [inbox EXCEPT ![a] = @ \cup {q.token}]
    BY <1>1, <2>1, <2>3 DEF NewsletterInv, NewsletterStoreOK
  <2> QED BY <1>3, <2>2, <2>3
<1>5. NewsletterStoreOK'
  BY <1>3, <1>4 DEF NewsletterInv, NewsletterStoreOK
<1>6. NewsletterTokensOK'
  <2>1. ASSUME NEW b \in Addresses, NEW t \in inbox'[b]
        PROVE  t <= last /\ \A x \in N!Subscriptions : subscriber[x].token = t => x[1] = b
    <3>1. CASE t \in inbox[b]
      BY <3>1 DEF NewsletterInv, NewsletterTokensOK
    <3>2. CASE b = a /\ t = q.token
      BY <1>2, <3>2 DEF a
    <3> QED BY <1>4, <2>1, <3>1, <3>2
  <2> QED BY <1>3, <2>1 DEF NewsletterInv, NewsletterTokensOK
<1>7. NewsletterConfirmedOK'
  <2>1. \A x \in N!Subscriptions : x[1] \in Addresses
    BY DEF N!Subscriptions
  <2> QED BY <1>3, <1>4, <2>1 DEF NewsletterInv, NewsletterConfirmedOK
<1>8. NewsletterGrows
  BY <1>3, <1>4 DEF NewsletterGrows, NewsletterInv, NewsletterStoreOK
<1>9. last' \in 0 .. MaxTokens
  BY <1>5 DEF NewsletterStoreOK
<1> QED BY <1>3, <1>5, <1>6, <1>7, <1>8, <1>9, NewsletterEnding DEF NewsletterInv

LEMMA NewsletterConfirmInv ==
  ASSUME N!Sensible, NewsletterInv, NEW r \in Requests, NEW a \in Addresses, NEW t \in N!Tokens,
         NEW x \in N!Subscriptions, N!Confirm(r, a, t, x)
  PROVE  NewsletterInv'
<1> DEFINE q == [N!Idle EXCEPT !.pc = "save", !.x = x, !.token = t]
<1>1. /\ agreed' = agreed \cup {t} /\ UNCHANGED <<subscriber, inbox, last, wrong>>
      /\ t \in inbox[a] /\ subscriber[x].token = t
  BY DEF N!Confirm
<1>2. NewsletterStoreOK' /\ NewsletterTokensOK' /\ NewsletterConfirmedOK' /\ NewsletterGrows
  BY <1>1 DEF NewsletterInv, NewsletterStoreOK, NewsletterTokensOK, NewsletterConfirmedOK,
              NewsletterGrows
<1>3. last' \in 0 .. MaxTokens
  BY <1>2 DEF NewsletterStoreOK
<1>4. CASE N!Become(r, N!Idle)
  BY <1>2, <1>3, <1>4, NewsletterEnding DEF NewsletterInv
<1>5. CASE N!Become(r, q)
  <2>1. x[1] = a /\ t <= last
    BY <1>1 DEF NewsletterInv, NewsletterTokensOK
  <2>2. q \in N!Request /\ q.pc = "save" /\ q.x = x /\ q.token = t
    <3>1. t \in 0 .. MaxTokens /\ "save" \in N!PCs
      BY DEF N!Tokens, N!PCs, N!Sensible
    <3>2. N!Idle \in N!Request
      BY NewsletterIdleInOrder
    <3> QED BY <3>1, <3>2 DEF N!Request
  <2> HIDE DEF q
  <2>3. req'[r] = q
    BY <1>5 DEF N!Become, NewsletterInv
  <2>4. NewsletterInOrder(req[r])'
    BY <1>1, <2>1, <2>2, <2>3 DEF NewsletterInOrder
  <2> QED BY <1>2, <1>5, <2>2, <2>4, NewsletterBecoming DEF NewsletterInv
<1> QED BY <1>4, <1>5 DEF N!Confirm

LEMMA NewsletterSaveConfirmedInv ==
  ASSUME N!Sensible, NewsletterInv, NEW r \in Requests, N!SaveConfirmed(r)
  PROVE  NewsletterInv'
<1> DEFINE q == req[r]
<1>1. q \in N!Request /\ q.x \in N!Subscriptions
  BY DEF NewsletterInv, N!Request
<1>2. q.token \in agreed \cap inbox[q.x[1]]
  BY DEF NewsletterInv, NewsletterInOrder, N!SaveConfirmed, N!At
<1>3. UNCHANGED <<inbox, last, agreed, wrong>> /\ N!Become(r, N!Idle)
  BY DEF N!SaveConfirmed
<1>4. /\ subscriber' \in [N!Subscriptions -> N!Subscriber]
      /\ \A y \in N!Subscriptions :
           /\ subscriber'[y].token = subscriber[y].token
           /\ \/ subscriber'[y] = subscriber[y]
              \/ y = q.x /\ subscriber[y].token = q.token
  <2>1. CASE N!Same(q)
    <3>1. subscriber' = [subscriber EXCEPT ![q.x].confirmed = TRUE]
      BY <2>1 DEF N!SaveConfirmed
    <3> QED BY <1>1, <2>1, <3>1 DEF N!Same, NewsletterInv, NewsletterStoreOK, N!Subscriber
  <2>2. CASE ~N!Same(q)
    BY <2>2 DEF N!SaveConfirmed, NewsletterInv, NewsletterStoreOK
  <2> QED BY <2>1, <2>2
<1> HIDE DEF q
<1>5. q.token # 0 /\ q.x[1] \in Addresses
  <2>1. q.x[1] \in Addresses
    BY <1>1 DEF N!Subscriptions
  <2> QED BY <1>2, <2>1 DEF NewsletterInv, NewsletterStoreOK, N!Tokens
<1>6. NewsletterStoreOK'
  BY <1>3, <1>4 DEF NewsletterInv, NewsletterStoreOK
<1>7. NewsletterTokensOK'
  <2>1. ASSUME NEW y \in N!Subscriptions
        PROVE  /\ subscriber'[y].token <= last'
               /\ subscriber'[y].token = 0 => subscriber'[y] = N!Nobody
    BY <1>3, <1>4, <1>5 DEF NewsletterInv, NewsletterTokensOK
  <2> QED BY <1>3, <1>4, <2>1 DEF NewsletterInv, NewsletterTokensOK
<1>8. NewsletterConfirmedOK'
  BY <1>2, <1>3, <1>4 DEF NewsletterInv, NewsletterConfirmedOK
<1>9. NewsletterGrows
  BY <1>3, <1>4 DEF NewsletterGrows, NewsletterInv, NewsletterStoreOK
<1>10. last' \in 0 .. MaxTokens
  BY <1>6 DEF NewsletterStoreOK
<1> QED BY <1>3, <1>6, <1>7, <1>8, <1>9, <1>10, NewsletterEnding DEF NewsletterInv

LEMMA NewsletterUnsubscribeInv ==
  ASSUME N!Sensible, NewsletterInv, NEW a \in Addresses, NEW x \in N!Subscriptions,
         N!Unsubscribe(a, x)
  PROVE  NewsletterInv'
<1>1. /\ subscriber' = [subscriber EXCEPT ![x] = N!Nobody]
      /\ UNCHANGED <<inbox, last, req, agreed, wrong>>
  BY DEF N!Unsubscribe
<1>2. /\ subscriber' \in [N!Subscriptions -> N!Subscriber]
      /\ \A y \in N!Subscriptions : subscriber'[y] = IF y = x THEN N!Nobody ELSE subscriber[y]
  BY <1>1 DEF NewsletterInv, NewsletterStoreOK, N!Subscriber, N!Nobody, N!Sensible
<1>3. NewsletterStoreOK'
  BY <1>1, <1>2 DEF NewsletterInv, NewsletterStoreOK
<1>4. NewsletterTokensOK'
  <2>1. last \in Nat /\ N!Nobody.token = 0
    BY DEF NewsletterInv, NewsletterStoreOK, N!Nobody
  <2>2. \A y \in N!Subscriptions :
          /\ subscriber'[y].token <= last
          /\ subscriber'[y].token = 0 => subscriber'[y] = N!Nobody
    BY <1>2, <2>1 DEF NewsletterInv, NewsletterTokensOK
  <2>3. \A y, z \in N!Subscriptions :
          subscriber'[y].token = subscriber'[z].token => y = z \/ subscriber'[y].token = 0
    BY <1>2, <2>1 DEF NewsletterInv, NewsletterTokensOK
  <2>4. ASSUME NEW b \in Addresses, NEW t \in inbox[b]
        PROVE  t <= last /\ \A y \in N!Subscriptions : subscriber'[y].token = t => y[1] = b
    <3>1. t # 0
      BY DEF NewsletterInv, NewsletterStoreOK, N!Tokens
    <3> QED BY <1>2, <2>1, <3>1 DEF NewsletterInv, NewsletterTokensOK
  <2> QED BY <1>1, <2>2, <2>3, <2>4 DEF NewsletterTokensOK
<1>5. NewsletterConfirmedOK'
  BY <1>1, <1>2 DEF NewsletterInv, NewsletterConfirmedOK, N!Nobody
<1>6. NewsletterGrows
  BY <1>1, <1>2 DEF NewsletterGrows, NewsletterInv, NewsletterStoreOK, N!Nobody
<1>7. ASSUME NEW o \in Requests PROVE NewsletterInOrder(req[o])'
  <2>1. PICK z \in N!Request : z = req[o]
    BY DEF NewsletterInv
  <2>2. NewsletterInOrder(z)'
    BY <1>6, <2>1, NewsletterStaysInOrder DEF NewsletterInv
  <2>3. req'[o] = z
    BY <1>1, <2>1
  <2> QED BY <2>2, <2>3 DEF NewsletterInOrder, NewsletterSending
<1> QED BY <1>1, <1>3, <1>4, <1>5, <1>7 DEF NewsletterInv

LEMMA NewsletterNotifyInv ==
  ASSUME N!Sensible, NewsletterInv, NEW r \in Requests, NEW sp \in Spaces,
         N!NotifySubscribers(r, sp)
  PROVE  NewsletterInv'
<1> DEFINE list == SetToSeq(N!Confirmed(sp))
           b == N!BatchFrom(list, 0)
           q == [N!Idle EXCEPT !.pc = "batch", !.list = list, !.next = BatchSize, !.batch = b]
<1>1. /\ NewsletterStoreOK'
      /\ NewsletterTokensOK'
      /\ NewsletterConfirmedOK'
      /\ NewsletterGrows
      /\ last' \in 0 .. MaxTokens
  BY NewsletterStoreRests DEF N!NotifySubscribers, NewsletterInv, NewsletterStoreOK
<1>2. N!Become(r, q)
  BY NewsletterOperators DEF N!NotifySubscribers
<1>3. list \in Seq(N!Subscriptions) /\ Distinct(list)
  <2>1. N!Confirmed(sp) \subseteq N!Subscriptions
    BY DEF N!Confirmed
  <2>2. IsFiniteSet(N!Subscriptions)
    BY FS_Product, NewsletterOperators DEF N!Sensible, N!Subscriptions
  <2>3. IsFiniteSet(N!Confirmed(sp))
    BY <2>1, <2>2, FS_Subset
  <2>4. list \in Seq(N!Confirmed(sp)) /\ Distinct(list)
    BY <2>3, NewsletterListOnce
  <2> HIDE DEF list
  <2> QED BY <2>1, <2>4, SeqMonotonic
<1> HIDE DEF list
<1>4. b \subseteq N!Subscriptions /\ b = NewsletterUpTo(list, BatchSize)
  <2>1. /\ b \subseteq N!Subscriptions
        /\ NewsletterUpTo(list, 0) \cup b = NewsletterUpTo(list, 0 + BatchSize)
    BY <1>3, NewsletterBatchNext DEF N!Sensible
  <2>2. NewsletterUpTo(list, 0) = {}
    <3>1. DOMAIN list = 1 .. Len(list) /\ Len(list) \in Nat
      BY <1>3, LenProperties
    <3> QED BY <3>1 DEF NewsletterUpTo
  <2>3. 0 + BatchSize = BatchSize
    BY DEF N!Sensible
  <2> QED BY <2>1, <2>2, <2>3
<1> HIDE DEF b
<1>5. /\ q \in N!Request
      /\ q.pc = "batch" /\ q.list = list /\ q.next = BatchSize /\ q.batch = b
      /\ q.sent = {} /\ q.token = 0
  <2>1. N!Idle \in N!Request /\ N!Idle.sent = {} /\ N!Idle.token = 0
    BY NewsletterIdleInOrder DEF N!Idle
  <2>2. "batch" \in N!PCs /\ BatchSize \in Nat
    BY DEF N!PCs, N!Sensible
  <2> QED BY <1>3, <1>4, <2>1, <2>2 DEF N!Request
<1> HIDE DEF q
<1>6. req'[r] = q
  BY <1>2 DEF N!Become, NewsletterInv
<1>7. NewsletterInOrder(req[r])'
  <2>1. NewsletterSending(q)
    BY <1>3, <1>4, <1>5 DEF NewsletterSending
  <2>2. 0 <= last'
    BY <1>1
  <2> QED BY <1>5, <1>6, <2>1, <2>2 DEF NewsletterInOrder, NewsletterSending
<1> QED BY <1>1, <1>2, <1>5, <1>7, NewsletterBecoming DEF NewsletterInv

LEMMA NewsletterSendMailInv ==
  ASSUME N!Sensible, NewsletterInv, NEW r \in Requests, NEW x \in N!Subscriptions, N!SendMail(r, x)
  PROVE  NewsletterInv'
<1> DEFINE q == req[r]
           z == [q EXCEPT !.batch = @ \ {x}, !.sent = @ \cup {x}]
<1>1. /\ q \in N!Request
      /\ q.pc = "batch"
      /\ x \in q.batch
      /\ NewsletterInOrder(q)
      /\ NewsletterSending(q)
  BY DEF NewsletterInv, N!SendMail, N!At, NewsletterInOrder
<1>2. x \notin q.sent
  BY <1>1 DEF NewsletterSending
<1>3. wrong' = FALSE
  BY <1>2 DEF N!SendMail, NewsletterInv, NewsletterStoreOK
<1>4. NewsletterStoreOK' /\ NewsletterTokensOK' /\ NewsletterConfirmedOK' /\ NewsletterGrows
  BY <1>3, NewsletterStoreRests DEF N!SendMail, NewsletterInv, NewsletterStoreOK
<1>5. N!Become(r, z)
  BY DEF N!SendMail
<1>6. /\ z \in N!Request /\ z.pc = "batch" /\ z.list = q.list /\ z.next = q.next
      /\ z.batch = q.batch \ {x} /\ z.sent = q.sent \cup {x} /\ z.token = q.token
  BY <1>1 DEF N!Request
<1> HIDE DEF q, z
<1>7. req'[r] = z
  BY <1>5 DEF N!Become, NewsletterInv
<1>8. NewsletterSending(z)
  BY <1>1, <1>6 DEF NewsletterSending
<1>9. z.token <= last'
  BY <1>1, <1>6 DEF NewsletterInOrder, N!SendMail
<1>10. NewsletterInOrder(req[r])'
  BY <1>6, <1>7, <1>8, <1>9 DEF NewsletterInOrder, NewsletterSending
<1> QED BY <1>4, <1>5, <1>6, <1>10, NewsletterBecoming DEF NewsletterInv

LEMMA NewsletterNextBatchInv ==
  ASSUME N!Sensible, NewsletterInv, NEW r \in Requests, N!NextBatch(r)
  PROVE  NewsletterInv'
<1> DEFINE q == req[r]
           b == N!BatchFrom(q.list, q.next)
           z == [q EXCEPT !.batch = b, !.next = @ + BatchSize]
<1>1. /\ q \in N!Request
      /\ q.pc = "batch"
      /\ q.batch = {}
      /\ NewsletterInOrder(q)
      /\ NewsletterSending(q)
      /\ q.list \in Seq(N!Subscriptions) /\ q.next \in Nat
  BY DEF NewsletterInv, N!NextBatch, N!At, NewsletterInOrder, N!Request
<1>2. q.sent = NewsletterUpTo(q.list, q.next)
  BY <1>1 DEF NewsletterSending
<1>3. CASE q.next < Len(q.list)
  <2>1. N!Become(r, z) /\ wrong' = FALSE
    BY <1>3 DEF N!NextBatch, NewsletterInv, NewsletterStoreOK
  <2>2. NewsletterStoreOK' /\ NewsletterTokensOK' /\ NewsletterConfirmedOK' /\ NewsletterGrows
    BY <2>1, NewsletterStoreRests DEF N!NextBatch, NewsletterInv, NewsletterStoreOK
  <2>3. /\ b \subseteq N!Subscriptions
        /\ NewsletterUpTo(q.list, q.next) \cup b = NewsletterUpTo(q.list, q.next + BatchSize)
        /\ NewsletterUpTo(q.list, q.next) \cap b = {}
    BY <1>1, NewsletterBatchNext DEF NewsletterSending, N!Sensible
  <2> HIDE DEF b, q
  <2>4. /\ z \in N!Request /\ z.pc = "batch" /\ z.list = q.list
        /\ z.next = q.next + BatchSize /\ z.batch = b /\ z.sent = q.sent /\ z.token = q.token
    <3>1. q.next + BatchSize \in Nat
      BY <1>1 DEF N!Sensible
    <3> QED BY <1>1, <2>3, <3>1 DEF N!Request
  <2> HIDE DEF z
  <2>5. req'[r] = z
    BY <2>1 DEF N!Become, NewsletterInv
  <2>6. NewsletterSending(z)
    BY <1>1, <1>2, <2>3, <2>4 DEF NewsletterSending
  <2>7. z.token <= last'
    BY <1>1, <2>4 DEF NewsletterInOrder, N!NextBatch
  <2>8. NewsletterInOrder(req[r])'
    BY <2>4, <2>5, <2>6, <2>7 DEF NewsletterInOrder, NewsletterSending
  <2> QED BY <2>1, <2>2, <2>4, <2>8, NewsletterBecoming DEF NewsletterInv
<1>4. CASE ~(q.next < Len(q.list))
  <2>1. q.sent = Range(q.list)
    BY <1>1, <1>2, <1>4, NewsletterUpToAll
  <2>2. N!Become(r, N!Idle) /\ wrong' = FALSE
    BY <1>4, <2>1, NewsletterOperators DEF N!NextBatch, NewsletterInv, NewsletterStoreOK
  <2>3. /\ NewsletterStoreOK'
        /\ NewsletterTokensOK'
        /\ NewsletterConfirmedOK'
        /\ NewsletterGrows
        /\ last' \in 0 .. MaxTokens
    BY <2>2, NewsletterStoreRests DEF N!NextBatch, NewsletterInv, NewsletterStoreOK
  <2> QED BY <2>2, <2>3, NewsletterEnding DEF NewsletterInv
<1> QED BY <1>3, <1>4

LEMMA NewsletterCrashInv ==
  ASSUME N!Sensible, NewsletterInv, NEW r \in Requests, N!Crash(r)
  PROVE  NewsletterInv'
<1>1. /\ NewsletterStoreOK'
      /\ NewsletterTokensOK'
      /\ NewsletterConfirmedOK'
      /\ NewsletterGrows
      /\ last' \in 0 .. MaxTokens
  BY NewsletterStoreRests DEF N!Crash, NewsletterInv, NewsletterStoreOK
<1>2. N!Become(r, N!Idle)
  BY DEF N!Crash
<1> QED BY <1>1, <1>2, NewsletterEnding DEF NewsletterInv

LEMMA NewsletterStepInv ==
  ASSUME N!Sensible
  PROVE  NewsletterInv /\ [N!Next]_N!vars => NewsletterInv'
<1> SUFFICES ASSUME NewsletterInv, [N!Next]_N!vars PROVE NewsletterInv'
  OBVIOUS
<1>1. ASSUME NEW r \in Requests, N!Serve(r) PROVE NewsletterInv'
  <2>1. CASE \E x \in N!Subscriptions : N!Subscribe(r, x)
    BY <2>1, NewsletterSubscribeInv
  <2>2. CASE \E x \in N!Subscriptions, a \in Addresses, t \in N!Tokens : N!Confirm(r, a, t, x)
    BY <2>2, NewsletterConfirmInv
  <2>3. CASE \E x \in N!Subscriptions : N!SendMail(r, x)
    BY <2>3, NewsletterSendMailInv
  <2>4. CASE N!Insert(r)
    BY <2>4, NewsletterInsertInv
  <2>5. CASE N!MailLink(r)
    BY <2>5, NewsletterMailLinkInv
  <2>6. CASE N!SaveConfirmed(r)
    BY <2>6, NewsletterSaveConfirmedInv
  <2>7. CASE \E sp \in Spaces : N!NotifySubscribers(r, sp)
    BY <2>7, NewsletterNotifyInv
  <2>8. CASE N!NextBatch(r)
    BY <2>8, NewsletterNextBatchInv
  <2>9. CASE N!Crash(r)
    BY <2>9, NewsletterCrashInv
  <2> QED BY <1>1, <2>1, <2>2, <2>3, <2>4, <2>5, <2>6, <2>7, <2>8, <2>9 DEF N!Serve
<1>2. CASE \E a \in Addresses, x \in N!Subscriptions : N!Unsubscribe(a, x)
  BY <1>2, NewsletterUnsubscribeInv
<1>3. CASE UNCHANGED N!vars
  BY <1>3 DEF N!vars, NewsletterInv, NewsletterStoreOK, NewsletterTokensOK,
              NewsletterConfirmedOK, NewsletterInOrder, NewsletterSending
<1> QED BY <1>1, <1>2, <1>3 DEF N!Next

-----------------------------------------------------------------------------
(* What the invariants say                                                 *)

LEMMA FeedInvImplies == FeedInv => F!TypeOK /\ F!NothingLeaks /\ F!PagesShowEachOnce
BY DEF FeedInv, FeedOnTrack, F!PagesShowEachOnce, F!Paged

LEMMA QuotaInvImplies == ASSUME Q!Sensible PROVE QuotaInv => Q!TypeOK /\ Q!QuotaHolds
<1> SUFFICES ASSUME QuotaInv PROVE Q!TypeOK /\ Q!QuotaHolds
  OBVIOUS
<1>1. Q!TypeOK
  BY DEF QuotaInv
<1>2. ASSUME NEW u \in Askers \ late
      PROVE  /\ \A d \in Q!Days : granted[u][d] <= LimitOf[u]
             /\ usage[u].day # 0 => usage[u].count = granted[u][usage[u].day]
  <2>1. \A d \in Q!Days : QuotaExact(u, d)
    BY <1>2 DEF QuotaInv
  <2>2. usage[u].day # 0 => usage[u].day \in Q!Days
    BY <1>1 DEF Q!TypeOK, Q!Count, Q!Days, Q!Sensible
  <2> QED BY <2>1, <2>2 DEF QuotaExact
<1> QED BY <1>1, <1>2 DEF Q!QuotaHolds

LEMMA ReadersInvImplies ==
  ASSUME R!Sensible
  PROVE  ReadersInv => /\ R!TypeOK /\ R!ViewersCountOnce
                       /\ R!AnswersAreFresh /\ R!CacheKeepsLatest
<1> SUFFICES ASSUME ReadersInv
             PROVE  /\ R!TypeOK /\ R!ViewersCountOnce
                    /\ R!AnswersAreFresh /\ R!CacheKeepsLatest
  OBVIOUS
<1>1. Len(viewers) <= Remembered
  BY LenProperties DEF ReadersInv, ReadersViewsInv, ReadersRemembersLatest, AtMost, R!Sensible
<1>2. R!TypeOK
  BY <1>1 DEF ReadersInv, ReadersPostInv, ReadersViewsInv, ReadersCachesInv, R!TypeOK,
              ReadersKeys
<1>3. R!ViewersCountOnce
  BY DEF ReadersInv, ReadersViewsInv
<1>4. R!AnswersAreFresh
  BY DEF ReadersInv, ReadersCachesInv, R!AnswersAreFresh
<1>5. R!CacheKeepsLatest
  BY DEF ReadersInv, ReadersCachesInv, ReadersCached, ReadersKeysEnd, AtMost,
         R!CacheKeepsLatest
<1> QED BY <1>2, <1>3, <1>4, <1>5

LEMMA NewsletterInvImplies == NewsletterInv => N!TypeOK /\ N!MailsAreWanted
BY DEF NewsletterInv, NewsletterStoreOK, NewsletterTokensOK, NewsletterConfirmedOK,
       N!TypeOK, N!MailsAreWanted

-----------------------------------------------------------------------------
(* Side by side                                                            *)

\* The part that is checked keeps its invariant; nothing else is authorised.
SurfaceInv ==
  /\ part \in {"access", "feed", "quota", "readers", "newsletter"}
  /\ part = "access" => AccessInv
  /\ part # "access" => overreach = FALSE
  /\ part = "feed" => FeedInv
  /\ part = "quota" => QuotaInv
  /\ part = "readers" => ReadersInv
  /\ part = "newsletter" => NewsletterInv

LEMMA SurfaceInitInv == SurfaceInit => SurfaceInv
<1> SUFFICES ASSUME SurfaceInit PROVE SurfaceInv
  OBVIOUS
<1>1. F!Sensible /\ Q!Sensible /\ R!Sensible /\ N!Sensible
  BY SurfaceAssumption
<1>2. CASE part = "access" /\ Init
  BY <1>2, AccessInitInv DEF SurfaceInv
<1>3. CASE part = "feed" /\ F!Init /\ AccessRests
  BY <1>1, <1>3, FeedInitInv DEF SurfaceInv, AccessRests
<1>4. CASE part = "quota" /\ Q!Init /\ AccessRests
  BY <1>1, <1>4, QuotaInitInv DEF SurfaceInv, AccessRests
<1>5. CASE part = "readers" /\ R!Init /\ AccessRests
  BY <1>1, <1>5, ReadersInitInv DEF SurfaceInv, AccessRests
<1>6. CASE part = "newsletter" /\ N!Init /\ AccessRests
  BY <1>1, <1>6, NewsletterInitInv DEF SurfaceInv, AccessRests
<1> QED BY <1>2, <1>3, <1>4, <1>5, <1>6 DEF SurfaceInit

\* A step is one of the part that is checked, or of none.
LEMMA OnePartSteps ==
  ASSUME [SurfaceNext]_surfaceVars
  PROVE  /\ part' = part
         /\ part = "access" => [Next]_vars
         /\ part # "access" => UNCHANGED overreach
         /\ part = "feed" => [F!Next]_F!vars
         /\ part = "quota" => [Q!Next]_Q!vars
         /\ part = "readers" => [R!Next]_R!vars
         /\ part = "newsletter" => [N!Next]_N!vars
<1> USE DEF ofAccess
<1>1. CASE AccessNext
  BY <1>1 DEF AccessNext
<1>2. CASE FeedNext
  BY <1>2 DEF FeedNext
<1>3. CASE QuotaNext
  BY <1>3 DEF QuotaNext
<1>4. CASE ReadersNext
  BY <1>4 DEF ReadersNext
<1>5. CASE NewsletterNext
  BY <1>5 DEF NewsletterNext
<1>6. CASE UNCHANGED surfaceVars
  BY <1>6 DEF surfaceVars, ofFeed, ofQuota, ofReaders, ofNewsletter, vars, F!vars, Q!vars,
              R!vars, N!vars
<1> QED BY <1>1, <1>2, <1>3, <1>4, <1>5, <1>6 DEF SurfaceNext

LEMMA SurfaceStepInv == SurfaceInv /\ [SurfaceNext]_surfaceVars => SurfaceInv'
<1> SUFFICES ASSUME SurfaceInv, [SurfaceNext]_surfaceVars PROVE SurfaceInv'
  OBVIOUS
<1>1. F!Sensible /\ Q!Sensible /\ R!Sensible /\ N!Sensible
  BY SurfaceAssumption
<1>2. part' = part /\ part \in {"access", "feed", "quota", "readers", "newsletter"}
  BY OnePartSteps DEF SurfaceInv
<1>3. part = "access" => AccessInv'
  BY OnePartSteps, AccessStepInv DEF SurfaceInv
<1>4. part # "access" => overreach' = FALSE
  BY OnePartSteps DEF SurfaceInv
<1>5. part = "feed" => FeedInv'
  BY <1>1, OnePartSteps, FeedStepInv DEF SurfaceInv
<1>6. part = "quota" => QuotaInv'
  BY <1>1, OnePartSteps, QuotaStepInv DEF SurfaceInv
<1>7. part = "readers" => ReadersInv'
  BY <1>1, OnePartSteps, ReadersStepInv DEF SurfaceInv
<1>8. part = "newsletter" => NewsletterInv'
  BY <1>1, OnePartSteps, NewsletterStepInv DEF SurfaceInv
<1> QED BY <1>2, <1>3, <1>4, <1>5, <1>6, <1>7, <1>8 DEF SurfaceInv

THEOREM SurfaceInvariance == SurfaceSpec => []SurfaceInv
BY SurfaceInitInv, SurfaceStepInv, PTL DEF SurfaceSpec

-----------------------------------------------------------------------------
(* The theorems: each component's own, and the same side by side           *)

\* Accounts, documents, lists, counts, caches, subscriptions and requests stay
\* well formed, whatever their number.
THEOREM PartsCorrect == SurfaceSpec => []PartsOK
<1>1. SurfaceInv => PartsOK
  <2> SUFFICES ASSUME SurfaceInv PROVE PartsOK
    OBVIOUS
  <2>1. CASE part = "access"
    BY <2>1 DEF SurfaceInv, PartsOK, AccessInv
  <2>2. CASE part = "feed"
    BY <2>2, FeedInvImplies DEF SurfaceInv, PartsOK
  <2>3. CASE part = "quota"
    BY <2>3, SurfaceAssumption, QuotaInvImplies DEF SurfaceInv, PartsOK
  <2>4. CASE part = "readers"
    BY <2>4, SurfaceAssumption, ReadersInvImplies DEF SurfaceInv, PartsOK
  <2>5. CASE part = "newsletter"
    BY <2>5, NewsletterInvImplies DEF SurfaceInv, PartsOK
  <2> QED BY <2>1, <2>2, <2>3, <2>4, <2>5 DEF SurfaceInv
<1> QED BY <1>1, SurfaceInvariance, PTL

\* jwt.strategy.ts:38, docs/DECISIONS.md:46: through whichever of the
\* endpoints, nothing takes effect for a caller who was not entitled to it at
\* any moment of the request, however many accounts are moderated, deleted or
\* confirmed meanwhile.
THEOREM RightsCorrect ==
  /\ Spec => []NothingWithoutRight
  /\ SurfaceSpec => []NothingWithoutRight
<1>1. AccessInv => NothingWithoutRight
  BY DEF AccessInv
<1>2. SurfaceInv => NothingWithoutRight
  BY <1>1 DEF SurfaceInv, NothingWithoutRight
<1>3. Spec => []NothingWithoutRight
  BY <1>1, AccessInitInv, AccessStepInv, PTL DEF Spec
<1>4. SurfaceSpec => []NothingWithoutRight
  BY <1>2, SurfaceInvariance, PTL
<1> QED BY <1>3, <1>4

\* posts.service.ts:173 and the other lists by descending id: whatever changes
\* between pages, nothing is shown twice and nothing that did not change is
\* left out.
THEOREM PagesCorrect ==
  /\ F!Spec => []F!PagesShowEachOnce
  /\ SurfaceSpec => []PagesShowEachOnce
<1>1. F!Init => FeedInv
  BY SurfaceAssumption, FeedInitInv
<1>2. FeedInv /\ [F!Next]_F!vars => FeedInv'
  BY SurfaceAssumption, FeedStepInv
<1>3. FeedInv => F!PagesShowEachOnce
  BY FeedInvImplies
<1>4. SurfaceInv => PagesShowEachOnce
  BY <1>3 DEF SurfaceInv, PagesShowEachOnce
<1>5. F!Spec => []F!PagesShowEachOnce
  BY <1>1, <1>2, <1>3, PTL DEF F!Spec
<1>6. SurfaceSpec => []PagesShowEachOnce
  BY <1>4, SurfaceInvariance, PTL
<1> QED BY <1>5, <1>6

\* posts.service.ts:141: no list shows a hidden post to anyone but its author,
\* or what is another account's.
THEOREM LeaksCorrect ==
  /\ F!Spec => []F!NothingLeaks
  /\ SurfaceSpec => []NothingLeaks
<1>1. F!Init => FeedInv
  BY SurfaceAssumption, FeedInitInv
<1>2. FeedInv /\ [F!Next]_F!vars => FeedInv'
  BY SurfaceAssumption, FeedStepInv
<1>3. FeedInv => F!NothingLeaks
  BY FeedInvImplies
<1>4. SurfaceInv => NothingLeaks
  BY <1>3 DEF SurfaceInv, NothingLeaks
<1>5. F!Spec => []F!NothingLeaks
  BY <1>1, <1>2, <1>3, PTL DEF F!Spec
<1>6. SurfaceSpec => []NothingLeaks
  BY <1>4, SurfaceInvariance, PTL
<1> QED BY <1>5, <1>6

\* ai-quota.service.ts:13: in parallel or not, on any number of instances, no
\* account is granted more calls in the name of a day than its plan has, but
\* for one whose count a request of the day before made start again.
THEOREM QuotaCorrect ==
  /\ Q!Spec => []Q!QuotaHolds
  /\ SurfaceSpec => []QuotaHolds
<1>1. Q!Init => QuotaInv
  BY SurfaceAssumption, QuotaInitInv
<1>2. QuotaInv /\ [Q!Next]_Q!vars => QuotaInv'
  BY SurfaceAssumption, QuotaStepInv
<1>3. QuotaInv => Q!QuotaHolds
  BY SurfaceAssumption, QuotaInvImplies
<1>4. SurfaceInv => QuotaHolds
  BY <1>3 DEF SurfaceInv, QuotaHolds
<1>5. Q!Spec => []Q!QuotaHolds
  BY <1>1, <1>2, <1>3, PTL DEF Q!Spec
<1>6. SurfaceSpec => []QuotaHolds
  BY <1>4, SurfaceInvariance, PTL
<1> QED BY <1>5, <1>6

LEMMA ReadersInvariance == R!Spec => []ReadersInv
<1>1. R!Init => ReadersInv
  BY SurfaceAssumption, ReadersInitInv
<1>2. ReadersInv /\ [R!Next]_R!vars => ReadersInv'
  BY SurfaceAssumption, ReadersStepInv
<1> QED BY <1>1, <1>2, PTL DEF R!Spec

\* posts.service.ts:335: whatever the number a post remembers, of the accounts
\* and of the days, a viewer counts again only after as many others.
THEOREM ViewersCorrect ==
  /\ R!Spec => []R!ViewersCountOnce
  /\ SurfaceSpec => []ViewersCountOnce
<1>1. ReadersInv => R!ViewersCountOnce
  BY SurfaceAssumption, ReadersInvImplies
<1>2. SurfaceInv => ViewersCountOnce
  BY <1>1 DEF SurfaceInv, ViewersCountOnce
<1>3. R!Spec => []R!ViewersCountOnce
  BY <1>1, ReadersInvariance, PTL
<1>4. SurfaceSpec => []ViewersCountOnce
  BY <1>2, SurfaceInvariance, PTL
<1> QED BY <1>3, <1>4

\* posts.service.ts:877: no reader gets an answer that was drawn from another
\* version than the request read, on any number of instances and requests.
THEOREM FreshCorrect ==
  /\ R!Spec => []R!AnswersAreFresh
  /\ SurfaceSpec => []AnswersAreFresh
<1>1. ReadersInv => R!AnswersAreFresh
  BY SurfaceAssumption, ReadersInvImplies
<1>2. SurfaceInv => AnswersAreFresh
  BY <1>1 DEF SurfaceInv, AnswersAreFresh
<1>3. R!Spec => []R!AnswersAreFresh
  BY <1>1, ReadersInvariance, PTL
<1>4. SurfaceSpec => []AnswersAreFresh
  BY <1>2, SurfaceInvariance, PTL
<1> QED BY <1>3, <1>4

\* lru-cache.ts:1: whatever its capacity, a cache holds the answers of the
\* keys that were used last, in the order of their use.
THEOREM CacheCorrect ==
  /\ R!Spec => []R!CacheKeepsLatest
  /\ SurfaceSpec => []CacheKeepsLatest
<1>1. ReadersInv => R!CacheKeepsLatest
  BY SurfaceAssumption, ReadersInvImplies
<1>2. SurfaceInv => CacheKeepsLatest
  BY <1>1 DEF SurfaceInv, CacheKeepsLatest
<1>3. R!Spec => []R!CacheKeepsLatest
  BY <1>1, ReadersInvariance, PTL
<1>4. SurfaceSpec => []CacheKeepsLatest
  BY <1>2, SurfaceInvariance, PTL
<1> QED BY <1>3, <1>4

\* newsletter-subscriber.schema.ts:16, newsletter.service.ts:83: whatever the
\* number of addresses, sites and requests and the size of a batch, an address
\* is on a list only by the link that was mailed to it and followed, and who
\* is on the list of a post's mails gets one.
THEOREM MailsCorrect ==
  /\ N!Spec => []N!MailsAreWanted
  /\ SurfaceSpec => []MailsAreWanted
<1>1. N!Init => NewsletterInv
  BY SurfaceAssumption, NewsletterInitInv
<1>2. NewsletterInv /\ [N!Next]_N!vars => NewsletterInv'
  BY SurfaceAssumption, NewsletterStepInv
<1>3. NewsletterInv => N!MailsAreWanted
  BY NewsletterInvImplies
<1>4. SurfaceInv => MailsAreWanted
  BY <1>3 DEF SurfaceInv, MailsAreWanted
<1>5. N!Spec => []N!MailsAreWanted
  BY <1>1, <1>2, <1>3, PTL DEF N!Spec
<1>6. SurfaceSpec => []MailsAreWanted
  BY <1>4, SurfaceInvariance, PTL
<1> QED BY <1>5, <1>6

=============================================================================
