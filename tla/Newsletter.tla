------------------------------ MODULE Newsletter ------------------------------
(***************************************************************************)
(* Subscriptions to the mails about new posts, with double opt-in, and the *)
(* sending of these mails in batches.                                      *)
(*                                                                         *)
(* One token serves both to confirm and to unsubscribe.  A mail may get    *)
(* lost, but never fails its caller.  Left out: the welcome mail, and what *)
(* makes a post announced (PostLifecycle).                                 *)
(***************************************************************************)
EXTENDS Naturals, Sequences, FiniteSets, SequencesExt

CONSTANTS
  Addresses,  \* mail addresses
  Spaces,     \* the sites, each with its subscribers
  BatchSize,  \* mails sent at a time
  Requests,   \* requests that may be in progress at one time
  MaxTokens   \* bound: tokens ever drawn

VARIABLES
  subscriber, \* the subscription of each address to each site
  inbox,      \* tokens that reached each address by mail
  last,       \* last token drawn
  req,        \* requests in progress
  \* History, read by no guard:
  agreed,     \* tokens of subscriptions whose link was followed
  wrong       \* a mail went out to a subscriber twice, or to one not at all

vars == <<subscriber, inbox, last, req, agreed, wrong>>

\* What the proofs take of the constants: there are addresses and sites,
\* finitely many, and a batch takes one mail at least.
Sensible == /\ Addresses # {} /\ IsFiniteSet(Addresses)
            /\ Spaces # {} /\ IsFiniteSet(Spaces)
            /\ BatchSize \in Nat \ {0} /\ MaxTokens \in Nat

-----------------------------------------------------------------------------

Tokens == 1 .. MaxTokens

Subscriptions == Addresses \X Spaces

\* Token 0: there is no document.
Subscriber == [token : 0 .. MaxTokens, confirmed : BOOLEAN]

Nobody == [token |-> 0, confirmed |-> FALSE]

Confirmed(sp) == {x \in Subscriptions : x[2] = sp /\ subscriber[x].confirmed}

PCs == {"idle", "insert", "mail", "save", "batch"}

\* x: the subscription; token: of its copy; list: those to be mailed, next the
\* index the next batch begins at, batch those of this one still to be sent.
\* History, too: those that were sent.
Request == [pc : PCs, x : Subscriptions, token : 0 .. MaxTokens,
            list : Seq(Subscriptions), next : Nat, batch : SUBSET Subscriptions,
            sent : SUBSET Subscriptions]

Idle == [pc |-> "idle", x |-> CHOOSE x \in Subscriptions : TRUE, token |-> 0,
         list |-> <<>>, next |-> 0, batch |-> {}, sent |-> {}]

At(r, pc) == req[r].pc = pc

Become(r, q) == req' = [req EXCEPT ![r] = q]

-----------------------------------------------------------------------------
(* Subscribing                                                             *)

\* Who is confirmed gets an error; who is not, the same link once more.
Subscribe(r, x) == LET s == subscriber[x] IN
  /\ At(r, "idle") /\ ~s.confirmed
  /\ Become(r, [Idle EXCEPT !.pc = IF s.token = 0 THEN "insert" ELSE "mail", !.x = x,
                  !.token = s.token])
  /\ UNCHANGED <<subscriber, inbox, last, agreed, wrong>>

\* The unique index of address and site.
Vacant(x) == subscriber[x].token = 0

Insert(r) == LET x == req[r].x IN
  /\ At(r, "insert")
  /\ IF Vacant(x)
     THEN /\ last < MaxTokens /\ last' = last + 1
          /\ subscriber' = [subscriber EXCEPT ![x] = [token |-> last', confirmed |-> FALSE]]
          /\ Become(r, [req[r] EXCEPT !.pc = "mail", !.token = last'])
     ELSE Become(r, Idle) /\ UNCHANGED <<subscriber, last>>
  /\ UNCHANGED <<inbox, agreed, wrong>>

\* sendConfirmationEmail
MailLink(r) == LET a == req[r].x[1] IN
  /\ At(r, "mail")
  /\ inbox' \in {inbox, [inbox EXCEPT ![a] = @ \cup {req[r].token}]}
  /\ Become(r, Idle)
  /\ UNCHANGED <<subscriber, last, agreed, wrong>>

\* Whoever has the mail follows its link.
Confirm(r, a, t, x) ==
  /\ At(r, "idle") /\ t \in inbox[a] /\ subscriber[x].token = t
  /\ Become(r, IF subscriber[x].confirmed THEN Idle
               ELSE [Idle EXCEPT !.pc = "save", !.x = x, !.token = t])
  /\ agreed' = agreed \cup {t}
  /\ UNCHANGED <<subscriber, inbox, last, wrong>>

\* Mutant: the subscription is found by address and site.
Same_Address(q) == subscriber[q.x].token # 0

\* save() is of the document that was found: it fails when that is gone.
Same(q) == subscriber[q.x].token = q.token

SaveConfirmed(r) == LET q == req[r] IN
  /\ At(r, "save")
  /\ subscriber' = IF Same(q) THEN [subscriber EXCEPT ![q.x].confirmed = TRUE] ELSE subscriber
  /\ Become(r, Idle)
  /\ UNCHANGED <<inbox, last, agreed, wrong>>

\* deleteOne
Unsubscribe(a, x) ==
  /\ subscriber[x].token \in inbox[a]
  /\ subscriber' = [subscriber EXCEPT ![x] = Nobody]
  /\ UNCHANGED <<inbox, last, req, agreed, wrong>>

-----------------------------------------------------------------------------
(* Mails about a new post                                                  *)

\* subscribers.slice(i, i + BATCH_SIZE)
BatchFrom(list, i) == {list[k] : k \in {k \in DOMAIN list : k > i /\ k <= i + BatchSize}}

\* notifySubscribersOfNewPost
NotifySubscribers(r, sp) == LET list == SetToSeq(Confirmed(sp)) IN
  /\ At(r, "idle") /\ list # <<>>
  /\ Become(r, [Idle EXCEPT !.pc = "batch", !.list = list, !.next = BatchSize,
                  !.batch = BatchFrom(list, 0)])
  /\ UNCHANGED <<subscriber, inbox, last, agreed, wrong>>

\* One mail of a Promise.all, with the link to unsubscribe.
SendMail(r, x) == LET q == req[r] IN
  /\ At(r, "batch") /\ x \in q.batch
  /\ wrong' = (wrong \/ x \in q.sent)
  /\ Become(r, [q EXCEPT !.batch = @ \ {x}, !.sent = @ \cup {x}])
  /\ UNCHANGED <<subscriber, inbox, last, agreed>>

\* The next batch, or the end.
NextBatch(r) == LET q == req[r] IN
  /\ At(r, "batch") /\ q.batch = {}
  /\ IF q.next < Len(q.list)
     THEN /\ Become(r, [q EXCEPT !.batch = BatchFrom(q.list, q.next), !.next = @ + BatchSize])
          /\ UNCHANGED wrong
     ELSE Become(r, Idle) /\ wrong' = (wrong \/ q.sent # Range(q.list))
  /\ UNCHANGED <<subscriber, inbox, last, agreed>>

-----------------------------------------------------------------------------

\* The process is lost.
Crash(r) ==
  /\ ~At(r, "idle")
  /\ Become(r, Idle)
  /\ UNCHANGED <<subscriber, inbox, last, agreed, wrong>>

Init ==
  /\ subscriber = [x \in Subscriptions |-> Nobody]
  /\ inbox = [a \in Addresses |-> {}]
  /\ last = 0
  /\ req = [r \in Requests |-> Idle]
  /\ agreed = {} /\ wrong = FALSE

Serve(r) ==
  \/ \E x \in Subscriptions : \/ Subscribe(r, x)
                              \/ \E a \in Addresses, t \in Tokens : Confirm(r, a, t, x)
                              \/ SendMail(r, x)
  \/ Insert(r) \/ MailLink(r) \/ SaveConfirmed(r)
  \/ \E sp \in Spaces : NotifySubscribers(r, sp)
  \/ NextBatch(r) \/ Crash(r)

Next == \/ \E r \in Requests : Serve(r)
        \/ \E a \in Addresses, x \in Subscriptions : Unsubscribe(a, x)

Spec == Init /\ [][Next]_vars

-----------------------------------------------------------------------------
(* Properties                                                              *)

\* Subscriptions and requests stay well formed; a token is of one document.
TypeOK ==
  /\ subscriber \in [Subscriptions -> Subscriber]
  /\ \A x, y \in Subscriptions :
       subscriber[x].token = subscriber[y].token => x = y \/ subscriber[x] = Nobody
  /\ inbox \in [Addresses -> SUBSET Tokens] /\ last \in 0 .. MaxTokens
  /\ req \in [Requests -> Request]
  /\ agreed \subseteq Tokens /\ wrong \in BOOLEAN

\* newsletter-subscriber.schema.ts:16 and newsletter.service.ts:83: an address
\* is on the list of a site only by the link of its present subscription,
\* mailed to that address and followed, whatever was subscribed, confirmed and
\* cancelled at the same time; and who is on the list when the mails of a post
\* begin gets exactly one.
MailsAreWanted ==
  /\ \A x \in Subscriptions : subscriber[x].confirmed =>
       subscriber[x].token \in agreed \cap inbox[x[1]]
  /\ ~wrong

=============================================================================
