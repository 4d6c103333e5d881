-------------------------------- MODULE Quota ---------------------------------
(***************************************************************************)
(* What the AI may be asked for: so many calls a day by each account, kept *)
(* in the database, and so many a day by each process, kept in its memory. *)
(*                                                                         *)
(* A request computes the day, sends one update that checks and spends the *)
(* account's quota, and when that is answered spends the budget of its     *)
(* process and calls the model.  Left out: what is asked and answered.     *)
(***************************************************************************)
EXTENDS Naturals, FiniteSets

CONSTANTS
  Users,     \* accounts
  NoOne,     \* a reader, who needs no account to ask about a post
  LimitOf,   \* calls a day of each account, by its plan
  Processes, \* server instances
  Budget,    \* calls a day of each instance
  Requests,  \* requests that may be in progress at one time
  MaxDay     \* bound: the last day

VARIABLES
  day,     \* today, UTC
  usage,   \* aiUsage of each account
  spent,   \* what each instance spent
  req,     \* requests in progress
  \* History, read by no guard:
  granted, \* calls each account was granted in the name of each day
  late     \* accounts that spent quota of a day after that of a later one

vars == <<day, usage, spent, req, granted, late>>

\* What the proofs take of the constants: every plan has calls, and some
\* instance is up.
Sensible ==
  /\ NoOne \notin Users /\ Processes # {}
  /\ LimitOf \in [Users -> Nat \ {0}]
  /\ Budget \in Nat /\ MaxDay \in Nat \ {0}

-----------------------------------------------------------------------------

Days == 1 .. MaxDay

\* Day 0: nothing was spent yet.
Count(n) == [day : 0 .. MaxDay, count : 0 .. n]

Never == [day |-> 0, count |-> 0]

Request == [pc : {"idle", "consume", "spend", "model"}, user : Users \cup {NoOne},
            day : 0 .. MaxDay, process : Processes]

Idle == [pc |-> "idle", user |-> NoOne, day |-> 0, process |-> CHOOSE p \in Processes : TRUE]

At(r, pc) == req[r].pc = pc

Become(r, q) == req' = [req EXCEPT ![r] = q]

\* generatePostSummary, suggestTags, suggestTitles, reviewDraft and narration
\* consume; answers to readers and embeddings only spend.
Ask(r, u, p) ==
  /\ At(r, "idle")
  /\ Become(r, [pc |-> IF u = NoOne THEN "spend" ELSE "consume", user |-> u, day |-> day,
                process |-> p])
  /\ UNCHANGED <<day, usage, spent, granted, late>>

\* Mutant: the account may make one more.
MayConsume_OneMore(u, d) == usage[u].day # d \/ usage[u].count <= LimitOf[u]

MayConsume(u, d) == usage[u].day # d \/ usage[u].count < LimitOf[u]

\* Mutant: a new day goes on counting.
Consumed_On(u, d) == [day |-> d, count |-> usage[u].count + 1]

Consumed(u, d) == [day |-> d, count |-> IF usage[u].day = d THEN usage[u].count + 1 ELSE 1]

\* consume: one update.  A request of yesterday starts yesterday anew.
Consume(r) == LET u == req[r].user d == req[r].day IN
  /\ At(r, "consume")
  /\ IF MayConsume(u, d)
     THEN /\ usage' = [usage EXCEPT ![u] = Consumed(u, d)]
          /\ granted' = [granted EXCEPT ![u][d] = @ + 1]
          /\ late' = IF d < usage[u].day THEN late \cup {u} ELSE late
          /\ Become(r, [req[r] EXCEPT !.pc = "spend"])
     ELSE Become(r, Idle) /\ UNCHANGED <<usage, granted, late>>
  /\ UNCHANGED <<day, spent>>

\* What is spent today, of a count that may be of another day.
Today(s) == IF s.day = day THEN s.count ELSE 0

\* spend: no await, so a process takes it in one step.  Without budget the
\* caller gets nothing; its quota stays spent.
Spend(r) == LET p == req[r].process n == Today(spent[p]) IN
  /\ At(r, "spend")
  /\ spent' = [spent EXCEPT ![p] = [day |-> day, count |-> IF n < Budget THEN n + 1 ELSE n]]
  /\ Become(r, IF n < Budget THEN [req[r] EXCEPT !.pc = "model"] ELSE Idle)
  /\ UNCHANGED <<day, usage, granted, late>>

\* What is too long or too short to be narrated; its quota stays spent.
Refuse(r) ==
  /\ At(r, "spend") /\ req[r].user # NoOne
  /\ Become(r, Idle)
  /\ UNCHANGED <<day, usage, spent, granted, late>>

\* It answers, or fails and the answer is empty.
Model(r) ==
  /\ At(r, "model")
  /\ Become(r, Idle)
  /\ UNCHANGED <<day, usage, spent, granted, late>>

Midnight ==
  /\ day < MaxDay /\ day' = day + 1
  /\ UNCHANGED <<usage, spent, req, granted, late>>

\* An instance is lost, and with it what it spent and its requests.
Restart(p) ==
  /\ spent' = [spent EXCEPT ![p] = Never]
  /\ req' = [r \in Requests |-> IF req[r].process = p THEN Idle ELSE req[r]]
  /\ UNCHANGED <<day, usage, granted, late>>

-----------------------------------------------------------------------------

Init ==
  /\ day = 1
  /\ usage = [u \in Users |-> Never]
  /\ spent = [p \in Processes |-> Never]
  /\ req = [r \in Requests |-> Idle]
  /\ granted = [u \in Users |-> [d \in Days |-> 0]]
  /\ late = {}

Serve(r) == \/ \E u \in Users \cup {NoOne}, p \in Processes : Ask(r, u, p)
            \/ Consume(r) \/ Spend(r) \/ Refuse(r) \/ Model(r)

Next == (\E r \in Requests : Serve(r)) \/ Midnight \/ \E p \in Processes : Restart(p)

Spec == Init /\ [][Next]_vars

-----------------------------------------------------------------------------
(* Properties                                                              *)

\* Counts stay within their limits, and the rest well formed.
TypeOK ==
  /\ day \in Days
  /\ usage \in [Users -> [day : 0 .. MaxDay, count : Nat]]
  /\ \A u \in Users : usage[u].count <= LimitOf[u]
  /\ spent \in [Processes -> Count(Budget)]
  /\ req \in [Requests -> Request]
  /\ granted \in [Users -> [Days -> Nat]]
  /\ late \subseteq Users

\* ai-quota.service.ts:13: however many requests are under way, on whichever
\* instances, no account is granted more calls in the name of one day than its
\* plan has, and what is counted is what was granted: a crash in between loses
\* nothing.  Only a request that is a day late makes the count start again.
QuotaHolds == \A u \in Users \ late :
  /\ \A d \in Days : granted[u][d] <= LimitOf[u]
  /\ usage[u].day # 0 => usage[u].count = granted[u][usage[u].day]

=============================================================================
