------------------------------- MODULE Readers --------------------------------
(***************************************************************************)
(* What a published post keeps of its readers: who saw it, as a list of    *)
(* keys with a limit and a count, and the answers to their questions, that *)
(* each process keeps in a cache of those used last.                       *)
(*                                                                         *)
(* Every write of the post moves its updatedAt, the counting of a view     *)
(* included.  Left out: the budget of the model (Quota), and the rate at   *)
(* which a caller may ask.                                                 *)
(***************************************************************************)
EXTENDS Naturals, Sequences, FiniteSets, SequencesExt

CONSTANTS
  Users,      \* readers with an account
  Devices,    \* readers without
  Questions,  \* what they ask
  Processes,  \* server instances
  Requests,   \* questions that may be in progress at one time
  Remembered, \* viewers a post remembers
  Capacity,   \* answers a process remembers
  MaxDay,     \* bound: the last day
  MaxVersion, \* bound: writes of the post
  MaxAnswers  \* bound: keys ever used in a process

VARIABLES
  day,       \* today, UTC
  published, \* the post is published
  version,   \* its updatedAt
  viewers,   \* uniqueViewers, the newest last
  views,     \* viewCount
  answers,   \* LruCache of each process, the least recently used first
  req,       \* questions in progress
  \* History, read by no guard:
  counted,   \* the keys that were counted, one after the other
  used,      \* keys used in each process, the least recently used first
  stale      \* an answer was given from an older version than was read

vars == <<day, published, version, viewers, views, answers, req, counted, used, stale>>

\* What the proofs take of the constants: some process is up, and there is
\* something to ask.
Sensible == /\ Processes # {} /\ Questions # {}
            /\ Remembered \in Nat /\ Capacity \in Nat
            /\ MaxDay \in Nat \ {0} /\ MaxVersion \in Nat

-----------------------------------------------------------------------------
(* Views                                                                   *)

\* An account, or a device on a day.
Viewer == Users \cup (Devices \X (1 .. MaxDay))

\* Mutant: the oldest viewers are kept, not the newest.
Newest_Oldest(s) == SubSeq(s, 1, Remembered)

\* $slice: -1000
Newest(s) == IF Len(s) <= Remembered THEN s
             ELSE SubSeq(s, Len(s) - Remembered + 1, Len(s))

\* One update: a viewer the post remembers is not counted.
RecordView(k) ==
  /\ published /\ k \notin Range(viewers) /\ version < MaxVersion
  /\ viewers' = Newest(Append(viewers, k))
  /\ views' = views + 1
  /\ version' = version + 1
  /\ counted' = Append(counted, k)
  /\ UNCHANGED <<day, published, answers, req, used, stale>>

\* A viewer is known by the key of the day.
View == \/ \E u \in Users : RecordView(u)
        \/ \E d \in Devices : RecordView(<<d, day>>)

-----------------------------------------------------------------------------
(* Answers                                                                 *)

\* Mutant: answers are kept by question.
Key_Question(v, q) == <<0, q>>

Key(v, q) == <<v, q>>

\* A cached answer: its key, and the version it was drawn from.
Answer == [key : (0 .. MaxVersion) \X Questions, from : 0 .. MaxVersion]

Request == [pc : {"idle", "look", "model"}, process : Processes, version : 0 .. MaxVersion,
            question : Questions]

Idle == [pc |-> "idle", process |-> CHOOSE p \in Processes : TRUE, version |-> 0,
         question |-> CHOOSE q \in Questions : TRUE]

At(r, pc) == req[r].pc = pc

Become(r, q) == req' = [req EXCEPT ![r] = q]

\* The sequence without the one place of S, if there is one.
Without(s, S) == IF S = {} THEN s ELSE RemoveAt(s, CHOOSE i \in S : TRUE)

\* Map.delete
Drop(s, k) == Without(s, {i \in DOMAIN s : s[i].key = k})

\* Mutant: reading leaves an answer where it is.
Got_Same(s, a) == s

\* get: an answer that is read becomes the newest.
Got(s, a) == Append(Drop(s, a.key), a)

\* set: on overflow the first goes.
Put(s, a) == LET t == Append(Drop(s, a.key), a) IN IF Len(t) > Capacity THEN Tail(t) ELSE t

\* History: key k was used, in process p.
Latest(s, k) == Append(Without(s, {i \in DOMAIN s : s[i] = k}), k)

Using(p, k) == used' = [used EXCEPT ![p] = Latest(@, k)]

\* answerQuestion: the post is read, if it is published.
AskPost(r, p, q) ==
  /\ At(r, "idle") /\ published
  /\ Become(r, [pc |-> "look", process |-> p, version |-> version, question |-> q])
  /\ UNCHANGED <<day, published, version, viewers, views, answers, counted, used, stale>>

\* A cached answer is given; else the model is asked.
Look(r) ==
  LET q == req[r] p == q.process
      k == Key(q.version, q.question)
      hit == {a \in Range(answers[p]) : a.key = k}
  IN
  /\ At(r, "look")
  /\ IF hit = {}
     THEN Become(r, [q EXCEPT !.pc = "model"]) /\ UNCHANGED <<answers, used, stale>>
     ELSE /\ Become(r, Idle) /\ Using(p, k)
          /\ \E a \in hit : /\ answers' = [answers EXCEPT ![p] = Got(@, a)]
                            /\ stale' = (stale \/ a.from # q.version)
  /\ UNCHANGED <<day, published, version, viewers, views, counted>>

\* The model answers, from what was read, or returns nothing.
Answered(r) ==
  LET q == req[r] p == q.process k == Key(q.version, q.question) IN
  /\ At(r, "model")
  /\ Become(r, Idle)
  /\ \/ UNCHANGED <<answers, used>>
     \/ /\ Cardinality(Range(used[p]) \cup {k}) <= MaxAnswers
        /\ answers' = [answers EXCEPT ![p] = Put(@, [key |-> k, from |-> q.version])]
        /\ Using(p, k)
  /\ UNCHANGED <<day, published, version, viewers, views, counted, stale>>

-----------------------------------------------------------------------------

\* The author publishes, or edits.
Write ==
  /\ version < MaxVersion /\ version' = version + 1
  /\ \E s \in {TRUE, published} : published' = s
  /\ UNCHANGED <<day, viewers, views, answers, req, counted, used, stale>>

Midnight ==
  /\ day < MaxDay /\ day' = day + 1
  /\ UNCHANGED <<published, version, viewers, views, answers, req, counted, used, stale>>

\* A process is lost, with its cache and its requests.
Restart(p) ==
  /\ answers' = [answers EXCEPT ![p] = <<>>]
  /\ used' = [used EXCEPT ![p] = <<>>]
  /\ req' = [r \in Requests |-> IF req[r].process = p THEN Idle ELSE req[r]]
  /\ UNCHANGED <<day, published, version, viewers, views, counted, stale>>

Init ==
  /\ day = 1 /\ published \in BOOLEAN /\ version = 0
  /\ viewers = <<>> /\ views = 0
  /\ answers = [p \in Processes |-> <<>>]
  /\ req = [r \in Requests |-> Idle]
  /\ counted = <<>> /\ used = [p \in Processes |-> <<>>] /\ stale = FALSE

Serve(r) == \/ \E p \in Processes, q \in Questions : AskPost(r, p, q)
            \/ Look(r) \/ Answered(r)

Next == View \/ (\E r \in Requests : Serve(r)) \/ Write \/ Midnight
        \/ \E p \in Processes : Restart(p)

Spec == Init /\ [][Next]_vars

-----------------------------------------------------------------------------
(* Properties                                                              *)

\* The post, the caches and the requests stay well formed.
TypeOK ==
  /\ day \in 1 .. MaxDay /\ published \in BOOLEAN /\ version \in 0 .. MaxVersion
  /\ viewers \in Seq(Viewer) /\ Len(viewers) <= Remembered
  /\ views = Len(counted) /\ counted \in Seq(Viewer)
  /\ answers \in [Processes -> Seq(Answer)]
  /\ req \in [Requests -> Request]
  /\ used \in [Processes -> Seq((0 .. MaxVersion) \X Questions)] /\ stale \in BOOLEAN

\* posts.service.ts:335: a viewer counts once per account, or device and day,
\* until as many others as the post remembers were counted after it.
ViewersCountOnce == \A i, j \in DOMAIN counted :
  i < j /\ counted[i] = counted[j]
  => Cardinality({counted[k] : k \in (i + 1) .. (j - 1)}) >= Remembered

\* posts.service.ts:877: an edited post never serves stale answers: whatever
\* is cached, in whichever process, a reader gets an answer from the version
\* its request read.
AnswersAreFresh == ~stale

\* lru-cache.ts:1: a process keeps the answers that were used last, in the
\* order of their use, whatever was looked up and added in between.
CacheKeepsLatest == \A p \in Processes :
  LET n == Len(answers[p]) IN
  /\ n = IF Len(used[p]) < Capacity THEN Len(used[p]) ELSE Capacity
  /\ \A i \in 1 .. n : answers[p][i].key = used[p][Len(used[p]) - n + i]

=============================================================================
