--------------------------------- MODULE Feed ---------------------------------
(***************************************************************************)
(* Lists read page by page while what they list changes: posts, bookmarks, *)
(* followers, notifications, accounts, and single posts.                   *)
(*                                                                         *)
(* A page is one query: the documents that match, below the cursor, by     *)
(* descending id, one more than the page holds; its last id is the next    *)
(* cursor.  Ids are drawn by the process that inserts, so a document may   *)
(* turn up below one that is older.                                        *)
(*                                                                         *)
(* Left out: counts, tags and other filters that documents do not change   *)
(* with.  The cursor of search results is known not to fit their order     *)
(* (search.service.ts:34).                                                 *)
(***************************************************************************)
EXTENDS Naturals, FiniteSets

CONSTANTS
  Users,     \* accounts
  Admins,    \* those with the admin role
  NoOne,     \* a caller without a token; no filter
  Readers,   \* clients that read a list
  OwnerOf,   \* the account each document is of
  Score,     \* relevance of each document to a search
  PageSize,  \* documents of a page
  MaxDocs    \* bound: documents of the collection

VARIABLES
  docs,  \* the collection that is listed
  walk   \* what each reader is about

vars == <<docs, walk>>

-----------------------------------------------------------------------------
(* Documents and lists                                                     *)

Ids == 1 .. MaxDocs

\* What the proofs take of the constants: a page holds something, and every
\* document has its relevance.
Sensible == PageSize \in Nat \ {0} /\ MaxDocs \in Nat /\ Score \in [Ids -> Nat]

\* Whether a document is open: a post, or the post of a bookmark, is
\* published; a notification is unread; an account is active; a report is
\* pending; the other side of a follow is there.
Doc == {"unborn", "open", "closed", "gone"}

There(s) == s \in {"open", "closed"}

\* A list, the caller, the account it is asked for and the state asked for.
Query == [list : {"posts", "bookmarks", "followers", "notifications", "users",
                  "reports", "search"},
          caller : Users \cup {NoOne}, of : Users \cup {NoOne},
          state : {"any", "open", "closed"}]

\* State s is the one asked for.
Fits(q, s) == There(s) /\ q.state \in {"any", s}

\* Whether document i, in state s, matches query q.  findAll: hidden posts,
\* and all of one's own, are listed only to oneself.
SelectsPost(q, i, s) ==
  LET hidden == q.state = "closed"
      own == q.caller # NoOne /\ q.of = q.caller
  IN IF hidden \/ own
     THEN Fits(q, s) /\ q.caller = OwnerOf[i]
     ELSE s = "open" /\ q.of \in {NoOne, OwnerOf[i]}

\* getUserBookmarks: one's own.
Bookmarked(q, i, s) == There(s) /\ OwnerOf[i] = q.caller

\* findForUser: one's own, all or those unread.
Notified(q, i, s) == Fits(q, s) /\ OwnerOf[i] = q.caller

\* getFollowers, getFollowing: of anyone.
Following(q, i, s) == There(s) /\ OwnerOf[i] = q.of

\* getAllUsers: all of them, or by their state.
Account(q, s) == Fits(q, s)

\* getReports: by their status.
Reported(q, s) == Fits(q, s)

\* searchPosts: of anyone, or of one author.
Found(q, i, s) == s = "open" /\ q.of \in {NoOne, OwnerOf[i]}

Selects(q, i, s) == CASE q.list = "posts" -> SelectsPost(q, i, s)
                      [] q.list = "bookmarks" -> Bookmarked(q, i, s)
                      [] q.list = "notifications" -> Notified(q, i, s)
                      [] q.list = "followers" -> Following(q, i, s)
                      [] q.list = "users" -> Account(q, s)
                      [] q.list = "reports" -> Reported(q, s)
                      [] q.list = "search" -> Found(q, i, s)

\* Mutant: a bookmark shows its post whatever the post became.
Shows_All(q, s) == TRUE

\* populate with match, and filter(Boolean): a bookmarked post that is hidden
\* and a follower that is gone are left out of the page.
Shows(q, s) == q.list \in {"bookmarks", "followers"} => s = "open"

-----------------------------------------------------------------------------
(* Reading a list                                                          *)

\* What a reader has: the query and its cursor, the ids shown so far, and, for
\* history, the ids that were listed when it began and have not changed since,
\* whether it was shown a document again, or one that is not for it.
Walk == [pc : {"idle", "reading", "done"}, query : Query, cursor : Ids \cup {0},
         seen : SUBSET Ids, steady : SUBSET Ids, again : BOOLEAN, leaked : BOOLEAN]

NoQuery == [list |-> "posts", caller |-> NoOne, of |-> NoOne, state |-> "any"]

Idle == [pc |-> "idle", query |-> NoQuery, cursor |-> 0, seen |-> {},
         steady |-> {}, again |-> FALSE, leaked |-> FALSE]

Become(w, v) == walk' = [walk EXCEPT ![w] = v]

\* Only admins list accounts and reports; the others need an account where the
\* list is their own.
MayAsk(q) ==
  /\ q.list \in {"users", "reports"} => q.caller \in Admins
  /\ q.list \in {"bookmarks", "notifications"} =>
       q.caller # NoOne /\ q.of = NoOne /\ q.state \in {"any", "open"}
  /\ q.list = "followers" => q.of # NoOne /\ q.state = "any" /\ q.caller = NoOne
  /\ q.list = "search" => q.caller = NoOne /\ q.state = "any"
  /\ q.list = "bookmarks" => q.state = "any"
  /\ q.list \in {"users", "reports"} => q.of = NoOne

\* A page of q may show document i, in state s.
Lists(q, i, s) == Selects(q, i, s) /\ Shows(q, s)

Listed(q) == {i \in Ids : Lists(q, i, docs[i])}

Begin(w, q) ==
  /\ walk[w].pc = "idle" /\ MayAsk(q)
  /\ Become(w, [Idle EXCEPT !.pc = "reading", !.query = q, !.steady = Listed(q)])
  /\ UNCHANGED docs

\* Reports come oldest first, search results by relevance, all else newest
\* first.
Before(q, i, j) == CASE q.list = "reports" -> i < j
                     [] q.list = "search" /\ Score[i] # Score[j] -> Score[i] > Score[j]
                     [] OTHER -> i > j

Below(c, i) == c = 0 \/ i < c

\* The first n of a set, in the order of the list.
Taken(q, set, n) ==
  {i \in set : Cardinality({j \in set : Before(q, j, i)}) < n}

\* Mutant: the cursor is the document beyond the page.
CursorAfter_Beyond(q, hits) ==
  CHOOSE i \in Taken(q, hits, PageSize + 1) :
    \A j \in Taken(q, hits, PageSize + 1) : ~Before(q, i, j)

\* The last document of the page.
CursorAfter(q, hits) ==
  CHOOSE i \in Taken(q, hits, PageSize) : \A j \in Taken(q, hits, PageSize) : ~Before(q, i, j)

\* History: whether a caller may see document i, in state s, in a list.
MaySee(q, i, s) ==
  CASE q.list = "posts" -> s = "open" \/ OwnerOf[i] = q.caller
    [] q.list = "notifications" -> OwnerOf[i] = q.caller
    [] q.list \in {"bookmarks", "search"} -> s = "open"
    [] OTHER -> TRUE

Page(w) ==
  LET v == walk[w]
      q == v.query
      hits == {i \in Ids : Selects(q, i, docs[i]) /\ Below(v.cursor, i)}
      shown == {i \in Taken(q, hits, PageSize) : Shows(q, docs[i])}
  IN
  /\ v.pc = "reading"
  /\ Become(w, [v EXCEPT
       !.pc = IF Cardinality(hits) > PageSize THEN "reading" ELSE "done",
       !.cursor = IF Cardinality(hits) > PageSize THEN CursorAfter(q, hits) ELSE 0,
       !.seen = @ \cup shown,
       !.again = @ \/ v.seen \cap shown # {},
       !.leaked = @ \/ \E i \in shown : ~MaySee(q, i, docs[i])])
  /\ UNCHANGED docs

-----------------------------------------------------------------------------
(* What others do meanwhile                                                *)

\* What changed is not what it was when the walk began.
Stirred(i) == [w \in Readers |-> [walk[w] EXCEPT !.steady = @ \ {i}]]

\* A new document; ids need not follow each other.
Insert(i, s) ==
  /\ docs[i] = "unborn" /\ s \in {"open", "closed"}
  /\ docs' = [docs EXCEPT ![i] = s]
  /\ walk' = Stirred(i)

\* It is published, unpublished, read, reviewed, deactivated, ...
Change(i) ==
  /\ There(docs[i])
  /\ docs' = [docs EXCEPT ![i] = IF @ = "open" THEN "closed" ELSE "open"]
  /\ walk' = Stirred(i)

Delete(i) ==
  /\ There(docs[i])
  /\ docs' = [docs EXCEPT ![i] = "gone"]
  /\ walk' = Stirred(i)

-----------------------------------------------------------------------------

Init ==
  /\ docs \in [Ids -> Doc \ {"gone"}]
  /\ walk = [w \in Readers |-> Idle]

Read(w) == (\E q \in Query : Begin(w, q)) \/ Page(w)

Next == \/ \E w \in Readers : Read(w)
        \/ \E i \in Ids : \/ \E s \in Doc : Insert(i, s)
                          \/ Change(i) \/ Delete(i)

Spec == Init /\ [][Next]_vars

-----------------------------------------------------------------------------
(* Properties                                                              *)

\* The collection and the readers stay well formed.
TypeOK == docs \in [Ids -> Doc] /\ walk \in [Readers -> Walk]

\* Lists whose cursor fits their order.
Paged(w) == walk[w].query.list \notin {"reports", "search"}

\* posts.service.ts:173, bookmarks.service.ts:85, follows.service.ts:90,
\* notifications.service.ts:175: whatever is inserted, changed or deleted
\* between two pages, no document is shown twice, and what was listed when the
\* reader began, and did not change, is on some page.
PagesShowEachOnce == \A w \in Readers : Paged(w) =>
  /\ ~walk[w].again
  /\ walk[w].pc = "done" => walk[w].steady \subseteq walk[w].seen

\* posts.service.ts:141, bookmarks.service.ts:93: unpublished means
\* private: no list shows a hidden post to anyone but its author, or what is
\* another account's.
NothingLeaks == \A w \in Readers : ~walk[w].leaked

=============================================================================
