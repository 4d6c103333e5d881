------------------------------- MODULE Shelves --------------------------------
(***************************************************************************)
(* Where posts are kept: their space and type, their category and their    *)
(* place in a series, and the number of posts each category and series     *)
(* caches.  Category and series are both called shelves here.              *)
(*                                                                         *)
(* Each step is one database call.  A handler reads a post, decides on     *)
(* the copy and saves it: save() writes the paths changed on the copy, and *)
(* the counts are shifted by calls of their own.                           *)
(*                                                                         *)
(* Left out: names, slugs, titles and descriptions.  A category refused    *)
(* for its name changes nothing, and its update writes nothing else.       *)
(***************************************************************************)
EXTENDS Integers, Sequences, FiniteSets

CONSTANTS
  Posts,       \* posts that may be written
  Categories,  \* categories that may be made
  SeriesIds,   \* series that may be made
  Users,       \* accounts that call
  Admins,      \* those with the admin role
  None,        \* no category, no series, no post
  AuthorOf,    \* author of each post
  OwnerOf,     \* author of each series
  Kinds,       \* <<space, type>> a caller may ask for
  Orders,      \* orders a caller may ask for
  Made,        \* categories and series made before
  Requests,    \* requests that may be in progress at one time
  MaxCount,    \* bound: size of a cached count, either side of zero
  MaxCalls     \* bound: requests ever begun

VARIABLES
  post,   \* posts collection
  shelf,  \* categories and series collections
  req,    \* requests in progress
  calls,  \* requests begun
  \* History, read by no guard:
  stale,   \* posts saved or deleted by a handler whose copy was out of date
  moved,   \* posts given another space while they were on a shelf
  torn,    \* shelves of such posts, and those whose count was lost in a crash
  crossed  \* shelves deleted while a post was being put on them

vars == <<post, shelf, req, calls, stale, moved, torn, crossed>>

-----------------------------------------------------------------------------
(* Documents                                                               *)

Shelves == Categories \cup SeriesIds

Spaces == {"devscript", "personal"}

\* Poems are as reflections.
Types == {"article", "note", "reflection"}

\* What the proofs take of the constants: one name means one thing, and there
\* are finitely many posts and requests to count.
Sensible ==
  /\ Categories \cap SeriesIds = {} /\ None \notin Shelves \cup Posts \cup Users
  /\ IsFiniteSet(Posts) /\ IsFiniteSet(Requests)
  /\ Kinds \subseteq Spaces \X Types /\ Orders \subseteq Int
  /\ MaxCount \in Nat /\ MaxCalls \in Nat

\* VALID_POST_TYPES_BY_SPACE
ValidTypes == [devscript |-> {"article", "note"}, personal |-> {"reflection", "note"}]

NoOrder == 0

Post == [state : {"unborn", "there", "gone"}, space : Spaces, type : Types,
         category : Categories \cup {None}, series : SeriesIds \cup {None}, order : Int]

Unborn == [state |-> "unborn", space |-> "devscript", type |-> "note",
           category |-> None, series |-> None, order |-> NoOrder]

Gone == [Unborn EXCEPT !.state = "gone"]

Shelf == [state : {"unborn", "there", "gone"}, space : Spaces, count : Int]

Exists(p) == post[p].state = "there"

Open(x) == x \in Shelves /\ shelf[x].state = "there"

ShelvesOf(d) == {d.category, d.series} \ {None}

Members(x) == {p \in Posts : Exists(p) /\ x \in ShelvesOf(post[p])}

\* The copy with its changes over what is stored by now.
Merge(stored, copy, new) ==
  [f \in DOMAIN stored |-> IF new[f] = copy[f] THEN stored[f] ELSE new[f]]

-----------------------------------------------------------------------------
(* Requests                                                                *)

PCs == {"idle", "assert", "insert", "save", "shift", "delete", "addRead",
        "owner", "uncount", "dropCategory", "unlink", "dropSeries"}

\* A shift of a cached count.
ShiftOf == [shelf : Shelves, by : {1, -1}]

\* A request: the post, its copy and what the handler made of it, the series
\* or category, its count as it was read, the order asked for, the user, and
\* the shifts still to be made.  counted: the count went down before the save.
Request == [pc : PCs, user : Users \cup {None}, post : Posts \cup {None},
            copy : Post, new : Post, shelf : Shelves \cup {None},
            read : Int, order : Int, counted : BOOLEAN, shifts : Seq(ShiftOf)]

Idle == [pc |-> "idle", user |-> None, post |-> None, copy |-> Unborn, new |-> Unborn,
         shelf |-> None, read |-> 0, order |-> NoOrder, counted |-> FALSE,
         shifts |-> <<>>]

At(r, pc) == req[r].pc = pc

Become(r, q) == req' = [req EXCEPT ![r] = q]

\* Go on to the shifts, if there are any.
Shifting(q, shifts) ==
  IF shifts = <<>> THEN Idle ELSE [Idle EXCEPT !.pc = "shift", !.shifts = shifts]

Up(x) == IF x = None THEN <<>> ELSE <<[shelf |-> x, by |-> 1]>>

Down(x) == IF x = None THEN <<>> ELSE <<[shelf |-> x, by |-> -1]>>

\* updateOne $inc: nothing where the document is gone.
Counted(x, by) == [shelf EXCEPT ![x].count = IF shelf[x].state = "there" THEN @ + by ELSE 0]

\* findEditable
Editable(u, p) == Exists(p) /\ (u = AuthorOf[p] \/ u \in Admins)

\* The owner of a series, or an admin.
Owns(u, s) == u = OwnerOf[s] \/ u \in Admins

-----------------------------------------------------------------------------
(* Writing, filing and removing a post                                     *)

\* assertCategoryInSpace comes first, so that no orphan post is left.
CreatePost(r, p, sp, ty, c) ==
  /\ At(r, "idle") /\ post[p].state = "unborn" /\ ty \in ValidTypes[sp]
  /\ Become(r, [Idle EXCEPT !.pc = IF c = None THEN "insert" ELSE "assert", !.post = p,
                  !.copy = Unborn, !.shelf = c,
                  !.new = [Unborn EXCEPT !.state = "there", !.space = sp, !.type = ty,
                             !.category = c]])
  /\ UNCHANGED <<post, shelf, stale, moved, torn, crossed>>

\* Mutant: the category may be of the other space.
InSpace_Any(c, sp) == Open(c)

InSpace(c, sp) == Open(c) /\ shelf[c].space = sp

AssertCategory(r) == LET q == req[r] IN
  /\ At(r, "assert")
  /\ Become(r, IF ~InSpace(q.shelf, q.new.space) THEN Idle
               ELSE [q EXCEPT !.pc = IF q.copy = Unborn THEN "insert" ELSE "save"])
  /\ UNCHANGED <<post, shelf, stale, moved, torn, crossed>>

\* History: the shelves a post is put on while their deletion is under way.
CrossedBy(d) == {x \in ShelvesOf(d) : \E r \in Requests :
                    req[r].pc \in {"dropCategory", "dropSeries"} /\ req[r].shelf = x}

InsertPost(r) == LET q == req[r] IN
  /\ At(r, "insert") /\ post[q.post].state = "unborn"
  /\ post' = [post EXCEPT ![q.post] = q.new]
  /\ crossed' = crossed \cup CrossedBy(q.new)
  /\ Become(r, Shifting(q, Up(q.new.category)))
  /\ UNCHANGED <<shelf, stale, moved, torn>>

\* The final type fits the final space, whichever of them was given.
FitsSpace(sp, ty) == ty \in ValidTypes[sp]

\* Only a category other than the copy's is checked, and written.
UpdatePost(r, u, p, sp, ty, c) == LET copy == post[p] IN
  /\ At(r, "idle") /\ Editable(u, p) /\ FitsSpace(sp, ty)
  /\ Become(r, [Idle EXCEPT
                  !.pc = IF c \in {None, copy.category} THEN "save" ELSE "assert",
                  !.post = p, !.copy = copy, !.shelf = c,
                  !.new = [copy EXCEPT !.space = sp, !.type = ty,
                             !.category = IF c = None THEN @ ELSE c]])
  /\ UNCHANGED <<post, shelf, stale, moved, torn, crossed>>

\* Mutant: the category the post leaves keeps counting it.
Shifts_Up(q) == Up(q.new.category)

\* Of an edit, up with the new category, then down with the old one; of an
\* addition to a series, down with the previous one, then up.
Shifts(q) ==
  IF q.new.category # q.copy.category THEN Up(q.new.category) \o Down(q.copy.category)
  ELSE IF q.new.series # q.copy.series /\ ~q.counted /\ q.new.series # None
       THEN Down(q.copy.series) \o Up(q.new.series)
  ELSE <<>>

\* History: what the handler takes the post to be on is not what it is on.
TornBy(p, copy, new) ==
  IF ShelvesOf(post[p]) = ShelvesOf(copy) THEN {}
  ELSE ShelvesOf(post[p]) \cup ShelvesOf(copy) \cup ShelvesOf(new)

\* save() of a deleted post fails, and nothing is counted.
SavePost(r) == LET q == req[r] p == q.post IN
  /\ At(r, "save")
  /\ IF ~Exists(p)
     THEN /\ Become(r, Idle)
          /\ UNCHANGED <<post, stale, moved, crossed>>
          /\ torn' = IF q.counted THEN torn \cup {q.copy.series} ELSE torn
     ELSE /\ post' = [post EXCEPT ![p] = Merge(@, q.copy, q.new)]
          /\ stale' = IF post[p] = q.copy THEN stale ELSE stale \cup {p}
          /\ moved' = IF q.new.space # q.copy.space /\ ShelvesOf(q.new) # {}
                      THEN moved \cup {p} ELSE moved
          /\ torn' = torn \cup TornBy(p, q.copy, q.new)
          /\ crossed' = crossed \cup CrossedBy([q.new EXCEPT
                            !.category = IF @ = q.copy.category THEN None ELSE @,
                            !.series = IF @ = q.copy.series THEN None ELSE @])
          /\ Become(r, Shifting(q, Shifts(q)))
  /\ UNCHANGED shelf

\* One updateOne after the other.
ShiftCount(r) == LET s == Head(req[r].shifts) IN
  /\ At(r, "shift") /\ shelf[s.shelf].count + s.by \in -MaxCount .. MaxCount
  /\ shelf' = Counted(s.shelf, s.by)
  /\ Become(r, Shifting(req[r], Tail(req[r].shifts)))
  /\ UNCHANGED <<post, stale, moved, torn, crossed>>

RemovePost(r, u, p) ==
  /\ At(r, "idle") /\ Editable(u, p)
  /\ Become(r, [Idle EXCEPT !.pc = "delete", !.post = p, !.copy = post[p]])
  /\ UNCHANGED <<post, shelf, stale, moved, torn, crossed>>

\* Of a Promise.all, in either order.
DeletePost(r) == LET q == req[r] IN
  /\ At(r, "delete")
  /\ post' = [post EXCEPT ![q.post] = Gone]
  /\ stale' = IF post[q.post] = q.copy THEN stale ELSE stale \cup {q.post}
  /\ torn' = torn \cup TornBy(q.post, q.copy, q.copy)
  /\ \E first \in {q.copy.category, q.copy.series} :
       LET second == IF first = q.copy.category THEN q.copy.series ELSE q.copy.category
       IN Become(r, Shifting(q, Down(first) \o Down(second)))
  /\ UNCHANGED <<shelf, moved, crossed>>

-----------------------------------------------------------------------------
(* Categories and series                                                   *)

\* create; only admins reach the operations on categories.
CreateShelf(x, sp) ==
  /\ shelf[x].state = "unborn"
  /\ shelf' = [shelf EXCEPT ![x] = [state |-> "there", space |-> sp, count |-> 0]]
  /\ UNCHANGED <<post, req, stale, moved, torn, crossed>>

\* Mutant: a category is unused when its cached count says so.
Unused_Cached(c) == shelf[c].count = 0

\* countDocuments, not the cached count.
Unused(c) == Members(c) = {}

RemoveCategory(r, c) ==
  /\ At(r, "idle") /\ Open(c) /\ Unused(c)
  /\ Become(r, [Idle EXCEPT !.pc = "dropCategory", !.shelf = c])
  /\ UNCHANGED <<post, shelf, stale, moved, torn, crossed>>

\* History: a post is being put on x.
Filing(x) == \E r \in Requests :
  \/ At(r, "addRead") /\ req[r].shelf = x
  \/ /\ req[r].pc \in {"insert", "save"}
     /\ x \in ShelvesOf(req[r].new) \ ShelvesOf(req[r].copy)

Dropped(x) == /\ shelf' = [shelf EXCEPT ![x].state = "gone", ![x].count = 0]
              /\ crossed' = IF Filing(x) THEN crossed \cup {x} ELSE crossed

DropCategory(r) ==
  /\ At(r, "dropCategory")
  /\ Dropped(req[r].shelf)
  /\ Become(r, Idle)
  /\ UNCHANGED <<post, stale, moved, torn>>

\* The series is read first, with its count.
AddToSeries(r, u, s, p, o) ==
  /\ At(r, "idle") /\ Open(s)
  /\ Become(r, [Idle EXCEPT !.pc = "addRead", !.user = u, !.post = p, !.shelf = s,
                  !.read = shelf[s].count, !.order = o])
  /\ UNCHANGED <<post, shelf, stale, moved, torn, crossed>>

\* Both the series and the post are the caller's, or he is an admin.
MayFile(u, s, p) == u \in Admins \/ (u = OwnerOf[s] /\ u = AuthorOf[p])

\* Mutant: where no place is asked for, there is none.
Place_None(q, copy) == IF q.order # NoOrder THEN q.order ELSE None

\* Where the post goes: as asked, or as it was, or to the end.
Place(q, copy) == IF q.order # NoOrder THEN q.order
                  ELSE IF copy.series = q.shelf THEN copy.order
                  ELSE q.read + 1

\* Then the post; what follows is decided on its copy.
AddRead(r) == LET q == req[r] copy == post[q.post] IN
  /\ At(r, "addRead")
  /\ Become(r, IF Exists(q.post) /\ MayFile(q.user, q.shelf, q.post)
                  /\ copy.space = shelf[q.shelf].space
               THEN [Idle EXCEPT !.pc = "save", !.post = q.post, !.copy = copy,
                       !.new = [copy EXCEPT !.series = q.shelf, !.order = Place(q, copy)]]
               ELSE Idle)
  /\ UNCHANGED <<post, shelf, stale, moved, torn, crossed>>

RemoveFromSeries(r, u, p) ==
  /\ At(r, "idle") /\ Exists(p) /\ post[p].series # None
  /\ Become(r, [Idle EXCEPT !.pc = "owner", !.user = u, !.post = p, !.copy = post[p],
                  !.new = [post[p] EXCEPT !.series = None, !.order = NoOrder]])
  /\ UNCHANGED <<post, shelf, stale, moved, torn, crossed>>

\* The series is asked for its owner; one that is gone keeps nobody away.
CheckOwner(r) == LET q == req[r] s == q.copy.series IN
  /\ At(r, "owner")
  /\ Become(r, IF ~Open(s) THEN [q EXCEPT !.pc = "save", !.user = None]
               ELSE IF Owns(q.user, s) THEN [q EXCEPT !.pc = "uncount", !.user = None]
               ELSE Idle)
  /\ UNCHANGED <<post, shelf, stale, moved, torn, crossed>>

\* The count goes down before the post is saved.
Uncount(r) == LET s == req[r].copy.series IN
  /\ At(r, "uncount") /\ shelf[s].count > -MaxCount
  /\ shelf' = Counted(s, -1)
  /\ Become(r, [req[r] EXCEPT !.pc = "save", !.counted = TRUE])
  /\ UNCHANGED <<post, stale, moved, torn, crossed>>

RemoveSeries(r, u, s) ==
  /\ At(r, "idle") /\ Open(s) /\ Owns(u, s)
  /\ Become(r, [Idle EXCEPT !.pc = "unlink", !.shelf = s])
  /\ UNCHANGED <<post, shelf, stale, moved, torn, crossed>>

Unlinked(d, s) == IF d.series = s THEN [d EXCEPT !.series = None, !.order = NoOrder] ELSE d

\* updateMany
Unlink(r) ==
  /\ At(r, "unlink")
  /\ post' = [p \in Posts |-> Unlinked(post[p], req[r].shelf)]
  /\ Become(r, [req[r] EXCEPT !.pc = "dropSeries"])
  /\ UNCHANGED <<shelf, stale, moved, torn, crossed>>

DropSeries(r) ==
  /\ At(r, "dropSeries")
  /\ Dropped(req[r].shelf)
  /\ Become(r, Idle)
  /\ UNCHANGED <<post, stale, moved, torn>>

-----------------------------------------------------------------------------

\* The process is lost: what is left of the handler never happens.
Crash(r) == LET q == req[r] IN
  /\ ~At(r, "idle")
  /\ torn' = torn \cup {s.shelf : s \in {q.shifts[i] : i \in DOMAIN q.shifts}}
                  \cup (IF q.counted THEN {q.copy.series} ELSE {})
                  \cup (IF At(r, "dropSeries") THEN {q.shelf} ELSE {})
  /\ Become(r, Idle)
  /\ UNCHANGED <<post, shelf, stale, moved, crossed>>

Init ==
  /\ post = [p \in Posts |-> Unborn]
  /\ shelf \in [Shelves -> [state : {"unborn", "there"}, space : Spaces, count : {0}]]
  /\ \A x \in Shelves : IF x \in Made THEN shelf[x].state = "there"
                       ELSE shelf[x].state = "unborn" /\ shelf[x].space = "devscript"
  /\ req = [r \in Requests |-> Idle]
  /\ calls = 0
  /\ stale = {} /\ moved = {} /\ torn = {} /\ crossed = {}

Call(r) == At(r, "idle") /\ \E u \in Users :
  \/ \E p \in Posts :
       \/ RemovePost(r, u, p) \/ RemoveFromSeries(r, u, p)
       \/ \E k \in Kinds, c \in Categories \cup {None} :
            CreatePost(r, p, k[1], k[2], c) \/ UpdatePost(r, u, p, k[1], k[2], c)
       \/ \E s \in SeriesIds, o \in Orders \cup {NoOrder} : AddToSeries(r, u, s, p, o)
  \/ \E c \in Categories : RemoveCategory(r, c)
  \/ \E s \in SeriesIds : RemoveSeries(r, u, s)

Continue(r) ==
  \/ AssertCategory(r) \/ InsertPost(r) \/ SavePost(r) \/ ShiftCount(r) \/ DeletePost(r)
  \/ DropCategory(r)
  \/ AddRead(r) \/ CheckOwner(r) \/ Uncount(r) \/ Unlink(r) \/ DropSeries(r)

Create == \E x \in Shelves, sp \in Spaces : CreateShelf(x, sp)

Next == \/ Create /\ UNCHANGED calls
        \/ \E r \in Requests : \/ Call(r) /\ calls < MaxCalls /\ calls' = calls + 1
                               \/ (Continue(r) \/ Crash(r)) /\ UNCHANGED calls

Spec == Init /\ [][Next]_vars

-----------------------------------------------------------------------------
(* Properties                                                              *)

\* Documents and requests stay well formed.
TypeOK ==
  /\ post \in [Posts -> Post]
  /\ shelf \in [Shelves -> Shelf]
  /\ req \in [Requests -> Request] /\ calls \in 0 .. MaxCalls
  /\ stale \subseteq Posts /\ moved \subseteq Posts
  /\ torn \subseteq Shelves /\ crossed \subseteq Shelves

\* What requests in progress still owe the count of x.
Owed(x) ==
  LET UpsLeft == {r \in Requests : \E i \in DOMAIN req[r].shifts :
                                     req[r].shifts[i] = [shelf |-> x, by |-> 1]}
      DownsLeft == {r \in Requests : \E i \in DOMAIN req[r].shifts :
                                       req[r].shifts[i] = [shelf |-> x, by |-> -1]}
      Unsaved == {r \in Requests : req[r].counted /\ req[r].copy.series = x}
  IN Cardinality(UpsLeft) - Cardinality(DownsLeft) + Cardinality(Unsaved)

\* categories.service.ts:113, series.service.ts:126, posts.service.ts:311: the
\* count a category or a series caches is the number of its posts once the
\* requests in progress have shifted it.  Only a crash between two steps, or
\* two changes of one post's shelves at a time, makes it drift.
CountsAgree == \A x \in Shelves \ torn :
  shelf[x].state = "there"
  /\ ~(\E r \in Requests : At(r, "dropSeries") /\ req[r].shelf = x)
  => shelf[x].count + Owed(x) = Cardinality(Members(x))

\* categories.service.ts:97, series.service.ts:186: no post is left on a
\* category or series that is gone, unless it was put there at the very moment
\* of the deletion.
NoPostOnMissingShelf == \A p \in Posts : Exists(p) =>
  \A x \in ShelvesOf(post[p]) : shelf[x].state = "gone" => x \in crossed

\* posts.service.ts:111 and :238, series.service.ts:107: the type of a post,
\* its category and its series fit its space.  Two edits of the same post at a
\* time may break this, and giving a post that is filed another space does.
PostsFitTheirSpace == \A p \in Posts : Exists(p) =>
  /\ p \notin stale => post[p].type \in ValidTypes[post[p].space]
  /\ p \notin stale \cup moved =>
       \A x \in ShelvesOf(post[p]) \ crossed : shelf[x].space = post[p].space

=============================================================================
