---------------------------- MODULE ShelvesProofs -----------------------------
(***************************************************************************)
(* Module Shelves keeps its promises, whatever the number of posts,        *)
(* categories, series, accounts and requests: the counts are those of the  *)
(* posts up to what requests still owe them, no post is on a shelf that is *)
(* gone, and posts fit their space, but for the exceptions the properties  *)
(* name.                                                                   *)
(***************************************************************************)
EXTENDS Content, FiniteSetTheorems, SequenceTheorems, TLAPS

-----------------------------------------------------------------------------
(* The invariant                                                           *)

\* A shelf that was made; it may be gone.
Begun(x) == shelf[x].state # "unborn"

\* A shelf that is gone, and met no post on its way.
Missed(x) == shelf[x].state = "gone" /\ x \notin crossed

\* The shelves request q puts its post on.
Joins(q) == S!ShelvesOf(q.new) \ S!ShelvesOf(q.copy)

\* What request q makes of its post: an edit of its space, type and category,
\* or a change of its series alone.
EditsPost(q) ==
  /\ q.new.series = q.copy.series /\ ~q.counted
  /\ q.new.type \in S!ValidTypes[q.new.space]
  /\ q.new.category = None => q.copy.category = None

FilesPost(q) ==
  /\ q.pc = "save"
  /\ q.new.category = q.copy.category /\ q.new.space = q.copy.space
  /\ q.new.type = q.copy.type
  /\ \/ q.new.series # None /\ ~q.counted
     \/ /\ q.new.series = None /\ q.copy.series # None
        /\ q.counted \/ shelf[q.copy.series].state = "gone"

\* What request q may take for granted of the post it is about.
KnowsPost(q) ==
  /\ q.copy.state = "there" => q.post \in Posts /\ doc[q.post].state # "unborn"
  /\ q.pc \in {"save", "delete", "owner", "uncount"} => q.copy.state = "there"
  /\ q.pc \in {"assert", "insert"} => q.copy = S!Unborn \/ q.copy.state = "there"
  /\ q.pc = "insert" => q.copy = S!Unborn
  /\ q.pc \in {"assert", "insert", "save"} =>
       q.post \in Posts /\ q.new.state = "there" /\ (EditsPost(q) \/ FilesPost(q))
  /\ q.pc \in {"owner", "uncount"} =>
       /\ q.copy.series # None
       /\ q.new = [q.copy EXCEPT !.series = None, !.order = S!NoOrder]
  /\ q.pc = "addRead" => q.post \in Posts
  /\ q.counted => q.pc = "save" /\ q.new.series = None /\ q.copy.series # None

\* What it may take for granted of the shelves.
KnowsShelves(q) ==
  /\ \A x \in S!ShelvesOf(q.copy) : Begun(x)
  /\ q.pc = "assert" => q.shelf \in Categories /\ q.shelf = q.new.category
  /\ q.pc \in {"insert", "save"} => \A x \in Joins(q) :
       Begun(x) /\ ~Missed(x) /\ shelf[x].space = q.new.space
  /\ q.pc = "addRead" => q.shelf \in SeriesIds /\ Begun(q.shelf) /\ ~Missed(q.shelf)
  /\ q.pc = "dropCategory" => q.shelf \in Categories
  /\ q.pc \in {"unlink", "dropSeries"} => q.shelf \in SeriesIds
  /\ q.pc \in {"dropCategory", "unlink", "dropSeries"} => Begun(q.shelf)

\* The shifts still to be made are of different shelves, or in different ways.
KnowsShifts(q) ==
  /\ (q.pc = "shift" <=> q.shifts # <<>>)
  /\ \A i, j \in DOMAIN q.shifts : q.shifts[i] = q.shifts[j] => i = j
  /\ \A i \in DOMAIN q.shifts : Begun(q.shifts[i].shelf)

Knows(q) == KnowsPost(q) /\ KnowsShelves(q) /\ KnowsShifts(q)

\* A post is on shelves that were made, and on none before and after it exists.
OnBegun == \A p \in Posts :
  /\ \A x \in S!ShelvesOf(doc[p]) : Begun(x)
  /\ S!Exists(p) \/ S!ShelvesOf(doc[p]) = {}

\* A shelf about to be dropped has no posts but those put on it meanwhile.
DropsEmpty == \A r \in Clients : call[r].pc \in {"dropCategory", "dropSeries"} =>
  \A p \in Posts : S!Exists(p) /\ call[r].shelf \in S!ShelvesOf(doc[p]) => call[r].shelf \in crossed

ShelvesInv ==
  /\ S!TypeOK /\ (\A r \in Clients : Knows(call[r]))
  /\ OnBegun /\ DropsEmpty
  /\ S!CountsAgree /\ S!NoPostOnMissingShelf /\ S!PostsFitTheirSpace

-----------------------------------------------------------------------------
(* Counting                                                                *)

LEMMA ShelvesOperators ==
  /\ \A X : S!Cardinality(X) = Cardinality(X)
  /\ \A X : S!IsFiniteSet(X) <=> IsFiniteSet(X)
BY DEF S!Cardinality, Cardinality, S!IsFiniteSet, IsFiniteSet

\* One if it is so.
Bit(b) == IF b THEN 1 ELSE 0

\* Two subsets of a finite set that agree but for one element.
LEMMA OneMoves ==
  ASSUME NEW T, IsFiniteSet(T), NEW t \in T, NEW A \in SUBSET T, NEW B \in SUBSET T,
         A \ {t} = B \ {t}
  PROVE  /\ Cardinality(A) \in Nat /\ Cardinality(B) \in Nat
         /\ Cardinality(B) = Cardinality(A) + Bit(t \in B) - Bit(t \in A)
<1>1. IsFiniteSet(A) /\ IsFiniteSet(B)
  BY FS_Subset
<1>2. Cardinality(A) \in Nat /\ Cardinality(B) \in Nat
  BY <1>1, FS_CardinalityType
<1>3. Cardinality(A \ {t}) = IF t \in A THEN Cardinality(A) - 1 ELSE Cardinality(A)
  BY <1>1, FS_RemoveElement
<1>4. Cardinality(B \ {t}) = IF t \in B THEN Cardinality(B) - 1 ELSE Cardinality(B)
  BY <1>1, FS_RemoveElement
<1> QED BY <1>2, <1>3, <1>4 DEF Bit

\* What request q owes the count of x.
Shifting(q, x, by) == \E i \in DOMAIN q.shifts : q.shifts[i] = [shelf |-> x, by |-> by]

Unsaved(q, x) == q.counted /\ q.copy.series = x

Weight(q, x) == Bit(Shifting(q, x, 1)) - Bit(Shifting(q, x, -1)) + Bit(Unsaved(q, x))

LEMMA Owing ==
  ASSUME S!Sensible, S!TypeOK, NEW r \in Clients, NEW q, S!Become(r, q), NEW x
  PROVE  /\ S!Owed(x) \in Int
         /\ S!Owed(x)' = S!Owed(x) + Weight(q, x) - Weight(call[r], x)
<1> DEFINE Ups == {s \in Clients : Shifting(call[s], x, 1)}
           Downs == {s \in Clients : Shifting(call[s], x, -1)}
           Unsaveds == {s \in Clients : Unsaved(call[s], x)}
<1>1. IsFiniteSet(Clients)
  BY ShelvesOperators DEF S!Sensible
<1>2. /\ call' = [call EXCEPT ![r] = q] /\ call'[r] = q
      /\ \A s \in Clients : s # r => call'[s] = call[s]
  BY DEF S!Become, S!TypeOK
<1>3. Ups \in SUBSET Clients /\ Ups' \in SUBSET Clients /\ Ups \ {r} = Ups' \ {r}
  BY <1>2
<1>4. Downs \in SUBSET Clients /\ Downs' \in SUBSET Clients /\ Downs \ {r} = Downs' \ {r}
  BY <1>2
<1>5. /\ Unsaveds \in SUBSET Clients /\ Unsaveds' \in SUBSET Clients
      /\ Unsaveds \ {r} = Unsaveds' \ {r}
  BY <1>2
<1>6. /\ r \in Ups <=> Shifting(call[r], x, 1)
      /\ r \in Ups' <=> Shifting(q, x, 1)
      /\ r \in Downs <=> Shifting(call[r], x, -1)
      /\ r \in Downs' <=> Shifting(q, x, -1)
      /\ r \in Unsaveds <=> Unsaved(call[r], x)
      /\ r \in Unsaveds' <=> Unsaved(q, x)
  BY <1>2
<1>7. S!Owed(x) = Cardinality(Ups) - Cardinality(Downs) + Cardinality(Unsaveds)
  BY ShelvesOperators DEF S!Owed, Shifting, Unsaved
<1>8. S!Owed(x)' = Cardinality(Ups') - Cardinality(Downs') + Cardinality(Unsaveds')
  BY ShelvesOperators DEF S!Owed, Shifting, Unsaved
<1> HIDE DEF Ups, Downs, Unsaveds
<1>9. /\ Cardinality(Ups) \in Nat /\ Cardinality(Ups') \in Nat
      /\ Cardinality(Ups') = Cardinality(Ups) + Bit(r \in Ups') - Bit(r \in Ups)
  BY <1>1, <1>3, OneMoves
<1>10. /\ Cardinality(Downs) \in Nat /\ Cardinality(Downs') \in Nat
       /\ Cardinality(Downs') = Cardinality(Downs) + Bit(r \in Downs') - Bit(r \in Downs)
  BY <1>1, <1>4, OneMoves
<1>11. /\ Cardinality(Unsaveds) \in Nat /\ Cardinality(Unsaveds') \in Nat
       /\ Cardinality(Unsaveds') = Cardinality(Unsaveds) + Bit(r \in Unsaveds')
                                     - Bit(r \in Unsaveds)
  BY <1>1, <1>5, OneMoves
<1> QED BY <1>6, <1>7, <1>8, <1>9, <1>10, <1>11 DEF Weight, Bit

\* Document d is a post on shelf x.
Keeps(d, x) == d.state = "there" /\ x \in S!ShelvesOf(d)

LEMMA MembersMove ==
  ASSUME S!Sensible, S!TypeOK, NEW p \in Posts, NEW d, doc' = [doc EXCEPT ![p] = d], NEW x
  PROVE  /\ Cardinality(S!Members(x)) \in Nat
         /\ Cardinality(S!Members(x)') = Cardinality(S!Members(x))
                                           + Bit(Keeps(d, x)) - Bit(Keeps(doc[p], x))
<1> DEFINE On == {s \in Posts : Keeps(doc[s], x)}
<1>1. IsFiniteSet(Posts)
  BY ShelvesOperators DEF S!Sensible
<1>2. doc'[p] = d /\ \A s \in Posts : s # p => doc'[s] = doc[s]
  BY DEF S!TypeOK
<1>3. On \in SUBSET Posts /\ On' \in SUBSET Posts /\ On \ {p} = On' \ {p}
  BY <1>2
<1>4. (p \in On <=> Keeps(doc[p], x)) /\ (p \in On' <=> Keeps(d, x))
  BY <1>2
<1>5. S!Members(x) = On
  BY DEF S!Members, S!Exists, Keeps
<1>6. S!Members(x)' = On'
  BY DEF S!Members, S!Exists, Keeps
<1> HIDE DEF On
<1>7. /\ Cardinality(On) \in Nat
      /\ Cardinality(On') = Cardinality(On) + Bit(p \in On') - Bit(p \in On)
  BY <1>1, <1>3, OneMoves
<1> QED BY <1>4, <1>5, <1>6, <1>7 DEF Bit

\* save() over a stored document.
LEMMA Merging ==
  ASSUME NEW d \in S!Post, NEW copy \in S!Post, NEW new \in S!Post,
         NEW m, m = S!Merge(d, copy, new)
  PROVE  /\ m \in S!Post
         /\ m.state = (IF new.state = copy.state THEN d.state ELSE new.state)
         /\ m.space = (IF new.space = copy.space THEN d.space ELSE new.space)
         /\ m.type = (IF new.type = copy.type THEN d.type ELSE new.type)
         /\ m.category = (IF new.category = copy.category THEN d.category ELSE new.category)
         /\ m.series = (IF new.series = copy.series THEN d.series ELSE new.series)
BY DEF S!Merge, S!Post

-----------------------------------------------------------------------------
(* What lasts                                                              *)

\* Posts and shelves go from unborn to there to gone; a shelf keeps its space,
\* and goes unmet only while no post is being put on it.
ShelvesGrow ==
  /\ \A p \in Posts : doc[p].state # "unborn" => doc'[p].state # "unborn"
  /\ \A x \in S!Shelves : Begun(x) => Begun(x)' /\ shelf'[x].space = shelf[x].space
  /\ \A x \in S!Shelves : shelf[x].state = "gone" => shelf'[x].state = "gone"
  /\ \A x \in S!Shelves : Missed(x)' /\ ~Missed(x) => ~S!Filing(x)

LEMMA ShelvesOfType ==
  ASSUME NEW d \in S!Post
  PROVE  /\ S!ShelvesOf(d) \subseteq S!Shelves
         /\ \A x : x \in S!ShelvesOf(d) <=> (x = d.category \/ x = d.series) /\ x # None
BY DEF S!ShelvesOf, S!Post, S!Shelves

LEMMA ShiftsOfType ==
  ASSUME NEW shifts \in Seq(S!ShiftOf)
  PROVE  \A i \in DOMAIN shifts : shifts[i].shelf \in S!Shelves /\ shifts[i].by \in {1, -1}
<1>1. \A i \in DOMAIN shifts : shifts[i] \in S!ShiftOf
  OBVIOUS
<1> QED BY <1>1 DEF S!ShiftOf

\* What a request took for granted, it may take for granted still.
LEMMA KnowsLasts ==
  ASSUME S!Sensible, S!TypeOK, NEW s \in Clients, NEW q, q = call[s], Knows(q), ShelvesGrow
  PROVE  Knows(q)'
<1>1. q \in S!Request
  BY DEF S!TypeOK
<1>2. q.copy \in S!Post /\ q.new \in S!Post /\ q.shifts \in Seq(S!ShiftOf)
  BY <1>1 DEF S!Request
<1>3. S!ShelvesOf(q.copy) \subseteq S!Shelves /\ S!ShelvesOf(q.new) \subseteq S!Shelves
  BY <1>2, ShelvesOfType
<1>4. KnowsPost(q)'
  <2>1. q.copy.series # None => q.copy.series \in S!Shelves
    BY <1>2 DEF S!Post, S!Shelves
  <2>2. EditsPost(q) => EditsPost(q)'
    BY DEF EditsPost
  <2>3. FilesPost(q) => FilesPost(q)'
    BY <2>1 DEF FilesPost, ShelvesGrow
  <2> QED BY <2>2, <2>3 DEF Knows, KnowsPost, ShelvesGrow
<1>5. KnowsShelves(q)'
  <2>1. \A x \in S!ShelvesOf(q.copy) : Begun(x)'
    BY <1>3 DEF Knows, KnowsShelves, ShelvesGrow
  <2>2. ASSUME q.pc \in {"insert", "save"}, NEW x \in Joins(q)
        PROVE  Begun(x)' /\ ~Missed(x)' /\ shelf'[x].space = q.new.space
    <3>1. x \in S!Shelves /\ S!Filing(x)
      BY <1>3, <2>2 DEF Joins, S!Filing
    <3>2. Begun(x) /\ ~Missed(x) /\ shelf[x].space = q.new.space
      BY <2>2 DEF Knows, KnowsShelves
    <3> QED BY <3>1, <3>2 DEF ShelvesGrow
  <2>3. ASSUME q.pc = "addRead" PROVE q.shelf \in SeriesIds /\ Begun(q.shelf)' /\ ~Missed(q.shelf)'
    <3>1. q.shelf \in SeriesIds /\ q.shelf \in S!Shelves /\ Begun(q.shelf) /\ ~Missed(q.shelf)
      BY <2>3 DEF Knows, KnowsShelves, S!Shelves
    <3>2. S!Filing(q.shelf)
      BY <2>3 DEF S!Filing, S!At
    <3> QED BY <3>1, <3>2 DEF ShelvesGrow
  <2>4. q.pc \in {"dropCategory", "unlink", "dropSeries"} => Begun(q.shelf)'
    BY DEF Knows, KnowsShelves, ShelvesGrow, S!Shelves
  <2> QED BY <2>1, <2>2, <2>3, <2>4 DEF Knows, KnowsShelves, Joins
<1>6. KnowsShifts(q)'
  <2>1. \A i \in DOMAIN q.shifts : q.shifts[i].shelf \in S!Shelves
    BY <1>2, ShiftsOfType
  <2> QED BY <2>1 DEF Knows, KnowsShifts, ShelvesGrow
<1> QED BY <1>4, <1>5, <1>6 DEF Knows

\* The process that serves r changes r alone.
LEMMA AllKnow ==
  ASSUME S!Sensible, ShelvesInv, NEW r \in Clients, NEW q \in S!Request, S!Become(r, q),
         ShelvesGrow, Knows(q)'
  PROVE  /\ call' \in [Clients -> S!Request]
         /\ \A s \in Clients : Knows(call[s])'
<1>1. /\ call' = [call EXCEPT ![r] = q] /\ call \in [Clients -> S!Request]
      /\ S!TypeOK /\ \A s \in Clients : Knows(call[s])
  BY DEF S!Become, ShelvesInv, S!TypeOK
<1>2. ASSUME NEW s \in Clients PROVE Knows(call[s])'
  <2>1. CASE s = r
    <3>1. call'[s] = q
      BY <1>1, <2>1
    <3> QED BY <3>1 DEF Knows, KnowsPost, KnowsShelves, KnowsShifts, EditsPost, FilesPost, Joins
  <2>2. CASE s # r
    <3>1. PICK c : c = call[s]
      OBVIOUS
    <3>2. Knows(c)'
      BY <1>1, <3>1, KnowsLasts
    <3>3. call'[s] = c
      BY <1>1, <2>2, <3>1
    <3> QED BY <3>2, <3>3 DEF Knows, KnowsPost, KnowsShelves, KnowsShifts, EditsPost, FilesPost,
                              Joins
  <2> QED BY <2>1, <2>2
<1> QED BY <1>1, <1>2

-----------------------------------------------------------------------------
(* Steps that only decide                                                  *)

\* The count of x is right, where it is to be.
Settled(x) == /\ shelf[x].state = "there"
              /\ ~(\E r \in Clients : S!At(r, "dropSeries") /\ call[r].shelf = x)

Agrees(x) == Settled(x) => shelf[x].count + S!Owed(x) = Cardinality(S!Members(x))

LEMMA CountsMean ==
  /\ S!CountsAgree <=> \A x \in S!Shelves \ torn : Agrees(x)
  /\ S!CountsAgree' <=> \A x \in S!Shelves \ torn' : Agrees(x)'
BY ShelvesOperators DEF S!CountsAgree, Agrees, Settled

LEMMA QuietInv ==
  ASSUME S!Sensible, ShelvesInv, NEW r \in Clients, NEW q \in S!Request, S!Become(r, q),
         UNCHANGED <<doc, shelf, stale, moved, torn, crossed>>, calls' \in 0 .. MaxCalls,
         Knows(q), \A x : Weight(q, x) = Weight(call[r], x),
         call[r].pc # "dropSeries", q.pc # "dropSeries",
         q.pc = "dropCategory" =>
           \A p \in Posts : S!Exists(p) /\ q.shelf \in S!ShelvesOf(doc[p]) => q.shelf \in crossed
  PROVE  ShelvesInv'
<1>1. S!TypeOK /\ \A s \in Clients : Knows(call[s])
  BY DEF ShelvesInv
<1>2. ShelvesGrow
  BY DEF ShelvesGrow, Begun, Missed
<1>3. Knows(q)'
  BY DEF Knows, KnowsPost, KnowsShelves, KnowsShifts, EditsPost, FilesPost, Begun, Missed
<1>4. call' \in [Clients -> S!Request] /\ \A s \in Clients : Knows(call[s])'
  BY <1>2, <1>3, AllKnow
<1>5. call'[r] = q /\ \A s \in Clients : s # r => call'[s] = call[s]
  BY <1>1 DEF S!Become, S!TypeOK
<1>6. S!TypeOK'
  BY <1>1, <1>4 DEF S!TypeOK
<1>7. OnBegun' /\ S!NoPostOnMissingShelf' /\ S!PostsFitTheirSpace'
  BY DEF ShelvesInv, OnBegun, Begun, S!NoPostOnMissingShelf, S!PostsFitTheirSpace, S!Exists
<1>8. DropsEmpty'
  BY <1>5 DEF ShelvesInv, DropsEmpty, S!Exists
<1>9. S!CountsAgree'
  <2> SUFFICES ASSUME NEW x \in S!Shelves \ torn, Settled(x)'
               PROVE  shelf'[x].count + S!Owed(x)' = Cardinality(S!Members(x)')
    BY CountsMean DEF Agrees
  <2>1. Settled(x)
    BY <1>5 DEF Settled, S!At
  <2>2. shelf[x].count + S!Owed(x) = Cardinality(S!Members(x))
    BY <2>1, CountsMean DEF ShelvesInv, Agrees
  <2>3. S!Owed(x) \in Int /\ S!Owed(x)' = S!Owed(x) + Weight(q, x) - Weight(call[r], x)
    BY <1>1, Owing
  <2>4. Weight(q, x) = Weight(call[r], x) /\ Weight(q, x) \in Int
    BY DEF Weight, Bit
  <2>5. S!Members(x)' = S!Members(x)
    BY DEF S!Members, S!Exists
  <2> HIDE DEF Weight
  <2> QED BY <2>2, <2>3, <2>4, <2>5
<1> QED BY <1>4, <1>6, <1>7, <1>8, <1>9 DEF ShelvesInv

LEMMA NoWeight ==
  ASSUME NEW q, q.shifts = <<>>, ~q.counted, NEW x
  PROVE  Weight(q, x) = 0
BY DEF Weight, Shifting, Unsaved, Bit

LEMMA IdleIsRequest == S!Idle \in S!Request /\ S!Unborn \in S!Post /\ S!ShelvesOf(S!Unborn) = {}
<1>1. S!Unborn \in S!Post /\ S!ShelvesOf(S!Unborn) = {}
  BY DEF S!Unborn, S!Post, S!Spaces, S!Types, S!NoOrder, S!ShelvesOf
<1>2. <<>> \in Seq(S!ShiftOf)
  BY EmptySeq
<1> QED BY <1>1, <1>2 DEF S!Idle, S!Request, S!PCs, S!NoOrder

\* A request that has nothing to shift goes on with nothing to shift.
LEMMA DecidesInv ==
  ASSUME S!Sensible, ShelvesInv, NEW r \in Clients, NEW q \in S!Request, S!Become(r, q),
         UNCHANGED <<doc, shelf, stale, moved, torn, crossed>>, calls' \in 0 .. MaxCalls,
         KnowsPost(q), KnowsShelves(q), q.shifts = <<>>, ~q.counted,
         call[r].pc \notin {"shift", "save", "dropSeries"}, q.pc \notin {"dropSeries", "shift"},
         q.pc = "dropCategory" =>
           \A p \in Posts : S!Exists(p) /\ q.shelf \in S!ShelvesOf(doc[p]) => q.shelf \in crossed
  PROVE  ShelvesInv'
<1>1. call[r].shifts = <<>> /\ ~call[r].counted
  BY DEF ShelvesInv, Knows, KnowsShifts, KnowsPost
<1>2. \A x : Weight(q, x) = 0 /\ Weight(call[r], x) = 0
  BY <1>1, NoWeight
<1>3. Knows(q)
  BY DEF Knows, KnowsShifts
<1> HIDE DEF Weight
<1> QED BY <1>2, <1>3, QuietInv

\* A request that ends.
LEMMA IdleInv ==
  ASSUME S!Sensible, ShelvesInv, NEW r \in Clients, S!Become(r, S!Idle),
         UNCHANGED <<doc, shelf, stale, moved, torn, crossed>>, calls' \in 0 .. MaxCalls,
         call[r].pc \notin {"shift", "save", "dropSeries"}
  PROVE  ShelvesInv'
<1>1. KnowsPost(S!Idle) /\ KnowsShelves(S!Idle)
  BY IdleIsRequest DEF KnowsPost, KnowsShelves, S!Idle, S!Unborn
<1>2. S!Idle.pc = "idle" /\ S!Idle.shifts = <<>> /\ ~S!Idle.counted
  BY DEF S!Idle
<1> QED BY <1>1, <1>2, IdleIsRequest, DecidesInv

LEMMA CreatePostInv ==
  ASSUME S!Sensible, ShelvesInv, NEW r \in Clients, NEW p \in Posts, NEW k \in Kinds,
         NEW c \in Categories \cup {None}, S!CreatePost(r, p, k[1], k[2], c),
         calls' \in 0 .. MaxCalls
  PROVE  ShelvesInv'
<1> DEFINE new == [S!Unborn EXCEPT !.state = "there", !.space = k[1], !.type = k[2],
                                   !.category = c]
           q == [S!Idle EXCEPT !.pc = IF c = None THEN "insert" ELSE "assert", !.post = p,
                   !.copy = S!Unborn, !.shelf = c, !.new = new]
<1>1. k[1] \in S!Spaces /\ k[2] \in S!Types /\ k[2] \in S!ValidTypes[k[1]]
  BY DEF S!Sensible, S!CreatePost
<1>2. /\ new \in S!Post /\ new.state = "there" /\ new.space = k[1] /\ new.type = k[2]
      /\ new.category = c /\ new.series = None
  <2>1. S!Unborn \in S!Post /\ S!Unborn.series = None
    BY IdleIsRequest DEF S!Unborn
  <2> QED BY <1>1, <2>1 DEF S!Post
<1> HIDE DEF new
<1>3. q \in S!Request
  BY <1>2, IdleIsRequest DEF S!Request, S!PCs, S!Shelves
<1>4. /\ q.pc = (IF c = None THEN "insert" ELSE "assert") /\ q.post = p /\ q.copy = S!Unborn
      /\ q.shelf = c /\ q.new = new /\ q.shifts = <<>> /\ ~q.counted
  BY DEF S!Idle
<1>5. S!Become(r, q) /\ call[r].pc = "idle" /\ UNCHANGED <<doc, shelf, stale, moved, torn, crossed>>
  BY DEF S!CreatePost, S!At, new
<1> HIDE DEF q
<1>6. EditsPost(q)
  BY <1>1, <1>2, <1>4 DEF EditsPost, S!Unborn
<1>7. KnowsPost(q)
  BY <1>2, <1>4, <1>6 DEF KnowsPost, S!Unborn
<1>8. q.pc = "insert" => Joins(q) = {}
  BY <1>2, <1>4 DEF Joins, S!ShelvesOf
<1>9. KnowsShelves(q)
  BY <1>2, <1>4, <1>8, IdleIsRequest DEF KnowsShelves
<1> QED BY <1>3, <1>4, <1>5, <1>7, <1>9, DecidesInv

\* A category that is found is there, and of the space.
LEMMA AssertCategoryInv ==
  ASSUME S!Sensible, ShelvesInv, NEW r \in Clients, S!AssertCategory(r), calls' \in 0 .. MaxCalls
  PROVE  ShelvesInv'
<1> DEFINE q == call[r]
           n == [q EXCEPT !.pc = IF q.copy = S!Unborn THEN "insert" ELSE "save"]
<1>1. q \in S!Request /\ Knows(q) /\ q.pc = "assert"
  BY DEF ShelvesInv, S!TypeOK, S!AssertCategory, S!At
<1>2. UNCHANGED <<doc, shelf, stale, moved, torn, crossed>>
  BY DEF S!AssertCategory
<1>3. q.shifts = <<>> /\ ~q.counted
  BY <1>1 DEF Knows, KnowsPost, KnowsShifts
<1>4. CASE ~S!InSpace(q.shelf, q.new.space)
  <2>1. S!Become(r, S!Idle)
    BY <1>4 DEF S!AssertCategory
  <2> QED BY <1>1, <1>2, <2>1, IdleInv
<1>5. CASE S!InSpace(q.shelf, q.new.space)
  <2>1. S!Become(r, n)
    BY <1>5 DEF S!AssertCategory
  <2>2. n \in S!Request
    BY <1>1 DEF S!Request, S!PCs
  <2>3. /\ n.pc = (IF q.copy = S!Unborn THEN "insert" ELSE "save") /\ n.post = q.post
        /\ n.copy = q.copy /\ n.new = q.new /\ n.shifts = <<>> /\ ~n.counted
    BY <1>1, <1>3 DEF S!Request
  <2> HIDE DEF n
  <2>4. EditsPost(q)
    BY <1>1 DEF Knows, KnowsPost, FilesPost
  <2>5. EditsPost(n)
    BY <2>3, <2>4 DEF EditsPost
  <2>6. KnowsPost(n)
    BY <1>1, <2>3, <2>5 DEF Knows, KnowsPost
  <2>7. \A x \in Joins(n) : x = q.shelf
    <3>1. q.new.category = q.shelf
      BY <1>1 DEF Knows, KnowsShelves
    <3> QED BY <2>3, <2>4, <3>1 DEF Joins, S!ShelvesOf, EditsPost
  <2>8. Begun(q.shelf) /\ ~Missed(q.shelf) /\ shelf[q.shelf].space = n.new.space
    BY <1>5, <2>3 DEF S!InSpace, S!Open, Begun, Missed
  <2>9. KnowsShelves(n)
    BY <1>1, <2>3, <2>7, <2>8 DEF Knows, KnowsShelves
  <2> QED BY <1>1, <1>2, <2>1, <2>2, <2>3, <2>6, <2>9, DecidesInv
<1> QED BY <1>4, <1>5

LEMMA UpdatePostInv ==
  ASSUME S!Sensible, ShelvesInv, NEW r \in Clients, NEW u \in Writers, NEW p \in Posts,
         NEW k \in Kinds, NEW c \in Categories \cup {None}, S!UpdatePost(r, u, p, k[1], k[2], c),
         calls' \in 0 .. MaxCalls
  PROVE  ShelvesInv'
<1> DEFINE copy == doc[p]
           new == [copy EXCEPT !.space = k[1], !.type = k[2],
                               !.category = IF c = None THEN @ ELSE c]
           q == [S!Idle EXCEPT !.pc = IF c \in {None, copy.category} THEN "save" ELSE "assert",
                   !.post = p, !.copy = copy, !.shelf = c, !.new = new]
<1>1. k[1] \in S!Spaces /\ k[2] \in S!Types /\ k[2] \in S!ValidTypes[k[1]]
  BY DEF S!Sensible, S!UpdatePost, S!FitsSpace
<1>2. copy \in S!Post /\ copy.state = "there"
  BY DEF ShelvesInv, S!TypeOK, S!UpdatePost, S!Editable, S!Exists
<1>3. S!Become(r, q) /\ call[r].pc = "idle" /\ UNCHANGED <<doc, shelf, stale, moved, torn, crossed>>
  BY DEF S!UpdatePost, S!At
<1>4. \A x \in S!ShelvesOf(copy) : Begun(x)
  BY DEF ShelvesInv, OnBegun
<1> HIDE DEF copy
<1>5. /\ new \in S!Post /\ new.state = "there" /\ new.space = k[1] /\ new.type = k[2]
      /\ new.category = (IF c = None THEN copy.category ELSE c) /\ new.series = copy.series
  BY <1>1, <1>2 DEF S!Post
<1> HIDE DEF new
<1>6. q \in S!Request
  BY <1>2, <1>5, IdleIsRequest DEF S!Idle, S!Request, S!PCs, S!Shelves
<1>7. /\ q.pc = (IF c \in {None, copy.category} THEN "save" ELSE "assert") /\ q.post = p
      /\ q.copy = copy /\ q.shelf = c /\ q.new = new /\ q.shifts = <<>> /\ ~q.counted
  BY DEF S!Idle
<1> HIDE DEF q
<1>8. EditsPost(q)
  BY <1>1, <1>5, <1>7 DEF EditsPost
<1>9. KnowsPost(q)
  BY <1>2, <1>5, <1>7, <1>8 DEF KnowsPost, copy
<1>10. q.pc = "save" => Joins(q) = {}
  BY <1>5, <1>7 DEF Joins, S!ShelvesOf
<1>11. KnowsShelves(q)
  BY <1>4, <1>5, <1>7, <1>10 DEF KnowsShelves
<1> QED BY <1>3, <1>6, <1>7, <1>9, <1>11, DecidesInv

LEMMA RemovePostInv ==
  ASSUME S!Sensible, ShelvesInv, NEW r \in Clients, NEW u \in Writers, NEW p \in Posts,
         S!RemovePost(r, u, p), calls' \in 0 .. MaxCalls
  PROVE  ShelvesInv'
<1> DEFINE q == [S!Idle EXCEPT !.pc = "delete", !.post = p, !.copy = doc[p]]
<1>1. doc[p] \in S!Post /\ doc[p].state = "there"
  BY DEF ShelvesInv, S!TypeOK, S!RemovePost, S!Editable, S!Exists
<1>2. S!Become(r, q) /\ call[r].pc = "idle" /\ UNCHANGED <<doc, shelf, stale, moved, torn, crossed>>
  BY DEF S!RemovePost, S!At
<1>3. \A x \in S!ShelvesOf(doc[p]) : Begun(x)
  BY DEF ShelvesInv, OnBegun
<1>4. q \in S!Request
  BY <1>1, IdleIsRequest DEF S!Idle, S!Request, S!PCs
<1>5. q.pc = "delete" /\ q.post = p /\ q.copy = doc[p] /\ q.shifts = <<>> /\ ~q.counted
  BY DEF S!Idle
<1> HIDE DEF q
<1>6. KnowsPost(q)
  BY <1>1, <1>5 DEF KnowsPost
<1>7. KnowsShelves(q)
  BY <1>3, <1>5 DEF KnowsShelves
<1> QED BY <1>2, <1>4, <1>5, <1>6, <1>7, DecidesInv

LEMMA RemoveCategoryInv ==
  ASSUME S!Sensible, ShelvesInv, NEW r \in Clients, NEW c \in Categories,
         S!RemoveCategory(r, c), calls' \in 0 .. MaxCalls
  PROVE  ShelvesInv'
<1> DEFINE q == [S!Idle EXCEPT !.pc = "dropCategory", !.shelf = c]
<1>1. /\ S!Become(r, q) /\ call[r].pc = "idle"
      /\ UNCHANGED <<doc, shelf, stale, moved, torn, crossed>>
      /\ shelf[c].state = "there" /\ \A p \in Posts : ~(S!Exists(p) /\ c \in S!ShelvesOf(doc[p]))
  BY DEF S!RemoveCategory, S!At, S!Unused, S!Members, S!Open
<1>2. q \in S!Request
  BY IdleIsRequest DEF S!Request, S!PCs, S!Shelves
<1>3. q.pc = "dropCategory" /\ q.shelf = c /\ q.copy = S!Unborn /\ q.shifts = <<>> /\ ~q.counted
  BY DEF S!Idle
<1> HIDE DEF q
<1>4. KnowsPost(q) /\ KnowsShelves(q)
  BY <1>1, <1>3, IdleIsRequest DEF KnowsPost, KnowsShelves, S!Unborn, Begun
<1> QED BY <1>1, <1>2, <1>3, <1>4, DecidesInv

LEMMA AddToSeriesInv ==
  ASSUME S!Sensible, ShelvesInv, NEW r \in Clients, NEW u \in Writers, NEW s \in SeriesIds,
         NEW p \in Posts, NEW o \in Orders \cup {S!NoOrder}, S!AddToSeries(r, u, s, p, o),
         calls' \in 0 .. MaxCalls
  PROVE  ShelvesInv'
<1> DEFINE q == [S!Idle EXCEPT !.pc = "addRead", !.user = u, !.post = p, !.shelf = s,
                   !.read = shelf[s].count, !.order = o]
<1>1. /\ S!Become(r, q) /\ call[r].pc = "idle"
      /\ UNCHANGED <<doc, shelf, stale, moved, torn, crossed>> /\ shelf[s].state = "there"
  BY DEF S!AddToSeries, S!At, S!Open
<1>2. shelf[s].count \in Int /\ o \in Int /\ s \in S!Shelves
  BY DEF ShelvesInv, S!TypeOK, S!Shelf, S!Shelves, S!Sensible, S!NoOrder
<1>3. q \in S!Request
  BY <1>2, IdleIsRequest DEF S!Request, S!PCs
<1>4. /\ q.pc = "addRead" /\ q.post = p /\ q.shelf = s /\ q.copy = S!Unborn /\ q.shifts = <<>>
      /\ ~q.counted
  BY DEF S!Idle
<1> HIDE DEF q
<1>5. KnowsPost(q) /\ KnowsShelves(q)
  BY <1>1, <1>4, IdleIsRequest DEF KnowsPost, KnowsShelves, S!Unborn, Begun, Missed
<1> QED BY <1>1, <1>3, <1>4, <1>5, DecidesInv

\* The post is read, and put on the series of its space.
LEMMA AddReadInv ==
  ASSUME S!Sensible, ShelvesInv, NEW r \in Clients, S!AddRead(r), calls' \in 0 .. MaxCalls
  PROVE  ShelvesInv'
<1> DEFINE q == call[r]
           copy == doc[q.post]
           new == [copy EXCEPT !.series = q.shelf, !.order = S!Place(q, copy)]
           n == [S!Idle EXCEPT !.pc = "save", !.post = q.post, !.copy = copy, !.new = new]
<1>1. /\ q \in S!Request /\ Knows(q) /\ q.pc = "addRead"
      /\ UNCHANGED <<doc, shelf, stale, moved, torn, crossed>>
  BY DEF ShelvesInv, S!TypeOK, S!AddRead, S!At
<1>2. CASE S!Become(r, S!Idle)
  BY <1>1, <1>2, IdleInv
<1>3. CASE S!Exists(q.post) /\ copy.space = shelf[q.shelf].space /\ S!Become(r, n)
  <2>1. q.post \in Posts /\ q.shelf \in SeriesIds /\ Begun(q.shelf) /\ ~Missed(q.shelf)
    BY <1>1 DEF Knows, KnowsPost, KnowsShelves
  <2>2. copy \in S!Post /\ copy.state = "there" /\ copy.space = shelf[q.shelf].space
    BY <1>3, <2>1 DEF ShelvesInv, S!TypeOK, S!Exists
  <2>3. q.order \in Int /\ q.read \in Int /\ copy.order \in Int
    BY <1>1, <2>2 DEF S!Request, S!Post
  <2>4. S!Place(q, copy) \in Int
    BY <2>3 DEF S!Place
  <2>5. \A x \in S!ShelvesOf(copy) : Begun(x)
    BY <2>1 DEF ShelvesInv, OnBegun
  <2>6. q.shelf # None
    BY <2>1 DEF S!Sensible, S!Shelves
  <2> HIDE DEF copy
  <2>7. /\ new \in S!Post /\ new.state = "there" /\ new.space = copy.space /\ new.type = copy.type
        /\ new.category = copy.category /\ new.series = q.shelf
    BY <2>1, <2>2, <2>4 DEF S!Post
  <2> HIDE DEF new
  <2>8. n \in S!Request
    BY <2>1, <2>2, <2>7, IdleIsRequest DEF S!Request, S!PCs
  <2>9. /\ n.pc = "save" /\ n.post = q.post /\ n.copy = copy /\ n.new = new /\ n.shifts = <<>>
        /\ ~n.counted
    BY DEF S!Idle
  <2>10. S!Become(r, n)
    BY <1>3
  <2> HIDE DEF n
  <2>11. FilesPost(n)
    BY <2>6, <2>7, <2>9 DEF FilesPost
  <2>12. doc[q.post].state = "there"
    BY <2>2 DEF copy
  <2>13. KnowsPost(n)
    BY <2>1, <2>2, <2>7, <2>9, <2>11, <2>12 DEF KnowsPost
  <2>14. \A x \in Joins(n) : x = q.shelf
    BY <2>7, <2>9 DEF Joins, S!ShelvesOf
  <2>15. KnowsShelves(n)
    BY <2>1, <2>2, <2>5, <2>7, <2>9, <2>14 DEF KnowsShelves
  <2> QED BY <1>1, <2>8, <2>9, <2>10, <2>13, <2>15, DecidesInv
<1> QED BY <1>2, <1>3 DEF S!AddRead

LEMMA RemoveFromSeriesInv ==
  ASSUME S!Sensible, ShelvesInv, NEW r \in Clients, NEW u \in Writers, NEW p \in Posts,
         S!RemoveFromSeries(r, u, p), calls' \in 0 .. MaxCalls
  PROVE  ShelvesInv'
<1> DEFINE copy == doc[p]
           new == [copy EXCEPT !.series = None, !.order = S!NoOrder]
           q == [S!Idle EXCEPT !.pc = "owner", !.user = u, !.post = p, !.copy = copy, !.new = new]
<1>1. copy \in S!Post /\ copy.state = "there" /\ copy.series # None
  BY DEF ShelvesInv, S!TypeOK, S!RemoveFromSeries, S!Exists
<1>2. S!Become(r, q) /\ call[r].pc = "idle" /\ UNCHANGED <<doc, shelf, stale, moved, torn, crossed>>
  BY DEF S!RemoveFromSeries, S!At
<1>3. \A x \in S!ShelvesOf(copy) : Begun(x)
  BY DEF ShelvesInv, OnBegun
<1>4. doc[p].state = "there"
  BY <1>1
<1> HIDE DEF copy
<1>5. new \in S!Post
  <2>1. S!NoOrder \in Int
    BY DEF S!NoOrder
  <2> QED BY <1>1, <2>1 DEF S!Post
<1>6. q \in S!Request
  <2> HIDE DEF new
  <2> QED BY <1>1, <1>5, IdleIsRequest DEF S!Request, S!PCs
<1>7. /\ q.pc = "owner" /\ q.post = p /\ q.copy = copy /\ q.new = new /\ q.shifts = <<>>
      /\ ~q.counted
  BY DEF S!Idle
<1>8. KnowsPost(q)
  <2> HIDE DEF q
  <2> QED BY <1>1, <1>4, <1>7 DEF KnowsPost
<1>9. KnowsShelves(q)
  <2> HIDE DEF q, new
  <2> QED BY <1>3, <1>7 DEF KnowsShelves
<1> HIDE DEF q
<1> QED BY <1>2, <1>6, <1>7, <1>8, <1>9, DecidesInv

\* A series that is found is there; one that is not is gone.
LEMMA CheckOwnerInv ==
  ASSUME S!Sensible, ShelvesInv, NEW r \in Clients, S!CheckOwner(r), calls' \in 0 .. MaxCalls
  PROVE  ShelvesInv'
<1> DEFINE q == call[r]
           x == q.copy.series
           n(pc) == [q EXCEPT !.pc = pc, !.user = None]
<1>1. /\ q \in S!Request /\ Knows(q) /\ q.pc = "owner"
      /\ UNCHANGED <<doc, shelf, stale, moved, torn, crossed>>
  BY DEF ShelvesInv, S!TypeOK, S!CheckOwner, S!At
<1>2. /\ q.shifts = <<>> /\ ~q.counted /\ x # None /\ q.copy.state = "there" /\ q.post \in Posts
      /\ doc[q.post].state # "unborn" /\ q.new = [q.copy EXCEPT !.series = None, !.order = S!NoOrder]
      /\ \A y \in S!ShelvesOf(q.copy) : Begun(y)
  BY <1>1 DEF Knows, KnowsPost, KnowsShelves, KnowsShifts
<1>3. q.copy \in S!Post /\ q.new \in S!Post
  BY <1>1 DEF S!Request
<1>4. /\ q.new.state = "there" /\ q.new.space = q.copy.space /\ q.new.type = q.copy.type
      /\ q.new.category = q.copy.category /\ q.new.series = None
  BY <1>2, <1>3 DEF S!Post
<1>5. x \in S!Shelves /\ Begun(x)
  BY <1>2, <1>3 DEF S!Post, S!Shelves, S!ShelvesOf
<1>6. shelf[x].state \in {"there", "gone"}
  BY <1>5 DEF Begun, ShelvesInv, S!TypeOK, S!Shelf
<1>7. ASSUME NEW pc \in {"save", "uncount"}, S!Become(r, n(pc)),
             pc = "save" => shelf[x].state = "gone"
      PROVE  ShelvesInv'
  <2>1. n(pc) \in S!Request
    BY <1>1 DEF S!Request, S!PCs
  <2>2. /\ n(pc).pc = pc /\ n(pc).post = q.post /\ n(pc).copy = q.copy /\ n(pc).new = q.new
        /\ n(pc).shifts = q.shifts /\ n(pc).counted = q.counted
    BY <1>1 DEF S!Request
  <2>3. PICK m : m = n(pc)
    OBVIOUS
  <2>4. /\ m \in S!Request /\ S!Become(r, m) /\ m.pc = pc /\ m.post = q.post /\ m.copy = q.copy
        /\ m.new = q.new /\ m.shifts = q.shifts /\ m.counted = q.counted
    BY <1>7, <2>1, <2>2, <2>3
  <2> HIDE DEF n
  <2>5. pc = "save" => FilesPost(m)
    BY <1>2, <1>4, <1>7, <2>4 DEF FilesPost
  <2>6. KnowsPost(m)
    <3> HIDE DEF q
    <3> QED BY <1>2, <1>4, <2>4, <2>5 DEF KnowsPost, x
  <2>7. Joins(m) = {}
    BY <1>4, <2>4 DEF Joins, S!ShelvesOf
  <2>8. KnowsShelves(m)
    <3> HIDE DEF q
    <3> QED BY <1>2, <2>4, <2>7 DEF KnowsShelves
  <2> QED BY <1>1, <1>2, <2>4, <2>6, <2>8, DecidesInv
<1>8. CASE ~S!Open(x)
  <2>1. S!Become(r, n("save")) /\ shelf[x].state = "gone"
    BY <1>5, <1>6, <1>8 DEF S!CheckOwner, S!Open
  <2> QED BY <1>7, <2>1
<1>9. CASE S!Open(x) /\ S!Owns(q.user, x)
  <2>1. S!Become(r, n("uncount"))
    BY <1>9 DEF S!CheckOwner
  <2> QED BY <1>7, <2>1
<1>10. CASE S!Open(x) /\ ~S!Owns(q.user, x)
  <2>1. S!Become(r, S!Idle)
    BY <1>10 DEF S!CheckOwner
  <2> QED BY <1>1, <2>1, IdleInv
<1> QED BY <1>8, <1>9, <1>10

LEMMA RemoveSeriesInv ==
  ASSUME S!Sensible, ShelvesInv, NEW r \in Clients, NEW u \in Writers, NEW s \in SeriesIds,
         S!RemoveSeries(r, u, s), calls' \in 0 .. MaxCalls
  PROVE  ShelvesInv'
<1> DEFINE q == [S!Idle EXCEPT !.pc = "unlink", !.shelf = s]
<1>1. /\ S!Become(r, q) /\ call[r].pc = "idle"
      /\ UNCHANGED <<doc, shelf, stale, moved, torn, crossed>> /\ shelf[s].state = "there"
  BY DEF S!RemoveSeries, S!At, S!Open
<1>2. q \in S!Request
  BY IdleIsRequest DEF S!Request, S!PCs, S!Shelves
<1>3. q.pc = "unlink" /\ q.shelf = s /\ q.copy = S!Unborn /\ q.shifts = <<>> /\ ~q.counted
  BY DEF S!Idle
<1> HIDE DEF q
<1>4. KnowsPost(q) /\ KnowsShelves(q)
  BY <1>1, <1>3, IdleIsRequest DEF KnowsPost, KnowsShelves, S!Unborn, Begun
<1> QED BY <1>1, <1>2, <1>3, <1>4, DecidesInv

-----------------------------------------------------------------------------
(* Sequences of shifts                                                     *)

Apart(shifts) == \A i, j \in DOMAIN shifts : shifts[i] = shifts[j] => i = j

Has(shifts, x, by) == \E i \in DOMAIN shifts : shifts[i] = [shelf |-> x, by |-> by]

\* The shift of a count by one way, if there is a shelf to count on.
Step(x, by) == IF x = None THEN <<>> ELSE <<[shelf |-> x, by |-> by]>>

LEMMA StepsMean == \A x : S!Up(x) = Step(x, 1) /\ S!Down(x) = Step(x, -1)
BY DEF S!Up, S!Down, Step

\* shifts are that of a by i and that of b by j.
AreSteps(shifts, a, i, b, j) ==
  /\ shifts \in Seq(S!ShiftOf) /\ Apart(shifts)
  /\ \A x \in S!Shelves, by \in {1, -1} :
       Has(shifts, x, by) <=> (x = a /\ by = i) \/ (x = b /\ by = j)
  /\ \A k \in DOMAIN shifts : shifts[k].shelf \in {a, b} \ {None}

LEMMA OneLong ==
  ASSUME NEW X, NEW e \in X, NEW s, s = <<e>>
  PROVE  s \in Seq(X) /\ Len(s) = 1 /\ DOMAIN s = {1} /\ s[1] = e
<1>1. s \in Seq(X)
  OBVIOUS
<1>2. Len(s) = 1
  OBVIOUS
<1>3. s[1] = e
  OBVIOUS
<1>4. DOMAIN s = 1 .. 1
  BY <1>1, <1>2, LenProperties
<1> QED BY <1>1, <1>2, <1>3, <1>4

\* Two shifts, of different shelves or in different ways.
LEMMA TwoSteps ==
  ASSUME S!Sensible, NEW a \in S!Shelves \cup {None}, NEW b \in S!Shelves \cup {None},
         NEW i \in {1, -1}, NEW j \in {1, -1}, a = None \/ a # b \/ i # j,
         NEW two, two = Step(a, i) \o Step(b, j)
  PROVE  AreSteps(two, a, i, b, j)
<1> DEFINE A == [shelf |-> a, by |-> i]
           B == [shelf |-> b, by |-> j]
<1>1. None \notin S!Shelves
  BY DEF S!Sensible
<1>2. (a # None => A \in S!ShiftOf) /\ (b # None => B \in S!ShiftOf)
  BY DEF S!ShiftOf
<1>3. CASE a = None /\ b = None
  <2>1. two = <<>>
    BY <1>3 DEF Step
  <2>2. two \in Seq(S!ShiftOf) /\ DOMAIN two = {}
    BY <2>1
  <2> QED BY <1>1, <1>3, <2>2 DEF AreSteps, Apart, Has
<1>4. CASE a # None /\ b = None
  <2>1. two = <<A>>
    <3>1. Step(a, i) = <<A>> /\ Step(b, j) = <<>>
      BY <1>4 DEF Step
    <3>2. <<A>> \in Seq(S!ShiftOf)
      BY <1>2, <1>4
    <3> HIDE DEF A
    <3> QED BY <3>1, <3>2, ConcatEmptySeq
  <2>2. two \in Seq(S!ShiftOf) /\ DOMAIN two = {1} /\ two[1] = A
    <3> HIDE DEF A
    <3> QED BY <1>2, <1>4, <2>1, OneLong
  <2> QED BY <1>1, <1>4, <2>2 DEF AreSteps, Apart, Has
<1>5. CASE a = None /\ b # None
  <2>1. two = <<B>>
    <3>1. Step(a, i) = <<>> /\ Step(b, j) = <<B>>
      BY <1>5 DEF Step
    <3>2. <<B>> \in Seq(S!ShiftOf)
      BY <1>2, <1>5
    <3> HIDE DEF B
    <3> QED BY <3>1, <3>2, ConcatEmptySeq
  <2>2. two \in Seq(S!ShiftOf) /\ DOMAIN two = {1} /\ two[1] = B
    <3> HIDE DEF B
    <3> QED BY <1>2, <1>5, <2>1, OneLong
  <2> QED BY <1>1, <1>5, <2>2 DEF AreSteps, Apart, Has
<1>6. CASE a # None /\ b # None
  <2>1. Step(a, i) = <<A>> /\ Step(b, j) = <<B>> /\ A # B
    BY <1>6 DEF Step
  <2>2. A \in S!ShiftOf /\ B \in S!ShiftOf
    BY <1>2, <1>6
  <2>3. two \in Seq(S!ShiftOf) /\ DOMAIN two = {1, 2} /\ two[1] = A /\ two[2] = B
    <3> HIDE DEF A, B
    <3>1. PICK s, t : s = <<A>> /\ t = <<B>>
      OBVIOUS
    <3>2. /\ s \in Seq(S!ShiftOf) /\ Len(s) = 1 /\ s[1] = A
          /\ t \in Seq(S!ShiftOf) /\ Len(t) = 1 /\ t[1] = B
      BY <2>2, <3>1, OneLong
    <3>3. two = s \o t
      BY <2>1, <3>1
    <3>4. /\ two \in Seq(S!ShiftOf) /\ Len(two) = 2 /\ two[1] = A /\ two[2] = B
      BY <3>2, <3>3, ConcatProperties
    <3> QED BY <3>4, LenProperties
  <2>4. Apart(two)
    <3> HIDE DEF A, B
    <3> QED BY <2>1, <2>3 DEF Apart
  <2>5. \A x, by : Has(two, x, by) <=> A = [shelf |-> x, by |-> by] \/ B = [shelf |-> x, by |-> by]
    <3> HIDE DEF A, B
    <3> QED BY <2>3 DEF Has
  <2>6. \A x, by : Has(two, x, by) <=> (x = a /\ by = i) \/ (x = b /\ by = j)
    BY <2>5
  <2>7. \A k \in DOMAIN two : two[k].shelf \in {a, b} \ {None}
    BY <1>6, <2>3
  <2> QED BY <2>3, <2>4, <2>6, <2>7 DEF AreSteps
<1> QED BY <1>3, <1>4, <1>5, <1>6

\* A request that goes on to shift counts.
LEMMA ShiftingKnows ==
  ASSUME NEW shifts \in Seq(S!ShiftOf), Apart(shifts), NEW o,
         \A i \in DOMAIN shifts : Begun(shifts[i].shelf),
         NEW q, q = S!Shifting(o, shifts)
  PROVE  /\ q \in S!Request /\ Knows(q) /\ q.shifts = shifts /\ ~q.counted
         /\ q.pc \in {"idle", "shift"}
<1>1. CASE shifts = <<>>
  <2>1. q = S!Idle
    BY <1>1 DEF S!Shifting
  <2>2. /\ q.pc = "idle" /\ q.copy = S!Unborn /\ q.shifts = shifts /\ ~q.counted
    BY <1>1, <2>1 DEF S!Idle
  <2> QED BY <1>1, <2>1, <2>2, IdleIsRequest
        DEF Knows, KnowsPost, KnowsShelves, KnowsShifts, Apart, S!Unborn
<1>2. CASE shifts # <<>>
  <2>1. q = [S!Idle EXCEPT !.pc = "shift", !.shifts = shifts]
    BY <1>2 DEF S!Shifting
  <2>2. q \in S!Request
    BY <2>1, IdleIsRequest DEF S!Request, S!PCs
  <2>3. q.pc = "shift" /\ q.copy = S!Unborn /\ q.shifts = shifts /\ ~q.counted
    BY <2>1 DEF S!Idle
  <2>4. KnowsPost(q) /\ KnowsShelves(q)
    BY <2>3, IdleIsRequest DEF KnowsPost, KnowsShelves, S!Unborn
  <2>5. KnowsShifts(q)
    BY <1>2, <2>3 DEF KnowsShifts, Apart
  <2> QED BY <2>2, <2>3, <2>4, <2>5 DEF Knows
<1> QED BY <1>1, <1>2

-----------------------------------------------------------------------------
(* Steps that write a post                                                 *)

\* Request s is about to delete x.
Dropping(s, x) == call[s].pc \in {"dropCategory", "dropSeries"} /\ call[s].shelf = x

\* The requests that drop shelves, before and after r moves.
LEMMA DropsLast ==
  ASSUME S!TypeOK, NEW r \in Clients, NEW q, S!Become(r, q), q.pc \notin {"dropCategory", "dropSeries"}
  PROVE  \A s \in Clients : \A x : Dropping(s, x)' => s # r /\ Dropping(s, x)
BY DEF S!Become, S!TypeOK, Dropping

\* The document of p becomes d, as request r goes on to shift counts: the counts
\* are then owed what d changes, and d is on no shelf that is on its way out.
LEMMA PostStep ==
  ASSUME S!Sensible, ShelvesInv, NEW r \in Clients, NEW q \in S!Request, S!Become(r, q),
         Knows(q), call[r].pc # "dropSeries", q.pc \in {"idle", "shift"},
         NEW p \in Posts, NEW d \in S!Post, d.state # "unborn", doc' = [doc EXCEPT ![p] = d],
         shelf' = shelf, calls' \in 0 .. MaxCalls,
         stale' \subseteq Posts, moved' \subseteq Posts,
         torn' \subseteq S!Shelves, crossed' \subseteq S!Shelves,
         stale \subseteq stale', moved \subseteq moved', torn \subseteq torn', crossed \subseteq crossed',
         \A x \in S!Shelves \ torn' : shelf[x].state = "there" =>
           Weight(q, x) - Weight(call[r], x) = Bit(Keeps(d, x)) - Bit(Keeps(doc[p], x)),
         \A x \in S!ShelvesOf(d) : Begun(x), d.state = "there" \/ S!ShelvesOf(d) = {},
         \A x : /\ Keeps(d, x) /\ ~Keeps(doc[p], x)
                /\ shelf[x].state = "gone" \/ \E s \in Clients : Dropping(s, x)
                => x \in crossed',
         d.state = "there" /\ p \notin stale' => d.type \in S!ValidTypes[d.space],
         d.state = "there" /\ p \notin stale' \cup moved' =>
           \A x \in S!ShelvesOf(d) \ crossed' : shelf[x].space = d.space
  PROVE  ShelvesInv'
<1>1. /\ S!TypeOK /\ (\A s \in Clients : Knows(call[s])) /\ OnBegun /\ DropsEmpty
      /\ S!CountsAgree /\ S!NoPostOnMissingShelf /\ S!PostsFitTheirSpace
  BY DEF ShelvesInv
<1>2. doc'[p] = d /\ \A o \in Posts : o # p => doc'[o] = doc[o]
  BY <1>1 DEF S!TypeOK
<1>3. ShelvesGrow
  BY <1>2 DEF ShelvesGrow, Begun, Missed
<1>4. Knows(q)'
  <2>1. KnowsPost(q)' /\ KnowsShelves(q)'
    BY <1>3 DEF Knows, KnowsPost, KnowsShelves, Begun, EditsPost, FilesPost, ShelvesGrow
  <2> QED BY <2>1 DEF Knows, KnowsShifts, Begun
<1>5. call' \in [Clients -> S!Request] /\ \A s \in Clients : Knows(call[s])'
  BY <1>3, <1>4, AllKnow
<1>6. S!TypeOK'
  BY <1>1, <1>5 DEF S!TypeOK
<1>7. \A s \in Clients : \A x : Dropping(s, x)' => s # r /\ Dropping(s, x)
  BY <1>1, DropsLast
<1>8. OnBegun'
  BY <1>1, <1>2 DEF OnBegun, Begun, S!Exists
<1>9. DropsEmpty'
  <2> SUFFICES ASSUME NEW s \in Clients, NEW o \in Posts, NEW x, Dropping(s, x)', Keeps(doc'[o], x)
               PROVE  x \in crossed'
    BY DEF DropsEmpty, Dropping, Keeps, S!Exists
  <2>1. Dropping(s, x)
    BY <1>7
  <2>2. CASE Keeps(doc[o], x)
    BY <1>1, <2>1, <2>2 DEF DropsEmpty, Dropping, Keeps, S!Exists
  <2>3. CASE ~Keeps(doc[o], x)
    BY <1>2, <2>1, <2>3
  <2> QED BY <2>2, <2>3
<1>10. S!NoPostOnMissingShelf'
  <2> SUFFICES ASSUME NEW o \in Posts, NEW x, Keeps(doc'[o], x), shelf[x].state = "gone"
               PROVE  x \in crossed'
    BY DEF S!NoPostOnMissingShelf, Keeps, S!Exists
  <2>1. CASE Keeps(doc[o], x)
    BY <1>1, <2>1 DEF S!NoPostOnMissingShelf, Keeps, S!Exists
  <2>2. CASE ~Keeps(doc[o], x)
    BY <1>2, <2>2
  <2> QED BY <2>1, <2>2
<1>11. S!PostsFitTheirSpace'
  <2> SUFFICES ASSUME NEW o \in Posts, doc'[o].state = "there"
               PROVE  /\ o \notin stale' => doc'[o].type \in S!ValidTypes[doc'[o].space]
                      /\ o \notin stale' \cup moved' => \A x \in S!ShelvesOf(doc'[o]) \ crossed' :
                           shelf[x].space = doc'[o].space
    BY DEF S!PostsFitTheirSpace, S!Exists
  <2>1. CASE o = p
    BY <1>2, <2>1
  <2>2. CASE o # p
    BY <1>1, <1>2, <2>2 DEF S!PostsFitTheirSpace, S!Exists
  <2> QED BY <2>1, <2>2
<1>12. S!CountsAgree'
  <2> SUFFICES ASSUME NEW x \in S!Shelves \ torn', Settled(x)'
               PROVE  shelf'[x].count + S!Owed(x)' = Cardinality(S!Members(x)')
    BY CountsMean DEF Agrees
  <2>1. call'[r] = q /\ \A s \in Clients : s # r => call'[s] = call[s]
    BY <1>1 DEF S!Become, S!TypeOK
  <2>2. Settled(x)
    BY <2>1 DEF Settled, S!At
  <2>3. shelf[x].count + S!Owed(x) = Cardinality(S!Members(x))
    BY <1>1, <2>2, CountsMean DEF Agrees
  <2>4. S!Owed(x) \in Int /\ S!Owed(x)' = S!Owed(x) + Weight(q, x) - Weight(call[r], x)
    BY <1>1, Owing
  <2>5. /\ Cardinality(S!Members(x)) \in Nat
        /\ Cardinality(S!Members(x)') = Cardinality(S!Members(x))
                                          + Bit(Keeps(d, x)) - Bit(Keeps(doc[p], x))
    BY <1>1, MembersMove
  <2>6. Weight(q, x) - Weight(call[r], x) = Bit(Keeps(d, x)) - Bit(Keeps(doc[p], x))
    BY <2>2 DEF Settled
  <2>7. /\ Weight(q, x) \in Int /\ Weight(call[r], x) \in Int /\ shelf[x].count \in Int
        /\ Bit(Keeps(d, x)) \in Int /\ Bit(Keeps(doc[p], x)) \in Int
    BY <1>1 DEF Weight, Bit, S!TypeOK, S!Shelf
  <2>8. shelf'[x].count = shelf[x].count
    OBVIOUS
  <2> QED BY <2>3, <2>4, <2>5, <2>6, <2>7, <2>8
<1> QED BY <1>5, <1>6, <1>8, <1>9, <1>10, <1>11, <1>12 DEF ShelvesInv

LEMMA OneStep ==
  ASSUME S!Sensible, NEW a \in S!Shelves \cup {None}, NEW i \in {1, -1}, NEW one, one = Step(a, i)
  PROVE  AreSteps(one, a, i, a, i)
<1> DEFINE A == [shelf |-> a, by |-> i]
<1>1. None \notin S!Shelves
  BY DEF S!Sensible
<1>2. CASE a = None
  <2>1. one = <<>>
    BY <1>2 DEF Step
  <2>2. one \in Seq(S!ShiftOf) /\ DOMAIN one = {}
    BY <2>1
  <2> QED BY <1>1, <1>2, <2>2 DEF AreSteps, Apart, Has
<1>3. CASE a # None
  <2>1. one = <<A>> /\ A \in S!ShiftOf
    BY <1>3 DEF Step, S!ShiftOf
  <2>2. one \in Seq(S!ShiftOf) /\ DOMAIN one = {1} /\ one[1] = A
    <3> HIDE DEF A
    <3> QED BY <2>1, OneLong
  <2> QED BY <1>1, <1>3, <2>2 DEF AreSteps, Apart, Has
<1> QED BY <1>2, <1>3

LEMMA ShiftWeight ==
  ASSUME NEW q, ~q.counted, NEW x
  PROVE  Weight(q, x) = Bit(Has(q.shifts, x, 1)) - Bit(Has(q.shifts, x, -1))
BY DEF Weight, Shifting, Has, Unsaved, Bit

LEMMA InsertPostInv ==
  ASSUME S!Sensible, ShelvesInv, NEW r \in Clients, S!InsertPost(r), calls' \in 0 .. MaxCalls
  PROVE  ShelvesInv'
<1> DEFINE q == call[r]
           up == S!Up(q.new.category)
<1>1. /\ q \in S!Request /\ Knows(q) /\ q.pc = "insert" /\ S!TypeOK
      /\ doc[q.post].state = "unborn" /\ doc' = [doc EXCEPT ![q.post] = q.new]
      /\ crossed' = crossed \cup S!CrossedBy(q.new) /\ S!Become(r, S!Shifting(q, up))
      /\ UNCHANGED <<shelf, stale, moved, torn>>
  BY DEF ShelvesInv, S!TypeOK, S!InsertPost, S!At
<1>2. /\ q.post \in Posts /\ q.new.state = "there" /\ q.copy = S!Unborn /\ EditsPost(q)
      /\ q.shifts = <<>> /\ ~q.counted
      /\ \A x \in Joins(q) : Begun(x) /\ ~Missed(x) /\ shelf[x].space = q.new.space
  BY <1>1 DEF Knows, KnowsPost, KnowsShelves, KnowsShifts, FilesPost
<1>3. q.new \in S!Post /\ q.new.category \in S!Shelves \cup {None} /\ q.new.series = None
  <2>1. q.new.series = S!Unborn.series /\ S!Unborn.series = None
    BY <1>2 DEF EditsPost, S!Unborn
  <2> QED BY <1>1, <2>1 DEF S!Request, S!Post, S!Shelves
<1>4. \A x : x \in S!ShelvesOf(q.new) <=> x = q.new.category /\ x # None
  BY <1>3, ShelvesOfType
<1>5. \A x : x \in Joins(q) <=> x \in S!ShelvesOf(q.new)
  BY <1>2, IdleIsRequest DEF Joins
<1>6. /\ up \in Seq(S!ShiftOf) /\ Apart(up) /\ \A k \in DOMAIN up : up[k].shelf \in S!ShelvesOf(q.new)
      /\ \A x \in S!Shelves, by \in {1, -1} : Has(up, x, by) <=> x = q.new.category /\ by = 1
  <2>1. up = Step(q.new.category, 1)
    BY StepsMean
  <2>2. AreSteps(up, q.new.category, 1, q.new.category, 1)
    BY <1>3, <2>1, OneStep
  <2> HIDE DEF up
  <2> QED BY <1>4, <2>2 DEF AreSteps
<1>7. PICK n : n = S!Shifting(q, up)
  OBVIOUS
<1>8. PICK d : d = q.new
  OBVIOUS
<1>9. \A x \in S!ShelvesOf(d) : Begun(x) /\ ~Missed(x) /\ shelf[x].space = d.space
  BY <1>2, <1>5, <1>8
<1>10. \A i \in DOMAIN up : Begun(up[i].shelf)
  BY <1>6, <1>8, <1>9
<1>11. /\ n \in S!Request /\ Knows(n) /\ n.shifts = up /\ ~n.counted /\ n.pc \in {"idle", "shift"}
  <2> HIDE DEF up
  <2> QED BY <1>6, <1>7, <1>10, ShiftingKnows
<1>12. ASSUME NEW x \in S!Shelves
       PROVE  Weight(n, x) - Weight(q, x) = Bit(Keeps(d, x)) - Bit(Keeps(doc[q.post], x))
  <2>1. Weight(q, x) = 0
    BY <1>2, NoWeight
  <2>2. Weight(n, x) = Bit(x = q.new.category)
    <3>1. Weight(n, x) = Bit(Has(up, x, 1)) - Bit(Has(up, x, -1))
      BY <1>11, ShiftWeight
    <3> HIDE DEF up
    <3> QED BY <1>6, <3>1 DEF Bit
  <2>3. Keeps(d, x) <=> x = q.new.category
    <3>1. x # None
      BY DEF S!Sensible
    <3> QED BY <1>2, <1>4, <1>8, <3>1 DEF Keeps
  <2>4. ~Keeps(doc[q.post], x)
    BY <1>1 DEF Keeps
  <2> QED BY <2>1, <2>2, <2>3, <2>4 DEF Bit
<1>13. ASSUME NEW x, Keeps(d, x), shelf[x].state = "gone" \/ \E s \in Clients : Dropping(s, x)
       PROVE  x \in crossed'
  <2>1. x \in S!ShelvesOf(q.new)
    BY <1>8, <1>13 DEF Keeps
  <2>2. CASE shelf[x].state = "gone"
    BY <1>1, <1>8, <1>9, <2>1, <2>2 DEF Missed
  <2>3. CASE \E s \in Clients : Dropping(s, x)
    BY <1>1, <2>1, <2>3 DEF Dropping, S!CrossedBy
  <2> QED BY <1>13, <2>2, <2>3
<1>14. crossed' \subseteq S!Shelves /\ crossed \subseteq crossed'
  <2>1. S!ShelvesOf(q.new) \subseteq S!Shelves
    BY <1>3, ShelvesOfType
  <2> QED BY <1>1, <2>1 DEF S!TypeOK, S!CrossedBy
<1>15. /\ d \in S!Post /\ d.state = "there" /\ doc' = [doc EXCEPT ![q.post] = d]
       /\ d.type \in S!ValidTypes[d.space] /\ S!Become(r, n)
  BY <1>1, <1>2, <1>3, <1>7, <1>8 DEF EditsPost
<1>16. /\ stale' \subseteq Posts /\ moved' \subseteq Posts /\ torn' \subseteq S!Shelves
       /\ stale \subseteq stale' /\ moved \subseteq moved' /\ torn \subseteq torn' /\ shelf' = shelf
  BY <1>1 DEF S!TypeOK
<1>17. /\ q.post \in Posts /\ q.pc # "dropSeries"
  BY <1>1, <1>2
<1> HIDE DEF Weight, Keeps, up
<1> QED BY <1>9, <1>11, <1>12, <1>13, <1>14, <1>15, <1>16, <1>17, PostStep

\* A request that ends, having marked what it owes.
LEMMA EndInv ==
  ASSUME S!Sensible, ShelvesInv, NEW r \in Clients, S!Become(r, S!Idle),
         UNCHANGED <<doc, shelf, stale, moved, crossed>>, calls' \in 0 .. MaxCalls,
         torn \subseteq torn', torn' \subseteq S!Shelves,
         \A x \in S!Shelves \ torn' : Weight(call[r], x) = 0,
         call[r].pc = "dropSeries" => call[r].shelf \in torn'
  PROVE  ShelvesInv'
<1>1. /\ S!TypeOK /\ (\A s \in Clients : Knows(call[s])) /\ OnBegun /\ DropsEmpty
      /\ S!CountsAgree /\ S!NoPostOnMissingShelf /\ S!PostsFitTheirSpace
  BY DEF ShelvesInv
<1>2. PICK q : q = S!Idle
  OBVIOUS
<1>3. S!Become(r, q) /\ q \in S!Request /\ q.pc = "idle" /\ q.shifts = <<>> /\ ~q.counted
      /\ q.copy = S!Unborn
  <2>1. S!Become(r, q) /\ q \in S!Request
    BY <1>2, IdleIsRequest
  <2>2. q.pc = "idle" /\ q.shifts = <<>> /\ ~q.counted /\ q.copy = S!Unborn
    BY <1>2 DEF S!Idle
  <2> QED BY <2>1, <2>2
<1>4. ShelvesGrow
  BY DEF ShelvesGrow, Begun, Missed
<1>5. Knows(q)'
  BY <1>3, IdleIsRequest DEF Knows, KnowsPost, KnowsShelves, KnowsShifts, S!Unborn
<1>6. call' \in [Clients -> S!Request] /\ \A s \in Clients : Knows(call[s])'
  BY <1>3, <1>4, <1>5, AllKnow
<1>7. S!TypeOK'
  BY <1>1, <1>6 DEF S!TypeOK
<1>8. OnBegun' /\ S!NoPostOnMissingShelf' /\ S!PostsFitTheirSpace'
  BY <1>1 DEF OnBegun, Begun, S!NoPostOnMissingShelf, S!PostsFitTheirSpace, S!Exists
<1>9. \A s \in Clients : \A x : Dropping(s, x)' => s # r /\ Dropping(s, x)
  BY <1>1, <1>3, DropsLast
<1>10. DropsEmpty'
  BY <1>1, <1>9 DEF DropsEmpty, Dropping, S!Exists
<1>11. S!CountsAgree'
  <2> SUFFICES ASSUME NEW x \in S!Shelves \ torn', Settled(x)'
               PROVE  shelf'[x].count + S!Owed(x)' = Cardinality(S!Members(x)')
    BY CountsMean DEF Agrees
  <2>1. call'[r] = q /\ \A s \in Clients : s # r => call'[s] = call[s]
    BY <1>1, <1>3 DEF S!Become, S!TypeOK
  <2>2. Settled(x)
    BY <2>1 DEF Settled, S!At
  <2>3. shelf[x].count + S!Owed(x) = Cardinality(S!Members(x))
    BY <1>1, <2>2, CountsMean DEF Agrees
  <2>4. S!Owed(x) \in Int /\ S!Owed(x)' = S!Owed(x) + Weight(q, x) - Weight(call[r], x)
    BY <1>1, <1>3, Owing
  <2>5. Weight(q, x) = 0 /\ Weight(call[r], x) = 0
    BY <1>3, NoWeight
  <2>6. S!Members(x)' = S!Members(x)
    BY DEF S!Members, S!Exists
  <2> QED BY <2>3, <2>4, <2>5, <2>6
<1> QED BY <1>6, <1>7, <1>8, <1>10, <1>11 DEF ShelvesInv

LEMMA CrashInv ==
  ASSUME S!Sensible, ShelvesInv, NEW r \in Clients, S!Crash(r), calls' \in 0 .. MaxCalls
  PROVE  ShelvesInv'
<1> DEFINE q == call[r]
           left == {s.shelf : s \in {q.shifts[i] : i \in DOMAIN q.shifts}}
           uncounted == IF q.counted THEN {q.copy.series} ELSE {}
           dropped == IF S!At(r, "dropSeries") THEN {q.shelf} ELSE {}
<1>1. /\ q \in S!Request /\ Knows(q) /\ S!TypeOK /\ S!Become(r, S!Idle)
      /\ UNCHANGED <<doc, shelf, stale, moved, crossed>>
      /\ torn' = torn \cup left \cup uncounted \cup dropped
  BY DEF ShelvesInv, S!TypeOK, S!Crash
<1>2. left \subseteq S!Shelves
  <2>1. q.shifts \in Seq(S!ShiftOf)
    BY <1>1 DEF S!Request
  <2> QED BY <2>1, ShiftsOfType
<1>3. uncounted \subseteq S!Shelves
  BY <1>1 DEF Knows, KnowsPost, S!Request, S!Post, S!Shelves
<1>4. dropped \subseteq S!Shelves
  BY <1>1 DEF Knows, KnowsShelves, S!Shelves, S!At
<1>5. ASSUME NEW x \in S!Shelves \ torn' PROVE Weight(q, x) = 0
  <2>1. x \notin left /\ x \notin uncounted
    BY <1>1
  <2>2. ~Has(q.shifts, x, 1) /\ ~Has(q.shifts, x, -1)
    BY <2>1 DEF Has
  <2>3. ~Unsaved(q, x)
    BY <2>1 DEF Unsaved
  <2> QED BY <2>2, <2>3 DEF Weight, Shifting, Has, Bit
<1>6. q.pc = "dropSeries" => q.shelf \in torn'
  BY <1>1 DEF S!At
<1>7. torn \subseteq torn' /\ torn' \subseteq S!Shelves
  BY <1>1, <1>2, <1>3, <1>4 DEF S!TypeOK
<1> HIDE DEF Weight
<1> QED BY <1>1, <1>5, <1>6, <1>7, EndInv

\* The post was deleted since it was read.
LEMMA SaveGoneInv ==
  ASSUME S!Sensible, ShelvesInv, NEW r \in Clients, S!SavePost(r), calls' \in 0 .. MaxCalls,
         ~S!Exists(call[r].post)
  PROVE  ShelvesInv'
<1> DEFINE q == call[r]
<1>1. /\ q \in S!Request /\ Knows(q) /\ S!TypeOK /\ q.pc = "save" /\ S!Become(r, S!Idle)
      /\ UNCHANGED <<doc, shelf, stale, moved, crossed>>
      /\ torn' = IF q.counted THEN torn \cup {q.copy.series} ELSE torn
  BY DEF ShelvesInv, S!TypeOK, S!SavePost, S!At
<1>2. q.counted => q.copy.series \in S!Shelves
  BY <1>1 DEF Knows, KnowsPost, S!Request, S!Post, S!Shelves
<1>3. torn \subseteq torn' /\ torn' \subseteq S!Shelves
  BY <1>1, <1>2 DEF S!TypeOK
<1>4. ASSUME NEW x \in S!Shelves \ torn' PROVE Weight(q, x) = 0
  <2>1. q.shifts = <<>>
    BY <1>1 DEF Knows, KnowsShifts
  <2>2. ~Unsaved(q, x)
    BY <1>1 DEF Unsaved
  <2> QED BY <2>1, <2>2 DEF Weight, Shifting, Bit
<1> HIDE DEF Weight
<1> QED BY <1>1, <1>3, <1>4, EndInv

\* A document's category is no series.
LEMMA Apartness ==
  ASSUME S!Sensible, NEW d \in S!Post, NEW e \in S!Post
  PROVE  /\ d.category = e.series => d.category = None
         /\ S!ShelvesOf(d) = S!ShelvesOf(e) => d.category = e.category /\ d.series = e.series
         /\ d.category \in S!Shelves \cup {None} /\ d.series \in S!Shelves \cup {None}
         /\ None \notin S!Shelves
BY DEF S!Sensible, S!Post, S!Shelves, S!ShelvesOf

\* What save() counts: the shifts of request q, and which shelves they are of.
LEMMA SaveShifts ==
  ASSUME S!Sensible, NEW q \in S!Request, KnowsPost(q), q.pc = "save", NEW two, two = S!Shifts(q)
  PROVE  /\ two \in Seq(S!ShiftOf) /\ Apart(two)
         /\ \A k \in DOMAIN two : two[k].shelf \in S!ShelvesOf(q.new) \cup S!ShelvesOf(q.copy)
         /\ \A x \in S!Shelves : shelf[x].state = "there" =>
              Bit(Has(two, x, 1)) - Bit(Has(two, x, -1)) - Bit(Unsaved(q, x)) =
                Bit(x \in S!ShelvesOf(q.new)) - Bit(x \in S!ShelvesOf(q.copy))
<1> DEFINE new == q.new
           old == q.copy
<1>1. new \in S!Post /\ old \in S!Post
  BY DEF S!Request
<1>2. /\ new.category \in S!Shelves \cup {None} /\ new.series \in S!Shelves \cup {None}
      /\ old.category \in S!Shelves \cup {None} /\ old.series \in S!Shelves \cup {None}
      /\ None \notin S!Shelves
      /\ old.category = old.series => old.category = None
      /\ new.category = old.series => new.category = None
      /\ old.category = new.series => old.category = None
      /\ new.category = new.series => new.category = None
  BY <1>1, Apartness
<1>3. \A x : /\ x \in S!ShelvesOf(new) <=> (x = new.category \/ x = new.series) /\ x # None
             /\ x \in S!ShelvesOf(old) <=> (x = old.category \/ x = old.series) /\ x # None
  BY <1>1, ShelvesOfType
<1>4. EditsPost(q) \/ FilesPost(q)
  BY DEF KnowsPost
<1>5. CASE new.category # old.category
  <2>1. EditsPost(q) /\ ~q.counted /\ new.series = old.series
    BY <1>4, <1>5 DEF FilesPost, EditsPost
  <2>2. two = Step(new.category, 1) \o Step(old.category, -1)
    BY <1>5, StepsMean DEF S!Shifts
  <2>3. AreSteps(two, new.category, 1, old.category, -1)
    BY <1>2, <1>5, <2>2, TwoSteps
  <2>4. \A x : ~Unsaved(q, x)
    BY <2>1 DEF Unsaved
  <2>5. ASSUME NEW x \in S!Shelves
        PROVE  Bit(Has(two, x, 1)) - Bit(Has(two, x, -1)) - Bit(Unsaved(q, x)) =
                 Bit(x \in S!ShelvesOf(new)) - Bit(x \in S!ShelvesOf(old))
    <3>1. (Has(two, x, 1) <=> x = new.category) /\ (Has(two, x, -1) <=> x = old.category)
      BY <2>3 DEF AreSteps
    <3> QED BY <1>2, <1>3, <1>5, <2>1, <2>4, <3>1 DEF Bit
  <2> QED BY <1>3, <2>3, <2>5 DEF AreSteps
<1>6. CASE new.category = old.category /\ new.series # old.series /\ ~q.counted /\ new.series # None
  <2>1. two = Step(old.series, -1) \o Step(new.series, 1)
    BY <1>6, StepsMean DEF S!Shifts
  <2>2. AreSteps(two, old.series, -1, new.series, 1)
    BY <1>2, <1>6, <2>1, TwoSteps
  <2>3. \A x : ~Unsaved(q, x)
    BY <1>6 DEF Unsaved
  <2>4. ASSUME NEW x \in S!Shelves
        PROVE  Bit(Has(two, x, 1)) - Bit(Has(two, x, -1)) - Bit(Unsaved(q, x)) =
                 Bit(x \in S!ShelvesOf(new)) - Bit(x \in S!ShelvesOf(old))
    <3>1. (Has(two, x, 1) <=> x = new.series) /\ (Has(two, x, -1) <=> x = old.series)
      BY <2>2 DEF AreSteps
    <3> QED BY <1>2, <1>3, <1>6, <2>3, <3>1 DEF Bit
  <2> QED BY <1>3, <2>2, <2>4 DEF AreSteps
<1>7. CASE /\ new.category = old.category
           /\ ~(new.series # old.series /\ ~q.counted /\ new.series # None)
  <2>1. two = <<>>
    BY <1>7 DEF S!Shifts
  <2>2. two \in Seq(S!ShiftOf) /\ DOMAIN two = {}
    BY <2>1, EmptySeq
  <2>3. \A x, by : ~Has(two, x, by)
    BY <2>2 DEF Has
  <2>4. ASSUME NEW x \in S!Shelves, shelf[x].state = "there"
        PROVE  Bit(Has(two, x, 1)) - Bit(Has(two, x, -1)) - Bit(Unsaved(q, x)) =
                 Bit(x \in S!ShelvesOf(new)) - Bit(x \in S!ShelvesOf(old))
    <3>1. CASE new.series = old.series
      <4>1. ~q.counted
        <5>1. CASE EditsPost(q)
          BY <5>1 DEF EditsPost
        <5>2. CASE FilesPost(q)
          BY <3>1, <5>2 DEF FilesPost
        <5> QED BY <1>4, <5>1, <5>2
      <4> QED BY <1>3, <1>7, <2>3, <3>1, <4>1 DEF Unsaved, Bit
    <3>2. CASE new.series # old.series
      <4>1. /\ FilesPost(q)
            /\ new.series = None /\ old.series # None
            /\ q.counted \/ shelf[old.series].state = "gone"
        BY <1>4, <1>7, <3>2 DEF FilesPost, EditsPost
      <4> QED BY <1>2, <1>3, <1>7, <2>3, <2>4, <4>1 DEF Unsaved, Bit
    <3> QED BY <3>1, <3>2
  <2> QED BY <2>2, <2>4 DEF Apart
<1> QED BY <1>5, <1>6, <1>7

\* The post is still there, and takes the changes of the copy.
LEMMA SaveFoundInv ==
  ASSUME S!Sensible, ShelvesInv, NEW r \in Clients, S!SavePost(r), calls' \in 0 .. MaxCalls,
         S!Exists(call[r].post)
  PROVE  ShelvesInv'
<1> DEFINE q == call[r]
           p == q.post
           new == q.new
           old == q.copy
           only == [new EXCEPT !.category = IF @ = old.category THEN None ELSE @,
                               !.series = IF @ = old.series THEN None ELSE @]
<1>1. /\ q \in S!Request /\ Knows(q) /\ q.pc = "save" /\ S!TypeOK /\ shelf' = shelf
      /\ doc' = [doc EXCEPT ![p] = S!Merge(doc[p], old, new)]
      /\ stale' = IF doc[p] = old THEN stale ELSE stale \cup {p}
      /\ moved' = IF new.space # old.space /\ S!ShelvesOf(new) # {} THEN moved \cup {p} ELSE moved
      /\ torn' = torn \cup S!TornBy(p, old, new)
      /\ crossed' = crossed \cup S!CrossedBy(only)
      /\ S!Become(r, S!Shifting(q, S!Shifts(q)))
  BY DEF ShelvesInv, S!TypeOK, S!SavePost, S!At
<1>2. /\ KnowsPost(q) /\ p \in Posts /\ new.state = "there" /\ old.state = "there"
      /\ EditsPost(q) \/ FilesPost(q)
      /\ \A x \in S!ShelvesOf(old) : Begun(x)
      /\ \A x \in Joins(q) : Begun(x) /\ ~Missed(x) /\ shelf[x].space = new.space
      /\ q.shifts = <<>>
  BY <1>1 DEF Knows, KnowsPost, KnowsShelves, KnowsShifts
<1>3. new \in S!Post /\ old \in S!Post
  BY <1>1 DEF S!Request
<1>4. doc[p] \in S!Post /\ doc[p].state = "there" /\ \A x \in S!ShelvesOf(doc[p]) : Begun(x)
  BY <1>1, <1>2 DEF S!TypeOK, S!Exists, ShelvesInv, OnBegun
<1>5. PICK d : d = S!Merge(doc[p], old, new)
  OBVIOUS
<1>6. /\ d \in S!Post /\ d.state = "there"
      /\ d.space = (IF new.space = old.space THEN doc[p].space ELSE new.space)
      /\ d.type = (IF new.type = old.type THEN doc[p].type ELSE new.type)
      /\ d.category = (IF new.category = old.category THEN doc[p].category ELSE new.category)
      /\ d.series = (IF new.series = old.series THEN doc[p].series ELSE new.series)
  <2>1. PICK e, c, m : e = doc[p] /\ c = old /\ m = new
    OBVIOUS
  <2>2. /\ e \in S!Post /\ c \in S!Post /\ m \in S!Post /\ d = S!Merge(e, c, m)
        /\ m.state = "there" /\ c.state = "there" /\ e.state = "there"
    BY <1>2, <1>3, <1>4, <1>5, <2>1
  <2>3. /\ d \in S!Post /\ d.state = "there"
        /\ d.space = (IF m.space = c.space THEN e.space ELSE m.space)
        /\ d.type = (IF m.type = c.type THEN e.type ELSE m.type)
        /\ d.category = (IF m.category = c.category THEN e.category ELSE m.category)
        /\ d.series = (IF m.series = c.series THEN e.series ELSE m.series)
    BY <2>2, Merging
  <2> QED BY <2>1, <2>3
<1>7. PICK two : two = S!Shifts(q)
  OBVIOUS
<1>8. PICK n : n = S!Shifting(q, two)
  OBVIOUS
<1> HIDE DEF only
<1>9. /\ \A x : x \in S!ShelvesOf(d) <=> (x = d.category \/ x = d.series) /\ x # None
      /\ \A x : x \in S!ShelvesOf(new) <=> (x = new.category \/ x = new.series) /\ x # None
      /\ \A x : x \in S!ShelvesOf(old) <=> (x = old.category \/ x = old.series) /\ x # None
      /\ \A x : x \in S!ShelvesOf(doc[p]) <=> (x = doc[p].category \/ x = doc[p].series) /\ x # None
  BY <1>3, <1>4, <1>6, ShelvesOfType
<1>10. \A x : x \in Joins(q) <=> x \in S!ShelvesOf(new) /\ x \notin S!ShelvesOf(old)
  BY DEF Joins
<1>11. \A x \in S!ShelvesOf(d) : x \in S!ShelvesOf(doc[p]) \/ x \in Joins(q)
  <2>1. new.category = old.series => new.category = None
    BY <1>3, Apartness
  <2>2. new.series = old.category => new.series = None
    BY <1>3, Apartness
  <2> QED BY <1>6, <1>9, <1>10, <2>1, <2>2
<1>12. \A x \in S!ShelvesOf(d) : Begun(x)
  BY <1>2, <1>4, <1>11
<1>13. \A x \in S!ShelvesOf(new) : Begun(x)
  BY <1>2, <1>10
<1>14. /\ n \in S!Request /\ Knows(n) /\ n.shifts = two /\ ~n.counted /\ n.pc \in {"idle", "shift"}
  <2>1. /\ two \in Seq(S!ShiftOf) /\ Apart(two)
        /\ \A k \in DOMAIN two : two[k].shelf \in S!ShelvesOf(new) \cup S!ShelvesOf(old)
    BY <1>1, <1>2, <1>7, SaveShifts
  <2>2. \A k \in DOMAIN two : Begun(two[k].shelf)
    BY <1>2, <1>13, <2>1
  <2> QED BY <1>8, <2>1, <2>2, ShiftingKnows
<1>15. ASSUME NEW x \in S!Shelves \ torn', shelf[x].state = "there"
       PROVE  Weight(n, x) - Weight(q, x) = Bit(Keeps(d, x)) - Bit(Keeps(doc[p], x))
  <2>1. Weight(n, x) = Bit(Has(two, x, 1)) - Bit(Has(two, x, -1))
    BY <1>14, ShiftWeight
  <2>2. Weight(q, x) = Bit(Unsaved(q, x))
    BY <1>2 DEF Weight, Shifting, Bit
  <2>3. Bit(Has(two, x, 1)) - Bit(Has(two, x, -1)) - Bit(Unsaved(q, x)) =
          Bit(x \in S!ShelvesOf(new)) - Bit(x \in S!ShelvesOf(old))
    BY <1>1, <1>2, <1>7, <1>15, SaveShifts
  <2>4. \A b : Bit(b) \in {0, 1}
    BY DEF Bit
  <2>5. (Keeps(d, x) <=> x \in S!ShelvesOf(d)) /\ (Keeps(doc[p], x) <=> x \in S!ShelvesOf(doc[p]))
    BY <1>4, <1>6 DEF Keeps
  <2>6. CASE S!ShelvesOf(doc[p]) = S!ShelvesOf(old)
    <3>1. doc[p].category = old.category /\ doc[p].series = old.series
      BY <1>3, <1>4, <2>6, Apartness
    <3>2. x \in S!ShelvesOf(d) <=> x \in S!ShelvesOf(new)
      BY <1>6, <1>9, <3>1
    <3>3. Bit(Keeps(d, x)) = Bit(x \in S!ShelvesOf(new))
      BY <2>5, <3>2 DEF Bit
    <3>4. Bit(Keeps(doc[p], x)) = Bit(x \in S!ShelvesOf(old))
      BY <2>5, <2>6 DEF Bit
    <3> HIDE DEF Weight
    <3> QED BY <2>1, <2>2, <2>3, <2>4, <3>3, <3>4
  <2>7. CASE S!ShelvesOf(doc[p]) # S!ShelvesOf(old)
    <3>1. x \notin S!ShelvesOf(doc[p]) /\ x \notin S!ShelvesOf(old) /\ x \notin S!ShelvesOf(new)
      BY <1>1, <1>15, <2>7 DEF S!TornBy
    <3>2. x \notin S!ShelvesOf(d)
      BY <1>10, <1>11, <3>1
    <3>3. Bit(x \in S!ShelvesOf(new)) = 0 /\ Bit(x \in S!ShelvesOf(old)) = 0
      BY <3>1 DEF Bit
    <3>4. Bit(Keeps(d, x)) = 0 /\ Bit(Keeps(doc[p], x)) = 0
      BY <2>5, <3>1, <3>2 DEF Bit
    <3> HIDE DEF Weight
    <3> QED BY <2>1, <2>2, <2>3, <2>4, <3>3, <3>4
  <2> QED BY <2>6, <2>7
<1>16. ASSUME NEW x, Keeps(d, x), ~Keeps(doc[p], x),
              shelf[x].state = "gone" \/ \E s \in Clients : Dropping(s, x)
       PROVE  x \in crossed'
  <2>1. x \in Joins(q)
    BY <1>4, <1>11, <1>16 DEF Keeps
  <2>2. CASE shelf[x].state = "gone"
    BY <1>1, <1>2, <2>1, <2>2 DEF Missed
  <2>3. CASE \E s \in Clients : Dropping(s, x)
    <3>1. x \in S!ShelvesOf(only)
      <4>1. only.category = (IF new.category = old.category THEN None ELSE new.category)
        BY <1>3 DEF only, S!Post
      <4>2. only.series = (IF new.series = old.series THEN None ELSE new.series)
        BY <1>3 DEF only, S!Post
      <4> QED BY <1>9, <1>10, <2>1, <4>1, <4>2 DEF S!ShelvesOf
    <3> QED BY <1>1, <2>3, <3>1 DEF Dropping, S!CrossedBy
  <2> QED BY <1>16, <2>2, <2>3
<1>17. crossed' \subseteq S!Shelves /\ crossed \subseteq crossed'
  <2>1. S!ShelvesOf(only) \subseteq S!Shelves
    <3>1. only.category \in S!Shelves \cup {None} /\ only.series \in S!Shelves \cup {None}
      BY <1>3 DEF only, S!Post, S!Shelves
    <3> QED BY <3>1 DEF S!ShelvesOf
  <2> QED BY <1>1, <2>1 DEF S!TypeOK, S!CrossedBy
<1>18. torn' \subseteq S!Shelves /\ torn \subseteq torn'
  <2>1. /\ S!ShelvesOf(doc[p]) \subseteq S!Shelves /\ S!ShelvesOf(old) \subseteq S!Shelves
        /\ S!ShelvesOf(new) \subseteq S!Shelves
    BY <1>3, <1>4, ShelvesOfType
  <2> QED BY <1>1, <2>1 DEF S!TypeOK, S!TornBy
<1>19. /\ stale' \subseteq Posts /\ moved' \subseteq Posts /\ stale \subseteq stale'
       /\ moved \subseteq moved'
  BY <1>1, <1>2 DEF S!TypeOK
<1>20. p \notin stale' => doc[p] = old /\ p \notin stale
  BY <1>1
<1>21. ASSUME p \notin stale' PROVE d.type \in S!ValidTypes[d.space]
  <2>1. doc[p].type \in S!ValidTypes[doc[p].space]
    BY <1>2, <1>20, <1>21 DEF ShelvesInv, S!PostsFitTheirSpace
  <2>2. d.type = new.type /\ d.space = new.space
    BY <1>6, <1>20, <1>21
  <2>3. CASE EditsPost(q)
    BY <2>2, <2>3 DEF EditsPost
  <2>4. CASE FilesPost(q)
    BY <1>20, <1>21, <2>1, <2>2, <2>4 DEF FilesPost
  <2> QED BY <1>2, <2>3, <2>4
<1>22. ASSUME p \notin stale' \cup moved', NEW x \in S!ShelvesOf(d) \ crossed'
       PROVE  shelf[x].space = d.space
  <2>1. d.space = new.space /\ p \notin moved
    BY <1>1, <1>6, <1>20, <1>22
  <2>2. CASE x \in Joins(q)
    BY <1>2, <2>1, <2>2
  <2>3. CASE x \in S!ShelvesOf(doc[p]) /\ x \notin Joins(q)
    <3>1. shelf[x].space = doc[p].space
      BY <1>2, <1>17, <1>20, <1>22, <2>1, <2>3 DEF ShelvesInv, S!PostsFitTheirSpace
    <3>2. x \in S!ShelvesOf(new)
      BY <1>6, <1>9, <1>20, <1>22
    <3>3. new.space = old.space
      BY <1>1, <1>22, <3>2
    <3> QED BY <1>20, <1>22, <2>1, <3>1, <3>3
  <2> QED BY <1>11, <1>22, <2>2, <2>3
<1>23. doc' = [doc EXCEPT ![p] = d] /\ S!Become(r, n)
  BY <1>1, <1>5, <1>7, <1>8
<1>24. q.pc # "dropSeries" /\ shelf' = shelf /\ p \in Posts
  BY <1>1, <1>2
<1> HIDE DEF Weight, Keeps, p, q, new, old
<1> USE DEF q
<1> QED BY <1>6, <1>12, <1>14, <1>15, <1>16, <1>17, <1>18, <1>19, <1>21, <1>22, <1>23, <1>24, PostStep

LEMMA DeletePostInv ==
  ASSUME S!Sensible, ShelvesInv, NEW r \in Clients, S!DeletePost(r), calls' \in 0 .. MaxCalls
  PROVE  ShelvesInv'
<1> DEFINE q == call[r]
           p == q.post
           old == q.copy
<1>1. /\ q \in S!Request /\ Knows(q) /\ q.pc = "delete" /\ S!TypeOK
      /\ doc' = [doc EXCEPT ![p] = S!Gone] /\ UNCHANGED <<shelf, moved, crossed>>
      /\ stale' = IF doc[p] = old THEN stale ELSE stale \cup {p}
      /\ torn' = torn \cup S!TornBy(p, old, old)
  BY DEF ShelvesInv, S!TypeOK, S!DeletePost, S!At
<1>2. PICK first \in {old.category, old.series} :
        S!Become(r, S!Shifting(q, S!Down(first) \o
          S!Down(IF first = old.category THEN old.series ELSE old.category)))
  BY DEF S!DeletePost
<1>3. PICK second : second = IF first = old.category THEN old.series ELSE old.category
  OBVIOUS
<1>4. /\ p \in Posts /\ doc[p].state # "unborn" /\ q.shifts = <<>> /\ ~q.counted
      /\ \A x \in S!ShelvesOf(old) : Begun(x)
  BY <1>1 DEF Knows, KnowsPost, KnowsShelves, KnowsShifts
<1>5. old \in S!Post /\ doc[p] \in S!Post
  BY <1>1, <1>4 DEF S!Request, S!TypeOK
<1>6. /\ first \in S!Shelves \cup {None} /\ second \in S!Shelves \cup {None}
      /\ first = second => first = None
      /\ None \notin S!Shelves
      /\ \A x : x \in S!ShelvesOf(old) <=> (x = first \/ x = second) /\ x # None
  BY <1>2, <1>3, <1>5, Apartness, ShelvesOfType
<1>7. PICK two : two = Step(first, -1) \o Step(second, -1)
  OBVIOUS
<1>8. PICK n : n = S!Shifting(q, two)
  OBVIOUS
<1>9. S!Become(r, n)
  BY <1>2, <1>3, <1>7, <1>8, StepsMean
<1>10. AreSteps(two, first, -1, second, -1)
  BY <1>6, <1>7, TwoSteps
<1>11. /\ n \in S!Request /\ Knows(n) /\ n.shifts = two /\ ~n.counted /\ n.pc \in {"idle", "shift"}
  <2>1. \A k \in DOMAIN two : Begun(two[k].shelf)
    BY <1>4, <1>6, <1>10 DEF AreSteps
  <2> QED BY <1>8, <1>10, <2>1, ShiftingKnows DEF AreSteps
<1>12. S!Gone \in S!Post /\ S!Gone.state = "gone" /\ S!ShelvesOf(S!Gone) = {}
  <2>1. S!Gone = [S!Unborn EXCEPT !.state = "gone"]
    BY DEF S!Gone
  <2>2. S!Unborn \in S!Post /\ S!Unborn.category = None /\ S!Unborn.series = None
    BY IdleIsRequest DEF S!Unborn
  <2>3. S!Gone \in S!Post /\ S!Gone.state = "gone" /\ S!Gone.category = None /\ S!Gone.series = None
    BY <2>1, <2>2 DEF S!Post
  <2> QED BY <2>3 DEF S!ShelvesOf
<1>13. PICK d : d = S!Gone
  OBVIOUS
<1>14. ASSUME NEW x \in S!Shelves \ torn'
       PROVE  Weight(n, x) - Weight(q, x) = Bit(Keeps(d, x)) - Bit(Keeps(doc[p], x))
  <2>1. Weight(q, x) = 0
    BY <1>4, NoWeight
  <2>2. Weight(n, x) = Bit(Has(two, x, 1)) - Bit(Has(two, x, -1))
    BY <1>11, ShiftWeight
  <2>3. ~Has(two, x, 1) /\ (Has(two, x, -1) <=> x \in S!ShelvesOf(old))
    BY <1>6, <1>10 DEF AreSteps
  <2>4. ~Keeps(d, x)
    BY <1>12, <1>13 DEF Keeps
  <2>5. x \in S!ShelvesOf(old) <=> x \in S!ShelvesOf(doc[p])
    BY <1>1 DEF S!TornBy
  <2>6. Keeps(doc[p], x) <=> x \in S!ShelvesOf(doc[p])
    BY <1>4 DEF Keeps, ShelvesInv, OnBegun, S!Exists
  <2> QED BY <2>1, <2>2, <2>3, <2>4, <2>5, <2>6 DEF Bit
<1>15. torn' \subseteq S!Shelves /\ torn \subseteq torn'
  <2>1. S!ShelvesOf(doc[p]) \subseteq S!Shelves /\ S!ShelvesOf(old) \subseteq S!Shelves
    BY <1>5, ShelvesOfType
  <2> QED BY <1>1, <2>1 DEF S!TypeOK, S!TornBy
<1>16. /\ stale' \subseteq Posts /\ moved' \subseteq Posts /\ crossed' \subseteq S!Shelves
       /\ stale \subseteq stale' /\ moved \subseteq moved' /\ crossed \subseteq crossed'
       /\ q.pc # "dropSeries" /\ shelf' = shelf
  BY <1>1, <1>4 DEF S!TypeOK
<1>17. /\ d \in S!Post /\ d.state = "gone" /\ S!ShelvesOf(d) = {} /\ \A x : ~Keeps(d, x)
       /\ doc' = [doc EXCEPT ![p] = d]
  BY <1>1, <1>12, <1>13 DEF Keeps
<1> HIDE DEF Weight, Keeps, p, old
<1> USE DEF p
<1> QED BY <1>4, <1>9, <1>11, <1>14, <1>15, <1>16, <1>17, PostStep

\* A count is shifted, and owed so much less.
LEMMA CountStep ==
  ASSUME S!Sensible, ShelvesInv, NEW r \in Clients, NEW q \in S!Request, S!Become(r, q),
         Knows(q), call[r].pc # "dropSeries", q.pc \in {"idle", "shift", "save"},
         NEW y \in S!Shelves, NEW by \in {1, -1}, shelf' = S!Counted(y, by),
         UNCHANGED <<doc, stale, moved, torn, crossed>>, calls' \in 0 .. MaxCalls,
         \A x \in S!Shelves : Weight(call[r], x) - Weight(q, x) = IF x = y THEN by ELSE 0
  PROVE  ShelvesInv'
<1>1. /\ S!TypeOK /\ (\A s \in Clients : Knows(call[s])) /\ OnBegun /\ DropsEmpty
      /\ S!CountsAgree /\ S!NoPostOnMissingShelf /\ S!PostsFitTheirSpace
  BY DEF ShelvesInv
<1>2. /\ shelf' \in [S!Shelves -> S!Shelf]
      /\ \A x \in S!Shelves : shelf'[x].state = shelf[x].state /\ shelf'[x].space = shelf[x].space
      /\ \A x \in S!Shelves : x # y => shelf'[x].count = shelf[x].count
      /\ shelf[y].state = "there" => shelf'[y].count = shelf[y].count + by
  BY <1>1 DEF S!Counted, S!TypeOK, S!Shelf
<1>3. ShelvesGrow
  BY <1>2 DEF ShelvesGrow, Begun, Missed
<1>4. Knows(q)'
  <2>1. q.copy \in S!Post /\ q.new \in S!Post /\ q.shifts \in Seq(S!ShiftOf)
    BY DEF S!Request
  <2>2. S!ShelvesOf(q.copy) \subseteq S!Shelves /\ S!ShelvesOf(q.new) \subseteq S!Shelves
    BY <2>1, ShelvesOfType
  <2>3. KnowsPost(q)'
    <3>1. q.copy.series # None => q.copy.series \in S!Shelves
      BY <2>1 DEF S!Post, S!Shelves
    <3> QED BY <1>2, <3>1 DEF Knows, KnowsPost, EditsPost, FilesPost
  <2>4. KnowsShelves(q)'
    BY <1>2, <2>2 DEF Knows, KnowsShelves, Joins, Begun, Missed
  <2>5. KnowsShifts(q)'
    BY <1>2, <2>1, ShiftsOfType DEF Knows, KnowsShifts, Begun
  <2> QED BY <2>3, <2>4, <2>5 DEF Knows
<1>5. call' \in [Clients -> S!Request] /\ \A s \in Clients : Knows(call[s])'
  BY <1>3, <1>4, AllKnow
<1>6. S!TypeOK'
  BY <1>1, <1>2, <1>5 DEF S!TypeOK
<1>7. \A p \in Posts : S!ShelvesOf(doc[p]) \subseteq S!Shelves
  BY <1>1, ShelvesOfType DEF S!TypeOK
<1>8. OnBegun' /\ S!NoPostOnMissingShelf' /\ S!PostsFitTheirSpace'
  BY <1>1, <1>2, <1>7 DEF OnBegun, Begun, S!NoPostOnMissingShelf, S!PostsFitTheirSpace, S!Exists
<1>9. \A s \in Clients : \A x : Dropping(s, x)' => s # r /\ Dropping(s, x)
  BY <1>1, DropsLast
<1>10. DropsEmpty'
  BY <1>1, <1>9 DEF DropsEmpty, Dropping, S!Exists
<1>11. S!CountsAgree'
  <2> SUFFICES ASSUME NEW x \in S!Shelves \ torn, Settled(x)'
               PROVE  shelf'[x].count + S!Owed(x)' = Cardinality(S!Members(x)')
    BY CountsMean DEF Agrees
  <2>1. call'[r] = q /\ \A s \in Clients : s # r => call'[s] = call[s]
    BY <1>1 DEF S!Become, S!TypeOK
  <2>2. Settled(x)
    BY <1>2, <2>1 DEF Settled, S!At
  <2>3. shelf[x].count + S!Owed(x) = Cardinality(S!Members(x))
    BY <1>1, <2>2, CountsMean DEF Agrees
  <2>4. S!Owed(x) \in Int /\ S!Owed(x)' = S!Owed(x) + Weight(q, x) - Weight(call[r], x)
    BY <1>1, Owing
  <2>5. Weight(call[r], x) - Weight(q, x) = IF x = y THEN by ELSE 0
    OBVIOUS
  <2>6. shelf'[x].count = shelf[x].count + IF x = y THEN by ELSE 0
    BY <1>1, <1>2, <2>2 DEF Settled, S!TypeOK, S!Shelf
  <2>7. Weight(q, x) \in Int /\ Weight(call[r], x) \in Int /\ shelf[x].count \in Int
    BY <1>1 DEF Weight, Bit, S!TypeOK, S!Shelf
  <2>8. S!Members(x)' = S!Members(x)
    BY DEF S!Members, S!Exists
  <2> HIDE DEF Weight
  <2> QED BY <2>3, <2>4, <2>5, <2>6, <2>7, <2>8
<1> QED BY <1>5, <1>6, <1>8, <1>10, <1>11 DEF ShelvesInv

\* The first of the shifts is made, and the others are left.
LEMMA ShiftsLeft ==
  ASSUME NEW shifts \in Seq(S!ShiftOf), shifts # <<>>, Apart(shifts), NEW x,
         NEW by \in {1, -1}
  PROVE  /\ Tail(shifts) \in Seq(S!ShiftOf) /\ Apart(Tail(shifts))
         /\ \A i \in DOMAIN Tail(shifts) : i + 1 \in DOMAIN shifts /\ Tail(shifts)[i] = shifts[i + 1]
         /\ 1 \in DOMAIN shifts
         /\ Bit(Has(shifts, x, by)) = Bit(Has(Tail(shifts), x, by))
                                        + Bit(shifts[1] = [shelf |-> x, by |-> by])
<1>1. PICK n \in Nat : n = Len(shifts)
  OBVIOUS
<1>2. n # 0
  BY <1>1
<1>3. DOMAIN shifts = 1 .. n
  BY <1>1
<1>4. PICK rest : rest = Tail(shifts)
  OBVIOUS
<1>5. rest \in Seq(S!ShiftOf) /\ Len(rest) = n - 1
  BY <1>1, <1>2, <1>4
<1>6. DOMAIN rest = 1 .. n - 1 /\ \A i \in DOMAIN rest : rest[i] = shifts[i + 1]
  BY <1>1, <1>2, <1>4, <1>5
<1>7. Apart(rest)
  BY <1>3, <1>6 DEF Apart
<1>8. PICK s : s = [shelf |-> x, by |-> by]
  OBVIOUS
<1>9. Has(shifts, x, by) <=> shifts[1] = s \/ Has(rest, x, by)
  <2>1. ASSUME NEW i \in DOMAIN shifts, shifts[i] = s, i # 1 PROVE Has(rest, x, by)
    <3>1. i - 1 \in DOMAIN rest /\ rest[i - 1] = s
      BY <1>3, <1>6, <2>1
    <3> QED BY <1>8, <3>1 DEF Has
  <2>2. ASSUME NEW i \in DOMAIN rest, rest[i] = s PROVE Has(shifts, x, by)
    <3>1. i + 1 \in DOMAIN shifts /\ shifts[i + 1] = s
      BY <1>3, <1>6, <2>2
    <3> QED BY <1>8, <3>1 DEF Has
  <2>3. 1 \in DOMAIN shifts
    BY <1>2, <1>3
  <2> QED BY <1>8, <2>1, <2>2, <2>3 DEF Has
<1>10. ~(shifts[1] = s /\ Has(rest, x, by))
  <2> SUFFICES ASSUME NEW i \in DOMAIN rest, rest[i] = s, shifts[1] = s PROVE FALSE
    BY <1>8 DEF Has
  <2>1. i + 1 \in DOMAIN shifts /\ shifts[i + 1] = shifts[1] /\ i + 1 # 1 /\ 1 \in DOMAIN shifts
    BY <1>2, <1>3, <1>6
  <2> QED BY <2>1 DEF Apart
<1>11. Bit(Has(shifts, x, by)) = Bit(Has(rest, x, by)) + Bit(shifts[1] = s)
  BY <1>9, <1>10 DEF Bit
<1> QED BY <1>2, <1>3, <1>4, <1>5, <1>6, <1>7, <1>8, <1>11

LEMMA ShiftCountInv ==
  ASSUME S!Sensible, ShelvesInv, NEW r \in Clients, S!ShiftCount(r), calls' \in 0 .. MaxCalls
  PROVE  ShelvesInv'
<1> DEFINE q == call[r]
           s == Head(q.shifts)
<1>1. /\ q \in S!Request /\ Knows(q) /\ q.pc = "shift" /\ shelf' = S!Counted(s.shelf, s.by)
      /\ S!Become(r, S!Shifting(q, Tail(q.shifts)))
      /\ UNCHANGED <<doc, stale, moved, torn, crossed>>
  BY DEF ShelvesInv, S!TypeOK, S!ShiftCount, S!At
<1>2. /\ q.shifts \in Seq(S!ShiftOf) /\ q.shifts # <<>> /\ Apart(q.shifts) /\ ~q.counted
      /\ \A i \in DOMAIN q.shifts : Begun(q.shifts[i].shelf)
  BY <1>1 DEF Knows, KnowsPost, KnowsShifts, Apart, S!Request
<1>3. PICK rest, n : rest = Tail(q.shifts) /\ n = S!Shifting(q, rest)
  OBVIOUS
<1>4. /\ rest \in Seq(S!ShiftOf) /\ Apart(rest) /\ 1 \in DOMAIN q.shifts
      /\ \A i \in DOMAIN rest : i + 1 \in DOMAIN q.shifts /\ rest[i] = q.shifts[i + 1]
  BY <1>2, <1>3, ShiftsLeft
<1>5. s = q.shifts[1] /\ s.shelf \in S!Shelves /\ s.by \in {1, -1} /\ s \in S!ShiftOf
  <2>1. s = q.shifts[1] /\ s \in S!ShiftOf
    BY <1>2, <1>4
  <2> QED BY <2>1 DEF S!ShiftOf
<1>6. \A i \in DOMAIN rest : Begun(rest[i].shelf)
  BY <1>2, <1>4
<1>7. /\ n \in S!Request /\ Knows(n) /\ n.shifts = rest /\ ~n.counted /\ n.pc \in {"idle", "shift"}
  BY <1>3, <1>4, <1>6, ShiftingKnows
<1>8. ASSUME NEW x \in S!Shelves
      PROVE  Weight(q, x) - Weight(n, x) = IF x = s.shelf THEN s.by ELSE 0
  <2>1. /\ Weight(q, x) = Bit(Has(q.shifts, x, 1)) - Bit(Has(q.shifts, x, -1))
        /\ Weight(n, x) = Bit(Has(rest, x, 1)) - Bit(Has(rest, x, -1))
    BY <1>2, <1>7, ShiftWeight
  <2>2. /\ Bit(Has(q.shifts, x, 1)) = Bit(Has(rest, x, 1)) + Bit(s = [shelf |-> x, by |-> 1])
        /\ Bit(Has(q.shifts, x, -1)) = Bit(Has(rest, x, -1)) + Bit(s = [shelf |-> x, by |-> -1])
    BY <1>2, <1>3, <1>5, ShiftsLeft
  <2>3. \A by \in {1, -1} : s = [shelf |-> x, by |-> by] <=> s.shelf = x /\ s.by = by
    BY <1>5 DEF S!ShiftOf
  <2>4. \A b : Bit(b) \in {0, 1}
    BY DEF Bit
  <2>5. Bit(s = [shelf |-> x, by |-> 1]) - Bit(s = [shelf |-> x, by |-> -1])
          = IF x = s.shelf THEN s.by ELSE 0
    <3> HIDE DEF s
    <3> QED BY <1>5, <2>3 DEF Bit
  <2> HIDE DEF Weight
  <2> QED BY <2>1, <2>2, <2>4, <2>5
<1>9. PICK y, by : y = s.shelf /\ by = s.by
  OBVIOUS
<1>10. S!Become(r, n) /\ shelf' = S!Counted(y, by) /\ y \in S!Shelves /\ by \in {1, -1}
  BY <1>1, <1>3, <1>5, <1>9
<1>11. \A x \in S!Shelves : Weight(call[r], x) - Weight(n, x) = IF x = y THEN by ELSE 0
  BY <1>8, <1>9
<1>12. call[r].pc # "dropSeries" /\ n.pc \in {"idle", "shift", "save"}
  BY <1>1, <1>7
<1> HIDE DEF Weight
<1> QED BY <1>1, <1>7, <1>10, <1>11, <1>12, CountStep

LEMMA UncountInv ==
  ASSUME S!Sensible, ShelvesInv, NEW r \in Clients, S!Uncount(r), calls' \in 0 .. MaxCalls
  PROVE  ShelvesInv'
<1> DEFINE q == call[r]
           y == q.copy.series
<1>1. /\ q \in S!Request /\ Knows(q) /\ q.pc = "uncount" /\ shelf' = S!Counted(y, -1)
      /\ UNCHANGED <<doc, stale, moved, torn, crossed>>
  BY DEF ShelvesInv, S!TypeOK, S!Uncount, S!At
<1>2. PICK n : n = [q EXCEPT !.pc = "save", !.counted = TRUE]
  OBVIOUS
<1>3. /\ n \in S!Request /\ n.pc = "save" /\ n.counted /\ n.post = q.post /\ n.copy = q.copy
      /\ n.new = q.new /\ n.shifts = q.shifts
  BY <1>1, <1>2 DEF S!Request, S!PCs
<1>4. S!Become(r, n)
  BY <1>2 DEF S!Uncount
<1>5. /\ q.copy.state = "there" /\ q.post \in Posts /\ doc[q.post].state # "unborn" /\ y # None
      /\ q.new = [q.copy EXCEPT !.series = None, !.order = S!NoOrder]
      /\ q.shifts = <<>> /\ ~q.counted /\ \A x \in S!ShelvesOf(q.copy) : Begun(x)
  BY <1>1 DEF Knows, KnowsPost, KnowsShelves, KnowsShifts
<1>6. q.copy \in S!Post /\ y \in S!Shelves
  BY <1>1, <1>5 DEF S!Request, S!Post, S!Shelves
<1>7. /\ q.new.state = "there" /\ q.new.space = q.copy.space /\ q.new.type = q.copy.type
      /\ q.new.category = q.copy.category /\ q.new.series = None
  BY <1>5, <1>6 DEF S!Post
<1> HIDE DEF q
<1>8. FilesPost(n)
  BY <1>3, <1>5, <1>7 DEF FilesPost
<1>9. KnowsPost(n)
  BY <1>3, <1>5, <1>7, <1>8 DEF KnowsPost
<1>10. Joins(n) = {}
  BY <1>3, <1>7 DEF Joins, S!ShelvesOf
<1>11. KnowsShelves(n) /\ KnowsShifts(n)
  BY <1>3, <1>5, <1>10 DEF KnowsShelves, KnowsShifts
<1>12. ASSUME NEW x \in S!Shelves
       PROVE  Weight(q, x) - Weight(n, x) = IF x = y THEN -1 ELSE 0
  <2>1. Weight(q, x) = 0
    BY <1>5, NoWeight
  <2>2. Weight(n, x) = Bit(x = y)
    BY <1>3, <1>5 DEF Weight, Shifting, Unsaved, Bit
  <2> QED BY <2>1, <2>2 DEF Bit
<1>13. PICK by : by = -1
  OBVIOUS
<1>14. /\ by \in {1, -1} /\ shelf' = S!Counted(y, by) /\ n.pc \in {"idle", "shift", "save"} /\ Knows(n)
       /\ call[r].pc # "dropSeries"
       /\ \A x \in S!Shelves : Weight(call[r], x) - Weight(n, x) = IF x = y THEN by ELSE 0
  BY <1>1, <1>3, <1>9, <1>11, <1>12, <1>13 DEF Knows, q
<1> HIDE DEF Weight, y
<1> QED BY <1>1, <1>3, <1>4, <1>6, <1>14, CountStep

-----------------------------------------------------------------------------
(* Steps that delete and make shelves                                      *)

LEMMA UnlinkInv ==
  ASSUME S!Sensible, ShelvesInv, NEW r \in Clients, S!Unlink(r), calls' \in 0 .. MaxCalls
  PROVE  ShelvesInv'
<1> DEFINE q == call[r]
           y == q.shelf
<1>1. /\ S!TypeOK /\ (\A s \in Clients : Knows(call[s])) /\ OnBegun /\ DropsEmpty
      /\ S!CountsAgree /\ S!NoPostOnMissingShelf /\ S!PostsFitTheirSpace
  BY DEF ShelvesInv
<1>2. /\ q \in S!Request /\ Knows(q) /\ q.pc = "unlink"
      /\ doc' = [p \in Posts |-> S!Unlinked(doc[p], y)]
      /\ UNCHANGED <<shelf, stale, moved, torn, crossed>>
  BY <1>1 DEF S!TypeOK, S!Unlink, S!At
<1>3. PICK n : n = [q EXCEPT !.pc = "dropSeries"]
  OBVIOUS
<1>4. /\ n \in S!Request /\ n.pc = "dropSeries" /\ n.shelf = y /\ n.copy = q.copy /\ n.post = q.post
      /\ n.shifts = q.shifts /\ n.counted = q.counted
  BY <1>2, <1>3 DEF S!Request, S!PCs
<1>5. S!Become(r, n)
  BY <1>3 DEF S!Unlink
<1>6. /\ y \in SeriesIds /\ y \in S!Shelves /\ y # None /\ Begun(y) /\ q.shifts = <<>> /\ ~q.counted
  BY <1>2 DEF Knows, KnowsPost, KnowsShelves, KnowsShifts, S!Sensible, S!Shelves
<1>7. ASSUME NEW p \in Posts
      PROVE  /\ doc'[p] \in S!Post /\ doc'[p].state = doc[p].state /\ doc'[p].space = doc[p].space
             /\ doc'[p].type = doc[p].type
             /\ S!ShelvesOf(doc'[p]) = S!ShelvesOf(doc[p]) \ {y}
  <2>1. PICK d : d = doc[p]
    OBVIOUS
  <2>2. d \in S!Post /\ doc'[p] = S!Unlinked(d, y)
    BY <1>1, <1>2, <2>1 DEF S!TypeOK
  <2>3. d.category # y
    BY <1>6, <2>2 DEF S!Post, S!Sensible
  <2>4. CASE d.series = y
    <3>1. PICK e : e = [d EXCEPT !.series = None, !.order = S!NoOrder]
      OBVIOUS
    <3>2. /\ e \in S!Post /\ e.state = d.state /\ e.space = d.space /\ e.type = d.type
          /\ e.category = d.category /\ e.series = None
      <4>1. S!NoOrder \in Int
        BY DEF S!NoOrder
      <4> QED BY <2>2, <3>1, <4>1 DEF S!Post
    <3>3. doc'[p] = e
      BY <2>2, <2>4, <3>1 DEF S!Unlinked
    <3>4. S!ShelvesOf(e) = S!ShelvesOf(d) \ {y}
      BY <1>6, <2>3, <2>4, <3>2 DEF S!ShelvesOf
    <3> QED BY <2>1, <3>2, <3>3, <3>4
  <2>5. CASE d.series # y
    BY <2>1, <2>2, <2>3, <2>5 DEF S!Unlinked, S!ShelvesOf
  <2> QED BY <2>4, <2>5
<1>8. ShelvesGrow
  BY <1>2, <1>7 DEF ShelvesGrow, Begun, Missed
<1>9. Knows(n)'
  <2>1. KnowsPost(n)'
    BY <1>2, <1>4, <1>6, <1>7 DEF Knows, KnowsPost
  <2>2. KnowsShelves(n)'
    BY <1>2, <1>4, <1>6 DEF Knows, KnowsShelves, Begun
  <2>3. KnowsShifts(n)'
    BY <1>4, <1>6 DEF KnowsShifts
  <2> QED BY <2>1, <2>2, <2>3 DEF Knows
<1>10. call' \in [Clients -> S!Request] /\ \A s \in Clients : Knows(call[s])'
  BY <1>4, <1>5, <1>8, <1>9, AllKnow
<1>11. S!TypeOK'
  BY <1>1, <1>2, <1>7, <1>10 DEF S!TypeOK
<1>12. call'[r] = n /\ \A s \in Clients : s # r => call'[s] = call[s]
  BY <1>1, <1>5 DEF S!Become, S!TypeOK
<1>13. OnBegun' /\ S!NoPostOnMissingShelf' /\ S!PostsFitTheirSpace'
  <2>1. OnBegun'
    BY <1>1, <1>2, <1>7 DEF OnBegun, Begun, S!Exists
  <2>2. S!NoPostOnMissingShelf'
    BY <1>1, <1>2, <1>7 DEF S!NoPostOnMissingShelf, S!Exists
  <2>3. S!PostsFitTheirSpace'
    BY <1>1, <1>2, <1>7 DEF S!PostsFitTheirSpace, S!Exists
  <2> QED BY <2>1, <2>2, <2>3
<1>14. DropsEmpty'
  BY <1>1, <1>2, <1>4, <1>7, <1>12 DEF DropsEmpty, S!Exists
<1>15. S!CountsAgree'
  <2> SUFFICES ASSUME NEW x \in S!Shelves \ torn, Settled(x)'
               PROVE  shelf'[x].count + S!Owed(x)' = Cardinality(S!Members(x)')
    BY <1>2, CountsMean DEF Agrees
  <2>1. x # y /\ Settled(x)
    BY <1>2, <1>4, <1>12 DEF Settled, S!At
  <2>2. shelf[x].count + S!Owed(x) = Cardinality(S!Members(x))
    BY <1>1, <2>1, CountsMean DEF Agrees
  <2>3. S!Owed(x) \in Int /\ S!Owed(x)' = S!Owed(x) + Weight(n, x) - Weight(q, x)
    BY <1>1, <1>5, Owing
  <2>4. Weight(n, x) = 0 /\ Weight(q, x) = 0
    BY <1>4, <1>6, NoWeight
  <2>5. S!Members(x)' = S!Members(x)
    BY <1>7, <2>1 DEF S!Members, S!Exists
  <2> HIDE DEF Weight
  <2> QED BY <1>2, <2>2, <2>3, <2>4, <2>5
<1> QED BY <1>10, <1>11, <1>13, <1>14, <1>15 DEF ShelvesInv

\* What both deletions of a shelf do at their end.
LEMMA DroppedInv ==
  ASSUME S!Sensible, ShelvesInv, NEW r \in Clients, NEW y, y = call[r].shelf,
         call[r].pc \in {"dropCategory", "dropSeries"}, S!Dropped(y), S!Become(r, S!Idle),
         UNCHANGED <<doc, stale, moved, torn>>, calls' \in 0 .. MaxCalls
  PROVE  ShelvesInv'
<1>1. /\ S!TypeOK /\ (\A s \in Clients : Knows(call[s])) /\ OnBegun /\ DropsEmpty
      /\ S!CountsAgree /\ S!NoPostOnMissingShelf /\ S!PostsFitTheirSpace
  BY DEF ShelvesInv
<1>2. /\ y \in S!Shelves /\ Begun(y) /\ call[r].shifts = <<>> /\ ~call[r].counted
  BY <1>1 DEF Knows, KnowsPost, KnowsShelves, KnowsShifts, S!Shelves
<1>3. /\ shelf' \in [S!Shelves -> S!Shelf] /\ shelf'[y].state = "gone"
      /\ \A x \in S!Shelves : shelf'[x].space = shelf[x].space
      /\ \A x \in S!Shelves : x # y => shelf'[x] = shelf[x]
  BY <1>1, <1>2 DEF S!Dropped, S!TypeOK, S!Shelf
<1>4. /\ crossed \subseteq crossed' /\ crossed' \subseteq S!Shelves
      /\ S!Filing(y) => y \in crossed'
      /\ crossed' \subseteq crossed \cup {y}
  BY <1>1, <1>2 DEF S!Dropped, S!TypeOK
<1>5. PICK q : q = S!Idle
  OBVIOUS
<1>6. /\ S!Become(r, q) /\ q \in S!Request /\ q.pc = "idle" /\ q.shifts = <<>> /\ ~q.counted
      /\ q.copy = S!Unborn
  <2>1. S!Become(r, q) /\ q \in S!Request
    BY <1>5, IdleIsRequest
  <2>2. q.pc = "idle" /\ q.shifts = <<>> /\ ~q.counted /\ q.copy = S!Unborn
    BY <1>5 DEF S!Idle
  <2> QED BY <2>1, <2>2
<1>7. ShelvesGrow
  BY <1>3, <1>4 DEF ShelvesGrow, Begun, Missed
<1>8. Knows(q)'
  BY <1>6, IdleIsRequest DEF Knows, KnowsPost, KnowsShelves, KnowsShifts, S!Unborn
<1>9. call' \in [Clients -> S!Request] /\ \A s \in Clients : Knows(call[s])'
  BY <1>6, <1>7, <1>8, AllKnow
<1>10. S!TypeOK'
  BY <1>1, <1>3, <1>4, <1>9 DEF S!TypeOK
<1>11. \A p \in Posts : S!ShelvesOf(doc[p]) \subseteq S!Shelves
  BY <1>1, ShelvesOfType DEF S!TypeOK
<1>12. OnBegun' /\ S!PostsFitTheirSpace'
  BY <1>1, <1>3, <1>4, <1>11 DEF OnBegun, Begun, S!PostsFitTheirSpace, S!Exists
<1>13. \A p \in Posts : S!Exists(p) /\ y \in S!ShelvesOf(doc[p]) => y \in crossed
  BY <1>1 DEF DropsEmpty
<1>14. S!NoPostOnMissingShelf'
  BY <1>1, <1>3, <1>4, <1>11, <1>13 DEF S!NoPostOnMissingShelf, S!Exists
<1>15. \A s \in Clients : \A x : Dropping(s, x)' => s # r /\ Dropping(s, x)
  BY <1>1, <1>6, DropsLast
<1>16. DropsEmpty'
  BY <1>1, <1>4, <1>15 DEF DropsEmpty, Dropping, S!Exists
<1>17. S!CountsAgree'
  <2> SUFFICES ASSUME NEW x \in S!Shelves \ torn, Settled(x)'
               PROVE  shelf'[x].count + S!Owed(x)' = Cardinality(S!Members(x)')
    BY CountsMean DEF Agrees
  <2>1. call'[r] = q /\ \A s \in Clients : s # r => call'[s] = call[s]
    BY <1>1, <1>6 DEF S!Become, S!TypeOK
  <2>2. x # y
    BY <1>3 DEF Settled
  <2>3. Settled(x)
    BY <1>3, <2>1, <2>2 DEF Settled, S!At
  <2>4. shelf[x].count + S!Owed(x) = Cardinality(S!Members(x))
    BY <1>1, <2>3, CountsMean DEF Agrees
  <2>5. S!Owed(x) \in Int /\ S!Owed(x)' = S!Owed(x) + Weight(q, x) - Weight(call[r], x)
    BY <1>1, <1>6, Owing
  <2>6. Weight(q, x) = 0 /\ Weight(call[r], x) = 0
    BY <1>2, <1>6, NoWeight
  <2>7. S!Members(x)' = S!Members(x)
    BY DEF S!Members, S!Exists
  <2> HIDE DEF Weight
  <2> QED BY <1>3, <2>2, <2>4, <2>5, <2>6, <2>7
<1> QED BY <1>9, <1>10, <1>12, <1>14, <1>16, <1>17 DEF ShelvesInv

LEMMA DropInv ==
  ASSUME S!Sensible, ShelvesInv, NEW r \in Clients, S!DropCategory(r) \/ S!DropSeries(r),
         calls' \in 0 .. MaxCalls
  PROVE  ShelvesInv'
<1>1. PICK y : y = call[r].shelf
  OBVIOUS
<1>2. /\ call[r].pc \in {"dropCategory", "dropSeries"} /\ S!Dropped(y) /\ S!Become(r, S!Idle)
      /\ UNCHANGED <<doc, stale, moved, torn>>
  BY <1>1 DEF S!DropCategory, S!DropSeries, S!At
<1> QED BY <1>1, <1>2, DroppedInv

\* Nothing is owed to a shelf that was not made yet, and no post is on it.
LEMMA CreateShelfInv ==
  ASSUME S!Sensible, ShelvesInv, NEW y \in S!Shelves, NEW sp \in S!Spaces, S!CreateShelf(y, sp),
         calls' \in 0 .. MaxCalls
  PROVE  ShelvesInv'
<1>1. /\ S!TypeOK /\ (\A s \in Clients : Knows(call[s])) /\ OnBegun /\ DropsEmpty
      /\ S!CountsAgree /\ S!NoPostOnMissingShelf /\ S!PostsFitTheirSpace
  BY DEF ShelvesInv
<1>2. /\ ~Begun(y) /\ shelf' = [shelf EXCEPT ![y] = [state |-> "there", space |-> sp, count |-> 0]]
      /\ UNCHANGED <<doc, call, stale, moved, torn, crossed>>
  BY DEF S!CreateShelf, Begun
<1>3. /\ shelf' \in [S!Shelves -> S!Shelf] /\ shelf'[y].state = "there" /\ shelf'[y].count = 0
      /\ \A x \in S!Shelves : x # y => shelf'[x] = shelf[x]
  BY <1>1, <1>2 DEF S!TypeOK, S!Shelf
<1>4. ShelvesGrow
  BY <1>2, <1>3 DEF ShelvesGrow, Begun, Missed
<1>5. ASSUME NEW s \in Clients PROVE Knows(call[s])'
  <2>1. PICK q : q = call[s]
    OBVIOUS
  <2>2. Knows(q)'
    BY <1>1, <1>4, <2>1, KnowsLasts
  <2>3. call'[s] = q
    BY <1>2, <2>1
  <2> QED BY <2>2, <2>3 DEF Knows, KnowsPost, KnowsShelves, KnowsShifts, EditsPost, FilesPost, Joins
<1>6. S!TypeOK'
  BY <1>1, <1>2, <1>3 DEF S!TypeOK
<1>7. \A p \in Posts : S!ShelvesOf(doc[p]) \subseteq S!Shelves /\ y \notin S!ShelvesOf(doc[p])
  BY <1>1, <1>2, ShelvesOfType DEF S!TypeOK, OnBegun
<1>8. OnBegun' /\ DropsEmpty' /\ S!NoPostOnMissingShelf' /\ S!PostsFitTheirSpace'
  <2>1. OnBegun'
    BY <1>1, <1>2, <1>3, <1>7 DEF OnBegun, Begun, S!Exists
  <2>2. DropsEmpty'
    BY <1>1, <1>2 DEF DropsEmpty, S!Exists
  <2>3. S!NoPostOnMissingShelf'
    BY <1>1, <1>2, <1>3, <1>7 DEF S!NoPostOnMissingShelf, S!Exists
  <2>4. S!PostsFitTheirSpace'
    BY <1>1, <1>2, <1>3, <1>7 DEF S!PostsFitTheirSpace, S!Exists
  <2> QED BY <2>1, <2>2, <2>3, <2>4
<1>9. S!CountsAgree'
  <2> SUFFICES ASSUME NEW x \in S!Shelves \ torn, Settled(x)'
               PROVE  shelf'[x].count + S!Owed(x)' = Cardinality(S!Members(x)')
    BY <1>2, CountsMean DEF Agrees
  <2>1. S!Owed(x)' = S!Owed(x)
    BY <1>2 DEF S!Owed
  <2>2. S!Members(x)' = S!Members(x)
    BY <1>2 DEF S!Members, S!Exists
  <2>3. CASE x # y
    <3>1. Settled(x)
      BY <1>2, <1>3, <2>3 DEF Settled, S!At
    <3>2. shelf[x].count + S!Owed(x) = Cardinality(S!Members(x))
      BY <1>1, <1>2, <3>1, CountsMean DEF Agrees
    <3> QED BY <1>3, <2>1, <2>2, <2>3, <3>2
  <2>4. CASE x = y
    <3>1. ASSUME NEW s \in Clients, NEW by PROVE ~Shifting(call[s], y, by)
      <4>1. \A i \in DOMAIN call[s].shifts : Begun(call[s].shifts[i].shelf)
        BY <1>1 DEF Knows, KnowsShifts
      <4> QED BY <1>2, <4>1 DEF Shifting
    <3>2. ASSUME NEW s \in Clients PROVE ~Unsaved(call[s], y)
      <4>1. call[s].counted => Begun(call[s].copy.series)
        BY <1>1 DEF Knows, KnowsPost, KnowsShelves, S!ShelvesOf
      <4> QED BY <1>2, <4>1 DEF Unsaved
    <3>3. /\ {s \in Clients : Shifting(call[s], y, 1)} = {}
          /\ {s \in Clients : Shifting(call[s], y, -1)} = {}
          /\ {s \in Clients : Unsaved(call[s], y)} = {}
      BY <3>1, <3>2
    <3>4. S!Owed(y) = Cardinality({}) - Cardinality({}) + Cardinality({})
      BY <3>3, ShelvesOperators DEF S!Owed, Shifting, Unsaved
    <3>5. S!Members(y) = {}
      BY <1>7 DEF S!Members
    <3>6. Cardinality({}) = 0
      BY FS_EmptySet
    <3> QED BY <1>3, <2>1, <2>2, <2>4, <3>4, <3>5, <3>6
  <2> QED BY <2>3, <2>4
<1> QED BY <1>5, <1>6, <1>8, <1>9 DEF ShelvesInv

-----------------------------------------------------------------------------
(* Every step, and every behaviour                                         *)

LEMMA InitInv ==
  ASSUME S!Sensible, S!Init PROVE ShelvesInv
<1>1. /\ doc = [p \in Posts |-> S!Unborn] /\ calls = 0
      /\ call = [r \in Clients |-> S!Idle]
      /\ stale = {} /\ moved = {} /\ torn = {} /\ crossed = {}
      /\ shelf \in [S!Shelves -> [state : {"unborn", "there"}, space : S!Spaces, count : {0}]]
  BY DEF S!Init
<1>2. S!TypeOK
  <2>1. 0 \in 0 .. MaxCalls
    BY DEF S!Sensible
  <2>2. shelf \in [S!Shelves -> S!Shelf]
    BY <1>1 DEF S!Shelf
  <2> QED BY <1>1, <2>1, <2>2, IdleIsRequest DEF S!TypeOK
<1>3. \A r \in Clients : call[r].pc = "idle" /\ call[r].shifts = <<>> /\ ~call[r].counted
                         /\ call[r].copy = S!Unborn
  BY <1>1 DEF S!Idle
<1>4. \A r \in Clients : Knows(call[r])
  BY <1>3, IdleIsRequest DEF Knows, KnowsPost, KnowsShelves, KnowsShifts, S!Unborn
<1>5. \A p \in Posts : doc[p].state = "unborn" /\ S!ShelvesOf(doc[p]) = {}
  BY <1>1, IdleIsRequest DEF S!Unborn
<1>6. OnBegun /\ DropsEmpty /\ S!NoPostOnMissingShelf /\ S!PostsFitTheirSpace
  BY <1>3, <1>5 DEF OnBegun, DropsEmpty, S!NoPostOnMissingShelf, S!PostsFitTheirSpace, S!Exists
<1>7. S!CountsAgree
  <2> SUFFICES ASSUME NEW x \in S!Shelves, Settled(x)
               PROVE  shelf[x].count + S!Owed(x) = Cardinality(S!Members(x))
    BY CountsMean DEF Agrees
  <2>1. \A r \in Clients : \A by : ~Shifting(call[r], x, by) /\ ~Unsaved(call[r], x)
    BY <1>3 DEF Shifting, Unsaved
  <2>2. /\ {r \in Clients : Shifting(call[r], x, 1)} = {}
        /\ {r \in Clients : Shifting(call[r], x, -1)} = {}
        /\ {r \in Clients : Unsaved(call[r], x)} = {}
    BY <2>1
  <2>3. S!Owed(x) = Cardinality({}) - Cardinality({}) + Cardinality({})
    BY <2>2, ShelvesOperators DEF S!Owed, Shifting, Unsaved
  <2>4. S!Members(x) = {}
    BY <1>5 DEF S!Members
  <2>5. Cardinality({}) = 0
    BY FS_EmptySet
  <2>6. shelf[x].count = 0
    BY <1>1
  <2> QED BY <2>3, <2>4, <2>5, <2>6
<1> QED BY <1>2, <1>4, <1>6, <1>7 DEF ShelvesInv

LEMMA CallInv ==
  ASSUME S!Sensible, ShelvesInv, NEW r \in Clients, S!Call(r), calls' \in 0 .. MaxCalls
  PROVE  ShelvesInv'
<1> SUFFICES ASSUME NEW u \in Writers,
      \/ \E p \in Posts :
           \/ S!RemovePost(r, u, p) \/ S!RemoveFromSeries(r, u, p)
           \/ \E k \in Kinds, c \in Categories \cup {None} :
                S!CreatePost(r, p, k[1], k[2], c) \/ S!UpdatePost(r, u, p, k[1], k[2], c)
           \/ \E s \in SeriesIds, o \in Orders \cup {S!NoOrder} : S!AddToSeries(r, u, s, p, o)
      \/ \E c \in Categories : S!RemoveCategory(r, c)
      \/ \E s \in SeriesIds : S!RemoveSeries(r, u, s)
             PROVE ShelvesInv'
  BY DEF S!Call
<1>1. ASSUME NEW p \in Posts, S!RemovePost(r, u, p) PROVE ShelvesInv'
  BY <1>1, RemovePostInv
<1>2. ASSUME NEW p \in Posts, S!RemoveFromSeries(r, u, p) PROVE ShelvesInv'
  BY <1>2, RemoveFromSeriesInv
<1>3. ASSUME NEW p \in Posts, NEW k \in Kinds, NEW c \in Categories \cup {None},
             S!CreatePost(r, p, k[1], k[2], c)
      PROVE  ShelvesInv'
  BY <1>3, CreatePostInv
<1>4. ASSUME NEW p \in Posts, NEW k \in Kinds, NEW c \in Categories \cup {None},
             S!UpdatePost(r, u, p, k[1], k[2], c)
      PROVE  ShelvesInv'
  BY <1>4, UpdatePostInv
<1>5. ASSUME NEW p \in Posts, NEW s \in SeriesIds, NEW o \in Orders \cup {S!NoOrder},
             S!AddToSeries(r, u, s, p, o)
      PROVE  ShelvesInv'
  BY <1>5, AddToSeriesInv
<1>6. ASSUME NEW c \in Categories, S!RemoveCategory(r, c) PROVE ShelvesInv'
  BY <1>6, RemoveCategoryInv
<1>7. ASSUME NEW s \in SeriesIds, S!RemoveSeries(r, u, s) PROVE ShelvesInv'
  BY <1>7, RemoveSeriesInv
<1> QED BY <1>1, <1>2, <1>3, <1>4, <1>5, <1>6, <1>7

LEMMA ContinueInv ==
  ASSUME S!Sensible, ShelvesInv, NEW r \in Clients, S!Continue(r), calls' \in 0 .. MaxCalls
  PROVE  ShelvesInv'
<1>1. CASE S!AssertCategory(r)
  BY <1>1, AssertCategoryInv
<1>2. CASE S!InsertPost(r)
  BY <1>2, InsertPostInv
<1>3. CASE S!SavePost(r)
  BY <1>3, SaveGoneInv, SaveFoundInv
<1>4. CASE S!ShiftCount(r)
  BY <1>4, ShiftCountInv
<1>5. CASE S!DeletePost(r)
  BY <1>5, DeletePostInv
<1>6. CASE S!AddRead(r)
  BY <1>6, AddReadInv
<1>7. CASE S!CheckOwner(r)
  BY <1>7, CheckOwnerInv
<1>8. CASE S!Uncount(r)
  BY <1>8, UncountInv
<1>9. CASE S!Unlink(r)
  BY <1>9, UnlinkInv
<1>10. CASE S!DropCategory(r) \/ S!DropSeries(r)
  BY <1>10, DropInv
<1> QED BY <1>1, <1>2, <1>3, <1>4, <1>5, <1>6, <1>7, <1>8, <1>9, <1>10 DEF S!Continue

LEMMA ShelvesStep ==
  ASSUME S!Sensible, ShelvesInv, S!Next PROVE ShelvesInv'
<1>1. calls \in 0 .. MaxCalls /\ MaxCalls \in Nat
  BY DEF ShelvesInv, S!TypeOK, S!Sensible
<1>2. CASE S!Create /\ UNCHANGED calls
  BY <1>1, <1>2, CreateShelfInv DEF S!Create
<1>3. ASSUME NEW r \in Clients, S!Call(r), calls < MaxCalls, calls' = calls + 1 PROVE ShelvesInv'
  <2>1. calls' \in 0 .. MaxCalls
    BY <1>1, <1>3
  <2> QED BY <1>3, <2>1, CallInv
<1>4. ASSUME NEW r \in Clients, S!Continue(r), UNCHANGED calls PROVE ShelvesInv'
  BY <1>1, <1>4, ContinueInv
<1>5. ASSUME NEW r \in Clients, S!Crash(r), UNCHANGED calls PROVE ShelvesInv'
  BY <1>1, <1>5, CrashInv
<1> QED BY <1>2, <1>3, <1>4, <1>5 DEF S!Next

LEMMA ShelvesRestInv ==
  ASSUME S!Sensible, ShelvesInv, UNCHANGED S!vars PROVE ShelvesInv'
<1>1. UNCHANGED <<doc, shelf, call, calls, stale, moved, torn, crossed>>
  BY DEF S!vars
<1>2. S!TypeOK' /\ (\A r \in Clients : Knows(call[r])')
  <2>1. S!TypeOK' /\ ShelvesGrow
    BY <1>1 DEF ShelvesInv, S!TypeOK, ShelvesGrow, Begun, Missed
  <2>2. ASSUME NEW r \in Clients PROVE Knows(call[r])'
    <3>1. PICK q : q = call[r]
      OBVIOUS
    <3>2. Knows(q)'
      BY <2>1, <3>1, KnowsLasts DEF ShelvesInv
    <3>3. call'[r] = q
      BY <1>1, <3>1
    <3> QED BY <3>2, <3>3 DEF Knows, KnowsPost, KnowsShelves, KnowsShifts, EditsPost, FilesPost,
                              Joins
  <2> QED BY <2>1, <2>2
<1>3. OnBegun' /\ DropsEmpty' /\ S!NoPostOnMissingShelf' /\ S!PostsFitTheirSpace'
  BY <1>1 DEF ShelvesInv, OnBegun, DropsEmpty, Begun, S!NoPostOnMissingShelf,
              S!PostsFitTheirSpace, S!Exists
<1>4. S!CountsAgree'
  BY <1>1 DEF ShelvesInv, S!CountsAgree, S!At, S!Owed, S!Members, S!Exists
<1> QED BY <1>2, <1>3, <1>4 DEF ShelvesInv

\* The invariant, of module Shelves and of Content where it is the part taken.
LEMMA ShelvesAlways == S!Sensible => (S!Spec => []ShelvesInv)
<1> SUFFICES ASSUME S!Sensible PROVE S!Spec => []ShelvesInv
  OBVIOUS
<1>1. S!Init => ShelvesInv
  BY InitInv
<1>2. ShelvesInv /\ [S!Next]_(S!vars) => ShelvesInv'
  BY ShelvesStep, ShelvesRestInv
<1> QED BY <1>1, <1>2, PTL DEF S!Spec

ShelvesPart == part = "shelves" => ShelvesInv

LEMMA ContentShelves == ContentSpec => []ShelvesPart
<1>1. ContentInit => ShelvesPart
  BY InitInv, ContentAssumption DEF ContentInit, ShelvesPart
<1>2. ShelvesPart /\ [ContentNext]_contentVars => ShelvesPart'
  <2> SUFFICES ASSUME ShelvesPart, [ContentNext]_contentVars, part' = "shelves"
               PROVE  ShelvesInv'
    BY DEF ShelvesPart
  <2>1. CASE ContentNext
    <3>1. part = "shelves" /\ S!Next
      BY <2>1 DEF ContentNext, PostsNext, TextNext, ShelvesNext, MediaNext
    <3> QED BY <3>1, ShelvesStep, ContentAssumption DEF ShelvesPart
  <2>2. CASE UNCHANGED contentVars
    <3>1. part = "shelves" /\ UNCHANGED S!vars
      BY <2>2 DEF contentVars, ofShelves, S!vars
    <3> QED BY <3>1, ShelvesRestInv, ContentAssumption DEF ShelvesPart
  <2> QED BY <2>1, <2>2
<1> QED BY <1>1, <1>2, PTL DEF ContentSpec

\* categories.service.ts:113, series.service.ts:126, posts.service.ts:311: the
\* count a category or series caches is the number of its posts, up to what the
\* requests in progress have still to shift.  Only a crash, or two changes of
\* the shelves of one post at a time, can make it drift.
THEOREM CountsCorrect ==
  /\ S!Sensible => (S!Spec => []S!CountsAgree)
  /\ ContentSpec => []CountsAgree
<1>1. ShelvesInv => S!CountsAgree
  BY DEF ShelvesInv
<1>2. ShelvesPart => CountsAgree
  BY DEF ShelvesPart, ShelvesInv, CountsAgree
<1> QED BY <1>1, <1>2, ShelvesAlways, ContentShelves, PTL

\* categories.service.ts:97, series.service.ts:186: no post is left on a
\* category or series that is gone, but one put there at the very moment of the
\* deletion.
THEOREM FilingCorrect ==
  /\ S!Sensible => (S!Spec => []S!NoPostOnMissingShelf)
  /\ ContentSpec => []NoPostOnMissingShelf
<1>1. ShelvesInv => S!NoPostOnMissingShelf
  BY DEF ShelvesInv
<1>2. ShelvesPart => NoPostOnMissingShelf
  BY DEF ShelvesPart, ShelvesInv, NoPostOnMissingShelf
<1> QED BY <1>1, <1>2, ShelvesAlways, ContentShelves, PTL

\* posts.service.ts:111 and :238, series.service.ts:107: type, category and
\* series of a post fit its space.  Two edits of one post at a time may break
\* this, and so does giving a post that is filed another space.
THEOREM SpacesCorrect ==
  /\ S!Sensible => (S!Spec => []S!PostsFitTheirSpace)
  /\ ContentSpec => []PostsFitTheirSpace
<1>1. ShelvesInv => S!PostsFitTheirSpace
  BY DEF ShelvesInv
<1>2. ShelvesPart => PostsFitTheirSpace
  BY DEF ShelvesPart, ShelvesInv, PostsFitTheirSpace
<1> QED BY <1>1, <1>2, ShelvesAlways, ContentShelves, PTL

=============================================================================
