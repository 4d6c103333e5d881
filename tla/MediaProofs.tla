----------------------------- MODULE MediaProofs ------------------------------
(***************************************************************************)
(* Module Media keeps its promises, whatever the number of requests, files *)
(* and images: the files that documents name exist, every file that exists *)
(* is accounted for, the cover is an image of the gallery, the gallery is  *)
(* in order and within its limit, and what is written of an image stays    *)
(* with it, but for the exceptions each property names.                    *)
(***************************************************************************)
EXTENDS ShelvesProofs

-----------------------------------------------------------------------------
(* The invariant                                                           *)

\* No two images of g are of the same file.
Distinct(g) == \A i, j \in DOMAIN g : g[i].id = g[j].id => i = j

\* The images of g are those of h, at the same places.
SameImages(g, h) == DOMAIN g = DOMAIN h /\ \A i \in DOMAIN g : g[i].id = h[i].id

Numbered(g) == \A i \in DOMAIN g : g[i].order = i - 1

\* Requests that will write what they make of their copy.
Reading == {"put", "push", "rewrite", "cover", "publish", "alt", "delete"}

\* What a request at a place holds there, and nothing elsewhere.
HoldsCopy(q) ==
  /\ Distinct(q.copy.gallery)
  /\ q.pc \in {"put", "push"} => Len(q.copy.gallery) + q.many <= MaxGallery
  /\ q.pc \in {"cover", "alt"} => q.image \in M!IdsOf(q.copy.gallery)
  /\ q.pc = "publish" =>
       q.image = (IF q.copy.cover # None THEN q.copy.cover
                  ELSE IF q.copy.gallery # <<>> THEN q.copy.gallery[1].id ELSE None)
  /\ q.pc = "rewrite" =>
       /\ q.image = None \/ q.image \in M!IdsOf(q.copy.gallery)
       /\ M!IdsOf(q.new) = M!IdsOf(q.copy.gallery) \ {q.image}
       /\ Distinct(q.new) /\ Numbered(q.new)

HoldsFiles(q) ==
  /\ q.got # <<>> => q.pc \in {"put", "push", "keep"}
  /\ q.pc = "put" => Len(q.got) < q.many
  /\ q.pc = "push" => Len(q.got) = q.many /\ q.got # <<>>
  /\ q.pc = "keep" => Len(q.got) = 1
  /\ \A i, j \in DOMAIN q.got : q.got[i] = q.got[j] => i = j
  /\ q.todo # {} => q.pc \in {"delete", "files"}
  /\ q.pc = "destroy" => q.image # None
  /\ q.image # None => q.pc \in {"rewrite", "destroy", "cover", "publish", "alt"}
  /\ q.pc = "drop" => q.old # None
  /\ q.old # None => q.pc \in {"drop", "fill", "keep"}
  /\ q.old \notin M!Range(q.got)

Holds(q) == HoldsCopy(q) /\ HoldsFiles(q)

\* Files request q is about to delete, and those it stored before.
Doomed(q) == (IF q.pc = "destroy" THEN {q.image} ELSE {}) \cup q.todo \cup ({q.old} \ {None})

\* What it may take for granted of the gallery: nobody writes it unseen.
KnowsGallery(q) ==
  /\ q.copy.version <= version
  /\ q.pc \in Reading /\ M!Current(q.copy) => SameImages(q.copy.gallery, gallery)

\* Files that no document and no request answers for.
Lost == strays \cup unfound

\* The file of slot s may be gone; request q is replacing file f of slot s.
Gone(s) == s = "avatar" /\ broken

Replaces(q, s, f) == /\ s = "avatar" /\ q.pc \in {"fill", "keep"}
                     /\ q.slot = s /\ q.old = f

\* And of files: those it uploaded are known to no document, and those it
\* deletes are not those of a document, but for the old file of its slot.
KnowsFiles(q) ==
  /\ \A f \in M!Range(q.got) : /\ f \in files /\ f <= last /\ fetched[f] = 0
                               /\ f \notin M!IdsOf(gallery) /\ \A s \in M!Slots : slot[s] # f
  /\ \A f \in Doomed(q) : f <= last
  /\ q.pc = "destroy" => /\ q.image \notin M!IdsOf(gallery)
                         /\ \A s \in M!Slots : slot[s] # q.image
  /\ slot["avatar"] \notin q.todo
  /\ q.pc = "files" => ~there
  /\ q.old # None => /\ q.old \notin M!IdsOf(gallery)
                     /\ \A s \in M!Slots : slot[s] = q.old => s = q.slot
  /\ q.pc \in {"fill", "keep"} /\ q.old # None => q.old \notin files \/ q.old \in Lost

\* What is known of the fields of an image.
Faithful(m) == /\ m.alt \in {None, m.id} /\ m.downloads <= fetched[m.id]
               /\ m.id \notin rewritten => m.downloads = fetched[m.id]

KnowsFields(q) == q.pc = "rewrite" => \A i \in DOMAIN q.new : Faithful(q.new[i])

KnowsMedia(q) == Holds(q) /\ KnowsGallery(q) /\ KnowsFiles(q) /\ KnowsFields(q)

\* No request uploads what another one uploads or deletes.
DisjointFrom(a, b) == M!Range(a.got) \cap (M!Range(b.got) \cup Doomed(b)) = {}

AllDisjoint == \A r, s \in Clients : r # s => DisjointFrom(call[r], call[s])

\* A post that is gone has no files; files have been uploaded; no file is both
\* an image and in a slot, or in both slots.
Stored ==
  /\ ~there => gallery = <<>> /\ slot["narration"] = None
  /\ Distinct(gallery)
  /\ \A f \in M!IdsOf(gallery) : f <= last /\ \A s \in M!Slots : slot[s] # f
  /\ \A s \in M!Slots : slot[s] # None => slot[s] <= last
  /\ slot["narration"] = slot["avatar"] => slot["avatar"] = None
  /\ \A f \in files : f <= last
  /\ \A f \in M!Ids : f > last => fetched[f] = 0
  /\ \A i \in DOMAIN gallery : Faithful(gallery[i])

\* What documents name exists; of the avatar see Gone and Replaces.
FilesThere ==
  /\ M!IdsOf(gallery) \subseteq files
  /\ \A s \in M!Slots : slot[s] # None /\ slot[s] \notin files =>
       Gone(s) \/ \E r \in Clients : Replaces(call[r], s, slot[s])

MediaInv ==
  /\ M!TypeOK /\ Stored /\ (\A r \in Clients : KnowsMedia(call[r])) /\ AllDisjoint
  /\ M!CoverIsInGallery /\ M!GalleryIsInOrder /\ FilesThere /\ M!FilesAreAccountedFor

-----------------------------------------------------------------------------
(* Galleries                                                               *)

LEMMA MediaOperators ==
  /\ \A X : M!Cardinality(X) = Cardinality(X)
  /\ \A f : M!Range(f) = {f[x] : x \in DOMAIN f}
BY DEF M!Cardinality, Cardinality, M!Range

LEMMA GalleryOfType ==
  ASSUME NEW g \in Seq(M!Image)
  PROVE  /\ Len(g) \in Nat /\ DOMAIN g = 1 .. Len(g)
         /\ \A i \in DOMAIN g :
              /\ g[i] \in M!Image /\ g[i].id \in M!Ids /\ g[i].order \in Nat
              /\ g[i].alt \in M!File /\ g[i].downloads \in 0 .. MaxDownloads
         /\ M!IdsOf(g) \subseteq M!Ids
         /\ g = <<>> <=> M!IdsOf(g) = {}
<1>1. Len(g) \in Nat /\ DOMAIN g = 1 .. Len(g) /\ \A i \in DOMAIN g : g[i] \in M!Image
  OBVIOUS
<1>2. \A m \in M!Image : /\ m.id \in M!Ids /\ m.order \in Nat
                         /\ m.alt \in M!File /\ m.downloads \in 0 .. MaxDownloads
  BY DEF M!Image
<1>3. M!IdsOf(g) \subseteq M!Ids
  BY <1>1, <1>2 DEF M!IdsOf
<1>4. ASSUME g # <<>> PROVE M!IdsOf(g) # {}
  <2>1. 1 \in DOMAIN g
    BY <1>1, <1>4
  <2> QED BY <2>1 DEF M!IdsOf
<1>5. M!IdsOf(<<>>) = {}
  BY DEF M!IdsOf
<1> QED BY <1>1, <1>2, <1>3, <1>4, <1>5

\* A gallery is as long as its files are many.
LEMMA LongAsMany ==
  ASSUME NEW g \in Seq(M!Image), Distinct(g)
  PROVE  /\ IsFiniteSet(M!IdsOf(g)) /\ Cardinality(M!IdsOf(g)) = Len(g)
<1> DEFINE f == [i \in 1 .. Len(g) |-> g[i].id]
<1>1. Len(g) \in Nat /\ DOMAIN g = 1 .. Len(g)
  OBVIOUS
<1>2. f \in Surjection(1 .. Len(g), M!IdsOf(g))
  BY <1>1 DEF Surjection, M!IdsOf
<1>3. f \in Injection(1 .. Len(g), M!IdsOf(g))
  BY <1>1 DEF Injection, IsInjective, M!IdsOf, Distinct
<1>4. IsFiniteSet(1 .. Len(g)) /\ Cardinality(1 .. Len(g)) = Len(g)
  BY <1>1, FS_Interval
<1> QED BY <1>2, <1>3, <1>4, FS_Surjection

\* How many of the images of g at places P come before the one at i.
Rank(g, P, i) == Cardinality({j \in P : M!Precedes(g, j, i)})

LEMMA Ranking ==
  ASSUME NEW g \in Seq(M!Image), NEW P \in SUBSET DOMAIN g
  PROVE  /\ IsFiniteSet(P) /\ Cardinality(P) \in Nat
         /\ \A i \in P : Rank(g, P, i) \in 0 .. Cardinality(P) - 1
         /\ \A i, j \in P : Rank(g, P, i) = Rank(g, P, j) => i = j
         /\ \A k \in 0 .. Cardinality(P) - 1 : \E i \in P : Rank(g, P, i) = k
<1> DEFINE n == Cardinality(P)
           Before(i) == {j \in P : M!Precedes(g, j, i)}
           f == [i \in P |-> Rank(g, P, i)]
<1>1. /\ Len(g) \in Nat /\ DOMAIN g = 1 .. Len(g)
      /\ \A i \in DOMAIN g : g[i].order \in Nat
  BY GalleryOfType
<1>2. IsFiniteSet(P) /\ n \in Nat
  <2>1. IsFiniteSet(1 .. Len(g))
    BY <1>1, FS_Interval
  <2>2. IsFiniteSet(P)
    BY <1>1, <2>1, FS_Subset
  <2> QED BY <2>2, FS_CardinalityType
<1>3. ASSUME NEW i \in P
      PROVE  /\ IsFiniteSet(Before(i)) /\ Cardinality(Before(i)) \in Nat
             /\ i \notin Before(i) /\ Cardinality(Before(i)) <= n - 1
  <2>1. Before(i) \in SUBSET (P \ {i})
    BY <1>1 DEF M!Precedes
  <2>2. IsFiniteSet(P \ {i}) /\ Cardinality(P \ {i}) = n - 1
    BY <1>2, FS_RemoveElement
  <2>3. IsFiniteSet(Before(i)) /\ Cardinality(Before(i)) <= n - 1
    BY <2>1, <2>2, FS_Subset
  <2> QED BY <2>1, <2>3, FS_CardinalityType
<1>4. ASSUME NEW i \in P, NEW j \in P, M!Precedes(g, i, j)
      PROVE  Cardinality(Before(i)) # Cardinality(Before(j))
  <2>1. Before(i) \subseteq Before(j) /\ i \in Before(j) /\ i \notin Before(i)
    BY <1>1, <1>3, <1>4 DEF M!Precedes
  <2>2. Before(i) \in SUBSET Before(j) /\ Before(i) # Before(j)
    BY <2>1
  <2> QED BY <1>3, <2>2, FS_Subset
<1>5. ASSUME NEW i \in P, NEW j \in P, i # j
      PROVE  Cardinality(Before(i)) # Cardinality(Before(j))
  <2>1. i \in Nat /\ j \in Nat /\ g[i].order \in Nat /\ g[j].order \in Nat
    BY <1>1
  <2>2. M!Precedes(g, i, j) \/ M!Precedes(g, j, i)
    BY <1>5, <2>1 DEF M!Precedes
  <2> QED BY <1>4, <2>2
<1>6. \A i \in P : Rank(g, P, i) = Cardinality(Before(i))
  BY DEF Rank
<1> HIDE DEF Before
<1>7. f \in Injection(P, 0 .. n - 1)
  <2>1. \A i \in P : Rank(g, P, i) \in 0 .. n - 1
    <3> TAKE i \in P
    <3>1. Rank(g, P, i) \in Nat /\ Rank(g, P, i) <= n - 1
      BY <1>3, <1>6
    <3> QED BY <1>2, <3>1
  <2>2. f \in [P -> 0 .. n - 1]
    BY <2>1
  <2>3. \A i, j \in P : f[i] = f[j] => i = j
    BY <1>5, <1>6
  <2> QED BY <2>2, <2>3 DEF Injection, IsInjective
<1>8. IsFiniteSet(0 .. n - 1) /\ Cardinality(0 .. n - 1) = n
  <2>1. \A m \in Nat : IsFiniteSet(0 .. m - 1) /\ Cardinality(0 .. m - 1) = m
    <3> TAKE m \in Nat
    <3>1. m - 1 \in Int /\ (m - 1) - 0 + 1 = m /\ (0 > m - 1 => m = 0)
      OBVIOUS
    <3> QED BY <3>1, FS_Interval
  <2> QED BY <1>2, <2>1
<1>9. f \in Surjection(P, 0 .. n - 1)
  BY <1>7, <1>8, FS_Injection
<1>10. \A k \in 0 .. n - 1 : \E i \in P : Rank(g, P, i) = k
  BY <1>9 DEF Surjection
<1>11. /\ \A i \in P : Rank(g, P, i) \in 0 .. n - 1
       /\ \A i, j \in P : Rank(g, P, i) = Rank(g, P, j) => i = j
  BY <1>7 DEF Injection, IsInjective
<1> QED BY <1>2, <1>10, <1>11

\* Images m and n are the same but for their order.
SameFields(m, n) == m.id = n.id /\ m.alt = n.alt /\ m.downloads = n.downloads

\* place takes every place of P once.
TakesAll(place, n, P) ==
  /\ place \in [1 .. n -> P]
  /\ \A j, k \in 1 .. n : place[j] = place[k] => j = k
  /\ \A i \in P : \E k \in 1 .. n : place[k] = i

\* o has the images of g at places P, the one of rank k - 1 in place k.
Sorts(place, n, P, g, o) ==
  TakesAll(place, n, P) /\ \A k \in 1 .. n : o[k] = g[place[k]] /\ Rank(g, P, place[k]) = k - 1

\* The images of w are those of g but for their order.
Follows(place, n, g, w) ==
  /\ DOMAIN w = 1 .. n /\ w = [k \in 1 .. n |-> w[k]]
  /\ \A k \in 1 .. n : w[k] \in M!Image /\ SameFields(w[k], g[place[k]])

\* InOrder takes every image once, the one of rank k - 1 in place k.
LEMMA Ordered ==
  ASSUME NEW g \in Seq(M!Image), NEW P \in SUBSET DOMAIN g, NEW o, o = M!InOrder(g, P),
         NEW n, n = Cardinality(P)
  PROVE  /\ n \in Nat /\ DOMAIN o = 1 .. n
         /\ \E place : Sorts(place, n, P, g, o)
<1> DEFINE Spot(k) == CHOOSE i \in P : Rank(g, P, i) = k - 1
           place == [k \in 1 .. n |-> Spot(k)]
<1>1. /\ IsFiniteSet(P) /\ n \in Nat
      /\ \A i \in P : Rank(g, P, i) \in 0 .. n - 1
      /\ \A i, j \in P : Rank(g, P, i) = Rank(g, P, j) => i = j
      /\ \A k \in 0 .. n - 1 : \E i \in P : Rank(g, P, i) = k
  BY Ranking
<1>2. \A k \in 1 .. n : Spot(k) \in P /\ Rank(g, P, Spot(k)) = k - 1
  <2> SUFFICES ASSUME NEW k \in 1 .. n PROVE Spot(k) \in P /\ Rank(g, P, Spot(k)) = k - 1
    OBVIOUS
  <2>1. k - 1 \in 0 .. n - 1
    BY <1>1
  <2>2. \E i \in P : Rank(g, P, i) = k - 1
    BY <1>1, <2>1
  <2> QED BY <2>2
<1>3. \A k : M!Nth(g, P, k - 1) = g[Spot(k)]
  BY MediaOperators DEF M!Nth, Rank
<1>4. o = [k \in 1 .. n |-> g[Spot(k)]]
  BY <1>3, MediaOperators DEF M!InOrder
<1> HIDE DEF Spot
<1>5. place \in [1 .. n -> P]
  BY <1>2
<1>6. \A k \in 1 .. n : o[k] = g[place[k]] /\ Rank(g, P, place[k]) = k - 1
  BY <1>2, <1>4
<1>7. \A j, k \in 1 .. n : place[j] = place[k] => j = k
  BY <1>1, <1>6
<1>8. ASSUME NEW i \in P PROVE \E k \in 1 .. n : place[k] = i
  <2>1. PICK k \in 1 .. n : k = Rank(g, P, i) + 1
    BY <1>1
  <2>2. Rank(g, P, place[k]) = Rank(g, P, i) /\ place[k] \in P
    BY <1>1, <1>5, <1>6, <2>1
  <2> QED BY <1>1, <2>2
<1>9. DOMAIN o = 1 .. n
  BY <1>4
<1>10. Sorts(place, n, P, g, o)
  BY <1>5, <1>6, <1>7, <1>8 DEF TakesAll, Sorts
<1> HIDE DEF place
<1> QED BY <1>1, <1>9, <1>10

LEMMA Renumbered ==
  ASSUME NEW m \in M!Image, NEW k \in Nat, NEW n, n = [m EXCEPT !.order = k]
  PROVE  n \in M!Image /\ n.order = k /\ SameFields(n, m)
BY DEF M!Image, SameFields

\* The files of w are those of g at places P where it has the images that are
\* there, each once.
LEMMA Picked ==
  ASSUME NEW g \in Seq(M!Image), Distinct(g), NEW P \in SUBSET DOMAIN g, NEW n \in Nat,
         NEW place, TakesAll(place, n, P), NEW w, Follows(place, n, g, w)
  PROVE  /\ w \in Seq(M!Image) /\ Distinct(w)
         /\ M!IdsOf(w) = {g[i].id : i \in P}
         /\ \A k \in DOMAIN w : \E i \in DOMAIN g : SameFields(w[k], g[i])
<1>1. /\ \A k \in 1 .. n : place[k] \in P /\ place[k] \in DOMAIN g /\ w[k].id = g[place[k]].id
      /\ \A j, k \in 1 .. n : place[j] = place[k] => j = k
      /\ \A i \in P : \E k \in 1 .. n : place[k] = i
      /\ DOMAIN w = 1 .. n /\ w = [k \in 1 .. n |-> w[k]]
      /\ \A k \in 1 .. n : w[k] \in M!Image /\ SameFields(w[k], g[place[k]])
  BY DEF SameFields, TakesAll, Follows
<1>2. w \in Seq(M!Image)
  <2>1. w \in [1 .. n -> M!Image]
    BY <1>1
  <2> QED BY <2>1
<1>3. Distinct(w)
  BY <1>1 DEF Distinct
<1>4. M!IdsOf(w) = {g[i].id : i \in P}
  <2>1. ASSUME NEW f \in M!IdsOf(w) PROVE f \in {g[i].id : i \in P}
    <3>1. PICK k \in 1 .. n : f = w[k].id
      BY <1>1, <2>1 DEF M!IdsOf
    <3> QED BY <1>1, <3>1
  <2>2. ASSUME NEW i \in P PROVE g[i].id \in M!IdsOf(w)
    <3>1. PICK k \in 1 .. n : place[k] = i
      BY <1>1
    <3>2. w[k].id = g[i].id
      BY <1>1, <3>1
    <3> QED BY <1>1, <3>2 DEF M!IdsOf
  <2> QED BY <2>1, <2>2
<1>5. \A k \in DOMAIN w : \E i \in DOMAIN g : SameFields(w[k], g[i])
  BY <1>1
<1> QED BY <1>2, <1>3, <1>4, <1>5

\* What RemoveImage writes.
LEMMA WithoutImage ==
  ASSUME NEW g \in Seq(M!Image), Distinct(g), NEW f, NEW w, w = M!Without(g, f)
  PROVE  /\ w \in Seq(M!Image) /\ Distinct(w) /\ Numbered(w)
         /\ M!IdsOf(w) = M!IdsOf(g) \ {f}
         /\ \A k \in DOMAIN w : \E i \in DOMAIN g : SameFields(w[k], g[i])
<1>1. PICK P : P = {i \in DOMAIN g : g[i].id # f}
  OBVIOUS
<1>2. PICK o : o = M!InOrder(g, P)
  OBVIOUS
<1>3. PICK n : n = Cardinality(P)
  OBVIOUS
<1>4. n \in Nat /\ DOMAIN o = 1 .. n
  BY <1>1, <1>2, <1>3, Ordered
<1>5. PICK place : Sorts(place, n, P, g, o)
  BY <1>1, <1>2, <1>3, Ordered
<1>6. w = [k \in 1 .. n |-> [o[k] EXCEPT !.order = k - 1]]
  <2>1. M!Without(g, f) = [k \in DOMAIN M!InOrder(g, P) |-> [M!InOrder(g, P)[k] EXCEPT !.order = k - 1]]
    BY <1>1 DEF M!Without
  <2> QED BY <1>2, <1>4, <2>1
<1>7. ASSUME NEW k \in 1 .. n
      PROVE  w[k] \in M!Image /\ w[k].order = k - 1 /\ SameFields(w[k], g[place[k]])
  <2>1. place[k] \in DOMAIN g /\ k - 1 \in Nat
    BY <1>1, <1>4, <1>5 DEF TakesAll, Sorts
  <2>2. g[place[k]] \in M!Image
    BY <2>1
  <2>3. w[k] = [g[place[k]] EXCEPT !.order = k - 1]
    BY <1>5, <1>6 DEF Sorts
  <2> QED BY <2>1, <2>2, <2>3, Renumbered
<1>8. DOMAIN w = 1 .. n /\ w = [k \in 1 .. n |-> w[k]]
  BY <1>6
<1>9. P \in SUBSET DOMAIN g
  BY <1>1
<1>10. /\ w \in Seq(M!Image) /\ Distinct(w) /\ M!IdsOf(w) = {g[i].id : i \in P}
       /\ \A k \in DOMAIN w : \E i \in DOMAIN g : SameFields(w[k], g[i])
  <2>1. TakesAll(place, n, P) /\ Follows(place, n, g, w)
    BY <1>5, <1>7, <1>8 DEF Sorts, Follows
  <2> QED BY <1>4, <1>9, <2>1, Picked
<1>11. {g[i].id : i \in P} = M!IdsOf(g) \ {f}
  BY <1>1 DEF M!IdsOf
<1>12. Numbered(w)
  BY <1>7, <1>8 DEF Numbered
<1> QED BY <1>10, <1>11, <1>12

\* Where the orders are the numbers from zero, each once, they are the ranks.
LEMMA OrderIsRank ==
  ASSUME NEW h \in Seq(M!Image), NEW i \in DOMAIN h,
         \A j, k \in DOMAIN h : h[j].order = h[k].order => j = k,
         \A m \in 0 .. Len(h) - 1 : \E j \in DOMAIN h : h[j].order = m,
         h[i].order < Len(h)
  PROVE  Rank(h, DOMAIN h, i) = h[i].order
<1> DEFINE n == h[i].order
           B == {j \in DOMAIN h : M!Precedes(h, j, i)}
           f == [j \in B |-> h[j].order]
<1>1. /\ Len(h) \in Nat /\ DOMAIN h = 1 .. Len(h) /\ \A j \in DOMAIN h : h[j].order \in Nat
  BY GalleryOfType
<1>2. \A j \in DOMAIN h : j \in B <=> h[j].order < n
  BY <1>1 DEF M!Precedes
<1>3. B \subseteq DOMAIN h /\ n \in Nat /\ IsFiniteSet(B)
  <2>1. IsFiniteSet(1 .. Len(h))
    BY <1>1, FS_Interval
  <2> QED BY <1>1, <2>1, FS_Subset
<1> HIDE DEF B
<1>4. f \in Injection(B, 0 .. n - 1)
  <2>1. \A j \in B : h[j].order \in 0 .. n - 1
    BY <1>1, <1>2, <1>3
  <2>2. f \in [B -> 0 .. n - 1]
    BY <2>1
  <2>3. \A j, k \in B : f[j] = f[k] => j = k
    BY <1>3
  <2> QED BY <2>2, <2>3 DEF Injection, IsInjective
<1>5. f \in Surjection(B, 0 .. n - 1)
  <2>1. ASSUME NEW m \in 0 .. n - 1 PROVE \E j \in B : f[j] = m
    <3>1. m \in 0 .. Len(h) - 1
      BY <1>1, <1>3
    <3>2. PICK j \in DOMAIN h : h[j].order = m
      BY <3>1
    <3>3. j \in B
      BY <1>2, <1>3, <3>2
    <3> QED BY <3>2, <3>3
  <2> QED BY <1>4, <2>1 DEF Injection, Surjection
<1>6. IsFiniteSet(0 .. n - 1) /\ Cardinality(0 .. n - 1) = n
  <2>1. \A m \in Nat : IsFiniteSet(0 .. m - 1) /\ Cardinality(0 .. m - 1) = m
    <3> TAKE m \in Nat
    <3>1. m - 1 \in Int /\ (m - 1) - 0 + 1 = m /\ (0 > m - 1 => m = 0)
      OBVIOUS
    <3> QED BY <3>1, FS_Interval
  <2> QED BY <1>3, <2>1
<1>7. Cardinality(B) = n
  BY <1>3, <1>4, <1>5, <1>6, FS_Injection
<1> QED BY <1>7 DEF Rank, B

\* What Reorder writes.
LEMMA ReorderedImages ==
  ASSUME NEW g \in Seq(M!Image), Distinct(g),
         NEW order \in [1 .. Cardinality(M!IdsOf(g)) -> M!IdsOf(g)],
         M!Range(order) = M!IdsOf(g),
         NEW h, h = M!Reordered(g, order), NEW w, w = M!InOrder(h, DOMAIN h)
  PROVE  /\ w \in Seq(M!Image) /\ Distinct(w) /\ Numbered(w)
         /\ M!IdsOf(w) = M!IdsOf(g)
         /\ \A k \in DOMAIN w : \E i \in DOMAIN g : SameFields(w[k], g[i])
<1>1. PICK n : n = Len(g)
  OBVIOUS
<1>2. /\ n \in Nat /\ DOMAIN g = 1 .. n
      /\ IsFiniteSet(M!IdsOf(g)) /\ Cardinality(M!IdsOf(g)) = n
  BY <1>1, LongAsMany
<1>3. order \in Injection(1 .. n, M!IdsOf(g))
  <2>1. order \in Surjection(1 .. n, M!IdsOf(g))
    BY <1>2, MediaOperators DEF Surjection
  <2>2. IsFiniteSet(1 .. n) /\ Cardinality(1 .. n) = n
    BY <1>2, FS_Interval
  <2> QED BY <1>2, <2>1, <2>2, FS_Surjection
<1>4. /\ \A i \in 1 .. n : \E k \in 1 .. n : order[k] = g[i].id
      /\ \A k \in 1 .. n : \E i \in 1 .. n : order[k] = g[i].id
      /\ \A j, k \in 1 .. n : order[j] = order[k] => j = k
      /\ DOMAIN order = 1 .. n
  <2>1. M!Range(order) = {order[k] : k \in 1 .. n} /\ DOMAIN order = 1 .. n
    BY <1>2, MediaOperators
  <2>2. M!IdsOf(g) = {g[i].id : i \in 1 .. n}
    BY <1>2 DEF M!IdsOf
  <2>3. \A j, k \in 1 .. n : order[j] = order[k] => j = k
    BY <1>3 DEF Injection, IsInjective
  <2>4. \A i \in 1 .. n : g[i].id \in M!Range(order)
    BY <2>2
  <2>5. \A k \in 1 .. n : order[k] \in M!IdsOf(g)
    BY <1>2
  <2> QED BY <2>1, <2>2, <2>3, <2>4, <2>5
<1> DEFINE Place(i) == CHOOSE k \in 1 .. n : order[k] = g[i].id
<1>5. \A i \in 1 .. n : Place(i) \in 1 .. n /\ order[Place(i)] = g[i].id
  BY <1>4
<1>6. h = [i \in 1 .. n |-> [g[i] EXCEPT !.order = Place(i) - 1]]
  BY <1>2, <1>4 DEF M!Reordered
<1> HIDE DEF Place
<1>7. ASSUME NEW i \in 1 .. n
      PROVE  h[i] \in M!Image /\ h[i].order = Place(i) - 1 /\ SameFields(h[i], g[i])
  <2>1. g[i] \in M!Image /\ Place(i) - 1 \in Nat
    BY <1>2, <1>5
  <2>2. h[i] = [g[i] EXCEPT !.order = Place(i) - 1]
    BY <1>6
  <2> QED BY <2>1, <2>2, Renumbered
<1>8. h \in Seq(M!Image) /\ DOMAIN h = 1 .. n /\ Len(h) = n
  <2>1. h \in [1 .. n -> M!Image]
    BY <1>6, <1>7
  <2> QED BY <1>2, <2>1
<1>9. Distinct(h)
  BY <1>2, <1>7, <1>8 DEF Distinct, SameFields
<1>10. /\ \A j, k \in 1 .. n : h[j].order = h[k].order => j = k
       /\ \A m \in 0 .. n - 1 : \E j \in 1 .. n : h[j].order = m
       /\ \A i \in 1 .. n : h[i].order < n
  <2>1. ASSUME NEW j \in 1 .. n, NEW k \in 1 .. n, h[j].order = h[k].order PROVE j = k
    <3>1. Place(j) = Place(k)
      BY <1>5, <1>7, <2>1
    <3>2. g[j].id = g[k].id
      BY <1>5, <3>1
    <3> QED BY <1>2, <3>2 DEF Distinct
  <2>2. ASSUME NEW m \in 0 .. n - 1 PROVE \E j \in 1 .. n : h[j].order = m
    <3>1. m + 1 \in 1 .. n
      BY <1>2
    <3>2. PICK j \in 1 .. n : order[m + 1] = g[j].id
      BY <1>4, <3>1
    <3>3. Place(j) = m + 1
      BY <1>4, <1>5, <3>1, <3>2
    <3> QED BY <1>7, <3>3
  <2>3. \A i \in 1 .. n : h[i].order < n
    BY <1>2, <1>5, <1>7
  <2> QED BY <2>1, <2>2, <2>3
<1>11. PICK P : P = DOMAIN h
  OBVIOUS
<1>12. P \in SUBSET DOMAIN h
  BY <1>11
<1>13. PICK c : c = Cardinality(P)
  OBVIOUS
<1>14. c \in Nat /\ DOMAIN w = 1 .. c
  BY <1>8, <1>11, <1>13, <1>12, Ordered
<1>15. PICK place : Sorts(place, c, P, h, w)
  BY <1>8, <1>11, <1>13, <1>12, Ordered
<1>16. ASSUME NEW k \in 1 .. c
       PROVE  w[k] \in M!Image /\ w[k].order = k - 1 /\ SameFields(w[k], h[place[k]])
  <2>1. place[k] \in DOMAIN h
    BY <1>11, <1>15 DEF TakesAll, Sorts
  <2>2. Rank(h, DOMAIN h, place[k]) = h[place[k]].order
    <3>1. /\ \A j, m \in DOMAIN h : h[j].order = h[m].order => j = m
          /\ \A m \in 0 .. Len(h) - 1 : \E j \in DOMAIN h : h[j].order = m
          /\ h[place[k]].order < Len(h)
      BY <1>8, <1>10, <2>1
    <3> QED BY <1>8, <2>1, <3>1, OrderIsRank
  <2> QED BY <1>7, <1>8, <1>11, <1>15, <2>1, <2>2 DEF SameFields, Sorts
<1>17. w = [k \in 1 .. c |-> w[k]]
  BY <1>11, <1>13, MediaOperators DEF M!InOrder
<1>18. /\ w \in Seq(M!Image) /\ Distinct(w) /\ M!IdsOf(w) = {h[i].id : i \in P}
       /\ \A k \in DOMAIN w : \E i \in DOMAIN h : SameFields(w[k], h[i])
  <2>1. TakesAll(place, c, P) /\ Follows(place, c, h, w)
    BY <1>14, <1>15, <1>16, <1>17 DEF Sorts, Follows
  <2> QED BY <1>8, <1>9, <1>12, <1>14, <2>1, Picked
<1>19. Numbered(w)
  BY <1>14, <1>16 DEF Numbered
<1>20. {h[i].id : i \in P} = M!IdsOf(g)
  BY <1>2, <1>7, <1>8, <1>11 DEF M!IdsOf, SameFields
<1>21. \A k \in DOMAIN w : \E i \in DOMAIN g : SameFields(w[k], g[i])
  <2> TAKE k \in DOMAIN w
  <2>1. PICK i \in DOMAIN h : SameFields(w[k], h[i])
    BY <1>18
  <2>2. i \in DOMAIN g /\ SameFields(h[i], g[i])
    BY <1>2, <1>7, <1>8
  <2> QED BY <2>1, <2>2 DEF SameFields
<1> QED BY <1>18, <1>19, <1>20, <1>21

-----------------------------------------------------------------------------
(* What lasts                                                              *)

LEMMA RequestOfType ==
  ASSUME NEW q \in M!Request
  PROVE  /\ q.pc \in M!PCs /\ q.copy \in M!Copy /\ q.image \in M!File /\ q.got \in Seq(M!Ids)
         /\ q.many \in Nat /\ q.new \in Seq(M!Image) /\ q.slot \in M!Slots /\ q.old \in M!File
         /\ q.todo \subseteq M!Ids
         /\ q.copy.gallery \in Seq(M!Image) /\ q.copy.version \in Nat
         /\ q.copy.cover \in M!File /\ q.copy.og \in M!File
         /\ M!Range(q.got) \subseteq M!Ids
<1>1. /\ q.pc \in M!PCs /\ q.copy \in M!Copy /\ q.image \in M!File /\ q.got \in Seq(M!Ids)
      /\ q.many \in Nat /\ q.new \in Seq(M!Image) /\ q.slot \in M!Slots /\ q.old \in M!File
      /\ q.todo \subseteq M!Ids
  BY DEF M!Request
<1>2. /\ q.copy.gallery \in Seq(M!Image) /\ q.copy.version \in Nat
      /\ q.copy.cover \in M!File /\ q.copy.og \in M!File
  BY <1>1 DEF M!Copy
<1>3. M!Range(q.got) \subseteq M!Ids
  BY <1>1, MediaOperators
<1> QED BY <1>1, <1>2, <1>3

LEMMA DoomedOfType ==
  ASSUME NEW q \in M!Request, Holds(q)
  PROVE  Doomed(q) \subseteq M!Ids
BY RequestOfType DEF Doomed, Holds, HoldsFiles, M!File

\* What a step in the service of request a may do to what others rely on.
Spares(a) ==
  /\ version <= version' /\ version' \in Nat /\ last <= last' /\ last' \in Nat
  /\ there' => there
  /\ version' = version /\ there' => SameImages(gallery, gallery')
  /\ M!IdsOf(gallery)' \subseteq M!IdsOf(gallery) \cup M!Range(a.got)
  /\ \A s \in M!Slots : slot'[s] \in {slot[s], None} \cup M!Range(a.got)
  /\ files' \subseteq files \cup {last + 1} /\ files \subseteq files' \cup Doomed(a)
  /\ Lost \subseteq Lost' /\ UNCHANGED <<fetched, rewritten>>

\* What another request takes for granted, it may take for granted still.
LEMMA KnowsMediaLasts ==
  ASSUME M!Sensible, M!TypeOK, NEW q \in M!Request, KnowsMedia(q), NEW a, Spares(a),
         DisjointFrom(a, q), DisjointFrom(q, a)
  PROVE  KnowsMedia(q)'
<1>1. Holds(q)'
  BY DEF KnowsMedia, Holds, HoldsCopy, HoldsFiles
<1>2. /\ version \in Nat /\ last \in Nat /\ MaxFiles \in Nat /\ None \notin M!Ids
      /\ \A f \in M!Ids : f \in Nat
      /\ "avatar" \in M!Slots
  BY DEF M!TypeOK, M!Sensible, M!Ids, M!Slots
<1>3. /\ q.copy.version \in Nat /\ M!Range(q.got) \subseteq M!Ids /\ Doomed(q) \subseteq M!Ids
      /\ q.todo \subseteq M!Ids
  BY RequestOfType, DoomedOfType DEF KnowsMedia
<1>4. KnowsGallery(q)'
  <2>1. q.copy.version <= version'
    BY <1>2, <1>3 DEF KnowsMedia, KnowsGallery, Spares
  <2>2. ASSUME q.pc \in Reading, there', version' = q.copy.version
        PROVE  SameImages(q.copy.gallery, gallery')
    <3>1. there /\ version = q.copy.version /\ version' = version
      BY <1>2, <1>3, <2>2 DEF KnowsMedia, KnowsGallery, Spares
    <3>2. SameImages(q.copy.gallery, gallery) /\ SameImages(gallery, gallery')
      BY <2>2, <3>1 DEF KnowsMedia, KnowsGallery, M!Current, Spares
    <3> QED BY <3>2 DEF SameImages
  <2> QED BY <2>1, <2>2 DEF KnowsGallery, M!Current
<1>5. KnowsFields(q)'
  BY DEF KnowsMedia, KnowsFields, Faithful, Spares
<1>6. KnowsFiles(q)'
  <2>1. /\ \A f \in Doomed(q) : f \notin M!Range(a.got)
        /\ \A f \in M!Range(q.got) : f \notin M!Range(a.got) /\ f \notin Doomed(a)
    BY DEF DisjointFrom
  <2>2. /\ q.pc = "destroy" => q.image \in Doomed(q)
        /\ \A f \in q.todo : f \in Doomed(q)
        /\ q.old # None => q.old \in Doomed(q)
    BY DEF Doomed
  <2>3. ASSUME NEW f \in M!Range(q.got)
        PROVE  /\ f \in files' /\ f <= last' /\ fetched'[f] = 0
               /\ f \notin M!IdsOf(gallery)' /\ \A s \in M!Slots : slot'[s] # f
    <3>1. /\ f \in files /\ f <= last /\ fetched[f] = 0
          /\ f \notin M!IdsOf(gallery) /\ \A s \in M!Slots : slot[s] # f
      BY DEF KnowsMedia, KnowsFiles
    <3>2. f \in Nat /\ f # None
      BY <1>2, <1>3
    <3> QED BY <1>2, <2>1, <3>1, <3>2 DEF Spares
  <2>4. \A f \in Doomed(q) : f <= last'
    <3> TAKE f \in Doomed(q)
    <3>1. f <= last /\ f \in Nat
      BY <1>2, <1>3 DEF KnowsMedia, KnowsFiles
    <3> QED BY <1>2, <3>1 DEF Spares
  <2>5. q.pc = "destroy" => /\ q.image \notin M!IdsOf(gallery)'
                            /\ \A s \in M!Slots : slot'[s] # q.image
    BY <1>2, <1>3, <2>1, <2>2 DEF KnowsMedia, KnowsFiles, Spares
  <2>6. slot'["avatar"] \notin q.todo
    BY <1>2, <1>3, <2>1, <2>2 DEF KnowsMedia, KnowsFiles, Spares
  <2>7. q.pc = "files" => ~there'
    BY DEF KnowsMedia, KnowsFiles, Spares
  <2>8. q.old # None => /\ q.old \notin M!IdsOf(gallery)'
                        /\ \A s \in M!Slots : slot'[s] = q.old => s = q.slot
    BY <2>1, <2>2 DEF KnowsMedia, KnowsFiles, Spares
  <2>9. ASSUME q.pc \in {"fill", "keep"}, q.old # None PROVE q.old \notin files' \/ q.old \in Lost'
    <3>1. q.old \notin files \/ q.old \in Lost
      BY <2>9 DEF KnowsMedia, KnowsFiles
    <3>2. q.old <= last /\ q.old \in Nat
      BY <1>2, <1>3, <2>2, <2>9 DEF KnowsMedia, KnowsFiles
    <3> QED BY <1>2, <3>1, <3>2 DEF Spares
  <2> QED BY <2>3, <2>4, <2>5, <2>6, <2>7, <2>8, <2>9 DEF KnowsFiles
<1> QED BY <1>1, <1>4, <1>5, <1>6 DEF KnowsMedia

\* Request q comes of request a: what it has uploaded, a had, or is new; what
\* it is to delete, a was to, or is of a document.
ComesOf(q, a) ==
  /\ \A f \in M!Range(q.got) : f \in M!Range(a.got) \/ f > last
  /\ \A f \in Doomed(q) : \/ f \in Doomed(a) \/ f \in M!IdsOf(gallery)
                          \/ \E s \in M!Slots : slot[s] = f

LEMMA StaysDisjoint ==
  ASSUME M!Sensible, MediaInv, NEW r \in Clients, NEW s \in Clients, r # s, NEW q, ComesOf(q, call[r])
  PROVE  DisjointFrom(q, call[s]) /\ DisjointFrom(call[s], q)
<1>1. PICK a : a = call[r]
  OBVIOUS
<1>2. PICK b : b = call[s]
  OBVIOUS
<1>3. b \in M!Request /\ KnowsMedia(b) /\ DisjointFrom(a, b) /\ DisjointFrom(b, a) /\ last \in Nat
  BY <1>1, <1>2 DEF MediaInv, M!TypeOK, AllDisjoint
<1>4. M!Range(b.got) \subseteq M!Ids /\ Doomed(b) \subseteq M!Ids /\ \A f \in M!Ids : f \in Nat
  BY <1>3, RequestOfType, DoomedOfType DEF KnowsMedia, M!Ids
<1>5. ComesOf(q, a)
  BY <1>1
<1>6. ASSUME NEW f \in M!Range(q.got) PROVE f \notin M!Range(b.got) \cup Doomed(b)
  <2>1. f \in M!Range(b.got) \cup Doomed(b) => f <= last /\ f \in Nat
    BY <1>3, <1>4 DEF KnowsMedia, KnowsFiles
  <2>2. f \in M!Range(a.got) => f \notin M!Range(b.got) \cup Doomed(b)
    BY <1>3 DEF DisjointFrom
  <2> QED BY <1>3, <1>5, <2>1, <2>2 DEF ComesOf
<1>7. ASSUME NEW f \in Doomed(q) PROVE f \notin M!Range(b.got)
  BY <1>3, <1>5 DEF ComesOf, DisjointFrom, KnowsMedia, KnowsFiles
<1> QED BY <1>2, <1>6, <1>7 DEF DisjointFrom

LEMMA RequestsKnow ==
  ASSUME M!Sensible, MediaInv, NEW r \in Clients, NEW q \in M!Request, M!Become(r, q),
         Spares(call[r]), ComesOf(q, call[r]), KnowsMedia(q)'
  PROVE  /\ call' \in [Clients -> M!Request]
         /\ \A s \in Clients : KnowsMedia(call[s])'
         /\ AllDisjoint'
<1>1. /\ call' = [call EXCEPT ![r] = q] /\ call \in [Clients -> M!Request]
      /\ M!TypeOK /\ \A s \in Clients : KnowsMedia(call[s])
  BY DEF M!Become, MediaInv, M!TypeOK
<1>2. call'[r] = q /\ \A s \in Clients : s # r => call'[s] = call[s]
  BY <1>1
<1>3. ASSUME NEW s \in Clients PROVE KnowsMedia(call[s])'
  <2>1. CASE s = r
    BY <1>2, <2>1 DEF KnowsMedia, Holds, HoldsCopy, HoldsFiles, KnowsGallery, KnowsFiles, KnowsFields,
                      Doomed, M!Current
  <2>2. CASE s # r
    <3>1. PICK b : b = call[s]
      OBVIOUS
    <3>2. PICK a : a = call[r]
      OBVIOUS
    <3>3. b \in M!Request /\ KnowsMedia(b) /\ DisjointFrom(a, b) /\ DisjointFrom(b, a)
      BY <1>1, <2>2, <3>1, <3>2 DEF MediaInv, AllDisjoint
    <3>4. KnowsMedia(b)'
      BY <1>1, <3>2, <3>3, KnowsMediaLasts
    <3>5. call'[s] = b
      BY <1>2, <2>2, <3>1
    <3> QED BY <3>4, <3>5 DEF KnowsMedia, Holds, HoldsCopy, HoldsFiles, KnowsGallery, KnowsFiles,
                              KnowsFields, Doomed, M!Current
  <2> QED BY <2>1, <2>2
<1>4. AllDisjoint'
  <2> SUFFICES ASSUME NEW s \in Clients, NEW t \in Clients, s # t
               PROVE  DisjointFrom(call'[s], call'[t])
    BY DEF AllDisjoint, DisjointFrom, Doomed
  <2>1. CASE s = r
    BY <1>2, <2>1, StaysDisjoint
  <2>2. CASE t = r
    BY <1>2, <2>2, StaysDisjoint
  <2>3. CASE s # r /\ t # r
    BY <1>2, <2>3 DEF MediaInv, AllDisjoint
  <2> QED BY <2>1, <2>2, <2>3
<1> QED BY <1>1, <1>3, <1>4

\* The type of all but the requests.
DocumentsTyped ==
  /\ there \in BOOLEAN /\ late \in BOOLEAN /\ crowded \in BOOLEAN
  /\ gallery \in Seq(M!Image) /\ version \in 0 .. MaxVersion
  /\ cover \in M!File /\ og \in M!File /\ slot \in [M!Slots -> M!File]
  /\ files \subseteq M!Ids /\ last \in 0 .. MaxFiles
  /\ fetched \in [M!Ids -> 0 .. MaxDownloads]
  /\ rewritten \subseteq M!Ids /\ broken \in BOOLEAN /\ Lost \subseteq M!Ids

\* Files request q is about to store or to delete.
HandOf(q) == IF q.pc \in {"put", "push", "destroy", "files", "keep"}
             THEN M!Range(q.got) \cup q.todo \cup ({q.image} \ {None}) ELSE {}

LEMMA HandsMove ==
  ASSUME M!TypeOK, NEW r \in Clients, NEW q, M!Become(r, q)
  PROVE  /\ \A f : f \in M!InHand <=> \E s \in Clients : f \in HandOf(call[s])
         /\ \A f : f \in M!InHand' <=>
              f \in HandOf(q) \/ \E s \in Clients : s # r /\ f \in HandOf(call[s])
<1>1. call'[r] = q /\ \A s \in Clients : s # r => call'[s] = call[s]
  BY DEF M!Become, M!TypeOK
<1>2. \A f : f \in M!InHand <=> \E s \in Clients : f \in HandOf(call[s])
  BY DEF M!InHand, HandOf
<1>3. \A f : f \in M!InHand' <=> \E s \in Clients : f \in HandOf(call'[s])
  BY DEF M!InHand, HandOf
<1> QED BY <1>1, <1>2, <1>3

LEMMA StayAccounted ==
  ASSUME MediaInv, NEW r \in Clients, NEW q, M!Become(r, q), Lost \subseteq Lost',
         \A f \in files' :
           \/ f \in HandOf(q) \/ f \in Lost'
           \/ f \in M!IdsOf(gallery)' \/ \E s \in M!Slots : slot'[s] = f
           \/ /\ f \in files /\ f \notin HandOf(call[r])
              /\ f \notin M!IdsOf(gallery) /\ \A s \in M!Slots : slot[s] # f
  PROVE  M!FilesAreAccountedFor'
<1> SUFFICES ASSUME NEW f \in files', f \notin M!IdsOf(gallery)', f \notin Lost',
                    \A s \in M!Slots : slot'[s] # f
             PROVE  f \in M!InHand'
  BY DEF M!FilesAreAccountedFor, Lost
<1>1. M!TypeOK /\ M!FilesAreAccountedFor
  BY DEF MediaInv
<1>2. CASE f \in HandOf(q)
  BY <1>1, <1>2, HandsMove
<1>3. CASE /\ f \in files /\ f \notin HandOf(call[r])
           /\ f \notin M!IdsOf(gallery) /\ \A s \in M!Slots : slot[s] # f
  <2>1. f \in M!InHand
    BY <1>1, <1>3 DEF M!FilesAreAccountedFor, Lost
  <2> QED BY <1>1, <1>3, <2>1, HandsMove
<1> QED BY <1>2, <1>3

LEMMA StayThere ==
  ASSUME MediaInv, NEW r \in Clients, NEW q, M!Become(r, q), (broken => broken'),
         M!IdsOf(gallery)' \subseteq files',
         \A s \in M!Slots :
           \/ slot'[s] = None \/ slot'[s] \in files' \/ Gone(s)' \/ Replaces(q, s, slot'[s])
           \/ slot'[s] = slot[s] /\ slot[s] \notin files /\ ~Replaces(call[r], s, slot[s])
  PROVE  FilesThere'
<1>1. M!TypeOK /\ FilesThere
  BY DEF MediaInv
<1>2. call'[r] = q /\ \A s \in Clients : s # r => call'[s] = call[s]
  BY <1>1 DEF M!Become, M!TypeOK
<1>3. ASSUME NEW s \in M!Slots, slot'[s] # None, slot'[s] \notin files'
      PROVE  Gone(s)' \/ \E t \in Clients : Replaces(call'[t], s, slot'[s])
  <2>1. CASE Gone(s)' \/ Replaces(q, s, slot'[s])
    BY <1>2, <2>1
  <2>2. CASE slot'[s] = slot[s] /\ slot[s] \notin files /\ ~Replaces(call[r], s, slot[s])
    <3>1. Gone(s) \/ \E t \in Clients : Replaces(call[t], s, slot[s])
      BY <1>1, <1>3, <2>2 DEF FilesThere, Replaces
    <3> QED BY <1>2, <2>2, <3>1 DEF Gone
  <2> QED BY <1>3, <2>1, <2>2
<1> QED BY <1>3 DEF FilesThere, Replaces

\* A step in the service of request r, which becomes q.
LEMMA MediaMoves ==
  ASSUME M!Sensible, MediaInv, NEW r \in Clients, NEW q \in M!Request, M!Become(r, q),
         Spares(call[r]), ComesOf(q, call[r]), KnowsMedia(q)', DocumentsTyped', Stored',
         M!CoverIsInGallery', M!GalleryIsInOrder', FilesThere', M!FilesAreAccountedFor'
  PROVE  MediaInv'
<1>1. /\ call' \in [Clients -> M!Request] /\ AllDisjoint'
      /\ \A s \in Clients : KnowsMedia(call[s])'
  BY RequestsKnow
<1>2. M!TypeOK'
  BY <1>1 DEF DocumentsTyped, M!TypeOK, Lost
<1> QED BY <1>1, <1>2 DEF MediaInv

\* A step that only decides.
LEMMA MediaDecides ==
  ASSUME M!Sensible, MediaInv, NEW r \in Clients, NEW q \in M!Request, M!Become(r, q), M!Stays,
         ComesOf(q, call[r]), KnowsMedia(q), HandOf(call[r]) \subseteq HandOf(q),
         call[r].pc \notin {"fill", "keep"}
  PROVE  MediaInv'
<1>1. /\ UNCHANGED <<there, gallery, version, cover, og, slot, files, last, fetched>>
      /\ UNCHANGED <<late, crowded, rewritten, broken, strays, unfound>>
  BY DEF M!Stays
<1>2. M!TypeOK /\ Stored /\ M!CoverIsInGallery /\ M!GalleryIsInOrder /\ FilesThere
  BY DEF MediaInv
<1>3. version \in Nat /\ last \in Nat
  BY <1>2 DEF M!TypeOK
<1>4. Spares(call[r])
  BY <1>1, <1>3 DEF Spares, SameImages, Lost
<1>5. KnowsMedia(q)'
  BY <1>1 DEF KnowsMedia, Holds, HoldsCopy, HoldsFiles, KnowsGallery, KnowsFiles, KnowsFields,
              Faithful, M!Current, Doomed, Lost
<1>6. DocumentsTyped' /\ Stored'
  BY <1>1, <1>2 DEF DocumentsTyped, M!TypeOK, Stored, Faithful, Lost
<1>7. M!CoverIsInGallery' /\ M!GalleryIsInOrder'
  BY <1>1, <1>2 DEF M!CoverIsInGallery, M!GalleryIsInOrder
<1>8. FilesThere'
  <2>1. M!IdsOf(gallery)' \subseteq files'
    BY <1>1, <1>2 DEF FilesThere
  <2>2. ASSUME NEW s \in M!Slots
        PROVE  \/ slot'[s] = None \/ slot'[s] \in files' \/ Gone(s)' \/ Replaces(q, s, slot'[s])
               \/ slot'[s] = slot[s] /\ slot[s] \notin files /\ ~Replaces(call[r], s, slot[s])
    BY <1>1 DEF Replaces
  <2> QED BY <1>1, <2>1, <2>2, StayThere
<1>9. M!FilesAreAccountedFor'
  <2>1. ASSUME NEW f \in files'
        PROVE  \/ f \in HandOf(q) \/ f \in Lost'
               \/ f \in M!IdsOf(gallery)' \/ \E s \in M!Slots : slot'[s] = f
               \/ /\ f \in files /\ f \notin HandOf(call[r])
                  /\ f \notin M!IdsOf(gallery) /\ \A s \in M!Slots : slot[s] # f
    BY <1>1
  <2> QED BY <1>1, <2>1, StayAccounted DEF Lost
<1> QED BY <1>4, <1>5, <1>6, <1>7, <1>8, <1>9, MediaMoves

-----------------------------------------------------------------------------
(* Steps that read and decide                                              *)

LEMMA IdleRequest ==
  ASSUME M!Sensible
  PROVE  /\ M!Idle \in M!Request /\ M!Idle.pc = "idle" /\ M!Idle.got = <<>> /\ M!Idle.todo = {}
         /\ M!Idle.old = None /\ M!Idle.image = None /\ M!Idle.new = <<>>
         /\ M!Idle.copy.gallery = <<>> /\ M!Idle.copy.version = 0
         /\ M!Range(M!Idle.got) = {} /\ Doomed(M!Idle) = {} /\ HandOf(M!Idle) = {}
<1>1. M!NoCopy \in M!Copy
  BY DEF M!NoCopy, M!Copy, M!File
<1>2. /\ M!Idle.pc = "idle" /\ M!Idle.got = <<>> /\ M!Idle.todo = {}
      /\ M!Idle.old = None /\ M!Idle.image = None /\ M!Idle.new = <<>>
      /\ M!Idle.copy = M!NoCopy
  BY DEF M!Idle
<1>3. M!Idle \in M!Request
  BY <1>1 DEF M!Idle, M!Request, M!PCs, M!File, M!Slots
<1>4. M!NoCopy.gallery = <<>> /\ M!NoCopy.version = 0
  BY DEF M!NoCopy
<1>5. M!Range(<<>>) = {}
  BY MediaOperators
<1> QED BY <1>2, <1>3, <1>4, <1>5 DEF Doomed, HandOf

\* A request that is over, or has not begun, takes nothing for granted.
LEMMA IdleKnows ==
  ASSUME M!Sensible, M!TypeOK
  PROVE  KnowsMedia(M!Idle)
<1>1. version \in Nat
  BY DEF M!TypeOK
<1>2. Holds(M!Idle)
  BY IdleRequest DEF Holds, HoldsCopy, HoldsFiles, Distinct
<1>3. KnowsGallery(M!Idle)
  BY <1>1, IdleRequest DEF KnowsGallery, Reading
<1>4. KnowsFiles(M!Idle) /\ KnowsFields(M!Idle)
  BY IdleRequest DEF KnowsFiles, KnowsFields
<1> QED BY <1>2, <1>3, <1>4 DEF KnowsMedia

LEMMA StartOfType ==
  ASSUME M!Sensible, M!TypeOK, NEW pc \in M!PCs, NEW q, q = M!Start(pc)
  PROVE  /\ q \in M!Request /\ q.pc = pc /\ q.copy = M!Read /\ q.image = None /\ q.got = <<>>
         /\ q.many = 0 /\ q.new = <<>> /\ q.old = None /\ q.todo = {}
<1>1. M!Read \in M!Copy
  BY DEF M!Read, M!Copy, M!TypeOK
<1>2. q = [M!Idle EXCEPT !.pc = pc, !.copy = M!Read] /\ M!Idle \in M!Request
  BY IdleRequest DEF M!Start
<1> HIDE DEF M!Start
<1>3. /\ q \in M!Request /\ q.pc = pc /\ q.copy = M!Read /\ q.image = M!Idle.image
      /\ q.got = M!Idle.got /\ q.many = M!Idle.many /\ q.new = M!Idle.new /\ q.old = M!Idle.old
      /\ q.todo = M!Idle.todo
  BY <1>1, <1>2 DEF M!Request
<1>4. M!Idle.many = 0
  BY DEF M!Idle
<1> QED BY <1>3, <1>4, IdleRequest

LEMMA ReadGallery ==
  /\ M!Read.gallery = gallery /\ M!Read.version = version
  /\ M!Read.cover = cover /\ M!Read.og = og
BY DEF M!Read

LEMMA IdleHolds ==
  ASSUME MediaInv, NEW r \in Clients, M!At(r, "idle")
  PROVE  /\ call[r].got = <<>> /\ M!Range(call[r].got) = {}
         /\ Doomed(call[r]) = {} /\ HandOf(call[r]) = {}
<1>1. HoldsFiles(call[r]) /\ call[r].pc = "idle"
  BY DEF MediaInv, KnowsMedia, Holds, M!At
<1>2. call[r].got = <<>> /\ call[r].todo = {} /\ call[r].old = None
  BY <1>1 DEF HoldsFiles
<1>3. M!Range(<<>>) = {}
  BY MediaOperators
<1> QED BY <1>1, <1>2, <1>3 DEF Doomed, HandOf

\* A request begins with a copy of what is stored.
LEMMA MediaStarts ==
  ASSUME M!Sensible, MediaInv, NEW r \in Clients, M!At(r, "idle"), M!Stays,
         NEW q \in M!Request, M!Become(r, q),
         q.copy = M!Read, q.got = <<>>, q.old = None, q.pc \in Reading \ {"push"},
         q.pc = "put" => 0 < q.many,
         q.image # None => q.pc \in {"rewrite", "cover", "publish", "alt"},
         q.todo \subseteq M!IdsOf(gallery), q.todo # {} => q.pc = "delete",
         HoldsCopy(q), KnowsFields(q)
  PROVE  MediaInv'
<1>1. /\ Doomed(call[r]) = {} /\ HandOf(call[r]) = {} /\ call[r].pc = "idle"
      /\ M!TypeOK /\ Stored /\ M!Range(q.got) = {}
  BY IdleHolds, MediaOperators DEF MediaInv, M!At
<1>2. Doomed(q) = q.todo
  BY DEF Doomed, Reading
<1>3. ASSUME NEW f \in q.todo
      PROVE  f \in M!Ids /\ f \in M!IdsOf(gallery)
  BY <1>3, RequestOfType
<1>4. None \notin M!Ids /\ "narration" \in M!Slots /\ "avatar" \in M!Slots
  BY DEF M!Sensible, M!Slots
<1>5. ComesOf(q, call[r])
  BY <1>1, <1>2, <1>3, <1>4 DEF ComesOf
<1>6. HoldsFiles(q)
  BY <1>1, EmptySeq DEF HoldsFiles, Reading
<1>7. KnowsGallery(q)
  <2>1. version \in Nat
    BY <1>1 DEF M!TypeOK
  <2> QED BY <2>1, ReadGallery DEF KnowsGallery, SameImages
<1>8. KnowsFiles(q)
  <2>1. \A f \in Doomed(q) : f <= last
    BY <1>1, <1>2, <1>3, <1>4 DEF Stored
  <2>2. slot["avatar"] \notin q.todo
    BY <1>1, <1>3, <1>4 DEF Stored
  <2> QED BY <1>1, <2>1, <2>2 DEF KnowsFiles, Reading
<1>9. KnowsMedia(q)
  BY <1>6, <1>7, <1>8 DEF KnowsMedia, Holds
<1> QED BY <1>1, <1>5, <1>9, MediaDecides

LEMMA AddImagesInv ==
  ASSUME M!Sensible, MediaInv, NEW r \in Clients, NEW n \in 1 .. MaxGallery, M!AddImages(r, n)
  PROVE  MediaInv'
<1>1. M!TypeOK /\ Stored /\ "put" \in M!PCs
  BY DEF MediaInv, M!PCs
<1>2. PICK b : b = M!Start("put")
  OBVIOUS
<1>3. /\ b \in M!Request /\ b.pc = "put" /\ b.copy = M!Read /\ b.image = None /\ b.got = <<>>
      /\ b.new = <<>> /\ b.old = None /\ b.todo = {}
  BY <1>1, <1>2, StartOfType
<1>4. PICK q : q = [b EXCEPT !.many = n]
  OBVIOUS
<1>5. /\ q \in M!Request /\ q.pc = "put" /\ q.copy = M!Read /\ q.image = None /\ q.got = <<>>
      /\ q.many = n /\ q.new = <<>> /\ q.old = None /\ q.todo = {}
  <2>1. n \in Nat
    BY DEF M!Sensible
  <2> QED BY <1>3, <1>4, <2>1 DEF M!Request
<1>6. M!At(r, "idle") /\ M!Become(r, q) /\ M!Stays /\ Len(gallery) + n <= MaxGallery
  BY <1>2, <1>4 DEF M!AddImages, M!Begins, M!HasRoom
<1>7. HoldsCopy(q) /\ KnowsFields(q) /\ 0 < q.many
  BY <1>1, <1>5, <1>6, ReadGallery DEF HoldsCopy, KnowsFields, Stored
<1>8. q.pc \in Reading \ {"push"}
  BY <1>5 DEF Reading
<1> QED BY <1>5, <1>6, <1>7, <1>8, MediaStarts

\* A request that will write another gallery begins.
LEMMA RewriteStarts ==
  ASSUME M!Sensible, MediaInv, NEW r \in Clients, M!At(r, "idle"), M!Stays,
         NEW f \in M!File, f = None \/ f \in M!IdsOf(gallery),
         NEW w \in Seq(M!Image), Distinct(w), Numbered(w), M!IdsOf(w) = M!IdsOf(gallery) \ {f},
         \A k \in DOMAIN w : \E i \in DOMAIN gallery : SameFields(w[k], gallery[i]),
         NEW b, b = M!Start("rewrite"), NEW q, q = [b EXCEPT !.image = f, !.new = w],
         M!Become(r, q)
  PROVE  MediaInv'
<1>1. M!TypeOK /\ Stored /\ "rewrite" \in M!PCs
  BY DEF MediaInv, M!PCs
<1>2. /\ q \in M!Request /\ q.pc = "rewrite" /\ q.copy = M!Read /\ q.image = f /\ q.got = <<>>
      /\ q.new = w /\ q.old = None /\ q.todo = {}
  <2>1. /\ b \in M!Request /\ b.pc = "rewrite" /\ b.copy = M!Read /\ b.image = None
        /\ b.got = <<>> /\ b.new = <<>> /\ b.old = None /\ b.todo = {}
    BY <1>1, StartOfType
  <2> QED BY <2>1 DEF M!Request
<1>3. HoldsCopy(q)
  BY <1>1, <1>2, ReadGallery DEF HoldsCopy, Stored
<1>4. KnowsFields(q)
  <2> SUFFICES ASSUME NEW k \in DOMAIN w PROVE Faithful(w[k])
    BY <1>2 DEF KnowsFields
  <2>1. PICK i \in DOMAIN gallery : SameFields(w[k], gallery[i])
    OBVIOUS
  <2>2. Faithful(gallery[i])
    BY <1>1 DEF Stored
  <2> QED BY <2>1, <2>2 DEF SameFields, Faithful
<1>5. q.pc \in Reading \ {"push"}
  BY <1>2 DEF Reading
<1> QED BY <1>2, <1>3, <1>4, <1>5, MediaStarts

LEMMA RemoveImageInv ==
  ASSUME M!Sensible, MediaInv, NEW r \in Clients, NEW f \in M!Ids, M!RemoveImage(r, f)
  PROVE  MediaInv'
<1>1. /\ M!At(r, "idle") /\ M!Stays /\ f \in M!IdsOf(gallery) /\ f \in M!File
      /\ gallery \in Seq(M!Image) /\ Distinct(gallery)
  BY DEF M!RemoveImage, M!Begins, M!File, MediaInv, M!TypeOK, Stored
<1>2. PICK w : w = M!Without(gallery, f)
  OBVIOUS
<1>3. /\ w \in Seq(M!Image) /\ Distinct(w) /\ Numbered(w)
      /\ M!IdsOf(w) = M!IdsOf(gallery) \ {f}
      /\ \A k \in DOMAIN w : \E i \in DOMAIN gallery : SameFields(w[k], gallery[i])
  BY <1>1, <1>2, WithoutImage
<1>4. PICK b : b = M!Start("rewrite")
  OBVIOUS
<1>5. PICK q : q = [b EXCEPT !.image = f, !.new = w]
  OBVIOUS
<1>6. M!Become(r, q)
  BY <1>2, <1>4, <1>5 DEF M!RemoveImage
<1> QED BY <1>1, <1>3, <1>4, <1>5, <1>6, RewriteStarts

LEMMA ReorderInv ==
  ASSUME M!Sensible, MediaInv, NEW r \in Clients,
         NEW order \in [1 .. Cardinality(M!IdsOf(gallery)) -> M!IdsOf(gallery)],
         M!Reorder(r, order)
  PROVE  MediaInv'
<1>1. /\ M!At(r, "idle") /\ M!Stays /\ M!Range(order) = M!IdsOf(gallery)
      /\ gallery \in Seq(M!Image) /\ Distinct(gallery)
  BY DEF M!Reorder, M!Begins, MediaInv, M!TypeOK, Stored
<1>2. PICK h : h = M!Reordered(gallery, order)
  OBVIOUS
<1>3. PICK w : w = M!InOrder(h, DOMAIN h)
  OBVIOUS
<1>4. /\ w \in Seq(M!Image) /\ Distinct(w) /\ Numbered(w)
      /\ M!IdsOf(w) = M!IdsOf(gallery)
      /\ \A k \in DOMAIN w : \E i \in DOMAIN gallery : SameFields(w[k], gallery[i])
  BY <1>1, <1>2, <1>3, ReorderedImages
<1>5. PICK b : b = M!Start("rewrite")
  OBVIOUS
<1>6. PICK q : q = [b EXCEPT !.image = None, !.new = w]
  OBVIOUS
<1>7. M!Become(r, q)
  <2>1. b \in M!Request /\ b.image = None
    BY <1>5, StartOfType DEF MediaInv, M!PCs
  <2>2. q = [b EXCEPT !.new = w]
    BY <1>6, <2>1 DEF M!Request
  <2> QED BY <1>2, <1>3, <1>5, <2>2 DEF M!Reorder
<1>8. None \in M!File /\ None \notin M!IdsOf(gallery)
  BY <1>1, GalleryOfType DEF M!File, M!Sensible
<1> QED BY <1>1, <1>4, <1>5, <1>6, <1>7, <1>8, RewriteStarts

\* The other requests about an image.
LEMMA ImageStarts ==
  ASSUME M!Sensible, MediaInv, NEW r \in Clients, M!At(r, "idle"), M!Stays,
         NEW pc \in {"cover", "alt", "publish"}, NEW f \in M!File,
         pc \in {"cover", "alt"} => f \in M!IdsOf(gallery),
         pc = "publish" => f = (IF cover # None THEN cover
                                ELSE IF gallery # <<>> THEN gallery[1].id ELSE None),
         M!Become(r, [M!Start(pc) EXCEPT !.image = f])
  PROVE  MediaInv'
<1>1. M!TypeOK /\ Stored /\ pc \in M!PCs
  BY DEF MediaInv, M!PCs
<1>2. PICK b : b = M!Start(pc)
  OBVIOUS
<1>3. /\ b \in M!Request /\ b.pc = pc /\ b.copy = M!Read /\ b.image = None /\ b.got = <<>>
      /\ b.new = <<>> /\ b.old = None /\ b.todo = {}
  BY <1>1, <1>2, StartOfType
<1>4. PICK q : q = [b EXCEPT !.image = f]
  OBVIOUS
<1>5. /\ q \in M!Request /\ q.pc = pc /\ q.copy = M!Read /\ q.image = f /\ q.got = <<>>
      /\ q.new = <<>> /\ q.old = None /\ q.todo = {}
  BY <1>3, <1>4 DEF M!Request
<1>6. M!Become(r, q)
  BY <1>2, <1>4
<1>7. HoldsCopy(q) /\ KnowsFields(q)
  BY <1>1, <1>5, ReadGallery DEF HoldsCopy, KnowsFields, Stored
<1>8. q.pc \in Reading \ {"push"}
  BY <1>5 DEF Reading
<1> QED BY <1>5, <1>6, <1>7, <1>8, MediaStarts

LEMMA SetCoverInv ==
  ASSUME M!Sensible, MediaInv, NEW r \in Clients, NEW f \in M!Ids, M!SetCover(r, f)
  PROVE  MediaInv'
<1>1. /\ M!At(r, "idle") /\ M!Stays /\ f \in M!IdsOf(gallery) /\ f \in M!File
      /\ M!Become(r, [M!Start("cover") EXCEPT !.image = f])
  BY DEF M!SetCover, M!Begins, M!File
<1> QED BY <1>1, ImageStarts

LEMMA DescribeImageInv ==
  ASSUME M!Sensible, MediaInv, NEW r \in Clients, NEW f \in M!Ids, M!DescribeImage(r, f)
  PROVE  MediaInv'
<1>1. /\ M!At(r, "idle") /\ M!Stays /\ f \in M!IdsOf(gallery) /\ f \in M!File
      /\ M!Become(r, [M!Start("alt") EXCEPT !.image = f])
  BY DEF M!DescribeImage, M!Begins, M!File
<1> QED BY <1>1, ImageStarts

LEMMA PublishInv ==
  ASSUME M!Sensible, MediaInv, NEW r \in Clients, M!Publish(r)
  PROVE  MediaInv'
<1>1. PICK f : f = (IF cover # None THEN cover
                    ELSE IF gallery # <<>> THEN gallery[1].id ELSE None)
  OBVIOUS
<1>2. /\ M!At(r, "idle") /\ M!Stays /\ M!Become(r, [M!Start("publish") EXCEPT !.image = f])
  BY <1>1 DEF M!Publish, M!Begins
<1>3. f \in M!File
  <2>1. cover \in M!File /\ gallery \in Seq(M!Image)
    BY DEF MediaInv, M!TypeOK
  <2>2. gallery # <<>> => 1 \in DOMAIN gallery
    BY <2>1
  <2> QED BY <1>1, <2>1, <2>2, GalleryOfType DEF M!File
<1> QED BY <1>1, <1>2, <1>3, ImageStarts

LEMMA RemoveMediaInv ==
  ASSUME M!Sensible, MediaInv, NEW r \in Clients, M!RemovePost(r)
  PROVE  MediaInv'
<1>1. M!TypeOK /\ Stored /\ "delete" \in M!PCs
  BY DEF MediaInv, M!PCs
<1>2. PICK b : b = M!Start("delete")
  OBVIOUS
<1>3. /\ b \in M!Request /\ b.pc = "delete" /\ b.copy = M!Read /\ b.image = None /\ b.got = <<>>
      /\ b.new = <<>> /\ b.old = None /\ b.todo = {}
  BY <1>1, <1>2, StartOfType
<1>4. PICK q : q = [b EXCEPT !.todo = M!IdsOf(gallery)]
  OBVIOUS
<1>5. M!IdsOf(gallery) \subseteq M!Ids
  BY <1>1, GalleryOfType DEF M!TypeOK, M!File, M!Slots
<1>6. /\ q \in M!Request /\ q.pc = "delete" /\ q.copy = M!Read /\ q.image = None /\ q.got = <<>>
      /\ q.new = <<>> /\ q.old = None /\ q.todo = M!IdsOf(gallery)
  BY <1>3, <1>4, <1>5 DEF M!Request
<1>7. M!At(r, "idle") /\ M!Stays /\ M!Become(r, q)
  BY <1>2, <1>4 DEF M!RemovePost, M!Begins
<1>8. HoldsCopy(q) /\ KnowsFields(q)
  BY <1>1, <1>6, ReadGallery DEF HoldsCopy, KnowsFields, Stored
<1>9. q.pc \in Reading \ {"push"}
  BY <1>6 DEF Reading
<1> QED BY <1>6, <1>7, <1>8, <1>9, MediaStarts

LEMMA ReplaceInv ==
  ASSUME M!Sensible, MediaInv, NEW r \in Clients, NEW s \in M!Slots, M!Replace(r, s)
  PROVE  MediaInv'
<1>1. M!TypeOK /\ Stored /\ version \in Nat /\ slot[s] \in M!File
  BY DEF MediaInv, M!TypeOK
<1>2. PICK q : q = [M!Idle EXCEPT !.pc = IF slot[s] = None THEN "fill" ELSE "drop", !.slot = s,
                                  !.old = slot[s]]
  OBVIOUS
<1>3. /\ q \in M!Request /\ q.pc = (IF slot[s] = None THEN "fill" ELSE "drop")
      /\ q.copy = M!Idle.copy /\ q.image = None /\ q.got = <<>> /\ q.new = <<>> /\ q.slot = s
      /\ q.old = slot[s] /\ q.todo = {}
  <2>1. PICK i : i = M!Idle
    OBVIOUS
  <2>2. i \in M!Request
    BY <2>1, IdleRequest
  <2>3. q = [i EXCEPT !.pc = IF slot[s] = None THEN "fill" ELSE "drop", !.slot = s, !.old = slot[s]]
    BY <1>2, <2>1
  <2>4. /\ q \in M!Request /\ q.pc = (IF slot[s] = None THEN "fill" ELSE "drop")
        /\ q.copy = i.copy /\ q.image = i.image /\ q.got = i.got /\ q.new = i.new /\ q.slot = s
        /\ q.old = slot[s] /\ q.todo = i.todo
    BY <1>1, <2>2, <2>3 DEF M!Request, M!PCs
  <2> QED BY <2>1, <2>4, IdleRequest
<1>4. M!At(r, "idle") /\ M!Stays /\ M!Become(r, q)
  BY <1>2 DEF M!Replace
<1>5. Doomed(call[r]) = {} /\ HandOf(call[r]) = {} /\ call[r].pc = "idle" /\ M!Range(q.got) = {}
  <2>1. M!Range(<<>>) = {}
    BY MediaOperators
  <2>2. Doomed(call[r]) = {} /\ HandOf(call[r]) = {} /\ call[r].pc = "idle"
    BY <1>4, IdleHolds DEF M!At
  <2> QED BY <1>3, <2>1, <2>2
<1>6. Doomed(q) = {slot[s]} \ {None}
  BY <1>3 DEF Doomed
<1>7. ComesOf(q, call[r])
  BY <1>5, <1>6 DEF ComesOf
<1>8. Holds(q)
  <2>1. HoldsFiles(q)
    BY <1>3, <1>5 DEF HoldsFiles
  <2>2. HoldsCopy(q)
    BY <1>3, IdleRequest DEF HoldsCopy, Distinct
  <2> QED BY <2>1, <2>2 DEF Holds
<1>9. KnowsGallery(q)
  BY <1>1, <1>3, IdleRequest DEF KnowsGallery, Reading
<1>10. KnowsFiles(q)
  <2>1. \A f \in Doomed(q) : f <= last
    BY <1>1, <1>6 DEF Stored
  <2>2. q.old # None => /\ q.old \notin M!IdsOf(gallery)
                        /\ \A t \in M!Slots : slot[t] = q.old => t = q.slot
    BY <1>1, <1>3 DEF Stored, M!Slots
  <2> QED BY <1>3, <1>5, <2>1, <2>2 DEF KnowsFiles
<1>11. KnowsFields(q)
  BY <1>3 DEF KnowsFields
<1> QED BY <1>3, <1>4, <1>5, <1>7, <1>8, <1>9, <1>10, <1>11, MediaDecides DEF KnowsMedia

-----------------------------------------------------------------------------
(* Uploads                                                                 *)

\* What is known before a step of a request.
LEMMA Before ==
  ASSUME M!Sensible, MediaInv, NEW r \in Clients, NEW a, a = call[r]
  PROVE  /\ a \in M!Request /\ KnowsMedia(a) /\ HoldsFiles(a) /\ HoldsCopy(a)
         /\ KnowsGallery(a) /\ KnowsFiles(a) /\ KnowsFields(a)
         /\ M!TypeOK /\ Stored /\ DocumentsTyped
         /\ version \in Nat /\ last \in Nat /\ None \notin M!Ids
         /\ \A f \in M!Ids : f \in Nat
         /\ \A s \in M!Slots : slot[s] \in M!Ids \/ slot[s] = None
         /\ "narration" \in M!Slots /\ "avatar" \in M!Slots
         /\ gallery \in Seq(M!Image) /\ M!IdsOf(gallery) \subseteq M!Ids
<1>1. M!TypeOK /\ Stored /\ a \in M!Request /\ KnowsMedia(a)
  BY DEF MediaInv, M!TypeOK
<1>2. /\ version \in Nat /\ last \in Nat /\ None \notin M!Ids
      /\ \A f \in M!Ids : f \in Nat
      /\ \A s \in M!Slots : slot[s] \in M!Ids \/ slot[s] = None
      /\ "narration" \in M!Slots /\ "avatar" \in M!Slots
      /\ gallery \in Seq(M!Image)
  BY <1>1 DEF M!TypeOK, M!Sensible, M!Ids, M!Slots, M!File
<1>3. M!IdsOf(gallery) \subseteq M!Ids
  BY <1>2, GalleryOfType
<1>4. DocumentsTyped
  BY <1>1 DEF DocumentsTyped, M!TypeOK, Lost
<1> QED BY <1>1, <1>2, <1>3, <1>4 DEF KnowsMedia, Holds

LEMMA UploadInv ==
  ASSUME M!Sensible, MediaInv, NEW r \in Clients, NEW a, a = call[r], M!Uploaded,
         UNCHANGED <<there, gallery, version, cover, og, slot, fetched, late, crowded>>,
         UNCHANGED <<rewritten, broken, strays, unfound>>,
         NEW q \in M!Request, M!Become(r, q), Holds(q),
         M!Range(q.got) = M!Range(a.got) \cup {last'},
         q.copy = a.copy, q.slot = a.slot, q.old = a.old, q.new = a.new,
         \/ a.pc = "put" /\ q.pc \in {"put", "push"}
         \/ a.pc = "fill" /\ q.pc = "keep"
  PROVE  MediaInv'
<1>1. /\ a \in M!Request /\ KnowsMedia(a) /\ HoldsFiles(a) /\ KnowsGallery(a) /\ KnowsFiles(a)
      /\ M!TypeOK /\ Stored /\ DocumentsTyped
      /\ version \in Nat /\ last \in Nat /\ None \notin M!Ids
      /\ \A f \in M!Ids : f \in Nat
      /\ \A s \in M!Slots : slot[s] \in M!Ids \/ slot[s] = None
      /\ M!IdsOf(gallery) \subseteq M!Ids
  BY Before
<1>2. /\ last' = last + 1 /\ files' = files \cup {last'} /\ last' \in M!Ids /\ last < last'
      /\ last' \in 0 .. MaxFiles
  BY <1>1 DEF M!Uploaded, M!Ids, M!Sensible
<1>3. /\ q.todo = {} /\ Doomed(q) = {q.old} \ {None} /\ Doomed(q) \subseteq Doomed(a)
      /\ Doomed(q) \subseteq M!Ids
  BY DoomedOfType DEF Holds, HoldsFiles, Doomed
<1>4. Spares(a)
  BY <1>1, <1>2 DEF Spares, SameImages, Lost
<1>5. ComesOf(q, a)
  BY <1>1, <1>2, <1>3 DEF ComesOf
<1>6. KnowsGallery(q)'
  BY <1>1 DEF KnowsGallery, Reading, M!Current
<1>7. KnowsFiles(q)'
  <2>1. ASSUME NEW f \in M!Range(q.got)
        PROVE  /\ f \in files' /\ f <= last' /\ fetched'[f] = 0
               /\ f \notin M!IdsOf(gallery)' /\ \A s \in M!Slots : slot'[s] # f
    <3>1. CASE f = last'
      <4>1. fetched[f] = 0
        BY <1>2, <3>1 DEF Stored, MediaInv
      <4>2. f \notin M!IdsOf(gallery) /\ \A s \in M!Slots : slot[s] # f
        BY <1>1, <1>2, <3>1 DEF Stored
      <4> QED BY <1>1, <1>2, <3>1, <4>1, <4>2
    <3>2. CASE f \in M!Range(a.got)
      <4>1. /\ f \in files /\ f <= last /\ fetched[f] = 0
            /\ f \notin M!IdsOf(gallery) /\ \A s \in M!Slots : slot[s] # f
        BY <1>1, <3>2 DEF KnowsFiles
      <4>2. f \in Nat
        BY <1>1, <2>1, RequestOfType
      <4> QED BY <1>1, <1>2, <4>1, <4>2
    <3> QED BY <2>1, <3>1, <3>2
  <2>2. \A f \in Doomed(q) : f <= last /\ f \in Nat
    BY <1>1, <1>3 DEF KnowsFiles
  <2>3. q.old # None => q.old \in Doomed(q)
    BY <1>3
  <2>4. q.pc \in {"fill", "keep"} /\ q.old # None => q.old \notin files' \/ q.old \in Lost'
    BY <1>1, <1>2, <2>2, <2>3 DEF KnowsFiles, Lost
  <2>5. q.old # None => /\ q.old \notin M!IdsOf(gallery)'
                        /\ \A s \in M!Slots : slot'[s] = q.old => s = q.slot
    BY <1>1 DEF KnowsFiles
  <2>6. \A f \in Doomed(q) : f <= last'
    BY <1>1, <1>2, <2>2
  <2> QED BY <1>3, <2>1, <2>4, <2>5, <2>6 DEF KnowsFiles
<1>8. KnowsMedia(q)'
  <2>1. KnowsFields(q)'
    BY <1>1 DEF KnowsMedia, KnowsFields, Faithful
  <2>2. Holds(q)'
    BY DEF Holds, HoldsCopy, HoldsFiles
  <2> QED BY <1>6, <1>7, <2>1, <2>2 DEF KnowsMedia
<1>9. DocumentsTyped'
  BY <1>1, <1>2 DEF DocumentsTyped, Lost
<1>10. Stored'
  <2>1. ASSUME NEW f \in M!Ids, f <= last PROVE f <= last'
    BY <1>1, <1>2, <2>1
  <2>2. ASSUME NEW f \in M!Ids, f > last' PROVE fetched'[f] = 0
    <3>1. f > last
      BY <1>1, <1>2, <2>2
    <3> QED BY <1>1, <3>1 DEF Stored
  <2>3. /\ \A f \in M!IdsOf(gallery) : f <= last' /\ \A s \in M!Slots : slot[s] # f
        /\ \A s \in M!Slots : slot[s] # None => slot[s] <= last'
    BY <1>1, <2>1 DEF Stored
  <2>4. \A f \in files' : f <= last'
    BY <1>1, <1>2, <2>1 DEF Stored, DocumentsTyped
  <2> QED BY <1>1, <2>2, <2>3, <2>4 DEF Stored, Faithful
<1>11. M!CoverIsInGallery' /\ M!GalleryIsInOrder'
  BY DEF MediaInv, M!CoverIsInGallery, M!GalleryIsInOrder
<1>12. FilesThere'
  <2>1. M!IdsOf(gallery)' \subseteq files'
    BY <1>2 DEF MediaInv, FilesThere
  <2>2. ASSUME NEW s \in M!Slots
        PROVE  \/ slot'[s] = None \/ slot'[s] \in files' \/ Gone(s)' \/ Replaces(q, s, slot'[s])
               \/ slot'[s] = slot[s] /\ slot[s] \notin files /\ ~Replaces(call[r], s, slot[s])
    BY <1>2 DEF Replaces
  <2> QED BY <2>1, <2>2, StayThere
<1>13. M!FilesAreAccountedFor'
  <2>1. HandOf(a) \subseteq HandOf(q) /\ last' \in HandOf(q)
    BY DEF HandOf, Holds, HoldsFiles, MediaInv, KnowsMedia
  <2>2. ASSUME NEW f \in files'
        PROVE  \/ f \in HandOf(q) \/ f \in Lost'
               \/ f \in M!IdsOf(gallery)' \/ \E s \in M!Slots : slot'[s] = f
               \/ /\ f \in files /\ f \notin HandOf(call[r])
                  /\ f \notin M!IdsOf(gallery) /\ \A s \in M!Slots : slot[s] # f
    BY <1>2, <2>1
  <2> QED BY <2>2, StayAccounted DEF Lost
<1> QED BY <1>4, <1>5, <1>8, <1>9, <1>10, <1>11, <1>12, <1>13, MediaMoves

\* List t of files is list s and file f.
AndThen(t, s, f) ==
  /\ t \in Seq(M!Ids) /\ Len(s) \in Nat /\ Len(t) = Len(s) + 1 /\ t # <<>>
  /\ M!Range(t) = M!Range(s) \cup {f}
  /\ \A i \in DOMAIN t : IF i \in DOMAIN s THEN t[i] = s[i] ELSE i = Len(s) + 1 /\ t[i] = f

LEMMA AppendOne ==
  ASSUME NEW s \in Seq(M!Ids), NEW f \in M!Ids, NEW t, t = Append(s, f)
  PROVE  AndThen(t, s, f)
<1>1. /\ t \in Seq(M!Ids) /\ Len(s) \in Nat /\ Len(t) = Len(s) + 1
      /\ DOMAIN s = 1 .. Len(s) /\ DOMAIN t = 1 .. Len(t)
      /\ \A i \in 1 .. Len(s) : t[i] = s[i]
      /\ t[Len(s) + 1] = f
  OBVIOUS
<1>2. \A i \in DOMAIN t : IF i \in DOMAIN s THEN t[i] = s[i] ELSE i = Len(s) + 1 /\ t[i] = f
  BY <1>1
<1>3. M!Range(t) = M!Range(s) \cup {f}
  <2>1. M!Range(t) = {t[i] : i \in DOMAIN t} /\ M!Range(s) = {s[i] : i \in DOMAIN s}
    BY MediaOperators
  <2>2. \A i \in DOMAIN t : t[i] \in {s[j] : j \in DOMAIN s} \cup {f}
    BY <1>2
  <2>3. \A j \in DOMAIN s : j \in DOMAIN t /\ t[j] = s[j]
    BY <1>1
  <2>4. f \in {t[i] : i \in DOMAIN t}
    BY <1>1
  <2> QED BY <2>1, <2>2, <2>3, <2>4
<1>4. t # <<>>
  <2>1. Len(t) # 0
    BY <1>1
  <2> QED BY <2>1, EmptySeq
<1> QED BY <1>1, <1>2, <1>3, <1>4 DEF AndThen

LEMMA PutFileInv ==
  ASSUME M!Sensible, MediaInv, NEW r \in Clients, M!PutFile(r)
  PROVE  MediaInv'
<1>1. PICK a : a = call[r]
  OBVIOUS
<1>2. /\ a \in M!Request /\ HoldsFiles(a) /\ HoldsCopy(a) /\ KnowsFiles(a) /\ KnowsFields(a)
      /\ last \in Nat /\ \A f \in M!Ids : f \in Nat
  BY <1>1, Before
<1>3. a.pc = "put" /\ M!Uploaded
  BY <1>1 DEF M!PutFile, M!At
<1>4. last' = last + 1 /\ last' \in M!Ids
  BY <1>2, <1>3 DEF M!Uploaded, M!Ids, M!Sensible, MediaInv, M!TypeOK
<1>5. PICK t : t = Append(a.got, last')
  OBVIOUS
<1>6. /\ t \in Seq(M!Ids) /\ Len(a.got) \in Nat /\ Len(t) = Len(a.got) + 1 /\ t # <<>>
      /\ M!Range(t) = M!Range(a.got) \cup {last'}
      /\ \A i \in DOMAIN t : IF i \in DOMAIN a.got THEN t[i] = a.got[i]
                             ELSE i = Len(a.got) + 1 /\ t[i] = last'
  <2>1. a.got \in Seq(M!Ids)
    BY <1>2, RequestOfType
  <2>2. PICK f \in M!Ids : f = last'
    BY <1>4
  <2>3. t = Append(a.got, f)
    BY <1>5, <2>2
  <2>4. AndThen(t, a.got, f)
    BY <2>1, <2>3, AppendOne
  <2> QED BY <2>2, <2>4 DEF AndThen
<1>7. PICK q : q = [a EXCEPT !.got = t, !.pc = IF Len(t) = a.many THEN "push" ELSE "put"]
  OBVIOUS
<1>8. /\ q \in M!Request /\ q.got = t /\ q.pc = (IF Len(t) = a.many THEN "push" ELSE "put")
      /\ q.copy = a.copy /\ q.slot = a.slot /\ q.old = a.old /\ q.new = a.new /\ q.many = a.many
      /\ q.image = a.image /\ q.todo = a.todo
  BY <1>2, <1>6, <1>7 DEF M!Request, M!PCs
<1>9. M!Become(r, q)
  BY <1>1, <1>5, <1>7 DEF M!PutFile
<1>10. HoldsFiles(q)
  <2>1. \A i \in DOMAIN a.got : a.got[i] <= last /\ a.got[i] # last'
    <3> TAKE i \in DOMAIN a.got
    <3>1. a.got[i] \in M!Range(a.got)
      BY MediaOperators
    <3>2. a.got[i] <= last /\ a.got[i] \in Nat
      BY <1>2, <3>1, RequestOfType DEF KnowsFiles
    <3> QED BY <1>2, <1>4, <3>2
  <2>2. \A i, j \in DOMAIN t : t[i] = t[j] => i = j
    BY <1>2, <1>6, <2>1 DEF HoldsFiles
  <2>3. a.old = None /\ a.many \in Nat /\ Len(a.got) < a.many /\ a.todo = {} /\ a.image = None
    BY <1>2, <1>3, RequestOfType DEF HoldsFiles
  <2>4. a.old \notin M!Range(t)
    BY <1>6, <2>3, MediaOperators DEF M!Sensible
  <2>5. q.pc = "put" => Len(t) < a.many
    BY <1>6, <1>8, <2>3
  <2> QED BY <1>6, <1>8, <2>2, <2>3, <2>4, <2>5 DEF HoldsFiles
<1>11. HoldsCopy(q)
  BY <1>2, <1>3, <1>8 DEF HoldsCopy
<1>12. Holds(q)
  BY <1>10, <1>11 DEF Holds
<1>13. UNCHANGED <<there, gallery, version, cover, og, slot, fetched, late, crowded, rewritten,
                   broken, strays, unfound>>
  BY DEF M!PutFile, M!galleryVars
<1> QED BY <1>1, <1>3, <1>6, <1>8, <1>9, <1>12, <1>13, UploadInv

LEMMA FillInv ==
  ASSUME M!Sensible, MediaInv, NEW r \in Clients, M!Fill(r)
  PROVE  MediaInv'
<1>1. PICK a : a = call[r]
  OBVIOUS
<1>2. /\ a \in M!Request /\ HoldsFiles(a) /\ HoldsCopy(a) /\ KnowsFiles(a) /\ KnowsFields(a)
      /\ last \in Nat /\ \A f \in M!Ids : f \in Nat
  BY <1>1, Before
<1>3. a.pc = "fill" /\ M!Uploaded
  BY <1>1 DEF M!Fill, M!At
<1>4. last' = last + 1 /\ last' \in M!Ids
  BY <1>2, <1>3 DEF M!Uploaded, M!Ids, M!Sensible, MediaInv, M!TypeOK
<1>5. PICK t : t = <<last'>>
  OBVIOUS
<1>6. /\ t \in Seq(M!Ids) /\ Len(t) = 1 /\ t # <<>> /\ DOMAIN t = {1} /\ M!Range(t) = {last'}
  <2>1. t \in Seq(M!Ids) /\ Len(t) = 1 /\ DOMAIN t = {1} /\ t[1] = last' /\ t # <<>>
    BY <1>4, <1>5, OneLong
  <2> QED BY <2>1, MediaOperators
<1>7. PICK q : q = [a EXCEPT !.pc = "keep", !.got = t]
  OBVIOUS
<1>8. /\ q \in M!Request /\ q.got = t /\ q.pc = "keep"
      /\ q.copy = a.copy /\ q.slot = a.slot /\ q.old = a.old /\ q.new = a.new
      /\ q.image = a.image /\ q.todo = a.todo
  BY <1>2, <1>6, <1>7 DEF M!Request, M!PCs
<1>9. M!Become(r, q)
  BY <1>1, <1>5, <1>7 DEF M!Fill
<1>10. HoldsFiles(q)
  <2>1. a.got = <<>> /\ a.todo = {} /\ a.image = None
    BY <1>2, <1>3 DEF HoldsFiles
  <2>2. a.old # last'
    <3>1. a.old # None => a.old \in Doomed(a) /\ a.old \in M!Ids
      BY <1>2, RequestOfType DEF Doomed, M!File
    <3>2. a.old # None => a.old <= last /\ a.old \in Nat
      BY <1>2, <3>1 DEF KnowsFiles
    <3> QED BY <1>2, <1>4, <3>2 DEF M!Sensible
  <2> QED BY <1>6, <1>8, <2>1, <2>2 DEF HoldsFiles
<1>11. HoldsCopy(q)
  BY <1>2, <1>8 DEF HoldsCopy
<1>12. Holds(q)
  BY <1>10, <1>11 DEF Holds
<1>13. M!Range(q.got) = M!Range(a.got) \cup {last'}
  BY <1>2, <1>3, <1>6, <1>8, MediaOperators DEF HoldsFiles
<1>14. UNCHANGED <<there, gallery, version, cover, og, slot, fetched, late, crowded, rewritten,
                   broken, strays, unfound>>
  BY DEF M!Fill, M!galleryVars
<1> QED BY <1>1, <1>3, <1>8, <1>9, <1>12, <1>13, <1>14, UploadInv

-----------------------------------------------------------------------------
(* Writing the gallery                                                     *)

\* A request that is over.
LEMMA EndKnows ==
  ASSUME M!Sensible, version' \in Nat, NEW a
  PROVE  KnowsMedia(M!Idle)' /\ ComesOf(M!Idle, a)
<1>1. Holds(M!Idle)'
  BY IdleRequest DEF Holds, HoldsCopy, HoldsFiles, Distinct
<1>2. KnowsGallery(M!Idle)'
  BY IdleRequest DEF KnowsGallery, Reading
<1>3. KnowsFiles(M!Idle)' /\ KnowsFields(M!Idle)'
  BY IdleRequest DEF KnowsFiles, KnowsFields
<1> QED BY <1>1, <1>2, <1>3, IdleRequest DEF KnowsMedia, ComesOf

LEMMA MediaGivesUp ==
  ASSUME M!Sensible, MediaInv, NEW r \in Clients, M!Become(r, M!Idle), M!Stays,
         HandOf(call[r]) = {}, call[r].pc \notin {"fill", "keep"}
  PROVE  MediaInv'
<1>1. KnowsMedia(M!Idle) /\ M!Idle \in M!Request /\ ComesOf(M!Idle, call[r])
  BY IdleKnows, IdleRequest DEF MediaInv, ComesOf
<1> QED BY <1>1, MediaDecides

\* Gallery g with the images of request q behind.
Extended(g, h, q) ==
  /\ h \in Seq(M!Image) /\ Len(h) = Len(g) + Len(q.got) /\ h # <<>>
  /\ M!IdsOf(h) = M!IdsOf(g) \cup M!Range(q.got)
  /\ \A i \in DOMAIN h : IF i \in DOMAIN g THEN h[i] = g[i]
       ELSE LET k == i - Len(g) IN
            /\ k \in DOMAIN q.got /\ h[i].id = q.got[k] /\ h[i].alt = None /\ h[i].downloads = 0
            /\ h[i].order = Len(q.copy.gallery) + k - 1

LEMMA ImagesPushed ==
  ASSUME M!Sensible, NEW g \in Seq(M!Image), NEW q \in M!Request, q.got # <<>>,
         NEW h, h = g \o M!NewImages(q)
  PROVE  Extended(g, h, q)
<1>1. PICK n : n = M!NewImages(q)
  OBVIOUS
<1>2. /\ q.got \in Seq(M!Ids) /\ Len(q.got) \in Nat /\ DOMAIN q.got = 1 .. Len(q.got)
      /\ Len(q.copy.gallery) \in Nat /\ Len(g) \in Nat /\ DOMAIN g = 1 .. Len(g)
      /\ 1 \in DOMAIN q.got
  <2>1. q.got \in Seq(M!Ids) /\ q.copy.gallery \in Seq(M!Image)
    BY RequestOfType
  <2> QED BY <2>1
<1>3. ASSUME NEW k \in DOMAIN q.got
      PROVE  /\ n[k] \in M!Image /\ n[k].id = q.got[k] /\ n[k].alt = None /\ n[k].downloads = 0
             /\ n[k].order = Len(q.copy.gallery) + k - 1
  <2>1. n[k] = [id |-> q.got[k], order |-> Len(q.copy.gallery) + k - 1,
                alt |-> None, downloads |-> 0]
    BY <1>1 DEF M!NewImages
  <2>2. /\ q.got[k] \in M!Ids /\ Len(q.copy.gallery) + k - 1 \in Nat /\ None \in M!File
        /\ 0 \in 0 .. MaxDownloads
    BY <1>2 DEF M!File, M!Sensible
  <2>3. n[k] \in M!Image
    BY <2>1, <2>2 DEF M!Image
  <2> QED BY <2>1, <2>3
<1>4. n \in Seq(M!Image) /\ Len(n) = Len(q.got) /\ DOMAIN n = DOMAIN q.got
  <2>1. n \in [1 .. Len(q.got) -> M!Image]
    <3>1. n = [k \in 1 .. Len(q.got) |-> n[k]]
      BY <1>1, <1>2 DEF M!NewImages
    <3> QED BY <1>2, <1>3, <3>1
  <2>2. PICK l \in Nat : l = Len(q.got)
    BY <1>2
  <2>3. n \in [1 .. l -> M!Image] /\ DOMAIN n = 1 .. l
    BY <2>1, <2>2
  <2>4. n \in Seq(M!Image) /\ Len(n) = l
    BY <2>3
  <2> QED BY <1>2, <2>2, <2>3, <2>4
<1>5. /\ h \in Seq(M!Image) /\ Len(h) = Len(g) + Len(n)
      /\ \A i \in 1 .. Len(g) + Len(n) : h[i] = IF i <= Len(g) THEN g[i] ELSE n[i - Len(g)]
  <2>1. h = g \o n
    BY <1>1
  <2>2. g \in Seq(M!Image) /\ n \in Seq(M!Image)
    BY <1>4
  <2>3. /\ (g \o n) \in Seq(M!Image) /\ Len(g \o n) = Len(g) + Len(n)
        /\ \A i \in 1 .. Len(g) + Len(n) :
             (g \o n)[i] = IF i <= Len(g) THEN g[i] ELSE n[i - Len(g)]
    BY <2>2, ConcatProperties, Zenon
  <2> QED BY <2>1, <2>3
<1>6. DOMAIN h = 1 .. Len(g) + Len(q.got)
  BY <1>4, <1>5
<1>7. ASSUME NEW i \in DOMAIN h
      PROVE  IF i \in DOMAIN g THEN h[i] = g[i]
             ELSE LET k == i - Len(g) IN
                  /\ k \in DOMAIN q.got /\ h[i].id = q.got[k] /\ h[i].alt = None
                  /\ h[i].downloads = 0 /\ h[i].order = Len(q.copy.gallery) + k - 1
  <2>1. CASE i \in DOMAIN g
    BY <1>2, <1>4, <1>5, <1>6, <2>1
  <2>2. CASE i \notin DOMAIN g
    <3>1. PICK k : k = i - Len(g)
      OBVIOUS
    <3>2. k \in DOMAIN q.got /\ h[i] = n[k]
      BY <1>2, <1>4, <1>5, <1>6, <2>2, <3>1
    <3> QED BY <1>3, <2>2, <3>1, <3>2
  <2> QED BY <2>1, <2>2
<1>8. M!IdsOf(h) = M!IdsOf(g) \cup M!Range(q.got)
  <2>1. \A i \in DOMAIN h : h[i].id \in M!IdsOf(g) \cup M!Range(q.got)
    BY <1>7, MediaOperators DEF M!IdsOf
  <2>2. \A i \in DOMAIN g : i \in DOMAIN h /\ h[i] = g[i]
    BY <1>2, <1>6, <1>7
  <2>3. ASSUME NEW k \in DOMAIN q.got PROVE \E i \in DOMAIN h : h[i].id = q.got[k]
    <3>1. PICK i : i = Len(g) + k
      OBVIOUS
    <3>2. i \in DOMAIN h /\ i \notin DOMAIN g /\ i - Len(g) = k
      BY <1>2, <1>6, <3>1
    <3> QED BY <1>7, <3>2
  <2>4. /\ M!IdsOf(h) = {h[i].id : i \in DOMAIN h} /\ M!IdsOf(g) = {g[i].id : i \in DOMAIN g}
        /\ M!Range(q.got) = {q.got[k] : k \in DOMAIN q.got}
    BY MediaOperators DEF M!IdsOf
  <2>5. M!IdsOf(g) \subseteq M!IdsOf(h)
    BY <2>2, <2>4
  <2>6. M!Range(q.got) \subseteq M!IdsOf(h)
    BY <2>3, <2>4
  <2>7. M!IdsOf(h) \subseteq M!IdsOf(g) \cup M!Range(q.got)
    BY <2>1, <2>4
  <2> QED BY <2>5, <2>6, <2>7
<1>9. h # <<>>
  <2>1. Len(h) # 0
    BY <1>2, <1>4, <1>5
  <2> QED BY <2>1, EmptySeq
<1> QED BY <1>4, <1>5, <1>7, <1>8, <1>9 DEF Extended

\* What the gallery is, once extended.
LEMMA ExtendedFits ==
  ASSUME M!Sensible, Stored, NEW q \in M!Request, HoldsFiles(q), KnowsFiles(q),
         gallery \in Seq(M!Image), NEW h, Extended(gallery, h, q)
  PROVE  /\ Distinct(h) /\ \A i \in DOMAIN h : Faithful(h[i])
         /\ Numbered(gallery) /\ Len(q.copy.gallery) = Len(gallery) => Numbered(h)
<1>1. /\ Len(gallery) \in Nat /\ DOMAIN gallery = 1 .. Len(gallery)
      /\ h \in Seq(M!Image) /\ q.got \in Seq(M!Ids)
      /\ \A i \in DOMAIN gallery : gallery[i].id \in M!IdsOf(gallery)
  BY GalleryOfType, RequestOfType DEF Extended, M!IdsOf
<1>2. \A i \in DOMAIN h : i \in Nat
  BY <1>1
<1>3. \A k \in DOMAIN q.got : /\ q.got[k] \in M!Range(q.got)
                              /\ q.got[k] \notin M!IdsOf(gallery) /\ fetched[q.got[k]] = 0
  BY MediaOperators DEF KnowsFiles
<1>4. ASSUME NEW i \in DOMAIN h, i \notin DOMAIN gallery
      PROVE  /\ i - Len(gallery) \in DOMAIN q.got /\ h[i].id = q.got[i - Len(gallery)]
             /\ h[i].alt = None /\ h[i].downloads = 0
             /\ h[i].order = Len(q.copy.gallery) + (i - Len(gallery)) - 1
  BY <1>4 DEF Extended
<1>5. \A i \in DOMAIN gallery : i \in DOMAIN h => h[i] = gallery[i]
  BY DEF Extended
<1>6. Distinct(h)
  <2> SUFFICES ASSUME NEW i \in DOMAIN h, NEW j \in DOMAIN h, h[i].id = h[j].id PROVE i = j
    BY DEF Distinct
  <2>1. CASE i \in DOMAIN gallery /\ j \in DOMAIN gallery
    BY <1>5, <2>1 DEF Stored, Distinct
  <2>2. CASE i \in DOMAIN gallery /\ j \notin DOMAIN gallery
    BY <1>1, <1>3, <1>4, <1>5, <2>2
  <2>3. CASE i \notin DOMAIN gallery /\ j \in DOMAIN gallery
    BY <1>1, <1>3, <1>4, <1>5, <2>3
  <2>4. CASE i \notin DOMAIN gallery /\ j \notin DOMAIN gallery
    <3>1. i - Len(gallery) = j - Len(gallery)
      BY <1>4, <2>4 DEF HoldsFiles
    <3> QED BY <1>1, <1>2, <3>1
  <2> QED BY <2>1, <2>2, <2>3, <2>4
<1>7. ASSUME NEW i \in DOMAIN h PROVE Faithful(h[i])
  <2>1. CASE i \in DOMAIN gallery
    BY <1>5, <2>1 DEF Stored
  <2>2. CASE i \notin DOMAIN gallery
    <3>1. h[i].alt = None /\ h[i].downloads = 0 /\ fetched[h[i].id] = 0
      BY <1>3, <1>4, <2>2
    <3> QED BY <3>1 DEF Faithful
  <2> QED BY <2>1, <2>2
<1>8. ASSUME Numbered(gallery), Len(q.copy.gallery) = Len(gallery) PROVE Numbered(h)
  <2> SUFFICES ASSUME NEW i \in DOMAIN h PROVE h[i].order = i - 1
    BY DEF Numbered
  <2>1. CASE i \in DOMAIN gallery
    BY <1>5, <1>8, <2>1 DEF Numbered
  <2>2. CASE i \notin DOMAIN gallery
    BY <1>1, <1>2, <1>4, <1>8, <2>2
  <2> QED BY <2>1, <2>2
<1> QED BY <1>6, <1>7, <1>8

LEMMA PushImagesInv ==
  ASSUME M!Sensible, MediaInv, NEW r \in Clients, M!PushImages(r)
  PROVE  MediaInv'
<1>1. PICK a : a = call[r]
  OBVIOUS
<1>2. /\ a \in M!Request /\ HoldsFiles(a) /\ HoldsCopy(a) /\ KnowsFiles(a)
      /\ M!TypeOK /\ Stored /\ DocumentsTyped
      /\ version \in Nat /\ last \in Nat /\ None \notin M!Ids
      /\ gallery \in Seq(M!Image) /\ M!IdsOf(gallery) \subseteq M!Ids
  BY <1>1, Before
<1>3. a.pc = "push" /\ M!Become(r, M!Idle) /\ UNCHANGED <<there, slot, files, last, fetched>>
      /\ UNCHANGED <<rewritten, broken, unfound>>
  BY <1>1 DEF M!PushImages, M!At
<1>4. /\ a.got # <<>> /\ a.todo = {} /\ a.image = None /\ a.old = None /\ Doomed(a) = {}
      /\ HandOf(a) = M!Range(a.got) /\ a.got \in Seq(M!Ids) /\ M!Range(a.got) \subseteq M!Ids
      /\ Len(a.got) = a.many /\ Len(a.copy.gallery) + Len(a.got) <= MaxGallery
      /\ a.copy.gallery \in Seq(M!Image) /\ Distinct(a.copy.gallery)
  BY <1>2, <1>3, RequestOfType DEF HoldsFiles, HoldsCopy, Doomed, HandOf
<1>5. a.got[1] \in M!Range(a.got) /\ a.got[1] \in M!Ids
  <2>1. 1 \in DOMAIN a.got
    BY <1>4
  <2> QED BY <1>4, <2>1, MediaOperators
<1>6. M!Idle \in M!Request /\ M!Idle.pc = "idle" /\ HandOf(M!Idle) = {}
  BY IdleRequest
<1>7. CASE ~there
  <2>1. /\ strays' = strays \cup M!Range(a.got)
        /\ UNCHANGED <<gallery, version, cover, og, late, crowded>>
    BY <1>1, <1>7 DEF M!PushImages, M!galleryVars
  <2>2. Spares(a)
    BY <1>2, <1>3, <2>1 DEF Spares, SameImages, Lost
  <2>3. KnowsMedia(M!Idle)' /\ ComesOf(M!Idle, a)
    BY <1>2, <2>1, EndKnows
  <2>4. DocumentsTyped'
    BY <1>2, <1>3, <1>4, <2>1 DEF DocumentsTyped, Lost
  <2>5. Stored'
    BY <1>2, <1>3, <2>1 DEF Stored, Faithful
  <2>6. M!CoverIsInGallery' /\ M!GalleryIsInOrder'
    BY <2>1 DEF MediaInv, M!CoverIsInGallery, M!GalleryIsInOrder
  <2>7. FilesThere'
    <3>1. M!IdsOf(gallery)' \subseteq files'
      BY <1>3, <2>1 DEF MediaInv, FilesThere
    <3>2. \A s \in M!Slots : ~Replaces(call[r], s, slot[s])
      BY <1>1, <1>3 DEF Replaces
    <3> QED BY <1>3, <3>1, <3>2, StayThere
  <2>8. M!FilesAreAccountedFor'
    <3>1. ASSUME NEW f \in files'
          PROVE  \/ f \in HandOf(M!Idle) \/ f \in Lost'
                 \/ f \in M!IdsOf(gallery)' \/ \E s \in M!Slots : slot'[s] = f
                 \/ /\ f \in files /\ f \notin HandOf(call[r])
                    /\ f \notin M!IdsOf(gallery) /\ \A s \in M!Slots : slot[s] # f
      BY <1>1, <1>3, <1>4, <2>1 DEF Lost
    <3> QED BY <1>3, <2>1, <3>1, StayAccounted DEF Lost
  <2> QED BY <1>1, <1>3, <1>6, <2>2, <2>3, <2>4, <2>5, <2>6, <2>7, <2>8, MediaMoves
<1>8. CASE there
  <2>1. PICK h : h = gallery \o M!NewImages(a)
    OBVIOUS
  <2>2. /\ gallery' = h /\ version < MaxVersion /\ version' = version + 1
        /\ cover' = (IF a.copy.cover = None THEN a.got[1] ELSE cover)
        /\ og' = (IF a.copy.cover = None THEN a.got[1] ELSE og)
        /\ late' = (late \/ M!Outdated(a.copy))
        /\ crowded' = (crowded \/ M!IdsOf(gallery) # M!IdsOf(a.copy.gallery))
        /\ strays' = strays
    BY <1>1, <1>8, <2>1 DEF M!PushImages
  <2>3. Extended(gallery, h, a)
    BY <1>2, <1>4, <2>1, ImagesPushed
  <2>4. /\ Distinct(h) /\ \A i \in DOMAIN h : Faithful(h[i])
        /\ Numbered(gallery) /\ Len(a.copy.gallery) = Len(gallery) => Numbered(h)
    BY <1>2, <2>3, ExtendedFits
  <2>5. /\ h \in Seq(M!Image) /\ M!IdsOf(h) = M!IdsOf(gallery) \cup M!Range(a.got) /\ h # <<>>
        /\ Len(h) = Len(gallery) + Len(a.got)
    BY <2>3 DEF Extended
  <2>6. version' \in 0 .. MaxVersion /\ version' \in Nat /\ version' # version
        /\ version <= version'
    BY <1>2, <2>2 DEF M!Sensible
  <2>7. Spares(a)
    BY <1>2, <1>3, <2>2, <2>5, <2>6 DEF Spares, Lost
  <2>8. KnowsMedia(M!Idle)' /\ ComesOf(M!Idle, a)
    BY <2>6, EndKnows
  <2>9. DocumentsTyped'
    <3>1. cover' \in M!File /\ og' \in M!File
      BY <1>2, <1>5, <2>2 DEF DocumentsTyped, M!File
    <3>2. late' \in BOOLEAN /\ crowded' \in BOOLEAN
      BY <1>2, <2>2 DEF DocumentsTyped
    <3> QED BY <1>2, <1>3, <2>2, <2>5, <2>6, <3>1, <3>2 DEF DocumentsTyped, Lost
  <2>10. Stored'
    <3>1. \A f \in M!IdsOf(h) : f <= last /\ \A s \in M!Slots : slot[s] # f
      BY <1>2, <2>5 DEF Stored, KnowsFiles
    <3>2. \A i \in DOMAIN h : Faithful(h[i])'
      BY <1>3, <2>4 DEF Faithful
    <3> QED BY <1>2, <1>3, <1>8, <2>2, <2>4, <3>1, <3>2 DEF Stored
  <2>11. M!CoverIsInGallery'
    <3> SUFFICES ASSUME ~late' PROVE og' = cover' /\ cover' \in M!IdsOf(h)
      BY <2>2, <2>5 DEF M!CoverIsInGallery
    <3>1. ~late /\ cover = a.copy.cover
      BY <2>2 DEF M!Outdated
    <3>2. CASE cover = None
      BY <1>5, <2>2, <2>5, <3>1, <3>2
    <3>3. CASE cover # None
      <4>1. og = cover /\ cover \in M!IdsOf(gallery)
        BY <3>1, <3>3 DEF MediaInv, M!CoverIsInGallery
      <4> QED BY <2>2, <2>5, <3>1, <3>3, <4>1
    <3> QED BY <3>2, <3>3
  <2>12. M!GalleryIsInOrder'
    <3> SUFFICES ASSUME ~crowded' PROVE Len(h) <= MaxGallery /\ Numbered(h)
      BY <2>2 DEF M!GalleryIsInOrder, Numbered
    <3>1. ~crowded /\ M!IdsOf(gallery) = M!IdsOf(a.copy.gallery)
      BY <2>2
    <3>2. Len(gallery) = Len(a.copy.gallery)
      <4>1. Cardinality(M!IdsOf(gallery)) = Len(gallery)
        BY <1>2, LongAsMany DEF Stored
      <4>2. Cardinality(M!IdsOf(a.copy.gallery)) = Len(a.copy.gallery)
        BY <1>4, LongAsMany
      <4> QED BY <3>1, <4>1, <4>2
    <3>3. Numbered(gallery)
      BY <3>1 DEF MediaInv, M!GalleryIsInOrder, Numbered
    <3> QED BY <1>4, <2>4, <2>5, <3>2, <3>3
  <2>13. FilesThere'
    <3>1. M!IdsOf(gallery)' \subseteq files'
      BY <1>2, <1>3, <2>2, <2>5 DEF MediaInv, FilesThere, KnowsFiles
    <3>2. \A s \in M!Slots : ~Replaces(call[r], s, slot[s])
      BY <1>1, <1>3 DEF Replaces
    <3> QED BY <1>3, <3>1, <3>2, StayThere
  <2>14. M!FilesAreAccountedFor'
    <3>1. ASSUME NEW f \in files'
          PROVE  \/ f \in HandOf(M!Idle) \/ f \in Lost'
                 \/ f \in M!IdsOf(gallery)' \/ \E s \in M!Slots : slot'[s] = f
                 \/ /\ f \in files /\ f \notin HandOf(call[r])
                    /\ f \notin M!IdsOf(gallery) /\ \A s \in M!Slots : slot[s] # f
      BY <1>1, <1>3, <1>4, <2>2, <2>5
    <3>2. Lost \subseteq Lost'
      BY <1>3, <2>2 DEF Lost
    <3> QED BY <1>3, <3>1, <3>2, StayAccounted
  <2> QED BY <1>1, <1>3, <1>6, <2>7, <2>8, <2>9, <2>10, <2>11, <2>12, <2>13, <2>14, MediaMoves
<1> QED BY <1>7, <1>8

LEMMA SameIds ==
  ASSUME NEW g \in Seq(M!Image), NEW h \in Seq(M!Image), SameImages(g, h)
  PROVE  M!IdsOf(g) = M!IdsOf(h)
BY DEF SameImages, M!IdsOf

\* What is left to do once a gallery is written.
LEMMA AfterRewriteIs ==
  ASSUME M!Sensible, NEW a \in M!Request, NEW q, q = M!AfterRewrite(a)
  PROVE  /\ q \in M!Request /\ q.got = <<>> /\ q.todo = {} /\ q.old = None /\ q.new = <<>>
         /\ q.copy = M!Idle.copy /\ q.image = a.image
         /\ q.pc = (IF a.image = None THEN "idle" ELSE "destroy")
         /\ M!Range(q.got) = {} /\ Doomed(q) = {a.image} \ {None} /\ HandOf(q) = {a.image} \ {None}
<1>1. PICK i : i = M!Idle
  OBVIOUS
<1>2. /\ i \in M!Request /\ i.pc = "idle" /\ i.got = <<>> /\ i.todo = {} /\ i.old = None
      /\ i.image = None /\ i.new = <<>>
  BY <1>1, IdleRequest
<1>3. a.image \in M!File
  BY RequestOfType
<1>4. q = (IF a.image = None THEN i ELSE [i EXCEPT !.pc = "destroy", !.image = a.image])
  BY <1>1 DEF M!AfterRewrite
<1>5. /\ q \in M!Request /\ q.got = <<>> /\ q.todo = {} /\ q.old = None /\ q.new = <<>>
      /\ q.copy = i.copy /\ q.image = a.image
      /\ q.pc = (IF a.image = None THEN "idle" ELSE "destroy")
  BY <1>2, <1>3, <1>4 DEF M!Request, M!PCs
<1>6. M!Range(<<>>) = {}
  BY MediaOperators
<1> QED BY <1>1, <1>5, <1>6 DEF Doomed, HandOf

LEMMA RewriteGalleryInv ==
  ASSUME M!Sensible, MediaInv, NEW r \in Clients, M!RewriteGallery(r)
  PROVE  MediaInv'
<1>1. PICK a : a = call[r]
  OBVIOUS
<1>2. /\ a \in M!Request /\ HoldsFiles(a) /\ HoldsCopy(a) /\ KnowsFiles(a) /\ KnowsGallery(a)
      /\ KnowsFields(a) /\ M!TypeOK /\ Stored /\ DocumentsTyped
      /\ version \in Nat /\ last \in Nat /\ None \notin M!Ids
      /\ gallery \in Seq(M!Image) /\ M!IdsOf(gallery) \subseteq M!Ids
      /\ \A f \in M!Ids : f \in Nat
      /\ \A s \in M!Slots : slot[s] \in M!Ids \/ slot[s] = None
  BY <1>1, Before
<1>3. a.pc = "rewrite" /\ UNCHANGED <<there, slot, files, last, fetched>>
      /\ UNCHANGED <<rewritten, broken, strays, unfound>>
  BY <1>1 DEF M!RewriteGallery, M!At
<1>4. /\ a.got = <<>> /\ a.todo = {} /\ a.old = None /\ Doomed(a) = {} /\ HandOf(a) = {}
      /\ a.copy.gallery \in Seq(M!Image) /\ a.new \in Seq(M!Image) /\ a.image \in M!File
      /\ M!Range(a.got) = {}
  BY <1>2, <1>3, RequestOfType, MediaOperators DEF HoldsFiles, Doomed, HandOf
<1>5. CASE ~M!Current(a.copy)
  <2>1. M!Become(r, M!Idle) /\ M!Stays
    BY <1>1, <1>3, <1>5 DEF M!RewriteGallery, M!galleryVars, M!Stays
  <2> QED BY <1>1, <1>3, <1>4, <2>1, MediaGivesUp
<1>6. CASE M!Current(a.copy)
  <2>1. PICK q : q = M!AfterRewrite(a)
    OBVIOUS
  <2>2. /\ gallery' = a.new /\ version < MaxVersion /\ version' = version + 1
        /\ cover' = M!Write(cover, a.copy.cover, M!CoverAfter(a))
        /\ og' = M!Write(og, a.copy.og, M!PreviewAfter(a))
        /\ late' = (late \/ (a.image # None /\ M!Outdated(a.copy)))
        /\ M!Become(r, q) /\ crowded' = crowded
    BY <1>1, <1>6, <2>1 DEF M!RewriteGallery
  <2>3. /\ q \in M!Request /\ q.got = <<>> /\ q.todo = {} /\ q.old = None /\ q.new = <<>>
        /\ q.copy = M!Idle.copy /\ q.image = a.image
        /\ q.pc = (IF a.image = None THEN "idle" ELSE "destroy")
        /\ M!Range(q.got) = {} /\ Doomed(q) = {a.image} \ {None} /\ HandOf(q) = {a.image} \ {None}
    BY <1>2, <2>1, AfterRewriteIs
  <2>4. M!IdsOf(a.copy.gallery) = M!IdsOf(gallery)
    BY <1>2, <1>3, <1>4, <1>6, SameIds DEF KnowsGallery, Reading
  <2>5. /\ a.image = None \/ a.image \in M!IdsOf(gallery)
        /\ M!IdsOf(a.new) = M!IdsOf(gallery) \ {a.image}
        /\ Distinct(a.new) /\ Numbered(a.new) /\ \A i \in DOMAIN a.new : Faithful(a.new[i])
    BY <1>2, <1>3, <2>4 DEF HoldsCopy, KnowsFields
  <2>6. version' \in 0 .. MaxVersion /\ version' \in Nat /\ version' # version
        /\ version <= version'
    BY <1>2, <2>2 DEF M!Sensible
  <2>7. Spares(a)
    BY <1>2, <1>3, <2>2, <2>5, <2>6 DEF Spares, Lost
  <2>8. ComesOf(q, a)
    BY <2>3, <2>5 DEF ComesOf
  <2>9. KnowsMedia(q)'
    <3>1. Holds(q)'
      BY <1>2, <2>3, IdleRequest DEF Holds, HoldsCopy, HoldsFiles, Distinct
    <3>2. KnowsGallery(q)' /\ KnowsFields(q)'
      BY <2>3, <2>6, IdleRequest DEF KnowsGallery, Reading, KnowsFields
    <3>3. KnowsFiles(q)'
      <4>1. \A f \in Doomed(q) : f <= last'
        BY <1>2, <1>3, <2>3, <2>5 DEF Stored
      <4>2. q.pc = "destroy" => /\ q.image \notin M!IdsOf(gallery)'
                                /\ \A s \in M!Slots : slot'[s] # q.image
        BY <1>2, <1>3, <2>2, <2>3, <2>5 DEF Stored
      <4> QED BY <2>3, <4>1, <4>2 DEF KnowsFiles
    <3> QED BY <3>1, <3>2, <3>3 DEF KnowsMedia
  <2>10. DocumentsTyped'
    <3>1. M!NextCover(a) \in M!File
      <4>1. a.new # <<>> => 1 \in DOMAIN a.new
        BY <1>4
      <4> QED BY <1>4, <4>1, GalleryOfType DEF M!NextCover, M!File
    <3>2. cover' \in M!File /\ og' \in M!File
      BY <1>2, <2>2, <3>1, RequestOfType DEF DocumentsTyped, M!Write, M!CoverAfter, M!PreviewAfter
    <3>3. late' \in BOOLEAN /\ crowded' \in BOOLEAN
      BY <1>2, <2>2 DEF DocumentsTyped
    <3> QED BY <1>2, <1>3, <1>4, <2>2, <2>6, <3>2, <3>3 DEF DocumentsTyped, Lost
  <2>11. Stored'
    <3>1. \A f \in M!IdsOf(a.new) : f <= last /\ \A s \in M!Slots : slot[s] # f
      BY <1>2, <2>5 DEF Stored
    <3>2. \A i \in DOMAIN a.new : Faithful(a.new[i])'
      BY <1>3, <2>5 DEF Faithful
    <3> QED BY <1>2, <1>3, <1>6, <2>2, <2>5, <3>1, <3>2 DEF Stored, M!Current
  <2>12. M!CoverIsInGallery'
    <3> SUFFICES ASSUME ~late'
                 PROVE  /\ og' = cover'
                        /\ IF a.new = <<>> THEN cover' = None ELSE cover' \in M!IdsOf(a.new)
      BY <2>2 DEF M!CoverIsInGallery
    <3>1. /\ ~late /\ og = cover
          /\ IF gallery = <<>> THEN cover = None ELSE cover \in M!IdsOf(gallery)
      BY <2>2 DEF MediaInv, M!CoverIsInGallery
    <3>2. /\ gallery = <<>> <=> M!IdsOf(gallery) = {}
          /\ a.new = <<>> <=> M!IdsOf(a.new) = {}
      BY <1>2, <1>4, GalleryOfType
    <3>3. CASE a.image = None
      <4>1. cover' = cover /\ og' = og
        BY <2>2, <3>3 DEF M!Write, M!CoverAfter, M!PreviewAfter
      <4>2. M!IdsOf(a.new) = M!IdsOf(gallery)
        BY <1>2, <2>5, <3>3
      <4> QED BY <3>1, <3>2, <4>1, <4>2
    <3>4. CASE a.image # None
      <4>1. cover = a.copy.cover /\ og = a.copy.og
        BY <2>2, <3>4 DEF M!Outdated
      <4>2. CASE a.image = cover
        <5>1. cover' = M!NextCover(a) /\ og' = M!NextCover(a)
          BY <2>2, <3>4, <4>1, <4>2 DEF M!Write, M!CoverAfter, M!PreviewAfter
        <5>2. a.new # <<>> => a.new[1].id \in M!IdsOf(a.new)
          <6>1. a.new # <<>> => 1 \in DOMAIN a.new
            BY <1>4
          <6> QED BY <6>1 DEF M!IdsOf
        <5> QED BY <5>1, <5>2 DEF M!NextCover
      <4>3. CASE a.image # cover
        <5>1. cover' = cover /\ og' = og
          BY <2>2, <3>4, <4>1, <4>3 DEF M!Write, M!CoverAfter, M!PreviewAfter
        <5>2. cover \in M!IdsOf(a.new)
          BY <2>5, <3>1, <3>2, <3>4, <4>3
        <5> QED BY <3>1, <3>2, <5>1, <5>2
      <4> QED BY <4>2, <4>3
    <3> QED BY <3>3, <3>4
  <2>13. M!GalleryIsInOrder'
    <3> SUFFICES ASSUME ~crowded' PROVE Len(a.new) <= MaxGallery
      BY <2>2, <2>5 DEF M!GalleryIsInOrder, Numbered
    <3>1. Len(gallery) <= MaxGallery
      BY <2>2 DEF MediaInv, M!GalleryIsInOrder
    <3>2. IsFiniteSet(M!IdsOf(gallery)) /\ Cardinality(M!IdsOf(gallery)) = Len(gallery)
      BY <1>2, LongAsMany DEF Stored
    <3>3. Cardinality(M!IdsOf(a.new)) = Len(a.new)
      BY <1>4, <2>5, LongAsMany
    <3>4. Cardinality(M!IdsOf(a.new)) <= Cardinality(M!IdsOf(gallery))
      BY <2>5, <3>2, FS_Subset
    <3>5. Len(a.new) \in Nat /\ Len(gallery) \in Nat /\ MaxGallery \in Nat
      BY <1>2, <1>4 DEF M!Sensible
    <3> QED BY <3>1, <3>2, <3>3, <3>4, <3>5
  <2>14. FilesThere'
    <3>1. M!IdsOf(gallery)' \subseteq files'
      BY <1>3, <2>2, <2>5 DEF MediaInv, FilesThere
    <3>2. \A s \in M!Slots : ~Replaces(call[r], s, slot[s])
      BY <1>1, <1>3 DEF Replaces
    <3> QED BY <1>3, <2>2, <3>1, <3>2, StayThere
  <2>15. M!FilesAreAccountedFor'
    <3>1. ASSUME NEW f \in files'
          PROVE  \/ f \in HandOf(q) \/ f \in Lost'
                 \/ f \in M!IdsOf(gallery)' \/ \E s \in M!Slots : slot'[s] = f
                 \/ /\ f \in files /\ f \notin HandOf(call[r])
                    /\ f \notin M!IdsOf(gallery) /\ \A s \in M!Slots : slot[s] # f
      <4>1. f \in M!IdsOf(gallery) => f \in HandOf(q) \/ f \in M!IdsOf(gallery)'
        BY <1>2, <2>2, <2>3, <2>5
      <4> QED BY <1>1, <1>3, <1>4, <4>1
    <3> QED BY <1>3, <2>2, <3>1, StayAccounted DEF Lost
  <2> QED BY <1>1, <2>2, <2>3, <2>7, <2>8, <2>9, <2>10, <2>11, <2>12, <2>13, <2>14, <2>15, MediaMoves
<1> QED BY <1>5, <1>6

-----------------------------------------------------------------------------
(* Deleting files, and giving up                                           *)

\* A step that writes no document.
LEMMA FilesInv ==
  ASSUME M!Sensible, MediaInv, NEW r \in Clients, NEW a, a = call[r],
         NEW q \in M!Request, M!Become(r, q), ComesOf(q, a), KnowsMedia(q)',
         UNCHANGED <<there, gallery, version, cover, og, slot, last, fetched, late, crowded>>,
         UNCHANGED rewritten,
         files' \subseteq files, files \subseteq files' \cup Doomed(a),
         Lost \subseteq Lost', Lost' \subseteq M!Ids,
         (broken => broken'), broken' \in BOOLEAN,
         M!IdsOf(gallery) \subseteq files',
         \A s \in M!Slots : slot[s] # None =>
           /\ slot[s] \in files => slot[s] \in files' \/ Replaces(q, s, slot[s])
           /\ Replaces(a, s, slot[s]) => Gone(s)' \/ Replaces(q, s, slot[s]),
         \A f \in HandOf(a) : f \in files' => f \in HandOf(q) \/ f \in Lost'
  PROVE  MediaInv'
<1>1. DocumentsTyped /\ Stored /\ version \in Nat /\ last \in Nat
  BY Before
<1>2. Spares(a)
  BY <1>1 DEF Spares, SameImages
<1>3. DocumentsTyped'
  BY <1>1 DEF DocumentsTyped
<1>4. Stored'
  BY <1>1 DEF Stored, Faithful
<1>5. M!CoverIsInGallery' /\ M!GalleryIsInOrder'
  BY DEF MediaInv, M!CoverIsInGallery, M!GalleryIsInOrder
<1>6. FilesThere'
  <2>1. M!IdsOf(gallery)' \subseteq files'
    OBVIOUS
  <2>2. ASSUME NEW s \in M!Slots
        PROVE  \/ slot'[s] = None \/ slot'[s] \in files' \/ Gone(s)' \/ Replaces(q, s, slot'[s])
               \/ slot'[s] = slot[s] /\ slot[s] \notin files /\ ~Replaces(call[r], s, slot[s])
    OBVIOUS
  <2> QED BY <2>1, <2>2, StayThere
<1>7. M!FilesAreAccountedFor'
  <2>1. ASSUME NEW f \in files'
        PROVE  \/ f \in HandOf(q) \/ f \in Lost'
               \/ f \in M!IdsOf(gallery)' \/ \E s \in M!Slots : slot'[s] = f
               \/ /\ f \in files /\ f \notin HandOf(call[r])
                  /\ f \notin M!IdsOf(gallery) /\ \A s \in M!Slots : slot[s] # f
    OBVIOUS
  <2> QED BY <2>1, StayAccounted
<1> QED BY <1>2, <1>3, <1>4, <1>5, <1>6, <1>7, MediaMoves

LEMMA DestroyImageInv ==
  ASSUME M!Sensible, MediaInv, NEW r \in Clients, M!DestroyImage(r)
  PROVE  MediaInv'
<1>1. PICK a : a = call[r]
  OBVIOUS
<1>2. /\ a \in M!Request /\ HoldsFiles(a) /\ KnowsFiles(a)
      /\ M!TypeOK /\ Stored /\ DocumentsTyped /\ version \in Nat
  BY <1>1, Before
<1>3. /\ a.pc = "destroy" /\ M!Become(r, M!Idle) /\ files' = files \ {a.image}
      /\ UNCHANGED <<there, gallery, version, cover, og, slot, last, fetched, late, crowded>>
      /\ UNCHANGED <<rewritten, broken, strays, unfound>>
  BY <1>1 DEF M!DestroyImage, M!At, M!galleryVars
<1>4. /\ a.got = <<>> /\ a.todo = {} /\ a.old = None /\ M!Range(a.got) = {}
      /\ Doomed(a) = {a.image} /\ HandOf(a) \subseteq {a.image}
  BY <1>2, <1>3, MediaOperators DEF HoldsFiles, Doomed, HandOf
<1>5. /\ a.image \notin M!IdsOf(gallery) /\ \A s \in M!Slots : slot[s] # a.image
  BY <1>2, <1>3 DEF KnowsFiles
<1>6. M!Idle \in M!Request /\ HandOf(M!Idle) = {}
  BY IdleRequest
<1>7. KnowsMedia(M!Idle)' /\ ComesOf(M!Idle, a)
  BY <1>2, <1>3, EndKnows
<1>8. M!IdsOf(gallery) \subseteq files'
  BY <1>3, <1>5 DEF MediaInv, FilesThere
<1>9. /\ files' \subseteq files /\ files \subseteq files' \cup Doomed(a)
      /\ Lost \subseteq Lost' /\ Lost' \subseteq M!Ids
      /\ (broken => broken') /\ broken' \in BOOLEAN
      /\ \A f \in HandOf(a) : f \in files' => f \in HandOf(M!Idle) \/ f \in Lost'
  BY <1>2, <1>3, <1>4 DEF DocumentsTyped, Lost
<1>10. \A s \in M!Slots : slot[s] # None =>
         /\ slot[s] \in files => slot[s] \in files' \/ Replaces(M!Idle, s, slot[s])
         /\ Replaces(a, s, slot[s]) => Gone(s)' \/ Replaces(M!Idle, s, slot[s])
  BY <1>3, <1>5 DEF Replaces
<1> QED BY <1>1, <1>3, <1>6, <1>7, <1>8, <1>9, <1>10, FilesInv

LEMMA DeleteFileInv ==
  ASSUME M!Sensible, MediaInv, NEW r \in Clients, NEW f \in M!Ids, M!DeleteFile(r, f)
  PROVE  MediaInv'
<1>1. PICK a : a = call[r]
  OBVIOUS
<1>2. /\ a \in M!Request /\ HoldsFiles(a) /\ HoldsCopy(a) /\ KnowsFiles(a) /\ KnowsFields(a)
      /\ KnowsGallery(a) /\ M!TypeOK /\ Stored /\ DocumentsTyped
      /\ version \in Nat /\ last \in Nat /\ None \notin M!Ids
      /\ "narration" \in M!Slots /\ "avatar" \in M!Slots
  BY <1>1, Before
<1>3. PICK todo : todo = a.todo \ {f}
  OBVIOUS
<1>4. PICK q : q = IF todo = {} THEN M!Idle ELSE [a EXCEPT !.todo = todo]
  OBVIOUS
<1>5. /\ a.pc = "files" /\ M!Become(r, q)
      /\ UNCHANGED <<there, gallery, version, cover, og, slot, last, fetched, late, crowded>>
      /\ UNCHANGED <<rewritten, broken, unfound>>
      /\ IF a.todo = {} THEN UNCHANGED <<files, strays>>
         ELSE /\ f \in a.todo
              /\ \/ files' = files \ {f} /\ strays' = strays
                 \/ strays' = strays \cup {f} /\ files' = files
  BY <1>1, <1>3, <1>4 DEF M!DeleteFile, M!At, M!galleryVars
<1>6. /\ a.got = <<>> /\ a.image = None /\ a.old = None /\ M!Range(a.got) = {}
      /\ Doomed(a) = a.todo /\ HandOf(a) = a.todo /\ a.todo \subseteq M!Ids
  BY <1>2, <1>5, MediaOperators, RequestOfType DEF HoldsFiles, Doomed, HandOf
<1>7. ~there /\ slot["avatar"] \notin a.todo /\ gallery = <<>> /\ slot["narration"] = None
  BY <1>2, <1>5 DEF KnowsFiles, Stored
<1>8. CASE todo = {}
  <2>1. /\ q = M!Idle /\ q \in M!Request /\ HandOf(q) = {} /\ KnowsMedia(q)' /\ ComesOf(q, a)
    BY <1>2, <1>4, <1>5, <1>8, IdleRequest, EndKnows
  <2>2. /\ files' \subseteq files /\ files \subseteq files' \cup Doomed(a)
        /\ Lost \subseteq Lost' /\ Lost' \subseteq M!Ids
        /\ (broken => broken') /\ broken' \in BOOLEAN
        /\ \A g \in HandOf(a) : g \in files' => g \in HandOf(q) \/ g \in Lost'
    BY <1>2, <1>3, <1>5, <1>6, <1>8 DEF DocumentsTyped, Lost
  <2>3. M!IdsOf(gallery) \subseteq files'
    BY <1>7, EmptySeq DEF M!IdsOf
  <2>4. \A s \in M!Slots : slot[s] # None =>
          /\ slot[s] \in files => slot[s] \in files' \/ Replaces(q, s, slot[s])
          /\ Replaces(a, s, slot[s]) => Gone(s)' \/ Replaces(q, s, slot[s])
    BY <1>5, <1>7 DEF Replaces, M!Slots
  <2> QED BY <1>1, <1>5, <2>1, <2>2, <2>3, <2>4, FilesInv
<1>9. CASE todo # {}
  <2>1. q = [a EXCEPT !.todo = todo] /\ todo \subseteq M!Ids
    BY <1>3, <1>4, <1>6, <1>9
  <2>2. /\ q \in M!Request /\ q.pc = "files" /\ q.got = <<>> /\ q.image = None /\ q.old = None
        /\ q.todo = todo /\ q.copy = a.copy /\ q.new = a.new
    BY <1>2, <1>5, <1>6, <2>1 DEF M!Request
  <2>3. M!Range(q.got) = {} /\ Doomed(q) = todo /\ HandOf(q) = todo
    BY <2>2, MediaOperators DEF Doomed, HandOf
  <2>4. ComesOf(q, a)
    BY <1>3, <1>6, <2>3 DEF ComesOf
  <2>5. KnowsMedia(q)'
    <3>1. Holds(q)'
      BY <1>2, <2>2, <2>3 DEF Holds, HoldsCopy, HoldsFiles
    <3>2. KnowsGallery(q)'
      BY <1>2, <1>5, <2>2 DEF KnowsGallery, Reading
    <3>3. KnowsFields(q)'
      BY <1>2, <1>5, <2>2 DEF KnowsFields, Faithful
    <3>4. KnowsFiles(q)'
      BY <1>2, <1>3, <1>5, <1>6, <1>7, <2>2, <2>3 DEF KnowsFiles
    <3> QED BY <3>1, <3>2, <3>3, <3>4 DEF KnowsMedia
  <2>6. /\ files' \subseteq files /\ files \subseteq files' \cup Doomed(a)
        /\ Lost \subseteq Lost' /\ Lost' \subseteq M!Ids
        /\ (broken => broken') /\ broken' \in BOOLEAN
        /\ \A g \in HandOf(a) : g \in files' => g \in HandOf(q) \/ g \in Lost'
    BY <1>2, <1>3, <1>5, <1>6, <1>9, <2>3 DEF DocumentsTyped, Lost
  <2>7. M!IdsOf(gallery) \subseteq files'
    BY <1>7, EmptySeq DEF M!IdsOf
  <2>8. \A s \in M!Slots : slot[s] # None =>
          /\ slot[s] \in files => slot[s] \in files' \/ Replaces(q, s, slot[s])
          /\ Replaces(a, s, slot[s]) => Gone(s)' \/ Replaces(q, s, slot[s])
    BY <1>5, <1>7 DEF Replaces, M!Slots
  <2> QED BY <1>1, <1>5, <2>2, <2>4, <2>5, <2>6, <2>7, <2>8, FilesInv
<1> QED BY <1>8, <1>9

LEMMA DropOldInv ==
  ASSUME M!Sensible, MediaInv, NEW r \in Clients, M!DropOld(r)
  PROVE  MediaInv'
<1>1. PICK a : a = call[r]
  OBVIOUS
<1>2. /\ a \in M!Request /\ HoldsFiles(a) /\ HoldsCopy(a) /\ KnowsFiles(a) /\ KnowsFields(a)
      /\ KnowsGallery(a) /\ M!TypeOK /\ Stored /\ DocumentsTyped
      /\ version \in Nat /\ last \in Nat /\ None \notin M!Ids
  BY <1>1, Before
<1>3. PICK q : q = [a EXCEPT !.pc = "fill"]
  OBVIOUS
<1>4. /\ a.pc = "drop" /\ M!Become(r, q)
      /\ UNCHANGED <<there, gallery, version, cover, og, slot, last, fetched, late, crowded>>
      /\ UNCHANGED <<rewritten, broken, strays>>
      /\ IF M!Finds(a.slot) THEN files' = files \ {a.old} /\ unfound' = unfound
         ELSE unfound' = unfound \cup {a.old} /\ files' = files
  BY <1>1, <1>3 DEF M!DropOld, M!At, M!galleryVars
<1>5. /\ a.got = <<>> /\ a.todo = {} /\ a.image = None /\ a.old # None /\ a.old \in M!Ids
      /\ M!Range(a.got) = {} /\ Doomed(a) = {a.old} /\ HandOf(a) = {}
  BY <1>2, <1>4, MediaOperators, RequestOfType DEF HoldsFiles, Doomed, HandOf, M!File
<1>6. /\ q \in M!Request /\ q.pc = "fill" /\ q.got = <<>> /\ q.image = None /\ q.old = a.old
      /\ q.todo = {} /\ q.copy = a.copy /\ q.new = a.new /\ q.slot = a.slot
  BY <1>2, <1>3, <1>5 DEF M!Request, M!PCs
<1>7. M!Range(q.got) = {} /\ Doomed(q) = {a.old}
  BY <1>5, <1>6 DEF Doomed
<1>8. ComesOf(q, a)
  BY <1>5, <1>7 DEF ComesOf
<1>9. KnowsMedia(q)'
  <2>1. Holds(q)'
    BY <1>2, <1>6, <1>7 DEF Holds, HoldsCopy, HoldsFiles
  <2>2. KnowsGallery(q)'
    BY <1>2, <1>4, <1>6 DEF KnowsGallery, Reading
  <2>3. KnowsFields(q)'
    BY <1>2, <1>4, <1>6 DEF KnowsFields, Faithful
  <2>4. KnowsFiles(q)'
    BY <1>2, <1>4, <1>5, <1>6, <1>7 DEF KnowsFiles, Lost
  <2> QED BY <2>1, <2>2, <2>3, <2>4 DEF KnowsMedia
<1>10. /\ files' \subseteq files /\ files \subseteq files' \cup Doomed(a)
       /\ Lost \subseteq Lost' /\ Lost' \subseteq M!Ids
       /\ (broken => broken') /\ broken' \in BOOLEAN
       /\ \A g \in HandOf(a) : g \in files' => g \in HandOf(q) \/ g \in Lost'
  BY <1>2, <1>4, <1>5 DEF DocumentsTyped, Lost
<1>11. /\ a.old \notin M!IdsOf(gallery) /\ \A s \in M!Slots : slot[s] = a.old => s = a.slot
  BY <1>2, <1>5 DEF KnowsFiles
<1>12. M!IdsOf(gallery) \subseteq files'
  BY <1>4, <1>11 DEF MediaInv, FilesThere
<1>13. \A s \in M!Slots : slot[s] # None =>
         /\ slot[s] \in files => slot[s] \in files' \/ Replaces(q, s, slot[s])
         /\ Replaces(a, s, slot[s]) => Gone(s)' \/ Replaces(q, s, slot[s])
  BY <1>4, <1>6, <1>11 DEF Replaces, M!Finds, M!Slots
<1> QED BY <1>1, <1>4, <1>6, <1>8, <1>9, <1>10, <1>12, <1>13, FilesInv

LEMMA MediaCrashInv ==
  ASSUME M!Sensible, MediaInv, NEW r \in Clients, M!Crash(r)
  PROVE  MediaInv'
<1>1. PICK a : a = call[r]
  OBVIOUS
<1>2. /\ a \in M!Request /\ KnowsMedia(a) /\ HoldsFiles(a) /\ KnowsFiles(a)
      /\ M!TypeOK /\ Stored /\ DocumentsTyped /\ version \in Nat /\ None \notin M!Ids
  BY <1>1, Before
<1>3. /\ M!Become(r, M!Idle)
      /\ UNCHANGED <<there, gallery, version, cover, og, slot, files, last, fetched, late, crowded>>
      /\ UNCHANGED <<rewritten, unfound>>
      /\ strays' = strays \cup M!Range(a.got) \cup (IF a.pc = "files" THEN a.todo ELSE {})
                          \cup (IF a.pc = "destroy" THEN {a.image} ELSE {})
      /\ broken' = (broken \/ (a.pc \in {"fill", "keep"} /\ a.slot = "avatar" /\ a.old # None))
  BY <1>1 DEF M!Crash, M!At, M!galleryVars
<1>4. /\ M!Range(a.got) \subseteq M!Ids /\ a.todo \subseteq M!Ids /\ a.slot \in M!Slots
      /\ a.pc = "destroy" => a.image \in M!Ids
  BY <1>2, RequestOfType DEF HoldsFiles, M!File
<1>5. M!Idle \in M!Request /\ HandOf(M!Idle) = {}
  BY IdleRequest
<1>6. KnowsMedia(M!Idle)' /\ ComesOf(M!Idle, a)
  BY <1>2, <1>3, EndKnows
<1>7. Lost \subseteq Lost' /\ Lost' \subseteq M!Ids
  BY <1>2, <1>3, <1>4 DEF DocumentsTyped, Lost
<1>8. (broken => broken') /\ broken' \in BOOLEAN
  BY <1>2, <1>3, <1>4 DEF DocumentsTyped
<1>9. \A f \in HandOf(a) : f \in files' => f \in HandOf(M!Idle) \/ f \in Lost'
  BY <1>2, <1>3 DEF HandOf, HoldsFiles, Lost
<1>10. M!IdsOf(gallery) \subseteq files'
  BY <1>3 DEF MediaInv, FilesThere
<1>11. \A s \in M!Slots : slot[s] # None =>
         /\ slot[s] \in files => slot[s] \in files' \/ Replaces(M!Idle, s, slot[s])
         /\ Replaces(a, s, slot[s]) => Gone(s)' \/ Replaces(M!Idle, s, slot[s])
  BY <1>3 DEF Replaces, Gone
<1>12. files' \subseteq files /\ files \subseteq files' \cup Doomed(a)
  BY <1>3
<1> QED BY <1>1, <1>3, <1>5, <1>6, <1>7, <1>8, <1>9, <1>10, <1>11, <1>12, FilesInv

-----------------------------------------------------------------------------
(* Writing other fields, slots, and the end of the post                    *)

LEMMA SaveCoverInv ==
  ASSUME M!Sensible, MediaInv, NEW r \in Clients, M!SaveCover(r)
  PROVE  MediaInv'
<1>1. PICK a : a = call[r]
  OBVIOUS
<1>2. /\ a \in M!Request /\ HoldsFiles(a) /\ HoldsCopy(a) /\ KnowsFiles(a)
      /\ M!TypeOK /\ Stored /\ DocumentsTyped
      /\ version \in Nat /\ last \in Nat /\ None \notin M!Ids
      /\ gallery \in Seq(M!Image) /\ M!IdsOf(gallery) \subseteq M!Ids
  BY <1>1, Before
<1>3. /\ a.pc \in {"cover", "publish"} /\ M!Become(r, M!Idle)
      /\ UNCHANGED <<there, slot, files, last, fetched, rewritten, broken, strays, unfound>>
  BY <1>1 DEF M!SaveCover, M!At
<1>4. /\ a.got = <<>> /\ a.todo = {} /\ a.old = None /\ Doomed(a) = {} /\ HandOf(a) = {}
      /\ a.copy.gallery \in Seq(M!Image) /\ a.image \in M!File /\ M!Range(a.got) = {}
  BY <1>2, <1>3, RequestOfType, MediaOperators DEF HoldsFiles, Doomed, HandOf
<1>5. CASE ~there
  <2>1. M!Stays
    BY <1>1, <1>3, <1>5 DEF M!SaveCover, M!galleryVars, M!Stays
  <2> QED BY <1>1, <1>3, <1>4, <2>1, MediaGivesUp
<1>6. CASE there
  <2>1. /\ cover' = (IF a.pc = "cover" THEN M!Write(cover, a.copy.cover, a.image) ELSE cover)
        /\ og' = M!Write(og, a.copy.og, a.image)
        /\ late' = (late \/ M!Outdated(a.copy))
        /\ UNCHANGED <<gallery, version, crowded>>
    BY <1>1, <1>6 DEF M!SaveCover, M!At
  <2>2. Spares(a)
    BY <1>2, <1>3, <2>1 DEF Spares, SameImages, Lost
  <2>3. KnowsMedia(M!Idle)' /\ ComesOf(M!Idle, a)
    BY <1>2, <2>1, EndKnows
  <2>4. DocumentsTyped'
    <3>1. cover' \in M!File /\ og' \in M!File /\ late' \in BOOLEAN
      BY <1>2, <1>4, <2>1 DEF DocumentsTyped, M!Write
    <3> QED BY <1>2, <1>3, <2>1, <3>1 DEF DocumentsTyped, Lost
  <2>5. Stored'
    BY <1>2, <1>3, <2>1 DEF Stored, Faithful
  <2>6. M!CoverIsInGallery'
    <3> SUFFICES ASSUME ~late'
                 PROVE  /\ og' = cover'
                        /\ IF gallery = <<>> THEN cover' = None ELSE cover' \in M!IdsOf(gallery)
      BY <2>1 DEF M!CoverIsInGallery
    <3>1. /\ ~late /\ M!IdsOf(gallery) = M!IdsOf(a.copy.gallery)
          /\ cover = a.copy.cover /\ og = a.copy.og
      BY <2>1 DEF M!Outdated
    <3>2. /\ og = cover
          /\ IF gallery = <<>> THEN cover = None ELSE cover \in M!IdsOf(gallery)
      BY <3>1 DEF MediaInv, M!CoverIsInGallery
    <3>3. /\ gallery = <<>> <=> M!IdsOf(gallery) = {}
          /\ a.copy.gallery = <<>> <=> M!IdsOf(a.copy.gallery) = {}
      BY <1>2, <1>4, GalleryOfType
    <3>4. og' = a.image /\ (a.pc = "cover" => cover' = a.image)
      BY <2>1, <3>1 DEF M!Write
    <3>5. CASE a.pc = "cover"
      <4>1. a.image \in M!IdsOf(gallery)
        BY <1>2, <3>1, <3>5 DEF HoldsCopy
      <4> QED BY <3>3, <3>4, <3>5, <4>1
    <3>6. CASE a.pc = "publish"
      <4>1. cover' = cover
        BY <2>1, <3>6
      <4>2. a.image = cover
        BY <1>2, <3>1, <3>2, <3>3, <3>6 DEF HoldsCopy
      <4> QED BY <3>2, <3>4, <4>1, <4>2
    <3> QED BY <1>3, <3>5, <3>6
  <2>7. M!GalleryIsInOrder'
    BY <2>1 DEF MediaInv, M!GalleryIsInOrder
  <2>8. FilesThere'
    <3>1. M!IdsOf(gallery)' \subseteq files'
      BY <1>3, <2>1 DEF MediaInv, FilesThere
    <3>2. \A s \in M!Slots : ~Replaces(call[r], s, slot[s])
      BY <1>1, <1>3 DEF Replaces
    <3> QED BY <1>3, <3>1, <3>2, StayThere
  <2>9. M!FilesAreAccountedFor'
    <3>1. ASSUME NEW f \in files'
          PROVE  \/ f \in HandOf(M!Idle) \/ f \in Lost'
                 \/ f \in M!IdsOf(gallery)' \/ \E s \in M!Slots : slot'[s] = f
                 \/ /\ f \in files /\ f \notin HandOf(call[r])
                    /\ f \notin M!IdsOf(gallery) /\ \A s \in M!Slots : slot[s] # f
      BY <1>1, <1>3, <1>4, <2>1
    <3> QED BY <1>3, <3>1, StayAccounted DEF Lost
  <2> QED BY <1>1, <1>3, <2>2, <2>3, <2>4, <2>5, <2>6, <2>7, <2>8, <2>9, IdleRequest, MediaMoves
<1> QED BY <1>5, <1>6

\* Gallery h is g but for the texts and downloads of its images.
SameButFields(g, h) ==
  /\ h \in Seq(M!Image) /\ Len(h) = Len(g) /\ DOMAIN h = DOMAIN g
  /\ (h = <<>> <=> g = <<>>) /\ M!IdsOf(h) = M!IdsOf(g)
  /\ SameImages(g, h) /\ (Distinct(g) => Distinct(h))
  /\ \A i \in DOMAIN g : h[i].order = g[i].order

LEMMA FieldsWritten ==
  ASSUME NEW g \in Seq(M!Image), NEW h, NEW j \in DOMAIN g, NEW m \in M!Image,
         h = [g EXCEPT ![j] = m], m.id = g[j].id, m.order = g[j].order
  PROVE  SameButFields(g, h) /\ \A i \in DOMAIN g : h[i] = IF i = j THEN m ELSE g[i]
<1>1. /\ Len(g) \in Nat /\ DOMAIN g = 1 .. Len(g) /\ g \in [1 .. Len(g) -> M!Image]
  OBVIOUS
<1>2. h \in [1 .. Len(g) -> M!Image] /\ \A i \in DOMAIN g : h[i] = IF i = j THEN m ELSE g[i]
  BY <1>1
<1>3. h \in Seq(M!Image) /\ Len(h) = Len(g) /\ DOMAIN h = DOMAIN g
  <2>1. PICK n \in Nat : n = Len(g)
    BY <1>1
  <2> QED BY <1>1, <1>2, <2>1
<1>4. \A i \in DOMAIN g : h[i].id = g[i].id /\ h[i].order = g[i].order
  BY <1>2
<1>5. SameImages(g, h) /\ M!IdsOf(h) = M!IdsOf(g) /\ (Distinct(g) => Distinct(h))
  BY <1>3, <1>4 DEF SameImages, M!IdsOf, Distinct
<1>6. h = <<>> <=> g = <<>>
  BY <1>3, <1>5, GalleryOfType
<1> QED BY <1>2, <1>3, <1>4, <1>5, <1>6 DEF SameButFields

LEMMA FieldsInv ==
  ASSUME MediaInv, SameButFields(gallery, gallery'),
         UNCHANGED <<cover, og, late, crowded>>
  PROVE  M!CoverIsInGallery' /\ M!GalleryIsInOrder'
<1>1. M!CoverIsInGallery'
  BY DEF MediaInv, SameButFields, M!CoverIsInGallery
<1>2. M!GalleryIsInOrder'
  BY DEF MediaInv, SameButFields, M!GalleryIsInOrder
<1> QED BY <1>1, <1>2

LEMMA SaveAltInv ==
  ASSUME M!Sensible, MediaInv, NEW r \in Clients, M!SaveAlt(r)
  PROVE  MediaInv'
<1>1. PICK a : a = call[r]
  OBVIOUS
<1>2. /\ a \in M!Request /\ HoldsFiles(a) /\ HoldsCopy(a) /\ KnowsGallery(a)
      /\ M!TypeOK /\ Stored /\ DocumentsTyped
      /\ version \in Nat /\ last \in Nat /\ None \notin M!Ids
      /\ gallery \in Seq(M!Image) /\ M!IdsOf(gallery) \subseteq M!Ids
  BY <1>1, Before
<1>3. /\ a.pc = "alt" /\ M!Become(r, M!Idle)
      /\ UNCHANGED <<there, version, cover, og, slot, files, last, fetched, late, crowded>>
      /\ UNCHANGED <<rewritten, broken, strays, unfound>>
  BY <1>1 DEF M!SaveAlt, M!At
<1>4. /\ a.got = <<>> /\ a.todo = {} /\ a.old = None /\ Doomed(a) = {} /\ HandOf(a) = {}
      /\ a.copy.gallery \in Seq(M!Image) /\ a.image \in M!File /\ M!Range(a.got) = {}
  BY <1>2, <1>3, RequestOfType, MediaOperators DEF HoldsFiles, Doomed, HandOf
<1>5. PICK i : i = M!IndexOf(a.copy.gallery, a.image)
  OBVIOUS
<1>6. CASE ~(M!Current(a.copy) /\ i \in DOMAIN gallery)
  <2>1. M!Stays
    BY <1>1, <1>3, <1>5, <1>6 DEF M!SaveAlt, M!Stays
  <2> QED BY <1>1, <1>3, <1>4, <2>1, MediaGivesUp
<1>7. CASE M!Current(a.copy) /\ i \in DOMAIN gallery
  <2>1. gallery[i] \in M!Image /\ gallery[i].id = a.image
    <3>1. SameImages(a.copy.gallery, gallery)
      BY <1>2, <1>3, <1>7 DEF KnowsGallery, Reading
    <3>2. \E k \in DOMAIN a.copy.gallery : a.copy.gallery[k].id = a.image
      BY <1>2, <1>3 DEF HoldsCopy, M!IdsOf
    <3>3. i \in DOMAIN a.copy.gallery /\ a.copy.gallery[i].id = a.image
      BY <1>5, <3>2 DEF M!IndexOf
    <3> QED BY <1>2, <1>7, <3>1, <3>3, GalleryOfType DEF SameImages
  <2>2. PICK m : m = [gallery[i] EXCEPT !.alt = a.image]
    OBVIOUS
  <2>3. /\ m \in M!Image /\ m.id = gallery[i].id /\ m.order = gallery[i].order
        /\ m.alt = a.image /\ m.downloads = gallery[i].downloads
    BY <1>4, <2>1, <2>2 DEF M!Image
  <2>4. gallery' = [gallery EXCEPT ![i] = m]
    BY <1>1, <1>5, <1>7, <2>2 DEF M!SaveAlt
  <2>5. PICK h : h = gallery'
    OBVIOUS
  <2>6. /\ SameButFields(gallery, h)
        /\ \A k \in DOMAIN gallery : h[k] = IF k = i THEN m ELSE gallery[k]
    BY <1>2, <1>7, <2>3, <2>4, <2>5, FieldsWritten
  <2>7. Spares(a)
    BY <1>2, <1>3, <2>5, <2>6 DEF Spares, SameButFields, Lost
  <2>8. KnowsMedia(M!Idle)' /\ ComesOf(M!Idle, a)
    BY <1>2, <1>3, EndKnows
  <2>9. DocumentsTyped'
    BY <1>2, <1>3, <2>5, <2>6 DEF DocumentsTyped, SameButFields, Lost
  <2>10. Stored'
    <3>1. \A k \in DOMAIN h : Faithful(h[k])
      BY <1>2, <1>7, <2>1, <2>3, <2>6 DEF Stored, Faithful, SameButFields
    <3> QED BY <1>2, <1>3, <2>5, <2>6, <3>1 DEF Stored, Faithful, SameButFields
  <2>11. M!CoverIsInGallery' /\ M!GalleryIsInOrder'
    BY <1>3, <2>5, <2>6, FieldsInv
  <2>12. FilesThere'
    <3>1. M!IdsOf(gallery)' \subseteq files'
      BY <1>3, <2>5, <2>6 DEF MediaInv, FilesThere, SameButFields
    <3>2. \A s \in M!Slots : ~Replaces(call[r], s, slot[s])
      BY <1>1, <1>3 DEF Replaces
    <3> QED BY <1>3, <3>1, <3>2, StayThere
  <2>13. M!FilesAreAccountedFor'
    <3>1. ASSUME NEW f \in files'
          PROVE  \/ f \in HandOf(M!Idle) \/ f \in Lost'
                 \/ f \in M!IdsOf(gallery)' \/ \E s \in M!Slots : slot'[s] = f
                 \/ /\ f \in files /\ f \notin HandOf(call[r])
                    /\ f \notin M!IdsOf(gallery) /\ \A s \in M!Slots : slot[s] # f
      BY <1>1, <1>3, <1>4, <2>5, <2>6 DEF SameButFields
    <3> QED BY <1>3, <3>1, StayAccounted DEF Lost
  <2> QED BY <1>1, <1>3, <2>7, <2>8, <2>9, <2>10, <2>11, <2>12, <2>13, IdleRequest, MediaMoves
<1> QED BY <1>6, <1>7

LEMMA DeleteMediaInv ==
  ASSUME M!Sensible, MediaInv, NEW r \in Clients, M!DeletePost(r)
  PROVE  MediaInv'
<1>1. PICK a : a = call[r]
  OBVIOUS
<1>2. /\ a \in M!Request /\ HoldsFiles(a) /\ KnowsFiles(a)
      /\ M!TypeOK /\ Stored /\ DocumentsTyped
      /\ version \in Nat /\ last \in Nat /\ None \notin M!Ids
      /\ \A s \in M!Slots : slot[s] \in M!Ids \/ slot[s] = None
      /\ "narration" \in M!Slots /\ "avatar" \in M!Slots
      /\ gallery \in Seq(M!Image) /\ M!IdsOf(gallery) \subseteq M!Ids
  BY <1>1, Before
<1>3. PICK b : b = M!Idle
  OBVIOUS
<1>4. PICK q : q = [b EXCEPT !.pc = "files", !.todo = a.todo]
  OBVIOUS
<1>5. /\ a.pc = "delete" /\ M!Become(r, q) /\ there' = FALSE
      /\ strays' = strays \cup (M!IdsOf(gallery) \ a.todo)
      /\ unfound' = unfound \cup ({slot["narration"]} \ {None})
      /\ gallery' = <<>> /\ cover' = None /\ og' = None
      /\ slot' = [slot EXCEPT !["narration"] = None]
      /\ UNCHANGED <<version, files, last, fetched, late, crowded, rewritten, broken>>
  BY <1>1, <1>3, <1>4 DEF M!DeletePost, M!At
<1>6. /\ a.got = <<>> /\ a.image = None /\ a.old = None /\ M!Range(a.got) = {}
      /\ Doomed(a) = a.todo /\ HandOf(a) = {} /\ a.todo \subseteq M!Ids
  BY <1>2, <1>5, MediaOperators, RequestOfType DEF HoldsFiles, Doomed, HandOf
<1>7. /\ q \in M!Request /\ q.pc = "files" /\ q.got = <<>> /\ q.image = None /\ q.old = None
      /\ q.todo = a.todo /\ q.copy.gallery = <<>> /\ q.copy.version = 0 /\ q.new = <<>>
      /\ M!Range(q.got) = {} /\ Doomed(q) = a.todo /\ HandOf(q) = a.todo
  <2>1. /\ b \in M!Request /\ b.got = <<>> /\ b.image = None /\ b.old = None /\ b.new = <<>>
        /\ b.copy.gallery = <<>> /\ b.copy.version = 0
    BY <1>3, IdleRequest
  <2>2. /\ q \in M!Request /\ q.pc = "files" /\ q.got = <<>> /\ q.image = None /\ q.old = None
        /\ q.todo = a.todo /\ q.copy.gallery = <<>> /\ q.copy.version = 0 /\ q.new = <<>>
    BY <1>4, <1>6, <2>1 DEF M!Request, M!PCs
  <2> QED BY <2>2, MediaOperators DEF Doomed, HandOf
<1>8. slot'["narration"] = None /\ \A s \in M!Slots : s # "narration" => slot'[s] = slot[s]
  BY <1>2, <1>5 DEF M!TypeOK
<1>9. M!IdsOf(gallery)' = {}
  BY <1>5 DEF M!IdsOf
<1>10. Spares(a)
  BY <1>2, <1>5, <1>6, <1>8, <1>9 DEF Spares, Lost
<1>11. ComesOf(q, a)
  BY <1>6, <1>7 DEF ComesOf
<1>12. KnowsMedia(q)'
  <2>1. Holds(q)'
    BY <1>7 DEF Holds, HoldsCopy, HoldsFiles, Distinct
  <2>2. KnowsGallery(q)'
    BY <1>2, <1>5, <1>7 DEF KnowsGallery, Reading
  <2>3. KnowsFields(q)'
    BY <1>7 DEF KnowsFields
  <2>4. KnowsFiles(q)'
    BY <1>2, <1>5, <1>6, <1>7, <1>8 DEF KnowsFiles
  <2> QED BY <2>1, <2>2, <2>3, <2>4 DEF KnowsMedia
<1>13. DocumentsTyped'
  <2>1. gallery' \in Seq(M!Image) /\ cover' \in M!File /\ og' \in M!File
    BY <1>5 DEF M!File
  <2>2. slot' \in [M!Slots -> M!File]
    BY <1>2, <1>5 DEF M!TypeOK, M!File
  <2>3. Lost' \subseteq M!Ids
    BY <1>2, <1>5 DEF DocumentsTyped, M!File, Lost
  <2> QED BY <1>2, <1>5, <2>1, <2>2, <2>3 DEF DocumentsTyped
<1>14. Stored'
  <2>1. Distinct(gallery)' /\ \A i \in DOMAIN gallery' : Faithful(gallery[i])'
    BY <1>5 DEF Distinct
  <2>2. \A s \in M!Slots : slot'[s] # None => slot'[s] <= last'
    BY <1>2, <1>5, <1>8 DEF Stored
  <2> QED BY <1>2, <1>5, <1>8, <1>9, <2>1, <2>2 DEF Stored
<1>15. M!CoverIsInGallery' /\ M!GalleryIsInOrder'
  <2>1. M!CoverIsInGallery'
    BY <1>5 DEF M!CoverIsInGallery
  <2>2. Len(gallery') <= MaxGallery /\ \A i \in DOMAIN gallery' : gallery'[i].order = i - 1
    BY <1>5 DEF M!Sensible
  <2> QED BY <2>1, <2>2 DEF M!GalleryIsInOrder
<1>16. FilesThere'
  <2>1. \A s \in M!Slots : ~Replaces(call[r], s, slot[s])
    BY <1>1, <1>5 DEF Replaces
  <2> QED BY <1>5, <1>8, <1>9, <2>1, StayThere
<1>17. M!FilesAreAccountedFor'
  <2>1. ASSUME NEW f \in files'
        PROVE  \/ f \in HandOf(q) \/ f \in Lost'
               \/ f \in M!IdsOf(gallery)' \/ \E s \in M!Slots : slot'[s] = f
               \/ /\ f \in files /\ f \notin HandOf(call[r])
                  /\ f \notin M!IdsOf(gallery) /\ \A s \in M!Slots : slot[s] # f
    <3>1. f \in M!Ids /\ f # None
      BY <1>2, <1>5 DEF DocumentsTyped
    <3>2. f \in M!IdsOf(gallery) => f \in HandOf(q) \/ f \in Lost'
      BY <1>5, <1>7 DEF Lost
    <3>3. slot["narration"] = f => f \in Lost'
      BY <1>5, <3>1 DEF Lost
    <3> QED BY <1>1, <1>5, <1>6, <1>8, <3>2, <3>3
  <2>2. Lost \subseteq Lost'
    BY <1>5 DEF Lost
  <2> QED BY <1>5, <2>1, <2>2, StayAccounted
<1> QED BY <1>1, <1>5, <1>7, <1>10, <1>11, <1>12, <1>13, <1>14, <1>15, <1>16, <1>17, MediaMoves

LEMMA KeepInv ==
  ASSUME M!Sensible, MediaInv, NEW r \in Clients, M!Keep(r)
  PROVE  MediaInv'
<1>1. PICK a : a = call[r]
  OBVIOUS
<1>2. /\ a \in M!Request /\ HoldsFiles(a) /\ KnowsFiles(a)
      /\ M!TypeOK /\ Stored /\ DocumentsTyped
      /\ version \in Nat /\ last \in Nat /\ None \notin M!Ids
      /\ \A s \in M!Slots : slot[s] \in M!Ids \/ slot[s] = None
      /\ "narration" \in M!Slots /\ "avatar" \in M!Slots
      /\ gallery \in Seq(M!Image) /\ M!IdsOf(gallery) \subseteq M!Ids
  BY <1>1, Before
<1>3. PICK t : t = a.slot
  OBVIOUS
<1>4. PICK g : g = a.got[1]
  OBVIOUS
<1>5. /\ a.pc = "keep" /\ M!Become(r, M!Idle)
      /\ UNCHANGED <<there, gallery, version, cover, og, late, crowded>>
      /\ UNCHANGED <<files, last, fetched, rewritten, broken, unfound>>
      /\ IF t = "narration" /\ ~there
         THEN strays' = strays \cup M!Range(a.got) /\ slot' = slot
         ELSE /\ slot' = [slot EXCEPT ![t] = g]
              /\ strays' = strays \cup ({slot[t]} \ {None, a.old})
  BY <1>1, <1>3, <1>4 DEF M!Keep, M!At, M!galleryVars, M!Kept
<1>6. /\ t \in M!Slots /\ a.got \in Seq(M!Ids) /\ Len(a.got) = 1 /\ a.todo = {} /\ a.image = None
  BY <1>2, <1>3, <1>5, RequestOfType DEF HoldsFiles
<1>7. M!Range(a.got) = {g} /\ g \in M!Ids /\ g # None
  <2>1. DOMAIN a.got = {1}
    BY <1>6
  <2>2. g \in M!Ids
    BY <1>4, <1>6
  <2> QED BY <1>2, <1>4, <2>1, <2>2, MediaOperators
<1>8. HandOf(a) = {g} /\ Doomed(a) = {a.old} \ {None}
  BY <1>5, <1>6, <1>7 DEF HandOf, Doomed
<1>9. /\ g \in files /\ g <= last /\ fetched[g] = 0
      /\ g \notin M!IdsOf(gallery) /\ \A s \in M!Slots : slot[s] # g
  BY <1>2, <1>7 DEF KnowsFiles
<1>10. a.old # None => a.old \notin files \/ a.old \in Lost
  BY <1>2, <1>5 DEF KnowsFiles
<1>11. /\ Lost \subseteq Lost' /\ Lost' \subseteq M!Ids
       /\ \A s \in M!Slots : slot'[s] = slot[s] \/ (s = t /\ slot'[s] = g)
  BY <1>2, <1>5, <1>6, <1>7 DEF DocumentsTyped, M!TypeOK, Lost
<1>12. Spares(a)
  BY <1>2, <1>5, <1>7, <1>11 DEF Spares, SameImages
<1>13. KnowsMedia(M!Idle)' /\ ComesOf(M!Idle, a)
  BY <1>2, <1>5, EndKnows
<1>14. DocumentsTyped'
  <2>1. slot' \in [M!Slots -> M!File]
    BY <1>2, <1>5, <1>6, <1>7 DEF M!TypeOK, M!File
  <2> QED BY <1>2, <1>5, <1>11, <2>1 DEF DocumentsTyped
<1>15. Stored'
  <2>1. ~there' => gallery' = <<>> /\ slot'["narration"] = None
    BY <1>2, <1>5, <1>6 DEF Stored, M!TypeOK
  <2>2. \A f \in M!IdsOf(gallery) : \A s \in M!Slots : slot'[s] # f
    BY <1>2, <1>9, <1>11 DEF Stored
  <2>3. \A s \in M!Slots : slot'[s] # None => slot'[s] <= last
    BY <1>2, <1>9, <1>11 DEF Stored
  <2>4. slot'["narration"] = slot'["avatar"] => slot'["avatar"] = None
    BY <1>2, <1>9, <1>11 DEF Stored
  <2> QED BY <1>2, <1>5, <2>1, <2>2, <2>3, <2>4 DEF Stored, Faithful
<1>16. M!CoverIsInGallery' /\ M!GalleryIsInOrder'
  BY <1>5 DEF MediaInv, M!CoverIsInGallery, M!GalleryIsInOrder
<1>17. FilesThere'
  <2>1. M!IdsOf(gallery)' \subseteq files'
    BY <1>5 DEF MediaInv, FilesThere
  <2>2. ASSUME NEW s \in M!Slots
        PROVE  \/ slot'[s] = None \/ slot'[s] \in files' \/ Gone(s)'
               \/ Replaces(M!Idle, s, slot'[s])
               \/ slot'[s] = slot[s] /\ slot[s] \notin files /\ ~Replaces(call[r], s, slot[s])
    <3>1. CASE s = t /\ slot'[s] = g
      BY <1>5, <1>9, <3>1
    <3>2. CASE slot'[s] = slot[s] /\ s # t
      BY <1>1, <1>3, <1>5, <3>2 DEF Replaces
    <3>3. CASE slot'[s] = slot[s] /\ s = t
      BY <1>2, <1>5, <1>6, <1>9, <3>3 DEF Stored, M!TypeOK
    <3> QED BY <1>11, <3>1, <3>2, <3>3
  <2> QED BY <1>5, <2>1, <2>2, StayThere
<1>18. M!FilesAreAccountedFor'
  <2>1. ASSUME NEW f \in files'
        PROVE  \/ f \in HandOf(M!Idle) \/ f \in Lost'
               \/ f \in M!IdsOf(gallery)' \/ \E s \in M!Slots : slot'[s] = f
               \/ /\ f \in files /\ f \notin HandOf(call[r])
                  /\ f \notin M!IdsOf(gallery) /\ \A s \in M!Slots : slot[s] # f
    <3>1. f \in M!Ids /\ f # None /\ f \in files
      BY <1>2, <1>5 DEF DocumentsTyped
    <3>2. f = g => f \in Lost' \/ \E s \in M!Slots : slot'[s] = f
      BY <1>2, <1>5, <1>6, <1>7 DEF M!TypeOK, Lost
    <3>3. f = slot[t] => f \in Lost' \/ slot'[t] = f
      BY <1>5, <1>10, <3>1 DEF Lost
    <3>4. \A s \in M!Slots : s # t /\ slot[s] = f => slot'[s] = f
      BY <1>11
    <3> QED BY <1>1, <1>5, <1>6, <1>8, <3>1, <3>2, <3>3, <3>4
  <2> QED BY <1>5, <1>11, <2>1, StayAccounted
<1> QED BY <1>1, <1>5, <1>12, <1>13, <1>14, <1>15, <1>16, <1>17, <1>18, IdleRequest, MediaMoves

\* A download counted changes one image, and leaves what requests rely on.
LEMMA CountDownloadInv ==
  ASSUME M!Sensible, MediaInv, NEW f \in M!Ids, M!CountDownload(f)
  PROVE  MediaInv'
<1>1. /\ M!TypeOK /\ Stored /\ DocumentsTyped /\ Distinct(gallery)
      /\ gallery \in Seq(M!Image) /\ fetched \in [M!Ids -> 0 .. MaxDownloads]
      /\ MaxDownloads \in Nat /\ call \in [Clients -> M!Request]
      /\ \A r \in Clients : KnowsMedia(call[r])
  BY DEF MediaInv, M!TypeOK, DocumentsTyped, Stored, M!Sensible, Lost
<1>2. PICK j : j = M!IndexOf(gallery, f)
  OBVIOUS
<1>3. PICK m : m = [gallery[j] EXCEPT !.downloads = @ + 1]
  OBVIOUS
<1>4. PICK h : h = gallery'
  OBVIOUS
<1>5. /\ f \in M!IdsOf(gallery) /\ fetched[f] < MaxDownloads
      /\ h = [gallery EXCEPT ![j] = m]
      /\ fetched' = [fetched EXCEPT ![f] = @ + 1]
      /\ rewritten' = IF M!Rewriting(f) THEN rewritten \cup {f} ELSE rewritten
      /\ UNCHANGED <<there, version, cover, og, slot, files, call, last, late, crowded, broken>>
      /\ UNCHANGED <<strays, unfound>>
  BY <1>2, <1>3, <1>4 DEF M!CountDownload
<1>6. j \in DOMAIN gallery /\ gallery[j].id = f /\ gallery[j] \in M!Image
  <2>1. \E k \in DOMAIN gallery : gallery[k].id = f
    BY <1>5 DEF M!IdsOf
  <2> QED BY <1>1, <1>2, <2>1, GalleryOfType DEF M!IndexOf
<1>7. /\ gallery[j].downloads \in Nat /\ gallery[j].downloads <= fetched[f]
      /\ f \notin rewritten => gallery[j].downloads = fetched[f]
      /\ gallery[j].alt \in {None, f}
  <2>1. gallery[j].downloads \in 0 .. MaxDownloads
    BY <1>1, <1>6, GalleryOfType
  <2> QED BY <1>1, <1>6, <2>1 DEF Stored, Faithful
<1>8. /\ m \in M!Image /\ m.id = gallery[j].id /\ m.order = gallery[j].order
      /\ m.alt = gallery[j].alt /\ m.downloads = gallery[j].downloads + 1
  <2>1. fetched[f] \in 0 .. MaxDownloads
    BY <1>1
  <2>2. gallery[j].downloads + 1 \in 0 .. MaxDownloads
    BY <1>1, <1>5, <1>7, <2>1
  <2> QED BY <1>3, <1>6, <2>2 DEF M!Image
<1>9. /\ SameButFields(gallery, h)
      /\ \A i \in DOMAIN gallery : h[i] = IF i = j THEN m ELSE gallery[i]
  BY <1>1, <1>5, <1>6, <1>8, FieldsWritten
<1>10. /\ fetched' \in [M!Ids -> 0 .. MaxDownloads] /\ rewritten' \subseteq M!Ids
       /\ fetched'[f] = fetched[f] + 1 /\ fetched[f] \in Nat
       /\ \A g \in M!Ids : g # f => fetched'[g] = fetched[g]
       /\ rewritten \subseteq rewritten' /\ \A g \in rewritten' : g # f => g \in rewritten
  BY <1>1, <1>5 DEF DocumentsTyped
<1>11. DocumentsTyped' /\ M!TypeOK'
  <2>1. gallery' \in Seq(M!Image)
    BY <1>4, <1>9 DEF SameButFields
  <2>2. DocumentsTyped'
    BY <1>1, <1>5, <1>10, <2>1 DEF DocumentsTyped, Lost
  <2> QED BY <1>1, <1>5, <2>2 DEF DocumentsTyped, M!TypeOK
<1>12. \A x : x.id # f /\ x.id \in M!Ids /\ Faithful(x) => Faithful(x)'
  BY <1>10 DEF Faithful
<1>13. \A i \in DOMAIN gallery' : Faithful(gallery[i])'
  <2>1. ASSUME NEW i \in DOMAIN h
        PROVE  /\ h[i].alt \in {None, h[i].id} /\ h[i].downloads <= fetched'[h[i].id]
               /\ h[i].id \notin rewritten' => h[i].downloads = fetched'[h[i].id]
    <3>1. i \in DOMAIN gallery /\ h[i] = IF i = j THEN m ELSE gallery[i]
      BY <1>9 DEF SameButFields
    <3>2. CASE i = j
      BY <1>6, <1>7, <1>8, <1>10, <3>1, <3>2
    <3>3. CASE i # j
      <4>1. PICK x : x = gallery[i]
        OBVIOUS
      <4>2. x.id # f /\ x.id \in M!Ids /\ Faithful(x) /\ h[i] = x
        BY <1>1, <1>6, <3>1, <3>3, <4>1, GalleryOfType DEF Distinct, Stored
      <4> QED BY <1>10, <4>2 DEF Faithful
    <3> QED BY <3>2, <3>3
  <2> QED BY <1>4, <2>1 DEF Faithful
<1>14. M!IdsOf(gallery)' = M!IdsOf(gallery)
  BY <1>4, <1>9 DEF SameButFields
<1>15. Stored'
  <2>1. Distinct(gallery)' /\ (gallery' = <<>> <=> gallery = <<>>)
    BY <1>1, <1>4, <1>9 DEF SameButFields
  <2>2. f <= last /\ f \in Nat /\ last \in Nat /\ last' = last
    BY <1>1, <1>5 DEF Stored, M!Ids, M!TypeOK
  <2>3. ASSUME NEW g \in M!Ids, g > last' PROVE fetched'[g] = 0
    <3>1. g # f /\ g > last
      BY <2>2, <2>3
    <3> QED BY <1>1, <1>10, <3>1 DEF Stored
  <2> QED BY <1>1, <1>5, <1>13, <1>14, <2>1, <2>3 DEF Stored
<1>16. ASSUME NEW r \in Clients PROVE KnowsMedia(call[r])'
  <2>1. PICK q : q = call[r]
    OBVIOUS
  <2>2. q \in M!Request /\ Holds(q) /\ KnowsGallery(q) /\ KnowsFiles(q) /\ KnowsFields(q)
    BY <1>1, <2>1 DEF KnowsMedia
  <2>3. Holds(q)'
    BY <2>2 DEF Holds, HoldsCopy, HoldsFiles
  <2>4. KnowsGallery(q)'
    <3>1. SameImages(gallery, gallery')
      BY <1>4, <1>9 DEF SameButFields
    <3> QED BY <1>5, <2>2, <3>1 DEF KnowsGallery, M!Current, SameImages
  <2>5. KnowsFiles(q)'
    <3>1. \A g \in M!Range(q.got) : g # f /\ g \in M!Ids
      BY <1>5, <2>2, RequestOfType DEF KnowsFiles
    <3> QED BY <1>5, <1>10, <1>14, <2>2, <3>1 DEF KnowsFiles, Doomed, Lost
  <2>6. KnowsFields(q)'
    <3> SUFFICES ASSUME q.pc = "rewrite", NEW i \in DOMAIN q.new
                 PROVE  Faithful(q.new[i])'
      BY DEF KnowsFields
    <3>1. q.new \in Seq(M!Image) /\ Faithful(q.new[i])
      BY <2>2, RequestOfType DEF KnowsFields
    <3>2. q.new[i].id \in M!Ids /\ q.new[i].downloads \in Nat
      BY <3>1, GalleryOfType
    <3>3. CASE q.new[i].id = f
      <4>1. M!Rewriting(f)
        BY <2>1, <3>3 DEF M!Rewriting, M!At, M!IdsOf
      <4> QED BY <1>5, <1>10, <3>1, <3>2, <3>3, <4>1 DEF Faithful
    <3>4. CASE q.new[i].id # f
      BY <1>10, <3>1, <3>2, <3>4 DEF Faithful
    <3> QED BY <3>3, <3>4
  <2>7. KnowsMedia(q)'
    BY <2>3, <2>4, <2>5, <2>6 DEF KnowsMedia
  <2>8. call'[r] = q
    BY <1>5, <2>1
  <2> QED BY <2>7, <2>8 DEF KnowsMedia, Holds, HoldsCopy, HoldsFiles, KnowsGallery, KnowsFiles,
                            KnowsFields, Doomed, M!Current
<1>17. AllDisjoint'
  BY <1>5 DEF MediaInv, AllDisjoint, DisjointFrom, Doomed
<1>18. M!CoverIsInGallery' /\ M!GalleryIsInOrder'
  BY <1>4, <1>5, <1>9, FieldsInv
<1>19. FilesThere'
  BY <1>5, <1>14 DEF MediaInv, FilesThere, Gone
<1>20. M!FilesAreAccountedFor'
  BY <1>5, <1>14 DEF MediaInv, M!FilesAreAccountedFor, M!InHand
<1> QED BY <1>11, <1>15, <1>16, <1>17, <1>18, <1>19, <1>20 DEF MediaInv

-----------------------------------------------------------------------------
(* The invariant, of module Media and of Content where it is the part taken *)

LEMMA MediaInit ==
  ASSUME M!Sensible, M!Init
  PROVE  MediaInv
<1>1. /\ there = TRUE /\ gallery = <<>> /\ version = 0 /\ cover = None /\ og = None
      /\ slot = [s \in M!Slots |-> None] /\ files = {} /\ last = 0
      /\ call = [r \in Clients |-> M!Idle] /\ fetched = [f \in M!Ids |-> 0]
      /\ late = FALSE /\ crowded = FALSE /\ broken = FALSE
      /\ rewritten = {} /\ strays = {} /\ unfound = {}
  BY DEF M!Init
<1>2. MaxVersion \in Nat /\ MaxFiles \in Nat /\ MaxDownloads \in Nat /\ MaxGallery \in Nat
  BY DEF M!Sensible
<1>3. \A r \in Clients : call[r] = M!Idle
  BY <1>1
<1>4. M!IdsOf(gallery) = {} /\ DOMAIN gallery = {} /\ Len(gallery) = 0
  BY <1>1 DEF M!IdsOf
<1>5. M!TypeOK
  <2>1. gallery \in Seq(M!Image) /\ cover \in M!File /\ og \in M!File
    BY <1>1 DEF M!File
  <2>2. slot \in [M!Slots -> M!File] /\ fetched \in [M!Ids -> 0 .. MaxDownloads]
    BY <1>1, <1>2 DEF M!File
  <2>3. call \in [Clients -> M!Request]
    BY <1>1, IdleRequest
  <2>4. version \in 0 .. MaxVersion /\ last \in 0 .. MaxFiles
    BY <1>1, <1>2
  <2>5. there \in BOOLEAN /\ late \in BOOLEAN /\ crowded \in BOOLEAN /\ broken \in BOOLEAN
    BY <1>1
  <2>6. /\ files \subseteq M!Ids /\ rewritten \subseteq M!Ids
        /\ strays \subseteq M!Ids /\ unfound \subseteq M!Ids
    BY <1>1
  <2> QED BY <2>1, <2>2, <2>3, <2>4, <2>5, <2>6 DEF M!TypeOK
<1>6. Stored
  <2>1. there /\ \A s \in M!Slots : slot[s] = None
    BY <1>1
  <2>2. \A f \in M!Ids : fetched[f] = 0
    BY <1>1
  <2>3. slot["narration"] = slot["avatar"] => slot["avatar"] = None
    BY <2>1 DEF M!Slots
  <2>4. Distinct(gallery) /\ \A i \in DOMAIN gallery : Faithful(gallery[i])
    BY <1>4 DEF Distinct
  <2>5. \A f \in files : f <= last
    BY <1>1
  <2> QED BY <1>4, <2>1, <2>2, <2>3, <2>4, <2>5 DEF Stored
<1>7. \A r \in Clients : KnowsMedia(call[r])
  BY <1>3, <1>5, IdleKnows
<1>8. AllDisjoint
  BY <1>3, IdleRequest DEF AllDisjoint, DisjointFrom
<1>9. M!CoverIsInGallery /\ M!GalleryIsInOrder
  BY <1>1, <1>2, <1>4 DEF M!CoverIsInGallery, M!GalleryIsInOrder
<1>10. FilesThere /\ M!FilesAreAccountedFor
  BY <1>1, <1>4 DEF FilesThere, M!FilesAreAccountedFor
<1> QED BY <1>5, <1>6, <1>7, <1>8, <1>9, <1>10 DEF MediaInv

LEMMA MediaRests ==
  ASSUME MediaInv, UNCHANGED M!vars
  PROVE  MediaInv'
<1>1. /\ UNCHANGED <<there, gallery, version, cover, og, slot, files, call, last, fetched>>
      /\ UNCHANGED <<late, crowded, rewritten, broken, strays, unfound>>
  BY DEF M!vars
<1>2. M!TypeOK' /\ Stored'
  BY <1>1 DEF MediaInv, M!TypeOK, Stored, Faithful
<1>3. ASSUME NEW r \in Clients PROVE KnowsMedia(call[r])'
  <2>1. PICK q : q = call[r]
    OBVIOUS
  <2>2. KnowsMedia(q)
    BY <2>1 DEF MediaInv
  <2>3. Holds(q)' /\ KnowsGallery(q)'
    BY <1>1, <2>2 DEF KnowsMedia, Holds, HoldsCopy, HoldsFiles, KnowsGallery, M!Current
  <2>4. KnowsFiles(q)' /\ KnowsFields(q)'
    BY <1>1, <2>2 DEF KnowsMedia, KnowsFiles, KnowsFields, Faithful, Doomed, Lost
  <2>5. call'[r] = q
    BY <1>1, <2>1
  <2> QED BY <2>3, <2>4, <2>5 DEF KnowsMedia, Holds, HoldsCopy, HoldsFiles, KnowsGallery, KnowsFiles,
                                  KnowsFields, Doomed, M!Current
<1>4. AllDisjoint'
  BY <1>1 DEF MediaInv, AllDisjoint, DisjointFrom, Doomed
<1>5. M!CoverIsInGallery' /\ M!GalleryIsInOrder'
  BY <1>1 DEF MediaInv, M!CoverIsInGallery, M!GalleryIsInOrder
<1>6. FilesThere' /\ M!FilesAreAccountedFor'
  BY <1>1 DEF MediaInv, FilesThere, M!FilesAreAccountedFor, M!InHand, Gone, Lost
<1> QED BY <1>2, <1>3, <1>4, <1>5, <1>6 DEF MediaInv

LEMMA MediaStep ==
  ASSUME M!Sensible, MediaInv, M!Next
  PROVE  MediaInv'
<1>1. CASE M!Environment
  BY <1>1, CountDownloadInv DEF M!Environment
<1>2. ASSUME NEW r \in Clients, M!Call(r) PROVE MediaInv'
  <2>1. CASE M!CallGallery(r)
    BY <2>1, AddImagesInv, RemoveImageInv DEF M!CallGallery
  <2>2. CASE M!CallCover(r)
    BY <2>2, SetCoverInv, PublishInv DEF M!CallCover
  <2>3. CASE M!CallFields(r)
    BY <2>3, DescribeImageInv, ReorderInv, MediaOperators DEF M!CallFields
  <2>4. CASE M!CallFiles(r)
    BY <2>4, ReplaceInv DEF M!CallFiles
  <2>5. CASE M!RemovePost(r)
    BY <2>5, RemoveMediaInv
  <2> QED BY <1>2, <2>1, <2>2, <2>3, <2>4, <2>5 DEF M!Call
<1>3. ASSUME NEW r \in Clients, M!Continue(r) PROVE MediaInv'
  BY <1>3, PutFileInv, PushImagesInv, RewriteGalleryInv, DestroyImageInv, SaveCoverInv, SaveAltInv,
     DeleteMediaInv, DeleteFileInv, DropOldInv, FillInv, KeepInv DEF M!Continue
<1>4. ASSUME NEW r \in Clients, M!Crash(r) PROVE MediaInv'
  BY <1>4, MediaCrashInv
<1> QED BY <1>1, <1>2, <1>3, <1>4 DEF M!Next

LEMMA MediaAlways == M!Sensible => (M!Spec => []MediaInv)
<1> SUFFICES ASSUME M!Sensible PROVE M!Spec => []MediaInv
  OBVIOUS
<1>1. M!Init => MediaInv
  BY MediaInit
<1>2. MediaInv /\ [M!Next]_(M!vars) => MediaInv'
  BY MediaStep, MediaRests
<1> QED BY <1>1, <1>2, PTL DEF M!Spec

MediaPart == part \in {"cover", "fields", "files"} => MediaInv

LEMMA ContentMedia == ContentSpec => []MediaPart
<1>1. ContentInit => MediaPart
  BY MediaInit, ContentAssumption DEF ContentInit, MediaPart
<1>2. MediaPart /\ [ContentNext]_contentVars => MediaPart'
  <2> SUFFICES ASSUME MediaPart, [ContentNext]_contentVars,
                      part' \in {"cover", "fields", "files"}
               PROVE  MediaInv'
    BY DEF MediaPart
  <2>1. CASE ContentNext
    <3>1. MediaNext /\ part' = part
      BY <2>1 DEF ContentNext, PostsNext, TextNext, ShelvesNext, MediaNext
    <3>2. CoverNext \/ FieldsNext \/ FilesNext
      BY <3>1 DEF MediaNext
    <3>3. M!Next
      BY <3>2 DEF CoverNext, FieldsNext, FilesNext, GoesOn, M!Next, M!Call
    <3> QED BY <3>1, <3>3, MediaStep, ContentAssumption DEF MediaPart
  <2>2. CASE UNCHANGED contentVars
    <3>1. part' = part /\ UNCHANGED M!vars
      BY <2>2 DEF contentVars, ofMedia, M!vars
    <3> QED BY <3>1, MediaRests DEF MediaPart
  <2> QED BY <2>1, <2>2
<1> QED BY <1>1, <1>2, PTL DEF ContentSpec

-----------------------------------------------------------------------------

\* posts.service.ts:636: the images and the narration that documents name
\* exist, always; so do the cover and the preview, but for one saved from a
\* copy that was out of date, and the avatar, but while it is being replaced or
\* where that failed after the old file was deleted (users.controller.ts:107).
THEOREM FilesExist ==
  /\ M!Sensible => (M!Spec => []M!NothingDangles)
  /\ ContentSpec => []NothingDangles
<1>1. MediaInv => M!NothingDangles
  <2> SUFFICES ASSUME MediaInv PROVE M!NothingDangles
    OBVIOUS
  <2>1. FilesThere /\ M!CoverIsInGallery
    BY DEF MediaInv
  <2>2. "narration" \in M!Slots /\ "avatar" \in M!Slots
    BY DEF M!Slots
  <2>3. slot["narration"] \in files \cup {None}
    BY <2>1, <2>2 DEF FilesThere, Gone, Replaces
  <2>4. \/ slot["avatar"] \in files \cup {None} \/ broken
        \/ \E r \in Clients : /\ call[r].pc \in {"fill", "keep"} /\ call[r].slot = "avatar"
                              /\ call[r].old = slot["avatar"]
    BY <2>1, <2>2 DEF FilesThere, Gone, Replaces
  <2>5. ~late => {cover, og} \ {None} \subseteq files
    BY <2>1 DEF FilesThere, M!CoverIsInGallery
  <2> QED BY <2>1, <2>3, <2>4, <2>5 DEF FilesThere, M!NothingDangles
<1>2. MediaPart => NothingDangles
  BY <1>1 DEF MediaPart, NothingDangles, ofImages
<1> QED BY <1>1, <1>2, MediaAlways, ContentMedia, PTL

\* posts.service.ts:602, :629, :652 and :784: the cover is an image of the
\* gallery, there is one as soon as there is an image, and link previews show
\* it.  Only a cover or a preview saved from an outdated copy breaks it.
THEOREM CoverCorrect ==
  /\ M!Sensible => (M!Spec => []M!CoverIsInGallery)
  /\ ContentSpec => []CoverIsInGallery
<1>1. MediaInv => M!CoverIsInGallery
  BY DEF MediaInv
<1>2. MediaPart => CoverIsInGallery
  BY DEF MediaPart, MediaInv, CoverIsInGallery, ofImages
<1> QED BY <1>1, <1>2, MediaAlways, ContentMedia, PTL

\* posts.service.ts:579, :596, :624 and :681: a gallery is in its reading
\* order, numbered from zero, and no longer than it may be.  Only images pushed
\* to a gallery that had changed since it was counted break it.
THEOREM GalleryCorrect ==
  /\ M!Sensible => (M!Spec => []M!GalleryIsInOrder)
  /\ ContentSpec => []GalleryIsInOrder
<1>1. MediaInv => M!GalleryIsInOrder
  BY DEF MediaInv
<1>2. MediaPart => GalleryIsInOrder
  BY DEF MediaPart, MediaInv, GalleryIsInOrder, ofImages
<1> QED BY <1>1, <1>2, MediaAlways, ContentMedia, PTL

\* posts.service.ts:697 and :727: an alternative text stays with the image it
\* was written for, although it is written by index, and a download is lost
\* only while its gallery is being rewritten.
THEOREM FieldsCorrect ==
  /\ M!Sensible => (M!Spec => []M!FieldsStayWithTheirImage)
  /\ ContentSpec => []FieldsStayWithTheirImage
<1>1. MediaInv => M!FieldsStayWithTheirImage
  BY DEF MediaInv, Stored, Faithful, M!FieldsStayWithTheirImage
<1>2. MediaPart => FieldsStayWithTheirImage
  BY <1>1 DEF MediaPart, FieldsStayWithTheirImage, ofImages
<1> QED BY <1>1, <1>2, MediaAlways, ContentMedia, PTL

\* posts.service.ts:320, :638, users.controller.ts:107: every file at Cloudinary
\* belongs to a document or to a request in progress, but for those lost to a
\* crash, to a call that failed or to a handler whose copy was out of date, and
\* for narrations replaced, or of a removed post, which deleteFile does not
\* find (posts.service.ts:385).
THEOREM FilesAccounted ==
  /\ M!Sensible => (M!Spec => []M!FilesAreAccountedFor)
  /\ ContentSpec => []FilesAreAccountedFor
<1>1. MediaInv => M!FilesAreAccountedFor
  BY DEF MediaInv
<1>2. MediaPart => FilesAreAccountedFor
  BY DEF MediaPart, MediaInv, FilesAreAccountedFor, ofImages
<1> QED BY <1>1, <1>2, MediaAlways, ContentMedia, PTL

\* Shelves and Media keep documents and requests well formed.
THEOREM ContentTyped == ContentSpec => []ContentOK
<1>1. ShelvesPart /\ MediaPart => ContentOK
  BY DEF ShelvesPart, ShelvesInv, MediaPart, MediaInv, ContentOK, ofImages
<1> QED BY <1>1, ContentShelves, ContentMedia, PTL

=============================================================================
