-------------------------------- MODULE Media ---------------------------------
(***************************************************************************)
(* The files kept at Cloudinary and the documents that point to them: the  *)
(* gallery of a post with its cover and link preview, the narration of the *)
(* post, and its author's avatar.                                          *)
(*                                                                         *)
(* Each step is one call of the database or of Cloudinary.  The document   *)
(* is read, decided on and saved.  How save() writes is mongoose's doing:  *)
(* pushed images are appended to what is stored and move __v on; a gallery *)
(* assigned or sorted as a whole is written only over the __v that was     *)
(* read, and moves it on; a field of one image is written by its index,    *)
(* only over the __v that was read; other fields are just written.         *)
(*                                                                         *)
(* A call that fails ends its handler, as Crash does.  Left out: sizes and *)
(* image types, and who may edit (a request here is one that may).         *)
(***************************************************************************)
EXTENDS Naturals, Sequences, FiniteSets, SequencesExt

CONSTANTS
  None,          \* no file
  MaxGallery,    \* images a post may have
  Requests,      \* requests that may be in progress at one time
  MaxFiles,      \* bound: files ever uploaded
  MaxDownloads,  \* bound: downloads counted
  MaxVersion     \* bound: __v

VARIABLES
  there,     \* the post exists
  gallery,   \* its images, as stored
  version,   \* its __v
  cover,     \* its cover
  og,        \* the image of its link previews
  slot,      \* the narration and the avatar
  files,     \* files at Cloudinary
  req,       \* requests in progress
  last,      \* last file uploaded
  \* History, read by no guard:
  fetched,   \* downloads of each image
  late,      \* a cover or a preview was saved from an outdated copy
  crowded,   \* images were pushed to a gallery that had changed
  rewritten, \* images whose fields changed while their gallery was rewritten
  broken,    \* the avatar was not replaced after its old file was deleted
  strays,    \* files lost: to a crash, a call that failed or a copy out of date
  unfound    \* narrations that stayed when they were replaced, or their post removed

vars == <<there, gallery, version, cover, og, slot, files, req, last, fetched, late,
          crowded, rewritten, broken, strays, unfound>>

galleryVars == <<gallery, version, cover, og, late, crowded>>

-----------------------------------------------------------------------------
(* Documents                                                               *)

Ids == 1 .. MaxFiles

File == Ids \cup {None}

\* What the proofs take of the constants: None is no file, and the bounds are
\* numbers.
Sensible == /\ None \notin Ids
            /\ MaxGallery \in Nat /\ MaxFiles \in Nat /\ MaxDownloads \in Nat
            /\ MaxVersion \in Nat

\* alt: the image its text was written for.
Image == [id : Ids, order : Nat, alt : File, downloads : 0 .. MaxDownloads]

IdsOf(g) == {g[i].id : i \in DOMAIN g}

IndexOf(g, f) == CHOOSE i \in DOMAIN g : g[i].id = f

Slots == {"narration", "avatar"}

\* What a handler has read.
Copy == [gallery : Seq(Image), version : Nat, cover : File, og : File]

Read == [gallery |-> gallery, version |-> version, cover |-> cover, og |-> og]

-----------------------------------------------------------------------------
(* Requests                                                                *)

PCs == {"idle", "put", "push", "rewrite", "destroy", "cover", "publish", "alt",
        "delete", "files", "drop", "fill", "keep"}

\* A request: the copy, the image it is about, the images uploaded of so many
\* to upload, the gallery to write, the slot with its old and new file, and
\* the files to delete.
Request == [pc : PCs, copy : Copy, image : File, got : Seq(Ids), many : Nat,
            new : Seq(Image), slot : Slots, old : File, todo : SUBSET Ids]

NoCopy == [gallery |-> <<>>, version |-> 0, cover |-> None, og |-> None]

Idle == [pc |-> "idle", copy |-> NoCopy, image |-> None, got |-> <<>>, many |-> 0,
         new |-> <<>>, slot |-> "narration", old |-> None, todo |-> {}]

At(r, pc) == req[r].pc = pc

Become(r, q) == req' = [req EXCEPT ![r] = q]

\* Nothing but requests changes.
Stays == UNCHANGED <<there, gallery, version, cover, og, slot, files, last, fetched, late,
                     crowded, rewritten, broken, strays, unfound>>

\* findEditable
Begins(r) == At(r, "idle") /\ there

Start(pc) == [Idle EXCEPT !.pc = pc, !.copy = Read]

\* A new file; Crash leaves those of a request behind.
Uploaded == /\ last < MaxFiles /\ last' = last + 1
            /\ files' = files \cup {last'}

\* save() writes a field of the document only where the copy changed it.
Write(stored, copy, new) == IF new = copy THEN stored ELSE new

\* History: what a cover is chosen from is no longer what is stored.
Outdated(copy) == \/ IdsOf(gallery) # IdsOf(copy.gallery)
                  \/ cover # copy.cover \/ og # copy.og

-----------------------------------------------------------------------------
(* The gallery                                                             *)

\* Mutant: the images of this upload are not counted.
HasRoom_Before(n) == Len(gallery) <= MaxGallery

HasRoom(n) == Len(gallery) + n <= MaxGallery

AddImages(r, n) ==
  /\ Begins(r) /\ HasRoom(n)
  /\ Become(r, [Start("put") EXCEPT !.many = n])
  /\ Stays

\* One upload of several; the next step comes with the last.
PutFile(r) == LET got == Append(req[r].got, last') IN
  /\ At(r, "put") /\ Uploaded
  /\ Become(r, [req[r] EXCEPT !.got = got,
                  !.pc = IF Len(got) = req[r].many THEN "push" ELSE "put"])
  /\ UNCHANGED galleryVars
  /\ UNCHANGED <<there, slot, fetched, rewritten, broken, strays, unfound>>

\* Images go behind those of the copy.
NewImages(q) ==
  [i \in DOMAIN q.got |-> [id |-> q.got[i], order |-> Len(q.copy.gallery) + i - 1,
                           alt |-> None, downloads |-> 0]]

\* The first image becomes the cover where there was none.
PushImages(r) == LET q == req[r] first == q.copy.cover = None IN
  /\ At(r, "push")
  /\ IF ~there
     THEN /\ strays' = strays \cup Range(q.got)
          /\ UNCHANGED galleryVars
     ELSE /\ gallery' = gallery \o NewImages(q)
          /\ version < MaxVersion /\ version' = version + 1
          /\ cover' = IF first THEN q.got[1] ELSE cover
          /\ og' = IF first THEN q.got[1] ELSE og
          /\ late' = (late \/ Outdated(q.copy))
          /\ crowded' = (crowded \/ IdsOf(gallery) # IdsOf(q.copy.gallery))
          /\ UNCHANGED strays
  /\ Become(r, Idle)
  /\ UNCHANGED <<there, slot, files, last, fetched, rewritten, broken, unfound>>

\* Image i of g comes before image j in reading order; images of the same
\* order stay as they are stored.
Precedes(g, i, j) == g[i].order < g[j].order \/ (g[i].order = g[j].order /\ i < j)

\* Of the images of g at places P, the one that k others precede.
Nth(g, P, k) == g[CHOOSE i \in P : Cardinality({j \in P : Precedes(g, j, i)}) = k]

\* The images of g at places P, in reading order.
InOrder(g, P) == [k \in 1 .. Cardinality(P) |-> Nth(g, P, k - 1)]

\* Without image f, in reading order, numbered anew.
Without(g, f) ==
  LET rest == InOrder(g, {i \in DOMAIN g : g[i].id # f})
  IN [i \in DOMAIN rest |-> [rest[i] EXCEPT !.order = i - 1]]

RemoveImage(r, f) ==
  /\ Begins(r) /\ f \in IdsOf(gallery)
  /\ Become(r, [Start("rewrite") EXCEPT !.image = f, !.new = Without(gallery, f)])
  /\ Stays

\* The images of g, each with its place in order.
Reordered(g, order) ==
  [i \in DOMAIN g |-> [g[i] EXCEPT
     !.order = (CHOOSE k \in DOMAIN order : order[k] = g[i].id) - 1]]

\* The ids of the gallery in another order.
Reorder(r, order) == LET g == Reordered(gallery, order) IN
  /\ Begins(r) /\ Range(order) = IdsOf(gallery)
  /\ Become(r, [Start("rewrite") EXCEPT !.new = InOrder(g, DOMAIN g)])
  /\ Stays

\* Mutant: the version of the document is not checked.
Current_Any(copy) == there

\* mongoose: the __v that was read is the one that is stored.
Current(copy) == there /\ version = copy.version

\* The cover removed is followed by the first image left.
NextCover(q) == IF q.new = <<>> THEN None ELSE q.new[1].id

\* Mutant: the cover stays when its image goes.
CoverAfter_Same(q) == q.copy.cover

CoverAfter(q) == IF q.image # None /\ q.image = q.copy.cover THEN NextCover(q)
                 ELSE q.copy.cover

PreviewAfter(q) == IF q.image # None /\ q.image = q.copy.cover THEN NextCover(q)
                   ELSE q.copy.og

\* Mutant: the file of a removed image stays.
AfterRewrite_Kept(q) == Idle

\* deleteFile, of a removed image.
AfterRewrite(q) == IF q.image = None THEN Idle
                   ELSE [Idle EXCEPT !.pc = "destroy", !.image = q.image]

\* save(), then deleteFile.  A VersionError ends the handler.
RewriteGallery(r) == LET q == req[r] IN
  /\ At(r, "rewrite")
  /\ IF ~Current(q.copy)
     THEN Become(r, Idle) /\ UNCHANGED galleryVars
     ELSE /\ gallery' = q.new
          /\ version < MaxVersion /\ version' = version + 1
          /\ cover' = Write(cover, q.copy.cover, CoverAfter(q))
          /\ og' = Write(og, q.copy.og, PreviewAfter(q))
          /\ late' = (late \/ (q.image # None /\ Outdated(q.copy)))
          /\ Become(r, AfterRewrite(q))
          /\ UNCHANGED crowded
  /\ UNCHANGED <<there, slot, files, last, fetched, rewritten, broken, strays, unfound>>

DestroyImage(r) ==
  /\ At(r, "destroy")
  /\ files' = files \ {req[r].image}
  /\ Become(r, Idle)
  /\ UNCHANGED galleryVars
  /\ UNCHANGED <<there, slot, last, fetched, rewritten, broken, strays, unfound>>

SetCover(r, f) ==
  /\ Begins(r) /\ f \in IdsOf(gallery)
  /\ Become(r, [Start("cover") EXCEPT !.image = f])
  /\ Stays

\* applyOgMetadata, when a post is published.
Publish(r) ==
  /\ Begins(r)
  /\ Become(r, [Start("publish") EXCEPT
                  !.image = IF cover # None THEN cover
                            ELSE IF gallery # <<>> THEN gallery[1].id ELSE None])
  /\ Stays

\* No version is checked; publishing writes the preview only.
SaveCover(r) == LET q == req[r] IN
  /\ At(r, "cover") \/ At(r, "publish")
  /\ IF ~there THEN UNCHANGED galleryVars
     ELSE /\ cover' = IF At(r, "cover") THEN Write(cover, q.copy.cover, q.image) ELSE cover
          /\ og' = Write(og, q.copy.og, q.image)
          /\ late' = (late \/ Outdated(q.copy))
          /\ UNCHANGED <<gallery, version, crowded>>
  /\ Become(r, Idle)
  /\ UNCHANGED <<there, slot, files, last, fetched, rewritten, broken, strays, unfound>>

\* History: a rewrite that will put back what image f was.
Rewriting(f) == \E r \in Requests : At(r, "rewrite") /\ f \in IdsOf(req[r].new)

DescribeImage(r, f) ==
  /\ Begins(r) /\ f \in IdsOf(gallery)
  /\ Become(r, [Start("alt") EXCEPT !.image = f])
  /\ Stays

\* By its index in the copy.
SaveAlt(r) == LET q == req[r] i == IndexOf(q.copy.gallery, q.image) IN
  /\ At(r, "alt")
  /\ IF Current(q.copy) /\ i \in DOMAIN gallery
     THEN gallery' = [gallery EXCEPT ![i].alt = q.image]
     ELSE UNCHANGED gallery
  /\ Become(r, Idle)
  /\ UNCHANGED <<there, version, cover, og, slot, files, last, fetched, late, crowded,
                 rewritten, broken, strays, unfound>>

\* One atomic updateOne, of the image that has the id.
CountDownload(f) ==
  /\ there /\ f \in IdsOf(gallery) /\ fetched[f] < MaxDownloads
  /\ gallery' = [gallery EXCEPT ![IndexOf(gallery, f)].downloads = @ + 1]
  /\ fetched' = [fetched EXCEPT ![f] = @ + 1]
  /\ rewritten' = IF Rewriting(f) THEN rewritten \cup {f} ELSE rewritten
  /\ UNCHANGED <<there, version, cover, og, slot, files, req, last, late, crowded, broken,
                 strays, unfound>>

-----------------------------------------------------------------------------
(* Removal of the post                                                     *)

\* destroy looks among images, and audio is stored as video: no narration is
\* found.
Finds(s) == s # "narration"

\* The files that go are those of the copy, and of those the images: that of
\* the narration is not found.
RemovePost(r) ==
  /\ Begins(r)
  /\ Become(r, [Start("delete") EXCEPT !.todo = IdsOf(gallery)])
  /\ Stays

DeletePost(r) ==
  /\ At(r, "delete")
  /\ there' = FALSE
  /\ strays' = strays \cup (IdsOf(gallery) \ req[r].todo)
  /\ unfound' = unfound \cup ({slot["narration"]} \ {None})
  /\ gallery' = <<>> /\ cover' = None /\ og' = None
  /\ slot' = [slot EXCEPT !["narration"] = None]
  /\ Become(r, [Idle EXCEPT !.pc = "files", !.todo = req[r].todo])
  /\ UNCHANGED <<version, files, last, fetched, late, crowded, rewritten, broken>>

\* Best effort, in any order: a call may fail, and its file stays.
DeleteFile(r, f) == LET todo == req[r].todo \ {f} IN
  /\ At(r, "files")
  /\ IF req[r].todo = {} THEN UNCHANGED <<files, strays>>
     ELSE /\ f \in req[r].todo
          /\ \/ files' = files \ {f} /\ UNCHANGED strays
             \/ strays' = strays \cup {f} /\ UNCHANGED files
  /\ Become(r, IF todo = {} THEN Idle ELSE [req[r] EXCEPT !.todo = todo])
  /\ UNCHANGED galleryVars
  /\ UNCHANGED <<there, slot, last, fetched, rewritten, broken, unfound>>

-----------------------------------------------------------------------------
(* Narration and avatar                                                    *)

\* The narration is of the post; what is spoken comes first, and may fail.
\* The avatar is of its author, and is looked at after the old one is gone.
Replace(r, s) ==
  /\ At(r, "idle") /\ (s = "narration" => there)
  /\ Become(r, [Idle EXCEPT !.pc = IF slot[s] = None THEN "fill" ELSE "drop", !.slot = s,
                  !.old = slot[s]])
  /\ Stays

\* deleteFile, before the new file is uploaded.
DropOld(r) == LET q == req[r] IN
  /\ At(r, "drop")
  /\ IF Finds(q.slot) THEN files' = files \ {q.old} /\ UNCHANGED unfound
     ELSE unfound' = unfound \cup {q.old} /\ UNCHANGED files
  /\ Become(r, [q EXCEPT !.pc = "fill"])
  /\ UNCHANGED galleryVars
  /\ UNCHANGED <<there, slot, last, fetched, rewritten, broken, strays>>

Fill(r) ==
  /\ At(r, "fill") /\ Uploaded
  /\ Become(r, [req[r] EXCEPT !.pc = "keep", !.got = <<last'>>])
  /\ UNCHANGED galleryVars
  /\ UNCHANGED <<there, slot, fetched, rewritten, broken, strays, unfound>>

\* Mutant: the document keeps the file that was deleted.
Kept_Old(q) == IF q.old = None THEN q.got[1] ELSE q.old

Kept(q) == q.got[1]

\* The last to save wins: what another request saved meanwhile is lost.
Keep(r) == LET q == req[r] s == q.slot IN
  /\ At(r, "keep")
  /\ IF s = "narration" /\ ~there
     THEN strays' = strays \cup Range(q.got) /\ UNCHANGED slot
     ELSE /\ slot' = [slot EXCEPT ![s] = Kept(q)]
          /\ strays' = strays \cup ({slot[s]} \ {None, q.old})
  /\ Become(r, Idle)
  /\ UNCHANGED galleryVars
  /\ UNCHANGED <<there, files, last, fetched, rewritten, broken, unfound>>

-----------------------------------------------------------------------------

\* The process is lost, or a call failed.
Crash(r) == LET q == req[r] IN
  /\ ~At(r, "idle")
  /\ strays' = strays \cup Range(q.got) \cup (IF At(r, "files") THEN q.todo ELSE {})
                      \cup (IF At(r, "destroy") THEN {q.image} ELSE {})
  /\ broken' = (broken \/ (q.pc \in {"fill", "keep"} /\ q.slot = "avatar" /\ q.old # None))
  /\ Become(r, Idle)
  /\ UNCHANGED galleryVars
  /\ UNCHANGED <<there, slot, files, last, fetched, rewritten, unfound>>

Init ==
  /\ there = TRUE
  /\ gallery = <<>> /\ version = 0 /\ cover = None /\ og = None
  /\ slot = [s \in Slots |-> None]
  /\ files = {} /\ last = 0
  /\ req = [r \in Requests |-> Idle]
  /\ fetched = [f \in Ids |-> 0]
  /\ late = FALSE /\ crowded = FALSE /\ broken = FALSE
  /\ rewritten = {} /\ strays = {} /\ unfound = {}

CallGallery(r) == \/ \E n \in 1 .. MaxGallery : AddImages(r, n)
                  \/ \E f \in Ids : RemoveImage(r, f)

CallCover(r) == (\E f \in Ids : SetCover(r, f)) \/ Publish(r)

\* An order is asked for with as many ids as there are.
CallFields(r) ==
  \/ \E f \in Ids : DescribeImage(r, f)
  \/ \E order \in [1 .. Cardinality(IdsOf(gallery)) -> IdsOf(gallery)] : Reorder(r, order)

CallFiles(r) == \E s \in Slots : Replace(r, s)

Call(r) == CallGallery(r) \/ CallCover(r) \/ CallFields(r) \/ CallFiles(r) \/ RemovePost(r)

Continue(r) ==
  \/ PutFile(r) \/ PushImages(r) \/ RewriteGallery(r) \/ DestroyImage(r)
  \/ SaveCover(r) \/ SaveAlt(r)
  \/ DeletePost(r) \/ \E f \in Ids : DeleteFile(r, f)
  \/ DropOld(r) \/ Fill(r) \/ Keep(r)

Environment == \E f \in Ids : CountDownload(f)

Next == Environment \/ \E r \in Requests : Call(r) \/ Continue(r) \/ Crash(r)

Spec == Init /\ [][Next]_vars

-----------------------------------------------------------------------------
(* Properties                                                              *)

\* Documents and requests stay well formed.
TypeOK ==
  /\ there \in BOOLEAN /\ late \in BOOLEAN /\ crowded \in BOOLEAN /\ broken \in BOOLEAN
  /\ gallery \in Seq(Image) /\ version \in 0 .. MaxVersion
  /\ cover \in File /\ og \in File /\ slot \in [Slots -> File]
  /\ files \subseteq Ids /\ last \in 0 .. MaxFiles
  /\ req \in [Requests -> Request]
  /\ fetched \in [Ids -> 0 .. MaxDownloads]
  /\ rewritten \subseteq Ids /\ strays \subseteq Ids /\ unfound \subseteq Ids

\* posts.service.ts:602, :629, :652 and :784: the cover is an image of the
\* gallery, there is one as soon as there is an image, and link previews show
\* it.  A cover or a preview saved from a copy that was out of date breaks it.
CoverIsInGallery == ~late =>
  /\ og = cover
  /\ IF gallery = <<>> THEN cover = None ELSE cover \in IdsOf(gallery)

\* posts.service.ts:579, :596, :624 and :681: a gallery holds no more images
\* than it may, stored in their reading order, numbered from zero.  Images
\* pushed to a gallery that had changed since it was counted break it.
GalleryIsInOrder == ~crowded =>
  /\ Len(gallery) <= MaxGallery
  /\ \A i \in DOMAIN gallery : gallery[i].order = i - 1

\* posts.service.ts:697 and :727: an alternative text stays with the image it
\* was written for, and every download of an image is counted unless its
\* gallery was being rewritten.
FieldsStayWithTheirImage == \A i \in DOMAIN gallery : LET m == gallery[i] IN
  /\ m.alt \in {None, m.id}
  /\ m.id \notin rewritten => m.downloads = fetched[m.id]

\* posts.service.ts:636, "the DB must never point at an asset that no longer
\* exists": whatever requests race and wherever they end, the images and the
\* narration that documents name exist.  So do the cover and the preview, but
\* for one saved from a copy that was out of date (:652), and the avatar, but
\* while it is being replaced, or where that failed after the old file was
\* deleted (users.controller.ts:107).  Module MCMedia shows the first.
NothingDangles ==
  /\ IdsOf(gallery) \subseteq files
  /\ slot["narration"] \in files \cup {None}
  /\ ~late => {cover, og} \ {None} \subseteq files
  /\ \/ slot["avatar"] \in files \cup {None}
     \/ broken
     \/ \E r \in Requests : /\ req[r].pc \in {"fill", "keep"} /\ req[r].slot = "avatar"
                            /\ req[r].old = slot["avatar"]

\* Files a request is about to store or to delete.
InHand == UNION {Range(req[r].got) \cup req[r].todo \cup ({req[r].image} \ {None})
                 : r \in {x \in Requests : req[x].pc \in
                            {"put", "push", "destroy", "files", "keep"}}}

\* remove (posts.service.ts:320), deleteFile (:638, users.controller.ts:107):
\* every file at Cloudinary belongs to a document or to a request in progress,
\* but for files lost to a crash, to a call that failed or to a handler whose
\* copy was out of date, and for narrations replaced, or of a removed post,
\* which deleteFile does not find (posts.service.ts:385; module MCMedia).
FilesAreAccountedFor ==
  files \subseteq IdsOf(gallery) \cup {slot[s] : s \in Slots} \cup InHand
                 \cup strays \cup unfound

=============================================================================
