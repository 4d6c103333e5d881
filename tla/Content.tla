------------------------------- MODULE Content --------------------------------
(***************************************************************************)
(* What happens to posts: PostLifecycle, Shelves and Media, side by side.  *)
(* None reads what another one writes, so a behaviour takes one of them:   *)
(* part says which, and the variables of the others rest.  PostLifecycle   *)
(* is taken twice, with handlers about the status of a post and with       *)
(* handlers about its text.  Media is taken three times, with the handlers *)
(* about the cover, about the fields of images and about other files.      *)
(***************************************************************************)
EXTENDS PostLifecycle, Integers, Sequences

CONSTANTS
  Writers, Editors, EditHandlers, EditClock,                    \* Text, Shelves
  None, Categories, SeriesIds, OwnerOf, Kinds, Orders, Made,    \* Shelves
  MaxCount, MaxCalls,
  MaxGallery, MaxFiles, MaxDownloads, MaxVersion,               \* Media
  FieldsFiles, FieldsVersion

VARIABLES part,
          call,                                                 \* Shelves, Media
          doc, shelf, calls, stale, moved, torn, crossed,       \* Shelves
          there, gallery, version, cover, og, slot, files,      \* Media
          last, fetched, late, crowded, rewritten, broken, strays,
          unfound

ofShelves == <<doc, shelf, calls, stale, moved, torn, crossed>>
ofMedia == <<there, gallery, version, cover, og, slot, files, last, fetched, late,
             crowded, rewritten, broken, strays, unfound>>

contentVars == <<part, vars, call, ofShelves, ofMedia>>

Text == INSTANCE PostLifecycle WITH
  Users <- Writers, Admins <- Editors, MaxClock <- EditClock, Handlers <- EditHandlers

S == INSTANCE Shelves WITH
  Users <- Writers, Admins <- Editors, Requests <- Clients, post <- doc, req <- call

M == INSTANCE Media WITH Requests <- Clients, req <- call

\* What the proofs take of the constants.
ASSUME ContentAssumption == S!Sensible /\ M!Sensible

-----------------------------------------------------------------------------

PostsRest ==
  /\ \E c \in Contents :
       post = [p \in Posts |-> [status |-> "new", at |-> NoDate, content |-> c,
                                embedding |-> NoContent]]
  /\ accounts = Users /\ req = [r \in Requests |-> Idle] /\ now = 1
  /\ announced = [p \in Posts |-> 0]
  /\ told = {} /\ raced = {} /\ lost = {} /\ blurred = {}

ShelvesRest == /\ doc = 0 /\ shelf = 0 /\ calls = 0
               /\ stale = {} /\ moved = {} /\ torn = {} /\ crossed = {}

MediaRest == /\ there = FALSE /\ gallery = <<>> /\ version = 0 /\ cover = 0 /\ og = 0
             /\ slot = 0 /\ files = {} /\ last = 0 /\ fetched = 0 /\ late = FALSE
             /\ crowded = FALSE /\ rewritten = {} /\ broken = FALSE /\ strays = {}
             /\ unfound = {}

ContentInit ==
  \/ part = "status" /\ Init /\ call = 0 /\ ShelvesRest /\ MediaRest
  \/ part = "text" /\ Text!Init /\ call = 0 /\ ShelvesRest /\ MediaRest
  \/ part = "shelves" /\ S!Init /\ PostsRest /\ MediaRest
  \/ part \in {"cover", "fields", "files"} /\ M!Init /\ PostsRest /\ ShelvesRest

PostsNext == /\ part = "status" /\ Next
             /\ UNCHANGED <<part, call, ofShelves, ofMedia>>

TextNext == /\ part = "text" /\ Text!Next
            /\ UNCHANGED <<part, call, ofShelves, ofMedia>>

ShelvesNext == part = "shelves" /\ S!Next /\ UNCHANGED <<part, vars, ofMedia>>

GoesOn(r) == M!Continue(r) \/ M!Crash(r)

CoverNext == \E r \in Clients :
  M!CallGallery(r) \/ M!CallCover(r) \/ M!RemovePost(r) \/ GoesOn(r)

FieldsNext == /\ \/ M!Environment
                 \/ \E r \in Clients : M!CallGallery(r) \/ M!CallFields(r) \/ GoesOn(r)
              /\ last' <= FieldsFiles /\ version' <= FieldsVersion

FilesNext == \E r \in Clients : M!CallFiles(r) \/ M!RemovePost(r) \/ GoesOn(r)

MediaNext == /\ \/ part = "cover" /\ CoverNext
                \/ part = "fields" /\ FieldsNext
                \/ part = "files" /\ FilesNext
             /\ UNCHANGED <<part, vars, ofShelves>>

ContentNext == PostsNext \/ TextNext \/ ShelvesNext \/ MediaNext

ContentSpec == ContentInit /\ [][ContentNext]_contentVars

-----------------------------------------------------------------------------
(* The properties of the part that is checked, beside those of             *)
(* PostLifecycle                                                           *)

ofImages == {"cover", "fields"}

\* Shelves and Media keep their documents and requests well formed.
ContentOK == /\ part = "shelves" => S!TypeOK
             /\ part \in ofImages \cup {"files"} => M!TypeOK

\* Shelves: cached counts are the numbers of posts.
CountsAgree == part = "shelves" => S!CountsAgree

\* Shelves: no post is on a category or series that is gone.
NoPostOnMissingShelf == part = "shelves" => S!NoPostOnMissingShelf

\* Shelves: posts fit the space they are in.
PostsFitTheirSpace == part = "shelves" => S!PostsFitTheirSpace

\* Media: files that documents name exist.
NothingDangles == part \in ofImages \cup {"files"} => M!NothingDangles

\* Media: the cover is an image of the gallery.
CoverIsInGallery == part \in ofImages => M!CoverIsInGallery

\* Media: a gallery is in order, and no longer than it may be.
GalleryIsInOrder == part \in ofImages => M!GalleryIsInOrder

\* Media: alternative texts and downloads stay with their images.
FieldsStayWithTheirImage == part \in ofImages => M!FieldsStayWithTheirImage

\* Media: no file is forgotten.
FilesAreAccountedFor == part \in ofImages \cup {"files"} => M!FilesAreAccountedFor

=============================================================================
