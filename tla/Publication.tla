----------------------------- MODULE Publication -----------------------------
(***************************************************************************)
(* What happens to posts and under them: Content and Threads, side by      *)
(* side.  Neither reads what the other one writes, so a behaviour takes    *)
(* one of the parts of Content or Threads, and the others rest.  Threads   *)
(* is taken three times: comments are added in each, and any two of the    *)
(* other handlers meet in one.                                             *)
(***************************************************************************)
EXTENDS Content, Threads

publicationVars == <<contentVars, threadsVars>>

ContentRests == call = 0 /\ PostsRest /\ ShelvesRest /\ MediaRest

ofThreads == {"talk", "leaving", "erasing"}

\* Threads rests where it begins.
PublicationInit == /\ ThreadsInit
                   /\ ContentInit \/ (part \in ofThreads /\ ContentRests)

Comments(r) ==
  \/ \E u \in People, p \in Articles, c \in Ids \cup {NoParent} : CreateComment(r, u, p, c)
  \/ Proceed(r) \/ CrashTask(r)

TalkNext == \E r \in Visitors :
  \/ Comments(r)
  \/ \E u \in People : \/ \E p \in Articles : RemovePost(r, u, p)
                       \/ \E c \in Ids : Edit(r, u, c) \/ RemoveComment(r, u, c)

LeavingNext == \E r \in Visitors :
  \/ Comments(r)
  \/ \E u \in People : \/ CloseAccount(r, u)
                       \/ \E p \in Articles : RemovePost(r, u, p)
                       \/ \E c \in Ids : Edit(r, u, c)

ErasingNext == \E r \in Visitors :
  \/ Comments(r)
  \/ \E u \in People : CloseAccount(r, u) \/ \E c \in Ids : RemoveComment(r, u, c)

PublicationNext ==
  \/ ContentNext /\ UNCHANGED threadsVars
  \/ /\ \/ part = "talk" /\ TalkNext
        \/ part = "leaving" /\ LeavingNext
        \/ part = "erasing" /\ ErasingNext
     /\ UNCHANGED contentVars

PublicationSpec == PublicationInit /\ [][PublicationNext]_publicationVars

=============================================================================
