------------------------------- MODULE MCMedia --------------------------------
(***************************************************************************)
(* An instance of module Media for TLC, and what the repository says of    *)
(* files that the code does not do.  MCPublication has the instances on    *)
(* which the properties of Media hold.                                     *)
(***************************************************************************)
EXTENDS Media

CONSTANTS r1, r2

\* posts.service.ts:636: the DB must never point at an asset that no longer
\* exists.  Here: the cover and the link preview of a post.
CoverFileExists == {cover, og} \ {None} \subseteq files

\* posts.service.ts:383: delete the old narration file if regenerating.  By the
\* time the new one is saved, the old one is gone.
OldNarrationIsDeleted == \A r \in Requests :
  At(r, "keep") /\ req[r].slot = "narration" => req[r].old \notin files

=============================================================================
