---------------------------- MODULE MCPublication ----------------------------
(***************************************************************************)
(* An instance of Publication for TLC.                                     *)
(***************************************************************************)
EXTENDS Publication, MCPosts

CONSTANTS s1, c1, c2

\* Ann writes every post that is commented on.
MCWriterOf == [p \in Articles |-> ann]

MCOwnerOf == [s \in SeriesIds |-> ann]

\* A type of one space, a type of both, and the first asked for in the other.
MCKinds == {<<"devscript", "article">>, <<"personal", "note">>, <<"personal", "article">>}

PublicationSymmetry == Permutations(Clients) \cup Permutations(Contents)

=============================================================================
