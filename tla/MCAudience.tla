------------------------------ MODULE MCAudience ------------------------------
(***************************************************************************)
(* An instance of Audience for TLC.                                        *)
(***************************************************************************)
EXTENDS Audience

CONSTANTS ann, bob, p1, t1, d1, q1, v1, v2, r1, r2

MCOwnerOf == [t \in Things |-> ann]

\* One document of four is another author's, and one is more relevant.
MCDocOwner == [i \in 1 .. MaxDocs |-> IF i = 2 THEN bob ELSE ann]
MCScore == [i \in 1 .. MaxDocs |-> IF i = 3 THEN 1 ELSE 0]

\* Ann writes every post.
MCAuthorOf == [p \in Posts |-> ann]

MCLimitOf == [u \in Askers |-> 2]

MCSymmetry == Permutations(Requests)

==============================================================================
