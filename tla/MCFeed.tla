-------------------------------- MODULE MCFeed --------------------------------
(***************************************************************************)
(* An instance of module Feed for TLC.                                     *)
(***************************************************************************)
EXTENDS Feed, TLC

CONSTANTS ann, bob

MCOwnerOf == [i \in Ids |-> ann]
MCScore == [i \in Ids |-> 0]

-----------------------------------------------------------------------------
(* What the repository says of the queue of reports, and the code does not *)
(* do                                                                      *)

\* admin.service.ts:242: "oldest first - FIFO review queue".  Read page by
\* page, the queue comes to every report that was waiting when the reader
\* began, and to none of them again.
ReviewQueueIsFifo == \A w \in Readers :
  walk[w].query.list = "reports" =>
    /\ ~walk[w].again
    /\ walk[w].pc = "done" => walk[w].steady \subseteq walk[w].seen

=============================================================================
