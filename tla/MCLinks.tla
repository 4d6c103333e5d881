------------------------------- MODULE MCLinks -------------------------------
(***************************************************************************)
(* Instances of module Auth for TLC that one run takes one at a time:      *)
(* handlers about links in mails, with two accounts, and handlers about    *)
(* Google sign-in, with one account and two browsers.  part says which one *)
(* it is; what is checked of either is what Auth says.                     *)
(***************************************************************************)
EXTENDS Auth, TLC

CONSTANTS r1, r2, u1, u2, n1, n2

VARIABLE part

LinkHandlers == {"register", "login", "forgot", "reset", "verify", "resend"}
GoogleHandlers == {"register", "login", "google", "exchange", "moderate"}

\* Every link may expire within one tick.
ShortLives == [p \in Purposes |-> 1]

\* A code is short-lived beside the links.
CodeFirst == [p \in Purposes |-> IF p = "oauth_code" THEN 1 ELSE 2]

L == INSTANCE Auth WITH
  Nonces <- {n1}, Handlers <- LinkHandlers, LinkTTL <- ShortLives, MaxSessions <- 1

G == INSTANCE Auth WITH Handlers <- GoogleHandlers, LinkTTL <- CodeFirst

\* The requests of the second part are all about one account, whichever.
Mentioned == {u \in Users : user[u] # NewAccount \/ \E r \in Requests : req[r].u = u}

PartInit == part \in {"links", "google"} /\ Init

PartNext == /\ \/ part = "links" /\ L!Next
               \/ part = "google" /\ G!Next /\ Cardinality(Mentioned') <= 1
            /\ UNCHANGED part

PartSpec == PartInit /\ [][PartNext]_<<part, vars>>

\* Requests are interchangeable, and so are the accounts.
MCSymmetry == Permutations({r1, r2}) \cup Permutations({u1, u2})

=============================================================================
