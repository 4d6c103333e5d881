----------------------------- MODULE SingleUse -----------------------------
(***************************************************************************)
(* What a store of single-use tokens promises, whatever it is built on.    *)
(*                                                                         *)
(* A token is issued once, for one right.  While it is usable it may be    *)
(* redeemed, which grants exactly that right and ends the token, or it may *)
(* be retired (superseded, expired, revoked).  Nothing revives a token, so *)
(* no right is ever granted twice and none is granted that was not issued. *)
(*                                                                         *)
(* This is the promise of the comment above consumeOneTimeToken            *)
(* (src/src/auth/auth.service.ts:363); module Auth is shown to keep it.    *)
(***************************************************************************)
EXTENDS Sequences

CONSTANTS Tokens,   \* names of tokens
          Rights,   \* what a token may be issued for
          NoRight   \* the right of a token that cannot be used

VARIABLES issued,   \* tokens handed out so far
          usable,   \* usable[t]: the right t still stands for, or NoRight
          granted   \* granted[t]: the rights redeemed with t, in order

suVars == <<issued, usable, granted>>

SUInit ==
  /\ issued = {}
  /\ usable = [t \in Tokens |-> NoRight]
  /\ granted = [t \in Tokens |-> <<>>]

\* A token that was never issued starts to stand for the right x.
Issue(t, x) ==
  /\ t \notin issued
  /\ issued' = issued \cup {t}
  /\ usable' = [usable EXCEPT ![t] = x]
  /\ UNCHANGED granted

\* A usable token is exchanged for its right and is worth nothing afterwards.
Redeem(t) ==
  /\ usable[t] # NoRight
  /\ granted' = [granted EXCEPT ![t] = Append(@, usable[t])]
  /\ usable' = [usable EXCEPT ![t] = NoRight]
  /\ UNCHANGED issued

\* Some tokens stop being usable without granting anything.
Retire(S) ==
  /\ usable' = [t \in Tokens |-> IF t \in S THEN NoRight ELSE usable[t]]
  /\ UNCHANGED <<issued, granted>>

SUNext ==
  \/ \E t \in Tokens, x \in Rights : Issue(t, x)
  \/ \E t \in Tokens : Redeem(t)
  \/ \E S \in SUBSET Tokens : Retire(S)

SUSpec == SUInit /\ [][SUNext]_suVars

=============================================================================
