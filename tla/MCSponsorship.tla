---------------------------- MODULE MCSponsorship ----------------------------
(* A small instance of Sponsorship for TLC: one creator. *)
EXTENDS Sponsorship, TLC

PageSymmetry == Permutations(Tabs) \cup Permutations(Requests) \cup Permutations(Wallets)

MCOwnerOf == [w \in Wallets |-> CHOOSE c \in Creators : TRUE]
MCUserOf == [t \in Tabs |-> CHOOSE c \in Creators : TRUE]

(* What of a transaction no action and no property reads any more: all of  *)
(* one that nobody holds and that was never sent, and, once its number is  *)
(* spent, how it came about.                                               *)
Remembered(x) ==
  IF Spent(x) THEN [txs[x] EXCEPT !.creates = FALSE, !.signer = None, !.late = FALSE]
  ELSE IF txs[x].state = "prepared" /\ ~Held(x) THEN None
  ELSE txs[x]
LiveState == <<wallets, ledger, tab, request, [x \in DOMAIN txs |-> Remembered(x)]>>
=============================================================================
