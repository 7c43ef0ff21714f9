---------------------------- MODULE MCWithdrawals ----------------------------
(* A small instance of Withdrawals for TLC: every address is one creator's. *)
EXTENDS Withdrawals, TLC

RequestSymmetry == Permutations(Requests)

MCOwnerOf == [a \in Addresses |-> CHOOSE c \in Creators : TRUE]
=============================================================================
