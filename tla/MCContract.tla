------------------------------ MODULE MCContract ------------------------------
(* A small instance of SettlementMirror for TLC, with the fee and the    *)
(* basis points of the code.                                               *)
EXTENDS SettlementMirror

CONSTANTS p, a, b

To(account, share) == [address |-> account, share |-> share]

(* Lists that pass, one of them with the platform itself; and one list for *)
(* each way to fail.                                                       *)
MCLists ==
  {<<To(a, 10000)>>,
   <<To(a, 3333), To(p, 3333), To(b, 3334)>>,
   <<To(b, 9000), To(a, 1000)>>,
   <<>>,
   <<To(a, 2500), To(b, 2500), To(p, 2500), To(a, 2500)>>,
   <<To(a, 5000), To(b, 1), To(a, 4999)>>,
   <<To(a, 10000), To(b, 0)>>,
   <<To(a, MaxInt), To(b, 1)>>,
   <<To(a, 5000), To(b, 4999)>>}

MCTotals == {-1, 0, 1, 9900, 19999, 250000}

(* A product of 0.99 with one creator. *)
OnePrice == {9900}
OneCreator == {<<To(a, 10000)>>}
=============================================================================
