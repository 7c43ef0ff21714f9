---------------------------- MODULE StellarLedger ----------------------------
(***************************************************************************)
(* The network as the settlement service meets it: settle transactions of  *)
(* one source account, ordered by its sequence number, and the two facts   *)
(* of the settlement contract the pipeline relies on.  A transaction that  *)
(* settles an order sets the order's marker and pays the split in one      *)
(* atomic step; one for an order whose marker is set fails.  The contract  *)
(* itself is module SettlementContract.                                    *)
(***************************************************************************)
EXTENDS Marketplace

(* Slip: the contract does not look for the marker of the order. *)
WouldSettleAgain(o, r) == r \in Payable

(* settle() would go through if it ran now. *)
WouldSettle(o, r) == ~PaidOut(o) /\ r \in Payable

(* The network accepts one transaction of an account at a time, with the   *)
(* account's next sequence number.                                         *)
Acceptable(seq) ==
  /\ seq = seqNum + 1
  /\ \A h \in Hash : ~(tx[h].state = "pending" /\ tx[h].seq = seq)

unledgered == <<order, settlement, catalogue, intakeVars, busVars, mails, job,
                todo>>

(* A pending transaction is applied.  The transfers may still revert it:   *)
(* a trustline or the float may have gone since the simulation.            *)
Include(h) ==
  /\ tx[h].state = "pending"
  /\ tx[h].seq = seqNum + 1
  /\ seqNum' = seqNum + 1
  /\ \/ /\ WouldSettle(tx[h].order, tx[h].roster)
        /\ tx' = [tx EXCEPT ![h].state = "success"]
        /\ payout' = [payout EXCEPT ![tx[h].order] = tx[h].roster]
        /\ UNCHANGED faults
     \/ /\ ~WouldSettle(tx[h].order, tx[h].roster)
        /\ tx' = [tx EXCEPT ![h].state = "failed"]
        /\ UNCHANGED <<payout, faults>>
     \/ /\ Strike("ledger")
        /\ tx' = [tx EXCEPT ![h].state = "failed"]
        /\ UNCHANGED payout
  /\ UNCHANGED unledgered

(* A transaction whose sequence number is used up, or whose time bounds    *)
(* have passed, will never be applied.                                     *)
DropTx(h) ==
  /\ tx[h].state = "pending"
  /\ tx' = [tx EXCEPT ![h].state = "dropped"]
  /\ \/ tx[h].seq <= seqNum /\ UNCHANGED faults
     \/ Strike("slow")
  /\ UNCHANGED <<payout, seqNum, unledgered>>

(* A sponsored trustline is another transaction of the platform account.   *)
OtherPlatformTx ==
  /\ Strike("traffic")
  /\ seqNum' = seqNum + 1
  /\ UNCHANGED <<tx, payout, unledgered>>
=============================================================================
