------------------------- MODULE PipelineProperties -------------------------
(***************************************************************************)
(* What makes the settlement pipeline correct, and what its comments say   *)
(* of it that the code does not do.                                        *)
(***************************************************************************)
EXTENDS SettlementPipeline

(* The promise of module PayoutPromise, read off the state: an order is    *)
(* paid once it carries a payment reference.                               *)
Promise == INSTANCE PayoutPromise
             WITH paid <- {o \in Orders : order[o].ref # None},
                  payers <- [o \in Orders |-> {h \in Hash :
                               tx[h].state = "success" /\ tx[h].order = o}],
                  recorded <- {o \in Orders : settlement[o] # None},
                  delivered <- mails

-----------------------------------------------------------------------------
(* Safety. *)

(* Through crashes, lost and repeated events, retries and racing handlers, *)
(* money leaves for an order at most once and only when it is paid, a row  *)
(* is written only for money that left, and the product is mailed at most  *)
(* once and only after that.                                               *)
PromiseKept == Promise!Spec

(* The buyer and the creator never see SETTLED, and a settlement is never  *)
(* on record, for an order whose money has not moved.                      *)
SettledMeansPaidOut ==
  \A o \in Orders :
    order[o].status = "SETTLED" \/ settlement[o] # None => PaidOut(o)

(* Each connection of a wallet resumes the orders of the creator that      *)
(* wait, those just resumed included.                                      *)
Resumed(k, o) == conn[k].pc = "done" /\ conn[k].creator = CreatorOf[ProductOf[o]]
ResumedOnce(o) == \A k, l \in Conns : Resumed(k, o) /\ Resumed(l, o) => k = l

(* A settlement on record names the transaction that paid the order (or a  *)
(* placeholder), never one that failed, was lost, or paid another order;   *)
(* a second wallet of the creator may start a second handler that does.    *)
RecordedHashPaid ==
  \A o \in Orders :
    settlement[o] # None /\ settlement[o].hash \in Hash /\ ResumedOnce(o) =>
      /\ tx[settlement[o].hash].state = "success"
      /\ tx[settlement[o].hash].order = o

(* No request has failed yet, and the process has not died. *)
Unbroken == \A k \in {"crash", "rpc", "db"} : faults[k] = 0

(* The split on record is the split the contract paid, also when handlers  *)
(* of several orders compete, transactions expire and the product is       *)
(* edited meanwhile: only a settlement that is taken up again after a      *)
(* fault, or started twice by two wallets, records the split of today.     *)
RecordedSplitPaid ==
  \A o \in Orders :
    settlement[o] # None /\ settlement[o].roster # payout[o] =>
      ~(Unbroken /\ ResumedOnce(o)) /\ faults["edit"] > 0

(* An order is SETTLEMENT_FAILED only if no money has moved for it. *)
FailedMeansUnpaid ==
  \A o \in Orders : order[o].status = "SETTLEMENT_FAILED" => ~PaidOut(o)

(* It is so until the process dies or a request fails, or the creator      *)
(* connects a second wallet, whatever the network drops, delays or lets    *)
(* expire.                                                                 *)
FailedUnpaidUnbroken ==
  \A o \in Orders :
    Unbroken /\ ResumedOnce(o) /\ order[o].status = "SETTLEMENT_FAILED" => ~PaidOut(o)

(* At most one event or handler is under way for an order at any time, as  *)
(* long as its creator has not connected a second wallet.  Nothing in the  *)
(* code locks an order: this rests on who emits when.                      *)
Underway(o) == {a \in Actors : Mine(a) = o}
OneHandlerPerOrder ==
  \A o \in Orders : ResumedOnce(o) => received[o] + Cardinality(Underway(o)) <= 1

(* Once a payment was acknowledged to the gateway, which never sends it    *)
(* again, its order carries a reference: no crash and no race loses it.    *)
AckedIsPaid ==
  \A c \in Calls : call[c].pc = "acked" =>
    order[call[c].order].ref # None

-----------------------------------------------------------------------------
(* What a step may never do. *)

(* Every write of a status is a move of the order state machine.  Only     *)
(* once a database request has failed, or a second wallet was connected,   *)
(* may a status be written over any other.                                 *)
LegalMove(from, to) ==
  from = to \/ CanTransition(from, to) \/ <<from, to>> = <<"ABSENT", "PAYMENT_PENDING">>
LegalMoves ==
  [][\A o \in Orders :
       \/ LegalMove(order[o].status, order'[o].status)
       \/ faults["db"] > 0 /\ order'[o].status = "SETTLEMENT_FAILED"
       \/ ~ResumedOnce(o)]_order

-----------------------------------------------------------------------------
(* Progress. *)

Stuck(o) == order[o].status \in {"PAYMENT_RECEIVED", "SETTLEMENT_PENDING"}
Decided(o) == order[o].status \in {"SETTLED", "SETTLEMENT_FAILED"}

(* A payment whose creator has a wallet is settled or failed in the end,   *)
(* also when the process dies on the way, the RPC server does not answer,  *)
(* or the contract refuses: an order stays neither PAYMENT_RECEIVED nor    *)
(* SETTLEMENT_PENDING.  This takes a network that is in time and loses no  *)
(* transaction of the account, and a database that answers.                *)
Lossless == \A k \in {"traffic", "slow", "db"} : faults[k] = 0
PaymentDecided ==
  \A o \in Orders : []Lossless => (Stuck(o) ~> Decided(o))

(* Whatever had been lost, was late or timed out before: an order that a   *)
(* restart finds undecided is decided then, if nothing is late or lost any *)
(* more and the database answers.                                          *)
RestartDecides ==
  \A o \in Orders :
    [](faults["traffic"] = 0 /\ faults["db"] = 0) =>
      (o \in todo /\ faults["slow"] = Limit["slow"] ~> Decided(o))

(* Once money has moved the settlement is recorded, the order is SETTLED,  *)
(* and the buyer gets the product unless the provider refuses a mail.      *)
(* This takes a process that stays up and a database, an RPC server and a  *)
(* network that answer in time; what else uses the platform account, who   *)
(* edits the product and whether mails are refused makes no difference.    *)
Undisturbed == \A k \in {"crash", "rpc", "db", "slow"} : faults[k] = 0
PaidOutIsDelivered ==
  \A o \in Orders :
    []Undisturbed =>
      (PaidOut(o) ~> /\ order[o].status = "SETTLED" /\ settlement[o] # None
                     /\ mails[o] = 1 \/ faults["mail"] > 0)
=============================================================================
