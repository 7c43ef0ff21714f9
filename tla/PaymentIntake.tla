---------------------------- MODULE PaymentIntake ----------------------------
(***************************************************************************)
(* OrdersService (checkout and the gateway's webhook) and the part of      *)
(* WalletsService that connects a wallet and resumes deferred orders.      *)
(***************************************************************************)
EXTENDS Marketplace

otherVars == <<settlement, catalogue, completed, mails, job, todo, ledgerVars>>

(* POST checkout of a product on sale: the row is created directly in      *)
(* PAYMENT_PENDING.                                                        *)
Checkout(o) ==
  /\ ~Booting
  /\ ProductOf[o] \in listed
  /\ order[o].status = "ABSENT"
  /\ order' = [order EXCEPT ![o].status = "PAYMENT_PENDING"]
  /\ UNCHANGED <<intakeVars, received, otherVars, faults>>

-----------------------------------------------------------------------------
(* The webhook, from await to await. *)

(* Whether another request for the order is still being answered. *)
Outstanding(o) ==
  \E c \in Calls : call[c].order = o /\ call[c].pc \in {"read", "wallet", "claim"}

(* Slip: nobody looks whether the reference is known. *)
NotLookedFor(r) == FALSE
(* Some order has already claimed the reference. *)
RefClaimed(r) == \E o \in Orders : order[o].ref = r

(* The first read: has any order already claimed this reference?           *)
CheckRef(c) ==
  /\ ~Booting
  /\ call[c].pc = "new"
  /\ \E p \in Notifiable :
       /\ order[p[1]].status # "ABSENT"
       /\ SerialWebhooks => ~Outstanding(p[1])
       /\ call' = [call EXCEPT ![c] =
                     [NewCall EXCEPT !.order = p[1], !.ref = p[2],
                        !.pc = IF RefClaimed(p[2]) THEN "acked" ELSE "read"]]
  /\ UNCHANGED <<conn, wallet, order, received, otherVars, faults>>

ReadOrder(c) ==
  /\ ~Booting
  /\ call[c].pc = "read"
  /\ call' = [call EXCEPT ![c].pc = "wallet",
                          ![c].seen = order[call[c].order].status]
  /\ UNCHANGED <<conn, wallet, order, received, otherVars, faults>>

(* The wallet decides the target; the status read before decides whether   *)
(* the move is legal.                                                      *)
ReadWallet(c) ==
  /\ ~Booting
  /\ call[c].pc = "wallet"
  /\ LET creator == CreatorOf[ProductOf[call[c].order]]
         to == IF HasWallet(creator) THEN "PAYMENT_RECEIVED"
                                     ELSE "WAITING_WALLET"
         next == IF CanTransition(call[c].seen, to) THEN "claim" ELSE "rejected"
     IN call' = [call EXCEPT ![c].pc = next, ![c].target = to]
  /\ UNCHANGED <<conn, wallet, order, received, otherVars, faults>>

(* The unconditional update; paymentRef is unique over the orders, and a   *)
(* unique violation is acknowledged like a duplicate.                      *)
Claim(c) ==
  /\ ~Booting
  /\ call[c].pc = "claim"
  /\ call' = [call EXCEPT ![c].pc = "acked"]
  /\ LET o == call[c].order
     IN IF \E other \in Orders \ {o} : order[other].ref = call[c].ref
        THEN UNCHANGED <<order, received>>
        ELSE /\ order' = [order EXCEPT ![o].status = call[c].target,
                                       ![o].ref = call[c].ref]
             /\ received' = IF call[c].target = "PAYMENT_RECEIVED"
                            THEN Emit(received, o) ELSE received
  /\ UNCHANGED <<conn, wallet, otherVars, faults>>

(* Slip: every database error is taken for a unique violation. *)
AnswerAck(c) ==
  /\ Strike("db")
  /\ call[c].pc \in {"read", "wallet", "claim"}
  /\ call' = [call EXCEPT ![c].pc = "acked"]
  /\ UNCHANGED <<conn, wallet, order, received, otherVars>>

(* A query fails: the answer is an error, and the gateway tries again. *)
AnswerError(c) ==
  /\ Strike("db")
  /\ call[c].pc \in {"read", "wallet", "claim"}
  /\ call' = [call EXCEPT ![c] = NewCall]
  /\ UNCHANGED <<conn, wallet, order, received, otherVars>>

-----------------------------------------------------------------------------
(* POST wallets, from await to await. *)

CheckAddress(k) ==
  /\ ~Booting
  /\ conn[k].pc = "new"
  /\ \E a \in Addresses, c \in Creators :
       conn' = [conn EXCEPT ![k] =
                  [pc |-> IF wallet[a] = None THEN "create" ELSE "refused",
                   address |-> a, creator |-> c]]
  /\ UNCHANGED <<call, wallet, order, received, otherVars, faults>>

(* The address is unique: the loser of a race gets a conflict. *)
CreateWallet(k) ==
  /\ ~Booting
  /\ conn[k].pc = "create"
  /\ IF wallet[conn[k].address] = None
     THEN /\ wallet' = [wallet EXCEPT ![conn[k].address] = conn[k].creator]
          /\ conn' = [conn EXCEPT ![k].pc = "resume"]
     ELSE /\ conn' = [conn EXCEPT ![k].pc = "refused"]
          /\ UNCHANGED wallet
  /\ UNCHANGED <<call, order, received, otherVars, faults>>

(* Slip: the orders already received are resumed as well. *)
Unsettled(c) ==
  {o \in OfCreator(c) : order[o].status \in {"WAITING_WALLET", "PAYMENT_RECEIVED"}}

(* The orders a wallet connection resumes. *)
WaitingFor(c) == {o \in OfCreator(c) : order[o].status = "WAITING_WALLET"}

(* Emits payment.received for every order of the creator that waits.  When *)
(* their query fails the wallet stays connected and nothing is emitted.    *)
ResumeWaiting(k) ==
  /\ ~Booting
  /\ conn[k].pc = "resume"
  /\ \/ /\ received' = [o \in Orders |->
                          IF o \in WaitingFor(conn[k].creator)
                          THEN received[o] + 1 ELSE received[o]]
        /\ conn' = [conn EXCEPT ![k].pc = "done"]
        /\ UNCHANGED faults
     \/ /\ Strike("db")
        /\ conn' = [conn EXCEPT ![k].pc = "lost"]
        /\ UNCHANGED received
  /\ UNCHANGED <<call, wallet, order, otherVars>>

Webhook(c) == CheckRef(c) \/ ReadOrder(c) \/ ReadWallet(c) \/ Claim(c)
              \/ AnswerError(c)
ConnectWallet(k) == CheckAddress(k) \/ CreateWallet(k) \/ ResumeWaiting(k)
=============================================================================
