-------------------------- MODULE SettlementPipeline --------------------------
(***************************************************************************)
(* The whole path of an order: checkout, payment webhook, wallet connect,  *)
(* settlement on the ledger, recording, delivery, and startup recovery     *)
(* after a crash.  Composes PaymentIntake, StellarLedger,                  *)
(* SettlementHandler and StartupRecovery over the state of Marketplace.    *)
(***************************************************************************)
EXTENDS PaymentIntake, StartupRecovery

Init ==
  /\ order = [o \in Orders |-> [status |-> "ABSENT", ref |-> None, hash |-> None]]
  /\ settlement = [o \in Orders |-> None]
  /\ wallet = [a \in Addresses |-> None]
  /\ roster \in [Products -> Settleable]
  /\ listed = Products
  /\ call = [c \in Calls |-> NewCall]
  /\ conn = [k \in Conns |-> NewConn]
  /\ received = [o \in Orders |-> 0]
  /\ completed = [o \in Orders |-> 0]
  /\ mails = [o \in Orders |-> 0]
  /\ job = [a \in Actors |-> NoJob]
  /\ todo = {}
  /\ tx = [h \in Hash |-> NoTx]
  /\ payout = [o \in Orders |-> None]
  /\ seqNum = 0
  /\ faults = [k \in FaultKind |-> 0]

(* The settlement.completed listener mails the product.  It never throws;  *)
(* a mail the provider refuses is logged and not tried again.              *)
DeliverProduct(o) ==
  /\ completed[o] > 0
  /\ completed' = Consume(completed, o)
  /\ \/ mails' = [mails EXCEPT ![o] = @ + 1] /\ UNCHANGED faults
     \/ UNCHANGED mails /\ Strike("mail")
  /\ UNCHANGED <<dbVars, catalogue, intakeVars, received, job, todo, ledgerVars>>

(* A creator replaces the collaborators of a product.  Module Catalogue    *)
(* has the steps of it: a product is never left without any, but two       *)
(* replacements that overlap may leave a list that is not settleable.      *)
EditCollaborators(p) ==
  /\ ~Booting
  /\ Strike("edit")
  /\ \E r \in Rosters \ (NoRoster \cup {roster[p]}) :
       roster' = [roster EXCEPT ![p] = r]
  /\ UNCHANGED <<listed, dbVars, intakeVars, busVars, mails, job, todo, ledgerVars>>

(* A creator hides a product, or puts it back on sale. *)
SetProductStatus(p) ==
  /\ ~Booting
  /\ Strike("edit")
  /\ listed' = IF p \in listed THEN listed \ {p} ELSE listed \cup {p}
  /\ UNCHANGED <<roster, dbVars, intakeVars, busVars, mails, job, todo,
                 ledgerVars>>

Backend ==
  \/ \E c \in Calls : Webhook(c)
  \/ \E k \in Conns : ConnectWallet(k)
  \/ \E w \in Workers : Handle(w)
  \/ Recovery
  \/ \E a \in Actors : DbError(a)
  \/ \E o \in Orders : DeliverProduct(o)

Environment ==
  \/ \E o \in Orders : Checkout(o)
  \/ \E p \in Products : EditCollaborators(p) \/ SetProductStatus(p)
  \/ \E h \in Hash : Include(h) \/ DropTx(h)
  \/ OtherPlatformTx
  \/ Crash

Next == Backend \/ Environment

Spec == Init /\ [][Next]_vars

(* The process runs on while it is up: a request that was accepted, a      *)
(* handler that was started, the recovery and a listener all make          *)
(* progress, and the network applies or drops what it has accepted.        *)
(* Nothing obliges buyers, creators or the gateway to act, nor any fault   *)
(* to happen.                                                              *)
Fairness ==
  /\ \A c \in Calls :
       WF_vars(ReadOrder(c) \/ ReadWallet(c) \/ Claim(c))
  /\ \A k \in Conns : WF_vars(CreateWallet(k) \/ ResumeWaiting(k))
  /\ \A w \in Workers : WF_vars(Handle(w))
  /\ WF_vars(Recovery)
  /\ \A o \in Orders : WF_vars(DeliverProduct(o))
  /\ \A h \in Hash : WF_vars(Include(h) \/ DropTx(h))

FairSpec == Spec /\ Fairness
=============================================================================
