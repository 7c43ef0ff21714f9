----------------------------- MODULE Marketplace -----------------------------
(***************************************************************************)
(* The state the parts of the Kreav backend share, and the vocabulary the  *)
(* modules that act on it use.  One PostgreSQL database, one in-process    *)
(* event bus, any number of handlers suspended at an await, one Stellar    *)
(* account that signs every settlement, and the ledger it submits to.      *)
(*                                                                         *)
(* A step of a handler runs from one await to the next: a query, an RPC    *)
(* call, or a write together with the synchronous emit that follows it (a  *)
(* crash between a write and its emit leaves the same state as a crash     *)
(* just after the emit, which loses the event).                            *)
(***************************************************************************)
EXTENDS Naturals, FiniteSets, OrderStateMachine

CONSTANTS
  Orders,       \* order ids
  Products,     \* product ids
  Creators,     \* user ids of the creators
  ProductOf,    \* the product an order buys
  CreatorOf,    \* the creator a product belongs to
  Refs,         \* payment references of the gateway
  Notifiable,   \* <<order, ref>>: the payments the gateway may notify
  SerialWebhooks, \* whether the gateway waits for an answer per order
  Addresses,    \* wallet addresses a creator may connect
  Rosters,      \* the lists of active collaborators a product may have
  NoRoster,     \* those of them that are empty
  Settleable,   \* those the settlement service passes on (sum 100, at most 10)
  Payable,      \* those validate_recipients of the contract accepts
  Calls,        \* webhook requests
  Conns,        \* wallet connect requests
  Workers,      \* concurrent runs of the payment.received handler
  Boot,         \* the startup recovery service
  Hash,         \* transaction hashes
  Placeholder,  \* a "recovery-..." or "unknown-..." transaction hash
  MaxRetries,   \* attempts of the invoke loop
  Limit,        \* how many faults of each kind the environment may inject
  None          \* SQL null

FaultKind == {"crash",   \* the process dies and restarts
              "rpc",     \* a Horizon or Soroban RPC request fails
              "db",      \* a database request fails
              "slow",    \* a transaction lags, expires, or is not yet found
              "ledger",  \* a trustline or the float is missing when looked at
              "traffic", \* another platform transaction takes the sequence number
              "edit",    \* a creator edits a product that is on sale
              "mail"}    \* the mail provider refuses a mail

ASSUME ProductOfType == ProductOf \in [Orders -> Products]
ASSUME CreatorOfType == CreatorOf \in [Products -> Creators]
ASSUME NotifiableType == Notifiable \subseteq Orders \X Refs
ASSUME RosterKinds ==
  /\ NoRoster \cup Payable \subseteq Rosters
  /\ Settleable \subseteq Rosters \ NoRoster
ASSUME BootIsNoWorker == Boot \notin Workers
ASSUME NoneIsNothing ==
  None \notin Orders \cup Refs \cup Rosters \cup Hash \cup Creators
ASSUME PlaceholderIsNoHash == Placeholder \notin Hash \cup {None}
ASSUME MaxRetriesType == MaxRetries \in Nat \ {0}
ASSUME LimitType == Limit \in [FaultKind -> Nat]

VARIABLES
  order,      \* table Order: status, paymentRef, txHash
  settlement, \* table Settlement: txHash and the recipients of the row
  wallet,     \* table Wallet: the creator an address belongs to
  roster,     \* table ProductCollaborator: the active ones of a product
  listed,     \* table Product: the products whose status is ACTIVE
  call,       \* webhook requests in flight
  conn,       \* connect requests in flight
  received,   \* payment.received events emitted, handler not yet started
  completed,  \* settlement.completed events emitted, not yet handled
  mails,      \* delivery mails sent for an order
  job,        \* local state of the handlers and of startup recovery
  todo,       \* stuck orders startup recovery has still to look at
  tx,         \* settle transactions known to the network
  payout,     \* the split the contract has paid for an order
  seqNum,     \* sequence number of the platform account
  faults      \* faults injected so far, by kind

intakeVars == <<call, conn, wallet>>
dbVars == <<order, settlement>>
catalogue == <<roster, listed>>
busVars == <<received, completed>>
ledgerVars == <<tx, payout, seqNum>>
vars == <<order, settlement, wallet, roster, listed, call, conn, received,
          completed, mails, job, todo, tx, payout, seqNum, faults>>

Actors == Workers \cup {Boot}
TxHash == Hash \cup {Placeholder}

NoJob == [pc |-> "idle", order |-> None, roster |-> None, hash |-> None,
          seq |-> 0, tries |-> 0, catch |-> "fail"]
NoTx == [state |-> "unused", order |-> None, roster |-> None, seq |-> 0]

HandlerPc == {"claim", "roster", "trustlines", "precheck", "float", "invoke",
              "send", "poll", "failtx", "recover", "adopt", "settlefirst"}
RecordPc == {"reread", "record", "mark", "fail"}
BootPc == {"bootcheck", "verify", "reverify", "look", "adoptrow", "requeue"}

OrderRow == [status : OrderStatus \cup {"ABSENT"}, ref : Refs \cup {None},
             hash : TxHash \cup {None}]
SettlementRow == [hash : TxHash, roster : Rosters]
ASSUME NoneIsNoRow == None \notin SettlementRow
Job == [pc : {"idle"} \cup HandlerPc \cup RecordPc \cup BootPc,
        order : Orders \cup {None}, roster : Rosters \cup {None},
        hash : TxHash \cup {None}, seq : Nat, tries : Nat,
        catch : {"fail", "leave", "requeue"}]
Tx == [state : {"unused", "pending", "success", "failed", "dropped"},
       order : Orders \cup {None}, roster : Rosters \cup {None}, seq : Nat]
CallState == [pc : {"new", "read", "wallet", "claim", "acked", "rejected"},
              order : Orders \cup {None}, ref : Refs \cup {None},
              seen : OrderStatus \cup {"ABSENT"},
              target : {"PAYMENT_RECEIVED", "WAITING_WALLET"}]
ConnState == [pc : {"new", "create", "resume", "done", "refused", "lost"},
              address : Addresses \cup {None}, creator : Creators \cup {None}]

NewCall == [pc |-> "new", order |-> None, ref |-> None, seen |-> "ABSENT",
            target |-> "WAITING_WALLET"]
NewConn == [pc |-> "new", address |-> None, creator |-> None]

(* Every variable has its type. *)
TypeOK ==
  /\ order \in [Orders -> OrderRow]
  /\ settlement \in [Orders -> SettlementRow \cup {None}]
  /\ wallet \in [Addresses -> Creators \cup {None}]
  /\ roster \in [Products -> Rosters]
  /\ listed \subseteq Products
  /\ call \in [Calls -> CallState]
  /\ conn \in [Conns -> ConnState]
  /\ received \in [Orders -> Nat]
  /\ completed \in [Orders -> Nat]
  /\ mails \in [Orders -> Nat]
  /\ job \in [Actors -> Job]
  /\ todo \subseteq Orders
  /\ tx \in [Hash -> Tx]
  /\ payout \in [Orders -> Rosters \cup {None}]
  /\ seqNum \in Nat
  /\ faults \in [FaultKind -> Nat]

-----------------------------------------------------------------------------
(* The environment injects a fault of kind k, while its budget lasts. *)
Strike(k) ==
  /\ faults[k] < Limit[k]
  /\ faults' = [faults EXCEPT ![k] = @ + 1]

(* Startup recovery awaits the stuck orders one by one before the HTTP     *)
(* server listens (onApplicationBootstrap precedes listen in main.ts).     *)
Booting == todo # {} \/ job[Boot].pc # "idle"

Emit(event, o) == [event EXCEPT ![o] = @ + 1]
Consume(event, o) == [event EXCEPT ![o] = @ - 1]

OfCreator(c) == {o \in Orders : CreatorOf[ProductOf[o]] = c}
HasWallet(c) == \E a \in Addresses : wallet[a] = c
PaidOut(o) == payout[o] # None
=============================================================================
