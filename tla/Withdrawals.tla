----------------------------- MODULE Withdrawals -----------------------------
(***************************************************************************)
(* The off-ramp: WithdrawalsService (simulated withdrawals, completed      *)
(* lazily when their receipt is read) and WithdrawalsAnchorController (the *)
(* SEP-24 withdrawals of an anchor, mirrored when they are polled).  Both  *)
(* draw on one internal balance: what completed settlements paid to the    *)
(* creator's wallet, less the completed withdrawals of the creator.        *)
(* Requests run from await to await.                                       *)
(***************************************************************************)
EXTENDS Integers, Sequences, FiniteSetsExt

CONSTANTS
  Creators,    \* user ids
  Addresses,   \* wallet addresses
  OwnerOf,     \* the creator who may connect an address
  Requests,    \* requests in flight
  Amounts,     \* amounts of a settlement or a withdrawal, in cents
  MaxSettled,  \* bound: what is settled to an address
  MaxRows,     \* bound: withdrawals
  MaxAnchored, \* bound: transactions of the anchor
  MaxDay,      \* bound: days
  None

ASSUME OwnerOfType == OwnerOf \in [Addresses -> Creators]
ASSUME AmountsType == Amounts \subseteq Nat \ {0}
ASSUME BoundsType ==
  {MaxSettled, MaxRows, MaxAnchored} \subseteq Nat /\ MaxDay \in Nat \ {0}
ASSUME NoneIsNothing == None \notin Creators \cup Addresses \cup Nat \cup (Nat \X Nat)

VARIABLES
  wallets,  \* table Wallet: the addresses of a creator, the newest last
  settled,  \* the creator parts settled to an address
  table,    \* table Withdrawal, in the order of creation
  anchored, \* the anchor's transactions, in the order they were started
  request,  \* local state of the requests
  day       \* today

withdrawalVars == <<wallets, settled, table, anchored, request, day>>

Row == [creator : Creators, amount : Nat, number : (Nat \X Nat) \cup {None},
        anchor : Nat \cup {None}, sent : BOOLEAN,
        status : {"REQUESTED", "PROCESSING", "COMPLETED", "FAILED"}]
AnchorTx == [state : {"incomplete", "pending", "paid", "completed", "failed"},
             amountIn : Nat \cup {None}]
Idle == [pc |-> "idle", creator |-> None, address |-> None, amount |-> None,
         total |-> 0, number |-> None, at |-> None, status |-> None]

Init ==
  /\ wallets = [c \in Creators |-> <<>>]
  /\ settled = [a \in Addresses |-> 0]
  /\ table = <<>>
  /\ anchored = <<>>
  /\ request = [r \in Requests |-> Idle]
  /\ day = 1

-----------------------------------------------------------------------------
(* Steps of a request. *)

At(r, pc) == request[r].pc = pc
Goto(r, pc) == request' = [request EXCEPT ![r].pc = pc]
Done(r) == request' = [request EXCEPT ![r] = Idle]
others == <<wallets, settled, day>>

(* The withdrawals that count against the balance. *)
Completed(c) == {i \in DOMAIN table : table[i].creator = c /\ table[i].status = "COMPLETED"}
Withdrawn(c) == MapThenSumSet(LAMBDA i : table[i].amount, Completed(c))

Covers(available, amount) == available >= amount

(* POST withdrawals or interactive: for the newest wallet of the creator.  *)
Ask(r) ==
  /\ At(r, "idle")
  /\ \E c \in Creators, amount \in Amounts, kind \in {"simulated", "anchor"} :
       /\ wallets[c] # <<>>
       /\ request' = [request EXCEPT ![r] =
            [Idle EXCEPT !.pc = "settled", !.creator = c, !.amount = amount,
               !.address = wallets[c][Len(wallets[c])], !.status = kind]]
  /\ UNCHANGED <<table, anchored, others>>

(* getWithdrawableBalance, its two sums. *)
ReadSettled(r) ==
  /\ At(r, "settled")
  /\ request' = [request EXCEPT ![r].pc = "withdrawn",
                                ![r].total = settled[request[r].address]]
  /\ UNCHANGED <<table, anchored, others>>

ReadWithdrawn(r) ==
  /\ At(r, "withdrawn")
  /\ LET q == request[r]
         available == q.total - Withdrawn(q.creator)
     IN IF Covers(available, q.amount)
        THEN request' = [request EXCEPT ![r].total = 0, ![r].address = None,
               ![r].pc = IF q.status = "simulated" THEN "number" ELSE "interactive"]
        ELSE Done(r)
  /\ UNCHANGED <<table, anchored, others>>

(* generateReference: one more than the newest withdrawal of today.        *)
OfDay(d) == {i \in DOMAIN table : table[i].number # None /\ table[i].number[1] = d}
NextNumber == IF OfDay(day) = {} THEN 1 ELSE table[Max(OfDay(day))].number[2] + 1

ReadNumber(r) ==
  /\ At(r, "number")
  /\ request' = [request EXCEPT ![r].pc = "create",
                                ![r].number = <<day, NextNumber>>]
  /\ UNCHANGED <<table, anchored, others>>

(* Slip: the reference is not unique. *)
Always(number) == TRUE
(* The unique index on reference. *)
Free(number) == \A i \in DOMAIN table : table[i].number # number

NewRow(r, number, anchor, status) ==
  [creator |-> request[r].creator, amount |-> request[r].amount,
   number |-> number, anchor |-> anchor, sent |-> FALSE, status |-> status]

(* The loser of a race for a reference gets an error. *)
CreateRow(r) ==
  /\ At(r, "create")
  /\ Len(table) < MaxRows
  /\ IF Free(request[r].number)
     THEN /\ table' = Append(table, NewRow(r, request[r].number, None, "REQUESTED"))
          /\ request' = [request EXCEPT ![r] =
               [Idle EXCEPT !.pc = "process", !.at = Len(table) + 1]]
     ELSE Done(r) /\ UNCHANGED table
  /\ UNCHANGED <<anchored, others>>

Process(r) ==
  /\ At(r, "process")
  /\ table' = [table EXCEPT ![request[r].at].status = "PROCESSING"]
  /\ Done(r)
  /\ UNCHANGED <<anchored, others>>

(* The anchor starts a transaction, or refuses to. *)
StartAnchor(r) ==
  /\ At(r, "interactive")
  /\ \/ /\ Len(anchored) < MaxAnchored
        /\ anchored' = Append(anchored, [state |-> "incomplete", amountIn |-> None])
        /\ request' = [request EXCEPT ![r].pc = "record",
                                      ![r].at = Len(anchored) + 1]
     \/ Done(r) /\ UNCHANGED anchored
  /\ UNCHANGED <<table, others>>

RecordAnchor(r) ==
  /\ At(r, "record")
  /\ Len(table) < MaxRows
  /\ table' = Append(table, NewRow(r, None, request[r].at, "PROCESSING"))
  /\ Done(r)
  /\ UNCHANGED <<anchored, others>>

(* Slip: also a withdrawal that was only requested is completed. *)
NotCompleted(status) == status \in {"REQUESTED", "PROCESSING"}
(* A receipt that is read completes a withdrawal in this status. *)
Completable(status) == status = "PROCESSING"

(* GET of a receipt, when the withdrawal is older than the delay: the      *)
(* status read is the one the update relies on.                            *)
ReadReceipt(r) ==
  /\ At(r, "idle")
  /\ \E i \in DOMAIN table :
       /\ Completable(table[i].status)
       /\ request' = [request EXCEPT ![r] = [Idle EXCEPT !.pc = "complete", !.at = i]]
  /\ UNCHANGED <<table, anchored, others>>

Complete(r) ==
  /\ At(r, "complete")
  /\ table' = [table EXCEPT ![request[r].at].status = "COMPLETED"]
  /\ Done(r)
  /\ UNCHANGED <<anchored, others>>

(* Slip: the anchor's status is copied as it is. *)
Unmapped(state) == state
(* What the anchor says of a transaction, as a status of ours. *)
MapStatus(state) ==
  CASE state = "completed" -> "COMPLETED"
    [] state = "failed" -> "FAILED"
    [] OTHER -> "PROCESSING"

(* GET of an anchor transaction: status and amount are copied to its row.  *)
ReadAnchor(r) ==
  /\ At(r, "idle")
  /\ \E t \in DOMAIN anchored :
       request' = [request EXCEPT ![r] =
         [Idle EXCEPT !.pc = "mirror", !.at = t, !.amount = anchored[t].amountIn,
                      !.status = MapStatus(anchored[t].state)]]
  /\ UNCHANGED <<table, anchored, others>>

Update(t, new(_)) ==
  table' = [i \in DOMAIN table |->
              IF table[i].anchor = t THEN new(table[i]) ELSE table[i]]

Mirror(r) ==
  /\ At(r, "mirror")
  /\ LET q == request[r]
     IN Update(q.at, LAMBDA row : [row EXCEPT !.status = q.status,
                       !.amount = IF q.amount = None THEN @ ELSE q.amount])
  /\ Done(r)
  /\ UNCHANGED <<anchored, others>>

(* build-payment, once the anchor has named a destination and an amount,   *)
(* and submit-payment of what the creator has signed: the network takes    *)
(* the payment to the anchor or refuses it.                                *)
BuildPayment(r) ==
  /\ At(r, "idle")
  /\ \E t \in DOMAIN anchored :
       /\ anchored[t].amountIn # None
       /\ request' = [request EXCEPT ![r] = [Idle EXCEPT !.pc = "submit", !.at = t]]
  /\ UNCHANGED <<table, anchored, others>>

SubmitPayment(r) ==
  /\ At(r, "submit")
  /\ \/ /\ anchored' = [anchored EXCEPT ![request[r].at].state =
                          IF @ = "pending" THEN "paid" ELSE @]
        /\ Goto(r, "hash")
     \/ Done(r) /\ UNCHANGED anchored
  /\ UNCHANGED <<table, others>>

RecordHash(r) ==
  /\ At(r, "hash")
  /\ Update(request[r].at, LAMBDA row : [row EXCEPT !.sent = TRUE])
  /\ Done(r)
  /\ UNCHANGED <<anchored, others>>

Simulated(r) == ReadNumber(r) \/ CreateRow(r) \/ Process(r)
                \/ ReadReceipt(r) \/ Complete(r)
Anchored(r) == StartAnchor(r) \/ RecordAnchor(r) \/ ReadAnchor(r) \/ Mirror(r)
               \/ BuildPayment(r) \/ SubmitPayment(r) \/ RecordHash(r)
Serve(r) == Ask(r) \/ ReadSettled(r) \/ ReadWithdrawn(r) \/ Simulated(r) \/ Anchored(r)

-----------------------------------------------------------------------------
(* Around it. *)

(* A wallet is connected; its address is unique. *)
Connect(a) ==
  LET c == OwnerOf[a]
  IN /\ \A i \in DOMAIN wallets[c] : wallets[c][i] # a
     /\ wallets' = [wallets EXCEPT ![c] = Append(@, a)]
     /\ UNCHANGED <<settled, table, anchored, request, day>>

(* A settlement is recorded with a part for a connected wallet. *)
SettlePart(a) ==
  /\ \E i \in DOMAIN wallets[OwnerOf[a]] : wallets[OwnerOf[a]][i] = a
  /\ \E amount \in Amounts :
       /\ settled[a] + amount <= MaxSettled
       /\ settled' = [settled EXCEPT ![a] = @ + amount]
  /\ UNCHANGED <<wallets, table, anchored, request, day>>

(* The anchor names the amount it expects, which the creator may have      *)
(* changed; it pays out what it was sent; or it gives up.                  *)
AnchorAsks(t) ==
  /\ anchored[t].state = "incomplete"
  /\ \E amount \in Amounts :
       anchored' = [anchored EXCEPT ![t] = [state |-> "pending", amountIn |-> amount]]
  /\ UNCHANGED <<wallets, settled, table, request, day>>

AnchorEnds(t) ==
  /\ \/ anchored[t].state = "paid"
          /\ anchored' = [anchored EXCEPT ![t].state = "completed"]
     \/ anchored[t].state \in {"incomplete", "pending", "paid"}
          /\ anchored' = [anchored EXCEPT ![t].state = "failed"]
  /\ UNCHANGED <<wallets, settled, table, request, day>>

NewDay ==
  /\ day < MaxDay
  /\ day' = day + 1
  /\ UNCHANGED <<wallets, settled, table, anchored, request>>

(* The process restarts: the requests in flight are gone. *)
Crash ==
  /\ request' = [r \in Requests |-> Idle]
  /\ UNCHANGED <<wallets, settled, table, anchored, day>>

Next ==
  \/ \E r \in Requests : Serve(r)
  \/ \E a \in Addresses : Connect(a) \/ SettlePart(a)
  \/ \E t \in DOMAIN anchored : AnchorAsks(t) \/ AnchorEnds(t)
  \/ NewDay
  \/ Crash

Spec == Init /\ [][Next]_withdrawalVars

-----------------------------------------------------------------------------
(* Properties. *)

(* Every variable has its type. *)
TypeOK ==
  /\ \A c \in Creators : \A i \in DOMAIN wallets[c] : OwnerOf[wallets[c][i]] = c
  /\ settled \in [Addresses -> 0 .. MaxSettled]
  /\ table \in Seq(Row)
  /\ anchored \in Seq(AnchorTx)
  /\ \A i \in DOMAIN table : table[i].anchor \in {None} \cup DOMAIN anchored
  /\ day \in 1 .. MaxDay

(* The references of a day are numbered 1, 2, 3... in the order of their   *)
(* withdrawals, whatever requests race for a number and whenever they are  *)
(* interrupted: none is used twice and none is left out.                   *)
NumbersInSequence ==
  \A i \in DOMAIN table :
    table[i].number # None =>
      table[i].number[2] =
        Cardinality({j \in OfDay(table[i].number[1]) : j <= i})

(* A simulated withdrawal that is completed stays completed: the balance   *)
(* never gives back what was withdrawn.                                    *)
CompletedForGood ==
  [][\A i \in DOMAIN table :
       table[i].anchor = None /\ table[i].status = "COMPLETED"
       => table'[i].status = "COMPLETED" /\ table'[i].amount = table[i].amount
    ]_table

SettledTo(c) ==
  MapThenSumSet(LAMBDA a : settled[a], {a \in Addresses : OwnerOf[a] = c})

(* The completed withdrawals of a creator never exceed what was settled to *)
(* the creator.                                                            *)
NeverOverdrawn == \A c \in Creators : Withdrawn(c) <= SettledTo(c)
=============================================================================
