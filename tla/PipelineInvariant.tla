-------------------------- MODULE PipelineInvariant --------------------------
(***************************************************************************)
(* The inductive invariant behind the pipeline's safety.  SettledMeansPaid-*)
(* Out and the promise are not inductive by themselves: that a row is only *)
(* written for money that moved rests on what each suspended handler has   *)
(* seen before, on the hashes it and the order carry, and on the events    *)
(* that are on their way.                                                  *)
(***************************************************************************)
EXTENDS PipelineProperties

Used(h) == tx[h].state # "unused"
Paid(o) == o \in Orders /\ order[o].ref # None

(* A hash never wanders from one order to another: the order, its row and  *)
(* the handlers at work on it only carry hashes of its own transactions.   *)
HashOf(o, h) == h \in Hash => Used(h) /\ tx[h].order = o

(* An order that has left PAYMENT_PENDING, or has an event under way, is   *)
(* paid; a row or the status SETTLED means money has moved; and there is   *)
(* at most one event or mail of its delivery, next to a row.               *)
OrderSound(o) ==
  /\ order[o].status \notin {"ABSENT", "PAYMENT_PENDING"} => Paid(o)
  /\ received[o] > 0 => Paid(o)
  /\ HashOf(o, order[o].hash)
  /\ order[o].status = "SETTLED" => PaidOut(o)
  /\ settlement[o] # None => PaidOut(o) /\ HashOf(o, settlement[o].hash)
  /\ completed[o] + mails[o] <= 1
  /\ completed[o] + mails[o] > 0 => settlement[o] # None

(* A settle transaction is only ever sent for a paid order. *)
TxSound(h) == Used(h) => Paid(tx[h].order)

(* The contract has paid an order just when a transaction of it succeeded. *)
TxPays ==
  \A o \in Orders :
    PaidOut(o) <=> \E h \in Hash : tx[h].state = "success" /\ tx[h].order = o

(* A webhook request between two awaits knows its order and reference. *)
CallSound(c) ==
  call[c].pc \in {"read", "wallet", "claim"} =>
    call[c].order \in Orders /\ call[c].ref \in Refs

(* What a handler suspended at a point has seen or set on its way there.   *)
PaidPc == {"recover", "adopt", "settlefirst", "reread", "record", "mark",
           "look", "adoptrow"}
RosterPc == {"trustlines", "precheck", "float", "invoke", "send", "poll",
             "recover", "adopt", "settlefirst", "record"}
HashPc == {"reread", "record", "mark", "verify", "reverify", "look"}
JobSound(j) ==
  j.pc # "idle" =>
    /\ Paid(j.order)
    /\ HashOf(j.order, j.hash)
    /\ j.pc \in PaidPc => PaidOut(j.order)
    /\ j.pc \in RosterPc => j.roster \in Rosters
    /\ j.pc \in {"poll", "failtx"} => j.hash \in Hash
    /\ j.pc \in HashPc => j.hash \in TxHash
    /\ j.pc \in {"adopt", "adoptrow", "mark"} => settlement[j.order] # None

(* The handler about to mark an order settled is the only one, and no      *)
(* event and no mail of the order's delivery exists yet.                   *)
MarkOnce ==
  \A a \in Actors : job[a].pc = "mark" =>
    /\ completed[Mine(a)] + mails[Mine(a)] = 0
    /\ \A b \in Actors : job[b].pc = "mark" /\ Mine(b) = Mine(a) => a = b

(* The inductive invariant. *)
IInv ==
  /\ TypeOK
  /\ \A o \in Orders : OrderSound(o)
  /\ \A h \in Hash : TxSound(h)
  /\ TxPays
  /\ \A c \in Calls : CallSound(c)
  /\ \A a \in Actors : JobSound(job[a])
  /\ MarkOnce
=============================================================================
