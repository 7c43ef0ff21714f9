---------------------------- MODULE PayoutPromise ----------------------------
(***************************************************************************)
(* What the settlement pipeline promises of every order, whatever happens  *)
(* in between: money is paid out only for a paid order and by one          *)
(* transaction only, a settlement is recorded only for money that was paid *)
(* out, and the product is mailed only for a recorded settlement and only  *)
(* once.  Nothing is ever undone.                                          *)
(***************************************************************************)
EXTENDS Naturals

CONSTANTS Orders, Hash

VARIABLES
  paid,      \* the orders the gateway has confirmed
  payers,    \* the transactions that paid the creators of an order
  recorded,  \* the orders with a settlement row
  delivered  \* how many mails with the product were sent for an order

promiseVars == <<paid, payers, recorded, delivered>>

Init ==
  /\ paid = {}
  /\ payers = [o \in Orders |-> {}]
  /\ recorded = {}
  /\ delivered = [o \in Orders |-> 0]

Pay(o) ==
  /\ o \notin paid
  /\ paid' = paid \cup {o}
  /\ UNCHANGED <<payers, recorded, delivered>>

PayOut(o, h) ==
  /\ o \in paid
  /\ payers[o] = {}
  /\ payers' = [payers EXCEPT ![o] = {h}]
  /\ UNCHANGED <<paid, recorded, delivered>>

Record(o) ==
  /\ payers[o] # {}
  /\ o \notin recorded
  /\ recorded' = recorded \cup {o}
  /\ UNCHANGED <<paid, payers, delivered>>

Deliver(o) ==
  /\ o \in recorded
  /\ delivered[o] = 0
  /\ delivered' = [delivered EXCEPT ![o] = 1]
  /\ UNCHANGED <<paid, payers, recorded>>

Next == \E o \in Orders :
          Pay(o) \/ (\E h \in Hash : PayOut(o, h)) \/ Record(o) \/ Deliver(o)

Spec == Init /\ [][Next]_promiseVars
=============================================================================
