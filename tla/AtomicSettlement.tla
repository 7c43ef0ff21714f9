--------------------------- MODULE AtomicSettlement ---------------------------
(***************************************************************************)
(* What the settlement contract promises: an order is settled at most      *)
(* once, in one step, by which one account pays and the others gain, and   *)
(* no unit of USDC appears or is lost.  Nothing else moves the money of    *)
(* the creators; an account may be given money from outside.               *)
(***************************************************************************)
EXTENDS Integers, Functions

CONSTANTS Accounts, OrderRefs

VARIABLES settled, holdings

atomicVars == <<settled, holdings>>

Init ==
  /\ settled = {}
  /\ holdings = [a \in Accounts |-> 0]

Supply == SumFunctionOnSet(holdings, Accounts)

SettleOrder(o, payer) ==
  /\ o \notin settled
  /\ settled' = settled \cup {o}
  /\ Supply' = Supply
  /\ \A a \in Accounts \ {payer} : holdings'[a] >= holdings[a]

Receive(a) ==
  /\ holdings'[a] > holdings[a]
  /\ \A b \in Accounts \ {a} : holdings'[b] = holdings[b]
  /\ UNCHANGED settled

Next ==
  \/ \E o \in OrderRefs, payer \in Accounts : SettleOrder(o, payer)
  \/ \E a \in Accounts : Receive(a)

Spec == Init /\ [][Next]_atomicVars
=============================================================================
