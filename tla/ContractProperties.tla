-------------------------- MODULE ContractProperties --------------------------
(***************************************************************************)
(* What makes the settlement contract correct.                             *)
(***************************************************************************)
EXTENDS SettlementContract, Functions

(* The ledger outside a run: what a run has done so far is not visible.    *)
visible == IF Idle THEN balance ELSE run.before

(* The promise of module AtomicSettlement, read off the visible ledger. *)
Atomic == INSTANCE AtomicSettlement WITH settled <- markers, holdings <- visible

Booked == {o \in OrderRefs : events[o] # None}
CreditOf(o, a) ==
  SumFunctionOnSet(events[o].amounts,
                   {i \in DOMAIN events[o].list : events[o].list[i].address = a})
PaidIn == deposits * Deposit
PaidOut == SumFunction([o \in Booked |-> Pool(events[o].total)])

(* Every variable has its type. *)
TypeOK ==
  /\ config \in {None} \cup [platform : Accounts, token : Accounts \cup {Usdc}]
  /\ markers \subseteq OrderRefs
  /\ balance \in [Accounts -> Nat]
  /\ trusting \subseteq Accounts
  /\ deposits \in 0 .. MaxDeposits
  /\ \A o \in Booked : /\ events[o].total \in Totals
                       /\ events[o].list \in Lists
                       /\ Len(events[o].amounts) = Len(events[o].list)
  /\ run.pc \in {"idle", "validate", "split", "transfer"}
  /\ run.before \in [Accounts -> Nat]
  /\ Len(run.amounts) <= Len(run.list) /\ run.sent <= Len(run.amounts)

(* The events of the settled orders account for every unit on the ledger:  *)
(* each account holds exactly its parts of them, the platform what was     *)
(* paid in less the pools it paid out.  No transfer of a run that failed   *)
(* on the way is left behind, and the fee never leaves the platform.       *)
EventsExplainBalances ==
  Idle => \A a \in Accounts :
    balance[a] = SumFunction([o \in Booked |-> CreditOf(o, a)])
                 + IF config # None /\ a = Platform THEN PaidIn - PaidOut ELSE 0

(* The parts of a settled order add up to its pool, none is negative, and  *)
(* each is its exact share rounded down, but for the last, which has at    *)
(* most one unit for every other recipient on top.                         *)
FairPart(o, i) ==
  LET n == Len(events[o].list)
      part == events[o].amounts[i]
      least == Part(Pool(events[o].total), events[o].list[i].share)
  IN part \in least .. least + (IF i = n THEN n - 1 ELSE 0)
SplitIsExact ==
  \A o \in Booked :
    /\ SumFunction(events[o].amounts) = Pool(events[o].total)
    /\ \A i \in DOMAIN events[o].amounts : FairPart(o, i)

(* All or nothing, once per order. *)
IsAtomic == Atomic!Spec
=============================================================================
