-------------------------- MODULE SettlementContract --------------------------
(***************************************************************************)
(* The Soroban contract that splits an order's USDC: initialize and settle *)
(* of smartcontract/src/lib.rs over the balances and trustlines of the     *)
(* USDC token.  settle() runs its three loops one recipient at a time; the *)
(* host undoes whatever a run did when it ends in an error or a trap.      *)
(***************************************************************************)
EXTENDS Integers, Sequences, FiniteSets

CONSTANTS
  Accounts,      \* addresses of accounts
  Usdc,          \* address of the USDC token contract
  OrderRefs,     \* order ids
  Totals,        \* the amounts settle is called with
  Lists,         \* the recipient lists it is called with
  FeeBps,        \* PLATFORM_FEE_BPS
  Denominator,   \* BPS_DENOMINATOR
  MaxRecipients, \* MAX_RECIPIENTS
  MaxInt,        \* the largest i128
  Deposit,       \* base units the platform receives at a time
  MaxDeposits,   \* how often it receives them
  None

Recipient == [address : Accounts, share : Int]

ASSUME FiniteType == IsFiniteSet(Accounts) /\ IsFiniteSet(OrderRefs)
ASSUME UsdcIsNoAccount == Usdc \notin Accounts
ASSUME TotalsType == Totals \subseteq Int
ASSUME ListsType == Lists \subseteq Seq(Recipient)
ASSUME FeeType == Denominator \in Nat \ {0} /\ FeeBps \in 0 .. Denominator
ASSUME MaxType == MaxRecipients \in Nat /\ MaxInt \in Nat
ASSUME DepositType == Deposit \in Nat /\ MaxDeposits \in Nat
ASSUME NoneIsNothing ==
  /\ None \notin Accounts \cup {Usdc} \cup OrderRefs
  /\ None \notin [platform : Accounts, token : Accounts \cup {Usdc}]
  /\ None \notin [total : Int, list : Seq(Recipient), amounts : Seq(Int)]

VARIABLES
  config,   \* instance storage: the platform wallet and the token
  markers,  \* persistent storage: the orders settled
  balance,  \* USDC balances in base units
  trusting, \* accounts with a USDC trustline
  deposits, \* how often the platform was funded
  events,   \* what settle published of an order: the total and the parts paid
  run,      \* the settle() call in execution
  outcome   \* how the last call ended

storage == <<config, markers>>
token == <<trusting, deposits>>
contractVars == <<config, markers, balance, trusting, deposits, events, run, outcome>>

(* sums holds allocation_sum after each recipient, amounts the parts that  *)
(* are computed and distributed their sum, sent the number of transfers    *)
(* made, before the balances the host goes back to.                        *)
NoRun == [pc |-> "idle", ref |-> None, total |-> 0, list |-> <<>>, sums |-> <<>>,
          amounts |-> <<>>, distributed |-> 0, sent |-> 0,
          before |-> [a \in Accounts |-> 0]]

Idle == run.pc = "idle"
Platform == config.platform

Init ==
  /\ config = None
  /\ markers = {}
  /\ balance = [a \in Accounts |-> 0]
  /\ trusting = {}
  /\ deposits = 0
  /\ events = [o \in OrderRefs |-> None]
  /\ run = NoRun
  /\ outcome = "none"

-----------------------------------------------------------------------------
(* Slip: the wallet need not sign. *)
InitializeUnsigned(p, t) ==
  /\ Idle
  /\ outcome' = IF config # None THEN "AlreadyInitialized"
                ELSE IF p = t THEN "InvalidConfiguration" ELSE "Ok"
  /\ config' = IF outcome' = "Ok" THEN [platform |-> p, token |-> t] ELSE config
  /\ UNCHANGED <<markers, balance, token, events, run>>

(* initialize: the wallet it registers must sign, which only an account    *)
(* can.                                                                    *)
Initialize(p, t) ==
  /\ Idle
  /\ outcome' = IF config # None THEN "AlreadyInitialized"
                ELSE IF p = t THEN "InvalidConfiguration"
                ELSE IF p \notin Accounts THEN "Trap" ELSE "Ok"
  /\ config' = IF outcome' = "Ok" THEN [platform |-> p, token |-> t] ELSE config
  /\ UNCHANGED <<markers, balance, token, events, run>>

-----------------------------------------------------------------------------
(* settle. *)

(* Slip: rounded to the nearest base unit. *)
RoundedPart(pool, share) == (pool * share + Denominator \div 2) \div Denominator
Part(pool, share) == (pool * share) \div Denominator

Fee(total) == Part(total, FeeBps)
Pool(total) == total - Fee(total)

(* Slip: the marker of the order is not looked for. *)
NeverSettled(ref) == FALSE
IsSettled(ref) == ref \in markers

(* What refuses a call before its recipients are looked at, in the order   *)
(* of the checks.                                                          *)
Refusal(signer, ref, total, list) ==
  IF config = None THEN "NotInitialized"
  ELSE IF signer # Platform THEN "Trap"
  ELSE IF IsSettled(ref) THEN "OrderAlreadySettled"
  ELSE IF total <= 0 THEN "InvalidTotalAmount"
  ELSE IF list = <<>> THEN "EmptyRecipients"
  ELSE IF Len(list) > MaxRecipients THEN "TooManyRecipients" ELSE "none"

Settle(signer, ref, total, list) ==
  /\ Idle
  /\ outcome' = Refusal(signer, ref, total, list)
  /\ run' = IF outcome' = "none"
            THEN [NoRun EXCEPT !.pc = "validate", !.ref = ref, !.total = total,
                               !.list = list, !.before = balance]
            ELSE run
  /\ UNCHANGED <<storage, balance, token, events>>

(* The host restores what a run that fails had changed. *)
RestoredBalance == run.before

Abandon(error) ==
  /\ outcome' = error
  /\ balance' = RestoredBalance
  /\ run' = NoRun
  /\ UNCHANGED <<storage, token, events>>

Last(s) == IF s = <<>> THEN 0 ELSE s[Len(s)]
Repeated(list, i) == \E j \in i + 1 .. Len(list) : list[i].address = list[j].address

(* validate_recipients, one recipient, with its checks in their order. *)
CheckRecipient ==
  LET i == Len(run.sums) + 1
      share == run.list[i].share
      sum == Last(run.sums) + share
  IN /\ run.pc = "validate"
     /\ i <= Len(run.list)
     /\ \/ share <= 0 /\ Abandon("ZeroAllocation")
        \/ share > 0 /\ sum > MaxInt /\ Abandon("ArithmeticOverflow")
        \/ /\ share > 0 /\ sum <= MaxInt /\ Repeated(run.list, i)
           /\ Abandon("DuplicateRecipient")
        \/ /\ share > 0 /\ sum <= MaxInt /\ ~Repeated(run.list, i)
           /\ run' = [run EXCEPT !.sums = Append(run.sums, sum)]
           /\ UNCHANGED <<storage, balance, token, events, outcome>>

AddsUp(sum) == sum = Denominator

CheckSum ==
  LET sum == Last(run.sums)
  IN /\ run.pc = "validate"
     /\ Len(run.sums) = Len(run.list)
     /\ \/ ~AddsUp(sum) /\ Abandon("InvalidAllocationSum")
        \/ AddsUp(sum) /\ run.total * FeeBps > MaxInt /\ Abandon("ArithmeticOverflow")
        \/ /\ AddsUp(sum) /\ run.total * FeeBps <= MaxInt
           /\ run' = [run EXCEPT !.pc = "split"]
           /\ UNCHANGED <<storage, balance, token, events, outcome>>

(* calculate_creator_amounts, one recipient: the last one gets the rest.   *)
(* A product out of range traps.                                           *)
SplitPart ==
  LET i == Len(run.amounts) + 1
      pool == Pool(run.total)
      share == run.list[i].share
      next == IF i < Len(run.list) THEN "split" ELSE "transfer"
      add(part) == /\ run' = [run EXCEPT !.pc = next,
                                         !.amounts = Append(run.amounts, part),
                                         !.distributed = run.distributed + part]
                   /\ UNCHANGED <<storage, balance, token, events, outcome>>
  IN /\ run.pc = "split"
     /\ \/ i < Len(run.list) /\ pool * share > MaxInt /\ Abandon("Trap")
        \/ i < Len(run.list) /\ pool * share <= MaxInt /\ add(Part(pool, share))
        \/ i = Len(run.list) /\ add(pool - run.distributed)

(* The token moves USDC between accounts that trust it. *)
Transferable(to, amount) ==
  config.token = Usdc /\ {Platform, to} \subseteq trusting /\ balance[Platform] >= amount
Transferred(to, amount) ==
  [a \in Accounts |-> balance[a] + (IF a = to THEN amount ELSE 0)
                                 - (IF a = Platform THEN amount ELSE 0)]

(* Slip: a transfer that fails is passed over. *)
TransferIfPossible ==
  LET i == run.sent + 1
      to == run.list[i].address
      amount == run.amounts[i]
  IN /\ run.pc = "transfer"
     /\ i <= Len(run.list)
     /\ balance' = IF amount > 0 /\ Transferable(to, amount)
                   THEN Transferred(to, amount) ELSE balance
     /\ run' = [run EXCEPT !.sent = i]
     /\ UNCHANGED <<storage, token, events, outcome>>

(* One transfer; a part of nothing is not transferred. *)
TransferPart ==
  LET i == run.sent + 1
      to == run.list[i].address
      amount == run.amounts[i]
  IN /\ run.pc = "transfer"
     /\ i <= Len(run.list)
     /\ \/ amount > 0 /\ ~Transferable(to, amount) /\ Abandon("Trap")
        \/ /\ amount > 0 => Transferable(to, amount)
           /\ balance' = IF amount > 0 THEN Transferred(to, amount) ELSE balance
           /\ run' = [run EXCEPT !.sent = i]
           /\ UNCHANGED <<storage, token, events, outcome>>

(* The marker is set and the run's events become visible. *)
Commit ==
  /\ run.pc = "transfer"
  /\ run.sent = Len(run.list)
  /\ markers' = markers \cup {run.ref}
  /\ events' = [events EXCEPT ![run.ref] =
                  [total |-> run.total, list |-> run.list, amounts |-> run.amounts]]
  /\ outcome' = "Ok"
  /\ run' = NoRun
  /\ UNCHANGED <<config, balance, token>>

Execute == CheckRecipient \/ CheckSum \/ SplitPart \/ TransferPart \/ Commit

-----------------------------------------------------------------------------
(* The token outside the contract.  A trustline goes only without balance. *)

Fund ==
  /\ Idle
  /\ config # None
  /\ Platform \in trusting
  /\ deposits < MaxDeposits
  /\ deposits' = deposits + 1
  /\ balance' = [balance EXCEPT ![Platform] = @ + Deposit]
  /\ UNCHANGED <<storage, trusting, events, run, outcome>>

ChangeTrust(a) ==
  /\ Idle
  /\ trusting' = IF a \in trusting THEN trusting \ {a} ELSE trusting \cup {a}
  /\ a \in trusting => balance[a] = 0
  /\ UNCHANGED <<storage, balance, deposits, events, run, outcome>>

Next ==
  \/ \E p, t \in Accounts \cup {Usdc} : Initialize(p, t)
  \/ \E s \in Accounts, o \in OrderRefs, total \in Totals, list \in Lists :
       Settle(s, o, total, list)
  \/ Execute
  \/ Fund
  \/ \E a \in Accounts : ChangeTrust(a)

Spec == Init /\ [][Next]_contractVars
=============================================================================
