--------------------------- MODULE SettlementMirror ---------------------------
(***************************************************************************)
(* The copies of a settlement: recordSettlementSuccess computes the split  *)
(* a second time, from the total and the recipients it sent to the         *)
(* contract, and stores what DECIMAL(18, 2) columns keep of the parts; and *)
(* the page of a product showed it before, computed in cents.              *)
(***************************************************************************)
EXTENDS ContractProperties

CONSTANT Cent \* base units of a cent

ASSUME CentType == Cent \in Nat \ {0}

VARIABLE row  \* tables Settlement and SettlementRecipient of an order

mirrorVars == <<contractVars, row>>

(* Slip: the first recipient gets the rest. *)
RestToFirst(pool, list) ==
  LET others == SumFunction([j \in 2 .. Len(list) |-> Part(pool, list[j].share)])
  IN [i \in 1 .. Len(list) |-> IF i = 1 THEN pool - others
                                        ELSE Part(pool, list[i].share)]

(* creatorAmountsBase: each its share rounded down, the last one the rest. *)
CreatorAmounts(pool, list) ==
  LET before(i) == SumFunction([j \in 1 .. i - 1 |-> Part(pool, list[j].share)])
  IN [i \in 1 .. Len(list) |-> IF i = Len(list) THEN pool - before(i)
                                                ELSE Part(pool, list[i].share)]

(* computeSplit of the product form: the same steps, on whole cents.       *)
ComputeSplit(total, list) == CreatorAmounts(Pool(total \div Cent), list)

(* Slip: what exceeds the whole cents is cut off. *)
Truncated(amount) == amount \div Cent
(* What a DECIMAL(18, 2) column keeps of an amount, in cents: rounded.     *)
Stored(amount) == (amount + Cent \div 2) \div Cent

MirrorInit == Init /\ row = [o \in OrderRefs |-> None]

(* The rows of a settlement: what the columns keep of the parts that are   *)
(* computed, and of the fee.                                               *)
RecordSettlement(o) ==
  /\ o \in markers /\ row[o] = None
  /\ LET total == events[o].total
         computed == CreatorAmounts(Pool(total), events[o].list)
     IN row' = [row EXCEPT ![o] =
                  [computed |-> computed,
                   stored |-> [i \in DOMAIN computed |-> Stored(computed[i])],
                   fee |-> Stored(Fee(total))]]
  /\ UNCHANGED contractVars

MirrorNext == (Next /\ UNCHANGED row) \/ \E o \in OrderRefs : RecordSettlement(o)

MirrorSpec == MirrorInit /\ [][MirrorNext]_mirrorVars

Off(cents, paid) == IF cents * Cent > paid THEN cents * Cent - paid ELSE paid - cents * Cent

(* The two implementations of the split agree on every part, and the rows  *)
(* are what was paid, rounded to the cent: no recipient and not the fee is *)
(* on record with more than half a cent too much or too little.            *)
Exact(o) == row[o].computed = events[o].amounts
ToTheCent(o) ==
  /\ \A i \in DOMAIN row[o].stored : 2 * Off(row[o].stored[i], events[o].amounts[i]) <= Cent
  /\ 2 * Off(row[o].fee, Fee(events[o].total)) <= Cent
RecordMatchesPayment == \A o \in OrderRefs : row[o] # None => Exact(o) /\ ToTheCent(o)

(* What the form shows of a price in cents, and what is paid for it. *)
Priced == {o \in Booked : events[o].total % Cent = 0}
Shown(o) == ComputeSplit(events[o].total, events[o].list)

(* What the form shows of a price is less than a cent off for each         *)
(* recipient but the last, who is given what the others lack.              *)
PreviewIsClose ==
  \A o \in Priced :
    LET paid == events[o].amounts
    IN \A i \in DOMAIN paid :
         Off(Shown(o)[i], paid[i]) < Cent * (IF i = Len(paid) THEN Len(paid) ELSE 1)
=============================================================================
