-------------------------- MODULE WithdrawalsProofs --------------------------
(***************************************************************************)
(* What holds of withdrawals for any number of creators, addresses and     *)
(* requests.                                                               *)
(*                                                                         *)
(* NumbersInSequence alone is not inductive.  A request that has read the  *)
(* next number remembers one that is at most one more than there are       *)
(* withdrawals of that day (Ready); every smaller one is used (NoGaps), so *)
(* the unique index lets it create a row only when it is exactly one more. *)
(*                                                                         *)
(* CompletedForGood: the only write that could undo a completion is the    *)
(* update to PROCESSING by the request that created the row.  Until then   *)
(* the row is REQUESTED, which no receipt completes, and it belongs to     *)
(* that request alone (Creating).                                          *)
(***************************************************************************)
EXTENDS Withdrawals, FiniteSetTheorems, TLAPS

Known == {"PROCESSING", "COMPLETED", "FAILED"}
Request == [pc : {"idle", "settled", "withdrawn", "number", "create", "process", "interactive",
                  "record", "complete", "mirror", "submit", "hash"},
            creator : Creators \cup {None}, address : Addresses \cup {None},
            amount : Nat \cup {None}, total : Nat, number : (Nat \X Nat) \cup {None},
            at : Nat \cup {None}, status : {None, "simulated", "anchor"} \cup Known]

Types ==
  /\ wallets \in [Creators -> Seq(Addresses)]
  /\ \A c \in Creators : \A i \in 1 .. Len(wallets[c]) : OwnerOf[wallets[c][i]] = c
  /\ settled \in [Addresses -> 0 .. MaxSettled]
  /\ table \in Seq(Row)
  /\ anchored \in Seq(AnchorTx)
  /\ \A i \in 1 .. Len(table) : table[i].anchor \in {None} \cup 1 .. Len(anchored)
  /\ request \in [Requests -> Request]
  /\ day \in 1 .. MaxDay

(* Every number up to that of the newest withdrawal of a day is used. *)
NoGaps ==
  \A d \in Nat : \A n \in 1 .. Cardinality(OfDay(d)) :
    \E i \in OfDay(d) : table[i].number[2] = n

(* What a request knows when it goes on. *)
Ready(q) ==
  /\ q.pc \in {"settled", "withdrawn", "number", "create", "interactive", "record"} =>
       q.creator \in Creators /\ q.amount \in Nat
  /\ q.pc = "settled" => q.address \in Addresses
  /\ q.pc = "create" => /\ q.number \in Nat \X Nat
                        /\ q.number[2] \in 1 .. Cardinality(OfDay(q.number[1])) + 1
  /\ q.pc \in {"record", "mirror", "submit", "hash"} => q.at \in 1 .. Len(anchored)
  /\ q.pc = "mirror" => q.status \in Known
  /\ q.pc = "process" => /\ q.at \in 1 .. Len(table)
                         /\ table[q.at].status = "REQUESTED" /\ table[q.at].anchor = None
  /\ q.pc = "complete" => q.at \in 1 .. Len(table) /\ table[q.at].status # "REQUESTED"

(* A row that was just created is worked on by one request. *)
Creating ==
  \A r, s \in Requests :
    request[r].pc = "process" /\ request[s].pc = "process" /\ request[r].at = request[s].at
    => r = s

AllReady == \A r \in Requests : Ready(request[r])

Inv == Types /\ NumbersInSequence /\ NoGaps /\ AllReady /\ Creating

-----------------------------------------------------------------------------
(* The withdrawals of a day. *)

DayOf(t, d) == {i \in DOMAIN t : t[i].number # None /\ t[i].number[1] = d}

LEMMA DayFinite ==
  ASSUME NEW t \in Seq(Row), NEW d
  PROVE  /\ IsFiniteSet(DayOf(t, d))
         /\ Cardinality(DayOf(t, d)) \in Nat
         /\ DayOf(t, d) \subseteq 1 .. Len(t)
<1>1. DOMAIN t = 1 .. Len(t) /\ Len(t) \in Nat OBVIOUS
<1>2. DayOf(t, d) \subseteq 1 .. Len(t) BY <1>1 DEF DayOf
<1>3. IsFiniteSet(1 .. Len(t)) BY <1>1, FS_Interval
<1>4. IsFiniteSet(DayOf(t, d)) BY <1>2, <1>3, FS_Subset
<1> QED BY <1>2, <1>4, FS_CardinalityType

LEMMA OfDayIs == ASSUME NEW d PROVE OfDay(d) = DayOf(table, d) /\ OfDay(d)' = DayOf(table', d)
BY DEF OfDay, DayOf

(* No row gets a number, and none loses its own. *)
NumbersKept ==
  /\ Len(table) <= Len(table')
  /\ \A i \in 1 .. Len(table) : table'[i].number = table[i].number
  /\ \A i \in 1 .. Len(table') : i > Len(table) => table'[i].number = None

LEMMA NumbersStay ==
  ASSUME table \in Seq(Row), table' \in Seq(Row), NumbersKept, NumbersInSequence, NoGaps
  PROVE  /\ NumbersInSequence' /\ NoGaps'
         /\ \A d \in Nat : /\ Cardinality(OfDay(d)) \in Nat
                           /\ Cardinality(OfDay(d)') = Cardinality(OfDay(d))
<1>1. /\ DOMAIN table = 1 .. Len(table) /\ DOMAIN table' = 1 .. Len(table')
      /\ Len(table) \in Nat /\ Len(table') \in Nat /\ Len(table) <= Len(table')
      BY DEF NumbersKept
<1>2. \A d : OfDay(d)' = OfDay(d)
  <2> TAKE d
  <2>1. ASSUME NEW i \in 1 .. Len(table'), table'[i].number # None
        PROVE  i \in 1 .. Len(table) /\ table'[i].number = table[i].number
        BY <1>1, <2>1 DEF NumbersKept
  <2>2. ASSUME NEW i \in 1 .. Len(table)
        PROVE  i \in 1 .. Len(table') /\ table'[i].number = table[i].number
        BY <1>1, <2>2 DEF NumbersKept
  <2> QED BY <1>1, <2>1, <2>2 DEF OfDay
<1>3. \A i \in DOMAIN table' : table'[i].number # None =>
        i \in DOMAIN table /\ table'[i].number = table[i].number
      BY <1>1 DEF NumbersKept
<1>4. NumbersInSequence' BY <1>2, <1>3 DEF NumbersInSequence
<1>5. \A d : \A i \in OfDay(d) : table'[i].number[2] = table[i].number[2]
      BY <1>1 DEF NumbersKept, OfDay
<1>6. NoGaps' BY <1>2, <1>5 DEF NoGaps
<1>7. \A d \in Nat : Cardinality(OfDay(d)) \in Nat BY OfDayIs, DayFinite
<1> QED BY <1>2, <1>4, <1>6, <1>7

(* The next number is at most one more than there are withdrawals.         *)
LEMMA NextNumberFits ==
  ASSUME Inv
  PROVE  NextNumber \in 1 .. Cardinality(OfDay(day)) + 1
<1> PICK D : D = OfDay(day) OBVIOUS
<1>1. table \in Seq(Row) /\ day \in Nat BY DEF Inv, Types
<1>2. IsFiniteSet(D) /\ Cardinality(D) \in Nat /\ D \subseteq 1 .. Len(table)
      BY <1>1, OfDayIs, DayFinite
<1>3. CASE D = {} BY <1>2, <1>3 DEF NextNumber
<1>4. CASE D # {}
  <2>1. Cardinality(D) \in 1 .. Cardinality(D) BY <1>2, <1>4, FS_EmptySet
  <2>2. PICK i \in D : table[i].number[2] = Cardinality(D) BY <2>1, <1>1 DEF Inv, NoGaps
  <2>3. \A j \in D : j \in DOMAIN table /\ table[j].number # None /\ table[j].number[1] = day
        BY DEF OfDay
  <2>4. \A j \in D : table[j].number[2] = Cardinality({k \in D : k <= j})
        BY <2>3 DEF Inv, NumbersInSequence
  <2>5. D = {k \in D : k <= i} BY <2>2, <2>4, <1>2, FS_Subset
  <2>6. \A k \in D : i >= k BY <2>5, <1>2
  <2>7. Max(D) \in D BY <2>6, Zenon DEF Max
  <2> PICK m \in D : m = Max(D) BY <2>7
  <2> PICK M : M = {k \in D : k <= m} OBVIOUS
  <2>8. M \in SUBSET D /\ m \in M BY <1>2
  <2>9. IsFiniteSet(M) /\ Cardinality(M) <= Cardinality(D) BY <1>2, <2>8, FS_Subset
  <2>10. Cardinality(M) \in Nat /\ Cardinality(M) # 0
         BY <2>8, <2>9, FS_EmptySet, FS_CardinalityType
  <2>11. table[m].number[2] = Cardinality(M) BY <2>4
  <2> QED BY <1>2, <1>4, <2>9, <2>10, <2>11 DEF NextNumber
<1> QED BY <1>3, <1>4

(* A row with a number that is free is the next of its day.                *)
LEMMA NumberAppended ==
  ASSUME Inv, NEW d \in Nat, NEW n \in 1 .. Cardinality(OfDay(d)) + 1, NEW row \in Row,
         row.number = <<d, n>>, Free(<<d, n>>), table' = Append(table, row)
  PROVE  /\ NumbersInSequence' /\ NoGaps'
         /\ \A c \in Nat : /\ Cardinality(OfDay(c)) \in Nat /\ Cardinality(OfDay(c)') \in Nat
                           /\ Cardinality(OfDay(c)) <= Cardinality(OfDay(c)')
<1> PICK l : l = Len(table) + 1 OBVIOUS
<1>1. table \in Seq(Row) BY DEF Inv, Types
<1>2. /\ table' \in Seq(Row) /\ l \in Nat /\ Len(table) \in Nat /\ Len(table') = l
      /\ DOMAIN table = 1 .. Len(table) /\ DOMAIN table' = 1 .. Len(table) \cup {l}
      /\ table'[l] = row /\ \A i \in 1 .. Len(table) : table'[i] = table[i]
      BY <1>1
<1>3. <<d, n>> # None /\ <<d, n>>[1] = d /\ <<d, n>>[2] = n
  <2>1. Cardinality(OfDay(d)) \in Nat BY <1>1, OfDayIs, DayFinite
  <2>2. <<d, n>> \in Nat \X Nat BY <2>1
  <2> QED BY <2>2, NoneIsNothing
<1>4. \A c : /\ IsFiniteSet(OfDay(c)) /\ Cardinality(OfDay(c)) \in Nat
             /\ OfDay(c) \subseteq 1 .. Len(table)
      BY <1>1, OfDayIs, DayFinite
<1>5. OfDay(d)' = OfDay(d) \cup {l} BY <1>2, <1>3 DEF OfDay
<1>6. \A c : c # d => OfDay(c)' = OfDay(c)
  <2> SUFFICES ASSUME NEW c, c # d PROVE OfDay(c)' = OfDay(c) OBVIOUS
  <2>1. \A i \in DOMAIN table' : table'[i].number # None /\ table'[i].number[1] = c =>
          i \in DOMAIN table
        BY <1>2, <1>3
  <2> QED BY <1>2, <2>1 DEF OfDay
<1>7. l \notin OfDay(d) BY <1>2, <1>4
<1>8. Cardinality(OfDay(d)') = Cardinality(OfDay(d)) + 1 BY <1>4, <1>5, <1>7, FS_AddElement
<1>9. n = Cardinality(OfDay(d)) + 1
  <2> SUFFICES ASSUME n \in 1 .. Cardinality(OfDay(d)) PROVE FALSE BY <1>4
  <2>1. PICK i \in OfDay(d) : table[i].number[2] = n BY DEF Inv, NoGaps
  <2>2. i \in DOMAIN table /\ table[i].number # None /\ table[i].number[1] = d BY DEF OfDay
  <2>3. table[i] \in Row BY <1>1, <2>2
  <2>4. table[i].number \in Nat \X Nat BY <2>2, <2>3 DEF Row
  <2>5. table[i].number = <<d, n>> BY <2>1, <2>2, <2>4
  <2> QED BY <2>2, <2>5 DEF Free
<1>10. NumbersInSequence'
  <2> SUFFICES ASSUME NEW i \in DOMAIN table', table'[i].number # None
               PROVE  table'[i].number[2] =
                        Cardinality({j \in OfDay(table[i].number[1])' : j <= i})
      BY DEF NumbersInSequence
  <2>1. CASE i = l
    <3>1. {j \in OfDay(d)' : j <= l} = OfDay(d)' BY <1>2, <1>4, <1>5
    <3> QED BY <2>1, <3>1, <1>2, <1>3, <1>8, <1>9
  <2>2. CASE i # l
    <3>1. i \in DOMAIN table /\ table'[i] = table[i] BY <2>2, <1>2
    <3> PICK c : c = table[i].number[1] OBVIOUS
    <3>2. table[i].number[2] = Cardinality({j \in OfDay(c) : j <= i})
          BY <3>1 DEF Inv, NumbersInSequence
    <3>3. {j \in OfDay(c)' : j <= i} = {j \in OfDay(c) : j <= i}
      <4>1. CASE c = d BY <4>1, <1>2, <1>5, <3>1
      <4>2. CASE c # d BY <4>2, <1>6
      <4> QED BY <4>1, <4>2
    <3>4. OfDay(table[i].number[1])' = OfDay(c)' BY <3>1 DEF OfDay
    <3> QED BY <3>1, <3>2, <3>3, <3>4
  <2> QED BY <2>1, <2>2
<1>11. NoGaps'
  <2> SUFFICES ASSUME NEW c \in Nat, NEW k \in 1 .. Cardinality(OfDay(c)')
               PROVE  \E i \in OfDay(c)' : table'[i].number[2] = k
      BY DEF NoGaps
  <2>1. ASSUME k \in 1 .. Cardinality(OfDay(c))
        PROVE  \E i \in OfDay(c)' : table'[i].number[2] = k
    <3>1. PICK i \in OfDay(c) : table[i].number[2] = k BY <2>1 DEF Inv, NoGaps
    <3>2. i \in OfDay(c)' BY <1>5, <1>6
    <3>3. table'[i] = table[i] BY <1>2, <1>4
    <3> QED BY <3>1, <3>2, <3>3
  <2>2. CASE c = d /\ k = n
    <3>1. l \in OfDay(c)' BY <2>2, <1>5
    <3>2. table'[l].number[2] = k BY <2>2, <1>2, <1>3
    <3> QED BY <3>1, <3>2
  <2>3. k \in 1 .. Cardinality(OfDay(c)) \/ (c = d /\ k = n)
    <3>1. CASE c = d BY <3>1, <1>4, <1>8, <1>9
    <3>2. CASE c # d BY <3>2, <1>6
    <3> QED BY <3>1, <3>2
  <2> QED BY <2>1, <2>2, <2>3
<1>12. \A c \in Nat : /\ Cardinality(OfDay(c)') \in Nat
                     /\ Cardinality(OfDay(c)) <= Cardinality(OfDay(c)')
  <2> TAKE c \in Nat
  <2>1. CASE c = d BY <2>1, <1>4, <1>8
  <2>2. CASE c # d BY <2>2, <1>4, <1>6
  <2> QED BY <2>1, <2>2
<1> QED BY <1>4, <1>10, <1>11, <1>12

-----------------------------------------------------------------------------
(* Steps. *)

(* What a step of request r may do to the tables. *)
Writes(r) ==
  /\ table' \in Seq(Row) /\ Len(table) <= Len(table')
  /\ anchored' \in Seq(AnchorTx) /\ Len(anchored) <= Len(anchored')
  /\ \A i \in 1 .. Len(table') : table'[i].anchor \in {None} \cup 1 .. Len(anchored')
  /\ NumbersInSequence' /\ NoGaps'
  /\ \A d \in Nat : /\ Cardinality(OfDay(d)) \in Nat /\ Cardinality(OfDay(d)') \in Nat
                    /\ Cardinality(OfDay(d)) <= Cardinality(OfDay(d)')
  /\ \A i \in 1 .. Len(table) :
       /\ table'[i].anchor = table[i].anchor
       /\ table[i].status # "REQUESTED" => table'[i].status # "REQUESTED"
       /\ table[i].anchor = None /\ table'[i].status # table[i].status =>
            request[r].pc \in {"process", "complete"} /\ request[r].at = i

(* Nothing is written, or only transactions of the anchor. *)
LEMMA NoRowWritten ==
  ASSUME Inv, table' = table, anchored' \in Seq(AnchorTx), Len(anchored) <= Len(anchored')
  PROVE  \A r : Writes(r)
<1>1. table \in Seq(Row) /\ anchored \in Seq(AnchorTx) BY DEF Inv, Types
<1>2. NumbersKept BY <1>1 DEF NumbersKept
<1>3. /\ NumbersInSequence' /\ NoGaps'
      /\ \A d \in Nat : /\ Cardinality(OfDay(d)) \in Nat
                        /\ Cardinality(OfDay(d)') = Cardinality(OfDay(d))
      BY <1>1, <1>2, NumbersStay DEF Inv
<1>4. \A i \in 1 .. Len(table') : table'[i].anchor \in {None} \cup 1 .. Len(anchored')
      BY <1>1 DEF Inv, Types
<1>5. \A i \in 1 .. Len(table) :
        /\ table'[i].anchor = table[i].anchor
        /\ table[i].status # "REQUESTED" => table'[i].status # "REQUESTED"
        /\ table'[i].status = table[i].status
      OBVIOUS
<1>6. Len(table) <= Len(table') BY <1>1
<1>7. \A d \in Nat : /\ Cardinality(OfDay(d)) \in Nat /\ Cardinality(OfDay(d)') \in Nat
                    /\ Cardinality(OfDay(d)) <= Cardinality(OfDay(d)')
  <2> TAKE d \in Nat
  <2> PICK n : n = Cardinality(OfDay(d)) OBVIOUS
  <2>1. n \in Nat /\ Cardinality(OfDay(d)') = n BY <1>3
  <2>2. n <= n BY <2>1
  <2> QED BY <2>1, <2>2
<1> QED BY <1>1, <1>3, <1>4, <1>5, <1>6, <1>7 DEF Writes

(* A request that goes on leaves the others ready. *)
LEMMA Moves ==
  ASSUME Inv, NEW r \in Requests, NEW e \in Request, request' = [request EXCEPT ![r] = e],
         UNCHANGED <<wallets, settled, day>>, Writes(r), Ready(e)',
         e.pc = "process" => \A s \in Requests :
           s # r => ~(request[s].pc = "process" /\ request[s].at = e.at)
  PROVE  Inv'
<1> USE NoneIsNothing DEF Inv
<1>1. request'[r] = e /\ \A s \in Requests : s # r => request'[s] = request[s] BY DEF Types
<1>2. Types' BY DEF Types, Writes
<1>3. NumbersInSequence' /\ NoGaps' BY DEF Writes
<1>4. AllReady'
  <2> SUFFICES ASSUME NEW s \in Requests PROVE Ready(request[s])' BY DEF AllReady
  <2>1. CASE s = r BY <2>1, <1>1 DEF Ready
  <2>2. CASE s # r
    <3> PICK q \in Request : q = request[s] BY DEF Types
    <3>1. request'[s] = q BY <2>2, <1>1
    <3>2. Ready(q) BY DEF AllReady
    <3>3. /\ Len(table) \in Nat /\ Len(table') \in Nat /\ Len(table) <= Len(table')
          /\ Len(anchored) \in Nat /\ Len(anchored') \in Nat /\ Len(anchored) <= Len(anchored')
      <4>1. table \in Seq(Row) /\ anchored \in Seq(AnchorTx) BY DEF Types
      <4>2. table' \in Seq(Row) /\ anchored' \in Seq(AnchorTx) BY DEF Writes
      <4> QED BY <4>1, <4>2 DEF Writes
    <3>4. q.pc = "create" => /\ q.number \in Nat \X Nat
                            /\ q.number[2] \in 1 .. Cardinality(OfDay(q.number[1])') + 1
      <4> SUFFICES ASSUME q.pc = "create"
                   PROVE  /\ q.number \in Nat \X Nat
                          /\ q.number[2] \in 1 .. Cardinality(OfDay(q.number[1])') + 1
          OBVIOUS
      <4> PICK d \in Nat, n \in Nat : q.number = <<d, n>> /\ d = q.number[1] /\ n = q.number[2]
          BY <3>2 DEF Ready
      <4>1. n \in 1 .. Cardinality(OfDay(d)) + 1 BY <3>2 DEF Ready
      <4>2. n \in 1 .. Cardinality(OfDay(d)') + 1 BY <4>1 DEF Writes
      <4> QED BY <4>2
    <3>5. q.pc \in {"record", "mirror", "submit", "hash"} => q.at \in 1 .. Len(anchored')
          BY <3>2, <3>3 DEF Ready
    <3>6. q.pc = "process" => /\ q.at \in 1 .. Len(table')
                             /\ table'[q.at].status = "REQUESTED" /\ table'[q.at].anchor = None
      <4> SUFFICES ASSUME q.pc = "process"
                   PROVE  /\ q.at \in 1 .. Len(table')
                          /\ table'[q.at].status = "REQUESTED" /\ table'[q.at].anchor = None
          OBVIOUS
      <4>1. /\ q.at \in 1 .. Len(table)
            /\ table[q.at].status = "REQUESTED" /\ table[q.at].anchor = None
            BY <3>2 DEF Ready
      <4>2. ~(request[r].pc = "process" /\ request[r].at = q.at) BY <2>2 DEF Creating
      <4>3. ~(request[r].pc = "complete" /\ request[r].at = q.at)
            BY <4>1 DEF AllReady, Ready
      <4>4. table'[q.at].status = table[q.at].status /\ table'[q.at].anchor = table[q.at].anchor
            BY <4>1, <4>2, <4>3 DEF Writes
      <4> QED BY <3>3, <4>1, <4>4
    <3>7. q.pc = "complete" => q.at \in 1 .. Len(table') /\ table'[q.at].status # "REQUESTED"
          BY <3>2, <3>3 DEF Ready, Writes
    <3>8. Ready(q)' BY <3>2, <3>4, <3>5, <3>6, <3>7 DEF Ready
    <3> QED BY <3>1, <3>8 DEF Ready
  <2> QED BY <2>1, <2>2
<1>5. Creating' BY <1>1 DEF Creating
<1> QED BY <1>2, <1>3, <1>4, <1>5

(* A request that ends. *)
LEMMA IdleIs ==
  /\ Idle \in Request /\ Idle.pc = "idle" /\ Idle.creator = None /\ Idle.address = None
  /\ Idle.amount = None /\ Idle.number = None /\ Idle.at = None /\ Idle.status = None
BY DEF Idle, Request

LEMMA Ends ==
  ASSUME Inv, NEW r \in Requests, Done(r), UNCHANGED <<wallets, settled, day>>, Writes(r)
  PROVE  Inv'
<1> PICK e : e = Idle OBVIOUS
<1>1. e \in Request /\ e.pc = "idle" BY IdleIs
<1>2. request' = [request EXCEPT ![r] = e] BY DEF Done
<1>3. Ready(e)' BY <1>1 DEF Ready
<1> QED BY <1>1, <1>2, <1>3, Moves

(* A request that only reads. *)
LEMMA Reads ==
  ASSUME Inv, NEW r \in Requests, NEW e \in Request, request' = [request EXCEPT ![r] = e],
         UNCHANGED <<table, anchored, wallets, settled, day>>, Ready(e), e.pc # "process"
  PROVE  Inv'
<1>1. anchored' \in Seq(AnchorTx) /\ Len(anchored) <= Len(anchored') BY DEF Inv, Types
<1>2. Writes(r) BY <1>1, NoRowWritten
<1>3. Ready(e)' BY DEF Ready, OfDay
<1> QED BY <1>2, <1>3, Moves

LEMMA Positions ==
  ASSUME Inv
  PROVE  /\ DOMAIN table = 1 .. Len(table) /\ Len(table) \in Nat
         /\ DOMAIN anchored = 1 .. Len(anchored) /\ Len(anchored) \in Nat
BY DEF Inv, Types

LEMMA AskKeeps == ASSUME Inv, NEW r \in Requests, Ask(r) PROVE Inv'
<1>1. PICK c \in Creators, amount \in Amounts, kind \in {"simulated", "anchor"} :
        /\ wallets[c] # <<>>
        /\ request' = [request EXCEPT ![r] =
             [Idle EXCEPT !.pc = "settled", !.creator = c, !.amount = amount,
                !.address = wallets[c][Len(wallets[c])], !.status = kind]]
      BY DEF Ask
<1> PICK a : a = wallets[c][Len(wallets[c])] OBVIOUS
<1>2. a \in Addresses
  <2>1. wallets[c] \in Seq(Addresses) BY DEF Inv, Types
  <2>2. Len(wallets[c]) \in 1 .. Len(wallets[c]) BY <1>1, <2>1
  <2> QED BY <2>1, <2>2
<1> PICK i \in Request : i = Idle BY IdleIs
<1> PICK e : e = [i EXCEPT !.pc = "settled", !.creator = c, !.amount = amount,
                           !.address = a, !.status = kind]
    OBVIOUS
<1>3. amount \in Nat BY AmountsType
<1>4. /\ e \in Request /\ e.pc = "settled" /\ e.creator = c /\ e.amount = amount
      /\ e.address = a
      BY <1>2, <1>3 DEF Request
<1>5. Ready(e) BY <1>2, <1>3, <1>4 DEF Ready
<1>6. request' = [request EXCEPT ![r] = e] BY <1>1
<1>7. UNCHANGED <<table, anchored, wallets, settled, day>> BY DEF Ask, others
<1> QED BY <1>4, <1>5, <1>6, <1>7, Reads

LEMMA ReadSettledKeeps == ASSUME Inv, NEW r \in Requests, ReadSettled(r) PROVE Inv'
<1> PICK q \in Request : q = request[r] BY DEF Inv, Types
<1>0. q.pc = "settled" /\ Ready(q) BY DEF ReadSettled, At, Inv, AllReady
<1>1. q.creator \in Creators /\ q.amount \in Nat /\ q.address \in Addresses
      BY <1>0 DEF Ready
<1> PICK n : n = settled[q.address] OBVIOUS
<1>2. n \in Nat BY <1>1, BoundsType DEF Inv, Types
<1> PICK e : e = [q EXCEPT !.pc = "withdrawn", !.total = n] OBVIOUS
<1>3. e \in Request /\ e.pc = "withdrawn" /\ e.creator = q.creator /\ e.amount = q.amount
      BY <1>2 DEF Request
<1>4. Ready(e) BY <1>1, <1>3 DEF Ready
<1>5. request' = [request EXCEPT ![r] = e] BY DEF ReadSettled
<1>6. UNCHANGED <<table, anchored, wallets, settled, day>> BY DEF ReadSettled, others
<1> QED BY <1>3, <1>4, <1>5, <1>6, Reads

(* Nothing is written. *)
LEMMA NothingWritten == Inv /\ UNCHANGED <<table, anchored>> => \A r : Writes(r)
<1> SUFFICES ASSUME Inv, UNCHANGED <<table, anchored>> PROVE \A r : Writes(r) OBVIOUS
<1>1. anchored' \in Seq(AnchorTx) /\ Len(anchored) <= Len(anchored') BY DEF Inv, Types
<1> QED BY <1>1, NoRowWritten

LEMMA ReadWithdrawnKeeps == ASSUME Inv, NEW r \in Requests, ReadWithdrawn(r) PROVE Inv'
<1> PICK q \in Request : q = request[r] BY DEF Inv, Types
<1>0. q.pc = "withdrawn" /\ Ready(q) BY DEF ReadWithdrawn, At, Inv, AllReady
<1>1. q.creator \in Creators /\ q.amount \in Nat BY <1>0 DEF Ready
<1>2. UNCHANGED <<table, anchored, wallets, settled, day>> BY DEF ReadWithdrawn, others
<1>3. CASE Done(r) BY <1>2, <1>3, NothingWritten, Ends
<1>4. CASE ~Done(r)
  <2>1. PICK p \in {"number", "interactive"} :
          request' = [request EXCEPT ![r].total = 0, ![r].address = None, ![r].pc = p]
        BY <1>4, Zenon DEF ReadWithdrawn
  <2> PICK e : e = [q EXCEPT !.total = 0, !.address = None, !.pc = p] OBVIOUS
  <2>2. e \in Request /\ e.pc = p /\ e.creator = q.creator /\ e.amount = q.amount
        BY DEF Request
  <2>3. Ready(e) BY <1>1, <2>2 DEF Ready
  <2>4. request' = [request EXCEPT ![r] = e] BY <2>1 DEF Inv, Types
  <2> QED BY <1>2, <2>2, <2>3, <2>4, Reads
<1> QED BY <1>3, <1>4

LEMMA ReadNumberKeeps == ASSUME Inv, NEW r \in Requests, ReadNumber(r) PROVE Inv'
<1> PICK q \in Request : q = request[r] BY DEF Inv, Types
<1> PICK d, n : d = day /\ n = NextNumber OBVIOUS
<1>0. q.pc = "number" /\ Ready(q) BY DEF ReadNumber, At, Inv, AllReady
<1>1. q.creator \in Creators /\ q.amount \in Nat BY <1>0 DEF Ready
<1>2. d \in Nat BY DEF Inv, Types
<1>3. Cardinality(OfDay(d)) \in Nat BY OfDayIs, DayFinite DEF Inv, Types
<1>4. n \in 1 .. Cardinality(OfDay(d)) + 1 BY NextNumberFits
<1>5. n \in Nat BY <1>3, <1>4
<1> PICK p : p = <<d, n>> OBVIOUS
<1>p. p \in Nat \X Nat /\ p[1] = d /\ p[2] = n BY <1>2, <1>5
<1> PICK e : e = [q EXCEPT !.pc = "create", !.number = p] OBVIOUS
<1>6. /\ e \in Request /\ e.pc = "create" /\ e.creator = q.creator /\ e.amount = q.amount
      /\ e.number = p
      BY <1>p DEF Request
<1>7. Ready(e) BY <1>1, <1>p, <1>4, <1>6 DEF Ready
<1>8. request' = [request EXCEPT ![r] = e] BY DEF ReadNumber
<1>9. UNCHANGED <<table, anchored, wallets, settled, day>> BY DEF ReadNumber, others
<1> QED BY <1>6, <1>7, <1>8, <1>9, Reads

LEMMA ReadReceiptKeeps == ASSUME Inv, NEW r \in Requests, ReadReceipt(r) PROVE Inv'
<1>1. PICK i \in DOMAIN table :
        /\ table[i].status = "PROCESSING"
        /\ request' = [request EXCEPT ![r] = [Idle EXCEPT !.pc = "complete", !.at = i]]
      BY DEF ReadReceipt, Completable
<1>i. i \in 1 .. Len(table) /\ i \in Nat BY Positions
<1> PICK j \in Request : j = Idle BY IdleIs
<1> PICK e : e = [j EXCEPT !.pc = "complete", !.at = i] OBVIOUS
<1>2. e \in Request /\ e.pc = "complete" /\ e.at = i BY <1>i DEF Request
<1>3. Ready(e) BY <1>1, <1>i, <1>2 DEF Ready
<1>4. request' = [request EXCEPT ![r] = e] BY <1>1
<1>5. UNCHANGED <<table, anchored, wallets, settled, day>> BY DEF ReadReceipt, others
<1> QED BY <1>2, <1>3, <1>4, <1>5, Reads

LEMMA ReadAnchorKeeps == ASSUME Inv, NEW r \in Requests, ReadAnchor(r) PROVE Inv'
<1>1. PICK t \in DOMAIN anchored :
        request' = [request EXCEPT ![r] =
          [Idle EXCEPT !.pc = "mirror", !.at = t, !.amount = anchored[t].amountIn,
                       !.status = MapStatus(anchored[t].state)]]
      BY DEF ReadAnchor
<1>t. t \in 1 .. Len(anchored) /\ t \in Nat BY Positions
<1> PICK a, m : a = anchored[t].amountIn /\ m = MapStatus(anchored[t].state) OBVIOUS
<1>2. a \in Nat \cup {None}
  <2>1. anchored[t] \in AnchorTx BY <1>t DEF Inv, Types
  <2> QED BY <2>1 DEF AnchorTx
<1>3. m \in Known BY DEF MapStatus, Known
<1> PICK j \in Request : j = Idle BY IdleIs
<1> PICK e : e = [j EXCEPT !.pc = "mirror", !.at = t, !.amount = a, !.status = m] OBVIOUS
<1>4. e \in Request /\ e.pc = "mirror" /\ e.at = t /\ e.status = m
      BY <1>t, <1>2, <1>3 DEF Request
<1>5. Ready(e) BY <1>t, <1>3, <1>4 DEF Ready
<1>6. request' = [request EXCEPT ![r] = e] BY <1>1
<1>7. UNCHANGED <<table, anchored, wallets, settled, day>> BY DEF ReadAnchor, others
<1> QED BY <1>4, <1>5, <1>6, <1>7, Reads

LEMMA BuildPaymentKeeps == ASSUME Inv, NEW r \in Requests, BuildPayment(r) PROVE Inv'
<1>1. PICK t \in DOMAIN anchored :
        request' = [request EXCEPT ![r] = [Idle EXCEPT !.pc = "submit", !.at = t]]
      BY DEF BuildPayment
<1>t. t \in 1 .. Len(anchored) /\ t \in Nat BY Positions
<1> PICK j \in Request : j = Idle BY IdleIs
<1> PICK e : e = [j EXCEPT !.pc = "submit", !.at = t] OBVIOUS
<1>2. e \in Request /\ e.pc = "submit" /\ e.at = t BY <1>t DEF Request
<1>3. Ready(e) BY <1>t, <1>2 DEF Ready
<1>4. request' = [request EXCEPT ![r] = e] BY <1>1
<1>5. UNCHANGED <<table, anchored, wallets, settled, day>> BY DEF BuildPayment, others
<1> QED BY <1>2, <1>3, <1>4, <1>5, Reads

-----------------------------------------------------------------------------
(* Steps that write. *)

LEMMA OneMore == ASSUME NEW n \in Nat PROVE 1 .. n + 1 = 1 .. n \cup {n + 1}
OBVIOUS

(* A row is appended. *)
LEMMA RowAppended ==
  ASSUME Inv, NEW row \in Row, table' = Append(table, row), anchored' = anchored,
         row.anchor \in {None} \cup 1 .. Len(anchored), NumbersInSequence', NoGaps',
         \A d \in Nat : /\ Cardinality(OfDay(d)) \in Nat /\ Cardinality(OfDay(d)') \in Nat
                       /\ Cardinality(OfDay(d)) <= Cardinality(OfDay(d)')
  PROVE  /\ \A r : Writes(r)
         /\ Len(table) + 1 \in 1 .. Len(table') /\ table'[Len(table) + 1] = row
<1>1. table \in Seq(Row) /\ anchored \in Seq(AnchorTx) BY DEF Inv, Types
<1>2. /\ table' \in Seq(Row) /\ Len(table') = Len(table) + 1 /\ Len(table) \in Nat
      /\ table'[Len(table) + 1] = row
      /\ \A i \in 1 .. Len(table) : table'[i] = table[i]
      BY <1>1
<1>a. Len(table) \in Nat /\ Len(table') = Len(table) + 1 BY <1>2
<1>3. 1 .. Len(table') = 1 .. Len(table) \cup {Len(table) + 1} BY <1>a, OneMore
<1>4. \A i \in 1 .. Len(table') : table'[i].anchor \in {None} \cup 1 .. Len(anchored')
      BY <1>2, <1>3 DEF Inv, Types
<1>5. Len(table) <= Len(table') /\ Len(anchored) <= Len(anchored') BY <1>1, <1>2
<1>6. \A r : Writes(r) BY <1>1, <1>2, <1>4, <1>5 DEF Writes
<1> QED BY <1>2, <1>3, <1>6

(* The row a request writes. *)
LEMMA RowIs ==
  ASSUME NEW c \in Creators, NEW m \in Nat, NEW n \in (Nat \X Nat) \cup {None},
         NEW a \in Nat \cup {None}, NEW st \in {"REQUESTED", "PROCESSING"}
  PROVE  [creator |-> c, amount |-> m, number |-> n, anchor |-> a, sent |-> FALSE,
          status |-> st] \in Row
BY DEF Row

LEMMA CreateRowKeeps == ASSUME Inv, NEW r \in Requests, CreateRow(r) PROVE Inv'
<1> PICK q \in Request : q = request[r] BY DEF Inv, Types
<1>0. q.pc = "create" /\ Ready(q) BY DEF CreateRow, At, Inv, AllReady
<1>1. /\ q.creator \in Creators /\ q.amount \in Nat /\ q.number \in Nat \X Nat
      /\ q.number[2] \in 1 .. Cardinality(OfDay(q.number[1])) + 1
      BY <1>0 DEF Ready
<1>2. UNCHANGED <<anchored, wallets, settled, day>> BY DEF CreateRow, others
<1>3. CASE ~Free(q.number)
  <2>1. Done(r) /\ UNCHANGED table BY <1>3 DEF CreateRow
  <2> QED BY <1>2, <2>1, NothingWritten, Ends
<1>4. CASE Free(q.number)
  <2> PICK d \in Nat, n \in Nat : q.number = <<d, n>> /\ d = q.number[1] /\ n = q.number[2]
      BY <1>1
  <2> PICK row : row = NewRow(r, q.number, None, "REQUESTED") OBVIOUS
  <2> PICK l : l = Len(table) + 1 OBVIOUS
  <2>1. /\ table' = Append(table, row)
        /\ request' = [request EXCEPT ![r] = [Idle EXCEPT !.pc = "process", !.at = l]]
        BY <1>4 DEF CreateRow
  <2>2. /\ row \in Row /\ row.number = <<d, n>> /\ row.anchor = None
        /\ row.status = "REQUESTED"
    <3>1. row = [creator |-> q.creator, amount |-> q.amount, number |-> <<d, n>>,
                 anchor |-> None, sent |-> FALSE, status |-> "REQUESTED"]
          BY DEF NewRow
    <3>2. <<d, n>> \in Nat \X Nat OBVIOUS
    <3>3. row \in Row BY <1>1, <3>1, <3>2, RowIs
    <3>4. row.number = <<d, n>> /\ row.anchor = None /\ row.status = "REQUESTED" BY <3>1
    <3> QED BY <3>3, <3>4
  <2>3. /\ NumbersInSequence' /\ NoGaps'
        /\ \A c \in Nat : /\ Cardinality(OfDay(c)) \in Nat /\ Cardinality(OfDay(c)') \in Nat
                          /\ Cardinality(OfDay(c)) <= Cardinality(OfDay(c)')
        BY <1>1, <1>4, <2>1, <2>2, NumberAppended
  <2>4. Writes(r) /\ l \in 1 .. Len(table') /\ table'[l] = row
        BY <1>2, <2>1, <2>2, <2>3, RowAppended
  <2> PICK j \in Request : j = Idle BY IdleIs
  <2> PICK e : e = [j EXCEPT !.pc = "process", !.at = l] OBVIOUS
  <2>5. l \in Nat BY Positions
  <2>6. e \in Request /\ e.pc = "process" /\ e.at = l BY <2>5 DEF Request
  <2>7. Ready(e)' BY <2>2, <2>4, <2>6 DEF Ready
  <2>8. \A s \in Requests : s # r => ~(request[s].pc = "process" /\ request[s].at = e.at)
    <3>1. \A s \in Requests : request[s].pc = "process" => request[s].at \in 1 .. Len(table)
          BY DEF Inv, AllReady, Ready
    <3> QED BY <2>6, <3>1, Positions
  <2>9. request' = [request EXCEPT ![r] = e] BY <2>1
  <2> QED BY <1>2, <2>4, <2>6, <2>7, <2>8, <2>9, Moves
<1> QED BY <1>3, <1>4

LEMMA RecordAnchorKeeps == ASSUME Inv, NEW r \in Requests, RecordAnchor(r) PROVE Inv'
<1> PICK q \in Request : q = request[r] BY DEF Inv, Types
<1>0. q.pc = "record" /\ Ready(q) BY DEF RecordAnchor, At, Inv, AllReady
<1>1. q.creator \in Creators /\ q.amount \in Nat /\ q.at \in 1 .. Len(anchored)
      BY <1>0 DEF Ready
<1>2. UNCHANGED <<anchored, wallets, settled, day>> /\ Done(r) BY DEF RecordAnchor, others
<1> PICK row : row = NewRow(r, None, q.at, "PROCESSING") OBVIOUS
<1>3. table' = Append(table, row) BY DEF RecordAnchor
<1>4. row \in Row /\ row.number = None /\ row.anchor = q.at
  <2>1. row = [creator |-> q.creator, amount |-> q.amount, number |-> None,
               anchor |-> q.at, sent |-> FALSE, status |-> "PROCESSING"]
        BY DEF NewRow
  <2>2. q.at \in Nat BY <1>1, Positions
  <2>3. row \in Row BY <1>1, <2>1, <2>2, RowIs
  <2>4. row.number = None /\ row.anchor = q.at BY <2>1
  <2> QED BY <2>3, <2>4
<1>5. table \in Seq(Row) BY DEF Inv, Types
<1>6. table' \in Seq(Row) /\ NumbersKept
  <2>1. /\ table' \in Seq(Row) /\ Len(table') = Len(table) + 1 /\ Len(table) \in Nat
        /\ table'[Len(table) + 1] = row /\ \A i \in 1 .. Len(table) : table'[i] = table[i]
        BY <1>3, <1>4, <1>5
  <2>2. \A i \in 1 .. Len(table') : i > Len(table) => i = Len(table) + 1 BY <2>1
  <2> QED BY <1>4, <2>1, <2>2 DEF NumbersKept
<1>7. /\ NumbersInSequence' /\ NoGaps'
      /\ \A d \in Nat : /\ Cardinality(OfDay(d)) \in Nat
                        /\ Cardinality(OfDay(d)') = Cardinality(OfDay(d))
      BY <1>5, <1>6, NumbersStay DEF Inv
<1>8. \A d \in Nat : /\ Cardinality(OfDay(d)) \in Nat /\ Cardinality(OfDay(d)') \in Nat
                    /\ Cardinality(OfDay(d)) <= Cardinality(OfDay(d)')
      BY <1>7
<1>9. Writes(r) BY <1>1, <1>2, <1>3, <1>4, <1>7, <1>8, RowAppended
<1> QED BY <1>2, <1>9, Ends

(* A transaction of the anchor is started. *)
LEMMA StartAnchorKeeps == ASSUME Inv, NEW r \in Requests, StartAnchor(r) PROVE Inv'
<1> PICK q \in Request : q = request[r] BY DEF Inv, Types
<1>0. q.pc = "interactive" /\ Ready(q) BY DEF StartAnchor, At, Inv, AllReady
<1>1. q.creator \in Creators /\ q.amount \in Nat BY <1>0 DEF Ready
<1>2. UNCHANGED <<table, wallets, settled, day>> BY DEF StartAnchor, others
<1>3. CASE Done(r) /\ UNCHANGED anchored BY <1>2, <1>3, NothingWritten, Ends
<1>4. CASE ~(Done(r) /\ UNCHANGED anchored)
  <2> PICK l, t : l = Len(anchored) + 1 /\ t = [state |-> "incomplete", amountIn |-> None]
      OBVIOUS
  <2>1. /\ anchored' = Append(anchored, t)
        /\ request' = [request EXCEPT ![r].pc = "record", ![r].at = l]
        BY <1>4 DEF StartAnchor
  <2>2. t \in AnchorTx BY DEF AnchorTx
  <2>3. anchored \in Seq(AnchorTx) BY DEF Inv, Types
  <2>4. anchored' \in Seq(AnchorTx) /\ Len(anchored') = l /\ l \in Nat /\ l \in 1 .. l
        /\ Len(anchored) <= Len(anchored')
        BY <2>1, <2>2, <2>3
  <2>5. Writes(r) BY <1>2, <2>4, NoRowWritten
  <2> PICK e : e = [q EXCEPT !.pc = "record", !.at = l] OBVIOUS
  <2>6. /\ e \in Request /\ e.pc = "record" /\ e.at = l
        /\ e.creator = q.creator /\ e.amount = q.amount
        BY <2>4 DEF Request
  <2>7. Ready(e)' BY <1>1, <2>4, <2>6 DEF Ready
  <2>8. request' = [request EXCEPT ![r] = e] BY <2>1 DEF Inv, Types
  <2> QED BY <1>2, <2>5, <2>6, <2>7, <2>8, Moves
<1> QED BY <1>3, <1>4

(* Rows change, but not in what they are numbered, nor back to REQUESTED. *)
LEMMA RowsChange ==
  ASSUME Inv, NEW r, table' \in Seq(Row), Len(table') = Len(table), anchored' = anchored,
         \A i \in 1 .. Len(table) :
           /\ table'[i].anchor = table[i].anchor /\ table'[i].number = table[i].number
           /\ table[i].status # "REQUESTED" => table'[i].status # "REQUESTED"
           /\ table[i].anchor = None /\ table'[i].status # table[i].status =>
                request[r].pc \in {"process", "complete"} /\ request[r].at = i
  PROVE  Writes(r)
<1>1. table \in Seq(Row) /\ anchored \in Seq(AnchorTx) BY DEF Inv, Types
<1>2. NumbersKept BY <1>1 DEF NumbersKept
<1>3. /\ NumbersInSequence' /\ NoGaps'
      /\ \A d \in Nat : /\ Cardinality(OfDay(d)) \in Nat
                        /\ Cardinality(OfDay(d)') = Cardinality(OfDay(d))
      BY <1>1, <1>2, NumbersStay DEF Inv
<1>4. \A d \in Nat : /\ Cardinality(OfDay(d)) \in Nat /\ Cardinality(OfDay(d)') \in Nat
                    /\ Cardinality(OfDay(d)) <= Cardinality(OfDay(d)')
      BY <1>3
<1>5. \A i \in 1 .. Len(table') : table'[i].anchor \in {None} \cup 1 .. Len(anchored')
      BY DEF Inv, Types
<1>6. Len(table) <= Len(table') /\ Len(anchored) <= Len(anchored') BY <1>1
<1> QED BY <1>1, <1>3, <1>4, <1>5, <1>6 DEF Writes

(* The status of one row is written. *)
LEMMA StatusWritten ==
  ASSUME Inv, NEW r \in Requests, NEW p \in {"process", "complete"}, request[r].pc = p,
         NEW st \in {"PROCESSING", "COMPLETED"},
         table' = [table EXCEPT ![request[r].at].status = st], anchored' = anchored
  PROVE  Writes(r)
<1> PICK i : i = request[r].at OBVIOUS
<1> PICK f : f = [table[i] EXCEPT !.status = st] OBVIOUS
<1>1. table \in Seq(Row) BY DEF Inv, Types
<1>2. i \in 1 .. Len(table) BY DEF Inv, AllReady, Ready
<1>3. table[i] \in Row BY <1>1, <1>2
<1>4. /\ f \in Row /\ f.number = table[i].number /\ f.anchor = table[i].anchor
      /\ f.status = st
      BY <1>3 DEF Row
<1>5. table' = [table EXCEPT ![i] = f] OBVIOUS
<1>6. /\ table' \in Seq(Row) /\ Len(table') = Len(table) /\ table'[i] = f
      /\ \A k \in 1 .. Len(table) : k # i => table'[k] = table[k]
      BY <1>1, <1>2, <1>4, <1>5
<1>7. ASSUME NEW k \in 1 .. Len(table)
      PROVE  /\ table'[k].anchor = table[k].anchor /\ table'[k].number = table[k].number
             /\ table[k].status # "REQUESTED" => table'[k].status # "REQUESTED"
             /\ table[k].anchor = None /\ table'[k].status # table[k].status =>
                  request[r].pc \in {"process", "complete"} /\ request[r].at = k
      BY <1>4, <1>6
<1> QED BY <1>6, <1>7, RowsChange

LEMMA ProcessKeeps == ASSUME Inv, NEW r \in Requests, Process(r) \/ Complete(r) PROVE Inv'
<1>1. /\ UNCHANGED <<anchored, wallets, settled, day>> /\ Done(r)
      /\ \/ /\ request[r].pc = "process"
            /\ table' = [table EXCEPT ![request[r].at].status = "PROCESSING"]
         \/ /\ request[r].pc = "complete"
            /\ table' = [table EXCEPT ![request[r].at].status = "COMPLETED"]
      BY DEF Process, Complete, At, others
<1>2. Writes(r) BY <1>1, StatusWritten
<1> QED BY <1>1, <1>2, Ends

(* The rows of a transaction of the anchor are updated, and only they.     *)
LEMMA MirrorIs ==
  ASSUME Inv, NEW r \in Requests, Mirror(r) \/ RecordHash(r)
  PROVE  /\ table' \in Seq(Row) /\ Len(table') = Len(table)
         /\ \A i \in 1 .. Len(table) :
              /\ table'[i].anchor = table[i].anchor /\ table'[i].number = table[i].number
              /\ table[i].status # "REQUESTED" => table'[i].status # "REQUESTED"
              /\ table[i].anchor = None => table'[i] = table[i]
         /\ UNCHANGED <<anchored, wallets, settled, day>> /\ Done(r)
<1> PICK q \in Request : q = request[r] BY DEF Inv, Types
<1>t. /\ q.at \in 1 .. Len(anchored) /\ q.at # None
      /\ q.pc = "mirror" => q.status \in Known
  <2>1. q.pc \in {"mirror", "hash"} /\ Ready(q) BY DEF Mirror, RecordHash, At, Inv, AllReady
  <2>2. q.at \in 1 .. Len(anchored) BY <2>1 DEF Ready
  <2>3. q.at \in Nat BY <2>2, Positions
  <2> QED BY <2>1, <2>2, <2>3, NoneIsNothing DEF Ready
<1>s. table \in Seq(Row) BY DEF Inv, Types
<1>i. \A i \in 1 .. Len(table) : table[i] \in Row BY <1>s
<1>r. DOMAIN table = 1 .. Len(table) /\ Len(table) \in Nat BY <1>s
<1>1. PICK g : /\ table' = [i \in DOMAIN table |-> IF table[i].anchor = q.at THEN g[i] ELSE table[i]]
               /\ \A i \in 1 .. Len(table) :
                    /\ g[i] \in Row /\ g[i].anchor = table[i].anchor
                    /\ g[i].number = table[i].number
                    /\ table[i].status # "REQUESTED" => g[i].status # "REQUESTED"
  <2>1. CASE Mirror(r)
    <3>0. PICK g : g = [i \in DOMAIN table |-> [table[i] EXCEPT !.status = q.status,
                         !.amount = IF q.amount = None THEN @ ELSE q.amount]]
        OBVIOUS
    <3>1. table' = [i \in DOMAIN table |-> IF table[i].anchor = q.at THEN g[i] ELSE table[i]]
          BY <2>1, <3>0 DEF Mirror, Update
    <3>2. q.status \in Known BY <1>t, <2>1 DEF Mirror, At
    <3>3. q.amount \in Nat \cup {None} BY DEF Request
    <3>4. ASSUME NEW i \in 1 .. Len(table)
          PROVE  /\ g[i] \in Row /\ g[i].anchor = table[i].anchor
                 /\ g[i].number = table[i].number
                 /\ table[i].status # "REQUESTED" => g[i].status # "REQUESTED"
      <4>1. table[i] \in Row BY <1>i
      <4>2. PICK m \in Nat : m = IF q.amount = None THEN table[i].amount ELSE q.amount
          BY <3>3, <4>1 DEF Row
      <4>3. g[i] = [table[i] EXCEPT !.status = q.status, !.amount = m] BY <1>r, <3>0, <4>2
      <4>4. PICK row \in Row : row = table[i] BY <4>1
      <4>5. PICK st \in Known : st = q.status BY <3>2
      <4>6. PICK e : e = g[i] OBVIOUS
      <4>7. e = [row EXCEPT !.status = st, !.amount = m] BY <4>3, <4>4, <4>5, <4>6
      <4>8. st \in {"REQUESTED", "PROCESSING", "COMPLETED", "FAILED"} /\ st # "REQUESTED" BY DEF Known
      <4>9. PICK a : a = [row EXCEPT !.status = st] OBVIOUS
      <4>10. a \in Row /\ a.anchor = row.anchor /\ a.number = row.number /\ a.status = st
            BY <4>8, <4>9 DEF Row
      <4>11. e = [a EXCEPT !.amount = m] BY <4>7, <4>9
      <4>12. e \in Row /\ e.anchor = a.anchor /\ e.number = a.number /\ e.status = a.status
            BY <4>10, <4>11 DEF Row
      <4> QED BY <4>4, <4>6, <4>8, <4>10, <4>12
    <3> QED BY <3>1, <3>4
  <2>2. CASE RecordHash(r)
    <3>0. PICK g : g = [i \in DOMAIN table |-> [table[i] EXCEPT !.sent = TRUE]] OBVIOUS
    <3>1. table' = [i \in DOMAIN table |-> IF table[i].anchor = q.at THEN g[i] ELSE table[i]]
          BY <2>2, <3>0 DEF RecordHash, Update
    <3>2. ASSUME NEW i \in 1 .. Len(table)
          PROVE  /\ g[i] \in Row /\ g[i].anchor = table[i].anchor
                 /\ g[i].number = table[i].number
                 /\ table[i].status # "REQUESTED" => g[i].status # "REQUESTED"
      <4>1. table[i] \in Row BY <1>i
      <4>2. g[i] = [table[i] EXCEPT !.sent = TRUE] BY <1>r, <3>0
      <4>3. PICK e, row : e = g[i] /\ row = table[i] OBVIOUS
      <4>4. row \in Row /\ e = [row EXCEPT !.sent = TRUE] BY <4>1, <4>2, <4>3
      <4>5. /\ e \in Row /\ e.anchor = row.anchor /\ e.number = row.number
            /\ row.status # "REQUESTED" => e.status # "REQUESTED"
            BY <4>4 DEF Row
      <4> QED BY <4>3, <4>5
    <3> QED BY <3>1, <3>2
  <2> QED BY <2>1, <2>2
<1>2. \A i \in 1 .. Len(table) :
        /\ table'[i] \in Row
        /\ table'[i].anchor = table[i].anchor /\ table'[i].number = table[i].number
        /\ table[i].status # "REQUESTED" => table'[i].status # "REQUESTED"
        /\ table[i].anchor = None => table'[i] = table[i]
  <2> TAKE i \in 1 .. Len(table)
  <2>1. table[i] \in Row BY <1>i
  <2>2. CASE table[i].anchor = q.at
    <3>1. table'[i] = g[i] BY <1>1, <1>r, <2>2
    <3> QED BY <1>1, <1>t, <2>2, <3>1
  <2>3. CASE table[i].anchor # q.at
    <3>1. table'[i] = table[i] BY <1>1, <1>r, <2>3
    <3> QED BY <2>1, <3>1
  <2> QED BY <2>2, <2>3
<1>3. table' \in Seq(Row) /\ Len(table') = Len(table)
  <2>1. table' = [i \in 1 .. Len(table) |-> table'[i]] BY <1>1, <1>r
  <2> QED BY <1>2, <1>r, <2>1
<1>4. UNCHANGED <<anchored, wallets, settled, day>> /\ Done(r)
      BY DEF Mirror, RecordHash, others
<1> QED BY <1>2, <1>3, <1>4

LEMMA MirrorKeeps == ASSUME Inv, NEW r \in Requests, Mirror(r) \/ RecordHash(r) PROVE Inv'
<1>1. Writes(r) BY MirrorIs, RowsChange
<1> QED BY <1>1, MirrorIs, Ends

(* The payment to the anchor. *)
LEMMA SubmitPaymentKeeps == ASSUME Inv, NEW r \in Requests, SubmitPayment(r) PROVE Inv'
<1> PICK q \in Request : q = request[r] BY DEF Inv, Types
<1>0. q.pc = "submit" /\ Ready(q) BY DEF SubmitPayment, At, Inv, AllReady
<1>1. q.at \in 1 .. Len(anchored) BY <1>0 DEF Ready
<1>2. UNCHANGED <<table, wallets, settled, day>> BY DEF SubmitPayment, others
<1>3. CASE Done(r) /\ UNCHANGED anchored BY <1>2, <1>3, NothingWritten, Ends
<1>4. CASE ~(Done(r) /\ UNCHANGED anchored)
  <2> PICK st : st = IF anchored[q.at].state = "pending" THEN "paid" ELSE anchored[q.at].state
      OBVIOUS
  <2> PICK f : f = [anchored[q.at] EXCEPT !.state = st] OBVIOUS
  <2>1. anchored' = [anchored EXCEPT ![q.at].state = st] /\ Goto(r, "hash")
        BY <1>4 DEF SubmitPayment
  <2>2. anchored \in Seq(AnchorTx) BY DEF Inv, Types
  <2>3. anchored[q.at] \in AnchorTx BY <1>1, <2>2
  <2>4. f \in AnchorTx BY <2>3 DEF AnchorTx
  <2>5. anchored' = [anchored EXCEPT ![q.at] = f] BY <2>1
  <2>6. anchored' \in Seq(AnchorTx) /\ Len(anchored') = Len(anchored) /\ Len(anchored) \in Nat
        BY <1>1, <2>2, <2>4, <2>5
  <2>7. Writes(r) BY <1>2, <2>6, NoRowWritten
  <2> PICK e : e = [q EXCEPT !.pc = "hash"] OBVIOUS
  <2>8. e \in Request /\ e.pc = "hash" /\ e.at = q.at BY DEF Request
  <2>9. Ready(e)' BY <1>1, <2>6, <2>8 DEF Ready
  <2>10. request' = [request EXCEPT ![r] = e] BY <2>1 DEF Goto
  <2> QED BY <1>2, <2>7, <2>8, <2>9, <2>10, Moves
<1> QED BY <1>3, <1>4

-----------------------------------------------------------------------------
(* Around it. *)

(* What a request needs is the tables, of which the anchor changes states. *)
LEMMA Elsewhere ==
  ASSUME Inv, UNCHANGED <<table, request>>, Types', Len(anchored') = Len(anchored)
  PROVE  Inv'
<1>1. NumbersInSequence' /\ NoGaps' BY DEF Inv, NumbersInSequence, NoGaps, OfDay
<1>2. AllReady' BY DEF Inv, AllReady, Ready, OfDay
<1>3. Creating' BY DEF Inv, Creating
<1> QED BY <1>1, <1>2, <1>3 DEF Inv

LEMMA ConnectKeeps == ASSUME Inv, NEW a \in Addresses, Connect(a) PROVE Inv'
<1> PICK c \in Creators : c = OwnerOf[a] BY OwnerOfType
<1>1. wallets' = [wallets EXCEPT ![c] = Append(wallets[c], a)] BY DEF Connect
<1>2. UNCHANGED <<settled, table, anchored, request, day>> BY DEF Connect
<1>3. wallets \in [Creators -> Seq(Addresses)] BY DEF Inv, Types
<1>4. wallets' \in [Creators -> Seq(Addresses)] BY <1>1, <1>3
<1>5. \A d \in Creators : \A i \in 1 .. Len(wallets'[d]) : OwnerOf[wallets'[d][i]] = d
  <2> TAKE d \in Creators
  <2> TAKE i \in 1 .. Len(wallets'[d])
  <2>1. CASE d # c
    <3>1. wallets'[d] = wallets[d] BY <2>1, <1>1, <1>3
    <3> QED BY <3>1 DEF Inv, Types
  <2>2. CASE d = c
    <3>1. wallets'[d] = Append(wallets[d], a) /\ wallets[d] \in Seq(Addresses)
          BY <2>2, <1>1, <1>3
    <3>2. i \in 1 .. Len(wallets[d]) \/ i = Len(wallets[d]) + 1 BY <3>1
    <3>3. CASE i \in 1 .. Len(wallets[d])
      <4>1. wallets'[d][i] = wallets[d][i] BY <3>1, <3>3
      <4> QED BY <3>3, <4>1 DEF Inv, Types
    <3>4. CASE i = Len(wallets[d]) + 1
      <4>1. wallets'[d][i] = a BY <3>1, <3>4
      <4> QED BY <2>2, <4>1
    <3> QED BY <3>2, <3>3, <3>4
  <2> QED BY <2>1, <2>2
<1>6. Types' BY <1>2, <1>4, <1>5 DEF Inv, Types
<1> QED BY <1>2, <1>6, Elsewhere

LEMMA SettlePartKeeps ==
  ASSUME Inv, (\E a \in Addresses : SettlePart(a)) \/ NewDay PROVE Inv'
<1>1. UNCHANGED <<wallets, table, anchored, request>> BY DEF SettlePart, NewDay
<1>2. settled' \in [Addresses -> 0 .. MaxSettled] /\ day' \in 1 .. MaxDay
  <2>1. ASSUME NEW a \in Addresses, SettlePart(a)
        PROVE  settled' \in [Addresses -> 0 .. MaxSettled] /\ day' \in 1 .. MaxDay
    <3>1. PICK m \in Amounts : settled[a] + m <= MaxSettled
                               /\ settled' = [settled EXCEPT ![a] = @ + m]
          BY <2>1 DEF SettlePart
    <3>2. settled \in [Addresses -> 0 .. MaxSettled] /\ m \in Nat /\ MaxSettled \in Nat
          BY AmountsType, BoundsType DEF Inv, Types
    <3>3. settled[a] + m \in 0 .. MaxSettled BY <3>1, <3>2
    <3>4. day' = day BY <2>1 DEF SettlePart
    <3> QED BY <3>1, <3>2, <3>3, <3>4 DEF Inv, Types
  <2>2. CASE NewDay BY <2>2, BoundsType DEF NewDay, Inv, Types
  <2> QED BY <2>1, <2>2
<1>3. Types' BY <1>1, <1>2 DEF Inv, Types
<1>4. Len(anchored') = Len(anchored) BY <1>1
<1> QED BY <1>1, <1>3, <1>4, Elsewhere

LEMMA AnchorKeeps ==
  ASSUME Inv, NEW t \in DOMAIN anchored, AnchorAsks(t) \/ AnchorEnds(t) PROVE Inv'
<1>1. UNCHANGED <<wallets, settled, table, request, day>> BY DEF AnchorAsks, AnchorEnds
<1>2. anchored \in Seq(AnchorTx) /\ t \in 1 .. Len(anchored) /\ anchored[t] \in AnchorTx
      BY DEF Inv, Types
<1>3. PICK f \in AnchorTx : anchored' = [anchored EXCEPT ![t] = f]
  <2>1. CASE AnchorAsks(t)
    <3>1. PICK m \in Amounts :
            anchored' = [anchored EXCEPT ![t] = [state |-> "pending", amountIn |-> m]]
          BY <2>1 DEF AnchorAsks
    <3>2. m \in Nat BY AmountsType
    <3> PICK f : f = [state |-> "pending", amountIn |-> m] OBVIOUS
    <3>3. f \in AnchorTx BY <3>2 DEF AnchorTx
    <3> QED BY <3>1, <3>3
  <2>2. CASE AnchorEnds(t)
    <3>1. PICK st \in {"completed", "failed"} : anchored' = [anchored EXCEPT ![t].state = st]
          BY <2>2 DEF AnchorEnds
    <3> PICK f : f = [anchored[t] EXCEPT !.state = st] OBVIOUS
    <3>2. f \in AnchorTx BY <1>2 DEF AnchorTx
    <3>3. anchored' = [anchored EXCEPT ![t] = f] BY <3>1
    <3> QED BY <3>2, <3>3
  <2> QED BY <2>1, <2>2
<1>4. anchored' \in Seq(AnchorTx) /\ Len(anchored') = Len(anchored) BY <1>2, <1>3
<1>5. Types' BY <1>1, <1>4 DEF Inv, Types
<1> QED BY <1>1, <1>4, <1>5, Elsewhere

LEMMA CrashKeeps == ASSUME Inv, Crash PROVE Inv'
<1>1. \A r \in Requests : request'[r] = Idle BY DEF Crash
<1>2. request' \in [Requests -> Request] BY IdleIs DEF Crash
<1>3. UNCHANGED <<wallets, settled, table, anchored, day>> BY DEF Crash
<1>4. Types' BY <1>2, <1>3 DEF Inv, Types
<1>5. NumbersInSequence' /\ NoGaps' BY <1>3 DEF Inv, NumbersInSequence, NoGaps, OfDay
<1>6. AllReady' /\ Creating' BY <1>1, IdleIs DEF AllReady, Creating, Ready
<1> QED BY <1>4, <1>5, <1>6 DEF Inv

-----------------------------------------------------------------------------
(* Results. *)

LEMMA Initially == Init => Inv
<1> SUFFICES ASSUME Init PROVE Inv OBVIOUS
<1> USE IdleIs, BoundsType, OwnerOfType DEF Init
<1>1. Types BY DEF Types
<1>2. \A d : OfDay(d) = {} BY DEF OfDay
<1>3. NumbersInSequence BY DEF NumbersInSequence
<1>a. NoGaps
  <2>1. \A d \in Nat : Cardinality(OfDay(d)) = 0 BY <1>2, FS_EmptySet
  <2>2. \A d \in Nat : 1 .. Cardinality(OfDay(d)) = {} BY <2>1
  <2> QED BY <2>2 DEF NoGaps
<1>4. AllReady /\ Creating BY DEF AllReady, Creating, Ready
<1> QED BY <1>1, <1>3, <1>a, <1>4 DEF Inv

LEMMA Stutters == Inv /\ UNCHANGED withdrawalVars => Inv'
<1> SUFFICES ASSUME Inv, UNCHANGED withdrawalVars PROVE Inv' OBVIOUS
<1>1. UNCHANGED <<wallets, settled, table, anchored, request, day>> BY DEF withdrawalVars
<1>2. Types' BY <1>1 DEF Inv, Types
<1>3. Len(anchored') = Len(anchored) BY <1>1
<1> QED BY <1>1, <1>2, <1>3, Elsewhere

(* Whatever happens next, the invariant survives it. *)
LEMMA NextKeeps == Inv /\ [Next]_withdrawalVars => Inv'
<1> SUFFICES ASSUME Inv, [Next]_withdrawalVars PROVE Inv' OBVIOUS
<1>1. ASSUME NEW r \in Requests, Serve(r) PROVE Inv'
      BY <1>1, AskKeeps, ReadSettledKeeps, ReadWithdrawnKeeps, ReadNumberKeeps, CreateRowKeeps,
         ProcessKeeps, ReadReceiptKeeps, StartAnchorKeeps, RecordAnchorKeeps, ReadAnchorKeeps,
         MirrorKeeps, BuildPaymentKeeps, SubmitPaymentKeeps
      DEF Serve, Simulated, Anchored
<1>2. ASSUME NEW a \in Addresses, Connect(a) \/ SettlePart(a) PROVE Inv'
      BY <1>2, ConnectKeeps, SettlePartKeeps
<1>3. ASSUME NEW t \in DOMAIN anchored, AnchorAsks(t) \/ AnchorEnds(t) PROVE Inv'
      BY <1>3, AnchorKeeps
<1>4. CASE NewDay BY <1>4, SettlePartKeeps
<1>5. CASE Crash BY <1>5, CrashKeeps
<1>6. CASE UNCHANGED withdrawalVars BY <1>6, Stutters
<1> QED BY <1>1, <1>2, <1>3, <1>4, <1>5, <1>6 DEF Next

(* The invariant holds in every reachable state. *)
THEOREM WithdrawalsInvariant == Spec => []Inv
BY Initially, NextKeeps, PTL DEF Spec

(* References of a day have no duplicate and no gap, however many requests *)
(* race for a number and whenever they are interrupted.                    *)
THEOREM ReferencesInSequence == Spec => []NumbersInSequence
<1>1. Inv => NumbersInSequence BY DEF Inv
<1> QED BY <1>1, WithdrawalsInvariant, PTL

(* Every variable keeps its type. *)
THEOREM WithdrawalsTyped == Spec => []TypeOK
<1>1. Inv => TypeOK
  <2> SUFFICES ASSUME Inv PROVE TypeOK OBVIOUS
  <2>1. \A c \in Creators : DOMAIN wallets[c] = 1 .. Len(wallets[c]) BY DEF Inv, Types
  <2>2. \A c \in Creators : \A i \in DOMAIN wallets[c] : OwnerOf[wallets[c][i]] = c
        BY <2>1 DEF Inv, Types
  <2>3. \A i \in DOMAIN table : table[i].anchor \in {None} \cup DOMAIN anchored
        BY Positions DEF Inv, Types
  <2> QED BY <2>2, <2>3 DEF Inv, Types, TypeOK
<1> QED BY <1>1, WithdrawalsInvariant, PTL

(* No step takes back a completed simulated withdrawal, or changes its     *)
(* amount.                                                                 *)
Stays(i) == table'[i].status = "COMPLETED" /\ table'[i].amount = table[i].amount

LEMMA CompletionStays ==
  ASSUME Inv, [Next]_withdrawalVars, NEW i \in DOMAIN table,
         table[i].anchor = None, table[i].status = "COMPLETED"
  PROVE  Stays(i)
<1>t. table \in Seq(Row) /\ i \in 1 .. Len(table) /\ table[i] \in Row BY DEF Inv, Types
<1>1. CASE UNCHANGED table BY <1>1 DEF Stays
<1>2. ASSUME NEW r \in Requests, CreateRow(r) \/ RecordAnchor(r) PROVE Stays(i)
  <2>1. CASE UNCHANGED table BY <2>1, <1>1
  <2>2. CASE ~UNCHANGED table
    <3>1. PICK row : table' = Append(table, row) BY <1>2, <2>2 DEF CreateRow, RecordAnchor
    <3>2. table'[i] = table[i] BY <1>t, <3>1
    <3> QED BY <3>2 DEF Stays
  <2> QED BY <2>1, <2>2
<1>3. ASSUME NEW r \in Requests, Process(r) PROVE Stays(i)
  <2>1. /\ request[r].pc = "process"
        /\ table' = [table EXCEPT ![request[r].at].status = "PROCESSING"]
        BY <1>3 DEF Process, At
  <2>2. request[r].at # i BY <2>1 DEF Inv, AllReady, Ready
  <2>3. table'[i] = table[i] BY <1>t, <2>1, <2>2
  <2> QED BY <2>3 DEF Stays
<1>4. ASSUME NEW r \in Requests, Complete(r) PROVE Stays(i)
  <2> PICK k : k = request[r].at OBVIOUS
  <2>1. table' = [table EXCEPT ![k].status = "COMPLETED"] BY <1>4 DEF Complete
  <2>2. CASE k # i
    <3>1. table'[i] = table[i] BY <1>t, <2>1, <2>2
    <3> QED BY <3>1 DEF Stays
  <2>3. CASE k = i
    <3>1. PICK row \in Row : row = table[i] BY <1>t
    <3>2. table'[i] = [row EXCEPT !.status = "COMPLETED"] BY <1>t, <2>1, <2>3, <3>1
    <3>3. /\ [row EXCEPT !.status = "COMPLETED"].status = "COMPLETED"
          /\ [row EXCEPT !.status = "COMPLETED"].amount = row.amount
          BY DEF Row
    <3>4. table'[i].status = "COMPLETED" BY ONLY <3>2, <3>3
    <3>5. table'[i].amount = table[i].amount BY ONLY <3>1, <3>2, <3>3
    <3> QED BY ONLY <3>4, <3>5 DEF Stays
  <2> QED BY <2>2, <2>3
<1>5. ASSUME NEW r \in Requests, Mirror(r) \/ RecordHash(r) PROVE Stays(i)
  <2>1. table'[i] = table[i] BY <1>5, <1>t, MirrorIs
  <2> QED BY <2>1 DEF Stays
<1>6. ASSUME NEW r \in Requests, Serve(r) PROVE Stays(i)
  <2>1. CASE ReadNumber(r) \/ ReadReceipt(r) \/ StartAnchor(r) \/ ReadAnchor(r)
             \/ BuildPayment(r) \/ SubmitPayment(r) \/ Ask(r) \/ ReadSettled(r)
             \/ ReadWithdrawn(r)
    <3>1. UNCHANGED table
        BY ONLY <2>1 DEF ReadNumber, ReadReceipt, StartAnchor, ReadAnchor, BuildPayment,
                         SubmitPayment, Ask, ReadSettled, ReadWithdrawn
    <3> QED BY <3>1, <1>1
  <2> QED BY <2>1, <1>2, <1>3, <1>4, <1>5, <1>6 DEF Serve, Simulated, Anchored
<1>7. CASE ~\E r \in Requests : Serve(r)
      BY <1>7, <1>1 DEF Next, Connect, SettlePart, AnchorAsks, AnchorEnds, NewDay, Crash,
                       withdrawalVars
<1> QED BY <1>6, <1>7

THEOREM CompletedStays == Spec => CompletedForGood
<1>1. Inv /\ [Next]_withdrawalVars =>
        [\A i \in DOMAIN table :
           table[i].anchor = None /\ table[i].status = "COMPLETED"
           => table'[i].status = "COMPLETED" /\ table'[i].amount = table[i].amount]_table
      BY CompletionStays DEF Stays
<1> QED BY <1>1, WithdrawalsInvariant, PTL DEF Spec, CompletedForGood
=============================================================================
