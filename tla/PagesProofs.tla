----------------------------- MODULE PagesProofs -----------------------------
(***************************************************************************)
(* What holds of a tab, for any number of calls in flight, orders,         *)
(* withdrawals, products, polls and visits.                                *)
(*                                                                         *)
(* A page knows what it does by the phase it is in and by the calls it has *)
(* in flight.  The invariants say which calls go with which phase: so an   *)
(* answer is known to be about what the page shows.                        *)
(***************************************************************************)
EXTENDS Pages, FormProofs

-----------------------------------------------------------------------------
(* The checkout. *)

CheckoutCall ==
  [kind : {"checkout", "pay", "poll"}, id : Nat,
   from : {"idle", "paying", "pending", "paid", "failed"}, here : BOOLEAN,
   pc : {"sent", "answered", "error"}, seen : {None, "Pending", "Paid", "Failed"}]

CheckoutTypes ==
  /\ orders \in Seq(OrderStatus)
  /\ page \in Page
  /\ saved \in Nat
  /\ strayed \in BOOLEAN
  /\ visits \in 0 .. MaxVisits
  /\ calls \in [Slots -> CheckoutCall \cup {None}]

(* Orders that are named exist. *)
NamesOrders(s) ==
  IsCall(s, "pay") \/ IsCall(s, "poll") \/ At(s, "checkout", "answered")
OrdersExist ==
  /\ {page.order, saved} \subseteq 0 .. Len(orders)
  /\ page.buy = "paying" => page.order # 0 /\ ~page.ticking
  /\ page.buy = "pending" \/ page.ticking => page.order # 0
  /\ \A s \in Slots :
       /\ NamesOrders(s) => calls[s].id \in 1 .. Len(orders)
       /\ Here(s, "pay") => page.order # 0

(* The buttons are disabled while their calls are in flight. *)
OneAtATime ==
  \A kind \in {"checkout", "pay"} : \A s, t \in Slots :
    Here(s, kind) /\ Here(t, kind) => s = t

(* An order that was just created is not known to the page. *)
NewOrder ==
  \A s \in Slots :
    Here(s, "checkout") /\ calls[s].pc = "answered" =>
      /\ calls[s].id # page.order
      /\ \A t \in Slots : Here(t, "poll") => calls[t].id # calls[s].id

(* What the page has heard of an order is so: a payment that was answered  *)
(* was made, and a poll is still right when its answer is handled, because *)
(* an order whose settlement is under way or failed stays so.              *)
Going == {"PAYMENT_PENDING", "WAITING_WALLET"} \cup Reached
Agrees(seen, status) ==
  /\ seen \in {"Pending", "Paid", "Failed"}
  /\ seen = "Paid" => status \in Reached
  /\ seen = "Failed" => status = "SETTLEMENT_FAILED"
HeardIsTrue ==
  /\ CardIsTrue
  /\ \A o \in 1 .. Len(orders) : orders[o] \in Going
  /\ \A s \in Slots : At(s, "pay", "answered") => IsPaid(calls[s].id)
  /\ \A s \in Slots : At(s, "poll", "answered") => Agrees(calls[s].seen, orders[calls[s].id])

(* As long as no answer strayed, the calls in flight are about the order   *)
(* of the page and belong to the step it is in.                            *)
OnTrack ==
  ~strayed =>
    /\ saved # 0 => page.buy = "pending" /\ page.order = saved
    /\ page.buy \in {"paid", "failed"} => page.order # 0
    /\ \A s \in Slots :
         /\ Here(s, "checkout") => page.buy \notin {"paying", "pending"}
         /\ Here(s, "pay") => page.buy = "paying" /\ calls[s].id = page.order
         /\ Here(s, "poll") /\ calls[s].id = page.order => page.buy # "paying"

CheckoutInv ==
  CheckoutTypes /\ OrdersExist /\ OneAtATime /\ NewOrder /\ HeardIsTrue /\ OnTrack

-----------------------------------------------------------------------------
(* The dialog of an anchor withdrawal. *)

CashOutCall ==
  [kind : {"start", "build", "submit", "anchor"}, id : Nat, from : Phases \X Nat,
   here : BOOLEAN, pc : {"sent", "answered", "error"}, seen : AnchorState \cup Nat \cup {None}]

CashOutTypes ==
  /\ flow \in Flow
  /\ anchorTx \in Seq([state : AnchorState, received : Nat])
  /\ number \in Nat
  /\ muddled \in BOOLEAN
  /\ calls \in [Slots -> CashOutCall \cup {None}]

Sends(s) == IsCall(s, "build") \/ IsCall(s, "submit")

(* Transactions that are named exist. *)
NamesAnchorTx(s) ==
  Sends(s) \/ IsCall(s, "anchor") \/ At(s, "start", "answered")
AnchorTxExist ==
  /\ flow.tx \in 0 .. Len(anchorTx)
  /\ flow.phase \in {"form", "authorizing"} <=> flow.tx = 0
  /\ flow.ticking => flow.tx # 0
  /\ \A s \in Slots :
       /\ NamesAnchorTx(s) => calls[s].id \in 1 .. Len(anchorTx)
       /\ calls[s] # None /\ calls[s].kind # "start" /\ calls[s].here
          => flow.tx = calls[s].id

(* A transaction is started in one phase, by one call, and is new. *)
Starting ==
  \A s \in Slots :
    Here(s, "start") =>
      /\ flow.phase = "authorizing"
      /\ \A t \in Slots : Here(t, "start") => s = t
      /\ \A t \in Slots : Sends(t) /\ calls[s].pc = "answered" => calls[t].id # calls[s].id
      /\ calls[s].pc = "answered" => anchorTx[calls[s].id].received = 0

(* As long as nothing is muddled: who sends funds has not sent them, and   *)
(* the button is there only when nobody does.                              *)
Before == {"interactive", "awaiting_transfer"}
SendingOnce ==
  ~muddled =>
    /\ \A t \in 1 .. Len(anchorTx) : anchorTx[t].received \in {0, 1}
    /\ flow.phase \in Before => anchorTx[flow.tx].received = 0
    /\ \A s \in Slots :
         Sends(s) =>
           /\ \A t \in Slots : Sends(t) /\ calls[t].id = calls[s].id => s = t
           /\ calls[s].id = flow.tx => flow.phase \in {"sending", "done", "failed"}
           /\ ~At(s, "submit", "answered") => anchorTx[calls[s].id].received = 0

(* What is called complete is completed, and was paid for. *)
IsCompleted(t) == anchorTx[t].state = "completed"
Outcome ==
  /\ flow.phase = "done" => flow.tx # 0 /\ IsCompleted(flow.tx)
  /\ \A s \in Slots :
       At(s, "anchor", "answered") /\ calls[s].seen = "completed" => IsCompleted(calls[s].id)
  /\ \A t \in 1 .. Len(anchorTx) :
       anchorTx[t].state \in {"paid", "completed"} => anchorTx[t].received # 0

CashOutInv == CashOutTypes /\ AnchorTxExist /\ Starting /\ SendingOnce /\ Outcome

-----------------------------------------------------------------------------
(* The dialog of a simulated withdrawal. *)

FormCall ==
  [kind : {"create", "receipt"}, id : Nat, from : Nat,
   here : BOOLEAN, pc : {"sent", "answered", "error"},
   seen : {"PROCESSING", "COMPLETED", None}]

FormTypes ==
  /\ form \in Form
  /\ rows \in Seq(Row)
  /\ opening \in 1 .. MaxOpenings
  /\ unheard \subseteq 1 .. MaxOpenings
  /\ calls \in [Slots -> FormCall \cup {None}]

(* The receipt is read. *)
Watching == form.ticking \/ \E s \in Slots : Here(s, "receipt")

ReceiptsExist ==
  /\ form.receipt \in 0 .. Len(rows)
  /\ Watching => form.receipt # 0
  /\ \A s \in Slots :
       IsCall(s, "receipt") \/ At(s, "create", "answered") => calls[s].id \in 1 .. Len(rows)

(* A call that makes a withdrawal is that of its opening; the receipt is   *)
(* read when it is over.                                                   *)
Creating ==
  /\ \A i \in 1 .. Len(rows) : rows[i].by \in 1 .. opening
  /\ Watching =>
       /\ form.phase # "form"
       /\ \A s \in Slots : IsCall(s, "create") => calls[s].from # opening
  /\ \A s \in Slots :
       IsCall(s, "create") =>
         /\ calls[s].from \in 1 .. opening
         /\ calls[s].here <=> calls[s].from = opening
         /\ calls[s].from = opening => form.phase = "processing"
         /\ \A t \in Slots : IsCall(t, "create") /\ calls[t].from = calls[s].from => s = t

(* Who is told an error, or nothing, has made no withdrawal; or is on      *)
(* record.                                                                 *)
Unmade(n) == \A i \in 1 .. Len(rows) : rows[i].by # n
MakingOnce ==
  /\ FormOnce
  /\ form.phase = "form" => Unmade(opening) \/ opening \in unheard
  /\ \A s \in Slots :
       IsCall(s, "create") /\ calls[s].pc # "answered" =>
         Unmade(calls[s].from) \/ calls[s].from \in unheard

(* What is called complete is completed. *)
Completed(i) == rows[i].status = "COMPLETED"
Told ==
  /\ form.phase = "done" => form.receipt # 0 /\ Completed(form.receipt)
  /\ \A s \in Slots :
       /\ Here(s, "receipt") => calls[s].id = form.receipt
       /\ At(s, "receipt", "answered") /\ calls[s].seen = "COMPLETED" => Completed(calls[s].id)

FormInv == FormTypes /\ ReceiptsExist /\ Creating /\ MakingOnce /\ Told

-----------------------------------------------------------------------------
(* The tab. *)

Inv ==
  /\ shown \in {"checkout", "anchor", "simulated", "products", "site"}
  /\ IF shown = "checkout" THEN CheckoutInv
     ELSE orders = <<>> /\ saved = 0 /\ page = Mounted /\ strayed = FALSE /\ visits = 0
  /\ IF shown = "anchor" THEN CashOutInv
     ELSE flow = Opened /\ anchorTx = <<>> /\ number = 0 /\ muddled = FALSE
  /\ IF shown = "simulated" THEN FormInv
     ELSE form = Blank /\ rows = <<>> /\ opening = 1 /\ unheard = {}
  /\ IF shown = "products" THEN ProductsInv
     ELSE /\ shelf = <<>> /\ desk = Cleared /\ draft = NewDraft /\ sheets = 0
          /\ crossed = {} /\ untold = {}
  /\ IF shown = "site" THEN SiteInv
     ELSE editor = Unloaded /\ site = 0 /\ typed = 0 /\ mounts = 0 /\ bypassed = FALSE

-----------------------------------------------------------------------------
(* The checkout keeps its invariant. *)

LEMMA CheckoutBuy ==
  ASSUME CheckoutInv, Buy
  PROVE  CheckoutInv'
<1>. USE DEF CheckoutInv
<1>1. Call("checkout", 0, page.buy) \in CheckoutCall
  BY DEF Call, CheckoutCall, CheckoutTypes, Page, Buy
<1>2. /\ calls' \in [Slots -> CheckoutCall \cup {None}]
      /\ \E s \in Slots : calls[s] = None /\ Becomes(s, Call("checkout", 0, page.buy))
  BY <1>1, AskedCall DEF CheckoutTypes, Buy
<1>3. PICK s \in Slots : calls[s] = None /\ Becomes(s, Call("checkout", 0, page.buy))
  BY <1>2
<1>. USE <1>3 DEF Becomes, Call, Here, IsCall, At
<1>4. CheckoutTypes'
  BY <1>2 DEF CheckoutTypes, Buy
<1>5. OrdersExist'
  BY DEF OrdersExist, NamesOrders, Buy
<1>6. OneAtATime'
  BY DEF OneAtATime, Buy, InFlight
<1>7. NewOrder'
  BY DEF NewOrder, Buy
<1>8. HeardIsTrue'
  BY DEF HeardIsTrue, CardIsTrue, IsPaid, Buy
<1>9. OnTrack'
  BY DEF OnTrack, Buy
<1>. QED BY <1>4, <1>5, <1>6, <1>7, <1>8, <1>9

LEMMA CheckoutPay ==
  ASSUME CheckoutInv, Pay
  PROVE  CheckoutInv'
<1>. USE DEF CheckoutInv
<1>1. Call("pay", page.order, page.buy) \in CheckoutCall
  BY DEF Call, CheckoutCall, CheckoutTypes, Page, Pay
<1>2. /\ calls' \in [Slots -> CheckoutCall \cup {None}]
      /\ \E s \in Slots : calls[s] = None /\ Becomes(s, Call("pay", page.order, page.buy))
  BY <1>1, AskedCall DEF CheckoutTypes, Pay
<1>3. PICK s \in Slots : calls[s] = None /\ Becomes(s, Call("pay", page.order, page.buy))
  BY <1>2
<1>. USE <1>3 DEF Becomes, Call, Here, IsCall, At
<1>4. CheckoutTypes'
  BY <1>2 DEF CheckoutTypes, Pay
<1>5. OrdersExist'
  BY DEF OrdersExist, NamesOrders, Pay
<1>6. OneAtATime'
  BY DEF OneAtATime, Pay, InFlight
<1>7. NewOrder'
  BY DEF NewOrder, Pay
<1>8. HeardIsTrue'
  BY DEF HeardIsTrue, CardIsTrue, IsPaid, Pay
<1>9. OnTrack'
  BY DEF OnTrack, Pay
<1>. QED BY <1>4, <1>5, <1>6, <1>7, <1>8, <1>9

LEMMA CheckoutPoll ==
  ASSUME CheckoutInv, Poll
  PROVE  CheckoutInv'
<1>. USE DEF CheckoutInv
<1>1. Call("poll", page.order, page.buy) \in CheckoutCall
  BY DEF Call, CheckoutCall, CheckoutTypes, Page, Poll
<1>2. /\ calls' \in [Slots -> CheckoutCall \cup {None}]
      /\ \E s \in Slots : calls[s] = None /\ Becomes(s, Call("poll", page.order, page.buy))
  BY <1>1, AskedCall DEF CheckoutTypes, Poll
<1>3. PICK s \in Slots : calls[s] = None /\ Becomes(s, Call("poll", page.order, page.buy))
  BY <1>2
<1>. USE <1>3 DEF Becomes, Call, Here, IsCall, At
<1>p. /\ page' \in Page
      /\ page'.buy = page.buy /\ page'.order = page.order /\ page'.ticking = page.ticking
  <2>. DEFINE n == IF page.polls < MaxPolls THEN page.polls + 1 ELSE page.polls
  <2>1. n \in 0 .. MaxPolls
    <3>1. page.polls \in 0 .. MaxPolls
      BY DEF CheckoutTypes, Page
    <3>. QED BY <3>1, CheckoutBounds
  <2>2. page' = [page EXCEPT !.polls = n]
    BY DEF Poll
  <2>. HIDE DEF n
  <2>. QED BY <2>1, <2>2 DEF CheckoutTypes, Page
<1>4. CheckoutTypes'
  BY <1>2, <1>p DEF CheckoutTypes, Poll
<1>5. OrdersExist'
  BY <1>p DEF OrdersExist, NamesOrders, Poll, CheckoutTypes
<1>6. OneAtATime'
  BY DEF OneAtATime, Poll, InFlight
<1>7. NewOrder'
  BY <1>p DEF NewOrder, Poll
<1>8. HeardIsTrue'
  BY <1>p DEF HeardIsTrue, CardIsTrue, IsPaid, Poll
<1>9. OnTrack'
  BY <1>p DEF OnTrack, OrdersExist, Poll
<1>. QED BY <1>4, <1>5, <1>6, <1>7, <1>8, <1>9

LEMMA CheckoutTryAgain ==
  ASSUME CheckoutInv, TryAgain
  PROVE  CheckoutInv'
<1>. USE DEF CheckoutInv
<1>p. /\ page' \in Page
      /\ page'.buy = "idle" /\ page'.order = page.order /\ page'.ticking = page.ticking
  BY DEF CheckoutTypes, Page, TryAgain
<1>. USE <1>p DEF TryAgain, Here, IsCall, At
<1>4. CheckoutTypes'
  BY DEF CheckoutTypes
<1>5. OrdersExist'
  BY DEF OrdersExist, NamesOrders, CheckoutTypes
<1>6. OneAtATime'
  BY DEF OneAtATime
<1>7. NewOrder'
  BY DEF NewOrder
<1>8. HeardIsTrue'
  BY DEF HeardIsTrue, CardIsTrue, IsPaid
<1>9. OnTrack'
  BY DEF OnTrack
<1>. QED BY <1>4, <1>5, <1>6, <1>7, <1>8, <1>9

LEMMA CheckoutReturn ==
  ASSUME CheckoutInv, Return
  PROVE  CheckoutInv'
<1>. USE DEF CheckoutInv
<1>p. /\ page' = Mounted
      /\ page' \in Page
      /\ page'.order = saved
      /\ page'.buy = IF saved = 0 THEN "idle" ELSE "pending"
      /\ page'.ticking = (saved # 0)
  BY CheckoutBounds DEF CheckoutTypes, Page, Return, Mounted
<1>2. /\ calls' \in [Slots -> CheckoutCall \cup {None}]
      /\ \A s \in Slots :
           /\ ~Here(s, "checkout")' /\ ~Here(s, "pay")' /\ ~Here(s, "poll")'
           /\ \/ calls'[s] = None
              \/ /\ calls[s] # None
                 /\ calls'[s].kind = calls[s].kind /\ calls'[s].id = calls[s].id
                 /\ calls'[s].pc = calls[s].pc /\ calls'[s].seen = calls[s].seen
  <2>1. CASE calls' = Orphaned
    BY <2>1 DEF Orphaned, CheckoutTypes, CheckoutCall, Here, IsCall
  <2>2. CASE calls' = Forgotten
    BY <2>2 DEF Forgotten, CheckoutTypes, Here, IsCall
  <2>. QED BY <2>1, <2>2 DEF Return
<1>. USE <1>p, <1>2 DEF Return, IsCall, At
<1>4. CheckoutTypes'
  BY CheckoutBounds DEF CheckoutTypes
<1>5. OrdersExist'
  BY DEF OrdersExist, NamesOrders, CheckoutTypes
<1>6. OneAtATime'
  BY DEF OneAtATime
<1>7. NewOrder'
  BY DEF NewOrder
<1>8. HeardIsTrue'
  BY DEF HeardIsTrue, CardIsTrue, IsPaid
<1>9. OnTrack'
  BY DEF OnTrack
<1>. QED BY <1>4, <1>5, <1>6, <1>7, <1>8, <1>9

(* An order, once paid, is never unpaid again, one that settles goes on,   *)
(* one that failed stays so, and none is lost.                             *)
OrdersGo ==
  /\ orders' \in Seq(OrderStatus)
  /\ Len(orders) <= Len(orders')
  /\ \A o \in 1 .. Len(orders') : orders'[o] \in Going
  /\ \A o \in 1 .. Len(orders) :
       /\ IsPaid(o) => IsPaid(o)'
       /\ orders[o] \in Reached => orders'[o] \in Reached
       /\ orders[o] = "SETTLEMENT_FAILED" => orders'[o] = "SETTLEMENT_FAILED"

LEMMA CheckoutTakeOrder ==
  ASSUME CheckoutInv, NEW s \in Slots, TakeOrder(s)
  PROVE  CheckoutInv'
<1>. USE DEF CheckoutInv
<1>2. calls' \in [Slots -> CheckoutCall \cup {None}] /\ Becomes(s, None)
  BY TakenCall DEF CheckoutTypes, TakeOrder
<1>. USE DEF Becomes, Here, IsCall, At
<1>a. CASE calls[s].pc = "error" \/ ~calls[s].here
  <2>1. page' = page
    BY <1>a DEF TakeOrder, ShowPage
  <2>2. CheckoutTypes'
    BY <2>1, <1>2 DEF CheckoutTypes, TakeOrder
  <2>3. OrdersExist' /\ OneAtATime' /\ NewOrder'
    BY <2>1, <1>2 DEF OrdersExist, NamesOrders, OneAtATime, NewOrder, TakeOrder
  <2>4. HeardIsTrue' /\ OnTrack'
    BY <2>1, <1>2 DEF HeardIsTrue, CardIsTrue, IsPaid, OnTrack, TakeOrder
  <2>. QED BY <2>2, <2>3, <2>4
<1>b. CASE At(s, "checkout", "answered") /\ calls[s].here
  <2>0. calls[s].id \in 1 .. Len(orders)
    BY <1>b DEF OrdersExist, NamesOrders
  <2>1. /\ page' \in Page
        /\ page'.buy = "paying" /\ page'.order = calls[s].id /\ page'.ticking = FALSE
    <3>1. page' = [page EXCEPT !.buy = "paying", !.order = calls[s].id, !.ticking = FALSE]
      BY <1>b DEF TakeOrder, ShowPage
    <3>2. calls[s].id \in Nat /\ page \in Page
      BY <1>b DEF CheckoutTypes, CheckoutCall
    <3>. QED BY <3>1, <3>2 DEF Page
  <2>2. CheckoutTypes'
    BY <2>1, <1>2 DEF CheckoutTypes, TakeOrder
  <2>3. OrdersExist'
    BY <2>0, <2>1, <1>2 DEF OrdersExist, NamesOrders, TakeOrder, CheckoutTypes
  <2>4. OneAtATime'
    BY <2>1, <1>2 DEF OneAtATime, TakeOrder
  <2>5. NewOrder'
    BY <1>b, <2>1, <1>2 DEF NewOrder, OneAtATime, TakeOrder
  <2>6. HeardIsTrue'
    BY <2>1, <1>2 DEF HeardIsTrue, CardIsTrue, IsPaid, TakeOrder
  <2>7. OnTrack'
    BY <1>b, <2>1, <1>2 DEF OnTrack, NewOrder, OneAtATime, OrdersExist, TakeOrder
  <2>. QED BY <2>2, <2>3, <2>4, <2>5, <2>6, <2>7
<1>. QED BY <1>a, <1>b DEF TakeOrder

LEMMA CheckoutTakePayment ==
  ASSUME CheckoutInv, NEW s \in Slots, TakePayment(s)
  PROVE  CheckoutInv'
<1>. USE DEF CheckoutInv
<1>2. calls' \in [Slots -> CheckoutCall \cup {None}] /\ Becomes(s, None)
  BY TakenCall DEF CheckoutTypes, TakePayment
<1>. USE DEF Becomes, Here, IsCall, At
<1>a. CASE At(s, "pay", "error")
  <2>1. page' = page /\ saved' = saved /\ strayed' = strayed
    BY <1>a DEF TakePayment
  <2>2. CheckoutTypes'
    BY <2>1, <1>2 DEF CheckoutTypes, TakePayment
  <2>3. OrdersExist' /\ OneAtATime' /\ NewOrder'
    BY <2>1, <1>2 DEF OrdersExist, NamesOrders, OneAtATime, NewOrder, TakePayment
  <2>4. HeardIsTrue' /\ OnTrack'
    BY <2>1, <1>2 DEF HeardIsTrue, CardIsTrue, IsPaid, OnTrack, TakePayment
  <2>. QED BY <2>2, <2>3, <2>4
<1>b. CASE At(s, "pay", "answered")
  <2>0. calls[s].id \in 1 .. Len(orders) /\ IsPaid(calls[s].id)
    BY <1>b DEF OrdersExist, NamesOrders, HeardIsTrue
  <2>1. /\ page' \in Page /\ page'.order = page.order
        /\ ~calls[s].here => page' = page
        /\ calls[s].here => page'.buy = "pending" /\ page'.ticking = TRUE
    <3>. DEFINE pending == [page EXCEPT !.buy = "pending", !.polls = 0, !.ticking = TRUE]
    <3>1. page' = IF calls[s].here THEN pending ELSE page
      BY <1>b DEF TakePayment, ShowPage
    <3>2. 0 \in 0 .. MaxPolls /\ page \in Page
      BY CheckoutBounds DEF CheckoutTypes
    <3>3. /\ pending \in Page /\ pending.order = page.order
          /\ pending.buy = "pending" /\ pending.ticking = TRUE
      BY <3>2 DEF Page
    <3>. HIDE DEF pending
    <3>. QED BY <3>1, <3>2, <3>3 DEF CheckoutTypes
  <2>s. saved' = calls[s].id /\ strayed' = (strayed \/ ~IsOwn(s)) /\ orders' = orders
    BY <1>b DEF TakePayment, Stray
  <2>2. CheckoutTypes'
    BY <2>0, <2>1, <2>s, <1>2 DEF CheckoutTypes, TakePayment
  <2>3. OrdersExist'
    BY <1>b, <2>0, <2>1, <2>s, <1>2 DEF OrdersExist, NamesOrders, CheckoutTypes
  <2>4. OneAtATime'
    BY <2>1, <1>2 DEF OneAtATime
  <2>5. NewOrder'
    BY <1>b, <2>1, <1>2 DEF NewOrder
  <2>6. HeardIsTrue'
    BY <1>b, <2>0, <2>1, <2>s, <1>2 DEF HeardIsTrue, CardIsTrue, IsPaid, IsOwn
  <2>7. OnTrack'
    BY <1>b, <2>0, <2>1, <2>s, <1>2 DEF OnTrack, OneAtATime, IsOwn
  <2>. QED BY <2>2, <2>3, <2>4, <2>5, <2>6, <2>7
<1>. QED BY <1>a, <1>b DEF TakePayment

LEMMA CheckoutTakePoll ==
  ASSUME CheckoutInv, NEW s \in Slots, TakePoll(s)
  PROVE  CheckoutInv'
<1>. USE DEF CheckoutInv
<1>2. calls' \in [Slots -> CheckoutCall \cup {None}] /\ Becomes(s, None)
  BY TakenCall DEF CheckoutTypes, TakePoll
<1>. USE DEF Becomes, Here, IsCall, At
<1>a. CASE ~Tells(s)
  <2>1. /\ page' \in Page /\ page'.order = page.order /\ page'.buy = page.buy
        /\ page'.ticking => page.ticking
    BY <1>a DEF TakePoll, ShowPage, CheckoutTypes, Page
  <2>s. saved' = saved /\ strayed' = strayed /\ orders' = orders
    BY <1>a DEF TakePoll, SavedAfter
  <2>2. CheckoutTypes'
    BY <2>1, <2>s, <1>2 DEF CheckoutTypes, TakePoll
  <2>3. OrdersExist' /\ OneAtATime' /\ NewOrder'
    BY <2>1, <2>s, <1>2 DEF OrdersExist, NamesOrders, OneAtATime, NewOrder
  <2>4. HeardIsTrue' /\ OnTrack'
    BY <2>1, <2>s, <1>2 DEF HeardIsTrue, CardIsTrue, IsPaid, OnTrack
  <2>. QED BY <2>2, <2>3, <2>4
<1>b. CASE Tells(s)
  <2>1. /\ page' \in Page /\ page'.order = page.order
        /\ ~calls[s].here => page' = page
        /\ calls[s].here => page'.buy \in {"paid", "failed"} /\ page'.ticking = FALSE
    BY <1>b DEF TakePoll, ShowPage, CheckoutTypes, Page
  <2>s. saved' = 0 /\ strayed' = (strayed \/ ~IsOwn(s)) /\ orders' = orders
    BY <1>b DEF TakePoll, SavedAfter, Stray
  <2>2. CheckoutTypes'
    BY <2>1, <2>s, <1>2 DEF CheckoutTypes, TakePoll
  <2>3. OrdersExist'
    BY <2>1, <2>s, <1>2 DEF OrdersExist, NamesOrders, CheckoutTypes
  <2>4. OneAtATime' /\ NewOrder'
    BY <2>1, <2>s, <1>2 DEF OneAtATime, NewOrder
  <2>3a. /\ calls[s].id \in 1 .. Len(orders) /\ Agrees(calls[s].seen, orders[calls[s].id])
         /\ calls[s].id # 0
    BY <1>b DEF Tells, OrdersExist, NamesOrders, HeardIsTrue, CheckoutTypes
  <2>3b. ~strayed' => IF page'.buy = "paid" THEN IsPaid(page.order)
                                            ELSE orders[page.order] = "SETTLEMENT_FAILED"
    <3>1. calls[s].here => page'.buy = IF calls[s].seen = "Paid" THEN "paid" ELSE "failed"
      BY <1>b DEF TakePoll, ShowPage, CheckoutTypes, Page
    <3>2. calls[s].seen \in {"Paid", "Failed"}
      BY <1>b, <2>3a DEF Tells, Agrees
    <3>. QED BY <2>s, <2>3a, <3>1, <3>2 DEF IsOwn, Agrees, IsPaid, Reached
  <2>5. HeardIsTrue'
    BY <2>1, <2>s, <2>3b, <1>2 DEF HeardIsTrue, CardIsTrue, IsPaid, IsOwn
  <2>6. OnTrack'
    BY <1>b, <2>1, <2>s, <2>3a, <1>2 DEF OnTrack, IsOwn, Tells
  <2>. QED BY <2>2, <2>3, <2>4, <2>5, <2>6
<1>. QED BY <1>a, <1>b

(* The server changes a call to an answer or an error; the page sees        *)
(* nothing of it yet.                                                       *)
Served(s, id, pc, seen) ==
  /\ calls[s] # None
  /\ id \in Nat /\ pc \in {"answered", "error"} /\ seen \in {None, "Pending", "Paid", "Failed"}
  /\ \/ pc = "answered" /\ calls' = Answered(s, id, seen)
     \/ pc = "error" /\ calls' = Broken(s) /\ id = calls[s].id /\ seen = calls[s].seen
  /\ UNCHANGED <<page, saved, strayed, visits>>
  /\ OrdersGo
  /\ calls[s].kind \in {"pay", "poll"} => id = calls[s].id
  /\ calls[s].kind = "checkout" /\ pc = "answered" => Len(orders) < id /\ id <= Len(orders')
  /\ calls[s].kind = "pay" /\ pc = "answered" => orders'[id] # "PAYMENT_PENDING"
  /\ calls[s].kind = "poll" /\ pc = "answered" => Agrees(seen, orders'[id])

LEMMA CheckoutCalls ==
  ASSUME CheckoutInv, NEW s \in Slots, calls[s] # None
  PROVE  calls[s] \in CheckoutCall
BY DEF CheckoutInv, CheckoutTypes

LEMMA CheckoutServed ==
  ASSUME CheckoutInv, NEW s \in Slots, NEW id, NEW pc, NEW seen, Served(s, id, pc, seen)
  PROVE  CheckoutInv'
<1>. USE DEF CheckoutInv, Served
<1>. DEFINE new == [calls[s] EXCEPT !.pc = pc, !.id = id, !.seen = seen]
<1>1. calls[s] \in CheckoutCall
  BY DEF CheckoutTypes
<1>2. /\ new \in CheckoutCall
      /\ new.kind = calls[s].kind /\ new.here = calls[s].here
      /\ new.pc = pc /\ new.id = id /\ new.seen = seen
  BY <1>1 DEF CheckoutCall
<1>3. calls' \in [Slots -> CheckoutCall \cup {None}] /\ Becomes(s, new)
  <2>1. calls' = [calls EXCEPT ![s] = new]
    <3>1. Answered(s, id, seen) = [calls EXCEPT ![s] =
            [calls[s] EXCEPT !.pc = "answered", !.id = id, !.seen = seen]]
      BY <1>1 DEF Answered, CheckoutCall, CheckoutTypes
    <3>2. Broken(s) = [calls EXCEPT ![s] =
            [calls[s] EXCEPT !.pc = "error", !.id = calls[s].id, !.seen = calls[s].seen]]
      BY <1>1 DEF Broken, CheckoutCall, CheckoutTypes
    <3>. QED BY <3>1, <3>2
  <2>. QED BY <1>1, <1>2, <2>1, AnsweredCall DEF CheckoutTypes
<1>. HIDE DEF new
<1>. USE <1>2, <1>3 DEF Becomes, Here, IsCall, At
<1>4. CheckoutTypes'
  BY DEF CheckoutTypes, OrdersGo
<1>5. OrdersExist'
  <2>1. /\ Len(orders) \in Nat /\ Len(orders') \in Nat /\ Len(orders) <= Len(orders')
        /\ page.order \in Nat
    BY DEF OrdersGo, CheckoutTypes, Page
  <2>2. {page'.order, saved'} \subseteq 0 .. Len(orders')
    BY <2>1 DEF OrdersExist
  <2>3. ASSUME NEW t \in Slots \ {s}
        PROVE  /\ NamesOrders(t)' => calls'[t].id \in 1 .. Len(orders')
               /\ Here(t, "pay")' => page'.order # 0
    BY <2>1 DEF OrdersExist, NamesOrders
  <2>4. /\ NamesOrders(s)' => calls'[s].id \in 1 .. Len(orders')
        /\ Here(s, "pay")' => page'.order # 0
    BY <1>1, <2>1 DEF OrdersExist, NamesOrders, CheckoutCall
  <2>. QED BY <2>2, <2>3, <2>4 DEF OrdersExist
<1>6. OneAtATime'
  BY DEF OneAtATime
<1>7. NewOrder'
  <2>1. ASSUME NEW t \in Slots \ {s}, Here(t, "checkout")', calls'[t].pc = "answered"
        PROVE  /\ calls'[t].id # page'.order
               /\ \A u \in Slots : Here(u, "poll")' => calls'[u].id # calls'[t].id
    BY <2>1 DEF NewOrder
  <2>2. ASSUME Here(s, "checkout")', calls'[s].pc = "answered"
        PROVE  /\ calls'[s].id # page'.order
               /\ \A u \in Slots : Here(u, "poll")' => calls'[u].id # calls'[s].id
    <3>1. Len(orders) < id /\ Len(orders) \in Nat /\ id \notin 0 .. Len(orders)
      BY <2>2 DEF CheckoutTypes
    <3>2. page.order \in 0 .. Len(orders)
      BY DEF OrdersExist
    <3>3. \A u \in Slots \ {s} : Here(u, "poll") => calls[u].id \in 0 .. Len(orders)
      BY DEF OrdersExist, NamesOrders, CheckoutTypes
    <3>. QED BY <2>2, <3>1, <3>2, <3>3
  <2>. QED BY <2>1, <2>2 DEF NewOrder
<1>8. HeardIsTrue'
  <2>1. saved \in 0 .. Len(orders) /\ page.order \in 0 .. Len(orders) /\ Len(orders) \in Nat
    BY DEF OrdersExist, CheckoutTypes
  <2>2. saved' # 0 => IsPaid(saved)'
    BY <2>1 DEF HeardIsTrue, CardIsTrue, OrdersGo
  <2>3. ~strayed' => /\ page'.buy \in {"pending", "paid"} => IsPaid(page.order)'
                     /\ page'.buy = "failed" => orders'[page'.order] = "SETTLEMENT_FAILED"
    <3>1. page.buy \in {"pending", "paid", "failed"} /\ ~strayed => page.order # 0
      BY DEF OrdersExist, OnTrack
    <3>. QED BY <2>1, <3>1 DEF HeardIsTrue, CardIsTrue, OrdersGo
  <2>4. ASSUME NEW t \in Slots \ {s}, At(t, "pay", "answered")'
        PROVE  IsPaid(calls[t].id)'
    BY <2>4 DEF HeardIsTrue, OrdersGo, OrdersExist, NamesOrders
  <2>5. At(s, "pay", "answered")' => IsPaid(calls[s].id)'
    BY DEF IsPaid
  <2>6. ASSUME NEW t \in Slots \ {s}, At(t, "poll", "answered")'
        PROVE  Agrees(calls'[t].seen, orders'[calls'[t].id])
    <3>1. /\ At(t, "poll", "answered") /\ calls'[t] = calls[t]
          /\ calls[t].id \in 1 .. Len(orders)
      BY <2>6 DEF OrdersExist, NamesOrders
    <3>. QED BY <3>1 DEF HeardIsTrue, OrdersGo, Agrees
  <2>7. At(s, "poll", "answered")' => Agrees(calls'[s].seen, orders'[calls'[s].id])
    OBVIOUS
  <2>. QED BY <2>2, <2>3, <2>4, <2>5, <2>6, <2>7 DEF HeardIsTrue, CardIsTrue, OrdersGo
<1>9. OnTrack'
  BY DEF OnTrack
<1>. QED BY <1>4, <1>5, <1>6, <1>7, <1>8, <1>9

LEMMA OrdersStay ==
  ASSUME CheckoutInv, UNCHANGED orders
  PROVE  OrdersGo
BY DEF CheckoutInv, CheckoutTypes, OrdersGo, IsPaid, HeardIsTrue

LEMMA StatusesExist ==
  {"PAYMENT_PENDING", "PAYMENT_RECEIVED", "WAITING_WALLET", "SETTLEMENT_PENDING", "SETTLED",
   "SETTLEMENT_FAILED"} \subseteq OrderStatus
  BY DEF OrderStatus

(* No move leads from a failed settlement. *)
LEMMA FailedForGood ==
  ASSUME NEW to, CanTransition("SETTLEMENT_FAILED", to)
  PROVE  FALSE
BY DEF CanTransition, Transitions

LEMMA CheckoutServe1 ==
  ASSUME CheckoutInv, NEW s \in Slots, CreateOrder(s)
  PROVE  CheckoutInv'
<1>1. /\ calls[s] # None /\ calls[s].kind = "checkout"
      /\ calls' = Answered(s, Len(orders) + 1, None)
      /\ orders' = Append(orders, "PAYMENT_PENDING")
      /\ UNCHANGED <<page, saved, strayed, visits>>
  BY DEF CreateOrder, At
<1>2. orders \in Seq(OrderStatus)
  BY DEF CheckoutInv, CheckoutTypes
<1>3. OrdersGo /\ Len(orders') = Len(orders) + 1 /\ Len(orders) + 1 \in Nat
  BY <1>1, <1>2, StatusesExist DEF OrdersGo, IsPaid, CheckoutInv, HeardIsTrue, Going
<1>4. Len(orders) < Len(orders) + 1 /\ Len(orders) + 1 <= Len(orders')
  BY <1>2, <1>3
<1>5. Served(s, Len(orders) + 1, "answered", None)
  BY <1>1, <1>3, <1>4, CheckoutCalls DEF Served
<1>. QED BY <1>5, CheckoutServed

LEMMA CheckoutServe2 ==
  ASSUME CheckoutInv, NEW s \in Slots, SimulatePayment(s)
  PROVE  CheckoutInv'
<1>0. PICK o : o = calls[s].id
  OBVIOUS
<1>1. /\ calls[s] # None /\ calls[s].kind = "pay"
      /\ calls' = Answered(s, o, None)
      /\ UNCHANGED <<page, saved, strayed, visits>>
  BY <1>0 DEF SimulatePayment, At
<1>2. o \in 1 .. Len(orders) /\ o \in Nat /\ orders \in Seq(OrderStatus)
  BY <1>0, <1>1, CheckoutCalls
     DEF CheckoutInv, CheckoutTypes, CheckoutCall, OrdersExist, NamesOrders, IsCall
<1>3. PICK to \in {"PAYMENT_RECEIVED", "WAITING_WALLET"} :
        orders' = [orders EXCEPT ![o] = IF IsPaid(o) THEN orders[o] ELSE to]
  BY <1>0 DEF SimulatePayment
<1>4. OrdersGo /\ IsPaid(o)'
  <2>1. CASE IsPaid(o)
    <3>1. orders' = orders
      BY <1>2, <1>3, <2>1
    <3>. QED BY <2>1, <3>1, OrdersStay DEF IsPaid
  <2>2. CASE ~IsPaid(o)
    <3>1. orders' = [orders EXCEPT ![o] = to]
      BY <1>3, <2>2
    <3>2. to \in OrderStatus /\ to # "PAYMENT_PENDING" /\ to \in Going
      BY StatusesExist DEF Going, Reached
    <3>3. orders[o] \notin Reached /\ orders[o] # "SETTLEMENT_FAILED"
      BY <2>2 DEF IsPaid, Reached
    <3>4. \A i \in 1 .. Len(orders) : orders[i] \in Going
      BY DEF CheckoutInv, HeardIsTrue
    <3>. QED BY <1>2, <2>2, <3>1, <3>2, <3>3, <3>4 DEF OrdersGo, IsPaid
  <2>. QED BY <2>1, <2>2
<1>5. Served(s, o, "answered", None)
  BY <1>0, <1>1, <1>2, <1>4 DEF Served, IsPaid
<1>. QED BY <1>5, CheckoutServed

LEMMA CheckoutServe3 ==
  ASSUME CheckoutInv, NEW s \in Slots, GetOrderStatus(s)
  PROVE  CheckoutInv'
<1>. DEFINE status == MapOrderStatus(orders[calls[s].id])
<1>1. /\ calls[s] # None /\ calls[s].kind = "poll"
      /\ calls' = Answered(s, calls[s].id, status)
      /\ UNCHANGED <<orders, page, saved, strayed, visits>>
  BY DEF GetOrderStatus, At
<1>2. OrdersGo /\ calls[s].id \in Nat
  BY <1>1, CheckoutCalls, OrdersStay DEF CheckoutCall
<1>3. status \in {None, "Pending", "Paid", "Failed"}
  BY DEF MapOrderStatus
<1>4. Agrees(status, orders'[calls[s].id])
  <2>1. calls[s].id \in 1 .. Len(orders)
    BY <1>1 DEF CheckoutInv, OrdersExist, NamesOrders, IsCall
  <2>2. orders[calls[s].id] \in Going /\ orders' = orders
    BY <1>1, <2>1 DEF CheckoutInv, HeardIsTrue
  <2>. QED BY <2>2 DEF Agrees, MapOrderStatus, Going, Reached
<1>. HIDE DEF status
<1>5. Served(s, calls[s].id, "answered", status)
  BY <1>1, <1>2, <1>3, <1>4, CheckoutCalls DEF Served
<1>. QED BY <1>5, CheckoutServed

LEMMA CheckoutCallFails ==
  ASSUME CheckoutInv, NEW s \in Slots, CallFails(s)
  PROVE  CheckoutInv'
<1>1. /\ calls[s] # None /\ calls' = Broken(s)
      /\ UNCHANGED <<orders, page, saved, strayed, visits>>
  BY DEF CallFails, CanBreak
<1>2. /\ OrdersGo /\ calls[s].id \in Nat
      /\ calls[s].seen \in {None, "Pending", "Paid", "Failed"}
  BY <1>1, CheckoutCalls, OrdersStay DEF CheckoutCall
<1>3. Served(s, calls[s].id, "error", calls[s].seen)
  BY <1>1, <1>2, CheckoutCalls DEF Served
<1>. QED BY <1>3, CheckoutServed

LEMMA CheckoutSettlement ==
  ASSUME CheckoutInv, NEW o \in DOMAIN orders, Settlement(o)
  PROVE  CheckoutInv'
<1>. USE DEF CheckoutInv
<1>1. UNCHANGED <<page, saved, strayed, visits, calls>>
  BY DEF Settlement
<1>2. OrdersGo
  <2>1. PICK to \in Reached : orders' = [orders EXCEPT ![o] = to]
    BY DEF Settlement
  <2>2. to \in OrderStatus /\ to # "PAYMENT_PENDING" /\ to \in Reached /\ to \in Going
    BY StatusesExist DEF Reached, Going
  <2>3. orders[o] # "SETTLEMENT_FAILED"
    BY FailedForGood DEF Settlement
  <2>4. \A i \in 1 .. Len(orders) : orders[i] \in Going
    BY DEF HeardIsTrue
  <2>. QED BY <2>1, <2>2, <2>3, <2>4 DEF OrdersGo, CheckoutTypes, IsPaid
<1>3. Len(orders) = Len(orders')
  BY DEF Settlement, CheckoutTypes
<1>4. CheckoutTypes'
  BY <1>1, <1>2 DEF CheckoutTypes, OrdersGo
<1>5. OrdersExist' /\ OneAtATime' /\ NewOrder'
  BY <1>1, <1>3
     DEF OrdersExist, NamesOrders, OneAtATime, NewOrder, Here, IsCall, At
<1>6. HeardIsTrue'
  <2>1. saved' # 0 => IsPaid(saved)'
    BY <1>1, <1>2 DEF HeardIsTrue, CardIsTrue, OrdersGo, OrdersExist, CheckoutTypes
  <2>2. ~strayed' => /\ page'.buy \in {"pending", "paid"} => IsPaid(page.order)'
                     /\ page'.buy = "failed" => orders'[page'.order] = "SETTLEMENT_FAILED"
    <3>1. page.buy \in {"pending", "paid", "failed"} /\ ~strayed => page.order \in 1 .. Len(orders)
      BY DEF OrdersExist, OnTrack, CheckoutTypes
    <3>. QED BY <1>1, <1>2, <3>1 DEF HeardIsTrue, CardIsTrue, OrdersGo
  <2>3. ASSUME NEW s \in Slots
        PROVE  /\ At(s, "pay", "answered")' => IsPaid(calls[s].id)'
               /\ At(s, "poll", "answered")' => Agrees(calls'[s].seen, orders'[calls'[s].id])
    <3>1. NamesOrders(s) => calls[s].id \in 1 .. Len(orders)
      BY DEF OrdersExist
    <3>. QED BY <1>1, <1>2, <3>1 DEF HeardIsTrue, OrdersGo, NamesOrders, At, IsCall, Agrees
  <2>. QED BY <1>2, <2>1, <2>2, <2>3 DEF HeardIsTrue, CardIsTrue, OrdersGo
<1>7. OnTrack'
  BY <1>1 DEF OnTrack, Here, IsCall
<1>. QED BY <1>4, <1>5, <1>6, <1>7

LEMMA CheckoutStep ==
  ASSUME CheckoutInv, CheckoutNext
  PROVE  CheckoutInv'
<1>1. CASE Buy \/ Pay \/ Poll \/ TryAgain \/ Return
  BY <1>1, CheckoutBuy, CheckoutPay, CheckoutPoll, CheckoutTryAgain, CheckoutReturn
<1>2. ASSUME NEW s \in Slots, CheckoutTake(s) PROVE CheckoutInv'
  BY <1>2, CheckoutTakeOrder, CheckoutTakePayment, CheckoutTakePoll DEF CheckoutTake
<1>3. ASSUME NEW s \in Slots, CheckoutServe(s) PROVE CheckoutInv'
  BY <1>3, CheckoutServe1, CheckoutServe2, CheckoutServe3 DEF CheckoutServe
<1>4. ASSUME NEW s \in Slots, CallFails(s) PROVE CheckoutInv'
  BY <1>4, CheckoutCallFails
<1>5. ASSUME NEW o \in DOMAIN orders, Settlement(o) PROVE CheckoutInv'
  BY <1>5, CheckoutSettlement
<1>. QED BY <1>1, <1>2, <1>3, <1>4, <1>5 DEF CheckoutNext

LEMMA CheckoutForgets ==
  ASSUME CheckoutInv, CheckoutNext, saved # 0, saved' # saved, ~strayed'
  PROVE  orders[saved] \in Reached
<1>1. CASE TryAgain
  BY <1>1 DEF TryAgain, CheckoutInv, OnTrack
<1>2. ASSUME NEW s \in Slots, TakePayment(s)
      PROVE  FALSE
  BY <1>2 DEF TakePayment, Stray, IsOwn, CheckoutInv, CheckoutTypes, OnTrack, At, Here, IsCall
<1>3. ASSUME NEW s \in Slots, TakePoll(s)
      PROVE  orders[saved] \in Reached
  <2>1. Tells(s) /\ calls[s].id = saved
    BY <1>3 DEF TakePoll, SavedAfter, Stray, IsOwn, CheckoutInv, CheckoutTypes, OnTrack
  <2>2. Agrees(calls[s].seen, orders[saved])
    BY <2>1 DEF Tells, CheckoutInv, HeardIsTrue
  <2>. QED BY <2>1, <2>2 DEF Tells, Agrees, Reached
<1>. QED
  BY <1>1, <1>2, <1>3
  DEF CheckoutNext, CheckoutTake, CheckoutServe, Buy, Pay, Poll, Return, TakeOrder, CreateOrder,
      SimulatePayment, GetOrderStatus, CallFails, Settlement

-----------------------------------------------------------------------------
(* The dialog of an anchor withdrawal keeps its invariant. *)

LEMMA EnterFlow ==
  ASSUME NEW f \in Flow, NEW phase \in Phases
  PROVE  /\ Enter(f, phase) \in Flow
         /\ Enter(f, phase).phase = phase
         /\ Enter(f, phase).tx = f.tx
         /\ Enter(f, phase).ticking => f.ticking \/ Polls(phase)
<1>1. CASE phase = f.phase
  BY <1>1 DEF Enter, Flow
<1>2. CASE phase # f.phase
  <2>1. Enter(f, phase) = [f EXCEPT !.phase = phase, !.polls = 0, !.ticking = Polls(phase)]
    BY <1>2 DEF Enter
  <2>2. 0 \in 0 .. MaxAnchorPolls /\ Polls(phase) \in BOOLEAN
    BY CashOutBounds DEF Polls
  <2>. QED BY <2>1, <2>2 DEF Flow
<1>. QED BY <1>1, <1>2

LEMMA CashOutCalls ==
  ASSUME CashOutInv
  PROVE  /\ \A s \in Slots : calls[s] # None => calls[s] \in CashOutCall
         /\ Effect(flow) \in Phases \X Nat
<1>1. flow.phase \in Phases /\ flow.sends \in 0 .. MaxSends
  BY DEF CashOutInv, CashOutTypes, Flow
<1>2. flow.sends \in Nat
  BY <1>1, CashOutBounds
<1>. QED BY <1>1, <1>2 DEF CashOutInv, CashOutTypes, Effect

LEMMA CashOutStart ==
  ASSUME CashOutInv, Start
  PROVE  CashOutInv'
<1>. USE DEF CashOutInv
<1>1. Call("start", 0, Effect(flow)) \in CashOutCall
  BY CashOutCalls DEF Call, CashOutCall
<1>2. /\ calls' \in [Slots -> CashOutCall \cup {None}]
      /\ \E s \in Slots : calls[s] = None /\ Becomes(s, Call("start", 0, Effect(flow)))
  BY <1>1, AskedCall DEF CashOutTypes, Start
<1>3. PICK s \in Slots : calls[s] = None /\ Becomes(s, Call("start", 0, Effect(flow)))
  BY <1>2
<1>4. /\ flow' \in Flow /\ flow'.phase = "authorizing" /\ flow'.tx = flow.tx
      /\ flow'.ticking => flow.ticking
      /\ flow.phase = "form" /\ UNCHANGED <<anchorTx, number, muddled>>
  BY EnterFlow DEF CashOutTypes, Start, Phases, Polls
<1>. USE <1>3, <1>4 DEF Becomes, Call, Here, IsCall, At, Sends
<1>5. CashOutTypes'
  BY <1>2 DEF CashOutTypes
<1>6. AnchorTxExist'
  BY DEF AnchorTxExist, NamesAnchorTx
<1>7. Starting'
  BY DEF Starting
<1>8. SendingOnce'
  BY DEF SendingOnce, Before
<1>9. Outcome'
  BY DEF Outcome, IsCompleted
<1>. QED BY <1>5, <1>6, <1>7, <1>8, <1>9

LEMMA CashOutSend ==
  ASSUME CashOutInv, SendFunds
  PROVE  CashOutInv'
<1>. USE DEF CashOutInv
<1>0. flow.tx \in Nat /\ flow.tx # 0 /\ flow.tx \in 1 .. Len(anchorTx)
  BY DEF AnchorTxExist, SendFunds, CashOutTypes, Flow
<1>1. Call("build", flow.tx, Effect(flow)) \in CashOutCall
  BY <1>0, CashOutCalls DEF Call, CashOutCall
<1>2. /\ calls' \in [Slots -> CashOutCall \cup {None}]
      /\ \E s \in Slots : calls[s] = None /\ Becomes(s, Call("build", flow.tx, Effect(flow)))
  BY <1>1, AskedCall DEF CashOutTypes, SendFunds
<1>3. PICK s \in Slots : calls[s] = None /\ Becomes(s, Call("build", flow.tx, Effect(flow)))
  BY <1>2
<1>4. /\ flow' \in Flow /\ flow'.phase = "sending" /\ flow'.tx = flow.tx
      /\ flow'.ticking => flow.ticking
      /\ flow.phase = "awaiting_transfer" /\ UNCHANGED <<anchorTx, number, muddled>>
  <2>1. flow \in Flow /\ flow.sends \in 0 .. MaxSends /\ flow.sends < MaxSends
    BY DEF CashOutTypes, Flow, SendFunds
  <2>2. flow.sends + 1 \in 0 .. MaxSends
    BY <2>1, CashOutBounds
  <2>. DEFINE f == [flow EXCEPT !.sends = flow.sends + 1]
  <2>3. f \in Flow /\ f.tx = flow.tx /\ f.ticking = flow.ticking
    BY <2>1, <2>2 DEF Flow
  <2>4. flow' = Enter(f, "sending")
    BY DEF SendFunds
  <2>. HIDE DEF f
  <2>. QED BY <2>3, <2>4, EnterFlow DEF SendFunds, Phases, Polls
<1>. USE <1>3, <1>4 DEF Becomes, Call, Here, IsCall, At, Sends
<1>5. CashOutTypes'
  BY <1>2 DEF CashOutTypes
<1>6. AnchorTxExist'
  BY <1>0 DEF AnchorTxExist, NamesAnchorTx
<1>7. Starting'
  BY DEF Starting
<1>8. SendingOnce'
  BY <1>0 DEF SendingOnce, Before
<1>9. Outcome'
  BY DEF Outcome, IsCompleted
<1>. QED BY <1>5, <1>6, <1>7, <1>8, <1>9

LEMMA CashOutPoll ==
  ASSUME CashOutInv, PollAnchor
  PROVE  CashOutInv'
<1>. USE DEF CashOutInv
<1>0. flow.tx \in Nat /\ flow.tx # 0 /\ flow.tx \in 1 .. Len(anchorTx)
  BY DEF AnchorTxExist, PollAnchor, CashOutTypes, Flow
<1>1. Call("anchor", flow.tx, Effect(flow)) \in CashOutCall
  BY <1>0, CashOutCalls DEF Call, CashOutCall
<1>2. /\ calls' \in [Slots -> CashOutCall \cup {None}]
      /\ \E s \in Slots : calls[s] = None /\ Becomes(s, Call("anchor", flow.tx, Effect(flow)))
  BY <1>1, AskedCall DEF CashOutTypes, PollAnchor
<1>3. PICK s \in Slots : calls[s] = None /\ Becomes(s, Call("anchor", flow.tx, Effect(flow)))
  BY <1>2
<1>4. /\ flow' \in Flow /\ flow'.phase = flow.phase /\ flow'.tx = flow.tx
      /\ flow'.ticking = flow.ticking /\ UNCHANGED <<anchorTx, number, muddled>>
  <2>. DEFINE n == IF flow.polls < MaxAnchorPolls THEN flow.polls + 1 ELSE flow.polls
  <2>1. n \in 0 .. MaxAnchorPolls
    <3>1. flow.polls \in 0 .. MaxAnchorPolls
      BY DEF CashOutTypes, Flow
    <3>. QED BY <3>1, CashOutBounds
  <2>2. flow' = [flow EXCEPT !.polls = n] /\ UNCHANGED <<anchorTx, number, muddled>>
    BY DEF PollAnchor
  <2>. HIDE DEF n
  <2>. QED BY <2>1, <2>2 DEF CashOutTypes, Flow
<1>. USE <1>3, <1>4 DEF Becomes, Call, Here, IsCall, At, Sends
<1>5. CashOutTypes'
  BY <1>2 DEF CashOutTypes
<1>6. AnchorTxExist'
  BY <1>0 DEF AnchorTxExist, NamesAnchorTx
<1>7. Starting'
  BY DEF Starting
<1>8. SendingOnce'
  BY DEF SendingOnce, Before
<1>9. Outcome'
  BY DEF Outcome, IsCompleted
<1>. QED BY <1>5, <1>6, <1>7, <1>8, <1>9

(* An answer that the dialog does not see: it was closed in the meantime. *)
LEMMA CashOutUnseen ==
  ASSUME CashOutInv, NEW s \in Slots,
         calls' \in [Slots -> CashOutCall \cup {None}], Becomes(s, None),
         UNCHANGED <<flow, anchorTx, number>>, muddled' \in BOOLEAN, muddled => muddled'
  PROVE  CashOutInv'
<1>. USE DEF CashOutInv, Becomes, Here, IsCall, At, Sends
<1>1. CashOutTypes'
  BY DEF CashOutTypes
<1>2. AnchorTxExist'
  BY DEF AnchorTxExist, NamesAnchorTx
<1>3. Starting'
  BY DEF Starting
<1>4. SendingOnce'
  BY DEF SendingOnce, Before
<1>5. Outcome'
  BY DEF Outcome, IsCompleted
<1>. QED BY <1>1, <1>2, <1>3, <1>4, <1>5

LEMMA CashOutTakeStart ==
  ASSUME CashOutInv, NEW s \in Slots, TakeStart(s)
  PROVE  CashOutInv'
<1>. USE DEF CashOutInv
<1>2. calls' \in [Slots -> CashOutCall \cup {None}] /\ Becomes(s, None)
  BY TakenCall DEF CashOutTypes, TakeStart
<1>. USE DEF Becomes, Here, IsCall, At, Sends
<1>3. calls[s] \in CashOutCall /\ UNCHANGED <<anchorTx, number, muddled>>
  BY DEF CashOutTypes, TakeStart
<1>a. CASE ~calls[s].here
  <2>1. flow' = flow
    BY <1>a DEF TakeStart, ShowFlow
  <2>. QED BY <1>2, <1>3, <2>1, CashOutUnseen DEF CashOutTypes
<1>b. CASE calls[s].here /\ At(s, "start", "error")
  <2>1. /\ flow' \in Flow /\ flow'.phase = "form" /\ flow'.tx = flow.tx
        /\ flow'.ticking => flow.ticking
    BY <1>b, EnterFlow DEF TakeStart, ShowFlow, CashOutTypes, Phases, Polls
  <2>2. flow.phase = "authorizing"
    BY <1>b DEF Starting
  <2>3. CashOutTypes'
    BY <1>2, <1>3, <2>1 DEF CashOutTypes
  <2>4. AnchorTxExist'
    BY <1>2, <1>3, <2>1, <2>2 DEF AnchorTxExist, NamesAnchorTx
  <2>5. Starting'
    BY <1>b, <1>2, <1>3, <2>1 DEF Starting
  <2>6. SendingOnce'
    BY <1>2, <1>3, <2>1, <2>2 DEF SendingOnce, Before
  <2>7. Outcome'
    BY <1>2, <1>3, <2>1 DEF Outcome, IsCompleted
  <2>. QED BY <2>3, <2>4, <2>5, <2>6, <2>7
<1>c. CASE calls[s].here /\ At(s, "start", "answered")
  <2>0. /\ flow.phase = "authorizing" /\ anchorTx[calls[s].id].received = 0 /\ flow.tx = 0
        /\ calls[s].id \in 1 .. Len(anchorTx)
    BY <1>c DEF Starting, AnchorTxExist, NamesAnchorTx
  <2>1. /\ flow' \in Flow /\ flow'.phase = "interactive" /\ flow'.tx = calls[s].id
    <3>. DEFINE f == Enter(flow, "interactive")
    <3>1. f \in Flow /\ f.phase = "interactive"
      BY EnterFlow DEF CashOutTypes, Phases
    <3>2. flow' = [f EXCEPT !.tx = calls[s].id] /\ calls[s].id \in Nat
      BY <1>c, <1>3 DEF TakeStart, ShowFlow, CashOutCall
    <3>. HIDE DEF f
    <3>. QED BY <3>1, <3>2 DEF Flow
  <2>2. CashOutTypes'
    BY <1>2, <1>3, <2>1 DEF CashOutTypes
  <2>3. AnchorTxExist'
    <3>1. \A t \in Slots : calls[t] # None /\ calls[t].here => calls[t].kind = "start"
      BY <2>0 DEF AnchorTxExist, NamesAnchorTx, CashOutTypes, CashOutCall
    <3>. QED BY <1>2, <1>3, <2>0, <2>1, <3>1 DEF AnchorTxExist, NamesAnchorTx
  <2>4. Starting'
    BY <1>c, <1>2, <1>3, <2>1 DEF Starting
  <2>5. SendingOnce'
    BY <1>c, <1>2, <1>3, <2>0, <2>1 DEF SendingOnce, Starting, Before
  <2>6. Outcome'
    BY <1>2, <1>3, <2>1 DEF Outcome, IsCompleted
  <2>. QED BY <2>2, <2>3, <2>4, <2>5, <2>6
<1>. QED BY <1>a, <1>b, <1>c DEF TakeStart

LEMMA CashOutSign ==
  ASSUME CashOutInv, NEW s \in Slots, Sign(s)
  PROVE  CashOutInv'
<1>. USE DEF CashOutInv
<1>. DEFINE new == [calls[s] EXCEPT !.kind = "submit", !.pc = "sent"]
<1>1. /\ calls[s] \in CashOutCall /\ At(s, "build", "answered")
      /\ UNCHANGED <<flow, anchorTx, number, muddled>>
  BY DEF CashOutTypes, Sign, At
<1>2. /\ new \in CashOutCall /\ new.kind = "submit" /\ new.pc = "sent"
      /\ new.id = calls[s].id /\ new.here = calls[s].here
  BY <1>1 DEF CashOutCall
<1>3. calls' \in [Slots -> CashOutCall \cup {None}] /\ Becomes(s, new)
  <2>1. calls' = [calls EXCEPT ![s] = new]
    BY <1>1 DEF Sign, CashOutCall, CashOutTypes
  <2>. QED BY <1>1, <1>2, <2>1, AnsweredCall DEF CashOutTypes
<1>. HIDE DEF new
<1>. USE <1>1, <1>2, <1>3 DEF Becomes, Here, IsCall, At, Sends
<1>5. CashOutTypes'
  BY DEF CashOutTypes
<1>6. AnchorTxExist'
  BY DEF AnchorTxExist, NamesAnchorTx
<1>7. Starting'
  BY DEF Starting
<1>8. SendingOnce'
  BY DEF SendingOnce, Before
<1>9. Outcome'
  BY DEF Outcome, IsCompleted
<1>. QED BY <1>5, <1>6, <1>7, <1>8, <1>9

LEMMA CashOutTakeTransfer ==
  ASSUME CashOutInv, NEW s \in Slots, TakeTransfer(s)
  PROVE  CashOutInv'
<1>. USE DEF CashOutInv
<1>2. calls' \in [Slots -> CashOutCall \cup {None}] /\ Becomes(s, None)
  BY TakenCall DEF CashOutTypes, TakeTransfer
<1>. USE DEF Becomes, Here, IsCall, At, Sends
<1>3. /\ Sends(s) /\ calls[s].id \in 1 .. Len(anchorTx)
      /\ UNCHANGED <<anchorTx, number, muddled>>
  BY DEF TakeTransfer, AnchorTxExist, NamesAnchorTx
<1>a. CASE ~calls[s].here
  <2>1. flow' = flow
    BY <1>a DEF TakeTransfer, ShowFlow
  <2>. QED BY <1>2, <1>3, <2>1, CashOutUnseen DEF CashOutTypes
<1>b. CASE calls[s].here
  <2>0. flow.tx = calls[s].id /\ flow.phase \notin {"form", "authorizing"}
    BY <1>b, <1>3 DEF AnchorTxExist
  <2>1. \E phase \in {"polling", "awaiting_transfer"} :
          /\ flow' = Enter(flow, phase)
          /\ phase = "awaiting_transfer" => ~At(s, "submit", "answered")
    BY <1>b DEF TakeTransfer, ShowFlow
  <2>2. /\ flow' \in Flow /\ flow'.tx = flow.tx
        /\ \/ flow'.phase = "polling"
           \/ flow'.phase = "awaiting_transfer" /\ ~At(s, "submit", "answered")
    BY <2>1, EnterFlow DEF CashOutTypes, Phases
  <2>3. CashOutTypes'
    BY <1>2, <1>3, <2>2 DEF CashOutTypes
  <2>4. AnchorTxExist'
    BY <1>2, <1>3, <2>0, <2>2 DEF AnchorTxExist, NamesAnchorTx
  <2>5. Starting'
    BY <1>2, <1>3, <2>0, <2>2 DEF Starting
  <2>6. SendingOnce'
    BY <1>2, <1>3, <2>0, <2>2 DEF SendingOnce, Before
  <2>7. Outcome'
    BY <1>2, <1>3, <2>2 DEF Outcome, IsCompleted
  <2>. QED BY <2>3, <2>4, <2>5, <2>6, <2>7
<1>. QED BY <1>a, <1>b

LEMMA CashOutTakeAnchor ==
  ASSUME CashOutInv, NEW s \in Slots, TakeAnchor(s)
  PROVE  CashOutInv'
<1>. USE DEF CashOutInv
<1>2. calls' \in [Slots -> CashOutCall \cup {None}] /\ Becomes(s, None)
  BY TakenCall DEF CashOutTypes, TakeAnchor
<1>. USE DEF Becomes, Here, IsCall, At, Sends
<1>3. /\ calls[s] # None /\ calls[s].kind = "anchor"
      /\ calls[s].id \in 1 .. Len(anchorTx)
      /\ UNCHANGED <<anchorTx, number>>
  BY DEF TakeAnchor, AnchorTxExist, NamesAnchorTx
<1>4. muddled' \in BOOLEAN /\ muddled' = (muddled \/ BringsBack(s))
  BY DEF TakeAnchor, CashOutTypes, BringsBack
<1>a. CASE ~calls[s].here
  <2>1. flow' = flow
    BY <1>a DEF TakeAnchor, ShowFlow
  <2>. QED BY <1>2, <1>3, <1>4, <2>1, CashOutUnseen
<1>b. CASE calls[s].here
  <2>0. flow.tx = calls[s].id /\ flow.tx # 0 /\ flow.phase \notin {"form", "authorizing"}
    BY <1>b, <1>3 DEF AnchorTxExist
  <2>1. Led(s) \in {flow.phase, "done", "failed", "awaiting_transfer"} /\ Led(s) \in Phases
    BY DEF Led, Says, CashOutTypes, Flow, Phases
  <2>2. flow' \in Flow /\ flow'.tx = flow.tx /\ flow'.phase = Led(s)
    <3>1. PICK f \in Flow : f = Enter(flow, Led(s)) /\ f.tx = flow.tx /\ f.phase = Led(s)
      BY <2>1, EnterFlow DEF CashOutTypes
    <3>2. flow' = Limited(s, f)
      BY <1>b, <3>1 DEF TakeAnchor, ShowFlow
    <3>. QED BY <3>1, <3>2 DEF Limited, Flow
  <2>3. CashOutTypes'
    BY <1>2, <1>3, <1>4, <2>2 DEF CashOutTypes
  <2>4. AnchorTxExist'
    BY <1>2, <1>3, <2>0, <2>1, <2>2 DEF AnchorTxExist, NamesAnchorTx
  <2>5. Starting'
    BY <1>2, <1>3, <2>0, <2>2 DEF Starting
  <2>6. SendingOnce'
    <3>1. ~muddled' /\ flow'.phase = "awaiting_transfer" => flow.phase \in Before
      BY <1>4, <2>2 DEF BringsBack, Before
    <3>2. flow'.phase \in {"done", "failed", "awaiting_transfer"} \/ flow'.phase = flow.phase
      BY <2>1, <2>2
    <3>3. ~muddled' => ~muddled
      BY <1>4
    <3>. HIDE DEF Before
    <3>4. "awaiting_transfer" \in Before /\ "sending" \notin Before
          /\ "done" \notin Before /\ "failed" \notin Before
      BY DEF Before
    <3>. QED BY <1>2, <1>3, <2>0, <2>2, <3>1, <3>2, <3>3, <3>4 DEF SendingOnce
  <2>7. Outcome'
    <3>1. Led(s) = "done" => IsCompleted(flow.tx)
      <4>1. Led(s) = "done" => Says(s, "completed") \/ flow.phase = "done"
        BY DEF Led
      <4>. QED BY <2>0, <4>1 DEF Says, Outcome
    <3>. QED BY <1>2, <1>3, <2>0, <2>2, <3>1 DEF Outcome, IsCompleted
  <2>. QED BY <2>3, <2>4, <2>5, <2>6, <2>7
<1>. QED BY <1>a, <1>b

LEMMA CashOutClose ==
  ASSUME CashOutInv, Close
  PROVE  CashOutInv'
<1>. USE DEF CashOutInv
<1>1. /\ flow' \in Flow /\ flow'.phase = "form" /\ flow'.tx = 0 /\ flow'.ticking = FALSE
      /\ UNCHANGED <<anchorTx, number, muddled>>
  BY CashOutBounds DEF Close, Opened, Flow, Phases
<1>2. /\ calls' \in [Slots -> CashOutCall \cup {None}]
      /\ \A s \in Slots :
           IF calls[s] = None THEN calls'[s] = None
           ELSE /\ ~calls'[s].here
                /\ calls'[s].kind = calls[s].kind /\ calls'[s].id = calls[s].id
                /\ calls'[s].pc = calls[s].pc /\ calls'[s].seen = calls[s].seen
  <2>1. calls' = Orphaned
    BY DEF Close
  <2>2. ASSUME NEW s \in Slots, calls[s] # None
        PROVE  /\ calls'[s] \in CashOutCall /\ ~calls'[s].here
               /\ calls'[s].kind = calls[s].kind /\ calls'[s].id = calls[s].id
               /\ calls'[s].pc = calls[s].pc /\ calls'[s].seen = calls[s].seen
    <3>1. calls[s] \in CashOutCall /\ calls'[s] = [calls[s] EXCEPT !.here = FALSE]
      BY <2>1, <2>2 DEF Orphaned, CashOutTypes
    <3>. QED BY <3>1 DEF CashOutCall
  <2>3. \A s \in Slots : calls[s] = None => calls'[s] = None
    BY <2>1 DEF Orphaned
  <2>4. calls' \in [Slots -> CashOutCall \cup {None}]
    BY <2>1, <2>2, <2>3 DEF Orphaned
  <2>. QED BY <2>2, <2>3, <2>4
<1>. USE <1>1, <1>2 DEF Here, IsCall, At, Sends
<1>5. CashOutTypes'
  BY DEF CashOutTypes
<1>6. AnchorTxExist'
  BY DEF AnchorTxExist, NamesAnchorTx, CashOutTypes
<1>7. Starting'
  BY DEF Starting
<1>8. SendingOnce'
  BY DEF SendingOnce, Before, AnchorTxExist, NamesAnchorTx
<1>9. Outcome'
  BY DEF Outcome, IsCompleted
<1>. QED BY <1>5, <1>6, <1>7, <1>8, <1>9

AnchorRow == [state : AnchorState, received : Nat]

LEMMA AnchorRows ==
  ASSUME CashOutInv
  PROVE  /\ Len(anchorTx) \in Nat /\ DOMAIN anchorTx = 1 .. Len(anchorTx)
         /\ \A t \in 1 .. Len(anchorTx) : anchorTx[t] \in AnchorRow
<1>1. anchorTx \in Seq(AnchorRow)
  BY DEF CashOutInv, CashOutTypes, AnchorRow
<1>. QED BY <1>1

LEMMA AnchorRowChanges ==
  ASSUME CashOutInv, NEW t \in 1 .. Len(anchorTx), NEW row \in AnchorRow,
         anchorTx' = [anchorTx EXCEPT ![t] = row]
  PROVE  /\ anchorTx' \in Seq(AnchorRow) /\ Len(anchorTx') = Len(anchorTx)
         /\ anchorTx'[t] = row
         /\ \A u \in 1 .. Len(anchorTx) : u # t => anchorTx'[u] = anchorTx[u]
BY DEF CashOutInv, CashOutTypes, AnchorRow

LEMMA CashOutCreate ==
  ASSUME CashOutInv, NEW s \in Slots, StartWithdrawal(s)
  PROVE  CashOutInv'
<1>. USE DEF CashOutInv
<1>. DEFINE tx == Len(anchorTx) + 1
            new == [calls[s] EXCEPT !.pc = "answered", !.id = tx, !.seen = None]
<1>1. /\ calls[s] \in CashOutCall /\ At(s, "start", "sent")
      /\ anchorTx' = Append(anchorTx, [state |-> "incomplete", received |-> 0])
      /\ UNCHANGED <<flow, number, muddled>>
  BY DEF CashOutTypes, StartWithdrawal, At
<1>2. /\ tx \in Nat /\ tx # 0 /\ tx \notin 1 .. Len(anchorTx)
      /\ anchorTx' \in Seq([state : AnchorState, received : Nat])
      /\ 1 .. Len(anchorTx') = 1 .. Len(anchorTx) \cup {tx}
      /\ 0 .. Len(anchorTx) \subseteq 0 .. Len(anchorTx')
      /\ \A t \in 1 .. Len(anchorTx) : anchorTx'[t] = anchorTx[t]
      /\ anchorTx'[tx].received = 0
  BY <1>1, AnchorRows DEF CashOutTypes, AnchorState
<1>3. /\ new \in CashOutCall /\ new.kind = "start" /\ new.pc = "answered" /\ new.id = tx
      /\ new.here = calls[s].here
  BY <1>1, <1>2 DEF CashOutCall, At
<1>4. calls' \in [Slots -> CashOutCall \cup {None}] /\ Becomes(s, new)
  <2>1. calls' = [calls EXCEPT ![s] = new]
    BY <1>1 DEF StartWithdrawal, Answered, CashOutCall, CashOutTypes
  <2>. QED BY <1>1, <1>3, <2>1, AnsweredCall DEF CashOutTypes
<1>. HIDE DEF new, tx
<1>. USE <1>1, <1>3, <1>4 DEF Becomes, Here, IsCall, At, Sends
<1>5. CashOutTypes'
  BY <1>2 DEF CashOutTypes
<1>6. AnchorTxExist'
  BY <1>2 DEF AnchorTxExist, NamesAnchorTx
<1>7. Starting'
  <2>1. \A t \in Slots : Sends(t) => calls[t].id \in 1 .. Len(anchorTx)
    BY DEF AnchorTxExist, NamesAnchorTx
  <2>2. ASSUME NEW t \in Slots \ {s}
        PROVE  ~Here(t, "start")' \/ ~Here(s, "start")
    BY DEF Starting
  <2>3. ASSUME NEW t \in Slots \ {s}, Here(t, "start"), calls[t].pc = "answered"
        PROVE  calls[t].id \in 1 .. Len(anchorTx)
    BY <2>3 DEF AnchorTxExist, NamesAnchorTx
  <2>4. ASSUME NEW t \in Slots, Here(t, "start")'
        PROVE  /\ flow'.phase = "authorizing" /\ \A u \in Slots : Here(u, "start")' => t = u
               /\ Here(t, "start")
    BY <2>2, <2>4 DEF Starting
  <2>5. ASSUME NEW t \in Slots, Here(t, "start")', calls'[t].pc = "answered"
        PROVE  /\ \A u \in Slots : Sends(u)' => calls'[u].id # calls'[t].id
               /\ anchorTx'[calls'[t].id].received = 0
    <3>1. CASE t = s
      BY <1>2, <2>1, <2>5, <3>1
    <3>2. CASE t # s
      <4>1. calls'[t] = calls[t] /\ Here(t, "start") /\ calls[t].pc = "answered"
        BY <2>5, <3>2
      <4>2. calls[t].id \in 1 .. Len(anchorTx)
        BY <2>3, <3>2, <4>1
      <4>3. anchorTx'[calls[t].id].received = 0
        BY <1>2, <4>1, <4>2 DEF Starting
      <4>4. \A u \in Slots : Sends(u)' => Sends(u) /\ calls'[u] = calls[u]
        OBVIOUS
      <4>5. \A u \in Slots : Sends(u) => calls[u].id # calls[t].id
        BY <4>1 DEF Starting
      <4>. QED BY <4>1, <4>3, <4>4, <4>5
    <3>. QED BY <3>1, <3>2
  <2>. QED BY <2>4, <2>5 DEF Starting
<1>8. SendingOnce'
  <2>1. \A t \in Slots : Sends(t) => calls[t].id \in 1 .. Len(anchorTx)
    BY DEF AnchorTxExist, NamesAnchorTx
  <2>2. flow.phase \in Before => flow.tx \in 1 .. Len(anchorTx)
    BY AnchorRows DEF AnchorTxExist, Before
  <2>3. ~muddled => \A t \in 1 .. Len(anchorTx') : anchorTx'[t].received \in {0, 1}
    BY <1>2 DEF SendingOnce
  <2>4. ~muddled /\ flow.phase \in Before => anchorTx'[flow.tx].received = 0
    BY <1>2, <2>2 DEF SendingOnce
  <2>5. \A t \in Slots : Sends(t)' => t # s /\ Sends(t) /\ calls'[t] = calls[t]
    OBVIOUS
  <2>6. ASSUME ~muddled, NEW t \in Slots, Sends(t)'
        PROVE  /\ \A u \in Slots : Sends(u)' /\ calls'[u].id = calls'[t].id => t = u
               /\ calls'[t].id = flow'.tx => flow'.phase \in {"sending", "done", "failed"}
               /\ ~At(t, "submit", "answered")' => anchorTx'[calls'[t].id].received = 0
    <3>1. Sends(t) /\ calls'[t] = calls[t] /\ calls[t].id \in 1 .. Len(anchorTx)
      BY <2>1, <2>5, <2>6
    <3>2. \A u \in Slots : Sends(u)' /\ calls'[u].id = calls'[t].id => t = u
      BY <2>5, <2>6, <3>1 DEF SendingOnce
    <3>3. calls'[t].id = flow'.tx => flow'.phase \in {"sending", "done", "failed"}
      BY <2>6, <3>1 DEF SendingOnce
    <3>4. ~At(t, "submit", "answered")' => anchorTx'[calls'[t].id].received = 0
      BY <1>2, <2>6, <3>1 DEF SendingOnce
    <3>. QED BY <3>2, <3>3, <3>4
  <2>. QED BY <2>3, <2>4, <2>6 DEF SendingOnce
<1>9. Outcome'
  <2>1. \A u \in Slots : IsCall(u, "anchor") => calls[u].id \in 1 .. Len(anchorTx)
    BY DEF AnchorTxExist, NamesAnchorTx
  <2>2. flow.phase = "done" => flow.tx \in 1 .. Len(anchorTx)
    BY AnchorRows DEF AnchorTxExist, Outcome
  <2>3. anchorTx'[tx].state = "incomplete"
    BY <1>1, AnchorRows DEF CashOutTypes, tx
  <2>4. \A t \in 1 .. Len(anchorTx') :
          anchorTx'[t].state \in {"paid", "completed"} => anchorTx'[t].received # 0
    BY <1>2, <2>3 DEF Outcome
  <2>5. flow'.phase = "done" => flow'.tx # 0 /\ anchorTx'[flow'.tx].state = "completed"
    BY <1>2, <2>2 DEF Outcome, IsCompleted
  <2>6. \A u \in Slots : At(u, "anchor", "answered")' /\ calls'[u].seen = "completed" =>
          anchorTx'[calls'[u].id].state = "completed"
    <3>1. \A u \in Slots : At(u, "anchor", "answered")' => At(u, "anchor", "answered") /\ calls'[u] = calls[u]
      OBVIOUS
    <3>2. \A u \in Slots : At(u, "anchor", "answered") /\ calls[u].seen = "completed" =>
            calls[u].id \in 1 .. Len(anchorTx) /\ anchorTx[calls[u].id].state = "completed"
      BY <2>1 DEF Outcome, IsCompleted
    <3>. QED BY <1>2, <3>1, <3>2
  <2>. QED BY <2>4, <2>5, <2>6 DEF Outcome, IsCompleted
<1>. QED BY <1>5, <1>6, <1>7, <1>8, <1>9

(* A call is answered or fails and nothing else changes; a payment that was *)
(* made is not unheard of.                                                  *)
AnchorServed(s, pc, seen) ==
  /\ calls[s] # None
  /\ pc \in {"answered", "error"} /\ seen \in AnchorState \cup Nat \cup {None}
  /\ calls' = [calls EXCEPT ![s] = [calls[s] EXCEPT !.pc = pc, !.seen = seen]]
  /\ UNCHANGED <<flow, anchorTx, number>>
  /\ muddled' \in BOOLEAN
  /\ muddled \/ At(s, "submit", "answered") => muddled'
  /\ calls[s].kind \in {"start", "submit"} => pc = "error"
  /\ pc = "answered" /\ seen = "completed" /\ calls[s].kind = "anchor" =>
       anchorTx[calls[s].id].state = seen

LEMMA CashOutServed ==
  ASSUME CashOutInv, NEW s \in Slots, NEW pc, NEW seen, AnchorServed(s, pc, seen)
  PROVE  CashOutInv'
<1>. USE DEF AnchorServed
<1>. USE DEF CashOutInv
<1>. DEFINE new == [calls[s] EXCEPT !.pc = pc, !.seen = seen]
<1>1. calls[s] \in CashOutCall
  BY DEF CashOutTypes
<1>2. /\ new \in CashOutCall /\ new.kind = calls[s].kind /\ new.id = calls[s].id
      /\ new.pc = pc /\ new.here = calls[s].here
  BY <1>1 DEF CashOutCall
<1>3. calls' \in [Slots -> CashOutCall \cup {None}] /\ Becomes(s, new)
  BY <1>1, <1>2, AnsweredCall DEF CashOutTypes
<1>. HIDE DEF new
<1>. USE <1>2, <1>3 DEF Becomes, Here, IsCall, At, Sends
<1>5. CashOutTypes'
  BY DEF CashOutTypes
<1>6. AnchorTxExist'
  BY DEF AnchorTxExist, NamesAnchorTx
<1>7. Starting'
  BY DEF Starting
<1>8. SendingOnce'
  BY DEF SendingOnce, Before
<1>9. Outcome'
  BY DEF Outcome, IsCompleted
<1>. QED BY <1>5, <1>6, <1>7, <1>8, <1>9

LEMMA CashOutAnswers ==
  ASSUME CashOutInv, NEW s \in Slots,
         BuildPayment(s) \/ ReadAnchor(s) \/ AnchorCallFails(s)
  PROVE  CashOutInv'
<1>1. calls[s] # None /\ calls[s] \in CashOutCall
  BY DEF CashOutInv, CashOutTypes, BuildPayment, ReadAnchor, AnchorCallFails, CanBreak, At
<1>2. CASE BuildPayment(s)
  <2>1. calls' = [calls EXCEPT ![s] = [calls[s] EXCEPT !.pc = "answered", !.seen = number + 1]]
    BY <1>1, <1>2 DEF BuildPayment, Answered, CashOutCall, CashOutInv, CashOutTypes
  <2>2. number + 1 \in Nat /\ calls[s].kind = "build" /\ muddled' = muddled
    BY <1>2 DEF BuildPayment, At, CashOutInv, CashOutTypes
  <2>3. muddled' \in BOOLEAN /\ UNCHANGED <<flow, anchorTx, number>>
    BY <1>2 DEF BuildPayment, CashOutInv, CashOutTypes
  <2>4. AnchorServed(s, "answered", number + 1)
    BY <1>1, <2>1, <2>2, <2>3 DEF AnchorServed, At
  <2>. QED BY <2>4, CashOutServed
<1>3. CASE ReadAnchor(s)
  <2>. DEFINE state == anchorTx[calls[s].id].state
  <2>1. calls' = [calls EXCEPT ![s] = [calls[s] EXCEPT !.pc = "answered", !.seen = state]]
    BY <1>1, <1>3 DEF ReadAnchor, Answered, CashOutCall, CashOutInv, CashOutTypes
  <2>2. calls[s].kind = "anchor" /\ muddled' = muddled
    BY <1>3 DEF ReadAnchor, At
  <2>3. state \in AnchorState
    <3>1. calls[s].id \in 1 .. Len(anchorTx)
      BY <2>2, <1>1 DEF CashOutInv, AnchorTxExist, NamesAnchorTx, IsCall
    <3>2. anchorTx[calls[s].id] \in AnchorRow
      BY <3>1, AnchorRows
    <3>. QED BY <3>2 DEF AnchorRow
  <2>. HIDE DEF state
  <2>4. muddled' \in BOOLEAN /\ UNCHANGED <<flow, anchorTx, number>>
    BY <1>3 DEF ReadAnchor, CashOutInv, CashOutTypes
  <2>5. AnchorServed(s, "answered", state)
    BY <1>1, <2>1, <2>2, <2>3, <2>4 DEF AnchorServed, At, state
  <2>. QED BY <2>5, CashOutServed
<1>4. CASE AnchorCallFails(s)
  <2>1. calls' = [calls EXCEPT ![s] = [calls[s] EXCEPT !.pc = "error", !.seen = calls[s].seen]]
    BY <1>1, <1>4 DEF AnchorCallFails, Broken, CashOutCall, CashOutInv, CashOutTypes
  <2>2. muddled' \in BOOLEAN /\ muddled' = (muddled \/ At(s, "submit", "answered"))
    BY <1>4 DEF AnchorCallFails, At, CashOutInv, CashOutTypes
  <2>3. calls[s].seen \in AnchorState \cup Nat \cup {None}
    BY <1>1 DEF CashOutCall
  <2>4. UNCHANGED <<flow, anchorTx, number>>
    BY <1>4 DEF AnchorCallFails
  <2>5. AnchorServed(s, "error", calls[s].seen)
    BY <1>1, <2>1, <2>2, <2>3, <2>4 DEF AnchorServed
  <2>. QED BY <2>5, CashOutServed
<1>. QED BY <1>2, <1>3, <1>4

(* The payment reaches the anchor, which was not paid before. *)
LEMMA CashOutSubmit ==
  ASSUME CashOutInv, NEW s \in Slots, SubmitPayment(s)
  PROVE  CashOutInv'
<1>. USE DEF CashOutInv
<1>1. /\ calls[s] \in CashOutCall /\ At(s, "submit", "sent")
      /\ UNCHANGED <<flow, muddled>>
  BY DEF CashOutTypes, SubmitPayment, At
<1>a. CASE calls[s].seen # number + 1
  <2>1. calls' = [calls EXCEPT ![s] = [calls[s] EXCEPT !.pc = "error", !.seen = calls[s].seen]]
    BY <1>1, <1>a DEF SubmitPayment, Broken, CashOutCall, CashOutTypes
  <2>2. calls[s].seen \in AnchorState \cup Nat \cup {None}
    BY <1>1 DEF CashOutCall
  <2>3. UNCHANGED <<flow, anchorTx, number, muddled>> /\ calls[s] # None
    BY <1>1, <1>a DEF SubmitPayment, At
  <2>4. muddled' \in BOOLEAN
    BY <2>3 DEF CashOutTypes
  <2>5. AnchorServed(s, "error", calls[s].seen)
    BY <1>1, <2>1, <2>2, <2>3, <2>4 DEF AnchorServed, At
  <2>. QED BY <2>5, CashOutServed
<1>b. CASE calls[s].seen = number + 1
  <2>. DEFINE new == [calls[s] EXCEPT !.pc = "answered", !.seen = None]
  <2>0. PICK tx \in 1 .. Len(anchorTx) : tx = calls[s].id
    BY <1>1 DEF AnchorTxExist, NamesAnchorTx, IsCall, At, Sends
  <2>1. /\ number' = number + 1
        /\ anchorTx' = [anchorTx EXCEPT
             ![tx].received = @ + 1, ![tx].state = IF @ = "pending" THEN "paid" ELSE @]
    BY <1>b, <2>0 DEF SubmitPayment
  <2>2. anchorTx[tx] \in AnchorRow
    BY AnchorRows
  <2>3. /\ anchorTx' \in Seq(AnchorRow) /\ Len(anchorTx') = Len(anchorTx)
        /\ anchorTx'[tx].received = anchorTx[tx].received + 1
        /\ \A t \in 1 .. Len(anchorTx) : t # tx => anchorTx'[t] = anchorTx[t]
        /\ IsCompleted(tx) => anchorTx'[tx].state = "completed"
    <3>1. PICK state \in AnchorState :
            state = IF anchorTx[tx].state = "pending" THEN "paid" ELSE anchorTx[tx].state
      BY <2>2 DEF AnchorRow, AnchorState
    <3>0. anchorTx[tx].received + 1 \in Nat
      BY <2>2 DEF AnchorRow
    <3>. DEFINE n == anchorTx[tx].received + 1
                row == [anchorTx[tx] EXCEPT !.received = n, !.state = state]
    <3>. HIDE DEF n
    <3>2. row \in AnchorRow /\ row.received = n /\ row.state = state
      BY <2>2, <3>0 DEF AnchorRow, n
    <3>3. anchorTx' = [anchorTx EXCEPT ![tx] = row]
      BY <2>1, <2>2, <3>1, AnchorRows DEF CashOutTypes, AnchorRow, n
    <3>. HIDE DEF row
    <3>. QED BY <3>2, <3>3, <3>1, AnchorRowChanges DEF n, IsCompleted
  <2>4. /\ new \in CashOutCall /\ new.kind = "submit" /\ new.pc = "answered" /\ new.id = tx
        /\ new.here = calls[s].here
    BY <1>1, <2>0 DEF CashOutCall, At
  <2>5. calls' \in [Slots -> CashOutCall \cup {None}] /\ Becomes(s, new)
    <3>1. calls' = [calls EXCEPT ![s] = new]
      BY <1>1, <1>b DEF SubmitPayment, Answered, CashOutCall, CashOutTypes
    <3>. QED BY <1>1, <2>4, <3>1, AnsweredCall DEF CashOutTypes
  <2>. HIDE DEF new
  <2>. USE <1>1, <2>4, <2>5 DEF Becomes, Here, IsCall, At, Sends
  <2>6. CashOutTypes'
    BY <2>1, <2>3 DEF CashOutTypes, AnchorRow
  <2>7. AnchorTxExist'
    BY <2>0, <2>3 DEF AnchorTxExist, NamesAnchorTx
  <2>8. Starting'
    <3>1. ASSUME NEW t \in Slots \ {s}, Here(t, "start"), calls[t].pc = "answered"
          PROVE  calls[t].id \in 1 .. Len(anchorTx) /\ calls[t].id # tx
      BY <2>0, <3>1 DEF Starting, AnchorTxExist, NamesAnchorTx
    <3>. QED BY <2>0, <2>3, <3>1 DEF Starting
  <2>9. SendingOnce'
    <3>1. ~muddled => anchorTx'[tx].received = 1
      BY <2>0, <2>3 DEF SendingOnce
    <3>2. \A t \in Slots : Sends(t) => calls[t].id \in 1 .. Len(anchorTx)
      BY DEF AnchorTxExist, NamesAnchorTx
    <3>3. flow.phase \in Before => flow.tx \in 1 .. Len(anchorTx)
      BY AnchorRows DEF AnchorTxExist, Before
    <3>4. ~muddled /\ flow.phase \in Before => flow.tx # tx
      BY <2>0 DEF SendingOnce, Before
    <3>5. ~muddled => \A t \in Slots \ {s} : Sends(t) => calls[t].id # tx
      BY <2>0 DEF SendingOnce
    <3>. QED BY <2>0, <2>3, <3>1, <3>2, <3>3, <3>4, <3>5 DEF SendingOnce
  <2>10. Outcome'
    <3>1. anchorTx[tx].received + 1 # 0
      BY <2>2 DEF AnchorRow
    <3>2. \A u \in Slots : IsCall(u, "anchor") => calls[u].id \in 1 .. Len(anchorTx)
      BY DEF AnchorTxExist, NamesAnchorTx
    <3>3. flow.phase = "done" => flow.tx \in 1 .. Len(anchorTx)
      BY AnchorRows DEF AnchorTxExist, Outcome
    <3>. QED BY <2>0, <2>3, <3>1, <3>2, <3>3 DEF Outcome, IsCompleted
  <2>. QED BY <2>6, <2>7, <2>8, <2>9, <2>10
<1>. QED BY <1>a, <1>b

LEMMA CashOutAnchorMoves ==
  ASSUME CashOutInv, NEW t \in DOMAIN anchorTx, AnchorMoves(t)
  PROVE  CashOutInv'
<1>. USE DEF CashOutInv
<1>1. /\ UNCHANGED <<flow, number, muddled, calls>>
      /\ anchorTx' \in Seq([state : AnchorState, received : Nat])
      /\ Len(anchorTx') = Len(anchorTx)
      /\ \A u \in 1 .. Len(anchorTx) :
           /\ anchorTx'[u].received = anchorTx[u].received
           /\ IsCompleted(u) => anchorTx'[u].state = "completed"
           /\ anchorTx'[u].state \in {"paid", "completed"} =>
                anchorTx[u].state \in {"paid", "completed"}
  <2>1. PICK to \in AnchorState :
          /\ anchorTx' = [anchorTx EXCEPT ![t].state = to]
          /\ anchorTx[t].state # "completed"
          /\ to \in {"paid", "completed"} => anchorTx[t].state = "paid"
    BY DEF AnchorMoves
  <2>2. t \in 1 .. Len(anchorTx) /\ anchorTx[t] \in AnchorRow
    BY AnchorRows
  <2>. DEFINE row == [anchorTx[t] EXCEPT !.state = to]
  <2>3. row \in AnchorRow /\ row.received = anchorTx[t].received /\ row.state = to
    BY <2>2 DEF AnchorRow
  <2>4. anchorTx' = [anchorTx EXCEPT ![t] = row]
    BY <2>1
  <2>. HIDE DEF row
  <2>5. /\ anchorTx' \in Seq(AnchorRow) /\ Len(anchorTx') = Len(anchorTx)
        /\ anchorTx'[t] = row
        /\ \A u \in 1 .. Len(anchorTx) : u # t => anchorTx'[u] = anchorTx[u]
    BY <2>2, <2>3, <2>4, AnchorRowChanges
  <2>6. UNCHANGED <<flow, number, muddled, calls>> /\ anchorTx' \in Seq(AnchorRow)
    BY <2>5 DEF AnchorMoves
  <2>. QED BY <2>1, <2>2, <2>3, <2>5, <2>6 DEF AnchorRow, IsCompleted
<1>. USE <1>1 DEF Here, IsCall, At, Sends
<1>2. CashOutTypes'
  BY DEF CashOutTypes
<1>3. AnchorTxExist'
  BY DEF AnchorTxExist, NamesAnchorTx
<1>4. Starting'
  BY DEF Starting, AnchorTxExist, NamesAnchorTx
<1>5. SendingOnce'
  <2>1. \A s \in Slots : Sends(s) => calls[s].id \in 1 .. Len(anchorTx)
    BY DEF AnchorTxExist, NamesAnchorTx
  <2>2. flow.phase \in Before => flow.tx \in 1 .. Len(anchorTx)
    BY AnchorRows DEF AnchorTxExist, Before
  <2>. QED BY <2>1, <2>2 DEF SendingOnce
<1>6. Outcome'
  <2>1. \A u \in Slots : IsCall(u, "anchor") => calls[u].id \in 1 .. Len(anchorTx)
    BY DEF AnchorTxExist, NamesAnchorTx
  <2>2. flow.phase = "done" => flow.tx \in 1 .. Len(anchorTx)
    BY AnchorRows DEF AnchorTxExist, Outcome
  <2>. QED BY <2>1, <2>2 DEF Outcome, IsCompleted
<1>. QED BY <1>2, <1>3, <1>4, <1>5, <1>6

LEMMA CashOutStep ==
  ASSUME CashOutInv, CashOutNext
  PROVE  CashOutInv'
BY CashOutStart, CashOutSend, CashOutPoll, CashOutClose, CashOutTakeStart, CashOutSign,
   CashOutTakeTransfer, CashOutTakeAnchor, CashOutCreate, CashOutAnswers, CashOutSubmit,
   CashOutAnchorMoves
DEF CashOutNext

-----------------------------------------------------------------------------
(* The dialog of a simulated withdrawal keeps its invariant. *)

LEMMA Rows ==
  ASSUME FormInv
  PROVE  /\ Len(rows) \in Nat /\ DOMAIN rows = 1 .. Len(rows)
         /\ \A i \in 1 .. Len(rows) : rows[i] \in Row
         /\ \A s \in Slots : calls[s] # None => calls[s] \in FormCall
<1>1. rows \in Seq(Row)
  BY DEF FormInv, FormTypes
<1>. QED BY <1>1 DEF FormInv, FormTypes

(* A withdrawal is never taken for that of another opening. *)
LEMMA RowChanges ==
  ASSUME FormInv, NEW i \in 1 .. Len(rows), NEW row \in Row, row.by = rows[i].by,
         Completed(i) => row.status = "COMPLETED",
         rows' = [rows EXCEPT ![i] = row]
  PROVE  /\ rows' \in Seq(Row) /\ Len(rows') = Len(rows)
         /\ \A j \in 1 .. Len(rows) : rows'[j].by = rows[j].by
         /\ \A j \in 1 .. Len(rows) : Completed(j) => Completed(j)'
<1>1. rows \in Seq(Row)
  BY DEF FormInv, FormTypes
<1>. QED BY <1>1 DEF Completed

LEMMA FormSubmit ==
  ASSUME FormInv, Submit
  PROVE  FormInv'
<1>. USE DEF FormInv
<1>1. Call("create", 0, opening) \in FormCall
  <2>1. opening \in Nat
    BY FormBounds DEF FormTypes
  <2>. QED BY <2>1 DEF Call, FormCall
<1>2. /\ calls' \in [Slots -> FormCall \cup {None}]
      /\ \E s \in Slots : calls[s] = None /\ Becomes(s, Call("create", 0, opening))
  BY <1>1, AskedCall DEF FormTypes, Submit
<1>3. PICK s \in Slots : calls[s] = None /\ Becomes(s, Call("create", 0, opening))
  BY <1>2
<1>4. /\ form.phase = "form" /\ form' \in Form
      /\ form'.phase = "processing" /\ form'.receipt = form.receipt
      /\ form'.ticking = form.ticking
      /\ UNCHANGED <<rows, opening, unheard>>
  BY DEF Submit, FormTypes, Form
<1>. USE <1>3, <1>4 DEF Becomes, Call, Here, IsCall, At
<1>5. FormTypes'
  BY <1>2 DEF FormTypes
<1>6. ReceiptsExist'
  BY DEF ReceiptsExist, Watching
<1>7. Creating'
  <2>1. opening \in 1 .. opening
    BY FormBounds DEF FormTypes
  <2>2. ~Watching /\ ~Watching'
    BY DEF Creating, Watching
  <2>3. \A t \in Slots : IsCall(t, "create") => calls[t].from # opening
    BY DEF Creating
  <2>. QED BY <2>1, <2>2, <2>3 DEF Creating
<1>8. MakingOnce'
  BY DEF MakingOnce, FormOnce, Unmade
<1>9. Told'
  BY DEF Told, Completed
<1>. QED BY <1>5, <1>6, <1>7, <1>8, <1>9

LEMMA FormPoll ==
  ASSUME FormInv, PollReceipt
  PROVE  FormInv'
<1>. USE DEF FormInv
<1>0. form.ticking /\ form.receipt \in 1 .. Len(rows)
  BY Rows DEF PollReceipt, ReceiptsExist, Watching
<1>1. Call("receipt", form.receipt, 1) \in FormCall
  BY <1>0, Rows DEF Call, FormCall
<1>2. /\ calls' \in [Slots -> FormCall \cup {None}]
      /\ \E s \in Slots : calls[s] = None /\ Becomes(s, Call("receipt", form.receipt, 1))
  BY <1>1, AskedCall DEF FormTypes, PollReceipt
<1>3. PICK s \in Slots : calls[s] = None /\ Becomes(s, Call("receipt", form.receipt, 1))
  BY <1>2
<1>4. /\ form' \in Form /\ form'.phase = form.phase /\ form'.receipt = form.receipt
      /\ form'.ticking = form.ticking /\ UNCHANGED <<rows, opening, unheard>>
  <2>. DEFINE n == IF form.polls < MaxReceipts THEN form.polls + 1 ELSE form.polls
  <2>1. n \in 0 .. MaxReceipts
    <3>1. form.polls \in 0 .. MaxReceipts
      BY DEF FormTypes, Form
    <3>. QED BY <3>1, FormBounds
  <2>2. form' = [form EXCEPT !.polls = n] /\ UNCHANGED <<rows, opening, unheard>>
    BY DEF PollReceipt
  <2>. HIDE DEF n
  <2>. QED BY <2>1, <2>2 DEF FormTypes, Form
<1>. USE <1>3, <1>4 DEF Becomes, Call, Here, IsCall, At
<1>5. FormTypes'
  BY <1>2 DEF FormTypes
<1>6. ReceiptsExist'
  BY <1>0 DEF ReceiptsExist, Watching
<1>7. Creating'
  BY <1>0 DEF Creating, Watching
<1>8. MakingOnce'
  BY DEF MakingOnce, FormOnce, Unmade
<1>9. Told'
  BY DEF Told, Completed
<1>. QED BY <1>5, <1>6, <1>7, <1>8, <1>9

LEMMA FormTakeCreated ==
  ASSUME FormInv, NEW s \in Slots, TakeCreated(s)
  PROVE  FormInv'
<1>. USE DEF FormInv
<1>2. calls' \in [Slots -> FormCall \cup {None}] /\ Becomes(s, None)
  BY TakenCall DEF FormTypes, TakeCreated
<1>3. IsCall(s, "create") /\ calls[s] \in FormCall /\ UNCHANGED <<rows, opening, unheard>>
  BY Rows DEF TakeCreated, At, IsCall
<1>. USE DEF Becomes, Here, IsCall, At
<1>4. /\ form' \in Form
      /\ ~calls[s].here => form' = form
      /\ calls[s].here /\ calls[s].pc = "answered" =>
           form'.phase = form.phase /\ form'.receipt = calls[s].id /\ form'.ticking = TRUE
      /\ calls[s].here /\ calls[s].pc = "error" =>
           form'.phase = "form" /\ form'.receipt = form.receipt /\ form'.ticking = form.ticking
  <2>1. 0 \in 0 .. MaxReceipts /\ calls[s].id \in Nat /\ calls[s].here \in BOOLEAN
    BY <1>3, FormBounds DEF FormCall
  <2>2. CASE At(s, "create", "answered")
    BY <2>1, <2>2 DEF TakeCreated, ShowForm, FormTypes, Form
  <2>3. CASE At(s, "create", "error")
    BY <2>3 DEF TakeCreated, ShowForm, FormTypes, Form
  <2>. QED BY <2>2, <2>3 DEF TakeCreated
<1>0. calls[s].pc \in {"answered", "error"}
  BY DEF TakeCreated
<1>5. FormTypes'
  BY <1>2, <1>3, <1>4 DEF FormTypes
<1>6. ReceiptsExist'
  BY <1>0, <1>2, <1>3, <1>4, Rows DEF ReceiptsExist, Watching
<1>7. Creating'
  BY <1>0, <1>2, <1>3, <1>4 DEF Creating, Watching
<1>8. MakingOnce'
  BY <1>0, <1>2, <1>3, <1>4 DEF MakingOnce, FormOnce, Unmade, Creating
<1>9. Told'
  <2>1. calls[s].here => form.phase = "processing" /\ ~Watching
    BY <1>3 DEF Creating
  <2>. QED BY <1>0, <1>2, <1>3, <1>4, <2>1 DEF Told, Completed, Watching
<1>. QED BY <1>5, <1>6, <1>7, <1>8, <1>9

(* The calls of a reading that is over: it is gone, others may be marked.  *)
LEMMA FormTakeReceipt ==
  ASSUME FormInv, NEW s \in Slots, TakeReceipt(s)
  PROVE  FormInv'
<1>. USE DEF FormInv
<1>0. /\ calls[s] # None /\ calls[s] \in FormCall /\ calls[s].kind = "receipt"
      /\ calls[s].id \in 1 .. Len(rows)
      /\ UNCHANGED <<rows, opening, unheard>>
  BY Rows DEF TakeReceipt, At, ReceiptsExist, IsCall
<1>1. /\ form' \in Form /\ form'.receipt = form.receipt
      /\ ~calls[s].here => form' = form
      /\ form'.phase \in {form.phase, "done"}
      /\ form'.phase = "done" => form.phase = "done" \/ calls[s].here
      /\ form'.ticking => form.ticking \/ calls[s].here
  <2>1. 0 \in 0 .. MaxReceipts /\ calls[s].here \in BOOLEAN /\ TooLong(s) \in BOOLEAN
    BY <1>0, FormBounds DEF FormCall, TooLong
  <2>2. form \in Form
    BY DEF FormTypes
  <2>3. CASE At(s, "receipt", "answered") /\ calls[s].seen = "COMPLETED"
    <3>1. form' = IF calls[s].here THEN [form EXCEPT !.phase = "done", !.ticking = FALSE] ELSE form
      BY <2>3 DEF TakeReceipt, ShowForm, At
    <3>. QED BY <2>1, <2>2, <3>1 DEF Form
  <2>4. CASE At(s, "receipt", "answered") /\ calls[s].seen = "PROCESSING"
    <3>. DEFINE n == IF form.phase = "processing" THEN 0 ELSE form.polls
                late == form.timedOut \/ TooLong(s)
                ticks == form.phase = "processing"
    <3>1. form' = IF calls[s].here
                  THEN [form EXCEPT !.timedOut = late, !.polls = n, !.ticking = ticks]
                  ELSE form
      BY <2>4 DEF TakeReceipt, ShowForm, At
    <3>2. n \in 0 .. MaxReceipts /\ late \in BOOLEAN /\ ticks \in BOOLEAN
      BY <2>1, <2>2 DEF Form
    <3>. HIDE DEF n, late, ticks
    <3>. QED BY <2>1, <2>2, <3>1, <3>2 DEF Form
  <2>5. CASE At(s, "receipt", "error")
    <3>. DEFINE late == form.timedOut \/ TooLong(s)
                ticks == form.ticking /\ ~(TooLong(s) /\ calls[s].from = 1)
    <3>1. form' = IF calls[s].here THEN [form EXCEPT !.timedOut = late, !.ticking = ticks]
                  ELSE form
      BY <2>5 DEF TakeReceipt, ShowForm, At
    <3>2. late \in BOOLEAN /\ ticks \in BOOLEAN /\ (ticks => form.ticking)
      BY <2>1, <2>2 DEF Form
    <3>. HIDE DEF late, ticks
    <3>. QED BY <2>1, <2>2, <3>1, <3>2 DEF Form
  <2>. QED BY <2>3, <2>4, <2>5 DEF TakeReceipt
<1>2. /\ calls' \in [Slots -> FormCall \cup {None}] /\ calls'[s] = None
      /\ \A t \in Slots \ {s} :
           /\ IsCall(t, "receipt") => calls'[t].kind = "receipt"
                /\ calls'[t].id = calls[t].id /\ calls'[t].here = calls[t].here
                /\ calls'[t].pc = calls[t].pc /\ calls'[t].seen = calls[t].seen
           /\ ~IsCall(t, "receipt") => calls'[t] = calls[t]
  <2>1. CASE calls' = Taken(s)
    BY <2>1, TakenCall DEF Becomes, FormTypes, IsCall
  <2>2. CASE calls' = [t \in Slots |->
          IF t = s THEN None
          ELSE IF IsPoll(t) /\ calls[s].here THEN [calls[t] EXCEPT !.from = 0] ELSE calls[t]]
    <3>1. calls'[s] = None
      BY <2>2
    <3>2. ASSUME NEW t \in Slots \ {s}
          PROVE  /\ calls'[t] \in FormCall \cup {None}
                 /\ IsCall(t, "receipt") => calls'[t].kind = "receipt"
                      /\ calls'[t].id = calls[t].id /\ calls'[t].here = calls[t].here
                      /\ calls'[t].pc = calls[t].pc /\ calls'[t].seen = calls[t].seen
                 /\ ~IsCall(t, "receipt") => calls'[t] = calls[t]
      <4>1. CASE IsPoll(t) /\ calls[s].here
        <5>1. calls[t] \in FormCall /\ calls'[t] = [calls[t] EXCEPT !.from = 0]
          BY <2>2, <4>1, Rows DEF IsPoll
        <5>2. calls'[t] \in FormCall /\ calls'[t].kind = "receipt"
              /\ calls'[t].id = calls[t].id /\ calls'[t].here = calls[t].here
              /\ calls'[t].pc = calls[t].pc /\ calls'[t].seen = calls[t].seen
          BY <4>1, <5>1 DEF FormCall, IsPoll
        <5>. QED BY <4>1, <5>2 DEF IsPoll, IsCall
      <4>2. CASE ~(IsPoll(t) /\ calls[s].here)
        BY <2>2, <4>2 DEF FormTypes, IsCall
      <4>. QED BY <4>1, <4>2
    <3>. QED BY <2>2, <3>1, <3>2
  <2>. QED BY <2>1, <2>2 DEF TakeReceipt
<1>. USE DEF Here, IsCall, At
<1>5. FormTypes'
  BY <1>0, <1>1, <1>2 DEF FormTypes
<1>6. ReceiptsExist'
  BY <1>0, <1>1, <1>2 DEF ReceiptsExist, Watching
<1>7. Creating'
  BY <1>0, <1>1, <1>2 DEF Creating, Watching
<1>8. MakingOnce'
  BY <1>0, <1>1, <1>2 DEF MakingOnce, FormOnce, Unmade
<1>9. Told'
  <2>1. form'.phase = "done" => form.phase = "done" \/ Completed(form.receipt)
    BY <1>0 DEF TakeReceipt, ShowForm, Told, FormTypes, Form
  <2>. QED BY <1>0, <1>1, <1>2, <2>1 DEF Told, Completed
<1>. QED BY <1>5, <1>6, <1>7, <1>8, <1>9

LEMMA FormReopen ==
  ASSUME FormInv, Reopen
  PROVE  FormInv'
<1>. USE DEF FormInv
<1>1. /\ form' \in Form /\ form'.phase = "form" /\ form'.receipt = 0 /\ form'.ticking = FALSE
      /\ UNCHANGED <<rows, unheard>> /\ opening' = opening + 1 /\ opening < MaxOpenings
  BY FormBounds DEF Reopen, Blank, Form
<1>2. ASSUME NEW s \in Slots, calls[s] # None
      PROVE  /\ calls'[s] \in FormCall /\ ~calls'[s].here
             /\ calls'[s].kind = calls[s].kind /\ calls'[s].id = calls[s].id
             /\ calls'[s].pc = calls[s].pc /\ calls'[s].from = calls[s].from
             /\ calls'[s].seen = calls[s].seen
  <2>1. calls[s] \in FormCall /\ calls'[s] = [calls[s] EXCEPT !.here = FALSE]
    BY <1>2, Rows DEF Reopen, Orphaned
  <2>. QED BY <2>1 DEF FormCall
<1>3. \A s \in Slots : calls[s] = None => calls'[s] = None
  BY DEF Reopen, Orphaned
<1>4. calls' \in [Slots -> FormCall \cup {None}]
  BY <1>2, <1>3 DEF Reopen, Orphaned
<1>5. opening' \in 1 .. MaxOpenings /\ opening' \notin 1 .. opening
      /\ 1 .. opening \subseteq 1 .. opening'
  BY <1>1, FormBounds DEF FormTypes
<1>. USE DEF Here, IsCall, At
<1>6. FormTypes'
  BY <1>1, <1>4, <1>5 DEF FormTypes
<1>7. ReceiptsExist'
  BY <1>1, <1>2, <1>3, Rows DEF ReceiptsExist, Watching
<1>8. Creating'
  <2>1. ~Watching'
    BY <1>1, <1>2, <1>3 DEF Watching
  <2>. QED BY <1>1, <1>2, <1>3, <1>5, <2>1 DEF Creating
<1>9. MakingOnce'
  <2>1. Unmade(opening')
    BY <1>5 DEF Creating, Unmade
  <2>. QED BY <1>1, <1>2, <1>3, <2>1 DEF MakingOnce, FormOnce, Unmade
<1>10. Told'
  BY <1>1, <1>2, <1>3 DEF Told, Completed
<1>. QED BY <1>6, <1>7, <1>8, <1>9, <1>10

LEMMA FormCreate ==
  ASSUME FormInv, NEW s \in Slots, CreateWithdrawal(s)
  PROVE  FormInv'
<1>. USE DEF FormInv
<1>. DEFINE i == Len(rows) + 1
            new == [calls[s] EXCEPT !.pc = "answered", !.id = i, !.seen = None]
            row == [by |-> calls[s].from, status |-> "PROCESSING", old |-> FALSE]
<1>1. /\ calls[s] \in FormCall /\ calls[s] # None /\ calls[s].kind = "create"
      /\ calls[s].pc = "sent" /\ rows' = Append(rows, row)
      /\ UNCHANGED <<form, opening, unheard>>
  BY Rows DEF CreateWithdrawal, At
<1>2. row \in Row /\ row.by = calls[s].from
  BY <1>1 DEF Row, FormCall
<1>. HIDE DEF row
<1>3. /\ i \in Nat /\ i # 0 /\ i \notin 1 .. Len(rows) /\ i \in 1 .. i
      /\ rows' \in Seq(Row) /\ Len(rows') = i
      /\ 1 .. Len(rows') = 1 .. Len(rows) \cup {i}
      /\ 0 .. Len(rows) \subseteq 0 .. Len(rows')
      /\ \A j \in 1 .. Len(rows) : rows'[j] = rows[j]
      /\ rows'[i] = row
  BY <1>1, <1>2, Rows DEF FormTypes
<1>4. /\ new \in FormCall /\ new.kind = "create" /\ new.pc = "answered" /\ new.id = i
      /\ new.here = calls[s].here /\ new.from = calls[s].from
  BY <1>1, <1>3 DEF FormCall
<1>5. calls' \in [Slots -> FormCall \cup {None}] /\ Becomes(s, new)
  <2>1. calls' = [calls EXCEPT ![s] = new]
    BY <1>1 DEF CreateWithdrawal, Answered, FormCall, FormTypes
  <2>. QED BY <1>1, <1>4, <2>1, AnsweredCall DEF FormTypes
<1>. HIDE DEF new, i
<1>. USE <1>1, <1>4, <1>5 DEF Becomes, Here, IsCall, At
<1>6. FormTypes'
  BY <1>3 DEF FormTypes
<1>7. ReceiptsExist'
  <2>1. \A t \in Slots : Here(t, "receipt")' => Here(t, "receipt")
    OBVIOUS
  <2>2. Watching' => Watching
    BY <2>1 DEF Watching
  <2>3. \A t \in Slots : IsCall(t, "receipt")' \/ At(t, "create", "answered")' =>
          calls'[t].id \in 1 .. Len(rows')
    BY <1>3 DEF ReceiptsExist
  <2>. QED BY <1>3, <2>2, <2>3 DEF ReceiptsExist
<1>8. Creating'
  <2>1. \A t \in Slots : Here(t, "receipt")' => Here(t, "receipt")
    OBVIOUS
  <2>2. Watching' => Watching
    BY <2>1 DEF Watching
  <2>3. \A t \in Slots : /\ IsCall(t, "create")' => IsCall(t, "create")
                         /\ calls'[t].from = calls[t].from /\ calls'[t].here = calls[t].here
    OBVIOUS
  <2>4. \A j \in 1 .. Len(rows') : rows'[j].by \in 1 .. opening
    BY <1>2, <1>3 DEF Creating
  <2>. QED BY <2>2, <2>3, <2>4 DEF Creating
<1>9. MakingOnce'
  <2>1. Unmade(calls[s].from) \/ calls[s].from \in unheard
    BY DEF MakingOnce
  <2>2. FormOnce'
    <3>1. ASSUME NEW j \in 1 .. Len(rows'), NEW k \in 1 .. Len(rows'),
                 j # k, rows'[j].by = rows'[k].by
          PROVE  rows'[j].by \in unheard
      BY <1>2, <1>3, <2>1, <3>1, Rows DEF MakingOnce, FormOnce, Unmade
    <3>2. DOMAIN rows' = 1 .. Len(rows')
      BY <1>3
    <3>. QED BY <3>1, <3>2 DEF FormOnce
  <2>3. \A n : n # calls[s].from /\ Unmade(n) => \A j \in 1 .. Len(rows') : rows'[j].by # n
    BY <1>2, <1>3 DEF Unmade
  <2>4. form.phase = "form" => opening # calls[s].from
    BY DEF Creating
  <2>5. \A t \in Slots \ {s} : IsCall(t, "create") => calls[t].from # calls[s].from
    BY DEF Creating
  <2>6. form'.phase = "form" => Unmade(opening)' \/ opening' \in unheard'
    BY <2>3, <2>4 DEF MakingOnce, Unmade
  <2>7. ASSUME NEW t \in Slots, IsCall(t, "create")', calls'[t].pc # "answered"
        PROVE  Unmade(calls[t].from)' \/ calls'[t].from \in unheard'
    <3>1. t # s /\ calls'[t] = calls[t] /\ IsCall(t, "create")
      BY <2>7
    <3>2. calls[t].from # calls[s].from
      BY <2>5, <3>1
    <3>3. Unmade(calls[t].from) \/ calls[t].from \in unheard
      BY <2>7, <3>1 DEF MakingOnce
    <3>4. CASE calls[t].from \in unheard
      BY <3>1, <3>4
    <3>5. CASE Unmade(calls[t].from)
      <4>1. \A j \in 1 .. Len(rows') : rows'[j].by # calls[t].from
        BY <2>3, <3>2, <3>5
      <4>. QED BY <3>1, <4>1 DEF Unmade
    <3>. QED BY <3>3, <3>4, <3>5
  <2>. QED BY <2>2, <2>6, <2>7 DEF MakingOnce
<1>10. Told'
  BY <1>3, Rows DEF Told, Completed, ReceiptsExist
<1>. QED BY <1>6, <1>7, <1>8, <1>9, <1>10

(* A call is answered or fails; a withdrawal that was made is not unheard   *)
(* of.                                                                      *)
FormServed(s, pc, seen) ==
  /\ calls[s] # None
  /\ pc \in {"answered", "error"} /\ seen \in {"PROCESSING", "COMPLETED", None}
  /\ calls' = [calls EXCEPT ![s] = [calls[s] EXCEPT !.pc = pc, !.seen = seen]]
  /\ UNCHANGED <<form, opening>>
  /\ rows' \in Seq(Row) /\ Len(rows') = Len(rows)
  /\ \A j \in 1 .. Len(rows) :
       rows'[j].by = rows[j].by /\ (Completed(j) => rows'[j].status = "COMPLETED")
  /\ pc = "answered" /\ seen = "COMPLETED" => rows'[calls[s].id].status = "COMPLETED"
  /\ unheard \subseteq unheard' /\ unheard' \subseteq 1 .. MaxOpenings
  /\ calls[s].kind = "create" =>
       pc = "error" /\ (calls[s].pc = "answered" => calls[s].from \in unheard')

LEMMA FormAnswered ==
  ASSUME FormInv, NEW s \in Slots, NEW pc, NEW seen, FormServed(s, pc, seen)
  PROVE  FormInv'
<1>. USE DEF FormInv, FormServed
<1>. DEFINE new == [calls[s] EXCEPT !.pc = pc, !.seen = seen]
<1>1. calls[s] \in FormCall
  BY Rows
<1>2. /\ new \in FormCall /\ new.kind = calls[s].kind /\ new.id = calls[s].id
      /\ new.pc = pc /\ new.here = calls[s].here /\ new.from = calls[s].from
  BY <1>1 DEF FormCall
<1>3. calls' \in [Slots -> FormCall \cup {None}] /\ Becomes(s, new)
  BY <1>1, <1>2, AnsweredCall DEF FormTypes
<1>. HIDE DEF new
<1>. USE <1>2, <1>3 DEF Becomes, Here, IsCall, At
<1>5. FormTypes'
  BY DEF FormTypes
<1>6. ReceiptsExist'
  BY DEF ReceiptsExist, Watching
<1>7. Creating'
  BY DEF Creating, Watching
<1>8. MakingOnce'
  <2>1. DOMAIN rows = 1 .. Len(rows) /\ DOMAIN rows' = 1 .. Len(rows)
    BY Rows
  <2>2. FormOnce'
    BY <2>1 DEF MakingOnce, FormOnce
  <2>3. \A n : Unmade(n) => \A j \in 1 .. Len(rows') : rows'[j].by # n
    BY DEF Unmade
  <2>. QED BY <2>2, <2>3 DEF MakingOnce, Unmade
<1>9. Told'
  BY Rows DEF Told, Completed, ReceiptsExist
<1>. QED BY <1>5, <1>6, <1>7, <1>8, <1>9

LEMMA FormRead ==
  ASSUME FormInv, NEW s \in Slots, GetWithdrawal(s)
  PROVE  FormInv'
<1>. USE DEF FormInv
<1>1. calls[s] # None /\ calls[s] \in FormCall /\ calls[s].kind = "receipt"
      /\ UNCHANGED <<form, opening, unheard>>
  BY Rows DEF GetWithdrawal, At
<1>2. PICK i \in 1 .. Len(rows) : i = calls[s].id
  BY <1>1 DEF ReceiptsExist, IsCall
<1>3. PICK status : status = IF rows[i].old THEN "COMPLETED" ELSE rows[i].status
  OBVIOUS
<1>4. /\ rows' = [rows EXCEPT ![i].status = status]
      /\ calls' = Answered(s, calls[s].id, status)
  BY <1>2, <1>3 DEF GetWithdrawal
<1>5. status \in {"PROCESSING", "COMPLETED"} /\ rows[i] \in Row
  BY <1>3, Rows DEF Row
<1>6. /\ rows' \in Seq(Row) /\ Len(rows') = Len(rows)
      /\ \A j \in 1 .. Len(rows) :
           rows'[j].by = rows[j].by /\ (Completed(j) => rows'[j].status = "COMPLETED")
      /\ rows'[i].status = status
  <2>. DEFINE row == [rows[i] EXCEPT !.status = status]
  <2>1. row \in Row /\ row.by = rows[i].by /\ (Completed(i) => row.status = "COMPLETED")
        /\ row.status = status
    BY <1>3, <1>5 DEF Row, Completed
  <2>2. rows' = [rows EXCEPT ![i] = row]
    BY <1>4
  <2>. HIDE DEF row
  <2>. QED BY <2>1, <2>2, RowChanges, Rows DEF Completed
<1>7. calls' = [calls EXCEPT ![s] = [calls[s] EXCEPT !.pc = "answered", !.seen = status]]
  BY <1>1, <1>4 DEF Answered, FormCall, FormTypes
<1>8. unheard \subseteq 1 .. MaxOpenings
  BY DEF FormTypes
<1>9. FormServed(s, "answered", status)
  BY <1>1, <1>2, <1>5, <1>6, <1>7, <1>8 DEF FormServed
<1>. QED BY <1>9, FormAnswered

LEMMA FormFails ==
  ASSUME FormInv, NEW s \in Slots, FormCallFails(s)
  PROVE  FormInv'
<1>. USE DEF FormInv
<1>1. calls[s] # None /\ calls[s] \in FormCall /\ calls[s].seen \in {"PROCESSING", "COMPLETED", None}
      /\ UNCHANGED <<form, opening, rows>>
  BY Rows DEF FormCallFails, CanBreak, FormCall
<1>2. calls' = [calls EXCEPT ![s] = [calls[s] EXCEPT !.pc = "error", !.seen = calls[s].seen]]
  BY <1>1 DEF FormCallFails, Broken, FormCall, FormTypes
<1>3. rows \in Seq(Row) /\ unheard \subseteq 1 .. MaxOpenings
  BY DEF FormTypes
<1>4. /\ unheard \subseteq unheard' /\ unheard' \subseteq 1 .. MaxOpenings
      /\ calls[s].kind = "create" /\ calls[s].pc = "answered" => calls[s].from \in unheard'
  <2>1. CASE At(s, "create", "answered")
    <3>1. calls[s].from \in 1 .. opening
      BY <2>1 DEF Creating, IsCall, At
    <3>2. calls[s].from \in 1 .. MaxOpenings
      BY <3>1, FormBounds DEF FormTypes
    <3>. QED BY <1>3, <2>1, <3>2 DEF FormCallFails
  <2>2. CASE ~At(s, "create", "answered")
    BY <1>1, <1>3, <2>2 DEF FormCallFails, At
  <2>. QED BY <2>1, <2>2
<1>5. FormServed(s, "error", calls[s].seen)
  BY <1>1, <1>2, <1>3, <1>4 DEF FormServed, Completed
<1>. QED BY <1>5, FormAnswered

LEMMA FormAge ==
  ASSUME FormInv, NEW i \in DOMAIN rows, Age(i)
  PROVE  FormInv'
<1>. USE DEF FormInv
<1>1. i \in 1 .. Len(rows) /\ rows[i] \in Row /\ UNCHANGED <<form, opening, unheard, calls>>
  BY Rows DEF Age
<1>2. /\ rows' \in Seq(Row) /\ Len(rows') = Len(rows)
      /\ \A j \in 1 .. Len(rows) : rows'[j].by = rows[j].by
      /\ \A j \in 1 .. Len(rows) : Completed(j) => Completed(j)'
  <2>. DEFINE row == [rows[i] EXCEPT !.old = TRUE]
  <2>1. row \in Row /\ row.by = rows[i].by /\ (Completed(i) => row.status = "COMPLETED")
    BY <1>1 DEF Row, Completed
  <2>2. rows' = [rows EXCEPT ![i] = row]
    BY DEF Age
  <2>. HIDE DEF row
  <2>. QED BY <1>1, <2>1, <2>2, RowChanges
<1>. USE <1>1, <1>2 DEF Here, IsCall, At
<1>3. FormTypes'
  BY DEF FormTypes
<1>4. ReceiptsExist' /\ Creating'
  BY DEF ReceiptsExist, Creating, Watching
<1>5. MakingOnce'
  <2>1. DOMAIN rows = 1 .. Len(rows) /\ DOMAIN rows' = 1 .. Len(rows)
    BY Rows
  <2>2. FormOnce'
    BY <2>1 DEF MakingOnce, FormOnce
  <2>. QED BY <2>2 DEF MakingOnce, Unmade
<1>6. Told'
  BY Rows DEF Told, ReceiptsExist
<1>. QED BY <1>3, <1>4, <1>5, <1>6

LEMMA FormStep ==
  ASSUME FormInv, FormNext
  PROVE  FormInv'
BY FormSubmit, FormPoll, FormReopen, FormTakeCreated, FormTakeReceipt, FormCreate, FormRead,
   FormFails, FormAge
DEF FormNext, FormTake, FormServe

-----------------------------------------------------------------------------
(* The tab. *)

LEMMA InvInit ==
  ASSUME Init
  PROVE  Inv
<1>1. calls = Forgotten
  BY DEF Init, CheckoutInit
<1>2. Mounted \in Page /\ page = Mounted /\ saved = 0 /\ orders = <<>> /\ strayed = FALSE
      /\ visits = 0
  BY CheckoutBounds DEF Init, CheckoutInit, Mounted, Page
<1>3. CheckoutInv
  <2>1. page.buy = "idle" /\ page.order = 0 /\ page.ticking = FALSE
    BY <1>2 DEF Mounted
  <2>2. CheckoutTypes
    <3>1. orders \in Seq(OrderStatus) /\ 0 \in 0 .. MaxVisits
      BY <1>2, CheckoutBounds
    <3>2. calls \in [Slots -> CheckoutCall \cup {None}]
      BY <1>1 DEF Forgotten
    <3>. QED BY <1>2, <3>1, <3>2 DEF CheckoutTypes
  <2>. QED BY <1>1, <1>2, <2>1, <2>2
       DEF CheckoutInv, OrdersExist, NamesOrders, OneAtATime, NewOrder, HeardIsTrue,
           CardIsTrue, OnTrack, Here, IsCall, At, Forgotten
<1>4. flow = Opened /\ anchorTx = <<>> /\ number = 0 /\ muddled = FALSE
  BY DEF Init, CashOutInit
<1>5. CashOutInv
  <2>1. Opened \in Flow /\ Opened.phase = "form" /\ Opened.tx = 0 /\ Opened.ticking = FALSE
    BY CashOutBounds DEF Opened, Flow, Phases
  <2>2. CashOutTypes
    <3>1. anchorTx \in Seq([state : AnchorState, received : Nat])
      BY <1>4
    <3>2. calls \in [Slots -> CashOutCall \cup {None}]
      BY <1>1 DEF Forgotten
    <3>. QED BY <1>4, <2>1, <3>1, <3>2 DEF CashOutTypes
  <2>. QED BY <1>1, <1>4, <2>1, <2>2
       DEF CashOutInv, AnchorTxExist, NamesAnchorTx, Starting, SendingOnce, Sends, Before,
           Outcome, Here, IsCall, At, Forgotten
<1>6. form = Blank /\ rows = <<>> /\ opening = 1 /\ unheard = {}
  BY DEF Init, FormInit
<1>7. FormInv
  <2>1. Blank \in Form /\ Blank.phase = "form" /\ Blank.receipt = 0 /\ Blank.ticking = FALSE
    BY FormBounds DEF Blank, Form
  <2>2. FormTypes
    BY <1>1, <1>6, <2>1, FormBounds DEF FormTypes, Forgotten
  <2>. QED BY <1>1, <1>6, <2>1, <2>2
       DEF FormInv, ReceiptsExist, Creating, Watching, MakingOnce, FormOnce, Unmade,
           Told, Here, IsCall, At, Forgotten
<1>8. ProductsInv /\ SiteInv
  BY ProductsStart, SiteStart DEF Init
<1>9. shelf = <<>> /\ desk = Cleared /\ draft = NewDraft /\ sheets = 0
      /\ crossed = {} /\ untold = {}
  BY DEF Init, ProductsInit
<1>10. editor = Unloaded /\ site = 0 /\ typed = 0 /\ mounts = 0 /\ bypassed = FALSE
  BY DEF Init, SiteInit
<1>. QED BY <1>2, <1>3, <1>4, <1>5, <1>6, <1>7, <1>8, <1>9, <1>10 DEF Inv, Init

LEMMA InvStutters ==
  ASSUME Inv, UNCHANGED pagesVars
  PROVE  Inv'
<1>. USE DEF Inv, pagesVars, Here, IsCall, At
<1>1. CheckoutInv => CheckoutInv'
  BY DEF CheckoutInv, CheckoutTypes, OrdersExist, NamesOrders, OneAtATime, NewOrder,
         HeardIsTrue, CardIsTrue, IsPaid, OnTrack
<1>2. CashOutInv => CashOutInv'
  BY DEF CashOutInv, CashOutTypes, AnchorTxExist, NamesAnchorTx, Starting, SendingOnce, Sends,
         Before, Outcome, IsCompleted
<1>3. FormInv => FormInv'
  BY DEF FormInv, FormTypes, ReceiptsExist, Watching, Creating, MakingOnce, FormOnce, Unmade,
         Told, Completed
<1>4. (ProductsInv => ProductsInv') /\ (SiteInv => SiteInv')
  BY ProductsStutter, SiteStutters DEF productVars, siteVars
<1>. QED BY <1>1, <1>2, <1>3, <1>4 DEF Mounted, Cleared, NewDraft, Unloaded

LEMMA InvNext ==
  ASSUME Inv, [Next]_pagesVars
  PROVE  Inv'
<1>1. CASE On("checkout") /\ CheckoutNext /\ UNCHANGED <<casher, withdrawer, seller, author>>
  BY <1>1, CheckoutStep
  DEF Inv, On, casher, withdrawer, seller, author, Cleared, NewDraft, Unloaded
<1>2. CASE On("anchor") /\ CashOutNext /\ UNCHANGED <<buyer, withdrawer, seller, author>>
  BY <1>2, CashOutStep
  DEF Inv, On, buyer, withdrawer, seller, author, Mounted, Cleared, NewDraft, Unloaded
<1>3. CASE On("simulated") /\ FormNext /\ UNCHANGED <<buyer, casher, seller, author>>
  BY <1>3, FormStep
  DEF Inv, On, buyer, casher, seller, author, Mounted, Cleared, NewDraft, Unloaded
<1>4. CASE On("products") /\ ProductsNext /\ UNCHANGED <<buyer, casher, withdrawer, author>>
  BY <1>4, ProductsStep DEF Inv, On, buyer, casher, withdrawer, author, Mounted, Unloaded
<1>5. CASE On("site") /\ SiteNext /\ UNCHANGED <<buyer, casher, withdrawer, seller>>
  BY <1>5, SiteStep DEF Inv, On, buyer, casher, withdrawer, seller, Mounted, Cleared, NewDraft
<1>. QED BY <1>1, <1>2, <1>3, <1>4, <1>5, InvStutters DEF Next

(* What a page shows goes with the calls it has in flight. *)
THEOREM PagesInvariant == Spec => []Inv
BY InvInit, InvNext, PTL DEF Spec

(* Every variable of every page has its type, and what is named exists. *)
THEOREM PagesTyped == Spec => []PagesTypeOK
<1>1. Inv => PagesTypeOK
  <2>. SUFFICES ASSUME Inv PROVE PagesTypeOK
    OBVIOUS
  <2>1. CheckoutTypeOK
    <3>1. CASE shown = "checkout"
      BY <3>1 DEF Inv, CheckoutInv, CheckoutTypes, OrdersExist, NamesOrders, IsCall,
                  CheckoutTypeOK
    <3>2. CASE shown # "checkout"
      <4>1. /\ orders = <<>> /\ saved = 0 /\ strayed = FALSE /\ visits = 0
            /\ page \in Page /\ page.order = 0
        <5>1. orders = <<>> /\ saved = 0 /\ strayed = FALSE /\ visits = 0 /\ page = Mounted
          BY <3>2 DEF Inv
        <5>2. 0 \in 0 .. MaxPolls
          BY CheckoutBounds
        <5>. QED BY <5>1, <5>2 DEF Mounted, Page
      <4>2. \A s \in Slots : calls[s] # None => calls[s].kind \notin {"pay", "poll"}
        <5>1. CASE shown = "anchor"
          BY <5>1 DEF Inv, CashOutInv, CashOutTypes, CashOutCall
        <5>2. CASE shown = "simulated"
          BY <5>2 DEF Inv, FormInv, FormTypes, FormCall
        <5>3. CASE shown = "products"
          BY <5>3, ProductRows DEF Inv, ProductCall
        <5>4. CASE shown = "site"
          BY <5>4 DEF Inv, SiteInv, SiteTypes, SiteCall
        <5>. QED BY <3>2, <5>1, <5>2, <5>3, <5>4 DEF Inv
      <4>3. orders \in Seq(OrderStatus) /\ 0 \in 0 .. MaxVisits /\ {0} \subseteq 0 .. Len(orders)
        BY <4>1, CheckoutBounds
      <4>. QED BY <4>1, <4>2, <4>3 DEF CheckoutTypeOK
    <3>. QED BY <3>1, <3>2
  <2>2. CashOutTypeOK
    <3>1. CASE shown = "anchor"
      BY <3>1 DEF Inv, CashOutInv, CashOutTypes, AnchorTxExist, CashOutTypeOK, Polls
    <3>2. CASE shown # "anchor"
      <4>1. flow = Opened /\ anchorTx = <<>> /\ number = 0 /\ muddled = FALSE
        BY <3>2 DEF Inv
      <4>2. flow \in Flow /\ flow.tx = 0 /\ ~Polls(flow.phase)
        BY <4>1, CashOutBounds DEF Opened, Flow, Phases, Polls
      <4>3. anchorTx \in Seq([state : AnchorState, received : Nat]) /\ 0 \in 0 .. Len(anchorTx)
        BY <4>1
      <4>. QED BY <4>1, <4>2, <4>3 DEF CashOutTypeOK
    <3>. QED BY <3>1, <3>2
  <2>3. FormTypeOK
    <3>1. CASE shown = "simulated"
      BY <3>1 DEF Inv, FormInv, FormTypes, ReceiptsExist, FormTypeOK
    <3>2. CASE shown # "simulated"
      <4>1. form = Blank /\ rows = <<>> /\ opening = 1 /\ unheard = {}
        BY <3>2 DEF Inv
      <4>2. form \in Form /\ form.receipt = 0 /\ 1 \in 1 .. MaxOpenings
        BY <4>1, FormBounds DEF Blank, Form
      <4>3. rows \in Seq(Row) /\ 0 \in 0 .. Len(rows)
        BY <4>1
      <4>. QED BY <4>1, <4>2, <4>3 DEF FormTypeOK
    <3>. QED BY <3>1, <3>2
  <2>4. ProductsTypeOK
    <3>1. CASE shown = "products"
      BY <3>1, ProductsInvTyped DEF Inv
    <3>2. CASE shown # "products"
      <4>1. /\ shelf = <<>> /\ desk = Cleared /\ draft = NewDraft /\ sheets = 0
            /\ crossed = {} /\ untold = {}
        BY <3>2 DEF Inv
      <4>2. /\ desk \in Desk /\ desk.editing = 0 /\ desk.busy = 0
            /\ draft \in Draft /\ draft.text = 0
        BY <4>1 DEF Cleared, Desk, NewDraft, Draft
      <4>3. shelf \in Seq(Ware) /\ 0 \in 0 .. Len(shelf) /\ 0 \in 0 .. MaxSheets
        BY <4>1, ProductBounds
      <4>. QED BY <4>1, <4>2, <4>3 DEF ProductsTypeOK
    <3>. QED BY <3>1, <3>2
  <2>5. SiteTypeOK
    <3>1. CASE shown = "site"
      BY <3>1 DEF Inv, SiteInv, SiteTypes
    <3>2. CASE shown # "site"
      <4>1. editor = Unloaded /\ site = 0 /\ typed = 0 /\ mounts = 0 /\ bypassed = FALSE
        BY <3>2 DEF Inv
      <4>2. editor \in Editor /\ editor.content = 0 /\ editor.snapshot = 0
        BY <4>1 DEF Unloaded, Editor
      <4>3. 0 \in 0 .. MaxTyped /\ 0 \in 0 .. MaxSiteVisits
        BY SiteBounds
      <4>. QED BY <4>1, <4>2, <4>3 DEF SiteTypeOK
    <3>. QED BY <3>1, <3>2
  <2>. QED BY <2>1, <2>2, <2>3, <2>4, <2>5 DEF PagesTypeOK
<1>. QED BY <1>1, PagesInvariant, PTL

(* The cards of the checkout are true: what it confirms was paid, and what  *)
(* it calls failed has failed, unless an answer met another order.          *)
THEOREM CardsAreTrue == Spec => []CardIsTrue
<1>1. Inv => CardIsTrue
  BY DEF Inv, CheckoutInv, HeardIsTrue, CardIsTrue, Mounted
<1>. QED BY <1>1, PagesInvariant, PTL

(* The anchor is paid once for a transaction, unless an answer was lost or  *)
(* a late poll brought the button back.                                     *)
THEOREM AnchorPaidOnce == Spec => []SentOnce
<1>1. Inv => SentOnce
  <2>. SUFFICES ASSUME Inv, NEW t \in DOMAIN anchorTx, anchorTx[t].received > 1
                PROVE  muddled
    BY DEF SentOnce
  <2>1. CASE shown = "anchor"
    BY <2>1, AnchorRows DEF Inv, CashOutInv, SendingOnce
  <2>2. CASE shown # "anchor"
    BY <2>2 DEF Inv
  <2>. QED BY <2>1, <2>2
<1>. QED BY <1>1, PagesInvariant, PTL

(* "Cash out complete" is shown of a transaction that the anchor was paid   *)
(* for and has completed.                                                   *)
THEOREM DonePaidOut == Spec => []DoneIsPaidOut
<1>1. Inv => DoneIsPaidOut
  <2>. SUFFICES ASSUME Inv, flow.phase = "done"
                PROVE  anchorTx[flow.tx].state = "completed" /\ anchorTx[flow.tx].received > 0
    BY DEF DoneIsPaidOut
  <2>1. shown = "anchor" /\ CashOutInv
    BY DEF Inv, Opened
  <2>2. flow.tx \in 1 .. Len(anchorTx) /\ IsCompleted(flow.tx)
    BY <2>1, AnchorRows DEF CashOutInv, AnchorTxExist, Outcome
  <2>3. anchorTx[flow.tx].received \in Nat /\ anchorTx[flow.tx].received # 0
    BY <2>1, <2>2, AnchorRows DEF CashOutInv, Outcome, IsCompleted, AnchorRow
  <2>. QED BY <2>2, <2>3 DEF IsCompleted
<1>. QED BY <1>1, PagesInvariant, PTL

(* One opening of the dialog makes one withdrawal, and one of the form one  *)
(* product, unless the creator was told an error of one that was made.      *)
THEOREM OneOfEach == Spec => []MadeOnce
<1>1. Inv => FormOnce
  BY DEF Inv, FormInv, MakingOnce, FormOnce
<1>2. Inv => CreatedOnce
  BY DEF Inv, ProductsInv, SavedOnce, CreatedOnce
<1>. QED BY <1>1, <1>2, PagesInvariant, PTL DEF MadeOnce

(* "Withdrawal complete" is shown of a withdrawal that is completed. *)
THEOREM CompleteIsCompleted == Spec => []DoneIsCompleted
<1>1. Inv => DoneIsCompleted
  BY DEF Inv, FormInv, Told, Completed, DoneIsCompleted, Blank
<1>. QED BY <1>1, PagesInvariant, PTL

(* The forms of products and of the mini-site keep what they promise also   *)
(* in the tab: what was typed for a product is saved to it, and the editor  *)
(* shows the site that is stored.                                           *)
THEOREM FormsKeepTheirWord == Spec => [](FieldsStayUncrossed /\ EditorShowsStored)
<1>1. Inv => FieldsStayUncrossed
  BY DEF Inv, ProductsInv, OwnFields, FieldsStayUncrossed
<1>2. Inv => EditorShowsStored
  BY DEF Inv, SiteInv, SiteCalls, SiteKnown, EditorShowsStored, Unloaded
<1>. QED BY <1>1, <1>2, PagesInvariant, PTL

(* An order that waits for its creator's wallet is not forgotten, unless an *)
(* answer met another order.                                                *)
THEOREM WaitingStaysKept == Spec => WaitingIsKept
<1>. DEFINE Step == saved # 0 /\ saved' # saved /\ ~strayed' => orders[saved] \in Reached
<1>1. Inv /\ [Next]_pagesVars => [Step]_checkoutVars
  <2>. SUFFICES ASSUME Inv, [Next]_pagesVars, saved # 0, saved' # saved, ~strayed'
                PROVE  orders[saved] \in Reached
    OBVIOUS
  <2>1. shown = "checkout" /\ CheckoutNext
    BY DEF Inv, Next, pagesVars, On, buyer
  <2>. QED BY <2>1, CheckoutForgets DEF Inv
<1>. QED BY <1>1, PagesInvariant, PTL DEF Spec, WaitingIsKept
=============================================================================
