------------------------------ MODULE Checkout ------------------------------
(***************************************************************************)
(* The page of a product (store/[id]/page.tsx): the buyer starts an order, *)
(* pays it, and the page polls until it can show it as paid or failed.     *)
(* The order is kept in sessionStorage until then, so that the page finds  *)
(* it again when it is reloaded.                                           *)
(***************************************************************************)
EXTENDS Browser, Sequences, OrderStateMachine

CONSTANTS
  MaxPolls,  \* the code has 20
  MaxOrders, \* bound: orders
  MaxVisits  \* bound: how often the page is left or loaded again

ASSUME CheckoutBounds == MaxPolls \in Nat \ {0} /\ MaxOrders \in Nat /\ MaxVisits \in Nat

VARIABLES
  orders,  \* table Order: the statuses, in the order of creation
  page,    \* the state of the page
  saved,   \* the order in sessionStorage, or 0
  strayed, \* history: an answer met a page or an order other than its own
  visits

checkoutVars == <<orders, page, saved, strayed, visits, calls>>

Page == [buy : {"idle", "paying", "pending", "paid", "failed"}, order : Nat,
         polls : 0 .. MaxPolls, ticking : BOOLEAN, timedOut : BOOLEAN]

(* A page that is mounted continues with the order that was saved. *)
Mounted == [buy |-> IF saved = 0 THEN "idle" ELSE "pending", order |-> saved,
            polls |-> 0, ticking |-> saved # 0, timedOut |-> FALSE]

CheckoutInit ==
  /\ orders = <<>>
  /\ saved = 0 /\ page = Mounted
  /\ strayed = FALSE /\ visits = 0
  /\ calls = Forgotten

(* STATUS_MAP *)
MapOrderStatus(status) ==
  CASE status \in {"PAYMENT_RECEIVED", "SETTLED", "WITHDRAW_COMPLETED"} -> "Paid"
    [] status \in {"PAYMENT_FAILED", "SETTLEMENT_FAILED", "WITHDRAW_FAILED",
                   "CANCELLED"} -> "Failed"
    [] OTHER -> "Pending"

IsPaid(o) == orders[o] # "PAYMENT_PENDING"

-----------------------------------------------------------------------------
(* The page. *)

(* The button is disabled while an order is being created. *)
Buy ==
  /\ page.buy = "idle" /\ ~InFlight("checkout")
  /\ Free # {}
  /\ calls' = Asked("checkout", 0, page.buy)
  /\ UNCHANGED <<orders, page, saved, strayed, visits>>

Pay ==
  /\ page.buy = "paying" /\ ~InFlight("pay")
  /\ Free # {}
  /\ calls' = Asked("pay", page.order, page.buy)
  /\ UNCHANGED <<orders, page, saved, strayed, visits>>

(* Slip: the counter starts again with every answer. *)
NeverAtLimit(polls) == FALSE
AtLimit(polls) == polls >= MaxPolls

(* The interval fires, whether or not the previous poll was answered. *)
Poll ==
  /\ page.ticking
  /\ Free # {}
  /\ calls' = Asked("poll", page.order, page.buy)
  /\ page' = [page EXCEPT !.polls = IF @ < MaxPolls THEN @ + 1 ELSE @]
  /\ UNCHANGED <<orders, saved, strayed, visits>>

TryAgain ==
  /\ page.buy = "failed"
  /\ page' = [page EXCEPT !.buy = "idle"]
  /\ saved' = 0
  /\ UNCHANGED <<orders, strayed, visits, calls>>

(* An answer is handled where its call was made. *)
IsOwn(s) == calls[s].here /\ calls[s].id = page.order
Stray(s) == strayed' = (strayed \/ ~IsOwn(s))
ShowPage(s, new) == page' = IF calls[s].here THEN new ELSE page

TakeOrder(s) ==
  /\ \/ /\ At(s, "checkout", "answered")
        /\ ShowPage(s, [page EXCEPT !.buy = "paying", !.order = calls[s].id, !.ticking = FALSE])
     \/ /\ At(s, "checkout", "error")
        /\ UNCHANGED page
  /\ calls' = Taken(s)
  /\ UNCHANGED <<orders, saved, strayed, visits>>

(* Slip: the order is saved also when the payment fails. *)
TakeAnyPayment(s) ==
  /\ At(s, "pay", "answered") \/ At(s, "pay", "error")
  /\ ShowPage(s, [page EXCEPT !.buy = "pending", !.polls = 0, !.ticking = TRUE])
  /\ saved' = calls[s].id
  /\ Stray(s)
  /\ calls' = Taken(s)
  /\ UNCHANGED <<orders, visits>>

TakePayment(s) ==
  /\ \/ /\ At(s, "pay", "answered")
        /\ ShowPage(s, [page EXCEPT !.buy = "pending", !.polls = 0, !.ticking = TRUE])
        /\ saved' = calls[s].id
        /\ Stray(s)
     \/ /\ At(s, "pay", "error") \* the buyer may press the button again
        /\ UNCHANGED <<page, saved, strayed>>
  /\ calls' = Taken(s)
  /\ UNCHANGED <<orders, visits>>

(* The answer says that the payment was received, or that it failed. *)
Tells(s) == At(s, "poll", "answered") /\ calls[s].seen # "Pending"

(* Slip: nothing stays saved when the page stops polling. *)
ForgetsAtLimit(s) == IF Tells(s) \/ AtLimit(page.polls) THEN 0 ELSE saved
(* An order that is shown as paid or failed is forgotten. *)
SavedAfter(s) == IF Tells(s) THEN 0 ELSE saved

(* Paid or failed is shown, and the interval of this poll is cleared, as   *)
(* it is at the limit.                                                     *)
TakePoll(s) ==
  /\ At(s, "poll", "answered") \/ At(s, "poll", "error")
  /\ saved' = SavedAfter(s)
  /\ IF Tells(s)
     THEN /\ ShowPage(s, [page EXCEPT !.buy = IF calls[s].seen = "Paid" THEN "paid" ELSE "failed",
                                  !.ticking = FALSE])
          /\ Stray(s)
     ELSE /\ ShowPage(s, IF AtLimit(page.polls)
                     THEN [page EXCEPT !.timedOut = TRUE, !.ticking = @ /\ ~IsOwn(s)]
                     ELSE page)
          /\ UNCHANGED strayed
  /\ calls' = Taken(s)
  /\ UNCHANGED <<orders, visits>>

(* The buyer goes to another page and returns, or reloads this one. *)
Return ==
  /\ visits < MaxVisits
  /\ visits' = visits + 1
  /\ page' = Mounted
  /\ calls' \in {Orphaned, Forgotten}
  /\ UNCHANGED <<orders, saved, strayed>>

-----------------------------------------------------------------------------
(* The server. *)

CreateOrder(s) ==
  /\ At(s, "checkout", "sent")
  /\ Len(orders) < MaxOrders
  /\ orders' = Append(orders, "PAYMENT_PENDING")
  /\ calls' = Answered(s, Len(orders) + 1, None)
  /\ UNCHANGED <<page, saved, strayed, visits>>

(* simulatePayment takes the path of the webhook, with a reference made of *)
(* the order: a repeated one finds the order paid.                         *)
SimulatePayment(s) ==
  /\ At(s, "pay", "sent")
  /\ \E to \in {"PAYMENT_RECEIVED", "WAITING_WALLET"} :
       orders' = [orders EXCEPT ![calls[s].id] = IF IsPaid(calls[s].id) THEN @ ELSE to]
  /\ calls' = Answered(s, calls[s].id, None)
  /\ UNCHANGED <<page, saved, strayed, visits>>

GetOrderStatus(s) ==
  /\ At(s, "poll", "sent")
  /\ calls' = Answered(s, calls[s].id, MapOrderStatus(orders[calls[s].id]))
  /\ UNCHANGED <<orders, page, saved, strayed, visits>>

(* An error, before or after the server did its work; 429 is one.          *)
CallFails(s) ==
  /\ CanBreak(s)
  /\ calls' = Broken(s)
  /\ UNCHANGED <<orders, page, saved, strayed, visits>>

(* The settlement of a paid order goes on. *)
Reached == {"PAYMENT_RECEIVED", "SETTLEMENT_PENDING", "SETTLED", "SETTLEMENT_FAILED"}
Settlement(o) ==
  /\ IsPaid(o)
  /\ \E to \in Reached : CanTransition(orders[o], to) /\ orders' = [orders EXCEPT ![o] = to]
  /\ UNCHANGED <<page, saved, strayed, visits, calls>>

CheckoutTake(s) == TakeOrder(s) \/ TakePayment(s) \/ TakePoll(s)
CheckoutServe(s) == CreateOrder(s) \/ SimulatePayment(s) \/ GetOrderStatus(s)

CheckoutNext ==
  \/ Buy \/ Pay \/ Poll \/ TryAgain \/ Return
  \/ \E s \in Slots : CheckoutTake(s) \/ CheckoutServe(s) \/ CallFails(s)
  \/ \E o \in DOMAIN orders : Settlement(o)

(* The interval fires, and a call is answered or fails in the end. *)
CheckoutFairness ==
  /\ WF_checkoutVars(Poll)
  /\ \A s \in Slots : WF_checkoutVars(CheckoutTake(s))
                      /\ WF_checkoutVars(CheckoutServe(s) \/ CallFails(s))

CheckoutSpec == CheckoutInit /\ [][CheckoutNext]_checkoutVars /\ CheckoutFairness

-----------------------------------------------------------------------------
(* Properties. *)

(* Every variable has its type; an order that is named exists. *)
CheckoutTypeOK ==
  /\ orders \in Seq(OrderStatus)
  /\ page \in Page
  /\ {page.order, saved} \subseteq 0 .. Len(orders)
  /\ visits \in 0 .. MaxVisits
  /\ strayed \in BOOLEAN
  /\ \A s \in Slots :
       calls[s] # None /\ calls[s].kind \in {"pay", "poll"} => calls[s].id \in DOMAIN orders

(* The cards of the page are true: "Payment confirmed" is shown of an      *)
(* order that was paid, also when a page finds it in sessionStorage; so is *)
(* "Payment received"; and a failure is shown of an order whose settlement *)
(* has failed and stays so.  All of it unless an answer met another order, *)
(* whose order the page then shows with the outcome of this one.           *)
CardIsTrue ==
  /\ saved # 0 => IsPaid(saved)
  /\ ~strayed =>
       /\ page.buy \in {"pending", "paid"} => IsPaid(page.order)
       /\ page.buy = "failed" => orders[page.order] = "SETTLEMENT_FAILED"

(* An order that waits for its creator's wallet stays in sessionStorage:   *)
(* it survives a reload, the limit of the polls and every error, and is    *)
(* forgotten only when its settlement has been asked for.                  *)
WaitingIsKept ==
  [][saved # 0 /\ saved' # saved /\ ~strayed' => orders[saved] \in Reached]_checkoutVars
=============================================================================
