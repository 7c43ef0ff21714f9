-------------------------------- MODULE Pages --------------------------------
(***************************************************************************)
(* A tab of the browser on one of the pages that change something: the     *)
(* checkout of a buyer; the dialog of a withdrawal, whose kind is chosen   *)
(* by the build (NEXT_PUBLIC_ANCHOR_ENABLED); the products of a creator;   *)
(* the editor of the mini-site.  They share how calls are made and         *)
(* answered, and nothing else.                                             *)
(***************************************************************************)
EXTENDS Checkout, CashOut, WithdrawForm, ProductForm, SiteEditor

VARIABLE shown \* the page of this tab

pagesVars == <<shown, orders, page, saved, strayed, visits, flow, anchorTx, number, muddled,
               form, rows, opening, unheard, shelf, desk, draft, sheets, crossed, untold,
               editor, site, typed, mounts, bypassed, calls>>

buyer == <<orders, page, saved, strayed, visits>>
casher == <<flow, anchorTx, number, muddled>>
withdrawer == <<form, rows, opening, unheard>>
seller == <<shelf, desk, draft, sheets, crossed, untold>>
author == <<editor, site, typed, mounts, bypassed>>

Init ==
  /\ shown \in {"checkout", "anchor", "simulated", "products", "site"}
  /\ CheckoutInit /\ CashOutInit /\ FormInit /\ ProductsInit /\ SiteInit

On(p) == shown = p /\ UNCHANGED shown
Next ==
  \/ /\ On("checkout") /\ CheckoutNext
     /\ UNCHANGED <<casher, withdrawer, seller, author>>
  \/ /\ On("anchor") /\ CashOutNext
     /\ UNCHANGED <<buyer, withdrawer, seller, author>>
  \/ /\ On("simulated") /\ FormNext
     /\ UNCHANGED <<buyer, casher, seller, author>>
  \/ /\ On("products") /\ ProductsNext
     /\ UNCHANGED <<buyer, casher, withdrawer, author>>
  \/ /\ On("site") /\ SiteNext
     /\ UNCHANGED <<buyer, casher, withdrawer, seller>>

Spec == Init /\ [][Next]_pagesVars
FairSpec == Spec /\ CheckoutFairness /\ FormFairness

-----------------------------------------------------------------------------
(* Properties. *)

(* Every variable of every page has its type. *)
PagesTypeOK ==
  CheckoutTypeOK /\ CashOutTypeOK /\ FormTypeOK /\ ProductsTypeOK /\ SiteTypeOK

(* What is opened to make something makes it once: one opening of the      *)
(* dialog one withdrawal, one of the form one product, with presses,       *)
(* answers and reports in any order.  Excepted is what was reported as an  *)
(* error though it was made, when the creator presses again.               *)
MadeOnce == FormOnce /\ CreatedOnce

(* A page that polls says in the end what became of the order or of the    *)
(* withdrawal, or that it takes longer than expected: with answers that    *)
(* overlap, fail and come late, and intervals that start over.             *)
PollingEnds ==
  /\ page.buy = "pending" ~> page.buy # "pending" \/ page.timedOut
  /\ form.phase = "processing" ~> form.phase # "processing" \/ form.timedOut
=============================================================================
