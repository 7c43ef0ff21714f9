------------------------------ MODULE ProductForm ------------------------------
(***************************************************************************)
(* The products of a creator and the form that makes and edits them        *)
(* (dashboard/products/page.tsx, lib/api/hooks.ts).  The page fetches a    *)
(* product before it edits it; the form takes its fields from the product  *)
(* when it is opened, and asks the page which product it saves when it is  *)
(* submitted.  The fields that are typed, and the split, are told apart by *)
(* the product they were typed for.                                        *)
(***************************************************************************)
EXTENDS Browser, Sequences

CONSTANTS
  MaxProducts, \* bound: products
  MaxSheets    \* bound: how often the form is opened

ASSUME ProductBounds == MaxProducts \in Nat /\ MaxSheets \in Nat

VARIABLES
  shelf,   \* table Product: the form that made it, whose fields and split it has
  desk,    \* the state of the page
  draft,   \* the state of the form
  sheets,  \* how often the form was opened
  crossed, \* history: products that were fetched into a form that was open
  untold   \* history: forms whose product was reported as an error

productVars == <<shelf, desk, draft, sheets, crossed, untold, calls>>

(* 0 is no product, or one that is new; a split that is None gives         *)
(* everything to the creator.                                              *)
Ware == [by : Nat, text : Nat, split : Nat \cup {None}]
Desk == [open : BOOLEAN, editing : Nat, busy : Nat]
Draft == [text : Nat, on : BOOLEAN, pending : BOOLEAN]

Cleared == [open |-> FALSE, editing |-> 0, busy |-> 0]
NewDraft == [text |-> 0, on |-> FALSE, pending |-> FALSE]

ProductsInit ==
  /\ shelf = <<>>
  /\ desk = Cleared
  /\ draft = NewDraft
  /\ sheets = 0
  /\ crossed = {}
  /\ untold = {}
  /\ calls = Forgotten

-----------------------------------------------------------------------------
(* The page.  An open form covers it. *)

(* The fields of a form, from the product that is edited, if one is. *)
Seeded(i, split) ==
  IF i = 0 THEN NewDraft ELSE [text |-> i, on |-> split # None, pending |-> FALSE]

NewProduct ==
  /\ ~desk.open
  /\ sheets < MaxSheets
  /\ desk' = [desk EXCEPT !.open = TRUE]
  /\ draft' = Seeded(desk.editing, None)
  /\ sheets' = sheets + 1
  /\ UNCHANGED <<shelf, crossed, untold, calls>>

(* Only the card of the product that was asked for last is disabled. *)
AskFor(i, kind) ==
  /\ ~desk.open /\ desk.busy # i
  /\ Free # {}
  /\ desk' = [desk EXCEPT !.busy = i]
  /\ calls' = Asked(kind, i, None)
  /\ UNCHANGED <<shelf, draft, sheets, crossed, untold>>

StartEdit(i) == AskFor(i, "product")
ToggleArchive(i) == AskFor(i, "status")

(* Slip: the form is not taken down when it is closed. *)
OpenAnyEditor(s) ==
  /\ desk' = [open |-> TRUE, editing |-> calls[s].id, busy |-> 0]
  /\ sheets < MaxSheets
  /\ draft' = IF sheets = 0 THEN Seeded(calls[s].id, calls[s].seen) ELSE draft
  /\ sheets' = sheets + 1
  /\ UNCHANGED crossed

(* The product is there: the form opens, and one that is open already      *)
(* keeps its fields.                                                       *)
OpenEditor(s) ==
  LET i == calls[s].id
  IN /\ desk' = [open |-> TRUE, editing |-> i, busy |-> 0]
     /\ IF desk.open
        THEN crossed' = crossed \cup {i} /\ UNCHANGED <<draft, sheets>>
        ELSE /\ sheets < MaxSheets
             /\ draft' = Seeded(i, calls[s].seen)
             /\ sheets' = sheets + 1
             /\ UNCHANGED crossed

TakeProduct(s) ==
  /\ \/ At(s, "product", "answered") /\ calls[s].here /\ OpenEditor(s)
     \/ /\ \/ At(s, "product", "error")
           \/ At(s, "product", "answered") /\ ~calls[s].here
           \/ At(s, "status", "error")
           \/ At(s, "status", "answered")
        /\ desk' = IF calls[s].here THEN [desk EXCEPT !.busy = 0] ELSE desk
        /\ UNCHANGED <<draft, sheets, crossed>>
  /\ calls' = Taken(s)
  /\ UNCHANGED <<shelf, untold>>

-----------------------------------------------------------------------------
(* The form. *)

(* The split is switched on or off. *)
ToggleSplit ==
  /\ desk.open
  /\ draft' = [draft EXCEPT !.on = ~@]
  /\ UNCHANGED <<shelf, desk, sheets, crossed, untold, calls>>

Entered == [sheet |-> sheets, text |-> draft.text, on |-> draft.on]

SubmitProduct ==
  /\ desk.open /\ ~draft.pending
  /\ Free # {}
  /\ draft' = [draft EXCEPT !.pending = TRUE]
  /\ calls' = Asked("save", desk.editing, Entered)
  /\ UNCHANGED <<shelf, desk, sheets, crossed, untold>>

CloseForm ==
  /\ desk' = [desk EXCEPT !.open = FALSE, !.editing = 0]
  /\ draft' = NewDraft

(* The cross and the backdrop close the form also while it is saved. *)
Dismiss ==
  /\ desk.open
  /\ CloseForm
  /\ UNCHANGED <<shelf, sheets, crossed, untold, calls>>

(* A product that is saved closes the form that is open, whichever it is.  *)
TakeSaved(s) ==
  /\ \/ /\ At(s, "save", "answered")
        /\ IF calls[s].here THEN CloseForm ELSE UNCHANGED <<desk, draft>>
     \/ /\ At(s, "save", "error")
        /\ draft' = IF calls[s].here /\ calls[s].from.sheet = sheets
                    THEN [draft EXCEPT !.pending = FALSE] ELSE draft
        /\ UNCHANGED desk
  /\ calls' = Taken(s)
  /\ UNCHANGED <<shelf, sheets, crossed, untold>>

(* The page is left for another one, and visited again: nobody reads the   *)
(* answers of its calls, and only those that save change anything.         *)
LeaveProducts ==
  /\ desk' = Cleared
  /\ draft' = NewDraft
  /\ calls' = [s \in Slots |-> IF calls[s] # None /\ calls[s].kind = "save"
                           THEN Orphaned[s] ELSE None]
  /\ UNCHANGED <<shelf, sheets, crossed, untold>>

-----------------------------------------------------------------------------
(* The server. *)

ReadProduct(s) ==
  /\ At(s, "product", "sent")
  /\ calls' = Answered(s, calls[s].id, shelf[calls[s].id].split)
  /\ UNCHANGED <<shelf, desk, draft, sheets, crossed, untold>>

SetStatus(s) ==
  /\ At(s, "status", "sent")
  /\ calls' = Answered(s, calls[s].id, None)
  /\ UNCHANGED <<shelf, desk, draft, sheets, crossed, untold>>

(* What a form that was opened for a new product holds is the product's    *)
(* own from now on.                                                        *)
AddProduct(s) ==
  /\ At(s, "save", "sent") /\ calls[s].id = 0
  /\ Len(shelf) < MaxProducts
  /\ LET text == IF calls[s].from.text = 0 THEN Len(shelf) + 1 ELSE calls[s].from.text
     IN shelf' = Append(shelf, [by |-> calls[s].from.sheet, text |-> text,
                                split |-> IF calls[s].from.on THEN text ELSE None])
  /\ calls' = Answered(s, Len(shelf) + 1, None)
  /\ UNCHANGED <<desk, draft, sheets, crossed, untold>>

(* An update replaces the split, if the form sends one, and then the other *)
(* fields.                                                                 *)
UpdateSplit(s) ==
  /\ At(s, "save", "sent") /\ calls[s].id # 0
  /\ shelf' = IF calls[s].from.on
              THEN [shelf EXCEPT ![calls[s].id].split = calls[s].from.text] ELSE shelf
  /\ calls' = [calls EXCEPT ![s].pc = "half"]
  /\ UNCHANGED <<desk, draft, sheets, crossed, untold>>

UpdateFields(s) ==
  /\ At(s, "save", "half")
  /\ shelf' = [shelf EXCEPT ![calls[s].id].text = calls[s].from.text]
  /\ calls' = Answered(s, calls[s].id, None)
  /\ UNCHANGED <<desk, draft, sheets, crossed, untold>>

(* An error, before, during or after the work of the server. *)
ProductCallFails(s) ==
  /\ CanBreak(s)
  /\ calls' = Broken(s)
  /\ untold' = untold \cup IF At(s, "save", "answered") THEN {calls[s].from.sheet} ELSE {}
  /\ UNCHANGED <<shelf, desk, draft, sheets, crossed>>

ProductsNext ==
  \/ NewProduct \/ ToggleSplit \/ SubmitProduct \/ Dismiss \/ LeaveProducts
  \/ \E i \in DOMAIN shelf : StartEdit(i) \/ ToggleArchive(i)
  \/ \E s \in Slots : TakeProduct(s) \/ TakeSaved(s) \/ ReadProduct(s) \/ SetStatus(s)
                      \/ AddProduct(s) \/ UpdateSplit(s) \/ UpdateFields(s)
                      \/ ProductCallFails(s)

ProductsSpec == ProductsInit /\ [][ProductsNext]_productVars

-----------------------------------------------------------------------------
(* Properties. *)

(* Every variable has its type; a product that is named exists. *)
ProductsTypeOK ==
  /\ shelf \in Seq(Ware)
  /\ desk \in Desk
  /\ draft \in Draft
  /\ {desk.editing, desk.busy, draft.text} \cup crossed \subseteq 0 .. Len(shelf)
  /\ sheets \in 0 .. MaxSheets
  /\ untold \subseteq 1 .. MaxSheets

(* What was typed for one product is never saved to another: forms that    *)
(* are opened, closed while they save, and refused notwithstanding.        *)
FieldsStay ==
  \A i \in DOMAIN shelf : shelf[i].text = i /\ shelf[i].split \in {i, None}

(* It is so for every product that was not fetched into an open form. *)
FieldsStayUncrossed ==
  \A i \in DOMAIN shelf \ crossed : shelf[i].text = i /\ shelf[i].split \in {i, None}

(* One opening of the form makes one product, unless the creator was told  *)
(* an error of one that was made and pressed the button again.             *)
CreatedOnce ==
  \A i, j \in DOMAIN shelf : i # j /\ shelf[i].by = shelf[j].by => shelf[i].by \in untold
=============================================================================
