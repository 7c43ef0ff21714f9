----------------------------- MODULE FormProofs -----------------------------
(***************************************************************************)
(* What the pages of a creator that edit something save and show: the form *)
(* of a product and the editor of the mini-site, for any number of calls   *)
(* in flight, products, openings, contents and visits.                     *)
(***************************************************************************)
EXTENDS ProductForm, SiteEditor, TLAPS

-----------------------------------------------------------------------------
(* The calls of any page: one is made, changes or ends, and the others     *)
(* stay as they are.                                                       *)

IsCall(s, kind) == calls[s] # None /\ calls[s].kind = kind
Here(s, kind) == IsCall(s, kind) /\ calls[s].here

Call(kind, id, from) ==
  [kind |-> kind, id |-> id, from |-> from, here |-> TRUE, pc |-> "sent", seen |-> None]

Becomes(s, new) ==
  /\ s \in Slots
  /\ calls'[s] = new
  /\ \A t \in Slots \ {s} : calls'[t] = calls[t]

LEMMA AskedCall ==
  ASSUME NEW C, calls \in [Slots -> C \cup {None}], Free # {},
         NEW k, NEW i, NEW f, Call(k, i, f) \in C, calls' = Asked(k, i, f)
  PROVE  /\ calls' \in [Slots -> C \cup {None}]
         /\ \E s \in Slots : calls[s] = None /\ Becomes(s, Call(k, i, f))
<1>. DEFINE s == CHOOSE s \in Free : TRUE
<1>1. s \in Slots /\ calls[s] = None
  BY DEF Free
<1>2. calls' = [calls EXCEPT ![s] = Call(k, i, f)]
  BY DEF Asked, Call
<1>3. calls' \in [Slots -> C \cup {None}] /\ Becomes(s, Call(k, i, f))
  BY <1>1, <1>2 DEF Becomes
<1>. QED BY <1>1, <1>3

LEMMA TakenCall ==
  ASSUME NEW C, calls \in [Slots -> C \cup {None}], NEW s \in Slots, calls' = Taken(s)
  PROVE  calls' \in [Slots -> C \cup {None}] /\ Becomes(s, None)
  BY DEF Taken, Becomes

LEMMA AnsweredCall ==
  ASSUME NEW C, calls \in [Slots -> C \cup {None}], NEW s \in Slots, calls[s] \in C,
         NEW new \in C, calls' = [calls EXCEPT ![s] = new]
  PROVE  calls' \in [Slots -> C \cup {None}] /\ Becomes(s, new)
  BY DEF Becomes

-----------------------------------------------------------------------------
(* The form of a product.                                                  *)
(*                                                                         *)
(* The form's fields belong to the product the page names as long as no    *)
(* product was fetched into the open form, and a form has at most one save *)
(* in flight.                                                              *)

Entry == [sheet : Nat, text : Nat, on : BOOLEAN]

ProductCall ==
  [kind : {"product", "status", "save"}, id : Nat, from : Entry \cup {None}, here : BOOLEAN,
   pc : {"sent", "half", "answered", "error"}, seen : Nat \cup {None}]

ProductTypes ==
  /\ shelf \in Seq(Ware)
  /\ desk \in Desk
  /\ draft \in Draft
  /\ sheets \in Nat /\ sheets <= MaxSheets
  /\ crossed \subseteq Nat
  /\ untold \subseteq Nat
  /\ calls \in [Slots -> ProductCall \cup {None}]

Saves(s) == IsCall(s, "save")

(* Products and forms that are named exist. *)
ProductsExist ==
  /\ {desk.editing, desk.busy, draft.text} \cup crossed \subseteq 0 .. Len(shelf)
  /\ desk.open => sheets > 0
  /\ \A i \in 1 .. Len(shelf) : shelf[i].by \in 1 .. sheets
  /\ \A n \in untold : n \in 1 .. sheets
  /\ \A s \in Slots :
       /\ calls[s] # None => calls[s].id \in 0 .. Len(shelf)
       /\ IsCall(s, "product") \/ IsCall(s, "status") \/ At(s, "save", "half")
          => calls[s].id # 0
       /\ Saves(s) =>
            /\ calls[s].from \in Entry
            /\ calls[s].from.sheet \in 1 .. sheets
            /\ calls[s].from.text <= Len(shelf)

(* The fields of the form, and of what it saves, are those of the product. *)
OwnFields ==
  /\ desk.open =>
       draft.text = desk.editing \/ (desk.editing # 0 /\ desk.editing \in crossed)
  /\ ~desk.open => desk.editing = 0
  /\ \A s \in Slots :
       Saves(s) /\ calls[s].pc \in {"sent", "half"} =>
         \/ calls[s].from.text = calls[s].id
         \/ calls[s].id # 0 /\ calls[s].id \in crossed
  /\ FieldsStayUncrossed

(* A form has one save in flight, and none when its button is there; until *)
(* it is answered the form has made no product, or is on record.           *)
NoneBy(n) == \A i \in 1 .. Len(shelf) : shelf[i].by # n
SavedOnce ==
  /\ CreatedOnce
  /\ desk.open /\ ~draft.pending => NoneBy(sheets) \/ sheets \in untold
  /\ \A s \in Slots :
       Saves(s) =>
         /\ desk.open /\ calls[s].from.sheet = sheets => draft.pending
         /\ \A t \in Slots :
              Saves(t) /\ calls[t].from.sheet = calls[s].from.sheet => s = t
         /\ calls[s].pc # "answered"
            => NoneBy(calls[s].from.sheet) \/ calls[s].from.sheet \in untold

ProductsInv == ProductTypes /\ ProductsExist /\ OwnFields /\ SavedOnce

-----------------------------------------------------------------------------
(* The page. *)

LEMMA ProductRows ==
  ASSUME ProductsInv
  PROVE  /\ Len(shelf) \in Nat /\ DOMAIN shelf = 1 .. Len(shelf)
         /\ \A i \in 1 .. Len(shelf) : shelf[i] \in Ware
         /\ \A s \in Slots : calls[s] # None => calls[s] \in ProductCall
<1>1. shelf \in Seq(Ware)
  BY DEF ProductsInv, ProductTypes
<1>. QED BY <1>1 DEF ProductsInv, ProductTypes

LEMMA DeskFields ==
  ASSUME ProductsInv
  PROVE  /\ desk.open \in BOOLEAN /\ desk.editing \in Nat /\ desk.busy \in Nat
         /\ draft.text \in Nat /\ draft.on \in BOOLEAN /\ draft.pending \in BOOLEAN
BY DEF ProductsInv, ProductTypes, Desk, Draft

(* The form is opened, closed or changed: the calls stay. *)
LEMMA ProductNew ==
  ASSUME ProductsInv, NewProduct
  PROVE  ProductsInv'
<1>. USE DEF ProductsInv
<1>1. /\ desk' \in Desk /\ desk'.open /\ desk'.editing = 0 /\ desk'.busy = desk.busy
      /\ ~desk.open
  BY DEF NewProduct, ProductTypes, Desk, OwnFields
<1>2. draft' \in Draft /\ draft' = NewDraft /\ draft'.text = 0 /\ ~draft'.pending
  BY DEF NewProduct, OwnFields, Seeded, NewDraft, Draft
<1>3. sheets' = sheets + 1 /\ sheets' \in Nat /\ sheets' <= MaxSheets
  BY ProductBounds DEF NewProduct, ProductTypes
<1>4. UNCHANGED <<shelf, crossed, untold, calls>>
  BY DEF NewProduct
<1>. USE <1>4 DEF IsCall, At, Saves
<1>5. ProductTypes'
  BY <1>1, <1>2, <1>3 DEF ProductTypes
<1>6. ProductsExist'
  BY <1>1, <1>2, <1>3, ProductRows DEF ProductsExist, ProductTypes, Entry
<1>7. OwnFields'
  BY <1>1, <1>2 DEF OwnFields, FieldsStayUncrossed
<1>8. SavedOnce'
  <2>1. \A i \in 1 .. Len(shelf) : shelf[i].by # sheets'
    BY <1>3 DEF ProductsExist, ProductTypes
  <2>2. \A s \in Slots : Saves(s) => calls[s].from.sheet # sheets'
    BY <1>3 DEF ProductsExist, ProductTypes
  <2>. QED BY <1>1, <1>2, <2>1, <2>2 DEF SavedOnce, CreatedOnce, NoneBy
<1>. QED BY <1>5, <1>6, <1>7, <1>8

LEMMA ProductToggleSplit ==
  ASSUME ProductsInv, ToggleSplit
  PROVE  ProductsInv'
<1>. USE DEF ProductsInv
<1>1. /\ draft' \in Draft /\ draft'.text = draft.text /\ draft'.pending = draft.pending
  BY DEF ToggleSplit, ProductTypes, Draft
<1>2. UNCHANGED <<shelf, desk, sheets, crossed, untold, calls>>
  BY DEF ToggleSplit
<1>. USE <1>1, <1>2 DEF IsCall, At, Saves
<1>3. ProductTypes'
  BY DEF ProductTypes
<1>4. ProductsExist' /\ OwnFields'
  BY DEF ProductsExist, OwnFields, FieldsStayUncrossed
<1>5. SavedOnce'
  BY DEF SavedOnce, CreatedOnce, NoneBy
<1>. QED BY <1>3, <1>4, <1>5

LEMMA ClosedForm ==
  ASSUME ProductsInv, CloseForm
  PROVE  /\ desk' \in Desk /\ ~desk'.open /\ desk'.editing = 0 /\ desk'.busy = desk.busy
         /\ draft' \in Draft /\ draft'.text = 0
BY DEF CloseForm, ProductsInv, ProductTypes, Desk, NewDraft, Draft

LEMMA ProductDismiss ==
  ASSUME ProductsInv, Dismiss
  PROVE  ProductsInv'
<1>. USE DEF ProductsInv
<1>1. /\ desk' \in Desk /\ ~desk'.open /\ desk'.editing = 0 /\ desk'.busy = desk.busy
      /\ draft' \in Draft /\ draft'.text = 0
  BY ClosedForm DEF Dismiss
<1>2. UNCHANGED <<shelf, sheets, crossed, untold, calls>>
  BY DEF Dismiss
<1>. USE <1>1, <1>2 DEF IsCall, At, Saves
<1>3. ProductTypes'
  BY DEF ProductTypes
<1>4. ProductsExist'
  BY ProductRows DEF ProductsExist
<1>5. OwnFields'
  BY DEF OwnFields, FieldsStayUncrossed
<1>6. SavedOnce'
  BY DEF SavedOnce, CreatedOnce, NoneBy
<1>. QED BY <1>3, <1>4, <1>5, <1>6

(* The calls of a page that is left are still about what they were about.   *)
LEMMA ProductLeave ==
  ASSUME ProductsInv, LeaveProducts
  PROVE  ProductsInv'
<1>. USE DEF ProductsInv
<1>1. /\ desk' \in Desk /\ ~desk'.open /\ desk'.editing = 0 /\ desk'.busy = 0
      /\ draft' \in Draft /\ draft'.text = 0
  BY DEF LeaveProducts, Cleared, Desk, NewDraft, Draft
<1>2. UNCHANGED <<shelf, sheets, crossed, untold>>
  BY DEF LeaveProducts
<1>3. /\ calls' \in [Slots -> ProductCall \cup {None}]
      /\ \A s \in Slots :
           \/ calls'[s] = None
           \/ /\ calls[s] # None
              /\ calls'[s].kind = calls[s].kind /\ calls'[s].id = calls[s].id
              /\ calls'[s].pc = calls[s].pc /\ calls'[s].from = calls[s].from
  <2>1. calls' = [s \in Slots |-> IF calls[s] # None /\ calls[s].kind = "save"
                                 THEN Orphaned[s] ELSE None]
    BY DEF LeaveProducts
  <2>2. \A s \in Slots : calls'[s] = None \/ (calls[s] # None /\ calls'[s] = Orphaned[s])
    BY <2>1
  <2>3. ASSUME NEW s \in Slots, calls[s] # None
        PROVE  /\ Orphaned[s] \in ProductCall
               /\ Orphaned[s].kind = calls[s].kind /\ Orphaned[s].id = calls[s].id
               /\ Orphaned[s].pc = calls[s].pc /\ Orphaned[s].from = calls[s].from
    <3>1. Orphaned[s] = [calls[s] EXCEPT !.here = FALSE] /\ calls[s] \in ProductCall
      BY <2>3 DEF Orphaned, ProductTypes
    <3>. QED BY <3>1 DEF ProductCall
  <2>. QED BY <2>1, <2>2, <2>3
<1>. USE <1>1, <1>2, <1>3 DEF IsCall, At, Saves
<1>4. ProductTypes'
  BY DEF ProductTypes
<1>5. ProductsExist'
  BY ProductRows DEF ProductsExist
<1>6. OwnFields'
  BY DEF OwnFields, FieldsStayUncrossed
<1>7. SavedOnce'
  BY DEF SavedOnce, CreatedOnce, NoneBy
<1>. QED BY <1>4, <1>5, <1>6, <1>7

LEMMA ProductAsked ==
  ASSUME ProductsInv, NEW i \in DOMAIN shelf, NEW kind \in {"product", "status"},
         AskFor(i, kind)
  PROVE  ProductsInv'
<1>. USE DEF ProductsInv
<1>1. i \in 1 .. Len(shelf) /\ i \in Nat /\ i # 0
  BY ProductRows
<1>2. Call(kind, i, None) \in ProductCall
  BY <1>1 DEF Call, ProductCall
<1>3. /\ calls' \in [Slots -> ProductCall \cup {None}]
      /\ \E s \in Slots : calls[s] = None /\ Becomes(s, Call(kind, i, None))
  BY <1>2, AskedCall DEF ProductTypes, AskFor
<1>4. PICK s \in Slots : calls[s] = None /\ Becomes(s, Call(kind, i, None))
  BY <1>3
<1>5. /\ desk' \in Desk /\ desk'.open = desk.open /\ desk'.editing = desk.editing
      /\ desk'.busy = i
  BY <1>1 DEF AskFor, ProductTypes, Desk
<1>6. UNCHANGED <<shelf, draft, sheets, crossed, untold>>
  BY DEF AskFor
<1>. USE <1>4, <1>5, <1>6 DEF Becomes, Call, IsCall, At, Saves
<1>7. ProductTypes'
  BY <1>3 DEF ProductTypes
<1>8. ProductsExist'
  BY <1>1, ProductRows DEF ProductsExist
<1>9. OwnFields'
  BY DEF OwnFields, FieldsStayUncrossed
<1>10. SavedOnce'
  BY DEF SavedOnce, CreatedOnce, NoneBy
<1>. QED BY <1>7, <1>8, <1>9, <1>10

(* A product is there: the form opens, or the one that is open keeps its   *)
(* fields, and that is on record.                                          *)
LEMMA ProductOpens ==
  ASSUME ProductsInv, NEW s \in Slots, At(s, "product", "answered"), OpenEditor(s),
         calls' = Taken(s), UNCHANGED <<shelf, untold>>
  PROVE  ProductsInv'
<1>. USE DEF ProductsInv
<1>1. calls' \in [Slots -> ProductCall \cup {None}] /\ Becomes(s, None)
  BY TakenCall DEF ProductTypes
<1>. DEFINE i == calls[s].id
<1>2. i \in 1 .. Len(shelf) /\ i \in Nat /\ i # 0
  BY ProductRows DEF At, IsCall, ProductsExist
<1>3. desk' \in Desk /\ desk'.open /\ desk'.editing = i /\ desk'.busy = 0
  BY <1>2 DEF OpenEditor, Desk
<1>4. CASE desk.open
  <2>1. crossed' = crossed \cup {i} /\ UNCHANGED <<draft, sheets>>
    BY <1>4 DEF OpenEditor
  <2>. HIDE DEF i
  <2>. USE <1>1, <1>2, <1>3, <2>1 DEF Becomes, IsCall, At, Saves
  <2>2. ProductTypes'
    BY DEF ProductTypes
  <2>3. ProductsExist'
    BY <1>4, ProductRows DEF ProductsExist
  <2>4. OwnFields'
    BY ProductRows DEF OwnFields, FieldsStayUncrossed
  <2>5. SavedOnce'
    BY <1>4 DEF SavedOnce, CreatedOnce, NoneBy
  <2>. QED BY <2>2, <2>3, <2>4, <2>5
<1>5. CASE ~desk.open
  <2>1. /\ sheets' = sheets + 1 /\ sheets' \in Nat /\ sheets' <= MaxSheets
        /\ UNCHANGED crossed
    BY <1>5, ProductBounds DEF OpenEditor, ProductTypes
  <2>2. draft' \in Draft /\ draft'.text = i /\ draft'.pending = FALSE
    <3>1. PICK on \in BOOLEAN : on = (calls[s].seen # None)
      OBVIOUS
    <3>2. draft' = [text |-> i, on |-> on, pending |-> FALSE]
      BY <1>2, <1>5, <3>1 DEF OpenEditor, Seeded
    <3>. QED BY <1>2, <3>2 DEF Draft
  <2>. HIDE DEF i
  <2>. USE <1>1, <1>2, <1>3, <2>1, <2>2 DEF Becomes, IsCall, At, Saves
  <2>3. ProductTypes'
    BY DEF ProductTypes
  <2>4. ProductsExist'
    <3>1. 1 .. sheets \subseteq 1 .. sheets' /\ sheets' > 0
      BY DEF ProductTypes
    <3>2. {desk'.editing, desk'.busy, draft'.text} \subseteq 0 .. Len(shelf)
      BY ProductRows
    <3>. QED BY <3>1, <3>2 DEF ProductsExist
  <2>5. OwnFields'
    BY ProductRows DEF OwnFields, FieldsStayUncrossed
  <2>6. SavedOnce'
    <3>1. \A j \in 1 .. Len(shelf) : shelf[j].by # sheets'
      BY DEF ProductsExist, ProductTypes
    <3>2. \A t \in Slots : Saves(t) => calls[t].from.sheet # sheets'
      BY DEF ProductsExist, ProductTypes
    <3>. QED BY <3>1, <3>2 DEF SavedOnce, CreatedOnce, NoneBy
  <2>. QED BY <2>3, <2>4, <2>5, <2>6
<1>. QED BY <1>4, <1>5 DEF ProductTypes, Desk

LEMMA ProductTake ==
  ASSUME ProductsInv, NEW s \in Slots, TakeProduct(s)
  PROVE  ProductsInv'
<1>. USE DEF ProductsInv
<1>1. CASE At(s, "product", "answered") /\ OpenEditor(s)
  BY <1>1, ProductOpens DEF TakeProduct
<1>2. CASE /\ desk' = IF calls[s].here THEN [desk EXCEPT !.busy = 0] ELSE desk
           /\ UNCHANGED <<draft, sheets, crossed>>
  <2>1. calls' \in [Slots -> ProductCall \cup {None}] /\ Becomes(s, None)
    BY TakenCall DEF ProductTypes, TakeProduct
  <2>2. /\ desk' \in Desk /\ desk'.open = desk.open /\ desk'.editing = desk.editing
        /\ desk'.busy \in {0, desk.busy}
    BY <1>2 DEF ProductTypes, Desk
  <2>3. UNCHANGED <<shelf, untold>>
    BY DEF TakeProduct
  <2>. USE <1>2, <2>1, <2>2, <2>3 DEF Becomes, IsCall, At, Saves
  <2>4. ProductTypes'
    BY DEF ProductTypes
  <2>5. ProductsExist'
    BY ProductRows DEF ProductsExist
  <2>6. OwnFields'
    BY DEF OwnFields, FieldsStayUncrossed
  <2>7. SavedOnce'
    BY DEF SavedOnce, CreatedOnce, NoneBy
  <2>. QED BY <2>4, <2>5, <2>6, <2>7
<1>. QED BY <1>1, <1>2 DEF TakeProduct

(* A form that saves had no save in flight; no product is known as its own. *)
LEMMA ProductSubmit ==
  ASSUME ProductsInv, SubmitProduct
  PROVE  ProductsInv'
<1>. USE DEF ProductsInv
<1>1. Entered \in Entry /\ Entered.sheet = sheets /\ Entered.text = draft.text
  BY DEF Entered, Entry, ProductTypes, Draft
<1>2. Call("save", desk.editing, Entered) \in ProductCall
  BY <1>1, DeskFields DEF Call, ProductCall
<1>3. /\ calls' \in [Slots -> ProductCall \cup {None}]
      /\ \E s \in Slots : calls[s] = None /\ Becomes(s, Call("save", desk.editing, Entered))
  BY <1>2, AskedCall DEF ProductTypes, SubmitProduct
<1>4. PICK s \in Slots : calls[s] = None /\ Becomes(s, Call("save", desk.editing, Entered))
  BY <1>3
<1>5. draft' \in Draft /\ draft'.text = draft.text /\ draft'.pending
  BY DEF SubmitProduct, ProductTypes, Draft
<1>6. /\ UNCHANGED <<shelf, desk, sheets, crossed, untold>>
      /\ desk.open /\ ~draft.pending
  BY DEF SubmitProduct
<1>. USE <1>1, <1>4, <1>5, <1>6 DEF Becomes, Call, IsCall, At, Saves
<1>7. ProductTypes'
  BY <1>3 DEF ProductTypes
<1>8. ProductsExist'
  BY ProductRows DEF ProductsExist, ProductTypes
<1>9. OwnFields'
  BY DEF OwnFields, FieldsStayUncrossed
<1>10. SavedOnce'
  BY DEF SavedOnce, CreatedOnce, NoneBy
<1>. QED BY <1>7, <1>8, <1>9, <1>10

LEMMA ProductTakeSaved ==
  ASSUME ProductsInv, NEW s \in Slots, TakeSaved(s)
  PROVE  ProductsInv'
<1>. USE DEF ProductsInv
<1>1. calls' \in [Slots -> ProductCall \cup {None}] /\ Becomes(s, None)
  BY TakenCall DEF ProductTypes, TakeSaved
<1>2. UNCHANGED <<shelf, sheets, crossed, untold>> /\ Saves(s)
  BY DEF TakeSaved, Saves, IsCall, At
<1>. USE <1>1, <1>2 DEF Becomes, IsCall, At, Saves
<1>3. CASE CloseForm
  <2>1. /\ desk' \in Desk /\ ~desk'.open /\ desk'.editing = 0 /\ desk'.busy = desk.busy
        /\ draft' \in Draft /\ draft'.text = 0
    BY <1>3, ClosedForm
  <2>. USE <2>1
  <2>2. ProductTypes'
    BY DEF ProductTypes
  <2>3. ProductsExist'
    BY ProductRows DEF ProductsExist
  <2>4. OwnFields'
    BY DEF OwnFields, FieldsStayUncrossed
  <2>5. SavedOnce'
    BY DEF SavedOnce, CreatedOnce, NoneBy
  <2>. QED BY <2>2, <2>3, <2>4, <2>5
<1>4. CASE UNCHANGED <<desk, draft>>
  <2>1. ProductTypes'
    BY <1>4 DEF ProductTypes
  <2>2. ProductsExist'
    BY <1>4 DEF ProductsExist
  <2>3. OwnFields'
    BY <1>4 DEF OwnFields, FieldsStayUncrossed
  <2>4. SavedOnce'
    BY <1>4 DEF SavedOnce, CreatedOnce, NoneBy
  <2>. QED BY <2>1, <2>2, <2>3, <2>4
<1>5. CASE /\ At(s, "save", "error") /\ calls[s].from.sheet = sheets
           /\ draft' = [draft EXCEPT !.pending = FALSE] /\ UNCHANGED desk
  <2>1. draft' \in Draft /\ draft'.text = draft.text /\ ~draft'.pending
    BY <1>5 DEF ProductTypes, Draft
  <2>2. ProductTypes'
    BY <1>5, <2>1 DEF ProductTypes
  <2>3. ProductsExist'
    BY <1>5, <2>1 DEF ProductsExist
  <2>4. OwnFields'
    BY <1>5, <2>1 DEF OwnFields, FieldsStayUncrossed
  <2>5. SavedOnce'
    BY <1>5, <2>1 DEF SavedOnce, CreatedOnce, NoneBy
  <2>. QED BY <2>2, <2>3, <2>4, <2>5
<1>. QED BY <1>3, <1>4, <1>5 DEF TakeSaved

-----------------------------------------------------------------------------
(* The server. *)

(* A call is answered or fails and the products stay; a product that was    *)
(* made is then on record as untold.                                        *)
ProductServed(s, pc, seen) ==
  /\ calls[s] # None
  /\ pc \in {"answered", "error"} /\ seen \in Nat \cup {None}
  /\ calls' = [calls EXCEPT ![s] = [calls[s] EXCEPT !.pc = pc, !.seen = seen]]
  /\ UNCHANGED <<shelf, desk, draft, sheets, crossed>>
  /\ Saves(s) => pc = "error"
  /\ \/ UNCHANGED untold /\ (Saves(s) => calls[s].pc # "answered")
     \/ Saves(s) /\ untold' = untold \cup {calls[s].from.sheet}

LEMMA ProductAnswered ==
  ASSUME ProductsInv, NEW s \in Slots, NEW pc, NEW seen, ProductServed(s, pc, seen)
  PROVE  ProductsInv'
<1>. USE DEF ProductsInv, ProductServed
<1>. DEFINE new == [calls[s] EXCEPT !.pc = pc, !.seen = seen]
<1>1. calls[s] \in ProductCall
  BY ProductRows
<1>2. /\ new \in ProductCall /\ new.kind = calls[s].kind /\ new.id = calls[s].id
      /\ new.pc = pc /\ new.from = calls[s].from
  BY <1>1 DEF ProductCall
<1>3. calls' \in [Slots -> ProductCall \cup {None}] /\ Becomes(s, new)
  BY <1>1, <1>2, AnsweredCall DEF ProductTypes
<1>. HIDE DEF new
<1>4. /\ untold \subseteq untold'
      /\ untold' \subseteq untold \cup IF Saves(s) THEN {calls[s].from.sheet} ELSE {}
  OBVIOUS
<1>5. Saves(s) => calls[s].from.sheet \in 1 .. sheets
  BY DEF ProductsExist
<1>. USE <1>2, <1>3, <1>4 DEF Becomes, IsCall, At, Saves
<1>6. ProductTypes'
  BY <1>5 DEF ProductTypes
<1>7. ProductsExist'
  BY <1>5 DEF ProductsExist
<1>8. OwnFields'
  BY DEF OwnFields, FieldsStayUncrossed
<1>9. SavedOnce'
  BY DEF SavedOnce, CreatedOnce, NoneBy
<1>. QED BY <1>6, <1>7, <1>8, <1>9

LEMMA ProductRead ==
  ASSUME ProductsInv, NEW s \in Slots, ReadProduct(s)
  PROVE  ProductsInv'
<1>. USE DEF ProductsInv
<1>1. /\ calls[s] # None /\ calls[s] \in ProductCall /\ calls[s].kind = "product"
      /\ UNCHANGED <<shelf, desk, draft, sheets, crossed, untold>>
  BY ProductRows DEF ReadProduct, At
<1>2. PICK i \in 1 .. Len(shelf) : i = calls[s].id
  BY <1>1, ProductRows DEF ProductsExist, IsCall
<1>3. shelf[i].split \in Nat \cup {None}
  BY ProductRows DEF Ware
<1>4. calls' = [calls EXCEPT ![s] =
                  [calls[s] EXCEPT !.pc = "answered", !.seen = shelf[i].split]]
  BY <1>1, <1>2 DEF ReadProduct, Answered, ProductTypes, ProductCall
<1>5. ProductServed(s, "answered", shelf[i].split)
  BY <1>1, <1>3, <1>4 DEF ProductServed, Saves, IsCall
<1>. QED BY <1>5, ProductAnswered

LEMMA ProductSetStatus ==
  ASSUME ProductsInv, NEW s \in Slots, SetStatus(s)
  PROVE  ProductsInv'
<1>. USE DEF ProductsInv
<1>1. /\ calls[s] # None /\ calls[s] \in ProductCall /\ calls[s].kind = "status"
      /\ UNCHANGED <<shelf, desk, draft, sheets, crossed, untold>>
  BY ProductRows DEF SetStatus, At
<1>2. calls' = [calls EXCEPT ![s] = [calls[s] EXCEPT !.pc = "answered", !.seen = None]]
  BY <1>1 DEF SetStatus, Answered, ProductTypes, ProductCall
<1>3. ProductServed(s, "answered", None)
  BY <1>1, <1>2 DEF ProductServed, Saves, IsCall
<1>. QED BY <1>3, ProductAnswered

LEMMA ProductFails ==
  ASSUME ProductsInv, NEW s \in Slots, ProductCallFails(s)
  PROVE  ProductsInv'
<1>. USE DEF ProductsInv
<1>1. /\ calls[s] # None /\ calls[s] \in ProductCall /\ calls[s].seen \in Nat \cup {None}
      /\ UNCHANGED <<shelf, desk, draft, sheets, crossed>>
  BY ProductRows DEF ProductCallFails, CanBreak, ProductCall
<1>2. calls' = [calls EXCEPT ![s] = [calls[s] EXCEPT !.pc = "error", !.seen = calls[s].seen]]
  BY <1>1 DEF ProductCallFails, Broken, ProductTypes, ProductCall
<1>3. \/ UNCHANGED untold /\ (Saves(s) => calls[s].pc # "answered")
      \/ Saves(s) /\ untold' = untold \cup {calls[s].from.sheet}
  BY DEF ProductCallFails, Saves, IsCall, At
<1>4. ProductServed(s, "error", calls[s].seen)
  BY <1>1, <1>2, <1>3 DEF ProductServed
<1>. QED BY <1>4, ProductAnswered

(* A form that makes a product has not made one, or is on record. *)
LEMMA ProductAdd ==
  ASSUME ProductsInv, NEW s \in Slots, AddProduct(s)
  PROVE  ProductsInv'
<1>. USE DEF ProductsInv
<1>. DEFINE i == Len(shelf) + 1
            new == [calls[s] EXCEPT !.pc = "answered", !.id = i, !.seen = None]
            ware == [by |-> calls[s].from.sheet, text |-> i,
                     split |-> IF calls[s].from.on THEN i ELSE None]
<1>1. /\ calls[s] \in ProductCall /\ calls[s] # None /\ calls[s].kind = "save"
      /\ calls[s].pc = "sent" /\ calls[s].id = 0
      /\ UNCHANGED <<desk, draft, sheets, crossed, untold>>
  BY ProductRows DEF AddProduct, At
<1>2. calls[s].from \in Entry /\ calls[s].from.text = 0 /\ calls[s].from.sheet \in 1 .. sheets
  BY <1>1 DEF ProductsExist, OwnFields, Saves, IsCall
<1>3. shelf' = Append(shelf, ware)
  BY <1>2 DEF AddProduct
<1>4. i \in Nat /\ i # 0
  BY ProductRows
<1>5. ware \in Ware /\ ware.by = calls[s].from.sheet /\ ware.text = i /\ ware.split \in {i, None}
  BY <1>2, <1>4 DEF Ware, Entry
<1>. HIDE DEF ware
<1>6. /\ i \notin 1 .. Len(shelf)
      /\ shelf' \in Seq(Ware) /\ Len(shelf') = i
      /\ 1 .. Len(shelf') = 1 .. Len(shelf) \cup {i}
      /\ 0 .. Len(shelf) \subseteq 0 .. Len(shelf')
      /\ i \in 0 .. Len(shelf')
      /\ \A j \in 1 .. Len(shelf) : shelf'[j] = shelf[j]
      /\ shelf'[i] = ware
      /\ DOMAIN shelf' = 1 .. Len(shelf')
  BY <1>3, <1>5, ProductRows DEF ProductTypes
<1>7. /\ new \in ProductCall /\ new.kind = "save" /\ new.pc = "answered" /\ new.id = i
      /\ new.from = calls[s].from
  BY <1>1, <1>4 DEF ProductCall
<1>8. calls' \in [Slots -> ProductCall \cup {None}] /\ Becomes(s, new)
  <2>1. calls' = [calls EXCEPT ![s] = new]
    BY <1>1 DEF AddProduct, Answered, ProductTypes, ProductCall
  <2>. QED BY <1>1, <1>7, <2>1, AnsweredCall DEF ProductTypes
<1>. HIDE DEF new, i
<1>. USE <1>1, <1>7, <1>8 DEF Becomes, IsCall, At, Saves
<1>9. ProductTypes'
  BY <1>6 DEF ProductTypes
<1>10. ProductsExist'
  <2>1. \A t \in Slots : Saves(t) => calls[t].from.text <= Len(shelf')
    <3>1. \A n \in Nat : n <= Len(shelf) => n <= Len(shelf')
      BY <1>6, ProductRows DEF i
    <3>. QED BY <3>1 DEF ProductsExist, Entry
  <2>2. \A j \in 1 .. Len(shelf') : shelf'[j].by \in 1 .. sheets
    BY <1>2, <1>5, <1>6 DEF ProductsExist
  <2>. QED BY <1>2, <1>4, <1>6, <2>1, <2>2 DEF ProductsExist
<1>11. OwnFields'
  BY <1>5, <1>6, ProductRows DEF OwnFields, FieldsStayUncrossed
<1>12. SavedOnce'
  <2>1. NoneBy(calls[s].from.sheet) \/ calls[s].from.sheet \in untold
    BY DEF SavedOnce
  <2>2. CreatedOnce'
    <3>1. ASSUME NEW j \in 1 .. Len(shelf'), NEW k \in 1 .. Len(shelf'),
                 j # k, shelf'[j].by = shelf'[k].by
          PROVE  shelf'[j].by \in untold
      <4>1. CASE j \in 1 .. Len(shelf) /\ k \in 1 .. Len(shelf)
        BY <1>6, <3>1, <4>1, ProductRows DEF SavedOnce, CreatedOnce
      <4>2. CASE j = i \/ k = i
        <5>1. shelf'[j].by = calls[s].from.sheet
          BY <1>5, <1>6, <3>1, <4>2
        <5>2. ~NoneBy(calls[s].from.sheet)
          BY <1>6, <3>1, <4>2, <5>1 DEF NoneBy
        <5>. QED BY <2>1, <5>1, <5>2
      <4>. QED BY <1>6, <4>1, <4>2
    <3>. QED BY <1>6, <3>1 DEF CreatedOnce
  <2>3. \A n : n # calls[s].from.sheet /\ NoneBy(n) => \A j \in 1 .. Len(shelf') : shelf'[j].by # n
    BY <1>5, <1>6 DEF NoneBy
  <2>4. desk.open /\ ~draft.pending => sheets # calls[s].from.sheet
    BY DEF SavedOnce
  <2>5. (desk.open /\ ~draft.pending => NoneBy(sheets) \/ sheets \in untold)'
    <3>. SUFFICES ASSUME desk.open, ~draft.pending, sheets \notin untold PROVE NoneBy(sheets)'
      OBVIOUS
    <3>1. NoneBy(sheets) /\ sheets # calls[s].from.sheet
      BY <2>4 DEF SavedOnce
    <3>. QED BY <2>3, <3>1 DEF NoneBy
  <2>6. ASSUME NEW t \in Slots, Saves(t)', (calls[t].pc # "answered")',
               calls[t].from.sheet \notin untold
        PROVE  NoneBy(calls[t].from.sheet)'
    <3>1. t # s /\ Saves(t) /\ calls'[t] = calls[t]
      BY <2>6
    <3>2. NoneBy(calls[t].from.sheet) /\ calls[t].from.sheet # calls[s].from.sheet
      BY <2>6, <3>1 DEF SavedOnce
    <3>. QED BY <2>3, <3>1, <3>2 DEF NoneBy
  <2>7. \A t, u \in Slots :
          Saves(t)' /\ Saves(u)' /\ calls'[u].from.sheet = calls'[t].from.sheet => t = u
    BY DEF SavedOnce
  <2>8. \A t \in Slots :
          Saves(t)' /\ desk.open /\ calls'[t].from.sheet = sheets => draft.pending
    BY DEF SavedOnce
  <2>. QED BY <2>2, <2>5, <2>6, <2>7, <2>8 DEF SavedOnce
<1>. QED BY <1>9, <1>10, <1>11, <1>12

(* An update changes a product's fields to those that were typed for it.    *)
LEMMA WareChanges ==
  ASSUME ProductsInv, NEW i \in 1 .. Len(shelf), NEW ware \in Ware, ware.by = shelf[i].by,
         shelf' = [shelf EXCEPT ![i] = ware]
  PROVE  /\ shelf' \in Seq(Ware) /\ Len(shelf') = Len(shelf) /\ DOMAIN shelf' = DOMAIN shelf
         /\ \A j \in 1 .. Len(shelf) : shelf'[j].by = shelf[j].by
         /\ \A j \in 1 .. Len(shelf) : j # i => shelf'[j] = shelf[j]
         /\ shelf'[i] = ware
<1>1. shelf \in Seq(Ware)
  BY DEF ProductsInv, ProductTypes
<1>. QED BY <1>1

LEMMA ProductUpdate ==
  ASSUME ProductsInv, NEW s \in Slots, Saves(s), calls[s].id # 0, calls[s].pc \in {"sent", "half"},
         NEW new \in ProductCall, Becomes(s, new), calls' \in [Slots -> ProductCall \cup {None}],
         new.kind = "save", new.id = calls[s].id, new.from = calls[s].from,
         new.pc \in {"half", "answered"},
         NEW ware \in Ware, ware.by = shelf[calls[s].id].by,
         ware.text \in {shelf[calls[s].id].text, calls[s].from.text},
         ware.split \in {shelf[calls[s].id].split, calls[s].from.text},
         shelf' = [shelf EXCEPT ![calls[s].id] = ware],
         UNCHANGED <<desk, draft, sheets, crossed, untold>>
  PROVE  ProductsInv'
<1>. USE DEF ProductsInv, Becomes, IsCall, At, Saves
<1>1. PICK i \in 1 .. Len(shelf) : i = calls[s].id
  BY ProductRows DEF ProductsExist
<1>2. /\ shelf' \in Seq(Ware) /\ Len(shelf') = Len(shelf) /\ DOMAIN shelf' = DOMAIN shelf
      /\ \A j \in 1 .. Len(shelf) : shelf'[j].by = shelf[j].by
      /\ \A j \in 1 .. Len(shelf) : j # i => shelf'[j] = shelf[j]
      /\ shelf'[i] = ware
  BY <1>1, WareChanges
<1>3. ProductTypes'
  BY <1>2 DEF ProductTypes
<1>4. ProductsExist'
  BY <1>2 DEF ProductsExist
<1>5. OwnFields'
  <2>1. i \in crossed \/ calls[s].from.text = i
    BY <1>1 DEF OwnFields
  <2>2. i \notin crossed => ware.text = i /\ ware.split \in {i, None}
    BY <1>1, <2>1, ProductRows DEF OwnFields, FieldsStayUncrossed
  <2>3. FieldsStayUncrossed'
    BY <1>2, <2>2, ProductRows DEF OwnFields, FieldsStayUncrossed
  <2>. QED BY <2>3 DEF OwnFields
<1>6. SavedOnce'
  BY <1>2, ProductRows DEF SavedOnce, CreatedOnce, NoneBy
<1>. QED BY <1>3, <1>4, <1>5, <1>6

LEMMA ProductSplits ==
  ASSUME ProductsInv, NEW s \in Slots, UpdateSplit(s)
  PROVE  ProductsInv'
<1>. USE DEF ProductsInv
<1>1. /\ calls[s] \in ProductCall /\ calls[s] # None /\ calls[s].kind = "save"
      /\ calls[s].pc = "sent" /\ calls[s].id # 0 /\ Saves(s)
      /\ UNCHANGED <<desk, draft, sheets, crossed, untold>>
  BY ProductRows DEF UpdateSplit, At, Saves, IsCall
<1>2. PICK i \in 1 .. Len(shelf) : i = calls[s].id
  BY <1>1, ProductRows DEF ProductsExist
<1>3. calls[s].from.text \in Nat /\ shelf[i] \in Ware /\ shelf \in Seq(Ware)
  BY <1>1, ProductRows DEF ProductsExist, Entry, ProductTypes
<1>. DEFINE new == [calls[s] EXCEPT !.pc = "half"]
            ware == IF calls[s].from.on THEN [shelf[i] EXCEPT !.split = calls[s].from.text]
                    ELSE shelf[i]
<1>4. /\ new \in ProductCall /\ new.kind = "save" /\ new.pc = "half" /\ new.id = calls[s].id
      /\ new.from = calls[s].from
  BY <1>1 DEF ProductCall
<1>5. calls' \in [Slots -> ProductCall \cup {None}] /\ Becomes(s, new)
  <2>1. calls' = [calls EXCEPT ![s] = new]
    BY <1>1 DEF UpdateSplit, ProductTypes, ProductCall
  <2>. QED BY <1>1, <1>4, <2>1, AnsweredCall DEF ProductTypes
<1>6. /\ ware \in Ware /\ ware.by = shelf[i].by /\ ware.text = shelf[i].text
      /\ ware.split \in {shelf[i].split, calls[s].from.text}
  BY <1>3 DEF Ware
<1>7. shelf' = [shelf EXCEPT ![i] = ware]
  <2>1. CASE calls[s].from.on
    BY <1>2, <2>1 DEF UpdateSplit
  <2>2. CASE ~calls[s].from.on
    <3>1. shelf' = shelf /\ ware = shelf[i]
      BY <2>2 DEF UpdateSplit
    <3>. QED BY <1>3, <3>1
  <2>. QED BY <2>1, <2>2
<1>. HIDE DEF new, ware
<1>. QED BY <1>1, <1>2, <1>4, <1>5, <1>6, <1>7, ProductUpdate

LEMMA ProductFields ==
  ASSUME ProductsInv, NEW s \in Slots, UpdateFields(s)
  PROVE  ProductsInv'
<1>. USE DEF ProductsInv
<1>1. /\ calls[s] \in ProductCall /\ calls[s] # None /\ calls[s].kind = "save"
      /\ calls[s].pc = "half" /\ calls[s].id # 0 /\ Saves(s)
      /\ UNCHANGED <<desk, draft, sheets, crossed, untold>>
  BY ProductRows DEF UpdateFields, At, Saves, IsCall, ProductsExist
<1>2. PICK i \in 1 .. Len(shelf) : i = calls[s].id
  BY <1>1, ProductRows DEF ProductsExist
<1>3. calls[s].from.text \in Nat /\ shelf[i] \in Ware /\ shelf \in Seq(Ware)
  BY <1>1, ProductRows DEF ProductsExist, Entry, ProductTypes
<1>. DEFINE new == [calls[s] EXCEPT !.pc = "answered", !.id = calls[s].id, !.seen = None]
            ware == [shelf[i] EXCEPT !.text = calls[s].from.text]
<1>4. /\ new \in ProductCall /\ new.kind = "save" /\ new.pc = "answered"
      /\ new.id = calls[s].id /\ new.from = calls[s].from
  BY <1>1 DEF ProductCall
<1>5. calls' \in [Slots -> ProductCall \cup {None}] /\ Becomes(s, new)
  <2>1. calls' = [calls EXCEPT ![s] = new]
    BY <1>1 DEF UpdateFields, Answered, ProductTypes, ProductCall
  <2>. QED BY <1>1, <1>4, <2>1, AnsweredCall DEF ProductTypes
<1>6. /\ ware \in Ware /\ ware.by = shelf[i].by /\ ware.text = calls[s].from.text
      /\ ware.split = shelf[i].split
  BY <1>3 DEF Ware
<1>7. shelf' = [shelf EXCEPT ![i] = ware]
  BY <1>1, <1>2, <1>3 DEF UpdateFields
<1>. HIDE DEF new, ware
<1>. QED BY <1>1, <1>2, <1>4, <1>5, <1>6, <1>7, ProductUpdate

LEMMA ProductsStep ==
  ASSUME ProductsInv, ProductsNext
  PROVE  ProductsInv'
BY ProductNew, ProductToggleSplit, ProductSubmit, ProductDismiss, ProductLeave, ProductAsked,
   ProductTake, ProductTakeSaved, ProductRead, ProductSetStatus, ProductAdd, ProductSplits,
   ProductFields, ProductFails
DEF ProductsNext, StartEdit, ToggleArchive

LEMMA ProductsStart ==
  ASSUME ProductsInit
  PROVE  ProductsInv
<1>1. /\ desk \in Desk /\ ~desk.open /\ desk.editing = 0 /\ desk.busy = 0
      /\ draft \in Draft /\ draft.text = 0
  BY DEF ProductsInit, Cleared, Desk, NewDraft, Draft
<1>2. /\ shelf = <<>> /\ sheets = 0 /\ crossed = {} /\ untold = {}
      /\ \A s \in Slots : calls[s] = None
  BY DEF ProductsInit, Forgotten
<1>3. ProductTypes
  <2>1. calls \in [Slots -> ProductCall \cup {None}]
    BY DEF ProductsInit, Forgotten
  <2>2. shelf \in Seq(Ware) /\ 0 <= MaxSheets
    BY <1>2, ProductBounds
  <2>. QED BY <1>1, <1>2, <2>1, <2>2 DEF ProductTypes
<1>4. ProductsExist /\ OwnFields
  BY <1>1, <1>2 DEF ProductsExist, OwnFields, FieldsStayUncrossed, IsCall, At, Saves
<1>5. SavedOnce
  BY <1>1, <1>2 DEF SavedOnce, CreatedOnce, IsCall, Saves
<1>. QED BY <1>3, <1>4, <1>5 DEF ProductsInv

LEMMA ProductsStutter ==
  ASSUME ProductsInv, UNCHANGED productVars
  PROVE  ProductsInv'
BY DEF productVars, ProductsInv, ProductTypes, ProductsExist, OwnFields, FieldsStayUncrossed,
   SavedOnce, CreatedOnce, NoneBy, IsCall, At, Saves

LEMMA ProductsInvTyped ==
  ASSUME ProductsInv
  PROVE  ProductsTypeOK
<1>1. untold \subseteq 1 .. MaxSheets /\ sheets \in 0 .. MaxSheets
  BY ProductBounds DEF ProductsInv, ProductTypes, ProductsExist
<1>. QED BY <1>1 DEF ProductsInv, ProductTypes, ProductsExist, ProductsTypeOK

-----------------------------------------------------------------------------

(* What the form of a product holds and saves belongs to that product. *)
THEOREM ProductsInvariant == ProductsSpec => []ProductsInv
<1>1. ProductsInv /\ [ProductsNext]_productVars => ProductsInv'
  BY ProductsStep, ProductsStutter
<1>. QED BY <1>1, ProductsStart, PTL DEF ProductsSpec

(* Every variable of the page has its type; a product that is named exists. *)
THEOREM ProductsTyped == ProductsSpec => []ProductsTypeOK
<1>1. ProductsInv => ProductsTypeOK
  BY ProductsInvTyped
<1>. QED BY <1>1, ProductsInvariant, PTL

(* What was typed for one product is saved to another only if that one was  *)
(* fetched into an open form.                                               *)
THEOREM OwnFieldsSaved == ProductsSpec => []FieldsStayUncrossed
<1>1. ProductsInv => FieldsStayUncrossed
  BY DEF ProductsInv, OwnFields
<1>. QED BY <1>1, ProductsInvariant, PTL

(* One opening of the form makes one product, unless the creator was told   *)
(* an error of one that was made.                                           *)
THEOREM OneProductPerForm == ProductsSpec => []CreatedOnce
<1>1. ProductsInv => CreatedOnce
  BY DEF ProductsInv, SavedOnce
<1>. QED BY <1>1, ProductsInvariant, PTL

-----------------------------------------------------------------------------
(* The editor of the mini-site.                                            *)
(*                                                                         *)
(* The one load of a visit is over before anything is saved, and one save  *)
(* at a time is in flight while the editor is open: so what is stored is   *)
(* the snapshot, or what the answer in flight brings.                      *)

Contents == 0 .. MaxTyped

SiteCall ==
  [kind : {"load", "put"}, id : Nat, from : {None}, here : BOOLEAN,
   pc : {"sent", "answered", "error"}, seen : Nat \cup {None}]

SiteTypes ==
  /\ SiteTypeOK
  /\ calls \in [Slots -> SiteCall \cup {None}]
  /\ \A s \in Slots :
       calls[s] # None =>
         calls[s].id \in Contents /\ (calls[s].pc = "answered" => calls[s].seen \in Contents)

(* The load of this visit is in flight before the site is shown, a save    *)
(* while it is edited; one of each.                                        *)
SiteCalls ==
  /\ editor.saving => editor.edit
  /\ editor.edit => editor.phase = "ready"
  /\ \A s \in Slots :
       /\ Here(s, "load") => editor.phase = "loading"
       /\ Here(s, "put") => editor.edit /\ editor.saving
  /\ \A kind \in {"load", "put"} : \A s, t \in Slots : Here(s, kind) /\ Here(t, kind) => s = t

(* Unless the page was bypassed, what is stored is what it knows, or will  *)
(* be told.                                                                *)
SiteKnown ==
  ~bypassed =>
    /\ \A s \in Slots :
         calls[s] # None /\ calls[s].here /\ calls[s].pc = "answered" => calls[s].seen = site
    /\ \/ editor.phase # "ready"
       \/ editor.snapshot = site
       \/ editor.saving /\ \A s \in Slots : Here(s, "put") => calls[s].pc = "answered"
    /\ editor.phase = "ready" /\ ~editor.edit => editor.content = editor.snapshot

SiteInv == SiteTypes /\ SiteCalls /\ SiteKnown

-----------------------------------------------------------------------------
(* The page. *)

LEMMA ContentsAre ==
  /\ 0 \in Contents /\ Contents \subseteq Nat /\ MaxTyped \in Nat
  /\ SiteTypeOK => {site, typed, editor.content, editor.snapshot} \subseteq Contents
BY SiteBounds DEF Contents, SiteTypeOK

LEMMA SiteTypesSplit ==
  ASSUME SiteInv
  PROVE  /\ editor \in Editor /\ editor.edit \in BOOLEAN /\ editor.saving \in BOOLEAN
         /\ editor.phase \in {"away", "loading", "ready", "error"}
         /\ site \in Contents /\ typed \in Contents
         /\ editor.content \in Contents /\ editor.snapshot \in Contents
         /\ bypassed \in BOOLEAN
<1>1. SiteTypeOK
  BY DEF SiteInv, SiteTypes
<1>2. {site, typed, editor.content, editor.snapshot} \subseteq Contents
  BY <1>1, ContentsAre
<1>. QED BY <1>1, <1>2 DEF SiteTypeOK, Editor

LEMMA OrphanedCalls ==
  ASSUME SiteTypes
  PROVE  /\ Orphaned \in [Slots -> SiteCall \cup {None}]
         /\ \A t \in Slots :
              \/ Orphaned[t] = None
              \/ /\ calls[t] # None /\ ~Orphaned[t].here
                 /\ Orphaned[t].id = calls[t].id
                 /\ Orphaned[t].pc = calls[t].pc /\ Orphaned[t].seen = calls[t].seen
BY DEF SiteTypes, Orphaned, SiteCall

LEMMA SiteVisit ==
  ASSUME SiteInv, Visit
  PROVE  SiteInv'
<1>. USE DEF SiteInv
<1>1. PICK s \in Slots :
        /\ calls[s] = None
        /\ calls' = [Orphaned EXCEPT ![s] = Asked("load", 0, None)[s]]
        /\ Asked("load", 0, None)[s] = Call("load", 0, None)
  <2>. DEFINE s == CHOOSE s \in Free : TRUE
  <2>1. s \in Slots /\ calls[s] = None
    BY DEF Free, Visit
  <2>2. calls' = [Orphaned EXCEPT ![s] = Asked("load", 0, None)[s]]
    BY DEF Visit
  <2>3. Asked("load", 0, None) = [calls EXCEPT ![s] = Call("load", 0, None)]
    BY DEF Asked, Call
  <2>4. Asked("load", 0, None)[s] = Call("load", 0, None)
    BY <2>1, <2>3 DEF SiteTypes
  <2>. QED BY <2>1, <2>2, <2>4
<1>2. Call("load", 0, None) \in SiteCall
  BY ContentsAre DEF Call, SiteCall
<1>3. /\ calls' \in [Slots -> SiteCall \cup {None}]
      /\ calls'[s] = Call("load", 0, None)
      /\ \A t \in Slots \ {s} :
           \/ calls'[t] = None
           \/ /\ calls[t] # None /\ ~calls'[t].here
              /\ calls'[t].id = calls[t].id
              /\ calls'[t].pc = calls[t].pc /\ calls'[t].seen = calls[t].seen
  BY <1>1, <1>2, OrphanedCalls
<1>4. editor' \in Editor /\ editor'.phase = "loading" /\ ~editor'.edit /\ ~editor'.saving
      /\ editor'.content = 0 /\ editor'.snapshot = 0 /\ ~bypassed'
  BY DEF Visit, Unloaded, Editor
<1>5. SiteTypes'
  <2>1. SiteTypeOK'
    <3>1. mounts' \in 0 .. MaxSiteVisits /\ 0 \in 0 .. MaxTyped
      BY SiteBounds DEF SiteTypes, SiteTypeOK, Visit
    <3>. QED BY <1>4, <3>1 DEF SiteTypes, SiteTypeOK, Visit
  <2>. QED BY <1>3, <2>1, ContentsAre DEF SiteTypes, Call
<1>6. SiteCalls'
  BY <1>3, <1>4 DEF SiteCalls, Here, IsCall, Call
<1>7. SiteKnown'
  BY <1>3, <1>4 DEF SiteKnown, Here, IsCall, Call
<1>. QED BY <1>5, <1>6, <1>7

LEMMA SiteEdit ==
  ASSUME SiteInv, EditSite
  PROVE  SiteInv'
BY DEF SiteInv, SiteTypes, SiteTypeOK, SiteCalls, SiteKnown, EditSite, Editor, Here, IsCall

LEMMA SiteCancel ==
  ASSUME SiteInv, CancelEdit
  PROVE  SiteInv'
<1>. USE DEF SiteInv, CancelEdit, Here, IsCall
<1>1. editor' \in Editor /\ editor'.phase = editor.phase /\ ~editor'.edit
      /\ editor'.saving = editor.saving
      /\ editor'.content = editor.snapshot /\ editor'.snapshot = editor.snapshot
  BY DEF SiteTypes, SiteTypeOK, Editor
<1>2. SiteTypes'
  BY <1>1 DEF SiteTypes, SiteTypeOK
<1>3. SiteCalls' /\ SiteKnown'
  BY <1>1 DEF SiteCalls, SiteKnown
<1>. QED BY <1>2, <1>3

LEMMA SiteType ==
  ASSUME SiteInv, Type
  PROVE  SiteInv'
<1>. USE DEF SiteInv, Type, Here, IsCall
<1>1. typed + 1 \in Contents /\ typed + 1 \in Nat
  BY SiteBounds DEF SiteTypes, SiteTypeOK, Contents
<1>2. editor' \in Editor /\ editor'.phase = editor.phase /\ editor'.edit = editor.edit
      /\ editor'.saving = editor.saving
      /\ editor'.content = typed + 1 /\ editor'.snapshot = editor.snapshot
  BY <1>1, SiteTypesSplit DEF Editor
<1>3. SiteTypes'
  BY <1>1, <1>2 DEF SiteTypes, SiteTypeOK, Contents
<1>4. SiteCalls' /\ SiteKnown'
  BY <1>2 DEF SiteCalls, SiteKnown
<1>. QED BY <1>3, <1>4

LEMMA SiteSave ==
  ASSUME SiteInv, SaveSite
  PROVE  SiteInv'
<1>. USE DEF SiteInv
<1>1. Call("put", editor.content, None) \in SiteCall
  <2>1. editor.content \in Nat
    BY SiteTypesSplit, ContentsAre
  <2>. QED BY <2>1 DEF Call, SiteCall
<1>2. /\ calls' \in [Slots -> SiteCall \cup {None}]
      /\ \E s \in Slots : calls[s] = None /\ Becomes(s, Call("put", editor.content, None))
  BY <1>1, AskedCall DEF SiteTypes, SaveSite
<1>3. PICK s \in Slots : calls[s] = None /\ Becomes(s, Call("put", editor.content, None))
  BY <1>2
<1>4. editor' \in Editor /\ editor'.phase = editor.phase /\ editor.edit /\ editor'.edit
      /\ editor'.saving /\ ~editor.saving
      /\ editor'.content = editor.content /\ editor'.snapshot = editor.snapshot
  BY DEF SiteTypes, SiteTypeOK, Editor, SaveSite
<1>. USE <1>3, <1>4 DEF SaveSite, Becomes, Call, Here, IsCall
<1>5. SiteTypes'
  BY <1>2, SiteTypesSplit DEF SiteTypes, SiteTypeOK
<1>6. SiteCalls'
  BY DEF SiteCalls
<1>7. SiteKnown'
  BY DEF SiteKnown
<1>. QED BY <1>5, <1>6, <1>7

LEMMA SiteTake ==
  ASSUME SiteInv, NEW s \in Slots, TakeSite(s)
  PROVE  SiteInv'
<1>. USE DEF SiteInv
<1>1. calls' \in [Slots -> SiteCall \cup {None}] /\ Becomes(s, None)
  BY TakenCall DEF SiteTypes, TakeSite
<1>2. IsCall(s, "load") /\ calls[s] \in SiteCall
  BY DEF SiteTypes, TakeSite, At, IsCall
<1>. USE <1>1, <1>2 DEF Becomes, Here, IsCall, ShowSite
<1>3. CASE calls[s].here /\ calls[s].pc = "answered"
  <2>1. calls[s].seen \in Contents /\ calls[s].seen \in Nat
    BY <1>3, ContentsAre DEF SiteTypes
  <2>2. editor' \in Editor /\ editor'.phase = "ready" /\ editor'.edit = editor.edit
        /\ editor'.saving = editor.saving
        /\ editor'.content = calls[s].seen /\ editor'.snapshot = calls[s].seen
    BY <1>3, <2>1 DEF SiteTypes, SiteTypeOK, Editor, TakeSite, At
  <2>3. SiteTypes'
    BY <2>1, <2>2 DEF SiteTypes, SiteTypeOK, Contents, TakeSite
  <2>4. SiteCalls'
    BY <1>3, <2>2 DEF SiteCalls, TakeSite
  <2>5. SiteKnown'
    BY <1>3, <2>2 DEF SiteKnown, SiteCalls, TakeSite
  <2>. QED BY <2>3, <2>4, <2>5
<1>4. CASE calls[s].here /\ calls[s].pc = "error"
  <2>1. editor' \in Editor /\ editor'.phase = "error" /\ editor'.edit = editor.edit
        /\ editor'.saving = editor.saving
        /\ editor'.content = editor.content /\ editor'.snapshot = editor.snapshot
    BY <1>4 DEF SiteTypes, SiteTypeOK, Editor, TakeSite, At
  <2>2. SiteTypes'
    BY <2>1 DEF SiteTypes, SiteTypeOK, TakeSite
  <2>3. SiteCalls' /\ SiteKnown'
    BY <1>4, <2>1 DEF SiteCalls, SiteKnown, TakeSite
  <2>. QED BY <2>2, <2>3
<1>5. CASE ~calls[s].here
  <2>1. UNCHANGED editor
    BY <1>5 DEF TakeSite
  <2>2. SiteTypes' /\ SiteCalls'
    BY <2>1 DEF SiteTypes, SiteTypeOK, SiteCalls, TakeSite
  <2>3. SiteKnown'
    BY <1>5, <2>1 DEF SiteKnown, TakeSite
  <2>. QED BY <2>2, <2>3
<1>. QED BY <1>3, <1>4, <1>5 DEF TakeSite, At

LEMMA SiteTakeSaved ==
  ASSUME SiteInv, NEW s \in Slots, TakeSavedSite(s)
  PROVE  SiteInv'
<1>. USE DEF SiteInv
<1>1. calls' \in [Slots -> SiteCall \cup {None}] /\ Becomes(s, None)
  BY TakenCall DEF SiteTypes, TakeSavedSite
<1>2. IsCall(s, "put") /\ calls[s] \in SiteCall
  BY DEF SiteTypes, TakeSavedSite, At, IsCall
<1>. USE <1>1, <1>2 DEF Becomes, Here, IsCall, ShowSite
<1>3. CASE calls[s].here /\ calls[s].pc = "answered"
  <2>1. calls[s].seen \in Contents /\ calls[s].seen \in Nat
    BY <1>3, ContentsAre DEF SiteTypes
  <2>2. editor' \in Editor /\ editor'.phase = editor.phase /\ ~editor'.edit /\ ~editor'.saving
        /\ editor'.content = calls[s].seen /\ editor'.snapshot = calls[s].seen
    BY <1>3, <2>1 DEF SiteTypes, SiteTypeOK, Editor, TakeSavedSite, At
  <2>3. SiteTypes'
    BY <2>1, <2>2 DEF SiteTypes, SiteTypeOK, Contents, TakeSavedSite
  <2>4. SiteCalls'
    BY <1>3, <2>2 DEF SiteCalls, TakeSavedSite
  <2>5. SiteKnown'
    BY <1>3, <2>2 DEF SiteKnown, SiteCalls, TakeSavedSite
  <2>. QED BY <2>3, <2>4, <2>5
<1>4. CASE calls[s].here /\ calls[s].pc = "error"
  <2>1. editor' \in Editor /\ editor'.phase = editor.phase /\ editor'.edit = editor.edit
        /\ ~editor'.saving /\ editor'.content = editor.content /\ editor'.snapshot = editor.snapshot
    BY <1>4 DEF SiteTypes, SiteTypeOK, Editor, TakeSavedSite, At
  <2>2. SiteTypes'
    BY <2>1 DEF SiteTypes, SiteTypeOK, TakeSavedSite
  <2>3. SiteCalls' /\ SiteKnown'
    BY <1>4, <2>1 DEF SiteCalls, SiteKnown, TakeSavedSite
  <2>. QED BY <2>2, <2>3
<1>5. CASE ~calls[s].here
  <2>1. UNCHANGED editor
    BY <1>5 DEF TakeSavedSite
  <2>2. SiteTypes' /\ SiteCalls'
    BY <2>1 DEF SiteTypes, SiteTypeOK, SiteCalls, TakeSavedSite
  <2>3. SiteKnown'
    BY <1>5, <2>1 DEF SiteKnown, TakeSavedSite
  <2>. QED BY <2>2, <2>3
<1>. QED BY <1>3, <1>4, <1>5 DEF TakeSavedSite, At

-----------------------------------------------------------------------------
(* The server. *)

LEMMA SiteRead ==
  ASSUME SiteInv, NEW s \in Slots, ReadSite(s)
  PROVE  SiteInv'
<1>. USE DEF SiteInv
<1>1. IsCall(s, "load") /\ calls[s] \in SiteCall /\ calls[s].pc = "sent"
      /\ 0 \in Contents /\ site \in Contents /\ site \in Nat
  BY ContentsAre, SiteTypesSplit DEF SiteTypes, ReadSite, At, IsCall
<1>. DEFINE new == [calls[s] EXCEPT !.pc = "answered", !.id = 0, !.seen = site]
<1>2. new \in SiteCall /\ new.kind = "load" /\ new.here = calls[s].here
      /\ new.pc = "answered" /\ new.id = 0 /\ new.seen = site
  BY <1>1 DEF SiteCall, IsCall
<1>3. calls' = [calls EXCEPT ![s] = new]
  BY <1>1 DEF ReadSite, Answered, SiteTypes, SiteCall
<1>4. calls' \in [Slots -> SiteCall \cup {None}] /\ Becomes(s, new)
  BY <1>1, <1>2, <1>3, AnsweredCall DEF SiteTypes
<1>. HIDE DEF new
<1>. USE <1>1, <1>2, <1>4 DEF Becomes, Here, IsCall, ReadSite
<1>5. SiteTypes'
  <2>1. SiteTypeOK'
    BY SiteTypesSplit DEF SiteTypes, SiteTypeOK, Contents
  <2>. QED BY <2>1, SiteTypesSplit DEF SiteTypes
<1>6. SiteCalls'
  BY DEF SiteCalls
<1>7. SiteKnown'
  BY DEF SiteKnown
<1>. QED BY <1>5, <1>6, <1>7

LEMMA SitePut ==
  ASSUME SiteInv, NEW s \in Slots, PutSite(s)
  PROVE  SiteInv'
<1>. USE DEF SiteInv
<1>1. IsCall(s, "put") /\ calls[s] \in SiteCall /\ calls[s].pc = "sent"
      /\ calls[s].id \in Contents /\ calls[s].id \in Nat
  BY ContentsAre DEF SiteTypes, PutSite, At, IsCall
<1>. DEFINE new == [calls[s] EXCEPT !.pc = "answered", !.id = calls[s].id, !.seen = calls[s].id]
<1>2. new \in SiteCall /\ new.kind = "put" /\ new.here = calls[s].here
      /\ new.pc = "answered" /\ new.id = calls[s].id /\ new.seen = calls[s].id
  BY <1>1 DEF SiteCall, IsCall
<1>3. calls' = [calls EXCEPT ![s] = new]
  BY <1>1 DEF PutSite, Answered, SiteTypes, SiteCall
<1>4. calls' \in [Slots -> SiteCall \cup {None}] /\ Becomes(s, new)
  BY <1>1, <1>2, <1>3, AnsweredCall DEF SiteTypes
<1>. HIDE DEF new
<1>. USE <1>1, <1>2, <1>4 DEF Becomes, Here, IsCall, PutSite
<1>5. SiteTypes'
  <2>1. SiteTypeOK'
    BY SiteTypesSplit DEF SiteTypes, SiteTypeOK, Contents
  <2>. QED BY <2>1, SiteTypesSplit DEF SiteTypes
<1>6. SiteCalls'
  BY DEF SiteCalls
<1>7. SiteKnown'
  <2>. SUFFICES ASSUME ~bypassed' PROVE SiteKnown'
    BY DEF SiteKnown
  <2>1. calls[s].here /\ ~bypassed
    BY DEF PutSite
  <2>2. editor.edit /\ editor.saving /\ editor.phase = "ready"
    BY <2>1 DEF SiteCalls
  <2>3. \A t \in Slots : calls'[t] # None /\ calls'[t].here => t = s
    <3>. SUFFICES ASSUME NEW t \in Slots \ {s}, calls'[t] # None, calls'[t].here PROVE FALSE
      OBVIOUS
    <3>1. calls[t] \in SiteCall /\ calls[t] # None /\ calls[t].here
      BY DEF SiteTypes
    <3>2. calls[t].kind \in {"load", "put"}
      BY <3>1 DEF SiteCall
    <3>. QED BY <2>1, <2>2, <3>1, <3>2 DEF SiteCalls
  <2>. QED BY <2>1, <2>2, <2>3 DEF SiteKnown
<1>. QED BY <1>5, <1>6, <1>7

LEMMA SitePutElsewhere ==
  ASSUME SiteInv, PutElsewhere
  PROVE  SiteInv'
<1>. USE DEF SiteInv, PutElsewhere, Here, IsCall
<1>1. typed + 1 \in Contents /\ typed + 1 \in Nat
  BY SiteBounds DEF SiteTypes, SiteTypeOK, Contents
<1>2. SiteTypes'
  <2>1. typed + 1 \in 0 .. MaxTyped
    BY <1>1 DEF Contents
  <2>. QED BY <2>1 DEF SiteTypes, SiteTypeOK
<1>3. SiteCalls' /\ SiteKnown'
  BY DEF SiteCalls, SiteKnown
<1>. QED BY <1>2, <1>3

LEMMA SiteFails ==
  ASSUME SiteInv, NEW s \in Slots, SiteCallFails(s)
  PROVE  SiteInv'
<1>. USE DEF SiteInv
<1>1. calls[s] # None /\ calls[s] \in SiteCall
  BY DEF SiteTypes, SiteCallFails, CanBreak
<1>. DEFINE new == [calls[s] EXCEPT !.pc = "error"]
<1>2. new \in SiteCall /\ new.kind = calls[s].kind /\ new.here = calls[s].here
      /\ new.pc = "error" /\ new.id = calls[s].id
  BY <1>1 DEF SiteCall
<1>3. calls' = [calls EXCEPT ![s] = new]
  BY <1>1 DEF SiteCallFails, Broken, SiteTypes, SiteCall
<1>4. calls' \in [Slots -> SiteCall \cup {None}] /\ Becomes(s, new)
  BY <1>1, <1>2, <1>3, AnsweredCall DEF SiteTypes
<1>. HIDE DEF new
<1>. USE <1>1, <1>2, <1>4 DEF Becomes, Here, IsCall, SiteCallFails
<1>5. SiteTypes'
  <2>1. SiteTypeOK'
    BY SiteTypesSplit DEF SiteTypes, SiteTypeOK, Contents
  <2>. QED BY <2>1, SiteTypesSplit DEF SiteTypes
<1>6. SiteCalls'
  BY DEF SiteCalls
<1>7. SiteKnown'
  <2>1. ~bypassed' => ~bypassed /\ (calls[s].kind = "put" => calls[s].pc # "answered")
    BY DEF At
  <2>. QED BY <2>1 DEF SiteKnown
<1>. QED BY <1>5, <1>6, <1>7

LEMMA SiteStep ==
  ASSUME SiteInv, SiteNext
  PROVE  SiteInv'
BY SiteVisit, SiteEdit, SiteType, SiteSave, SiteCancel, SitePutElsewhere, SiteTake,
   SiteTakeSaved, SiteRead, SitePut, SiteFails
DEF SiteNext

LEMMA SiteStart ==
  ASSUME SiteInit
  PROVE  SiteInv
<1>1. Unloaded \in Editor /\ Unloaded.phase = "away" /\ ~Unloaded.edit /\ ~Unloaded.saving
      /\ Unloaded.content = 0 /\ Unloaded.snapshot = 0
  BY DEF Unloaded, Editor
<1>2. \A s \in Slots : calls[s] = None
  BY DEF SiteInit, Forgotten
<1>3. SiteTypes
  <2>1. calls \in [Slots -> SiteCall \cup {None}]
    BY DEF SiteInit, Forgotten
  <2>2. SiteTypeOK
    <3>1. 0 \in 0 .. MaxTyped /\ 0 \in 0 .. MaxSiteVisits
      BY SiteBounds
    <3>. QED BY <1>1, <3>1 DEF SiteInit, SiteTypeOK
  <2>. QED BY <1>2, <2>1, <2>2 DEF SiteTypes
<1>4. SiteCalls /\ SiteKnown
  BY <1>1, <1>2 DEF SiteInit, SiteCalls, SiteKnown, Here, IsCall
<1>. QED BY <1>3, <1>4 DEF SiteInv

LEMMA SiteStutters ==
  ASSUME SiteInv, UNCHANGED siteVars
  PROVE  SiteInv'
BY DEF siteVars, SiteInv, SiteTypes, SiteTypeOK, SiteCalls, SiteKnown, Here, IsCall

-----------------------------------------------------------------------------

(* What the editor knows of the site goes with the calls it has in flight. *)
THEOREM SiteInvariant == SiteSpec => []SiteInv
<1>1. SiteInv /\ [SiteNext]_siteVars => SiteInv'
  BY SiteStep, SiteStutters
<1>. QED BY <1>1, SiteStart, PTL DEF SiteSpec

(* Every variable of the editor has its type. *)
THEOREM SiteTyped == SiteSpec => []SiteTypeOK
<1>1. SiteInv => SiteTypeOK
  BY DEF SiteInv, SiteTypes
<1>. QED BY <1>1, SiteInvariant, PTL

(* Out of edit mode the editor shows the site that is stored. *)
THEOREM ShowsStored == SiteSpec => []EditorShowsStored
<1>1. SiteInv => EditorShowsStored
  BY DEF SiteInv, SiteCalls, SiteKnown, EditorShowsStored
<1>. QED BY <1>1, SiteInvariant, PTL
=============================================================================
