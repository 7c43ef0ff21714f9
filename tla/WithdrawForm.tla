----------------------------- MODULE WithdrawForm -----------------------------
(***************************************************************************)
(* The dialog of a simulated withdrawal (WithdrawForm of                   *)
(* dashboard/wallet/page.tsx and lib/api/withdrawals.ts): a withdrawal is  *)
(* created and its receipt is read until it is completed, which a reading  *)
(* brings about once the withdrawal is old enough.                         *)
(***************************************************************************)
EXTENDS Browser, Sequences

CONSTANTS
  MaxReceipts,    \* polls without an answer; the code has 20
  MaxWithdrawals, \* bound: withdrawals
  MaxOpenings     \* bound: how often the dialog is opened

ASSUME FormBounds ==
  MaxReceipts \in Nat \ {0} /\ MaxWithdrawals \in Nat /\ MaxOpenings \in Nat \ {0}

VARIABLES
  form,    \* the state of the dialog
  rows,    \* the withdrawals: the opening that asked for one, status, age
  opening, \* which opening of the dialog this is
  unheard  \* history: openings whose withdrawal was reported as an error

formVars == <<form, rows, opening, unheard, calls>>

Form == [phase : {"form", "processing", "done"}, receipt : Nat, polls : 0 .. MaxReceipts,
         ticking : BOOLEAN, timedOut : BOOLEAN]
Row == [by : Nat, status : {"PROCESSING", "COMPLETED"}, old : BOOLEAN]

Blank == [phase |-> "form", receipt |-> 0, polls |-> 0, ticking |-> FALSE, timedOut |-> FALSE]

FormInit ==
  /\ form = Blank
  /\ rows = <<>>
  /\ opening = 1
  /\ unheard = {}
  /\ calls = Forgotten

-----------------------------------------------------------------------------
(* The dialog. *)

(* Slip: the form stays until the answer is there. *)
SubmitAgain ==
  /\ form.phase = "form"
  /\ Free # {}
  /\ calls' = Asked("create", 0, opening)
  /\ UNCHANGED <<form, rows, opening, unheard>>

Submit ==
  /\ form.phase = "form"
  /\ Free # {}
  /\ form' = [form EXCEPT !.phase = "processing"]
  /\ calls' = Asked("create", 0, opening)
  /\ UNCHANGED <<rows, opening, unheard>>

ShowForm(s, new) == form' = IF calls[s].here THEN new ELSE form

TakeCreated(s) ==
  /\ \/ /\ At(s, "create", "answered")
        /\ ShowForm(s, [form EXCEPT !.receipt = calls[s].id, !.polls = 0, !.ticking = TRUE])
     \/ At(s, "create", "error") /\ ShowForm(s, [form EXCEPT !.phase = "form"])
  /\ calls' = Taken(s)
  /\ UNCHANGED <<rows, opening, unheard>>

(* from is 1 while the interval of this poll runs.                         *)
PollReceipt ==
  /\ form.ticking
  /\ Free # {}
  /\ calls' = Asked("receipt", form.receipt, 1)
  /\ form' = [form EXCEPT !.polls = IF @ < MaxReceipts THEN @ + 1 ELSE @]
  /\ UNCHANGED <<rows, opening, unheard>>

(* Slip: a failed poll does not count. *)
OnlyAnswers(s) == At(s, "receipt", "answered") /\ form.polls >= MaxReceipts
TooLong(s) == form.polls >= MaxReceipts

IsPoll(t) == calls[t] # None /\ calls[t].kind = "receipt"

(* A new receipt is a new effect: its interval starts, the count also.     *)
TakeReceipt(s) ==
  \/ /\ At(s, "receipt", "answered") /\ calls[s].seen = "COMPLETED"
     /\ ShowForm(s, [form EXCEPT !.phase = "done", !.ticking = FALSE])
     /\ calls' = Taken(s)
     /\ UNCHANGED <<rows, opening, unheard>>
  \/ /\ At(s, "receipt", "answered") /\ calls[s].seen = "PROCESSING"
     /\ ShowForm(s, [form EXCEPT !.timedOut = @ \/ TooLong(s),
                       !.polls = IF form.phase = "processing" THEN 0 ELSE @,
                       !.ticking = form.phase = "processing"])
     /\ calls' = [t \in Slots |->
          IF t = s THEN None
          ELSE IF IsPoll(t) /\ calls[s].here THEN [calls[t] EXCEPT !.from = 0] ELSE calls[t]]
     /\ UNCHANGED <<rows, opening, unheard>>
  \/ /\ At(s, "receipt", "error")
     /\ ShowForm(s, [form EXCEPT !.timedOut = @ \/ TooLong(s),
                       !.ticking = @ /\ ~(TooLong(s) /\ calls[s].from = 1)])
     /\ calls' = Taken(s)
     /\ UNCHANGED <<rows, opening, unheard>>

(* The cross closes the dialog at any time, and it is opened again.        *)
Reopen ==
  /\ opening < MaxOpenings
  /\ opening' = opening + 1
  /\ form' = Blank
  /\ calls' = Orphaned
  /\ UNCHANGED <<rows, unheard>>

-----------------------------------------------------------------------------
(* The server. *)

CreateWithdrawal(s) ==
  /\ At(s, "create", "sent")
  /\ Len(rows) < MaxWithdrawals
  /\ rows' = Append(rows, [by |-> calls[s].from, status |-> "PROCESSING", old |-> FALSE])
  /\ calls' = Answered(s, Len(rows) + 1, None)
  /\ UNCHANGED <<form, opening, unheard>>

GetWithdrawal(s) ==
  /\ At(s, "receipt", "sent")
  /\ LET i == calls[s].id
         status == IF rows[i].old THEN "COMPLETED" ELSE rows[i].status
     IN /\ rows' = [rows EXCEPT ![i].status = status]
        /\ calls' = Answered(s, i, status)
  /\ UNCHANGED <<form, opening, unheard>>

(* An error, before or after the server did its work. *)
FormCallFails(s) ==
  /\ CanBreak(s)
  /\ calls' = Broken(s)
  /\ unheard' = unheard \cup IF At(s, "create", "answered") THEN {calls[s].from} ELSE {}
  /\ UNCHANGED <<form, rows, opening>>

(* SIMULATION_DELAY_MS are over. *)
Age(i) ==
  /\ ~rows[i].old
  /\ rows' = [rows EXCEPT ![i].old = TRUE]
  /\ UNCHANGED <<form, opening, unheard, calls>>

FormTake(s) == TakeCreated(s) \/ TakeReceipt(s)
FormServe(s) == CreateWithdrawal(s) \/ GetWithdrawal(s)

FormNext ==
  \/ Submit \/ PollReceipt \/ Reopen
  \/ \E s \in Slots : FormTake(s) \/ FormServe(s) \/ FormCallFails(s)
  \/ \E i \in DOMAIN rows : Age(i)

(* The interval fires, a call is answered or fails, and time passes.       *)
FormFairness ==
  /\ WF_formVars(PollReceipt)
  /\ \A s \in Slots : WF_formVars(FormTake(s)) /\ WF_formVars(FormServe(s) \/ FormCallFails(s))
  /\ \A i \in 1 .. MaxWithdrawals : WF_formVars(i \in DOMAIN rows /\ Age(i))

FormSpec == FormInit /\ [][FormNext]_formVars /\ FormFairness

-----------------------------------------------------------------------------
(* Properties. *)

(* Every variable has its type; a receipt is one of a withdrawal. *)
FormTypeOK ==
  /\ form \in Form
  /\ rows \in Seq(Row)
  /\ form.receipt \in 0 .. Len(rows)
  /\ opening \in 1 .. MaxOpenings
  /\ unheard \subseteq 1 .. MaxOpenings

(* One opening of the dialog makes one withdrawal, unless the creator was  *)
(* told an error of one that was made and pressed the button again.        *)
FormOnce ==
  \A i, j \in DOMAIN rows : i # j /\ rows[i].by = rows[j].by => rows[i].by \in unheard

(* A withdrawal that the dialog calls complete is completed. *)
DoneIsCompleted == form.phase = "done" => rows[form.receipt].status = "COMPLETED"
=============================================================================
