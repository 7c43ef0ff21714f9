------------------------------- MODULE CashOut -------------------------------
(***************************************************************************)
(* The dialog of an anchor withdrawal (AnchorWithdrawFlow of               *)
(* dashboard/wallet/page.tsx, and lib/api/sep24.ts): the creator starts a  *)
(* transaction of the anchor, fills in its form, sends USDC when the       *)
(* anchor asks for it, and is told the outcome.  One transaction of the    *)
(* wallet can be in the making at a time: both would have one sequence     *)
(* number.                                                                 *)
(***************************************************************************)
EXTENDS Browser, Sequences

CONSTANTS
  MaxAnchorPolls, \* the code has 80
  MaxAnchorTx,    \* bound: transactions of the anchor
  MaxSends        \* bound: how often the button is pressed

ASSUME CashOutBounds ==
  MaxAnchorPolls \in Nat \ {0} /\ MaxAnchorTx \in Nat /\ MaxSends \in Nat

VARIABLES
  flow,     \* the state of the dialog
  anchorTx, \* the anchor's transactions and the payments each received
  number,   \* the sequence number of the creator's account
  muddled   \* history: an answer of a payment was lost, or of a poll came late

cashOutVars == <<flow, anchorTx, number, muddled, calls>>

Phases == {"form", "authorizing", "interactive", "awaiting_transfer", "sending",
           "polling", "done", "failed"}
Flow == [phase : Phases, tx : Nat, sends : 0 .. MaxSends, polls : 0 .. MaxAnchorPolls,
         ticking : BOOLEAN, timedOut : BOOLEAN]
AnchorState == {"incomplete", "pending", "paid", "completed", "failed"}

Opened == [phase |-> "form", tx |-> 0, sends |-> 0, polls |-> 0, ticking |-> FALSE,
           timedOut |-> FALSE]

CashOutInit ==
  /\ flow = Opened
  /\ anchorTx = <<>>
  /\ number = 0
  /\ muddled = FALSE
  /\ calls = Forgotten

-----------------------------------------------------------------------------
(* The dialog. *)

(* The effect polls in these phases, and starts over with each.            *)
Polls(phase) == phase \in {"interactive", "awaiting_transfer", "polling"}
Enter(f, phase) ==
  IF phase = f.phase THEN f
  ELSE [f EXCEPT !.phase = phase, !.polls = 0, !.ticking = Polls(phase)]
Effect(f) == <<f.phase, f.sends>>

ShowFlow(s, new) == flow' = IF calls[s].here THEN new ELSE flow

(* Slip: the form of the anchor is waited for before it was asked for. *)
StartInteractive ==
  /\ flow.phase = "form"
  /\ Free # {}
  /\ flow' = Enter(flow, "interactive")
  /\ calls' = Asked("start", 0, Effect(flow))
  /\ UNCHANGED <<anchorTx, number, muddled>>

Start ==
  /\ flow.phase = "form"
  /\ Free # {}
  /\ flow' = Enter(flow, "authorizing")
  /\ calls' = Asked("start", 0, Effect(flow))
  /\ UNCHANGED <<anchorTx, number, muddled>>

TakeStart(s) ==
  /\ \/ At(s, "start", "answered")
        /\ ShowFlow(s, [Enter(flow, "interactive") EXCEPT !.tx = calls[s].id])
     \/ At(s, "start", "error") /\ ShowFlow(s, Enter(flow, "form"))
  /\ calls' = Taken(s)
  /\ UNCHANGED <<anchorTx, number, muddled>>

(* Slip: the button stays while the funds are being sent. *)
SendAgain ==
  /\ flow.phase = "awaiting_transfer"
  /\ Free # {} /\ flow.sends < MaxSends
  /\ flow' = [flow EXCEPT !.sends = @ + 1]
  /\ calls' = Asked("build", flow.tx, Effect(flow))
  /\ UNCHANGED <<anchorTx, number, muddled>>

SendFunds ==
  /\ flow.phase = "awaiting_transfer"
  /\ Free # {} /\ flow.sends < MaxSends
  /\ flow' = Enter([flow EXCEPT !.sends = @ + 1], "sending")
  /\ calls' = Asked("build", flow.tx, Effect(flow))
  /\ UNCHANGED <<anchorTx, number, muddled>>

(* The payment that was built is signed and submitted, or the creator      *)
(* cancels.                                                                *)
Sign(s) ==
  /\ At(s, "build", "answered")
  /\ calls' = [calls EXCEPT ![s].kind = "submit", ![s].pc = "sent"]
  /\ UNCHANGED <<flow, anchorTx, number, muddled>>

TakeTransfer(s) ==
  /\ \/ At(s, "submit", "answered") /\ ShowFlow(s, Enter(flow, "polling"))
     \/ /\ At(s, "build", "answered") \/ At(s, "build", "error") \/ At(s, "submit", "error")
        /\ ShowFlow(s, Enter(flow, "awaiting_transfer"))
  /\ calls' = Taken(s)
  /\ UNCHANGED <<anchorTx, number, muddled>>

PollAnchor ==
  /\ flow.ticking
  /\ Free # {}
  /\ calls' = Asked("anchor", flow.tx, Effect(flow))
  /\ flow' = [flow EXCEPT !.polls = IF @ < MaxAnchorPolls THEN @ + 1 ELSE @]
  /\ UNCHANGED <<anchorTx, number, muddled>>

(* What the poll says is where the dialog goes, when it was made in the    *)
(* phase that waits for it.                                                *)
Says(s, state) == At(s, "anchor", "answered") /\ calls[s].seen = state
Led(s) ==
  CASE Says(s, "completed") -> "done"
    [] Says(s, "failed") -> "failed"
    [] Says(s, "pending") /\ calls[s].from[1] = "interactive" -> "awaiting_transfer"
    [] OTHER -> flow.phase
BringsBack(s) == Led(s) = "awaiting_transfer" /\ flow.phase \notin {"interactive", Led(s)}
Limited(s, f) ==
  IF flow.polls < MaxAnchorPolls \/ Led(s) \in {"done", "failed"} THEN f
  ELSE [f EXCEPT !.timedOut = TRUE,
                 !.ticking = @ /\ (f.phase # flow.phase \/ calls[s].from # Effect(flow))]

TakeAnchor(s) ==
  /\ At(s, "anchor", "answered") \/ At(s, "anchor", "error")
  /\ ShowFlow(s, Limited(s, Enter(flow, Led(s))))
  /\ calls' = Taken(s)
  /\ muddled' = (muddled \/ BringsBack(s))
  /\ UNCHANGED <<anchorTx, number>>

(* The cross closes the dialog at any time; what it was doing goes on.     *)
Close ==
  /\ flow.phase # "form"
  /\ flow' = Opened
  /\ calls' = Orphaned
  /\ UNCHANGED <<anchorTx, number, muddled>>

-----------------------------------------------------------------------------
(* The server, the anchor and the network. *)

StartWithdrawal(s) ==
  /\ At(s, "start", "sent")
  /\ Len(anchorTx) < MaxAnchorTx
  /\ anchorTx' = Append(anchorTx, [state |-> "incomplete", received |-> 0])
  /\ calls' = Answered(s, Len(anchorTx) + 1, None)
  /\ UNCHANGED <<flow, number, muddled>>

(* A payment is built as soon as the anchor has named a destination, also  *)
(* when it was paid.                                                       *)
BuildPayment(s) ==
  /\ At(s, "build", "sent")
  /\ anchorTx[calls[s].id].state # "incomplete"
  /\ calls' = Answered(s, calls[s].id, number + 1)
  /\ UNCHANGED <<flow, anchorTx, number, muddled>>

(* The network takes the payment with the next sequence number.            *)
SubmitPayment(s) ==
  /\ At(s, "submit", "sent")
  /\ IF calls[s].seen = number + 1
     THEN /\ number' = number + 1
          /\ anchorTx' = [anchorTx EXCEPT
               ![calls[s].id].received = @ + 1,
               ![calls[s].id].state = IF @ = "pending" THEN "paid" ELSE @]
          /\ calls' = Answered(s, calls[s].id, None)
     ELSE calls' = Broken(s) /\ UNCHANGED <<anchorTx, number>>
  /\ UNCHANGED <<flow, muddled>>

ReadAnchor(s) ==
  /\ At(s, "anchor", "sent")
  /\ calls' = Answered(s, calls[s].id, anchorTx[calls[s].id].state)
  /\ UNCHANGED <<flow, anchorTx, number, muddled>>

(* An error, before or after the server did its work. *)
AnchorCallFails(s) ==
  /\ CanBreak(s)
  /\ calls' = Broken(s)
  /\ muddled' = (muddled \/ At(s, "submit", "answered"))
  /\ UNCHANGED <<flow, anchorTx, number>>

(* The creator fills in the form of the anchor, which pays out what it     *)
(* was sent, or gives up.                                                  *)
AnchorMoves(t) ==
  /\ \E from, to \in AnchorState :
       /\ <<from, to>> \in {<<"incomplete", "pending">>, <<"paid", "completed">>}
                           \cup ({"incomplete", "pending", "paid"} \X {"failed"})
       /\ anchorTx[t].state = from
       /\ anchorTx' = [anchorTx EXCEPT ![t].state = to]
  /\ UNCHANGED <<flow, number, muddled, calls>>

CashOutNext ==
  \/ Start \/ SendFunds \/ PollAnchor \/ Close
  \/ \E s \in Slots : TakeStart(s) \/ Sign(s) \/ TakeTransfer(s) \/ TakeAnchor(s)
                      \/ StartWithdrawal(s) \/ BuildPayment(s) \/ SubmitPayment(s)
                      \/ ReadAnchor(s) \/ AnchorCallFails(s)
  \/ \E t \in DOMAIN anchorTx : AnchorMoves(t)

CashOutSpec == CashOutInit /\ [][CashOutNext]_cashOutVars

-----------------------------------------------------------------------------
(* Properties. *)

(* Every variable has its type; a transaction that is named exists. *)
CashOutTypeOK ==
  /\ flow \in Flow
  /\ anchorTx \in Seq([state : AnchorState, received : Nat])
  /\ flow.tx \in 0 .. Len(anchorTx)
  /\ number \in Nat
  /\ muddled \in BOOLEAN
  /\ Polls(flow.phase) => flow.tx # 0

(* The anchor is paid once for a transaction, however often the creator    *)
(* cancels, is refused and tries again: as long as no answer of a payment  *)
(* is lost and no late poll brings the button back.                        *)
SentOnce ==
  \A t \in DOMAIN anchorTx : anchorTx[t].received > 1 => muddled

(* The dialog says "Cash out complete" of a transaction that the anchor    *)
(* was paid for and has completed.                                         *)
DoneIsPaidOut ==
  flow.phase = "done" =>
    anchorTx[flow.tx].state = "completed" /\ anchorTx[flow.tx].received > 0
=============================================================================
