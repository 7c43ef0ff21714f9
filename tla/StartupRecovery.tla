--------------------------- MODULE StartupRecovery ---------------------------
(***************************************************************************)
(* StartupRecoveryService: on a restart it looks once at every order that  *)
(* is PAYMENT_RECEIVED or SETTLEMENT_PENDING, one after the other.  It     *)
(* runs as the actor Boot, before the server answers any request, while    *)
(* the handlers whose events it emits again run next to it.                *)
(***************************************************************************)
EXTENDS SettlementHandler

(* Slip: only the orders being settled are looked for. *)
PendingStatus == {"SETTLEMENT_PENDING"}
StuckStatus == {"PAYMENT_RECEIVED", "SETTLEMENT_PENDING"}

(* What the query at the start of recovery returns. *)
StuckOrders == {o \in Orders : order[o].status \in StuckStatus}

BootJob(o, p) == [NoJob EXCEPT !.pc = p, !.order = o, !.hash = order[o].hash]

(* The next stuck order.  Its status is still the one the query returned:  *)
(* no request is served and no handler runs for it before it is taken.     *)
TakeStuck ==
  /\ At(Boot, "idle")
  /\ \E o \in todo :
       /\ todo' = todo \ {o}
       /\ \/ /\ order[o].status = "PAYMENT_RECEIVED"
             /\ received' = Emit(received, o)
             /\ UNCHANGED <<job, faults>>
          \/ /\ order[o].status = "PAYMENT_RECEIVED"
             /\ Strike("db")
             /\ UNCHANGED <<job, received>>
          \/ /\ order[o].status = "SETTLEMENT_PENDING"
             /\ job' = [job EXCEPT ![Boot] =
                          BootJob(o, IF order[o].hash = None THEN "bootcheck"
                                                             ELSE "verify")]
             /\ UNCHANGED <<received, faults>>
  /\ UNCHANGED <<intakeVars, catalogue, mails, dbVars, completed, ledgerVars>>

(* Slip: an order that cannot be checked is left as it is.                 *)
LeaveUnchecked ==
  /\ At(Boot, "bootcheck")
  /\ \/ /\ PaidOut(Mine(Boot))
        /\ job' = [job EXCEPT ![Boot].pc = "reread", ![Boot].hash = Placeholder]
        /\ UNCHANGED faults
     \/ ~PaidOut(Mine(Boot)) /\ Goto(Boot, "fail") /\ UNCHANGED faults
     \/ Done(Boot) /\ Strike("rpc")
  /\ UNCHANGED <<unhandled, dbVars, busVars, ledgerVars>>

(* No hash: a settled order is recorded under a placeholder, any other,    *)
(* and one that cannot be checked, fails.                                  *)
CheckUnhashed ==
  /\ At(Boot, "bootcheck")
  /\ \/ /\ PaidOut(Mine(Boot))
        /\ job' = [job EXCEPT ![Boot].pc = "reread", ![Boot].hash = Placeholder]
        /\ UNCHANGED faults
     \/ ~PaidOut(Mine(Boot)) /\ Goto(Boot, "fail") /\ UNCHANGED faults
     \/ Goto(Boot, "fail") /\ Strike("rpc")
  /\ UNCHANGED <<unhandled, dbVars, busVars, ledgerVars>>

HashState == IF job[Boot].hash \in Hash THEN tx[job[Boot].hash].state
             ELSE "rejected"

(* What getTransaction says of the hash: an applied transaction may be     *)
(* outside the window the RPC server keeps, a placeholder is refused.      *)
(* After a success an error leaves the order for the next restart.         *)
Verify ==
  /\ At(Boot, "verify")
  /\ \/ /\ HashState = "success"
        /\ job' = [job EXCEPT ![Boot].pc = "look", ![Boot].catch = "leave"]
        /\ UNCHANGED faults
     \/ HashState = "failed" /\ Goto(Boot, "fail") /\ UNCHANGED faults
     \/ HashState \in {"pending", "dropped"} /\ Goto(Boot, "reverify")
          /\ UNCHANGED faults
     \/ HashState \in {"success", "failed"} /\ Goto(Boot, "reverify")
          /\ Strike("slow")
     \/ HashState = "rejected" /\ Done(Boot) /\ UNCHANGED faults
     \/ Done(Boot) /\ Strike("rpc")
  /\ UNCHANGED <<unhandled, dbVars, busVars, ledgerVars>>

(* The second look.  Whatever goes wrong from here on, also in recording,  *)
(* ends in the order being put back.                                       *)
Reverify ==
  /\ At(Boot, "reverify")
  /\ LET on(p) == job' = [job EXCEPT ![Boot].pc = p, ![Boot].catch = "requeue"]
     IN \/ HashState = "success" /\ on("reread") /\ UNCHANGED faults
        \/ HashState = "failed" /\ on("fail") /\ UNCHANGED faults
        \/ HashState \in {"pending", "dropped"} /\ on("requeue")
             /\ UNCHANGED faults
        \/ HashState \in {"success", "failed"} /\ on("requeue") /\ Strike("slow")
        \/ on("requeue") /\ Strike("rpc")
  /\ UNCHANGED <<unhandled, dbVars, busVars, ledgerVars>>

(* The hash is that of a success: is the row there already? *)
LookForRow ==
  /\ At(Boot, "look")
  /\ Goto(Boot, IF settlement[Mine(Boot)] # None THEN "adoptrow" ELSE "reread")
  /\ UNCHANGED <<unhandled, dbVars, busVars, ledgerVars, faults>>

BootAdoptRow ==
  /\ At(Boot, "adoptrow")
  /\ SetStatus(Mine(Boot), "SETTLED")
  /\ Done(Boot)
  /\ UNCHANGED <<unhandled, settlement, busVars, ledgerVars, faults>>

(* The transaction seems lost: forget it and settle again. *)
Requeue ==
  /\ At(Boot, "requeue")
  /\ order' = [order EXCEPT ![Mine(Boot)].status = "PAYMENT_RECEIVED",
                            ![Mine(Boot)].hash = None]
  /\ received' = Emit(received, Mine(Boot))
  /\ Done(Boot)
  /\ UNCHANGED <<unhandled, settlement, completed, ledgerVars, faults>>

Recovery == TakeStuck \/ CheckUnhashed \/ Verify \/ Reverify \/ LookForRow
            \/ BootAdoptRow \/ Requeue \/ Recording(Boot)

-----------------------------------------------------------------------------
(* The process dies: every request, handler and event in it is gone.  The  *)
(* gateway delivers an unanswered webhook again.  On the restart the stuck *)
(* orders are read from the database.                                      *)
Crash ==
  /\ Strike("crash")
  /\ call' = [c \in Calls |-> IF call[c].pc \in {"read", "wallet", "claim"}
                              THEN NewCall ELSE call[c]]
  /\ conn' = [k \in Conns |-> IF conn[k].pc \in {"create", "resume"}
                              THEN [conn[k] EXCEPT !.pc = "lost"] ELSE conn[k]]
  /\ received' = [o \in Orders |-> 0]
  /\ completed' = [o \in Orders |-> 0]
  /\ job' = [a \in Actors |-> NoJob]
  /\ todo' = StuckOrders
  /\ UNCHANGED <<wallet, dbVars, catalogue, mails, ledgerVars>>
=============================================================================
