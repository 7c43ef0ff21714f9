-------------------------- MODULE SettlementHandler --------------------------
(***************************************************************************)
(* SettlementService and SorobanRpcService: the payment.received handler,  *)
(* from await to await, with the invoke loop and the recording of a        *)
(* settlement.  Any number of runs (workers) may be suspended at once.     *)
(* The recording steps also serve startup recovery (actor Boot).           *)
(***************************************************************************)
EXTENDS StellarLedger

unhandled == <<intakeVars, catalogue, mails, todo>>

(* Actor a goes to pc p; Done ends its run. *)
Goto(a, p) == job' = [job EXCEPT ![a].pc = p]
Done(a) == job' = [job EXCEPT ![a] = NoJob]
At(a, p) == job[a].pc = p
Mine(a) == job[a].order
SetStatus(o, s) == order' = [order EXCEPT ![o].status = s]

-----------------------------------------------------------------------------
(* A handler starts: it reads the order and gives up when the order may    *)
(* not move to SETTLEMENT_PENDING.  A read that fails is an unexpected     *)
(* error, which fails the order whatever its status.                       *)
TakeEvent(w) ==
  /\ At(w, "idle")
  /\ \E o \in Orders :
       LET start(p) == [job EXCEPT ![w] = [NoJob EXCEPT !.pc = p, !.order = o,
                                             !.hash = order[o].hash]]
       IN /\ received[o] > 0
          /\ received' = Consume(received, o)
          /\ \/ /\ CanTransition(order[o].status, "SETTLEMENT_PENDING")
                /\ job' = start("claim")
                /\ UNCHANGED faults
             \/ /\ ~CanTransition(order[o].status, "SETTLEMENT_PENDING")
                /\ UNCHANGED <<job, faults>>
             \/ job' = start("fail") /\ Strike("db")
  /\ UNCHANGED <<unhandled, dbVars, completed, ledgerVars>>

MarkPending(w) ==
  /\ At(w, "claim")
  /\ SetStatus(Mine(w), "SETTLEMENT_PENDING")
  /\ Goto(w, "roster")
  /\ UNCHANGED <<unhandled, settlement, busVars, ledgerVars, faults>>

(* No active collaborator, shares that do not sum to 100, or more than 10  *)
(* of them: the order fails.                                               *)
LoadCollaborators(w) ==
  /\ At(w, "roster")
  /\ LET r == roster[ProductOf[Mine(w)]]
     IN IF r \in Settleable
        THEN job' = [job EXCEPT ![w].pc = "trustlines", ![w].roster = r]
        ELSE Goto(w, "fail")
  /\ UNCHANGED <<unhandled, dbVars, busVars, ledgerVars, faults>>

(* A read that fails counts as a trustline that is there. *)
CheckTrustlines(w) ==
  /\ At(w, "trustlines")
  /\ \/ Goto(w, "precheck") /\ UNCHANGED faults
     \/ Goto(w, "fail") /\ Strike("ledger")
  /\ UNCHANGED <<unhandled, dbVars, busVars, ledgerVars>>

(* Slip: a read of is_settled that fails counts as settled. *)
PreCheckFailingOpen(w) ==
  /\ At(w, "precheck")
  /\ \/ Goto(w, IF PaidOut(Mine(w)) THEN "recover" ELSE "float") /\ UNCHANGED faults
     \/ Goto(w, "recover") /\ Strike("rpc")
  /\ UNCHANGED <<unhandled, dbVars, busVars, ledgerVars>>

(* is_settled; a read that fails counts as not settled. *)
PreCheck(w) ==
  /\ At(w, "precheck")
  /\ \/ Goto(w, IF PaidOut(Mine(w)) THEN "recover" ELSE "float") /\ UNCHANGED faults
     \/ Goto(w, "float") /\ Strike("rpc")
  /\ UNCHANGED <<unhandled, dbVars, busVars, ledgerVars>>

(* A read that fails counts as a float that suffices. *)
CheckFloat(w) ==
  /\ At(w, "float")
  /\ \/ Goto(w, "invoke") /\ UNCHANGED faults
     \/ Goto(w, "fail") /\ Strike("ledger")
  /\ UNCHANGED <<unhandled, dbVars, busVars, ledgerVars>>

-----------------------------------------------------------------------------
(* invokeSettle.  A network error anywhere in it makes the loop start the  *)
(* whole invocation again, and fails the order after MaxRetries attempts.  *)
Retry(w) ==
  LET tries == job[w].tries + 1
  IN IF tries < MaxRetries
     THEN job' = [job EXCEPT ![w].pc = "invoke", ![w].tries = tries]
     ELSE Goto(w, "fail")

(* getAccount, build and simulate; a simulation that fails is not retried. *)
Simulate(w) ==
  /\ At(w, "invoke")
  /\ \/ /\ WouldSettle(Mine(w), job[w].roster)
        /\ job' = [job EXCEPT ![w].pc = "send", ![w].seq = seqNum + 1]
        /\ UNCHANGED faults
     \/ /\ ~WouldSettle(Mine(w), job[w].roster)
        /\ Goto(w, "fail") /\ UNCHANGED faults
     \/ Goto(w, "fail") /\ Strike("ledger")
     \/ Retry(w) /\ Strike("rpc")
  /\ UNCHANGED <<unhandled, dbVars, busVars, ledgerVars>>

(* The transaction of worker w enters the network under a fresh hash. *)
Broadcast(w, h) ==
  /\ Acceptable(job[w].seq)
  /\ tx[h].state = "unused"
  /\ tx' = [tx EXCEPT ![h] = [state |-> "pending", order |-> Mine(w),
                              roster |-> job[w].roster, seq |-> job[w].seq]]

(* sendTransaction: accepted; the same transaction was sent already (the   *)
(* answer DUPLICATE is polled like an accepted one); refused (ERROR or     *)
(* TRY_AGAIN_LATER); or the request fails, the transaction having arrived  *)
(* or not.                                                                 *)
Send(w) ==
  /\ At(w, "send")
  /\ \/ \E h \in Hash : /\ Broadcast(w, h)
                        /\ job' = [job EXCEPT ![w].pc = "poll", ![w].hash = h]
                        /\ UNCHANGED faults
     \/ \E h \in Hash : /\ tx[h] = [state |-> "pending", order |-> Mine(w),
                                    roster |-> job[w].roster, seq |-> job[w].seq]
                        /\ job' = [job EXCEPT ![w].pc = "poll", ![w].hash = h]
                        /\ UNCHANGED <<tx, faults>>
     \/ ~Acceptable(job[w].seq) /\ Goto(w, "fail") /\ UNCHANGED <<tx, faults>>
     \/ Goto(w, "fail") /\ Strike("slow") /\ UNCHANGED tx
     \/ /\ Retry(w)
        /\ Strike("rpc")
        /\ UNCHANGED tx \/ \E h \in Hash : Broadcast(w, h)
  /\ UNCHANGED <<unhandled, dbVars, busVars, payout, seqNum>>

(* Nothing was found for 30 seconds: the run ends and writes nothing.      *)
(* Slip: the order is failed, like after any other error of the call.      *)
FailOnTimeout(w) == Goto(w, "fail")
GiveUpPolling(w) == Done(w)

(* Slip: every answer but NOT_FOUND is taken for a success. *)
FoundAtAll(h) == tx[h].state \in {"success", "failed"}
Succeeded(h) == tx[h].state = "success"

(* pollTransaction, up to its answer: success, failure, nothing found for  *)
(* 30 seconds (the run ends, nothing is written), or a request that fails. *)
Poll(w) ==
  /\ At(w, "poll")
  /\ \/ Succeeded(job[w].hash) /\ Goto(w, "record") /\ UNCHANGED faults
     \/ tx[job[w].hash].state = "failed" /\ Goto(w, "failtx") /\ UNCHANGED faults
     \/ tx[job[w].hash].state = "dropped" /\ GiveUpPolling(w) /\ UNCHANGED faults
     \/ tx[job[w].hash].state = "pending" /\ GiveUpPolling(w) /\ Strike("slow")
     \/ Retry(w) /\ Strike("rpc")
  /\ UNCHANGED <<unhandled, dbVars, busVars, ledgerVars>>

-----------------------------------------------------------------------------
(* recoverAlreadySettled: the marker is set, so the database catches up.   *)
Recover(w) ==
  /\ At(w, "recover")
  /\ LET next == IF settlement[Mine(w)] # None THEN "adopt"
                 ELSE IF job[w].hash # None THEN "record" ELSE "settlefirst"
     IN Goto(w, next)
  /\ UNCHANGED <<unhandled, dbVars, busVars, ledgerVars, faults>>

(* The row is there: only the order is updated, no event is emitted. *)
AdoptRow(w) ==
  /\ At(w, "adopt")
  /\ order' = [order EXCEPT ![Mine(w)].status = "SETTLED",
                            ![Mine(w)].hash = settlement[Mine(w)].hash]
  /\ Done(w)
  /\ UNCHANGED <<unhandled, settlement, busVars, ledgerVars, faults>>

(* No row and no hash: SETTLED first, then the row with a placeholder. *)
SettleFirst(w) ==
  /\ At(w, "settlefirst")
  /\ SetStatus(Mine(w), "SETTLED")
  /\ job' = [job EXCEPT ![w].pc = "reread", ![w].hash = Placeholder]
  /\ UNCHANGED <<unhandled, settlement, busVars, ledgerVars, faults>>

(* recordRecoveredSettlement: the split is taken from the collaborators    *)
(* the product has now.                                                    *)
Reread(a) ==
  /\ At(a, "reread")
  /\ LET r == roster[ProductOf[Mine(a)]]
     IN IF r \in NoRoster
        THEN Goto(a, "fail")
        ELSE job' = [job EXCEPT ![a].pc = "record", ![a].roster = r]
  /\ UNCHANGED <<unhandled, dbVars, busVars, ledgerVars, faults>>

(* An error in a database step: the catch clause of the actor takes over.  *)
(* A worker writes SETTLEMENT_FAILED; startup recovery writes it too,      *)
(* leaves the order, or puts it back to PAYMENT_RECEIVED.  When that very  *)
(* write is what failed the run ends.                                      *)
Caught(a) ==
  \/ job[a].catch \notin {job[a].pc, "leave"} /\ Goto(a, job[a].catch)
  \/ job[a].catch \in {job[a].pc, "leave"} /\ Done(a)

(* The row of the settlement a handler records. *)
(* Slip: the recipients are those the product has now.                     *)
RowOfRosterNow(a) == [hash |-> job[a].hash, roster |-> roster[ProductOf[Mine(a)]]]
Row(a) == [hash |-> job[a].hash, roster |-> job[a].roster]

(* The unique index on orderId lets a row be created. *)
(* Slip: the row is written by an upsert. *)
Upserted(o) == TRUE
Unrecorded(o) == settlement[o] = None

(* recordSettlementSuccess: the row, unique per order, then the order and  *)
(* the settlement.completed event.                                         *)
Record(a) ==
  /\ At(a, "record")
  /\ IF Unrecorded(Mine(a))
     THEN /\ settlement' = [settlement EXCEPT ![Mine(a)] = Row(a)]
          /\ Goto(a, "mark")
     ELSE Caught(a) /\ UNCHANGED settlement
  /\ UNCHANGED <<unhandled, order, busVars, ledgerVars, faults>>

(* Slip: the event is forgotten. *)
MarkSettledSilently(a) ==
  /\ At(a, "mark")
  /\ order' = [order EXCEPT ![Mine(a)].status = "SETTLED",
                            ![Mine(a)].hash = job[a].hash]
  /\ Done(a)
  /\ UNCHANGED <<unhandled, settlement, busVars, ledgerVars, faults>>

MarkSettled(a) ==
  /\ At(a, "mark")
  /\ order' = [order EXCEPT ![Mine(a)].status = "SETTLED",
                            ![Mine(a)].hash = job[a].hash]
  /\ completed' = Emit(completed, Mine(a))
  /\ Done(a)
  /\ UNCHANGED <<unhandled, settlement, received, ledgerVars, faults>>

(* SETTLEMENT_FAILED, with the hash when the transaction failed on chain.  *)
Fail(a) ==
  /\ At(a, "fail")
  /\ SetStatus(Mine(a), "SETTLEMENT_FAILED")
  /\ Done(a)
  /\ UNCHANGED <<unhandled, settlement, busVars, ledgerVars, faults>>

FailWithHash(w) ==
  /\ At(w, "failtx")
  /\ order' = [order EXCEPT ![Mine(w)].status = "SETTLEMENT_FAILED",
                            ![Mine(w)].hash = job[w].hash]
  /\ Done(w)
  /\ UNCHANGED <<unhandled, settlement, busVars, ledgerVars, faults>>

(* A database request of actor a fails. *)
DbPc == {"claim", "roster", "failtx", "recover", "adopt", "settlefirst",
         "reread", "record", "mark", "fail", "look", "adoptrow", "requeue"}

DbError(a) ==
  /\ job[a].pc \in DbPc
  /\ Strike("db")
  /\ Caught(a)
  /\ UNCHANGED <<unhandled, dbVars, busVars, ledgerVars>>

Invoke(w) == Simulate(w) \/ Send(w) \/ Poll(w)
Prepare(w) == MarkPending(w) \/ LoadCollaborators(w) \/ CheckTrustlines(w)
              \/ PreCheck(w) \/ CheckFloat(w)
CatchUp(w) == Recover(w) \/ AdoptRow(w) \/ SettleFirst(w)
Recording(a) == Reread(a) \/ Record(a) \/ MarkSettled(a) \/ Fail(a)
Handle(w) == TakeEvent(w) \/ Prepare(w) \/ Invoke(w) \/ CatchUp(w)
             \/ Recording(w) \/ FailWithHash(w)
=============================================================================
