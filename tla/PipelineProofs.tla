---------------------------- MODULE PipelineProofs ----------------------------
(***************************************************************************)
(* What holds of the settlement pipeline for all orders, creators, wallets,*)
(* references, handlers, transactions and fault budgets.                   *)
(*                                                                         *)
(* The argument: nothing is ever undone (Grows), so what a suspended       *)
(* handler has seen stays true whatever the others do (StableJob).  Each   *)
(* step is then looked at for the objects it writes only.  Where one       *)
(* handler at a time works on an order, the course of both is followed     *)
(* point by point (CourseInv).                                             *)
(***************************************************************************)
EXTENDS PipelineInvariant, FiniteSetTheorems, TLAPS

(* No step takes back a payment, a transaction, a row or a payout. *)
Grows ==
  /\ \A o \in Orders :
       /\ order[o].ref # None => order'[o].ref # None
       /\ settlement[o] # None => settlement'[o] = settlement[o]
       /\ PaidOut(o) => PaidOut(o)'
  /\ \A h \in Hash : Used(h) => Used(h)' /\ tx'[h].order = tx[h].order

-----------------------------------------------------------------------------
(* What the writes to the two tables of records leave behind. *)

LEMMA StatusWrite ==
  ASSUME order \in [Orders -> OrderRow], NEW o \in Orders, NEW s \in OrderStatus,
         order' = [order EXCEPT ![o].status = s]
  PROVE  /\ order' \in [Orders -> OrderRow]
         /\ order'[o].status = s
         /\ \A x \in Orders : /\ order'[x].ref = order[x].ref
                              /\ order'[x].hash = order[x].hash
                              /\ x # o => order'[x] = order[x]
  BY DEF OrderRow

LEMMA HashWrite ==
  ASSUME order \in [Orders -> OrderRow], NEW o \in Orders, NEW s \in OrderStatus,
         NEW h \in TxHash \cup {None},
         order' = [order EXCEPT ![o].status = s, ![o].hash = h]
  PROVE  /\ order' \in [Orders -> OrderRow]
         /\ order'[o].status = s /\ order'[o].hash = h
         /\ \A x \in Orders : /\ order'[x].ref = order[x].ref
                              /\ x # o => order'[x] = order[x]
<1>1. order' = [order EXCEPT ![o] = [order[o] EXCEPT !.status = s, !.hash = h]]
  BY Zenon
<1>2. [order[o] EXCEPT !.status = s, !.hash = h] \in OrderRow
  BY DEF OrderRow
<1>. QED BY <1>1, <1>2 DEF OrderRow

LEMMA RefWrite ==
  ASSUME order \in [Orders -> OrderRow], NEW o \in Orders, NEW s \in OrderStatus,
         NEW r \in Refs, order' = [order EXCEPT ![o].status = s, ![o].ref = r]
  PROVE  /\ order' \in [Orders -> OrderRow]
         /\ order'[o].status = s /\ order'[o].ref = r
         /\ \A x \in Orders : /\ order'[x].hash = order[x].hash
                              /\ x # o => order'[x] = order[x]
  BY DEF OrderRow

LEMMA PcWrite ==
  ASSUME job \in [Actors -> Job], NEW a \in Actors,
         NEW p \in HandlerPc \cup RecordPc \cup BootPc,
         job' = [job EXCEPT ![a].pc = p]
  PROVE  /\ job' \in [Actors -> Job]
         /\ job'[a] = [job[a] EXCEPT !.pc = p]
         /\ \A b \in Actors \ {a} : job'[b] = job[b]
  BY DEF Job

LEMMA StableJob ==
  ASSUME Grows, NEW j, JobSound(j)
  PROVE  JobSound(j)'
  BY DEF Grows, JobSound, Paid, HashOf

(* A step that moves one handler and touches nothing it could have seen.   *)
Moved(a) ==
  /\ job' \in [Actors -> Job]
  /\ \A b \in Actors \ {a} : job'[b] = job[b]
  /\ JobSound(job'[a])
  /\ job'[a].pc # "mark"
idleState == <<order, settlement, wallet, roster, listed, call, conn, received,
               completed, mails, todo, tx, payout, seqNum>>

LEMMA JobStep ==
  ASSUME IInv, NEW a \in Actors, Moved(a),
         faults' \in [FaultKind -> Nat], UNCHANGED idleState
  PROVE  Grows /\ IInv'
<1> USE DEF idleState, Moved
<1>1. Grows
  BY DEF Grows, Used, PaidOut
<1>2. TypeOK'
  BY DEF IInv, TypeOK
<1>3. \A o \in Orders : OrderSound(o)'
  BY DEF IInv, OrderSound, Paid, HashOf, Used, PaidOut
<1>4. (\A h \in Hash : TxSound(h))'
  BY DEF IInv, TxSound, Used, Paid
<1>5. TxPays'
  BY DEF IInv, TxPays, PaidOut
<1>6. (\A c \in Calls : CallSound(c))'
  BY DEF IInv, CallSound
<1>7. \A b \in Actors : JobSound(job[b])'
  BY <1>1, StableJob DEF IInv
<1>8. MarkOnce'
  BY DEF IInv, MarkOnce, Mine
<1>. QED BY <1>1, <1>2, <1>3, <1>4, <1>5, <1>6, <1>7, <1>8 DEF IInv

LEMMA StrikeType ==
  ASSUME faults \in [FaultKind -> Nat], NEW k \in FaultKind, Strike(k)
  PROVE  faults' \in [FaultKind -> Nat]
  BY DEF Strike

LEMMA IdleSound == JobSound(NoJob) /\ NoJob \in Job /\ NoJob.pc # "mark"
  BY DEF JobSound, NoJob, Job

-----------------------------------------------------------------------------
(* The steps that only move a handler. *)

(* A handler goes to p, and p asks for nothing the handler has not got.    *)
LEMMA GotoSound ==
  ASSUME IInv, NEW a \in Actors, job[a].pc # "idle",
         NEW p \in HandlerPc \cup RecordPc \cup BootPc, Goto(a, p),
         p \in PaidPc => PaidOut(Mine(a)),
         p \in RosterPc => job[a].roster \in Rosters,
         p \in {"poll", "failtx"} => job[a].hash \in Hash,
         p \in HashPc => job[a].hash \in TxHash,
         p \in {"adopt", "adoptrow"} => settlement[Mine(a)] # None,
         p # "mark"
  PROVE  Moved(a)
<1>1. job \in [Actors -> Job] /\ JobSound(job[a])
  BY DEF IInv, TypeOK
<1>2. /\ job' \in [Actors -> Job]
      /\ job'[a] = [job[a] EXCEPT !.pc = p]
      /\ \A b \in Actors \ {a} : job'[b] = job[b]
  BY <1>1, PcWrite DEF Goto
<1>3. job'[a].pc = p /\ job'[a].order = Mine(a) /\ job'[a].hash = job[a].hash
      /\ job'[a].roster = job[a].roster
  BY <1>1, <1>2 DEF Job, Mine
<1>4. JobSound(job'[a])
  BY <1>1, <1>3 DEF JobSound, Mine
<1>. QED BY <1>2, <1>3, <1>4 DEF Moved

LEMMA DoneSound ==
  ASSUME IInv, NEW a \in Actors, Done(a)
  PROVE  Moved(a)
  BY IdleSound DEF Done, Moved, IInv, TypeOK

(* The retry loop starts the invocation over or gives the order up. *)
LEMMA RetrySound ==
  ASSUME IInv, NEW w \in Workers, job[w].pc \in RosterPc, Retry(w)
  PROVE  Moved(w)
<1>1. w \in Actors /\ job \in [Actors -> Job] /\ JobSound(job[w])
  BY DEF Actors, IInv, TypeOK
<1>2. CASE Goto(w, "fail")
  BY <1>1, <1>2, GotoSound DEF RecordPc, PaidPc, RosterPc, HashPc
<1>3. CASE job' = [job EXCEPT ![w].pc = "invoke",
                                 ![w].tries = job[w].tries + 1]
  <2>1. PICK n \in Nat : n = job[w].tries + 1
    BY <1>1 DEF Job
  <2>2. [job[w] EXCEPT !.pc = "invoke", !.tries = n] \in Job
    BY <1>1 DEF Job, HandlerPc
  <2>3. job' = [job EXCEPT ![w] = [job[w] EXCEPT !.pc = "invoke", !.tries = n]]
    BY ONLY <1>3, <2>1, Zenon
  <2>4. /\ job'[w] = [job[w] EXCEPT !.pc = "invoke", !.tries = n]
        /\ job' \in [Actors -> Job]
        /\ \A b \in Actors \ {w} : job'[b] = job[b]
    BY <1>1, <2>2, <2>3
  <2>5. JobSound(job'[w]) /\ job'[w].pc # "mark"
    BY <1>1, <2>4 DEF JobSound, RosterPc, PaidPc, HashPc, Job
  <2>. QED BY <2>4, <2>5 DEF Moved
<1>. QED BY <1>2, <1>3 DEF Retry

(* The writes of a point together with one more field of a handler. *)
LEMMA RosterPcWrite ==
  ASSUME job \in [Actors -> Job], NEW a \in Actors, NEW r \in Rosters,
         NEW p \in HandlerPc \cup RecordPc \cup BootPc,
         job' = [job EXCEPT ![a].pc = p, ![a].roster = r]
  PROVE  /\ job' \in [Actors -> Job]
         /\ \A b \in Actors \ {a} : job'[b] = job[b]
         /\ job'[a].pc = p /\ job'[a].roster = r
         /\ job'[a].order = job[a].order /\ job'[a].hash = job[a].hash
<1>1. job' = [job EXCEPT ![a] = [job[a] EXCEPT !.pc = p, !.roster = r]]
  BY Zenon
<1>2. [job[a] EXCEPT !.pc = p, !.roster = r] \in Job
  BY DEF Job
<1>. QED BY <1>1, <1>2 DEF Job

LEMMA HashPcWrite ==
  ASSUME job \in [Actors -> Job], NEW a \in Actors, NEW h \in TxHash,
         NEW p \in HandlerPc \cup RecordPc \cup BootPc,
         job' = [job EXCEPT ![a].pc = p, ![a].hash = h]
  PROVE  /\ job' \in [Actors -> Job]
         /\ \A b \in Actors \ {a} : job'[b] = job[b]
         /\ job'[a].pc = p /\ job'[a].hash = h
         /\ job'[a].order = job[a].order /\ job'[a].roster = job[a].roster
<1>1. job' = [job EXCEPT ![a] = [job[a] EXCEPT !.pc = p, !.hash = h]]
  BY Zenon
<1>2. [job[a] EXCEPT !.pc = p, !.hash = h] \in Job
  BY DEF Job
<1>. QED BY <1>1, <1>2 DEF Job

LEMMA SeqPcWrite ==
  ASSUME job \in [Actors -> Job], NEW a \in Actors, NEW n \in Nat,
         NEW p \in HandlerPc \cup RecordPc \cup BootPc,
         job' = [job EXCEPT ![a].pc = p, ![a].seq = n]
  PROVE  /\ job' \in [Actors -> Job]
         /\ \A b \in Actors \ {a} : job'[b] = job[b]
         /\ job'[a].pc = p /\ job'[a].hash = job[a].hash
         /\ job'[a].order = job[a].order /\ job'[a].roster = job[a].roster
<1>1. job' = [job EXCEPT ![a] = [job[a] EXCEPT !.pc = p, !.seq = n]]
  BY Zenon
<1>2. [job[a] EXCEPT !.pc = p, !.seq = n] \in Job
  BY DEF Job
<1>. QED BY <1>1, <1>2 DEF Job

LEMMA CatchPcWrite ==
  ASSUME job \in [Actors -> Job], NEW a \in Actors,
         NEW k \in {"fail", "leave", "requeue"},
         NEW p \in HandlerPc \cup RecordPc \cup BootPc,
         job' = [job EXCEPT ![a].pc = p, ![a].catch = k]
  PROVE  /\ job' \in [Actors -> Job]
         /\ \A b \in Actors \ {a} : job'[b] = job[b]
         /\ job'[a].pc = p /\ job'[a].hash = job[a].hash
         /\ job'[a].order = job[a].order /\ job'[a].roster = job[a].roster
<1>1. job' = [job EXCEPT ![a] = [job[a] EXCEPT !.pc = p, !.catch = k]]
  BY Zenon
<1>2. [job[a] EXCEPT !.pc = p, !.catch = k] \in Job
  BY DEF Job
<1>. QED BY <1>1, <1>2 DEF Job

(* The steps of one handler that write nothing but its own state. *)

LEMMA LoadCollaboratorsMoves ==
  ASSUME IInv, NEW w \in Workers, LoadCollaborators(w)
  PROVE  Moved(w)
<1>1. /\ w \in Actors /\ job \in [Actors -> Job] /\ JobSound(job[w])
      /\ job[w].pc = "roster"
  BY DEF Actors, IInv, TypeOK, LoadCollaborators, At
<1>2. CASE Goto(w, "fail")
  BY <1>1, <1>2, GotoSound DEF RecordPc, PaidPc, RosterPc, HashPc
<1>3. ASSUME NEW r \in Rosters,
             job' = [job EXCEPT ![w].pc = "trustlines", ![w].roster = r]
      PROVE  Moved(w)
  <2>1. /\ job' \in [Actors -> Job]
        /\ \A b \in Actors \ {w} : job'[b] = job[b]
        /\ job'[w].pc = "trustlines" /\ job'[w].roster = r
        /\ job'[w].order = job[w].order /\ job'[w].hash = job[w].hash
    BY <1>1, <1>3, RosterPcWrite DEF HandlerPc
  <2>. QED BY <1>1, <2>1 DEF Moved, JobSound, PaidPc, RosterPc, HashPc
<1>. QED BY <1>2, <1>3, RosterKinds DEF LoadCollaborators

LEMMA CheckTrustlinesMoves ==
  ASSUME IInv, NEW w \in Workers, CheckTrustlines(w)
  PROVE  Moved(w)
<1>1. /\ w \in Actors /\ JobSound(job[w]) /\ job[w].pc = "trustlines"
  BY DEF Actors, IInv, CheckTrustlines, At
<1>2. CASE Goto(w, "precheck")
  BY <1>1, <1>2, GotoSound DEF JobSound, HandlerPc, PaidPc, RosterPc, HashPc
<1>3. CASE Goto(w, "fail")
  BY <1>1, <1>3, GotoSound DEF RecordPc, PaidPc, RosterPc, HashPc
<1>. QED BY <1>2, <1>3 DEF CheckTrustlines

LEMMA PreCheckMoves ==
  ASSUME IInv, NEW w \in Workers, PreCheck(w)
  PROVE  Moved(w)
<1>1. /\ w \in Actors /\ JobSound(job[w]) /\ job[w].pc = "precheck"
  BY DEF Actors, IInv, PreCheck, At
<1>2. CASE PaidOut(Mine(w)) /\ Goto(w, "recover")
  BY <1>1, <1>2, GotoSound DEF JobSound, HandlerPc, PaidPc, RosterPc, HashPc
<1>3. CASE Goto(w, "float")
  BY <1>1, <1>3, GotoSound DEF JobSound, HandlerPc, PaidPc, RosterPc, HashPc
<1>. QED BY <1>2, <1>3 DEF PreCheck

LEMMA CheckFloatMoves ==
  ASSUME IInv, NEW w \in Workers, CheckFloat(w)
  PROVE  Moved(w)
<1>1. /\ w \in Actors /\ JobSound(job[w]) /\ job[w].pc = "float"
  BY DEF Actors, IInv, CheckFloat, At
<1>2. CASE Goto(w, "invoke")
  BY <1>1, <1>2, GotoSound DEF JobSound, HandlerPc, PaidPc, RosterPc, HashPc
<1>3. CASE Goto(w, "fail")
  BY <1>1, <1>3, GotoSound DEF RecordPc, PaidPc, RosterPc, HashPc
<1>. QED BY <1>2, <1>3 DEF CheckFloat

LEMMA SimulateMoves ==
  ASSUME IInv, NEW w \in Workers, Simulate(w)
  PROVE  Moved(w)
<1>1. /\ w \in Actors /\ job \in [Actors -> Job] /\ JobSound(job[w])
      /\ job[w].pc = "invoke" /\ seqNum + 1 \in Nat
  BY DEF Actors, IInv, TypeOK, Simulate, At
<1>2. CASE Goto(w, "fail")
  BY <1>1, <1>2, GotoSound DEF RecordPc, PaidPc, RosterPc, HashPc
<1>3. CASE Retry(w)
  BY <1>1, <1>3, RetrySound DEF RosterPc
<1>4. CASE job' = [job EXCEPT ![w].pc = "send", ![w].seq = seqNum + 1]
  <2>1. /\ job' \in [Actors -> Job]
        /\ \A b \in Actors \ {w} : job'[b] = job[b]
        /\ job'[w].pc = "send" /\ job'[w].hash = job[w].hash
        /\ job'[w].order = job[w].order /\ job'[w].roster = job[w].roster
    BY <1>1, <1>4, SeqPcWrite DEF HandlerPc
  <2>. QED BY <1>1, <2>1 DEF Moved, JobSound, PaidPc, RosterPc, HashPc
<1>. QED BY <1>2, <1>3, <1>4 DEF Simulate

(* A handler that polls finds success only for a transaction of its order, *)
(* so the order has been paid out.                                         *)
LEMMA PollMoves ==
  ASSUME IInv, NEW w \in Workers, Poll(w)
  PROVE  Moved(w)
<1>1. /\ w \in Actors /\ JobSound(job[w]) /\ job[w].pc = "poll" /\ TxPays
  BY DEF Actors, IInv, Poll, At
<1>2. CASE tx[job[w].hash].state = "success" /\ Goto(w, "record")
  <2>1. job[w].hash \in Hash /\ tx[job[w].hash].order = Mine(w) /\ Mine(w) \in Orders
        /\ job[w].roster \in Rosters
    BY <1>1 DEF JobSound, HashOf, Paid, Mine, RosterPc
  <2>2. PaidOut(Mine(w))
    BY <1>1, <1>2, <2>1 DEF TxPays
  <2>. QED BY <1>1, <1>2, <2>1, <2>2, GotoSound
       DEF RecordPc, PaidPc, RosterPc, HashPc, TxHash
<1>3. CASE Goto(w, "failtx")
  BY <1>1, <1>3, GotoSound DEF JobSound, HandlerPc, PaidPc, RosterPc, HashPc
<1>4. CASE Done(w)
  BY <1>1, <1>4, DoneSound
<1>5. CASE Retry(w)
  BY <1>1, <1>5, RetrySound DEF RosterPc
<1>. QED BY <1>2, <1>3, <1>4, <1>5 DEF Poll, Succeeded, GiveUpPolling

LEMMA RecoverMoves ==
  ASSUME IInv, NEW w \in Workers, Recover(w)
  PROVE  Moved(w)
<1>1. /\ w \in Actors /\ job \in [Actors -> Job] /\ JobSound(job[w])
      /\ job[w].pc = "recover"
  BY DEF Actors, IInv, TypeOK, Recover, At
<1>2. CASE settlement[Mine(w)] # None /\ Goto(w, "adopt")
  BY <1>1, <1>2, GotoSound DEF JobSound, Mine, HandlerPc, PaidPc, RosterPc, HashPc
<1>3. CASE job[w].hash # None /\ Goto(w, "record")
  <2>1. job[w].hash \in TxHash
    BY <1>1, <1>3 DEF Job
  <2>. QED BY <1>1, <1>3, <2>1, GotoSound
       DEF JobSound, Mine, RecordPc, PaidPc, RosterPc, HashPc
<1>4. CASE Goto(w, "settlefirst")
  BY <1>1, <1>4, GotoSound DEF JobSound, Mine, HandlerPc, PaidPc, RosterPc, HashPc
<1>. QED BY <1>2, <1>3, <1>4 DEF Recover

LEMMA RereadMoves ==
  ASSUME IInv, NEW a \in Actors, Reread(a)
  PROVE  Moved(a)
<1>1. /\ job \in [Actors -> Job] /\ JobSound(job[a]) /\ job[a].pc = "reread"
      /\ roster[ProductOf[Mine(a)]] \in Rosters
  BY ProductOfType DEF IInv, TypeOK, Reread, At, JobSound, Paid, Mine
<1>2. CASE Goto(a, "fail")
  BY <1>1, <1>2, GotoSound DEF RecordPc, PaidPc, RosterPc, HashPc
<1>3. ASSUME NEW r \in Rosters,
             job' = [job EXCEPT ![a].pc = "record", ![a].roster = r]
      PROVE  Moved(a)
  <2>1. /\ job' \in [Actors -> Job]
        /\ \A b \in Actors \ {a} : job'[b] = job[b]
        /\ job'[a].pc = "record" /\ job'[a].roster = r
        /\ job'[a].order = job[a].order /\ job'[a].hash = job[a].hash
    BY <1>1, <1>3, RosterPcWrite DEF RecordPc
  <2>. QED BY <1>1, <2>1 DEF Moved, JobSound, PaidPc, RosterPc, HashPc
<1>. QED BY <1>1, <1>2, <1>3 DEF Reread

LEMMA CaughtMoves ==
  ASSUME IInv, NEW a \in Actors, job[a].pc # "idle", Caught(a)
  PROVE  Moved(a)
<1>1. job[a].catch \in {"fail", "leave", "requeue"}
  BY DEF IInv, TypeOK, Job
<1>2. CASE Done(a)
  BY <1>2, DoneSound
<1>3. CASE Goto(a, "fail")
  BY <1>3, GotoSound DEF RecordPc, PaidPc, RosterPc, HashPc
<1>4. CASE Goto(a, "requeue")
  BY <1>4, GotoSound DEF BootPc, PaidPc, RosterPc, HashPc
<1>. QED BY <1>1, <1>2, <1>3, <1>4 DEF Caught

LEMMA PlaceholderSound ==
  ASSUME IInv, NEW a \in Actors, job[a].pc # "idle", PaidOut(Mine(a)),
         NEW h \in TxHash \ Hash, job' = [job EXCEPT ![a].pc = "reread", ![a].hash = h]
  PROVE  Moved(a)
<1>1. job \in [Actors -> Job] /\ JobSound(job[a])
  BY DEF IInv, TypeOK
<1>2. /\ job' \in [Actors -> Job]
      /\ \A b \in Actors \ {a} : job'[b] = job[b]
      /\ job'[a].pc = "reread" /\ job'[a].hash = h
      /\ job'[a].order = job[a].order /\ job'[a].roster = job[a].roster
  BY <1>1, HashPcWrite DEF RecordPc
<1>3. JobSound(job'[a])
  BY <1>1, <1>2 DEF JobSound, HashOf, Mine, PaidPc, RosterPc, HashPc
<1>. QED BY <1>2, <1>3 DEF Moved

LEMMA CheckUnhashedMoves ==
  ASSUME IInv, CheckUnhashed
  PROVE  Moved(Boot)
<1>1. /\ Boot \in Actors /\ job \in [Actors -> Job] /\ JobSound(job[Boot])
      /\ job[Boot].pc = "bootcheck" /\ Placeholder \in TxHash \ Hash
  BY PlaceholderIsNoHash DEF Actors, IInv, TypeOK, CheckUnhashed, At, TxHash
<1>2. CASE /\ PaidOut(Mine(Boot))
           /\ job' = [job EXCEPT ![Boot].pc = "reread", ![Boot].hash = Placeholder]
  BY <1>1, <1>2, PlaceholderSound
<1>3. CASE Goto(Boot, "fail")
  BY <1>1, <1>3, GotoSound DEF RecordPc, PaidPc, RosterPc, HashPc
<1>. QED BY <1>2, <1>3 DEF CheckUnhashed

(* A hash the recovery finds successful is one of the order's own. *)
LEMMA BootSuccessPays ==
  ASSUME IInv, job[Boot].pc # "idle", HashState = "success"
  PROVE  PaidOut(Mine(Boot)) /\ job[Boot].hash \in TxHash
<1>1. Boot \in Actors /\ JobSound(job[Boot]) /\ TxPays
  BY DEF Actors, IInv
<1>2. job[Boot].hash \in Hash /\ tx[job[Boot].hash].state = "success"
  BY DEF HashState
<1>3. tx[job[Boot].hash].order = Mine(Boot) /\ Mine(Boot) \in Orders
  BY <1>1, <1>2 DEF JobSound, HashOf, Paid, Mine
<1>. QED BY <1>1, <1>2, <1>3 DEF TxPays, TxHash

LEMMA CatchSound ==
  ASSUME IInv, NEW p \in RecordPc \cup BootPc, NEW k \in {"fail", "leave", "requeue"},
         job[Boot].pc # "idle",
         job' = [job EXCEPT ![Boot].pc = p, ![Boot].catch = k],
         p \notin RosterPc, p \notin {"adoptrow", "mark"},
         p \in PaidPc => PaidOut(Mine(Boot)),
         p \in HashPc => job[Boot].hash \in TxHash
  PROVE  Moved(Boot)
<1>1. Boot \in Actors /\ job \in [Actors -> Job] /\ JobSound(job[Boot])
  BY DEF Actors, IInv, TypeOK
<1>2. /\ job' \in [Actors -> Job]
      /\ \A b \in Actors \ {Boot} : job'[b] = job[b]
      /\ job'[Boot].pc = p /\ job'[Boot].hash = job[Boot].hash
      /\ job'[Boot].order = job[Boot].order
  BY <1>1, CatchPcWrite
<1>3. p \notin {"poll", "failtx", "adopt", "idle"}
  BY DEF RecordPc, BootPc
<1>4. JobSound(job'[Boot])
  BY <1>1, <1>2, <1>3 DEF JobSound, Mine
<1>. QED BY <1>2, <1>4 DEF Moved

LEMMA VerifyMoves ==
  ASSUME IInv, Verify
  PROVE  Moved(Boot)
<1>1. /\ Boot \in Actors /\ JobSound(job[Boot]) /\ job[Boot].pc = "verify"
  BY DEF Actors, IInv, Verify, At
<1>2. CASE /\ HashState = "success"
           /\ job' = [job EXCEPT ![Boot].pc = "look", ![Boot].catch = "leave"]
  <2>1. /\ "look" \in RecordPc \cup BootPc /\ "look" \notin RosterPc
        /\ "look" \notin {"adoptrow", "mark"} /\ "leave" \in {"fail", "leave", "requeue"}
    BY DEF BootPc, RosterPc
  <2>2. PaidOut(Mine(Boot)) /\ job[Boot].hash \in TxHash
    BY <1>1, <1>2, BootSuccessPays
  <2>. QED BY <1>1, <1>2, <2>1, <2>2, CatchSound
<1>3. CASE Goto(Boot, "fail")
  BY <1>1, <1>3, GotoSound DEF RecordPc, PaidPc, RosterPc, HashPc
<1>4. CASE Goto(Boot, "reverify")
  BY <1>1, <1>4, GotoSound DEF BootPc, PaidPc, RosterPc, HashPc, JobSound
<1>5. CASE Done(Boot)
  BY <1>1, <1>5, DoneSound
<1>. QED BY <1>2, <1>3, <1>4, <1>5 DEF Verify

LEMMA ReverifyMoves ==
  ASSUME IInv, Reverify
  PROVE  Moved(Boot)
<1>1. /\ Boot \in Actors /\ JobSound(job[Boot]) /\ job[Boot].pc = "reverify"
  BY DEF Actors, IInv, Reverify, At
<1> DEFINE on(p) == job' = [job EXCEPT ![Boot].pc = p, ![Boot].catch = "requeue"]
<1>2. /\ \A p \in {"reread", "fail", "requeue"} :
           p \in RecordPc \cup BootPc /\ p \notin RosterPc /\ p \notin {"adoptrow", "mark"}
      /\ \A p \in {"fail", "requeue"} : p \notin PaidPc /\ p \notin HashPc
      /\ "requeue" \in {"fail", "leave", "requeue"}
  BY DEF RecordPc, BootPc, RosterPc, PaidPc, HashPc
<1>3. CASE HashState = "success" /\ on("reread")
  <2>1. PaidOut(Mine(Boot)) /\ job[Boot].hash \in TxHash
    BY <1>1, <1>3, BootSuccessPays
  <2>. QED BY <1>1, <1>2, <1>3, <2>1, CatchSound
<1>4. CASE on("fail")
  BY <1>1, <1>2, <1>4, CatchSound
<1>5. CASE on("requeue")
  BY <1>1, <1>2, <1>5, CatchSound
<1>. QED BY <1>3, <1>4, <1>5 DEF Reverify

LEMMA LookForRowMoves ==
  ASSUME IInv, LookForRow
  PROVE  Moved(Boot)
<1>1. /\ Boot \in Actors /\ JobSound(job[Boot]) /\ job[Boot].pc = "look"
  BY DEF Actors, IInv, LookForRow, At
<1>2. CASE settlement[Mine(Boot)] # None /\ Goto(Boot, "adoptrow")
  BY <1>1, <1>2, GotoSound DEF JobSound, Mine, BootPc, PaidPc, RosterPc, HashPc
<1>3. CASE Goto(Boot, "reread")
  BY <1>1, <1>3, GotoSound DEF JobSound, Mine, RecordPc, PaidPc, RosterPc, HashPc
<1>. QED BY <1>2, <1>3 DEF LookForRow

Silent ==
  \/ \E w \in Workers :
       \/ LoadCollaborators(w) \/ CheckTrustlines(w) \/ PreCheck(w) \/ CheckFloat(w)
       \/ Simulate(w) \/ Poll(w) \/ Recover(w)
  \/ \E a \in Actors : Reread(a) \/ DbError(a)
  \/ CheckUnhashed \/ Verify \/ Reverify \/ LookForRow

LEMMA SilentStep ==
  ASSUME IInv, Silent
  PROVE  Grows /\ IInv'
<1>1. PICK a \in Actors : Moved(a)
  <2>1. ASSUME NEW a \in Actors, DbError(a) PROVE Moved(a)
    BY <2>1, CaughtMoves DEF DbError, DbPc
  <2>2. Workers \subseteq Actors /\ Boot \in Actors
    BY DEF Actors
  <2>. QED BY <2>1, <2>2, LoadCollaboratorsMoves, CheckTrustlinesMoves,
              PreCheckMoves, CheckFloatMoves, SimulateMoves, PollMoves, RecoverMoves,
              RereadMoves, CheckUnhashedMoves, VerifyMoves, ReverifyMoves,
              LookForRowMoves DEF Silent
<1>2. UNCHANGED idleState
  BY DEF Silent, idleState, LoadCollaborators, CheckTrustlines, PreCheck, CheckFloat,
         Simulate, Poll, Recover, Reread, DbError, CheckUnhashed, Verify, Reverify,
         LookForRow, unhandled, intakeVars, catalogue, dbVars, busVars, ledgerVars
<1>3. faults' \in [FaultKind -> Nat]
  <2>1. UNCHANGED faults \/ \E k \in FaultKind : Strike(k)
    BY DEF Silent, LoadCollaborators, CheckTrustlines, PreCheck, CheckFloat,
           Simulate, Poll, Recover, Reread, DbError, CheckUnhashed, Verify, Reverify,
           LookForRow, FaultKind
  <2>. QED BY <2>1, StrikeType DEF IInv, TypeOK
<1>. QED BY <1>1, <1>2, <1>3, JobStep

-----------------------------------------------------------------------------
(* The steps that write the status of an order. *)

(* A handler of a paid order moves, and writes the row of that order; an   *)
(* event of the order may be emitted.                                      *)
LEMMA OrderStep ==
  ASSUME IInv, NEW a \in Actors, NEW o \in Orders, Paid(o), Moved(a),
         order' \in [Orders -> OrderRow], received' \in [Orders -> Nat],
         \A x \in Orders : /\ order'[x].ref = order[x].ref
                           /\ x # o => /\ order'[x] = order[x]
                                       /\ received'[x] = received[x],
         HashOf(o, order'[o].hash),
         order'[o].status = "SETTLED" => PaidOut(o),
         UNCHANGED <<settlement, wallet, roster, listed, call, conn, completed,
                     mails, todo, tx, payout, seqNum, faults>>
  PROVE  Grows /\ IInv'
<1>1. Grows
  BY DEF Grows, Used, PaidOut
<1>2. TypeOK'
  BY DEF IInv, TypeOK, Moved
<1>3. ASSUME NEW x \in Orders PROVE OrderSound(x)'
  <2>1. OrderSound(x)
    BY DEF IInv
  <2>2. CASE x = o
    BY <2>1, <2>2 DEF OrderSound, Paid, HashOf, Used, PaidOut
  <2>3. CASE x # o
    BY <2>1, <2>3 DEF OrderSound, Paid, HashOf, Used, PaidOut
  <2>. QED BY <2>2, <2>3
<1>4. (\A h \in Hash : TxSound(h))'
  BY DEF IInv, TxSound, Used, Paid
<1>5. TxPays'
  BY DEF IInv, TxPays, PaidOut
<1>6. (\A c \in Calls : CallSound(c))'
  BY DEF IInv, CallSound
<1>7. \A b \in Actors : JobSound(job[b])'
  BY <1>1, StableJob DEF IInv, Moved
<1>8. MarkOnce'
  BY DEF IInv, MarkOnce, Mine, Moved
<1>. QED BY <1>1, <1>2, <1>3, <1>4, <1>5, <1>6, <1>7, <1>8 DEF IInv

LEMMA MarkPendingStep ==
  ASSUME IInv, NEW w \in Workers, MarkPending(w)
  PROVE  Grows /\ IInv'
<1>1. /\ w \in Actors /\ JobSound(job[w]) /\ job[w].pc = "claim"
      /\ order \in [Orders -> OrderRow] /\ received \in [Orders -> Nat]
  BY DEF Actors, IInv, TypeOK, MarkPending, At
<1>2. Mine(w) \in Orders /\ Paid(Mine(w)) /\ OrderSound(Mine(w))
  BY <1>1 DEF JobSound, Paid, Mine, IInv
<1>3. /\ order' \in [Orders -> OrderRow] /\ order'[Mine(w)].status = "SETTLEMENT_PENDING"
      /\ \A x \in Orders : /\ order'[x].ref = order[x].ref
                           /\ order'[x].hash = order[x].hash
                           /\ x # Mine(w) => order'[x] = order[x]
  BY <1>1, <1>2, StatusWrite DEF MarkPending, SetStatus, OrderStatus
<1>4. Moved(w)
  BY <1>1, GotoSound DEF MarkPending, HandlerPc, PaidPc, RosterPc, HashPc
<1>. QED BY <1>1, <1>2, <1>3, <1>4, OrderStep
     DEF MarkPending, OrderSound, unhandled, intakeVars, catalogue, busVars, ledgerVars

LEMMA AdoptRowStep ==
  ASSUME IInv, NEW w \in Workers, AdoptRow(w)
  PROVE  Grows /\ IInv'
<1>1. /\ w \in Actors /\ JobSound(job[w]) /\ job[w].pc = "adopt"
      /\ order \in [Orders -> OrderRow] /\ received \in [Orders -> Nat]
  BY DEF Actors, IInv, TypeOK, AdoptRow, At
<1>2. /\ Mine(w) \in Orders /\ Paid(Mine(w)) /\ OrderSound(Mine(w))
      /\ settlement[Mine(w)] # None
  BY <1>1 DEF JobSound, Paid, Mine, IInv
<1>3. settlement[Mine(w)].hash \in TxHash
  BY <1>2 DEF IInv, TypeOK, SettlementRow
<1>4. /\ order' \in [Orders -> OrderRow] /\ order'[Mine(w)].status = "SETTLED"
      /\ order'[Mine(w)].hash = settlement[Mine(w)].hash
      /\ \A x \in Orders : /\ order'[x].ref = order[x].ref
                           /\ x # Mine(w) => order'[x] = order[x]
  BY <1>1, <1>2, <1>3, HashWrite DEF AdoptRow, OrderStatus
<1>5. Moved(w)
  BY <1>1, DoneSound DEF AdoptRow
<1>. QED BY <1>1, <1>2, <1>4, <1>5, OrderStep
     DEF AdoptRow, OrderSound, unhandled, intakeVars, catalogue, busVars, ledgerVars

LEMMA SettleFirstStep ==
  ASSUME IInv, NEW w \in Workers, SettleFirst(w)
  PROVE  Grows /\ IInv'
<1>1. /\ w \in Actors /\ JobSound(job[w]) /\ job[w].pc = "settlefirst"
      /\ order \in [Orders -> OrderRow] /\ received \in [Orders -> Nat]
      /\ Placeholder \in TxHash \ Hash
  BY PlaceholderIsNoHash DEF Actors, IInv, TypeOK, SettleFirst, At, TxHash
<1>2. /\ Mine(w) \in Orders /\ Paid(Mine(w)) /\ OrderSound(Mine(w))
      /\ PaidOut(Mine(w))
  BY <1>1 DEF JobSound, Paid, Mine, IInv, PaidPc
<1>3. /\ order' \in [Orders -> OrderRow] /\ order'[Mine(w)].status = "SETTLED"
      /\ \A x \in Orders : /\ order'[x].ref = order[x].ref
                           /\ order'[x].hash = order[x].hash
                           /\ x # Mine(w) => order'[x] = order[x]
  BY <1>1, <1>2, StatusWrite DEF SettleFirst, SetStatus, OrderStatus
<1>4. Moved(w)
  BY <1>1, <1>2, PlaceholderSound DEF SettleFirst
<1>. QED BY <1>1, <1>2, <1>3, <1>4, OrderStep
     DEF SettleFirst, OrderSound, unhandled, intakeVars, catalogue, busVars, ledgerVars

LEMMA FailStep ==
  ASSUME IInv, NEW a \in Actors, Fail(a)
  PROVE  Grows /\ IInv'
<1>1. /\ JobSound(job[a]) /\ job[a].pc = "fail"
      /\ order \in [Orders -> OrderRow] /\ received \in [Orders -> Nat]
  BY DEF IInv, TypeOK, Fail, At
<1>2. Mine(a) \in Orders /\ Paid(Mine(a)) /\ OrderSound(Mine(a))
  BY <1>1 DEF JobSound, Paid, Mine, IInv
<1>3. /\ order' \in [Orders -> OrderRow] /\ order'[Mine(a)].status = "SETTLEMENT_FAILED"
      /\ \A x \in Orders : /\ order'[x].ref = order[x].ref
                           /\ order'[x].hash = order[x].hash
                           /\ x # Mine(a) => order'[x] = order[x]
  BY <1>1, <1>2, StatusWrite DEF Fail, SetStatus, OrderStatus
<1>4. Moved(a)
  BY <1>1, DoneSound DEF Fail
<1>. QED BY <1>1, <1>2, <1>3, <1>4, OrderStep
     DEF Fail, OrderSound, unhandled, intakeVars, catalogue, busVars, ledgerVars

LEMMA FailWithHashStep ==
  ASSUME IInv, NEW w \in Workers, FailWithHash(w)
  PROVE  Grows /\ IInv'
<1>1. /\ w \in Actors /\ JobSound(job[w]) /\ job[w].pc = "failtx"
      /\ order \in [Orders -> OrderRow] /\ received \in [Orders -> Nat]
  BY DEF Actors, IInv, TypeOK, FailWithHash, At
<1>2. /\ Mine(w) \in Orders /\ Paid(Mine(w)) /\ OrderSound(Mine(w))
      /\ job[w].hash \in TxHash /\ HashOf(Mine(w), job[w].hash)
  BY <1>1 DEF JobSound, Paid, Mine, IInv, TxHash
<1>3. /\ order' \in [Orders -> OrderRow] /\ order'[Mine(w)].status = "SETTLEMENT_FAILED"
      /\ order'[Mine(w)].hash = job[w].hash
      /\ \A x \in Orders : /\ order'[x].ref = order[x].ref
                           /\ x # Mine(w) => order'[x] = order[x]
  BY <1>1, <1>2, HashWrite DEF FailWithHash, OrderStatus
<1>4. Moved(w)
  BY <1>1, DoneSound DEF FailWithHash
<1>. QED BY <1>1, <1>2, <1>3, <1>4, OrderStep
     DEF FailWithHash, OrderSound, unhandled, intakeVars, catalogue, busVars, ledgerVars

LEMMA BootAdoptRowStep ==
  ASSUME IInv, BootAdoptRow
  PROVE  Grows /\ IInv'
<1>1. /\ Boot \in Actors /\ JobSound(job[Boot]) /\ job[Boot].pc = "adoptrow"
      /\ order \in [Orders -> OrderRow] /\ received \in [Orders -> Nat]
  BY DEF Actors, IInv, TypeOK, BootAdoptRow, At
<1>2. /\ Mine(Boot) \in Orders /\ Paid(Mine(Boot)) /\ OrderSound(Mine(Boot))
      /\ PaidOut(Mine(Boot))
  BY <1>1 DEF JobSound, Paid, Mine, IInv, PaidPc
<1>3. /\ order' \in [Orders -> OrderRow] /\ order'[Mine(Boot)].status = "SETTLED"
      /\ \A x \in Orders : /\ order'[x].ref = order[x].ref
                           /\ order'[x].hash = order[x].hash
                           /\ x # Mine(Boot) => order'[x] = order[x]
  BY <1>1, <1>2, StatusWrite DEF BootAdoptRow, SetStatus, OrderStatus
<1>4. Moved(Boot)
  BY <1>1, DoneSound DEF BootAdoptRow
<1>. QED BY <1>1, <1>2, <1>3, <1>4, OrderStep
     DEF BootAdoptRow, OrderSound, unhandled, intakeVars, catalogue, busVars, ledgerVars

LEMMA RequeueStep ==
  ASSUME IInv, Requeue
  PROVE  Grows /\ IInv'
<1>1. /\ Boot \in Actors /\ JobSound(job[Boot]) /\ job[Boot].pc = "requeue"
      /\ order \in [Orders -> OrderRow] /\ received \in [Orders -> Nat]
  BY DEF Actors, IInv, TypeOK, Requeue, At
<1>2. Mine(Boot) \in Orders /\ Paid(Mine(Boot)) /\ OrderSound(Mine(Boot))
  BY <1>1 DEF JobSound, Paid, Mine, IInv
<1>3. /\ order' \in [Orders -> OrderRow] /\ order'[Mine(Boot)].status = "PAYMENT_RECEIVED"
      /\ order'[Mine(Boot)].hash = None
      /\ \A x \in Orders : /\ order'[x].ref = order[x].ref
                           /\ x # Mine(Boot) => order'[x] = order[x]
  BY <1>1, <1>2, HashWrite DEF Requeue, OrderStatus
<1>4. Moved(Boot)
  BY <1>1, DoneSound DEF Requeue
<1>5. /\ received' \in [Orders -> Nat]
      /\ \A x \in Orders : x # Mine(Boot) => received'[x] = received[x]
  BY <1>1, <1>2 DEF Requeue, Emit
<1>6. HashOf(Mine(Boot), None)
  BY NoneIsNothing DEF HashOf
<1>. QED BY <1>1, <1>2, <1>3, <1>4, <1>5, <1>6, OrderStep
     DEF Requeue, unhandled, intakeVars, catalogue, ledgerVars

-----------------------------------------------------------------------------
(* Recording a settlement.                                                 *)

(* A row is written only where there is none, so no event and no mail of   *)
(* the order exists, and no other handler is about to mark it.             *)
LEMMA RecordStep ==
  ASSUME IInv, NEW a \in Actors, Record(a)
  PROVE  Grows /\ IInv'
<1>1. /\ job \in [Actors -> Job] /\ JobSound(job[a]) /\ job[a].pc = "record"
      /\ settlement \in [Orders -> SettlementRow \cup {None}]
      /\ completed \in [Orders -> Nat] /\ mails \in [Orders -> Nat]
  BY DEF IInv, TypeOK, Record, At
<1>2. PICK o \in Orders : o = Mine(a)
  BY <1>1 DEF JobSound, Paid, Mine
<1>3. PICK h \in TxHash, r \in Rosters : h = job[a].hash /\ r = job[a].roster
  BY <1>1 DEF JobSound, RosterPc, HashPc
<1>4. Paid(o) /\ PaidOut(o) /\ OrderSound(o) /\ HashOf(o, h)
  BY <1>1, <1>2, <1>3 DEF JobSound, Mine, PaidPc, IInv
<1>5. CASE settlement[o] # None
  <2>1. Moved(a)
    BY <1>1, <1>2, <1>5, CaughtMoves DEF Record, Unrecorded
  <2>2. UNCHANGED idleState /\ faults' \in [FaultKind -> Nat]
    BY <1>2, <1>5 DEF Record, Unrecorded, idleState, unhandled, intakeVars, catalogue, busVars,
                      ledgerVars, IInv, TypeOK
  <2>. QED BY <2>1, <2>2, JobStep
<1>6. CASE settlement[o] = None
  <2>1. settlement' = [settlement EXCEPT ![o] = [hash |-> h, roster |-> r]]
    BY <1>2, <1>3, <1>6 DEF Record, Unrecorded, Row
  <2>2. [hash |-> h, roster |-> r] \in SettlementRow
    BY DEF SettlementRow
  <2>3. /\ settlement' \in [Orders -> SettlementRow \cup {None}]
        /\ settlement'[o] # None /\ settlement'[o].hash = h
        /\ \A x \in Orders \ {o} : settlement'[x] = settlement[x]
    BY <1>1, <2>1, <2>2, NoneIsNoRow
  <2>4. /\ job' \in [Actors -> Job] /\ job'[a] = [job[a] EXCEPT !.pc = "mark"]
        /\ \A b \in Actors \ {a} : job'[b] = job[b]
    BY <1>1, <1>2, <1>6, PcWrite DEF Record, Unrecorded, Goto, RecordPc
  <2>5. /\ job'[a].pc = "mark" /\ job'[a].order = o
        /\ job'[a].hash = h /\ job'[a].roster = r
    BY <1>1, <1>2, <1>3, <2>4 DEF Job, Mine
  <2>6. UNCHANGED <<order, wallet, roster, listed, call, conn, received, completed,
                    mails, todo, tx, payout, seqNum, faults>>
    BY <1>2, <1>6 DEF Record, Unrecorded, unhandled, intakeVars, catalogue, busVars, ledgerVars
  <2>7. Grows
    BY <1>6, <2>3, <2>6 DEF Grows, Used, PaidOut
  <2>8. TypeOK'
    BY <2>3, <2>4, <2>6 DEF IInv, TypeOK
  <2>9. ASSUME NEW x \in Orders PROVE OrderSound(x)'
    <3>1. OrderSound(x)
      BY DEF IInv
    <3>2. CASE x = o
      BY <1>4, <2>3, <2>6, <3>1, <3>2 DEF OrderSound, Paid, HashOf, Used, PaidOut
    <3>3. CASE x # o
      BY <2>3, <2>6, <3>1, <3>3 DEF OrderSound, Paid, HashOf, Used, PaidOut
    <3>. QED BY <3>2, <3>3
  <2>10. /\ (\A k \in Hash : TxSound(k))'
         /\ TxPays'
         /\ (\A c \in Calls : CallSound(c))'
    BY <2>6 DEF IInv, TxSound, TxPays, CallSound, Used, Paid, PaidOut
  <2>11. ASSUME NEW b \in Actors PROVE JobSound(job[b])'
    <3>1. CASE b = a
      <4>1. Paid(o)' /\ HashOf(o, h)' /\ PaidOut(o)'
        BY <1>4, <2>6 DEF Paid, HashOf, Used, PaidOut
      <4>. QED BY <2>3, <2>5, <3>1, <4>1 DEF JobSound, RosterPc
    <3>2. CASE b # a
      BY <2>4, <2>7, <3>2, StableJob DEF IInv
    <3>. QED BY <3>1, <3>2
  <2>12. MarkOnce'
    <3>1. completed[o] + mails[o] = 0
      BY <1>1, <1>4, <1>6 DEF OrderSound
    <3>2. \A b \in Actors \ {a} : job[b].pc = "mark" => job[b].order # o
      BY <1>6 DEF IInv, JobSound
    <3>3. MarkOnce
      BY DEF IInv
    <3>4. \A b \in Actors : job'[b].pc = "mark" =>
                              completed'[job'[b].order] + mails'[job'[b].order] = 0
      BY <2>4, <2>5, <2>6, <3>1, <3>3 DEF MarkOnce, Mine
    <3>5. ASSUME NEW b \in Actors, NEW c \in Actors, job'[b].pc = "mark",
                 job'[c].pc = "mark", job'[c].order = job'[b].order
          PROVE  b = c
      <4>1. CASE b = a \/ c = a
        BY <2>4, <2>5, <3>2, <3>5, <4>1
      <4>2. CASE b # a /\ c # a
        BY <2>4, <3>3, <3>5, <4>2 DEF MarkOnce, Mine
      <4>. QED BY <4>1, <4>2
    <3>. QED BY <3>4, <3>5 DEF MarkOnce, Mine
  <2>. QED BY <2>7, <2>8, <2>9, <2>10, <2>11, <2>12 DEF IInv
<1>. QED BY <1>5, <1>6

LEMMA MarkSettledStep ==
  ASSUME IInv, NEW a \in Actors, MarkSettled(a)
  PROVE  Grows /\ IInv'
<1>1. /\ JobSound(job[a]) /\ job[a].pc = "mark"
      /\ order \in [Orders -> OrderRow] /\ completed \in [Orders -> Nat]
      /\ mails \in [Orders -> Nat] /\ MarkOnce
  BY DEF IInv, TypeOK, MarkSettled, At
<1>2. PICK o \in Orders : o = Mine(a)
  BY <1>1 DEF JobSound, Paid, Mine
<1>3. PICK h \in TxHash : h = job[a].hash
  BY <1>1 DEF JobSound, HashPc
<1>4. /\ PaidOut(o) /\ OrderSound(o) /\ HashOf(o, h) /\ Paid(o)
      /\ settlement[o] # None /\ completed[o] + mails[o] = 0
  BY <1>1, <1>2, <1>3 DEF JobSound, Mine, PaidPc, IInv, MarkOnce
<1>5. /\ order' \in [Orders -> OrderRow] /\ order'[o].status = "SETTLED"
      /\ order'[o].hash = h
      /\ \A x \in Orders : /\ order'[x].ref = order[x].ref
                           /\ x # o => order'[x] = order[x]
  <2>1. PICK s \in OrderStatus : s = "SETTLED"
    BY DEF OrderStatus
  <2>2. order' = [order EXCEPT ![o].status = s, ![o].hash = h]
    BY <1>2, <1>3, <2>1 DEF MarkSettled
  <2>3. /\ order' \in [Orders -> OrderRow]
        /\ order'[o].status = s /\ order'[o].hash = h
        /\ \A x \in Orders : /\ order'[x].ref = order[x].ref
                             /\ x # o => order'[x] = order[x]
    BY <1>1, <2>2, HashWrite
  <2>. QED BY <2>1, <2>3
<1>6. Moved(a)
  BY <1>1, DoneSound DEF MarkSettled
<1>7. /\ completed' \in [Orders -> Nat]
      /\ completed'[o] = completed[o] + 1
      /\ \A x \in Orders \ {o} : completed'[x] = completed[x]
  BY <1>1, <1>2 DEF MarkSettled, Emit
<1>8. UNCHANGED <<settlement, wallet, roster, listed, call, conn, received, mails,
                  todo, tx, payout, seqNum, faults>>
  BY DEF MarkSettled, unhandled, intakeVars, catalogue, ledgerVars
<1>9. Grows
  BY <1>5, <1>8 DEF Grows, Used, PaidOut
<1>10. TypeOK'
  BY <1>5, <1>6, <1>7, <1>8 DEF IInv, TypeOK, Moved
<1>11. ASSUME NEW x \in Orders PROVE OrderSound(x)'
  <2>1. OrderSound(x)
    BY DEF IInv
  <2>2. CASE x = o
    <3>1. completed'[x] + mails'[x] <= 1
      BY <1>1, <1>4, <1>7, <1>8, <2>2
    <3>2. Paid(x)' /\ HashOf(x, order'[x].hash) /\ PaidOut(x)'
      BY <1>4, <1>5, <1>8, <2>2 DEF Paid, PaidOut
    <3>. QED BY <1>4, <1>8, <2>1, <2>2, <3>1, <3>2
         DEF OrderSound, HashOf, Used
  <2>3. CASE x # o
    BY <1>5, <1>7, <1>8, <2>1, <2>3 DEF OrderSound, Paid, HashOf, Used, PaidOut
  <2>. QED BY <2>2, <2>3
<1>12. /\ (\A k \in Hash : TxSound(k))'
       /\ TxPays'
       /\ (\A c \in Calls : CallSound(c))'
  BY <1>5, <1>8 DEF IInv, TxSound, TxPays, CallSound, Used, Paid, PaidOut
<1>13. \A b \in Actors : JobSound(job[b])'
  BY <1>6, <1>9, StableJob DEF IInv, Moved
<1>14. MarkOnce'
  <2>1. \A b \in Actors \ {a} : job[b].pc = "mark" =>
          job[b].order # o /\ job[b].order \in Orders
    BY <1>1, <1>2 DEF IInv, MarkOnce, JobSound, Paid, Mine
  <2>2. \A b \in Actors \ {a} : job[b].pc = "mark" =>
          completed'[job[b].order] = completed[job[b].order]
    BY <1>7, <2>1
  <2>. QED BY <1>1, <1>6, <1>8, <2>2 DEF MarkOnce, Mine, Moved
<1>. QED BY <1>9, <1>10, <1>11, <1>12, <1>13, <1>14 DEF IInv

(* The mail uses up the one event there is. *)
LEMMA DeliverProductStep ==
  ASSUME IInv, NEW o \in Orders, DeliverProduct(o)
  PROVE  Grows /\ IInv'
<1>1. /\ completed \in [Orders -> Nat] /\ mails \in [Orders -> Nat] /\ MarkOnce
      /\ OrderSound(o) /\ completed[o] > 0
  BY DEF IInv, TypeOK, DeliverProduct
<1>2. completed[o] = 1 /\ mails[o] = 0
  BY <1>1 DEF OrderSound
<1>3. /\ completed' \in [Orders -> Nat] /\ completed'[o] = 0
      /\ \A x \in Orders \ {o} : completed'[x] = completed[x]
  BY <1>1, <1>2 DEF DeliverProduct, Consume
<1>4. /\ mails' \in [Orders -> Nat] /\ mails'[o] <= 1
      /\ \A x \in Orders \ {o} : mails'[x] = mails[x]
  BY <1>1, <1>2 DEF DeliverProduct
<1>5. UNCHANGED <<order, settlement, wallet, roster, listed, call, conn, received,
                  job, todo, tx, payout, seqNum>>
  BY DEF DeliverProduct, dbVars, catalogue, intakeVars, ledgerVars
<1>6. faults' \in [FaultKind -> Nat]
  BY StrikeType DEF DeliverProduct, IInv, TypeOK, FaultKind
<1>7. Grows
  BY <1>5 DEF Grows, Used, PaidOut
<1>8. TypeOK'
  BY <1>3, <1>4, <1>5, <1>6 DEF IInv, TypeOK
<1>9. ASSUME NEW x \in Orders PROVE OrderSound(x)'
  <2>1. OrderSound(x)
    BY DEF IInv
  <2>2. CASE x = o
    BY <1>1, <1>2, <1>3, <1>4, <1>5, <2>1, <2>2
    DEF OrderSound, Paid, HashOf, Used, PaidOut
  <2>3. CASE x # o
    BY <1>3, <1>4, <1>5, <2>1, <2>3 DEF OrderSound, Paid, HashOf, Used, PaidOut
  <2>. QED BY <2>2, <2>3
<1>10. /\ (\A k \in Hash : TxSound(k))'
       /\ TxPays'
       /\ (\A c \in Calls : CallSound(c))'
  BY <1>5 DEF IInv, TxSound, TxPays, CallSound, Used, Paid, PaidOut
<1>11. \A b \in Actors : JobSound(job[b])'
  BY <1>5, <1>7, StableJob DEF IInv
<1>12. MarkOnce'
  <2>1. \A b \in Actors : job[b].pc = "mark" => job[b].order # o /\ job[b].order \in Orders
    BY <1>1, <1>2 DEF IInv, MarkOnce, JobSound, Paid, Mine
  <2>2. \A b \in Actors : job[b].pc = "mark" =>
          /\ completed'[job[b].order] = completed[job[b].order]
          /\ mails'[job[b].order] = mails[job[b].order]
    BY <1>3, <1>4, <2>1
  <2>. QED BY <1>1, <1>5, <2>2 DEF MarkOnce, Mine
<1>. QED BY <1>7, <1>8, <1>9, <1>10, <1>11, <1>12 DEF IInv

-----------------------------------------------------------------------------
(* Intake and catalogue. *)

(* A step of the intake leaves payouts, rows, deliveries and handlers      *)
(* alone, takes no reference away and sets off nothing that is not paid.   *)
LEMMA IntakeStep ==
  ASSUME IInv, TypeOK', \A c \in Calls : CallSound(c)',
         UNCHANGED <<settlement, completed, mails, job, tx, payout>>,
         \A x \in Orders :
           /\ order[x].ref # None => order'[x].ref # None
           /\ order'[x].hash = order[x].hash
           /\ order'[x].status \notin {"ABSENT", "PAYMENT_PENDING"} => order'[x].ref # None
           /\ order'[x].status = "SETTLED" => order[x].status = "SETTLED"
           /\ received'[x] > 0 => order'[x].ref # None
  PROVE  Grows /\ IInv'
<1>1. Grows
  BY DEF Grows, Used, PaidOut
<1>2. ASSUME NEW x \in Orders PROVE OrderSound(x)'
  BY DEF IInv, OrderSound, Paid, HashOf, Used, PaidOut
<1>3. (\A k \in Hash : TxSound(k))'
  BY DEF IInv, TxSound, Used, Paid
<1>4. TxPays' /\ MarkOnce'
  BY DEF IInv, TxPays, MarkOnce, PaidOut, Mine
<1>5. \A b \in Actors : JobSound(job[b])'
  BY <1>1, StableJob DEF IInv
<1>. QED BY <1>1, <1>2, <1>3, <1>4, <1>5 DEF IInv

LEMMA NeutralStep ==
  ASSUME IInv, TypeOK', \A c \in Calls : CallSound(c)',
         UNCHANGED <<order, settlement, received, completed, mails, job, tx, payout>>
  PROVE  Grows /\ IInv'
<1>1. \A x \in Orders :
        /\ order[x].status \notin {"ABSENT", "PAYMENT_PENDING"} => order[x].ref # None
        /\ received[x] > 0 => order[x].ref # None
  BY DEF IInv, OrderSound, Paid
<1>. QED BY <1>1, IntakeStep

LEMMA CatalogueStep ==
  ASSUME IInv, (\E p \in Products : EditCollaborators(p) \/ SetProductStatus(p))
               \/ OtherPlatformTx
  PROVE  Grows /\ IInv'
<1>1. PICK k \in FaultKind : Strike(k)
  BY DEF EditCollaborators, SetProductStatus, OtherPlatformTx, FaultKind
<1>2. TypeOK'
  <2>1. faults' \in [FaultKind -> Nat]
    BY <1>1, StrikeType DEF IInv, TypeOK
  <2>2. roster' \in [Products -> Rosters] /\ listed' \subseteq Products /\ seqNum' \in Nat
    BY DEF IInv, TypeOK, EditCollaborators, SetProductStatus, OtherPlatformTx,
           unledgered, catalogue, ledgerVars
  <2>. QED BY <2>1, <2>2
       DEF IInv, TypeOK, EditCollaborators, SetProductStatus, OtherPlatformTx,
           unledgered, dbVars, intakeVars, busVars, ledgerVars
<1>3. UNCHANGED <<order, settlement, received, completed, mails, job, tx, payout, call>>
  BY DEF EditCollaborators, SetProductStatus, OtherPlatformTx, unledgered, dbVars,
         intakeVars, busVars, ledgerVars
<1>4. \A c \in Calls : CallSound(c)'
  BY <1>3 DEF IInv, CallSound
<1>. QED BY <1>2, <1>3, <1>4, NeutralStep

(* The steps of a webhook request that only touch the request.             *)
LEMMA WebhookReadStep ==
  ASSUME IInv, NEW c \in Calls,
         CheckRef(c) \/ ReadOrder(c) \/ ReadWallet(c) \/ AnswerError(c)
  PROVE  Grows /\ IInv'
<1> DEFINE pcs == {"new", "read", "wallet", "claim", "acked", "rejected"}
           targets == {"PAYMENT_RECEIVED", "WAITING_WALLET"}
<1>1. call \in [Calls -> CallState] /\ order \in [Orders -> OrderRow]
  BY DEF IInv, TypeOK
<1>2. /\ UNCHANGED <<order, settlement, received, completed, mails, job, tx, payout>>
      /\ UNCHANGED <<wallet, roster, listed, conn, todo, seqNum>>
  BY DEF CheckRef, ReadOrder, ReadWallet, AnswerError, otherVars, catalogue, ledgerVars
<1>3. faults' \in [FaultKind -> Nat]
  <2>1. UNCHANGED faults \/ \E k \in FaultKind : Strike(k)
    BY DEF CheckRef, ReadOrder, ReadWallet, AnswerError, FaultKind
  <2>. QED BY <2>1, StrikeType DEF IInv, TypeOK
<1>4. PICK s \in CallState :
        /\ call' = [call EXCEPT ![c] = s]
        /\ s.pc \in {"read", "wallet", "claim"} => s.order \in Orders /\ s.ref \in Refs
  <2>1. CASE CheckRef(c)
    <3>1. PICK p \in Notifiable, q \in {"acked", "read"} :
            call' = [call EXCEPT ![c] =
                       [NewCall EXCEPT !.order = p[1], !.ref = p[2], !.pc = q]]
      BY <2>1 DEF CheckRef
    <3>2. p[1] \in Orders /\ p[2] \in Refs
      BY NotifiableType
    <3>3. [NewCall EXCEPT !.order = p[1], !.ref = p[2], !.pc = q] \in CallState
      BY <3>2 DEF NewCall, CallState
    <3>. QED BY <3>1, <3>2, <3>3 DEF NewCall
  <2>2. CASE ReadOrder(c)
    <3>1. PICK n \in OrderStatus \cup {"ABSENT"} : n = order[call[c].order].status
      BY <1>1, <2>2 DEF ReadOrder, IInv, CallSound, OrderRow
    <3>2. call' = [call EXCEPT ![c] = [call[c] EXCEPT !.pc = "wallet", !.seen = n]]
      BY <2>2, <3>1, Zenon DEF ReadOrder
    <3>3. [call[c] EXCEPT !.pc = "wallet", !.seen = n] \in CallState
      BY <1>1 DEF CallState
    <3>. QED BY <1>1, <2>2, <3>2, <3>3 DEF ReadOrder, CallState, IInv, CallSound
  <2>3. CASE ReadWallet(c)
    <3>1. PICK p \in {"claim", "rejected"}, t \in targets :
            call' = [call EXCEPT ![c].pc = p, ![c].target = t]
      BY <2>3 DEF ReadWallet
    <3>2. call' = [call EXCEPT ![c] = [call[c] EXCEPT !.pc = p, !.target = t]]
      BY <3>1, Zenon
    <3>3. [call[c] EXCEPT !.pc = p, !.target = t] \in CallState
      BY <1>1 DEF CallState
    <3>. QED BY <1>1, <2>3, <3>2, <3>3 DEF ReadWallet, CallState, IInv, CallSound
  <2>4. CASE AnswerError(c)
    <3>1. call' = [call EXCEPT ![c] = NewCall] /\ NewCall \in CallState
      BY <2>4 DEF AnswerError, NewCall, CallState
    <3>. QED BY <3>1 DEF NewCall
  <2>. QED BY <2>1, <2>2, <2>3, <2>4
<1>5. TypeOK'
  BY <1>1, <1>2, <1>3, <1>4 DEF IInv, TypeOK
<1>6. \A d \in Calls : CallSound(d)'
  BY <1>1, <1>4 DEF IInv, CallSound
<1>. QED BY <1>2, <1>5, <1>6, NeutralStep

LEMMA ConnectStep ==
  ASSUME IInv, NEW k \in Conns, CheckAddress(k) \/ CreateWallet(k)
  PROVE  Grows /\ IInv'
<1>1. conn \in [Conns -> ConnState] /\ wallet \in [Addresses -> Creators \cup {None}]
  BY DEF IInv, TypeOK
<1>2. /\ UNCHANGED <<order, settlement, received, completed, mails, job, tx, payout>>
      /\ UNCHANGED <<call, roster, listed, todo, seqNum, faults>>
  BY DEF CheckAddress, CreateWallet, otherVars, catalogue, ledgerVars
<1>3. conn' \in [Conns -> ConnState] /\ wallet' \in [Addresses -> Creators \cup {None}]
  <2>1. CASE CheckAddress(k)
    BY <1>1, <2>1 DEF CheckAddress, ConnState
  <2>2. CASE CreateWallet(k)
    <3>1. wallet' \in [Addresses -> Creators \cup {None}]
      BY <1>1, <2>2 DEF CreateWallet, ConnState
    <3>2. PICK p \in {"resume", "refused"} : conn' = [conn EXCEPT ![k].pc = p]
      BY <2>2 DEF CreateWallet
    <3>3. [conn[k] EXCEPT !.pc = p] \in ConnState
      BY <1>1 DEF ConnState
    <3>. QED BY <1>1, <3>1, <3>2, <3>3
  <2>. QED BY <2>1, <2>2
<1>4. TypeOK'
  BY <1>2, <1>3 DEF IInv, TypeOK
<1>5. \A c \in Calls : CallSound(c)'
  BY <1>2 DEF IInv, CallSound
<1>. QED BY <1>2, <1>4, <1>5, NeutralStep

LEMMA CheckoutStep ==
  ASSUME IInv, NEW o \in Orders, Checkout(o)
  PROVE  Grows /\ IInv'
<1>1. PICK s \in OrderStatus : s = "PAYMENT_PENDING"
  BY DEF OrderStatus
<1>2. order \in [Orders -> OrderRow] /\ order' = [order EXCEPT ![o].status = s]
  BY <1>1 DEF Checkout, IInv, TypeOK
<1>3. /\ order' \in [Orders -> OrderRow]
      /\ order'[o].status = s
      /\ \A x \in Orders : /\ order'[x].ref = order[x].ref
                           /\ order'[x].hash = order[x].hash
                           /\ x # o => order'[x] = order[x]
  BY <1>2, StatusWrite
<1>4. /\ UNCHANGED <<settlement, completed, mails, job, tx, payout>>
      /\ UNCHANGED <<wallet, roster, listed, call, conn, received, todo, seqNum, faults>>
  BY DEF Checkout, intakeVars, otherVars, catalogue, ledgerVars
<1>5. TypeOK'
  BY <1>3, <1>4 DEF IInv, TypeOK
<1>6. \A c \in Calls : CallSound(c)'
  BY <1>4 DEF IInv, CallSound
<1>7. \A x \in Orders : OrderSound(x)
  BY DEF IInv
<1>8. \A x \in Orders :
        /\ order[x].ref # None => order'[x].ref # None
        /\ order'[x].hash = order[x].hash
        /\ order'[x].status \notin {"ABSENT", "PAYMENT_PENDING"} => order'[x].ref # None
        /\ order'[x].status = "SETTLED" => order[x].status = "SETTLED"
        /\ received'[x] > 0 => order'[x].ref # None
  BY <1>1, <1>3, <1>4, <1>7 DEF OrderSound, Paid
<1>. QED BY <1>4, <1>5, <1>6, <1>8, IntakeStep

(* The claim: the order gets the reference with its new status.            *)
LEMMA ClaimStep ==
  ASSUME IInv, NEW c \in Calls, Claim(c)
  PROVE  Grows /\ IInv'
<1>1. /\ call \in [Calls -> CallState] /\ order \in [Orders -> OrderRow]
      /\ received \in [Orders -> Nat] /\ \A x \in Orders : OrderSound(x)
  BY DEF IInv, TypeOK
<1>2. PICK o \in Orders, r \in Refs : o = call[c].order /\ r = call[c].ref
  BY DEF IInv, CallSound, Claim
<1>3. PICK t \in OrderStatus : t = call[c].target /\ t # "SETTLED"
  BY <1>1 DEF CallState, OrderStatus
<1>4. /\ UNCHANGED <<settlement, completed, mails, job, tx, payout>>
      /\ UNCHANGED <<wallet, roster, listed, conn, todo, seqNum, faults>>
  BY DEF Claim, otherVars, catalogue, ledgerVars
<1>5. call' \in [Calls -> CallState] /\ \A d \in Calls : CallSound(d)'
  <2>1. [call[c] EXCEPT !.pc = "acked"] \in CallState
    BY <1>1 DEF CallState
  <2>2. /\ call' \in [Calls -> CallState] /\ call'[c] = [call[c] EXCEPT !.pc = "acked"]
        /\ \A d \in Calls \ {c} : call'[d] = call[d]
    BY <1>1, <2>1 DEF Claim
  <2>3. call'[c].pc = "acked"
    BY <1>1, <2>2 DEF CallState
  <2>. QED BY <2>2, <2>3 DEF IInv, CallSound
<1>6. CASE UNCHANGED <<order, received>>
  <2>1. TypeOK'
    BY <1>4, <1>5, <1>6 DEF IInv, TypeOK
  <2>. QED BY <1>4, <1>5, <1>6, <2>1, NeutralStep
<1>7. CASE /\ order' = [order EXCEPT ![call[c].order].status = call[c].target,
                                      ![call[c].order].ref = call[c].ref]
           /\ received' = IF call[c].target = "PAYMENT_RECEIVED"
                          THEN Emit(received, call[c].order) ELSE received
  <2>1. order' = [order EXCEPT ![o].status = t, ![o].ref = r]
    BY <1>2, <1>3, <1>7
  <2>2. /\ order' \in [Orders -> OrderRow]
        /\ order'[o].status = t /\ order'[o].ref = r
        /\ \A x \in Orders : /\ order'[x].hash = order[x].hash
                             /\ x # o => order'[x] = order[x]
    BY <1>1, <2>1, RefWrite
  <2>3. /\ received' \in [Orders -> Nat]
        /\ \A x \in Orders \ {o} : received'[x] = received[x]
    BY <1>1, <1>2, <1>7 DEF Emit
  <2>4. r # None
    BY NoneIsNothing
  <2>5. TypeOK'
    BY <1>4, <1>5, <2>2, <2>3 DEF IInv, TypeOK
  <2>6. \A x \in Orders :
          /\ order[x].ref # None => order'[x].ref # None
          /\ order'[x].hash = order[x].hash
          /\ order'[x].status \notin {"ABSENT", "PAYMENT_PENDING"} => order'[x].ref # None
          /\ order'[x].status = "SETTLED" => order[x].status = "SETTLED"
          /\ received'[x] > 0 => order'[x].ref # None
    BY <1>1, <1>3, <2>2, <2>3, <2>4 DEF OrderSound, Paid
  <2>. QED BY <1>4, <1>5, <2>5, <2>6, IntakeStep
<1>. QED BY <1>6, <1>7 DEF Claim

(* An order that waits for a wallet has been paid. *)
LEMMA ResumeWaitingStep ==
  ASSUME IInv, NEW k \in Conns, ResumeWaiting(k)
  PROVE  Grows /\ IInv'
<1>1. /\ conn \in [Conns -> ConnState] /\ received \in [Orders -> Nat]
      /\ \A x \in Orders : OrderSound(x)
  BY DEF IInv, TypeOK
<1>2. /\ UNCHANGED <<settlement, completed, mails, job, tx, payout>>
      /\ UNCHANGED <<order, wallet, roster, listed, call, todo, seqNum>>
  BY DEF ResumeWaiting, otherVars, catalogue, ledgerVars
<1>3. faults' \in [FaultKind -> Nat]
  BY StrikeType DEF ResumeWaiting, IInv, TypeOK, FaultKind
<1>4. conn' \in [Conns -> ConnState]
  <2>1. PICK p \in {"done", "lost"} : conn' = [conn EXCEPT ![k].pc = p]
    BY DEF ResumeWaiting
  <2>2. [conn[k] EXCEPT !.pc = p] \in ConnState
    BY <1>1 DEF ConnState
  <2>. QED BY <1>1, <2>1, <2>2
<1>5. /\ received' \in [Orders -> Nat]
      /\ \A x \in Orders : received'[x] > 0 =>
           received[x] > 0 \/ order[x].status = "WAITING_WALLET"
  BY <1>1 DEF ResumeWaiting, WaitingFor
<1>6. TypeOK'
  BY <1>2, <1>3, <1>4, <1>5 DEF IInv, TypeOK
<1>7. \A c \in Calls : CallSound(c)'
  BY <1>2 DEF IInv, CallSound
<1>8. \A x \in Orders :
        /\ order[x].ref # None => order'[x].ref # None
        /\ order'[x].hash = order[x].hash
        /\ order'[x].status \notin {"ABSENT", "PAYMENT_PENDING"} => order'[x].ref # None
        /\ order'[x].status = "SETTLED" => order[x].status = "SETTLED"
        /\ received'[x] > 0 => order'[x].ref # None
  BY <1>1, <1>2, <1>5 DEF OrderSound, Paid
<1>. QED BY <1>2, <1>6, <1>7, <1>8, IntakeStep

-----------------------------------------------------------------------------
(* Starting a handler, and losing all of them. *)

(* A handler or the recovery takes up an order, or an event is emitted for *)
(* it; nothing is written to the database or the ledger.                   *)
LEMMA TakeUpStep ==
  ASSUME IInv, job' \in [Actors -> Job], received' \in [Orders -> Nat],
         faults' \in [FaultKind -> Nat], todo' \subseteq Orders,
         \A a \in Actors : job'[a] = job[a] \/ (JobSound(job'[a]) /\ job'[a].pc # "mark"),
         \A x \in Orders : received'[x] > 0 => Paid(x),
         UNCHANGED <<order, settlement, wallet, roster, listed, call, conn,
                     completed, mails, tx, payout, seqNum>>
  PROVE  Grows /\ IInv'
<1>1. Grows
  BY DEF Grows, Used, PaidOut
<1>2. TypeOK'
  BY DEF IInv, TypeOK
<1>3. ASSUME NEW x \in Orders PROVE OrderSound(x)'
  BY DEF IInv, OrderSound, Paid, HashOf, Used, PaidOut
<1>4. /\ (\A h \in Hash : TxSound(h))'
      /\ TxPays'
      /\ (\A c \in Calls : CallSound(c))'
  BY DEF IInv, TxSound, TxPays, CallSound, Used, Paid, PaidOut
<1>5. ASSUME NEW a \in Actors PROVE JobSound(job[a])'
  <2>1. CASE job'[a] = job[a]
    BY <1>1, <2>1, StableJob DEF IInv
  <2>2. CASE JobSound(job'[a])
    BY <1>1, <2>2 DEF Grows, JobSound, Paid, HashOf, Used, PaidOut
  <2>. QED BY <2>1, <2>2
<1>6. MarkOnce'
  BY DEF IInv, MarkOnce, Mine
<1>. QED BY <1>1, <1>2, <1>3, <1>4, <1>5, <1>6 DEF IInv

(* A handler that starts on a paid order knows no more than the row.       *)
LEMMA FreshJob ==
  ASSUME IInv, NEW o \in Orders, Paid(o), NEW p \in {"claim", "fail", "bootcheck"}
  PROVE  LET j == [NoJob EXCEPT !.pc = p, !.order = o, !.hash = order[o].hash]
         IN j \in Job /\ JobSound(j) /\ j.pc # "mark"
<1>1. order[o].hash \in TxHash \cup {None} /\ HashOf(o, order[o].hash)
  BY DEF IInv, TypeOK, OrderRow, OrderSound
<1>. QED BY <1>1 DEF NoJob, Job, JobSound, HandlerPc, RecordPc, BootPc, PaidPc,
                     RosterPc, HashPc

LEMMA TakeEventStep ==
  ASSUME IInv, NEW w \in Workers, TakeEvent(w)
  PROVE  Grows /\ IInv'
<1> DEFINE fresh(o, p) ==
             [NoJob EXCEPT !.pc = p, !.order = o, !.hash = order[o].hash]
<1>1. /\ w \in Actors /\ job \in [Actors -> Job] /\ received \in [Orders -> Nat]
      /\ todo \subseteq Orders /\ faults \in [FaultKind -> Nat]
      /\ \A x \in Orders : OrderSound(x)
  BY DEF Actors, IInv, TypeOK
<1>2. PICK o \in Orders :
        /\ received[o] > 0 /\ received' = Consume(received, o)
        /\ \/ \E p \in {"claim", "fail"} : job' = [job EXCEPT ![w] = fresh(o, p)]
           \/ job' = job
  BY DEF TakeEvent
<1>3. Paid(o)
  BY <1>1, <1>2 DEF OrderSound
<1>4. /\ received' \in [Orders -> Nat]
      /\ \A x \in Orders : received'[x] > 0 => Paid(x)
  BY <1>1, <1>2 DEF Consume, OrderSound
<1>5. /\ job' \in [Actors -> Job]
      /\ \A a \in Actors : job'[a] = job[a] \/ (JobSound(job'[a]) /\ job'[a].pc # "mark")
  <2>1. CASE job' = job
    BY <1>1, <2>1
  <2>2. ASSUME NEW p \in {"claim", "fail"}, job' = [job EXCEPT ![w] = fresh(o, p)]
        PROVE  <1>5!1 /\ <1>5!2
    <3>1. fresh(o, p) \in Job /\ JobSound(fresh(o, p)) /\ fresh(o, p).pc # "mark"
      BY <1>3, FreshJob
    <3>2. PICK j \in Job : j = fresh(o, p) /\ JobSound(j) /\ j.pc # "mark"
      BY <3>1
    <3>3. job' = [job EXCEPT ![w] = j]
      BY <2>2, <3>2
    <3>4. /\ job' \in [Actors -> Job] /\ job'[w] = j
          /\ \A a \in Actors \ {w} : job'[a] = job[a]
      BY ONLY <1>1, <3>2, <3>3
    <3>. QED BY ONLY <3>2, <3>4
  <2>. QED BY <1>2, <2>1, <2>2
<1>6. UNCHANGED <<order, settlement, wallet, roster, listed, call, conn,
                  completed, mails, todo, tx, payout, seqNum>>
  BY DEF TakeEvent, unhandled, intakeVars, catalogue, dbVars, ledgerVars
<1>7. faults' \in [FaultKind -> Nat]
  BY <1>1, StrikeType DEF TakeEvent, FaultKind
<1>. QED BY <1>1, <1>4, <1>5, <1>6, <1>7, TakeUpStep

LEMMA TakeStuckStep ==
  ASSUME IInv, TakeStuck
  PROVE  Grows /\ IInv'
<1> DEFINE fresh(o, p) ==
             [NoJob EXCEPT !.pc = p, !.order = o, !.hash = order[o].hash]
<1>1. /\ Boot \in Actors /\ job \in [Actors -> Job] /\ received \in [Orders -> Nat]
      /\ todo \subseteq Orders /\ faults \in [FaultKind -> Nat]
      /\ order \in [Orders -> OrderRow] /\ \A x \in Orders : OrderSound(x)
  BY DEF Actors, IInv, TypeOK
<1>2. PICK o \in Orders :
        /\ todo' = todo \ {o}
        /\ order[o].status \in {"PAYMENT_RECEIVED", "SETTLEMENT_PENDING"}
        /\ \/ job' = job /\ (received' = Emit(received, o) \/ received' = received)
           \/ /\ received' = received
              /\ job' = [job EXCEPT ![Boot] =
                           fresh(o, IF order[o].hash = None THEN "bootcheck"
                                                            ELSE "verify")]
  BY <1>1 DEF TakeStuck, BootJob
<1>3. Paid(o) /\ HashOf(o, order[o].hash) /\ order[o].hash \in TxHash \cup {None}
  BY <1>1, <1>2 DEF OrderSound, OrderRow
<1>4. /\ received' \in [Orders -> Nat]
      /\ \A x \in Orders : received'[x] > 0 => Paid(x)
  BY <1>1, <1>2, <1>3 DEF Emit, OrderSound
<1>5. /\ job' \in [Actors -> Job]
      /\ \A a \in Actors : job'[a] = job[a] \/ (JobSound(job'[a]) /\ job'[a].pc # "mark")
  <2>1. CASE job' = job
    BY <1>1, <2>1
  <2>2. ASSUME NEW p \in {"bootcheck", "verify"},
               job' = [job EXCEPT ![Boot] = fresh(o, p)],
               p = "verify" => order[o].hash \in TxHash
        PROVE  <1>5!1 /\ <1>5!2
    <3>1. fresh(o, p) \in Job /\ JobSound(fresh(o, p)) /\ fresh(o, p).pc # "mark"
      BY <1>3, <2>2 DEF NoJob, Job, JobSound, HandlerPc, RecordPc, BootPc, PaidPc,
                        RosterPc, HashPc
    <3>2. PICK j \in Job : j = fresh(o, p) /\ JobSound(j) /\ j.pc # "mark"
      BY <3>1
    <3>3. job' = [job EXCEPT ![Boot] = j]
      BY <2>2, <3>2
    <3>. QED BY <1>1, <3>2, <3>3
  <2>. QED BY <1>2, <1>3, <2>1, <2>2
<1>6. UNCHANGED <<order, settlement, wallet, roster, listed, call, conn,
                  completed, mails, tx, payout, seqNum>>
  BY DEF TakeStuck, intakeVars, catalogue, dbVars, ledgerVars
<1>7. faults' \in [FaultKind -> Nat] /\ todo' \subseteq Orders
  BY <1>1, <1>2, StrikeType DEF TakeStuck, FaultKind
<1>. QED BY <1>1, <1>4, <1>5, <1>6, <1>7, TakeUpStep

(* A crash forgets every event and handler: what is left is sound.         *)
LEMMA CrashStep ==
  ASSUME IInv, Crash
  PROVE  Grows /\ IInv'
<1>1. /\ call \in [Calls -> CallState] /\ conn \in [Conns -> ConnState]
      /\ completed \in [Orders -> Nat] /\ mails \in [Orders -> Nat]
      /\ faults \in [FaultKind -> Nat]
  BY DEF IInv, TypeOK
<1>2. UNCHANGED <<order, settlement, wallet, roster, listed, mails, tx, payout, seqNum>>
  BY DEF Crash, dbVars, catalogue, ledgerVars
<1>3. /\ received' = [o \in Orders |-> 0] /\ completed' = [o \in Orders |-> 0]
      /\ job' = [a \in Actors |-> NoJob] /\ todo' \subseteq Orders
  BY DEF Crash, StuckOrders
<1>4. call' \in [Calls -> CallState] /\ \A c \in Calls : CallSound(c)'
  <2>1. NewCall \in CallState
    BY DEF NewCall, CallState
  <2>. QED BY <1>1, <2>1 DEF Crash, NewCall, CallSound, IInv
<1>5. conn' \in [Conns -> ConnState]
  <2>1. \A k \in Conns : [conn[k] EXCEPT !.pc = "lost"] \in ConnState
    BY <1>1 DEF ConnState
  <2>. QED BY <1>1, <2>1 DEF Crash
<1>6. faults' \in [FaultKind -> Nat]
  BY <1>1, StrikeType DEF Crash, FaultKind
<1>7. TypeOK'
  BY <1>2, <1>3, <1>4, <1>5, <1>6, IdleSound DEF IInv, TypeOK
<1>8. Grows
  BY <1>2 DEF Grows, Used, PaidOut
<1>9. ASSUME NEW x \in Orders PROVE OrderSound(x)'
  <2>1. OrderSound(x)
    BY DEF IInv
  <2>2. received'[x] = 0 /\ completed'[x] = 0 /\ mails'[x] = mails[x]
    BY <1>2, <1>3
  <2>3. completed[x] \in Nat /\ mails[x] \in Nat
    BY <1>1
  <2>4. mails[x] <= 1 /\ (mails[x] > 0 => settlement[x] # None)
    BY <2>1, <2>3 DEF OrderSound
  <2>. QED BY <1>2, <2>1, <2>2, <2>3, <2>4
       DEF OrderSound, Paid, HashOf, Used, PaidOut
<1>10. (\A h \in Hash : TxSound(h))' /\ TxPays'
  BY <1>2 DEF IInv, TxSound, TxPays, Used, Paid, PaidOut
<1>11. \A a \in Actors : job'[a].pc = "idle"
  BY <1>3 DEF NoJob
<1>. QED BY <1>4, <1>7, <1>8, <1>9, <1>10, <1>11 DEF IInv, JobSound, MarkOnce

-----------------------------------------------------------------------------
(* The ledger. *)

(* A step that gives an unused transaction to a paid order, or closes one  *)
(* that does not succeed.                                                  *)
LEMMA LedgerStep ==
  ASSUME IInv, NEW h \in Hash, NEW t \in Tx, NEW a \in Actors,
         tx' = [tx EXCEPT ![h] = t], t.state # "unused",
         t.state # "success" /\ tx[h].state # "success",
         Used(h) => t.order = tx[h].order,
         ~Used(h) => Paid(t.order),
         job' \in [Actors -> Job], \A b \in Actors \ {a} : job'[b] = job[b],
         job'[a] = job[a] \/ (job'[a].pc # "mark" /\ (JobSound(job'[a]) \/ JobSound(job[a])')),
         faults' \in [FaultKind -> Nat], seqNum' \in Nat,
         UNCHANGED <<order, settlement, wallet, roster, listed, call, conn, received,
                     completed, mails, todo, payout>>
  PROVE  Grows /\ IInv'
<1>1. /\ tx \in [Hash -> Tx] /\ tx' \in [Hash -> Tx] /\ tx'[h] = t
      /\ \A k \in Hash \ {h} : tx'[k] = tx[k]
  BY DEF IInv, TypeOK
<1>2. Grows
  BY <1>1 DEF Grows, Used, PaidOut
<1>3. TypeOK'
  BY <1>1 DEF IInv, TypeOK
<1>4. ASSUME NEW x \in Orders PROVE OrderSound(x)'
  <2>1. OrderSound(x)
    BY DEF IInv
  <2>. QED BY <1>2, <2>1 DEF Grows, OrderSound, Paid, HashOf, Used, PaidOut
<1>5. (\A k \in Hash : TxSound(k))'
  BY <1>1 DEF IInv, TxSound, Used, Paid
<1>6. TxPays'
  BY <1>1 DEF IInv, TxPays, PaidOut
<1>7. (\A c \in Calls : CallSound(c))'
  BY DEF IInv, CallSound
<1>8. \A b \in Actors : JobSound(job[b])'
  BY <1>2, StableJob DEF IInv
<1>9. MarkOnce'
  BY DEF IInv, MarkOnce, Mine
<1>. QED BY <1>2, <1>3, <1>4, <1>5, <1>6, <1>7, <1>8, <1>9 DEF IInv

LEMMA DropTxStep ==
  ASSUME IInv, NEW h \in Hash, DropTx(h)
  PROVE  Grows /\ IInv'
<1>1. tx[h] \in Tx /\ tx[h].state = "pending" /\ Used(h) /\ job \in [Actors -> Job]
      /\ seqNum \in Nat /\ Boot \in Actors
  BY DEF IInv, TypeOK, DropTx, Used, Actors
<1>2. PICK t \in Tx : t = [tx[h] EXCEPT !.state = "dropped"]
  BY <1>1 DEF Tx
<1>3. t.state = "dropped" /\ t.order = tx[h].order /\ tx' = [tx EXCEPT ![h] = t]
  BY <1>1, <1>2 DEF DropTx, Tx
<1>4. faults' \in [FaultKind -> Nat]
  BY StrikeType DEF DropTx, IInv, TypeOK, FaultKind
<1>5. UNCHANGED <<order, settlement, wallet, roster, listed, call, conn, received,
                  completed, mails, todo, payout, job, seqNum>>
  BY DEF DropTx, unledgered, catalogue, intakeVars, busVars
<1>. QED BY <1>1, <1>3, <1>4, <1>5, LedgerStep

(* A transaction that goes through pays a paid order for the first time.   *)
LEMMA IncludeStep ==
  ASSUME IInv, NEW h \in Hash, Include(h)
  PROVE  Grows /\ IInv'
<1>1. /\ tx[h] \in Tx /\ tx[h].state = "pending" /\ Used(h) /\ job \in [Actors -> Job]
      /\ seqNum' \in Nat /\ Boot \in Actors /\ tx \in [Hash -> Tx]
      /\ payout \in [Orders -> Rosters \cup {None}]
  BY DEF IInv, TypeOK, Include, Used, Actors
<1>2. faults' \in [FaultKind -> Nat]
  BY StrikeType DEF Include, IInv, TypeOK, FaultKind
<1>3. UNCHANGED <<order, settlement, wallet, roster, listed, call, conn, received,
                  completed, mails, todo, job>>
  BY DEF Include, unledgered, catalogue, intakeVars, busVars
<1>4. CASE tx' = [tx EXCEPT ![h].state = "failed"] /\ UNCHANGED payout
  <2>1. PICK t \in Tx : t = [tx[h] EXCEPT !.state = "failed"]
    BY <1>1 DEF Tx
  <2>2. t.state = "failed" /\ t.order = tx[h].order /\ tx' = [tx EXCEPT ![h] = t]
    BY <1>1, <1>4, <2>1 DEF Tx
  <2>. QED BY <1>1, <1>2, <1>3, <1>4, <2>2, LedgerStep
<1>5. CASE /\ WouldSettle(tx[h].order, tx[h].roster)
           /\ tx' = [tx EXCEPT ![h].state = "success"]
           /\ payout' = [payout EXCEPT ![tx[h].order] = tx[h].roster]
  <2>1. PICK o \in Orders : o = tx[h].order /\ Paid(o) /\ ~PaidOut(o)
    BY <1>1, <1>5 DEF IInv, TxSound, Paid, WouldSettle
  <2>2. PICK r \in Rosters : r = tx[h].roster /\ r # None
    BY <1>5, RosterKinds, NoneIsNothing DEF WouldSettle
  <2>3. /\ tx' \in [Hash -> Tx] /\ tx'[h].state = "success" /\ tx'[h].order = o
        /\ \A k \in Hash \ {h} : tx'[k] = tx[k]
    BY <1>1, <1>5, <2>1 DEF Tx
  <2>4. /\ payout' \in [Orders -> Rosters \cup {None}] /\ payout'[o] # None
        /\ \A x \in Orders \ {o} : payout'[x] = payout[x]
    BY <1>1, <1>5, <2>1, <2>2
  <2>5. Grows
    BY <1>3, <2>1, <2>3, <2>4 DEF Grows, Used, PaidOut
  <2>6. TypeOK'
    BY <1>1, <1>2, <1>3, <2>3, <2>4 DEF IInv, TypeOK
  <2>7. ASSUME NEW x \in Orders PROVE OrderSound(x)'
    <3>1. OrderSound(x)
      BY DEF IInv
    <3>. QED BY <1>3, <2>5, <3>1 DEF Grows, OrderSound, Paid, HashOf, Used
  <2>8. (\A k \in Hash : TxSound(k))'
    BY <1>3, <2>1, <2>3 DEF IInv, TxSound, Used, Paid
  <2>9. TxPays'
    <3>1. ASSUME NEW x \in Orders
          PROVE  (payout'[x] # None) <=>
                   \E k \in Hash : tx'[k].state = "success" /\ tx'[k].order = x
      <4>1. payout[x] # None <=> \E k \in Hash : tx[k].state = "success" /\ tx[k].order = x
        BY DEF IInv, TxPays, PaidOut
      <4>2. CASE x = o
        BY <2>3, <2>4, <4>2
      <4>3. CASE x # o
        BY <1>1, <2>1, <2>3, <2>4, <4>1, <4>3
      <4>. QED BY <4>2, <4>3
    <3>. QED BY <3>1 DEF TxPays, PaidOut
  <2>10. (\A c \in Calls : CallSound(c))' /\ MarkOnce'
    BY <1>3 DEF IInv, CallSound, MarkOnce, Mine
  <2>11. \A b \in Actors : JobSound(job[b])'
    BY <1>3, <2>5, StableJob DEF IInv
  <2>. QED BY <2>5, <2>6, <2>7, <2>8, <2>9, <2>10, <2>11 DEF IInv
<1>. QED BY <1>4, <1>5 DEF Include

(* A broadcast takes a fresh hash for the paid order of the worker. *)
LEMMA SendStep ==
  ASSUME IInv, NEW w \in Workers, Send(w)
  PROVE  Grows /\ IInv'
<1>1. /\ w \in Actors /\ job \in [Actors -> Job] /\ JobSound(job[w])
      /\ job[w].pc = "send" /\ tx \in [Hash -> Tx]
  BY DEF Actors, IInv, TypeOK, Send, At
<1>2. /\ Mine(w) \in Orders /\ Paid(Mine(w)) /\ job[w].roster \in Rosters
      /\ job[w].seq \in Nat
  BY <1>1 DEF JobSound, Paid, Mine, RosterPc, Job
<1>3. faults' \in [FaultKind -> Nat] /\ seqNum' \in Nat
  <2>1. UNCHANGED faults \/ \E k \in FaultKind : Strike(k)
    BY DEF Send, FaultKind
  <2>. QED BY <2>1, StrikeType DEF IInv, TypeOK, Send
<1>4. UNCHANGED <<order, settlement, wallet, roster, listed, call, conn, received,
                  completed, mails, todo, payout, seqNum>>
  BY DEF Send, unhandled, dbVars, intakeVars, catalogue, busVars
<1>5. ASSUME NEW h \in Hash, Broadcast(w, h),
             \/ Moved(w)
             \/ job' = [job EXCEPT ![w].pc = "poll", ![w].hash = h]
      PROVE  Grows /\ IInv'
  <2>1. PICK t \in Tx : t = [state |-> "pending", order |-> Mine(w),
                             roster |-> job[w].roster, seq |-> job[w].seq]
    BY <1>2 DEF Tx
  <2>2. /\ tx' = [tx EXCEPT ![h] = t] /\ t.state = "pending" /\ t.order = Mine(w)
        /\ ~Used(h) /\ tx[h].state # "success" /\ tx'[h] = t
    BY <1>1, <1>5, <2>1 DEF Broadcast, Used
  <2>3. /\ job' \in [Actors -> Job] /\ \A b \in Actors \ {w} : job'[b] = job[b]
        /\ job'[w].pc # "mark" /\ (JobSound(job'[w]) \/ JobSound(job[w])')
    <3>1. CASE Moved(w)
      BY <3>1 DEF Moved
    <3>2. CASE job' = [job EXCEPT ![w].pc = "poll", ![w].hash = h]
      <4>1. h \in TxHash /\ "poll" \in HandlerPc \cup RecordPc \cup BootPc
        BY DEF TxHash, HandlerPc
      <4>2. /\ job' \in [Actors -> Job]
            /\ \A b \in Actors \ {w} : job'[b] = job[b]
            /\ job'[w].pc = "poll" /\ job'[w].hash = h
            /\ job'[w].order = job[w].order /\ job'[w].roster = job[w].roster
        BY <1>1, <3>2, <4>1, HashPcWrite
      <4>3. HashOf(Mine(w), h)'
        BY <2>2, <4>2 DEF HashOf, Used, Mine
      <4>4. JobSound(job[w])'
        BY <1>2, <1>4, <4>2, <4>3 DEF JobSound, Paid, Mine, PaidPc, RosterPc, HashPc
      <4>. QED BY <4>2, <4>4
    <3>. QED BY <1>5, <3>1, <3>2
  <2>. QED BY <1>1, <1>2, <1>3, <1>4, <2>2, <2>3, LedgerStep
<1>6. ASSUME Moved(w), UNCHANGED tx
      PROVE  Grows /\ IInv'
  BY <1>1, <1>3, <1>4, <1>6, JobStep DEF idleState
<1>7. Goto(w, "fail") => Moved(w)
  BY <1>1, GotoSound DEF RecordPc, PaidPc, RosterPc, HashPc
<1>8. Retry(w) => Moved(w)
  BY <1>1, RetrySound DEF RosterPc
<1>9. ASSUME NEW h \in Hash, UNCHANGED tx,
             tx[h] = [state |-> "pending", order |-> Mine(w),
                      roster |-> job[w].roster, seq |-> job[w].seq],
             job' = [job EXCEPT ![w].pc = "poll", ![w].hash = h]
      PROVE  Moved(w)
  <2>1. h \in TxHash /\ "poll" \in HandlerPc \cup RecordPc \cup BootPc
    BY DEF TxHash, HandlerPc
  <2>2. /\ job' \in [Actors -> Job]
        /\ \A b \in Actors \ {w} : job'[b] = job[b]
        /\ job'[w].pc = "poll" /\ job'[w].hash = h
        /\ job'[w].order = job[w].order /\ job'[w].roster = job[w].roster
    BY <1>1, <1>9, <2>1, HashPcWrite
  <2>3. HashOf(Mine(w), h)
    BY <1>9 DEF HashOf, Used
  <2>. QED BY <1>2, <2>2, <2>3 DEF Moved, JobSound, Mine, PaidPc, RosterPc, HashPc
<1>. QED BY <1>5, <1>6, <1>7, <1>8, <1>9 DEF Send

-----------------------------------------------------------------------------
(* The whole pipeline. *)

LEMMA InitIInv == Init => IInv
<1> SUFFICES ASSUME Init PROVE IInv
  OBVIOUS
<1> USE DEF Init
<1>1. TypeOK
  <2>1. /\ NewCall \in CallState /\ NewConn \in ConnState /\ NoTx \in Tx /\ NoJob \in Job
    BY DEF NewCall, CallState, NewConn, ConnState, NoTx, Tx, NoJob, Job
  <2>2. [status |-> "ABSENT", ref |-> None, hash |-> None] \in OrderRow
    BY DEF OrderRow
  <2>. QED BY <2>1, <2>2, RosterKinds DEF TypeOK
<1>2. \A o \in Orders : OrderSound(o)
  BY NoneIsNothing DEF OrderSound, HashOf, PaidOut
<1>3. (\A h \in Hash : TxSound(h)) /\ TxPays
  BY DEF TxSound, TxPays, Used, PaidOut, NoTx
<1>4. \A c \in Calls : CallSound(c)
  BY DEF CallSound, NewCall
<1>5. (\A a \in Actors : JobSound(job[a])) /\ MarkOnce
  BY IdleSound DEF MarkOnce
<1>. QED BY <1>1, <1>2, <1>3, <1>4, <1>5 DEF IInv

LEMMA StutterStep ==
  ASSUME IInv, UNCHANGED vars
  PROVE  Grows /\ IInv'
<1>1. TypeOK' /\ \A c \in Calls : CallSound(c)'
  BY DEF vars, IInv, TypeOK, CallSound
<1>. QED BY <1>1, NeutralStep DEF vars

LEMMA InvariantStep ==
  ASSUME IInv, [Next]_vars
  PROVE  Grows /\ IInv'
<1>1. ASSUME NEW c \in Calls, Webhook(c) PROVE Grows /\ IInv'
  BY <1>1, WebhookReadStep, ClaimStep DEF Webhook
<1>2. ASSUME NEW k \in Conns, ConnectWallet(k) PROVE Grows /\ IInv'
  BY <1>2, ConnectStep, ResumeWaitingStep DEF ConnectWallet
<1>3. ASSUME NEW a \in Actors, Recording(a) PROVE Grows /\ IInv'
  BY <1>3, SilentStep, RecordStep, MarkSettledStep, FailStep DEF Recording, Silent
<1>4. ASSUME NEW w \in Workers, Handle(w) PROVE Grows /\ IInv'
  <2>1. w \in Actors
    BY DEF Actors
  <2>2. CASE Prepare(w)
    BY <2>2, MarkPendingStep, SilentStep DEF Prepare, Silent
  <2>3. CASE Invoke(w)
    BY <2>3, SendStep, SilentStep DEF Invoke, Silent
  <2>4. CASE CatchUp(w)
    BY <2>4, AdoptRowStep, SettleFirstStep, SilentStep DEF CatchUp, Silent
  <2>. QED BY <1>3, <1>4, <2>1, <2>2, <2>3, <2>4, TakeEventStep, FailWithHashStep
       DEF Handle
<1>5. CASE Recovery
  <2>1. Boot \in Actors
    BY DEF Actors
  <2>. QED BY <1>3, <1>5, <2>1, TakeStuckStep, BootAdoptRowStep, RequeueStep, SilentStep
       DEF Recovery, Silent
<1>6. CASE Environment
  BY <1>6, CheckoutStep, CatalogueStep, IncludeStep, DropTxStep, CrashStep
  DEF Environment
<1>7. CASE Backend
  BY <1>1, <1>2, <1>4, <1>5, <1>7, SilentStep, DeliverProductStep DEF Backend, Silent
<1>8. CASE UNCHANGED vars
  BY <1>8, StutterStep
<1>. QED BY <1>6, <1>7, <1>8 DEF Next

(* The invariant behind everything else holds in every reachable state,    *)
(* for any number of orders, handlers and faults.                          *)
THEOREM Invariant == Spec => []IInv
<1>1. Init => IInv
  BY InitIInv
<1>2. IInv /\ [Next]_vars => IInv'
  BY InvariantStep
<1>. QED BY <1>1, <1>2, PTL DEF Spec

(* Every variable keeps its type: no handler, webhook or recovery ever     *)
(* writes a row, an event or a transaction of another shape.               *)
THEOREM TypeCorrect == Spec => []TypeOK
<1>1. IInv => TypeOK
  BY DEF IInv
<1>. QED BY <1>1, Invariant, PTL

(* Neither a SETTLED order nor a settlement on record is ever ahead of the *)
(* money: the contract has paid its creators before.                       *)
THEOREM Settled == Spec => []SettledMeansPaidOut
<1>1. IInv => SettledMeansPaidOut
  BY DEF IInv, OrderSound, SettledMeansPaidOut
<1>. QED BY <1>1, Invariant, PTL

-----------------------------------------------------------------------------
(* The pipeline keeps the promise: each step is one step of the promise,   *)
(* or invisible to it.                                                     *)

Pays(h, o) == tx[h].state = "success" /\ tx[h].order = o
RefsKept == \A o \in Orders : order'[o].ref = order[o].ref
PaysKept == \A h \in Hash, o \in Orders : Pays(h, o)' <=> Pays(h, o)

PromiseStep == [Promise!Next]_(Promise!promiseVars)

LEMMA InvisibleStep ==
  ASSUME RefsKept, PaysKept, UNCHANGED <<settlement, mails>>
  PROVE  PromiseStep
<1>1. UNCHANGED {o \in Orders : order[o].ref # None}
  BY DEF RefsKept
<1>2. UNCHANGED [o \in Orders |-> {h \in Hash : tx[h].state = "success" /\ tx[h].order = o}]
  <2>1. \A o \in Orders : {h \in Hash : Pays(h, o)}' = {h \in Hash : Pays(h, o)}
    BY DEF PaysKept
  <2>. QED BY <2>1 DEF Pays
<1>3. UNCHANGED {o \in Orders : settlement[o] # None}
  OBVIOUS
<1>. QED BY <1>1, <1>2, <1>3 DEF PromiseStep, Promise!promiseVars

LEMMA RefsKeptWrite ==
  ASSUME order \in [Orders -> OrderRow], NEW o, NEW s, NEW h,
         \/ order' = [order EXCEPT ![o].status = s]
         \/ order' = [order EXCEPT ![o].status = s, ![o].hash = h]
  PROVE  RefsKept
<1>1. CASE order' = [order EXCEPT ![o].status = s]
  BY <1>1 DEF OrderRow, RefsKept
<1>2. CASE order' = [order EXCEPT ![o].status = s, ![o].hash = h]
  <2>1. order' = [order EXCEPT ![o] = [order[o] EXCEPT !.status = s, !.hash = h]]
    BY <1>2, Zenon
  <2>. QED BY <2>1 DEF OrderRow, RefsKept
<1>. QED BY <1>1, <1>2

LEMMA PaysKeptWrite ==
  ASSUME tx \in [Hash -> Tx], NEW h, NEW t, tx' = [tx EXCEPT ![h] = t],
         tx[h].state # "success" /\ t.state # "success"
  PROVE  PaysKept
  BY DEF PaysKept, Pays

(* The steps that write no row, mail no product and claim no payment: those *)
(* of the web's requests, those of the workers, and the others.            *)
UnseenCall ==
  \/ \E c \in Calls : CheckRef(c) \/ ReadOrder(c) \/ ReadWallet(c) \/ AnswerError(c)
  \/ \E k \in Conns : ConnectWallet(k)
  \/ \E o \in Orders : Checkout(o)
  \/ \E p \in Products : EditCollaborators(p) \/ SetProductStatus(p)

UnseenWork ==
  \/ \E w \in Workers : \/ TakeEvent(w) \/ Prepare(w) \/ Simulate(w) \/ Poll(w)
                        \/ CatchUp(w) \/ FailWithHash(w)
  \/ \E a \in Actors : Reread(a) \/ MarkSettled(a) \/ Fail(a) \/ DbError(a)

UnseenBoot ==
  \/ TakeStuck \/ CheckUnhashed \/ Verify \/ Reverify \/ LookForRow
  \/ BootAdoptRow \/ Requeue \/ OtherPlatformTx \/ Crash

Unseen == UnseenCall \/ UnseenWork \/ UnseenBoot

(* Such a step writes at most the status and the hash of one order. *)
OneOrderWritten ==
  /\ UNCHANGED <<settlement, mails, tx>>
  /\ \/ UNCHANGED order
     \/ \E o, s, h : \/ order' = [order EXCEPT ![o].status = s]
                     \/ order' = [order EXCEPT ![o].status = s, ![o].hash = h]

LEMMA UnseenStep ==
  ASSUME IInv, Unseen
  PROVE  PromiseStep
<1> USE DEF unhandled, intakeVars, dbVars, catalogue, busVars, ledgerVars, otherVars,
            unledgered
<1>1. order \in [Orders -> OrderRow]
  BY DEF IInv, TypeOK
<1>2. OneOrderWritten
  <2>1. ASSUME UnseenCall PROVE OneOrderWritten
    BY ONLY <2>1 DEF OneOrderWritten, UnseenCall, CheckRef, ReadOrder, ReadWallet,
         AnswerError, ConnectWallet, CheckAddress, CreateWallet, ResumeWaiting,
         Checkout, EditCollaborators, SetProductStatus, SetStatus
  <2>2. ASSUME UnseenWork PROVE OneOrderWritten
    BY ONLY <2>2 DEF OneOrderWritten, UnseenWork, TakeEvent, Prepare, MarkPending,
         LoadCollaborators, CheckTrustlines, PreCheck, CheckFloat, Simulate, Poll,
         CatchUp, Recover, AdoptRow, SettleFirst, FailWithHash, Reread, MarkSettled,
         Fail, DbError, SetStatus
  <2>3. ASSUME UnseenBoot PROVE OneOrderWritten
    BY ONLY <2>3 DEF OneOrderWritten, UnseenBoot, TakeStuck, CheckUnhashed, Verify,
         Reverify, LookForRow, BootAdoptRow, AdoptRow, Requeue, OtherPlatformTx, Crash,
         SetStatus
  <2>. QED BY <2>1, <2>2, <2>3 DEF Unseen
<1>3. /\ UNCHANGED <<settlement, mails, tx>>
      /\ \/ UNCHANGED order
         \/ \E o, s, h : \/ order' = [order EXCEPT ![o].status = s]
                         \/ order' = [order EXCEPT ![o].status = s, ![o].hash = h]
  BY <1>2 DEF OneOrderWritten
<1>4. RefsKept
  BY <1>1, <1>3, RefsKeptWrite DEF RefsKept
<1>. QED BY <1>3, <1>4, InvisibleStep DEF PaysKept, Pays

LEMMA ClaimPays ==
  ASSUME IInv, NEW c \in Calls, Claim(c)
  PROVE  PromiseStep
<1>1. order \in [Orders -> OrderRow] /\ CallSound(c)
  BY DEF IInv, TypeOK
<1>2. PICK o \in Orders, r \in Refs : o = call[c].order /\ r = call[c].ref
  BY <1>1 DEF CallSound, Claim
<1>3. UNCHANGED <<settlement, mails, tx>> /\ PaysKept
  BY DEF Claim, otherVars, ledgerVars, PaysKept, Pays
<1>4. CASE UNCHANGED order
  BY <1>3, <1>4, InvisibleStep DEF RefsKept
<1>5. ASSUME NEW t, order' = [order EXCEPT ![o].status = t, ![o].ref = r]
      PROVE  PromiseStep
  <2>1. order' = [order EXCEPT ![o] = [order[o] EXCEPT !.status = t, !.ref = r]]
    BY <1>5, Zenon
  <2>2. order'[o].ref = r /\ \A x \in Orders \ {o} : order'[x].ref = order[x].ref
    BY <1>1, <2>1 DEF OrderRow
  <2>3. r # None
    BY NoneIsNothing
  <2>4. CASE order[o].ref = None
    <3>1. o \notin {x \in Orders : order[x].ref # None}
      BY <2>4
    <3>2. {x \in Orders : order'[x].ref # None}
            = {x \in Orders : order[x].ref # None} \cup {o}
      BY <2>2, <2>3
    <3>3. UNCHANGED <<[x \in Orders |-> {h \in Hash : tx[h].state = "success"
                                                     /\ tx[h].order = x}],
                      {x \in Orders : settlement[x] # None}, mails>>
      BY <1>3
    <3>4. Promise!Pay(o)
      BY <3>1, <3>2, <3>3 DEF Promise!Pay
    <3>. QED BY <3>4 DEF PromiseStep, Promise!Next
  <2>5. CASE order[o].ref # None
    <3>1. UNCHANGED {x \in Orders : order[x].ref # None}
      BY <2>2, <2>3, <2>5
    <3>2. UNCHANGED Promise!promiseVars
      BY <1>3, <3>1 DEF Promise!promiseVars
    <3>. QED BY <3>2 DEF PromiseStep
  <2>. QED BY <2>4, <2>5
<1>. QED BY <1>2, <1>4, <1>5 DEF Claim

(* The contract pays only an order it has not paid, and only one whose     *)
(* payment is confirmed.                                                   *)
LEMMA IncludePays ==
  ASSUME IInv, NEW h \in Hash, Include(h)
  PROVE  PromiseStep
<1>1. tx \in [Hash -> Tx] /\ tx[h].state = "pending" /\ TxSound(h) /\ Used(h) /\ TxPays
  BY DEF IInv, TypeOK, Include, Used
<1>2. UNCHANGED <<order, settlement, mails>> /\ RefsKept
  BY DEF Include, unledgered, RefsKept
<1>3. CASE tx' = [tx EXCEPT ![h].state = "failed"]
  <2>1. PICK t \in Tx : t = [tx[h] EXCEPT !.state = "failed"]
    BY <1>1 DEF Tx
  <2>2. tx' = [tx EXCEPT ![h] = t] /\ t.state = "failed"
    BY <1>1, <1>3, <2>1 DEF Tx
  <2>. QED BY <1>1, <1>2, <2>2, PaysKeptWrite, InvisibleStep
<1>4. CASE WouldSettle(tx[h].order, tx[h].roster) /\ tx' = [tx EXCEPT ![h].state = "success"]
  <2>1. PICK o \in Orders : o = tx[h].order /\ order[o].ref # None /\ ~PaidOut(o)
    BY <1>1, <1>4 DEF TxSound, Paid, WouldSettle
  <2>2. /\ tx'[h].state = "success" /\ tx'[h].order = o
        /\ \A k \in Hash \ {h} : tx'[k] = tx[k]
    BY <1>1, <1>4, <2>1 DEF Tx
  <2>3. {k \in Hash : tx[k].state = "success" /\ tx[k].order = o} = {}
    BY <1>1, <2>1 DEF TxPays
  <2>4. {k \in Hash : tx'[k].state = "success" /\ tx'[k].order = o} = {h}
    BY <2>2, <2>3
  <2>5. \A x \in Orders \ {o} :
          {k \in Hash : tx'[k].state = "success" /\ tx'[k].order = x}
            = {k \in Hash : tx[k].state = "success" /\ tx[k].order = x}
    BY <1>1, <2>1, <2>2
  <2> DEFINE payersOf(x) == {k \in Hash : tx[k].state = "success" /\ tx[k].order = x}
             payersNext(x) == {k \in Hash : tx'[k].state = "success" /\ tx'[k].order = x}
  <2>6. /\ [x \in Orders |-> payersNext(x)]
             = [[x \in Orders |-> payersOf(x)] EXCEPT ![o] = {h}]
        /\ [x \in Orders |-> payersOf(x)][o] = {}
    <3>1. payersOf(o) = {} /\ payersNext(o) = {h}
      BY <2>3, <2>4
    <3>2. \A x \in Orders \ {o} : payersNext(x) = payersOf(x)
      BY <2>5
    <3> HIDE DEF payersOf, payersNext
    <3>. QED BY <3>1, <3>2
  <2>7. o \in {x \in Orders : order[x].ref # None}
    BY <2>1
  <2>8. UNCHANGED <<{x \in Orders : order[x].ref # None},
                    {x \in Orders : settlement[x] # None}, mails>>
    BY <1>2
  <2>9. Promise!PayOut(o, h)
    BY <2>6, <2>7, <2>8 DEF Promise!PayOut
  <2>. QED BY <2>9 DEF PromiseStep, Promise!Next
<1>. QED BY <1>3, <1>4 DEF Include

LEMMA RecordRecords ==
  ASSUME IInv, NEW a \in Actors, Record(a)
  PROVE  PromiseStep
<1>1. /\ JobSound(job[a]) /\ job[a].pc = "record" /\ TxPays
      /\ settlement \in [Orders -> SettlementRow \cup {None}]
  BY DEF IInv, TypeOK, Record, At
<1>2. PICK o \in Orders : o = Mine(a) /\ PaidOut(o)
  BY <1>1 DEF JobSound, Paid, Mine, PaidPc
<1>3. UNCHANGED <<order, mails, tx>> /\ RefsKept /\ PaysKept
  BY DEF Record, unhandled, ledgerVars, RefsKept, PaysKept, Pays
<1>4. CASE settlement[o] # None
  BY <1>2, <1>3, <1>4, InvisibleStep DEF Record, Unrecorded
<1>5. CASE settlement[o] = None
  <2>1. PICK h \in TxHash, r \in Rosters : h = job[a].hash /\ r = job[a].roster
    BY <1>1 DEF JobSound, RosterPc, HashPc
  <2>2. PICK row \in SettlementRow : row = [hash |-> h, roster |-> r]
    BY DEF SettlementRow
  <2>3. settlement' = [settlement EXCEPT ![o] = row]
    BY <1>2, <1>5, <2>1, <2>2 DEF Record, Unrecorded, Row
  <2>4. {x \in Orders : settlement'[x] # None} = {x \in Orders : settlement[x] # None} \cup {o}
    BY <1>1, <2>3, NoneIsNoRow
  <2>5. o \notin {x \in Orders : settlement[x] # None}
    BY <1>5
  <2>6. {h1 \in Hash : tx[h1].state = "success" /\ tx[h1].order = o} # {}
    BY <1>1, <1>2 DEF TxPays
  <2>7. UNCHANGED <<{x \in Orders : order[x].ref # None},
                    [x \in Orders |-> {h1 \in Hash : tx[h1].state = "success"
                                                    /\ tx[h1].order = x}], mails>>
    BY <1>3
  <2>8. Promise!Record(o)
    BY <2>4, <2>5, <2>6, <2>7 DEF Promise!Record
  <2>. QED BY <2>8 DEF PromiseStep, Promise!Next
<1>. QED BY <1>4, <1>5

LEMMA DeliverDelivers ==
  ASSUME IInv, NEW o \in Orders, DeliverProduct(o)
  PROVE  PromiseStep
<1>1. /\ completed \in [Orders -> Nat] /\ mails \in [Orders -> Nat]
      /\ OrderSound(o) /\ completed[o] > 0
  BY DEF IInv, TypeOK, DeliverProduct
<1>2. completed[o] = 1 /\ mails[o] = 0 /\ settlement[o] # None
  BY <1>1 DEF OrderSound
<1>3. UNCHANGED <<order, settlement, tx>> /\ RefsKept /\ PaysKept
  BY DEF DeliverProduct, dbVars, ledgerVars, RefsKept, PaysKept, Pays
<1>4. CASE UNCHANGED mails
  BY <1>3, <1>4, InvisibleStep
<1>5. CASE mails' = [mails EXCEPT ![o] = @ + 1]
  <2>1. mails' = [mails EXCEPT ![o] = 1]
    BY <1>1, <1>2, <1>5
  <2>2. o \in {x \in Orders : settlement[x] # None}
    BY <1>2
  <2>3. UNCHANGED <<{x \in Orders : order[x].ref # None},
                    [x \in Orders |-> {h \in Hash : tx[h].state = "success"
                                                    /\ tx[h].order = x}],
                    {x \in Orders : settlement[x] # None}>>
    BY <1>3
  <2>4. Promise!Deliver(o)
    BY <1>2, <2>1, <2>2, <2>3 DEF Promise!Deliver
  <2>. QED BY <2>4 DEF PromiseStep, Promise!Next
<1>. QED BY <1>4, <1>5 DEF DeliverProduct

LEMMA SendUnseen ==
  ASSUME IInv, NEW w \in Workers, Send(w)
  PROVE  PromiseStep
<1>1. tx \in [Hash -> Tx]
  BY DEF IInv, TypeOK
<1>2. UNCHANGED <<order, settlement, mails>> /\ RefsKept
  BY DEF Send, unhandled, dbVars, RefsKept
<1>3. PaysKept
  <2>1. CASE UNCHANGED tx
    BY <2>1 DEF PaysKept, Pays
  <2>2. ASSUME NEW h \in Hash, Broadcast(w, h) PROVE PaysKept
    <3>1. PICK t : /\ t = [state |-> "pending", order |-> Mine(w),
                           roster |-> job[w].roster, seq |-> job[w].seq]
      OBVIOUS
    <3>2. tx' = [tx EXCEPT ![h] = t] /\ t.state # "success" /\ tx[h].state # "success"
      BY <2>2, <3>1 DEF Broadcast
    <3>. QED BY <1>1, <3>2, PaysKeptWrite
  <2>. QED BY <2>1, <2>2 DEF Send
<1>. QED BY <1>2, <1>3, InvisibleStep

LEMMA DropUnseen ==
  ASSUME IInv, NEW h \in Hash, DropTx(h)
  PROVE  PromiseStep
<1>1. tx \in [Hash -> Tx] /\ tx[h].state = "pending"
  BY DEF IInv, TypeOK, DropTx
<1>2. PICK t \in Tx : t = [tx[h] EXCEPT !.state = "dropped"]
  BY <1>1 DEF Tx
<1>3. tx' = [tx EXCEPT ![h] = t] /\ t.state = "dropped"
  BY <1>1, <1>2 DEF DropTx, Tx
<1>4. UNCHANGED <<order, settlement, mails>> /\ RefsKept
  BY DEF DropTx, unledgered, RefsKept
<1>. QED BY <1>1, <1>3, <1>4, PaysKeptWrite, InvisibleStep

LEMMA StepKeepsPromise ==
  ASSUME IInv, [Next]_vars
  PROVE  PromiseStep
<1>1. CASE UNCHANGED vars
  BY <1>1, InvisibleStep DEF vars, RefsKept, PaysKept, Pays
<1>2. ASSUME NEW w \in Workers, Handle(w) PROVE PromiseStep
  <2>1. w \in Actors
    BY DEF Actors
  <2>. QED BY <1>2, <2>1, UnseenStep, SendUnseen, RecordRecords
       DEF Handle, Invoke, Recording, Unseen, UnseenCall, UnseenWork, UnseenBoot
<1>3. CASE Recovery
  <2>1. Boot \in Actors
    BY DEF Actors
  <2>. QED BY <1>3, <2>1, UnseenStep, RecordRecords
       DEF Recovery, Recording, Unseen, UnseenCall, UnseenWork, UnseenBoot
<1>4. CASE Backend
  BY <1>2, <1>3, <1>4, UnseenStep, ClaimPays, DeliverDelivers
     DEF Backend, Webhook, Unseen, UnseenCall, UnseenWork, UnseenBoot
<1>5. CASE Environment
  BY <1>5, UnseenStep, IncludePays, DropUnseen
     DEF Environment, Unseen, UnseenCall, UnseenWork, UnseenBoot
<1>. QED BY <1>1, <1>4, <1>5 DEF Next

(* Whatever is lost, repeated or raced, the pipeline keeps the promise:    *)
(* it pays a paid order out once, records only what was paid out, and      *)
(* delivers what is recorded at most once.                                 *)
THEOREM KeepsPromise == Spec => PromiseKept
<1>1. Init => Promise!Init
  <2>1. ASSUME Init PROVE Promise!Init
    <3>1. {o \in Orders : order[o].ref # None} = {}
      BY <2>1 DEF Init
    <3>2. [o \in Orders |-> {h \in Hash : tx[h].state = "success" /\ tx[h].order = o}]
            = [o \in Orders |-> {}]
      BY <2>1 DEF Init, NoTx
    <3>3. {o \in Orders : settlement[o] # None} = {}
      BY <2>1 DEF Init
    <3>4. mails = [o \in Orders |-> 0]
      BY <2>1 DEF Init
    <3>. QED BY <3>1, <3>2, <3>3, <3>4 DEF Promise!Init
  <2>. QED BY <2>1
<1>2. IInv /\ [Next]_vars => [Promise!Next]_(Promise!promiseVars)
  BY StepKeepsPromise DEF PromiseStep
<1>. QED BY <1>1, <1>2, Invariant, PTL DEF Spec, PromiseKept, Promise!Spec
-----------------------------------------------------------------------------
(* No acknowledged payment is lost.  An order keeps the reference it was   *)
(* paid under; what has to be said is that a reference found among the     *)
(* orders can only be the one of the order notified.  This rests on the    *)
(* gateway, which never uses one reference for two orders.                 *)

OwnReferences == \A p, q \in Notifiable : p[2] = q[2] => p[1] = q[1]

CallAcks(c) ==
  /\ call[c].pc \in {"read", "wallet", "claim"} => <<call[c].order, call[c].ref>> \in Notifiable
  /\ call[c].pc = "acked" => call[c].order \in Orders /\ order[call[c].order].ref # None
AckInv ==
  /\ \A o \in Orders : order[o].ref # None => <<o, order[o].ref>> \in Notifiable
  /\ \A c \in Calls : CallAcks(c)

(* The steps that neither answer a webhook nor end the process. *)
Uncalled ==
  \/ \E k \in Conns : ConnectWallet(k)
  \/ \E w \in Workers : Handle(w)
  \/ \E a \in Actors : DbError(a)
  \/ Recovery
  \/ \E o \in Orders : Checkout(o) \/ DeliverProduct(o)
  \/ \E p \in Products : EditCollaborators(p) \/ SetProductStatus(p)
  \/ \E h \in Hash : Include(h) \/ DropTx(h)
  \/ OtherPlatformTx

StatusOnly ==
  \/ UNCHANGED order
  \/ \E o, s, h : \/ order' = [order EXCEPT ![o].status = s]
                  \/ order' = [order EXCEPT ![o].status = s, ![o].hash = h]

LEMMA HandlerWritesStatus ==
  ASSUME \/ \E w \in Workers : Handle(w)
         \/ \E a \in Actors : Recording(a) \/ DbError(a)
  PROVE  UNCHANGED call /\ StatusOnly
<1> USE DEF unhandled, intakeVars, dbVars, StatusOnly, SetStatus
<1>1. ASSUME NEW w \in Workers,
             TakeEvent(w) \/ Prepare(w) \/ Invoke(w) \/ CatchUp(w) \/ FailWithHash(w)
      PROVE  UNCHANGED call /\ StatusOnly
  BY <1>1 DEF TakeEvent, Prepare, MarkPending, LoadCollaborators, CheckTrustlines,
              PreCheck, CheckFloat, Invoke, Simulate, Send, Poll, CatchUp, Recover,
              AdoptRow, SettleFirst, FailWithHash
<1>2. ASSUME NEW a, Recording(a) \/ DbError(a)
      PROVE  UNCHANGED call /\ StatusOnly
  BY <1>2 DEF Recording, Reread, Record, MarkSettled, Fail, DbError
<1>. QED BY <1>1, <1>2 DEF Handle

LEMMA OthersWriteStatus ==
  ASSUME Uncalled
  PROVE  UNCHANGED call /\ StatusOnly
<1> USE DEF unhandled, intakeVars, dbVars, otherVars, unledgered, StatusOnly, SetStatus
<1>1. ASSUME TakeStuck \/ CheckUnhashed \/ Verify \/ Reverify \/ LookForRow
             \/ BootAdoptRow \/ Requeue
      PROVE  UNCHANGED call /\ StatusOnly
  BY <1>1 DEF TakeStuck, CheckUnhashed, Verify, Reverify, LookForRow, BootAdoptRow, Requeue
<1>2. CASE Recovery
  BY <1>1, <1>2, HandlerWritesStatus DEF Recovery, Actors
<1>3. ASSUME NEW k \in Conns, ConnectWallet(k)
      PROVE  UNCHANGED call /\ StatusOnly
  BY <1>3 DEF ConnectWallet, CheckAddress, CreateWallet, ResumeWaiting
<1>4. ASSUME NEW o \in Orders, Checkout(o) \/ DeliverProduct(o)
      PROVE  UNCHANGED call /\ StatusOnly
  BY <1>4 DEF Checkout, DeliverProduct
<1>5. ASSUME \/ \E p \in Products : EditCollaborators(p) \/ SetProductStatus(p)
             \/ \E h \in Hash : Include(h) \/ DropTx(h)
             \/ OtherPlatformTx
      PROVE  UNCHANGED call /\ StatusOnly
  BY <1>5 DEF EditCollaborators, SetProductStatus, Include, DropTx, OtherPlatformTx
<1> HIDE DEF StatusOnly
<1>. QED BY <1>2, <1>3, <1>4, <1>5, HandlerWritesStatus DEF Uncalled

LEMMA UncalledStep ==
  ASSUME IInv, AckInv, Uncalled
  PROVE  AckInv'
<1>1. order \in [Orders -> OrderRow] /\ UNCHANGED call /\ StatusOnly
  BY OthersWriteStatus DEF IInv, TypeOK
<1>2. RefsKept
  BY <1>1, RefsKeptWrite DEF RefsKept, StatusOnly
<1>. QED BY <1>1, <1>2 DEF AckInv, CallAcks, RefsKept

(* A request that takes a step without writing to the database. *)
LEMMA CallWrite ==
  ASSUME AckInv, call \in [Calls -> CallState], UNCHANGED order,
         NEW c \in Calls, NEW s, call' = [call EXCEPT ![c] = s],
         s.pc \in {"read", "wallet", "claim"} => <<s.order, s.ref>> \in Notifiable,
         s.pc = "acked" => s.order \in Orders /\ order[s.order].ref # None
  PROVE  AckInv'
  BY DEF AckInv, CallAcks

LEMMA ReferenceKnown ==
  ASSUME OwnReferences, AckInv, NEW p \in Notifiable, NEW o \in Orders, order[o].ref = p[2]
  PROVE  p[1] = o /\ order[p[1]].ref # None
<1>1. p[1] \in Orders /\ p[2] \in Refs /\ p[2] # None
  BY NotifiableType, NoneIsNothing
<1>2. <<o, p[2]>> \in Notifiable
  BY <1>1 DEF AckInv
<1>3. <<o, p[2]>>[2] = p[2] /\ <<o, p[2]>>[1] = o
  OBVIOUS
<1>. QED BY <1>1, <1>2, <1>3 DEF OwnReferences

LEMMA WebhookAcks ==
  ASSUME OwnReferences, IInv, AckInv, NEW c \in Calls,
         CheckRef(c) \/ ReadOrder(c) \/ ReadWallet(c) \/ AnswerError(c)
  PROVE  AckInv'
<1>1. call \in [Calls -> CallState] /\ UNCHANGED order
  BY DEF IInv, TypeOK, CheckRef, ReadOrder, ReadWallet, AnswerError
<1> DEFINE pcs == {"read", "wallet", "claim"}
           fine(s) == /\ s.pc \in pcs => <<s.order, s.ref>> \in Notifiable
                      /\ s.pc = "acked" => s.order \in Orders /\ order[s.order].ref # None
<1>2. ASSUME NEW s, call' = [call EXCEPT ![c] = s], fine(s)
      PROVE  AckInv'
  BY <1>1, <1>2, CallWrite
<1>3. CASE CheckRef(c)
  <2>1. PICK p \in Notifiable :
          call' = [call EXCEPT ![c] =
                     [NewCall EXCEPT !.order = p[1], !.ref = p[2],
                        !.pc = IF RefClaimed(p[2]) THEN "acked" ELSE "read"]]
    BY <1>3 DEF CheckRef
  <2>2. p[1] \in Orders /\ p = <<p[1], p[2]>>
    BY NotifiableType
  <2>3. RefClaimed(p[2]) => order[p[1]].ref # None
    BY ReferenceKnown DEF RefClaimed
  <2>4. PICK s : s = [NewCall EXCEPT !.order = p[1], !.ref = p[2],
                        !.pc = IF RefClaimed(p[2]) THEN "acked" ELSE "read"]
    OBVIOUS
  <2>5. /\ s.order = p[1] /\ s.ref = p[2]
        /\ s.pc = IF RefClaimed(p[2]) THEN "acked" ELSE "read"
    BY <2>4 DEF NewCall
  <2>6. fine(s)
    BY <2>2, <2>3, <2>5
  <2>7. call' = [call EXCEPT ![c] = s]
    BY <2>1, <2>4
  <2>. QED BY <1>2, <2>6, <2>7
<1>4. CASE ReadOrder(c)
  <2>1. PICK s : s = [call[c] EXCEPT !.pc = "wallet", !.seen = order[call[c].order].status]
    OBVIOUS
  <2>2. call' = [call EXCEPT ![c] = s]
    BY <1>4, <2>1, Zenon DEF ReadOrder
  <2>3. call[c] \in CallState /\ s.pc = "wallet" /\ s.order = call[c].order /\ s.ref = call[c].ref
    BY <1>1, <2>1 DEF CallState
  <2>4. fine(s)
    BY <1>4, <2>3 DEF ReadOrder, AckInv, CallAcks
  <2>. QED BY <1>2, <2>2, <2>4
<1>5. CASE ReadWallet(c)
  <2>1. PICK p \in {"claim", "rejected"}, t \in {"PAYMENT_RECEIVED", "WAITING_WALLET"} :
          call' = [call EXCEPT ![c].pc = p, ![c].target = t]
    BY <1>5 DEF ReadWallet
  <2>2. PICK s : s = [call[c] EXCEPT !.pc = p, !.target = t]
    OBVIOUS
  <2>3. call' = [call EXCEPT ![c] = s]
    BY <2>1, <2>2, Zenon
  <2>4. call[c] \in CallState /\ s.pc = p /\ s.order = call[c].order /\ s.ref = call[c].ref
    BY <1>1, <2>2 DEF CallState
  <2>5. fine(s)
    BY <1>5, <2>4 DEF ReadWallet, AckInv, CallAcks
  <2>. QED BY <1>2, <2>3, <2>5
<1>6. CASE AnswerError(c)
  <2>1. fine(NewCall)
    BY DEF NewCall
  <2>. QED BY <1>6, <1>2, <2>1 DEF AnswerError
<1>. QED BY <1>3, <1>4, <1>5, <1>6

(* A unique violation only ever comes from the order itself having been    *)
(* claimed before.                                                         *)
LEMMA ClaimAcks ==
  ASSUME OwnReferences, IInv, AckInv, NEW c \in Calls, Claim(c)
  PROVE  AckInv'
<1>1. call \in [Calls -> CallState] /\ order \in [Orders -> OrderRow] /\ CallSound(c)
  BY DEF IInv, TypeOK
<1>2. PICK o \in Orders, r \in Refs : o = call[c].order /\ r = call[c].ref /\ <<o, r>> \in Notifiable
  BY <1>1 DEF CallSound, Claim, AckInv, CallAcks
<1>3. r # None
  BY NoneIsNothing
<1>4. /\ \A d \in Calls \ {c} : call'[d] = call[d]
      /\ call'[c].pc = "acked" /\ call'[c].order = o
  BY <1>1, <1>2 DEF Claim, CallState
<1>5. order' = [order EXCEPT ![o].status = call[c].target, ![o].ref = r]
  <2>1. ~ \E other \in Orders \ {o} : order[other].ref = r
    BY <1>2, ReferenceKnown
  <2>. QED BY <1>2, <2>1 DEF Claim
<1>6. order'[o].ref = r /\ \A x \in Orders \ {o} : order'[x] = order[x]
  <2>1. order' = [order EXCEPT ![o] = [order[o] EXCEPT !.status = call[c].target, !.ref = r]]
    BY <1>5, Zenon
  <2>. QED BY <1>1, <2>1 DEF OrderRow
<1>7. \A x \in Orders : order'[x].ref # None => <<x, order'[x].ref>> \in Notifiable
  BY <1>2, <1>6 DEF AckInv
<1>8. ASSUME NEW d \in Calls PROVE CallAcks(d)'
  <2>1. CASE d = c
    BY <1>3, <1>4, <1>6, <2>1 DEF CallAcks
  <2>2. CASE d # c
    BY <1>3, <1>4, <1>6, <2>2 DEF AckInv, CallAcks
  <2>. QED BY <2>1, <2>2
<1>. QED BY <1>7, <1>8 DEF AckInv

LEMMA AckStep ==
  ASSUME OwnReferences, IInv, AckInv, [Next]_vars
  PROVE  AckInv'
<1>1. CASE UNCHANGED vars
  BY <1>1 DEF vars, AckInv, CallAcks
<1>2. CASE Crash
  BY <1>2 DEF Crash, dbVars, AckInv, CallAcks, NewCall
<1>3. CASE Backend
  BY <1>3, UncalledStep, WebhookAcks, ClaimAcks DEF Backend, Webhook, Uncalled
<1>4. CASE Environment
  BY <1>2, <1>4, UncalledStep DEF Environment, Uncalled
<1>. QED BY <1>1, <1>3, <1>4 DEF Next

(* An acknowledged payment is never lost, whatever crashes, fails or is    *)
(* sent twice, provided the gateway's references name one order each.      *)
THEOREM AckedPaid == ASSUME OwnReferences PROVE Spec => []AckedIsPaid
<1>1. Init => AckInv
  BY DEF Init, AckInv, CallAcks, NewCall
<1>2. IInv /\ AckInv /\ [Next]_vars => AckInv'
  BY AckStep
<1>3. AckInv => AckedIsPaid
  BY DEF AckInv, CallAcks, AckedIsPaid
<1>. QED BY <1>1, <1>2, <1>3, Invariant, PTL DEF Spec
-----------------------------------------------------------------------------
(* No two handlers meet on an order.  Nothing locks it: what keeps them    *)
(* apart is who may emit payment.received for it, and when.  A webhook     *)
(* does so for an order that was not paid before, which nobody is at work  *)
(* on; a wallet connection for an order that waits; recovery for an order  *)
(* it works on itself, or that the crash has left alone.                   *)

(* The gateway notifies an order under one reference. *)
OneReference == \A p, q \in Notifiable : p[1] = q[1] => p[2] = q[2]

Quiet(o) == received[o] = 0 /\ \A a \in Actors : Mine(a) # o
Alone(o) ==
  /\ received[o] \in {0, 1}
  /\ received[o] = 1 => \A a \in Actors : Mine(a) # o
  /\ \A a, b \in Actors : Mine(a) = o /\ Mine(b) = o => a = b

Answering(c) == call[c].pc \in {"read", "wallet", "claim"}
AloneInv ==
  /\ \A a \in Actors : job[a].pc = "idle" => job[a].order = None
  /\ \A o \in Orders :
       /\ ResumedOnce(o) => Alone(o)
       /\ o \in todo => Quiet(o)
       /\ order[o].status = "WAITING_WALLET" /\ (\A k \in Conns : ~Resumed(k, o))
            => Quiet(o)
  /\ \A c \in Calls : Answering(c) => order[call[c].order].ref = None
  /\ \A c, d \in Calls :
       Answering(c) /\ Answering(d) /\ call[c].order = call[d].order => c = d

(* A handler that goes on, or ends. *)
JobStays(a) ==
  /\ \A b \in Actors \ {a} : job'[b] = job[b]
  /\ job'[a].order \in {job[a].order, None}
  /\ job'[a].pc = "idle" => job'[a].order = None

LEMMA StaysOrEnds ==
  ASSUME job \in [Actors -> Job], NEW a \in Actors, NEW p, NEW v, p # "idle",
         \/ job' = [job EXCEPT ![a].pc = p]
         \/ job' = [job EXCEPT ![a].pc = p, ![a].roster = v]
         \/ job' = [job EXCEPT ![a].pc = p, ![a].hash = v]
         \/ job' = [job EXCEPT ![a].pc = p, ![a].seq = v]
         \/ job' = [job EXCEPT ![a].pc = p, ![a].tries = v]
         \/ job' = [job EXCEPT ![a].pc = p, ![a].catch = v]
         \/ job' = [job EXCEPT ![a] = NoJob]
  PROVE  JobStays(a)
<1> DEFINE fine(j) == /\ j.order \in {job[a].order, None}
                      /\ j.pc = "idle" => j.order = None
<1>1. ASSUME NEW j, job' = [job EXCEPT ![a] = j], fine(j)
      PROVE  JobStays(a)
  BY <1>1 DEF JobStays
<1>2. job[a] \in Job
  OBVIOUS
<1>3. CASE job' = [job EXCEPT ![a].pc = p]
  <2>1. job' = [job EXCEPT ![a] = [job[a] EXCEPT !.pc = p]] /\ fine([job[a] EXCEPT !.pc = p])
    BY <1>2, <1>3 DEF Job
  <2>. QED BY <1>1, <2>1
<1>4. CASE job' = [job EXCEPT ![a].pc = p, ![a].roster = v]
  <2>1. job' = [job EXCEPT ![a] = [job[a] EXCEPT !.pc = p, !.roster = v]]
    BY <1>4, Zenon
  <2>2. fine([job[a] EXCEPT !.pc = p, !.roster = v])
    BY <1>2 DEF Job
  <2>. QED BY <1>1, <2>1, <2>2
<1>5. CASE job' = [job EXCEPT ![a].pc = p, ![a].hash = v]
  <2>1. job' = [job EXCEPT ![a] = [job[a] EXCEPT !.pc = p, !.hash = v]]
    BY <1>5, Zenon
  <2>2. fine([job[a] EXCEPT !.pc = p, !.hash = v])
    BY <1>2 DEF Job
  <2>. QED BY <1>1, <2>1, <2>2
<1>6. CASE job' = [job EXCEPT ![a].pc = p, ![a].seq = v]
  <2>1. job' = [job EXCEPT ![a] = [job[a] EXCEPT !.pc = p, !.seq = v]]
    BY <1>6, Zenon
  <2>2. fine([job[a] EXCEPT !.pc = p, !.seq = v])
    BY <1>2 DEF Job
  <2>. QED BY <1>1, <2>1, <2>2
<1>7. CASE job' = [job EXCEPT ![a].pc = p, ![a].tries = v]
  <2>1. job' = [job EXCEPT ![a] = [job[a] EXCEPT !.pc = p, !.tries = v]]
    BY <1>7, Zenon
  <2>2. fine([job[a] EXCEPT !.pc = p, !.tries = v])
    BY <1>2 DEF Job
  <2>. QED BY <1>1, <2>1, <2>2
<1>8. CASE job' = [job EXCEPT ![a].pc = p, ![a].catch = v]
  <2>1. job' = [job EXCEPT ![a] = [job[a] EXCEPT !.pc = p, !.catch = v]]
    BY <1>8, Zenon
  <2>2. fine([job[a] EXCEPT !.pc = p, !.catch = v])
    BY <1>2 DEF Job
  <2>. QED BY <1>1, <2>1, <2>2
<1>9. CASE job' = [job EXCEPT ![a] = NoJob]
  BY <1>1, <1>9 DEF NoJob
<1>. QED BY <1>3, <1>4, <1>5, <1>6, <1>7, <1>8, <1>9

(* The steps of an actor at work on an order, but for the one that puts    *)
(* the order back.                                                         *)
AtWork(a) ==
  \/ a \in Workers /\ (Prepare(a) \/ Invoke(a) \/ CatchUp(a) \/ FailWithHash(a))
  \/ Recording(a) \/ DbError(a)
  \/ a = Boot /\ (CheckUnhashed \/ Verify \/ Reverify \/ LookForRow \/ BootAdoptRow)

LEMMA DoneStays ==
  ASSUME IInv, NEW a \in Actors, Done(a)
  PROVE  JobStays(a)
  BY DEF IInv, TypeOK, Done, NoJob, JobStays

LEMMA RetryStays ==
  ASSUME IInv, NEW a \in Actors, Retry(a)
  PROVE  JobStays(a)
<1>1. job \in [Actors -> Job]
  BY DEF IInv, TypeOK
<1>. QED BY <1>1, StaysOrEnds DEF Retry, Goto

LEMMA CaughtStays ==
  ASSUME IInv, NEW a \in Actors, Caught(a)
  PROVE  JobStays(a)
<1>1. job \in [Actors -> Job] /\ job[a].catch # "idle"
  BY DEF IInv, TypeOK, Job
<1>. QED BY <1>1, StaysOrEnds, DoneStays DEF Caught, Goto

LEMMA AtWorkStays ==
  ASSUME IInv, NEW a \in Actors, AtWork(a)
  PROVE  JobStays(a)
<1>1. job \in [Actors -> Job]
  BY DEF IInv, TypeOK
<1> USE <1>1, StaysOrEnds, DoneStays DEF Goto
<1>2. CASE Prepare(a)
  BY <1>2 DEF Prepare, MarkPending, LoadCollaborators, CheckTrustlines, PreCheck, CheckFloat
<1>3. CASE Simulate(a)
  BY <1>3, RetryStays DEF Simulate
<1>4. CASE Send(a)
  BY <1>4, RetryStays DEF Send
<1>5. CASE Poll(a)
  BY <1>5, RetryStays DEF Poll, GiveUpPolling
<1>6. CASE CatchUp(a) \/ FailWithHash(a)
  <2>1. CASE Recover(a)
    <3>1. PICK p \in {"adopt", "record", "settlefirst"} : Goto(a, p)
      BY <2>1 DEF Recover
    <3>. QED BY <3>1
  <2>2. CASE AdoptRow(a) \/ FailWithHash(a)
    BY <2>2 DEF AdoptRow, FailWithHash
  <2>3. CASE SettleFirst(a)
    BY <2>3 DEF SettleFirst
  <2>. QED BY <1>6, <2>1, <2>2, <2>3 DEF CatchUp
<1>7. CASE Recording(a)
  <2>1. CASE Reread(a)
    BY <2>1 DEF Reread
  <2>2. CASE Record(a)
    <3>1. Goto(a, "mark") \/ Caught(a)
      BY <2>2 DEF Record
    <3>. QED BY <3>1, CaughtStays
  <2>3. CASE MarkSettled(a) \/ Fail(a)
    BY <2>3 DEF MarkSettled, Fail
  <2>. QED BY <1>7, <2>1, <2>2, <2>3 DEF Recording
<1>8. CASE DbError(a)
  BY <1>8, CaughtStays DEF DbError
<1>9. CASE a = Boot /\ (CheckUnhashed \/ Verify \/ Reverify \/ LookForRow \/ BootAdoptRow)
  <2>1. CASE CheckUnhashed
    BY <1>9, <2>1 DEF CheckUnhashed
  <2>2. CASE Verify
    BY <1>9, <2>2 DEF Verify
  <2>3. CASE Reverify
    BY <1>9, <2>3 DEF Reverify
  <2>4. CASE LookForRow
    <3>1. PICK p \in {"adoptrow", "reread"} : Goto(a, p)
      BY <1>9, <2>4 DEF LookForRow
    <3>. QED BY <3>1
  <2>5. CASE BootAdoptRow
    BY <1>9, <2>5 DEF BootAdoptRow
  <2>. QED BY <1>9, <2>1, <2>2, <2>3, <2>4, <2>5
<1>. QED BY <1>2, <1>3, <1>4, <1>5, <1>6, <1>7, <1>8, <1>9 DEF AtWork, Invoke

(* What the intake, recovery and the handlers leave behind.                *)
LEMMA AtWorkLeaves ==
  ASSUME IInv, NEW a \in Actors, AtWork(a)
  PROVE  /\ UNCHANGED <<call, conn, received, todo>>
         /\ \A x \in Orders : order'[x].status = "WAITING_WALLET"
                                => order[x].status = "WAITING_WALLET"
         /\ RefsKept
<1> USE DEF unhandled, intakeVars, busVars, dbVars
<1>1. order \in [Orders -> OrderRow]
  BY DEF IInv, TypeOK
<1>2. UNCHANGED <<call, conn, received, todo>>
  <2>1. CASE Prepare(a) \/ Invoke(a) \/ CatchUp(a) \/ FailWithHash(a)
    BY <2>1 DEF Prepare, MarkPending, LoadCollaborators, CheckTrustlines, PreCheck,
                CheckFloat, Invoke, Simulate, Send, Poll, CatchUp, Recover, AdoptRow,
                SettleFirst, FailWithHash
  <2>2. CASE Recording(a) \/ DbError(a)
    BY <2>2 DEF Recording, Reread, Record, MarkSettled, Fail, DbError
  <2>3. CASE CheckUnhashed \/ Verify \/ Reverify \/ LookForRow \/ BootAdoptRow
    BY <2>3 DEF CheckUnhashed, Verify, Reverify, LookForRow, BootAdoptRow
  <2>. QED BY <2>1, <2>2, <2>3 DEF AtWork
<1> DEFINE statuses == {"SETTLEMENT_PENDING", "SETTLED", "SETTLEMENT_FAILED"}
<1>3. \/ UNCHANGED order
      \/ \E s \in statuses : \E o, h :
           \/ order' = [order EXCEPT ![o].status = s]
           \/ order' = [order EXCEPT ![o].status = s, ![o].hash = h]
  <2> USE DEF SetStatus
  <2>1. CASE Prepare(a) \/ Invoke(a) \/ CatchUp(a) \/ FailWithHash(a)
    BY <2>1 DEF Prepare, MarkPending, LoadCollaborators, CheckTrustlines, PreCheck,
                CheckFloat, Invoke, Simulate, Send, Poll, CatchUp, Recover, AdoptRow,
                SettleFirst, FailWithHash
  <2>2. CASE Recording(a) \/ DbError(a)
    BY <2>2 DEF Recording, Reread, Record, MarkSettled, Fail, DbError
  <2>3. CASE CheckUnhashed \/ Verify \/ Reverify \/ LookForRow \/ BootAdoptRow
    BY <2>3 DEF CheckUnhashed, Verify, Reverify, LookForRow, BootAdoptRow
  <2>. QED BY <2>1, <2>2, <2>3 DEF AtWork
<1>4. RefsKept
  BY <1>1, <1>3, RefsKeptWrite DEF RefsKept
<1>5. ASSUME NEW x \in Orders, order'[x].status = "WAITING_WALLET"
      PROVE  order[x].status = "WAITING_WALLET"
  <2>1. CASE UNCHANGED order
    BY <1>5, <2>1
  <2>2. ASSUME NEW o, NEW s \in statuses, order' = [order EXCEPT ![o].status = s]
        PROVE  order[x].status = "WAITING_WALLET"
    BY <1>1, <1>5, <2>2 DEF OrderRow
  <2>3. ASSUME NEW o, NEW h, NEW s \in statuses,
               order' = [order EXCEPT ![o].status = s, ![o].hash = h]
        PROVE  order[x].status = "WAITING_WALLET"
    <3>1. order' = [order EXCEPT ![o] = [order[o] EXCEPT !.status = s, !.hash = h]]
      BY <2>3, Zenon
    <3>. QED BY <1>1, <1>5, <3>1 DEF OrderRow
  <2>. QED BY <1>3, <2>1, <2>2, <2>3
<1>. QED BY <1>2, <1>4, <1>5

LEMMA QuietStays ==
  ASSUME NEW a \in Actors, JobStays(a), NEW o \in Orders, received'[o] = received[o]
  PROVE  /\ Quiet(o) => Quiet(o)'
         /\ Alone(o) => Alone(o)'
  BY NoneIsNothing DEF JobStays, Quiet, Alone, Mine

(* Webhook requests go on, and orders keep their references. *)
LEMMA CallsStay ==
  ASSUME AloneInv, UNCHANGED call, RefsKept, \A c \in Calls : CallSound(c)
  PROVE  /\ \A c \in Calls : Answering(c)' => order'[call'[c].order].ref = None
         /\ \A c, d \in Calls :
              Answering(c)' /\ Answering(d)' /\ call'[c].order = call'[d].order => c = d
  BY DEF AloneInv, RefsKept, Answering, CallSound

LEMMA AtWorkAlone ==
  ASSUME IInv, AloneInv, NEW a \in Actors, AtWork(a)
  PROVE  AloneInv'
<1>1. JobStays(a)
  BY AtWorkStays
<1>2. /\ UNCHANGED <<call, conn, received, todo>> /\ RefsKept
      /\ \A x \in Orders : order'[x].status = "WAITING_WALLET"
                                => order[x].status = "WAITING_WALLET"
  BY AtWorkLeaves
<1>3. \A b \in Actors : job'[b].pc = "idle" => job'[b].order = None
  BY <1>1 DEF JobStays, AloneInv
<1>4. \A k \in Conns, x \in Orders : Resumed(k, x)' <=> Resumed(k, x)
  BY <1>2 DEF Resumed
<1>5. ASSUME NEW x \in Orders
      PROVE  /\ ResumedOnce(x)' => Alone(x)'
             /\ x \in todo' => Quiet(x)'
             /\ order'[x].status = "WAITING_WALLET" /\ (\A k \in Conns : ~Resumed(k, x)')
                  => Quiet(x)'
  <2>1. (Quiet(x) => Quiet(x)') /\ (Alone(x) => Alone(x)')
    BY <1>1, <1>2, QuietStays
  <2>2. ResumedOnce(x)' => ResumedOnce(x)
    BY <1>4 DEF ResumedOnce
  <2>. QED BY <1>2, <1>4, <2>1, <2>2 DEF AloneInv
<1>6. \A c \in Calls : CallSound(c)
  BY DEF IInv
<1>. QED BY <1>2, <1>3, <1>5, <1>6, CallsStay DEF AloneInv

(* The parts of AloneInv about one order, and about requests. *)
OrderAlone(o) ==
  /\ ResumedOnce(o) => Alone(o)
  /\ o \in todo => Quiet(o)
  /\ order[o].status = "WAITING_WALLET" /\ (\A k \in Conns : ~Resumed(k, o)) => Quiet(o)
WaitsKept ==
  \A o \in Orders : order'[o].status = "WAITING_WALLET" => order[o].status = "WAITING_WALLET"

(* An order that no payment has been claimed for is nobody's business.     *)
LEMMA UnpaidIsQuiet ==
  ASSUME IInv, AloneInv, NEW o \in Orders, order[o].ref = None
  PROVE  Quiet(o)
<1>1. received[o] \in Nat /\ OrderSound(o) /\ None \notin Orders
  BY NoneIsNothing DEF IInv, TypeOK
<1>2. received[o] = 0
  BY <1>1 DEF OrderSound, Paid
<1>3. ASSUME NEW a \in Actors, Mine(a) = o PROVE FALSE
  <2>1. JobSound(job[a]) /\ (job[a].pc = "idle" => job[a].order = None)
    BY DEF IInv, AloneInv
  <2>. QED BY <1>1, <1>3, <2>1 DEF JobSound, Paid, Mine
<1>. QED BY <1>2, <1>3 DEF Quiet

LEMMA QuietIsAlone ==
  ASSUME NEW o, Quiet(o)
  PROVE  Alone(o)
  BY DEF Quiet, Alone

(* A step that is about no handler, event or request. *)
LEMMA ElsewhereAlone ==
  ASSUME IInv, AloneInv, UNCHANGED <<call, received, todo, job>>, RefsKept, WaitsKept,
         \A k \in Conns, o \in Orders : Resumed(k, o)' <=> Resumed(k, o)
  PROVE  AloneInv'
<1>1. \A o \in Orders : (Quiet(o)' <=> Quiet(o)) /\ (Alone(o)' <=> Alone(o))
  BY DEF Quiet, Alone, Mine
<1>2. \A o \in Orders : ResumedOnce(o)' => ResumedOnce(o)
  BY DEF ResumedOnce
<1>3. \A o \in Orders : OrderAlone(o)'
  BY <1>1, <1>2 DEF AloneInv, OrderAlone, WaitsKept
<1>4. \A c \in Calls : CallSound(c)
  BY DEF IInv
<1>. QED BY <1>3, <1>4, CallsStay DEF AloneInv, OrderAlone

LEMMA EnvironmentAlone ==
  ASSUME IInv, AloneInv,
         \/ \E o \in Orders : Checkout(o) \/ DeliverProduct(o)
         \/ \E p \in Products : EditCollaborators(p) \/ SetProductStatus(p)
         \/ \E h \in Hash : Include(h) \/ DropTx(h)
         \/ OtherPlatformTx
  PROVE  AloneInv'
<1>1. UNCHANGED <<call, conn, received, todo, job>>
  BY DEF Checkout, DeliverProduct, EditCollaborators, SetProductStatus, Include, DropTx,
         OtherPlatformTx, unledgered, intakeVars, busVars, otherVars
<1>2. RefsKept /\ WaitsKept
  <2>1. order \in [Orders -> OrderRow]
    BY DEF IInv, TypeOK
  <2>2. ASSUME NEW o \in Orders, Checkout(o) PROVE RefsKept /\ WaitsKept
    <3>1. order' = [order EXCEPT ![o].status = "PAYMENT_PENDING"]
      BY <2>2 DEF Checkout
    <3>. QED BY <2>1, <3>1 DEF RefsKept, WaitsKept, OrderRow
  <2>3. CASE UNCHANGED order
    BY <2>3 DEF RefsKept, WaitsKept
  <2>. QED BY <2>2, <2>3
       DEF DeliverProduct, EditCollaborators, SetProductStatus, Include, DropTx,
           OtherPlatformTx, unledgered, dbVars
<1>3. \A k \in Conns, o \in Orders : Resumed(k, o)' <=> Resumed(k, o)
  BY <1>1 DEF Resumed
<1>. QED BY <1>1, <1>2, <1>3, ElsewhereAlone

LEMMA ConnectAlone ==
  ASSUME IInv, AloneInv, NEW k \in Conns, CheckAddress(k) \/ CreateWallet(k)
  PROVE  AloneInv'
<1>1. conn \in [Conns -> ConnState] /\ conn[k].pc \in {"new", "create"}
  BY DEF IInv, TypeOK, CheckAddress, CreateWallet
<1>2. UNCHANGED <<call, received, todo, job, order>>
  BY DEF CheckAddress, CreateWallet, otherVars
<1>3. (\A l \in Conns \ {k} : conn'[l] = conn[l]) /\ conn'[k].pc # "done"
  BY <1>1 DEF CheckAddress, CreateWallet, ConnState
<1>4. \A l \in Conns, o \in Orders : Resumed(l, o)' <=> Resumed(l, o)
  BY <1>1, <1>3 DEF Resumed
<1>. QED BY <1>2, <1>4, ElsewhereAlone DEF RefsKept, WaitsKept

(* The first connection of a creator meets nobody at work on the orders    *)
(* that wait.                                                              *)
LEMMA ResumeAlone ==
  ASSUME IInv, AloneInv, NEW k \in Conns, ResumeWaiting(k)
  PROVE  AloneInv'
<1>1. /\ conn \in [Conns -> ConnState] /\ received \in [Orders -> Nat]
      /\ conn[k].pc = "resume" /\ todo = {}
  BY DEF IInv, TypeOK, ResumeWaiting, Booting
<1>2. UNCHANGED <<call, order, job, todo>>
  BY DEF ResumeWaiting, otherVars
<1>3. CASE conn' = [conn EXCEPT ![k].pc = "lost"] /\ UNCHANGED received
  <2>1. \A l \in Conns, o \in Orders : Resumed(l, o)' <=> Resumed(l, o)
    BY <1>1, <1>3 DEF Resumed, ConnState
  <2>. QED BY <1>2, <1>3, <2>1, ElsewhereAlone DEF RefsKept, WaitsKept
<1>4. CASE /\ received' = [o \in Orders |-> IF o \in WaitingFor(conn[k].creator)
                                            THEN received[o] + 1 ELSE received[o]]
           /\ conn' = [conn EXCEPT ![k].pc = "done"]
  <2>1. /\ conn'[k].pc = "done" /\ conn'[k].creator = conn[k].creator
        /\ \A l \in Conns \ {k} : conn'[l] = conn[l]
    BY <1>1, <1>4 DEF ConnState
  <2>2. \A l \in Conns, o \in Orders : Resumed(l, o) => Resumed(l, o)' /\ l # k
    BY <1>1, <2>1 DEF Resumed
  <2>3. ASSUME NEW o \in Orders PROVE OrderAlone(o)'
    <3>1. CASE o \in WaitingFor(conn[k].creator)
      <4>1. Resumed(k, o)' /\ order[o].status = "WAITING_WALLET"
        BY <2>1, <3>1 DEF Resumed, WaitingFor, OfCreator
      <4>2. ASSUME ResumedOnce(o)' PROVE Alone(o)'
        <5>1. \A l \in Conns : ~Resumed(l, o)
          BY <2>2, <4>1, <4>2 DEF ResumedOnce
        <5>2. Quiet(o)
          BY <4>1, <5>1 DEF AloneInv
        <5>3. received'[o] = 1 /\ \A a \in Actors : Mine(a)' # o
          BY <1>1, <1>2, <1>4, <3>1, <5>2 DEF Quiet, Mine
        <5>. QED BY <5>3 DEF Alone
      <4>. QED BY <1>1, <1>2, <4>1, <4>2 DEF OrderAlone
    <3>2. CASE o \notin WaitingFor(conn[k].creator)
      <4>1. received'[o] = received[o]
        BY <1>4, <3>2
      <4>2. (Quiet(o) => Quiet(o)') /\ (Alone(o) => Alone(o)')
        BY <1>2, <4>1 DEF Quiet, Alone, Mine
      <4>3. ResumedOnce(o)' => ResumedOnce(o)
        BY <2>2 DEF ResumedOnce
      <4>4. (\A l \in Conns : ~Resumed(l, o)') => \A l \in Conns : ~Resumed(l, o)
        BY <2>2
      <4>. QED BY <1>1, <1>2, <4>2, <4>3, <4>4 DEF OrderAlone, AloneInv
    <3>. QED BY <3>1, <3>2
  <2>4. \A c \in Calls : CallSound(c)
    BY DEF IInv
  <2>. QED BY <1>2, <2>3, <2>4, CallsStay DEF AloneInv, OrderAlone, RefsKept
<1>. QED BY <1>3, <1>4 DEF ResumeWaiting

LEMMA TakeEventAlone ==
  ASSUME IInv, AloneInv, NEW w \in Workers, TakeEvent(w)
  PROVE  AloneInv'
<1>1. /\ w \in Actors /\ received \in [Orders -> Nat] /\ job \in [Actors -> Job]
  BY DEF Actors, IInv, TypeOK
<1>2. UNCHANGED <<call, conn, todo, order>>
  BY DEF TakeEvent, unhandled, intakeVars, dbVars
<1>3. PICK o \in Orders :
        /\ received[o] > 0
        /\ received' = [received EXCEPT ![o] = @ - 1]
        /\ \/ UNCHANGED job
           \/ \E p \in {"claim", "fail"} :
                job' = [job EXCEPT ![w] = [NoJob EXCEPT !.pc = p, !.order = o,
                                             !.hash = order[o].hash]]
  BY DEF TakeEvent, Consume
<1>4. /\ \A b \in Actors \ {w} : job'[b] = job[b]
      /\ job'[w] = job[w] \/ (job'[w].order = o /\ job'[w].pc # "idle")
  BY <1>1, <1>3 DEF NoJob
<1>5. /\ received'[o] = received[o] - 1
      /\ \A x \in Orders \ {o} : received'[x] = received[x]
  BY <1>1, <1>3
<1>6. \A k \in Conns, x \in Orders : Resumed(k, x)' <=> Resumed(k, x)
  BY <1>2 DEF Resumed
<1>7. ASSUME NEW x \in Orders PROVE OrderAlone(x)'
  <2>1. ResumedOnce(x)' => ResumedOnce(x)
    BY <1>6 DEF ResumedOnce
  <2>2. CASE x = o
    <3>1. ~Quiet(x)
      BY <1>3, <2>2 DEF Quiet
    <3>2. ASSUME Alone(x) PROVE Alone(x)'
      <4>1. received[x] = 1 /\ received'[x] = 0
        BY <1>3, <1>5, <2>2, <3>2 DEF Alone
      <4>2. \A a \in Actors : Mine(a) # x
        BY <3>2, <4>1 DEF Alone
      <4>. QED BY <1>4, <4>1, <4>2 DEF Alone, Mine
    <3>. QED BY <1>2, <1>6, <2>1, <3>1, <3>2 DEF OrderAlone, AloneInv
  <2>3. CASE x # o
    <3>1. (Quiet(x) => Quiet(x)') /\ (Alone(x) => Alone(x)')
      BY <1>4, <1>5, <2>3 DEF Quiet, Alone, Mine
    <3>. QED BY <1>2, <1>6, <2>1, <3>1 DEF OrderAlone, AloneInv
  <2>. QED BY <2>2, <2>3
<1>8. \A b \in Actors : job'[b].pc = "idle" => job'[b].order = None
  BY <1>4 DEF AloneInv
<1>9. \A c \in Calls : CallSound(c)
  BY DEF IInv
<1>. QED BY <1>2, <1>7, <1>8, <1>9, CallsStay DEF AloneInv, OrderAlone, RefsKept

(* Recovery takes up an order nobody is at work on. *)
LEMMA TakeStuckAlone ==
  ASSUME IInv, AloneInv, TakeStuck
  PROVE  AloneInv'
<1>1. /\ Boot \in Actors /\ received \in [Orders -> Nat] /\ job \in [Actors -> Job]
      /\ todo \subseteq Orders
  BY DEF Actors, IInv, TypeOK
<1>2. UNCHANGED <<call, conn, order>>
  BY DEF TakeStuck, intakeVars, dbVars
<1>3. PICK o \in todo :
        /\ todo' = todo \ {o}
        /\ order[o].status \in {"PAYMENT_RECEIVED", "SETTLEMENT_PENDING"}
        /\ \/ UNCHANGED job /\ UNCHANGED received
           \/ UNCHANGED job /\ received' = [received EXCEPT ![o] = @ + 1]
           \/ /\ UNCHANGED received
              /\ \E p \in {"bootcheck", "verify"} :
                   job' = [job EXCEPT ![Boot] = [NoJob EXCEPT !.pc = p, !.order = o,
                                                   !.hash = order[o].hash]]
  BY DEF TakeStuck, Emit, BootJob
<1>4. /\ \A b \in Actors \ {Boot} : job'[b] = job[b]
      /\ job'[Boot] = job[Boot] \/ (job'[Boot].order = o /\ job'[Boot].pc # "idle")
  BY <1>1, <1>3 DEF NoJob
<1>5. o \in Orders /\ Quiet(o)
  BY <1>1, <1>3 DEF AloneInv
<1>6. \A k \in Conns, x \in Orders : Resumed(k, x)' <=> Resumed(k, x)
  BY <1>2 DEF Resumed
<1>7. ASSUME NEW x \in Orders PROVE OrderAlone(x)'
  <2>1. ResumedOnce(x)' => ResumedOnce(x)
    BY <1>6 DEF ResumedOnce
  <2>2. CASE x = o
    <3>1. Alone(x)'
      <4>1. CASE UNCHANGED job
        BY <1>1, <1>3, <1>5, <2>2, <4>1 DEF Alone, Quiet, Mine
      <4>2. CASE UNCHANGED received
        BY <1>4, <1>5, <2>2, <4>2 DEF Alone, Quiet, Mine
      <4>. QED BY <1>3, <4>1, <4>2
    <3>. QED BY <1>2, <1>3, <2>2, <3>1 DEF OrderAlone
  <2>3. CASE x # o
    <3>1. received'[x] = received[x]
      BY <1>1, <1>3, <2>3
    <3>2. (Quiet(x) => Quiet(x)') /\ (Alone(x) => Alone(x)')
      BY <1>4, <2>3, <3>1 DEF Quiet, Alone, Mine
    <3>. QED BY <1>2, <1>3, <1>6, <2>1, <3>2 DEF OrderAlone, AloneInv
  <2>. QED BY <2>2, <2>3
<1>8. \A b \in Actors : job'[b].pc = "idle" => job'[b].order = None
  BY <1>4 DEF AloneInv
<1>9. \A c \in Calls : CallSound(c)
  BY DEF IInv
<1>. QED BY <1>2, <1>7, <1>8, <1>9, CallsStay DEF AloneInv, OrderAlone, RefsKept

(* Recovery hands the order it works on to a handler. *)
LEMMA RequeueAlone ==
  ASSUME IInv, AloneInv, Requeue
  PROVE  AloneInv'
<1>1. /\ Boot \in Actors /\ received \in [Orders -> Nat] /\ job \in [Actors -> Job]
      /\ order \in [Orders -> OrderRow] /\ JobSound(job[Boot]) /\ job[Boot].pc = "requeue"
  BY DEF Actors, IInv, TypeOK, Requeue, At
<1>2. UNCHANGED <<call, conn, todo>>
  BY DEF Requeue, unhandled, intakeVars
<1>3. PICK o \in Orders : o = Mine(Boot)
  BY <1>1 DEF JobSound, Paid, Mine
<1>4. /\ order' = [order EXCEPT ![o].status = "PAYMENT_RECEIVED", ![o].hash = None]
      /\ received' = [received EXCEPT ![o] = @ + 1]
      /\ job' = [job EXCEPT ![Boot] = NoJob]
  BY <1>3 DEF Requeue, Emit, Done
<1>5. RefsKept /\ WaitsKept /\ order'[o].status = "PAYMENT_RECEIVED"
  <2>1. order' = [order EXCEPT ![o] = [order[o] EXCEPT !.status = "PAYMENT_RECEIVED",
                                                       !.hash = None]]
    BY <1>4, Zenon
  <2>. QED BY <1>1, <2>1 DEF RefsKept, WaitsKept, OrderRow
<1>6. /\ \A b \in Actors \ {Boot} : job'[b] = job[b]
      /\ job'[Boot].order = None /\ None \notin Orders
  BY <1>1, <1>4, NoneIsNothing DEF NoJob
<1>7. \A k \in Conns, x \in Orders : Resumed(k, x)' <=> Resumed(k, x)
  BY <1>2 DEF Resumed
<1>8. ASSUME NEW x \in Orders PROVE OrderAlone(x)'
  <2>1. ResumedOnce(x)' => ResumedOnce(x)
    BY <1>7 DEF ResumedOnce
  <2>2. CASE x = o
    <3>1. ~Quiet(x)
      BY <1>1, <1>3, <2>2 DEF Quiet
    <3>2. ASSUME Alone(x) PROVE Alone(x)'
      <4>1. received[x] = 0 /\ \A b \in Actors : Mine(b) = x => b = Boot
        BY <1>1, <1>3, <2>2, <3>2 DEF Alone
      <4>2. received'[x] = 1
        BY <1>1, <1>4, <2>2, <4>1
      <4>3. \A b \in Actors : Mine(b)' # x
        BY <1>6, <4>1 DEF Mine
      <4>. QED BY <4>2, <4>3 DEF Alone
    <3>. QED BY <1>2, <1>5, <2>1, <2>2, <3>1, <3>2 DEF OrderAlone, AloneInv
  <2>3. CASE x # o
    <3>1. received'[x] = received[x]
      BY <1>1, <1>4, <2>3
    <3>2. (Quiet(x) => Quiet(x)') /\ (Alone(x) => Alone(x)')
      BY <1>6, <3>1 DEF Quiet, Alone, Mine
    <3>. QED BY <1>2, <1>5, <1>7, <2>1, <3>2 DEF OrderAlone, AloneInv, WaitsKept
  <2>. QED BY <2>2, <2>3
<1>9. \A b \in Actors : job'[b].pc = "idle" => job'[b].order = None
  BY <1>6 DEF AloneInv
<1>10. \A c \in Calls : CallSound(c)
  BY DEF IInv
<1>. QED BY <1>2, <1>5, <1>8, <1>9, <1>10, CallsStay DEF AloneInv, OrderAlone

(* A crash leaves nobody at work. *)
LEMMA CrashAlone ==
  ASSUME IInv, AloneInv, Crash
  PROVE  AloneInv'
<1>1. /\ received' = [o \in Orders |-> 0] /\ job' = [a \in Actors |-> NoJob]
      /\ UNCHANGED order
  BY DEF Crash, dbVars
<1>2. \A o \in Orders : Quiet(o)' /\ Alone(o)'
  BY <1>1, NoneIsNothing DEF Quiet, Alone, Mine, NoJob
<1>3. \A c \in Calls : ~Answering(c)'
  BY DEF Crash, Answering, NewCall
<1>. QED BY <1>1, <1>2, <1>3 DEF AloneInv, NoJob

(* A request that goes on, or that begins when the gateway awaits no       *)
(* other answer about its order.                                           *)
LEMMA CallAlone ==
  ASSUME IInv, AloneInv, NEW c \in Calls, NEW s,
         call' = [call EXCEPT ![c] = s],
         UNCHANGED <<conn, order, received, todo, job>>,
         s.pc \in {"read", "wallet", "claim"} =>
           \/ Answering(c) /\ s.order = call[c].order
           \/ order[s.order].ref = None /\ ~Outstanding(s.order)
  PROVE  AloneInv'
<1>1. call \in [Calls -> CallState]
  BY DEF IInv, TypeOK
<1>2. \A o \in Orders : (Quiet(o)' <=> Quiet(o)) /\ (Alone(o)' <=> Alone(o))
  BY DEF Quiet, Alone, Mine
<1>3. \A o \in Orders : OrderAlone(o)'
  BY <1>2 DEF AloneInv, OrderAlone, ResumedOnce, Resumed
<1>4. call'[c] = s /\ \A d \in Calls \ {c} : call'[d] = call[d]
  BY <1>1
<1>5. \A d \in Calls : Answering(d)' => order'[call'[d].order].ref = None
  BY <1>4 DEF AloneInv, Answering
<1>6. ASSUME NEW d \in Calls \ {c}, Answering(c)', Answering(d)'
      PROVE  call'[c].order # call'[d].order
  <2>1. Answering(d) /\ call[d].order = call'[d].order
    BY <1>4, <1>6 DEF Answering
  <2>2. s.pc \in {"read", "wallet", "claim"} /\ call'[c].order = s.order
    BY <1>4, <1>6 DEF Answering
  <2>3. CASE Answering(c) /\ s.order = call[c].order
    BY <2>1, <2>2, <2>3 DEF AloneInv
  <2>4. CASE ~Outstanding(s.order)
    BY <2>1, <2>2, <2>4 DEF Outstanding, Answering
  <2>. QED BY <2>2, <2>3, <2>4
<1>7. \A d, e \in Calls :
        Answering(d)' /\ Answering(e)' /\ call'[d].order = call'[e].order => d = e
  <2>1. \A d \in Calls \ {c} : Answering(d)' => Answering(d) /\ call'[d] = call[d]
    BY <1>4 DEF Answering
  <2>. QED BY <1>6, <2>1 DEF AloneInv
<1>. QED BY <1>3, <1>5, <1>7 DEF AloneInv, OrderAlone

LEMMA WebhookAlone ==
  ASSUME SerialWebhooks, OneReference, IInv, AckInv, AloneInv, NEW c \in Calls,
         CheckRef(c) \/ ReadOrder(c) \/ ReadWallet(c) \/ AnswerError(c)
  PROVE  AloneInv'
<1>1. call \in [Calls -> CallState] /\ UNCHANGED <<conn, order, received, todo, job>>
  BY DEF IInv, TypeOK, CheckRef, ReadOrder, ReadWallet, AnswerError, otherVars
<1> DEFINE goesOn(s) ==
      s.pc \in {"read", "wallet", "claim"} =>
        \/ Answering(c) /\ s.order = call[c].order
        \/ order[s.order].ref = None /\ ~Outstanding(s.order)
<1>2. ASSUME NEW s, call' = [call EXCEPT ![c] = s], goesOn(s)
      PROVE  AloneInv'
  BY <1>1, <1>2, CallAlone
<1>3. CASE CheckRef(c)
  <2>1. PICK p \in Notifiable :
          /\ ~Outstanding(p[1])
          /\ call' = [call EXCEPT ![c] =
                     [NewCall EXCEPT !.order = p[1], !.ref = p[2],
                        !.pc = IF RefClaimed(p[2]) THEN "acked" ELSE "read"]]
    BY <1>3 DEF CheckRef
  <2>2. p[1] \in Orders /\ p[2] \in Refs
    BY NotifiableType
  <2>3. order[p[1]].ref # None => RefClaimed(p[2])
    <3>1. SUFFICES ASSUME order[p[1]].ref # None PROVE order[p[1]].ref = p[2]
      BY <2>2 DEF RefClaimed
    <3>2. PICK r : r = order[p[1]].ref /\ <<p[1], r>> \in Notifiable
      BY <2>2, <3>1 DEF AckInv
    <3>3. <<p[1], r>>[1] = p[1] /\ <<p[1], r>>[2] = r
      OBVIOUS
    <3>. QED BY <3>2, <3>3 DEF OneReference
  <2>4. PICK s : s = [NewCall EXCEPT !.order = p[1], !.ref = p[2],
                        !.pc = IF RefClaimed(p[2]) THEN "acked" ELSE "read"]
    OBVIOUS
  <2>5. s.order = p[1] /\ s.pc = IF RefClaimed(p[2]) THEN "acked" ELSE "read"
    BY <2>4 DEF NewCall
  <2>6. goesOn(s)
    BY <2>1, <2>3, <2>5
  <2>7. call' = [call EXCEPT ![c] = s]
    BY <2>1, <2>4
  <2>. QED BY <1>2, <2>6, <2>7
<1>4. CASE ReadOrder(c)
  <2>1. PICK s : s = [call[c] EXCEPT !.pc = "wallet", !.seen = order[call[c].order].status]
    OBVIOUS
  <2>2. call' = [call EXCEPT ![c] = s]
    BY <1>4, <2>1, Zenon DEF ReadOrder
  <2>3. call[c] \in CallState /\ s.order = call[c].order
    BY <1>1, <2>1 DEF CallState
  <2>4. goesOn(s)
    BY <1>4, <2>3 DEF ReadOrder, Answering
  <2>. QED BY <1>2, <2>2, <2>4
<1>5. CASE ReadWallet(c)
  <2>1. PICK p, t : call' = [call EXCEPT ![c].pc = p, ![c].target = t]
    BY <1>5 DEF ReadWallet
  <2>2. PICK s : s = [call[c] EXCEPT !.pc = p, !.target = t]
    OBVIOUS
  <2>3. call' = [call EXCEPT ![c] = s]
    BY <2>1, <2>2, Zenon
  <2>4. call[c] \in CallState /\ s.order = call[c].order
    BY <1>1, <2>2 DEF CallState
  <2>5. goesOn(s)
    BY <1>5, <2>4 DEF ReadWallet, Answering
  <2>. QED BY <1>2, <2>3, <2>5
<1>6. CASE AnswerError(c)
  <2>1. goesOn(NewCall)
    BY DEF NewCall
  <2>. QED BY <1>2, <1>6, <2>1 DEF AnswerError
<1>. QED BY <1>3, <1>4, <1>5, <1>6

LEMMA ClaimAlone ==
  ASSUME IInv, AloneInv, NEW c \in Calls, Claim(c)
  PROVE  AloneInv'
<1>1. /\ call \in [Calls -> CallState] /\ order \in [Orders -> OrderRow]
      /\ received \in [Orders -> Nat]
      /\ todo = {} /\ Answering(c) /\ \A d \in Calls : CallSound(d)
  BY DEF IInv, TypeOK, Claim, Booting, Answering
<1>2. PICK o \in Orders, r \in Refs : o = call[c].order /\ r = call[c].ref
  BY <1>1 DEF CallSound, Answering
<1>3. UNCHANGED <<conn, todo, job>>
  BY DEF Claim, otherVars
<1>4. (\A d \in Calls \ {c} : call'[d] = call[d]) /\ call'[c].pc = "acked"
  BY <1>1 DEF Claim, CallState
<1>5. order[o].ref = None /\ Quiet(o)
  BY <1>1, <1>2, UnpaidIsQuiet DEF AloneInv
<1>6. \A d \in Calls : Answering(d)' => Answering(d) /\ call'[d] = call[d] /\ d # c
  BY <1>4 DEF Answering
<1>7. \A d \in Calls : Answering(d)' => call'[d].order \in Orders \ {o}
  BY <1>1, <1>2, <1>6 DEF AloneInv, CallSound, Answering
<1>8. /\ \A x \in Orders \ {o} : order'[x] = order[x] /\ received'[x] = received[x]
      /\ \/ received'[o] = 0
         \/ received'[o] = 1 /\ order'[o].status # "WAITING_WALLET"
  <2>1. CASE UNCHANGED <<order, received>>
    BY <1>5, <2>1 DEF Quiet
  <2>2. CASE /\ order' = [order EXCEPT ![o].status = call[c].target, ![o].ref = r]
             /\ received' = IF call[c].target = "PAYMENT_RECEIVED"
                            THEN Emit(received, o) ELSE received
    <3>1. order' = [order EXCEPT ![o] = [order[o] EXCEPT !.status = call[c].target, !.ref = r]]
      BY <2>2, Zenon
    <3>2. /\ \A x \in Orders \ {o} : order'[x] = order[x]
          /\ order'[o].status = call[c].target
      BY <1>1, <3>1 DEF OrderRow
    <3>. QED BY <1>1, <1>5, <2>2, <3>2 DEF Quiet, Emit
  <2>. QED BY <1>2, <2>1, <2>2 DEF Claim
<1>9. ASSUME NEW x \in Orders PROVE OrderAlone(x)'
  <2>1. ResumedOnce(x)' = ResumedOnce(x) /\ \A k \in Conns : Resumed(k, x)' = Resumed(k, x)
    BY <1>3 DEF ResumedOnce, Resumed
  <2>2. CASE x = o
    <3>1. \A a \in Actors : Mine(a)' # x
      BY <1>3, <1>5, <2>2 DEF Quiet, Mine
    <3>2. received'[x] \in {0, 1}
      BY <1>8, <2>2
    <3>3. Alone(x)'
      BY <3>1, <3>2 DEF Alone
    <3>. QED BY <1>1, <1>3, <1>8, <2>2, <3>1, <3>3 DEF OrderAlone, Quiet
  <2>3. CASE x # o
    <3>1. (Quiet(x) => Quiet(x)') /\ (Alone(x) => Alone(x)')
      BY <1>3, <1>8, <2>3 DEF Quiet, Alone, Mine
    <3>. QED BY <1>1, <1>3, <1>8, <2>1, <2>3, <3>1 DEF OrderAlone, AloneInv
  <2>. QED BY <2>2, <2>3
<1>10. \A d \in Calls : Answering(d)' => order'[call'[d].order].ref = None
  <2>1. ASSUME NEW d \in Calls, Answering(d)' PROVE order'[call'[d].order].ref = None
    <3>1. call'[d].order \in Orders \ {o} /\ Answering(d) /\ call'[d].order = call[d].order
      BY <1>6, <1>7, <2>1
    <3>. QED BY <1>8, <3>1 DEF AloneInv
  <2>. QED BY <2>1
<1>11. \A d, e \in Calls :
         Answering(d)' /\ Answering(e)' /\ call'[d].order = call'[e].order => d = e
  BY <1>6 DEF AloneInv
<1>. QED BY <1>3, <1>9, <1>10, <1>11 DEF AloneInv, OrderAlone

LEMMA AloneStep ==
  ASSUME SerialWebhooks, OneReference, IInv, AckInv, AloneInv, [Next]_vars
  PROVE  AloneInv'
<1>1. CASE UNCHANGED vars
  BY <1>1, ElsewhereAlone DEF vars, RefsKept, WaitsKept, Resumed
<1>2. ASSUME NEW c \in Calls, Webhook(c) PROVE AloneInv'
  BY <1>2, WebhookAlone, ClaimAlone DEF Webhook
<1>3. ASSUME NEW k \in Conns, ConnectWallet(k) PROVE AloneInv'
  BY <1>3, ConnectAlone, ResumeAlone DEF ConnectWallet
<1>4. ASSUME NEW w \in Workers, Handle(w) PROVE AloneInv'
  <2>1. w \in Actors
    BY DEF Actors
  <2>. QED BY <1>4, <2>1, TakeEventAlone, AtWorkAlone DEF Handle, AtWork
<1>5. CASE Recovery
  <2>1. Boot \in Actors
    BY DEF Actors
  <2>. QED BY <1>5, <2>1, TakeStuckAlone, RequeueAlone, AtWorkAlone DEF Recovery, AtWork
<1>6. ASSUME NEW a \in Actors, DbError(a) PROVE AloneInv'
  BY <1>6, AtWorkAlone DEF AtWork
<1>7. CASE Backend
  BY <1>2, <1>3, <1>4, <1>5, <1>6, <1>7, EnvironmentAlone DEF Backend
<1>8. CASE Environment
  BY <1>8, EnvironmentAlone, CrashAlone DEF Environment
<1>. QED BY <1>1, <1>7, <1>8 DEF Next

LEMMA AloneInit == Init => AckInv /\ AloneInv
<1>1. ASSUME Init PROVE AloneInv
  <2>1. \A o \in Orders : Quiet(o)
    BY <1>1, NoneIsNothing DEF Init, Quiet, Mine, NoJob
  <2>2. \A c \in Calls : ~Answering(c)
    BY <1>1 DEF Init, Answering, NewCall
  <2>3. \A a \in Actors : job[a].order = None
    BY <1>1 DEF Init, NoJob
  <2>. QED BY <2>1, <2>2, <2>3, QuietIsAlone DEF AloneInv
<1>. QED BY <1>1 DEF Init, AckInv, CallAcks, NewCall

(* At most one event or handler is under way for an order whose creator    *)
(* has not connected a second wallet, provided the gateway notifies an     *)
(* order under one reference of its own, and awaits each answer before it  *)
(* asks again.                                                             *)
THEOREM OneHandler ==
  ASSUME SerialWebhooks, OwnReferences, OneReference
  PROVE  Spec => []OneHandlerPerOrder
<1>1. Init => AckInv /\ AloneInv
  BY AloneInit
<1>2. IInv /\ AckInv /\ AloneInv /\ [Next]_vars => AckInv' /\ AloneInv'
  BY AckStep, AloneStep
<1>3. AloneInv => OneHandlerPerOrder
  <2>1. ASSUME AloneInv, NEW o \in Orders, ResumedOnce(o)
        PROVE  received[o] + Cardinality(Underway(o)) <= 1
    <3>1. Alone(o)
      BY <2>1 DEF AloneInv
    <3>2. CASE \A a \in Actors : Mine(a) # o
      <4>1. Underway(o) = {}
        BY <3>2 DEF Underway
      <4>. QED BY <3>1, <4>1, FS_EmptySet DEF Alone
    <3>3. ASSUME NEW a \in Actors, Mine(a) = o
          PROVE  received[o] + Cardinality(Underway(o)) <= 1
      <4>1. Underway(o) = {a} /\ received[o] = 0
        BY <3>1, <3>3 DEF Underway, Alone
      <4>2. Cardinality({a}) = 1
        BY FS_Singleton
      <4>. QED BY <4>1, <4>2
    <3>. QED BY <3>2, <3>3
  <2>. QED BY <2>1 DEF OneHandlerPerOrder
<1>. QED BY <1>1, <1>2, <1>3, Invariant, PTL DEF Spec

-----------------------------------------------------------------------------
(* The split on record is the split paid, while nobody edits a product.    *)
(* This needs no premise on the gateway or the wallets: every split was    *)
(* read from the collaborators of the product, which stay the same.        *)

SplitOf(o) == roster[ProductOf[o]]
SplitJob(j) == j.pc \in RosterPc => j.roster = SplitOf(j.order)
Splits ==
  /\ \A h \in Hash : Used(h) => tx[h].roster = SplitOf(tx[h].order)
  /\ \A a \in Actors : SplitJob(job[a])
  /\ \A o \in Orders : /\ PaidOut(o) => payout[o] = SplitOf(o)
                       /\ settlement[o] # None => settlement[o].roster = SplitOf(o)
UneditedInv == faults["edit"] = 0 => Splits

(* Every step leaves the faults alone or adds one. *)
LEMMA FaultsGrow ==
  ASSUME IInv, [Next]_vars
  PROVE  \A k \in FaultKind : faults'[k] \in Nat /\ faults'[k] >= faults[k]
<1> DEFINE counted == UNCHANGED faults \/ \E k \in FaultKind : Strike(k)
<1>1. ASSUME NEW w \in Workers, Handle(w) PROVE counted
  <2>1. CASE TakeEvent(w) \/ Prepare(w) \/ CatchUp(w) \/ FailWithHash(w)
    BY <2>1 DEF TakeEvent, Prepare, MarkPending, LoadCollaborators, CheckTrustlines,
         PreCheck, CheckFloat, CatchUp, Recover, AdoptRow, SettleFirst, FailWithHash,
         FaultKind
  <2>2. CASE Invoke(w)
    BY <2>2 DEF Invoke, Simulate, Send, Poll, FaultKind
  <2>3. CASE Recording(w)
    BY <2>3 DEF Recording, Reread, Record, MarkSettled, Fail
  <2>. QED BY <1>1, <2>1, <2>2, <2>3 DEF Handle
<1>2. ASSUME Recovery PROVE counted
  <2>1. CASE TakeStuck \/ CheckUnhashed \/ Verify
    BY <2>1 DEF TakeStuck, CheckUnhashed, Verify, FaultKind
  <2>2. CASE Reverify \/ LookForRow \/ BootAdoptRow \/ Requeue
    BY <2>2 DEF Reverify, LookForRow, BootAdoptRow, Requeue, FaultKind
  <2>3. CASE Recording(Boot)
    BY <2>3 DEF Recording, Reread, Record, MarkSettled, Fail
  <2>. QED BY <1>2, <2>1, <2>2, <2>3 DEF Recovery
<1>3. ASSUME NEW c \in Calls, Webhook(c) PROVE counted
  BY <1>3 DEF Webhook, CheckRef, ReadOrder, ReadWallet, Claim, AnswerError, FaultKind
<1>4. ASSUME NEW k \in Conns, ConnectWallet(k) PROVE counted
  BY <1>4 DEF ConnectWallet, CheckAddress, CreateWallet, ResumeWaiting, FaultKind
<1>5. ASSUME NEW h \in Hash, Include(h) \/ DropTx(h) PROVE counted
  BY <1>5 DEF Include, DropTx, FaultKind
<1>6. ASSUME NEW p \in Products, EditCollaborators(p) \/ SetProductStatus(p) PROVE counted
  BY <1>6 DEF EditCollaborators, SetProductStatus, FaultKind
<1>7. ASSUME NEW o \in Orders, Checkout(o) \/ DeliverProduct(o) PROVE counted
  BY <1>7 DEF Checkout, DeliverProduct, FaultKind
<1>8. ASSUME NEW a \in Actors, DbError(a) PROVE counted
  BY <1>8 DEF DbError, FaultKind
<1>9. ASSUME OtherPlatformTx \/ Crash \/ UNCHANGED vars PROVE counted
  BY <1>9 DEF OtherPlatformTx, Crash, FaultKind, vars
<1>10. counted
  <2>. HIDE DEF counted
  <2>. QED BY <1>1, <1>2, <1>3, <1>4, <1>5, <1>6, <1>7, <1>8, <1>9
           DEF Next, Backend, Environment
<1>11. faults \in [FaultKind -> Nat]
  BY DEF IInv, TypeOK
<1>12. ASSUME NEW k \in FaultKind, Strike(k)
       PROVE  \A i \in FaultKind : faults'[i] \in Nat /\ faults'[i] >= faults[i]
  BY <1>11, <1>12 DEF Strike
<1>. QED BY <1>10, <1>11, <1>12

(* A fault that was injected is seen. *)
LEMMA Struck ==
  ASSUME IInv, NEW k \in FaultKind, Strike(k)
  PROVE  faults'[k] > 0
  BY DEF IInv, TypeOK, Strike

(* What a step makes of the handler that takes it. *)
Became(a, p, r, h) ==
  /\ job'[a].pc = p /\ job'[a].roster = r /\ job'[a].hash = h
  /\ job'[a].order = job[a].order /\ job'[a].catch = job[a].catch
To(a, p) == Became(a, p, job[a].roster, job[a].hash)
Ended(a) == job'[a] = NoJob

LEMMA Becomes ==
  ASSUME IInv, NEW a \in Actors, NEW p, NEW v
  PROVE  /\ Goto(a, p) => To(a, p)
         /\ job' = [job EXCEPT ![a].pc = p, ![a].roster = v] => Became(a, p, v, job[a].hash)
         /\ job' = [job EXCEPT ![a].pc = p, ![a].hash = v] => Became(a, p, job[a].roster, v)
         /\ job' = [job EXCEPT ![a].pc = p, ![a].seq = v] => To(a, p)
         /\ job' = [job EXCEPT ![a].pc = p, ![a].tries = v] => To(a, p)
         /\ Done(a) => Ended(a)
<1>1. job \in [Actors -> Job]
  BY DEF IInv, TypeOK
<1> USE DEF To, Became, Ended
<1>2. ASSUME Goto(a, p) PROVE To(a, p)
  BY <1>1, <1>2 DEF Goto, Job
<1>3. ASSUME job' = [job EXCEPT ![a].pc = p, ![a].roster = v] PROVE Became(a, p, v, job[a].hash)
  <2>1. job' = [job EXCEPT ![a] = [job[a] EXCEPT !.pc = p, !.roster = v]]
    BY <1>3, Zenon
  <2>. QED BY <1>1, <2>1 DEF Job
<1>4. ASSUME job' = [job EXCEPT ![a].pc = p, ![a].hash = v] PROVE Became(a, p, job[a].roster, v)
  <2>1. job' = [job EXCEPT ![a] = [job[a] EXCEPT !.pc = p, !.hash = v]]
    BY <1>4, Zenon
  <2>. QED BY <1>1, <2>1 DEF Job
<1>5. ASSUME job' = [job EXCEPT ![a].pc = p, ![a].seq = v] PROVE To(a, p)
  <2>1. job' = [job EXCEPT ![a] = [job[a] EXCEPT !.pc = p, !.seq = v]]
    BY <1>5, Zenon
  <2>. QED BY <1>1, <2>1 DEF Job
<1>6. ASSUME job' = [job EXCEPT ![a].pc = p, ![a].tries = v] PROVE To(a, p)
  <2>1. job' = [job EXCEPT ![a] = [job[a] EXCEPT !.pc = p, !.tries = v]]
    BY <1>6, Zenon
  <2>. QED BY <1>1, <2>1 DEF Job
<1>7. ASSUME Done(a) PROVE Ended(a)
  BY <1>1, <1>7 DEF Done
<1>. QED BY <1>2, <1>3, <1>4, <1>5, <1>6, <1>7

LEMMA PrepareBecomes ==
  ASSUME IInv, NEW a \in Actors
  PROVE  /\ MarkPending(a) => To(a, "roster")
         /\ LoadCollaborators(a) => \/ Became(a, "trustlines", SplitOf(Mine(a)), job[a].hash)
                                    \/ To(a, "fail")
         /\ CheckTrustlines(a) => To(a, "precheck") \/ To(a, "fail")
         /\ PreCheck(a) => \/ PaidOut(Mine(a)) /\ To(a, "recover")
                           \/ To(a, "float")
         /\ CheckFloat(a) => To(a, "invoke") \/ To(a, "fail")
<1> USE Becomes
<1>1. MarkPending(a) => To(a, "roster")
  BY DEF MarkPending
<1>2. ASSUME LoadCollaborators(a)
      PROVE  Became(a, "trustlines", SplitOf(Mine(a)), job[a].hash) \/ To(a, "fail")
  BY <1>2 DEF LoadCollaborators, SplitOf
<1>3. CheckTrustlines(a) => To(a, "precheck") \/ To(a, "fail")
  BY DEF CheckTrustlines
<1>4. ASSUME PreCheck(a)
      PROVE  (PaidOut(Mine(a)) /\ To(a, "recover")) \/ To(a, "float")
  <2>1. CASE PaidOut(Mine(a)) /\ Goto(a, "recover")
    BY <2>1
  <2>2. CASE Goto(a, "float")
    BY <2>2
  <2>. QED BY <1>4, <2>1, <2>2 DEF PreCheck
<1>5. CheckFloat(a) => To(a, "invoke") \/ To(a, "fail")
  BY DEF CheckFloat
<1>. QED BY <1>1, <1>2, <1>3, <1>4, <1>5

LEMMA InvokeBecomes ==
  ASSUME IInv, NEW a \in Actors
  PROVE  /\ Retry(a) => To(a, "invoke") \/ To(a, "fail")
         /\ Simulate(a) => \/ To(a, "send") \/ To(a, "fail")
                           \/ Strike("rpc") /\ To(a, "invoke")
         /\ Poll(a) => \/ Succeeded(job[a].hash) /\ To(a, "record")
                       \/ tx[job[a].hash].state = "failed" /\ To(a, "failtx")
                       \/ Ended(a)
                       \/ Strike("rpc") /\ (To(a, "invoke") \/ To(a, "fail"))
<1> USE Becomes
<1>1. Retry(a) => To(a, "invoke") \/ To(a, "fail")
  BY DEF Retry
<1>2. ASSUME Simulate(a)
      PROVE  To(a, "send") \/ To(a, "fail") \/ (Strike("rpc") /\ To(a, "invoke"))
  <2>1. PICK n : n = seqNum + 1
    OBVIOUS
  <2>2. CASE job' = [job EXCEPT ![a].pc = "send", ![a].seq = n]
    BY <2>2
  <2>3. CASE Goto(a, "fail") \/ (Retry(a) /\ Strike("rpc"))
    BY <1>1, <2>3
  <2>. QED BY <1>2, <2>1, <2>2, <2>3 DEF Simulate
<1>3. ASSUME Poll(a)
      PROVE  \/ Succeeded(job[a].hash) /\ To(a, "record")
             \/ tx[job[a].hash].state = "failed" /\ To(a, "failtx")
             \/ Ended(a)
             \/ Strike("rpc") /\ (To(a, "invoke") \/ To(a, "fail"))
  BY <1>1, <1>3 DEF Poll, GiveUpPolling
<1>. QED BY <1>1, <1>2, <1>3

LEMMA RecordingBecomes ==
  ASSUME IInv, NEW a \in Actors
  PROVE  /\ Caught(a) => To(a, job[a].catch) \/ Ended(a)
         /\ Recover(a) => \/ settlement[Mine(a)] # None /\ To(a, "adopt")
                          \/ job[a].hash # None /\ To(a, "record")
                          \/ settlement[Mine(a)] = None /\ To(a, "settlefirst")
         /\ SettleFirst(a) => Became(a, "reread", job[a].roster, Placeholder)
         /\ Reread(a) => \/ SplitOf(Mine(a)) \in NoRoster /\ To(a, "fail")
                         \/ Became(a, "record", SplitOf(Mine(a)), job[a].hash)
         /\ Record(a) => \/ settlement[Mine(a)] = None /\ To(a, "mark")
                         \/ settlement[Mine(a)] # None /\ (To(a, job[a].catch) \/ Ended(a))
         /\ DbError(a) => To(a, job[a].catch) \/ Ended(a)
         /\ AdoptRow(a) \/ MarkSettled(a) \/ Fail(a) \/ FailWithHash(a) => Ended(a)
<1> USE Becomes
<1>1. Caught(a) => To(a, job[a].catch) \/ Ended(a)
  BY DEF Caught
<1>2. ASSUME Recover(a)
      PROVE  \/ settlement[Mine(a)] # None /\ To(a, "adopt")
             \/ job[a].hash # None /\ To(a, "record")
             \/ settlement[Mine(a)] = None /\ To(a, "settlefirst")
  <2>1. CASE settlement[Mine(a)] # None
    BY <1>2, <2>1 DEF Recover
  <2>2. CASE settlement[Mine(a)] = None /\ job[a].hash # None
    BY <1>2, <2>2 DEF Recover
  <2>3. CASE settlement[Mine(a)] = None /\ job[a].hash = None
    BY <1>2, <2>3 DEF Recover
  <2>. QED BY <2>1, <2>2, <2>3
<1>3. SettleFirst(a) => Became(a, "reread", job[a].roster, Placeholder)
  BY DEF SettleFirst
<1>4. ASSUME Reread(a)
      PROVE  \/ SplitOf(Mine(a)) \in NoRoster /\ To(a, "fail")
             \/ Became(a, "record", SplitOf(Mine(a)), job[a].hash)
  BY <1>4 DEF Reread, SplitOf
<1>5. ASSUME Record(a)
      PROVE  \/ settlement[Mine(a)] = None /\ To(a, "mark")
             \/ settlement[Mine(a)] # None /\ (To(a, job[a].catch) \/ Ended(a))
  BY <1>1, <1>5 DEF Record, Unrecorded
<1>6. DbError(a) => To(a, job[a].catch) \/ Ended(a)
  BY <1>1 DEF DbError
<1>7. AdoptRow(a) \/ MarkSettled(a) \/ Fail(a) \/ FailWithHash(a) => Ended(a)
  BY DEF AdoptRow, MarkSettled, Fail, FailWithHash
<1>. QED BY <1>1, <1>2, <1>3, <1>4, <1>5, <1>6, <1>7

LEMMA SendBecomes ==
  ASSUME IInv, NEW a \in Actors, Send(a)
  PROVE  \/ \E h \in Hash : Broadcast(a, h) /\ Became(a, "poll", job[a].roster, h)
         \/ /\ \E h \in Hash :
                 /\ tx[h] = [state |-> "pending", order |-> Mine(a),
                             roster |-> job[a].roster, seq |-> job[a].seq]
                 /\ Became(a, "poll", job[a].roster, h)
            /\ UNCHANGED tx
         \/ To(a, "fail") /\ UNCHANGED tx
         \/ /\ Strike("rpc")
            /\ To(a, "invoke") \/ To(a, "fail")
            /\ UNCHANGED tx \/ \E h \in Hash : Broadcast(a, h)
<1>1. ASSUME NEW h \in Hash, job' = [job EXCEPT ![a].pc = "poll", ![a].hash = h]
      PROVE  Became(a, "poll", job[a].roster, h)
  BY <1>1, Becomes
<1>2. (Goto(a, "fail") => To(a, "fail")) /\ (Retry(a) => To(a, "invoke") \/ To(a, "fail"))
  BY Becomes, InvokeBecomes
<1>. QED BY <1>1, <1>2 DEF Send

LEMMA BootBecomes ==
  ASSUME IInv
  PROVE  /\ CheckUnhashed => \/ Became(Boot, "reread", job[Boot].roster, Placeholder)
                             \/ To(Boot, "fail")
         /\ LookForRow => To(Boot, "adoptrow") \/ To(Boot, "reread")
         /\ Verify \/ Reverify =>
              job'[Boot].pc \in {"idle", "look", "fail", "reverify", "reread", "requeue"}
         /\ BootAdoptRow \/ Requeue => Ended(Boot)
<1>1. Boot \in Actors /\ job \in [Actors -> Job]
  BY DEF Actors, IInv, TypeOK
<1>2. ASSUME CheckUnhashed
      PROVE  \/ Became(Boot, "reread", job[Boot].roster, Placeholder)
             \/ To(Boot, "fail")
  BY <1>1, <1>2, Becomes DEF CheckUnhashed
<1>3. ASSUME LookForRow PROVE To(Boot, "adoptrow") \/ To(Boot, "reread")
  <2>1. PICK p \in {"adoptrow", "reread"} : Goto(Boot, p)
    BY <1>3 DEF LookForRow
  <2>. QED BY <1>1, <2>1, Becomes
<1>4. ASSUME NEW p, NEW k, \/ Goto(Boot, p)
                           \/ job' = [job EXCEPT ![Boot].pc = p, ![Boot].catch = k]
      PROVE  job'[Boot].pc = p
  BY <1>1, <1>4 DEF Goto, Job
<1>5. Done(Boot) => job'[Boot].pc = "idle"
  BY <1>1 DEF Done, NoJob
<1>6. ASSUME Verify PROVE job'[Boot].pc \in {"idle", "look", "fail", "reverify"}
  BY <1>4, <1>5, <1>6 DEF Verify
<1>7. ASSUME Reverify PROVE job'[Boot].pc \in {"reread", "fail", "requeue"}
  BY <1>4, <1>7 DEF Reverify
<1>8. BootAdoptRow \/ Requeue => Ended(Boot)
  BY <1>1, Becomes DEF BootAdoptRow, Requeue
<1>. QED BY <1>2, <1>3, <1>6, <1>7, <1>8

(* A handler keeps the split it has read, or reads the one of the product. *)
LEMMA AtWorkSplit ==
  ASSUME IInv, NEW a \in Actors, AtWork(a), SplitJob(job[a]), UNCHANGED roster
  PROVE  SplitJob(job[a])'
<1>1. job[a].catch \notin RosterPc
  BY DEF IInv, TypeOK, Job, RosterPc
<1>2. Ended(a) => SplitJob(job[a])'
  BY DEF Ended, NoJob, SplitJob, RosterPc
<1>3. ASSUME NEW p, NEW h, NEW r, Became(a, p, r, h), p \in RosterPc => r = SplitOf(Mine(a))
      PROVE  SplitJob(job[a])'
  BY <1>3 DEF Became, SplitJob, SplitOf, Mine
<1>4. ASSUME NEW p, To(a, p), p \notin RosterPc \/ job[a].pc \in RosterPc
      PROVE  SplitJob(job[a])'
  BY <1>3, <1>4 DEF To, SplitJob, Mine
<1> USE <1>2, <1>3, <1>4
<1>5. CASE Prepare(a)
  BY <1>5, PrepareBecomes
  DEF Prepare, CheckTrustlines, PreCheck, CheckFloat, At, RosterPc
<1>6. CASE Simulate(a) \/ Poll(a)
  BY <1>6, InvokeBecomes DEF Simulate, Poll, At, RosterPc
<1>7. CASE Send(a)
  <2>1. job[a].pc \in RosterPc
    BY <1>7 DEF Send, At, RosterPc
  <2>2. \/ \E h \in Hash : Became(a, "poll", job[a].roster, h)
        \/ To(a, "invoke") \/ To(a, "fail")
    BY <1>7, SendBecomes
  <2>. QED BY <2>1, <2>2 DEF SplitJob, Mine
<1>8. CASE CatchUp(a) \/ FailWithHash(a)
  BY <1>8, RecordingBecomes DEF CatchUp, Recover, At, RosterPc
<1>9. CASE Recording(a) \/ DbError(a)
  BY <1>1, <1>9, RecordingBecomes DEF Recording, RosterPc
<1>10. CASE a = Boot /\ (CheckUnhashed \/ Verify \/ Reverify \/ LookForRow \/ BootAdoptRow)
  <2>1. CASE Verify \/ Reverify
    BY <1>10, <2>1, BootBecomes DEF SplitJob, RosterPc
  <2>2. CASE CheckUnhashed \/ LookForRow \/ BootAdoptRow
    BY <1>10, <2>2, BootBecomes DEF RosterPc
  <2>. QED BY <1>10, <2>1, <2>2
<1>. QED BY <1>5, <1>6, <1>7, <1>8, <1>9, <1>10 DEF AtWork, Invoke

(* A handler or recovery takes up an order. *)
Started(a, o, p) ==
  /\ \A b \in Actors \ {a} : job'[b] = job[b]
  /\ job'[a].pc = p /\ job'[a].order = o /\ job'[a].hash = order[o].hash
  /\ job'[a].catch = "fail"

LEMMA StartsWith ==
  ASSUME IInv, NEW a \in Actors, NEW o, NEW p,
         job' = [job EXCEPT ![a] = [NoJob EXCEPT !.pc = p, !.order = o,
                                                 !.hash = order[o].hash]]
  PROVE  Started(a, o, p)
  BY DEF IInv, TypeOK, NoJob, Started

LEMMA TakeEventStarts ==
  ASSUME IInv, NEW w \in Workers, TakeEvent(w)
  PROVE  /\ UNCHANGED <<order, settlement, tx, payout, conn, call, todo>>
         /\ \/ UNCHANGED job
            \/ \E o \in Orders :
                 /\ received[o] > 0
                 /\ \/ /\ CanTransition(order[o].status, "SETTLEMENT_PENDING")
                       /\ Started(w, o, "claim")
                    \/ Strike("db") /\ Started(w, o, "fail")
<1>1. w \in Actors
  BY DEF Actors
<1>2. UNCHANGED <<order, settlement, tx, payout, conn, call, todo>>
  BY DEF TakeEvent, unhandled, intakeVars, dbVars, ledgerVars
<1>. QED BY <1>1, <1>2, StartsWith DEF TakeEvent

LEMMA TakeStuckStarts ==
  ASSUME IInv, TakeStuck
  PROVE  /\ UNCHANGED <<order, settlement, tx, payout, conn, call>>
         /\ todo # {} /\ todo' \subseteq todo
         /\ \/ UNCHANGED job
            \/ \E o \in todo :
                 /\ order[o].status = "SETTLEMENT_PENDING"
                 /\ Started(Boot, o, IF order[o].hash = None THEN "bootcheck" ELSE "verify")
<1>1. Boot \in Actors
  BY DEF Actors
<1>2. UNCHANGED <<order, settlement, tx, payout, conn, call>>
  BY DEF TakeStuck, intakeVars, dbVars, ledgerVars
<1>3. PICK o \in todo :
        /\ todo' = todo \ {o}
        /\ \/ UNCHANGED job
           \/ /\ order[o].status = "SETTLEMENT_PENDING"
              /\ job' = [job EXCEPT ![Boot] =
                           BootJob(o, IF order[o].hash = None THEN "bootcheck" ELSE "verify")]
  BY DEF TakeStuck
<1>4. CASE /\ order[o].status = "SETTLEMENT_PENDING"
           /\ job' = [job EXCEPT ![Boot] =
                        BootJob(o, IF order[o].hash = None THEN "bootcheck" ELSE "verify")]
  <2>1. PICK p : p = IF order[o].hash = None THEN "bootcheck" ELSE "verify"
    OBVIOUS
  <2>2. job' = [job EXCEPT ![Boot] = [NoJob EXCEPT !.pc = p, !.order = o,
                                                   !.hash = order[o].hash]]
    BY <1>4, <2>1 DEF BootJob
  <2>3. Started(Boot, o, p)
    BY <1>1, <2>2, StartsWith
  <2>. QED BY <1>2, <1>3, <1>4, <2>1, <2>3
<1>. QED BY <1>2, <1>3, <1>4

(* The steps of neither a handler nor recovery write no row, and none but  *)
(* the network's a transaction.                                            *)
LEMMA IntakeLeaves ==
  ASSUME \/ \E c \in Calls : Webhook(c)
         \/ \E k \in Conns : ConnectWallet(k)
         \/ \E o \in Orders : Checkout(o) \/ DeliverProduct(o)
  PROVE  UNCHANGED <<settlement, roster, job, todo, tx, payout>>
<1> USE DEF otherVars, catalogue, ledgerVars, dbVars
<1>1. ASSUME NEW c \in Calls, Webhook(c)
      PROVE  UNCHANGED <<settlement, roster, job, todo, tx, payout>>
  BY <1>1 DEF Webhook, CheckRef, ReadOrder, ReadWallet, Claim, AnswerError
<1>2. ASSUME NEW k \in Conns, ConnectWallet(k)
      PROVE  UNCHANGED <<settlement, roster, job, todo, tx, payout>>
  BY <1>2 DEF ConnectWallet, CheckAddress, CreateWallet, ResumeWaiting
<1>3. ASSUME NEW o \in Orders, Checkout(o) \/ DeliverProduct(o)
      PROVE  UNCHANGED <<settlement, roster, job, todo, tx, payout>>
  BY <1>3 DEF Checkout, DeliverProduct
<1>. QED BY <1>1, <1>2, <1>3

LEMMA CatalogueLeaves ==
  ASSUME \/ \E p \in Products : EditCollaborators(p) \/ SetProductStatus(p)
         \/ OtherPlatformTx
  PROVE  UNCHANGED <<order, settlement, call, conn, job, todo, tx, payout>>
  BY DEF EditCollaborators, SetProductStatus, OtherPlatformTx, unledgered, intakeVars,
         dbVars, ledgerVars

(* A handler at work leaves the collaborators alone. *)
LEMMA AtWorkRoster ==
  ASSUME NEW a \in Actors, AtWork(a)
  PROVE  UNCHANGED <<roster, payout>>
<1> USE DEF unhandled, catalogue, ledgerVars
<1>1. CASE Prepare(a) \/ Invoke(a) \/ CatchUp(a) \/ FailWithHash(a)
  BY <1>1 DEF Prepare, MarkPending, LoadCollaborators, CheckTrustlines, PreCheck,
              CheckFloat, Invoke, Simulate, Send, Poll, CatchUp, Recover, AdoptRow,
              SettleFirst, FailWithHash
<1>2. CASE Recording(a) \/ DbError(a)
  BY <1>2 DEF Recording, Reread, Record, MarkSettled, Fail, DbError
<1>3. CASE CheckUnhashed \/ Verify \/ Reverify \/ LookForRow \/ BootAdoptRow
  BY <1>3 DEF CheckUnhashed, Verify, Reverify, LookForRow, BootAdoptRow
<1>. QED BY <1>1, <1>2, <1>3 DEF AtWork

LEMMA RosterStays ==
  ASSUME IInv, [Next]_vars, faults'["edit"] = 0
  PROVE  UNCHANGED roster
<1>1. ASSUME NEW p \in Products, EditCollaborators(p) PROVE FALSE
  BY <1>1, Struck DEF EditCollaborators, FaultKind
<1>2. ASSUME \/ \E p \in Products : SetProductStatus(p)
             \/ \E h \in Hash : Include(h) \/ DropTx(h)
             \/ OtherPlatformTx \/ Crash \/ UNCHANGED vars
      PROVE  UNCHANGED roster
  BY <1>2 DEF SetProductStatus, Include, DropTx, OtherPlatformTx, Crash, vars, unledgered,
              catalogue
<1>3. ASSUME TakeStuck \/ Requeue \/ \E w \in Workers : TakeEvent(w)
      PROVE  UNCHANGED roster
  BY <1>3 DEF TakeStuck, Requeue, TakeEvent, unhandled, catalogue
<1>4. Workers \subseteq Actors /\ Boot \in Actors
  BY DEF Actors
<1>. QED BY <1>1, <1>2, <1>3, <1>4, IntakeLeaves, AtWorkRoster
     DEF Next, Backend, Environment, Handle, Recovery, AtWork

(* A handler at work writes to its own order only: the row of the order,   *)
(* its settlement, and a transaction for it.                               *)
RowWritten(a) ==
  /\ At(a, "record") /\ settlement[Mine(a)] = None
  /\ settlement' = [settlement EXCEPT ![Mine(a)] = Row(a)]

LEMMA AtWorkWrites ==
  ASSUME IInv, NEW a \in Actors, AtWork(a)
  PROVE  /\ UNCHANGED settlement \/ RowWritten(a)
         /\ UNCHANGED tx \/ (At(a, "send") /\ \E h \in Hash : Broadcast(a, h))
         /\ \A x \in Orders : x # Mine(a) => order'[x] = order[x]
         /\ job[a].pc # "idle" /\ Mine(a) \in Orders
<1>1. job[a].pc # "idle"
  BY DEF AtWork, Prepare, MarkPending, LoadCollaborators, CheckTrustlines, PreCheck, CheckFloat,
         Invoke, Simulate, Send, Poll, CatchUp, Recover, AdoptRow, SettleFirst, FailWithHash,
         Recording, Reread, Record, MarkSettled, Fail, DbError, DbPc,
         CheckUnhashed, Verify, Reverify, LookForRow, BootAdoptRow, At
<1>2. Mine(a) \in Orders
  BY <1>1 DEF IInv, JobSound, Paid, Mine
<1>3. UNCHANGED settlement \/ RowWritten(a)
  <2>1. CASE Prepare(a) \/ Invoke(a) \/ CatchUp(a) \/ FailWithHash(a)
    BY <2>1 DEF Prepare, MarkPending, LoadCollaborators, CheckTrustlines, PreCheck,
                CheckFloat, Invoke, Simulate, Send, Poll, CatchUp, Recover, AdoptRow,
                SettleFirst, FailWithHash, dbVars
  <2>2. CASE Recording(a) \/ DbError(a)
    BY <2>2 DEF Recording, Reread, Record, MarkSettled, Fail, DbError, dbVars, RowWritten,
                Unrecorded
  <2>3. CASE CheckUnhashed \/ Verify \/ Reverify \/ LookForRow \/ BootAdoptRow
    BY <2>3 DEF CheckUnhashed, Verify, Reverify, LookForRow, BootAdoptRow, dbVars
  <2>. QED BY <2>1, <2>2, <2>3 DEF AtWork
<1>4. UNCHANGED tx \/ (At(a, "send") /\ \E h \in Hash : Broadcast(a, h))
  <2>1. CASE Prepare(a) \/ Simulate(a) \/ Poll(a) \/ CatchUp(a) \/ FailWithHash(a)
    BY <2>1 DEF Prepare, MarkPending, LoadCollaborators, CheckTrustlines, PreCheck,
                CheckFloat, Simulate, Poll, CatchUp, Recover, AdoptRow, SettleFirst,
                FailWithHash, ledgerVars
  <2>2. CASE Recording(a) \/ DbError(a)
    BY <2>2 DEF Recording, Reread, Record, MarkSettled, Fail, DbError, ledgerVars
  <2>3. CASE CheckUnhashed \/ Verify \/ Reverify \/ LookForRow \/ BootAdoptRow
    BY <2>3 DEF CheckUnhashed, Verify, Reverify, LookForRow, BootAdoptRow, ledgerVars
  <2>4. CASE Send(a)
    BY <2>4 DEF Send
  <2>. QED BY <2>1, <2>2, <2>3, <2>4 DEF AtWork, Invoke
<1>5. \/ UNCHANGED order
      \/ \E s, h : \/ order' = [order EXCEPT ![Mine(a)].status = s]
                   \/ order' = [order EXCEPT ![Mine(a)].status = s, ![Mine(a)].hash = h]
  <2> USE DEF SetStatus, dbVars
  <2>1. CASE Prepare(a) \/ Invoke(a) \/ CatchUp(a) \/ FailWithHash(a)
    BY <2>1 DEF Prepare, MarkPending, LoadCollaborators, CheckTrustlines, PreCheck,
                CheckFloat, Invoke, Simulate, Send, Poll, CatchUp, Recover, AdoptRow,
                SettleFirst, FailWithHash
  <2>2. CASE Recording(a) \/ DbError(a)
    BY <2>2 DEF Recording, Reread, Record, MarkSettled, Fail, DbError
  <2>3. CASE a = Boot /\ (CheckUnhashed \/ Verify \/ Reverify \/ LookForRow \/ BootAdoptRow)
    BY <2>3 DEF CheckUnhashed, Verify, Reverify, LookForRow, BootAdoptRow
  <2>. QED BY <2>1, <2>2, <2>3 DEF AtWork
<1>6. order \in [Orders -> OrderRow]
  BY DEF IInv, TypeOK
<1>7. ASSUME NEW x \in Orders, x # Mine(a) PROVE order'[x] = order[x]
  <2>1. ASSUME NEW s, NEW h, order' = [order EXCEPT ![Mine(a)].status = s, ![Mine(a)].hash = h]
        PROVE  order'[x] = order[x]
    <3>1. order' = [order EXCEPT ![Mine(a)] = [order[Mine(a)] EXCEPT !.status = s, !.hash = h]]
      BY <2>1, Zenon
    <3>. QED BY <1>6, <1>7, <3>1
  <2>2. ASSUME NEW s, order' = [order EXCEPT ![Mine(a)].status = s]
        PROVE  order'[x] = order[x]
    BY <1>6, <1>7, <2>2
  <2>. QED BY <1>5, <2>1, <2>2
<1>. QED BY <1>1, <1>2, <1>3, <1>4, <1>7

LEMMA SplitsStep ==
  ASSUME IInv, Splits, [Next]_vars, UNCHANGED roster
  PROVE  Splits'
<1> DEFINE jobs == \A a \in Actors : SplitJob(job[a])
           txs == \A h \in Hash : Used(h) => tx[h].roster = SplitOf(tx[h].order)
           paid == \A o \in Orders : PaidOut(o) => payout[o] = SplitOf(o)
           rows == \A o \in Orders : settlement[o] # None => settlement[o].roster = SplitOf(o)
<1>1. /\ tx \in [Hash -> Tx] /\ settlement \in [Orders -> SettlementRow \cup {None}]
      /\ payout \in [Orders -> Rosters \cup {None}]
  BY DEF IInv, TypeOK
<1>2. jobs /\ txs /\ paid /\ rows
  BY DEF Splits
<1>3. (jobs /\ txs /\ paid /\ rows)' => Splits'
  BY DEF Splits
<1>4. /\ UNCHANGED job => jobs'
      /\ UNCHANGED tx => txs'
      /\ UNCHANGED payout => paid'
      /\ UNCHANGED settlement => rows'
  BY <1>2 DEF SplitJob, SplitOf, Used, PaidOut
<1>5. ASSUME NEW a \in Actors, NEW o, NEW p, Started(a, o, p), p \notin RosterPc
      PROVE  jobs'
  BY <1>2, <1>5 DEF Started, SplitJob, SplitOf
<1>6. ASSUME NEW a \in Actors, AtWork(a) PROVE Splits'
  <2>1. jobs'
    <3>1. SplitJob(job[a])'
      BY <1>2, <1>6, AtWorkSplit
    <3>2. \A b \in Actors \ {a} : job'[b] = job[b]
      BY <1>6, AtWorkStays DEF JobStays
    <3>. QED BY <1>2, <3>1, <3>2 DEF SplitJob, SplitOf
  <2>2. paid'
    BY <1>4, <1>6, AtWorkRoster
  <2>3. txs'
    <3>1. ASSUME NEW h \in Hash, At(a, "send"), Broadcast(a, h) PROVE txs'
      <4>1. job[a].roster = SplitOf(Mine(a))
        BY <1>2, <3>1 DEF SplitJob, At, Mine, RosterPc
      <4>2. \A g \in Hash \ {h} : tx'[g] = tx[g]
        BY <1>1, <3>1 DEF Broadcast
      <4>3. tx'[h].order = Mine(a) /\ tx'[h].roster = job[a].roster
        BY <1>1, <3>1 DEF Broadcast
      <4>. QED BY <1>2, <4>1, <4>2, <4>3 DEF Used, SplitOf
    <3>. QED BY <1>4, <1>6, <3>1, AtWorkWrites
  <2>4. rows'
    <3>1. ASSUME RowWritten(a) PROVE rows'
      <4>1. job[a].roster = SplitOf(Mine(a))
        BY <1>2, <3>1 DEF RowWritten, SplitJob, At, Mine, RosterPc
      <4>. QED BY <1>1, <1>2, <3>1, <4>1 DEF RowWritten, Row, SplitOf
    <3>. QED BY <1>4, <1>6, <3>1, AtWorkWrites
  <2>. QED BY <1>3, <2>1, <2>2, <2>3, <2>4
<1>7. ASSUME NEW w \in Workers, TakeEvent(w) PROVE Splits'
  <2>1. w \in Actors
    BY DEF Actors
  <2>. QED BY <1>3, <1>4, <1>5, <1>7, <2>1, TakeEventStarts DEF RosterPc
<1>8. CASE TakeStuck
  <2>1. Boot \in Actors /\ {"bootcheck", "verify"} \cap RosterPc = {}
    BY DEF Actors, RosterPc
  <2>2. UNCHANGED job \/ \E o, p : Started(Boot, o, p) /\ p \in {"bootcheck", "verify"}
    BY <1>8, TakeStuckStarts
  <2>. QED BY <1>3, <1>4, <1>5, <1>8, <2>1, <2>2, TakeStuckStarts
<1>9. CASE Requeue \/ Crash
  <2>1. UNCHANGED <<settlement, tx, payout>>
    BY <1>9 DEF Requeue, Crash, dbVars, ledgerVars
  <2>2. \A b \in Actors : job'[b] = job[b] \/ job'[b] = NoJob
    BY <1>9 DEF Requeue, Crash, Done, IInv, TypeOK
  <2>3. jobs'
    BY <1>2, <2>2 DEF SplitJob, SplitOf, NoJob, RosterPc
  <2>. QED BY <1>3, <1>4, <2>1, <2>3
<1>10. ASSUME NEW h \in Hash, Include(h) \/ DropTx(h) PROVE Splits'
  <2>1. UNCHANGED <<job, settlement>>
    BY <1>10 DEF Include, DropTx, unledgered
  <2>2. Used(h) /\ \E s : tx' = [tx EXCEPT ![h].state = s]
    BY <1>10 DEF Include, DropTx, Used
  <2>3. txs'
    BY <1>1, <1>2, <2>2 DEF Used, SplitOf, Tx
  <2>4. paid'
    <3>1. UNCHANGED payout \/ payout' = [payout EXCEPT ![tx[h].order] = tx[h].roster]
      BY <1>10 DEF Include, DropTx
    <3>. QED BY <1>1, <1>2, <2>2, <3>1 DEF PaidOut, SplitOf
  <2>. QED BY <1>3, <1>4, <2>1, <2>3, <2>4
<1>11. CASE \/ \E p \in Products : EditCollaborators(p) \/ SetProductStatus(p)
            \/ OtherPlatformTx
  BY <1>3, <1>4, <1>11, CatalogueLeaves
<1>12. CASE \/ \E c \in Calls : Webhook(c)
            \/ \E k \in Conns : ConnectWallet(k)
            \/ \E o \in Orders : Checkout(o) \/ DeliverProduct(o)
  BY <1>3, <1>4, <1>12, IntakeLeaves
<1>13. CASE UNCHANGED vars
  BY <1>3, <1>4, <1>13 DEF vars
<1>14. Workers \subseteq Actors /\ Boot \in Actors
  BY DEF Actors
<1> HIDE DEF jobs, txs, paid, rows
<1>. QED BY <1>6, <1>7, <1>8, <1>9, <1>10, <1>11, <1>12, <1>13, <1>14
     DEF Next, Backend, Environment, Handle, Recovery, AtWork

LEMMA UneditedStep ==
  ASSUME IInv, UneditedInv, [Next]_vars
  PROVE  UneditedInv'
<1>1. faults'["edit"] = 0 => faults["edit"] = 0
  BY FaultsGrow DEF FaultKind, IInv, TypeOK
<1>. QED BY <1>1, RosterStays, SplitsStep DEF UneditedInv
-----------------------------------------------------------------------------
(* The course of an order that one handler at a time works on: the status, *)
(* the hash and the row it has while the handler is at each point.  What   *)
(* the properties of run two_orders say is read off it.                    *)

(* The transactions sent for an order. *)
SentFor(h, o) == Used(h) /\ tx[h].order = o
Unsent(o) == settlement[o] = None /\ \A h \in Hash : ~SentFor(h, o)

(* A handler between its start and the call of the contract carries no     *)
(* hash; recovery never finds one on an order it takes up, so it neither   *)
(* verifies a hash nor puts an order back.                                 *)
UnhashedPc == {"claim", "roster", "trustlines", "precheck", "float", "recover",
               "adopt", "settlefirst", "bootcheck"}
HashedPc == {"verify", "reverify", "look", "adoptrow", "requeue"}
OnCourse(j) ==
  LET status == order[j.order].status
  IN /\ j.pc \notin HashedPc /\ j.catch = "fail"
     /\ j.pc = "claim" => status \in {"PAYMENT_RECEIVED", "WAITING_WALLET"}
     /\ j.pc = "fail" => status = "SETTLEMENT_PENDING" \/ faults["db"] > 0
     /\ j.pc \in {"reread", "record", "mark"} => status \in {"SETTLEMENT_PENDING", "SETTLED"}
     /\ j.pc \notin {"claim", "fail", "reread", "record", "mark"}
          => status = "SETTLEMENT_PENDING"
     /\ j.pc = "settlefirst" \/ (j.pc \in {"reread", "record"} /\ status = "SETTLED")
          => settlement[j.order] = None
     /\ j.pc \in UnhashedPc => j.hash = None
     /\ j.pc = "reread" => j.hash = Placeholder
     /\ j.pc \in {"record", "mark"} /\ j.hash \in Hash => Succeeded(j.hash)

(* An order has a hash only once it is decided, and a row that of a        *)
(* success.                                                                *)
RowsOnCourse(o) ==
  /\ order[o].hash # None => order[o].status \in {"SETTLED", "SETTLEMENT_FAILED"}
  /\ settlement[o] # None /\ settlement[o].hash \in Hash => Succeeded(settlement[o].hash)

(* As long as no request has failed and the process has not died, a        *)
(* handler sends one transaction, and knows what became of it before it    *)
(* records it or fails the order.                                          *)
UnsentPc == {"claim", "roster", "trustlines", "precheck", "float", "invoke", "send", "fail"}
FirstTry(j) ==
  /\ j.pc \in UnsentPc \cup {"poll", "failtx", "record", "mark"}
  /\ j.pc \in UnsentPc => Unsent(j.order)
  /\ j.pc \in {"poll", "failtx", "record"} =>
       settlement[j.order] = None /\ \A h \in Hash : SentFor(h, j.order) => h = j.hash
  /\ j.pc = "poll" => tx[j.hash].roster = j.roster
  /\ j.pc = "failtx" => tx[j.hash].state = "failed"
  /\ j.pc = "record" => payout[j.order] = j.roster
FirstRows(o) ==
  /\ order[o].status \in {"ABSENT", "PAYMENT_PENDING", "PAYMENT_RECEIVED", "WAITING_WALLET"}
       => Unsent(o)
  /\ order[o].status = "SETTLEMENT_FAILED" =>
       \A h \in Hash : SentFor(h, o) => tx[h].state = "failed"
  /\ settlement[o] # None => settlement[o].roster = payout[o]

Course(o) ==
  ResumedOnce(o) =>
    /\ RowsOnCourse(o)
    /\ \A a \in Actors : Mine(a) = o => OnCourse(job[a])
    /\ Unbroken => /\ FirstRows(o)
                   /\ \A a \in Actors : Mine(a) = o => FirstTry(job[a])

CourseInv ==
  /\ \A o \in Orders : Course(o)
  /\ \A c \in Calls : Answering(c) => order[call[c].order].status # "ABSENT"
  /\ \A h \in Hash : Succeeded(h) => payout[tx[h].order] = tx[h].roster
  /\ \A p \in Products : roster[p] \notin NoRoster
  /\ faults["crash"] = 0 => todo = {} /\ job[Boot].pc = "idle"

(* What holds of a step as of any: a wallet stays connected, a fault       *)
(* counts, a transaction that succeeded has.                               *)
Ahead ==
  /\ \A o \in Orders : ResumedOnce(o)' => ResumedOnce(o)
  /\ Unbroken' => Unbroken
  /\ faults["db"] > 0 => faults'["db"] > 0
  /\ faults'["crash"] = 0 => faults["crash"] = 0
  /\ \A h \in Hash : Succeeded(h) => Succeeded(h)'

LEMMA ResumedKept ==
  ASSUME IInv, [Next]_vars
  PROVE  \A o \in Orders : ResumedOnce(o)' => ResumedOnce(o)
<1> DEFINE kept == \A k \in Conns, o \in Orders : Resumed(k, o) => Resumed(k, o)'
<1>1. conn \in [Conns -> ConnState]
  BY DEF IInv, TypeOK
<1>2. UNCHANGED conn => kept
  BY DEF Resumed
<1>3. ASSUME NEW k \in Conns, ConnectWallet(k) PROVE kept
  <2>1. conn[k].pc # "done" /\ \A l \in Conns \ {k} : conn'[l] = conn[l]
    BY <1>1, <1>3 DEF ConnectWallet, CheckAddress, CreateWallet, ResumeWaiting
  <2>. QED BY <2>1 DEF Resumed
<1>4. Crash => kept
  BY <1>1 DEF Crash, Resumed
<1>5. ASSUME \/ \E c \in Calls : Webhook(c)
             \/ \E o \in Orders : Checkout(o) \/ DeliverProduct(o)
             \/ \E h \in Hash : Include(h) \/ DropTx(h)
             \/ Requeue \/ UNCHANGED vars
      PROVE  UNCHANGED conn
  BY <1>5 DEF Webhook, CheckRef, ReadOrder, ReadWallet, Claim, AnswerError, Checkout,
              DeliverProduct, Include, DropTx, Requeue, unledgered, unhandled, intakeVars,
              vars
<1>6. Workers \subseteq Actors /\ Boot \in Actors
  BY DEF Actors
<1>7. kept
  <2>. HIDE DEF kept
  <2>. QED BY <1>2, <1>3, <1>4, <1>5, <1>6, AtWorkLeaves, TakeEventStarts, TakeStuckStarts,
              CatalogueLeaves
           DEF Next, Backend, Environment, Handle, Recovery, AtWork
<1>. QED BY <1>7 DEF ResumedOnce

LEMMA SuccessKept ==
  ASSUME IInv, [Next]_vars
  PROVE  \A h \in Hash : Succeeded(h) => Succeeded(h)'
<1> DEFINE kept == \A h \in Hash : Succeeded(h) => Succeeded(h)'
<1>1. tx \in [Hash -> Tx]
  BY DEF IInv, TypeOK
<1>2. UNCHANGED tx => kept
  BY DEF Succeeded
<1>3. ASSUME NEW a \in Actors, NEW h \in Hash, Broadcast(a, h) PROVE kept
  BY <1>1, <1>3 DEF Broadcast, Succeeded
<1>4. ASSUME NEW h \in Hash, Include(h) \/ DropTx(h) PROVE kept
  BY <1>1, <1>4 DEF Include, DropTx, Succeeded
<1>5. Requeue \/ Crash \/ UNCHANGED vars => UNCHANGED tx
  BY DEF Requeue, Crash, vars, ledgerVars
<1>6. Workers \subseteq Actors /\ Boot \in Actors
  BY DEF Actors
<1>7. kept
  <2>. HIDE DEF kept
  <2>. QED BY <1>2, <1>3, <1>4, <1>5, <1>6, AtWorkWrites, TakeEventStarts, TakeStuckStarts,
              CatalogueLeaves, IntakeLeaves
           DEF Next, Backend, Environment, Handle, Recovery, AtWork
<1>. QED BY <1>7

LEMMA StepIsAhead ==
  ASSUME IInv, [Next]_vars
  PROVE  Ahead
<1>1. \A k \in FaultKind : /\ faults[k] \in Nat /\ faults'[k] \in Nat
                           /\ faults'[k] >= faults[k]
  BY FaultsGrow DEF IInv, TypeOK
<1>2. /\ faults["db"] > 0 => faults'["db"] > 0
      /\ faults'["crash"] = 0 => faults["crash"] = 0
  BY <1>1 DEF FaultKind
<1>3. Unbroken' => Unbroken
  <2>1. {"crash", "rpc", "db"} \subseteq FaultKind
    BY DEF FaultKind
  <2>2. \A k \in {"crash", "rpc", "db"} : faults'[k] = 0 => faults[k] = 0
    BY <1>1, <2>1
  <2>. QED BY <2>2 DEF Unbroken
<1>. QED BY <1>2, <1>3, ResumedKept, SuccessKept DEF Ahead

LEMMA StruckIsBroken ==
  ASSUME IInv, NEW k \in {"crash", "rpc", "db"}, Strike(k)
  PROVE  ~Unbroken'
  BY Struck DEF FaultKind, Unbroken

(* A step that leaves the row of an order, its transactions and the        *)
(* handler at work on it alone.                                            *)
Untouched(o) ==
  /\ order'[o] = order[o] /\ settlement'[o] = settlement[o] /\ payout'[o] = payout[o]
  /\ \A a \in Actors : Mine(a)' = o => job'[a] = job[a]
  /\ \A h \in Hash : SentFor(h, o) \/ SentFor(h, o)' => tx'[h] = tx[h]

LEMMA UntouchedJob ==
  ASSUME Ahead, NEW o, Untouched(o), NEW j, j.order = o,
         HashOf(o, j.hash), j.pc \in {"poll", "failtx"} => j.hash \in Hash
  PROVE  /\ OnCourse(j) => OnCourse(j)'
         /\ FirstTry(j) => FirstTry(j)'
<1>1. j.hash \in Hash => SentFor(j.hash, o) /\ tx'[j.hash] = tx[j.hash]
  BY DEF HashOf, SentFor, Untouched
<1>2. \A h \in Hash : SentFor(h, o)' <=> SentFor(h, o)
  BY DEF SentFor, Untouched, Used
<1>3. OnCourse(j) => OnCourse(j)'
  BY <1>1 DEF Ahead, Untouched, OnCourse, Succeeded
<1>4. FirstTry(j) => FirstTry(j)'
  BY <1>1, <1>2 DEF Untouched, FirstTry, Unsent
<1>. QED BY <1>3, <1>4

LEMMA UntouchedCourse ==
  ASSUME IInv, AloneInv, Ahead, NEW o \in Orders, Untouched(o), Course(o)
  PROVE  Course(o)'
<1>1. SUFFICES ASSUME ResumedOnce(o)'
               PROVE  /\ RowsOnCourse(o)'
                      /\ \A a \in Actors : Mine(a)' = o => OnCourse(job[a])'
                      /\ Unbroken' =>
                           /\ FirstRows(o)'
                           /\ \A a \in Actors : Mine(a)' = o => FirstTry(job[a])'
  BY DEF Course
<1>2. ResumedOnce(o)
  BY <1>1 DEF Ahead
<1>3. RowsOnCourse(o)'
  BY <1>2 DEF Course, RowsOnCourse, Untouched, Ahead
<1>4. ASSUME NEW a \in Actors, Mine(a)' = o
      PROVE  OnCourse(job[a])' /\ (Unbroken' => FirstTry(job[a])')
  <2>1. job'[a] = job[a] /\ job[a].order = o
    BY <1>4 DEF Untouched, Mine
  <2>2. HashOf(o, job[a].hash) /\ (job[a].pc \in {"poll", "failtx"} => job[a].hash \in Hash)
    BY <2>1, NoneIsNothing DEF IInv, AloneInv, JobSound
  <2>. QED BY <1>2, <2>1, <2>2, UntouchedJob DEF Course, Ahead, Mine
<1>5. Unbroken' => FirstRows(o)'
  <2>1. \A h \in Hash : SentFor(h, o)' <=> SentFor(h, o)
    BY DEF SentFor, Untouched, Used
  <2>. QED BY <1>2, <2>1 DEF Course, Ahead, FirstRows, Untouched, Unsent
<1>. QED BY <1>3, <1>4, <1>5

(* The order a handler works on: the step keeps it, and the handler if it  *)
(* goes on, on course.                                                     *)
KeepsCourse(a, o) ==
  ResumedOnce(o) /\ RowsOnCourse(o) /\ OnCourse(job[a]) =>
    /\ RowsOnCourse(o)'
    /\ Mine(a)' = o => OnCourse(job[a])'
    /\ Unbroken /\ Unbroken' /\ FirstRows(o) /\ FirstTry(job[a]) =>
         FirstRows(o)' /\ (Mine(a)' = o => FirstTry(job[a])')

LEMMA OwnCourse ==
  ASSUME AloneInv, Ahead, NEW a \in Actors, JobStays(a),
         NEW o \in Orders, Mine(a) = o, Course(o), KeepsCourse(a, o)
  PROVE  Course(o)'
<1>1. SUFFICES ASSUME ResumedOnce(o)'
               PROVE  /\ RowsOnCourse(o)'
                      /\ \A b \in Actors : Mine(b)' = o => OnCourse(job[b])'
                      /\ Unbroken' =>
                           /\ FirstRows(o)'
                           /\ \A b \in Actors : Mine(b)' = o => FirstTry(job[b])'
  BY DEF Course
<1>2. ResumedOnce(o) /\ Alone(o)
  BY <1>1 DEF Ahead, AloneInv
<1>3. \A b \in Actors : Mine(b)' = o => b = a
  BY <1>2 DEF Alone, JobStays, Mine
<1>4. /\ RowsOnCourse(o) /\ OnCourse(job[a])
      /\ Unbroken' => Unbroken /\ FirstRows(o) /\ FirstTry(job[a])
  BY <1>2 DEF Course, Ahead
<1>. QED BY <1>2, <1>3, <1>4 DEF KeepsCourse

LEMMA ElsewhereUntouched ==
  ASSUME IInv, NEW a \in Actors, AtWork(a), NEW o \in Orders, Mine(a) # o
  PROVE  Untouched(o)
<1>1. order'[o] = order[o] /\ settlement'[o] = settlement[o] /\ payout'[o] = payout[o]
  <2>1. RowWritten(a) => settlement'[o] = settlement[o]
    BY DEF RowWritten, IInv, TypeOK
  <2>. QED BY <2>1, AtWorkWrites, AtWorkRoster
<1>2. \A b \in Actors : Mine(b)' = o => job'[b] = job[b]
  BY AtWorkStays, NoneIsNothing DEF JobStays, Mine
<1>3. ASSUME NEW g \in Hash, SentFor(g, o) \/ SentFor(g, o)' PROVE tx'[g] = tx[g]
  <2>1. ASSUME NEW h \in Hash, Broadcast(a, h) PROVE tx'[g] = tx[g]
    <3>1. tx'[h].order = Mine(a) /\ ~Used(h) /\ \A i \in Hash \ {h} : tx'[i] = tx[i]
      BY <2>1 DEF Broadcast, Used, IInv, TypeOK
    <3>. QED BY <1>3, <3>1 DEF SentFor
  <2>. QED BY <2>1, AtWorkWrites
<1>. QED BY <1>1, <1>2, <1>3 DEF Untouched

(* A step that moves the handler and writes nothing. *)
Alike == UNCHANGED <<order, settlement, tx, payout>>

LEMMA AlikeKeeps ==
  ASSUME Alike, Ahead, NEW a, NEW o,
         OnCourse(job[a]) => (Mine(a)' = o => OnCourse(job[a])'),
         OnCourse(job[a]) /\ Unbroken' /\ FirstTry(job[a])
           => (Mine(a)' = o => FirstTry(job[a])')
  PROVE  KeepsCourse(a, o)
<1>1. RowsOnCourse(o) => RowsOnCourse(o)'
  BY DEF Alike, RowsOnCourse, Succeeded
<1>2. FirstRows(o) => FirstRows(o)'
  BY DEF Alike, FirstRows, Unsent, SentFor, Used
<1>. QED BY <1>1, <1>2 DEF KeepsCourse

LEMMA StillUnsent ==
  ASSUME Alike, NEW a, NEW p, NEW r, NEW h, Became(a, p, r, h), p \in UnsentPc,
         job[a].pc \in UnsentPc, FirstTry(job[a])
  PROVE  FirstTry(job[a])'
<1>1. Unsent(job[a].order)
  BY DEF FirstTry
<1>2. job'[a].order = job[a].order /\ job'[a].pc = p
  BY DEF Became
<1>3. settlement'[job'[a].order] = None /\ \A g \in Hash : ~SentFor(g, job[a].order)'
  BY <1>1, <1>2 DEF Unsent, SentFor, Used, Alike
<1>4. Unsent(job[a].order)'
  BY <1>3 DEF Unsent
<1>. QED BY <1>2, <1>4 DEF FirstTry, UnsentPc

LEMMA UnsentIsUnpaid ==
  ASSUME IInv, NEW o \in Orders, Unsent(o)
  PROVE  ~PaidOut(o)
  BY DEF IInv, TxPays, Unsent, SentFor, Used

LEMMA AlikeSteps ==
  ASSUME NEW a,
         \/ LoadCollaborators(a) \/ CheckTrustlines(a) \/ PreCheck(a) \/ CheckFloat(a)
         \/ Simulate(a) \/ Poll(a) \/ Recover(a) \/ Reread(a) \/ DbError(a) \/ CheckUnhashed
  PROVE  Alike
  BY DEF LoadCollaborators, CheckTrustlines, PreCheck, CheckFloat, Simulate, Poll, Recover,
         Reread, DbError, CheckUnhashed, Alike, dbVars, ledgerVars

(* Up to the call of the contract nothing has been sent. *)
LEMMA PrepareKeeps ==
  ASSUME IInv, Ahead, NEW a \in Actors, NEW o \in Orders, Mine(a) = o, Prepare(a)
  PROVE  KeepsCourse(a, o)
<1>1. CASE MarkPending(a)
  <2>1. job[a].pc = "claim" /\ order' = [order EXCEPT ![o].status = "SETTLEMENT_PENDING"]
    BY <1>1 DEF MarkPending, At, SetStatus
  <2>2. UNCHANGED <<settlement, tx, payout>> /\ To(a, "roster")
    BY <1>1, PrepareBecomes DEF MarkPending, ledgerVars
  <2>3. order'[o].status = "SETTLEMENT_PENDING" /\ order'[o].hash = order[o].hash
    BY <2>1 DEF IInv, TypeOK, OrderRow
  <2>4. SUFFICES ASSUME RowsOnCourse(o), OnCourse(job[a])
                 PROVE  /\ RowsOnCourse(o)' /\ OnCourse(job[a])'
                        /\ FirstTry(job[a]) => FirstRows(o)' /\ FirstTry(job[a])'
    BY DEF KeepsCourse
  <2>5. RowsOnCourse(o)'
    BY <2>1, <2>2, <2>3, <2>4 DEF RowsOnCourse, OnCourse, Succeeded, Mine
  <2>6. OnCourse(job[a])'
    BY <2>1, <2>2, <2>3, <2>4 DEF OnCourse, To, Became, Mine, HashedPc, UnhashedPc
  <2>7. ASSUME FirstTry(job[a]) PROVE FirstRows(o)' /\ FirstTry(job[a])'
    <3>1. Unsent(o)
      BY <2>1, <2>7 DEF FirstTry, UnsentPc, Mine
    <3>2. Unsent(o)'
      BY <2>2, <3>1 DEF Unsent, SentFor, Used
    <3>3. job'[a].order = o /\ job'[a].pc = "roster"
      BY <2>2 DEF To, Became, Mine
    <3>. QED BY <2>3, <3>2, <3>3 DEF FirstRows, FirstTry, UnsentPc, Unsent
  <2>. QED BY <2>5, <2>6, <2>7
<1>2. CASE LoadCollaborators(a) \/ CheckTrustlines(a) \/ PreCheck(a) \/ CheckFloat(a)
  <2>1. Alike
    BY <1>2, AlikeSteps
  <2>2. job[a].pc \in {"roster", "trustlines", "precheck", "float"}
    BY <1>2 DEF LoadCollaborators, CheckTrustlines, PreCheck, CheckFloat, At
  <2>3. \E p \in {"trustlines", "precheck", "float", "invoke", "fail", "recover"} : \E r :
          /\ Became(a, p, r, job[a].hash)
          /\ p \in UnhashedPc => job[a].pc \in UnhashedPc
          /\ p = "recover" => PaidOut(o)
    BY <1>2, <2>2, PrepareBecomes DEF To, UnhashedPc
  <2>4. PICK p \in {"trustlines", "precheck", "float", "invoke", "fail", "recover"} : \E r :
          /\ Became(a, p, r, job[a].hash)
          /\ p \in UnhashedPc => job[a].pc \in UnhashedPc
          /\ p = "recover" => PaidOut(o)
    BY <2>3
  <2>5. OnCourse(job[a]) => OnCourse(job[a])'
    BY <2>1, <2>2, <2>4 DEF OnCourse, Became, Alike, UnhashedPc, HashedPc
  <2>6. ASSUME FirstTry(job[a]) PROVE FirstTry(job[a])'
    <3>1. job[a].pc \in UnsentPc /\ Unsent(o)
      BY <2>2, <2>6 DEF FirstTry, UnsentPc, Mine
    <3>2. p \in UnsentPc
      BY <2>4, <3>1, UnsentIsUnpaid DEF UnsentPc
    <3>. QED BY <2>1, <2>4, <2>6, <3>1, <3>2, StillUnsent
  <2>. QED BY <2>1, <2>5, <2>6, AlikeKeeps
<1>. QED BY <1>1, <1>2 DEF Prepare

(* The contract has paid the split of the transaction that succeeded. *)
PaidRight == \A h \in Hash : Succeeded(h) => payout[tx[h].order] = tx[h].roster

LEMMA InvokeKeeps ==
  ASSUME IInv, PaidRight, Ahead, NEW a \in Actors, NEW o \in Orders, Mine(a) = o, Invoke(a)
  PROVE  KeepsCourse(a, o)
<1>1. JobSound(job[a]) /\ tx \in [Hash -> Tx]
  BY DEF IInv, TypeOK
<1>2. Strike("rpc") => ~Unbroken'
  BY StruckIsBroken
<1>3. CASE Simulate(a)
  <2>1. Alike /\ job[a].pc = "invoke"
    BY <1>3, AlikeSteps DEF Simulate, At
  <2>2. To(a, "send") \/ To(a, "fail") \/ (To(a, "invoke") /\ ~Unbroken')
    BY <1>2, <1>3, InvokeBecomes
  <2>3. OnCourse(job[a]) => OnCourse(job[a])'
    BY <2>1, <2>2 DEF OnCourse, To, Became, Alike, UnhashedPc, HashedPc
  <2>4. FirstTry(job[a]) => FirstTry(job[a])' \/ ~Unbroken'
    BY <2>1, <2>2, StillUnsent DEF To, UnsentPc
  <2>. QED BY <2>1, <2>3, <2>4, AlikeKeeps
<1>4. CASE Poll(a)
  <2>1. Alike /\ job[a].pc = "poll"
    BY <1>4, AlikeSteps DEF Poll, At
  <2>2. \/ Succeeded(job[a].hash) /\ To(a, "record")
        \/ tx[job[a].hash].state = "failed" /\ To(a, "failtx")
        \/ Ended(a)
        \/ ~Unbroken' /\ (To(a, "invoke") \/ To(a, "fail"))
    BY <1>2, <1>4, InvokeBecomes
  <2>3. Ended(a) => Mine(a)' # o
    BY NoneIsNothing DEF Ended, NoJob, Mine
  <2>4. OnCourse(job[a]) => (Mine(a)' = o => OnCourse(job[a])')
    BY <2>1, <2>2, <2>3 DEF OnCourse, To, Became, Alike, UnhashedPc, HashedPc, Succeeded
  <2>5. ASSUME Unbroken', FirstTry(job[a]), Mine(a)' = o PROVE FirstTry(job[a])'
    <3>1. job[a].hash \in Hash /\ tx[job[a].hash].order = o
      BY <1>1, <2>1 DEF JobSound, HashOf, Mine
    <3>2. /\ settlement[o] = None /\ tx[job[a].hash].roster = job[a].roster
          /\ \A h \in Hash : SentFor(h, o) => h = job[a].hash
      BY <2>1, <2>5 DEF FirstTry, Mine
    <3>3. Succeeded(job[a].hash) => payout[o] = job[a].roster
      BY <3>1, <3>2 DEF PaidRight
    <3>4. \A h \in Hash : SentFor(h, o)' => SentFor(h, o)
      BY <2>1 DEF Alike, SentFor, Used
    <3>5. job'[a].order = o /\ job'[a].hash = job[a].hash /\ job'[a].roster = job[a].roster
          /\ \/ job'[a].pc = "record" /\ Succeeded(job[a].hash)
             \/ job'[a].pc = "failtx" /\ tx[job[a].hash].state = "failed"
      BY <2>2, <2>3, <2>5 DEF To, Became, Mine
    <3>. QED BY <2>1, <3>2, <3>3, <3>4, <3>5 DEF FirstTry, UnsentPc, Alike, SentFor, Used
  <2>. QED BY <2>1, <2>4, <2>5, AlikeKeeps
<1>5. CASE Send(a)
  <2>1. job[a].pc = "send" /\ UNCHANGED <<order, settlement, payout>>
    BY <1>5 DEF Send, At, dbVars
  <2>2. \E p \in {"poll", "fail", "invoke"} : \E h : Became(a, p, job[a].roster, h)
    BY <1>5, SendBecomes DEF To
  <2>3. OnCourse(job[a]) => OnCourse(job[a])'
    BY <2>1, <2>2 DEF OnCourse, Became, UnhashedPc, HashedPc
  <2>4. RowsOnCourse(o) => RowsOnCourse(o)'
    BY <2>1 DEF RowsOnCourse, Ahead
  <2>5. ASSUME OnCourse(job[a]), Unbroken', FirstRows(o), FirstTry(job[a])
        PROVE  FirstRows(o)' /\ FirstTry(job[a])'
    <3>1. Unsent(o) /\ order[o].status = "SETTLEMENT_PENDING"
      BY <2>1, <2>5 DEF FirstTry, UnsentPc, OnCourse, Mine
    <3>2. FirstRows(o)'
      BY <2>1, <2>5, <3>1 DEF FirstRows
    <3>3. ASSUME NEW h \in Hash, Broadcast(a, h), Became(a, "poll", job[a].roster, h)
          PROVE  FirstTry(job[a])'
      <4>1. tx'[h].roster = job[a].roster /\ \A g \in Hash \ {h} : tx'[g] = tx[g]
        BY <1>1, <3>3 DEF Broadcast
      <4>2. \A g \in Hash : SentFor(g, o)' => g = h
        BY <3>1, <4>1 DEF Unsent, SentFor, Used
      <4>3. /\ job'[a].order = o /\ job'[a].pc = "poll" /\ job'[a].hash = h
            /\ job'[a].roster = job[a].roster
        BY <3>3 DEF Became, Mine
      <4>. QED BY <2>1, <3>1, <4>1, <4>2, <4>3 DEF FirstTry, UnsentPc, Unsent, SentFor, Used
    <3>4. ASSUME NEW h \in Hash,
                 tx[h] = [state |-> "pending", order |-> Mine(a),
                          roster |-> job[a].roster, seq |-> job[a].seq]
          PROVE  FALSE
      BY <3>1, <3>4 DEF Unsent, SentFor, Used
    <3>5. CASE To(a, "fail") /\ UNCHANGED tx
      BY <2>1, <2>5, <3>2, <3>5, StillUnsent DEF To, UnsentPc, Alike
    <3>. QED BY <1>2, <1>5, <2>5, <3>2, <3>3, <3>4, <3>5, SendBecomes
  <2>. QED BY <2>3, <2>4, <2>5 DEF KeepsCourse
<1>. QED BY <1>3, <1>4, <1>5 DEF Invoke

(* The steps that catch up with a payment, and those that record one. *)
LEMMA CatchUpKeeps ==
  ASSUME IInv, Ahead, NEW a \in Actors, NEW o \in Orders, Mine(a) = o, CatchUp(a)
  PROVE  KeepsCourse(a, o)
<1>1. order \in [Orders -> OrderRow]
  BY DEF IInv, TypeOK
<1>2. job[a].pc \in {"recover", "adopt", "settlefirst"} /\ ~FirstTry(job[a])
  BY DEF CatchUp, Recover, AdoptRow, SettleFirst, At, FirstTry, UnsentPc
<1>3. CASE Recover(a)
  <2>1. Alike /\ job[a].pc = "recover"
    BY <1>3, AlikeSteps DEF Recover, At
  <2>2. OnCourse(job[a]) => OnCourse(job[a])'
    BY <1>3, <2>1, RecordingBecomes
    DEF OnCourse, To, Became, Alike, UnhashedPc, HashedPc, Mine
  <2>. QED BY <1>2, <2>1, <2>2, AlikeKeeps
<1>4. CASE AdoptRow(a)
  <2>1. /\ Ended(a) /\ UNCHANGED settlement
        /\ order' = [order EXCEPT ![o].status = "SETTLED", ![o].hash = settlement[o].hash]
    BY <1>4, RecordingBecomes DEF AdoptRow
  <2>2. order' = [order EXCEPT ![o] = [order[o] EXCEPT !.status = "SETTLED",
                                                       !.hash = settlement[o].hash]]
    BY <2>1, Zenon
  <2>3. order'[o].status = "SETTLED" /\ Mine(a)' # o
    BY <1>1, <2>1, <2>2, NoneIsNothing DEF OrderRow, Ended, NoJob, Mine
  <2>. QED BY <1>2, <2>1, <2>3 DEF KeepsCourse, RowsOnCourse, Ahead
<1>5. CASE SettleFirst(a)
  <2>1. /\ Became(a, "reread", job[a].roster, Placeholder) /\ UNCHANGED settlement
        /\ order' = [order EXCEPT ![o].status = "SETTLED"] /\ job[a].pc = "settlefirst"
    BY <1>5, RecordingBecomes DEF SettleFirst, SetStatus, At
  <2>2. order'[o].status = "SETTLED"
    BY <1>1, <2>1 DEF OrderRow
  <2>3. OnCourse(job[a]) => OnCourse(job[a])'
    BY <2>1, <2>2 DEF OnCourse, Became, UnhashedPc, HashedPc, Mine
  <2>4. RowsOnCourse(o) => RowsOnCourse(o)'
    BY <2>1, <2>2 DEF RowsOnCourse, Ahead
  <2>. QED BY <1>2, <2>3, <2>4 DEF KeepsCourse
<1>. QED BY <1>3, <1>4, <1>5 DEF CatchUp

LEMMA RecordingKeeps ==
  ASSUME IInv, Ahead, \A p \in Products : roster[p] \notin NoRoster,
         NEW a \in Actors, NEW o \in Orders, Mine(a) = o, Recording(a) \/ FailWithHash(a)
  PROVE  KeepsCourse(a, o)
<1>1. /\ order \in [Orders -> OrderRow] /\ settlement \in [Orders -> SettlementRow \cup {None}]
      /\ JobSound(job[a])
  BY DEF IInv, TypeOK
<1>2. Ended(a) => Mine(a)' # o
  BY NoneIsNothing DEF Ended, NoJob, Mine
<1>3. CASE Reread(a)
  <2>1. Alike /\ job[a].pc = "reread" /\ ~FirstTry(job[a])
    BY <1>3, AlikeSteps DEF Reread, At, FirstTry, UnsentPc
  <2>2. SplitOf(o) \notin NoRoster
    BY ProductOfType DEF SplitOf
  <2>3. Became(a, "record", SplitOf(o), job[a].hash)
    BY <1>3, <2>2, RecordingBecomes
  <2>4. OnCourse(job[a]) => OnCourse(job[a])'
    BY <2>1, <2>3, PlaceholderIsNoHash DEF OnCourse, Became, Alike, UnhashedPc, HashedPc
  <2>. QED BY <2>1, <2>4, AlikeKeeps
<1>4. CASE Record(a)
  <2>1. job[a].pc = "record" /\ UNCHANGED <<order, tx, payout>>
    BY <1>4 DEF Record, At, ledgerVars
  <2>2. CASE settlement[o] # None
    <3>1. Alike /\ (To(a, job[a].catch) \/ Ended(a))
      BY <1>4, <2>1, <2>2, RecordingBecomes DEF Record, Alike, Unrecorded
    <3>2. OnCourse(job[a]) => (Mine(a)' = o => OnCourse(job[a])')
      BY <1>2, <2>1, <2>2, <3>1
      DEF OnCourse, To, Became, Alike, UnhashedPc, HashedPc, Mine
    <3>3. ~FirstTry(job[a])
      BY <2>1, <2>2 DEF FirstTry, Mine
    <3>. QED BY <3>1, <3>2, <3>3, AlikeKeeps
  <2>3. CASE settlement[o] = None
    <3>1. To(a, "mark") /\ settlement' = [settlement EXCEPT ![o] = Row(a)]
      BY <1>4, <2>3, RecordingBecomes DEF Record, Unrecorded
    <3>2. settlement'[o].hash = job[a].hash /\ settlement'[o].roster = job[a].roster
      BY <1>1, <3>1 DEF Row
    <3>3. SUFFICES ASSUME RowsOnCourse(o), OnCourse(job[a])
                   PROVE  /\ RowsOnCourse(o)' /\ OnCourse(job[a])'
                          /\ FirstTry(job[a]) => FirstRows(o)' /\ FirstTry(job[a])'
      BY DEF KeepsCourse
    <3>4. RowsOnCourse(o)'
      BY <2>1, <3>2, <3>3 DEF RowsOnCourse, OnCourse, Ahead
    <3>5. OnCourse(job[a])'
      BY <2>1, <3>1, <3>3 DEF OnCourse, To, Became, UnhashedPc, HashedPc, Succeeded
    <3>6. ASSUME FirstTry(job[a]) PROVE FirstRows(o)' /\ FirstTry(job[a])'
      <4>1. order'[o].status \in {"SETTLEMENT_PENDING", "SETTLED"}
        BY <2>1, <3>3 DEF OnCourse, Mine
      <4>2. settlement'[o].roster = payout'[o]
        BY <2>1, <3>2, <3>6 DEF FirstTry, Mine
      <4>3. job'[a].pc = "mark"
        BY <3>1 DEF To, Became
      <4>. QED BY <4>1, <4>2, <4>3 DEF FirstRows, FirstTry, UnsentPc
    <3>. QED BY <3>4, <3>5, <3>6
  <2>. QED BY <2>2, <2>3
<1>5. CASE MarkSettled(a) \/ FailWithHash(a)
  <2>1. UNCHANGED <<settlement, tx, payout>> /\ Ended(a)
    BY <1>5, RecordingBecomes DEF MarkSettled, FailWithHash, ledgerVars
  <2>2. PICK s \in {"SETTLED", "SETTLEMENT_FAILED"} :
          /\ order' = [order EXCEPT ![o].status = s, ![o].hash = job[a].hash]
          /\ s = "SETTLEMENT_FAILED" => job[a].pc = "failtx"
    BY <1>5 DEF MarkSettled, FailWithHash, At
  <2>3. order' = [order EXCEPT ![o] = [order[o] EXCEPT !.status = s, !.hash = job[a].hash]]
    BY <2>2, Zenon
  <2>4. order'[o].status = s
    BY <1>1, <2>3 DEF OrderRow
  <2>5. RowsOnCourse(o) => RowsOnCourse(o)'
    BY <2>1, <2>4 DEF RowsOnCourse, Ahead
  <2>6. ASSUME FirstRows(o), FirstTry(job[a]) PROVE FirstRows(o)'
    <3>1. s = "SETTLEMENT_FAILED" =>
            \A h \in Hash : SentFor(h, o) => tx[h].state = "failed"
      BY <2>2, <2>6 DEF FirstTry, Mine
    <3>. QED BY <2>1, <2>4, <2>6, <3>1 DEF FirstRows, SentFor, Used
  <2>. QED BY <1>2, <2>1, <2>5, <2>6 DEF KeepsCourse
<1>6. CASE Fail(a)
  <2>1. /\ UNCHANGED <<settlement, tx, payout>> /\ Ended(a) /\ job[a].pc = "fail"
        /\ order' = [order EXCEPT ![o].status = "SETTLEMENT_FAILED"]
    BY <1>6, RecordingBecomes DEF Fail, SetStatus, At, ledgerVars
  <2>2. order'[o].status = "SETTLEMENT_FAILED"
    BY <1>1, <2>1 DEF OrderRow
  <2>3. RowsOnCourse(o) => RowsOnCourse(o)'
    BY <2>1, <2>2 DEF RowsOnCourse, Ahead
  <2>4. ASSUME FirstRows(o), FirstTry(job[a]) PROVE FirstRows(o)'
    <3>1. Unsent(o)
      BY <2>1, <2>4 DEF FirstTry, UnsentPc, Mine
    <3>. QED BY <2>1, <2>2, <3>1 DEF FirstRows, Unsent, SentFor, Used
  <2>. QED BY <1>2, <2>1, <2>3, <2>4 DEF KeepsCourse
<1>. QED BY <1>3, <1>4, <1>5, <1>6 DEF Recording

LEMMA ErrorKeeps ==
  ASSUME IInv, Ahead, NEW a \in Actors, NEW o \in Orders, Mine(a) = o, DbError(a)
  PROVE  KeepsCourse(a, o)
<1>1. /\ Alike /\ (To(a, job[a].catch) \/ Ended(a))
      /\ ~Unbroken' /\ faults'["db"] > 0
  BY AlikeSteps, RecordingBecomes, StruckIsBroken, Struck DEF DbError, FaultKind
<1>2. OnCourse(job[a]) => (Mine(a)' = o => OnCourse(job[a])')
  BY <1>1, NoneIsNothing
  DEF OnCourse, To, Became, Ended, NoJob, UnhashedPc, HashedPc, Mine
<1>. QED BY <1>1, <1>2, AlikeKeeps

LEMMA BootKeeps ==
  ASSUME IInv, Ahead, NEW o \in Orders, Mine(Boot) = o,
         CheckUnhashed \/ Verify \/ Reverify \/ LookForRow \/ BootAdoptRow \/ Requeue
  PROVE  KeepsCourse(Boot, o)
<1>1. CASE CheckUnhashed
  <2>1. Alike /\ job[Boot].pc = "bootcheck" /\ ~FirstTry(job[Boot])
    BY <1>1, AlikeSteps DEF CheckUnhashed, At, FirstTry, UnsentPc
  <2>2. Became(Boot, "reread", job[Boot].roster, Placeholder) \/ To(Boot, "fail")
    BY <1>1, BootBecomes
  <2>3. OnCourse(job[Boot]) => OnCourse(job[Boot])'
    BY <2>1, <2>2 DEF OnCourse, To, Became, Alike, UnhashedPc, HashedPc
  <2>. QED BY <2>1, <2>3, AlikeKeeps
<1>2. CASE Verify \/ Reverify \/ LookForRow \/ BootAdoptRow \/ Requeue
  BY <1>2 DEF Verify, Reverify, LookForRow, BootAdoptRow, Requeue, At, KeepsCourse, OnCourse,
              HashedPc
<1>. QED BY <1>1, <1>2

(* A handler at work keeps every order on course: the one it works on, and *)
(* the others, which it leaves alone.                                      *)
LEMMA AtWorkCourse ==
  ASSUME IInv, AloneInv, CourseInv, Ahead, NEW a \in Actors, AtWork(a), NEW o \in Orders
  PROVE  Course(o)'
<1>1. CASE Mine(a) # o
  BY <1>1, ElsewhereUntouched, UntouchedCourse DEF CourseInv
<1>2. CASE Mine(a) = o
  <2>1. PaidRight /\ \A p \in Products : roster[p] \notin NoRoster
    BY DEF CourseInv, PaidRight
  <2>2. KeepsCourse(a, o)
    BY <1>2, <2>1, PrepareKeeps, InvokeKeeps, CatchUpKeeps, RecordingKeeps, ErrorKeeps, BootKeeps
    DEF AtWork
  <2>. QED BY <1>2, <2>2, AtWorkStays, OwnCourse DEF CourseInv
<1>. QED BY <1>1, <1>2

LEMMA RequeueCourse ==
  ASSUME IInv, AloneInv, CourseInv, Ahead, Requeue, NEW o \in Orders
  PROVE  Course(o)'
<1>1. /\ Boot \in Actors /\ job[Boot].pc = "requeue" /\ Done(Boot)
      /\ UNCHANGED <<settlement, tx, payout>>
      /\ order' = [order EXCEPT ![Mine(Boot)].status = "PAYMENT_RECEIVED",
                                ![Mine(Boot)].hash = None]
  BY DEF Requeue, At, ledgerVars, Actors
<1>2. JobStays(Boot)
  BY <1>1, DoneStays
<1>3. CASE Mine(Boot) = o
  BY <1>1, <1>2, <1>3, BootKeeps, OwnCourse DEF CourseInv
<1>4. CASE Mine(Boot) # o
  <2>1. order'[o] = order[o]
    <3>1. order' = [order EXCEPT ![Mine(Boot)] =
                      [order[Mine(Boot)] EXCEPT !.status = "PAYMENT_RECEIVED", !.hash = None]]
      BY <1>1, Zenon
    <3>. QED BY <1>4, <3>1 DEF IInv, TypeOK
  <2>2. Untouched(o)
    BY <1>1, <1>2, <1>4, <2>1, NoneIsNothing DEF Untouched, JobStays, Mine
  <2>. QED BY <2>2, UntouchedCourse DEF CourseInv
<1>. QED BY <1>3, <1>4

(* A handler takes up an order that nobody works on, and that waits for    *)
(* one.                                                                    *)
LEMMA TakenCourse ==
  ASSUME IInv, AloneInv, CourseInv, Ahead, Alike, NEW a \in Actors, NEW x \in Orders, NEW p,
         Started(a, x, p),
         ResumedOnce(x) => \A b \in Actors : Mine(b) # x,
         \/ /\ p = "claim" /\ order[x].status \in {"PAYMENT_RECEIVED", "WAITING_WALLET"}
         \/ /\ p = "fail" /\ faults'["db"] > 0 /\ ~Unbroken'
         \/ /\ order[x].status = "SETTLEMENT_PENDING" /\ ~Unbroken'
            /\ p = IF order[x].hash = None THEN "bootcheck" ELSE "verify",
         NEW o \in Orders
  PROVE  Course(o)'
<1>1. /\ job'[a].pc = p /\ job'[a].order = x /\ job'[a].hash = order[x].hash
      /\ job'[a].catch = "fail" /\ \A b \in Actors \ {a} : job'[b] = job[b]
  BY DEF Started
<1>2. CASE o # x
  <2>1. Untouched(o)
    BY <1>1, <1>2 DEF Untouched, Alike, Mine
  <2>. QED BY <2>1, UntouchedCourse DEF CourseInv
<1>3. CASE o = x
  <2>1. SUFFICES ASSUME ResumedOnce(o)'
                 PROVE  /\ RowsOnCourse(o)' /\ OnCourse(job[a])'
                        /\ Unbroken' => FirstRows(o)' /\ FirstTry(job[a])'
    <3>1. ResumedOnce(o)' => \A b \in Actors : Mine(b)' = o => b = a
      BY <1>1, <1>3 DEF Mine, Ahead
    <3>. QED BY <3>1 DEF Course
  <2>2. RowsOnCourse(o) /\ (Unbroken' => FirstRows(o))
    BY <2>1 DEF CourseInv, Course, Ahead
  <2>3. RowsOnCourse(o)' /\ (Unbroken' => FirstRows(o)')
    BY <2>2 DEF RowsOnCourse, FirstRows, Unsent, SentFor, Used, Succeeded, Alike
  <2>4. OnCourse(job[a])'
    BY <1>1, <1>3, <2>2 DEF OnCourse, RowsOnCourse, Alike, UnhashedPc, HashedPc
  <2>5. ASSUME Unbroken' PROVE FirstTry(job[a])'
    <3>1. p = "claim" /\ Unsent(o)
      BY <1>3, <2>2, <2>5 DEF FirstRows
    <3>2. Unsent(o)'
      BY <3>1 DEF Unsent, SentFor, Used, Alike
    <3>. QED BY <1>1, <1>3, <3>1, <3>2 DEF FirstTry, UnsentPc, Unsent
  <2>. QED BY <2>3, <2>4, <2>5
<1>. QED BY <1>2, <1>3

LEMMA MayBeSettled ==
  ASSUME NEW s, CanTransition(s, "SETTLEMENT_PENDING")
  PROVE  s \in {"PAYMENT_RECEIVED", "WAITING_WALLET"}
  BY DEF CanTransition, Transitions

LEMMA AlikeCourse ==
  ASSUME IInv, AloneInv, CourseInv, Ahead, Alike, UNCHANGED job, NEW o \in Orders
  PROVE  Course(o)'
<1>1. Untouched(o)
  BY DEF Untouched, Alike
<1>. QED BY <1>1, UntouchedCourse DEF CourseInv

LEMMA TakeEventCourse ==
  ASSUME IInv, AloneInv, CourseInv, Ahead, NEW w \in Workers, TakeEvent(w), NEW o \in Orders
  PROVE  Course(o)'
<1>1. w \in Actors /\ Alike /\ received \in [Orders -> Nat]
  BY TakeEventStarts DEF Actors, Alike, IInv, TypeOK
<1>2. CASE UNCHANGED job
  BY <1>1, <1>2, AlikeCourse
<1>3. ASSUME NEW x \in Orders, received[x] > 0,
             \/ /\ CanTransition(order[x].status, "SETTLEMENT_PENDING")
                /\ Started(w, x, "claim")
             \/ Strike("db") /\ Started(w, x, "fail")
      PROVE  Course(o)'
  <2>1. ResumedOnce(x) => \A b \in Actors : Mine(b) # x
    BY <1>1, <1>3 DEF AloneInv, Alone
  <2>2. Strike("db") => ~Unbroken' /\ faults'["db"] > 0
    BY StruckIsBroken, Struck DEF FaultKind
  <2>3. CASE CanTransition(order[x].status, "SETTLEMENT_PENDING") /\ Started(w, x, "claim")
    BY <1>1, <2>1, <2>3, MayBeSettled, TakenCourse
  <2>4. CASE Strike("db") /\ Started(w, x, "fail")
    BY <1>1, <2>1, <2>2, <2>4, TakenCourse
  <2>. QED BY <1>3, <2>3, <2>4
<1>. QED BY <1>2, <1>3, TakeEventStarts

LEMMA TakeStuckCourse ==
  ASSUME IInv, AloneInv, CourseInv, Ahead, TakeStuck, NEW o \in Orders
  PROVE  Course(o)'
<1>1. Boot \in Actors /\ Alike /\ todo # {} /\ todo \subseteq Orders
  BY TakeStuckStarts DEF Actors, Alike, IInv, TypeOK
<1>2. ~Unbroken'
  BY <1>1 DEF CourseInv, Ahead, Unbroken
<1>3. CASE UNCHANGED job
  BY <1>1, <1>3, AlikeCourse
<1>4. ASSUME NEW x \in todo, order[x].status = "SETTLEMENT_PENDING",
             Started(Boot, x, IF order[x].hash = None THEN "bootcheck" ELSE "verify")
      PROVE  Course(o)'
  <2>1. x \in Orders /\ \A b \in Actors : Mine(b) # x
    BY <1>1, <1>4 DEF AloneInv, Quiet
  <2>2. PICK p : p = IF order[x].hash = None THEN "bootcheck" ELSE "verify"
    OBVIOUS
  <2>. QED BY <1>1, <1>2, <1>4, <2>1, <2>2, TakenCourse
<1>. QED BY <1>3, <1>4, TakeStuckStarts

LEMMA CrashCourse ==
  ASSUME IInv, AloneInv, CourseInv, Ahead, Crash, NEW o \in Orders
  PROVE  Course(o)'
<1>1. Alike /\ ~Unbroken' /\ \A a \in Actors : Mine(a)' # o
  BY StruckIsBroken, NoneIsNothing DEF Crash, Alike, dbVars, ledgerVars, Mine, NoJob
<1>2. RowsOnCourse(o) => RowsOnCourse(o)'
  BY <1>1 DEF Alike, RowsOnCourse, Succeeded
<1>. QED BY <1>1, <1>2 DEF CourseInv, Course, Ahead

(* The network applies or drops a pending transaction: that of an order    *)
(* whose handler still waits for it, or has given up waiting.              *)
LEMMA LedgerCourse ==
  ASSUME IInv, AloneInv, CourseInv, Ahead, NEW g \in Hash, Include(g) \/ DropTx(g),
         NEW o \in Orders
  PROVE  Course(o)'
<1>1. /\ UNCHANGED <<order, settlement, job>> /\ tx[g].state = "pending"
      /\ tx \in [Hash -> Tx] /\ payout \in [Orders -> Rosters \cup {None}]
  BY DEF Include, DropTx, unledgered, IInv, TypeOK
<1>2. \E s \in {"success", "failed", "dropped"} : tx' = [tx EXCEPT ![g].state = s]
  BY DEF Include, DropTx
<1>3. /\ \A h \in Hash \ {g} : tx'[h] = tx[h]
      /\ \A h \in Hash : /\ tx'[h].order = tx[h].order /\ tx'[h].roster = tx[h].roster
                         /\ Used(h)' <=> Used(h)
  BY <1>1, <1>2 DEF Tx, Used
<1>4. UNCHANGED payout \/ (~PaidOut(tx[g].order)
                           /\ payout' = [payout EXCEPT ![tx[g].order] = tx[g].roster])
  BY DEF Include, DropTx, WouldSettle
<1>5. CASE tx[g].order # o
  <2>1. Untouched(o)
    BY <1>1, <1>3, <1>4, <1>5 DEF Untouched, SentFor
  <2>. QED BY <2>1, UntouchedCourse DEF CourseInv
<1>6. CASE tx[g].order = o
  <2>1. SentFor(g, o) /\ \A h \in Hash : SentFor(h, o)' <=> SentFor(h, o)
    BY <1>1, <1>3, <1>6 DEF SentFor, Used
  <2>2. PaidOut(o) => payout'[o] = payout[o]
    BY <1>4, <1>6
  <2>3. SUFFICES ASSUME ResumedOnce(o)'
                 PROVE  /\ RowsOnCourse(o)'
                        /\ \A a \in Actors : Mine(a) = o => OnCourse(job[a])'
                        /\ Unbroken' =>
                             /\ FirstRows(o)'
                             /\ \A a \in Actors : Mine(a) = o => FirstTry(job[a])'
    BY <1>1 DEF Course, Mine
  <2>4. /\ RowsOnCourse(o) /\ \A a \in Actors : Mine(a) = o => OnCourse(job[a])
        /\ Unbroken' => /\ FirstRows(o)
                        /\ \A a \in Actors : Mine(a) = o => FirstTry(job[a])
    BY <2>3 DEF CourseInv, Course, Ahead
  <2>5. RowsOnCourse(o)'
    BY <1>1, <2>4 DEF RowsOnCourse, Ahead
  <2>6. ASSUME NEW a \in Actors, Mine(a) = o PROVE OnCourse(job[a])'
    BY <1>1, <2>4, <2>6 DEF OnCourse, Ahead, Mine
  <2>7. ASSUME Unbroken' PROVE FirstRows(o)'
    <3>1. settlement[o] # None => PaidOut(o)
      BY DEF IInv, OrderSound
    <3>2. order[o].status # "SETTLEMENT_FAILED" /\ ~Unsent(o)
      BY <1>1, <2>1, <2>4, <2>7 DEF FirstRows, Unsent
    <3>. QED BY <1>1, <2>2, <2>4, <2>7, <3>1, <3>2 DEF FirstRows
  <2>8. ASSUME Unbroken', NEW a \in Actors, Mine(a) = o PROVE FirstTry(job[a])'
    <3>1. FirstTry(job[a]) /\ ~Unsent(o) /\ job[a].order = o
      BY <2>1, <2>4, <2>8 DEF Unsent, Mine
    <3>2. job[a].pc \in {"poll", "failtx", "record", "mark"}
      BY <3>1 DEF FirstTry
    <3>3. job[a].pc \in {"poll", "failtx", "record"} => job[a].hash = g
      BY <2>1, <3>1 DEF FirstTry
    <3>4. job[a].pc # "failtx"
      BY <1>1, <3>1, <3>3 DEF FirstTry
    <3>5. job[a].pc = "record" => payout'[o] = payout[o]
      BY <2>2, <3>1 DEF IInv, JobSound, PaidPc
    <3>. QED BY <1>1, <1>3, <2>1, <3>1, <3>2, <3>3, <3>4, <3>5 DEF FirstTry, UnsentPc
  <2>. QED BY <2>5, <2>6, <2>7, <2>8
<1>. QED BY <1>5, <1>6

(* Checkout and the claim of a payment, the steps that write an order of   *)
(* which nothing has been sent yet.                                        *)
LEMMA IntakeCourse ==
  ASSUME IInv, AloneInv, CourseInv, Ahead, NEW x \in Orders,
         \A a \in Actors : Mine(a) = x /\ OnCourse(job[a]) => OnCourse(job[a])',
         UNCHANGED <<settlement, tx, payout, job>>,
         \A z \in Orders \ {x} : order'[z] = order[z],
         order[x].status \in {"ABSENT", "PAYMENT_PENDING"}, order'[x].hash = order[x].hash,
         NEW o \in Orders
  PROVE  Course(o)'
<1>1. CASE o # x
  <2>1. Untouched(o)
    BY <1>1 DEF Untouched
  <2>. QED BY <2>1, UntouchedCourse DEF CourseInv
<1>2. CASE o = x
  <2>1. SUFFICES ASSUME ResumedOnce(o)'
                 PROVE  /\ RowsOnCourse(o)'
                        /\ \A a \in Actors : Mine(a) = o => OnCourse(job[a])'
                        /\ Unbroken' =>
                             /\ FirstRows(o)'
                             /\ \A a \in Actors : Mine(a) = o => FirstTry(job[a])'
    BY DEF Course, Mine
  <2>2. /\ RowsOnCourse(o) /\ \A a \in Actors : Mine(a) = o => OnCourse(job[a])
        /\ Unbroken' => /\ FirstRows(o)
                        /\ \A a \in Actors : Mine(a) = o => FirstTry(job[a])
    BY <2>1 DEF CourseInv, Course, Ahead
  <2>3. RowsOnCourse(o)'
    BY <1>2, <2>2 DEF RowsOnCourse, Ahead
  <2>4. ASSUME Unbroken' PROVE FirstRows(o)'
    <3>1. Unsent(o)
      BY <1>2, <2>2, <2>4 DEF FirstRows
    <3>2. Unsent(o)'
      BY <3>1 DEF Unsent, SentFor, Used
    <3>. QED BY <3>1, <3>2 DEF FirstRows, Unsent
  <2>5. \A a \in Actors : FirstTry(job[a]) => FirstTry(job[a])'
    BY DEF FirstTry, Unsent, SentFor, Used
  <2>. QED BY <1>2, <2>2, <2>3, <2>4, <2>5
<1>. QED BY <1>1, <1>2

LEMMA CheckoutCourse ==
  ASSUME IInv, AloneInv, CourseInv, Ahead, NEW x \in Orders, Checkout(x), NEW o \in Orders
  PROVE  Course(o)'
<1>1. /\ UNCHANGED <<settlement, tx, payout, job, faults>> /\ order[x].status = "ABSENT"
      /\ order' = [order EXCEPT ![x].status = "PAYMENT_PENDING"]
  BY DEF Checkout, otherVars, ledgerVars
<1>2. \A z \in Orders : order'[z].hash = order[z].hash /\ (z # x => order'[z] = order[z])
  BY <1>1 DEF IInv, TypeOK, OrderRow
<1>3. ASSUME NEW a \in Actors, Mine(a) = x, OnCourse(job[a])
      PROVE  OnCourse(job[a])'
  <2>1. job[a].pc = "fail" /\ faults["db"] > 0
    BY <1>1, <1>3 DEF OnCourse, Mine
  <2>. QED BY <1>1, <1>3, <2>1 DEF OnCourse
<1>. QED BY <1>1, <1>2, <1>3, IntakeCourse

LEMMA ClaimCourse ==
  ASSUME IInv, AloneInv, CourseInv, Ahead, NEW c \in Calls, Claim(c), NEW o \in Orders
  PROVE  Course(o)'
<1>1. /\ UNCHANGED <<settlement, tx, payout, job>> /\ Answering(c)
      /\ order \in [Orders -> OrderRow] /\ CallSound(c)
  BY DEF Claim, otherVars, ledgerVars, Answering, IInv, TypeOK
<1>2. PICK x \in Orders : x = call[c].order
  BY <1>1 DEF CallSound, Answering
<1>3. Quiet(x) /\ order[x].status \in {"ABSENT", "PAYMENT_PENDING"}
  <2>1. order[x].ref = None
    BY <1>1, <1>2 DEF AloneInv
  <2>. QED BY <2>1, UnpaidIsQuiet DEF IInv, OrderSound, Paid
<1>4. order'[x].hash = order[x].hash /\ \A z \in Orders \ {x} : order'[z] = order[z]
  <2>1. CASE order' = [order EXCEPT ![x].status = call[c].target, ![x].ref = call[c].ref]
    <3>1. order' = [order EXCEPT ![x] = [order[x] EXCEPT !.status = call[c].target,
                                                         !.ref = call[c].ref]]
      BY <2>1, Zenon
    <3>. QED BY <1>1, <3>1 DEF OrderRow
  <2>. QED BY <1>2, <2>1 DEF Claim
<1>. QED BY <1>1, <1>3, <1>4, IntakeCourse DEF Quiet

(* The parts of the invariant that are about no single order. *)

LEMMA PaidRightStep ==
  ASSUME IInv, PaidRight, [Next]_vars
  PROVE  PaidRight'
<1>1. /\ tx \in [Hash -> Tx] /\ payout \in [Orders -> Rosters \cup {None}] /\ TxPays
      /\ \A h \in Hash : TxSound(h)
  BY DEF IInv, TypeOK
<1>2. UNCHANGED <<tx, payout>> => PaidRight'
  BY DEF PaidRight, Succeeded
<1>3. ASSUME NEW a \in Actors, AtWork(a) PROVE PaidRight'
  <2>1. ASSUME NEW h \in Hash, Broadcast(a, h) PROVE PaidRight'
    <3>1. tx'[h].state = "pending" /\ \A g \in Hash \ {h} : tx'[g] = tx[g]
      BY <1>1, <2>1 DEF Broadcast
    <3>. QED BY <1>3, <3>1, AtWorkRoster DEF PaidRight, Succeeded
  <2>. QED BY <1>2, <1>3, <2>1, AtWorkWrites, AtWorkRoster
<1>4. ASSUME NEW g \in Hash, DropTx(g) PROVE PaidRight'
  BY <1>1, <1>4 DEF DropTx, PaidRight, Succeeded, Tx
<1>5. ASSUME NEW g \in Hash, Include(g) PROVE PaidRight'
  <2>1. /\ \A h \in Hash \ {g} : tx'[h] = tx[h]
        /\ tx'[g].order = tx[g].order /\ tx'[g].roster = tx[g].roster
    BY <1>1, <1>5 DEF Include, Tx
  <2>2. tx[g].order \in Orders
    BY <1>1, <1>5 DEF Include, TxSound, Used, Paid
  <2>3. CASE tx' = [tx EXCEPT ![g].state = "failed"] /\ UNCHANGED payout
    BY <1>1, <2>1, <2>3 DEF PaidRight, Succeeded, Tx
  <2>4. CASE /\ ~PaidOut(tx[g].order)
             /\ payout' = [payout EXCEPT ![tx[g].order] = tx[g].roster]
    <3>1. \A h \in Hash : Succeeded(h) => tx[h].order # tx[g].order
      BY <1>1, <2>2, <2>4 DEF TxPays, Succeeded
    <3>2. \A h \in Hash \ {g} : Succeeded(h) => payout'[tx[h].order] = payout[tx[h].order]
      <4>1. \A h \in Hash : Succeeded(h) => tx[h].order \in Orders
        BY <1>1 DEF TxSound, Used, Paid, Succeeded
      <4>. QED BY <1>1, <2>4, <3>1, <4>1
    <3>3. payout'[tx[g].order] = tx[g].roster
      BY <1>1, <2>2, <2>4
    <3>. QED BY <2>1, <3>2, <3>3 DEF PaidRight, Succeeded
  <2>. QED BY <1>5, <2>3, <2>4 DEF Include, WouldSettle
<1>6. Requeue \/ Crash \/ UNCHANGED vars => UNCHANGED <<tx, payout>>
  BY DEF Requeue, Crash, vars, ledgerVars
<1>7. Workers \subseteq Actors /\ Boot \in Actors
  BY DEF Actors
<1>. QED BY <1>2, <1>3, <1>4, <1>5, <1>6, <1>7, TakeEventStarts, TakeStuckStarts,
            CatalogueLeaves, IntakeLeaves
     DEF Next, Backend, Environment, Handle, Recovery, AtWork

(* A request between two awaits is about an order that was checked out.    *)
LEMMA AnswersStep ==
  ASSUME IInv, AloneInv, CourseInv, [Next]_vars
  PROVE  \A c \in Calls : Answering(c)' => order'[call'[c].order].status # "ABSENT"
<1> DEFINE kept == \A c \in Calls : Answering(c)' => order'[call'[c].order].status # "ABSENT"
<1>1. /\ order \in [Orders -> OrderRow] /\ call \in [Calls -> CallState]
      /\ \A c \in Calls : CallSound(c)
  BY DEF IInv, TypeOK
<1>2. \A c \in Calls : Answering(c) => order[call[c].order].status # "ABSENT"
  BY DEF CourseInv
<1>3. ASSUME NEW c \in Calls, Answering(c)
      PROVE  call[c].order \in Orders /\ Quiet(call[c].order)
  BY <1>1, <1>3, UnpaidIsQuiet DEF AloneInv, CallSound, Answering
<1>4. UNCHANGED <<order, call>> => kept
  BY <1>2 DEF Answering
<1>5. ASSUME NEW a \in Actors, AtWork(a) PROVE kept
  <2>1. UNCHANGED call
    BY <1>5, AtWorkLeaves
  <2>. QED BY <1>2, <1>3, <1>5, <2>1, AtWorkWrites DEF Quiet, Answering
<1>6. ASSUME Requeue PROVE kept
  <2>1. /\ UNCHANGED call /\ Boot \in Actors
        /\ order' = [order EXCEPT ![Mine(Boot)].status = "PAYMENT_RECEIVED",
                                  ![Mine(Boot)].hash = None]
    BY <1>6 DEF Requeue, unhandled, intakeVars, Actors
  <2>2. order' = [order EXCEPT ![Mine(Boot)] =
                    [order[Mine(Boot)] EXCEPT !.status = "PAYMENT_RECEIVED", !.hash = None]]
    BY <2>1, Zenon
  <2>3. \A x \in Orders : x # Mine(Boot) => order'[x] = order[x]
    BY <1>1, <2>2
  <2>. QED BY <1>2, <1>3, <2>1, <2>3 DEF Quiet, Answering
<1>7. ASSUME NEW x \in Orders, Checkout(x) PROVE kept
  <2>1. UNCHANGED call /\ order' = [order EXCEPT ![x].status = "PAYMENT_PENDING"]
    BY <1>7 DEF Checkout, intakeVars
  <2>2. \A z \in Orders : order'[z].status \in {order[z].status, "PAYMENT_PENDING"}
    BY <1>1, <2>1 DEF OrderRow
  <2>. QED BY <1>2, <1>3, <2>1, <2>2 DEF Answering
<1>8. ASSUME NEW c \in Calls, CheckRef(c) PROVE kept
  <2>1. UNCHANGED order /\ \A d \in Calls \ {c} : call'[d] = call[d]
    BY <1>1, <1>8 DEF CheckRef
  <2>2. order[call'[c].order].status # "ABSENT"
    BY <1>1, <1>8 DEF CheckRef, NewCall
  <2>. QED BY <1>2, <2>1, <2>2 DEF Answering
<1>9. ASSUME NEW c \in Calls, ReadOrder(c) \/ ReadWallet(c) PROVE kept
  <2>1. UNCHANGED order /\ \A d \in Calls \ {c} : call'[d] = call[d]
    BY <1>1, <1>9 DEF ReadOrder, ReadWallet
  <2>2. Answering(c) /\ call'[c].order = call[c].order
    <3>1. CASE ReadOrder(c)
      <4>1. call' = [call EXCEPT ![c] = [call[c] EXCEPT !.pc = "wallet",
                                             !.seen = order[call[c].order].status]]
        BY <3>1, Zenon DEF ReadOrder
      <4>. QED BY <1>1, <3>1, <4>1 DEF ReadOrder, CallState, Answering
    <3>2. CASE ReadWallet(c)
      <4>1. PICK n, t : call' = [call EXCEPT ![c].pc = n, ![c].target = t]
        BY <3>2 DEF ReadWallet
      <4>2. call' = [call EXCEPT ![c] = [call[c] EXCEPT !.pc = n, !.target = t]]
        BY <4>1, Zenon
      <4>. QED BY <1>1, <3>2, <4>2 DEF ReadWallet, CallState, Answering
    <3>. QED BY <1>9, <3>1, <3>2
  <2>. QED BY <1>2, <2>1, <2>2 DEF Answering
<1>10. ASSUME NEW c \in Calls, Claim(c) PROVE kept
  <2>1. Answering(c) /\ ~Answering(c)' /\ \A d \in Calls \ {c} : call'[d] = call[d]
    BY <1>1, <1>10 DEF Claim, Answering, CallState
  <2>2. \A z \in Orders : z # call[c].order => order'[z] = order[z]
    <3>1. CASE order' = [order EXCEPT ![call[c].order].status = call[c].target,
                                      ![call[c].order].ref = call[c].ref]
      <4>1. order' = [order EXCEPT ![call[c].order] =
                [order[call[c].order] EXCEPT !.status = call[c].target, !.ref = call[c].ref]]
        BY <3>1, Zenon
      <4>. QED BY <1>1, <4>1
    <3>. QED BY <1>10, <3>1 DEF Claim
  <2>3. \A d \in Calls \ {c} : Answering(d) => call[d].order # call[c].order
    BY <2>1 DEF AloneInv
  <2>. QED BY <1>2, <1>3, <2>1, <2>2, <2>3 DEF Answering
<1>11. ASSUME Crash \/ \E c \in Calls : AnswerError(c)
       PROVE kept
  BY <1>1, <1>2, <1>11 DEF AnswerError, Crash, Answering, NewCall, dbVars
<1>12. ASSUME \/ \E k \in Conns : ConnectWallet(k)
              \/ \E o \in Orders : DeliverProduct(o)
              \/ \E h \in Hash : Include(h) \/ DropTx(h)
              \/ UNCHANGED vars
       PROVE  UNCHANGED <<order, call>>
  BY <1>12 DEF ConnectWallet, CheckAddress, CreateWallet, ResumeWaiting, DeliverProduct,
               Include, DropTx, unledgered, intakeVars, dbVars, vars
<1>13. Workers \subseteq Actors /\ Boot \in Actors
  BY DEF Actors
<1> HIDE DEF kept
<1>14. ASSUME NEW c \in Calls, Webhook(c) PROVE kept
  BY <1>8, <1>9, <1>10, <1>11, <1>14 DEF Webhook
<1>15. ASSUME NEW w \in Workers, Handle(w) PROVE kept
  BY <1>4, <1>5, <1>13, <1>15, TakeEventStarts DEF Handle, AtWork
<1>16. Recovery => kept
  BY <1>4, <1>5, <1>6, <1>13, TakeStuckStarts DEF Recovery, AtWork
<1>17. ASSUME NEW a \in Actors, DbError(a) PROVE kept
  BY <1>5, <1>17 DEF AtWork
<1>18. Backend => kept
  BY <1>4, <1>12, <1>14, <1>15, <1>16, <1>17 DEF Backend
<1>19. Environment => kept
  BY <1>4, <1>7, <1>11, <1>12, CatalogueLeaves DEF Environment
<1>20. kept
  BY <1>4, <1>12, <1>18, <1>19 DEF Next
<1>. QED BY <1>20 DEF kept

(* No product is left without collaborators. *)
LEMMA RosterFilled ==
  ASSUME IInv, [Next]_vars, \A p \in Products : roster[p] \notin NoRoster
  PROVE  \A p \in Products : roster'[p] \notin NoRoster
<1>1. ASSUME NEW p \in Products, EditCollaborators(p)
      PROVE  \A q \in Products : roster'[q] \notin NoRoster
  BY <1>1 DEF EditCollaborators, IInv, TypeOK
<1>2. ASSUME \/ \E p \in Products : SetProductStatus(p)
             \/ \E h \in Hash : Include(h) \/ DropTx(h)
             \/ OtherPlatformTx \/ Crash \/ UNCHANGED vars
      PROVE  UNCHANGED roster
  BY <1>2 DEF SetProductStatus, Include, DropTx, OtherPlatformTx, Crash, vars, unledgered,
              catalogue
<1>3. ASSUME TakeStuck \/ Requeue \/ \E w \in Workers : TakeEvent(w)
      PROVE  UNCHANGED roster
  BY <1>3 DEF TakeStuck, Requeue, TakeEvent, unhandled, catalogue
<1>4. Workers \subseteq Actors /\ Boot \in Actors
  BY DEF Actors
<1>5. UNCHANGED roster \/ \E p \in Products : EditCollaborators(p)
  BY <1>2, <1>3, <1>4, IntakeLeaves, AtWorkRoster
     DEF Next, Backend, Environment, Handle, Recovery, AtWork
<1>. QED BY <1>1, <1>5

(* Startup recovery has nothing to do before the process has died. *)
Unstarted == todo = {} /\ job[Boot].pc = "idle"

LEMMA UnstartedStep ==
  ASSUME IInv, [Next]_vars, Unstarted, faults'["crash"] = 0
  PROVE  Unstarted'
<1>1. Workers \subseteq Actors /\ Boot \in Actors /\ Boot \notin Workers
  BY BootIsNoWorker DEF Actors
<1>2. UNCHANGED <<todo, job>> => Unstarted'
  BY DEF Unstarted
<1>3. ASSUME NEW a \in Actors, AtWork(a) PROVE Unstarted'
  <2>1. a # Boot /\ UNCHANGED todo
    BY <1>3, AtWorkWrites, AtWorkLeaves DEF Unstarted
  <2>. QED BY <1>1, <1>3, <2>1, AtWorkStays DEF JobStays, Unstarted
<1>4. ASSUME NEW w \in Workers, TakeEvent(w) PROVE Unstarted'
  BY <1>1, <1>4, TakeEventStarts DEF Started, Unstarted
<1>5. ~TakeStuck /\ ~Requeue
  BY TakeStuckStarts DEF Requeue, At, Unstarted
<1>6. ~Crash
  BY Struck DEF Crash, FaultKind
<1>7. ASSUME (\E h \in Hash : Include(h) \/ DropTx(h)) \/ UNCHANGED vars
      PROVE  UNCHANGED <<todo, job>>
  BY <1>7 DEF Include, DropTx, unledgered, vars
<1>. QED BY <1>1, <1>2, <1>3, <1>4, <1>5, <1>6, <1>7, IntakeLeaves, CatalogueLeaves
     DEF Next, Backend, Environment, Handle, Recovery, AtWork

(* The course of an order is kept by every step. *)
LEMMA CourseKept ==
  ASSUME IInv, AloneInv, CourseInv, [Next]_vars, NEW o \in Orders
  PROVE  Course(o)'
<1>1. Ahead
  BY StepIsAhead
<1>2. Workers \subseteq Actors /\ Boot \in Actors
  BY DEF Actors
<1>3. ASSUME \/ \E c \in Calls : CheckRef(c) \/ ReadOrder(c) \/ ReadWallet(c) \/ AnswerError(c)
             \/ \E k \in Conns : ConnectWallet(k)
             \/ \E x \in Orders : DeliverProduct(x)
             \/ \E p \in Products : EditCollaborators(p) \/ SetProductStatus(p)
             \/ OtherPlatformTx \/ UNCHANGED vars
      PROVE  Course(o)'
  <2>1. Alike /\ UNCHANGED job
    BY <1>3 DEF CheckRef, ReadOrder, ReadWallet, AnswerError, ConnectWallet, CheckAddress,
                CreateWallet, ResumeWaiting, DeliverProduct, EditCollaborators,
                SetProductStatus, OtherPlatformTx, unledgered, otherVars, dbVars,
                ledgerVars, vars, Alike
  <2>. QED BY <1>1, <2>1, AlikeCourse
<1>4. ASSUME NEW a \in Actors, AtWork(a) PROVE Course(o)'
  BY <1>1, <1>4, AtWorkCourse
<1>5. Requeue \/ Crash => Course(o)'
  BY <1>1, RequeueCourse, CrashCourse
<1>6. (\E w \in Workers : TakeEvent(w)) \/ TakeStuck => Course(o)'
  BY <1>1, TakeEventCourse, TakeStuckCourse
<1>7. (\E h \in Hash : Include(h) \/ DropTx(h)) => Course(o)'
  BY <1>1, LedgerCourse
<1>8. (\E x \in Orders : Checkout(x)) \/ (\E c \in Calls : Claim(c)) => Course(o)'
  BY <1>1, CheckoutCourse, ClaimCourse
<1>. QED BY <1>2, <1>3, <1>4, <1>5, <1>6, <1>7, <1>8
     DEF Next, Backend, Environment, Webhook, Handle, Recovery, AtWork

LEMMA CourseStep ==
  ASSUME IInv, AloneInv, CourseInv, [Next]_vars
  PROVE  CourseInv'
<1>1. \A o \in Orders : Course(o)'
  BY CourseKept
<1>2. \A c \in Calls : Answering(c)' => order'[call'[c].order].status # "ABSENT"
  BY AnswersStep
<1>3. PaidRight'
  BY PaidRightStep DEF CourseInv, PaidRight
<1>4. \A p \in Products : roster'[p] \notin NoRoster
  BY RosterFilled DEF CourseInv
<1>5. faults'["crash"] = 0 => Unstarted'
  BY StepIsAhead, UnstartedStep DEF CourseInv, Ahead, Unstarted
<1>. QED BY <1>1, <1>2, <1>3, <1>4, <1>5 DEF CourseInv, PaidRight, Unstarted

(* Every write of a status is a move of the state machine, or fails an     *)
(* order after a database error.                                           *)
Allowed(o) ==
  \/ LegalMove(order[o].status, order'[o].status)
  \/ faults["db"] > 0 /\ order'[o].status = "SETTLEMENT_FAILED"

LEMMA HandlerMoves ==
  ASSUME IInv, CourseInv, NEW a \in Actors, AtWork(a), NEW o \in Orders, ResumedOnce(o)
  PROVE  Allowed(o)
<1>1. order \in [Orders -> OrderRow]
  BY DEF IInv, TypeOK
<1>2. order'[o] = order[o] => Allowed(o)
  BY DEF Allowed, LegalMove
<1>3. CASE Mine(a) # o
  BY <1>2, <1>3, AtWorkWrites
<1>4. CASE Mine(a) = o
  <2>1. OnCourse(job[a]) /\ job[a].order = o
    BY <1>4 DEF CourseInv, Course, Mine
  <2>2. ASSUME NEW s, order' = [order EXCEPT ![o].status = s]
        PROVE  order'[o].status = s
    BY <1>1, <2>2 DEF OrderRow
  <2>3. ASSUME NEW s, NEW h, order' = [order EXCEPT ![o].status = s, ![o].hash = h]
        PROVE  order'[o].status = s
    <3>1. order' = [order EXCEPT ![o] = [order[o] EXCEPT !.status = s, !.hash = h]]
      BY <2>3, Zenon
    <3>. QED BY <1>1, <3>1 DEF OrderRow
  <2>4. CASE MarkPending(a)
    <3>1. order[o].status \in {"PAYMENT_RECEIVED", "WAITING_WALLET"}
      BY <2>1, <2>4 DEF MarkPending, At, OnCourse
    <3>2. order'[o].status = "SETTLEMENT_PENDING"
      BY <1>4, <2>2, <2>4 DEF MarkPending, SetStatus
    <3>. QED BY <3>1, <3>2 DEF Allowed, LegalMove, CanTransition, Transitions
  <2>5. CASE AdoptRow(a) \/ SettleFirst(a) \/ MarkSettled(a)
    <3>1. order[o].status \in {"SETTLEMENT_PENDING", "SETTLED"}
      BY <2>1, <2>5 DEF AdoptRow, SettleFirst, MarkSettled, At, OnCourse
    <3>2. order'[o].status = "SETTLED"
      BY <1>4, <2>2, <2>3, <2>5 DEF AdoptRow, SettleFirst, MarkSettled, SetStatus
    <3>. QED BY <3>1, <3>2 DEF Allowed, LegalMove, CanTransition, Transitions
  <2>6. CASE Fail(a) \/ FailWithHash(a)
    <3>1. order[o].status = "SETTLEMENT_PENDING" \/ faults["db"] > 0
      BY <2>1, <2>6 DEF Fail, FailWithHash, At, OnCourse
    <3>2. order'[o].status = "SETTLEMENT_FAILED"
      BY <1>4, <2>2, <2>3, <2>6 DEF Fail, FailWithHash, SetStatus
    <3>. QED BY <3>1, <3>2 DEF Allowed, LegalMove, CanTransition, Transitions
  <2>7. ~(a = Boot /\ BootAdoptRow)
    BY <2>1 DEF BootAdoptRow, At, OnCourse, HashedPc
  <2>8. CASE \/ LoadCollaborators(a) \/ CheckTrustlines(a) \/ PreCheck(a) \/ CheckFloat(a)
             \/ Invoke(a) \/ Recover(a) \/ Reread(a) \/ Record(a) \/ DbError(a)
             \/ CheckUnhashed \/ Verify \/ Reverify \/ LookForRow
    <3>1. UNCHANGED order
      BY <2>8 DEF LoadCollaborators, CheckTrustlines, PreCheck, CheckFloat, Invoke, Simulate,
                  Send, Poll, Recover, Reread, Record, DbError, CheckUnhashed, Verify,
                  Reverify, LookForRow, dbVars
    <3>. QED BY <1>2, <3>1
  <2>. QED BY <2>4, <2>5, <2>6, <2>7, <2>8 DEF AtWork, Prepare, CatchUp, Recording
<1>. QED BY <1>3, <1>4

LEMMA MoveIsLegal ==
  ASSUME IInv, AloneInv, CourseInv, [Next]_vars, NEW o \in Orders, ResumedOnce(o)
  PROVE  Allowed(o)
<1>1. order \in [Orders -> OrderRow] /\ call \in [Calls -> CallState]
  BY DEF IInv, TypeOK
<1>2. order'[o] = order[o] => Allowed(o)
  BY DEF Allowed, LegalMove
<1>3. ASSUME NEW x \in Orders, Checkout(x) PROVE Allowed(o)
  BY <1>1, <1>2, <1>3 DEF Checkout, OrderRow, Allowed, LegalMove
<1>4. ASSUME NEW c \in Calls, Claim(c) PROVE Allowed(o)
  <2>1. /\ Answering(c) /\ call[c].target \in {"PAYMENT_RECEIVED", "WAITING_WALLET"}
        /\ call[c].order \in Orders
    BY <1>1, <1>4 DEF Claim, Answering, CallState, IInv, CallSound
  <2>2. order[call[c].order].status = "PAYMENT_PENDING"
    <3>1. order[call[c].order].ref = None /\ order[call[c].order].status # "ABSENT"
      BY <2>1 DEF AloneInv, CourseInv
    <3>. QED BY <2>1, <3>1 DEF IInv, OrderSound, Paid
  <2>3. CASE order' = [order EXCEPT ![call[c].order].status = call[c].target,
                                    ![call[c].order].ref = call[c].ref]
    <3>1. order' = [order EXCEPT ![call[c].order] =
              [order[call[c].order] EXCEPT !.status = call[c].target, !.ref = call[c].ref]]
      BY <2>3, Zenon
    <3>2. CASE o = call[c].order
      <4>1. order'[o].status = call[c].target
        BY <1>1, <3>1, <3>2 DEF OrderRow
      <4>. QED BY <2>1, <2>2, <3>2, <4>1 DEF Allowed, LegalMove, CanTransition, Transitions
    <3>. QED BY <1>1, <1>2, <3>1, <3>2
  <2>. QED BY <1>2, <1>4, <2>3 DEF Claim
<1>5. ASSUME NEW a \in Actors, AtWork(a) PROVE Allowed(o)
  BY <1>5, HandlerMoves
<1>6. CASE Requeue
  <2>1. Mine(Boot) # o
    BY <1>6 DEF CourseInv, Course, Requeue, At, OnCourse, HashedPc, Actors
  <2>2. order' = [order EXCEPT ![Mine(Boot)] =
                    [order[Mine(Boot)] EXCEPT !.status = "PAYMENT_RECEIVED", !.hash = None]]
    BY <1>6, Zenon DEF Requeue
  <2>. QED BY <1>1, <1>2, <2>1, <2>2
<1>7. ASSUME \/ \E c \in Calls : CheckRef(c) \/ ReadOrder(c) \/ ReadWallet(c) \/ AnswerError(c)
             \/ \E k \in Conns : ConnectWallet(k)
             \/ \E x \in Orders : DeliverProduct(x)
             \/ \E h \in Hash : Include(h) \/ DropTx(h)
             \/ Crash \/ UNCHANGED vars
      PROVE  UNCHANGED order
  BY <1>7 DEF CheckRef, ReadOrder, ReadWallet, AnswerError, ConnectWallet, CheckAddress,
              CreateWallet, ResumeWaiting, DeliverProduct, Include, DropTx, Crash,
              unledgered, dbVars, vars
<1>8. UNCHANGED order => Allowed(o)
  BY <1>2
<1>9. Workers \subseteq Actors /\ Boot \in Actors
  BY DEF Actors
<1>10. ASSUME NEW w \in Workers, Handle(w) PROVE Allowed(o)
  BY <1>5, <1>8, <1>9, <1>10, TakeEventStarts DEF Handle, AtWork
<1>11. Recovery => Allowed(o)
  BY <1>5, <1>6, <1>8, <1>9, TakeStuckStarts DEF Recovery, AtWork
<1>12. ASSUME NEW c \in Calls, Webhook(c) PROVE Allowed(o)
  BY <1>4, <1>7, <1>8, <1>12 DEF Webhook
<1>. QED BY <1>3, <1>5, <1>7, <1>8, <1>10, <1>11, <1>12, CatalogueLeaves
     DEF Next, Backend, Environment, AtWork

-----------------------------------------------------------------------------
(* The invariants together. *)

LEMMA CourseInit == Init => CourseInv /\ UneditedInv
<1> SUFFICES ASSUME Init PROVE CourseInv /\ UneditedInv
  OBVIOUS
<1>1. /\ \A o \in Orders : /\ order[o].status = "ABSENT" /\ order[o].hash = None
                           /\ settlement[o] = None /\ ~PaidOut(o)
      /\ \A h \in Hash : ~Used(h) /\ ~Succeeded(h)
      /\ \A a \in Actors : job[a] = NoJob /\ Mine(a) = None
      /\ \A c \in Calls : ~Answering(c)
      /\ todo = {} /\ roster \in [Products -> Settleable]
  BY DEF Init, PaidOut, Used, NoTx, Succeeded, Mine, NoJob, Answering, NewCall
<1>2. \A o \in Orders : Course(o)
  <2>1. \A o \in Orders : RowsOnCourse(o) /\ FirstRows(o)
    BY <1>1 DEF RowsOnCourse, FirstRows, Unsent, SentFor
  <2>. QED BY <1>1, <2>1, NoneIsNothing DEF Course
<1>3. \A p \in Products : roster[p] \notin NoRoster
  BY <1>1, RosterKinds
<1>4. job[Boot].pc = "idle"
  BY <1>1 DEF Actors, NoJob
<1>5. Splits
  BY <1>1 DEF Splits, SplitJob, NoJob, RosterPc
<1>. QED BY <1>1, <1>2, <1>3, <1>4, <1>5 DEF CourseInv, UneditedInv

LEMMA StaysOnCourse ==
  ASSUME SerialWebhooks, OwnReferences, OneReference
  PROVE  Spec => [](IInv /\ AloneInv /\ CourseInv)
<1>1. Init => AckInv /\ AloneInv /\ CourseInv
  BY AloneInit, CourseInit
<1>2. IInv /\ AckInv /\ AloneInv /\ CourseInv /\ [Next]_vars
        => AckInv' /\ AloneInv' /\ CourseInv'
  BY AckStep, AloneStep, CourseStep
<1>. QED BY <1>1, <1>2, Invariant, PTL DEF Spec

(* An order is SETTLEMENT_FAILED only if no money has moved for it, as     *)
(* long as no request has failed, the process has not died and its creator *)
(* has not connected a second wallet.                                      *)
THEOREM FailedUnpaid ==
  ASSUME SerialWebhooks, OwnReferences, OneReference
  PROVE  Spec => []FailedUnpaidUnbroken
<1>1. IInv /\ AloneInv /\ CourseInv => FailedUnpaidUnbroken
  <2>1. ASSUME IInv, CourseInv, NEW o \in Orders, Unbroken, ResumedOnce(o),
               order[o].status = "SETTLEMENT_FAILED"
        PROVE  ~PaidOut(o)
    <3>1. \A h \in Hash : SentFor(h, o) => tx[h].state = "failed"
      BY <2>1 DEF CourseInv, Course, FirstRows
    <3>. QED BY <2>1, <3>1 DEF IInv, TxPays, SentFor, Used
  <2>. QED BY <2>1 DEF FailedUnpaidUnbroken
<1>. QED BY <1>1, StaysOnCourse, PTL

(* A settlement on record names a transaction that succeeded and that paid *)
(* this order, if any, unless a second wallet of the creator started       *)
(* another handler of it.                                                  *)
THEOREM HashPaid ==
  ASSUME SerialWebhooks, OwnReferences, OneReference
  PROVE  Spec => []RecordedHashPaid
<1>1. IInv /\ AloneInv /\ CourseInv => RecordedHashPaid
  <2>1. ASSUME IInv, CourseInv, NEW o \in Orders, settlement[o] # None,
               settlement[o].hash \in Hash, ResumedOnce(o)
        PROVE  tx[settlement[o].hash].state = "success" /\ tx[settlement[o].hash].order = o
    <3>1. Succeeded(settlement[o].hash)
      BY <2>1 DEF CourseInv, Course, RowsOnCourse
    <3>2. HashOf(o, settlement[o].hash)
      BY <2>1 DEF IInv, OrderSound
    <3>. QED BY <2>1, <3>1, <3>2 DEF Succeeded, HashOf
  <2>. QED BY <2>1 DEF RecordedHashPaid
<1>. QED BY <1>1, StaysOnCourse, PTL

(* The split on record is the one the contract paid, unless the product    *)
(* was edited, and the settlement was taken up again after a fault or      *)
(* started twice by two wallets.                                           *)
THEOREM SplitPaid ==
  ASSUME SerialWebhooks, OwnReferences, OneReference
  PROVE  Spec => []RecordedSplitPaid
<1>1. Init => UneditedInv
  BY CourseInit
<1>2. IInv /\ UneditedInv /\ [Next]_vars => UneditedInv'
  BY UneditedStep
<1>3. IInv /\ AloneInv /\ CourseInv /\ UneditedInv => RecordedSplitPaid
  <2>1. ASSUME IInv, CourseInv, UneditedInv, NEW o \in Orders, settlement[o] # None,
               settlement[o].roster # payout[o]
        PROVE  ~(Unbroken /\ ResumedOnce(o)) /\ faults["edit"] > 0
    <3>1. ~(Unbroken /\ ResumedOnce(o))
      BY <2>1 DEF CourseInv, Course, FirstRows
    <3>2. PaidOut(o) /\ faults["edit"] \in Nat
      BY <2>1 DEF IInv, OrderSound, TypeOK, FaultKind
    <3>3. faults["edit"] # 0
      BY <2>1, <3>2 DEF UneditedInv, Splits
    <3>. QED BY <3>1, <3>2, <3>3
  <2>. QED BY <2>1 DEF RecordedSplitPaid
<1>. QED BY <1>1, <1>2, <1>3, Invariant, StaysOnCourse, PTL DEF Spec

(* Every write of a status is a move of the order state machine, unless a  *)
(* database error fails the order, or its creator connected a second       *)
(* wallet.                                                                 *)
THEOREM MovesLegal ==
  ASSUME SerialWebhooks, OwnReferences, OneReference
  PROVE  Spec => LegalMoves
<1> DEFINE moves == \A o \in Orders :
                      \/ LegalMove(order[o].status, order'[o].status)
                      \/ faults["db"] > 0 /\ order'[o].status = "SETTLEMENT_FAILED"
                      \/ ~ResumedOnce(o)
<1>1. IInv /\ AloneInv /\ CourseInv /\ [Next]_vars => [moves]_order
  BY MoveIsLegal DEF Allowed
<1>2. Spec => [][moves]_order
  <2>. HIDE DEF moves
  <2>. QED BY <1>1, StaysOnCourse, PTL DEF Spec
<1>. QED BY <1>2 DEF LegalMoves
=============================================================================
