-------------------------- MODULE SponsorshipProofs --------------------------
(***************************************************************************)
(* What holds of sponsored trustlines for any number of creators, wallets, *)
(* pages, requests and transactions.                                       *)
(*                                                                         *)
(* The argument of PaidOncePerWallet: a transaction remembers the ledger   *)
(* in which its wallet was looked at (checked).  A wallet of which a       *)
(* transaction is included has a trustline from then on, so whoever looks  *)
(* at it later prepares nothing: everything prepared for that wallet was   *)
(* looked at before.                                                       *)
(*                                                                         *)
(* The argument of DoneIsTrusted: a page signs a transaction once, as the  *)
(* address it names, and no other page holds that transaction; the network *)
(* takes it of its own wallet only.  So the wallet of one that is included *)
(* is the address of the page that it is reported to.                      *)
(***************************************************************************)
EXTENDS Sponsorship, TLAPS

Types ==
  /\ wallets \in [Creators -> Seq(Wallets)]
  /\ exists \subseteq Wallets /\ trusts \subseteq exists
  /\ number \in Nat
  /\ txs \in Seq(Tx)
  /\ tab \in [Tabs -> Tab]
  /\ request \in [Requests -> Request]

(* A wallet is listed under its owner. *)
Listed == \A c \in Creators : \A i \in 1 .. Len(wallets[c]) : OwnerOf[wallets[c][i]] = c

(* What a page or a request works on was prepared, and signed. *)
Prepared ==
  /\ \A t \in Tabs :
       /\ tab[t].pc \in {"sign", "submit", "done"} => tab[t].tx \in 1 .. Len(txs)
       /\ tab[t].pc # "hidden" => tab[t].address # None
  /\ \A r \in Requests :
       /\ request[r].pc \in {"validate", "send", "wait"} =>
            request[r].tx \in 1 .. Len(txs) /\ TxOf(r).signer # None
       /\ request[r].pc = "load" => request[r].wallet # None

(* A page waits for the one request that answers it. *)
Attached ==
  /\ \A r \in Requests : request[r].tab # None =>
       tab[request[r].tab].pc \in {"prepare", "submit"}
  /\ \A r, q \in Requests : request[r].tab # None /\ request[r].tab = request[q].tab => r = q
  /\ \A r \in Requests : request[r].pc = "idle" => request[r].tab = None

(* A page works for its own creator. *)
Own ==
  \A r \in Requests :
    request[r].tab # None =>
      /\ request[r].wallet # None => OwnerOf[request[r].wallet] = UserOf[request[r].tab]
      /\ request[r].pc \in {"send", "wait"} => OwnerOf[TxOf(r).wallet] = UserOf[request[r].tab]

(* What was looked at before an inclusion. *)
LookedAt ==
  /\ \A x \in 1 .. Len(txs) : txs[x].checked <= number
  /\ \A r \in Requests : request[r].checked <= number
  /\ \A x \in 1 .. Len(txs) :
       txs[x].state = "included" =>
         /\ txs[x].wallet \in trusts
         /\ \A y \in 1 .. Len(txs) :
              txs[y].wallet = txs[x].wallet => txs[y].checked < txs[x].number
         /\ \A r \in Requests :
              request[r].pc = "load" /\ request[r].wallet = txs[x].wallet =>
                request[r].checked < txs[x].number

(* A page that says activated reports a transaction that was included, for *)
(* a wallet of its own creator.                                            *)
Activated ==
  \A t \in Tabs : tab[t].pc = "done" =>
    /\ txs[tab[t].tx].wallet \in trusts
    /\ OwnerOf[txs[tab[t].tx].wallet] = UserOf[t]

Inv == Types /\ Listed /\ Prepared /\ Attached /\ Own /\ LookedAt /\ Activated

-----------------------------------------------------------------------------
(* Steps. *)

(* The fields of NoRequest. *)
LEMMA NoRequestFields ==
  ASSUME NumbersType
  PROVE  /\ NoRequest \in Request
         /\ NoRequest.pc = "idle" /\ NoRequest.tab = None /\ NoRequest.wallet = None
         /\ NoRequest.checked = 0 /\ NoRequest.tx = 0 /\ NoRequest.attempt = 0
BY SMT DEF NoRequest, Request, NumbersType

(* A request that has just arrived. *)
LEMMA Arrives ==
  ASSUME NumbersType, NEW t \in Tabs, NEW w \in Wallets \cup {None}, NEW x \in Nat
  PROVE  /\ [NoRequest EXCEPT !.pc = "check", !.tab = t, !.wallet = w] \in Request
         /\ [NoRequest EXCEPT !.pc = "validate", !.tab = t, !.tx = x, !.wallet = w] \in Request
<1> PICK n \in Request : n = NoRequest BY NoRequestFields
<1>1. [n EXCEPT !.pc = "check", !.tab = t, !.wallet = w] \in Request BY DEF Request
<1>2. [n EXCEPT !.pc = "validate", !.tab = t, !.tx = x, !.wallet = w] \in Request BY DEF Request
<1> QED BY <1>1, <1>2

(* One transaction of the list changes. *)
LEMMA OneChanges ==
  ASSUME NEW s \in Seq(Tx), NEW x \in 1 .. Len(s), NEW e \in Tx
  PROVE  /\ [s EXCEPT ![x] = e] \in Seq(Tx)
         /\ Len([s EXCEPT ![x] = e]) = Len(s)
         /\ [s EXCEPT ![x] = e][x] = e
         /\ \A y \in 1 .. Len(s) : y # x => [s EXCEPT ![x] = e][y] = s[y]
OBVIOUS

(* The newest wallet of a creator is one of hers. *)
LEMMA NewestIsOwn ==
  ASSUME Types, Listed, NEW c \in Creators
  PROVE  /\ Newest(c) \in Wallets \cup {None}
         /\ Newest(c) # None => OwnerOf[Newest(c)] = c
<1>1. wallets[c] \in Seq(Wallets) BY DEF Types
<1>2. CASE wallets[c] = <<>> BY <1>2 DEF Newest
<1>3. CASE wallets[c] # <<>>
  <2>1. Len(wallets[c]) \in 1 .. Len(wallets[c]) BY <1>1, <1>3
  <2>2. wallets[c][Len(wallets[c])] \in Wallets BY <1>1, <2>1
  <2> QED BY <1>3, <2>1, <2>2 DEF Newest, Listed
<1> QED BY <1>2, <1>3

(* The initial state. *)
LEMMA Initially == Init => Inv
<1> SUFFICES ASSUME Init PROVE Inv OBVIOUS
<1> USE OwnersType, NumbersType, NoneIsNothing, NoRequestFields DEF Init
<1>1. Types BY DEF Types, Tab, Tx
<1>2. \A r \in Requests : request[r] = NoRequest OBVIOUS
<1>3. \A t \in Tabs : tab[t].pc = "hidden" OBVIOUS
<1>4. 1 .. Len(txs) = {} OBVIOUS
<1>5. Listed BY DEF Listed
<1>6. Prepared BY <1>2, <1>3 DEF Prepared
<1>7. Attached /\ Own BY <1>2 DEF Attached, Own
<1>8. LookedAt BY <1>2, <1>4 DEF LookedAt
<1>9. Activated BY <1>2, <1>3 DEF Activated
<1> QED BY <1>1, <1>5, <1>6, <1>7, <1>8, <1>9 DEF Inv

(* Nothing happens. *)
LEMMA Stutters == Inv /\ UNCHANGED sponsorshipVars => Inv'
BY DEF Inv, sponsorshipVars, Types, Listed, Prepared, Attached, Own, LookedAt, Activated, TxOf

(* Loading a page. *)
LEMMA LoadKeeps ==
  ASSUME Inv, NEW t \in Tabs, Load(t) PROVE Inv'
<1> USE OwnersType, NoneIsNothing DEF Inv
<1>1. PICK p \in {"hidden", "shown"}, w \in Wallets \cup {None} :
        /\ tab' = [tab EXCEPT ![t] = [pc |-> p, address |-> w, tx |-> 0]]
        /\ p = "shown" => w # None
      BY DEF Load, SignsAs
<1>2. UNCHANGED <<wallets, exists, trusts, number, txs, request>> BY DEF Load, ledger
<1>3. tab[t].pc \notin {"prepare", "submit"} BY DEF Load
<1>4. Types' BY <1>1, <1>2 DEF Types, Tab
<1>5. \A u \in Tabs : u # t => tab'[u] = tab[u] BY <1>1 DEF Types
<1>6. tab'[t].pc = p /\ tab'[t].address = w BY <1>1 DEF Types
<1>7. Listed' BY <1>2 DEF Listed
<1>8. Prepared' BY <1>1, <1>2, <1>5, <1>6 DEF Prepared, TxOf
<1>9. Attached' BY <1>2, <1>3, <1>5, NoneIsNothing DEF Attached, Types, Request
<1>10. Own' /\ LookedAt' BY <1>2 DEF Own, LookedAt, TxOf
<1>11. Activated' BY <1>2, <1>5, <1>6 DEF Activated
<1> QED BY <1>4, <1>7, <1>8, <1>9, <1>10, <1>11

(* A page asks for a transaction. *)
LEMMA ActivateKeeps ==
  ASSUME Inv, NEW t \in Tabs, Activate(t) PROVE Inv'
<1> USE OwnersType, NumbersType, NoneIsNothing DEF Inv
<1> PICK w : w = Newest(UserOf[t]) OBVIOUS
<1>w. w \in Wallets \cup {None} /\ (w # None => OwnerOf[w] = UserOf[t]) BY NewestIsOwn
<1>1. PICK r \in Requests :
        /\ request[r].pc = "idle"
        /\ request' = [request EXCEPT ![r] =
             [NoRequest EXCEPT !.pc = "check", !.tab = t, !.wallet = w]]
      BY DEF Activate
<1>2. UNCHANGED <<wallets, exists, trusts, number, txs>> BY DEF Activate, ledger
<1>3. tab' = [tab EXCEPT ![t].pc = "prepare"] /\ tab[t].pc \in {"shown", "failed"}
      BY DEF Activate
<1>4. Types'
  <2>1. [NoRequest EXCEPT !.pc = "check", !.tab = t, !.wallet = w] \in Request
        BY <1>w, Arrives
  <2>2. request' \in [Requests -> Request] BY <1>1, <2>1 DEF Types
  <2>3. tab' \in [Tabs -> Tab] BY <1>3 DEF Types, Tab
  <2> QED BY <1>2, <2>2, <2>3 DEF Types
<1>5. \A u \in Tabs : (u # t => tab'[u] = tab[u]) BY <1>3 DEF Types
<1>6. tab'[t].pc = "prepare" /\ tab'[t].address = tab[t].address BY <1>3 DEF Types, Tab
<1>7. \A q \in Requests : q # r => request'[q] = request[q] BY <1>1 DEF Types
<1>8. /\ request'[r].pc = "check" /\ request'[r].tab = t /\ request'[r].wallet = w
      /\ request'[r].checked = 0
      BY <1>1 DEF Types, NoRequest
<1>9. \A q \in Requests : request[q].tab # t BY <1>3, NoneIsNothing DEF Attached
<1>10. Listed' BY <1>2 DEF Listed
<1>11. Prepared' BY <1>2, <1>3, <1>5, <1>6, <1>7, <1>8 DEF Prepared, TxOf
<1>12. Attached'
  <2>1. \A q \in Requests : request[q].tab \in Tabs \cup {None} BY DEF Types, Request
  <2> QED BY <2>1, <1>5, <1>6, <1>7, <1>8, <1>9 DEF Attached
<1>13. Own' BY <1>w, <1>2, <1>7, <1>8 DEF Own, TxOf
<1>14. LookedAt'
  <2>1. \A q \in Requests : /\ request'[q].pc = "load" => q # r
                            /\ request'[q].checked <= number
        BY <1>7, <1>8 DEF LookedAt, Types
  <2> QED BY <1>2, <1>7, <2>1 DEF LookedAt
<1>15. Activated' BY <1>2, <1>5, <1>6 DEF Activated
<1> QED BY <1>4, <1>10, <1>11, <1>12, <1>13, <1>14, <1>15

(* The wallet signs, the page submits. *)
LEMMA SignAndSubmitKeeps ==
  ASSUME Inv, NEW t \in Tabs, SignAndSubmit(t) PROVE Inv'
<1> USE OwnersType, NumbersType, NoneIsNothing DEF Inv
<1> PICK w : w = Newest(UserOf[t]) OBVIOUS
<1> PICK x : x = tab[t].tx OBVIOUS
<1> PICK a : a = tab[t].address OBVIOUS
<1>w. w \in Wallets \cup {None} /\ (w # None => OwnerOf[w] = UserOf[t]) BY NewestIsOwn
<1>1. PICK r \in Requests :
        /\ request[r].pc = "idle"
        /\ request' = [request EXCEPT ![r] =
             [NoRequest EXCEPT !.pc = "validate", !.tab = t, !.tx = x, !.wallet = w]]
      BY DEF SignAndSubmit
<1>2. UNCHANGED <<wallets, exists, trusts, number>> BY DEF SignAndSubmit, ledger
<1>3. tab' = [tab EXCEPT ![t].pc = "submit"] /\ tab[t].pc = "sign" BY DEF SignAndSubmit
<1>4. txs' = [txs EXCEPT ![x].signer = a] BY DEF SignAndSubmit, Signer
<1>x. x \in 1 .. Len(txs) /\ x \in Nat /\ a \in Wallets
  <2>1. tab[t] \in Tab BY DEF Types
  <2> QED BY <1>3, <2>1 DEF Prepared, Tab
<1>y. txs \in Seq(Tx) /\ txs[x] \in Tx BY <1>x DEF Types
<1> PICK e : e = [txs[x] EXCEPT !.signer = a] OBVIOUS
<1>e. /\ e \in Tx /\ e.wallet = txs[x].wallet /\ e.number = txs[x].number
      /\ e.checked = txs[x].checked /\ e.state = txs[x].state /\ e.signer = a
      BY <1>x, <1>y DEF Tx
<1>z. txs' = [txs EXCEPT ![x] = e] BY <1>4
<1>5. txs' \in Seq(Tx) /\ Len(txs') = Len(txs) BY <1>x, <1>y, <1>e, <1>z, OneChanges
<1>6. \A y \in 1 .. Len(txs) :
        /\ txs'[y].wallet = txs[y].wallet /\ txs'[y].number = txs[y].number
        /\ txs'[y].checked = txs[y].checked /\ txs'[y].state = txs[y].state
        /\ txs'[y].signer = IF y = x THEN a ELSE txs[y].signer
      BY <1>x, <1>y, <1>e, <1>z, OneChanges
<1>7. Types'
  <2>1. [NoRequest EXCEPT !.pc = "validate", !.tab = t, !.tx = x, !.wallet = w] \in Request
        BY <1>w, <1>x, Arrives
  <2>2. request' \in [Requests -> Request] BY <1>1, <2>1 DEF Types
  <2>3. tab' \in [Tabs -> Tab] BY <1>3 DEF Types, Tab
  <2> QED BY <1>2, <1>5, <2>2, <2>3 DEF Types
<1>8. \A u \in Tabs : u # t => tab'[u] = tab[u] BY <1>3 DEF Types
<1>9. tab'[t].pc = "submit" /\ tab'[t].address = a /\ tab'[t].tx = x BY <1>3 DEF Types, Tab
<1>10. \A q \in Requests : q # r => request'[q] = request[q] BY <1>1 DEF Types
<1>11. /\ request'[r].pc = "validate" /\ request'[r].tab = t /\ request'[r].wallet = w
       /\ request'[r].checked = 0 /\ request'[r].tx = x
       BY <1>1 DEF Types, NoRequest
<1>12. \A q \in Requests : request[q].tab # t BY <1>3, NoneIsNothing DEF Attached
<1>13. Listed' BY <1>2 DEF Listed
<1>14. Prepared'
  <2>1. \A u \in Tabs : /\ tab'[u].pc \in {"sign", "submit", "done"} => tab'[u].tx \in 1 .. Len(txs')
                        /\ tab'[u].pc # "hidden" => tab'[u].address # None
        BY <1>x, <1>5, <1>8, <1>9 DEF Prepared
  <2>2. request'[r].tx \in 1 .. Len(txs') /\ txs'[request'[r].tx].signer # None
        BY <1>x, <1>5, <1>6, <1>11
  <2>3. \A q \in Requests : q # r /\ request'[q].pc \in {"validate", "send", "wait"} =>
          request'[q].tx \in 1 .. Len(txs') /\ txs'[request'[q].tx].signer # None
    <3>1. \A q \in Requests : request[q].pc \in {"validate", "send", "wait"} =>
            request[q].tx \in 1 .. Len(txs) /\ txs[request[q].tx].signer # None
          BY DEF Prepared, TxOf
    <3>2. \A y \in 1 .. Len(txs) : txs[y].signer # None => txs'[y].signer # None BY <1>x, <1>6
    <3> QED BY <1>5, <1>10, <3>1, <3>2
  <2> QED BY <2>1, <2>2, <2>3, <1>10, <1>11 DEF Prepared, TxOf
<1>15. Attached'
  <2>1. \A q \in Requests : request[q].tab \in Tabs \cup {None} BY DEF Types, Request
  <2> QED BY <2>1, <1>8, <1>9, <1>10, <1>11, <1>12 DEF Attached
<1>16. Own'
  <2>1. \A q \in Requests : request[q].pc \in {"send", "wait"} =>
          txs'[request[q].tx].wallet = txs[request[q].tx].wallet
        BY <1>6 DEF Prepared
  <2>2. \A q \in Requests : q # r => (request[q].tab # None =>
          /\ request'[q].wallet # None => OwnerOf[request'[q].wallet] = UserOf[request'[q].tab]
          /\ request'[q].pc \in {"send", "wait"} => OwnerOf[TxOf(q).wallet] = UserOf[request'[q].tab])
        BY <1>10 DEF Own
  <2> QED BY <1>w, <1>10, <1>11, <2>1, <2>2 DEF Own, TxOf
<1>17. LookedAt'
  <2>1. \A q \in Requests : /\ request'[q].pc = "load" => q # r
                            /\ request'[q].checked <= number
        BY <1>10, <1>11 DEF LookedAt, Types
  <2>2. \A y \in 1 .. Len(txs') : txs'[y].checked <= number' BY <1>2, <1>5, <1>6 DEF LookedAt
  <2>3. ASSUME NEW y \in 1 .. Len(txs'), txs'[y].state = "included"
        PROVE  /\ txs'[y].wallet \in trusts'
               /\ \A z \in 1 .. Len(txs') :
                    txs'[z].wallet = txs'[y].wallet => txs'[z].checked < txs'[y].number
               /\ \A q \in Requests :
                    request'[q].pc = "load" /\ request'[q].wallet = txs'[y].wallet =>
                      request'[q].checked < txs'[y].number
    <3>1. /\ y \in 1 .. Len(txs) /\ txs[y].state = "included"
          /\ txs'[y].wallet = txs[y].wallet /\ txs'[y].number = txs[y].number
          BY <1>5, <1>6, <2>3
    <3>2. /\ txs[y].wallet \in trusts
          /\ \A z \in 1 .. Len(txs) :
               txs[z].wallet = txs[y].wallet => txs[z].checked < txs[y].number
          /\ \A q \in Requests :
               request[q].pc = "load" /\ request[q].wallet = txs[y].wallet =>
                 request[q].checked < txs[y].number
          BY <3>1 DEF LookedAt
    <3>3. \A z \in 1 .. Len(txs') : z \in 1 .. Len(txs) /\ txs'[z].wallet = txs[z].wallet
                                  /\ txs'[z].checked = txs[z].checked
          BY <1>5, <1>6
    <3>4. \A q \in Requests : request'[q].pc = "load" => request'[q] = request[q] BY <1>10, <2>1
    <3> QED BY <1>2, <3>1, <3>2, <3>3, <3>4
  <2> QED BY <1>2, <2>1, <2>2, <2>3 DEF LookedAt
<1>18. Activated' BY <1>2, <1>6, <1>8, <1>9 DEF Activated, Prepared
<1> QED BY <1>7, <1>13, <1>14, <1>15, <1>16, <1>17, <1>18

(* The creator cancels. *)
LEMMA CancelKeeps ==
  ASSUME Inv, NEW t \in Tabs, Cancel(t) PROVE Inv'
<1> USE NoneIsNothing DEF Inv
<1>1. tab' = [tab EXCEPT ![t].pc = "failed", ![t].tx = 0] /\ tab[t].pc = "sign" BY DEF Cancel
<1>2. UNCHANGED <<wallets, exists, trusts, number, txs, request>> BY DEF Cancel, ledger
<1>3. Types' BY <1>1, <1>2 DEF Types, Tab
<1>4. \A u \in Tabs : u # t => tab'[u] = tab[u] BY <1>1 DEF Types
<1>5. tab'[t].pc = "failed" /\ tab'[t].address = tab[t].address BY <1>1 DEF Types, Tab
<1>6. Listed' BY <1>2 DEF Listed
<1>7. Prepared' BY <1>1, <1>2, <1>4, <1>5 DEF Prepared, TxOf
<1>8. Attached' BY <1>1, <1>2, <1>4 DEF Attached, Types, Request
<1>9. Own' /\ LookedAt' BY <1>2 DEF Own, LookedAt, TxOf
<1>10. Activated' BY <1>2, <1>4, <1>5 DEF Activated
<1> QED BY <1>3, <1>6, <1>7, <1>8, <1>9, <1>10

(* An answer is lost: its request works for nobody. *)
LEMMA LoseAnswerKeeps ==
  ASSUME Inv, NEW t \in Tabs, LoseAnswer(t) PROVE Inv'
<1> USE NoneIsNothing DEF Inv
<1>1. /\ tab' = [tab EXCEPT ![t].pc = "failed", ![t].tx = 0]
      /\ tab[t].pc \in {"prepare", "submit"}
      BY DEF LoseAnswer
<1>2. UNCHANGED <<wallets, exists, trusts, number, txs>> BY DEF LoseAnswer, ledger
<1>3. request' = [r \in Requests |-> IF request[r].tab = t
                                     THEN [request[r] EXCEPT !.tab = None] ELSE request[r]]
      BY DEF LoseAnswer, Detach
<1>4. Types'
  <2>1. tab' \in [Tabs -> Tab] BY <1>1 DEF Types, Tab
  <2>2. \A r \in Requests : request[r] \in Request BY DEF Types
  <2>3. \A r \in Requests : [request[r] EXCEPT !.tab = None] \in Request BY <2>2 DEF Request
  <2>4. request' \in [Requests -> Request] BY <1>3, <2>2, <2>3
  <2> QED BY <1>2, <2>1, <2>4 DEF Types
<1>5. \A u \in Tabs : u # t => tab'[u] = tab[u] BY <1>1 DEF Types
<1>6. tab'[t].pc = "failed" /\ tab'[t].address = tab[t].address BY <1>1 DEF Types, Tab
<1>7. \A r \in Requests :
        /\ request'[r].pc = request[r].pc /\ request'[r].wallet = request[r].wallet
        /\ request'[r].checked = request[r].checked /\ request'[r].tx = request[r].tx
        /\ request'[r].tab = IF request[r].tab = t THEN None ELSE request[r].tab
      BY <1>3 DEF Types, Request
<1>8. Listed' BY <1>2 DEF Listed
<1>9. Prepared'
  <2>1. \A u \in Tabs : /\ tab'[u].pc \in {"sign", "submit", "done"} => tab'[u].tx \in 1 .. Len(txs')
                        /\ tab'[u].pc # "hidden" => tab'[u].address # None
        BY <1>1, <1>2, <1>5, <1>6 DEF Prepared
  <2> QED BY <1>2, <1>7, <2>1 DEF Prepared, TxOf
<1>10. Attached'
  <2>1. \A q \in Requests : request[q].tab \in Tabs \cup {None} BY DEF Types, Request
  <2> QED BY <2>1, <1>5, <1>7 DEF Attached
<1>11. Own' BY <1>2, <1>7 DEF Own, TxOf
<1>12. LookedAt' BY <1>2, <1>7 DEF LookedAt
<1>13. Activated' BY <1>2, <1>5, <1>6 DEF Activated
<1> QED BY <1>4, <1>8, <1>9, <1>10, <1>11, <1>12, <1>13

(* The process restarts. *)
LEMMA CrashKeeps ==
  ASSUME Inv, Crash PROVE Inv'
<1> USE NumbersType, NoneIsNothing, NoRequestFields DEF Inv
<1>1. request' = [r \in Requests |-> NoRequest] BY DEF Crash
<1>2. tab' = [t \in Tabs |-> IF tab[t].pc \in {"prepare", "submit"}
                             THEN [tab[t] EXCEPT !.pc = "failed", !.tx = 0] ELSE tab[t]]
      BY DEF Crash
<1>3. UNCHANGED <<wallets, exists, trusts, number, txs>> BY DEF Crash, ledger
<1>4. Types'
  <2>1. tab' \in [Tabs -> Tab] BY <1>2 DEF Types, Tab
  <2> QED BY <1>1, <1>3, <2>1 DEF Types
<1>5. \A t \in Tabs : tab'[t] = tab[t] \/ (tab'[t].pc = "failed" /\ tab'[t].address = tab[t].address
                                           /\ tab[t].pc # "hidden")
      BY <1>2 DEF Types, Tab
<1>6. \A r \in Requests : request'[r] = NoRequest BY <1>1
<1>7. Listed' BY <1>3 DEF Listed
<1>8. Prepared'
  <2>1. \A t \in Tabs : /\ tab'[t].pc \in {"sign", "submit", "done"} => tab'[t].tx \in 1 .. Len(txs')
                        /\ tab'[t].pc # "hidden" => tab'[t].address # None
        BY <1>3, <1>5 DEF Prepared
  <2> QED BY <1>6, <2>1 DEF Prepared
<1>9. Attached' /\ Own' BY <1>6 DEF Attached, Own
<1>10. LookedAt' BY <1>3, <1>6 DEF LookedAt, Types
<1>11. Activated' BY <1>3, <1>5 DEF Activated
<1> QED BY <1>4, <1>7, <1>8, <1>9, <1>10, <1>11

-----------------------------------------------------------------------------
(* The server. *)

(* Every transaction stays what it was; there may be more of them. *)
Kept == /\ txs' \in Seq(Tx)
        /\ Len(txs) <= Len(txs')
        /\ \A y \in 1 .. Len(txs) : txs'[y] = txs[y]

LEMMA UnchangedIsKept == Types /\ txs' = txs => Kept
BY DEF Types, Kept

(* A request that answers leaves every other page and request alone. *)
LEMMA AnswerIs ==
  ASSUME Types, Attached, NEW r \in Requests, request[r].pc # "idle",
         NEW p \in {"sign", "done", "failed"}, NEW x \in Nat, Answer(r, p, x)
  PROVE  /\ tab' \in [Tabs -> Tab] /\ request' \in [Requests -> Request]
         /\ request'[r] = NoRequest
         /\ \A q \in Requests : q # r => request'[q] = request[q]
         /\ \A t \in Tabs : t # request[r].tab => tab'[t] = tab[t]
         /\ \A t \in Tabs : t = request[r].tab =>
              /\ tab[t].pc \in {"prepare", "submit"}
              /\ tab'[t].pc = p /\ tab'[t].tx = x /\ tab'[t].address = tab[t].address
<1> USE NumbersType, NoneIsNothing, NoRequestFields
<1> PICK u : u = request[r].tab OBVIOUS
<1>u. u # None => tab[u].pc \in {"prepare", "submit"} BY DEF Attached
<1>1. request' = [request EXCEPT ![r] = NoRequest] BY DEF Answer
<1>2. tab' = [t \in Tabs |-> IF t = u THEN [tab[t] EXCEPT !.pc = p, !.tx = x] ELSE tab[t]]
      BY DEF Answer
<1>3. request' \in [Requests -> Request] BY <1>1 DEF Types
<1>4. tab' \in [Tabs -> Tab] BY <1>2 DEF Types, Tab
<1>5. \A q \in Requests : q # r => request'[q] = request[q] BY <1>1 DEF Types
<1>6. request'[r] = NoRequest BY <1>1 DEF Types
<1>7. \A t \in Tabs : t # u => tab'[t] = tab[t] BY <1>2
<1>8. \A t \in Tabs : t = u => tab'[t].pc = p /\ tab'[t].tx = x /\ tab'[t].address = tab[t].address
      BY <1>2 DEF Types, Tab
<1>9. \A t \in Tabs : t = u => tab[t].pc \in {"prepare", "submit"} BY <1>u
<1> QED BY <1>3, <1>4, <1>5, <1>6, <1>7, <1>8, <1>9

(* What a page is answered is right if what it is told is. *)
LEMMA AnswerKeeps ==
  ASSUME Inv, NEW r \in Requests, request[r].pc # "idle",
         NEW p \in {"sign", "done", "failed"}, NEW x \in Nat, Answer(r, p, x),
         UNCHANGED <<wallets, exists, trusts, number>>, Kept, LookedAt',
         p \in {"sign", "done"} => x \in 1 .. Len(txs'),
         p = "done" => /\ x \in 1 .. Len(txs)
                       /\ txs[x].wallet \in trusts
                       /\ request[r].tab # None => OwnerOf[txs[x].wallet] = UserOf[request[r].tab]
  PROVE  Inv'
<1> USE NumbersType, NoneIsNothing, NoRequestFields DEF Inv
<1> PICK u : u = request[r].tab OBVIOUS
<1>0. /\ tab' \in [Tabs -> Tab] /\ request' \in [Requests -> Request]
      /\ request'[r] = NoRequest
      /\ \A q \in Requests : q # r => request'[q] = request[q]
      /\ \A t \in Tabs : t # u => tab'[t] = tab[t]
      /\ \A t \in Tabs : t = u =>
           /\ tab[t].pc \in {"prepare", "submit"}
           /\ tab'[t].pc = p /\ tab'[t].tx = x /\ tab'[t].address = tab[t].address
      BY AnswerIs
<1>1. /\ Len(txs) \in Nat /\ Len(txs') \in Nat /\ Len(txs) <= Len(txs')
      /\ \A y \in 1 .. Len(txs) : y \in 1 .. Len(txs') /\ txs'[y] = txs[y]
  <2>1. Len(txs) \in Nat /\ Len(txs') \in Nat BY DEF Types, Kept
  <2> QED BY <2>1 DEF Kept
<1>2. Types' BY <1>0 DEF Types, Kept
<1>3. Listed' BY DEF Listed
<1>4. Prepared'
  <2>1. ASSUME NEW t \in Tabs
        PROVE  /\ tab'[t].pc \in {"sign", "submit", "done"} => tab'[t].tx \in 1 .. Len(txs')
               /\ tab'[t].pc # "hidden" => tab'[t].address # None
    <3>1. CASE t = u BY <3>1, <1>0 DEF Prepared
    <3>2. CASE t # u BY <3>2, <1>0, <1>1 DEF Prepared
    <3> QED BY <3>1, <3>2
  <2>2. ASSUME NEW q \in Requests
        PROVE  /\ request'[q].pc \in {"validate", "send", "wait"} =>
                    request'[q].tx \in 1 .. Len(txs') /\ txs'[request'[q].tx].signer # None
               /\ request'[q].pc = "load" => request'[q].wallet # None
    <3>1. CASE q = r BY <3>1, <1>0
    <3>2. CASE q # r BY <3>2, <1>0, <1>1 DEF Prepared, TxOf
    <3> QED BY <3>1, <3>2
  <2> QED BY <2>1, <2>2 DEF Prepared, TxOf
<1>5. Attached'
  <2>1. \A q \in Requests : request[q].tab \in Tabs \cup {None} BY DEF Types, Request
  <2> QED BY <1>0, <2>1 DEF Attached
<1>6. Own' BY <1>0, <1>1 DEF Own, TxOf, Prepared
<1>7. Activated'
  <2>1. ASSUME NEW t \in Tabs, tab'[t].pc = "done"
        PROVE  /\ txs'[tab'[t].tx].wallet \in trusts
               /\ OwnerOf[txs'[tab'[t].tx].wallet] = UserOf[t]
    <3>1. CASE t = u BY <3>1, <2>1, <1>0, <1>1
    <3>2. CASE t # u BY <3>2, <2>1, <1>0, <1>1 DEF Activated, Prepared
    <3> QED BY <3>1, <3>2
  <2> QED BY <2>1 DEF Activated
<1> QED BY <1>2, <1>3, <1>4, <1>5, <1>6, <1>7

(* What was looked at stays so when a request ends. *)
LEMMA LookedAtStays ==
  ASSUME Inv, NEW r \in Requests, request[r].pc # "idle",
         NEW p \in {"sign", "done", "failed"}, NEW x \in Nat, Answer(r, p, x),
         UNCHANGED <<trusts, number, txs>>
  PROVE  LookedAt'
<1>1. request'[r] = NoRequest /\ \A q \in Requests : q # r => request'[q] = request[q]
      BY AnswerIs DEF Inv
<1>2. \A q \in Requests : request'[q].checked <= number /\ (request'[q].pc = "load" => q # r)
      BY <1>1, NoRequestFields, NumbersType DEF Inv, LookedAt, Types
<1> QED BY <1>1, <1>2 DEF Inv, LookedAt

(* A refusal. *)
LEMMA RefuseKeeps ==
  ASSUME Inv, NEW r \in Requests, request[r].pc # "idle", Refuse(r),
         UNCHANGED <<wallets, exists, trusts, number, txs>>
  PROVE  Inv'
<1>1. Answer(r, "failed", 0) BY DEF Refuse
<1>2. LookedAt' BY <1>1, LookedAtStays
<1>3. Kept BY UnchangedIsKept DEF Inv
<1> QED BY <1>1, <1>2, <1>3, AnswerKeeps

(* The hash is returned. *)
LEMMA ReturnHashKeeps ==
  ASSUME Inv, NEW r \in Requests, ReturnHash(r) PROVE Inv'
<1> PICK x : x = request[r].tx OBVIOUS
<1>1. /\ request[r].pc \in {"send", "wait"} /\ txs[x].state = "included"
      /\ Answer(r, "done", x) /\ UNCHANGED <<wallets, exists, trusts, number, txs>>
      BY DEF ReturnHash, TxOf, ledger
<1>2. x \in 1 .. Len(txs) /\ x \in Nat BY <1>1 DEF Inv, Prepared
<1>3. txs[x].wallet \in trusts BY <1>1, <1>2 DEF Inv, LookedAt
<1>4. request[r].tab # None => OwnerOf[txs[x].wallet] = UserOf[request[r].tab]
      BY <1>1 DEF Inv, Own, TxOf
<1>5. LookedAt' BY <1>1, <1>2, LookedAtStays
<1>6. Kept BY <1>1, UnchangedIsKept DEF Inv
<1> QED BY <1>1, <1>2, <1>3, <1>4, <1>5, <1>6, AnswerKeeps

LEMMA FailSubmitKeeps ==
  ASSUME Inv, NEW r \in Requests, FailSubmit(r) PROVE Inv'
BY RefuseKeeps DEF FailSubmit, ledger

(* A transaction is prepared: its wallet was looked at before any of the   *)
(* included ones for it.                                                   *)
LEMMA BuildAndSignKeeps ==
  ASSUME Inv, NEW r \in Requests, BuildAndSign(r) PROVE Inv'
<1> USE NumbersType, NoneIsNothing, NoRequestFields DEF Inv
<1>0. request[r].pc = "load" /\ UNCHANGED <<wallets, exists, trusts, number>>
      BY DEF BuildAndSign, At, ledger
<1>1. CASE Refuse(r) /\ UNCHANGED txs BY <1>0, <1>1, RefuseKeeps
<1>2. CASE ~(Refuse(r) /\ UNCHANGED txs)
  <2> PICK e : e = [wallet |-> request[r].wallet, number |-> number + 1,
                    creates |-> request[r].creates, checked |-> request[r].checked,
                    signer |-> None, late |-> FALSE, state |-> "prepared"]
      OBVIOUS
  <2>1. txs' = Append(txs, e) /\ Answer(r, "sign", Len(txs) + 1)
        BY <1>2 DEF BuildAndSign
  <2>2. request[r] \in Request /\ number \in Nat /\ txs \in Seq(Tx) /\ Len(txs) \in Nat
        BY DEF Types
  <2>3. request[r].wallet \in Wallets BY <1>0, <2>2 DEF Prepared, Request
  <2>4. /\ e \in Tx /\ e.wallet = request[r].wallet /\ e.checked = request[r].checked
        /\ e.state = "prepared"
        BY <2>2, <2>3 DEF Tx, Request
  <2>5. txs' \in Seq(Tx) /\ Len(txs') = Len(txs) + 1 /\ txs'[Len(txs) + 1] = e
        /\ \A y \in 1 .. Len(txs) : txs'[y] = txs[y]
        BY <2>1, <2>2, <2>4
  <2>6. Kept BY <2>2, <2>5 DEF Kept
  <2>7. 1 .. Len(txs') = 1 .. Len(txs) \cup {Len(txs) + 1} BY <2>2, <2>5
  <2>8. request'[r] = NoRequest /\ \A q \in Requests : q # r => request'[q] = request[q]
        BY <1>0, <2>1, <2>2, AnswerIs
  <2>9. LookedAt'
    <3>1. \A q \in Requests : request'[q].checked <= number /\ (request'[q].pc = "load" => q # r)
          BY <2>8, <2>2 DEF LookedAt
    <3>2. \A y \in 1 .. Len(txs') : txs'[y].checked <= number
          BY <2>4, <2>5, <2>7 DEF LookedAt
    <3>3. ASSUME NEW x \in 1 .. Len(txs'), txs'[x].state = "included"
          PROVE  /\ txs'[x].wallet \in trusts
                 /\ \A y \in 1 .. Len(txs') :
                      txs'[y].wallet = txs'[x].wallet => txs'[y].checked < txs'[x].number
                 /\ \A q \in Requests :
                      request'[q].pc = "load" /\ request'[q].wallet = txs'[x].wallet =>
                        request'[q].checked < txs'[x].number
      <4>1. x \in 1 .. Len(txs) /\ txs'[x] = txs[x] BY <3>3, <2>4, <2>5, <2>7
      <4>2. txs[x].wallet \in trusts BY <3>3, <4>1 DEF LookedAt
      <4>3. \A y \in 1 .. Len(txs') :
              txs'[y].wallet = txs'[x].wallet => txs'[y].checked < txs'[x].number
            BY <1>0, <3>3, <4>1, <2>4, <2>5, <2>7 DEF LookedAt
      <4>4. \A q \in Requests :
              request'[q].pc = "load" /\ request'[q].wallet = txs'[x].wallet =>
                request'[q].checked < txs'[x].number
            BY <3>1, <3>3, <4>1, <2>8 DEF LookedAt
      <4> QED BY <4>1, <4>2, <4>3, <4>4
    <3> QED BY <1>0, <3>1, <3>2, <3>3 DEF LookedAt
  <2> QED BY <1>0, <2>1, <2>2, <2>5, <2>6, <2>9, AnswerKeeps
<1> QED BY <1>1, <1>2

(* A request moves on and stays attached to its page. *)
LEMMA MovesOn ==
  ASSUME Inv, NEW r \in Requests, NEW e \in Request, request' = [request EXCEPT ![r] = e],
         request[r].pc # "idle", e.pc # "idle", e.tab = request[r].tab,
         UNCHANGED <<wallets, exists, trusts, number, tab>>,
         txs' \in Seq(Tx), Len(txs') = Len(txs),
         \A y \in 1 .. Len(txs) :
           /\ txs'[y].wallet = txs[y].wallet /\ txs'[y].number = txs[y].number
           /\ txs'[y].signer = txs[y].signer /\ txs'[y].checked = txs[y].checked
           /\ txs'[y].state = "included" => txs[y].state = "included",
         e.pc \in {"validate", "send", "wait"} =>
           e.tx \in 1 .. Len(txs) /\ txs[e.tx].signer # None,
         e.pc = "load" => /\ e.wallet # None
                          /\ \A x \in 1 .. Len(txs) : txs[x].state = "included" =>
                               txs[x].wallet # e.wallet,
         e.checked <= number,
         e.tab # None =>
           /\ e.wallet # None => OwnerOf[e.wallet] = UserOf[e.tab]
           /\ e.pc \in {"send", "wait"} => OwnerOf[txs[e.tx].wallet] = UserOf[e.tab]
  PROVE  Inv'
<1> USE NumbersType, NoneIsNothing DEF Inv
<1>1. request'[r] = e /\ \A q \in Requests : q # r => request'[q] = request[q] BY DEF Types
<1>2. Types' BY DEF Types
<1>3. Listed' BY DEF Listed
<1>4. Prepared'
  <2>1. \A t \in Tabs : /\ tab'[t].pc \in {"sign", "submit", "done"} => tab'[t].tx \in 1 .. Len(txs')
                        /\ tab'[t].pc # "hidden" => tab'[t].address # None
        BY DEF Prepared
  <2>2. ASSUME NEW q \in Requests
        PROVE  /\ request'[q].pc \in {"validate", "send", "wait"} =>
                    request'[q].tx \in 1 .. Len(txs') /\ txs'[request'[q].tx].signer # None
               /\ request'[q].pc = "load" => request'[q].wallet # None
    <3>1. CASE q = r BY <3>1, <1>1
    <3>2. CASE q # r BY <3>2, <1>1 DEF Prepared, TxOf
    <3> QED BY <3>1, <3>2
  <2> QED BY <2>1, <2>2 DEF Prepared, TxOf
<1>5. Attached'
  <2>1. \A q \in Requests : request'[q].tab = request[q].tab BY <1>1
  <2>2. \A q \in Requests : request'[q].pc = "idle" => request[q].pc = "idle" BY <1>1
  <2> QED BY <2>1, <2>2 DEF Attached
<1>6. Own'
  <2>1. ASSUME NEW q \in Requests, request'[q].tab # None
        PROVE  /\ request'[q].wallet # None => OwnerOf[request'[q].wallet] = UserOf[request'[q].tab]
               /\ request'[q].pc \in {"send", "wait"} =>
                    OwnerOf[txs'[request'[q].tx].wallet] = UserOf[request'[q].tab]
    <3>1. CASE q = r BY <3>1, <2>1, <1>1
    <3>2. CASE q # r BY <3>2, <2>1, <1>1 DEF Own, Prepared, TxOf
    <3> QED BY <3>1, <3>2
  <2> QED BY <2>1 DEF Own, TxOf
<1>7. LookedAt'
  <2>1. \A y \in 1 .. Len(txs') : txs'[y].checked <= number' BY DEF LookedAt
  <2>2. \A q \in Requests : request'[q].checked <= number' BY <1>1 DEF LookedAt
  <2>3. ASSUME NEW x \in 1 .. Len(txs'), txs'[x].state = "included"
        PROVE  /\ txs'[x].wallet \in trusts'
               /\ \A y \in 1 .. Len(txs') :
                    txs'[y].wallet = txs'[x].wallet => txs'[y].checked < txs'[x].number
               /\ \A q \in Requests :
                    request'[q].pc = "load" /\ request'[q].wallet = txs'[x].wallet =>
                      request'[q].checked < txs'[x].number
        BY <2>3, <1>1 DEF LookedAt
  <2> QED BY <2>1, <2>2, <2>3 DEF LookedAt
<1>8. Activated' BY DEF Activated, Prepared
<1> QED BY <1>2, <1>3, <1>4, <1>5, <1>6, <1>7, <1>8

LEMMA CheckWalletKeeps ==
  ASSUME Inv, NEW r \in Requests, CheckWallet(r) PROVE Inv'
<1> USE NumbersType, NoneIsNothing DEF Inv
<1>0. request[r].pc = "check" /\ UNCHANGED <<wallets, exists, trusts, number, txs>>
      BY DEF CheckWallet, At, ledger
<1>1. CASE Refuse(r) BY <1>0, <1>1, RefuseKeeps
<1>2. CASE ~Refuse(r)
  <2> PICK e : e = [request[r] EXCEPT !.pc = "load", !.checked = number,
                      !.creates = request[r].wallet \notin exists]
      OBVIOUS
  <2>1. /\ request[r].wallet # None /\ request[r].wallet \notin trusts
        /\ request' = [request EXCEPT ![r] = e] /\ UNCHANGED tab
        BY <1>2 DEF CheckWallet, IsConflict
  <2>2. request[r] \in Request /\ number \in Nat /\ txs \in Seq(Tx) BY DEF Types
  <2>b. (request[r].wallet \notin exists) \in BOOLEAN OBVIOUS
  <2>3. /\ e \in Request /\ e.pc = "load" /\ e.checked = number
        /\ e.tab = request[r].tab /\ e.wallet = request[r].wallet
        BY <2>2, <2>b DEF Request
  <2>4. \A x \in 1 .. Len(txs) : txs[x].state = "included" => txs[x].wallet # e.wallet
        BY <2>1, <2>3 DEF LookedAt
  <2>5. e.tab # None => (e.wallet # None => OwnerOf[e.wallet] = UserOf[e.tab])
        BY <2>3 DEF Own
  <2>6. e.checked <= number BY <2>2, <2>3
  <2>7. txs' \in Seq(Tx) /\ Len(txs') = Len(txs) BY <1>0, <2>2
  <2> HIDE DEF Inv
  <2> QED BY <1>0, <2>1, <2>3, <2>4, <2>5, <2>6, <2>7, MovesOn
<1> QED BY <1>1, <1>2

LEMMA ValidateKeeps ==
  ASSUME Inv, NEW r \in Requests, Validate(r) PROVE Inv'
<1> USE NumbersType, NoneIsNothing DEF Inv
<1>0. request[r].pc = "validate" /\ UNCHANGED <<wallets, exists, trusts, number, txs>>
      BY DEF Validate, At, ledger
<1>1. CASE ~IsOurs(r) BY <1>0, <1>1, RefuseKeeps DEF Validate
<1>2. CASE IsOurs(r)
  <2> PICK e : e = [request[r] EXCEPT !.pc = "send", !.wallet = None] OBVIOUS
  <2>2. request[r] \in Request /\ number \in Nat /\ txs \in Seq(Tx) BY DEF Types
  <2>1. request' = [request EXCEPT ![r] = e] /\ UNCHANGED tab BY <1>2 DEF Validate
  <2>3. /\ e \in Request /\ e.pc = "send" /\ e.checked = request[r].checked
        /\ e.tab = request[r].tab /\ e.wallet = None /\ e.tx = request[r].tx
        BY <2>2 DEF Request
  <2>5. e.tx \in 1 .. Len(txs) /\ txs[e.tx].signer # None BY <1>0, <2>3 DEF Prepared, TxOf
  <2>6. txs[e.tx].wallet = request[r].wallet /\ txs[e.tx].wallet \in Wallets
    <3>1. txs[e.tx] \in Tx BY <2>2, <2>5
    <3>2. txs[e.tx].wallet \in Wallets BY <3>1 DEF Tx
    <3> QED BY <1>2, <2>3, <3>2 DEF IsOurs, TxOf
  <2>7. e.tab # None => OwnerOf[txs[e.tx].wallet] = UserOf[e.tab] BY <2>3, <2>6 DEF Own
  <2>8. e.checked <= number BY <2>3 DEF LookedAt
  <2>9. txs' \in Seq(Tx) /\ Len(txs') = Len(txs) BY <1>0, <2>2
  <2> HIDE DEF Inv
  <2> QED BY <1>0, <2>1, <2>3, <2>5, <2>7, <2>8, <2>9, MovesOn
<1> QED BY <1>1, <1>2

LEMMA RetryKeeps ==
  ASSUME Inv, NEW r \in Requests, Retry(r) PROVE Inv'
<1> USE NumbersType, NoneIsNothing DEF Inv
<1>0. request[r].pc \in {"send", "wait"} /\ UNCHANGED <<wallets, exists, trusts, number, txs, tab>>
      BY DEF Retry, ledger
<1> PICK e : e = [request[r] EXCEPT !.pc = "send", !.attempt = @ + 1] OBVIOUS
<1>1. request[r] \in Request /\ number \in Nat /\ txs \in Seq(Tx) BY DEF Types
<1>2. request' = [request EXCEPT ![r] = e] BY DEF Retry
<1>3. request[r].attempt + 1 < MaxAttempts /\ number >= txs[request[r].tx].number
      BY DEF Retry, IsBadSeq
<1>a. request[r].attempt + 1 \in 0 .. MaxAttempts BY <1>1, <1>3 DEF Request, NumbersType
<1>4. /\ e \in Request /\ e.pc = "send" /\ e.checked = request[r].checked
      /\ e.tab = request[r].tab /\ e.wallet = request[r].wallet /\ e.tx = request[r].tx
      BY <1>1, <1>a DEF Request
<1>5. e.tx \in 1 .. Len(txs) /\ txs[e.tx].signer # None BY <1>0, <1>4 DEF Prepared, TxOf
<1>6. e.tab # None => /\ e.wallet # None => OwnerOf[e.wallet] = UserOf[e.tab]
                      /\ OwnerOf[txs[e.tx].wallet] = UserOf[e.tab]
      BY <1>0, <1>4 DEF Own, TxOf
<1>7. e.checked <= number BY <1>4 DEF LookedAt
<1>8. txs' \in Seq(Tx) /\ Len(txs') = Len(txs) BY <1>0, <1>1
<1> HIDE DEF Inv
<1> QED BY <1>0, <1>2, <1>3, <1>4, <1>5, <1>6, <1>7, <1>8, MovesOn

LEMMA SendKeeps ==
  ASSUME Inv, NEW r \in Requests, Send(r) PROVE Inv'
<1> USE NumbersType, NoneIsNothing DEF Inv
<1>0. request[r].pc = "send" /\ UNCHANGED <<wallets, exists, trusts, number, tab>>
      BY DEF Send, At, ledger
<1> PICK x : x = request[r].tx OBVIOUS
<1> PICK e : e = [request[r] EXCEPT !.pc = "wait"] OBVIOUS
<1> PICK f : f = [txs[x] EXCEPT !.state = "pending"] OBVIOUS
<1>1. request[r] \in Request /\ number \in Nat /\ txs \in Seq(Tx) BY DEF Types
<1>2. request' = [request EXCEPT ![r] = e] /\ txs' = [txs EXCEPT ![x] = f] BY DEF Send
<1>3. /\ e \in Request /\ e.pc = "wait" /\ e.checked = request[r].checked
      /\ e.tab = request[r].tab /\ e.wallet = request[r].wallet /\ e.tx = x
      BY <1>1 DEF Request
<1>4. x \in 1 .. Len(txs) /\ txs[x].signer # None BY <1>0 DEF Prepared, TxOf
<1>5. e.tab # None => /\ e.wallet # None => OwnerOf[e.wallet] = UserOf[e.tab]
                      /\ OwnerOf[txs[x].wallet] = UserOf[e.tab]
      BY <1>0, <1>3 DEF Own, TxOf
<1>6. e.checked <= number BY <1>3 DEF LookedAt
<1>7. txs[x] \in Tx BY <1>1, <1>4
<1>8. /\ f \in Tx /\ f.wallet = txs[x].wallet /\ f.number = txs[x].number
      /\ f.signer = txs[x].signer /\ f.checked = txs[x].checked /\ f.state = "pending"
      BY <1>7 DEF Tx
<1>9. txs' \in Seq(Tx) /\ Len(txs') = Len(txs) BY <1>1, <1>2, <1>4, <1>8, OneChanges
<1>10. \A y \in 1 .. Len(txs) :
         /\ txs'[y].wallet = txs[y].wallet /\ txs'[y].number = txs[y].number
         /\ txs'[y].signer = txs[y].signer /\ txs'[y].checked = txs[y].checked
         /\ txs'[y].state = "included" => txs[y].state = "included"
       BY <1>1, <1>2, <1>4, <1>8, OneChanges
<1> HIDE DEF Inv
<1> QED BY <1>0, <1>2, <1>3, <1>4, <1>5, <1>6, <1>9, <1>10, MovesOn

-----------------------------------------------------------------------------
(* The network and the creator. *)

(* The ledger only ever gains trustlines, and what is included newly uses  *)
(* a number of which nothing was looked at yet.                            *)
LEMMA LedgerMoves ==
  ASSUME Inv, UNCHANGED <<wallets, tab, request>>,
         exists' \subseteq Wallets, trusts' \subseteq exists', trusts \subseteq trusts',
         number' \in Nat, number <= number',
         txs' \in Seq(Tx), Len(txs') = Len(txs),
         \A y \in 1 .. Len(txs) :
           /\ txs'[y].wallet = txs[y].wallet /\ txs'[y].number = txs[y].number
           /\ txs'[y].signer = txs[y].signer /\ txs'[y].checked = txs[y].checked
           /\ txs'[y].state = "included" =>
                \/ txs[y].state = "included"
                \/ txs[y].wallet \in trusts' /\ number < txs[y].number
  PROVE  Inv'
<1> USE DEF Inv
<1>t. number \in Nat /\ txs \in Seq(Tx) BY DEF Types
<1>n. \A y \in 1 .. Len(txs) : txs[y].number \in Nat /\ txs[y].checked \in Nat
  <2>1. \A y \in 1 .. Len(txs) : txs[y] \in Tx BY <1>t
  <2> QED BY <2>1 DEF Tx
<1>r. \A r \in Requests : request[r].checked \in Nat BY DEF Types, Request
<1>1. Types' BY DEF Types
<1>2. Listed' BY DEF Listed
<1>3. Prepared' BY DEF Prepared, TxOf
<1>4. Attached' BY DEF Attached
<1>5. Own' BY DEF Own, Prepared, TxOf
<1>6. LookedAt'
  <2>1. \A y \in 1 .. Len(txs') : txs'[y].checked <= number' BY <1>t, <1>n DEF LookedAt
  <2>2. \A q \in Requests : request'[q].checked <= number' BY <1>t, <1>r DEF LookedAt
  <2>3. ASSUME NEW x \in 1 .. Len(txs'), txs'[x].state = "included"
        PROVE  /\ txs'[x].wallet \in trusts'
               /\ \A y \in 1 .. Len(txs') :
                    txs'[y].wallet = txs'[x].wallet => txs'[y].checked < txs'[x].number
               /\ \A q \in Requests :
                    request'[q].pc = "load" /\ request'[q].wallet = txs'[x].wallet =>
                      request'[q].checked < txs'[x].number
    <3>1. CASE txs[x].state = "included" BY <3>1, <2>3 DEF LookedAt
    <3>2. CASE txs[x].wallet \in trusts' /\ number < txs[x].number
      <4>1. number < txs'[x].number /\ txs'[x].number \in Nat BY <3>2, <1>n
      <4>2. \A y \in 1 .. Len(txs') : txs'[y].checked <= number /\ txs'[y].checked \in Nat
            BY <1>n DEF LookedAt
      <4>3. \A q \in Requests : request'[q].checked <= number /\ request'[q].checked \in Nat
            BY <1>r DEF LookedAt
      <4> QED BY <3>2, <2>3, <4>1, <4>2, <4>3, <1>t
    <3> QED BY <3>1, <3>2, <2>3
  <2> QED BY <2>1, <2>2, <2>3 DEF LookedAt
<1>7. Activated' BY DEF Activated, Prepared
<1> QED BY <1>1, <1>2, <1>3, <1>4, <1>5, <1>6, <1>7

LEMMA IncludeKeeps ==
  ASSUME Inv, NEW x \in 1 .. Len(txs), Include(x) PROVE Inv'
<1>1. PICK s \in {"included", "failed"}, W \in SUBSET Wallets :
        /\ txs' = [txs EXCEPT ![x].state = s]
        /\ exists' = exists \cup W /\ trusts' = trusts \cup W
        /\ s = "included" => txs[x].wallet \in W
  <2>1. txs[x] \in Tx BY DEF Inv, Types
  <2>2. txs[x].wallet \in Wallets BY <2>1 DEF Tx
  <2> PICK works \in BOOLEAN : works = (txs[x].creates = (txs[x].wallet \notin exists)) OBVIOUS
  <2>3. CASE works
    <3>1. /\ txs' = [txs EXCEPT ![x].state = "included"]
          /\ exists' = exists \cup {txs[x].wallet} /\ trusts' = trusts \cup {txs[x].wallet}
          BY <2>3, Zenon DEF Include
    <3> QED BY <2>2, <3>1
  <2>4. CASE ~works
    <3>1. txs' = [txs EXCEPT ![x].state = "failed"] /\ exists' = exists /\ trusts' = trusts
          BY <2>4, Zenon DEF Include
    <3>2. exists' = exists \cup {} /\ trusts' = trusts \cup {} /\ {} \in SUBSET Wallets BY <3>1
    <3> QED BY <3>1, <3>2
  <2> QED BY <2>3, <2>4
<1>2. /\ txs[x].number = number + 1 /\ number' = number + 1
      /\ UNCHANGED <<wallets, tab, request>>
      BY DEF Include
<1> PICK f : f = [txs[x] EXCEPT !.state = s] OBVIOUS
<1>3. number \in Nat /\ txs \in Seq(Tx) /\ txs[x] \in Tx /\ exists \subseteq Wallets
      /\ trusts \subseteq exists
      BY DEF Inv, Types
<1>4. /\ f \in Tx /\ f.wallet = txs[x].wallet /\ f.number = txs[x].number
      /\ f.signer = txs[x].signer /\ f.checked = txs[x].checked /\ f.state = s
      BY <1>3 DEF Tx
<1>5. txs' = [txs EXCEPT ![x] = f] BY <1>1
<1>6. txs' \in Seq(Tx) /\ Len(txs') = Len(txs) BY <1>3, <1>4, <1>5, OneChanges
<1>7. \A y \in 1 .. Len(txs) :
        /\ txs'[y].wallet = txs[y].wallet /\ txs'[y].number = txs[y].number
        /\ txs'[y].signer = txs[y].signer /\ txs'[y].checked = txs[y].checked
        /\ txs'[y].state = "included" =>
             \/ txs[y].state = "included"
             \/ txs[y].wallet \in trusts' /\ number < txs[y].number
      BY <1>1, <1>2, <1>3, <1>4, <1>5, OneChanges
<1>8. exists' \subseteq Wallets /\ trusts' \subseteq exists' /\ trusts \subseteq trusts'
      BY <1>1, <1>3
<1>9. number' \in Nat /\ number <= number' BY <1>2, <1>3
<1> QED BY <1>2, <1>6, <1>7, <1>8, <1>9, LedgerMoves

(* A transaction that is forgotten or runs out of time. *)
LEMMA DropKeeps ==
  ASSUME Inv, NEW x \in 1 .. Len(txs), Drop(x) \/ Expire(x) PROVE Inv'
<1>1. number \in Nat /\ txs \in Seq(Tx) /\ txs[x] \in Tx /\ exists \subseteq Wallets
      /\ trusts \subseteq exists
      BY DEF Inv, Types
<1>2. PICK f : /\ txs' = [txs EXCEPT ![x] = f]
               /\ f = [txs[x] EXCEPT !.state = "prepared"] \/ f = [txs[x] EXCEPT !.late = TRUE]
      BY DEF Drop, Expire
<1>3. UNCHANGED <<wallets, exists, trusts, number, tab, request>> BY DEF Drop, Expire, ledger
<1>4. /\ f \in Tx /\ f.wallet = txs[x].wallet /\ f.number = txs[x].number
      /\ f.signer = txs[x].signer /\ f.checked = txs[x].checked
      /\ f.state = "included" => txs[x].state = "included"
      BY <1>1, <1>2 DEF Tx
<1>5. txs' \in Seq(Tx) /\ Len(txs') = Len(txs) BY <1>1, <1>2, <1>4, OneChanges
<1>6. \A y \in 1 .. Len(txs) :
        /\ txs'[y].wallet = txs[y].wallet /\ txs'[y].number = txs[y].number
        /\ txs'[y].signer = txs[y].signer /\ txs'[y].checked = txs[y].checked
        /\ txs'[y].state = "included" => txs[y].state = "included"
      BY <1>1, <1>2, <1>4, OneChanges
<1>7. number <= number' BY <1>1, <1>3
<1> QED BY <1>1, <1>3, <1>5, <1>6, <1>7, LedgerMoves

(* A settlement, or an account that is opened without Kreav. *)
LEMMA ElsewhereKeeps ==
  ASSUME Inv, Settle \/ \E w \in Wallets : OpenAlone(w) PROVE Inv'
<1>1. number \in Nat /\ txs \in Seq(Tx) /\ exists \subseteq Wallets /\ trusts \subseteq exists
      BY DEF Inv, Types
<1>2. UNCHANGED <<wallets, txs, tab, request>> BY DEF Settle, OpenAlone
<1>3. number' \in Nat /\ number <= number' BY <1>1 DEF Settle, OpenAlone
<1>4. exists' \subseteq Wallets /\ trusts' \subseteq exists' /\ trusts \subseteq trusts'
      BY <1>1 DEF Settle, OpenAlone
<1> QED BY <1>1, <1>2, <1>3, <1>4, LedgerMoves

(* A wallet is connected. *)
LEMMA ConnectKeeps ==
  ASSUME Inv, NEW w \in Wallets, Connect(w) PROVE Inv'
<1> USE OwnersType DEF Inv
<1> PICK c \in Creators : c = OwnerOf[w] OBVIOUS
<1>1. wallets' = [wallets EXCEPT ![c] = Append(wallets[c], w)] BY DEF Connect
<1>2. UNCHANGED <<exists, trusts, number, txs, tab, request>> BY DEF Connect, ledger
<1>3. wallets \in [Creators -> Seq(Wallets)] BY DEF Types
<1>4. Append(wallets[c], w) \in Seq(Wallets) BY <1>3
<1>5. wallets' \in [Creators -> Seq(Wallets)] BY <1>1, <1>3, <1>4
<1>6. Types' BY <1>2, <1>5 DEF Types
<1>7. Listed'
  <2> SUFFICES ASSUME NEW d \in Creators, NEW i \in 1 .. Len(wallets'[d])
               PROVE  OwnerOf[wallets'[d][i]] = d
      BY DEF Listed
  <2>1. CASE d # c
    <3>1. wallets'[d] = wallets[d] BY <2>1, <1>1, <1>3
    <3> QED BY <3>1 DEF Listed
  <2>2. CASE d = c
    <3>1. wallets'[d] = Append(wallets[d], w) /\ wallets[d] \in Seq(Wallets)
          BY <2>2, <1>1, <1>3
    <3>2. i \in 1 .. Len(wallets[d]) \/ i = Len(wallets[d]) + 1 BY <3>1
    <3>3. CASE i \in 1 .. Len(wallets[d])
      <4>1. wallets'[d][i] = wallets[d][i] BY <3>1, <3>3
      <4> QED BY <3>3, <4>1 DEF Listed
    <3>4. CASE i = Len(wallets[d]) + 1
      <4>1. wallets'[d][i] = w BY <3>1, <3>4
      <4> QED BY <2>2, <4>1
    <3> QED BY <3>2, <3>3, <3>4
  <2> QED BY <2>1, <2>2
<1>8. Prepared' /\ Attached' /\ Own' BY <1>2 DEF Prepared, Attached, Own, TxOf
<1>9. LookedAt' /\ Activated'
      BY <1>2 DEF LookedAt, Activated, TxOf
<1> QED BY <1>6, <1>7, <1>8, <1>9

-----------------------------------------------------------------------------
(* Results. *)

(* Whatever happens next, the invariant survives it. *)
LEMMA NextKeeps == Inv /\ [Next]_sponsorshipVars => Inv'
<1> SUFFICES ASSUME Inv, [Next]_sponsorshipVars PROVE Inv' OBVIOUS
<1>d. DOMAIN txs = 1 .. Len(txs) BY DEF Inv, Types
<1>1. ASSUME NEW t \in Tabs,
             Load(t) \/ Activate(t) \/ SignAndSubmit(t) \/ Cancel(t) \/ LoseAnswer(t)
      PROVE  Inv'
      BY <1>1, LoadKeeps, ActivateKeeps, SignAndSubmitKeeps, CancelKeeps, LoseAnswerKeeps
<1>2. ASSUME NEW r \in Requests, Serve(r) PROVE Inv'
      BY <1>2, CheckWalletKeeps, BuildAndSignKeeps, ValidateKeeps, SendKeeps, RetryKeeps,
         FailSubmitKeeps, ReturnHashKeeps DEF Serve
<1>3. CASE Crash BY <1>3, CrashKeeps
<1>4. ASSUME NEW x \in DOMAIN txs, Include(x) \/ Drop(x) \/ Expire(x) PROVE Inv'
      BY <1>d, <1>4, IncludeKeeps, DropKeeps
<1>5. CASE Settle BY <1>5, ElsewhereKeeps
<1>6. ASSUME NEW w \in Wallets, Connect(w) \/ OpenAlone(w) PROVE Inv'
      BY <1>6, ConnectKeeps, ElsewhereKeeps
<1>7. CASE UNCHANGED sponsorshipVars BY <1>7, Stutters
<1> QED BY <1>1, <1>2, <1>3, <1>4, <1>5, <1>6, <1>7 DEF Next

-----------------------------------------------------------------------------
(* Who signed.  A page holds a transaction of its own, which it was given  *)
(* unsigned, and signs it as the address it names; the network takes it of *)
(* no other wallet than the one it is for.                                 *)
Signed ==
  /\ \A t \in Tabs : tab[t].tx \in 0 .. Len(txs)
  /\ \A t, u \in Tabs : tab[t].tx # 0 /\ tab[t].tx = tab[u].tx => t = u
  /\ \A t \in Tabs :
       /\ tab[t].pc = "sign" => txs[tab[t].tx].signer = None
       /\ tab[t].pc = "submit" => txs[tab[t].tx].signer = tab[t].address
       /\ tab[t].pc = "done" => txs[tab[t].tx].wallet = tab[t].address
  /\ \A r \in Requests :
       request[r].tab # None /\ request[r].pc \in {"validate", "send", "wait"} =>
         tab[request[r].tab].pc = "submit" /\ tab[request[r].tab].tx = request[r].tx
  /\ \A x \in 1 .. Len(txs) :
       txs[x].state \in {"pending", "included"} => txs[x].signer = txs[x].wallet

(* A page lets go of its transaction, or still has none, and no request    *)
(* that could report one is its own.                                       *)
LEMMA LetsGo ==
  ASSUME Inv, Signed, txs' = txs,
         \A t \in Tabs : \/ tab'[t] = tab[t]
                         \/ /\ tab'[t].tx \in {0, tab[t].tx}
                            /\ tab'[t].pc \notin {"sign", "submit", "done"},
         \A r \in Requests :
           request'[r].tab # None /\ request'[r].pc \in {"validate", "send", "wait"} =>
             /\ tab'[request'[r].tab] = tab[request'[r].tab]
             /\ request[r].tab = request'[r].tab /\ request[r].tx = request'[r].tx
             /\ request[r].pc \in {"validate", "send", "wait"}
  PROVE  Signed'
<1>1. Len(txs) \in Nat BY DEF Inv, Types
<1> QED BY <1>1 DEF Signed

(* The network works on what is signed. *)
LEMMA Works ==
  ASSUME Inv, Signed, UNCHANGED tab, txs' \in Seq(Tx), Len(txs') = Len(txs),
         \A r \in Requests :
           request'[r].tab # None /\ request'[r].pc \in {"validate", "send", "wait"} =>
             /\ request[r].tab = request'[r].tab /\ request[r].tx = request'[r].tx
             /\ request[r].pc \in {"validate", "send", "wait"},
         \A y \in 1 .. Len(txs) :
           /\ txs'[y].wallet = txs[y].wallet /\ txs'[y].signer = txs[y].signer
           /\ txs'[y].state \in {"pending", "included"} =>
                txs[y].state \in {"pending", "included"} \/ txs[y].signer = txs[y].wallet
  PROVE  Signed'
<1>1. \A t \in Tabs : tab[t].pc \in {"sign", "submit", "done"} => tab[t].tx \in 1 .. Len(txs)
      BY DEF Inv, Prepared
<1> QED BY <1>1 DEF Signed

(* The pages. *)
LEMMA PageSigned ==
  ASSUME Inv, Signed, NEW t \in Tabs, Load(t) \/ Activate(t) \/ Cancel(t) \/ LoseAnswer(t)
  PROVE  Signed'
<1> USE NumbersType, NoneIsNothing DEF Inv
<1>1. /\ txs' = txs
      /\ \A u \in Tabs : u # t => tab'[u] = tab[u]
      /\ tab'[t].tx \in {0, tab[t].tx} /\ tab'[t].pc \notin {"sign", "submit", "done"}
      BY DEF Load, Activate, Cancel, LoseAnswer, Types, Tab
<1>2. ASSUME NEW r \in Requests, request'[r].tab # None,
             request'[r].pc \in {"validate", "send", "wait"}
      PROVE  /\ request'[r].tab # t /\ request[r].tab = request'[r].tab
             /\ request[r].tx = request'[r].tx
             /\ request[r].pc \in {"validate", "send", "wait"}
  <2>1. request \in [Requests -> Request] /\ request[r].tab \in Tabs \cup {None}
        BY DEF Types, Request
  <2>2. CASE Load(t)
    <3>1. request' = request /\ tab[t].pc \notin {"prepare", "submit"} BY <2>2 DEF Load
    <3> QED BY <1>2, <3>1 DEF Attached
  <2>3. CASE Activate(t)
    <3> PICK w : w = Newest(UserOf[t]) OBVIOUS
    <3>1. PICK q \in Requests :
            request' = [request EXCEPT ![q] =
              [NoRequest EXCEPT !.pc = "check", !.tab = t, !.wallet = w]]
          BY <2>3 DEF Activate
    <3>2. request'[q].pc = "check" BY <2>1, <3>1 DEF NoRequest
    <3>3. request'[r] = request[r] BY <1>2, <2>1, <3>1, <3>2
    <3>4. tab[t].pc \notin {"prepare", "submit"} BY <2>3 DEF Activate
    <3> QED BY <1>2, <3>3, <3>4 DEF Attached
  <2>4. CASE Cancel(t)
    <3>1. request' = request /\ tab[t].pc \notin {"prepare", "submit"} BY <2>4 DEF Cancel
    <3> QED BY <1>2, <3>1 DEF Attached
  <2>5. CASE LoseAnswer(t)
    <3>1. request'[r] = IF request[r].tab = t THEN [request[r] EXCEPT !.tab = None]
                                              ELSE request[r]
          BY <2>5 DEF LoseAnswer, Detach
    <3>2. request[r].tab # t
      <4>1. [request[r] EXCEPT !.tab = None].tab = None BY <2>1 DEF Request
      <4> QED BY <1>2, <3>1, <4>1
    <3> QED BY <1>2, <3>1, <3>2
  <2> QED BY <2>2, <2>3, <2>4, <2>5
<1>3. \A r \in Requests : request[r].tab \in Tabs \cup {None} BY DEF Types, Request
<1> HIDE DEF Inv
<1> QED BY <1>1, <1>2, <1>3, LetsGo

(* A page signs what it was given. *)
LEMMA SignatureSigned ==
  ASSUME Inv, Signed, NEW t \in Tabs, SignAndSubmit(t) PROVE Signed'
<1> USE NumbersType, NoneIsNothing DEF Inv
<1> PICK w : w = Newest(UserOf[t]) OBVIOUS
<1> PICK x : x = tab[t].tx OBVIOUS
<1> PICK a : a = tab[t].address OBVIOUS
<1>1. PICK r \in Requests :
        /\ request[r].pc = "idle"
        /\ request' = [request EXCEPT ![r] =
             [NoRequest EXCEPT !.pc = "validate", !.tab = t, !.tx = x, !.wallet = w]]
      BY DEF SignAndSubmit
<1>2. /\ tab' = [tab EXCEPT ![t].pc = "submit"] /\ tab[t].pc = "sign"
      /\ txs' = [txs EXCEPT ![x].signer = a]
      BY DEF SignAndSubmit, Signer
<1>3. x \in 1 .. Len(txs) /\ txs \in Seq(Tx) /\ txs[x] \in Tx
  <2>1. x \in 1 .. Len(txs) /\ txs \in Seq(Tx) BY <1>2 DEF Prepared, Types
  <2> QED BY <2>1
<1> PICK e : e = [txs[x] EXCEPT !.signer = a] OBVIOUS
<1>4. e.wallet = txs[x].wallet /\ e.state = txs[x].state /\ e.signer = a BY <1>3 DEF Tx
<1>5. /\ Len(txs') = Len(txs) /\ txs'[x] = e
      /\ \A y \in 1 .. Len(txs) : y # x => txs'[y] = txs[y]
      BY <1>2, <1>3
<1>6. /\ \A u \in Tabs : u # t => tab'[u] = tab[u]
      /\ tab'[t].pc = "submit" /\ tab'[t].address = a /\ tab'[t].tx = x
      BY <1>2 DEF Types, Tab
<1>7. /\ \A q \in Requests : q # r => request'[q] = request[q]
      /\ request'[r].tab = t /\ request'[r].tx = x
      BY <1>1 DEF Types, NoRequest
<1>8. \A q \in Requests : request[q].tab \in Tabs \cup {None} /\ request[q].tab # t
      BY <1>2 DEF Attached, Types, Request
<1>9. txs[x].state \notin {"pending", "included"}
  <2>1. txs[x].wallet \in Wallets BY <1>3 DEF Tx
  <2> QED BY <1>2, <1>3, <2>1 DEF Signed
<1>10. ASSUME NEW u \in Tabs
       PROVE  /\ tab'[u].pc = "sign" => txs'[tab'[u].tx].signer = None
              /\ tab'[u].pc = "submit" => txs'[tab'[u].tx].signer = tab'[u].address
              /\ tab'[u].pc = "done" => txs'[tab'[u].tx].wallet = tab'[u].address
  <2>1. CASE u = t BY <1>4, <1>5, <1>6, <2>1
  <2>2. CASE u # t
    <3>1. tab'[u] = tab[u] BY <1>6, <2>2
    <3>2. tab[u].tx # x BY <1>3, <2>2 DEF Signed
    <3>3. tab[u].pc \in {"sign", "submit", "done"} => txs'[tab[u].tx] = txs[tab[u].tx]
          BY <1>5, <3>2 DEF Prepared
    <3> QED BY <3>1, <3>3 DEF Signed
  <2> QED BY <2>1, <2>2
<1>11. \A u \in Tabs : tab'[u].tx = tab[u].tx BY <1>6
<1>12. /\ \A u \in Tabs : tab'[u].tx \in 0 .. Len(txs')
       /\ \A u, v \in Tabs : tab'[u].tx # 0 /\ tab'[u].tx = tab'[v].tx => u = v
       BY <1>5, <1>11 DEF Signed
<1>13. \A q \in Requests :
         request'[q].tab # None /\ request'[q].pc \in {"validate", "send", "wait"} =>
           tab'[request'[q].tab].pc = "submit" /\ tab'[request'[q].tab].tx = request'[q].tx
       BY <1>6, <1>7, <1>8 DEF Signed
<1>14. \A y \in 1 .. Len(txs') :
         txs'[y].state \in {"pending", "included"} => txs'[y].signer = txs'[y].wallet
       BY <1>4, <1>5, <1>9 DEF Signed
<1> QED BY <1>10, <1>12, <1>13, <1>14 DEF Signed

(* A page is answered. *)
LEMMA AnswerSigned ==
  ASSUME Inv, Signed, NEW r \in Requests, request[r].pc # "idle",
         NEW p \in {"sign", "done", "failed"}, NEW x \in Nat, Answer(r, p, x), Kept,
         p = "failed" => x = 0,
         p = "sign" => x = Len(txs) + 1 /\ Len(txs') = x /\ txs'[x].signer = None,
         p = "done" => /\ request[r].tab # None => tab[request[r].tab].tx = x
                       /\ request[r].tab # None => tab[request[r].tab].address = txs[x].wallet
                       /\ x \in 1 .. Len(txs),
         \A y \in 1 .. Len(txs') : y \notin 1 .. Len(txs) => txs'[y].state = "prepared"
  PROVE  Signed'
<1> USE NumbersType, NoneIsNothing, NoRequestFields DEF Inv
<1> PICK u : u = request[r].tab OBVIOUS
<1>0. /\ request'[r] = NoRequest
      /\ \A q \in Requests : q # r => request'[q] = request[q]
      /\ \A t \in Tabs : t # u => tab'[t] = tab[t]
      /\ \A t \in Tabs : t = u => tab'[t].pc = p /\ tab'[t].tx = x /\ tab'[t].address = tab[t].address
      BY AnswerIs
<1>1. /\ Len(txs) \in Nat /\ Len(txs') \in Nat /\ Len(txs) <= Len(txs')
      /\ \A y \in 1 .. Len(txs) : y \in 1 .. Len(txs') /\ txs'[y] = txs[y]
  <2>1. Len(txs) \in Nat /\ Len(txs') \in Nat BY DEF Types, Kept
  <2> QED BY <2>1 DEF Kept
<1>2. \A t \in Tabs : tab[t].tx \in 0 .. Len(txs) BY DEF Signed
<1>3. ASSUME NEW t \in Tabs
      PROVE  /\ tab'[t].tx \in 0 .. Len(txs')
             /\ tab'[t].pc = "sign" => txs'[tab'[t].tx].signer = None
             /\ tab'[t].pc = "submit" => txs'[tab'[t].tx].signer = tab'[t].address
             /\ tab'[t].pc = "done" => txs'[tab'[t].tx].wallet = tab'[t].address
  <2>1. CASE t = u BY <1>0, <1>1, <2>1
  <2>2. CASE t # u
    <3>1. tab'[t] = tab[t] BY <1>0, <2>2
    <3>2. tab[t].pc \in {"sign", "submit", "done"} => txs'[tab[t].tx] = txs[tab[t].tx]
          BY <1>1 DEF Prepared
    <3> QED BY <1>1, <1>2, <3>1, <3>2 DEF Signed
  <2> QED BY <2>1, <2>2
<1>4. ASSUME NEW t \in Tabs, NEW v \in Tabs, tab'[t].tx # 0, tab'[t].tx = tab'[v].tx PROVE t = v
  <2>1. CASE t # u /\ v # u BY <1>0, <1>4, <2>1 DEF Signed
  <2>2. CASE t = u /\ v = u BY <2>2
  <2>3. ASSUME NEW a \in Tabs, a # u, u \in Tabs, tab'[a].tx = x, x # 0 PROVE FALSE
    <3>1. tab[a].tx = x /\ x \in 0 .. Len(txs) BY <1>0, <1>2, <2>3
    <3>2. p = "done" /\ tab[u].tx = x BY <1>1, <2>3, <3>1
    <3> QED BY <2>3, <3>1, <3>2 DEF Signed
  <2> QED BY <1>0, <1>4, <2>1, <2>2, <2>3
<1>5. \A q \in Requests :
        request'[q].tab # None /\ request'[q].pc \in {"validate", "send", "wait"} =>
          tab'[request'[q].tab].pc = "submit" /\ tab'[request'[q].tab].tx = request'[q].tx
  <2>1. \A q \in Requests : request[q].tab \in Tabs \cup {None} BY DEF Types, Request
  <2>2. \A q \in Requests : q # r /\ request[q].tab # None => request[q].tab # u BY DEF Attached
  <2> QED BY <1>0, <2>1, <2>2 DEF Signed
<1>6. \A y \in 1 .. Len(txs') :
        txs'[y].state \in {"pending", "included"} => txs'[y].signer = txs'[y].wallet
      BY <1>1 DEF Signed
<1> QED BY <1>3, <1>4, <1>5, <1>6 DEF Signed

(* The server. *)
LEMMA ServeSigned ==
  ASSUME Inv, Signed, NEW r \in Requests, Serve(r) PROVE Signed'
<1> USE NumbersType, NoneIsNothing DEF Inv
<1> PICK x : x = request[r].tx OBVIOUS
<1>1. /\ txs \in Seq(Tx) /\ Len(txs) \in Nat /\ request \in [Requests -> Request]
      /\ \A q \in Requests : request[q].tab \in Tabs \cup {None}
      BY DEF Types, Request
<1>2. ASSUME Refuse(r), txs' = txs, request[r].pc # "idle" PROVE Signed'
  <2>1. Kept BY <1>2, UnchangedIsKept
  <2> HIDE DEF Inv
  <2> QED BY <1>1, <1>2, <2>1, AnswerSigned DEF Refuse
<1>3. ASSUME NEW e, request' = [request EXCEPT ![r] = e], txs' = txs, tab' = tab,
             e.tab = request[r].tab, e.tx = request[r].tx,
             e.pc = "load" \/ request[r].pc \in {"validate", "send", "wait"}
      PROVE  Signed'
  <2>1. \A q \in Requests : request'[q] = IF q = r THEN e ELSE request[q] BY <1>1, <1>3
  <2>2. \A q \in Requests :
          request'[q].tab # None /\ request'[q].pc \in {"validate", "send", "wait"} =>
            /\ request[q].tab = request'[q].tab /\ request[q].tx = request'[q].tx
            /\ request[q].pc \in {"validate", "send", "wait"}
        BY <1>3, <2>1
  <2> HIDE DEF Inv
  <2> QED BY <1>1, <1>3, <2>2, Works
<1>4. CASE CheckWallet(r)
  <2>1. request[r].pc = "check" /\ txs' = txs BY <1>4 DEF CheckWallet, At
  <2>2. CASE ~Refuse(r)
    <3> PICK c \in BOOLEAN : c = (request[r].wallet \notin exists) OBVIOUS
    <3> PICK e : e = [request[r] EXCEPT !.pc = "load", !.checked = number, !.creates = c] OBVIOUS
    <3>1. request' = [request EXCEPT ![r] = e] /\ tab' = tab BY <1>4, <2>2 DEF CheckWallet
    <3>2. request[r] \in Request BY <1>1
    <3>3. e.tab = request[r].tab /\ e.tx = request[r].tx /\ e.pc = "load" BY <3>2 DEF Request
    <3> QED BY <1>3, <2>1, <3>1, <3>3
  <2> QED BY <1>2, <2>1, <2>2
<1>5. CASE BuildAndSign(r)
  <2>1. request[r].pc = "load" BY <1>5 DEF BuildAndSign, At
  <2>2. CASE ~(Refuse(r) /\ UNCHANGED txs)
    <3> PICK e : e = [wallet |-> request[r].wallet, number |-> number + 1,
                      creates |-> request[r].creates, checked |-> request[r].checked,
                      signer |-> None, late |-> FALSE, state |-> "prepared"]
        OBVIOUS
    <3>1. txs' = Append(txs, e) /\ Answer(r, "sign", Len(txs) + 1) BY <1>5, <2>2 DEF BuildAndSign
    <3>2. request[r] \in Request /\ number \in Nat BY <1>1 DEF Types
    <3>3. request[r].wallet \in Wallets BY <2>1, <3>2 DEF Prepared, Request
    <3>4. e \in Tx /\ e.signer = None /\ e.state = "prepared" BY <3>2, <3>3 DEF Tx, Request
    <3>5. txs' \in Seq(Tx) /\ Len(txs') = Len(txs) + 1 /\ txs'[Len(txs) + 1] = e
          /\ \A y \in 1 .. Len(txs) : txs'[y] = txs[y]
          BY <1>1, <3>1, <3>4
    <3>6. Kept BY <1>1, <3>5 DEF Kept
    <3>7. \A y \in 1 .. Len(txs') : y \notin 1 .. Len(txs) => y = Len(txs) + 1 BY <1>1, <3>5
    <3> HIDE DEF Inv
    <3> QED BY <1>1, <2>1, <3>1, <3>4, <3>5, <3>6, <3>7, AnswerSigned
  <2> QED BY <1>2, <2>1, <2>2
<1>6. CASE Validate(r)
  <2>1. request[r].pc = "validate" /\ txs' = txs BY <1>6 DEF Validate, At
  <2>2. CASE IsOurs(r)
    <3> PICK e : e = [request[r] EXCEPT !.pc = "send", !.wallet = None] OBVIOUS
    <3>1. request' = [request EXCEPT ![r] = e] /\ tab' = tab BY <1>6, <2>2 DEF Validate
    <3>2. request[r] \in Request BY <1>1
    <3>3. e.tab = request[r].tab /\ e.tx = request[r].tx BY <3>2 DEF Request
    <3> QED BY <1>3, <2>1, <3>1, <3>3
  <2>3. CASE ~IsOurs(r) BY <1>2, <1>6, <2>1, <2>3 DEF Validate
  <2> QED BY <2>2, <2>3
<1>7. CASE Send(r)
  <2> PICK e : e = [request[r] EXCEPT !.pc = "wait"] OBVIOUS
  <2> PICK f : f = [txs[x] EXCEPT !.state = "pending"] OBVIOUS
  <2>1. /\ request[r].pc = "send" /\ txs[x].signer = txs[x].wallet /\ tab' = tab
        /\ request' = [request EXCEPT ![r] = e] /\ txs' = [txs EXCEPT ![x] = f]
        BY <1>7 DEF Send, At, Acceptable
  <2>2. x \in 1 .. Len(txs) BY <2>1 DEF Prepared
  <2>3. request[r] \in Request /\ txs[x] \in Tx BY <1>1, <2>2
  <2>4. e.tab = request[r].tab /\ e.tx = x BY <2>3 DEF Request
  <2>5. f \in Tx /\ f.wallet = txs[x].wallet /\ f.signer = txs[x].signer BY <2>3 DEF Tx
  <2>6. txs' \in Seq(Tx) /\ Len(txs') = Len(txs) BY <1>1, <2>1, <2>2, <2>5, OneChanges
  <2>7. \A y \in 1 .. Len(txs) :
          /\ txs'[y].wallet = txs[y].wallet /\ txs'[y].signer = txs[y].signer
          /\ txs'[y].state \in {"pending", "included"} =>
               txs[y].state \in {"pending", "included"} \/ txs[y].signer = txs[y].wallet
        BY <1>1, <2>1, <2>2, <2>5, OneChanges
  <2>8. \A q \in Requests : request'[q] = IF q = r THEN e ELSE request[q] BY <1>1, <2>1
  <2>9. \A q \in Requests :
          request'[q].tab # None /\ request'[q].pc \in {"validate", "send", "wait"} =>
            /\ request[q].tab = request'[q].tab /\ request[q].tx = request'[q].tx
            /\ request[q].pc \in {"validate", "send", "wait"}
        BY <2>1, <2>4, <2>8
  <2> HIDE DEF Inv
  <2> QED BY <2>1, <2>6, <2>7, <2>9, Works
<1>8. CASE Retry(r)
  <2> PICK e : e = [request[r] EXCEPT !.pc = "send", !.attempt = @ + 1] OBVIOUS
  <2>1. /\ request[r].pc \in {"send", "wait"} /\ tab' = tab /\ txs' = txs
        /\ request' = [request EXCEPT ![r] = e]
        BY <1>8 DEF Retry
  <2>2. request[r] \in Request BY <1>1
  <2>3. e.tab = request[r].tab /\ e.tx = request[r].tx BY <2>2 DEF Request
  <2> QED BY <1>3, <2>1, <2>3
<1>9. CASE FailSubmit(r) BY <1>2, <1>9 DEF FailSubmit
<1>10. CASE ReturnHash(r)
  <2>1. /\ request[r].pc \in {"send", "wait"} /\ txs[x].state = "included"
        /\ Answer(r, "done", x) /\ txs' = txs
        BY <1>10 DEF ReturnHash, TxOf
  <2>2. x \in 1 .. Len(txs) BY <2>1 DEF Prepared
  <2>3. txs[x].signer = txs[x].wallet BY <2>1, <2>2 DEF Signed
  <2>4. request[r].tab # None =>
          tab[request[r].tab].tx = x /\ tab[request[r].tab].address = txs[x].wallet
        BY <1>1, <2>1, <2>3 DEF Signed
  <2>5. Kept BY <2>1, UnchangedIsKept
  <2> HIDE DEF Inv
  <2> QED BY <1>1, <2>1, <2>2, <2>4, <2>5, AnswerSigned
<1> QED BY <1>4, <1>5, <1>6, <1>7, <1>8, <1>9, <1>10 DEF Serve

(* The network. *)
LEMMA NetworkSigned ==
  ASSUME Inv, Signed, NEW x \in 1 .. Len(txs), Include(x) \/ Drop(x) \/ Expire(x) PROVE Signed'
<1>1. txs \in Seq(Tx) /\ txs[x] \in Tx /\ UNCHANGED <<tab, request>>
      BY DEF Inv, Types, Include, Drop, Expire
<1>2. PICK f : /\ txs' = [txs EXCEPT ![x] = f]
               /\ \/ /\ txs[x].state = "pending"
                     /\ \E s \in {"included", "failed", "prepared"} : f = [txs[x] EXCEPT !.state = s]
                  \/ f = [txs[x] EXCEPT !.late = TRUE]
  <2>1. CASE Include(x)
    <3> PICK works \in BOOLEAN : works = (txs[x].creates = (txs[x].wallet \notin exists)) OBVIOUS
    <3>1. CASE works
      <4>1. txs' = [txs EXCEPT ![x].state = "included"] /\ txs[x].state = "pending"
            BY <2>1, <3>1, Zenon DEF Include
      <4> QED BY <4>1
    <3>2. CASE ~works
      <4>1. txs' = [txs EXCEPT ![x].state = "failed"] /\ txs[x].state = "pending"
            BY <2>1, <3>2, Zenon DEF Include
      <4> QED BY <4>1
    <3> QED BY <3>1, <3>2
  <2>2. CASE Drop(x) \/ Expire(x) BY <2>2 DEF Drop, Expire
  <2> QED BY <2>1, <2>2
<1>3. /\ f \in Tx /\ f.wallet = txs[x].wallet /\ f.signer = txs[x].signer
      /\ f.state \in {"pending", "included"} => txs[x].state \in {"pending", "included"}
      BY <1>1, <1>2 DEF Tx
<1>4. txs' \in Seq(Tx) /\ Len(txs') = Len(txs) BY <1>1, <1>2, <1>3, OneChanges
<1>5. \A y \in 1 .. Len(txs) :
        /\ txs'[y].wallet = txs[y].wallet /\ txs'[y].signer = txs[y].signer
        /\ txs'[y].state \in {"pending", "included"} => txs[y].state \in {"pending", "included"}
      BY <1>1, <1>2, <1>3, OneChanges
<1> QED BY <1>1, <1>4, <1>5, Works

(* Whatever happens next. *)
LEMMA SignedStays == Inv /\ Signed /\ [Next]_sponsorshipVars => Signed'
<1> SUFFICES ASSUME Inv, Signed, [Next]_sponsorshipVars PROVE Signed' OBVIOUS
<1>d. DOMAIN txs = 1 .. Len(txs) BY DEF Inv, Types
<1>1. ASSUME NEW t \in Tabs,
             Load(t) \/ Activate(t) \/ SignAndSubmit(t) \/ Cancel(t) \/ LoseAnswer(t)
      PROVE  Signed'
      BY <1>1, PageSigned, SignatureSigned
<1>2. CASE Crash
  <2>1. /\ \A r \in Requests : request'[r].tab = None
        /\ txs' = txs
        /\ \A t \in Tabs : tab'[t] = IF tab[t].pc \in {"prepare", "submit"}
                                   THEN [tab[t] EXCEPT !.pc = "failed", !.tx = 0] ELSE tab[t]
        BY <1>2, NoRequestFields, NumbersType DEF Crash
  <2>2. \A t \in Tabs : \/ tab'[t] = tab[t]
                        \/ tab'[t].tx \in {0, tab[t].tx} /\ tab'[t].pc = "failed"
        BY <2>1 DEF Inv, Types, Tab
  <2> QED BY <2>1, <2>2, LetsGo
<1>3. ASSUME UNCHANGED <<txs, tab, request>> PROVE Signed'
      BY <1>3 DEF Signed
<1> QED BY <1>d, <1>1, <1>2, <1>3, ServeSigned, NetworkSigned
        DEF Next, Settle, Connect, OpenAlone, sponsorshipVars

(* The invariant holds in every reachable state. *)
THEOREM SponsorshipInvariant == Spec => [](Inv /\ Signed)
<1>1. Init => Inv /\ Signed
  BY Initially, NoRequestFields, NumbersType DEF Init, Signed
<1>2. Inv /\ Signed /\ [Next]_sponsorshipVars => (Inv /\ Signed)'
  BY NextKeeps, SignedStays
<1> QED BY <1>1, <1>2, PTL DEF Spec

(* A page that says activated is right about the wallet it signed as. *)
THEOREM ActivatedIsTrusted == Spec => []DoneIsTrusted
<1>1. Inv /\ Signed => DoneIsTrusted BY DEF Inv, Activated, Signed, DoneIsTrusted
<1> QED BY <1>1, SponsorshipInvariant, PTL

(* The platform pays for a wallet again only for what was prepared before  *)
(* it had paid.                                                            *)
THEOREM PaidOnce == Spec => []PaidOncePerWallet
<1>1. Inv => PaidOncePerWallet
  <2> SUFFICES ASSUME Inv PROVE PaidOncePerWallet OBVIOUS
  <2>1. DOMAIN txs = 1 .. Len(txs) BY DEF Inv, Types
  <2> QED BY <2>1 DEF Inv, LookedAt, PaidOncePerWallet
<1> QED BY <1>1, SponsorshipInvariant, PTL

(* Every variable keeps its type; what is signed or sent was prepared. *)
THEOREM SponsorshipTyped == Spec => []TypeOK
<1>1. Inv => TypeOK
  <2> SUFFICES ASSUME Inv PROVE TypeOK OBVIOUS
  <2>1. DOMAIN txs = 1 .. Len(txs) BY DEF Inv, Types
  <2>2. \A c \in Creators : DOMAIN wallets[c] = 1 .. Len(wallets[c]) BY DEF Inv, Types
  <2>3. \A c \in Creators : \A i \in DOMAIN wallets[c] : OwnerOf[wallets[c][i]] = c
        BY <2>2 DEF Inv, Listed
  <2>4. \A t \in Tabs : tab[t].pc \in {"sign", "submit", "done"} => tab[t].tx \in DOMAIN txs
        BY <2>1 DEF Inv, Prepared
  <2>5. \A r \in Requests : request[r].pc \in {"validate", "send", "wait"} =>
          request[r].tx \in DOMAIN txs /\ TxOf(r).signer # None
        BY <2>1 DEF Inv, Prepared
  <2> QED BY <2>3, <2>4, <2>5 DEF Inv, Types, TypeOK
<1> QED BY <1>1, SponsorshipInvariant, PTL
=============================================================================
