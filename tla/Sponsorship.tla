----------------------------- MODULE Sponsorship -----------------------------
(***************************************************************************)
(* Sponsored trustlines: SponsorshipService behind the two routes of       *)
(* WalletsTrustlineController, and the panel and the banner of the         *)
(* dashboard that ask for one.  The platform builds and signs a            *)
(* transaction of its own account, the wallet of the creator adds its      *)
(* signature, the platform sends it.  Settlements use the same account and *)
(* so the same sequence number.  A request outlives the page that made it. *)
(***************************************************************************)
EXTENDS Naturals, Sequences

CONSTANTS
  Creators,    \* user ids
  Wallets,     \* wallet addresses
  OwnerOf,     \* the creator who may connect a wallet
  Tabs,        \* pages of the dashboard that show a panel or a banner
  UserOf,      \* the creator signed in on a page
  Requests,    \* requests the server works on
  MaxAttempts, \* submissions of one request; the code has 3
  MaxTx,       \* bound: transactions prepared
  MaxNumber,   \* bound: sequence number of the platform account
  None

ASSUME OwnersType == OwnerOf \in [Wallets -> Creators] /\ UserOf \in [Tabs -> Creators]
ASSUME NumbersType == MaxAttempts \in Nat \ {0} /\ MaxTx \in Nat /\ MaxNumber \in Nat
ASSUME NoneIsNothing == None \notin Wallets \cup Tabs \cup Nat

VARIABLES
  wallets, \* table Wallet: those of a creator, the newest last
  exists,  \* wallets with an account on the ledger
  trusts,  \* wallets with a USDC trustline
  number,  \* the platform account's sequence number
  txs,     \* the transactions prepared, in order
  tab,     \* what the pages show
  request  \* local state of the requests

sponsorshipVars == <<wallets, exists, trusts, number, txs, tab, request>>
ledger == <<exists, trusts, number>>

(* getAddressForCreator *)
Newest(c) == IF wallets[c] = <<>> THEN None ELSE wallets[c][Len(wallets[c])]

Tx == [wallet : Wallets, number : Nat, creates : BOOLEAN, checked : Nat,
       signer : Wallets \cup {None}, late : BOOLEAN,
       state : {"prepared", "pending", "included", "failed"}]
Tab == [pc : {"shown", "hidden", "prepare", "sign", "submit", "done", "failed"},
        address : Wallets \cup {None}, tx : Nat]
Request == [pc : {"idle", "check", "load", "validate", "send", "wait"},
            tab : Tabs \cup {None}, wallet : Wallets \cup {None}, creates : BOOLEAN,
            checked : Nat, tx : Nat, attempt : 0 .. MaxAttempts]

NoRequest == [pc |-> "idle", tab |-> None, wallet |-> None, creates |-> FALSE,
              checked |-> 0, tx |-> 0, attempt |-> 0]

Init ==
  /\ wallets = [c \in Creators |-> <<>>]
  /\ exists = {} /\ trusts = {}
  /\ number = 0
  /\ txs = <<>>
  /\ tab = [t \in Tabs |-> [pc |-> "hidden", address |-> None, tx |-> 0]]
  /\ request = [r \in Requests |-> NoRequest]

-----------------------------------------------------------------------------
(* The page. *)

(* A tab is where a request reports to, as long as it is listened to. *)
Detach(t) == [r \in Requests |-> IF request[r].tab = t
                                 THEN [request[r] EXCEPT !.tab = None] ELSE request[r]]

(* Which wallet signs: the panel names the one connected last, the banner  *)
(* the one of the session, which need not be connected.                    *)
SignsAs(t) == {w \in Wallets : OwnerOf[w] = UserOf[t]}

(* The page is loaded, or its balance is fetched again: it shows the offer *)
(* while the wallet that was connected last has no trustline.  One that is *)
(* left in the middle is left by LoseAnswer or Cancel first.               *)
Load(t) ==
  LET newest == Newest(UserOf[t])
      offered == newest # None /\ newest \notin trusts
  IN /\ tab[t].pc \in {"hidden", "shown", "done", "failed"}
     /\ \/ /\ offered
           /\ \E w \in SignsAs(t) :
                tab' = [tab EXCEPT ![t] = [pc |-> "shown", address |-> w, tx |-> 0]]
        \/ /\ ~offered
           /\ tab' = [tab EXCEPT ![t] = [pc |-> "hidden", address |-> None, tx |-> 0]]
     /\ UNCHANGED <<wallets, ledger, txs, request>>

(* activateUsdc asks for a transaction.  The button is disabled until the  *)
(* outcome is known; the server works for the wallet connected last.       *)
Activate(t) ==
  /\ tab[t].pc \in {"shown", "failed"}
  /\ \E r \in Requests :
       /\ request[r].pc = "idle"
       /\ request' = [request EXCEPT ![r] =
            [NoRequest EXCEPT !.pc = "check", !.tab = t, !.wallet = Newest(UserOf[t])]]
  /\ tab' = [tab EXCEPT ![t].pc = "prepare"]
  /\ UNCHANGED <<wallets, ledger, txs>>

(* Slip: the address is not handed over, and Freighter signs as the wallet *)
(* that the transaction is for.                                            *)
WalletOfTx(t) == txs[tab[t].tx].wallet
(* The address that Freighter is told to sign as. *)
Signer(t) == tab[t].address

(* The wallet signs, and the page submits; or the creator cancels.         *)
SignAndSubmit(t) ==
  /\ tab[t].pc = "sign"
  /\ \E r \in Requests :
       /\ request[r].pc = "idle"
       /\ request' = [request EXCEPT ![r] =
            [NoRequest EXCEPT !.pc = "validate", !.tab = t, !.tx = tab[t].tx,
                              !.wallet = Newest(UserOf[t])]]
  /\ txs' = [txs EXCEPT ![tab[t].tx].signer = Signer(t)]
  /\ tab' = [tab EXCEPT ![t].pc = "submit"]
  /\ UNCHANGED <<wallets, ledger>>

Cancel(t) ==
  /\ tab[t].pc = "sign"
  /\ tab' = [tab EXCEPT ![t].pc = "failed", ![t].tx = 0]
  /\ UNCHANGED <<wallets, ledger, txs, request>>

(* The answer is lost on the way: the page shows a network error. *)
LoseAnswer(t) ==
  /\ tab[t].pc \in {"prepare", "submit"}
  /\ tab' = [tab EXCEPT ![t].pc = "failed", ![t].tx = 0]
  /\ request' = Detach(t)
  /\ UNCHANGED <<wallets, ledger, txs>>

-----------------------------------------------------------------------------
(* The server. *)

At(r, pc) == request[r].pc = pc
TxOf(r) == txs[request[r].tx]
Answer(r, pc, x) ==
  /\ request' = [request EXCEPT ![r] = NoRequest]
  /\ tab' = [t \in Tabs |-> IF t = request[r].tab
                            THEN [tab[t] EXCEPT !.pc = pc, !.tx = x] ELSE tab[t]]
Refuse(r) == Answer(r, "failed", 0)

(* Slip: the trustline is not looked for. *)
IgnoresTrust(w) == FALSE
(* A wallet with a trustline is a conflict. *)
IsConflict(w) == w \in trusts

(* prepareSponsoredTrustline: the state of the wallet, then the account of *)
(* the platform.  checked is the ledger that the wallet was read in.       *)
CheckWallet(r) ==
  /\ At(r, "check")
  /\ \/ /\ request[r].wallet # None /\ ~IsConflict(request[r].wallet)
        /\ request' = [request EXCEPT ![r] =
             [@ EXCEPT !.pc = "load", !.checked = number,
                       !.creates = request[r].wallet \notin exists]]
        /\ UNCHANGED tab
     \/ Refuse(r) \* no wallet, a conflict, or Horizon does not answer
  /\ UNCHANGED <<wallets, ledger, txs>>

(* Slip: the page is given the transaction before this one. *)
SignPrevious(r) ==
  /\ At(r, "load")
  /\ Len(txs) < MaxTx
  /\ txs' = Append(txs, [wallet |-> request[r].wallet, number |-> number + 1,
                creates |-> request[r].creates, checked |-> request[r].checked,
                signer |-> None, late |-> FALSE, state |-> "prepared"])
  /\ Answer(r, "sign", Len(txs))
  /\ UNCHANGED <<wallets, ledger>>

BuildAndSign(r) ==
  /\ At(r, "load")
  /\ \/ /\ Len(txs) < MaxTx
        /\ txs' = Append(txs, [wallet |-> request[r].wallet, number |-> number + 1,
                    creates |-> request[r].creates, checked |-> request[r].checked,
                    signer |-> None, late |-> FALSE, state |-> "prepared"])
        /\ Answer(r, "sign", Len(txs) + 1)
     \/ Refuse(r) /\ UNCHANGED txs
  /\ UNCHANGED <<wallets, ledger>>

(* assertIsOurSponsoredTrustline: it is for the wallet of the sender.      *)
IsOurs(r) == TxOf(r).wallet = request[r].wallet

Validate(r) ==
  /\ At(r, "validate")
  /\ IF IsOurs(r) THEN /\ request' = [request EXCEPT ![r].pc = "send", ![r].wallet = None]
                       /\ UNCHANGED tab
                  ELSE Refuse(r)
  /\ UNCHANGED <<wallets, ledger, txs>>

(* External: what the network takes from an account, one at a time. *)
Acceptable(x) ==
  /\ txs[x].state = "prepared" /\ ~txs[x].late
  /\ txs[x].signer = txs[x].wallet
  /\ txs[x].number = number + 1
  /\ \A y \in DOMAIN txs : txs[y].state # "pending"

(* submitTransaction waits for the ledger. *)
Send(r) ==
  /\ At(r, "send")
  /\ Acceptable(request[r].tx)
  /\ txs' = [txs EXCEPT ![request[r].tx].state = "pending"]
  /\ request' = [request EXCEPT ![r].pc = "wait"]
  /\ UNCHANGED <<wallets, ledger, tab>>

(* tx_bad_seq: the number is used up, by something else. *)
IsBadSeq(x) == number >= txs[x].number /\ txs[x].state \in {"prepared", "pending"}

(* The same transaction is sent again, a moment later. *)
Retry(r) ==
  /\ request[r].pc \in {"send", "wait"}
  /\ IsBadSeq(request[r].tx)
  /\ request[r].attempt + 1 < MaxAttempts
  /\ request' = [request EXCEPT ![r].pc = "send", ![r].attempt = @ + 1]
  /\ UNCHANGED <<wallets, ledger, txs, tab>>

(* Any other error, of a network that does not answer also, or the last    *)
(* attempt.                                                                *)
FailSubmit(r) ==
  /\ request[r].pc \in {"send", "wait"}
  /\ TxOf(r).state # "included"
  /\ IsBadSeq(request[r].tx) => request[r].attempt + 1 >= MaxAttempts
  /\ Refuse(r)
  /\ UNCHANGED <<wallets, ledger, txs>>

(* Horizon knows the transaction by its hash, also when it is sent again.  *)
ReturnHash(r) ==
  /\ request[r].pc \in {"send", "wait"}
  /\ TxOf(r).state = "included"
  /\ Answer(r, "done", request[r].tx)
  /\ UNCHANGED <<wallets, ledger, txs>>

Serve(r) == CheckWallet(r) \/ BuildAndSign(r) \/ Validate(r) \/ Send(r) \/ Retry(r)
            \/ FailSubmit(r) \/ ReturnHash(r)

(* The process restarts: its requests are gone, the pages see an error. *)
Crash ==
  /\ request' = [r \in Requests |-> NoRequest]
  /\ tab' = [t \in Tabs |-> IF tab[t].pc \in {"prepare", "submit"}
                            THEN [tab[t] EXCEPT !.pc = "failed", !.tx = 0] ELSE tab[t]]
  /\ UNCHANGED <<wallets, ledger, txs>>

-----------------------------------------------------------------------------
(* External: the network and the creator. *)

(* A transaction uses up its number; it fails when it is to create an      *)
(* account that has come to exist.                                         *)
Include(x) ==
  LET w == txs[x].wallet
      works == txs[x].creates = (w \notin exists)
  IN /\ txs[x].state = "pending"
     /\ txs[x].number = number + 1
     /\ number' = number + 1
     /\ txs' = [txs EXCEPT ![x].state = IF works THEN "included" ELSE "failed"]
     /\ exists' = IF works THEN exists \cup {w} ELSE exists
     /\ trusts' = IF works THEN trusts \cup {w} ELSE trusts
     /\ UNCHANGED <<wallets, tab, request>>

(* The network forgets one whose number is used up or whose time is over.  *)
Drop(x) ==
  /\ txs[x].state = "pending"
  /\ txs[x].late \/ number >= txs[x].number
  /\ txs' = [txs EXCEPT ![x].state = "prepared"]
  /\ UNCHANGED <<wallets, ledger, tab, request>>

(* The time bounds, 300 seconds, are over: of a transaction that somebody  *)
(* may still send.                                                         *)
Held(x) == (\E t \in Tabs : tab[t].tx = x) \/ (\E r \in Requests : request[r].tx = x)
Expire(x) ==
  /\ Held(x)
  /\ txs[x].state \in {"prepared", "pending"} /\ ~txs[x].late
  /\ txs' = [txs EXCEPT ![x].late = TRUE]
  /\ UNCHANGED <<wallets, ledger, tab, request>>

(* A settlement of the platform is included. *)
Settle ==
  /\ number < MaxNumber
  /\ number' = number + 1
  /\ UNCHANGED <<wallets, exists, trusts, txs, tab, request>>

(* A creator connects a wallet, which becomes the newest. *)
Connected(w) == \E i \in DOMAIN wallets[OwnerOf[w]] : wallets[OwnerOf[w]][i] = w
Connect(w) ==
  /\ ~Connected(w)
  /\ wallets' = [wallets EXCEPT ![OwnerOf[w]] = Append(@, w)]
  /\ UNCHANGED <<ledger, txs, tab, request>>

(* A creator opens the account and its trustline without Kreav; of a       *)
(* wallet that is not connected nobody takes notice.                       *)
OpenAlone(w) ==
  /\ Connected(w)
  /\ \/ w \notin exists /\ exists' = exists \cup {w} /\ UNCHANGED trusts
     \/ w \in exists \ trusts /\ trusts' = trusts \cup {w} /\ UNCHANGED exists
  /\ UNCHANGED <<wallets, number, txs, tab, request>>

Next ==
  \/ \E t \in Tabs : Load(t) \/ Activate(t) \/ SignAndSubmit(t) \/ Cancel(t) \/ LoseAnswer(t)
  \/ \E r \in Requests : Serve(r)
  \/ Crash
  \/ \E x \in DOMAIN txs : Include(x) \/ Drop(x) \/ Expire(x)
  \/ Settle
  \/ \E w \in Wallets : Connect(w) \/ OpenAlone(w)

Spec == Init /\ [][Next]_sponsorshipVars

-----------------------------------------------------------------------------
(* Properties. *)

(* Every variable has its type; what is signed or sent was prepared. *)
TypeOK ==
  /\ wallets \in [Creators -> Seq(Wallets)]
  /\ \A c \in Creators : \A i \in DOMAIN wallets[c] : OwnerOf[wallets[c][i]] = c
  /\ exists \subseteq Wallets /\ trusts \subseteq exists
  /\ number \in Nat
  /\ txs \in Seq(Tx)
  /\ tab \in [Tabs -> Tab]
  /\ request \in [Requests -> Request]
  /\ \A t \in Tabs : tab[t].pc \in {"sign", "submit", "done"} => tab[t].tx \in DOMAIN txs
  /\ \A r \in Requests : request[r].pc \in {"validate", "send", "wait"} =>
       request[r].tx \in DOMAIN txs /\ TxOf(r).signer # None

(* A page that says the wallet is activated is right about the wallet that *)
(* it signed as: that one has the trustline, and it is the one the         *)
(* platform paid for, whichever wallet was the newest when the server      *)
(* prepared, checked and sent, and whatever was lost or retried meanwhile. *)
DoneIsTrusted ==
  \A t \in Tabs : tab[t].pc = "done" =>
    /\ tab[t].address \in trusts
    /\ tab[t].address = txs[tab[t].tx].wallet

Spent(x) == txs[x].state \in {"included", "failed"}

(* The platform pays for a wallet once: a second transaction for it is     *)
(* only ever included when its preparation had looked at the wallet before *)
(* the first one was.                                                      *)
PaidOncePerWallet ==
  \A x, y \in DOMAIN txs :
    Spent(x) /\ Spent(y) /\ txs[x].state = "included" /\ txs[x].wallet = txs[y].wallet
    /\ txs[x].number < txs[y].number
    => txs[y].checked < txs[x].number
=============================================================================
