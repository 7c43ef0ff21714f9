------------------------------ MODULE Catalogue ------------------------------
(***************************************************************************)
(* ProductsService (create, update) and SiteService (update): two places   *)
(* where a request replaces all the child rows of something, by deleting   *)
(* and creating them in one PostgreSQL transaction at READ COMMITTED.  A   *)
(* delete takes the rows that are committed when it starts, waits for a    *)
(* transaction that is deleting one of them, and does not see what that    *)
(* one has put in their place.  The rows a request writes to one table are *)
(* told apart by the request only.                                         *)
(***************************************************************************)
EXTENDS Naturals, Sequences, FiniteSets

CONSTANTS
  Users,     \* user ids
  Products,  \* product ids
  OwnerOf,   \* the creator of a product
  Wallets,   \* wallet addresses
  Splits,    \* lists of collaborators a request may carry
  WalletsOf, \* the wallets of a list
  Whole,     \* the lists of positive shares that sum to 100
  Parts,     \* sets of tables a site may have rows in
  Requests,  \* requests; each is answered once
  None

SiteTable == {"socials", "links", "featured"}
Places == Products \cup (Users \X SiteTable)
Lists == Splits \cup Wallets \* a wallet stands for the creator at 100%

ASSUME OwnerOfType == OwnerOf \in [Products -> Users]
ASSUME WalletsOfType == WalletsOf \in [Splits -> SUBSET Wallets]
ASSUME WholeType == Whole \subseteq Splits
ASSUME KindsDiffer ==
  /\ Users \cap Products = {} /\ Products \cap (Users \X SiteTable) = {}
  /\ Splits \cap Wallets = {}
ASSUME PartsType == Parts \subseteq SUBSET SiteTable
ASSUME NoneIsNothing == None \notin Requests \cup Lists \cup Users \cup Products

VARIABLES
  wallets,    \* table Wallet: those of a creator, the newest last
  trusting,   \* wallets with a USDC trustline
  made,       \* table Product
  rows,       \* child rows of a place, by the requests that wrote them
  profile,    \* table User: the request that last wrote the site's part
  locked,     \* the request whose transaction holds the lock of a user's row
  request,    \* local state of the requests
  overlapped  \* products of which two replacements have overlapped

catalogueVars == <<wallets, trusting, made, rows, profile, locked, request, overlapped>>

NewRequest == [pc |-> "new", target |-> None, list |-> None, parts |-> {},
               left |-> <<>>, seen |-> {}, gone |-> {}, added |-> {}]

Init ==
  /\ wallets = [u \in Users |-> <<>>]
  /\ trusting = {}
  /\ made = {}
  /\ rows = [x \in Places |-> {}]
  /\ profile = [u \in Users |-> None]
  /\ locked = [u \in Users |-> None]
  /\ request = [r \in Requests |-> NewRequest]
  /\ overlapped = {}

WalletsHeld(u) == {wallets[u][i] : i \in DOMAIN wallets[u]}
Registered == UNION {WalletsHeld(u) : u \in Users}
Recipients(list) == IF list \in Wallets THEN {list} ELSE WalletsOf[list]

At(r, pc) == request[r].pc = pc
Fetched(r) == request[r].target
SiteOf(u) == << <<u, "socials">>, <<u, "links">>, <<u, "featured">> >>
unstored == <<wallets, trusting>>

-----------------------------------------------------------------------------
(* What a request is checked for before anything is written.  The reads of *)
(* a check are one step: no wallet is ever disconnected, and trust is not  *)
(* looked at again.                                                        *)

(* assertCollaboratorsEligible, one wallet. *)
Eligible(wallet) == wallet \in Registered /\ wallet \in trusting

(* A list that is given: its shares, then its wallets. *)
Given == {l \in Whole : \A w \in WalletsOf[l] : Eligible(w)}
(* No list is given: the newest wallet of the creator. *)
Sole(u) == IF wallets[u] = <<>> THEN {}
           ELSE {wallets[u][Len(wallets[u])]} \cap trusting

AcceptCreate(r) ==
  /\ At(r, "new")
  /\ \E p \in Products \ {Fetched(q) : q \in Requests}, list \in Lists :
       /\ list \in Given \cup Sole(OwnerOf[p])
       /\ request' = [request EXCEPT ![r] =
            [@ EXCEPT !.pc = "create", !.target = p, !.list = list]]
  /\ UNCHANGED <<unstored, made, rows, profile, locked, overlapped>>

(* Slip: the product is not looked for first. *)
AcceptUnseen(r) ==
  /\ At(r, "new")
  /\ \E p \in Products, list \in Given :
       request' = [request EXCEPT ![r] =
         [@ EXCEPT !.pc = "delete", !.target = p, !.list = list, !.left = <<p>>]]
  /\ UNCHANGED <<unstored, made, rows, profile, locked, overlapped>>

(* The product is looked for, then the list is checked. *)
AcceptUpdate(r) ==
  /\ At(r, "new")
  /\ \E p \in made, list \in Given :
       request' = [request EXCEPT ![r] =
         [@ EXCEPT !.pc = "delete", !.target = p, !.list = list, !.left = <<p>>]]
  /\ UNCHANGED <<unstored, made, rows, profile, locked, overlapped>>

AcceptSite(r) ==
  /\ At(r, "new")
  /\ \E u \in Users, parts \in Parts :
       request' = [request EXCEPT ![r] =
         [@ EXCEPT !.pc = "lock", !.target = u, !.parts = parts, !.left = SiteOf(u)]]
  /\ UNCHANGED <<unstored, made, rows, profile, locked, overlapped>>

-----------------------------------------------------------------------------
(* Writing. *)

(* A product is created together with its collaborators. *)
CreateProduct(r) ==
  /\ At(r, "create")
  /\ made' = made \cup {Fetched(r)}
  /\ rows' = [rows EXCEPT ![Fetched(r)] = {r}]
  /\ request' = [request EXCEPT ![r].pc = "done"]
  /\ UNCHANGED <<unstored, profile, locked, overlapped>>

(* Slip: the transaction starts with the tables of links. *)
WithoutLock(r) ==
  /\ At(r, "lock")
  /\ request' = [request EXCEPT ![r].pc = "delete"]
  /\ UNCHANGED <<unstored, made, rows, profile, locked, overlapped>>

(* The transaction of a site first updates the user's row, and so waits    *)
(* for another one that has.                                               *)
LockUser(r) ==
  /\ At(r, "lock")
  /\ locked[Fetched(r)] = None
  /\ locked' = [locked EXCEPT ![Fetched(r)] = r]
  /\ request' = [request EXCEPT ![r].pc = "delete"]
  /\ UNCHANGED <<unstored, made, rows, profile, overlapped>>

Replacing(r) == request[r].pc \in {"deleting", "insert", "commit"}

(* A delete starts: the rows it goes for. *)
StartDelete(r) ==
  /\ At(r, "delete")
  /\ request' = [request EXCEPT ![r].pc = "deleting",
                                ![r].seen = rows[Head(request[r].left)]]
  /\ overlapped' = IF \E q \in Requests \ {r} : Replacing(q) /\ Fetched(q) = Fetched(r)
                   THEN overlapped \cup ({Fetched(r)} \cap Products) ELSE overlapped
  /\ UNCHANGED <<unstored, made, rows, profile, locked>>

(* No other transaction is deleting one of the rows. *)
Unclaimed(r, x) ==
  \A q \in Requests \ {r}, s \in request[r].seen : <<x, s>> \notin request[q].gone

(* Slip: the rows are gone at once, outside of a transaction. *)
DeleteNow(r) ==
  LET x == Head(request[r].left)
  IN /\ At(r, "deleting")
     /\ rows' = [rows EXCEPT ![x] = @ \ request[r].seen]
     /\ request' = [request EXCEPT ![r].pc = "insert"]
     /\ UNCHANGED <<unstored, made, profile, locked, overlapped>>

(* Of the rows it went for, those that are still there. *)
Delete(r) ==
  LET x == Head(request[r].left)
  IN /\ At(r, "deleting")
     /\ Unclaimed(r, x)
     /\ request' = [request EXCEPT ![r].pc = "insert", ![r].seen = {},
          ![r].gone = @ \cup {<<x, s>> : s \in request[r].seen \cap rows[x]}]
     /\ UNCHANGED <<unstored, made, rows, profile, locked, overlapped>>

(* A request has rows for a product always, for a table of a site if it    *)
(* names any.                                                              *)
Fills(r, x) == x \in Products \/ x[2] \in request[r].parts

Insert(r) ==
  LET x == Head(request[r].left)
      left == Tail(request[r].left)
  IN /\ At(r, "insert")
     /\ request' = [request EXCEPT
          ![r].pc = IF left = <<>> THEN "commit" ELSE "delete",
          ![r].left = left, ![r].added = IF Fills(r, x) THEN @ \cup {x} ELSE @]
     /\ UNCHANGED <<unstored, made, rows, profile, locked, overlapped>>

(* The end of a transaction gives back its lock. *)
Released(r) == [u \in Users |-> IF locked[u] = r THEN None ELSE locked[u]]

Commit(r) ==
  /\ At(r, "commit")
  /\ rows' = [x \in Places |-> {s \in rows[x] : <<x, s>> \notin request[r].gone}
                               \cup (IF x \in request[r].added THEN {r} ELSE {})]
  /\ profile' = [u \in Users |-> IF Fetched(r) = u THEN r ELSE profile[u]]
  /\ locked' = Released(r)
  /\ request' = [request EXCEPT ![r].pc = "done", ![r].gone = {}]
  /\ UNCHANGED <<unstored, made, overlapped>>

(* A transaction fails: a unique username or product is taken, a featured  *)
(* product is another creator's, it took too long, or the process died.    *)
Abort(r) ==
  /\ request[r].pc \in {"delete", "deleting", "insert", "commit"}
  /\ locked' = Released(r)
  /\ request' = [request EXCEPT ![r].pc = "done", ![r].gone = {}]
  /\ UNCHANGED <<unstored, made, rows, profile, overlapped>>

-----------------------------------------------------------------------------
Connect(u, w) ==
  /\ w \notin Registered
  /\ wallets' = [wallets EXCEPT ![u] = Append(@, w)]
  /\ UNCHANGED <<trusting, made, rows, profile, locked, request, overlapped>>

ChangeTrust(w) ==
  /\ trusting' = IF w \in trusting THEN trusting \ {w} ELSE trusting \cup {w}
  /\ UNCHANGED <<wallets, made, rows, profile, locked, request, overlapped>>

Serve(r) == AcceptCreate(r) \/ AcceptUpdate(r) \/ AcceptSite(r) \/ CreateProduct(r)
            \/ LockUser(r) \/ StartDelete(r) \/ Delete(r) \/ Insert(r) \/ Commit(r)
            \/ Abort(r)

Next ==
  \/ \E r \in Requests : Serve(r)
  \/ \E u \in Users, w \in Wallets : Connect(u, w)
  \/ \E w \in Wallets : ChangeTrust(w)

Spec == Init /\ [][Next]_catalogueVars

-----------------------------------------------------------------------------
(* Properties. *)

(* Every variable has its type; only an open transaction holds a lock.     *)
TypeOK ==
  /\ \A u \in Users : WalletsHeld(u) \subseteq Wallets
  /\ trusting \subseteq Wallets
  /\ made \subseteq Products
  /\ rows \in [Places -> SUBSET Requests]
  /\ profile \in [Users -> Requests \cup {None}]
  /\ \A u \in Users : locked[u] # None =>
       Fetched(locked[u]) = u /\ request[locked[u]].pc # "done"
  /\ overlapped \subseteq made

(* A product always has a list of collaborators, whatever transaction      *)
(* fails or is waited for, and all of them have a wallet on Kreav; and it  *)
(* has just one list, unless replacements have overlapped.                 *)
SplitReplaced ==
  \A p \in made :
    /\ rows[p] # {}
    /\ \A r \in rows[p] : Recipients(request[r].list) \subseteq Registered
    /\ p \notin overlapped => \E r \in Requests : rows[p] = {r}

(* A site is what one request has put there, in all its tables, whichever  *)
(* requests were under way at once.                                        *)
SiteIsOneRequest ==
  \A u \in Users, t \in SiteTable :
    rows[<<u, t>>] = IF profile[u] # None /\ t \in request[profile[u]].parts
                     THEN {profile[u]} ELSE {}
=============================================================================
