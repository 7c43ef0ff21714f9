--------------------------- MODULE CatalogueProofs ---------------------------
(***************************************************************************)
(* A site is the work of one request, and a product has somebody to pay,   *)
(* for any number of requests, users, products and lists.                  *)
(*                                                                         *)
(* A delete is blind to what is committed after it has started.  What      *)
(* matters is therefore that the rows a request has marked for deletion    *)
(* are still all the rows there are when it commits: for a site because    *)
(* the request holds the lock of the user's row, for a product as long as  *)
(* no other replacement has overlapped.                                    *)
(***************************************************************************)
EXTENDS Catalogue, SequenceTheorems, TLAPS

Open == {"delete", "deleting", "insert", "commit"}
Walking == {"lock", "delete", "deleting", "insert"}

PlacesOf(y) == IF y \in Products THEN {y} ELSE {y} \X SiteTable

(* What may be left of the places a request replaces. *)
Lefts(y) ==
  IF y \in Products THEN {<<y>>}
  ELSE {<< <<y, "socials">>, <<y, "links">>, <<y, "featured">> >>,
        << <<y, "links">>, <<y, "featured">> >>, << <<y, "featured">> >>}
Ahead(left) == {left[i] : i \in DOMAIN left}

Request ==
  [pc : {"new", "create", "done"} \cup Walking \cup Open,
   target : Products \cup Users \cup {None}, list : Lists \cup {None},
   parts : SUBSET SiteTable,
   left : Seq(Places),
   seen : SUBSET Requests, gone : SUBSET (Places \X Requests), added : SUBSET Places]

CatalogueTypes ==
  /\ wallets \in [Users -> Seq(Wallets)]
  /\ trusting \subseteq Wallets
  /\ made \subseteq Products
  /\ rows \in [Places -> SUBSET Requests]
  /\ profile \in [Users -> Requests \cup {None}]
  /\ locked \in [Users -> Requests \cup {None}]
  /\ request \in [Requests -> Request]
  /\ overlapped \subseteq made

(* The lock of a user's row is held by the request whose transaction on    *)
(* the user's site is open.                                                *)
LockHeld ==
  \A u \in Users, r \in Requests :
    locked[u] = r <=> Fetched(r) = u /\ request[r].pc \in Open

(* A request between two steps: where it is going, and what it has done.   *)
Shape(r) ==
  LET me == request[r]
  IN /\ me.pc = "new" => me.target = None
     /\ me.pc = "new" => me.added = {}
     /\ me.pc # "new" => me.target \in Products \cup Users
     /\ me.pc = "create" => me.target \in Products
     /\ me.pc = "lock" => me.target \in Users /\ Ahead(me.left) = PlacesOf(me.target)
     /\ me.pc \in Walking => me.left \in Lefts(me.target)
     /\ me.pc = "commit" => me.left = <<>>
     /\ me.pc \in Walking \cup {"commit"} =>
          me.added = {x \in PlacesOf(me.target) \ Ahead(me.left) : Fills(r, x)}
     /\ me.pc \in Open => me.gone \subseteq PlacesOf(me.target) \X Requests
     /\ me.pc \notin Open => me.gone = {}

(* The places whose rows a request has marked: unless replacements have    *)
(* overlapped, they are all the rows there are.                            *)
Cleared(r) ==
  PlacesOf(Fetched(r))
    \ Ahead(IF At(r, "insert") THEN Tail(request[r].left) ELSE request[r].left)
Exact(r) ==
  request[r].pc \in Open /\ Fetched(r) \notin overlapped =>
    /\ \A x \in Cleared(r) : \A s \in rows[x] : <<x, s>> \in request[r].gone
    /\ At(r, "deleting") => rows[Head(request[r].left)] \subseteq request[r].seen

(* The list a request will store is one of wallets on Kreav; a product is  *)
(* there before it is updated.                                             *)
Checked(r) ==
  Fetched(r) \in Products =>
    /\ Recipients(request[r].list) \subseteq Registered
    /\ request[r].pc \in Open => Fetched(r) \in made
    /\ At(r, "create") => Fetched(r) \notin made

OneCreates ==
  \A r, q \in Requests :
    Fetched(r) \in Products \ made /\ Fetched(q) = Fetched(r) => q = r
OneReplaces ==
  \A r, q \in Requests :
    /\ Fetched(r) \in Products \ overlapped /\ Fetched(q) = Fetched(r)
    /\ Replacing(r) /\ Replacing(q)
    => q = r

(* What is stored is what some request has stored. *)
Stored ==
  /\ \A x \in Places : \A s \in rows[x] : At(s, "done")
  /\ \A p \in Products : \A s \in rows[p] : Fetched(s) = p
  /\ \A u \in Users : profile[u] # None => At(profile[u], "done")
  /\ \A p \in made :
       /\ rows[p] # {}
       /\ p \notin overlapped => \E r \in Requests : rows[p] = {r}

CatalogueInv ==
  /\ CatalogueTypes
  /\ LockHeld
  /\ \A r \in Requests : Shape(r) /\ Exact(r) /\ Checked(r)
  /\ OneCreates
  /\ OneReplaces
  /\ Stored
  /\ SiteIsOneRequest

-----------------------------------------------------------------------------
(* Places, and what is left of them. *)

LEMMA PlacesAre ==
  /\ \A p \in Products : p \in Places /\ PlacesOf(p) = {p}
  /\ \A u \in Users : /\ u \notin Products
                     /\ PlacesOf(u) = {<<u, "socials">>, <<u, "links">>, <<u, "featured">>}
                     /\ \A x \in PlacesOf(u) : x \in Places /\ x \notin Products /\ x[1] = u
                     /\ \A t \in SiteTable : <<u, t>> \in PlacesOf(u)
BY KindsDiffer DEF Places, PlacesOf, SiteTable

LEMMA PlacesApart ==
  ASSUME NEW y \in Products \cup Users, NEW z \in Products \cup Users,
         NEW x, x \in PlacesOf(y), x \in PlacesOf(z)
  PROVE  y = z
<1>1. CASE y \in Products /\ z \in Products
  BY <1>1, PlacesAre
<1>2. CASE y \in Users /\ z \in Users
  BY <1>2, PlacesAre
<1>3. CASE y \in Products /\ z \in Users
  BY <1>3, PlacesAre
<1>4. CASE y \in Users /\ z \in Products
  BY <1>4, PlacesAre
<1>. QED BY <1>1, <1>2, <1>3, <1>4

LEMMA AheadOf ==
  /\ Ahead(<<>>) = {}
  /\ \A a : Ahead(<<a>>) = {a} /\ Head(<<a>>) = a /\ Tail(<<a>>) = <<>>
  /\ \A a, b : Ahead(<<a, b>>) = {a, b} /\ Head(<<a, b>>) = a /\ Tail(<<a, b>>) = <<b>>
  /\ \A a, b, c : /\ Ahead(<<a, b, c>>) = {a, b, c} /\ Head(<<a, b, c>>) = a
                  /\ Tail(<<a, b, c>>) = <<b, c>>
BY DEF Ahead

LEMMA LeftsAre ==
  ASSUME NEW y \in Products \cup Users, NEW left \in Lefts(y)
  PROVE  /\ left # <<>> /\ left \in Seq(Places)
         /\ Head(left) \in PlacesOf(y) /\ Head(left) \in Places
         /\ Head(left) \notin Ahead(Tail(left))
         /\ Ahead(left) = {Head(left)} \cup Ahead(Tail(left))
         /\ Ahead(left) \subseteq PlacesOf(y)
         /\ Tail(left) # <<>> => Tail(left) \in Lefts(y)
         /\ Tail(left) \in Seq(Places)
         /\ y \in Products => Ahead(left) = PlacesOf(y)
<1>1. CASE y \in Products
  <2>1. left = <<y>>
    BY <1>1 DEF Lefts
  <2>2. Ahead(<<y>>) = {y} /\ Head(<<y>>) = y /\ Tail(<<y>>) = <<>> /\ Ahead(<<>>) = {}
    BY AheadOf
  <2>3. y \in Places /\ PlacesOf(y) = {y}
    BY <1>1, PlacesAre
  <2>4. <<y>> # <<>> /\ <<y>> \in Seq(Places) /\ <<>> \in Seq(Places)
    BY <2>3
  <2>. QED BY <2>1, <2>2, <2>3, <2>4
<1>2. CASE y \in Users
  <2>1. PICK a, b, c : a = <<y, "socials">> /\ b = <<y, "links">> /\ c = <<y, "featured">>
    OBVIOUS
  <2>2. y \notin Products /\ PlacesOf(y) = {a, b, c} /\ a \in Places /\ b \in Places /\ c \in Places
    BY <1>2, <2>1, PlacesAre
  <2>3. a # b /\ b # c /\ a # c
    BY <2>1
  <2>4. Lefts(y) = {<<a, b, c>>, <<b, c>>, <<c>>}
    BY <2>1, <2>2, Zenon DEF Lefts
  <2>. DEFINE Fine(l) == /\ l # <<>> /\ l \in Seq(Places) /\ Ahead(l) \subseteq {a, b, c}
                         /\ Head(l) \in {a, b, c}
                         /\ Head(l) \notin Ahead(Tail(l))
                         /\ Ahead(l) = {Head(l)} \cup Ahead(Tail(l))
                         /\ Tail(l) = <<>> \/ Tail(l) \in {<<a, b, c>>, <<b, c>>, <<c>>}
                         /\ Tail(l) \in Seq(Places)
  <2>5. \A l \in {<<a, b, c>>, <<b, c>>, <<c>>} : Fine(l)
    <3>1. /\ Ahead(<<a, b, c>>) = {a, b, c} /\ Head(<<a, b, c>>) = a
          /\ Tail(<<a, b, c>>) = <<b, c>>
          /\ Ahead(<<b, c>>) = {b, c} /\ Head(<<b, c>>) = b /\ Tail(<<b, c>>) = <<c>>
          /\ Ahead(<<c>>) = {c} /\ Head(<<c>>) = c /\ Tail(<<c>>) = <<>>
          /\ Ahead(<<>>) = {}
      BY AheadOf
    <3>2. /\ <<a, b, c>> # <<>> /\ <<b, c>> # <<>> /\ <<c>> # <<>>
          /\ <<a, b, c>> \in Seq(Places) /\ <<b, c>> \in Seq(Places)
          /\ <<c>> \in Seq(Places) /\ <<>> \in Seq(Places)
      BY <2>2
    <3>. QED BY <2>3, <3>1, <3>2, Zenon
  <2>6. Fine(left)
    <3>. HIDE DEF Fine
    <3>. QED BY <2>4, <2>5, Zenon
  <2>. QED BY <2>2, <2>4, <2>6, Zenon
<1>. QED BY <1>1, <1>2

LEMMA SiteOfIs ==
  ASSUME NEW u \in Users
  PROVE  SiteOf(u) \in Lefts(u) /\ Ahead(SiteOf(u)) = PlacesOf(u)
<1>1. u \notin Products /\ PlacesOf(u) = {<<u, "socials">>, <<u, "links">>, <<u, "featured">>}
  BY PlacesAre
<1>2. \A a, b, c : Ahead(<<a, b, c>>) = {a, b, c}
  BY AheadOf
<1>3. Ahead(SiteOf(u)) = {<<u, "socials">>, <<u, "links">>, <<u, "featured">>}
  BY <1>2, Zenon DEF SiteOf
<1>4. SiteOf(u) \in Lefts(u)
  BY <1>1, Zenon DEF SiteOf, Lefts
<1>. QED BY <1>1, <1>3, <1>4

LEMMA FirstLeft ==
  \A p \in Products : <<p>> \in Lefts(p) /\ Ahead(<<p>>) = PlacesOf(p)
<1>. SUFFICES ASSUME NEW p \in Products
              PROVE  <<p>> \in Lefts(p) /\ Ahead(<<p>>) = PlacesOf(p)
  OBVIOUS
<1>1. Ahead(<<p>>) = {p} /\ PlacesOf(p) = {p}
  BY AheadOf, PlacesAre
<1>. QED BY <1>1 DEF Lefts

-----------------------------------------------------------------------------
(* What the steps have in common. *)

LEMMA SoleIsRegistered ==
  ASSUME CatalogueTypes, NEW u \in Users
  PROVE  Sole(u) \subseteq Registered
<1>1. wallets[u] \in Seq(Wallets)
  BY DEF CatalogueTypes
<1>2. CASE wallets[u] # <<>>
  <2>1. Len(wallets[u]) \in DOMAIN wallets[u]
    BY <1>1, <1>2, EmptySeq
  <2>. QED BY <2>1 DEF Sole, Registered, WalletsHeld
<1>. QED BY <1>2 DEF Sole

LEMMA SameWallets ==
  wallets' = wallets => Registered' = Registered
BY DEF Registered, WalletsHeld

(* What a request knows outlives the steps of others that leave its rows,  *)
(* and those that come before it has looked at them.                       *)
LEMMA KeepOne ==
  ASSUME NEW q \in Requests, Shape(q), Exact(q), Checked(q),
         request'[q] = request[q], overlapped \subseteq overlapped',
         Registered \subseteq Registered',
         Fetched(q) \in made' <=> Fetched(q) \in made,
         request[q].pc \in Open /\ Fetched(q) \notin overlapped' =>
           \/ \A x \in PlacesOf(Fetched(q)) : rows'[x] = rows[x]
           \/ At(q, "delete") /\ Fetched(q) \in Products
  PROVE  Shape(q)' /\ Exact(q)' /\ Checked(q)'
<1>1. Fetched(q)' = Fetched(q) /\ Cleared(q)' = Cleared(q)
  BY DEF Fetched, Cleared, At
<1>2. Shape(q)'
  BY DEF Shape, Fills
<1>3. Exact(q)'
  <2>1. SUFFICES ASSUME request[q].pc \in Open, Fetched(q) \notin overlapped'
                 PROVE  Exact(q)'
    BY <1>1 DEF Exact
  <2>2. CASE \A x \in PlacesOf(Fetched(q)) : rows'[x] = rows[x]
    <3>1. \A x \in Cleared(q) : rows'[x] = rows[x]
      BY <2>2 DEF Cleared
    <3>2. At(q, "deleting") => rows'[Head(request[q].left)] = rows[Head(request[q].left)]
      BY <2>2, LeftsAre DEF Shape, At, Fetched, Walking
    <3>. QED BY <1>1, <2>1, <3>1, <3>2 DEF Exact, At
  <2>3. CASE At(q, "delete") /\ Fetched(q) \in Products
    <3>1. request[q].left \in Lefts(Fetched(q))
      BY <2>3 DEF Shape, At, Fetched, Walking
    <3>2. Cleared(q) = {}
      BY <2>3, <3>1, LeftsAre DEF Cleared, At
    <3>. QED BY <1>1, <2>3, <3>2 DEF Exact, At
  <2>. QED BY <2>1, <2>2, <2>3
<1>4. Checked(q)'
  BY <1>1 DEF Checked, Recipients, At
<1>. QED BY <1>2, <1>3, <1>4

(* A step of one request that commits nothing. *)
LEMMA MoveOne ==
  ASSUME CatalogueInv, NEW r \in Requests, NEW m \in Request, request[r].pc # "done",
         request' = [request EXCEPT ![r] = m],
         UNCHANGED <<wallets, trusting, made, rows, profile>>,
         overlapped \subseteq overlapped', overlapped' \subseteq made,
         locked' \in [Users -> Requests \cup {None}], LockHeld',
         Shape(r)', Exact(r)', Checked(r)', OneCreates', OneReplaces'
  PROVE  CatalogueInv'
<1>. USE DEF CatalogueInv
<1>1. request' \in [Requests -> Request] /\ request'[r] = m
      /\ \A q \in Requests \ {r} : request'[q] = request[q]
  BY DEF CatalogueTypes
<1>2. CatalogueTypes'
  BY <1>1 DEF CatalogueTypes
<1>3. ASSUME NEW q \in Requests
      PROVE  Shape(q)' /\ Exact(q)' /\ Checked(q)'
  BY <1>1, SameWallets, KeepOne
<1>4. Stored'
  BY <1>1 DEF Stored, At, CatalogueTypes, Fetched, Places
<1>5. SiteIsOneRequest'
  <2>1. \A u \in Users : profile[u] # None =>
          profile[u] \in Requests /\ request'[profile[u]] = request[profile[u]]
    BY <1>1 DEF Stored, At, CatalogueTypes
  <2>. QED BY <2>1 DEF SiteIsOneRequest
<1>. QED BY <1>2, <1>3, <1>4, <1>5

-----------------------------------------------------------------------------
(* One lemma for each step of a request. *)

LEMMA Unlocked ==
  ASSUME CatalogueInv, NEW r \in Requests, request[r].pc \notin Open, locked' = locked,
         \A q \in Requests \ {r} : request'[q] = request[q],
         request'[r].pc \notin Open
  PROVE  LockHeld' /\ locked' \in [Users -> Requests \cup {None}]
BY DEF CatalogueInv, CatalogueTypes, LockHeld, Fetched

LEMMA AcceptCreateStep ==
  ASSUME CatalogueInv, NEW r \in Requests, AcceptCreate(r)
  PROVE  CatalogueInv'
<1>. USE DEF CatalogueInv
<1>1. PICK p \in Products \ {Fetched(q) : q \in Requests}, list \in Lists :
        /\ list \in Given \cup Sole(OwnerOf[p])
        /\ request' = [request EXCEPT ![r] =
             [@ EXCEPT !.pc = "create", !.target = p, !.list = list]]
  BY DEF AcceptCreate
<1>. DEFINE m == [request[r] EXCEPT !.pc = "create", !.target = p, !.list = list]
<1>2. At(r, "new") /\ UNCHANGED <<wallets, trusting, made, rows, profile, locked, overlapped>>
  BY DEF AcceptCreate, unstored
<1>3. m \in Request /\ request' = [request EXCEPT ![r] = m]
  <2>1. request[r] \in Request
    BY DEF CatalogueTypes
  <2>2. m \in Request
    BY <1>1, <2>1 DEF Request
  <2>. QED BY <1>1, <2>2
<1>4. /\ request'[r] = m /\ m.pc = "create" /\ m.target = p /\ m.list = list
      /\ m.gone = request[r].gone
      /\ \A q \in Requests \ {r} : request'[q] = request[q]
  BY <1>3 DEF CatalogueTypes, Request
<1>. HIDE DEF m
<1>5. Recipients(list) \subseteq Registered
  <2>1. OwnerOf[p] \in Users
    BY OwnerOfType
  <2>2. CASE list \in Given
    BY <2>2, WholeType, KindsDiffer DEF Given, Eligible, Recipients
  <2>3. CASE list \in Sole(OwnerOf[p])
    <3>1. list \in Registered /\ list \in Wallets
      BY <2>1, <2>3, SoleIsRegistered DEF Sole, CatalogueTypes
    <3>. QED BY <3>1 DEF Recipients
  <2>. QED BY <1>1, <2>2, <2>3
<1>6. p \notin made /\ \A q \in Requests : Fetched(q) # p
  <2>1. \A q \in Requests : Fetched(q) # p
    BY <1>1
  <2>2. p \notin made
    BY <2>1 DEF Stored, CatalogueTypes, Places
  <2>. QED BY <2>1, <2>2
<1>7. Shape(r)' /\ Exact(r)' /\ Checked(r)'
  BY <1>2, <1>4, <1>5, <1>6, SameWallets DEF Shape, Exact, Checked, Fetched, At, Open, Walking, Recipients
<1>8. LockHeld' /\ locked' \in [Users -> Requests \cup {None}]
  BY <1>2, <1>4, Unlocked DEF At, Open
<1>9. OneCreates' /\ OneReplaces'
  BY <1>2, <1>4, <1>6 DEF OneCreates, OneReplaces, Replacing, Fetched
<1>. QED BY <1>2, <1>3, <1>7, <1>8, <1>9, MoveOne DEF At, CatalogueTypes

LEMMA AcceptUpdateStep ==
  ASSUME CatalogueInv, NEW r \in Requests, AcceptUpdate(r)
  PROVE  CatalogueInv'
<1>. USE DEF CatalogueInv
<1>1. PICK p \in made, list \in Given :
        request' = [request EXCEPT ![r] =
          [@ EXCEPT !.pc = "delete", !.target = p, !.list = list, !.left = <<p>>]]
  BY DEF AcceptUpdate
<1>. DEFINE m == [request[r] EXCEPT !.pc = "delete", !.target = p, !.list = list, !.left = <<p>>]
<1>2. At(r, "new") /\ UNCHANGED <<wallets, trusting, made, rows, profile, locked, overlapped>>
  BY DEF AcceptUpdate, unstored
<1>3. p \in Products /\ p \notin Users /\ list \in Lists
  BY WholeType, KindsDiffer DEF CatalogueTypes, Given, Lists
<1>4. <<p>> \in Seq(Places)
  BY <1>3, PlacesAre
<1>5. m \in Request /\ request' = [request EXCEPT ![r] = m]
  <2>1. request[r] \in Request
    BY DEF CatalogueTypes
  <2>2. m \in Request
    BY <1>3, <1>4, <2>1 DEF Request, Open
  <2>. QED BY <1>1, <2>2
<1>6. /\ request'[r] = m /\ m.pc = "delete" /\ m.target = p /\ m.list = list /\ m.left = <<p>>
      /\ m.gone = request[r].gone /\ m.added = request[r].added
      /\ \A q \in Requests \ {r} : request'[q] = request[q]
  BY <1>5 DEF CatalogueTypes, Request
<1>. HIDE DEF m
<1>7. m.gone = {} /\ m.added = {}
  BY <1>2, <1>6 DEF Shape, At, Open
<1>8. Recipients(list) \subseteq Registered
  BY <1>3, WholeType, KindsDiffer DEF Given, Eligible, Recipients
<1>9. PICK left : left = <<p>> /\ left \in Lefts(p) /\ Ahead(left) = PlacesOf(p)
  BY <1>3, FirstLeft
<1>10. Shape(r)' /\ Exact(r)' /\ Checked(r)'
  BY <1>2, <1>3, <1>6, <1>7, <1>8, <1>9, SameWallets
     DEF Shape, Exact, Cleared, Checked, Fetched, At, Open, Walking, Recipients
<1>11. LockHeld' /\ locked' \in [Users -> Requests \cup {None}]
  BY <1>2, <1>3, <1>6 DEF LockHeld, CatalogueTypes, At, Open, Fetched
<1>12. OneCreates' /\ OneReplaces'
  BY <1>2, <1>6 DEF OneCreates, OneReplaces, Replacing, Fetched
<1>. QED BY <1>2, <1>5, <1>10, <1>11, <1>12, MoveOne DEF At, CatalogueTypes

LEMMA AcceptSiteStep ==
  ASSUME CatalogueInv, NEW r \in Requests, AcceptSite(r)
  PROVE  CatalogueInv'
<1>. USE DEF CatalogueInv
<1>1. PICK u \in Users, parts \in Parts :
        request' = [request EXCEPT ![r] =
          [@ EXCEPT !.pc = "lock", !.target = u, !.parts = parts, !.left = SiteOf(u)]]
  BY DEF AcceptSite
<1>. DEFINE m == [request[r] EXCEPT !.pc = "lock", !.target = u, !.parts = parts, !.left = SiteOf(u)]
<1>2. At(r, "new") /\ UNCHANGED <<wallets, trusting, made, rows, profile, locked, overlapped>>
  BY DEF AcceptSite, unstored
<1>3. PICK left : /\ left = SiteOf(u) /\ left \in Lefts(u) /\ Ahead(left) = PlacesOf(u)
                  /\ left \in Seq(Places)
  BY SiteOfIs, LeftsAre
<1>4. m \in Request /\ request' = [request EXCEPT ![r] = m]
  <2>1. request[r] \in Request
    BY DEF CatalogueTypes
  <2>2. m \in Request
    BY <1>3, <2>1, PartsType DEF Request, Walking
  <2>. QED BY <1>1, <2>2
<1>5. /\ request'[r] = m /\ m.pc = "lock" /\ m.target = u /\ m.left = left
      /\ m.gone = request[r].gone /\ m.added = request[r].added
      /\ \A q \in Requests \ {r} : request'[q] = request[q]
  BY <1>3, <1>4 DEF CatalogueTypes, Request
<1>. HIDE DEF m
<1>6. m.gone = {} /\ m.added = {}
  BY <1>2, <1>5 DEF Shape, At, Open
<1>7. u \notin Products
  BY KindsDiffer
<1>8. Shape(r)' /\ Exact(r)' /\ Checked(r)'
  BY <1>3, <1>5, <1>6, <1>7 DEF Shape, Exact, Checked, Fetched, Open, Walking
<1>9. LockHeld' /\ locked' \in [Users -> Requests \cup {None}]
  BY <1>2, <1>5, Unlocked DEF At, Open
<1>10. OneCreates' /\ OneReplaces'
  BY <1>2, <1>5, <1>7 DEF OneCreates, OneReplaces, Replacing, Fetched
<1>. QED BY <1>2, <1>4, <1>8, <1>9, <1>10, MoveOne DEF At, CatalogueTypes

LEMMA LockUserStep ==
  ASSUME CatalogueInv, NEW r \in Requests, LockUser(r)
  PROVE  CatalogueInv'
<1>. USE DEF CatalogueInv
<1>. DEFINE m == [request[r] EXCEPT !.pc = "delete"]
            u == Fetched(r)
<1>1. /\ At(r, "lock") /\ locked[u] = None /\ locked' = [locked EXCEPT ![u] = r]
      /\ request' = [request EXCEPT ![r] = m]
      /\ UNCHANGED <<wallets, trusting, made, rows, profile, overlapped>>
  BY DEF LockUser, unstored
<1>2. m \in Request
  <2>1. request[r] \in Request
    BY DEF CatalogueTypes
  <2>. QED BY <2>1 DEF Request, Open
<1>3. /\ request'[r] = m /\ m.pc = "delete" /\ m.target = u /\ m.left = request[r].left
      /\ m.gone = request[r].gone /\ m.added = request[r].added /\ m.parts = request[r].parts
      /\ \A q \in Requests \ {r} : request'[q] = request[q]
  BY <1>1, <1>2 DEF CatalogueTypes, Request, Fetched
<1>. HIDE DEF m
<1>4. u \in Users /\ u \notin Products
  BY <1>1, KindsDiffer DEF Shape, At, Fetched
<1>5. Shape(r)' /\ Exact(r)' /\ Checked(r)'
  <2>1. Shape(r)'
    BY <1>1, <1>3 DEF Shape, At, Fetched, Open, Walking, Fills
  <2>2. Exact(r)' /\ Checked(r)'
    BY <1>1, <1>3, <1>4 DEF Shape, Exact, Cleared, Checked, At, Fetched
  <2>. QED BY <2>1, <2>2
<1>6. LockHeld' /\ locked' \in [Users -> Requests \cup {None}]
  <2>1. u \in Users /\ r # None
    BY <1>4, NoneIsNothing
  <2>2. \A v \in Users, q \in Requests :
          locked'[v] = q <=> Fetched(q)' = v /\ request'[q].pc \in Open
    BY <1>1, <1>3, <2>1, NoneIsNothing DEF LockHeld, CatalogueTypes, At, Open, Fetched
  <2>. QED BY <1>1, <2>1, <2>2 DEF LockHeld, CatalogueTypes
<1>7. OneCreates' /\ OneReplaces'
  BY <1>1, <1>3, <1>4 DEF OneCreates, OneReplaces, Replacing, Fetched
<1>. QED BY <1>1, <1>2, <1>5, <1>6, <1>7, MoveOne DEF At, CatalogueTypes

(* A step of an open transaction leaves the locks as they are. *)
LEMMA StaysOpen ==
  ASSUME CatalogueInv, NEW r \in Requests, request[r].pc \in Open, locked' = locked,
         \A q \in Requests \ {r} : request'[q] = request[q],
         request'[r].pc \in Open, request'[r].target = request[r].target
  PROVE  LockHeld' /\ locked' \in [Users -> Requests \cup {None}]
<1>1. \A u \in Users, q \in Requests :
        locked[u] = q <=> request[q].target = u /\ request[q].pc \in Open
  BY DEF CatalogueInv, LockHeld, Fetched
<1>2. \A u \in Users, q \in Requests :
        locked'[u] = q <=> request'[q].target = u /\ request'[q].pc \in Open
  <2>. TAKE u \in Users, q \in Requests
  <2>1. CASE q = r
    BY <1>1, <2>1
  <2>2. CASE q # r
    BY <1>1, <2>2
  <2>. QED BY <2>1, <2>2
<1>. QED BY <1>2 DEF CatalogueInv, CatalogueTypes, LockHeld, Fetched

LEMMA StartDeleteStep ==
  ASSUME CatalogueInv, NEW r \in Requests, StartDelete(r)
  PROVE  CatalogueInv'
<1>. USE DEF CatalogueInv
<1>. DEFINE me == request[r]
            h == Head(me.left)
            m == [me EXCEPT !.pc = "deleting", !.seen = rows[h]]
<1>1. /\ At(r, "delete")
      /\ request' = [request EXCEPT ![r] = m]
      /\ UNCHANGED <<wallets, trusting, made, rows, profile, locked>>
      /\ overlapped' = IF \E q \in Requests \ {r} : Replacing(q) /\ Fetched(q) = Fetched(r)
                       THEN overlapped \cup ({Fetched(r)} \cap Products) ELSE overlapped
  BY DEF StartDelete, unstored
<1>2. me \in Request /\ me.pc = "delete" /\ me.target \in Products \cup Users
      /\ me.left \in Lefts(me.target)
  BY <1>1 DEF CatalogueTypes, Shape, At, Walking
<1>3. h \in Places /\ rows[h] \in SUBSET Requests
  BY <1>2, LeftsAre DEF CatalogueTypes
<1>4. m \in Request
  BY <1>2, <1>3 DEF Request, Walking
<1>5. /\ request'[r] = m /\ m.pc = "deleting" /\ m.target = me.target /\ m.left = me.left
      /\ m.gone = me.gone /\ m.added = me.added /\ m.parts = me.parts
      /\ m.list = me.list /\ m.seen = rows[h]
      /\ \A q \in Requests \ {r} : request'[q] = request[q]
  BY <1>1, <1>2, <1>4 DEF CatalogueTypes, Request
<1>. HIDE DEF m
<1>6. overlapped \subseteq overlapped' /\ overlapped' \subseteq made
  BY <1>1, <1>2 DEF CatalogueTypes, Checked, Open, Fetched
<1>7. Shape(r)' /\ Exact(r)' /\ Checked(r)'
  <2>1. Shape(r)'
    BY <1>2, <1>5 DEF Shape, Open, Walking, Fills
  <2>2. Exact(r)'
    BY <1>1, <1>2, <1>5, <1>6 DEF Exact, Cleared, At, Fetched, Open
  <2>3. Checked(r)'
    BY <1>1, <1>2, <1>5, SameWallets DEF Checked, Fetched, Open, Recipients, At
  <2>. QED BY <2>1, <2>2, <2>3
<1>8. LockHeld' /\ locked' \in [Users -> Requests \cup {None}]
  BY <1>1, <1>2, <1>5, StaysOpen DEF Open
<1>9. OneCreates'
  BY <1>1, <1>5 DEF OneCreates, Fetched
<1>10. OneReplaces'
  <2>1. SUFFICES ASSUME NEW a \in Requests, NEW b \in Requests,
                        request'[a].target \in Products, request'[a].target \notin overlapped',
                        request'[b].target = request'[a].target,
                        Replacing(a)', Replacing(b)'
                 PROVE  a = b
    BY DEF OneReplaces, Fetched
  <2>2. request[a].target \in Products \ overlapped /\ request[b].target = request[a].target
    BY <1>5, <1>6, <2>1
  <2>3. CASE a # r /\ b # r
    BY <1>5, <2>1, <2>2, <2>3 DEF OneReplaces, Replacing, Fetched
  <2>4. CASE a = r /\ b # r
    BY <1>1, <1>5, <2>1, <2>2, <2>4 DEF Replacing, Fetched
  <2>5. CASE a # r /\ b = r
    BY <1>1, <1>5, <2>1, <2>2, <2>5 DEF Replacing, Fetched
  <2>. QED BY <2>3, <2>4, <2>5
<1>. QED BY <1>1, <1>2, <1>4, <1>6, <1>7, <1>8, <1>9, <1>10, MoveOne DEF At, CatalogueTypes

LEMMA DeleteStep ==
  ASSUME CatalogueInv, NEW r \in Requests, Delete(r)
  PROVE  CatalogueInv'
<1>. USE DEF CatalogueInv
<1>. DEFINE me == request[r]
            h == Head(me.left)
            marked == {<<h, s>> : s \in me.seen \cap rows[h]}
            m == [me EXCEPT !.pc = "insert", !.seen = {}, !.gone = me.gone \cup marked]
<1>1. /\ At(r, "deleting")
      /\ request' = [request EXCEPT ![r] = m]
      /\ UNCHANGED <<wallets, trusting, made, rows, profile, locked, overlapped>>
  BY DEF Delete, unstored
<1>2. me \in Request /\ me.pc = "deleting" /\ me.target \in Products \cup Users
      /\ me.left \in Lefts(me.target)
  BY <1>1 DEF CatalogueTypes, Shape, At, Walking
<1>3. /\ h \in Places /\ h \in PlacesOf(me.target) /\ rows[h] \in SUBSET Requests
      /\ h \notin Ahead(Tail(me.left)) /\ Ahead(me.left) = {h} \cup Ahead(Tail(me.left))
  BY <1>2, LeftsAre DEF CatalogueTypes
<1>4. marked \subseteq PlacesOf(me.target) \X Requests /\ marked \subseteq Places \X Requests
  BY <1>3
<1>5. m \in Request
  BY <1>2, <1>4 DEF Request, Walking
<1>6. /\ request'[r] = m /\ m.pc = "insert" /\ m.target = me.target /\ m.left = me.left
      /\ m.gone = me.gone \cup marked /\ m.added = me.added /\ m.parts = me.parts
      /\ m.list = me.list
      /\ \A q \in Requests \ {r} : request'[q] = request[q]
  BY <1>1, <1>2, <1>5 DEF CatalogueTypes, Request
<1>. HIDE DEF m
<1>7. Shape(r)'
  <2>1. m.gone \subseteq PlacesOf(me.target) \X Requests
    BY <1>2, <1>4, <1>6 DEF Shape, Open
  <2>. HIDE DEF marked
  <2>. QED BY <1>2, <1>6, <2>1 DEF Shape, Open, Walking, Fills
<1>8. Exact(r)'
  <2>1. SUFFICES ASSUME me.target \notin overlapped, NEW x \in Cleared(r)', NEW s \in rows[x]
                 PROVE  <<x, s>> \in m.gone
    BY <1>1, <1>6 DEF Exact, At, Fetched
  <2>2. x \in PlacesOf(me.target) \ Ahead(Tail(me.left))
    BY <1>6 DEF Cleared, At, Fetched
  <2>3. rows[h] \subseteq me.seen
    BY <1>2, <2>1 DEF Exact, At, Fetched, Open
  <2>4. CASE x = h
    BY <1>6, <2>3, <2>4
  <2>5. CASE x # h
    <3>1. x \in Cleared(r)
      BY <1>2, <1>3, <2>2, <2>5 DEF Cleared, At, Fetched
    <3>2. <<x, s>> \in me.gone
      BY <1>2, <2>1, <3>1 DEF Exact, Fetched, Open
    <3>. QED BY <1>6, <3>2
  <2>. QED BY <2>4, <2>5
<1>9. Checked(r)'
  BY <1>1, <1>2, <1>6, SameWallets DEF Checked, Fetched, Open, Recipients, At
<1>10. LockHeld' /\ locked' \in [Users -> Requests \cup {None}]
  BY <1>1, <1>2, <1>6, StaysOpen DEF Open
<1>11. OneCreates' /\ OneReplaces'
  BY <1>1, <1>2, <1>6 DEF OneCreates, OneReplaces, Replacing, Fetched
<1>. QED BY <1>1, <1>2, <1>5, <1>7, <1>8, <1>9, <1>10, <1>11, MoveOne DEF At, CatalogueTypes

LEMMA InsertStep ==
  ASSUME CatalogueInv, NEW r \in Requests, Insert(r)
  PROVE  CatalogueInv'
<1>. USE DEF CatalogueInv
<1>. DEFINE me == request[r]
            h == Head(me.left)
            left == Tail(me.left)
            pc == IF left = <<>> THEN "commit" ELSE "delete"
            added == IF Fills(r, h) THEN me.added \cup {h} ELSE me.added
            m == [me EXCEPT !.pc = pc, !.left = left, !.added = added]
<1>1. /\ At(r, "insert")
      /\ request' = [request EXCEPT ![r] = m]
      /\ UNCHANGED <<wallets, trusting, made, rows, profile, locked, overlapped>>
  BY DEF Insert, unstored
<1>2. me \in Request /\ me.pc = "insert" /\ me.target \in Products \cup Users
      /\ me.left \in Lefts(me.target)
      /\ me.added = {x \in PlacesOf(me.target) \ Ahead(me.left) : Fills(r, x)}
  BY <1>1 DEF CatalogueTypes, Shape, At, Walking
<1>3. /\ h \in Places /\ h \in PlacesOf(me.target) /\ left \in Seq(Places)
      /\ h \notin Ahead(left) /\ Ahead(me.left) = {h} \cup Ahead(left)
      /\ left # <<>> => left \in Lefts(me.target)
  BY <1>2, LeftsAre
<1>4. pc \in {"commit", "delete"} /\ (pc = "commit" <=> left = <<>>)
  OBVIOUS
<1>5. added = {x \in PlacesOf(me.target) \ Ahead(left) : Fills(r, x)} /\ added \in SUBSET Places
  <2>1. me.added \in SUBSET Places
    BY <1>2 DEF Request
  <2>. QED BY <1>2, <1>3, <2>1
<1>. HIDE DEF added, pc, left
<1>6. m \in Request
  BY <1>2, <1>3, <1>4, <1>5 DEF Request, Walking, Open
<1>7. /\ request'[r] = m /\ m.pc = pc /\ m.target = me.target /\ m.left = left
      /\ m.gone = me.gone /\ m.added = added /\ m.parts = me.parts /\ m.list = me.list
      /\ \A q \in Requests \ {r} : request'[q] = request[q]
  BY <1>1, <1>2, <1>6 DEF CatalogueTypes, Request
<1>. HIDE DEF m
<1>8. Shape(r)'
  <2>1. me.gone \subseteq PlacesOf(me.target) \X Requests
    BY <1>2 DEF Shape, Open
  <2>2. \A x : Fills(r, x)' <=> Fills(r, x)
    BY <1>7 DEF Fills
  <2>. QED BY <1>2, <1>3, <1>4, <1>5, <1>7, <2>1, <2>2 DEF Shape, Open, Walking
<1>9. Exact(r)'
  <2>1. Cleared(r)' = Cleared(r)
    BY <1>2, <1>4, <1>7 DEF Cleared, At, Fetched, left
  <2>. QED BY <1>1, <1>2, <1>4, <1>7, <2>1 DEF Exact, At, Fetched, Open
<1>10. Checked(r)'
  BY <1>1, <1>2, <1>4, <1>7, SameWallets DEF Checked, Fetched, Open, Recipients, At
<1>11. LockHeld' /\ locked' \in [Users -> Requests \cup {None}]
  BY <1>1, <1>2, <1>4, <1>7, StaysOpen DEF Open
<1>12. OneCreates' /\ OneReplaces'
  BY <1>1, <1>2, <1>4, <1>7 DEF OneCreates, OneReplaces, Replacing, Fetched
<1>. QED BY <1>1, <1>2, <1>6, <1>8, <1>9, <1>10, <1>11, <1>12, MoveOne DEF At, CatalogueTypes

(* The end of a transaction leaves the locks of the others. *)
LEMMA Releases ==
  ASSUME CatalogueInv, NEW r \in Requests, locked' = Released(r),
         \A q \in Requests \ {r} : request'[q] = request[q],
         request'[r].pc \notin Open
  PROVE  LockHeld' /\ locked' \in [Users -> Requests \cup {None}]
<1>1. \A u \in Users, q \in Requests :
        locked[u] = q <=> request[q].target = u /\ request[q].pc \in Open
  BY DEF CatalogueInv, LockHeld, Fetched
<1>2. \A u \in Users : locked'[u] = IF locked[u] = r THEN None ELSE locked[u]
  BY DEF Released
<1>3. \A u \in Users, q \in Requests :
        locked'[u] = q <=> request'[q].target = u /\ request'[q].pc \in Open
  <2>. TAKE u \in Users, q \in Requests
  <2>1. CASE q = r
    BY <1>2, <2>1, NoneIsNothing
  <2>2. CASE q # r
    BY <1>1, <1>2, <2>2, NoneIsNothing
  <2>. QED BY <2>1, <2>2
<1>4. locked' \in [Users -> Requests \cup {None}]
  BY DEF Released, CatalogueInv, CatalogueTypes
<1>. QED BY <1>3, <1>4 DEF LockHeld, Fetched

LEMMA AbortStep ==
  ASSUME CatalogueInv, NEW r \in Requests, Abort(r)
  PROVE  CatalogueInv'
<1>. USE DEF CatalogueInv
<1>. DEFINE me == request[r]
            m == [me EXCEPT !.pc = "done", !.gone = {}]
<1>1. /\ me.pc \in {"delete", "deleting", "insert", "commit"}
      /\ request' = [request EXCEPT ![r] = m]
      /\ locked' = Released(r)
      /\ UNCHANGED <<wallets, trusting, made, rows, profile, overlapped>>
  BY DEF Abort, unstored
<1>2. me \in Request /\ me.target \in Products \cup Users
  BY <1>1 DEF CatalogueTypes, Shape
<1>3. m \in Request
  BY <1>2 DEF Request
<1>4. /\ request'[r] = m /\ m.pc = "done" /\ m.target = me.target /\ m.gone = {}
      /\ m.list = me.list
      /\ \A q \in Requests \ {r} : request'[q] = request[q]
  BY <1>1, <1>2, <1>3 DEF CatalogueTypes, Request
<1>. HIDE DEF m
<1>5. Shape(r)' /\ Exact(r)'
  BY <1>2, <1>4 DEF Shape, Exact, Open, Walking
<1>6. Checked(r)'
  BY <1>1, <1>4, SameWallets DEF Checked, Fetched, Open, Recipients, At
<1>7. LockHeld' /\ locked' \in [Users -> Requests \cup {None}]
  BY <1>1, <1>4, Releases DEF Open
<1>8. OneCreates' /\ OneReplaces'
  BY <1>1, <1>4 DEF OneCreates, OneReplaces, Replacing, Fetched
<1>. QED BY <1>1, <1>3, <1>5, <1>6, <1>7, <1>8, MoveOne DEF CatalogueTypes

LEMMA CreateProductStep ==
  ASSUME CatalogueInv, NEW r \in Requests, CreateProduct(r)
  PROVE  CatalogueInv'
<1>. USE DEF CatalogueInv
<1>. DEFINE me == request[r]
            p == me.target
            m == [me EXCEPT !.pc = "done"]
<1>1. /\ me.pc = "create" /\ request' = [request EXCEPT ![r] = m]
      /\ made' = made \cup {p} /\ rows' = [rows EXCEPT ![p] = {r}]
      /\ UNCHANGED <<wallets, trusting, profile, locked, overlapped>>
  BY DEF CreateProduct, unstored, At, Fetched
<1>2. me \in Request /\ p \in Products /\ p \in Places
  BY <1>1, PlacesAre DEF CatalogueTypes, Shape
<1>3. m \in Request
  BY <1>2 DEF Request
<1>4. /\ request'[r] = m /\ m.pc = "done" /\ m.target = p /\ m.gone = me.gone
      /\ m.list = me.list /\ request' \in [Requests -> Request]
      /\ \A q \in Requests \ {r} : request'[q] = request[q]
  BY <1>1, <1>2, <1>3 DEF CatalogueTypes, Request
<1>. HIDE DEF m
<1>5. /\ rows' \in [Places -> SUBSET Requests] /\ rows'[p] = {r}
      /\ \A x \in Places \ {p} : rows'[x] = rows[x]
  BY <1>1, <1>2 DEF CatalogueTypes
<1>6. CatalogueTypes'
  BY <1>1, <1>2, <1>4, <1>5 DEF CatalogueTypes
<1>7. LockHeld'
  BY <1>1, <1>4, Unlocked DEF Open
<1>8. p \notin made /\ \A q \in Requests \ {r} : Fetched(q) # p
  BY <1>1, <1>2 DEF OneCreates, Checked, Fetched, At
<1>9. ASSUME NEW q \in Requests
      PROVE  Shape(q)' /\ Exact(q)' /\ Checked(q)'
  <2>1. CASE q = r
    <3>1. Shape(r)' /\ Exact(r)'
      BY <1>1, <1>2, <1>4 DEF Shape, Exact, Open, Walking
    <3>2. Checked(r)'
      BY <1>1, <1>2, <1>4, SameWallets DEF Checked, Fetched, Open, Recipients, At
    <3>. QED BY <2>1, <3>1, <3>2
  <2>2. CASE q # r
    <3>1. request[q].pc \in Open => \A x \in PlacesOf(Fetched(q)) : rows'[x] = rows[x]
      <4>1. SUFFICES ASSUME request[q].pc \in Open, NEW x \in PlacesOf(Fetched(q))
                     PROVE  rows'[x] = rows[x]
        OBVIOUS
      <4>2. Fetched(q) \in Products \cup Users
        BY <4>1 DEF Shape, Fetched, Open
      <4>3. x \in Places /\ x # p
        BY <1>2, <1>8, <2>2, <4>1, <4>2, PlacesAre, PlacesApart
      <4>. QED BY <1>5, <4>3
    <3>2. Fetched(q) \in made' <=> Fetched(q) \in made
      BY <1>1, <1>8, <2>2
    <3>. QED BY <1>1, <1>4, <2>2, <3>1, <3>2, SameWallets, KeepOne
  <2>. QED BY <2>1, <2>2
<1>10. OneCreates' /\ OneReplaces'
  BY <1>1, <1>4 DEF OneCreates, OneReplaces, Replacing, Fetched
<1>11. Stored'
  <2>1. \A x \in Places : \A s \in rows'[x] : At(s, "done")'
    BY <1>1, <1>4, <1>5 DEF Stored, At, CatalogueTypes
  <2>2. \A a \in Products : \A s \in rows'[a] : Fetched(s)' = a
    BY <1>4, <1>5, PlacesAre DEF Stored, Fetched, CatalogueTypes
  <2>3. \A u \in Users : profile'[u] # None => At(profile[u], "done")'
    BY <1>1, <1>4 DEF Stored, At, CatalogueTypes
  <2>4. \A a \in made' : rows'[a] # {}
          /\ (a \notin overlapped' => \E s \in Requests : rows'[a] = {s})
    <3>1. \A a \in made : a \in Places
      BY PlacesAre DEF CatalogueTypes
    <3>2. \A a \in made \ {p} : rows'[a] = rows[a] /\ rows[a] # {}
            /\ (a \notin overlapped => \E s \in Requests : rows[a] = {s})
      BY <1>5, <3>1 DEF Stored
    <3>3. rows'[p] # {} /\ \E s \in Requests : rows'[p] = {s}
      BY <1>5
    <3>. QED BY <1>1, <3>2, <3>3
  <2>. QED BY <1>1, <2>1, <2>2, <2>3, <2>4 DEF Stored
<1>12. SiteIsOneRequest'
  <2>1. \A u \in Users, t \in SiteTable : rows'[<<u, t>>] = rows[<<u, t>>]
    <3>. TAKE u \in Users, t \in SiteTable
    <3>1. <<u, t>> \in PlacesOf(u)
      BY PlacesAre
    <3>2. <<u, t>> \in Places /\ <<u, t>> \notin Products
      BY <3>1, PlacesAre
    <3>. QED BY <1>2, <1>5, <3>2
  <2>2. \A u \in Users : profile[u] # None =>
          profile[u] \in Requests /\ request'[profile[u]] = request[profile[u]]
    BY <1>1, <1>4 DEF Stored, At, CatalogueTypes
  <2>3. profile' = profile
    BY <1>1
  <2>4. ASSUME NEW u \in Users, NEW t \in SiteTable
        PROVE  rows'[<<u, t>>] = IF profile'[u] # None /\ t \in request'[profile'[u]].parts
                                 THEN {profile'[u]} ELSE {}
    BY <2>1, <2>2, <2>3 DEF SiteIsOneRequest
  <2>. QED BY <2>4 DEF SiteIsOneRequest
<1>. QED BY <1>6, <1>7, <1>9, <1>10, <1>11, <1>12

(* What a commit leaves in a place: of its own places, unless replacements *)
(* have overlapped, what it has added and nothing else.                    *)
LEMMA Committed ==
  ASSUME CatalogueInv, NEW r \in Requests, Commit(r)
  PROVE  /\ request[r].target \in Products \cup Users
         /\ \A x \in Places \ PlacesOf(request[r].target) : rows'[x] = rows[x]
         /\ \A x \in PlacesOf(request[r].target) :
              /\ x \in Places
              /\ rows'[x] \subseteq rows[x] \cup {r}
              /\ Fills(r, x) => r \in rows'[x]
              /\ ~Fills(r, x) => r \notin rows'[x]
              /\ request[r].target \notin overlapped => rows'[x] \subseteq {r}
<1>. DEFINE me == request[r]
<1>1. /\ me.pc = "commit" /\ me.left = <<>> /\ me.target \in Products \cup Users
      /\ me.gone \subseteq PlacesOf(me.target) \X Requests
      /\ me.added = {x \in PlacesOf(me.target) \ Ahead(me.left) : Fills(r, x)}
  BY DEF CatalogueInv, Shape, Commit, At, Open
<1>2. Ahead(me.left) = {}
  BY <1>1, AheadOf
<1>3. \A x \in Places :
        rows'[x] = {s \in rows[x] : <<x, s>> \notin me.gone}
                   \cup (IF x \in me.added THEN {r} ELSE {})
  BY DEF Commit
<1>4. \A x \in Places : r \notin rows[x]
  BY <1>1 DEF CatalogueInv, Stored, At
<1>5. \A x \in PlacesOf(me.target) : x \in Places
  BY <1>1, PlacesAre
<1>6. Cleared(r) = PlacesOf(me.target)
  BY <1>1, <1>2 DEF Cleared, At, Fetched
<1>7. me.target \notin overlapped =>
        \A x \in PlacesOf(me.target) : \A s \in rows[x] : <<x, s>> \in me.gone
  BY <1>1, <1>6 DEF CatalogueInv, Exact, Fetched, Open
<1>8. \A x \in PlacesOf(me.target) : x \in me.added <=> Fills(r, x)
  BY <1>1, <1>2
<1>9. ASSUME NEW x \in Places \ PlacesOf(me.target)
      PROVE  rows'[x] = rows[x]
  <2>1. x \notin me.added /\ \A s : <<x, s>> \notin me.gone
    BY <1>1
  <2>. QED BY <1>3, <2>1
<1>10. ASSUME NEW x \in PlacesOf(me.target)
       PROVE  /\ x \in Places
              /\ rows'[x] \subseteq rows[x] \cup {r}
              /\ Fills(r, x) => r \in rows'[x]
              /\ ~Fills(r, x) => r \notin rows'[x]
              /\ me.target \notin overlapped => rows'[x] \subseteq {r}
  <2>1. x \in Places
    BY <1>5
  <2>2. rows'[x] = {s \in rows[x] : <<x, s>> \notin me.gone}
                   \cup (IF Fills(r, x) THEN {r} ELSE {})
    BY <1>3, <1>8, <2>1
  <2>3. me.target \notin overlapped => \A s \in rows[x] : <<x, s>> \in me.gone
    BY <1>7
  <2>. QED BY <1>4, <2>1, <2>2, <2>3
<1>. QED BY <1>1, <1>9, <1>10

LEMMA CommitStep ==
  ASSUME CatalogueInv, NEW r \in Requests, Commit(r)
  PROVE  CatalogueInv'
<1>. USE DEF CatalogueInv
<1>. DEFINE me == request[r]
            y == me.target
            m == [me EXCEPT !.pc = "done", !.gone = {}]
<1>1. /\ me.pc = "commit" /\ request' = [request EXCEPT ![r] = m]
      /\ profile' = [u \in Users |-> IF y = u THEN r ELSE profile[u]]
      /\ locked' = Released(r)
      /\ UNCHANGED <<wallets, trusting, made, overlapped>>
  BY DEF Commit, unstored, At, Fetched
<1>2. /\ me \in Request /\ y \in Products \cup Users
      /\ y \in Products => y \in made
  BY <1>1 DEF CatalogueTypes, Shape, Checked, Fetched, Open
<1>3. m \in Request
  BY <1>2 DEF Request
<1>4. /\ request'[r] = m /\ m.pc = "done" /\ m.target = y /\ m.gone = {}
      /\ m.list = me.list /\ m.parts = me.parts /\ request' \in [Requests -> Request]
      /\ \A q \in Requests \ {r} : request'[q] = request[q]
  BY <1>1, <1>2, <1>3 DEF CatalogueTypes, Request
<1>. HIDE DEF m
<1>5. /\ \A x \in Places \ PlacesOf(y) : rows'[x] = rows[x]
      /\ \A x \in PlacesOf(y) :
           /\ x \in Places
           /\ rows'[x] \subseteq rows[x] \cup {r}
           /\ Fills(r, x) => r \in rows'[x]
           /\ ~Fills(r, x) => r \notin rows'[x]
           /\ y \notin overlapped => rows'[x] \subseteq {r}
  BY Committed
<1>6. CatalogueTypes'
  <2>1. rows' \in [Places -> SUBSET Requests]
    <3>1. rows' = [x \in Places |-> rows'[x]]
      BY DEF Commit
    <3>2. \A x \in Places : rows[x] \subseteq Requests
      BY DEF CatalogueTypes
    <3>3. \A x \in Places : rows'[x] \subseteq Requests
      BY <1>5, <3>2
    <3>. QED BY <3>1, <3>3
  <2>2. profile' \in [Users -> Requests \cup {None}]
    BY <1>1 DEF CatalogueTypes
  <2>3. locked' \in [Users -> Requests \cup {None}]
    BY <1>1, <1>4, Releases DEF Open
  <2>. QED BY <1>1, <1>4, <2>1, <2>2, <2>3 DEF CatalogueTypes
<1>7. LockHeld'
  BY <1>1, <1>4, Releases DEF Open
<1>8. ASSUME NEW q \in Requests
      PROVE  Shape(q)' /\ Exact(q)' /\ Checked(q)'
  <2>1. CASE q = r
    <3>1. Shape(r)' /\ Exact(r)'
      BY <1>2, <1>4 DEF Shape, Exact, Open, Walking
    <3>2. Checked(r)'
      BY <1>1, <1>2, <1>4, SameWallets DEF Checked, Fetched, Open, Recipients, At
    <3>. QED BY <2>1, <3>1, <3>2
  <2>2. CASE q # r
    <3>1. ASSUME request[q].pc \in Open, Fetched(q) \notin overlapped
          PROVE  \/ \A x \in PlacesOf(Fetched(q)) : rows'[x] = rows[x]
                 \/ At(q, "delete") /\ Fetched(q) \in Products
      <4>1. Fetched(q) \in Products \cup Users
        BY <3>1 DEF Shape, Fetched, Open
      <4>2. CASE Fetched(q) = y /\ y \in Users
        BY <1>1, <2>2, <3>1, <4>2 DEF LockHeld, Fetched, Open
      <4>3. CASE Fetched(q) = y /\ y \in Products
        <5>1. ~Replacing(q)
          BY <1>1, <2>2, <3>1, <4>3 DEF OneReplaces, Replacing, Fetched
        <5>. QED BY <3>1, <4>3, <5>1 DEF Replacing, Open, At
      <4>4. CASE Fetched(q) # y
        <5>1. \A x \in PlacesOf(Fetched(q)) : x \in Places /\ x \notin PlacesOf(y)
          BY <1>2, <4>1, <4>4, PlacesAre, PlacesApart
        <5>. QED BY <1>5, <5>1
      <4>. QED BY <1>2, <4>2, <4>3, <4>4
    <3>. QED BY <1>1, <1>4, <2>2, <3>1, SameWallets, KeepOne
  <2>. QED BY <2>1, <2>2
<1>9. OneCreates' /\ OneReplaces'
  BY <1>1, <1>4 DEF OneCreates, OneReplaces, Replacing, Fetched
<1>10. Stored'
  <2>1. ASSUME NEW x \in Places, NEW s \in rows'[x]
        PROVE  At(s, "done")'
    BY <1>4, <1>5 DEF Stored, At, CatalogueTypes
  <2>2. ASSUME NEW p \in Products, NEW s \in rows'[p]
        PROVE  Fetched(s)' = p
    <3>1. p \in Places
      BY PlacesAre
    <3>2. CASE p \in PlacesOf(y)
      <4>1. y = p
        BY <1>2, <3>2, PlacesAre
      <4>. QED BY <1>4, <1>5, <3>1, <3>2, <4>1 DEF Stored, Fetched, CatalogueTypes
    <3>3. CASE p \notin PlacesOf(y)
      BY <1>4, <1>5, <3>1, <3>3 DEF Stored, Fetched, CatalogueTypes
    <3>. QED BY <3>2, <3>3
  <2>3. \A u \in Users : profile'[u] # None => At(profile[u], "done")'
    BY <1>1, <1>4 DEF Stored, At, CatalogueTypes
  <2>4. ASSUME NEW p \in made
        PROVE  /\ rows'[p] # {}
               /\ p \notin overlapped => \E s \in Requests : rows'[p] = {s}
    <3>1. p \in Products /\ p \in Places
      BY PlacesAre DEF CatalogueTypes
    <3>2. CASE p \in PlacesOf(y)
      <4>1. y = p
        BY <1>2, <3>1, <3>2, PlacesAre
      <4>2. Fills(r, p)
        BY <3>1 DEF Fills
      <4>. QED BY <1>5, <3>2, <4>1, <4>2
    <3>3. CASE p \notin PlacesOf(y)
      BY <1>5, <3>1, <3>3 DEF Stored
    <3>. QED BY <3>2, <3>3
  <2>. QED BY <1>1, <2>1, <2>2, <2>3, <2>4 DEF Stored
<1>11. SiteIsOneRequest'
  <2>1. SUFFICES ASSUME NEW u \in Users, NEW t \in SiteTable
                 PROVE  rows'[<<u, t>>] =
                          IF profile'[u] # None /\ t \in request'[profile'[u]].parts
                          THEN {profile'[u]} ELSE {}
    BY DEF SiteIsOneRequest
  <2>2. <<u, t>> \in Places /\ <<u, t>> \in PlacesOf(u) /\ <<u, t>> \notin Products
        /\ u \notin Products
    BY PlacesAre
  <2>3. CASE y = u
    <3>1. u \notin overlapped
      BY <2>2 DEF CatalogueTypes
    <3>2. Fills(r, <<u, t>>) <=> t \in me.parts
      BY <2>2 DEF Fills
    <3>3. rows'[<<u, t>>] = IF t \in me.parts THEN {r} ELSE {}
      BY <1>5, <2>2, <2>3, <3>1, <3>2
    <3>4. profile'[u] = r /\ r # None
      BY <1>1, <2>3, NoneIsNothing
    <3>. QED BY <1>4, <3>3, <3>4
  <2>4. CASE y # u
    <3>1. rows'[<<u, t>>] = rows[<<u, t>>]
      BY <1>2, <1>5, <2>2, <2>4, PlacesApart
    <3>2. profile'[u] = profile[u]
      BY <1>1, <2>4
    <3>3. profile[u] # None =>
            profile[u] \in Requests /\ request'[profile[u]] = request[profile[u]]
      BY <1>1, <1>4 DEF Stored, At, CatalogueTypes
    <3>. QED BY <3>1, <3>2, <3>3 DEF SiteIsOneRequest
  <2>. QED BY <2>3, <2>4
<1>. QED BY <1>6, <1>7, <1>8, <1>9, <1>10, <1>11

-----------------------------------------------------------------------------
(* Wallets. *)

(* Wallets are only ever added. *)
LEMMA WalletsGrow ==
  ASSUME CatalogueInv, wallets' \in [Users -> Seq(Wallets)], trusting' \subseteq Wallets,
         Registered \subseteq Registered',
         UNCHANGED <<made, rows, profile, locked, request, overlapped>>
  PROVE  CatalogueInv'
<1>. USE DEF CatalogueInv
<1>1. CatalogueTypes'
  BY DEF CatalogueTypes
<1>2. ASSUME NEW q \in Requests
      PROVE  Shape(q)' /\ Exact(q)' /\ Checked(q)'
  BY KeepOne
<1>3. LockHeld'
  BY DEF LockHeld, Fetched
<1>4. OneCreates' /\ OneReplaces'
  BY DEF OneCreates, OneReplaces, Replacing, Fetched
<1>5. Stored'
  BY DEF Stored, At, Fetched
<1>6. SiteIsOneRequest'
  BY DEF SiteIsOneRequest
<1>. QED BY <1>1, <1>2, <1>3, <1>4, <1>5, <1>6

LEMMA ConnectStep ==
  ASSUME CatalogueInv, NEW u \in Users, NEW w \in Wallets, Connect(u, w)
  PROVE  CatalogueInv'
<1>1. wallets \in [Users -> Seq(Wallets)] /\ wallets' = [wallets EXCEPT ![u] = Append(@, w)]
  BY DEF CatalogueInv, CatalogueTypes, Connect
<1>2. wallets' \in [Users -> Seq(Wallets)]
  BY <1>1
<1>3. ASSUME NEW v \in Users
      PROVE  WalletsHeld(v) \subseteq WalletsHeld(v)'
  <2>1. CASE v = u
    <3>1. wallets[u] \in Seq(Wallets) /\ wallets'[u] = Append(wallets[u], w)
      BY <1>1
    <3>2. \A i \in DOMAIN wallets[u] : i \in DOMAIN wallets'[u] /\ wallets'[u][i] = wallets[u][i]
      BY <3>1
    <3>. QED BY <2>1, <3>2 DEF WalletsHeld
  <2>2. CASE v # u
    BY <1>1, <2>2 DEF WalletsHeld
  <2>. QED BY <2>1, <2>2
<1>4. Registered \subseteq Registered'
  BY <1>3 DEF Registered
<1>. QED BY <1>2, <1>4, WalletsGrow DEF Connect, CatalogueInv, CatalogueTypes

LEMMA ChangeTrustStep ==
  ASSUME CatalogueInv, NEW w \in Wallets, ChangeTrust(w)
  PROVE  CatalogueInv'
BY SameWallets, WalletsGrow DEF ChangeTrust, CatalogueInv, CatalogueTypes

-----------------------------------------------------------------------------
(* The theorems. *)

LEMMA InitCatalogue == Init => CatalogueInv
<1>. SUFFICES ASSUME Init PROVE CatalogueInv
  OBVIOUS
<1>. USE DEF Init
<1>1. NewRequest \in Request /\ NewRequest.pc = "new" /\ NewRequest.target = None
      /\ NewRequest.added = {} /\ NewRequest.gone = {} /\ NewRequest.list = None
  BY DEF NewRequest, Request
<1>2. \A r \in Requests : request[r] = NewRequest
  OBVIOUS
<1>3. CatalogueTypes
  BY <1>1 DEF CatalogueTypes
<1>4. \A r \in Requests : Shape(r) /\ Exact(r) /\ Checked(r)
  BY <1>1, <1>2, NoneIsNothing DEF Shape, Exact, Checked, Fetched, At, Open, Walking
<1>5. LockHeld /\ OneCreates /\ OneReplaces
  BY <1>1, <1>2, NoneIsNothing DEF LockHeld, OneCreates, OneReplaces, Replacing, Fetched, Open
<1>6. Stored
  BY PlacesAre DEF Stored
<1>7. SiteIsOneRequest
  BY PlacesAre DEF SiteIsOneRequest
<1>. QED BY <1>3, <1>4, <1>5, <1>6, <1>7 DEF CatalogueInv

LEMMA CatalogueStep ==
  CatalogueInv /\ [Next]_catalogueVars => CatalogueInv'
<1>. SUFFICES ASSUME CatalogueInv, [Next]_catalogueVars PROVE CatalogueInv'
  OBVIOUS
<1>1. ASSUME NEW r \in Requests, Serve(r)
      PROVE  CatalogueInv'
  BY <1>1, AcceptCreateStep, AcceptUpdateStep, AcceptSiteStep, CreateProductStep, LockUserStep,
     StartDeleteStep, DeleteStep, InsertStep, CommitStep, AbortStep DEF Serve
<1>2. CASE UNCHANGED catalogueVars
  BY <1>2, SameWallets, WalletsGrow DEF catalogueVars, CatalogueInv, CatalogueTypes
<1>. QED BY <1>1, <1>2, ConnectStep, ChangeTrustStep DEF Next

(* The invariant of requests, locks and rows, for any requests and users.  *)
THEOREM CatalogueInvariant == Spec => []CatalogueInv
BY InitCatalogue, CatalogueStep, PTL DEF Spec

(* Every variable has its type, and only an open transaction holds a lock. *)
THEOREM CatalogueTyped == Spec => []TypeOK
<1>1. CatalogueInv => TypeOK
  <2>. SUFFICES ASSUME CatalogueInv PROVE TypeOK
    OBVIOUS
  <2>1. \A u \in Users : WalletsHeld(u) \subseteq Wallets
    BY DEF CatalogueInv, CatalogueTypes, WalletsHeld
  <2>2. \A u \in Users : locked[u] # None =>
          Fetched(locked[u]) = u /\ request[locked[u]].pc # "done"
    BY DEF CatalogueInv, CatalogueTypes, LockHeld, Open
  <2>. QED BY <2>1, <2>2 DEF CatalogueInv, CatalogueTypes, TypeOK
<1>. QED BY <1>1, CatalogueInvariant, PTL

(* A product always has somebody to pay, and just one list of them unless  *)
(* replacements have overlapped.                                           *)
THEOREM SplitsReplaced == Spec => []SplitReplaced
<1>1. CatalogueInv => SplitReplaced
  <2>. SUFFICES ASSUME CatalogueInv, NEW p \in made
                PROVE  /\ rows[p] # {}
                       /\ \A r \in rows[p] : Recipients(request[r].list) \subseteq Registered
                       /\ p \notin overlapped => \E r \in Requests : rows[p] = {r}
    BY DEF SplitReplaced
  <2>1. p \in Products /\ rows[p] \subseteq Requests
    BY PlacesAre DEF CatalogueInv, CatalogueTypes
  <2>. QED BY <2>1 DEF CatalogueInv, Stored, Checked
<1>. QED BY <1>1, CatalogueInvariant, PTL

(* A site is the work of one request in all its tables.                    *)
THEOREM SitesWhole == Spec => []SiteIsOneRequest
<1>1. CatalogueInv => SiteIsOneRequest
  BY DEF CatalogueInv
<1>. QED BY <1>1, CatalogueInvariant, PTL
=============================================================================
