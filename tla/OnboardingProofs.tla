-------------------------- MODULE OnboardingProofs --------------------------
(***************************************************************************)
(* What holds of the accounts and of the pages that create a session, for  *)
(* any number of tabs, requests, addresses, names, wallets, challenges and *)
(* restarts.                                                               *)
(*                                                                         *)
(* DoneIsRegistered: an account is told to one wizard, and only the token  *)
(* of its registration is ever used to name it; so all requests that may   *)
(* still name it bring the name of that wizard.  OneLoginPerChallenge: a   *)
(* challenge is noted before its login is looked up, and at most one       *)
(* request goes on with it; the note is dropped only when its time bounds  *)
(* are over, from when on nothing is claimed of it.                        *)
(***************************************************************************)
EXTENDS Onboarding, TLAPS

-----------------------------------------------------------------------------
(* The inductive invariant. *)

Asks == [naming |-> "checkName", registering |-> "register", updating |-> "updateMe",
         connecting |-> "connect", asking |-> "status", verifying |-> "verify",
         linking |-> "connect", reading |-> "me"]
InWizard == {"naming", "review", "registering", "updating", "connecting", "done"}
WithWallet == {"asking", "signing", "verifying", "linking"}
HasAccount == {"updating", "connecting", "done"}
Guarded == {"updateMe", "connect", "me"}

Open(q) == call[q].stage \in {"sent", "noted"}
Told(q, answer) == call[q].stage = "answered" /\ call[q].answer = answer

Types ==
  /\ users \in Seq(User) /\ tokens \in Seq(Token) /\ boot \in Nat
  /\ owner \in [Wallets -> 0 .. Len(users)]
  /\ revoked \subseteq DOMAIN tokens
  /\ call \in [Calls -> Call]
  /\ session \in Session
  /\ flow \in [Flows -> Flow]
  /\ away \in BOOLEAN

(* What is referred to exists. *)
References ==
  /\ \A k \in DOMAIN tokens : tokens[k].user \in DOMAIN users
  /\ session.token # 0 => session.token \in DOMAIN tokens
  /\ session.user = IF session.token = 0 THEN 0 ELSE tokens[session.token].user
  /\ \A q \in Calls :
       /\ call[q].token # 0 => call[q].token \in DOMAIN tokens
       /\ call[q].issued # 0 => call[q].issued \in DOMAIN tokens
       /\ call[q].kind \in {"register", "verify"} /\ Told(q, "yes") => call[q].issued # 0

(* A flow waits for one request, of the kind it has made. *)
Attended ==
  /\ \A q \in Calls :
       /\ call[q].stage = "free" => call[q] = NoCall
       /\ call[q].stage = "answered" => call[q].flow # None
       /\ call[q].stage = "noted" => call[q].kind = "verify"
       /\ call[q].flow # None =>
            flow[call[q].flow].pc \in Waiting /\ call[q].kind = Asks[flow[call[q].flow].pc]
  /\ \A q, p \in Calls : call[q].flow # None /\ call[q].flow = call[p].flow => q = p
  /\ \A f \in Flows : flow[f].pc \in Waiting => \E q \in Calls : call[q].flow = f

(* Forms and requests are filled in. *)
Filled ==
  /\ \A f \in Flows :
       /\ flow[f].pc \in InWizard => flow[f].email # None /\ flow[f].name # None
       /\ flow[f].pc \in WithWallet => flow[f].wallet # None
  /\ \A q \in Calls : Open(q) =>
       /\ call[q].kind = "register" =>
            /\ call[q].email # None
            /\ call[q].flow # None => call[q].email = flow[call[q].flow].email
       /\ call[q].kind = "updateMe" => call[q].name # None
       /\ call[q].kind \in {"connect", "status", "verify"} => call[q].wallet # None
       /\ call[q].kind = "verify" => call[q].challenge # 0

(* An account that was made and not told yet is nobody's.  A request that  *)
(* names an account brings the name of its wizard.                         *)
Made(q) == call[q].kind = "register" /\ Told(q, "yes")
MadeBy(q) == tokens[call[q].issued].user
GivesName(q) == call[q].kind = "updateMe" /\ call[q].stage = "sent" /\ call[q].token # 0
NamedBy(q) == tokens[call[q].token].user
Named ==
  \A f \in Flows :
    /\ flow[f].pc \notin HasAccount => flow[f].user = 0
    /\ flow[f].pc \in HasAccount =>
         flow[f].user \in DOMAIN users /\ users[flow[f].user].email = flow[f].email
    /\ flow[f].pc \in {"connecting", "done"} => users[flow[f].user].name = flow[f].name
Untold ==
  \A q \in Calls : Made(q) =>
    /\ users[MadeBy(q)].email = flow[call[q].flow].email
    /\ \A f \in Flows : flow[f].user # MadeBy(q)
    /\ \A p \in Calls : GivesName(p) => NamedBy(p) # MadeBy(q)
    /\ \A p \in Calls : Made(p) /\ MadeBy(p) = MadeBy(q) => p = q
Agreed ==
  \A q \in Calls :
    /\ GivesName(q) => \A f \in Flows : flow[f].user = NamedBy(q) => flow[f].name = call[q].name
    /\ call[q].kind = "updateMe" /\ call[q].flow # None =>
         /\ call[q].stage = "sent" => call[q].token # 0 /\ NamedBy(q) = flow[call[q].flow].user
         /\ Told(q, "yes") => users[flow[call[q].flow].user].name = flow[call[q].flow].name

(* The session is still that of a wizard that was not disturbed. *)
Undisturbed ==
  /\ \A f \in Flows : flow[f].pc = "updating" /\ flow[f].calm =>
       session.token # 0 /\ session.user = flow[f].user
  /\ WalletFollowsWizard

(* While nobody went away the tokens in use are good. *)
Staying ==
  ~away =>
    /\ revoked = {} /\ \A k \in DOMAIN tokens : tokens[k].valid
    /\ \A q \in Calls :
         /\ call[q].stage = "sent" /\ call[q].kind \in Guarded => call[q].token # 0
         /\ call[q].kind # "verify" => ~Told(q, "unauthorized")
    /\ \A f \in Flows : flow[f].pc = "updating" => session.token # 0

(* Within its time bounds a challenge is noted before it logs in, by one   *)
(* request.                                                                *)
Noted ==
  /\ \A k \in DOMAIN tokens :
       /\ tokens[k].boot <= boot
       /\ tokens[k].boot = boot /\ tokens[k].challenge \notin overdue \cup {0} =>
            tokens[k].challenge \in used
  /\ \A q \in Calls : call[q].stage = "noted" /\ call[q].challenge \notin overdue =>
       /\ call[q].challenge \in used
       /\ \A k \in DOMAIN tokens : tokens[k].boot = boot => tokens[k].challenge # call[q].challenge
       /\ \A p \in Calls :
            call[p].stage = "noted" /\ call[p].challenge = call[q].challenge => p = q
  /\ OneLoginPerChallenge

Inv ==
  /\ Types /\ References /\ Attended /\ Filled /\ Named /\ Untold /\ Agreed
  /\ Undisturbed /\ Staying /\ Noted

-----------------------------------------------------------------------------
(* Requests and their answers. *)

Replies == {"yes", "no", "unauthorized"}

(* One request becomes another. *)
Turns(q, new) ==
  /\ call' \in [Calls -> Call]
  /\ call'[q] = new
  /\ \A p \in Calls \ {q} : call'[p] = call[p]

(* What a request is for tells where its flow is, and the other way round. *)
LEMMA WaitsFor ==
  ASSUME Inv, NEW q \in Calls, call[q].flow # None
  PROVE  /\ call[q].flow \in Flows /\ call[q].stage # "free"
         /\ flow[call[q].flow].pc \in Waiting /\ call[q].kind = Asks[flow[call[q].flow].pc]
         /\ call[q].kind = "updateMe" <=> flow[call[q].flow].pc = "updating"
         /\ call[q].kind = "register" <=> flow[call[q].flow].pc = "registering"
         /\ call[q].kind = "verify" <=> flow[call[q].flow].pc = "verifying"
         /\ call[q].kind = "updateMe" =>
              /\ flow[call[q].flow].user \in DOMAIN users
              /\ users[flow[call[q].flow].user].email = flow[call[q].flow].email
<1>1. /\ call[q].flow \in Flows /\ call[q].stage # "free"
      /\ flow[call[q].flow].pc \in Waiting /\ call[q].kind = Asks[flow[call[q].flow].pc]
  BY DEF Inv, Types, Attended, Call, NoCall
<1>2. /\ call[q].kind = "updateMe" <=> flow[call[q].flow].pc = "updating"
      /\ call[q].kind = "register" <=> flow[call[q].flow].pc = "registering"
      /\ call[q].kind = "verify" <=> flow[call[q].flow].pc = "verifying"
  BY <1>1 DEF Asks, Waiting
<1>. QED BY <1>1, <1>2 DEF Inv, Named, HasAccount

LEMMA AnsweredCall ==
  ASSUME NEW c \in Call, NEW a \in Replies, NEW i \in Nat
  PROVE  /\ Answered(c, a, i) \in Call
         /\ Answered(c, a, i).flow = c.flow
         /\ c.flow = None => Answered(c, a, i) = NoCall
         /\ c.flow # None =>
              /\ Answered(c, a, i).stage = "answered" /\ Answered(c, a, i).kind = c.kind
              /\ Answered(c, a, i).answer = a /\ Answered(c, a, i).issued = i
              /\ Answered(c, a, i).token = 0
BY DEF Answered, Call, NoCall, Replies, Kinds

LEMMA NoCallFields ==
  /\ NoCall \in Call /\ NoCall.stage = "free" /\ NoCall.flow = None
  /\ NoCall.token = 0 /\ NoCall.issued = 0
BY DEF NoCall, Call

LEMMA Replied ==
  ASSUME Types, NEW q \in Calls, NEW a \in Replies, NEW i \in Nat,
         call' = [call EXCEPT ![q] = Answered(@, a, i)]
  PROVE  Turns(q, Answered(call[q], a, i))
<1>1. Answered(call[q], a, i) \in Call
  BY AnsweredCall DEF Types
<1>. QED BY <1>1 DEF Turns, Types

(* An answer that makes no account and no token. *)
LEMMA ReplyStep ==
  ASSUME Inv, NEW q \in Calls, Open(q), NEW a \in Replies,
         call' = [call EXCEPT ![q] = Answered(@, a, 0)],
         a = "yes" => call[q].kind \in {"checkName", "status", "me", "connect"},
         a = "unauthorized" => call[q].kind = "verify" \/ away,
         owner' \in [Wallets -> 0 .. Len(users)], used \subseteq used',
         UNCHANGED <<users, tokens, revoked, overdue, boot, session, flow, away>>
  PROVE  Inv'
<1>. DEFINE n == Answered(call[q], a, 0)
<1>1. Turns(q, n)
  BY Replied DEF Inv
<1>2. /\ n.flow = call[q].flow
      /\ call[q].flow = None => n = NoCall /\ n.stage = "free" /\ n.token = 0 /\ n.issued = 0
      /\ call[q].flow # None => n.stage = "answered" /\ n.kind = call[q].kind /\ n.answer = a
                                /\ n.issued = 0 /\ n.token = 0
  BY AnsweredCall, NoCallFields DEF Inv, Types
<1>. HIDE DEF n
<1>3. Types'
  BY <1>1 DEF Inv, Types, Turns
<1>4. References'
  BY <1>1, <1>2 DEF Inv, Types, References, Turns, Told
<1>5. Attended'
  BY <1>1, <1>2 DEF Inv, Attended, Turns
<1>6. Filled'
  BY <1>1, <1>2 DEF Inv, Filled, Turns, Open
<1>7. Named' /\ Untold' /\ Agreed'
  BY <1>1, <1>2 DEF Inv, Named, Untold, Agreed, Turns, Open, Made, MadeBy, GivesName, NamedBy, Told
<1>8. Undisturbed'
  BY <1>1, <1>2 DEF Inv, Undisturbed, WalletFollowsWizard, Turns
<1>9. Staying'
  BY <1>1, <1>2 DEF Inv, Staying, Turns, Told
<1>10. Noted'
  BY <1>1, <1>2 DEF Inv, Noted, OneLoginPerChallenge, SameLogin, Turns
<1>. QED BY <1>3, <1>4, <1>5, <1>6, <1>7, <1>8, <1>9, <1>10 DEF Inv

LEMMA Admitted ==
  ASSUME Inv, ~away, NEW q \in Calls, call[q].stage = "sent", call[q].kind \in Guarded
  PROVE  Admits(call[q].token)
BY DEF Inv, Types, References, Staying, Admits, Call

LEMMA Appended ==
  ASSUME NEW S, NEW s \in Seq(S), NEW e \in S
  PROVE  /\ Append(s, e) \in Seq(S) /\ Len(Append(s, e)) = Len(s) + 1
         /\ DOMAIN Append(s, e) = DOMAIN s \cup {Len(s) + 1}
         /\ Append(s, e)[Len(s) + 1] = e
         /\ \A i \in DOMAIN s : Append(s, e)[i] = s[i]
<1>1. Len(s) \in Nat /\ DOMAIN s = 1 .. Len(s)
  OBVIOUS
<1>2. Append(s, e) \in Seq(S) /\ Len(Append(s, e)) = Len(s) + 1
      /\ Append(s, e)[Len(s) + 1] = e /\ \A i \in 1 .. Len(s) : Append(s, e)[i] = s[i]
  OBVIOUS
<1>3. DOMAIN Append(s, e) = 1 .. Len(s) + 1
  BY <1>2
<1>. QED BY <1>1, <1>2, <1>3

(* A token is issued to request q. *)
TokenFor(u, n) == [user |-> u, challenge |-> n, boot |-> boot, valid |-> TRUE]
LEMMA Issued ==
  ASSUME Inv, NEW q \in Calls, Open(q), NEW u \in Nat, NEW n \in Nat, Issue(q, u, n)
  PROVE  LET l == Len(tokens) + 1
             c == Answered(call[q], "yes", l)
         IN /\ l \in Nat /\ l # 0
            /\ tokens' \in Seq(Token) /\ Len(tokens') = l
            /\ DOMAIN tokens' = DOMAIN tokens \cup {l} /\ l \notin DOMAIN tokens
            /\ tokens'[l] = TokenFor(u, n)
            /\ \A k \in DOMAIN tokens : tokens'[k] = tokens[k]
            /\ Turns(q, c)
            /\ c.flow = call[q].flow
            /\ call[q].flow = None =>
                 c = NoCall /\ c.stage = "free" /\ c.token = 0 /\ c.issued = 0
            /\ call[q].flow # None =>
                 /\ c.stage = "answered" /\ c.kind = call[q].kind /\ c.answer = "yes"
                 /\ c.issued = l /\ c.token = 0
<1>. DEFINE l == Len(tokens) + 1
<1>1. l \in Nat /\ l # 0 /\ l \notin DOMAIN tokens
  BY DEF Inv, Types
<1>2. TokenFor(u, n) \in Token
  BY DEF Inv, Types, Token, TokenFor
<1>3. tokens' = Append(tokens, TokenFor(u, n))
  BY DEF Issue, TokenFor
<1>4. /\ tokens' \in Seq(Token) /\ Len(tokens') = l
      /\ DOMAIN tokens' = DOMAIN tokens \cup {l} /\ tokens'[l] = TokenFor(u, n)
      /\ \A k \in DOMAIN tokens : tokens'[k] = tokens[k]
  BY <1>2, <1>3, Appended DEF Inv, Types
<1>5. Turns(q, Answered(call[q], "yes", l))
  BY <1>1, Replied DEF Inv, Issue, Replies
<1>6. call[q] \in Call /\ "yes" \in Replies
  BY DEF Inv, Types, Replies
<1>. HIDE DEF l
<1>. DEFINE c == Answered(call[q], "yes", l)
<1>7. /\ c.flow = call[q].flow
      /\ call[q].flow = None => c = NoCall
      /\ call[q].flow # None =>
           /\ c.stage = "answered" /\ c.kind = call[q].kind /\ c.answer = "yes"
           /\ c.issued = l /\ c.token = 0
  BY <1>1, <1>6, AnsweredCall
<1>. HIDE DEF c
<1>8. call[q].flow = None => c.stage = "free" /\ c.token = 0 /\ c.issued = 0
  BY <1>7, NoCallFields
<1>. QED BY <1>1, <1>4, <1>5, <1>7, <1>8 DEF c, l

LEMMA RegisterStep ==
  ASSUME Inv, NEW q \in Calls, Arrived(q, "register"),
         users' = Append(users, [email |-> call[q].email, name |-> None]),
         Issue(q, Len(users) + 1, 0),
         UNCHANGED <<owner, memory, session, flow, away>>
  PROVE  Inv'
<1>. DEFINE l == Len(tokens) + 1
            u == Len(users) + 1
            n == Answered(call[q], "yes", l)
<1>1. Open(q) /\ call[q].stage = "sent" /\ call[q].kind = "register"
  BY DEF Open, Arrived
<1>2. [email |-> call[q].email, name |-> None] \in User
  BY <1>1 DEF Inv, Types, Filled, User, Call
<1>3. /\ users' \in Seq(User) /\ Len(users') = u /\ u \in Nat /\ u # 0
      /\ DOMAIN users' = DOMAIN users \cup {u} /\ u \notin DOMAIN users
      /\ users'[u] = [email |-> call[q].email, name |-> None]
      /\ \A i \in DOMAIN users : users'[i] = users[i]
  BY <1>2, Appended DEF Inv, Types
<1>4. /\ l \in Nat /\ l # 0
      /\ tokens' \in Seq(Token) /\ Len(tokens') = l
      /\ DOMAIN tokens' = DOMAIN tokens \cup {l} /\ l \notin DOMAIN tokens
      /\ tokens'[l] = TokenFor(u, 0)
      /\ \A k \in DOMAIN tokens : tokens'[k] = tokens[k]
      /\ Turns(q, n)
  BY <1>1, <1>3, Issued
<1>5. /\ n.flow = call[q].flow
      /\ call[q].flow = None => n = NoCall /\ n.stage = "free" /\ n.token = 0 /\ n.issued = 0
      /\ call[q].flow # None => n.stage = "answered" /\ n.kind = "register" /\ n.answer = "yes"
                                /\ n.issued = l /\ n.token = 0
  BY <1>1, <1>3, Issued
<1>6. /\ TokenFor(u, 0).user = u /\ TokenFor(u, 0).challenge = 0
      /\ TokenFor(u, 0).boot = boot /\ TokenFor(u, 0).valid = TRUE
  BY DEF TokenFor
<1>. HIDE DEF n, l, u
<1>7. Types'
  BY <1>3, <1>4 DEF Inv, Types, Turns, memory, l, u
<1>8. References'
  <2>1. \A k \in DOMAIN tokens' : tokens'[k].user \in DOMAIN users'
    BY <1>3, <1>4, <1>6 DEF Inv, References
  <2>2. /\ session'.token # 0 => session'.token \in DOMAIN tokens'
        /\ session'.user = IF session'.token = 0 THEN 0 ELSE tokens'[session'.token].user
    BY <1>4 DEF Inv, References
  <2>3. \A p \in Calls :
          /\ call'[p].token # 0 => call'[p].token \in DOMAIN tokens'
          /\ call'[p].issued # 0 => call'[p].issued \in DOMAIN tokens'
    BY <1>4, <1>5 DEF Inv, References, Turns
  <2>4. \A p \in Calls : call'[p].kind \in {"register", "verify"} /\ Told(p, "yes")'
                            => call'[p].issued # 0
    BY <1>4, <1>5 DEF Inv, Attended, References, Turns, Told
  <2>. QED BY <2>1, <2>2, <2>3, <2>4 DEF References
<1>9. Attended'
  <2>1. call'[q].flow = call[q].flow /\ \A p \in Calls \ {q} : call'[p] = call[p]
    BY <1>4, <1>5 DEF Turns
  <2>2. \A p \in Calls :
       /\ call'[p].stage = "free" => call'[p] = NoCall
       /\ call'[p].stage = "answered" => call'[p].flow # None
       /\ call'[p].stage = "noted" => call'[p].kind = "verify"
       /\ call'[p].flow # None => call'[p].kind = call[p].kind
    BY <1>1, <1>4, <1>5 DEF Inv, Attended, Turns
  <2>3. \A p \in Calls : call'[p].flow = call[p].flow
    BY <2>1
  <2>. QED BY <2>2, <2>3 DEF Inv, Attended
<1>10. Filled'
  BY <1>4, <1>5 DEF Inv, Filled, Turns, Open
<1>11. Named' /\ Untold' /\ Agreed'
  <2>1. \A p \in Calls : Made(p) => MadeBy(p) \in DOMAIN users /\ MadeBy(p)' = MadeBy(p)
    BY <1>1, <1>4 DEF Inv, References, Made, MadeBy, Told, Turns
  <2>2. \A p \in Calls : GivesName(p) => NamedBy(p) \in DOMAIN users
    BY DEF Inv, References, GivesName, NamedBy
  <2>3. ~GivesName(q)' /\ (Made(q)' => call[q].flow # None /\ MadeBy(q)' = u)
    BY <1>4, <1>5, <1>6 DEF Made, MadeBy, GivesName, Told, Turns
  <2>4. \A p \in Calls \ {q} :
          /\ Made(p)' <=> Made(p)
          /\ GivesName(p)' <=> GivesName(p)
          /\ GivesName(p) => NamedBy(p)' = NamedBy(p)
    BY <1>4 DEF Inv, References, Made, GivesName, NamedBy, Told, Turns
  <2>5. Named' /\ \A f \in Flows : flow[f].user # u
    BY <1>3 DEF Inv, Named, memory, HasAccount
  <2>6. Made(q)' => users'[MadeBy(q)'].email = flow'[call'[q].flow].email
    BY <1>1, <1>3, <1>4, <1>5, <2>3 DEF Inv, Filled, Turns, Open
  <2>7. Untold'
    BY <1>3, <1>4, <2>1, <2>2, <2>3, <2>4, <2>5, <2>6 DEF Inv, Untold, Turns, memory
  <2>8. Agreed'
    <3>1. \A p \in Calls : GivesName(p)' =>
            \A f \in Flows : flow'[f].user = NamedBy(p)' => flow'[f].name = call'[p].name
      BY <1>4, <2>3, <2>4 DEF Inv, Agreed, Turns
    <3>2. \A p \in Calls : call'[p].kind = "updateMe" /\ call'[p].flow # None =>
            /\ p # q /\ call'[p] = call[p] /\ flow[call[p].flow].user \in DOMAIN users
            /\ call[p].stage = "sent" /\ call[p].token # 0 => NamedBy(p)' = NamedBy(p)
      BY <1>4, <1>5, <2>4, WaitsFor DEF Turns, GivesName
    <3>. QED BY <1>3, <3>1, <3>2 DEF Inv, Agreed, Told
  <2>. QED BY <2>5, <2>7, <2>8
<1>12. Undisturbed'
  <2>1. \A p \in Calls : call'[p].stage = "sent" => p # q /\ call'[p] = call[p]
    BY <1>4, <1>5 DEF Turns
  <2>2. \A p \in Calls : call[p].token # 0 => tokens'[call[p].token] = tokens[call[p].token]
    BY <1>4 DEF Inv, References
  <2>3. WalletFollowsWizard'
    BY <2>1, <2>2 DEF Inv, Undisturbed, WalletFollowsWizard
  <2>. QED BY <2>3 DEF Inv, Undisturbed
<1>13. Staying'
  BY <1>1, <1>4, <1>5, <1>6 DEF Inv, Staying, Turns, Told, memory, Guarded
<1>14. Noted'
  <2>1. boot \in Nat /\ boot <= boot
    BY DEF Inv, Types
  <2>2. \A k \in DOMAIN tokens' :
          /\ tokens'[k].boot <= boot'
          /\ tokens'[k].boot = boot' /\ tokens'[k].challenge \notin overdue' \cup {0} =>
               tokens'[k].challenge \in used'
    BY <1>4, <1>6, <2>1 DEF Inv, Noted, memory
  <2>3. \A p \in Calls : call'[p].stage = "noted" =>
       /\ p # q /\ call[p].stage = "noted" /\ call'[p] = call[p]
       /\ call'[p].challenge \notin overdue' =>
            \A k \in DOMAIN tokens' : tokens'[k].boot = boot' => tokens'[k].challenge # call'[p].challenge
    BY <1>4, <1>6, <1>5 DEF Inv, Noted, Turns, memory, Attended, Filled, Open
  <2>4. OneLoginPerChallenge'
    BY <1>4, <1>6 DEF Inv, Noted, OneLoginPerChallenge, SameLogin, memory
  <2>. QED BY <2>2, <2>3, <2>4 DEF Inv, Noted, memory
<1>. QED BY <1>7, <1>8, <1>9, <1>10, <1>11, <1>12, <1>13, <1>14 DEF Inv

LEMMA LoginStep ==
  ASSUME Inv, NEW q \in Calls, call[q].stage = "noted", owner[call[q].wallet] # 0,
         Issue(q, owner[call[q].wallet], call[q].challenge),
         UNCHANGED <<users, owner, memory, session, flow, away>>
  PROVE  Inv'
<1>. DEFINE l == Len(tokens) + 1
            u == owner[call[q].wallet]
            m == call[q].challenge
            n == Answered(call[q], "yes", l)
<1>1. Open(q) /\ call[q].kind = "verify" /\ call[q].wallet \in Wallets /\ m # 0 /\ m \in Nat
  BY DEF Inv, Types, Attended, Filled, Open, Call
<1>2. u \in Nat /\ u \in DOMAIN users
  BY <1>1 DEF Inv, Types
<1>4. /\ l \in Nat /\ l # 0
      /\ tokens' \in Seq(Token) /\ Len(tokens') = l
      /\ DOMAIN tokens' = DOMAIN tokens \cup {l} /\ l \notin DOMAIN tokens
      /\ tokens'[l] = TokenFor(u, m)
      /\ \A k \in DOMAIN tokens : tokens'[k] = tokens[k]
      /\ Turns(q, n)
  BY <1>1, <1>2, Issued
<1>5. /\ n.flow = call[q].flow
      /\ call[q].flow = None => n = NoCall /\ n.stage = "free" /\ n.token = 0 /\ n.issued = 0
      /\ call[q].flow # None => n.stage = "answered" /\ n.kind = "verify" /\ n.answer = "yes"
                                /\ n.issued = l /\ n.token = 0
  BY <1>1, <1>2, Issued
<1>6. /\ TokenFor(u, m).user = u /\ TokenFor(u, m).challenge = m
      /\ TokenFor(u, m).boot = boot /\ TokenFor(u, m).valid = TRUE
  BY DEF TokenFor
<1>. HIDE DEF n, l, u
<1>7. Types'
  BY <1>4 DEF Inv, Types, Turns, memory, l
<1>8. References'
  <2>1. \A k \in DOMAIN tokens' : tokens'[k].user \in DOMAIN users'
    BY <1>2, <1>4, <1>6 DEF Inv, References
  <2>2. /\ session'.token # 0 => session'.token \in DOMAIN tokens'
        /\ session'.user = IF session'.token = 0 THEN 0 ELSE tokens'[session'.token].user
    BY <1>4 DEF Inv, References
  <2>3. \A p \in Calls :
          /\ call'[p].token # 0 => call'[p].token \in DOMAIN tokens'
          /\ call'[p].issued # 0 => call'[p].issued \in DOMAIN tokens'
    BY <1>4, <1>5 DEF Inv, References, Turns
  <2>4. \A p \in Calls : call'[p].kind \in {"register", "verify"} /\ Told(p, "yes")'
                            => call'[p].issued # 0
    BY <1>4, <1>5 DEF Inv, Attended, References, Turns, Told
  <2>. QED BY <2>1, <2>2, <2>3, <2>4 DEF References
<1>9. Attended'
  BY <1>1, <1>4, <1>5 DEF Inv, Attended, Turns
<1>10. Filled'
  BY <1>4, <1>5 DEF Inv, Filled, Turns, Open
<1>11. Named' /\ Untold' /\ Agreed'
  <2>1. \A p \in Calls : Made(p)' => p # q /\ Made(p) /\ MadeBy(p)' = MadeBy(p)
    BY <1>1, <1>4, <1>5 DEF Inv, References, Made, MadeBy, Told, Turns, Open
  <2>2. \A p \in Calls : GivesName(p)' => p # q /\ GivesName(p) /\ NamedBy(p)' = NamedBy(p)
    BY <1>1, <1>4, <1>5 DEF Inv, References, GivesName, NamedBy, Turns
  <2>3. Named'
    BY DEF Inv, Named
  <2>4. Untold'
    BY <1>4, <2>1, <2>2 DEF Inv, Untold, Turns
  <2>5. Agreed'
    BY <1>4, <1>5, <2>2 DEF Inv, Agreed, Turns, Told, GivesName, NamedBy, References
  <2>. QED BY <2>3, <2>4, <2>5
<1>12. Undisturbed'
  BY <1>4, <1>5 DEF Inv, References, Undisturbed, WalletFollowsWizard, Turns
<1>13. Staying'
  BY <1>1, <1>4, <1>5, <1>6 DEF Inv, Staying, Turns, Told, memory, Guarded
<1>14. Noted'
  <2>1. boot \in Nat /\ boot <= boot
    BY DEF Inv, Types
  <2>2. \A k \in DOMAIN tokens' :
          /\ tokens'[k].boot <= boot'
          /\ tokens'[k].boot = boot' /\ tokens'[k].challenge \notin overdue' \cup {0} =>
               tokens'[k].challenge \in used'
    BY <1>1, <1>4, <1>6, <2>1 DEF Inv, Noted, memory
  <2>3. \A p \in Calls : call'[p].stage = "noted" =>
       /\ p # q /\ call[p].stage = "noted" /\ call'[p] = call[p]
       /\ call'[p].challenge \notin overdue' =>
            \A k \in DOMAIN tokens' : tokens'[k].boot = boot' => tokens'[k].challenge # call'[p].challenge
    BY <1>1, <1>4, <1>6, <1>5 DEF Inv, Noted, Turns, memory, Attended, Filled, Open
  <2>4. OneLoginPerChallenge'
    BY <1>1, <1>4, <1>6 DEF Inv, Noted, OneLoginPerChallenge, SameLogin, memory
  <2>. QED BY <2>2, <2>3, <2>4 DEF Inv, Noted, memory
<1>. QED BY <1>7, <1>8, <1>9, <1>10, <1>11, <1>12, <1>13, <1>14 DEF Inv

LEMMA OneUserChanges ==
  ASSUME NEW s \in Seq(User), NEW u \in DOMAIN s, NEW m \in Names
  PROVE  LET t == [s EXCEPT ![u].name = m]
         IN /\ t \in Seq(User) /\ Len(t) = Len(s) /\ DOMAIN t = DOMAIN s
            /\ \A i \in DOMAIN s : t[i].email = s[i].email
            /\ \A i \in DOMAIN s : i # u => t[i] = s[i]
            /\ t[u].name = m
<1>. DEFINE e == [s[u] EXCEPT !.name = m]
            t == [s EXCEPT ![u] = e]
<1>1. s[u] \in User
  OBVIOUS
<1>2. e \in User /\ e.name = m /\ e.email = s[u].email
  BY <1>1 DEF User
<1>. HIDE DEF e
<1>3. t \in Seq(User) /\ Len(t) = Len(s) /\ DOMAIN t = DOMAIN s
  BY <1>2
<1>4. t[u] = e /\ \A i \in DOMAIN s : i # u => t[i] = s[i]
  OBVIOUS
<1>. HIDE DEF t
<1>5. \A i \in DOMAIN s : t[i].email = s[i].email
  BY <1>2, <1>4
<1>6. t = [s EXCEPT ![u].name = m]
  BY DEF t, e
<1>. QED BY <1>2, <1>3, <1>4, <1>5, <1>6

(* The name of account u is stored. *)
LEMMA UpdateStep ==
  ASSUME Inv, NEW q \in Calls, Arrived(q, "updateMe"), call[q].token # 0,
         NEW u, u = NamedBy(q),
         users' \in Seq(User), Len(users') = Len(users), DOMAIN users' = DOMAIN users,
         \A i \in DOMAIN users : users'[i].email = users[i].email,
         \A i \in DOMAIN users : i # u => users'[i] = users[i],
         users'[u].name = call[q].name, Answer(q, "yes"),
         UNCHANGED <<owner, tokens, memory, session, flow, away>>
  PROVE  Inv'
<1>. DEFINE n == Answered(call[q], "yes", 0)
<1>1. Open(q) /\ call[q].stage = "sent" /\ call[q].kind = "updateMe" /\ call[q].token # 0
  BY DEF Open, Arrived
<1>2. u \in DOMAIN users /\ GivesName(q)
  BY <1>1 DEF Inv, References, NamedBy, GivesName
<1>6. /\ users' \in Seq(User) /\ Len(users') = Len(users) /\ DOMAIN users' = DOMAIN users
      /\ \A i \in DOMAIN users : users'[i].email = users[i].email
      /\ \A i \in DOMAIN users : i # u => users'[i] = users[i]
      /\ users'[u].name = call[q].name
  OBVIOUS
<1>7. Turns(q, n)
  BY Replied DEF Inv, Answer, Replies
<1>8. /\ n.flow = call[q].flow
      /\ call[q].flow = None => n = NoCall /\ n.stage = "free" /\ n.token = 0 /\ n.issued = 0
      /\ call[q].flow # None => n.stage = "answered" /\ n.kind = "updateMe" /\ n.answer = "yes"
                                /\ n.issued = 0 /\ n.token = 0
  <2>1. call[q] \in Call /\ "yes" \in Replies /\ 0 \in Nat
    BY DEF Inv, Types, Replies
  <2>. QED BY <1>1, <2>1, AnsweredCall, NoCallFields
<1>. HIDE DEF n
<1>9. Types'
  BY <1>6, <1>7 DEF Inv, Types, Turns, memory
<1>10. References'
  BY <1>6, <1>7, <1>8 DEF Inv, References, Turns, Told
<1>11. Attended'
  BY <1>1, <1>7, <1>8 DEF Inv, Attended, Turns
<1>12. Filled'
  BY <1>7, <1>8 DEF Inv, Filled, Turns, Open
<1>13. Named'
  <2>1. \A f \in Flows : flow[f].user = u => flow[f].name = call[q].name
    BY <1>2 DEF Inv, Agreed
  <2>2. \A f \in Flows : flow[f].pc \in {"connecting", "done"} =>
          users'[flow[f].user].name = flow[f].name
    BY <1>6, <2>1 DEF Inv, Named, HasAccount
  <2>3. \A f \in Flows : flow[f].pc \in HasAccount =>
          flow[f].user \in DOMAIN users' /\ users'[flow[f].user].email = flow[f].email
    BY <1>6 DEF Inv, Named
  <2>. QED BY <2>2, <2>3 DEF Inv, Named
<1>14. Untold' /\ Agreed'
  <2>1. \A p \in Calls : Made(p)' => p # q /\ Made(p) /\ MadeBy(p)' = MadeBy(p) /\ MadeBy(p) \in DOMAIN users
    BY <1>1, <1>7, <1>8 DEF Inv, References, Made, MadeBy, Told, Turns
  <2>2. \A p \in Calls : GivesName(p)' => p # q /\ GivesName(p) /\ NamedBy(p)' = NamedBy(p)
    BY <1>1, <1>7, <1>8 DEF Inv, References, GivesName, NamedBy, Turns
  <2>3. Untold'
    BY <1>6, <1>7, <2>1, <2>2 DEF Inv, Untold, Turns
  <2>4. \A p \in Calls : GivesName(p)' =>
          \A f \in Flows : flow'[f].user = NamedBy(p)' => flow'[f].name = call'[p].name
    BY <1>7, <2>2 DEF Inv, Agreed, Turns
  <2>5. \A p \in Calls \ {q} : call[p].kind = "updateMe" /\ call[p].flow # None =>
          /\ flow[call[p].flow].user \in DOMAIN users
          /\ flow[call[p].flow].user = u => flow[call[p].flow].name = call[q].name
    BY <1>2, WaitsFor DEF Inv, Agreed
  <2>6. call[q].flow # None =>
          flow[call[q].flow].user = u /\ flow[call[q].flow].name = call[q].name
    BY <1>1, <1>2, WaitsFor DEF Inv, Agreed
  <2>7. \A p \in Calls : call'[p].kind = "updateMe" /\ call'[p].flow # None =>
          /\ call'[p].stage = "sent" =>
               call'[p].token # 0 /\ NamedBy(p)' = flow'[call'[p].flow].user
          /\ Told(p, "yes")' => users'[flow'[call'[p].flow].user].name = flow'[call'[p].flow].name
    <3>1. \A r \in Calls \ {q} : call'[r] = call[r]
      BY <1>7 DEF Turns
    <3>2. \A r \in Calls \ {q} : call[r].kind = "updateMe" /\ call[r].flow # None =>
            /\ call[r].stage = "sent" =>
                 call[r].token # 0 /\ NamedBy(r)' = flow[call[r].flow].user
            /\ Told(r, "yes") => users'[flow[call[r].flow].user].name = flow[call[r].flow].name
      BY <1>6, <2>5, <3>1 DEF Inv, Agreed, NamedBy
    <3>3. call'[q].flow # None => /\ call'[q].stage # "sent"
                                  /\ users'[flow[call'[q].flow].user].name = flow[call'[q].flow].name
      BY <1>6, <1>7, <1>8, <2>6 DEF Turns
    <3>. QED BY <3>1, <3>2, <3>3 DEF Told
  <2>. QED BY <2>3, <2>4, <2>7 DEF Agreed
<1>15. Undisturbed'
  BY <1>7, <1>8 DEF Inv, Undisturbed, WalletFollowsWizard, Turns
<1>16. Staying'
  BY <1>1, <1>7, <1>8 DEF Inv, Staying, Turns, Told, memory, Guarded
<1>17. Noted'
  BY <1>1, <1>7, <1>8 DEF Inv, Noted, OneLoginPerChallenge, SameLogin, Turns, memory
<1>. QED
  BY <1>9, <1>10, <1>11, <1>12, <1>13, <1>14, <1>15, <1>16, <1>17 DEF Inv

LEMMA NoteStep ==
  ASSUME Inv, NEW q \in Calls, Arrived(q, "verify"), call[q].challenge \notin used,
         call' = [call EXCEPT ![q].stage = "noted"], used' = used \cup {call[q].challenge},
         UNCHANGED <<users, owner, tokens, revoked, overdue, boot, session, flow, away>>
  PROVE  Inv'
<1>1. call[q].stage = "sent" /\ call[q].kind = "verify" /\ call[q] \in Call /\ Open(q)
  BY DEF Arrived, Inv, Types, Open
<1>. DEFINE n == [call[q] EXCEPT !.stage = "noted"]
<1>2. /\ n \in Call /\ n.stage = "noted" /\ n.kind = "verify" /\ n.flow = call[q].flow
      /\ n.token = call[q].token /\ n.issued = call[q].issued /\ n.wallet = call[q].wallet
      /\ n.challenge = call[q].challenge
  BY <1>1 DEF Call
<1>3. Turns(q, n)
  BY <1>2 DEF Turns, Inv, Types
<1>. HIDE DEF n
<1>4. Types' /\ References' /\ Attended' /\ Filled'
  BY <1>1, <1>2, <1>3 DEF Inv, Types, References, Attended, Filled, Turns, Told, Open
<1>5. Named' /\ Untold' /\ Agreed'
  BY <1>1, <1>2, <1>3
  DEF Inv, Named, Untold, Agreed, Turns, Made, MadeBy, GivesName, NamedBy, Told
<1>6. Undisturbed' /\ Staying'
  BY <1>1, <1>2, <1>3 DEF Inv, Undisturbed, WalletFollowsWizard, Staying, Turns, Told
<1>7. Noted'
  BY <1>1, <1>2, <1>3 DEF Inv, Noted, OneLoginPerChallenge, SameLogin, Turns, Filled, Open
<1>. QED BY <1>4, <1>5, <1>6, <1>7 DEF Inv

(* A request is served for nobody: besides the one somebody waits for, or  *)
(* after that one was answered.                                            *)
LEMMA CopyShape ==
  ASSUME Inv, NEW q \in Calls, NEW p \in Calls, call[q].stage = "sent", call[p].stage = "free",
         NEW n \in Call,
         call' = [call EXCEPT ![p] = [call[q] EXCEPT !.flow = None], ![q] = n]
  PROVE  /\ p # q
         /\ call' \in [Calls -> Call] /\ call'[p] = [call[q] EXCEPT !.flow = None] /\ call'[q] = n
         /\ \A r \in Calls : r # p /\ r # q => call'[r] = call[r]
<1>1. call[q] \in Call /\ p # q
  BY DEF Inv, Types
<1>2. [call[q] EXCEPT !.flow = None] \in Call
  BY <1>1 DEF Call
<1>. QED BY <1>1, <1>2 DEF Inv, Types

LEMMA CopyStep ==
  ASSUME Inv, NEW q \in Calls, NEW p \in Calls, call[q].stage = "sent", call[p].stage = "free",
         NEW n \in Call, n = call[q] \/ n = Answered(call[q], "no", 0), p # q,
         call' \in [Calls -> Call], call'[p] = [call[q] EXCEPT !.flow = None], call'[q] = n,
         \A r \in Calls : r # p /\ r # q => call'[r] = call[r],
         UNCHANGED <<users, owner, tokens, memory, session, flow, away>>
  PROVE  Inv'
<1>. DEFINE c == [call[q] EXCEPT !.flow = None]
<1>1. call[q] \in Call /\ p # q /\ Open(q)
  BY DEF Inv, Types, Open
<1>2. /\ c \in Call /\ c.flow = None /\ c.stage = "sent" /\ c.kind = call[q].kind
      /\ c.token = call[q].token /\ c.issued = call[q].issued /\ c.wallet = call[q].wallet
      /\ c.challenge = call[q].challenge /\ c.email = call[q].email /\ c.name = call[q].name
  BY <1>1 DEF Call
<1>3. /\ n.flow = call[q].flow
      /\ \/ n = call[q]
         \/ call[q].flow = None /\ n = NoCall /\ n.stage = "free" /\ n.token = 0 /\ n.issued = 0
         \/ call[q].flow # None /\ n.stage = "answered" /\ n.kind = call[q].kind
            /\ n.answer = "no" /\ n.issued = 0 /\ n.token = 0
  <2>1. "no" \in Replies /\ 0 \in Nat
    BY DEF Replies
  <2>. QED BY <1>1, <2>1, AnsweredCall, NoCallFields
<1>4. /\ call' \in [Calls -> Call] /\ call'[p] = c /\ call'[q] = n
      /\ \A r \in Calls : r # p /\ r # q => call'[r] = call[r]
  OBVIOUS
<1>. HIDE DEF c
<1>5. Types' /\ References'
  <2>1. Types'
    BY <1>4 DEF Inv, Types, memory
  <2>2. References'
    BY <1>1, <1>2, <1>3, <1>4 DEF Inv, References, Told
  <2>. QED BY <2>1, <2>2
<1>6. Attended'
  <2>1. call[p].flow = None
    BY NoCallFields DEF Inv, Attended
  <2>2. \A r \in Calls : call'[r].flow # None => r # p /\ call'[r].flow = call[r].flow /\ call'[r].kind = call[r].kind
    BY <1>2, <1>3, <1>4
  <2>3. \A r \in Calls : call[r].flow # None => call'[r].flow = call[r].flow
    BY <1>3, <1>4, <2>1
  <2>4. \A r \in Calls :
       /\ call'[r].stage = "free" => call'[r] = NoCall
       /\ call'[r].stage = "answered" => call'[r].flow # None
       /\ call'[r].stage = "noted" => call'[r].kind = "verify"
    BY <1>2, <1>3, <1>4 DEF Inv, Attended
  <2>5. \A f \in Flows : flow[f].pc \in Waiting => \E r \in Calls : call'[r].flow = f
    <3>1. \A f \in Flows : f # None
      BY NoneIsNothing
    <3>. QED BY <2>3, <3>1 DEF Inv, Attended
  <2>6. \A r, t \in Calls : call'[r].flow # None /\ call'[r].flow = call'[t].flow => r = t
    BY <2>2 DEF Inv, Attended
  <2>7. \A r \in Calls : call'[r].flow # None =>
          /\ flow[call'[r].flow].pc \in Waiting
          /\ call'[r].kind = Asks[flow[call'[r].flow].pc]
    BY <2>2 DEF Inv, Attended
  <2>. QED BY <2>4, <2>5, <2>6, <2>7 DEF Attended
<1>7. Filled'
  BY <1>1, <1>2, <1>3, <1>4 DEF Inv, Filled, Open
<1>8. Named' /\ Untold' /\ Agreed'
  BY <1>1, <1>2, <1>3, <1>4
  DEF Inv, Named, Untold, Agreed, Made, MadeBy, GivesName, NamedBy, Told
<1>9. Undisturbed'
  BY <1>1, <1>2, <1>3, <1>4, NoneIsNothing DEF Inv, Undisturbed, WalletFollowsWizard
<1>10. Staying'
  BY <1>1, <1>2, <1>3, <1>4 DEF Inv, Staying, Told, memory
<1>11. Noted'
  BY <1>1, <1>2, <1>3, <1>4 DEF Inv, Noted, OneLoginPerChallenge, SameLogin, memory
<1>. QED BY <1>5, <1>6, <1>7, <1>8, <1>9, <1>10, <1>11 DEF Inv

LEMMA RestartStep ==
  ASSUME Inv, Restart, away', UNCHANGED <<session, flow>>
  PROVE  Inv'
<1>1. /\ boot \in Nat /\ boot' = boot + 1 /\ boot' \in Nat /\ revoked' = {} /\ used' = {}
      /\ UNCHANGED <<users, owner, overdue, session, flow>> /\ away'
  BY DEF Restart, Inv, Types
<1>2. /\ tokens' \in Seq(Token) /\ DOMAIN tokens' = DOMAIN tokens
      /\ \A k \in DOMAIN tokens :
           /\ tokens'[k].user = tokens[k].user
           /\ tokens'[k].challenge = tokens[k].challenge
           /\ tokens'[k].boot = tokens[k].boot
  <2>1. tokens \in Seq(Token) /\ DOMAIN tokens = 1 .. Len(tokens) /\ Len(tokens) \in Nat
    BY DEF Inv, Types
  <2>2. tokens' = [k \in 1 .. Len(tokens) |-> [tokens[k] EXCEPT !.valid = @ /\ FixedSecret]]
    BY <2>1 DEF Restart
  <2>3. \A k \in 1 .. Len(tokens) : tokens[k] \in Token
    BY <2>1
  <2>4. \A k \in 1 .. Len(tokens) : (tokens[k].valid /\ FixedSecret) \in BOOLEAN
    BY Zenon
  <2>5. \A k \in 1 .. Len(tokens) :
          /\ tokens'[k] \in Token /\ tokens'[k].user = tokens[k].user
          /\ tokens'[k].challenge = tokens[k].challenge /\ tokens'[k].boot = tokens[k].boot
    <3>. SUFFICES ASSUME NEW k \in 1 .. Len(tokens)
                  PROVE  /\ tokens'[k] \in Token /\ tokens'[k].user = tokens[k].user
                         /\ tokens'[k].challenge = tokens[k].challenge
                         /\ tokens'[k].boot = tokens[k].boot
      OBVIOUS
    <3>1. PICK b : b = (tokens[k].valid /\ FixedSecret)
      OBVIOUS
    <3>2. b \in BOOLEAN
      BY <2>4, <3>1
    <3>3. tokens'[k] = [tokens[k] EXCEPT !.valid = b]
      BY <2>2, <3>1, Zenon
    <3>. QED BY <2>3, <3>2, <3>3 DEF Token
  <2>6. tokens' \in [1 .. Len(tokens) -> Token]
    BY <2>2, <2>5
  <2>7. tokens' \in Seq(Token)
    BY <2>1, <2>6
  <2>. QED BY <2>1, <2>5, <2>6, <2>7
<1>3. /\ call' \in [Calls -> Call]
      /\ \A q \in Calls : ~Open(q) => call'[q] = call[q]
      /\ \A q \in Calls : Open(q) =>
           /\ call'[q].flow = call[q].flow
           /\ call[q].flow = None => call'[q] = NoCall /\ call'[q].stage = "free"
                                     /\ call'[q].token = 0 /\ call'[q].issued = 0
           /\ call[q].flow # None =>
                /\ call'[q].stage = "answered" /\ call'[q].kind = call[q].kind
                /\ call'[q].answer = "no" /\ call'[q].issued = 0 /\ call'[q].token = 0
  <2>1. call' = [q \in Calls |-> IF Open(q) THEN Answered(call[q], "no", 0) ELSE call[q]]
    BY DEF Restart, Open
  <2>2. "no" \in Replies /\ 0 \in Nat /\ \A q \in Calls : call[q] \in Call
    BY DEF Inv, Types, Replies
  <2>3. \A q \in Calls : Answered(call[q], "no", 0) \in Call
    BY <2>2, AnsweredCall
  <2>4. \A q \in Calls :
          /\ Open(q) => call'[q] = Answered(call[q], "no", 0)
          /\ ~Open(q) => call'[q] = call[q]
    BY <2>1
  <2>5. call' \in [Calls -> Call]
    BY <2>1, <2>2, <2>3
  <2>. QED BY <2>2, <2>4, <2>5, AnsweredCall, NoCallFields
<1>4. Types'
  <2>1. owner' \in [Wallets -> 0 .. Len(users')] /\ users' \in Seq(User)
    BY <1>1 DEF Inv, Types
  <2>. QED BY <1>1, <1>2, <1>3, <2>1 DEF Inv, Types
<1>5. References'
  BY <1>1, <1>2, <1>3 DEF Inv, References, Told, Open
<1>6. Attended'
  BY <1>1, <1>3, NoCallFields DEF Inv, Attended, Open
<1>7. Filled'
  BY <1>1, <1>3 DEF Inv, Filled, Open
<1>8. Named' /\ Untold' /\ Agreed'
  <2>1. \A p \in Calls : Made(p)' => Made(p) /\ MadeBy(p)' = MadeBy(p) /\ call'[p] = call[p]
    BY <1>2, <1>3 DEF Inv, References, Made, MadeBy, Told, Open
  <2>2. \A p \in Calls : ~GivesName(p)'
    BY <1>3 DEF GivesName, Open
  <2>3. \A p \in Calls :
          /\ call'[p].stage # "sent"
          /\ Told(p, "yes")' => call'[p] = call[p] /\ Told(p, "yes")
    BY <1>3 DEF Told, Open
  <2>. QED BY <1>1, <2>1, <2>2, <2>3 DEF Inv, Named, Untold, Agreed
<1>9. Undisturbed'
  BY <1>1, <1>3 DEF Inv, Undisturbed, WalletFollowsWizard, Open
<1>10. Staying'
  BY <1>1 DEF Staying
<1>11. Noted'
  <2>1. \A k \in DOMAIN tokens : tokens[k].boot \in Nat /\ tokens[k].boot <= boot
    <3>1. \A k \in DOMAIN tokens : tokens[k] \in Token
      BY DEF Inv, Types
    <3>. QED BY <3>1 DEF Inv, Noted, Token
  <2>2. \A k \in DOMAIN tokens : tokens'[k].boot <= boot' /\ tokens'[k].boot # boot'
    BY <1>1, <1>2, <2>1
  <2>3. \A q \in Calls : call'[q].stage # "noted"
    BY <1>3 DEF Open
  <2>4. OneLoginPerChallenge'
    BY <1>1, <1>2 DEF Inv, Noted, OneLoginPerChallenge, SameLogin
  <2>. QED BY <1>2, <2>2, <2>3, <2>4 DEF Noted
<1>. QED BY <1>4, <1>5, <1>6, <1>7, <1>8, <1>9, <1>10, <1>11 DEF Inv

LEMMA LogoutStep ==
  ASSUME Inv, NEW k \in DOMAIN tokens, Logout(k), away', UNCHANGED <<session, flow>>
  PROVE  Inv'
<1>1. /\ revoked' \subseteq DOMAIN tokens /\ away'
      /\ UNCHANGED <<users, owner, tokens, used, overdue, boot, call, session, flow>>
  BY DEF Logout, Inv, Types
<1>2. Types' /\ References' /\ Attended' /\ Filled' /\ Staying' /\ Noted'
  BY <1>1 DEF Inv, Types, References, Attended, Filled, Staying, Noted, Told, Open, OneLoginPerChallenge, SameLogin
<1>3. Named' /\ Untold' /\ Agreed' /\ Undisturbed'
  BY <1>1 DEF Inv, Named, Untold, Agreed, Undisturbed, WalletFollowsWizard, Told, Made, MadeBy,
              GivesName, NamedBy
<1>. QED BY <1>2, <1>3 DEF Inv

(* Time passes: what is noted, or forgotten, of a challenge whose time     *)
(* bounds are over no longer matters.                                      *)
LEMMA PassesStep ==
  ASSUME Inv, Passes, UNCHANGED <<session, flow, away>>
  PROVE  Inv'
<1>1. PICK n \in 1 .. MaxChallenges : Expire(n) \/ ForgetChallenge(n)
  BY DEF Passes
<1>2. /\ UNCHANGED <<users, owner, tokens, revoked, boot, call, session, flow, away>>
      /\ overdue \subseteq overdue' /\ used' \subseteq used
      /\ \A c \in used : c \notin overdue' => c \in used'
  BY <1>1 DEF Expire, ForgetChallenge
<1>3. Types' /\ References'
  BY <1>2 DEF Inv, Types, References, Told
<1>4. Attended' /\ Filled'
  BY <1>2 DEF Inv, Attended, Filled, Open
<1>5. Named' /\ Untold' /\ Agreed'
  BY <1>2 DEF Inv, Named, Untold, Agreed, Made, MadeBy, GivesName, NamedBy, Told
<1>6. Undisturbed' /\ Staying'
  BY <1>2 DEF Inv, Undisturbed, WalletFollowsWizard, Staying, Told
<1>7. Noted'
  BY <1>2 DEF Inv, Noted, OneLoginPerChallenge, SameLogin
<1>. QED BY <1>3, <1>4, <1>5, <1>6, <1>7 DEF Inv

(* A step of the server. *)
LEMMA ServerStep ==
  ASSUME Inv, NEW q \in Calls, Server(q), UNCHANGED <<session, flow>>
  PROVE  Inv'
<1>. SUFFICES ASSUME UNCHANGED away, Handle(q) \/ Lose(q) \/ Redeliver(q)
              PROVE  Inv'
  BY DEF Server
<1>0. /\ "no" \in Replies /\ "yes" \in Replies /\ "unauthorized" \in Replies
      /\ owner \in [Wallets -> 0 .. Len(users)] /\ used \subseteq used
      /\ call[q] \in Call
  BY DEF Replies, Inv, Types
<1>1. CASE Register(q)
  <2>1. Open(q) /\ call[q].kind = "register"
    BY <1>1 DEF Register, Arrived, Open
  <2>2. CASE EmailTaken(call[q].email)
    BY <1>0, <1>1, <2>1, <2>2, ReplyStep DEF Register, Answer, memory
  <2>3. CASE ~EmailTaken(call[q].email)
    BY <1>1, <2>3, RegisterStep DEF Register
  <2>. QED BY <2>2, <2>3
<1>2. CASE CheckUsername(q) \/ WalletStatus(q)
  <2>1. Open(q) /\ call[q].kind \in {"checkName", "status"}
    BY <1>2 DEF CheckUsername, WalletStatus, Arrived, Open
  <2>2. PICK a \in {"yes", "no"} : Answer(q, a)
    BY <1>2 DEF CheckUsername, WalletStatus
  <2>3. UNCHANGED <<users, owner, tokens, revoked, used, overdue, boot>>
    BY <1>2 DEF CheckUsername, WalletStatus, memory
  <2>. QED BY <1>0, <2>1, <2>2, <2>3, ReplyStep DEF Answer
<1>3. CASE NoteChallenge(q)
  <2>1. Open(q) /\ call[q].kind = "verify" /\ used \subseteq used'
    BY <1>3 DEF NoteChallenge, Arrived, Open
  <2>2. CASE Answer(q, "unauthorized")
    BY <1>0, <1>3, <2>1, <2>2, ReplyStep DEF NoteChallenge, Answer
  <2>3. CASE call[q].challenge \notin used /\ call' = [call EXCEPT ![q].stage = "noted"]
    BY <1>3, <2>3, NoteStep DEF NoteChallenge
  <2>. QED BY <1>3, <2>2, <2>3 DEF NoteChallenge
<1>4. CASE Login(q)
  <2>1. Open(q) /\ call[q].kind = "verify" /\ call[q].stage = "noted"
    BY <1>4 DEF Login, Open, Inv, Attended
  <2>2. CASE owner[call[q].wallet] = 0
    BY <1>0, <1>4, <2>1, <2>2, ReplyStep DEF Login, Answer, memory
  <2>3. CASE owner[call[q].wallet] # 0
    BY <1>4, <2>1, <2>3, LoginStep DEF Login
  <2>. QED BY <2>2, <2>3
<1>5. CASE UpdateProfile(q)
  <2>1. Open(q) /\ call[q].kind = "updateMe" /\ call[q].kind \in Guarded /\ call[q].stage = "sent"
    BY <1>5 DEF UpdateProfile, Arrived, Open, Guarded
  <2>2. CASE ~Admits(call[q].token)
    BY <1>0, <1>5, <2>1, <2>2, ReplyStep, Admitted DEF UpdateProfile, Answer, memory
  <2>3. CASE Admits(call[q].token) /\ NameTaken(call[q].name, Sender(q))
    BY <1>0, <1>5, <2>1, <2>3, ReplyStep DEF UpdateProfile, Answer, memory
  <2>4. CASE Admits(call[q].token) /\ ~NameTaken(call[q].name, Sender(q))
    <3>1. /\ users' = [users EXCEPT ![NamedBy(q)].name = call[q].name] /\ Answer(q, "yes")
          /\ UNCHANGED <<owner, tokens, memory>>
      BY <1>5, <2>4 DEF UpdateProfile, Sender, NamedBy
    <3>2. call[q].token # 0 /\ NamedBy(q) \in DOMAIN users /\ users \in Seq(User)
          /\ call[q].name \in Names
      BY <2>1, <2>4, <1>0 DEF Admits, Inv, Types, References, Filled, NamedBy, Call
    <3>3. /\ users' \in Seq(User) /\ Len(users') = Len(users) /\ DOMAIN users' = DOMAIN users
          /\ \A i \in DOMAIN users : users'[i].email = users[i].email
          /\ \A i \in DOMAIN users : i # NamedBy(q) => users'[i] = users[i]
          /\ users'[NamedBy(q)].name = call[q].name
      BY <3>1, <3>2, OneUserChanges
    <3>4. Arrived(q, "updateMe")
      BY <1>5 DEF UpdateProfile
    <3>. QED BY <3>1, <3>2, <3>3, <3>4, UpdateStep
  <2>. QED BY <2>2, <2>3, <2>4
<1>6. CASE ConnectWallet(q)
  <2>1. Open(q) /\ call[q].kind = "connect" /\ call[q].kind \in Guarded /\ call[q].stage = "sent"
    BY <1>6 DEF ConnectWallet, Arrived, Open, Guarded
  <2>2. CASE ~Admits(call[q].token)
    BY <1>0, <1>6, <2>1, <2>2, ReplyStep, Admitted DEF ConnectWallet, Answer, memory
  <2>3. CASE Admits(call[q].token) /\ owner[call[q].wallet] # 0
    BY <1>0, <1>6, <2>1, <2>3, ReplyStep DEF ConnectWallet, Answer, memory
  <2>4. CASE Admits(call[q].token) /\ owner[call[q].wallet] = 0
    <3>1. Sender(q) \in 0 .. Len(users)
      BY <2>4 DEF Admits, Sender, Inv, Types, References
    <3>2. owner' \in [Wallets -> 0 .. Len(users)]
      BY <1>0, <1>6, <2>4, <3>1 DEF ConnectWallet
    <3>. QED BY <1>0, <1>6, <2>1, <2>4, <3>2, ReplyStep DEF ConnectWallet, Answer, memory
  <2>. QED BY <2>2, <2>3, <2>4
<1>7. CASE ReadProfile(q)
  <2>1. Open(q) /\ call[q].kind = "me" /\ call[q].kind \in Guarded /\ call[q].stage = "sent"
    BY <1>7 DEF ReadProfile, Arrived, Open, Guarded
  <2>2. CASE ~Admits(call[q].token)
    BY <1>0, <1>7, <2>1, <2>2, ReplyStep, Admitted DEF ReadProfile, Answer, memory
  <2>3. CASE Admits(call[q].token)
    BY <1>0, <1>7, <2>1, <2>3, ReplyStep DEF ReadProfile, Answer, memory
  <2>. QED BY <2>2, <2>3
<1>8. CASE Lose(q)
  <2>1. Open(q) /\ call[q].stage = "sent" /\ UNCHANGED <<users, owner, tokens, memory>>
    BY <1>8 DEF Lose, Open
  <2>2. CASE Answer(q, "no")
    BY <1>0, <2>1, <2>2, ReplyStep DEF Answer, memory
  <2>3. CASE Orphan(q)
    <3>1. PICK p \in Calls :
            /\ call[p].stage = "free"
            /\ call' = [call EXCEPT ![p] = [call[q] EXCEPT !.flow = None],
                                    ![q] = Answered(@, "no", 0)]
      BY <2>3 DEF Orphan
    <3>2. p # q
      BY <2>1, <3>1
    <3>3. call' = [call EXCEPT ![p] = [call[q] EXCEPT !.flow = None],
                               ![q] = Answered(call[q], "no", 0)]
      BY <3>1, <3>2
    <3>4. Answered(call[q], "no", 0) \in Call
      BY <1>0, AnsweredCall
    <3>5. UNCHANGED <<users, owner, tokens, memory, session, flow, away>>
      BY <2>1
    <3>6. /\ call' \in [Calls -> Call] /\ call'[p] = [call[q] EXCEPT !.flow = None]
          /\ call'[q] = Answered(call[q], "no", 0)
          /\ \A r \in Calls : r # p /\ r # q => call'[r] = call[r]
      <4>. DEFINE n == Answered(call[q], "no", 0)
      <4>1. n \in Call /\ call' = [call EXCEPT ![p] = [call[q] EXCEPT !.flow = None], ![q] = n]
        BY <3>3, <3>4
      <4>2. call[q].stage = "sent" /\ call[p].stage = "free"
        BY <2>1, <3>1
      <4>. HIDE DEF n
      <4>3. /\ call' \in [Calls -> Call] /\ call'[p] = [call[q] EXCEPT !.flow = None]
            /\ call'[q] = n /\ \A r \in Calls : r # p /\ r # q => call'[r] = call[r]
        BY <4>1, <4>2, CopyShape
      <4>. QED BY <4>3 DEF n
    <3>. QED BY <2>1, <3>1, <3>2, <3>4, <3>5, <3>6, CopyStep
  <2>. QED BY <1>8, <2>2, <2>3 DEF Lose
<1>9. CASE Redeliver(q)
  <2>1. call[q].stage = "sent" /\ UNCHANGED <<users, owner, tokens, memory>>
    BY <1>9 DEF Redeliver, Arrived
  <2>2. PICK p \in Calls :
          /\ call[p].stage = "free"
          /\ call' = [call EXCEPT ![p] = [call[q] EXCEPT !.flow = None]]
    BY <1>9 DEF Redeliver
  <2>3. p # q
    BY <2>1, <2>2
  <2>4. call' = [call EXCEPT ![p] = [call[q] EXCEPT !.flow = None], ![q] = call[q]]
    BY <2>2, <2>3 DEF Inv, Types
  <2>5. UNCHANGED <<users, owner, tokens, memory, session, flow, away>>
    BY <2>1
  <2>6. /\ call' \in [Calls -> Call] /\ call'[p] = [call[q] EXCEPT !.flow = None]
        /\ call'[q] = call[q]
        /\ \A r \in Calls : r # p /\ r # q => call'[r] = call[r]
    <3>1. call[p].stage = "free"
      BY <2>2
    <3>. QED BY <1>0, <2>1, <2>4, <3>1, CopyShape
  <2>. QED BY <1>0, <2>1, <2>2, <2>3, <2>5, <2>6, CopyStep
<1>. QED BY <1>1, <1>2, <1>3, <1>4, <1>5, <1>6, <1>7, <1>8, <1>9 DEF Handle

-----------------------------------------------------------------------------
(* The pages. *)

(* The form of a flow stays; whether nobody disturbs it may not.           *)
SameForm(g) ==
  /\ flow'[g].pc = flow[g].pc /\ flow'[g].email = flow[g].email /\ flow'[g].name = flow[g].name
  /\ flow'[g].wallet = flow[g].wallet /\ flow'[g].user = flow[g].user
  /\ flow'[g].calm => flow[g].calm

(* Flow f becomes new, and the session changes.                            *)
Moves(f, new) ==
  /\ flow' \in [Flows -> Flow]
  /\ flow'[f] = new
  /\ \A g \in Flows \ {f} :
       /\ SameForm(g)
       /\ session'.token # session.token /\ flow'[g].calm => flow[g].pc \notin {"updating", "connecting"}

LEMMA DisturbedFlow ==
  ASSUME Inv, NEW g \in Flows
  PROVE  /\ Disturbed(g) \in Flow
         /\ Disturbed(g).pc = flow[g].pc /\ Disturbed(g).email = flow[g].email
         /\ Disturbed(g).name = flow[g].name /\ Disturbed(g).wallet = flow[g].wallet
         /\ Disturbed(g).user = flow[g].user
         /\ Disturbed(g).calm => flow[g].calm /\ flow[g].pc \notin {"updating", "connecting"}
<1>1. PICK b : b = (flow[g].calm /\ flow[g].pc \notin {"updating", "connecting"})
  OBVIOUS
<1>2. b \in BOOLEAN /\ (b => flow[g].calm /\ flow[g].pc \notin {"updating", "connecting"})
  BY <1>1, Zenon
<1>3. Disturbed(g) = [flow[g] EXCEPT !.calm = b]
  BY <1>1, Zenon DEF Disturbed
<1>4. flow[g] \in Flow
  BY DEF Inv, Types
<1>. QED BY <1>2, <1>3, <1>4 DEF Flow

LEMMA Became ==
  ASSUME Inv, NEW f \in Flows, NEW new \in Flow, NEW s, Become(f, new, s)
  PROVE  Moves(f, new) /\ session' = s
<1>1. session' = s
  BY DEF Become
<1>2. flow' = [g \in Flows |-> IF g = f THEN new
                              ELSE IF s.token = session.token THEN flow[g] ELSE Disturbed(g)]
  BY DEF Become
<1>3. \A g \in Flows : flow[g] \in Flow /\ Disturbed(g) \in Flow
  BY DisturbedFlow DEF Inv, Types
<1>4. flow' \in [Flows -> Flow] /\ flow'[f] = new
  BY <1>2, <1>3
<1>5. ASSUME NEW g \in Flows \ {f}
      PROVE  /\ SameForm(g)
             /\ s.token # session.token /\ flow'[g].calm =>
                  flow[g].pc \notin {"updating", "connecting"}
  <2>1. CASE s.token = session.token
    <3>1. flow'[g] = flow[g]
      BY <1>2, <2>1
    <3>. QED BY <2>1, <3>1 DEF SameForm
  <2>2. CASE s.token # session.token
    <3>1. flow'[g] = Disturbed(g)
      BY <1>2, <2>2
    <3>. QED BY <3>1, DisturbedFlow DEF SameForm
  <2>. QED BY <2>1, <2>2
<1>. QED BY <1>1, <1>4, <1>5 DEF Moves

(* What flow f waits for. *)
LEMMA ItsCall ==
  ASSUME Inv, NEW f \in Flows
  PROVE  /\ f # None
         /\ flow[f].pc \notin Waiting => \A q \in Calls : call[q].flow # f
         /\ \A q, p \in Calls : call[q].flow = f /\ call[p].flow = f => q = p
BY NoneIsNothing DEF Inv, Attended

LEMMA ExistingUsers ==
  ASSUME Inv
  PROVE  /\ 0 \notin DOMAIN users
         /\ \A q \in Calls : Made(q) => MadeBy(q) \in DOMAIN users
         /\ \A q \in Calls : GivesName(q) => NamedBy(q) \in DOMAIN users
<1>1. 0 \notin DOMAIN users
  BY DEF Inv, Types
<1>. QED BY <1>1 DEF Inv, References, Made, MadeBy, GivesName, NamedBy, Told

(* The account of a flow, when it has one, stays; otherwise it has none.   *)
KeepsAccount(f, new) ==
  \/ new.user = 0 /\ new.pc \notin HasAccount
  \/ /\ flow[f].pc \in HasAccount /\ new.user = flow[f].user
     /\ new.email = flow[f].email /\ new.name = flow[f].name
     /\ new.pc \in {"connecting", "done"} /\ users[new.user].name = new.name

IsFilled(new) ==
  /\ new.pc \in InWizard => new.email # None /\ new.name # None
  /\ new.pc \in WithWallet => new.wallet # None

(* A flow makes a request. *)
LEMMA PostStep ==
  ASSUME Inv, NEW f \in Flows, NEW q \in Calls, NEW new \in Flow, NEW n \in Call,
         (call[q].stage = "free" /\ flow[f].pc \notin Waiting) \/ call[q].flow = f,
         Turns(q, n), Moves(f, new), session' = session,
         n.flow = f, n.stage = "sent", n.issued = 0,
         new.pc \in Waiting \ {"updating"}, n.kind = Asks[new.pc], n.kind # "updateMe",
         n.token # 0 => n.token = session.token,
         n.kind \in Guarded /\ ~away => n.token # 0,
         n.kind = "register" => n.email = new.email,
         n.kind \in {"connect", "status", "verify"} => n.wallet # None,
         n.kind = "verify" => n.challenge # 0,
         IsFilled(new), KeepsAccount(f, new),
         new.pc = "connecting" /\ new.calm =>
           n.token # 0 /\ n.token = session.token /\ session.user = new.user,
         UNCHANGED <<users, owner, tokens, memory, away>>
  PROVE  Inv'
<1>1. /\ call' \in [Calls -> Call] /\ call'[q] = n /\ \A p \in Calls \ {q} : call'[p] = call[p]
      /\ flow' \in [Flows -> Flow] /\ flow'[f] = new /\ \A g \in Flows \ {f} : SameForm(g)
  BY DEF Turns, Moves
<1>2. f # None /\ \A p \in Calls \ {q} : call[p].flow # f
  BY ItsCall
<1>3. /\ call[q].flow = f \/ call[q].flow = None
      /\ \A p \in Calls \ {q} : call[p].flow # None => call[p].flow \in Flows \ {f}
  BY <1>2, NoCallFields DEF Inv, Types, Attended, Call
<1>4. Types' /\ References'
  <2>1. Types'
    BY <1>1 DEF Inv, Types, memory
  <2>2. References'
    BY <1>1 DEF Inv, References, Told
  <2>. QED BY <2>1, <2>2
<1>5. Attended'
  <2>1. \A g \in Flows \ {f} : flow'[g].pc \in Waiting => \E p \in Calls : call'[p].flow = g
    <3>1. \A g \in Flows \ {f} : flow[g].pc \in Waiting => \E p \in Calls \ {q} : call[p].flow = g
      BY <1>2, <1>3, ItsCall DEF Inv, Attended
    <3>. QED BY <1>1, <3>1 DEF SameForm
  <2>2. \A p \in Calls :
       /\ call'[p].stage = "free" => call'[p] = NoCall
       /\ call'[p].stage = "answered" => call'[p].flow # None
       /\ call'[p].stage = "noted" => call'[p].kind = "verify"
       /\ call'[p].flow # None =>
            flow'[call'[p].flow].pc \in Waiting /\ call'[p].kind = Asks[flow'[call'[p].flow].pc]
    BY <1>1, <1>2, <1>3 DEF Inv, Attended, SameForm
  <2>3. \A r, p \in Calls : call'[r].flow # None /\ call'[r].flow = call'[p].flow => r = p
    BY <1>1, <1>2 DEF Inv, Attended
  <2>4. \E p \in Calls : call'[p].flow = f
    BY <1>1
  <2>. QED BY <2>1, <2>2, <2>3, <2>4 DEF Attended
<1>6. Filled'
  <2>1. \A g \in Flows :
          /\ flow'[g].pc \in InWizard => flow'[g].email # None /\ flow'[g].name # None
          /\ flow'[g].pc \in WithWallet => flow'[g].wallet # None
    BY <1>1 DEF Inv, Filled, SameForm, IsFilled
  <2>2. \A p \in Calls \ {q} : Open(p)' =>
       /\ call'[p].kind = "register" =>
            /\ call'[p].email # None
            /\ call'[p].flow # None => call'[p].email = flow'[call'[p].flow].email
       /\ call'[p].kind = "updateMe" => call'[p].name # None
       /\ call'[p].kind \in {"connect", "status", "verify"} => call'[p].wallet # None
       /\ call'[p].kind = "verify" => call'[p].challenge # 0
    BY <1>1, <1>3 DEF Inv, Filled, SameForm, Open
  <2>3. n.kind = "register" => new.pc = "registering"
    BY DEF Asks, Waiting
  <2>4. n.kind = "register" => n.email # None
    BY <2>3 DEF IsFilled, InWizard
  <2>5. /\ n.kind = "register" => n.email # None /\ n.email = flow'[n.flow].email
        /\ n.kind # "updateMe"
        /\ n.kind \in {"connect", "status", "verify"} => n.wallet # None
        /\ n.kind = "verify" => n.challenge # 0
    BY <1>1, <2>4
  <2>6. ASSUME NEW p \in Calls, call'[p].stage \in {"sent", "noted"}
        PROVE  /\ call'[p].kind = "register" =>
                    /\ call'[p].email # None
                    /\ call'[p].flow # None => call'[p].email = flow'[call'[p].flow].email
               /\ call'[p].kind = "updateMe" => call'[p].name # None
               /\ call'[p].kind \in {"connect", "status", "verify"} => call'[p].wallet # None
               /\ call'[p].kind = "verify" => call'[p].challenge # 0
    <3>1. CASE p = q
      BY <1>1, <2>5, <3>1
    <3>2. CASE p # q
      BY <2>2, <2>6, <3>2 DEF Open
    <3>. QED BY <3>1, <3>2
  <2>. QED BY <2>1, <2>6 DEF Filled, Open
<1>7. Named' /\ Untold' /\ Agreed'
  <2>1. Named'
    BY <1>1 DEF Inv, Named, SameForm, KeepsAccount, HasAccount
  <2>2. \A p \in Calls : Made(p)' => p # q /\ Made(p) /\ MadeBy(p)' = MadeBy(p)
    BY <1>1 DEF Made, MadeBy, Told
  <2>3. \A p \in Calls : GivesName(p)' => p # q /\ GivesName(p) /\ NamedBy(p)' = NamedBy(p)
    BY <1>1 DEF GivesName, NamedBy
  <2>4. new.user = 0 \/ (new.user = flow[f].user /\ new.name = flow[f].name)
    BY DEF KeepsAccount
  <2>5. Untold'
    BY <1>1, <1>3, <2>2, <2>3, <2>4, ExistingUsers DEF Inv, Untold, SameForm, Made, Told, Attended
  <2>6. Agreed'
    BY <1>1, <1>3, <2>3, <2>4, ExistingUsers DEF Inv, Agreed, SameForm, Told, NamedBy
  <2>. QED BY <2>1, <2>5, <2>6
<1>8. Undisturbed'
  BY <1>1, <1>2 DEF Inv, References, Undisturbed, WalletFollowsWizard, SameForm
<1>9. Staying'
  BY <1>1 DEF Inv, Staying, SameForm, Told, memory
<1>10. Noted'
  BY <1>1 DEF Inv, Noted, OneLoginPerChallenge, SameLogin, memory
<1>. QED BY <1>4, <1>5, <1>6, <1>7, <1>8, <1>9, <1>10 DEF Inv

(* The session a step of a flow leaves. *)
GoodSession(s) ==
  /\ s \in Session
  /\ s.token # 0 => s.token \in DOMAIN tokens
  /\ s.user = IF s.token = 0 THEN 0 ELSE tokens[s.token].user

(* The wizard is told of its account, and sends its name. *)
LEMMA RegisteredStep ==
  ASSUME Inv, NEW f \in Flows, NEW q \in Calls, Made(q), call[q].flow = f,
         NEW new \in Flow, NEW n \in Call, NEW s, GoodSession(s),
         s.token = call[q].issued,
         Turns(q, n), Moves(f, new), session' = s,
         n.flow = f, n.stage = "sent", n.kind = "updateMe", n.issued = 0, n.token = s.token,
         n.name = new.name, new.pc = "updating", new.user = MadeBy(q),
         new.name = flow[f].name, new.email = flow[f].email,
         UNCHANGED <<users, owner, tokens, memory, away>>
  PROVE  Inv'
<1>1. /\ call' \in [Calls -> Call] /\ call'[q] = n /\ \A p \in Calls \ {q} : call'[p] = call[p]
      /\ flow' \in [Flows -> Flow] /\ flow'[f] = new
      /\ \A g \in Flows \ {f} :
           /\ SameForm(g)
           /\ s.token # session.token /\ flow'[g].calm =>
                flow[g].pc \notin {"updating", "connecting"}
  BY DEF Turns, Moves
<1>2. /\ f # None /\ flow[f].pc = "registering"
      /\ \A p \in Calls \ {q} : call[p].flow # f
      /\ \A p \in Calls \ {q} : call[p].flow # None => call[p].flow \in Flows \ {f}
  <2>1. f # None /\ \A p \in Calls \ {q} : call[p].flow # f
    BY ItsCall
  <2>2. flow[f].pc = "registering"
    BY <2>1, WaitsFor DEF Made
  <2>3. \A p \in Calls \ {q} : call[p].flow # None => call[p].flow \in Flows \ {f}
    BY <2>1, WaitsFor
  <2>. QED BY <2>1, <2>2, <2>3
<1>3. s.token # 0 /\ s.token \in DOMAIN tokens /\ s.user = MadeBy(q) /\ MadeBy(q) \in DOMAIN users
      /\ tokens[s.token].user = MadeBy(q)
  BY ExistingUsers DEF Inv, References, Made, MadeBy, GoodSession
<1>4. Types' /\ References'
  <2>1. Types'
    BY <1>1 DEF Inv, Types, memory, GoodSession
  <2>2. References'
    BY <1>1, <1>3 DEF Inv, References, Told, GoodSession
  <2>. QED BY <2>1, <2>2
<1>5. Attended'
  <2>1. \A p \in Calls :
       /\ call'[p].stage = "free" => call'[p] = NoCall
       /\ call'[p].stage = "answered" => call'[p].flow # None
       /\ call'[p].stage = "noted" => call'[p].kind = "verify"
       /\ call'[p].flow # None =>
            flow'[call'[p].flow].pc \in Waiting /\ call'[p].kind = Asks[flow'[call'[p].flow].pc]
    <3>1. "updating" \in Waiting /\ Asks["updating"] = "updateMe"
      BY DEF Waiting, Asks
    <3>. QED BY <1>1, <1>2, <3>1 DEF Inv, Attended, SameForm
  <2>2. \A r, p \in Calls : call'[r].flow # None /\ call'[r].flow = call'[p].flow => r = p
    BY <1>1, <1>2 DEF Inv, Attended
  <2>3. \A g \in Flows : flow'[g].pc \in Waiting => \E p \in Calls : call'[p].flow = g
    BY <1>1, <1>2 DEF Inv, Attended, SameForm
  <2>. QED BY <2>1, <2>2, <2>3 DEF Attended
<1>6. Filled'
  <2>1. new.email # None /\ new.name # None
    BY <1>2 DEF Inv, Filled, InWizard
  <2>2. \A g \in Flows :
          /\ flow'[g].pc \in InWizard => flow'[g].email # None /\ flow'[g].name # None
          /\ flow'[g].pc \in WithWallet => flow'[g].wallet # None
    BY <1>1, <2>1 DEF Inv, Filled, SameForm, WithWallet
  <2>. QED BY <1>1, <1>2, <2>1, <2>2 DEF Inv, Filled, Open, SameForm
<1>7. Named'
  BY <1>1, <1>2, <1>3 DEF Inv, Named, Untold, SameForm, HasAccount
<1>8. Untold' /\ Agreed'
  <2>1. \A p \in Calls : Made(p)' => p # q /\ Made(p) /\ MadeBy(p)' = MadeBy(p) /\ MadeBy(p) # MadeBy(q)
    BY <1>1 DEF Inv, Untold, Made, MadeBy, Told
  <2>2. \A p \in Calls \ {q} :
          /\ GivesName(p)' => GivesName(p)
          /\ GivesName(p) => NamedBy(p)' = NamedBy(p) /\ NamedBy(p) # MadeBy(q)
    BY <1>1 DEF Inv, Untold, GivesName, NamedBy
  <2>3. NamedBy(q)' = MadeBy(q)
    BY <1>1, <1>3 DEF NamedBy
  <2>4. \A g \in Flows \ {f} : flow'[g].user # MadeBy(q)
    BY <1>1 DEF Inv, Untold, SameForm
  <2>5. Untold'
    BY <1>1, <1>2, <2>1, <2>2, <2>3, <2>4 DEF Inv, Untold, SameForm, Made, Told, Attended
  <2>6. \A p \in Calls : GivesName(p)' =>
          \A g \in Flows : flow'[g].user = NamedBy(p)' => flow'[g].name = call'[p].name
    BY <1>1, <2>2, <2>3, <2>4 DEF Inv, Agreed, SameForm
  <2>7. \A p \in Calls \ {q} : call'[p].kind = "updateMe" /\ call'[p].flow # None =>
          /\ call'[p].stage = "sent" =>
               call'[p].token # 0 /\ NamedBy(p)' = flow'[call'[p].flow].user
          /\ Told(p, "yes")' => users'[flow'[call'[p].flow].user].name = flow'[call'[p].flow].name
    BY <1>1, <1>2 DEF Inv, Agreed, SameForm, Told, NamedBy
  <2>8. call'[q].token # 0 /\ NamedBy(q)' = flow'[call'[q].flow].user /\ ~Told(q, "yes")'
    BY <1>1, <1>3, <2>3 DEF Told
  <2>. QED BY <2>5, <2>6, <2>7, <2>8 DEF Agreed
<1>9. Undisturbed'
  <2>1. \A g \in Flows : flow'[g].pc = "updating" /\ flow'[g].calm =>
          session'.token # 0 /\ session'.user = flow'[g].user
    BY <1>1, <1>3 DEF Inv, Undisturbed, SameForm, References
  <2>2. WalletFollowsWizard'
    BY <1>1, <1>2 DEF Inv, Undisturbed, WalletFollowsWizard, SameForm
  <2>. QED BY <2>1, <2>2 DEF Undisturbed
<1>10. Staying'
  BY <1>1, <1>3 DEF Inv, Staying, Told, memory
<1>11. Noted'
  BY <1>1 DEF Inv, Noted, OneLoginPerChallenge, SameLogin, memory
<1>. QED BY <1>4, <1>5, <1>6, <1>7, <1>8, <1>9, <1>10, <1>11 DEF Inv

(* A flow is done with its request, or had none. *)
LEMMA FinishStep ==
  ASSUME Inv, NEW f \in Flows, NEW new \in Flow, NEW s, GoodSession(s),
         call' \in [Calls -> Call],
         \A p \in Calls : call[p].flow = f => call'[p] = NoCall,
         \A p \in Calls : call[p].flow # f => call'[p] = call[p],
         Moves(f, new), session' = s, new.pc \notin Waiting,
         IsFilled(new), KeepsAccount(f, new),
         away' \in BOOLEAN, away => away',
         ~away' /\ session.token # 0 => s.token # 0,
         UNCHANGED <<users, owner, tokens, memory>>
  PROVE  Inv'
<1>1. /\ flow' \in [Flows -> Flow] /\ flow'[f] = new
      /\ \A g \in Flows \ {f} :
           /\ SameForm(g)
           /\ s.token # session.token /\ flow'[g].calm =>
                flow[g].pc \notin {"updating", "connecting"}
  BY DEF Moves
<1>2. /\ NoCall.stage = "free" /\ NoCall.flow = None /\ NoCall.token = 0 /\ NoCall.issued = 0
      /\ f # None
  BY NoCallFields, ItsCall
<1>3. \A p \in Calls : call'[p].stage # "free" => call'[p] = call[p] /\ call[p].flow # f
  BY <1>2
<1>4. \A p \in Calls : call'[p].flow # None =>
        call'[p] = call[p] /\ call[p].flow \in Flows \ {f} /\ call[p].stage # "free"
  BY <1>2, NoCallFields DEF Inv, Types, Attended, Call
<1>5. Types' /\ References'
  <2>1. Types'
    BY <1>1 DEF Inv, Types, memory, GoodSession
  <2>2. References'
    BY <1>2, <1>3 DEF Inv, References, Told, GoodSession
  <2>. QED BY <2>1, <2>2
<1>6. Attended'
  <2>1. \A p \in Calls :
       /\ call'[p].stage = "free" => call'[p] = NoCall
       /\ call'[p].stage = "answered" => call'[p].flow # None
       /\ call'[p].stage = "noted" => call'[p].kind = "verify"
       /\ call'[p].flow # None =>
            flow'[call'[p].flow].pc \in Waiting /\ call'[p].kind = Asks[flow'[call'[p].flow].pc]
    BY <1>1, <1>2, <1>3, <1>4 DEF Inv, Attended, SameForm
  <2>2. \A r, p \in Calls : call'[r].flow # None /\ call'[r].flow = call'[p].flow => r = p
    BY <1>4 DEF Inv, Attended
  <2>3. \A g \in Flows : flow'[g].pc \in Waiting => \E p \in Calls : call'[p].flow = g
    BY <1>1 DEF Inv, Attended, SameForm
  <2>. QED BY <2>1, <2>2, <2>3 DEF Attended
<1>7. Filled'
  <2>1. \A g \in Flows :
          /\ flow'[g].pc \in InWizard => flow'[g].email # None /\ flow'[g].name # None
          /\ flow'[g].pc \in WithWallet => flow'[g].wallet # None
    BY <1>1 DEF Inv, Filled, SameForm, IsFilled
  <2>. QED BY <1>1, <1>2, <1>3, <1>4, <2>1 DEF Inv, Filled, Open, SameForm
<1>8. Named'
  BY <1>1 DEF Inv, Named, SameForm, KeepsAccount, HasAccount
<1>9. Untold' /\ Agreed'
  <2>1. \A p \in Calls : Made(p)' => Made(p) /\ MadeBy(p)' = MadeBy(p)
    BY <1>2, <1>3 DEF Made, MadeBy, Told
  <2>2. \A p \in Calls : GivesName(p)' => GivesName(p) /\ NamedBy(p)' = NamedBy(p)
    BY <1>2, <1>3 DEF GivesName, NamedBy
  <2>3. new.user = 0 \/ (new.user = flow[f].user /\ new.name = flow[f].name)
    BY DEF KeepsAccount
  <2>4. Untold'
    BY <1>1, <1>2, <1>3, <1>4, <2>1, <2>2, <2>3, ExistingUsers DEF Inv, Untold, SameForm, Made, Told, Attended
  <2>5. Agreed'
    BY <1>1, <1>2, <1>3, <1>4, <2>2, <2>3, ExistingUsers
    DEF Inv, Agreed, SameForm, Told, NamedBy, GivesName
  <2>. QED BY <2>4, <2>5
<1>10. Undisturbed'
  <2>1. \A g \in Flows : flow'[g].pc = "updating" /\ flow'[g].calm =>
          session'.token # 0 /\ session'.user = flow'[g].user
    BY <1>1 DEF Inv, Undisturbed, SameForm, References, GoodSession, Waiting
  <2>2. WalletFollowsWizard'
    BY <1>1, <1>2, <1>3, <1>4 DEF Inv, Undisturbed, WalletFollowsWizard, SameForm
  <2>. QED BY <2>1, <2>2 DEF Undisturbed
<1>11. Staying'
  BY <1>1, <1>2, <1>3 DEF Inv, Staying, Told, memory, SameForm, Waiting
<1>12. Noted'
  BY <1>2, <1>3 DEF Inv, Noted, OneLoginPerChallenge, SameLogin, memory
<1>. QED BY <1>5, <1>6, <1>7, <1>8, <1>9, <1>10, <1>11, <1>12 DEF Inv

LEMMA DisconnectStep ==
  ASSUME Inv, Disconnect
  PROVE  Inv'
<1>1. /\ session' = NoSession /\ away' /\ away' \in BOOLEAN /\ session.token # 0
      /\ UNCHANGED <<users, owner, tokens, revoked, used, overdue, boot, call>>
  BY DEF Disconnect, accountVars
<1>2. NoSession.token = 0 /\ NoSession.user = 0 /\ NoSession \in Session
  BY DEF NoSession, Session
<1>3. /\ flow' \in [Flows -> Flow]
      /\ \A g \in Flows :
           /\ SameForm(g)
           /\ flow'[g].calm => flow[g].pc \notin {"updating", "connecting"}
  BY DisturbedFlow DEF Disconnect, SameForm
<1>4. Types'
  BY <1>1, <1>2, <1>3 DEF Inv, Types
<1>5. References'
  BY <1>1, <1>2 DEF Inv, References, Told
<1>6. Attended'
  <2>1. \A q \in Calls : call[q].flow # None => call[q].flow \in Flows
    BY WaitsFor
  <2>. QED BY <1>1, <1>3, <2>1 DEF Inv, Attended, SameForm
<1>7. Filled'
  <2>1. \A q \in Calls : call[q].flow # None => call[q].flow \in Flows
    BY WaitsFor
  <2>. QED BY <1>1, <1>3, <2>1 DEF Inv, Filled, SameForm, Open
<1>8. Named'
  BY <1>1, <1>3 DEF Inv, Named, SameForm
<1>9. Untold' /\ Agreed'
  <2>1. \A q \in Calls :
          /\ call[q].flow # None => call[q].flow \in Flows
          /\ Made(q)' = Made(q) /\ MadeBy(q)' = MadeBy(q)
          /\ GivesName(q)' = GivesName(q) /\ NamedBy(q)' = NamedBy(q)
          /\ Told(q, "yes")' = Told(q, "yes")
    BY <1>1, WaitsFor DEF Made, MadeBy, GivesName, NamedBy, Told
  <2>2. \A q \in Calls : Made(q) => call[q].flow # None
    BY DEF Inv, Attended, Made, Told
  <2>3. \A q \in Calls : Made(q)' =>
          users'[MadeBy(q)'].email = flow'[call'[q].flow].email
    BY <1>1, <1>3, <2>1, <2>2 DEF Inv, Untold, SameForm
  <2>4. Untold'
    BY <1>1, <1>3, <2>1, <2>3 DEF Inv, Untold, SameForm
  <2>5. Agreed'
    BY <1>1, <1>3, <2>1 DEF Inv, Agreed, SameForm
  <2>. QED BY <2>4, <2>5
<1>10. Undisturbed'
  BY <1>1, <1>2, <1>3 DEF Inv, Undisturbed, WalletFollowsWizard, SameForm
<1>11. Staying' /\ Noted'
  BY <1>1, <1>3 DEF Inv, Staying, Noted, OneLoginPerChallenge, SameLogin, SameForm
<1>. QED BY <1>4, <1>5, <1>6, <1>7, <1>8, <1>9, <1>10, <1>11 DEF Inv

-----------------------------------------------------------------------------
(* The steps of the pages. *)

(* A request that is made. *)
LEMMA Posted ==
  ASSUME Inv, NEW f \in Flows, NEW kind \in Kinds, NEW form \in Flow, Post(f, kind, form)
  PROVE  \E q \in Calls, n \in Call :
           /\ call[q].stage = "free" /\ Turns(q, n)
           /\ n.flow = f /\ n.stage = "sent" /\ n.issued = 0 /\ n.kind = kind
           /\ n.token = IF kind \in {"connect", "me"} THEN session.token ELSE 0
           /\ n.email = IF kind = "register" THEN form.email ELSE None
           /\ n.wallet = IF kind \in {"connect", "status", "verify"} THEN form.wallet ELSE None
           /\ n.challenge = IF kind = "verify" THEN form.user ELSE 0
<1>1. PICK q \in Calls :
        /\ call[q].stage = "free"
        /\ call' = [call EXCEPT ![q] =
             [NoCall EXCEPT !.kind = kind, !.flow = f, !.stage = "sent",
                !.token = IF kind \in {"connect", "me"} THEN session.token ELSE 0,
                !.email = IF kind = "register" THEN form.email ELSE None,
                !.name = IF kind \in {"checkName", "updateMe"} THEN form.name ELSE None,
                !.wallet = IF kind \in {"connect", "status", "verify"} THEN form.wallet ELSE None,
                !.challenge = IF kind = "verify" THEN form.user ELSE 0]]
  BY DEF Post
<1>. DEFINE n == call'[q]
<1>2. /\ n.flow = f /\ n.stage = "sent" /\ n.issued = 0 /\ n.kind = kind
      /\ n.token = IF kind \in {"connect", "me"} THEN session.token ELSE 0
      /\ n.email = IF kind = "register" THEN form.email ELSE None
      /\ n.wallet = IF kind \in {"connect", "status", "verify"} THEN form.wallet ELSE None
      /\ n.challenge = IF kind = "verify" THEN form.user ELSE 0
  BY <1>1 DEF Inv, Types, NoCall
<1>3. n \in Call
  <2>1. session.token \in Nat /\ form.user \in Nat /\ form.email \in Emails \cup {None}
        /\ form.name \in Names \cup {None} /\ form.wallet \in Wallets \cup {None}
    BY DEF Inv, Types, Session, Flow
  <2>2. /\ n.name = IF kind \in {"checkName", "updateMe"} THEN form.name ELSE None
        /\ n.answer = None
        /\ n = [kind |-> n.kind, flow |-> n.flow, token |-> n.token, email |-> n.email,
                name |-> n.name, wallet |-> n.wallet, challenge |-> n.challenge,
                issued |-> n.issued, stage |-> n.stage, answer |-> n.answer]
    BY <1>1 DEF Inv, Types, NoCall
  <2>. HIDE DEF n
  <2>3. /\ n.token \in Nat /\ n.email \in Emails \cup {None} /\ n.name \in Names \cup {None}
        /\ n.wallet \in Wallets \cup {None} /\ n.challenge \in Nat
    BY <1>2, <2>1, <2>2
  <2>. QED BY <1>2, <2>2, <2>3 DEF Call
<1>4. Turns(q, n)
  BY <1>1, <1>3 DEF Inv, Types, Turns
<1>. QED BY <1>1, <1>2, <1>3, <1>4

LEMMA StartStep ==
  ASSUME Inv, NEW f \in Flows, flow[f].pc \notin Waiting,
         NEW new \in Flow, new.pc \in Waiting \ {"updating", "connecting", "verifying"},
         new.user = 0, IsFilled(new), new.pc = "registering" => new.email # None,
         new.pc \in {"linking", "reading"} => session.token # 0,
         Start(f, Asks[new.pc], new)
  PROVE  Inv'
<1>. DEFINE kind == Asks[new.pc]
<1>1. /\ kind \in Kinds /\ kind # "updateMe" /\ kind # "verify"
      /\ kind = "register" => new.pc = "registering"
      /\ kind \in {"connect", "status"} => new.pc \in {"linking", "asking"}
      /\ kind \in Guarded => new.pc \in {"linking", "reading"}
      /\ kind \in Guarded => kind \in {"connect", "me"}
      /\ new.pc \notin HasAccount
  BY DEF Waiting, Asks, Kinds, Guarded, HasAccount
<1>2. /\ Post(f, kind, new) /\ Become(f, new, session)
      /\ UNCHANGED <<users, owner, tokens, memory, away>>
  BY DEF Start
<1>. HIDE DEF kind
<1>3. PICK q \in Calls, n \in Call :
        /\ call[q].stage = "free" /\ Turns(q, n)
        /\ n.flow = f /\ n.stage = "sent" /\ n.issued = 0 /\ n.kind = kind
        /\ n.token = IF kind \in {"connect", "me"} THEN session.token ELSE 0
        /\ n.email = IF kind = "register" THEN new.email ELSE None
        /\ n.wallet = IF kind \in {"connect", "status", "verify"} THEN new.wallet ELSE None
        /\ n.challenge = IF kind = "verify" THEN new.user ELSE 0
  BY <1>1, <1>2, Posted
<1>4. Moves(f, new) /\ session' = session
  BY <1>2, Became
<1>5. /\ n.token # 0 => n.token = session.token
      /\ n.kind \in Guarded => n.token # 0
      /\ n.kind = "register" => n.email = new.email
      /\ n.kind # "verify" /\ n.kind # "updateMe"
  BY <1>1, <1>3
<1>6. n.kind \in {"connect", "status", "verify"} => n.wallet # None
  BY <1>1, <1>3 DEF IsFilled, WithWallet
<1>7. KeepsAccount(f, new) /\ n.kind = Asks[new.pc] /\ new.pc # "connecting"
      /\ new.pc \in Waiting \ {"updating"}
  BY <1>1, <1>3 DEF KeepsAccount, kind
<1>. QED BY <1>2, <1>3, <1>4, <1>5, <1>6, <1>7, PostStep

(* What becomes of the session by an answer. *)
LEMMA GoodSessions ==
  ASSUME Inv
  PROVE  /\ GoodSession(session) /\ GoodSession(NoSession)
         /\ \A answer : GoodSession(After(answer))
         /\ \A k \in DOMAIN tokens : GoodSession(SessionOf(k)) /\ SessionOf(k).token = k /\ k # 0
<1>1. GoodSession(session) /\ GoodSession(NoSession)
  BY DEF Inv, Types, References, GoodSession, Session, NoSession
<1>2. \A k \in DOMAIN tokens : k \in Nat /\ k # 0 /\ tokens[k].user \in Nat
  <2>1. tokens \in Seq(Token)
    BY DEF Inv, Types
  <2>2. \A k \in DOMAIN tokens : k \in Nat /\ k # 0 /\ tokens[k] \in Token
    BY <2>1
  <2>. QED BY <2>2 DEF Token
<1>3. \A k \in DOMAIN tokens : GoodSession(SessionOf(k)) /\ SessionOf(k).token = k /\ k # 0
  BY <1>2 DEF GoodSession, SessionOf, Session
<1>. QED BY <1>1, <1>3 DEF After

LEMMA Stays ==
  ASSUME Inv, NEW q \in Calls, call[q].stage = "answered", call[q].kind # "verify", ~away
  PROVE  After(call[q].answer) = session
BY DEF Inv, Staying, Told, After, EndsSession

(* A flow takes the answer it waited for. *)
LEMMA TakeStep ==
  ASSUME Inv, NEW f \in Flows, NEW q \in Calls, call[q].flow = f, Take(q),
         NEW new \in Flow, NEW s, GoodSession(s), Become(f, new, s),
         new.pc \notin Waiting, IsFilled(new), KeepsAccount(f, new),
         away' \in BOOLEAN, away => away',
         ~away' /\ session.token # 0 => s.token # 0,
         UNCHANGED <<users, owner, tokens, memory>>
  PROVE  Inv'
<1>1. call' \in [Calls -> Call] /\ call'[q] = NoCall /\ \A p \in Calls \ {q} : call'[p] = call[p]
  BY NoCallFields DEF Take, Inv, Types
<1>2. \A p \in Calls : call[p].flow = f => p = q
  BY ItsCall
<1>3. /\ \A p \in Calls : call[p].flow = f => call'[p] = NoCall
      /\ \A p \in Calls : call[p].flow # f => call'[p] = call[p]
  BY <1>1, <1>2
<1>4. Moves(f, new) /\ session' = s
  BY Became
<1>. QED BY <1>1, <1>3, <1>4, FinishStep

(* A page goes on by itself. *)
LEMMA TurnStep ==
  ASSUME Inv, NEW f \in Flows, flow[f].pc \notin Waiting,
         NEW new \in Flow, Become(f, new, session),
         new.pc \notin Waiting, IsFilled(new), new.user = 0, new.pc \notin HasAccount,
         UNCHANGED <<accountVars, away>>
  PROVE  Inv'
<1>1. call' \in [Calls -> Call] /\ call' = call /\ UNCHANGED <<users, owner, tokens, memory, away>>
  BY DEF Inv, Types, accountVars, memory
<1>2. \A p \in Calls : call[p].flow # f
  BY ItsCall
<1>3. away' \in BOOLEAN /\ GoodSession(session) /\ KeepsAccount(f, new)
  BY <1>1, GoodSessions DEF Inv, Types, KeepsAccount
<1>4. Moves(f, new) /\ session' = session
  BY Became
<1>. QED BY <1>1, <1>2, <1>3, <1>4, FinishStep

LEMMA FlowSteps ==
  ASSUME Inv, NEW f \in Flows, Wizard(f) \/ SigningIn(f) \/ OtherPages(f)
  PROVE  Inv'
<1>. flow[f] \in Flow /\ session \in Session
  BY DEF Inv, Types
<1>1. CASE GoNext(f)
  <2>1. PICK e \in Emails, m \in Names, w \in Wallets \cup {None} :
          Start(f, "checkName",
            [NoFlow EXCEPT !.pc = "naming", !.email = e, !.name = m, !.wallet = w])
    BY <1>1 DEF GoNext
  <2>. DEFINE new == [NoFlow EXCEPT !.pc = "naming", !.email = e, !.name = m, !.wallet = w]
  <2>2. new \in Flow /\ new.pc = "naming" /\ new.user = 0 /\ new.email = e /\ new.name = m
    BY DEF NoFlow, Flow, Waiting
  <2>3. IsFilled(new)
    BY <2>2, NoneIsNothing DEF IsFilled, InWizard, WithWallet
  <2>4. flow[f].pc \notin Waiting
    BY <1>1 DEF GoNext, Waiting
  <2>5. Start(f, Asks[new.pc], new)
    BY <2>1, <2>2 DEF Asks
  <2>6. new.pc \in Waiting \ {"updating", "connecting", "verifying"}
    BY <2>2 DEF Waiting
  <2>. QED BY <2>2, <2>3, <2>4, <2>5, <2>6, StartStep
<1>2. CASE Submit(f)
  <2>. DEFINE new == [flow[f] EXCEPT !.pc = "registering"]
  <2>1. At(f, "review") /\ Start(f, "register", new)
    BY <1>2 DEF Submit
  <2>2. new \in Flow /\ new.pc = "registering" /\ new.user = 0 /\ new.email = flow[f].email
        /\ new.name = flow[f].name
    BY <2>1 DEF Flow, Waiting, At, Inv, Named, HasAccount
  <2>3. IsFilled(new) /\ new.email # None
    BY <2>1, <2>2 DEF IsFilled, InWizard, WithWallet, At, Inv, Filled
  <2>4. flow[f].pc \notin Waiting
    BY <2>1 DEF At, Waiting
  <2>5. Start(f, Asks[new.pc], new)
    BY <2>1, <2>2 DEF Asks
  <2>6. new.pc \in Waiting \ {"updating", "connecting", "verifying"}
    BY <2>2 DEF Waiting
  <2>. QED BY <2>2, <2>3, <2>4, <2>5, <2>6, StartStep
<1>3. CASE Leave(f)
  <2>1. flow[f].pc \notin Waiting /\ Become(f, NoFlow, session) /\ UNCHANGED <<accountVars, away>>
    BY <1>3 DEF Leave, Waiting
  <2>2. NoFlow \in Flow /\ NoFlow.pc \notin Waiting /\ IsFilled(NoFlow) /\ NoFlow.user = 0
        /\ NoFlow.pc \notin HasAccount
    BY DEF NoFlow, Flow, Waiting, IsFilled, InWizard, WithWallet, HasAccount
  <2>. QED BY <2>1, <2>2, TurnStep
<1>4. CASE AskStatus(f)
  <2>1. PICK w \in Wallets : Start(f, "status", [NoFlow EXCEPT !.pc = "asking", !.wallet = w])
    BY <1>4 DEF AskStatus
  <2>. DEFINE new == [NoFlow EXCEPT !.pc = "asking", !.wallet = w]
  <2>2. new \in Flow /\ new.pc = "asking" /\ new.user = 0 /\ new.wallet = w
    BY DEF NoFlow, Flow, Waiting
  <2>3. IsFilled(new)
    BY <2>2, NoneIsNothing DEF IsFilled, InWizard, WithWallet
  <2>4. flow[f].pc \notin Waiting
    BY <1>4 DEF AskStatus, At, Waiting
  <2>5. Start(f, Asks[new.pc], new)
    BY <2>1, <2>2 DEF Asks
  <2>6. new.pc \in Waiting \ {"updating", "connecting", "verifying"}
    BY <2>2 DEF Waiting
  <2>. QED BY <2>2, <2>3, <2>4, <2>5, <2>6, StartStep
<1>5. CASE SignIn(f)
  <2>1. PICK w \in Wallets : Become(f, [NoFlow EXCEPT !.pc = "signing", !.wallet = w], session)
    BY <1>5 DEF SignIn
  <2>. DEFINE new == [NoFlow EXCEPT !.pc = "signing", !.wallet = w]
  <2>2. new \in Flow /\ new.pc = "signing" /\ new.user = 0 /\ new.wallet = w
    BY DEF NoFlow, Flow
  <2>3. IsFilled(new) /\ new.pc \notin Waiting /\ new.pc \notin HasAccount
    BY <2>2, NoneIsNothing DEF IsFilled, InWizard, WithWallet, Waiting, HasAccount
  <2>4. flow[f].pc \notin Waiting /\ UNCHANGED <<accountVars, away>>
    BY <1>5 DEF SignIn, At, Waiting
  <2>. QED BY <2>1, <2>2, <2>3, <2>4, TurnStep
<1>6. CASE SignChallenge(f)
  <2>1. PICK n \in Fresh : Post(f, "verify", [flow[f] EXCEPT !.user = n])
    BY <1>6 DEF SignChallenge
  <2>. DEFINE form == [flow[f] EXCEPT !.user = n]
              new == [flow[f] EXCEPT !.pc = "verifying"]
  <2>2. /\ At(f, "signing") /\ Become(f, new, session)
        /\ UNCHANGED <<users, owner, tokens, memory, away>>
    BY <1>6 DEF SignChallenge
  <2>3. n \in Nat /\ n # 0
    BY DEF Fresh
  <2>4. form \in Flow /\ form.wallet = flow[f].wallet /\ form.user = n
    BY <2>3 DEF Flow
  <2>5. new \in Flow /\ new.pc = "verifying" /\ new.wallet = flow[f].wallet /\ new.user = 0
    BY <2>2 DEF Flow, Waiting, At, Inv, Named, HasAccount
  <2>6. flow[f].wallet # None /\ flow[f].pc \notin Waiting
    BY <2>2 DEF At, Inv, Filled, WithWallet, Waiting
  <2>7. "verify" \in Kinds /\ Post(f, "verify", form)
    BY <2>1 DEF Kinds
  <2>. HIDE DEF form, new
  <2>8. PICK q \in Calls, c \in Call :
           /\ call[q].stage = "free" /\ Turns(q, c)
           /\ c.flow = f /\ c.stage = "sent" /\ c.issued = 0 /\ c.kind = "verify"
           /\ c.token = 0 /\ c.wallet = form.wallet /\ c.challenge = form.user
    BY <2>4, <2>7, Posted
  <2>9. Moves(f, new) /\ session' = session
    BY <2>2, <2>5, Became
  <2>10. /\ new.pc \in Waiting \ {"updating"} /\ c.kind = Asks[new.pc] /\ c.kind \notin Guarded
         /\ IsFilled(new) /\ KeepsAccount(f, new) /\ new.pc # "connecting"
    BY <2>5, <2>6, <2>8
    DEF Waiting, Asks, Guarded, IsFilled, InWizard, WithWallet, KeepsAccount, HasAccount
  <2>. QED BY <2>2, <2>3, <2>4, <2>5, <2>6, <2>8, <2>9, <2>10, PostStep
<1>7. CASE OnContinue(f)
  <2>1. PICK w \in Wallets : Start(f, "connect", [NoFlow EXCEPT !.pc = "linking", !.wallet = w])
    BY <1>7 DEF OnContinue
  <2>. DEFINE new == [NoFlow EXCEPT !.pc = "linking", !.wallet = w]
  <2>2. new \in Flow /\ new.pc = "linking" /\ new.user = 0 /\ new.wallet = w
    BY DEF NoFlow, Flow, Waiting
  <2>3. IsFilled(new)
    BY <2>2, NoneIsNothing DEF IsFilled, InWizard, WithWallet
  <2>4. flow[f].pc \notin Waiting /\ session.token # 0
    BY <1>7 DEF OnContinue, At, Waiting, Inv, References
  <2>5. Start(f, Asks[new.pc], new)
    BY <2>1, <2>2 DEF Asks
  <2>6. new.pc \in Waiting \ {"updating", "connecting", "verifying"}
    BY <2>2 DEF Waiting
  <2>. QED BY <2>2, <2>3, <2>4, <2>5, <2>6, StartStep
<1>8. CASE LoadProfile(f)
  <2>. DEFINE new == [NoFlow EXCEPT !.pc = "reading"]
  <2>1. Start(f, "me", new)
    BY <1>8 DEF LoadProfile
  <2>2. new \in Flow /\ new.pc = "reading" /\ new.user = 0
    BY DEF NoFlow, Flow, Waiting
  <2>3. IsFilled(new)
    BY <2>2 DEF IsFilled, InWizard, WithWallet
  <2>4. flow[f].pc \notin Waiting /\ session.token # 0
    BY <1>8 DEF LoadProfile, At, Waiting, Inv, References
  <2>5. Start(f, Asks[new.pc], new)
    BY <2>1, <2>2 DEF Asks
  <2>6. new.pc \in Waiting \ {"updating", "connecting", "verifying"}
    BY <2>2 DEF Waiting
  <2>. QED BY <2>2, <2>3, <2>4, <2>5, <2>6, StartStep
<1>. QED BY <1>1, <1>2, <1>3, <1>4, <1>5, <1>6, <1>7, <1>8 DEF Wizard, SigningIn, OtherPages

(* The answers that end in a page without a request. *)
LEMMA AnswerStep ==
  ASSUME Inv, NEW f \in Flows, NEW q \in Calls, NEW pc, Gets(f, q, pc, {"yes"} \cup Refused),
         pc \in Waiting, NEW new \in Flow, Become(f, new, After(call[q].answer)), Take(q),
         new.pc \notin Waiting, IsFilled(new), KeepsAccount(f, new),
         pc = "verifying" \/ away' = away,
         away' = (away \/ (call[q].answer = "unauthorized" /\ pc = "verifying")),
         UNCHANGED <<users, owner, tokens, memory>>
  PROVE  Inv'
<1>1. call[q].flow = f /\ call[q].stage = "answered" /\ flow[f].pc = pc /\ f # None
  BY ItsCall DEF Gets, At
<1>2. away' \in BOOLEAN /\ (away => away')
  BY DEF Inv, Types
<1>3. ~away' => After(call[q].answer) = session
  <2>1. CASE pc = "verifying"
    BY <2>1 DEF After, EndsSession
  <2>2. CASE pc # "verifying"
    <3>1. call[q].kind # "verify"
      BY <1>1, <2>2, WaitsFor
    <3>. QED BY <1>1, <1>2, <2>2, <3>1, Stays
  <2>. QED BY <2>1, <2>2
<1>4. GoodSession(After(call[q].answer))
  BY GoodSessions
<1>. QED BY <1>1, <1>2, <1>3, <1>4, TakeStep

LEMMA Receives ==
  ASSUME Inv, NEW f \in Flows, NEW q \in Calls, Receive(f, q)
  PROVE  Inv'
<1>. flow[f] \in Flow /\ session \in Session /\ call[q] \in Call
  BY DEF Inv, Types
<1>0. /\ NoFlow \in Flow /\ NoFlow.pc \notin Waiting /\ IsFilled(NoFlow) /\ NoFlow.user = 0
      /\ KeepsAccount(f, NoFlow)
  BY DEF NoFlow, Flow, Waiting, IsFilled, InWizard, WithWallet, KeepsAccount, HasAccount
<1>1. CASE ToReview(f, q)
  <2>1. /\ Gets(f, q, "naming", {"yes"} \cup Refused) /\ Take(q)
        /\ UNCHANGED <<users, owner, tokens, memory, away>>
    BY <1>1 DEF ToReview
  <2>. DEFINE new == IF call[q].answer = "yes" THEN [flow[f] EXCEPT !.pc = "review"] ELSE NoFlow
  <2>2. Become(f, new, After(call[q].answer))
    BY <1>1 DEF ToReview
  <2>3. [flow[f] EXCEPT !.pc = "review"] \in Flow
    BY DEF Flow
  <2>4. flow[f].pc = "naming" /\ flow[f].user = 0 /\ flow[f].email # None /\ flow[f].name # None
    BY <2>1 DEF Gets, At, Inv, Named, Filled, HasAccount, InWizard
  <2>5. /\ new \in Flow /\ new.pc \notin Waiting /\ IsFilled(new) /\ KeepsAccount(f, new)
    BY <1>0, <2>3, <2>4
    DEF Flow, Waiting, IsFilled, InWizard, WithWallet, KeepsAccount, HasAccount
  <2>6. "naming" \in Waiting
    BY DEF Waiting
  <2>. HIDE DEF new
  <2>7. away' = (away \/ (call[q].answer = "unauthorized" /\ "naming" = "verifying"))
    BY <2>1 DEF Inv, Types
  <2>. QED BY <2>1, <2>2, <2>5, <2>6, <2>7, AnswerStep
<1>2. CASE Registered(f, q)
  <2>. DEFINE s == SignedUp(call[q].issued)
              new == [flow[f] EXCEPT !.pc = "updating", !.user = tokens[call[q].issued].user]
              n == [NoCall EXCEPT !.kind = "updateMe", !.flow = f,
                      !.token = s.token, !.stage = "sent", !.name = new.name]
  <2>1. /\ Gets(f, q, "registering", {"yes"}) /\ Become(f, new, s)
        /\ call' = [call EXCEPT ![q] = n] /\ UNCHANGED <<users, owner, tokens, memory, away>>
    BY <1>2 DEF Registered
  <2>2. /\ call[q].flow = f /\ call[q].stage = "answered" /\ call[q].answer = "yes"
        /\ flow[f].pc = "registering" /\ f # None
    BY <2>1, ItsCall DEF Gets, At
  <2>3. Made(q)
    BY <2>2, WaitsFor DEF Made, Told
  <2>4. call[q].issued \in DOMAIN tokens /\ MadeBy(q) \in DOMAIN users /\ users \in Seq(User)
    BY <2>3, ExistingUsers DEF Inv, Types, References, Made
  <2>5. GoodSession(s) /\ s.token = call[q].issued
    BY <2>4, GoodSessions DEF SignedUp
  <2>6. tokens[call[q].issued].user \in Nat
    BY <2>4 DEF MadeBy
  <2>7. /\ new \in Flow /\ new.pc = "updating" /\ new.user = MadeBy(q)
        /\ new.name = flow[f].name /\ new.email = flow[f].email
    BY <2>6 DEF Flow, Waiting, MadeBy
  <2>8. /\ n \in Call /\ n.flow = f /\ n.stage = "sent" /\ n.kind = "updateMe" /\ n.issued = 0
        /\ n.token = s.token /\ n.name = new.name
    <3>1. new.name \in Names \cup {None} /\ s.token \in Nat
      BY <2>5, <2>7 DEF Flow, GoodSession, Session
    <3>. HIDE DEF new, s
    <3>. QED BY <3>1 DEF NoCall, Call, Kinds
  <2>. HIDE DEF n, new, s
  <2>9. Turns(q, n)
    BY <2>1, <2>8 DEF Turns, Inv, Types
  <2>10. Moves(f, new) /\ session' = s
    BY <2>1, <2>7, Became
  <2>. QED BY <2>1, <2>2, <2>3, <2>5, <2>7, <2>8, <2>9, <2>10, RegisteredStep
<1>3. CASE Updated(f, q)
  <2>1. /\ Gets(f, q, "updating", {"yes"}) /\ UNCHANGED <<users, owner, tokens, memory, away>>
    BY <1>3 DEF Updated, Stored
  <2>2. /\ call[q].flow = f /\ call[q].stage = "answered" /\ call[q].answer = "yes"
        /\ flow[f].pc = "updating" /\ f # None
    BY <2>1, ItsCall DEF Gets, At
  <2>3. /\ flow[f].email # None /\ flow[f].name # None /\ flow[f].pc \in HasAccount
        /\ users[flow[f].user].name = flow[f].name
    BY <2>2, WaitsFor DEF Inv, Filled, Agreed, Told, InWizard, HasAccount
  <2>4. CASE flow[f].wallet = None
    <3>. DEFINE new == [flow[f] EXCEPT !.pc = "done", !.calm = TRUE]
    <3>1. Become(f, new, session) /\ Take(q)
      BY <1>3, <2>4 DEF Updated
    <3>2. /\ new \in Flow /\ new.pc = "done" /\ new.user = flow[f].user
          /\ new.email = flow[f].email /\ new.name = flow[f].name
      BY DEF Flow
    <3>. HIDE DEF new
    <3>3. new.pc \notin Waiting /\ IsFilled(new) /\ KeepsAccount(f, new)
      BY <2>3, <3>2 DEF Waiting, IsFilled, InWizard, WithWallet, KeepsAccount
    <3>4. away' \in BOOLEAN /\ away' = away /\ GoodSession(session)
      BY <2>1, GoodSessions DEF Inv, Types
    <3>. QED BY <2>1, <2>2, <3>1, <3>2, <3>3, <3>4, TakeStep
  <2>5. CASE flow[f].wallet # None
    <3>. DEFINE new == [flow[f] EXCEPT !.pc = "connecting"]
                n == [NoCall EXCEPT !.kind = "connect", !.flow = f,
                        !.token = session.token, !.stage = "sent", !.wallet = new.wallet]
    <3>1. Become(f, new, session) /\ call' = [call EXCEPT ![q] = n]
      BY <1>3, <2>5 DEF Updated
    <3>2. /\ new \in Flow /\ new.pc = "connecting" /\ new.user = flow[f].user
          /\ new.email = flow[f].email /\ new.name = flow[f].name
          /\ new.wallet = flow[f].wallet /\ new.calm = flow[f].calm
      BY DEF Flow, Waiting
    <3>3. /\ n \in Call /\ n.flow = f /\ n.stage = "sent" /\ n.kind = "connect" /\ n.issued = 0
          /\ n.token = session.token /\ n.wallet = new.wallet
      <4>1. new.wallet \in Wallets \cup {None} /\ session.token \in Nat
        BY <3>2 DEF Flow, Session
      <4>. HIDE DEF new
      <4>. QED BY <4>1 DEF NoCall, Call, Kinds
    <3>. HIDE DEF n, new
    <3>4. Turns(q, n)
      BY <3>1, <3>3 DEF Turns, Inv, Types
    <3>5. Moves(f, new) /\ session' = session
      BY <3>1, <3>2, Became
    <3>6. /\ new.pc \in Waiting \ {"updating"} /\ n.kind = Asks[new.pc]
          /\ n.kind # "updateMe" /\ n.kind # "register" /\ n.kind # "verify"
          /\ IsFilled(new) /\ KeepsAccount(f, new) /\ n.wallet # None
      BY <2>3, <2>5, <3>2, <3>3
      DEF Waiting, Asks, IsFilled, InWizard, WithWallet, KeepsAccount
    <3>7. ~away => n.token # 0
      BY <2>2, <3>3 DEF Inv, Staying
    <3>8. new.calm => n.token # 0 /\ session.user = new.user
      BY <2>2, <3>2, <3>3 DEF Inv, Undisturbed
    <3>. QED BY <2>1, <2>2, <3>2, <3>3, <3>4, <3>5, <3>6, <3>7, <3>8, PostStep
  <2>. QED BY <2>4, <2>5
<1>4. CASE SubmitFails(f, q)
  <2>. DEFINE new == [flow[f] EXCEPT !.pc = "review", !.user = 0, !.calm = TRUE]
  <2>1. /\ Become(f, new, After(call[q].answer)) /\ Take(q)
        /\ UNCHANGED <<users, owner, tokens, memory, away>>
    BY <1>4 DEF SubmitFails
  <2>2. PICK pc \in {"registering", "updating"} : Gets(f, q, pc, {"yes"} \cup Refused)
    BY <1>4 DEF SubmitFails, Gets
  <2>3. /\ new \in Flow /\ new.pc = "review" /\ new.user = 0
        /\ new.email = flow[f].email /\ new.name = flow[f].name
    BY DEF Flow
  <2>4. flow[f].email # None /\ flow[f].name # None
    BY <2>2 DEF Gets, At, Inv, Filled, InWizard
  <2>. HIDE DEF new
  <2>5. new.pc \notin Waiting /\ IsFilled(new) /\ KeepsAccount(f, new) /\ pc \in Waiting
        /\ pc # "verifying"
    BY <2>2, <2>3, <2>4 DEF Waiting, IsFilled, InWizard, WithWallet, KeepsAccount, HasAccount
  <2>6. away' = (away \/ (call[q].answer = "unauthorized" /\ pc = "verifying"))
    BY <2>1, <2>5 DEF Inv, Types
  <2>. QED BY <2>1, <2>2, <2>3, <2>5, <2>6, AnswerStep
<1>5. CASE Connected(f, q)
  <2>. DEFINE new == [flow[f] EXCEPT !.pc = "done", !.calm = TRUE]
  <2>1. /\ Become(f, new, After(call[q].answer)) /\ Take(q)
        /\ Gets(f, q, "connecting", {"yes"} \cup Refused)
        /\ UNCHANGED <<users, owner, tokens, memory, away>>
    BY <1>5 DEF Connected
  <2>2. /\ new \in Flow /\ new.pc = "done" /\ new.user = flow[f].user
        /\ new.email = flow[f].email /\ new.name = flow[f].name
    BY DEF Flow
  <2>3. /\ flow[f].email # None /\ flow[f].name # None /\ flow[f].pc \in HasAccount
        /\ users[flow[f].user].name = flow[f].name
    BY <2>1 DEF Gets, At, Inv, Filled, Named, InWizard, HasAccount
  <2>. HIDE DEF new
  <2>4. new.pc \notin Waiting /\ IsFilled(new) /\ KeepsAccount(f, new) /\ "connecting" \in Waiting
    BY <2>2, <2>3 DEF Waiting, IsFilled, InWizard, WithWallet, KeepsAccount
  <2>5. away' = (away \/ (call[q].answer = "unauthorized" /\ "connecting" = "verifying"))
    BY <2>1 DEF Inv, Types
  <2>. QED BY <2>1, <2>2, <2>4, <2>5, AnswerStep
<1>6. CASE HasStatus(f, q)
  <2>1. /\ Gets(f, q, "asking", {"yes"} \cup Refused) /\ Take(q)
        /\ UNCHANGED <<users, owner, tokens, memory, away>>
    BY <1>6 DEF HasStatus
  <2>. DEFINE new == IF call[q].answer = "yes" THEN [flow[f] EXCEPT !.pc = "signing"] ELSE NoFlow
  <2>2. Become(f, new, After(call[q].answer))
    BY <1>6 DEF HasStatus
  <2>3. [flow[f] EXCEPT !.pc = "signing"] \in Flow
    BY DEF Flow
  <2>4. flow[f].pc = "asking" /\ flow[f].user = 0 /\ flow[f].wallet # None
    BY <2>1 DEF Gets, At, Inv, Named, Filled, HasAccount, WithWallet
  <2>5. /\ new \in Flow /\ new.pc \notin Waiting /\ IsFilled(new) /\ KeepsAccount(f, new)
    BY <1>0, <2>3, <2>4
    DEF Flow, Waiting, IsFilled, InWizard, WithWallet, KeepsAccount, HasAccount
  <2>6. "asking" \in Waiting
    BY DEF Waiting
  <2>. HIDE DEF new
  <2>7. away' = (away \/ (call[q].answer = "unauthorized" /\ "asking" = "verifying"))
    BY <2>1 DEF Inv, Types
  <2>. QED BY <2>1, <2>2, <2>5, <2>6, <2>7, AnswerStep
<1>7. CASE SignedIn(f, q)
  <2>1. /\ Gets(f, q, "verifying", {"yes"}) /\ Take(q) /\ Become(f, NoFlow, SessionOf(call[q].issued))
        /\ UNCHANGED <<users, owner, tokens, memory, away>>
    BY <1>7 DEF SignedIn
  <2>2. /\ call[q].flow = f /\ call[q].stage = "answered" /\ call[q].answer = "yes"
        /\ flow[f].pc = "verifying" /\ f # None
    BY <2>1, ItsCall DEF Gets, At
  <2>3. call[q].kind = "verify"
    BY <2>2, WaitsFor
  <2>4. call[q].issued \in DOMAIN tokens
    BY <2>2, <2>3 DEF Inv, References, Told
  <2>5. GoodSession(SessionOf(call[q].issued)) /\ SessionOf(call[q].issued).token # 0
    BY <2>4, GoodSessions
  <2>6. away' \in BOOLEAN /\ away' = away
    BY <2>1 DEF Inv, Types
  <2>. QED BY <1>0, <2>1, <2>2, <2>5, <2>6, TakeStep
<1>8. CASE SignInFails(f, q)
  <2>1. /\ Gets(f, q, "verifying", {"yes"} \cup Refused) /\ Take(q)
        /\ Become(f, NoFlow, After(call[q].answer))
        /\ away' = (away \/ call[q].answer = "unauthorized")
        /\ UNCHANGED <<users, owner, tokens, memory>>
    BY <1>8 DEF SignInFails, Gets
  <2>2. "verifying" \in Waiting
    BY DEF Waiting
  <2>3. away' = (away \/ (call[q].answer = "unauthorized" /\ "verifying" = "verifying"))
    BY <2>1
  <2>. QED BY <1>0, <2>1, <2>2, <2>3, AnswerStep
<1>9. CASE Loaded(f, q)
  <2>1. PICK pc \in {"linking", "reading"} : Gets(f, q, pc, {"yes"} \cup Refused)
    BY <1>9 DEF Loaded
  <2>2. /\ Take(q) /\ Become(f, NoFlow, After(call[q].answer))
        /\ UNCHANGED <<users, owner, tokens, memory, away>>
    BY <1>9 DEF Loaded
  <2>3. pc \in Waiting /\ pc # "verifying"
    BY DEF Waiting
  <2>4. away' = (away \/ (call[q].answer = "unauthorized" /\ pc = "verifying"))
    BY <2>2, <2>3 DEF Inv, Types
  <2>. QED BY <1>0, <2>1, <2>2, <2>3, <2>4, AnswerStep
<1>. QED BY <1>1, <1>2, <1>3, <1>4, <1>5, <1>6, <1>7, <1>8, <1>9 DEF Receive

-----------------------------------------------------------------------------
(* The theorems. *)

LEMMA Start0 ==
  ASSUME Init
  PROVE  Inv
<1>1. /\ tokens = <<>> /\ revoked = {} /\ used = {} /\ boot = 1
      /\ call = [q \in Calls |-> NoCall] /\ session = NoSession
      /\ flow = [f \in Flows |-> NoFlow] /\ away = FALSE
  BY DEF Init, AccountsInit
<1>2. users \in Seq(User) /\ owner \in [Wallets -> 0 .. Len(users)]
  <2>1. CASE users = <<>> /\ owner = [w \in Wallets |-> 0]
    BY <2>1
  <2>2. CASE \E e \in Emails, n \in Names, w \in Wallets :
               /\ users = <<[email |-> e, name |-> n]>>
               /\ owner = [v \in Wallets |-> IF v = w THEN 1 ELSE 0]
    <3>1. PICK e \in Emails, n \in Names, w \in Wallets :
               /\ users = <<[email |-> e, name |-> n]>>
               /\ owner = [v \in Wallets |-> IF v = w THEN 1 ELSE 0]
      BY <2>2
    <3>2. [email |-> e, name |-> n] \in User
      BY DEF User
    <3>3. users \in Seq(User) /\ Len(users) = 1
      BY <3>1, <3>2
    <3>. QED BY <3>1, <3>3
  <2>. QED BY <2>1, <2>2 DEF Init, AccountsInit
<1>3. NoCall \in Call /\ NoFlow \in Flow /\ NoSession \in Session
  BY DEF NoCall, Call, NoFlow, Flow, NoSession, Session
<1>4. \A q \in Calls : /\ call[q] = NoCall /\ call[q].stage = "free" /\ call[q].flow = None
                       /\ call[q].token = 0 /\ call[q].issued = 0
  BY <1>1 DEF NoCall
<1>5. \A f \in Flows : flow[f].pc = "idle" /\ flow[f].user = 0
  BY <1>1 DEF NoFlow
<1>6. DOMAIN tokens = {} /\ tokens \in Seq(Token) /\ session.token = 0 /\ session.user = 0
  BY <1>1 DEF NoSession
<1>7. Types
  BY <1>1, <1>2, <1>3, <1>6 DEF Types
<1>8. References
  BY <1>4, <1>6 DEF References, Told
<1>9. Attended /\ Filled
  BY <1>4, <1>5 DEF Attended, Filled, Waiting, InWizard, WithWallet, Open
<1>10. Named /\ Untold /\ Agreed
  BY <1>4, <1>5 DEF Named, Untold, Agreed, HasAccount, Made, GivesName, Told
<1>11. Undisturbed /\ Staying
  BY <1>1, <1>4, <1>5, <1>6 DEF Undisturbed, WalletFollowsWizard, Staying, Told
<1>12. Noted
  BY <1>4, <1>6 DEF Noted, OneLoginPerChallenge, SameLogin
<1>. QED BY <1>7, <1>8, <1>9, <1>10, <1>11, <1>12 DEF Inv

LEMMA Step ==
  ASSUME Inv, [Next]_onboardingVars
  PROVE  Inv'
<1>1. CASE \E f \in Flows : Wizard(f) \/ SigningIn(f) \/ OtherPages(f)
  BY <1>1, FlowSteps
<1>2. CASE \E f \in Flows, q \in Calls : Receive(f, q)
  BY <1>2, Receives
<1>3. CASE (\E q \in Calls : Server(q)) /\ UNCHANGED <<session, flow>>
  BY <1>3, ServerStep
<1>4. CASE Ends /\ away' = TRUE /\ UNCHANGED <<session, flow>>
  BY <1>4, RestartStep, LogoutStep DEF Ends
<1>5. CASE Disconnect
  BY <1>5, DisconnectStep
<1>6. CASE Passes /\ UNCHANGED <<session, flow, away>>
  BY <1>6, PassesStep
<1>7. CASE UNCHANGED onboardingVars
  <2>. USE <1>7 DEF onboardingVars, accountVars
  <2>1. Types' /\ References'
    BY DEF Inv, Types, References, Told
  <2>2. Attended' /\ Filled'
    BY DEF Inv, Attended, Filled, Open
  <2>3. Named' /\ Untold' /\ Agreed'
    BY DEF Inv, Named, Untold, Agreed, Made, MadeBy, GivesName, NamedBy, Told
  <2>4. Undisturbed' /\ Staying' /\ Noted'
    BY DEF Inv, Undisturbed, WalletFollowsWizard, Staying, Noted, OneLoginPerChallenge, SameLogin, Told
  <2>. QED BY <2>1, <2>2, <2>3, <2>4 DEF Inv
<1>. QED BY <1>1, <1>2, <1>3, <1>4, <1>5, <1>6, <1>7 DEF Next

(* The invariant holds in every state of the accounts and the pages. *)
THEOREM OnboardingInvariant == Spec => []Inv
<1>1. Init => Inv
  BY Start0
<1>2. Inv /\ [Next]_onboardingVars => Inv'
  BY Step
<1>. QED BY <1>1, <1>2, PTL DEF Spec

(* Every variable has its type, a flow waits for one request, and the      *)
(* token and the user in localStorage are of one login.                    *)
THEOREM OnboardingTyped == Spec => []TypeOK
<1>1. Inv => TypeOK
  BY DEF Inv, Types, References, Attended, TypeOK
<1>. QED BY <1>1, OnboardingInvariant, PTL

(* A wizard that says the account is made is right: its address has the    *)
(* account and the account has its name (handleSubmit, updateProfile).     *)
THEOREM DoneRegistered == Spec => []DoneIsRegistered
<1>1. ASSUME Inv, NEW f \in Flows, flow[f].pc = "done"
      PROVE  users[flow[f].user] = [email |-> flow[f].email, name |-> flow[f].name]
  <2>1. /\ flow[f].user \in DOMAIN users /\ users[flow[f].user].email = flow[f].email
        /\ users[flow[f].user].name = flow[f].name
    BY <1>1 DEF Inv, Named, HasAccount
  <2>2. users \in Seq(User)
    BY <1>1 DEF Inv, Types
  <2>3. users[flow[f].user] \in User
    BY <2>1, <2>2
  <2>. QED BY <2>1, <2>3 DEF User
<1>2. Inv => DoneIsRegistered
  BY <1>1 DEF DoneIsRegistered
<1>. QED BY <1>2, OnboardingInvariant, PTL

(* An undisturbed wizard connects its wallet to the account it has made:   *)
(* the token that is stored then is still that of its registration.        *)
THEOREM WalletFollows == Spec => []WalletFollowsWizard
<1>1. Inv => WalletFollowsWizard
  BY DEF Inv, Undisturbed
<1>. QED BY <1>1, OnboardingInvariant, PTL

(* verifyChallenge: until its time bounds are over a signed challenge logs *)
(* in once with a process, however often it is delivered and although a    *)
(* timer of the process drops the note of it.                              *)
THEOREM OneLogin == Spec => []OneLoginPerChallenge
<1>1. Inv => OneLoginPerChallenge
  BY DEF Inv, Noted
<1>. QED BY <1>1, OnboardingInvariant, PTL

(* Nobody is signed out by an answer while nobody went away: the           *)
(* interceptor sees no 401 but that of a login that is refused.            *)
THEOREM Stay == Spec => SessionStays
<1>1. ASSUME Inv, Inv', [Next]_onboardingVars
      PROVE  [~away' /\ session.token # 0 => session'.token # 0]_onboardingVars
  <2>. SUFFICES ASSUME ~away', session.token # 0, Next
                PROVE  session'.token # 0
    BY <1>1
  <2>1. CASE \E f \in Flows : Wizard(f) \/ SigningIn(f) \/ OtherPages(f)
    <3>1. session' = session
      BY <2>1 DEF Wizard, SigningIn, OtherPages, GoNext, Submit, Leave, AskStatus, SignIn,
                  SignChallenge, OnContinue, LoadProfile, Start, Become
    <3>. QED BY <3>1
  <2>2. ASSUME NEW f \in Flows, NEW q \in Calls, Receive(f, q)
        PROVE  session'.token # 0
    <3>1. \A pc \in Waiting : \A answers : Gets(f, q, pc, answers) =>
            /\ call[q].stage = "answered" /\ call[q].flow = f /\ f # None
            /\ call[q].kind = "verify" <=> pc = "verifying"
      BY <1>1, ItsCall, WaitsFor DEF Gets, At
    <3>2. CASE ToReview(f, q) \/ SubmitFails(f, q) \/ Connected(f, q) \/ HasStatus(f, q)
               \/ Loaded(f, q)
      <4>1. PICK pc \in Waiting \ {"verifying"} :
              Gets(f, q, pc, {"yes"} \cup Refused) \/ Gets(f, q, pc, Refused)
              \/ Gets(f, q, pc, Refused \ Stored)
        BY <3>2 DEF ToReview, SubmitFails, Connected, HasStatus, Loaded, Waiting
      <4>2. call[q].stage = "answered" /\ call[q].kind # "verify"
        BY <3>1, <4>1
      <4>3. ~away /\ session' = After(call[q].answer)
        BY <3>2 DEF ToReview, SubmitFails, Connected, HasStatus, Loaded, Become
      <4>. QED BY <1>1, <4>2, <4>3, Stays
    <3>3. CASE Registered(f, q)
      <4>1. /\ Gets(f, q, "registering", {"yes"}) /\ session' = SessionOf(call[q].issued)
        BY <3>3 DEF Registered, Become, SignedUp
      <4>2. call[q].flow = f /\ call[q].flow # None /\ Told(q, "yes") /\ flow[f].pc = "registering"
        BY <1>1, <4>1, ItsCall DEF Gets, At, Told
      <4>3. call[q].issued \in DOMAIN tokens
        BY <1>1, <4>2, WaitsFor DEF Inv, References
      <4>. QED BY <1>1, <4>1, <4>3, GoodSessions
    <3>4. CASE Updated(f, q)
      BY <3>4 DEF Updated, Become
    <3>5. CASE SignedIn(f, q)
      <4>1. /\ Gets(f, q, "verifying", {"yes"}) /\ session' = SessionOf(call[q].issued)
        BY <3>5 DEF SignedIn, Become
      <4>2. call[q].flow = f /\ call[q].flow # None /\ Told(q, "yes") /\ flow[f].pc = "verifying"
        BY <1>1, <4>1, ItsCall DEF Gets, At, Told
      <4>3. call[q].issued \in DOMAIN tokens
        BY <1>1, <4>2, WaitsFor DEF Inv, References
      <4>. QED BY <1>1, <4>1, <4>3, GoodSessions
    <3>6. CASE SignInFails(f, q)
      BY <3>6 DEF SignInFails, Become, After, EndsSession
    <3>. QED BY <2>2, <3>2, <3>3, <3>4, <3>5, <3>6 DEF Receive
  <2>3. CASE UNCHANGED session
    BY <2>3
  <2>4. CASE (Ends /\ away' = TRUE) \/ Disconnect
    BY <2>4 DEF Disconnect
  <2>. QED BY <2>1, <2>2, <2>3, <2>4 DEF Next
<1>2. Inv /\ Inv' /\ [Next]_onboardingVars =>
        [~away' /\ session.token # 0 => session'.token # 0]_onboardingVars
  BY <1>1
<1>. QED BY <1>2, OnboardingInvariant, PTL DEF Spec, SessionStays
=============================================================================
