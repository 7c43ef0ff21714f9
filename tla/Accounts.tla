------------------------------- MODULE Accounts -------------------------------
(***************************************************************************)
(* The backend's accounts: AuthService (registration, SEP-10 login with a  *)
(* wallet, revocation), the guard of the other routes, UsersService and    *)
(* the route that connects a wallet.  Used challenges, for as long as a    *)
(* timer runs, and revoked tokens are kept in memory.  A handler whose only protection is a unique index  *)
(* is one step: what it looks up before decides which error is answered.   *)
(***************************************************************************)
EXTENDS Naturals, Sequences

CONSTANTS
  Emails, Names, Wallets,
  Calls,        \* requests under way
  Flows,        \* what waits for the answers
  FixedSecret,  \* JWT_SECRET is configured
  MaxTokens,    \* bound: tokens issued
  MaxChallenges,\* bound: challenges issued
  MaxBoots,     \* bound: starts of the process
  None

ASSUME SecretType == FixedSecret \in BOOLEAN
ASSUME BoundsType == {MaxTokens, MaxChallenges, MaxBoots} \subseteq Nat
ASSUME NoneIsNothing == None \notin Emails \cup Names \cup Wallets \cup Flows

VARIABLES
  users,   \* table User, in the order of creation; the position is the id
  owner,   \* table Wallet: the user of an address, 0 if it is not connected
  tokens,  \* tokens issued, in order
  revoked, \* revokedTokens
  used,    \* usedChallenges
  timers,  \* those of them whose timer ends while they are still accepted
  overdue, \* challenges whose time bounds are over
  boot,    \* starts of the process
  call     \* the requests

accountVars == <<users, owner, tokens, revoked, used, timers, overdue, boot, call>>
memory == <<revoked, used, timers, overdue, boot>>

User == [email : Emails, name : Names \cup {None}]
(* For a login, the challenge it answered, otherwise 0.  A token of an     *)
(* earlier process is valid if the secret is.                              *)
Token == [user : Nat, challenge : Nat, boot : Nat, valid : BOOLEAN]
Kinds == {"checkName", "register", "updateMe", "connect", "status", "verify", "me"}
Call == [kind : Kinds \cup {None}, flow : Flows \cup {None}, token : Nat,
         email : Emails \cup {None}, name : Names \cup {None},
         wallet : Wallets \cup {None}, challenge : Nat, issued : Nat,
         stage : {"free", "sent", "noted", "answered"},
         answer : {None, "yes", "no", "unauthorized"}]

NoCall == [kind |-> None, flow |-> None, token |-> 0, email |-> None, name |-> None,
           wallet |-> None, challenge |-> 0, issued |-> 0, stage |-> "free",
           answer |-> None]

(* There may be an account that has connected a wallet. *)
AccountsInit ==
  /\ \/ users = <<>> /\ owner = [w \in Wallets |-> 0]
     \/ \E e \in Emails, n \in Names, w \in Wallets :
          users = <<[email |-> e, name |-> n]>> /\ owner = [v \in Wallets |-> IF v = w THEN 1 ELSE 0]
  /\ tokens = <<>>
  /\ revoked = {} /\ used = {} /\ timers = {} /\ overdue = {} /\ boot = 1
  /\ call = [q \in Calls |-> NoCall]

Arrived(q, kind) == call[q].stage = "sent" /\ call[q].kind = kind

(* A call nobody waits for any more is over when it is answered. *)
Answered(c, answer, issued) ==
  IF c.flow = None THEN NoCall
  ELSE [NoCall EXCEPT !.kind = c.kind, !.flow = c.flow, !.stage = "answered",
                      !.answer = answer, !.issued = issued]
Answer(q, answer) == call' = [call EXCEPT ![q] = Answered(@, answer, 0)]

(* signToken *)
Issue(q, user, challenge) ==
  /\ Len(tokens) < MaxTokens
  /\ tokens' = Append(tokens, [user |-> user, challenge |-> challenge,
                               boot |-> boot, valid |-> TRUE])
  /\ call' = [call EXCEPT ![q] = Answered(@, "yes", Len(tokens) + 1)]

-----------------------------------------------------------------------------
(* Routes that anybody may use. *)

EmailTaken(email) == \E u \in DOMAIN users : users[u].email = email
NameTaken(name, me) == \E u \in DOMAIN users \ {me} : users[u].name = name

Register(q) ==
  /\ Arrived(q, "register")
  /\ IF EmailTaken(call[q].email)
     THEN Answer(q, "no") /\ UNCHANGED <<users, tokens>>
     ELSE /\ users' = Append(users, [email |-> call[q].email, name |-> None])
          /\ Issue(q, Len(users) + 1, 0)
  /\ UNCHANGED <<owner, memory>>

CheckUsername(q) ==
  /\ Arrived(q, "checkName")
  /\ Answer(q, IF NameTaken(call[q].name, 0) THEN "no" ELSE "yes")
  /\ UNCHANGED <<users, owner, tokens, memory>>

WalletStatus(q) ==
  /\ Arrived(q, "status")
  /\ Answer(q, IF owner[call[q].wallet] # 0 THEN "yes" ELSE "no")
  /\ UNCHANGED <<users, owner, tokens, memory>>

(* verifyChallenge, up to its query: a challenge is noted before anything  *)
(* else.  It may be too old: readChallengeTx of the SDK accepts it for     *)
(* some minutes after its time bounds are over, and no longer when a timer *)
(* ends that was started that late.                                        *)
NoteChallenge(q) ==
  /\ Arrived(q, "verify")
  /\ \/ Answer(q, "unauthorized")
     \/ /\ call[q].challenge \notin used
        /\ call' = [call EXCEPT ![q].stage = "noted"]
  /\ used' = used \cup {call[q].challenge}
  /\ timers' = timers \cup ({call[q].challenge} \ (used \cup overdue))
  /\ UNCHANGED <<users, owner, tokens, revoked, overdue, boot>>

(* The rest: the account the wallet is connected to. *)
Login(q) ==
  LET u == owner[call[q].wallet]
  IN /\ call[q].stage = "noted"
     /\ IF u = 0 THEN Answer(q, "unauthorized") /\ UNCHANGED tokens
                 ELSE Issue(q, u, call[q].challenge)
     /\ UNCHANGED <<users, owner, memory>>

-----------------------------------------------------------------------------
(* Routes behind JwtAuthGuard. *)

Admits(k) == k # 0 /\ tokens[k].valid /\ k \notin revoked
Sender(q) == tokens[call[q].token].user

(* updateProfile; the index on the name has the last word. *)
UpdateProfile(q) ==
  /\ Arrived(q, "updateMe")
  /\ IF ~Admits(call[q].token)
     THEN Answer(q, "unauthorized") /\ UNCHANGED users
     ELSE IF NameTaken(call[q].name, Sender(q))
     THEN Answer(q, "no") /\ UNCHANGED users
     ELSE /\ users' = [users EXCEPT ![Sender(q)].name = call[q].name]
          /\ Answer(q, "yes")
  /\ UNCHANGED <<owner, tokens, memory>>

(* connect: an address is connected once and for all. *)
ConnectWallet(q) ==
  LET w == call[q].wallet
  IN /\ Arrived(q, "connect")
     /\ IF ~Admits(call[q].token)
        THEN Answer(q, "unauthorized") /\ UNCHANGED owner
        ELSE IF owner[w] # 0
        THEN Answer(q, "no") /\ UNCHANGED owner
        ELSE owner' = [owner EXCEPT ![w] = Sender(q)] /\ Answer(q, "yes")
     /\ UNCHANGED <<users, tokens, memory>>

(* Any route that only reads. *)
ReadProfile(q) ==
  /\ Arrived(q, "me")
  /\ Answer(q, IF Admits(call[q].token) THEN "yes" ELSE "unauthorized")
  /\ UNCHANGED <<users, owner, tokens, memory>>

(* logout, which only clients other than the pages use.  That the validity *)
(* of a token ends is no different for the pages.                          *)
Logout(k) ==
  /\ Admits(k)
  /\ revoked' = revoked \cup {k}
  /\ UNCHANGED <<users, owner, tokens, used, timers, overdue, boot, call>>

Handle(q) ==
  \/ Register(q) \/ CheckUsername(q) \/ WalletStatus(q) \/ NoteChallenge(q) \/ Login(q)
  \/ UpdateProfile(q) \/ ConnectWallet(q) \/ ReadProfile(q)

-----------------------------------------------------------------------------
(* Around it. *)

(* A request is lost before it is served, or its answer is: then the       *)
(* server still works on it, for nobody.  The pages treat the error of the *)
(* network as they treat a refusal, so it is the same answer.  A login is  *)
(* delivered twice.                                                        *)
Orphan(q) ==
  \E p \in Calls : /\ call[p].stage = "free"
                   /\ call' = [call EXCEPT ![p] = [call[q] EXCEPT !.flow = None],
                                           ![q] = Answered(@, "no", 0)]
Lose(q) ==
  /\ call[q].stage = "sent" /\ call[q].flow # None
  /\ Answer(q, "no")
     \/ (call[q].kind \in {"register", "updateMe", "connect", "verify"} /\ Orphan(q))
  /\ UNCHANGED <<users, owner, tokens, memory>>

Redeliver(q) ==
  /\ Arrived(q, "verify")
  /\ \E p \in Calls : /\ call[p].stage = "free"
                      /\ call' = [call EXCEPT ![p] = [call[q] EXCEPT !.flow = None]]
  /\ UNCHANGED <<users, owner, tokens, memory>>

(* External: the time bounds of a challenge, CHALLENGE_TIMEOUT_S seconds   *)
(* from its issue, are over; of one that is on its way.                    *)
Expire(n) ==
  /\ n \notin overdue
  /\ \E q \in Calls : call[q].challenge = n
  /\ overdue' = overdue \cup {n}
  /\ UNCHANGED <<users, owner, tokens, revoked, used, timers, boot, call>>

(* Slip: the timer ends before the time bounds do. *)
ForgetEarly(n) ==
  /\ n \in timers
  /\ used' = used \ {n} /\ timers' = timers \ {n}
  /\ UNCHANGED <<users, owner, tokens, revoked, overdue, boot, call>>

(* The timer that the noting of a challenge started runs for as long as    *)
(* its time bounds are wide: when it ends they are over.                   *)
ForgetChallenge(n) ==
  /\ n \in timers \cap overdue
  /\ used' = used \ {n} /\ timers' = timers \ {n}
  /\ UNCHANGED <<users, owner, tokens, revoked, overdue, boot, call>>

(* The process restarts: what was in memory is gone, and the tokens with   *)
(* it when the secret was made up at the start.                            *)
Restart ==
  /\ boot < MaxBoots
  /\ boot' = boot + 1
  /\ revoked' = {} /\ used' = {} /\ timers' = {}
  /\ tokens' = [k \in DOMAIN tokens |->
                  [tokens[k] EXCEPT !.valid = @ /\ FixedSecret]]
  /\ call' = [q \in Calls |-> IF call[q].stage \in {"sent", "noted"}
                              THEN Answered(call[q], "no", 0) ELSE call[q]]
  /\ UNCHANGED <<users, owner, overdue>>
=============================================================================
