------------------------------ MODULE Onboarding ------------------------------
(***************************************************************************)
(* The pages that create a session: the sign-up wizard, the sign-in of the *)
(* navigation bar and of the login page, the page that connects a wallet;  *)
(* and the session in localStorage, which all tabs of a browser share.     *)
(* A flow is the asynchronous function behind a button.  It goes on when   *)
(* its page is left, and attaches to each request the token that is stored *)
(* then.                                                                   *)
(***************************************************************************)
EXTENDS Accounts

VARIABLES
  session, \* localStorage; the address and the name kept for display are left out
  flow,    \* local state of the flows
  away     \* has a session been ended, or a login been refused?

onboardingVars == <<accountVars, session, flow, away>>

Session == [token : Nat, user : Nat]
Waiting == {"naming", "registering", "updating", "connecting", "asking", "verifying",
            "linking", "reading"}
Flow == [pc : {"idle", "review", "done", "signing"} \cup Waiting,
         email : Emails \cup {None}, name : Names \cup {None},
         wallet : Wallets \cup {None},
         user : Nat,     \* the account the wizard has made
         calm : BOOLEAN] \* has nobody else changed the session since?

NoSession == [token |-> 0, user |-> 0]
SessionOf(k) == [token |-> k, user |-> tokens[k].user]
NoFlow == [pc |-> "idle", email |-> None, name |-> None, wallet |-> None,
           user |-> 0, calm |-> TRUE]

Init ==
  /\ AccountsInit
  /\ session = NoSession
  /\ flow = [f \in Flows |-> NoFlow]
  /\ away = FALSE

-----------------------------------------------------------------------------
(* A step of a flow. *)

At(f, pc) == flow[f].pc = pc

(* Its new state and that of the session, which a wizard under way may     *)
(* notice.                                                                 *)
Disturbed(g) == [flow[g] EXCEPT !.calm = @ /\ flow[g].pc \notin {"updating", "connecting"}]
Become(f, new, s) ==
  /\ session' = s
  /\ flow' = [g \in Flows |-> IF g = f THEN new
                              ELSE IF s.token = session.token THEN flow[g] ELSE Disturbed(g)]

(* A request, with the token that is stored if the route asks for one. *)
Post(f, kind, new) ==
  \E q \in Calls :
    /\ call[q].stage = "free"
    /\ call' = [call EXCEPT ![q] =
         [NoCall EXCEPT !.kind = kind, !.flow = f, !.stage = "sent",
            !.token = IF kind \in {"connect", "me"} THEN session.token ELSE 0,
            !.email = IF kind = "register" THEN new.email ELSE None,
            !.name = IF kind \in {"checkName", "updateMe"} THEN new.name ELSE None,
            !.wallet = IF kind \in {"connect", "status", "verify"} THEN new.wallet ELSE None,
            !.challenge = IF kind = "verify" THEN new.user ELSE 0]]

Start(f, kind, new) ==
  /\ Post(f, kind, new)
  /\ Become(f, new, session)
  /\ UNCHANGED <<users, owner, tokens, memory, away>>

(* The answer to the request of a flow. *)
Gets(f, q, pc, answers) ==
  /\ At(f, pc) /\ call[q].flow = f
  /\ call[q].stage = "answered" /\ call[q].answer \in answers
Take(q) == call' = [call EXCEPT ![q] = NoCall]
Refused == {"no", "unauthorized"}

(* Slip: any error ends the session. *)
AnyError(answer) == answer \in Refused
(* The interceptor of client.ts clears the session at a 401. *)
EndsSession(answer) == answer = "unauthorized"
After(answer) == IF EndsSession(answer) THEN NoSession ELSE session

-----------------------------------------------------------------------------
(* The wizard. *)

(* "Continue" with a form that is filled in and well-formed.  The wallet   *)
(* may come from its third step or from the navigation bar, or be missing  *)
(* for a buyer.                                                            *)
GoNext(f) ==
  /\ flow[f].pc \in {"idle", "review"}
  /\ \E e \in Emails, n \in Names, w \in Wallets \cup {None} :
       Start(f, "checkName",
         [NoFlow EXCEPT !.pc = "naming", !.email = e, !.name = n, !.wallet = w])

ToReview(f, q) ==
  /\ Gets(f, q, "naming", {"yes"} \cup Refused)
  /\ Become(f, IF call[q].answer = "yes" THEN [flow[f] EXCEPT !.pc = "review"] ELSE NoFlow,
            After(call[q].answer))
  /\ Take(q)
  /\ UNCHANGED <<users, owner, tokens, memory, away>>

Submit(f) ==
  /\ At(f, "review")
  /\ Start(f, "register", [flow[f] EXCEPT !.pc = "registering"])

(* Slip: only the token is stored. *)
TokenOnly(k) == [session EXCEPT !.token = k]
(* Slip: a session that is there already is kept. *)
KeepsSession(k) == IF session.token # 0 THEN session ELSE SessionOf(k)
(* setToken, setUserId *)
SignedUp(k) == SessionOf(k)

(* The account exists: store the session, send the rest of the profile.    *)
Registered(f, q) ==
  LET s == SignedUp(call[q].issued)
      new == [flow[f] EXCEPT !.pc = "updating", !.user = tokens[call[q].issued].user]
  IN /\ Gets(f, q, "registering", {"yes"})
     /\ Become(f, new, s)
     /\ call' = [call EXCEPT ![q] = [NoCall EXCEPT !.kind = "updateMe", !.flow = f,
                   !.token = s.token, !.stage = "sent", !.name = new.name]]
     /\ UNCHANGED <<users, owner, tokens, memory, away>>

(* Slip: a profile that cannot be stored is passed over. *)
EvenUnstored == {"yes"} \cup Refused
Stored == {"yes"}

(* The profile is stored: connect the wallet, if there is one. *)
Updated(f, q) ==
  LET new == [flow[f] EXCEPT !.pc = "connecting"]
  IN /\ Gets(f, q, "updating", Stored)
     /\ IF flow[f].wallet = None
        THEN Become(f, [flow[f] EXCEPT !.pc = "done", !.calm = TRUE], session) /\ Take(q)
        ELSE /\ Become(f, new, session)
             /\ call' = [call EXCEPT ![q] = [NoCall EXCEPT !.kind = "connect", !.flow = f,
                  !.token = session.token, !.stage = "sent", !.wallet = new.wallet]]
     /\ UNCHANGED <<users, owner, tokens, memory, away>>

(* Back to the form with an error: the account may exist all the same.     *)
SubmitFails(f, q) ==
  /\ \/ Gets(f, q, "registering", Refused)
     \/ Gets(f, q, "updating", Refused \ Stored)
  /\ Become(f, [flow[f] EXCEPT !.pc = "review", !.user = 0, !.calm = TRUE],
            After(call[q].answer))
  /\ Take(q)
  /\ UNCHANGED <<users, owner, tokens, memory, away>>

(* Whatever becomes of the wallet. *)
Connected(f, q) ==
  /\ Gets(f, q, "connecting", {"yes"} \cup Refused)
  /\ Become(f, [flow[f] EXCEPT !.pc = "done", !.calm = TRUE], After(call[q].answer))
  /\ Take(q)
  /\ UNCHANGED <<users, owner, tokens, memory, away>>

(* The page is left, or the next one opened; a request goes on.            *)
Leave(f) ==
  /\ flow[f].pc \in {"review", "done", "signing"}
  /\ Become(f, NoFlow, session)
  /\ UNCHANGED <<accountVars, away>>

-----------------------------------------------------------------------------
(* Signing in. *)

(* AppNav asks whether the wallet is known before it asks for a signature; *)
(* a wallet that is not known goes to the wizard.                          *)
AskStatus(f) ==
  /\ At(f, "idle")
  /\ \E w \in Wallets :
       Start(f, "status", [NoFlow EXCEPT !.pc = "asking", !.wallet = w])

HasStatus(f, q) ==
  /\ Gets(f, q, "asking", {"yes"} \cup Refused)
  /\ Become(f, IF call[q].answer = "yes" THEN [flow[f] EXCEPT !.pc = "signing"] ELSE NoFlow,
            After(call[q].answer))
  /\ Take(q)
  /\ UNCHANGED <<users, owner, tokens, memory, away>>

(* The login page does not. *)
SignIn(f) ==
  /\ At(f, "idle")
  /\ \E w \in Wallets : Become(f, [NoFlow EXCEPT !.pc = "signing", !.wallet = w], session)
  /\ UNCHANGED <<accountVars, away>>

(* loginWithFreighter: a new challenge is signed and sent. *)
Fresh == {n \in 1 .. MaxChallenges :
            /\ n \notin used \cup overdue
            /\ \A q \in Calls : call[q].challenge # n
            /\ \A k \in DOMAIN tokens : tokens[k].challenge # n}
SignChallenge(f) ==
  /\ At(f, "signing")
  /\ \E n \in Fresh : /\ \A m \in Fresh : n <= m
                      /\ Post(f, "verify", [flow[f] EXCEPT !.user = n])
  /\ Become(f, [flow[f] EXCEPT !.pc = "verifying"], session)
  /\ UNCHANGED <<users, owner, tokens, memory, away>>

SignedIn(f, q) ==
  LET k == call[q].issued
  IN /\ Gets(f, q, "verifying", {"yes"})
     /\ Become(f, NoFlow, SessionOf(k))
     /\ Take(q)
     /\ UNCHANGED <<users, owner, tokens, memory, away>>

(* Also of a login that is refused the interceptor makes the end of the    *)
(* session there was.                                                      *)
SignInFails(f, q) ==
  /\ Gets(f, q, "verifying", Refused)
  /\ Become(f, NoFlow, After(call[q].answer))
  /\ away' = (away \/ call[q].answer = "unauthorized")
  /\ Take(q)
  /\ UNCHANGED <<users, owner, tokens, memory>>

-----------------------------------------------------------------------------
(* Other pages. *)

(* The page that connects a wallet asks the server only for somebody who   *)
(* is signed in.                                                           *)
OnContinue(f) ==
  /\ At(f, "idle") /\ session.user # 0
  /\ \E w \in Wallets :
       Start(f, "connect", [NoFlow EXCEPT !.pc = "linking", !.wallet = w])

(* The profile of the navigation bar, and all that the dashboard loads.    *)
LoadProfile(f) ==
  /\ At(f, "idle") /\ session.user # 0
  /\ Start(f, "me", [NoFlow EXCEPT !.pc = "reading"])

Loaded(f, q) ==
  /\ Gets(f, q, "linking", {"yes"} \cup Refused) \/ Gets(f, q, "reading", {"yes"} \cup Refused)
  /\ Become(f, NoFlow, After(call[q].answer))
  /\ Take(q)
  /\ UNCHANGED <<users, owner, tokens, memory, away>>

(* "Disconnect", in any tab and at any time. *)
Disconnect ==
  /\ session.token # 0
  /\ session' = NoSession
  /\ flow' = [f \in Flows |-> Disturbed(f)]
  /\ away' = TRUE
  /\ UNCHANGED accountVars

-----------------------------------------------------------------------------
Wizard(f) == GoNext(f) \/ Submit(f) \/ Leave(f)
SigningIn(f) == AskStatus(f) \/ SignIn(f) \/ SignChallenge(f)
OtherPages(f) == OnContinue(f) \/ LoadProfile(f)
Receive(f, q) ==
  ToReview(f, q) \/ Registered(f, q) \/ Updated(f, q) \/ SubmitFails(f, q)
  \/ Connected(f, q) \/ HasStatus(f, q) \/ SignedIn(f, q) \/ SignInFails(f, q) \/ Loaded(f, q)

Server(q) == (Handle(q) \/ Lose(q) \/ Redeliver(q)) /\ UNCHANGED away
Passes == \E n \in 1 .. MaxChallenges : Expire(n) \/ ForgetChallenge(n)
Ends == Restart \/ \E k \in DOMAIN tokens : Logout(k)

Next ==
  \/ \E f \in Flows : Wizard(f) \/ SigningIn(f) \/ OtherPages(f)
  \/ \E f \in Flows, q \in Calls : Receive(f, q)
  \/ (\E q \in Calls : Server(q)) /\ UNCHANGED <<session, flow>>
  \/ Passes /\ UNCHANGED <<session, flow, away>>
  \/ Ends /\ away' = TRUE /\ UNCHANGED <<session, flow>>
  \/ Disconnect

Spec == Init /\ [][Next]_onboardingVars

-----------------------------------------------------------------------------
(* Properties. *)

(* Every variable has its type, a flow waits for one request, and the      *)
(* token and the user of the session are of one login.                     *)
TypeOK ==
  /\ users \in Seq(User)
  /\ owner \in [Wallets -> 0 .. Len(users)]
  /\ tokens \in Seq(Token)
  /\ revoked \subseteq DOMAIN tokens
  /\ call \in [Calls -> Call]
  /\ session \in Session
  /\ flow \in [Flows -> Flow]
  /\ \A f \in Flows : flow[f].pc \in Waiting => \E q \in Calls : call[q].flow = f
  /\ session.user = IF session.token = 0 THEN 0 ELSE tokens[session.token].user

(* A wizard that says the account is made is right: the account of its     *)
(* address has the name it was filled in with, whatever other pages do     *)
(* with the session meanwhile.                                             *)
DoneIsRegistered ==
  \A f \in Flows : flow[f].pc = "done" =>
    users[flow[f].user] = [email |-> flow[f].email, name |-> flow[f].name]

(* A wizard connects its wallet to the account it has made, unless the     *)
(* session was changed while it waited.                                    *)
WalletFollowsWizard ==
  \A f \in Flows, q \in Calls :
    flow[f].pc = "connecting" /\ flow[f].calm /\ call[q].flow = f /\ call[q].stage = "sent"
    => call[q].token # 0 /\ tokens[call[q].token].user = flow[f].user

(* While nobody disconnects or is refused a login, no token ends and the   *)
(* process goes on, who has signed in stays so: no answer to another       *)
(* request ends the session.                                               *)
SessionStays == [][~away' /\ session.token # 0 => session'.token # 0]_onboardingVars

(* Until its time bounds are over a challenge logs in once with a process, *)
(* however often and however overlapping the signed challenge is           *)
(* delivered, and although the note of it is dropped by a timer.           *)
SameLogin(k, l) ==
  /\ tokens[k].challenge # 0 /\ tokens[k].challenge = tokens[l].challenge
  /\ tokens[k].boot = tokens[l].boot
OneLoginPerChallenge ==
  \A k, l \in DOMAIN tokens :
    SameLogin(k, l) /\ tokens[k].challenge \notin overdue => k = l
=============================================================================
