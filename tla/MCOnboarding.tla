---------------------------- MODULE MCOnboarding ----------------------------
(* A small instance of Onboarding for TLC. *)
EXTENDS Onboarding, FiniteSets, TLC

BrowserSymmetry == Permutations(Flows) \cup Permutations(Calls) \cup Permutations(Emails)

(* What no action and no property reads any more: the wallet of a flow     *)
(* whose request has it, the account and the end of a token that nobody    *)
(* holds, and the process that issued a token which is not of a login.     *)
HeldToken(k) == k = session.token \/ \E q \in Calls : k \in {call[q].token, call[q].issued}
LiveToken(k) == [tokens[k] EXCEPT !.user = IF HeldToken(k) THEN @ ELSE 0,
                                  !.boot = IF tokens[k].challenge = 0 THEN 0 ELSE @]
LiveFlow(f) == IF flow[f].pc \in {"verifying", "linking", "connecting", "done"}
               THEN [flow[f] EXCEPT !.wallet = None] ELSE flow[f]
(* Nor what becomes of a challenge that nobody is going to send: it is not *)
(* issued again.                                                           *)
Carried(n) == \E q \in Calls : call[q].challenge = n
LoggedIn(n) == Cardinality({k \in DOMAIN tokens : tokens[k].challenge = n})
Challenges == <<used \cup {n \in overdue : ~Carried(n)}, {n \in timers : Carried(n)},
                {n \in overdue : Carried(n) \/ LoggedIn(n) > 1}>>
LiveState == <<users, owner, [k \in DOMAIN tokens |-> LiveToken(k)],
               {k \in revoked : HeldToken(k)}, Challenges, boot, call, session,
               [f \in Flows |-> LiveFlow(f)], away>>
=============================================================================
