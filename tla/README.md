# Kreav in TLA+

Kreav sells digital products. A buyer pays in pesos through a payment gateway;
the platform then pays the creators of the product in USDC, through a Soroban
contract on Stellar, and mails the product. An order of a creator without a
wallet waits until one is connected. Creators withdraw through a simulated
off-ramp or a SEP-24 anchor.

This directory holds TLA+ models of the parts of that program in which order,
concurrency and failure decide whether money moves once, is recorded and shown
truthfully and ends up with the right person: the backend, the contract, and
the pages of the frontend that have a state of their own. TLC configurations
check them on small instances; TLAPS proofs hold for every value of the
constants.

## 1. Inventory

Paths are relative to `src/backend/src/` unless they start with `src/` or
`app/`, which is `src/frontend/src/app/`.

| Component | State it keeps | Operations | Talks to |
| --- | --- | --- | --- |
| Order state machine (`orders/order-state-machine.ts`) | none: a table | `canTransition`, `isTerminal` | asked by orders and by the settlement handler |
| Orders (`orders/`) | table `Order` | `checkout`, `handleGcashPayment` (webhook) | reads products and wallets, emits `payment.received` |
| Wallets (`wallets/wallets.service.ts`) | table `Wallet` | `connect`, `resumeWaitingWalletOrders` | reads orders, emits `payment.received` |
| Settlement handler (`stellar/settlement.service.ts`) | `Order`, `Settlement`, `SettlementRecipient`; local variables of suspended runs | `handlePaymentReceived`, `recoverAlreadySettled`, `recordSettlementSuccess`, `recordRecoveredSettlement`, `handleSettlementError` | listens to `payment.received`, calls the RPC client and Horizon, emits `settlement.completed` |
| Soroban RPC client (`stellar/soroban-rpc.service.ts`) | none | `invokeSettle` and its polling, `getTransactionStatus`, `isSettled` | the Stellar network |
| Startup recovery (`common/startup/startup-recovery.service.ts`) | none; reads `Order`, `Settlement` | `onApplicationBootstrap`, `recoverOrder`, `recoverSettlementPending` | the RPC client, the recording of the settlement service, emits `payment.received` |
| Product delivery (`notifications/`) | table `NotificationLog` | `handleSettlementCompleted`, `send` | listens to `settlement.completed`, the mail provider |
| Settlement contract (`src/smartcontract/src/lib.rs`) | configuration, a marker for every settled order | `initialize`, `settle`, `is_settled` | the USDC token contract |
| Products (`products/products.service.ts`) | `Product`, `ProductCollaborator` | `create`, `update`, `setStatus` | read by orders and settlement |
| Withdrawals (`withdrawals/withdrawals.service.ts`) | table `Withdrawal` | `requestWithdrawal`, `getWithdrawal` (completes lazily), the withdrawable balance | reads wallets and settlement recipients |
| Anchor off-ramp (`withdrawals/anchor/`) | the same table | `interactive`, `transaction`, `build-payment`, `submit-payment` | a SEP-24 anchor |
| Sponsored trustlines (`stellar/sponsorship.service.ts`, `wallets/wallets-trustline.controller.ts`) | none | `prepare`, `submit` | shares the platform account's sequence number with settlements |
| Authentication (`auth/`) | used challenges and revoked tokens in memory, table `User` | challenge, verify, register, login, logout, the guard | wallet signatures |
| Users (`users/`) | the profile in `User` | `updateProfile`, `checkUsername` | the database |
| Mini-site (`site/site.service.ts`) | part of `User`; `SocialLink`, `CustomLink`, `FeaturedProduct` | `updateSite` | the database |
| Session (`src/frontend/src/lib/api/session.ts`, `client.ts`, `useSession.ts`) | the token and the user in localStorage, shared by all tabs | store, clear on 401, attach to requests | every page |
| Sign-up, sign-in, connecting a wallet (`app/(app)/signup/`, `login/`, the navigation bar) | the step of the wizard, what was typed | each button an asynchronous function | authentication, users, wallets, the wallet extension |
| Checkout page (`app/(app)/store/[id]/page.tsx`) | the order and the step in the page, the order in sessionStorage, an interval | buy, pay, poll, try again | orders |
| Withdrawal dialogs (`app/(app)/dashboard/wallet/page.tsx`) | the phase, the transaction or receipt, an interval | start, sign and send, poll; submit, read the receipt | withdrawals, the anchor |
| Product form (`app/(app)/dashboard/products/page.tsx`) | the product edited, the fields, what is pending | new, edit, archive, submit, close | products |
| Mini-site editor (`app/(app)/dashboard/site/page.tsx`) | the fields, a snapshot, edit and save flags | load, edit, cancel, save | mini-site |
| Trustline panel and banner (`app/(app)/dashboard/`) | the step of the activation | activate, sign, submit | sponsored trustlines |
| Analytics, float monitor, Horizon client | none | aggregates, a periodic log, balance and trustline reads | the database, Horizon |
| Marketing pages, layout, canvases, integration scripts | none that anything relies on | | |

**How they interact.** The backend is one Node.js process. Components share one
PostgreSQL database and an in-process event bus: `payment.received` is emitted
by the webhook, by a wallet connection and by startup recovery, and handled by
the settlement handler; `settlement.completed` is emitted when a settlement is
recorded and handled by product delivery. Events are kept in memory only. All
settlements, and sponsored trustlines, are signed by one Stellar account. An
order takes this path:

    checkout -> PAYMENT_PENDING -> webhook -> PAYMENT_RECEIVED or WAITING_WALLET
             -> handler -> SETTLEMENT_PENDING -> contract -> row, SETTLED -> mail

The frontend talks to the backend by HTTP calls whose answers nothing orders.
What a page knows of an order, a withdrawal or a product is what the last
answer said; tabs share the session in localStorage and nothing else.

**What is hard.**

- *Concurrency without locks.* Every handler runs from `await` to `await`, and
  nothing locks an order. The only atomic guards are unique indexes (payment
  reference, wallet address, settlement per order, withdrawal reference, email,
  username), the contract's marker and the account's sequence number.
- *Failure in the middle.* A settlement is one row, one update and one event
  after an irreversible payment; the process may die between any two of them.
- *Not knowing.* An RPC request may fail after the transaction has arrived, a
  transaction may lag or expire, an old one is no longer found; an answer to the
  browser may be lost after the server has done its work.
- *Retries and duplicates.* The gateway repeats webhooks, the handler repeats
  invocations, recovery repeats events, people press buttons again.
- *Answers that come late.* A page goes on while its calls are in flight, is
  left or loaded again, and may get the answer of an earlier step.
- *Rounding*, done in Rust, in TypeScript over base units, and in cents.

**What makes each part correct.**

- Intake: an acknowledged payment is never lost; a repeated one changes nothing.
- Handler, ledger, recovery and delivery together: money leaves at most once and
  only for a paid order; the database says so only when it is so, and names the
  transaction and the split that were paid; in the end every order is decided,
  and what was paid is delivered.
- Contract: all or nothing, once per order, no unit created or lost, fair parts.
- Products and mini-site: what an update replaces is replaced as a whole, and a
  product on sale always has somebody to pay.
- Withdrawals: never more than was settled; references without gap or
  duplicate; a final status is final and, for an anchor, the anchor's.
- Sponsorship: one payment per wallet, and a page that says activated is right.
- Accounts: a wizard that says done has made the account, and the wallet went to
  that account; a challenge logs in once while it is valid; a session ends only
  for a reason.
- Pages: what is shown as paid or complete is; one press makes one withdrawal
  and one product; what was typed for one thing is not saved to another; a page
  that waits says in the end what became of it, or that it takes long.

The list of what is hard to test, at the lines where it bites, is under
`hazards` in `PROJECT.json`, with the properties that cover each.

## 2. Modules

### The pipeline

    OrderStateMachine            the table of legal moves
    Marketplace                  shared state, types, fault budgets
      PaymentIntake              checkout, webhook, wallet connect
      StellarLedger              the platform account's transactions
        SettlementHandler        payment.received handler, RPC client
          StartupRecovery        recovery, and the crash before it
    SettlementPipeline           composition: Init, Next, Fairness
    PayoutPromise                abstract specification
    PipelineProperties           properties, refinement mapping
    PipelineInvariant            inductive invariant
    PipelineProofs               theorems
    MCPipeline                   instances for TLC

The variables are the tables (`order`, `settlement`, `wallet`, `roster`,
`listed`), the requests in flight (`call`, `conn`), the events that were emitted
and not yet handled (`received`, `completed`, counted per order), the mails, the
local state of the handlers and of recovery (`job`, with a `pc` for the await
it is suspended at), the stuck orders recovery still has to visit (`todo`) and
the network (`tx`, `payout`, `seqNum`).

*Grain.* One action is what runs from one `await` to the next: a query, an RPC
call, or a write with the synchronous emit behind it. `payment.received` may be
handled by any of `Workers` runs at once; startup recovery is the actor `Boot`,
awaited before the server listens, so the HTTP actions are guarded by
`~Booting`, but the handlers it wakes run next to it.

*Data.* A list of collaborators is a model value of `Rosters`; what the code can
tell of it is whether it is empty, whether the service passes it on
(`Settleable`: shares sum to 100, at most ten) and whether the contract accepts
it (`Payable`; the service lets through, for example, the same wallet twice).
Every product starts with a settleable list, as `ProductsService` makes it; a
list that is not comes only from two updates that overlap. The empty list is
never met (see `Catalogue`), so `NoRoster`, which the code has a check for, is
empty in the instances. Hashes and references are model values. A
`recovery-...` hash is `Placeholder`. Amounts do not occur; they are the subject
of the contract modules.

*The network* (external) applies a transaction of the account in the order of
sequence numbers, may apply it late, or drop it when it has expired or its
number is used. Of the contract the pipeline uses two facts, which the contract
modules establish: a `settle` that succeeds sets the marker and pays in one
step, and one whose marker is set fails. One transaction of an account can be
pending at a time.

*Faults.* `Strike(k)` spends one unit of the budget `Limit[k]`: `crash`, `rpc`,
`db` (any database request fails; the catch clause of the code takes over),
`slow` (a transaction lags, expires, is refused with TRY_AGAIN_LATER, or is
outside the window the RPC server keeps), `ledger` (a trustline or the float is
missing), `traffic` (another transaction takes the sequence number), `edit` (a
creator edits a product on sale), `mail`.

*Webhooks.* With `SerialWebhooks` the gateway sends a request for an order only
when the previous one was answered; without it requests overlap freely. A
request that ends in an error, or dies with the process, is delivered again.

*PayoutPromise* is what the whole pipeline promises of an order, in four
actions: `Pay`, `PayOut` (by one transaction, once), `Record`, `Deliver` (once).
The refinement mapping is `Promise` in `PipelineProperties`: the orders with a
reference, the successful transactions of an order, its row and its mails.

### The contract

`SettlementContract` models `initialize` and `settle` over the balances and
trustlines of the token. The three loops of `settle` (validation, split,
transfers) run one recipient per step, with every error in the order of the
code, so that a trap can hit between any two transfers; `Abandon` is what the
Soroban host does to a run that fails. Multiplications that would leave the
integer type are checked against `MaxInt`; those the code does with checked
arithmetic end in `ArithmeticOverflow`, the others in a trap, as Rust's overflow
checks do. `AtomicSettlement` is the abstract contract: one step per order, no
unit created or lost, nobody but the payer loses. `SettlementMirror` adds the
two other computations of the parts: `recordSettlementSuccess`, which computes
them in base units and stores them, and the fee, in DECIMAL(18, 2) columns that
round to the cent (`Stored`), and `ComputeSplit` of the product page, which
computes in whole cents. `ContractProperties` holds the properties, `ContractProofs`
the theorems, `MCContract` the instance.

### Withdrawals

`Withdrawals` models simulated and anchor withdrawals together, since they draw
on one balance and one table: the two reads of the balance, the reading of the
next reference and the creation of the row, the update to PROCESSING, the lazy
completion when a receipt is read, and the calls to the anchor with the mirror
of its answers. Any request may vanish at any await (`Crash`, unbounded). The
anchor is external; it may name an amount other than the one asked for, as the
creator can change it in the anchor's page. `createdAt` is taken to order rows
as they are created. The completion delay of 2.5 seconds is a receipt that may
be read at any time after it. `WithdrawalsProofs` holds the theorems,
`MCWithdrawals` the instance.

### Products and mini-site

`Catalogue` models the two places where a request replaces a set of child rows
by deleting and creating them: the collaborators of a product (after the checks
of `resolveCollaborators`) and the links and featured products of a site. Both
run in a PostgreSQL transaction at READ COMMITTED, which is external: a delete
goes for the rows that are committed when it starts, waits for a transaction
that is deleting one of them, and is blind to what that one has inserted. A row
is told apart by the request that wrote it. The two differ in one thing: the
transaction of a site starts by updating the user's row, and this lock keeps two
of them apart (`LockUser`), while two replacements of collaborators may overlap.
A transaction may fail at any point. `overlapped` is a history variable.
`CatalogueProofs` holds the theorems, `MCCatalogue` the instance.

### Sponsored trustlines

`Sponsorship` composes four parties: the pages that show a panel or a banner
(`tab`), the requests at the server (`request`: looking at the wallet, loading
the platform account, building and signing, validating what comes back, sending
with its retries), the platform account (`number`) and the ledger (`exists`,
`trusts`, `txs`). Settlements appear as `Settle`, which takes the next sequence
number. The panel signs as the creator's newest wallet when it was loaded, the
banner as the wallet of the session, which may be any that the creator has or
had (`SignsAs`); the server works for the newest wallet, and `Connect` may put
another one in between. A transaction remembers who signed it (`Signer`), and
the network takes it of the wallet it is for only. Answers are
lost (`LoseAnswer`), requests die (`Crash`), a prepared transaction is held by
somebody or expires. In `checked` a transaction has the sequence number at which
its wallet was looked at. `SponsorshipProofs` holds the theorems.

### Accounts and sessions

`Accounts` is the backend: registration, login with a signed challenge, the
guard, logout, `updateProfile`, `checkUsername`, connecting a wallet. A handler
whose only protection is a unique index is one step, since what it looked up
before decides which error is answered and nothing else; the verification of a
challenge is two, since it notes the challenge as used before it awaits the
database. Used challenges and revoked tokens are in memory and gone after
`Restart`; with a configured secret the tokens stay valid. The note of a used
challenge is dropped by a timer too (`ForgetChallenge`). It runs for as long as
the time bounds of a challenge are wide, so it ends after they are over
(`overdue`, set by the external `Expire`); the library accepts a challenge for
five minutes more, so a timer that was started before the end of the time
bounds (`timers`) may end while the challenge is still accepted. One that was
started later ends too late to matter. `Lose` loses a
request or its answer, `Redeliver` delivers a login twice.

`Onboarding` adds the browser: the flows behind the buttons of the wizard, of
the sign-in and of the page that connects a wallet, each suspended at a call;
the one session in localStorage, which the request interceptor attaches and the
response interceptor clears on every 401. `calm` in a flow records whether
anybody else has changed the session since the flow began: the promises of the
wizard are about a calm one. The pages show a request that was lost, or whose
answer was, as they show a refusal; one answer ("no") stands for both.
`OnboardingProofs` holds the theorems, `MCOnboarding` the instance.

### Pages

    Browser                      calls in flight of a page
      Checkout                   buying a product
      CashOut                    dialog of an anchor withdrawal
      WithdrawForm               dialog of a simulated withdrawal
      ProductForm                products page and its form
      SiteEditor                 editor of the mini-site
    Pages                        a tab that shows one of them
    FormProofs                   theorems about the form and the editor
      PagesProofs                theorems about all pages

`Browser` says what a call is: it is made, answered or fails, and its answer is
taken by the code that awaits it, if that still runs. `Slots` bounds the calls
in flight; answers come in any order. `from` is what the awaiting code
remembers of the page (its closure), `here` whether the page it was made from is
still mounted; leaving a page orphans its calls, loading it again forgets them.
Each page module has its own server actions, as far as the page asks. A call may
fail before or after the server did its work; the case that the page sees an
error (a timeout) and the server works on afterwards is represented by the
answer being lost: the work done is then the same and it is done earlier.

*Checkout.* `page` is the React state, `saved` the order in sessionStorage.
The interval polls whether or not the last poll was answered. `strayed` records
that an answer was taken by a page, or for an order, other than its own.

*CashOut.* Phases as in the source. The effect that starts and stops the
interval is `Effect`. One transaction of the creator's account is in the making
at a time (`number`, the wallet's sequence number, is read by `build-payment`).
`muddled` records that the answer of a payment was lost, or that a late poll
brought the button back.

*WithdrawForm.* A receipt is completed by a reading once the withdrawal is old
enough (`Age`). `opening` counts how often the dialog was opened; `unheard` the
openings that were shown an error though the withdrawal exists.

*ProductForm.* What is typed, and a split, are told apart by the product they
were typed for: `text = 3` is what a form held that was opened for product 3.
`desk` is the state of the page, `draft` that of the form, `sheets` counts
openings. An update is two steps, split and fields, as in
`products.service.ts`. `crossed` records the products that were fetched into a
form that was open, `untold` the forms whose product was reported as an error.

*SiteEditor.* The site is put back as a whole, so a content is a number and
everything typed is a new one. `PutElsewhere` is another tab. `bypassed` records
that the site changed and this page was not told.

*Pages* chooses one of them for the tab. They share only how calls are made, so
nothing is gained by a tab that changes pages: leaving one is an action of its
own module.


## 3. What is checked

Every property of a run that passes has a mutant: a small change of a modelled
definition (named `Slip` in the comment before it) under which TLC finds the
property violated.

| Run | Question | Instance |
| --- | --- | --- |
| `two_orders` | Two orders race for the sequence number while their product is edited. If the gateway serialises its requests, can two handlers meet, a row name a wrong transaction, a status jump, a failed order have been paid, the split on record differ from the one paid? No. | 2 orders, 1 product, 2 requests, 1 wallet connect, 2 workers, 2 hashes, 3 lists of collaborators; one crash, ledger, edit, mail and slow fault |
| `duplicates` | With overlapping webhooks and two handlers on one order, does the inductive invariant hold, is no acknowledged payment lost, and is `PayoutPromise` implemented? Yes. | 1 order, 2 requests, 2 workers, 3 hashes, 2 lists of collaborators; one crash, RPC, database and slow fault |
| `live` | Is every interrupted payment decided in the end, at the latest by a restart, and what is paid also recorded and delivered? Yes, under the conditions below. | 1 order, 2 hashes; one fault of every kind; fairness |
| `contract` | Is `settle` atomic, exact, once per order; is what the rows keep what was paid, to half a cent; is what the product form shows less than a cent off for each recipient? Yes. | 2 orders, 3 accounts of which one is the platform, lists that pass and one per error, totals at 0, 1, below a share, odd and at the limit |
| `withdrawals` | Are references consecutive, and does a completed withdrawal stay so? Yes. | 2 requests, 3 rows, 1 anchor transaction, 2 days, 1 creator |
| `catalogue` | Does a product never have nobody to pay, and one request's list unless replacements overlap; is a site the work of one request? Yes. | 3 requests, 1 creator, 1 product, 2 wallets, 3 lists of which one does not sum to 100, 2 sets of site tables |
| `sponsorship` | Is a page that says activated right about the wallet it shows, and is a wallet sponsored once? Yes, up to what was prepared earlier. | 1 creator, 2 wallets, 1 page, 2 requests, 2 attempts, 2 transactions, 1 settlement |
| `onboarding` | Has a wizard that says done made the account, does the wallet go to that account while the session is not changed, does a challenge log in once until its time bounds are over, does a session end only for a reason? Yes, under the conditions below. | 2 emails, 1 username, 1 wallet, 2 calls, 2 flows, 2 tokens, 1 challenge, 1 restart, a configured secret |
| `pages` | Are the cards of the pages true, is an order that waits kept, is one press one withdrawal, one product, one payment of the anchor, is what is typed saved where it belongs, does polling end? Yes, under the conditions below. | 2 calls in flight; 2 of each of: polls, orders, payments, withdrawals, openings, products, forms, visits of the editor; 1 visit of the checkout and 1 anchor transaction |

*Why these bounds are enough to be interesting.* Within an order nothing but the
sequence number, the payment reference and the product connects it to another;
that connection is the subject of `two_orders`, and one order suffices for the
rest. Two workers are the least at which handlers race, and two attempts the
least at which a retry can meet an earlier transaction that arrived. Three
hashes let a retry and a second handler each send one more. Each run of the
pipeline has one fault of each kind its question is about, in any combination
and at any point, which covers every pair such as a crash after a failed request:
failed requests and database errors in `duplicates`, where handlers race; edits,
a missing trustline and lost mails in `two_orders`, where two orders share a
product and an account; all eight kinds in `live`. `IInv` and `PayoutPromise` are proved for any budgets. In the contract three recipients are the least with a
first, a middle and a last; a fee of 500 basis points over 19999 leaves a rest;
a cent is 100 units. TLC computes with 32-bit integers, so amounts are small and
`MaxInt` (120000000) stands for the end of i128, placed so that a product of
total and share crosses it. Two wallets let one be replaced while a page signs
for the other; two transactions let one meet the sequence number of another. Two
calls in flight are the least at which answers come in the wrong order; two
orders, openings or forms the least at which an answer meets a later one than
its own. The proofs of section 5 do away with the bounds of the pipeline, the
contract, the withdrawals, the catalogue, the sponsorship, the onboarding and
the pages.

No run of the pipeline has a second wallet connection: with two of them, and two
addresses, the state space is beyond TLC's reach. The properties of `two_orders`
are therefore stated of orders whose creator has connected one wallet
(`ResumedOnce`); dropping that condition, TLC soon finds `OneHandlerPerOrder`,
`LegalMoves` and `FailedUnpaidUnbroken` violated by a second connection. That the
condition is enough is proved, for any number of connections, products and
creators and any faults (section 5).

*Views.* `sponsorship` and `onboarding` are explored up to what can still matter
(`LiveState` in `MCSponsorship` and `MCOnboarding`). Of a transaction that was
prepared and that nobody holds any more nothing can matter, since only a holder
can send it, nor, once its sequence number is spent, how it came about. Of a
challenge that no request carries any more it matters only whether it was used
and whether it logged in twice in its time. Of a token that neither the session
nor a request carries nobody can ask whose it is or whether it was revoked; the
process that issued it matters for tokens of a login only (`OneLoginPerChallenge`); and the
wallet of a flow whose request carries it is not read again. No guard, no
property and no value another variable takes depends on what a view forgets, so
states with the same view have the same successors up to the view.

*Symmetry.* Hashes (safety runs only), the requests of `Withdrawals` and
`Catalogue`, pages, requests and wallets of `Sponsorship`, flows, calls and
emails of `Onboarding` are interchangeable. Deadlock is checked in `contract`,
`catalogue` and `sponsorship`. The work of the others is finite: all requests
answered and all budgets used up.

*Fairness of the pipeline* (`SettlementPipeline!Fairness`). Weak fairness of each
suspended request after its first step, of each handler, of recovery, of the
delivery listener and of the network for each transaction. Node's event loop
resumes every promise that settles, and every call has a timeout; recovery is
awaited in a loop; a transaction is applied, or its time bounds (180 seconds)
pass. No fairness is assumed of buyers, creators, the gateway, nor of any fault:
a budget need never be used. An actor's steps are one disjunction and not one
fairness condition each, as the code has no choice between them.

*Fairness of the pages* (`CheckoutFairness`, `FormFairness`). An interval fires
(`setInterval` of the source), a call is answered or fails, code that awaits an
answer takes it, and a withdrawal gets older. Nothing is assumed of the person
in front of the page, nor that a call ever succeeds.

*Conditions of liveness.* They are hypotheses of the properties, not bounds of
the run: `live` has a fault of every kind, and each property says which of them
it does without. `PaymentDecided` allows a crash and a failed RPC request, but no
lateness and no loss (`Lossless`): when polling gives up, or a transaction was
dropped, or the write of an outcome fails, the handler ends and no timer looks
at the order again before the next restart (`settlement.service.ts:566`).
`RestartDecides` is about that restart: whatever was late before, an order that
recovery finds undecided is decided if nothing is late from then on. A
transaction that `traffic` overtook is still lost to it.
`PaidOutIsDelivered` allows edits, other transactions of the account and refused
mails (a refused mail is not repeated; row and status are claimed all the same),
but no crash, failed RPC request, failed database request or lateness
(`Undisturbed`): the completion event is in memory only, polling may give up
before the payment is seen, and the catch clause may write SETTLEMENT_FAILED
after the money has moved. `PollingEnds` is about the checkout
and the simulated withdrawal; the polling of the anchor dialog stops after 80
polls and says nothing, so nothing is claimed of it.

*Limits of single properties.* Several properties end where the code does not
keep them; a history variable marks the place, so that the property says exactly
how far the code goes.

| Property | Holds | Because otherwise |
| --- | --- | --- |
| `LegalMoves` | until a database request fails, with a serial gateway and one wallet | the catch clause writes SETTLEMENT_FAILED over any status |
| `OneHandlerPerOrder`, `RecordedHashPaid` | with a serial gateway and one wallet | two overlapping webhooks, or two connections, start two handlers |
| `FailedUnpaidUnbroken`, `RecordedSplitPaid` | the same, until the process dies or a request fails | recovery reads the collaborators of today; run `failed_unpaid` |
| `SplitReplaced` | unless two replacements overlapped (`overlapped`) | both sets stay |
| `PaidOutIsDelivered` | while the process stays up and RPC, database and network answer in time | recovery settles without a mail, a retry may fail what was paid, polling gives up |
| `RecordMatchesPayment` | to half a cent | rows have two decimals, payments seven |
| `PreviewIsClose` | to less than a cent for each recipient | the form takes the fee of whole cents |
| `PaidOncePerWallet` | for what was prepared after the first sponsorship was included | the trustline is looked at once, when preparing |
| `WalletFollowsWizard`, `SessionStays` | while nobody else changes the session (`calm`, `away`) | the flows of all tabs share one session |
| `OneLoginPerChallenge` | with one process, until the time bounds of the challenge are over | a restart forgets what was used, and so does a timer, while the library still accepts the challenge |
| `CardIsTrue`, `WaitingIsKept` | while no answer strays to another page or order (`strayed`); "paid" means that settlement was asked for | the page does not compare, and takes PAYMENT_RECEIVED for the outcome |
| `SentOnce` | while no answer of a payment is lost and no late poll brings the button back (`muddled`) | the second press builds another payment |
| `MadeOnce` | but for what was reported as an error though it was made (`unheard`, `untold`) | the creator presses again |
| `FieldsStayUncrossed` | but for a product fetched into an open form (`crossed`) | run `wrong_product` |
| `EditorShowsStored` | unless another page changed the site, or the answer of a change was lost (`bypassed`) | the page cannot know |

## 4. Where the code differs from what it says

Each is a run that TLC ends with a counterexample (`findings` in
`PROJECT.json` quotes the sentence it contradicts).

| Run | What happens |
| --- | --- |
| `failed_unpaid` | An RPC error after the transaction was sent leads to a second invocation, whose refusal writes SETTLEMENT_FAILED although the first one paid. |
| `overdrawn` | A withdrawal that is not completed does not count against the balance: a second one is accepted after it, and both are completed. |
| `wrong_product` | The answer to Edit may come when the form is open for something else; the form keeps its fields, and saves them over the product that arrived. |

The models and the reading behind them show more, without a run of their own.

*Orders, settlement, delivery*

- `orders.service.ts:22-24` says that a duplicate reference is ignored without
  another emit. Two overlapping webhooks with one reference both pass the check
  of lines 84-91, both update the order and both emit `payment.received`; the
  contract's marker and the unique row keep the money safe (`PromiseKept`).
- A wallet connected between the wallet read and the update of a webhook leaves
  the order waiting, until the next connection (`orders.service.ts:107`,
  `wallets.service.ts:216-218`).
- A second wallet connected right after the first resumes the same waiting
  orders again (`wallets.service.ts:306-312` reads their status, which only the
  handler changes). Two handlers then work on one order; when one of them finds
  a trustline or the float missing while the other has sent its transaction, the
  order reads SETTLEMENT_FAILED and is paid.
- `wallets.service.ts:302-304` says that a resumed order is advanced to
  SETTLEMENT_PENDING; the code only emits the event, and when a crash loses it
  recovery does not look at orders that wait.
- `soroban-rpc.service.ts:50` says that retries never invoke again;
  `settlement.service.ts:287` does after any network error.
- `settlement.service.ts:32-34` says that the row mirrors the contract's
  result; line 509 splits by the collaborators the product has at recovery.
- After a crash between the row and the update of the order, recovery creates the
  row again, meets the unique index (line 515) and writes SETTLEMENT_FAILED (line
  346) for a settlement that is on record.
- `startup-recovery.service.ts:21` lists orders without a hash among those
  emitted again; lines 172-177 fail them.
- `startup-recovery.service.ts:20` verifies the orders being settled that carry a
  hash. The hash is stored only with the outcome (`settlement.service.ts:282`, 371,
  481), so no such order exists while one handler at a time works on each
  (`CourseInv`, section 5): an order whose transaction was sent before the crash
  is taken for one without a hash, and failed unless the marker is set already.
- `product-delivery.listener.ts:13` promises a mail for each settlement; an
  order settled by recovery or by an adopted row emits no event, or after a
  crash none is left.
- Rows store seven-decimal amounts in DECIMAL(18, 2) columns
  (`schema.prisma:279`). Each is half a cent off at most
  (`RecordMatchesPayment`), so the stored parts and fee need not add up to the
  stored total, nor to what was paid.

*Products, withdrawals, sponsorship, accounts*

- `products.service.ts:95` says that an update replaces the whole set of
  collaborators. Two updates that overlap leave both sets, whose shares sum to
  200, and the settlement handler then fails every order of the product.
- An anchor that names a higher amount than the one asked for is recorded with
  it, and the balance is not looked at again, so this alone may exceed it.
- Reading the receipt of an anchor withdrawal completes it whatever the anchor
  says (`withdrawals.service.ts:252`, against the status that
  `anchor-sep24.service.ts:119-120` reads there).
- A receipt of a PROCESSING withdrawal shows a balance before it that includes
  its amount, though it was never subtracted (`withdrawals.service.ts:275`).
- A sponsored trustline refused with `tx_bad_seq` is sent again unchanged
  (`sponsorship.service.ts:136-154`), and can never succeed. An activation
  reported as failed may have succeeded, and a reload then meets 409. A page
  signs as the address it shows while the server prepares for the newest wallet;
  when they differ, the transaction is sent and refused by the network
  (`DoneIsTrusted`). Two overlapping preparations are kept apart by
  the sequence number only.
- A sign-up whose answer was lost meets 409 when repeated, though the account
  exists; an account without a wallet cannot log in again. A refused login (401)
  is shown as an expired session and clears the session that is there, also one
  that began after the request. `session.ts:8-9` says sessionStorage, lines 21
  and 28 use localStorage. Disconnecting does not call the logout of the
  backend. Used challenges and revoked tokens are forgotten by a restart
  (`auth.service.ts:60`). Line 54 says that the store prevents a replay "within
  the validity window"; its timer (166-169) runs for as long as the time bounds
  are wide, and the library accepts a challenge for five minutes after them, so
  one that was used late is accepted once more.
- Analytics reads five aggregates without a snapshot, and does not count orders
  in WAITING_WALLET as pending payouts.

*Pages*

- Checkout takes PAYMENT_RECEIVED for paid (`mappers.ts:110`). It then says
  "Settled on Stellar and the creator was paid", and that the product was mailed
  (`store/[id]/page.tsx:226-230`), before the settlement has begun, which may
  still fail; and it stops polling and forgets the saved order, against "so the
  buyer can refresh without losing their order during settlement. Cleared on
  terminal states." (47-48). `CardIsTrue` and `WaitingIsKept` say what is left:
  the order was paid, and an order that waits for a wallet is not forgotten.
  "Payment failed… Try again" (288-294) is shown of paid orders only. `pollTimedOut` is never reset. The late answer of a poll of an
  older order changes the page, and sessionStorage, of a newer one. The saved
  order is not saved per product, and the step "paying" is not saved at all.
- Anchor dialog: after a lost answer of `submit-payment` a second press builds a
  new payment and the anchor is paid twice. A late poll that says "interactive"
  brings the button back. Polling ends silently. Closing the dialog loses the
  transaction.
- Withdrawal dialog: the poll counter starts over at each poll that succeeds; an
  error reported after the withdrawal was made leads to a second; a stale
  receipt may be headed complete with the status PROCESSING.
- Products page: switching the split off while editing keeps the stored split,
  against "Off — you keep 100%" (`page.tsx:392`, 320). After another wallet was
  connected, row 0 gets the session's wallet, which may replace a collaborator.
  The answer of a save closes whatever form is open. The preview is to match
  "what settlement will actually pay" (27-30), and takes the fee of whole cents:
  for $0.99 and one creator it shows 95 cents, the contract pays 94.05, and the
  row keeps 94.
- Site editor: the card for a failed load cannot be reached, as line 104 shows
  the skeleton instead. What is typed while saving is overwritten by the answer;
  the last save wins over other tabs; after a lost answer Cancel shows the old
  site.

## 5. What is proved

All theorems follow from the named assumptions on the constants, in the modules
that declare them, and from nothing else; they hold for any sets of orders,
creators, wallets, requests, workers, hashes, pages and calls, and any bounds
and budgets. Six theorems of the pipeline state in addition what they expect of the
gateway: that it uses a reference for one order (`OwnReferences`), an order under
one reference (`OneReference`), and awaits each answer (`SerialWebhooks`).

| Module | Theorem | Statement |
| --- | --- | --- |
| `PipelineProofs` | `Invariant` | `IInv` is an invariant |
| | `TypeCorrect` | type correctness |
| | `Settled` | `SettledMeansPaidOut`: nothing is SETTLED or on record that was not paid |
| | `KeepsPromise` | the pipeline implements `PayoutPromise` |
| | `AckedPaid` | `AckedIsPaid`, if each reference is used for one order |
| | `OneHandler` | `OneHandlerPerOrder`, if moreover an order has one reference and the gateway is serial |
| | `HashPaid` | `RecordedHashPaid`, under the same premises: a row names the transaction that paid |
| | `SplitPaid` | `RecordedSplitPaid`, likewise: the split on record is the one paid |
| | `FailedUnpaid` | `FailedUnpaidUnbroken`, likewise: what failed was not paid |
| | `MovesLegal` | `LegalMoves`, likewise: a status is written along the state machine |
| `ContractProofs` | `ContractInvariant`, `ContractTyped` | the invariant and the types |
| | `ContractAtomic` | the contract implements `AtomicSettlement` |
| | `ContractExplained` | `EventsExplainBalances`: the events account for every unit on the ledger |
| | `ContractSplits` | `SplitIsExact`: the parts are fair and add up to the pool |
| | `RecordStaysFaithful` | `RecordMatchesPayment`: the parts computed for the record are the ones paid, and the rows keep them and the fee to half a cent |
| | `PreviewStaysClose` | `PreviewIsClose`: the parts shown are less than a cent off for each recipient |
| | `MirrorOnlyReads` | the copies leave the contract alone, so all of this holds beside them |
| `CatalogueProofs` | `CatalogueInvariant`, `CatalogueTyped` | the invariant and the types |
| | `SplitsReplaced` | `SplitReplaced`: somebody to pay, and one list unless replacements overlapped |
| | `SitesWhole` | `SiteIsOneRequest`: a site is the work of one request |
| `WithdrawalsProofs` | `WithdrawalsInvariant`, `WithdrawalsTyped` | the invariant and the types |
| | `ReferencesInSequence` | `NumbersInSequence`: references of a day have no duplicate and no gap |
| | `CompletedStays` | `CompletedForGood` |
| `SponsorshipProofs` | `SponsorshipInvariant`, `SponsorshipTyped` | the invariant and the types |
| | `ActivatedIsTrusted` | `DoneIsTrusted`: a page that says activated shows the wallet that was paid for and has the trustline |
| | `PaidOnce` | `PaidOncePerWallet` |
| `OnboardingProofs` | `OnboardingInvariant`, `OnboardingTyped` | the invariant and the types |
| | `DoneRegistered` | `DoneIsRegistered`: a wizard that says done is right |
| | `WalletFollows` | `WalletFollowsWizard`: the wallet goes to the account of the wizard |
| | `OneLogin` | `OneLoginPerChallenge`: until its time bounds are over, whatever the timers drop |
| | `Stay` | `SessionStays` |
| `FormProofs` | `ProductsInvariant`, `ProductsTyped` | the invariant and the types |
| | `OwnFieldsSaved` | `FieldsStayUncrossed` |
| | `OneProductPerForm` | `CreatedOnce`, the part of `MadeOnce` about products |
| | `SiteInvariant`, `SiteTyped` | the invariant and the types |
| | `ShowsStored` | `EditorShowsStored` |
| `PagesProofs` | `PagesInvariant`, `PagesTyped` | the invariant and the types of all pages |
| | `CardsAreTrue`, `WaitingStaysKept` | `CardIsTrue`, `WaitingIsKept` of the checkout |
| | `AnchorPaidOnce`, `DonePaidOut` | `SentOnce`; complete is said only of what was paid for and completed |
| | `OneOfEach`, `CompleteIsCompleted` | `MadeOnce`; complete is said only of what is completed |
| | `FormsKeepTheirWord` | the properties of the product form and the site editor, in a tab |

*The pipeline.* `SettledMeansPaidOut` is not inductive: a handler writes SETTLED
long after it has seen the evidence. `IInv` therefore says of each suspended
handler what it has seen (`JobSound`: at the points in `PaidPc` the order is
paid out; the order it works on carries a reference; the hash it holds is of a
transaction of that order), the same of the order itself (`OrderSound`), of
transactions (`TxSound`: sent only for paid orders) and of requests
(`CallSound`). `TxPays` ties the contract's payout to exactly the successful
transactions. `MarkOnce` says that the handler that has just created the unique
row is the only one about to emit the completion, and that there is no event and
no mail yet; this is what makes the delivery unique. The proof shows first that
nothing is undone (`Grows`): references, rows, payouts and used hashes stay. So
what one handler has seen survives the steps of all others (`StableJob`), and
each action need only be examined for the objects it writes: the lemmas on
record updates, then one lemma `...Moves` or `...Step` per action, then
`InvariantStep`, which combines them. The refinement needs `IInv` at both ends
of a step: `StepKeepsPromise` shows that `Claim`, `Include`, `Record` and
`DeliverProduct` map to the four abstract actions, and all other steps stutter.

`AckedPaid` adds `AckInv` to `IInv`: the reference of an order, and that of a
request, is one the gateway uses for this order, so a reference that is found
taken was taken by the order itself. `OneHandler` adds `AloneInv`, which says of
each emitter why it meets nobody: an order whose webhook is being answered is
unpaid, so nobody works on it (`UnpaidIsQuiet`); nobody works on an order that
waits for its creator's first wallet, or that recovery has still to visit; and
recovery puts back only the order it works on.

The other four properties of `two_orders` follow from there being one handler.
`CourseInv` says of an order whose creator has connected one wallet, and of the
handler at work on it, how far they have come together. `OnCourse` gives the
status at each point of the handler: PAYMENT_RECEIVED or WAITING_WALLET before it
claims the order, SETTLEMENT_PENDING until it decides it, so that each of its
writes is a legal move. A hash is only written to an order that is being decided
(`RowsOnCourse`). So no order that recovery takes up carries one, and the
branches of `StartupRecoveryService` that verify a hash or put an order back are
not reached at all: they take a second handler. Before the first fault
(`Unbroken`) a handler has sent nothing until it polls, then one transaction,
and it knows what became of that one when it records it or fails the order
(`FirstTry`, `FirstRows`); this is what a request that fails or a crash breaks,
as the findings show. `UneditedInv` traces every split back to the product,
whatever wallets, crashes and gateways do: while nobody edits, all of them are
the same. Of a step it only has to be shown what it does to its own order; the
rest is `Untouched`, and what holds of any step is `Ahead` (faults add up, a
success stays one).

*The contract.* Its properties are about sums: of the parts of an order, of what
an account was given in all orders, of all balances. `ContractProofs` therefore
begins with sums over finite sets. A sum is a recursive function on the subsets
of a set, and a statement about it is proved by looking at a smallest subset
for which it fails (`SmallestSet`, from the well-foundedness of inclusion):
that it does not matter in which order elements are taken (`SumRemove`), what
one element more or one value changed does to it (`SumAdd`, `SumChange`), how
far two sums are apart whose terms are close (`SumClose`). The invariant has
five parts. `Running` says where a run is: the shares seen so far and their sums
(`Validated`); the parts computed so far, and that the sum distributed is what
these shares come to up to a unit for each (`Rounded`), so that the rest which
the last recipient gets is its own part and at most a unit for every other
(`LastPart`); and, between two transfers, that each balance differs from the
ledger before by just the parts sent, and that all balances together do not
differ (`Transferring`). `Settled` says that the orders marked are those with an
event, and that their parts are exact. `Explained` is `EventsExplainBalances` of
the ledger outside the run, which is what the host goes back to when the run
fails. A commit is then the one step that changes it: what was transferred is
what the new event adds on both sides. `RecordStaysFaithful` and
`PreviewStaysClose` are arithmetic on top of it: rounding to the cent is half a
cent off at most; dividing by a cent before taking the fee, and rounding down
before the parts are added, loses less than a cent each.

*The catalogue.* A delete is blind to what is committed after it started. So
`CatalogueInv` says of a request in its transaction that the rows it has marked
are all the rows there are in the places it has been to (`Exact`): for a site
because the request holds the lock of the user's row (`LockHeld`), for a product
as long as nobody else replaces (`OneReplaces`). When it commits, what is left
is what it has added (`Shape`).

*Withdrawals.* That references have no gap needs to be said of the moment
between reading the highest number and creating the row: what a request read is
at most what the table has, and the unique index lets one of two equal numbers
through.

*Sponsorship.* A transaction that was prepared for a wallet without trustline
carries a sequence number, and of two with one number one is included. The
invariant orders them by `checked`: what was looked at before the inclusion has
a number that is used up or is not a payment any more. `Signed` adds who signed:
a page holds a transaction nobody else holds, signs it as the address it shows,
and is told of success only by a request that sent this one; the network
includes it only if that address is the wallet it is for.

*Onboarding.* None of its four properties is inductive, as each is about what a
request was told long before. The invariant says in ten parts how flows, requests,
tokens and accounts agree. `Attended` ties every waiting flow to one request of
the kind it has made. `Untold` says of a registration whose answer is under way
that no flow, and no request that names an account, knows of its account yet; so
when the wizard is told, nobody else can have named it, and from then on every
request that still may (`Agreed`) brings the name of this wizard, as
`DoneIsRegistered` needs. `Undisturbed` is `WalletFollowsWizard` carried back to
the moment before its request is made: the session is still the wizard's own.
`Staying` says why no 401 comes while nobody went away: all tokens are valid and
every guarded request carries one. `Noted` says of a login that has noted its
challenge that no other request has, and that no token has been issued for it by
this process, and of the challenges of all its tokens that they are still noted,
until their time bounds are over: the timer cannot have ended before.
The proof has a lemma for each way a flow and its request move together
(`...Step`), which the actions of the pages instantiate, and one for each handler
of the backend.

*Pages.* The invariants say which calls may be in flight in which phase, and
what their answers may name. For the checkout:
what an answer under way says of an order is still so when it is taken
(`HeardIsTrue`). For the form: at most one save is in flight per
opening, and the fields belong to the product named unless it was fetched into
an open form. For the editor: the stored site is the snapshot, or what the save
in flight brings. `FormProofs` begins with the lemmas on calls that all of them use;
`PagesProofs` composes the five invariants, since a step of one page leaves the
variables of the others alone.

*Only model-checked:* liveness (`PaymentDecided`, `RestartDecides`,
`PaidOutIsDelivered`, `PollingEnds`), which needs ENABLED and is beyond the prover. Every other
property of a passing run is proved.

## 6. What is not modelled

- Storage expiry of the contract's markers and instance (TTL, archival), and
  integers of the real width: `MaxInt` is a parameter.
- The webhook's signature check, DTO validation, rate limits, filters and the
  formatting of responses: no state.
- The expiry of a token by its own time, and the end of the library's
  tolerance for a challenge: the model may accept one later, which allows more
  logins and not fewer.
- Listings, the text of receipts and mails, analytics, the float monitor: they
  only read.
- The SEP-10 login at the anchor: no state in this program.
- Of the pages: markup, styling, and the validation of single fields.
- The marketing pages, the layout, and the canvases (`ShowcaseCanvas`,
  `MapCanvas`, `Hero`): drawing, with no state that outlives a rendering.
- Integration scripts and tests.

Much of the source is of the last three kinds; no state machine stands for a
class name or a path of a drawing, so the map leaves it out.

## 7. Plan

Done: the pipeline from checkout to delivery with recovery, its properties, the
abstract promise and the proofs; the contract with its abstract specification,
its two mirrors and proofs; withdrawals of both kinds, products and mini-site, and
sponsored trustlines, with proofs; accounts, sessions and the pages
that connect them, with proofs; the pages that pay, withdraw and edit, with
proofs.

Next:

1. Liveness of two orders that share the platform account: `PaymentDecided` is
   checked for one.
2. Two tabs of one creator over one product and one site.
