# Verification of PasarguardBot

PasarguardBot sells VPN services through a Telegram bot and a web app. Users top up a
wallet by crypto transfers, by payment gateways, by card and by Telegram Stars, and spend
it on services that live on external panels; resellers run accounts of their own on those
panels and are billed for them. The Python backend (`src/app`) is one asyncio process: bot
handlers, FastAPI routes, webhooks and the jobs of a scheduler are coroutines that interleave
at every `await`; MySQL, PostgreSQL or SQLite holds the rows, Redis a few short-lived records
and two queues. This directory models the paths on which money moves and the workers that
follow them, checks them with TLC and proves what matters most with TLAPS.

## 1. Inventory

| Component | State | Operations | Interacts with | Module |
|---|---|---|---|---|
| Crypto invoice table (`db/crud/cryptopayments.py`) | rows (`arz`, `amount_arz`, `status`, `createtime`, unique `tx_hash`), wallets | add, set amount, discard, expire, approve and credit, used hashes | creation, jobs | `CryptoStore` |
| Creation of crypto invoices (`add_order_with_unique_amount`, `services/pricing/crypto_amounts.py`) | local amount, attempt, "yielded" flag | pick, insert, re-check, wait, re-pick, discard | table | `UniqueAmount` |
| Crypto payment jobs (`jobs/payments/{ton,trx,usdt,usdt_networks,pol,crypto_common}.py`) | copies of the rows, fetched transfers, consumed and matched sets | read, fetch, match, confirm, expire | explorers, table | `CryptoJob` |
| TonPays gateway (`services/payments/tonpays.py`, `jobs/payments/tonpays.py`, `routers/webhook/tonpays.py`) | rows (`status`, `invoice_id`, `updated_at`), the gateway's own invoice | create, poll, webhook, check, receipt | gateway, wallet | `TonPays` |
| Iranian direct gateways (`services/payments/ir_gateways/*`) | rows (`status`, `authority`, `updated_at`) | create, callback, check, poll, close | gateway, wallet | `IrGateway` |
| Telegram Stars (`telegram/user/payment.py`, `db/crud/stars_transactions.py`, `jobs/payments/stars.py`) | rows with a status | create, pre-checkout, charge, credit, expire | Telegram, wallet | `Stars` |
| Card receipts (`telegram/user/balance/messages.py`, `routers/webapp/balance.py`, `panel/mutations.py`, `jobs/payments/manual_card.py`) | transactions, hashes of photos | send, approve, reject, fix, auto-approve | admin, wallet, direct pay | `CardReceipts` |
| Direct pay (`services/billing/direct_pay_*.py`) | Redis: record of a user, links from payments, claim | save, link, claim, fulfil, cancel, clear | every way to pay, purchases | `DirectPay` |
| Buying and renewing in the chat (`telegram/user/shop/*`, `telegram/user/services/{callbacks,messages}.py`) | Redis hash of a user (step, panel, plan, service, discount), the buttons of the messages in the chat | choose panel, duration, plan, name, code; confirm, cancel, start over | purchase, renewal, direct pay | `Conversations` |
| Topping up in the chat (`telegram/user/balance/*`, `services/billing/direct_pay_flow.py`) | the same hash (step, amount, "this pays for a purchase"), the record of the purchase, the buttons in the chat | choose a way to pay, type an amount, open a payment, send a receipt, cancel, start over | every way to pay, direct pay | `Deposits` |
| Purchase, renewal, upgrade (`services/webapp_purchase.py`, `telegram/user/shop/helpers.py`, `services/reseller/purchase.py`, `services/billing/*`, `routers/webapp/{renew,upgrade}.py`) | wallet, uses of a code, panel users, service rows | debit, claim a use, create or change on the panel, store, and undo each | panel, direct pay | `Purchases` |
| Referral payouts (`db/crud/referral.py`, `referral_payouts.py`) | rewards, payouts | reward, cash out, pay, reject | wallet, admins | `Referral` |
| Reseller billing (`jobs/reseller/billing.py`, `services/reseller/{accounts,usage_cap,admin_tools}.py`) | account row (`last_billed_at`, carry, `billed_traffic`), ledger | charge, suspend, reactivate, pause, cap, resync, forgive | wallet, panel | `ResellerBilling` |
| Reseller terms (`services/billing/reseller_renewal.py`, `services/reseller/addons.py`, the same job) | term, volume, two locks, the panel's row in the bot | renew, add, extend, lock, resync, delete, expire, purge, delete the panel | wallet, panel | `ResellerTerm` |
| Send queue (`services/send_queue.py`) | Redis list | push, cut, pop, send, put back, defer | Telegram | `SendQueue` |
| Broadcast (`services/broadcast/manager.py`) | rows (`status`, cursor), worker task, lock | confirm, pause, resume, cancel, resend, delete, send | admin, Telegram | `Broadcast` |
| Service expiration (`jobs/services/expiration.py`) | rows with notice marks, copies of them | delete, notify, flush marks | panel, renewals | `Expiration` |
| Trials and games (`telegram/user/{trial,games}.py`, `telegram/admin/wallets/*`) | row of a user (`tested`, `last_dice_roll`, `phone_number`, wallet), live messages | take a trial, play, charge, reset trials | panel, wallet | `Gifts` |
| Transfer between panel admins (`services/panels/admin_transfer.py`) | sources with a job, copies of the panel's users, service rows | start, list, look up, change owners by chunk, add rows | panel | `AdminTransfer` |
| Bulk increase (`telegram/admin/bulk_increase/*`, `routers/panel/tools.py`) | panel and amounts in the admin's session, preview, copies of rows | pick, set, preview, apply, run by panel or one by one | panel, purchases | `BulkIncrease` |
| Scheduler (`jobs/registry.py`) | next run times | one instance of a job at a time | all jobs | as fairness |
| How sticky discounts are granted, panels, backup, authentication, payment page, texts, statistics, front ends, docs | – | – | – | not modelled |

The behaviours that are hard to test, with the line where each bites and the property that
watches it, are the `hazards` of `PROJECT.json`. The kinds that occur again and again:

- two coroutines read the same state before either writes: amounts of crypto invoices, the
  open payout of a referrer, the data limit of a panel user, the copy of a reseller's row;
- a decision is taken on an answer or a copy that is out of date when it is written: the
  gateways' refreshes, the expiry jobs, reviews of a card receipt, the record of direct pay;
- one step of several fails after the others took effect: a purchase changes a discount
  code, the wallet, the panel and a row one after the other, a reseller's admin and row are
  switched one after the other;
- the process restarts between two steps, and the next run meets what was left;
- webhooks, callbacks and transfers are lost, late, repeated, or lie; a poller checks only a
  batch per run;
- a button of an old message meets the session of another conversation, and a callback that
  one module answered is handled by the next one as well;
- a worker is paused, replaced or cancelled in the middle of a batch, a queue is full, a
  flood moves a message back.

What makes these parts correct: a wallet is credited once for a payment and only by one the
provider confirmed; what is taken from it buys exactly one thing; the ends of a payment, a
payout and a term are final; a status tells what happened; a user who paid what he was told
in time gets it; nothing waits for ever.

## 2. Modules

`Settlement` is the abstract specification: a payment is opened, then credited exactly once
or closed, or withdrawn when its creation failed. Its two consequences (`ExactlyOnce`,
`EndsAreFinal`) say in one place what every channel should do. `CryptoStore` maps its rows to it.

`CryptoStore` holds the table of one network. Each operator is one database transaction
(`SELECT ... FOR UPDATE`, or an `UPDATE`/`DELETE` guarded by the status), hence one atomic
step. `credits[o]` counts how often the row was added to its user's wallet. An amount is an
integer number of 0.000001 coin, the quantum of the code, so `AMOUNT_MATCH_TOLERANCE = 1`.

`UniqueAmount` extends it with `add_order_with_unique_amount`: a program counter per
creator, one action per database call (`PickFirst`, `Insert`, the three outcomes of the
re-check `Accept`/`Yield`/`Repick`, `Resume`, `Store`, `GiveUp`, `Discard`), database errors
(`DbError`), restarts (`Restart`) and what a job may do to a row meanwhile (`JobSettles`).
The picker's random draw is any free amount; `LowestFirst` makes it the deterministic picker
of the lockstep test.

`CryptoJob` extends the table with a chain of transfers, a clock and one running instance of
a job. One action per await: `ReadPending`, `Fetch`, `ReadUsed`, then `Reserve`, `Confirm`
or `PassOver` per invoice, `BeginExpire`, `ExpireOne`, `EndRun`. `ReadUsedFails`,
`ConfirmRefused`, `ConfirmRaises` and `Abort` are the failures. Differences of the networks
are constants: `MatchDistance` (0 for TON, else 1), `AllowUntimed` (transfers reported
without a time) and `RetryAfterError` (`retry_after_error` of the shared flow).

`CryptoPayments` extends both and interleaves them on one table; `ProcessRestart` ends the
creators and the run together.

`TonPays` models the whole life of TonPays invoices: `create_deposit` in its four calls,
`refresh_invoice` as run by the poller, webhooks and check buttons (copy, ask, store the
final amount, then credit, close, store the status or only bump `updated_at`), and
`submit_receipt`, whose late answer is stored without a look at the row. `order` is the
table sorted by `updated_at`, from which the poller takes `POLL_BATCH`.

`IrGateway` models the direct gateways: `create_deposit`, `verify_payment` as run by the
callback, the check button and the poller, and the two transactions that end a payment.
`approve_and_credit` locks the row; `close_if_open` reads the row and writes it in two
statements without a lock, so it is two steps.

`Stars`: Telegram asks before it charges, charges, and tells the bot later, as three steps;
the link of an invoice can be paid by several people. The expiry job copies old rows and
writes `expired` over them one by one without looking again.

`CardReceipts`: a sender checks the photo's hash, stores it (unique index), makes the
transaction and tells the hash its transaction, at once (web app) or after the message with
the admin's buttons is out (bot). Admins of bot and web panel approve, reject or send back;
the job approves what is due. Approval locks the row, the two others read and write.

`DirectPay`: each function reads the user's Redis record, awaits, and writes its copy back, so
each command of Redis is an action. The claim (`SET NX` with a life time) is what keeps a
purchase from being made twice; it may lapse while the purchase is still being made.

`Conversations`: one user, the hash of that user in Redis and the messages of the bot. A
message keeps its buttons when the conversation goes on; a button carries a panel, a service
or a plan of its own, and its handler combines that with the session. One action per handler:
it looks at the step, writes step and data, and writes or edits a message. A handler that
returns without `StopPropagation` lets the next module's handler run, so `ConfirmBuy` and
`ApplyCode` are part of the actions of the renewal's buttons, as the registered patterns say.
What a confirmation leads to (`ordered`) names what is made, on which panel, for which price
and with which code; `Purchases` and `DirectPay` take it from there.

`Deposits`: the same for the conversation that tops up the wallet, for itself or for a purchase
the wallet does not cover. Session, chat, record and payments change in one action per handler;
a payment carries what the message told, so the property compares what the user saw with what
is paid and made. How the commands on the record interleave is left to `DirectPay`.

`Purchases`: an order is the sequence of its remaining steps (claim a use, debit, panel, row,
and the undo steps a failure puts there). The seven flows of the code differ in the order of
those steps, in what they undo and in what they read first; one set of actions executes them.

`Referral`: the first purchase of an invited user makes a reward, in the wallet or as an
earning. A cash-out and a settlement are transactions of several statements: with row locks
they keep each other away; on SQLite, which ignores `FOR UPDATE`, a cash-out has only the count
of rows it moved, and a settlement reads the payout as pending (`SettleReads`) and writes the
rows that are still requested, and its outcome over whatever the status has become
(`SettleWrites`). `REVIEWS` of them may have read one payout.

`ResellerBilling`: the job charges by the minute or by traffic, suspends and reactivates,
while requests of reseller and admin change the same row and panel admin from copies. A
switch of the panel admin and the write of the row are two steps, between which a call may
raise although it took effect, a write may fail, or the process die (`LeaveApart`); an admin's
resync switches the panel admin by its copy and writes no row. The history variable `meter`
records what was consumed beside what was charged.

`ResellerTerm`: renewals, add-ons and admin operations on a prepaid account, under two locks
that do not exclude each other, and the part of the job that ends its term. A call of the panel
that raises did nothing, or what it should (`RaisesAfter`). An admin may delete the panel from
the bot, after which the row is dropped and the panel admin is left where it is.

`SendQueue`: a Redis list with pushes that cut it, and one worker that takes, sends, and puts
back what met a flood. `Broadcast`: the manager's commands, its worker task with cursor and
batches, and the lock of each database (`redis`, MySQL's `GET_LOCK`, none). Reads and writes of
a row that meet an error of the database answer `None`, which the manager takes for "no such
broadcast" or "none is active" (`Database`, `LosesRow`, `NotFound`). `Expiration`: the three
stages of a pass, batch by batch, with the notices and the marks it flushes later, and renewals
that change panel and row in two steps, the second of which may fail unnoticed. `Unlinked`
services have no `panel_userid`; their rows go and the panel is not asked.

`Gifts`: each tap is a task of its own; a trial looks at `tested`, asks the panel, marks the
user and stores a row, and a game looks at the time of the last one, plays and pays. Between
the look and the mark another tap may come. The group charge reads a wallet and writes the sum.

`AdminTransfer`: a job copies the panel's users of a source, looks up whom the bot knows, and
changes owners chunk by chunk: one call for all, then one each for those it did not report.
Jobs of two sources, whose lists may meet, run side by side with the panel's own changes.

`BulkIncrease`: the bot asks for a panel and amounts, previews and applies what the session
holds by then; a run copies the rows, tries the panel's call for all users (a dry run first) and
writes the rows from the copy, or goes service by service from what it reads on the panel. An
owner buys volume meanwhile. The services are those of one panel; a run on the other one leaves
them alone.

*Composition.* `CryptoPayments` interleaves two components that work on the same rows. The others
share nothing but the wallet, and that only by single statements that add to it or take from it
if it covers them (`UPDATE ... WHERE amount >= x`); every module that needs the wallet has its
own. Interleaving them would multiply states and show nothing. `MCGateways`, `MCSpending`,
`MCEventually` and `MCEventuallyRuns` therefore explore several components side by side in one
run (the other `MC*` modules only give values to constants): the variable `part` says which one
moves in a behaviour, the first component is extended (in `MCSpending` none is), the others are
instantiated onto shared variables `x1`, `x2`, ..., some of them twice with different bounds. The
`*_proofs` modules hold lemmas and theorems: each extends one component and instantiates the
related ones it also proves about (`Rewards_proofs`: `Referral` and `Gifts`; `Gateways_proofs`:
`IrGateway`, `TonPays` and `Stars`; `Reseller_proofs`: `ResellerBilling` and `ResellerTerm`;
`Services_proofs`: `Purchases`, `AdminTransfer`, `BulkIncrease` and `Expiration`; `Chat_proofs`:
`Conversations`, `Deposits`, `SendQueue` and `Broadcast`). The instances share names of variables
and constants, never a behaviour: each theorem speaks of one specification. An operator marked
"Mutant" is a fault a property has to notice; those that `PROJECT.json` does not name were tried
on one part of a property that joins several. `MCEventuallyRuns` extends `ResellerBilling`, so
that the assumptions on its constants are evaluated, and instantiates the others.
`CryptoPayments_proofs` begins with what each table operation does and preserves, and proves
about the creators alone, about the job alone and about job and creators together (`SystemSpec`,
the specification that the run `CryptoPayments` explores).

## 3. Runs

| Run | Question and result | States |
|---|---|---|
| `CryptoPayments` | Two creations and the job on one table, database errors, restarts, any free amount: are the amounts users were told apart (`SettledApart`) and stored (`ToldIsStored`), does a reported failure leave no pending row (`FailureLeavesNothing`), does the job do only what `UniqueAmount` assumes of it (`JobKeepsToItsPart`), does the table implement `Settlement`? Holds. | 1.4 million |
| `CryptoJob` | An explorer that hides transfers, lost look-ups of used hashes, failing credits, interrupted runs: never two invoices for one transfer (`OneTransferOneInvoice`), credited exactly when paid (`CreditedIffPaid`), only by a fitting transfer (`PaidByMatchingTransfer`), never by another user's exact payment (`ExactPaymentNotStolen`), and the table implements `Settlement`. Holds. | 2.1 million |
| `Gateways` | The other ways to pay. Direct gateways: credited at most once, only after a verify, lost only by age or by a claim of cancelation (`CreditedAtMostOnce`, `OnlyVerifiedIsCredited`, `PaidLostOnlyByAgeOrClaim`). TonPays: nothing unpaid is credited, a paid invoice is closed only by age; Stars: the status tells the credit, whom Telegram charged is credited (`InvoicesKeepFaith`). Card receipts: one photo, one credit; the status tells the credit, a photo that could not be compared needs an admin, a receipt the user is asked to repeat can be repeated (`ReceiptsKeepFaith`). Direct pay: a purchase is made once, is tried when paid, and blocks no later one; in the chat, who presses only the latest message pays what it told and makes the purchase it showed, within the limits of the way to pay (`DirectPayOnce`). In the chat every order is priced as made, and who presses only the latest message gets what it shows and is never told it has expired (`ChatKeepsFaith`). Gifts: one trial, one prize a day, one charge per message, unless begun while another was under way (`GiftsOnce`). Holds. | 2.6 million |
| `Spending` | Referral payouts are backed by rewards, never two per reward, final once paid, although two admins settle one payout (`PayoutsAreBacked`, `OnePayoutPerReward`, `PaidForGood`). A purchase is whole or not at all (`AllOrNothing`). The queue keeps its order and a finished broadcast has reached all (`EveryMessageSent`); services end in time and with notice (`ServicesEndInTime`). Resellers: no minute and no traffic is billed twice and the ledger is what the wallet paid (`BilledOnce`), panel admin and row agree (`AdminFollowsRow`), what a renewal or add-on took is what the row holds (`TermPaidFor`), a lock of the admin is opened by him (`LockLostOnlyToStale`), users are destroyed after the grace period only (`PurgedOnlyAfterGrace`). A transfer moves only users of its source, all it reports, and gives each at most one row (`TransferKeepsOwners`); a bulk increase gives each service what was shown, once, on panel and row alike (`BulkKeepsFaith`). Holds. | 3.2 million |
| `Eventually` | With an explorer that lists every transfer, or a poller that checks one payment per run and no webhook: paid in time is never expired (`PaidInTimeNeverExpired`) and is credited (`PaidIsCredited`), no payment stays open (`EveryPaymentEnds`), clashing creations converge (`NobodyGivesUp`) and end (`CreationEnds`). Every message in the send queue is handled (`QueuedIsHandled`). Holds. | 55 993 |
| `EventuallyRuns` | A suspended reseller who can pay is switched on (`ComesBack`), lapsed accounts and services are removed (`LapsedIsRemoved`), a broadcast stops running unless its row was left running without a worker (`RunningEnds`). Holds. | 190 222 |
| `CryptoPaymentsStale`, `TonPaysOnce`, `IrGatewayLost`, `BroadcastCancel`, `ExpirationRenewed`, `ExpiredButton` | Sentences of the repository that the code breaks, one property each. | violated, see Findings |

Properties that name exceptions ("unless a copy is out of date") carry a history variable
(`raced`, `outdated`, `crossed`, `overruled`, `overturned`, `hidden`, `disturbed`, `blind`,
`mishaps`, `stray`, `astray`, `stranded`, `excused`, `strayed`, `apart`, `doubled`)
that the exact step sets which makes the exception. They say how far the code's promise
reaches; the finding or hazard of the same line says what happens beyond, and of such
behaviours the property says nothing (or only what is left, as `PayoutsAreBacked` of a payout in
`overturned`). A race that its property excludes is listed under the hazards without it, or with
a note that says which half of the hazard it does cover.

*Bounds.* Every bound is a constant. Two invoices are what every property of the crypto modules
speaks about (pairs), and two transfers allow one to be exact and the other to be near; the
amounts 10, 11, 12 of `CryptoJob` contain equal, neighbouring and two-step pairs, hence the
amount between two invoices that matches both. Five amounts leave room for three invoices, so the
picker always has a choice. Clocks have the unit of the shortest duration and stop at `MaxTime`
or `MAX_CLOCK`; they run past the expiry of what began first, and liveness is stated for that
only. `Attempts` is 2 where exhaustion shall happen. In the lockstep of three creators it is 5:
four are not enough, and the code has ten. `CryptoPayments` has one transfer: one move of an
amount under the job's copy is what the composition adds. The gateways have two payments and a
poll batch of one, the smallest case in which the rotation decides, and one TonPays invoice that
takes receipts has a webhook and a button beside the poller. Two of a kind are also what the
races elsewhere need: two payments of one Stars invoice, two senders of one photo, two cash-outs
beside one purchase or two purchases beside one cash-out, two admins who settle one payout, two
orders of a user at a limit of one use and a wallet that pays for one, two purchases under one
claim, two requests of a reseller next to the job. The queue holds two of three messages, so that
the cut happens; a batch of two users is cut off in its middle, and two broadcasts get three
commands of one admin with one failure (the liveness run also has two admins whose commands
cross); a reseller's term is extended once, or by two requests at once; expiration has one test
and one paid service in batches of one, a term of two days and a clock of four, so that a renewal
may come before, during and after the grace period, and the test service lacks the id of its
panel user. The chat has two messages, an old one beside the latest, and two panels: one that
asks for the duration first and one that sells custom volumes, each with one plan and one service
of the user. A top-up has limits below and above the price of a purchase, and one payment of
every way, or two payments for two purchases. Billing charges 1 for two minutes or units, so that
the carry matters, with and without debt and a cap. Gifts have two taps; transfers two panel
users, one of them unlimited, two jobs and chunks of one; increases two services, one of them
without an id on the panel, with one run beside a purchase or two runs at once, on this panel or
another one. `MAX_FAULTS` and `MAX_RESTARTS` are 1 where one failure already separates two
systems; the properties with an exception for failures are about the others. What longer
behaviours do is what the theorems of section 4 say for every bound.

*Deadlock* checking is off in every configuration but `ExpiredButton`, because the modelled
system really comes to rest: payments, orders, messages and the clock are bounded, a creation
ends, and a job without open rows has nothing to do.

*Fairness.* A coroutine that can go on does, because the event loop is fair (weak fairness of
`CreatorStep`, `JobStep`, `WorkerStep`, `CommandStep`, the request under way). The scheduler
starts each job again and again, one instance at a time (`max_instances=1`, `coalesce=True`
in `jobs/`), and its calls return. `ReadUsed`, `Confirm`, the answers of a gateway and the panel
calls of the reseller job, and its write of the row after a reactivation, may fail any number of
times but are tried again by every run, and succeed at some time (strong fairness; `Retried` names
the calls of `ResellerTerm`). Time passes, a flood ends, an outage of Redis ends.
Nothing is assumed of errors, restarts, webhooks, buttons, users or admins; the runs of the
gateways have no webhook and no visitor, so "paid is credited" rests on the poller, and the
gateway may fail for ever to answer about one payment while the promise is about the other.
In `IrGateway` the strong fairness is that of a question about a payment, whoever asks it:
were every visit of one payment to fail for ever, its bumps of `updated_at` could keep that
payment out of the reach of a poller that checks one per run. As `part` never changes, the
fairness of an action of one component and that of an action of another are one formula.

### Findings

Six runs end in a violation, and each contradicts a sentence of the repository.

*`CryptoPaymentsStale` (`PaidAmountMatches`): a job credits by an amount the row no longer has.*
The job lists the rows of creators that are still re-checking. When such a creator moves to
another amount while the run awaits the explorer, the run still compares with the old amount, and
`approve_and_credit` looks at the status only. A transfer meant for the invoice it clashed with
then pays the wrong one. `cryptopayments.py:18` explains that pending invoices must be told apart
by their amounts.

*`TonPaysOnce` (`CreditedAtMostOnce`): an invoice is credited twice.* A refresh that asked before
the payment stores `status="pending"` over the row another refresh has completed
(`tonpays.py:277`), and the next check credits it again. It needs the answer to hold a
`final_amount`, so that the refresh replaces its copy by the completed row and sees a "changed"
status. `tonpays_invoices.py:116` says "exactly once".

*`IrGatewayLost` (`VerifiedIsNotLost`): settled money is neither credited nor returned.* A
callback that was answered "unpaid" (or was refused with an error code, which counts as unpaid)
closes the payment as canceled while the poller's verify settles it. `service.py:4` says that
callback, button and poller "can all race safely". The other direction of the same race, a close
written over a completed row (`close_if_open` takes no lock), leaves the credit in place and
shows the payment as canceled.

*`BroadcastCancel` (`CancelStopsItsOwn`): cancelling one broadcast stops another.* `cancel_job`
cancels the worker task whenever there is one (`manager.py:411`), under the comment "Cancel
worker task if it's for this job". The batch of the broadcast that runs is cut off, and who was
already sent it is sent it again.

*`ExpirationRenewed` (`RenewedIsKept`): a renewed service is removed.* The pass removes what it
listed without reading the row again (`expiration.py:160`); a renewal between the two is lost
with the service.

*`ExpiredButton` (`ExpiredTakesNothing`): an expired button buys.* The confirm button of an old
renewal invoice, pressed at step `crconf` of a purchase, is answered as expired by the handler of
the renewal, which returns without `StopPropagation`; the purchase's handler matches the same
button (`^confirm_purchase_`) and buys what the session holds.
`docs/content/docs/user/index.mdx:184` says of the expired message that no money has been taken.

Sixteen more were met while modelling and are described in `PROJECT.json` without a run of their
own; the models contain the behaviour, and properties name it as an exception where they must: a
service row deleted although its panel user could not be (`expiration.py:162`); the Redis lock of
a broadcast that outlives a crash, after which the resumed broadcast is marked failed
(`manager.py:890`); a deferred message put back at the end the worker takes from
(`send_queue.py:308`); the ignored `False` of `update_service` (`renewal.py:156`); a claim taken
of a record that another write re-opened (`direct_pay_store.py:187`); an approval in the web
panel that never makes the purchase it pays for (`panel/mutations.py:170`); two open payouts of
one referrer on PostgreSQL (`referral_payouts.py:153`); an old renewal invoice that renews
another service with its plan (`services/callbacks.py:459`); an old purchase invoice that buys
what the session holds now (`direct_pay_flow.py:204`); a discount code of a canceled purchase
that goes into the next one that is paid for directly (`direct_pay_flow.py:221`); old
rock-paper-scissors buttons that play again (`games.py:195`); a trial that is marked as used
before the panel is asked for it (`trial.py:290`); a failed look-up that passes for "no service
known" (`services.py:90`), so that a transfer adds a second row; a bulk deduction down to 0,
which means unlimited (`bulk_increase/callbacks.py:349`); Stars that pay for a purchase which is
then never made (`balance/callbacks.py:207`); and a shortfall cut to the maximum of a way to pay,
with which the purchase fails once it is paid (`balance/callbacks.py:85`).

Six more things the code does are exceptions of properties and have no entry of their own:

- *A payout settled twice (SQLite).* Without row locks two admins read one payout as pending; one
  rejects it, so that its rewards go back, the other then writes "paid" over it
  (`referral_payouts.py:221-247`): a paid payout without rewards (`overturned`). No reward that
  was paid is taken back, whatever the order.
- *Panel and reseller's row left apart.* A call that took effect but raised
  (`jobs/reseller/billing.py:119`, `accounts.py:262`), a failed write of the row, or a resync by
  an old copy (`admin_tools.py:142`) leaves the panel admin on while the row says suspended, or
  the other way round, until the next status is written (`apart`, `astray`).
- *An account that is purged for ever.* When the removal of a panel admin raised although it took
  effect, every later purge fails on the admin that is gone and keeps the row
  (`panel_sync.py:58-61`). When the panel was deleted from the bot, the row is dropped and the
  panel admin goes on unbilled (`panel_sync.py:54-57`).
- *A broadcast that says running while nobody sends it.* `get_job` and `update_job` answer `None`
  after a database error (`crud/broadcast.py:56`, `73`), and the worker or the command takes it
  for a deleted row; a cancel stops the worker of another broadcast; after a restart with two
  running rows `get_active_job` answers `None`; a pause is told to the worker after the broadcast
  was resumed (`stranded`). A restart, a hand-over or an admin ends most of these states.
- *A service row that goes without its panel user, a renewal that is not written.* A row without
  `panel_userid` is deleted and the user stays (`expiration.py:75`, `150`); a failed
  `update_service` keeps the old term in the row, so the renewed service ends early
  (`renewal.py:158`, in `stray`).
- *An old bulk-increase message.* Its Apply button takes panel and amounts from the session
  (`bulk_increase/callbacks.py:573-588`): once another panel was picked, it changes services the
  message does not show.

## 4. Proofs

| Theorem | Says |
|---|---|
| `UniqueTypeCorrect` | the types of `UniqueAmount` |
| `SettledApartAlways` | `UniqueSpec => []SettledApart`: amounts that users were told are apart, for any number of creators, amounts and attempts |
| `ToldIsStoredAlways`, `FailureLeavesNothingAlways` | `UniqueSpec => []ToldIsStored`, `UniqueSpec => []FailureLeavesNothing` |
| `JobTypeCorrect` | the types of `CryptoJob` |
| `OneTransferOneInvoiceAlways` | `CryptoSpec => []OneTransferOneInvoice` |
| `CreditedIffPaidAlways` | `CryptoSpec => []CreditedIffPaid` |
| `PaidByMatchingTransferAlways`, `ExactPaymentNotStolenAlways` | `CryptoSpec => []PaidByMatchingTransfer`, `CryptoSpec => ExactPaymentNotStolen` |
| `JobImplementsSettlement` | `CryptoSpec => ImplementsSettlement` |
| `PaidInTimeNeverExpiredAlways` | with a reliable explorer and `MaxRun + TxTolerance <= Grace`, `CryptoSpec => []PaidInTimeNeverExpired` |
| `JobKeepsToItsPartAlways` | `SystemSpec => JobKeepsToItsPart`: beside the job the creators are what `UniqueSpec` says |
| `SystemIsSafe`, `SystemImplementsSettlement` | the safety of both, and `SystemSpec => ImplementsSettlement`, for creators and job on one table |
| `PayoutsAreBackedAlways`, `PaidForGoodAlways`, `OnePayoutPerRewardAlways` (`Rewards_proofs`) | every payout that stands is the sum of its rewards; what was paid out stays so (`Spec => [][PaidForGood]_vars`); a second open request needs a reward that came while one was under way; with and without row locks, and with any number of settlements of one payout under way |
| `ConversationsKeepFaith` (`Chat_proofs`) | `Spec => []ChatKeepsFaith` for any panels and any number of messages, if no panel is named like "none" or "custom" |
| `CreditedAtMostOnceAlways`, `OnlyVerifiedIsCreditedAlways`, `PaidLostOnlyByAgeOrClaimAlways` (`Gateways_proofs`) | the three promises of the direct gateways, for any payments, visitors and poll batch |
| `ReceiptsKeepFaithAlways` (`CardReceipts_proofs`) | `Spec => []ReceiptsKeepFaith` for any photos, senders, admins and transactions, if no photo is named "none" |
| `PurchasesKeepFaith` (`Services_proofs`) | `Spec => [](AllOrNothing /\ RaisedWhenAlone /\ CodeWithinLimit)` for any orders, limit and wallet, and the seven flows of the code or some of them |
| `PurchaseMadeOnceAlways` (`DirectPay_proofs`) | `Spec => [](AtMostOnce /\ RestIsOpen /\ PaidIsMade)` for any payments, purchases, lapses of the claim and restarts, if no payment is named "none" |
| `BillingTypeCorrect`, `BooksBalanceAlways`, `BilledOnceAlways` (`Reseller_proofs`) | types; `Spec => [](BilledOnce /\ BooksBalance)` for any requests, rates and caps |
| `LockLostOnlyToStaleAlways`, `PanelAgreesUnlessRacedAlways` (`Reseller_proofs`) | the admin's lock is opened by his unlock or by an older copy; panel and row agree when nobody is between them and the last switch neither used an old copy nor broke off, with resyncs and calls that raise after they took effect |
| `GiftsOnceAlways` (`Rewards_proofs`) | `Spec => []GiftsOnce` of `Gifts` for any finite number of taps, trials, days and resets, with and without row locks |
| `TonPaysKeepFaith` (`Gateways_proofs`) | `Spec => [](NeverCreditedUnpaid /\ PaidLostOnlyByAge)` of `TonPays` for any invoices, webhooks, buttons, receipts and poll batch |
| `StarsKeepFaithAlways` (`Gateways_proofs`) | `Spec => []StarsKeepFaith` for any invoices and payers |
| `TermPaidForAlways`, `PanelFollowsRowAlways`, `PurgedOnlyAfterGraceAlways` (`Reseller_proofs`) | `Spec => []TermPaidFor`, `Spec => [](PanelFollowsRow /\ NoOrphanAdmin)` and `Spec => PurgedOnlyAfterGrace` of `ResellerTerm`, for any finite number of requests beside the job, calls that raise before or after they took effect, and a panel that is deleted |
| `TransferKeepsOwnersAlways` (`Services_proofs`) | `Spec => []TransferKeepsOwners` for any users, admins and finite number of jobs |
| `BulkKeepsFaithAlways` (`Services_proofs`) | `Spec => []BulkKeepsFaith` for any services, amounts, panels picked, runs and purchases |
| `ServicesEndInTimeAlways` (`Services_proofs`) | `Spec => []ServicesEndInTime` for any services, with and without a `panel_userid`, batches, term and grace |
| `DepositsKeepFaithAlways` (`Chat_proofs`) | `Spec => []DepositsKeepFaith` for any purchases, prices, limits, amounts and messages |
| `QueueKeepsOrderAlways` (`Chat_proofs`) | `Spec => []QueueKeepsOrder` for any messages and any length of the list |
| `BroadcastReachesAllAlways` (`Chat_proofs`) | `Spec => []BroadcastReachesAll` for any broadcasts, users, batches, admins, workers, locks and errors of the database |

The first eleven rows are in `CryptoPayments_proofs`. The theorems of `Chat_proofs`,
`CardReceipts_proofs`, `Services_proofs`, `DirectPay_proofs`, `Reseller_proofs`, and those about
`Gifts`, `TonPays` and `Stars`, are about components that the runs `Gateways` and
`Spending` instantiate: the invariant of the run is the conjunction of what the theorems name, for
the behaviours in which that component moves. With them every safety property of the passing
runs but `NobodyGivesUp` is proved for every value of the constants.

Assumptions are the named `ASSUME`s on constants: orders and amounts are integers, `NoTx` is no
transfer, durations are natural numbers, `MatchDistance` is at most the tolerance, rates and caps
are natural numbers and no request is named "job"; and the hypotheses `Sizes` of
`CardReceipts_proofs`, `DirectPay_proofs` and `Services_proofs` (a bound, a limit and a wallet
are natural numbers, no photo and no payment is named "none", the flows are among the seven). The
newer theorems name theirs beside them: `ReferralAssumptions` (the invited users of a referrer
are finitely many, bounds are natural numbers), `FinitelyMany` (taps), `TermAssumptions`
(finitely many callers, none named "job"), `TransferAssumptions` (finitely many jobs, nobody
named "none"), `IncreaseAssumptions` (whole amounts, limits not negative), `ExpiryAssumptions`
(services are numbers in the order of their codes), `DepositAssumptions` (a way to pay has room
between its limits), `QueueAssumptions` and `BroadcastAssumptions` (bounds are natural numbers,
ids positive, at least one worker allowed). All are about how values are written down, or are
what the code's settings and keys guarantee; otherwise nothing is finite.

*Amounts stay apart.* `SettledApart` is not inductive: a creator that has not accepted may
already share an amount with one that has. `UniqueInv` adds to the types and `SettledApart` the
part `HoldsStored`: while a creator looks at the other rows, pauses, or has returned, the amount
it holds is that of its row (if the row is still pending). The step that matters is `Accept`: the
creator sees every pending row at that moment, so its stored amount is apart from every settled
one; and every later mover picks, stores and only then re-checks, so it can settle next to it
only after a re-check of its own. The argument needs no fairness, no bound on attempts, and no
help from the picker.

*One credit.* `CreditInv` is the types, "the pair being confirmed is an invoice and a
transfer", and the two table invariants `OneTransferOneInvoice` and `CreditedIffPaid`
(`TableInv`). `StepIsOperation` shows that any
step of the job, the world or the creators is one of the table's operations or leaves the
table alone; the rest is a property of the operations alone (`OperationKeepsTableInv`,
`OperationRefines`), which is also how `JobImplementsSettlement` is proved: initial states
map to initial states, and each operation to one step of `Settlement` or a stutter.

*Paid by what fits.* `MatchInv` carries through the run why a pair may be confirmed: the
job's copies agree with the rows in amount and creation time (`CopiesAgree`; a creator's move is
not part of `CryptoSpec`), what was fetched is on the chain, and the pair at hand fits
(`PairMatches`). That an exact payment is not credited to another
invoice then follows from the distance of pending amounts, which the creations keep.

*Job and creators on one table.* The job credits, closes or leaves a row alone, which is what
`JobSettles` of `UniqueAmount` allows (`SystemStepIsTheirs`); a step of a creator is an operation
of the table or leaves it alone. So both invariants hold side by side (`SystemInv`), and the
theorems about the creators carry over to the program as it runs.

*Paid in time, never expired.* `PaidInTimeNeverExpiredAlways` assumes `ReliableExplorer` and
`MaxRun + TxTolerance <= Grace`. The code's values are a time to live of 1800 s, a grace of
600 s and a tolerance of 120 s, so it covers runs of up to 480 s from the explorer's answer
to the reading of the clock. `ExpiryInv` follows a transfer that exactly pays an invoice
through the run: it is listed when it was sent before the fetch; while the invoice is still
to be matched the transfer is among its candidates or was consumed by another one; a matched
invoice is not in the list to expire; an invoice in that list was overdue by the run's clock,
and then every transfer in its window was sent before the fetch, by the inequality above.
The part that makes it inductive is that a transfer which exactly fits one pending invoice
fits no other (`MatchesCollide`): it can be consumed only by its own invoice. TLC checked
`ExpiryInv` before it was proved.

*Payouts are backed.* Three parts make the claim inductive: payouts are numbered without gaps
and no row is moved onto one not made yet (`Numbered`); a row has a payout exactly in the states
a payout brings about (`Bound`); the rows of a payout are in the state its own status calls
for (`RowsFollow`), unless the payout was settled with both outcomes; of such a payout no
row is left waiting. What a settlement read stays true in part: a payout that somebody reviewed
is pending or was settled meanwhile, and with row locks it is pending and the review is the only
one (`Reviewed`). A step then moves a set of rows as a whole from one state to another, and
the sums follow from the cardinalities of disjoint finite sets. Row locks are not needed for
it: a cash-out moves only rows that are still available and counts what it moved, and a
settlement writes only rows that are still requested, so the second one finds none. For
`OnePayoutPerReward` the open requests and the rows that could make further ones are counted
together: once one is open they are at most one more than the rows that arrived since
(`MoreNeedRows`), because what a request under way has not read arrived after it looked.

*Direct gateways.* What a running `verify_payment` was told stays true however late it acts,
because "verified", "failed" and the age of a payment never change back (`Lasts`, `Trusts`).
A credited payment may be written over by an unlocked close, so "credited implies completed"
is false; what is inductive is that it is never *open* again (`Counted`). A payment closed
without a credit is old, was called canceled, or can never be paid any more (`Kept`): without
the last part a buyer who pays late would break the claim.

*Conversations.* `ChatKeepsFaith` is about the moment of an order; what makes it inductive is
`Fits(session, chat[latest])`: while nothing but the latest message was pressed, the step is one
that the handlers of its buttons accept, what the buttons say is what the session holds, and
in the steps that lead to an order the plan belongs to the panel. A handler that refuses a
step is then never reached by the latest message. `OfferFits` holds however old the pressed
buttons are: at the two steps that take a cut amount, the amount was computed for the plan the
session still holds, because every handler that changes the plan changes the step as well.
There is one lemma per handler, on top of lemmas for the steps they share.

*Card receipts.* A transaction is credited only by the step that moves it from an open status
to approved (`Credited`), so the status tells the credit. At most one live transaction per
photo needs three parts: a sender whose transaction is not linked to the hash yet is the only
one that works on this photo, and its hash is stored without a transaction (`Hashed`); the live
transaction of a photo is the one its hash is linked to, or the one that sender has made
(`OneLive`); and a stored hash has such a sender, a transaction that stands, or a review that
is about to delete it (`Known`), so nobody who was asked to send a photo again finds its hash
in the way. An unreadable photo has no hash, and `Checked` says that its transaction is never
due for the job.

*Purchases.* The flows share one set of actions, so the invariant is about the steps an order
has left. It lies on one of two roads: it goes on, and then the number of steps left says what
it has paid, made, stored and claimed (`GoesOn`); or it goes back along what `Undo` gave it, and
then, unless a mishap hit it, it has exactly what is yet to be undone (`Clean`). `WaysOn` and
`WaysBackOn` are the finite tables of the seven flows: every step of `Steps` has its place,
and what is undone when it fails is what was done before it. They are where a wrong
order of a flow would fail; every action is then a step along a road. Uses of the code are
counted by the orders that hold one, the data limit by the orders that raised it.

*Direct pay.* While nobody writes the record from outside (`crossed`), a purchase that waits was
not made and nobody is making it; of those that claimed it at most one reads or begins, and the
claim is set as long (`Exclusive`). The claim itself may lapse later, when somebody makes the
purchase: by then the record is "fulfilling", so the next one who claims it finds nothing to
begin, and that is why a lapse does not make the purchase twice. For what is left at rest, a
claim is held by somebody on the way to give it back, also when the record is gone (`Held`:
one who failed on a purchase whose record is gone gives nothing back, and is never the only
one), and a payment that was credited while the purchase waits is being looked at, or another
one holds the claim (`Tried`). The parts `Held` and `Tried` speak of runs without a restart,
because one that dies with the claim leaves it to lapse.

*Billing once.* `Slack` is what was consumed less what was charged, forgiven and is still owed by
the row. It is never negative, but that is not inductive: a run charges from a copy. So `Covered`
adds that a run about to charge either still has the row's clock or baseline, or there is as much
slack as it is about to charge. For traffic this needs to know when the baseline was set since
the run read it; a comparison of the numbers is not enough, because with two requests a late one
may set the same number again. The history `moved` of the run says it, and the attempt to prove
`BilledOnce` without it is what showed the case. The lock and the agreement of panel and row rest
on one idea: whoever is not marked as outdated saw the status that the row has (`Seen`), so a
writer that is not outdated writes what its own guard allows. Every switch of the panel admin
marks the copies of all others as outdated, the resync included, although it writes no row; and
one that breaks off before its row is written sets `apart` until the next status is written.

*Gifts.* The counts of what was given cannot be compared with one tap at a time: several taps
may stand between the look and the mark. So the invariant counts what is still to be given: the
trials given and the taps past the look are together at most one more than the resets and the
excused taps (`TrialsCounted`), and likewise for the draws of the day, with the buttons nobody has
pressed yet, and the charges (`DrawsCounted`, `ChargesCounted`). `MoneyCounted` says that no tap
ever read more than what is owed, so a sum written without a lock loses money of the user but
makes none. The proof found a gap of the model: with three taps a handler that
began on one day could end on the next and be counted there. `NewDay` now waits for the handlers
of a day, which run for seconds.

*TonPays and Stars.* A TonPays answer is applied long after it was given, over a row that others
have changed, and `NeverCreditedUnpaid` holds because the answers that credit or close are final
at the gateway (`AnswersLast`): a stale "pending" may re-open a row, and then whoever closes it
once more has a reason of its own (`ClosedWithCause`). The proof showed that an action named its
worker without using it (`Return`). For Stars, what refuses a charge at
pre-checkout or later lasts: a credited payment stays credited, an invoice that had come of age
stays so (`ReasonsLast`); what the job copied is old, and what it wrote over stays expired
(`JobKnown`).

*Reseller terms.* The panel is written before or after the row, so the two differ while somebody
is between them. `Ahead` is who is, and `PanelAgrees` says what the panel has then: what the one
ahead is about to store, if no other races him. A copy that is not marked as outdated is the row
(`CallsOK`). The money that left the wallet is summed over the finitely many callers whose
purchase is on its way. No admin outlives its row because whoever is about to drop the row
removed the admin before (`AdminGone`). The proof also showed a `CASE` of `Request` whose arms
overlapped for an account without a limit.

*Transfers.* One job per source is at work (`OnePerSource`). A user that no two jobs had in hand
at once, and whose look-up did not fail, is in one hand at most, and a job that knows no row of it
is right (`Exclusive`); that is why it gets one row at most (`OneRow`). What a job knows or
reports of rows stays true (`RowsKnown`), and the owner on the panel is the target if the job took
the user over and the source if not, unless another job has the user in its list or the panel
changed it (`OwnersKnown`).

*Bulk increase.* `IncreaseAddsUp` speaks of rest, so the invariant says what holds on the way.
For a service nobody else touches, panel user, row and due amount are related by how far the one
run that is at work has come: each of its program counters fixes which of the three has the
amounts already (`RunHolds`). Runs that have the row in their copy are told apart from those that
have not read it, and from an owner between the panel and the row (`RunsApart`, `OwnerApart`).

*Expiration.* For a service that no renewal crossed and no failure hit, what the pass holds is
still so when it acts: what is to be removed is over, what is to be told is owed (`HeldOK`), and
a notice that went out is marked on the row or pending in the pass (`RowOK`).

*Deposits.* As in *Conversations*, the undisturbed latest message tells what the session and the
record hold. An active session of a purchase has a record that waits and has nothing linked yet;
an open payment that counts as live is linked to the record of its purchase and covers what is
lacking, unless the maximum of the way cut it (`LinkOK`), so its credit makes the purchase.

*Send queue.* `pushed` is the order in which messages came. The invariant says that this order
leads from the list over the worker's message to those that were sent (the list has the newest
first, the worker takes from its other end), but for those that met a flood (`ListOrder`,
`TakenOrder`, `SentOrder`). A message is in the list once or with the worker (`HeldOnce`), only
one that met a flood is put back (`PutBack`), and a cut keeps the first `MAX_LEN` of a list
without duplicates, which is why what it cuts is older and the list was full.

*Broadcast.* Up to the cursor, or for a worker in a batch up to where the batch stands, everybody
was sent it (`BatchSent`, `NobodySkipped`), whatever was disturbed. A broadcast that was not
disturbed has at most one worker, and nobody behind the cursor or behind its batch was sent it
yet (`SentOnce`); so nobody is sent it twice. A row that is "gone" stays so: the worker of a
deleted broadcast may still finish its batch after the cursor went with the row, but no other
worker begins where that cursor was.

These invariants were checked by TLC before they were first proved: completely on the constants of
the run `Spending` for `Expiration` and the send queue, with one command more than that run for
`Broadcast` and with two services, two runs and one purchase for bulk increases, and to a depth of
12 for `Deposits`.

Only model-checked: all liveness, because fairness and `ENABLED` are out of the prover's reach;
`NobodyGivesUp`, which says that three clashing creators with prompt calls do not run out of
attempts, and would need an induction over the attempts of all three; and the six runs that end
in a violation, which are single behaviours.

## 5. Abstractions and limits

- One network per instance of the crypto modules: the code filters every query by `arz`, and
  order ids are unique. One user, one referrer, one reseller account, one panel in the other
  modules: nothing in those flows reads another one's state.
- Bonuses, prices, percentages, notifications and log messages are left out; what is counted is
  that a wallet is credited or debited and for what, a purchase costs 1, a reward is worth 1.
- Row locks are atomic transactions where the code takes them, which it does on MySQL and
  PostgreSQL. On SQLite it takes none; `Referral` and `Gifts` have both, the other modules have
  the locks.
- `close_if_open` of the direct gateways reads and writes without a lock; the model lets any step
  come between, as the default isolation of those databases does. (A server that refuses to
  update a row changed since the snapshot turns the write into a database error, which the model
  has too.)
- The gateways keep unverified money for the buyer for ever in the model; returning it after a
  while would only make a late verify answer "unpaid".
- `CryptoJob` alone assumes that a new invoice is apart from the other pending ones
  (`NewInvoice`), which is what `UniqueAmount` shows of finished creations. `CryptoPayments`
  drops the assumption; there `PaidAmountMatches` fails (see Findings), while the table's promise
  and the separation of amounts still hold.
- Amounts on TON may be finer than the quantum when an operator changes the decimals; the
  comparison there is exact, and the model's amounts are multiples of the quantum.
- An amount exactly between two pending ones matches both within the tolerance (`MatchDistance =
  1`): who gets it is up to the order of the rows. The comment at `cryptopayments.py:211` speaks
  of telling invoices apart by the tolerance; what is guaranteed, and checked, is that an exact
  payment never goes to another invoice.
- A handler of `Conversations` or `Deposits` is one action: the bot ignores presses of a user
  that follow within 0.8 s. A panel sells one plan and holds one service of the user. A step that
  changes nothing but the message (a panel that is down, a balance that does not suffice and no
  direct pay) is `Refuses` or a stutter. `disturbed` says when "only the latest message" is over.
- Random identifiers are unique by assumption; the code retries on a clash.
- The likeness of two photos of a receipt is equality, or a photo is unreadable. Which due
  receipts the job approves is a choice, as its rules are settings.
- The record of direct pay has a life of hours and does not expire in the model; its claim, which
  lives for minutes, does.
- Additions of days and of volume to a service are one amount in `Purchases`; what matters is
  that the new limit is computed from one read earlier.
- Explorers, gateways, panels, Redis and Telegram are environment: any answer they can give is
  possible, and only the liveness properties assume that what is tried again and again succeeds.

### Not modelled

The map covers about 12 % of the lines of the implementation. The rest is, by size: Telegram
handlers, keyboards, texts and help (about 41 000 lines), which build messages around the
calls modelled here; the two web front ends; panel clients and forms for panel settings;
figures for admins; migrations; backup (a dump and an upload); request authentication;
documentation. None of these keeps state that the modelled parts decide by, or it is an
external service whose failures the models contain. Smaller things left out of modelled
components are named in `PROJECT.json` under the component: TonPays `change_card`, the sender
of a broadcast and its monitor, the low-volume job, the record of a discount
code per user, the change of a reseller's plan, password and user limit, how sticky discounts are
granted, upgrades and transfers of services in the
chat, the conversation of the reseller shop.
