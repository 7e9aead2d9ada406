# Formal models of ReuseHub

ReuseHub is a second-hand marketplace: a Django REST backend (`src/backend`),
an Expo / React Native client (`src/mobile`), and the ClickPesa gateway that
takes the buyers' money and pays the sellers out.  This directory holds TLA+
models of its core, the configurations that check them with TLC, and proofs
that TLAPS checks.

Paths below are relative to `src/backend` or `src/mobile`.  In the modules, a
definition whose name starts with `Mut` is a seeded fault: a variant of the
definition that follows it, used to make sure that some property tells the two
apart.  No specification uses one.

## 1. Inventory

| Component | State | Operations that change it | Modelled in |
|---|---|---|---|
| order state machine (`orders/state_machine.py`) | two transition tables | `apply_transition`, pure | `OrderStateMachine` |
| order lifecycle (`orders/services.py`) | `Order.status`, `OrderItem.item_status` | `transition_order`, `transition_item`, `_sync_order_status`, `mark_order_paid` | `Fulfilment`, `FulfilmentLocks` |
| order pages and endpoints (`orders/views.py`, `serializers.py`) | what a page offers | `available_actions`, look-ups, actor rules | `OrderViews` |
| payments (`payments/services/payment_service.py`) | `Payment.status` of each attempt | `initiate_payment`, `verify_payment_status`, `handle_webhook`, `_apply_remote_status` | `Payments`, `PaymentLocks` (row locks), `Announcements` (what is told) |
| ClickPesa client (`payments/services/clickpesa_service.py`) | the cached token | `_request`, `_get_token` | `Gateway` |
| reconciliation (`reconcile_payments` command) | the list of one pass | `handle`, `reconcile_one` | `Reconcile`, `Payments` |
| wallet (`wallet/services.py`) | append-only ledger, cached `Wallet.balance` | `process_completed_sale`, `debit`, `refund`, `_sync_wallet_balance` | `Wallet` |
| withdrawals (`withdrawals/services.py`, `payout.py`) | `WithdrawalRequest.status`, `payout_status` | `request_withdrawal`, `transition`, `attempt` | `Withdrawals` |
| cart and checkout (`cart/`, `orders/services.py`) | cart lines, new orders | add, remove, purge, PATCH, merge, `create_order_from_cart` | `Checkout` (products), `CartLines` (quantities) |
| catalog (`catalog/`) | `Product.status`, images, favorites | PATCH, delete, upload and deletion of images, favorite toggle | `Checkout`, `Gallery`, `Favorites` |
| accounts (`accounts/`) | reset codes; users, tokens | forgot, reset; register, login, rotation, logout, profile PATCH | `PasswordReset`, `Sessions` |
| adminpanel | users | PATCH, suspend, activate, delete | `Sessions` |
| reviews | review rows | create | `Reviews` |
| chat, notifications | threads, messages, notices | open, post, mark read | `Conversations`, `Announcements` |
| auditlog | rows | `log`, best effort | `Announcements` |
| media store | bytes on disk and in the database | `_save`, serving, `backfill_media` | `Gallery` |
| mobile session (`api/client.ts`, `AuthContext.tsx`) | stored tokens, status | boot, shared refresh, sign in, sign out, refetch | `MobileSession` |
| mobile screens | screen state | poll, verify, retry, resend; older pages; load more; toggle | `PaymentScreen`, `ConversationScreen`, `ProductFeed`, `Favorites` |

How they interact.  A buyer's cart becomes an order (`create_order_from_cart`);
`initiate_payment` pushes a USSD prompt through ClickPesa; the outcome comes
back as a webhook, as the answer of a status query a buyer's `verify` makes, as
the answer of a query `reconcile_payments` makes from cron, or as the push's own
answer.  All four end in `transition_order(mark_paid | fail_payment)`, which
takes the products off sale, drops them from all carts and credits the sellers'
wallets (`process_completed_sale`).  Sellers and buyers then move the items one
by one; the last completed item completes the order, and completed items can be
reviewed.  A seller withdraws from the wallet; an administrator decides the
request, which pays out through the gateway or refunds the ledger.  Services
leave audit rows and notifications behind, best effort.  Every one of these runs
in some request thread against one PostgreSQL database in autocommit mode, with
`transaction.atomic` and `select_for_update` where the code says so.  The app
keeps a token pair, refreshes it once for all calls that meet a 401, and lets
every screen issue calls whose answers come in any order.

Hard behaviours, and what correctness means there:

* **Payments.** Answers are fetched in one transaction and saved in another,
  or outside any; four writers race for a row; requests die in between; calls
  to the gateway fail after they took effect.  Correct: no row says SUCCESSFUL
  unless money was taken; the order moves only on facts of the gateway; a lost
  webhook is made up for; whoever should know of a payment is told of it.
* **Locks.** Item and order, order and attempt, products and wallets of several
  sellers are locked in different orders by different calls.  Correct: every
  commit is atomic, no call waits for ever, and deadlocks come only from orders
  of rows that really cross.
* **Wallet and withdrawals.** The cached balance is recomputed by several
  threads; sales are credited from two places; refund and payout exclude each
  other.  Correct: balance = ledger sum and not negative, a sale is credited
  once, a request's money leaves once or comes back once.
* **Checkout and catalog.** The cart is read before the transaction, a PATCH
  writes back a row read earlier, a primary image is chosen by read and write.
  Correct: what was chosen is held once, SOLD means bought, a listing shows one
  primary image and its own pictures.
* **Accounts.** Codes and tokens are checked and used up in different
  statements, profile edits write whole rows back.  Correct: what has been
  closed - a code, a session, a suspension - stays closed, but for requests that
  straddle the closing.
* **The app.** Refresh, retry, sign-out and kills interleave across `await`s;
  polls and pages overtake each other.  Correct: no spurious sign-out, no token
  outlives a sign-out, nothing hangs, lists have no holes, and a pending payment
  is polled.

`PROJECT.json` lists every hazard at its line, with the property that covers it
or the reason why none does.

## 2. Modules

```
OrderStateMachine  <- Payments -> OrderPromise        (abstract specification)
                   <- Fulfilment <- FulfilmentLocks   (implements Fulfilment)
                                 <- Reviews, OrderViews
                   <- Checkout, PaymentLocks
Wallet <- Withdrawals -> Account                      (abstract specification)
Reconcile
PasswordReset, Sessions                               run together by MCAccounts
Reviews, OrderViews, Gallery, CartLines, Conversations,
    Gateway, Announcements, PaymentLocks              run together by MCServices
MobileSession
ConversationScreen, ProductFeed, PaymentScreen, Favorites    by MCScreens
proofs: PaymentsProof          CheckoutProof
        OrdersProof            (Fulfilment, Reviews, OrderViews) <- ServicesProof
        FulfilmentLocksProof   WithdrawalsProof (Wallet, Withdrawals, Account)
        AccountsProof          (PasswordReset, Sessions)
        MobileProof            (MobileSession, MCScreens)
        ServicesProof          (the parts of MCServices)
```

**`OrderStateMachine`** translates the tables `ORDER_TRANSITIONS` and
`ITEM_TRANSITIONS`, the permission rule (an edge listed for the administrator or
the payment actor is open to both, any other edge to its own actor only) and the
precondition of items on a paid order.
`OrderTargets` / `ItemTargets` are the statuses a call may end in; an empty set
is a refusal.

**`Payments`** follows one order through any number of payment attempts.  An
action is what one database transaction or one autocommitted save makes
visible.  What a thread read earlier stays in its `thread` record:
`InitiateCheck` / `InitiateCreate` / `InitiateAccepted` / `InitiateReply` /
`InitiateApply` are the places where `initiate_payment` lets others in,
`VerifyRead` / `VerifyQuery` / `VerifyApply` those of `verify_payment_status`.
`MarkPaid` and `FailOrder` are the order transitions that follow in transactions
of their own.  The gateway is external: an attempt is unknown, pending, or
settled once and for all (`collected`, `short` of the amount, `failed`,
`cancelled`).  A webhook is enabled as long as its attempt is settled, so it
comes once, again, late or never.  `Crash` ends a request or a cron pass
anywhere.

**`OrderPromise`** is what this promises: the order becomes paid only once some
attempt was funded or an administrator vouched, failed only once some attempt
was declined, and what ends it ends it for good.  `Payments!Promise` is the
refinement mapping: `funded` and `declined` are read off the gateway.

**`Announcements`** is the tail of the same calls: the audit rows and
notifications that follow a settlement, each of which may fail.  Inside the
webhook's and the reconciler's transaction a failed insert breaks the
transaction (later queries raise, the end rolls back without a word); in
`verify` it is only lost.  **`Gateway`** is the HTTP client below: the cached
token, the one retry after a 401, and what may have been carried out when a call
fails.

**`PaymentLocks`** has the row locks of the transactions that take money in,
over several orders: `Call` lists the rows each kind of call locks first, with
what it goes on to lock once it has read them (`SaleRows`: each line's product,
then its seller's wallet; the items at the COMMIT, through deferred foreign
keys).  The database ends one transaction of every cycle.

**`Reconcile`** is the command over the attempts of many orders: the list of
the oldest PENDING ones up to `--max`, the query, the error that skips one, the
test under the lock, the death of the command.  The rows it works on are written
by others meanwhile: `Webhook` and `Supersede` resolve them, and the answers of
a push (`PushEnds`) and of a `verify` (`Verify`, `VerifyAsks` / `VerifyEnds`)
also put PENDING back into a row that was resolved, which then returns to its
old place in the list.

**`Fulfilment`** is one order with its items when each service call is one step
with everything it brings along.  **`FulfilmentLocks`** cuts the same calls at
the points where they wait for a row lock or read: item then order for
`transition_item` (the select joins both), order then items for a cancelling
`transition_order`, a victim chosen by the database's deadlock detector, a crash
anywhere.  It refines `Fulfilment` on the committed rows.  **`Reviews`** and
**`OrderViews`** extend `Fulfilment`: reviews that are checked before they are
written, while the order moves on; and the pages that offer actions, with the
look-ups and actor rules of the endpoints they lead to.

**`Wallet`** has ledger rows, cached balance, row locks and the rows a
transaction has written but not committed.  **`Withdrawals`** adds requests,
administrators' decisions and the payout.  **`Account`** is its abstract
specification: money is earned once per sale, held when a withdrawal is
requested, then spent or given back once.

**`Checkout`** has product status, carts and orders; a request reads or
validates in one step and writes in a later one, as the code does in autocommit
mode.  `PayOrder` is the part of `transition_order` that touches products and
carts.  **`CartLines`** has what `Checkout` leaves out: quantities, the
anonymous cart, its expiry, and the merge that precedes an order.  `own` are the
products the customer sells himself: an anonymous cart may hold them, the merge
passes them over and drops them with it.

**`Gallery`** is one listing's pictures: the rows with their order and primary
flag, the bytes on disk and in the database, lost disks and `backfill_media`.
The command's second pass reads all rows when it begins (`listed`), judges each
by a look-up that may fail (`BytesAvailable`), and saves the whole row it read
(`RegenerateMissing`).
**`Conversations`** is the chat of two users as the server keeps it.

**`PasswordReset`** and **`Sessions`** take every statement as a step.  A session
is its refresh token; rotation is simplejwt's, as `config/settings.py` switches
it on, and external.  A logout is two statements as a rotation is: `LogoutCheck`
looks the token up, `LogoutBlacklist` blacklists it, and rotations come in between.

**`MobileSession`** takes the code between two `await`s as a step: the secure
store with its two keys, `refreshPromise`, the calls that wait for it, sign-in
and sign-out, and the kill of the app between any two steps.
**`ConversationScreen`**, **`ProductFeed`**, **`PaymentScreen`** and
**`Favorites`** have the calls of one screen, each answered late, in any order or
never, over the part of the server they read.

*History variables.*  Where two requests can undo a guarantee that one at a time
keeps, the module says exactly which overlap does: a variable such as
`disturbed`, `crossed`, `doubt` or `excuse` remembers that it happened, and the
property holds unless it did.  None of them keeps an action of the code
from happening, unless it is named as a bound.  What the documentation promises without the excuse is stated beside it
and listed in section 6.

The `MC*` modules name model values and symmetry.  `MCAccounts`, `MCServices`
and `MCScreens` put modules that share no state into one run: Init chooses which
one moves, the others stay where they are.  They compose nothing; the
state space is the sum of the parts'.  Each is a specification of its own,
though, so the proofs end with a theorem about it (section 5).

## 3. What TLC checks

| Run | Instance | States | Shows |
|---|---|---|---|
| `payments` | 2 request threads, cron, 2 attempts | 1 540 808 | `SuccessIsFunded`, `ExpiredIsSuperseded`, refinement of `OrderPromise`, with crashes everywhere |
| `payments_serial` | 1 request thread that never dies, cron that may die, 2 attempts | 78 640 | `SettledRowSettlesOrder`, `OnePendingAttempt`, `LostWebhookIsMadeUpFor` |
| `reconcile` | 2 attempts, 1 per pass | 33 448 | `ReachedIsResolved` |
| `withdrawals` | 3 workers, 2 sales, 2 requests, amounts 499.99, 500.00, 940.70 | 82 218 | `BalanceIsLedger`, `SaleCreditedOnce`, `PaidOutOrGivenBack`, refinement of `Account` |
| `fulfilment_locks` | 2 items, 2 workers | 217 498 | `OrderAndItemsAgree` at every commit, refinement of `Fulfilment` |
| `fulfilment_live` | 1 item, 2 workers | 52 470 | `EveryCallEnds` |
| `checkout` | seller, buyer, 2 products, 2 orders, 1 request thread | 336 858 | `SoldMeansBought`, `CartLineOrderedOnce` |
| `accounts` | 2 requests, 2 codes, 2 attempts each, 3 tokens | 1 170 611 | `ClosedCodesStayDead`, `UndisturbedCodeIsSingleUse`; `LogoutEndsSession`, `OneTokenPerLogin`, `UndoneOnlyByStraddlingWrite` |
| `services` | 2 requests; 3 items, 2 images, 2 contexts, 2 sellers, 3 orders that share rows | 719 451 | `ReviewedWasBought`, `OfferedIsAccepted`, `EachMovesHisOwn`, `OnePrimaryAtRest`, `PictureIsKept`, `ChosenIsHeldOnce`, `OneThreadUnlessCrossed`, `RecipientIsTold`, `RetryIsHarmless`, `AnnouncedIffSettled`, `DeadlockNeedsCrossing` |
| `mobile` | 4 kinds of call, 2 token pairs, 1 lost message or kill | 997 897 | `NoSpuriousSignOut`, `SignedOutStaysEmpty`, `NothingHangs` |
| `screens` | 2 or 3 calls under way, pages of 1, 5 messages, 2 filters of 3 pages, 2 attempts, 2 users | 598 450 | `NothingIsSkipped`, `FeedIsOneListing`, `PendingIsPolled`, `HeartsAreFavorites` |
| `doc_collected_...` | 1 request thread, 2 attempts | | a sentence of the documentation that the code does not keep, see section 6 |

The type invariants (`TypeOK`, `MCTypeOK`) are not listed in the runs: six of
them are proved as theorems, the others are part of the inductive invariants of
section 5 as far as those need them, and were checked by hand with the same
configurations.  `payments_serial` and `checkout` state what holds when one
request at a time is served; sections 2 and 6 say what two at a time do to the
same properties.

Why the bounds are enough:

* Two attempts are the least with an older and a newer one, and every check in
  the code compares a row with its own state, its order, or "older than the new
  one".  Two request threads and cron give every pair of writers beside the
  webhook, the buyer and the administrator.  The theorems of section 5 remove
  both bounds.
* `Reconcile`'s list is full with one of two attempts in it, which is when the
  other is left for a later pass; the older one may be settled, unresolvable, or
  settled and made PENDING again by a late answer.  Three attempts with late
  answers are beyond the time of a run.
* 500.00 is `MIN_WITHDRAWAL_AMOUNT`; 499.99 is just below it; 940.70 is the exact
  net of the sale worth 1000.75, so a request for it empties the wallet, and
  neither it together with 500.00 nor 500.00 twice is covered by one sale.  The
  fees of 1000.75 and 525.25 end in half a cent, which is rounded up.
  The run is about one seller: wallets of different sellers share nothing.
* Three items tell "the last one" from "one of two"; two items and two workers
  are the least that deadlock, and one item is enough to do so in
  `fulfilment_live`.
* `MaxAdds` bounds how often a product goes into a cart; two adds let a user
  order the same product twice legitimately.
* `checkout` has one request thread because two of one buyer break
  `CartLineOrderedOnce` (section 6).  Requests of different buyers meet only in
  the product status and in the lines a payment deletes, and payments, removals
  and views are actions of their own that come between any two steps of the
  thread.  `SoldMeansBought` is proved for any number of threads.
* `accounts`: two codes are one that is retired and one that replaces it; of
  three tokens one is minted, one rotated from it and one from that or from the
  same one again.  `MAX_VERIFY_ATTEMPTS` is 2 instead of 5: the first wrong entry
  leaves the code alive, the second exhausts it.
* `services`: of two pictures one leads and one is promoted.  One
  `backfill_media` runs at a time.  Three chosen pieces exceed the highest quantity 2.  Direct threads
  can be opened from both sides.  Of the three orders of `PaymentLocks`, o1 and
  o2 list the rows they share in the same order, o1 and o3 in opposite orders;
  three workers, which a cycle of three needs, were checked by hand (1 447 448
  states).
* `mobile`: two pairs are the stored one and its successor; with one fault each
  message is lost and the app is killed at every place once.
* `screens`: two calls overtake each other, the feed's third supersedes both.
  Five messages on pages of one are the least in which an older page may begin
  above the newest message shown, which the proof of `ShownWithoutGaps` asked
  for (section 5); a filter has three pages so that a middle one can be
  skipped.  The constraint `NothingIsExcused` ends a behaviour of the
  conversation at its first excuse: `excuse` only grows, and `NothingIsSkipped`
  claims nothing once it is not empty, so nothing is missed.

Symmetry is used over request threads, workers, tokens and calls in safety runs
only.  Deadlock checking is off in all runs: an order that is cancelled or
refunded has nothing left to do, and the counters that are bounded stop.

## 4. Fairness

* `Payments!Fairness`: cron starts the command every few minutes (the docstring
  of `reconcile_payments`, lines 20-21, asks the operator for that), so an attempt that is PENDING in
  run after run is listed, queried and applied in the end.  Strong fairness per
  attempt is needed because a run may die or a webhook may come first.
  That a pass comes to *every* pending attempt is an assumption here; `Reconcile`
  shows where it holds (`ReachedIsResolved`) and where not.  Nothing is assumed
  about customers, buyers, webhooks or request threads.
* `Reconcile!Fairness`: time passes, the command is started again, a question
  asked in pass after pass is answered some day, and the command does not die
  each time between the answer and its commit.  Nothing is assumed of webhooks,
  nor of the late answers that make a settled attempt PENDING again: they come
  or do not, and `ReachedIsResolved` holds either way.
* `FulfilmentLocks!FairSpec`: a worker goes on when it can, PostgreSQL grants a
  row lock to every waiter in the end, and its detector ends every deadlock.

The other runs assume no fairness.  Where something must not be waited for in
vain the safety form is checked instead: `NothingHangs`, `PendingIsPolled`,
`FeedIsOneListing` say that whatever a screen waits for is under way, and
`RetryIsHarmless` bounds the requests of a call.

## 5. What is proved

Every safety property that a passing run checks as an invariant is stated by a
theorem, for every value of the constants under the named assumptions, and so
are the refinements of `OrderPromise`, `Fulfilment` and `Account`.  TLC
evaluates the assumptions on the runs; each says only what the code supplies:

| Assumption | What it says |
|---|---|
| `PaymentsAssumption`, `CheckoutAssumption`, `WalletAssumption`, `WithdrawalsAssumption`, `ResetAssumption`, `ReconcileAssumption` | bounds are numbers, amounts natural numbers of cents; sellers are users; sets that are summed over or counted are finite; "nobody" is no worker |
| `FulfilmentAssumption`, `LocksAssumption`, `ViewAssumption`, `ReviewsAssumption` | an order has an item |
| `AccountsAssumption`, `MobileAssumption` | bounds are numbers; "no token" is no token |
| `ScreensAssumption` | "nobody signed in" is no user; a page holds a message at least (`max(1, ...)` in `_paginate`) |
| `CartAssumption`, `AnnounceAssumption`, `LockAssumption` | finitely many products and sellers; the log is no seller; an order's lines are a sequence |

### Orders and money

* **`PaymentsProof`.**  Lemmas on which edges the tables have (`OrderEdges`,
  `MarkPaidTargets`, ...) come first; later proofs cite them instead of the
  tables.  `PaymentsTypeCorrect`, `PaidRowsAreFunded`, `NewestAttemptIsLive`,
  `PaymentsKeepPromise` hold for any number of threads that may die.  None of
  the properties is inductive: a thread may hold an answer it will write steps
  later.  `Inv` says that rows exist exactly for the attempts made, that every
  busy thread works on an attempt that exists, that an answer once heard remains
  true (`RepliesAreTrue`), and that a thread about to move the order has a
  funded or a declined attempt behind it (`OrderStepsAreDue`).
  `MoneyOnRecordArrives` (`SettledRowSettlesOrder`) and `OnlyNewestIsPending`
  (`OnePendingAttempt`) are about `SpecSerial`, with `OneThread` as hypothesis:
  two threads do break them (section 6).  The reason they hold is
  `WorksOnNewest`: the thread's attempt is the newest, a PENDING row is the
  newest, and an order fails only because of the newest attempt - so a row that
  becomes SUCCESSFUL finds the order able to be paid.
* **`WithdrawalsProof`.**  Two layers.  `WithdrawalsPayOnce` and
  `SalesAreCreditedOnce` need only the requests' row locks and the ledger's
  unique constraint.  `Inv` says what a transaction may rely on at each point: a
  request in the making has no row yet and no rival (`Alone`), a decision holds
  the row and the move is still in the table (`MoveTx`), a payout is the only
  one of a completed request and has not told the gateway (`PayoutTx`).
  `BalanceNeverDrifts` (`BalanceIsLedger`) is what the wallets' locks add: a
  transaction that will write a balance holds the lock from before it sums the
  ledger, so its sum plus its own rows is what the ledger will be (`WalletInv`).
  `WithdrawalsKeepAccount` is the refinement: the held amount of a request
  (`HoldOf`) and what a sale has credited are read off the rows, and each commit
  is a step of `Account` or stutters.
* **`CheckoutProof`.**  `CheckoutTypeCorrect` and `SoldWasPaidFor` hold for any
  number of threads: a PATCH under way writes SOLD back only over a product that
  was bought when it read the row.  `OneOrderPerCartLine` is about one thread:
  what is in the cart, or in the hand of the request under way, and in orders
  never exceeds what was put in (`LineIsCovered`).
* **`OrdersProof`.**  `FulfilmentTypeCorrect`, `EnvelopeAgrees`, `CreditIsDue`
  by a joint induction: that items agree needs that a paid order has credited
  its sellers, and conversely.  `ReviewsAreOfSales`: a request that has looked
  holds an item that was credited, and credits are never taken back.
  `OffersAreHonest`: a page that is not stale shows what its user may do now.
  `OwnItemsOnly`: an item goes through its seller's hands before its buyer's.
* **`FulfilmentLocksProof`.**  `LocksTypeCorrect`, `LocksImplementFulfilment`,
  `LocksAgree`.  What a worker has decided is still what `apply_transition`
  would answer on the committed rows, because it holds their locks.  Commits map
  to steps of `Fulfilment`, all else stutters.

### Accounts

* `ResetTypeCorrect`, `ClosedIsClosed`, `SingleUse`: what a request remembers of
  a code nobody disturbs is what the code's row says (`CodeInv`); codes that are
  being created have room, and their issuers have retired all before
  (`Pointers`).
* `LogoutIsFinal`, `LoginHasOneToken`: the ancestors of a token that is valid, or
  being minted, are blacklisted (`TokenInv`), so none of them can be rotated any
  more - except where two rotations of one token overlapped.  A logout that is
  about to blacklist a token may find that it has been rotated since, or that a
  rotation of it is under way: its 204 then ends nothing (section 6,
  `AnsweredLogoutEndsSession`), and it does not count as one that names the
  session (`loggedOut`).  Where it finds the token valid and no rotation under
  way, nothing has been rotated from it, and nothing ever will be.
* `RowWritesKeep`: whoever read a row since the suspension, or the new password,
  writes just that back (`RowInv`).

### Services

* `ClientRetriesSafely`: a request that was carried out has ended its call.
* `OneThreadEach`, `EveryMessageIsTold`: a request about to create a thread has
  found none, or the context is crossed (`ThreadInv`); a message has one notice,
  or a request that is to write it, or has lost it (`NoticeInv`).
* `OneImageLeads`, `PicturesAreKept`: each picture has its bytes somewhere, or
  lost them with a disk, or had its copy drawn over after a look-up that failed
  (`KeptInv`); the one request under way is at the statement that the flags are
  at (`SerialInv`, by `Phase`), and a row that `backfill_media` writes back is
  the row that is there, or the listing counts as disturbed.
* `CartsKeepChoices`: what the request under way has read is still so; the
  customer's own products are in neither his cart nor his orders.
* `PeopleAreTold`: whoever is due is told, or still to be told by a call that can
  commit.
* `OffersAreKept`, `OthersItemsStay`: `OrdersProof` instantiated for the second
  order of this run.
* `CirclesCross` (`DeadlockNeedsCrossing`): a transaction holds rows of its own
  call only, those of a sale in the order the sale takes them; whoever waits for
  an order, an attempt or an item waits for another call on the same order.  A
  circle in which every member waits for a product or a wallet gives the set of
  rows that `Crossing` asks for.

### The app

* `MobileTypeCorrect`, `RefreshNeverFailsAlone`, `SignedOutIsFinal`,
  `EveryWaitIsAnswered`.  As long as nothing has ended it, a session is `Alive`:
  both stored tokens are of one pair, whose refresh token the backend takes,
  except in the middle of a refresh or a sign-in; no sign-out runs.  Every call
  that runs is somebody's (`Matched`), every wait has its refresh (`Awaited`).
* `WaitIsPolled`: screen and chain of polls agree, and every success that is on
  its way is true.
* `HeartsAreRight`: of a product without doubt one tap at most is under way; heart
  and row stand as it left them.
* `FeedIsARun`: of the calls that are not stale there is one at most, and it asks
  for the first page or for what continues the list.
* `ShownWithoutGaps`: without an excuse the screen shows the messages a to b, and a
  page on its way reaches up to a.  This proof found a hole: an older page of a
  history that has grown by more than was shown begins *above* the newest message
  shown, and joins the list with a gap.  The model had excused such a gap for
  polls only, and the bounds of the run were too small to show it.  The excuse
  `burst` now covers both, and the run's bounds reach it.

### How the proofs are laid out

`AccountsSideBySide`, `ServicesSideBySide` and `ScreensSideBySide` take the
component theorems to the specifications the runs check: where one part moves,
the others stutter.

Sums and sequences that a definition builds by a recursive function (`BalanceOf`,
`FlattenSeq`) are reasoned about through the least counterexample, since `<` is
well-founded on the naturals (`NatLessThanWellFounded`); the library's induction
theorems, which take an operator as parameter, cannot be used.  An update nested
in an update (`[f EXCEPT ![x] = [@ EXCEPT ...]]` where both use `@`) is not
translated rightly by tlapm 1.4.5, so the models do not use one.

Only model-checked: the liveness properties (`LostWebhookIsMadeUpFor`,
`ReachedIsResolved`, `EveryCallEnds`), since fairness and `ENABLED` are out of
the prover's reach; and that `ReviewedWasBought` holds under `MCServices!MCSpec` too (`OrdersProof` has
it for `Reviews`' own specification).


## 6. Where code and documentation disagree

One disagreement is a run of the project: `CollectedMoneyIsNotStranded` - money
collected for an attempt that is EXPIRED or FAILED here never reaches the order
(`reconcile_payments.py:63`, against its lines 7-9).

Three have a configuration of their own, to be run by hand
(`tlc -config Doc<Property>.cfg <module>`):

| Property | Module | The documentation | The code |
|---|---|---|---|
| `CancelledAttemptIsResolved` | `MCPayments` | `reconcile_payments.py:17-18` "exactly as the webhook would" | "cancelled" is not applied |
| `EverySettledIsResolved` | `Reconcile` | `reconcile_payments.py:6-9` "any Payment still in pending" | only the oldest `--max`, and unresolvable ones stay among them |
| `AnsweredIsSettled` | `Announcements` | `auditlog/services.py:17-18` "logging must never break the business action", `notifications/services.py:8-9` | inside the webhook's transaction a swallowed error of an insert undoes the settlement |

The others are shown with the configuration of the module's run: replace its
properties by the one of the row (and the specification by the one named).  TLC
finds all of them violated:

| Property | Configuration | The documentation | The code |
|---|---|---|---|
| `OnePendingAttempt` | `MCPayments.cfg` | `payments/models.py:4` "at most one is PENDING at a time" | with two request threads, `_apply_remote_status` writes an expired attempt back to PENDING |
| `SuccessfulIsFinal` | `MCPayments.cfg` | `payment_service.py:486` "once a payment is SUCCESSFUL it is returned as-is" | verify saves an answer that is older than the webhook's (`:556`) |
| `RefusedMeansAlreadyPaid` | `MCPayments.cfg` | `payment_service.py:109` a refused `mark_paid` is "already PAID" | it is refused on cancelled and failed orders too |
| `PaidByWebhookOrVerify` | `MCPayments.cfg` | `CLICKPESA_INTEGRATION.md:219-221` paid only through webhook or verify | initiate and the command mark paid too |
| `TotalWithdrawnIsConfirmed` | `MCWithdrawals.cfg` | `withdrawals/services.py:20-22` the sum "reflects successfully-confirmed payouts" | the ledger row counts from the request on, rejected or not |
| `ReversedIsRefunded` | `MCWithdrawals.cfg`, `SpecWithAdminSite` | `withdrawals/services.py:17-18` a failed request "can never leave the balance inconsistent" | the Django admin site leaves `status` editable |
| `PayoutIsRecorded` | `MCWithdrawals.cfg` with one worker, no symmetry, `FairSpec` | `payout.py:88-89` "always recorded" | not when the worker dies or another exception is raised |
| `InTransitIsNotCredited` | `Fulfilment`, `Items = {i1, i2}` | `ARCHITECTURE.md:210-211` "not yet credited" | sellers are credited when the order is paid |
| `RefundTakesCreditBack` | `Fulfilment`, `Items = {i1, i2}` | `PRESENTATION_QA_GUIDE.md:222` | a refund leaves the sellers credited (`orders/services.py:87`) |
| `SoldStaysOffSale` | `MCCheckout.cfg` | `orders/services.py:95-96` | a PATCH that began before the payment puts a sold product on sale again (`catalog/views.py:119`) |
| `SoldIsNotSoldAgain` | `MCCheckout.cfg`, two buyers, two request threads, `MaxAdds = 1` | `test_state_machine.py:125` "no longer for sale" | an older order for it can still be paid |
| `FlushedIsOrdered` | the same | `PRESENTATION_QA_GUIDE.md:214` reads the cart inside the transaction | it reads before, and flushes what was added since |
| `CartLineOrderedOnce` | the same | `PRESENTATION_QA_GUIDE.md:453` "serialized on the order row" | two checkouts at once order the same lines twice |
| `CodeIsSingleUse` | `MCAccounts.cfg` | `accounts/models.py:140` "Single-use" | two requests that hold a code both set a password |
| `OneLiveCode` | `MCAccounts.cfg` | `accounts/models.py:144` "only ever has one live code" | retiring and creating are two statements |
| `ExhaustedStaysExhausted` | `MCAccounts.cfg` | `accounts/models.py:149` five attempts | the count that was read is written back |
| `ResetEndsSessions` | `MCAccounts.cfg` | `accounts/views.py:149-150` "all refresh tokens are unusable now" | the tokens that are out are not blacklisted |
| `AnsweredLogoutEndsSession` | `MCAccounts.cfg` | `PRESENTATION_QA_GUIDE.md:159` "blacklists the refresh token server-side immediately" | a rotation between the look-up and the blacklisting (`accounts/views.py:181`) leaves a token that refreshes after the 204 |
| `SuspensionHolds` | `MCAccounts.cfg` | `adminpanel/views.py:312-313` loses login capability | a profile PATCH under way writes ACTIVE back |
| `SuspendedGetsNoToken` | `MCAccounts.cfg` | `PRESENTATION_QA_GUIDE.md:168` suspension revokes ongoing activity | rotation does not look at the profile's status |
| `OfferedHasEndpoint` | `MCServices.cfg` (`View!`) | `state_machine.py:243-244` "every action name matches a POST endpoint" | administrators are offered three that have none |
| `AdminsArePermitted`, `PaidItemsCanGoOn` | `MCServices.cfg` (`View!`) | `state_machine.py:134-135` "admins are permitted on any transition" | a buyer's or a seller's edge refuses them, also for items of their own |
| `ReviewedIsCompleted` | `MCServices.cfg` | `reviews/models.py:3-5` "a specific completed order item" | a refund keeps the review |
| `PrimaryIsPromoted` | `MCServices.cfg` (`Picture!`) | `PRESENTATION_QA_GUIDE.md:135` "auto-promotes the next one" | not if the next one's disk copy is gone |
| `StoredCanBeOpened` | `MCServices.cfg` (`Picture!`) | `media_store/storage.py:3-5` served from the database | `get_valid_name` drops the slashes, so the copy is never found by `open` |
| `OnlyMissingIsRegenerated` | `MCServices.cfg` (`Picture!`) | `backfill_media.py:16-20` regenerates images "whose bytes are missing from both disk and the database" | a look-up that fails counts as missing (`:97`): the placeholder replaces a picture the database has |
| `OrderedAsChosen` | `MCServices.cfg` (`Cart!`) | `PRESENTATION_QA_GUIDE.md:453` | a repeated order request, or a PATCH that meets the flush, orders more |
| `ExpiredCartIsDeleted` | `MCServices.cfg` (`Cart!`) | `cart/models.py:30` "deleted after this timestamp" | they stay, and keep their session key |
| `OneThreadPerContext` | `MCServices.cfg` (`Chat!`) | `chat/services.py:3-6`, `ARCHITECTURE.md:274` "reused rather than duplicated" | two requests find none and create two |
| `MostRecentlyActiveFirst` | `MCServices.cfg` (`Chat!`) | `chat/views.py:32` | no message touches `updated_at` |
| `ErrorMeansNotDone` | `MCServices.cfg` (`Client!`) | `clickpesa_service.py:53-54` "raised when a call fails" | the gateway may have carried it out |
| `BuyerIsToldOnce` | `MCServices.cfg` (`Payment!`) | `ARCHITECTURE.md:325` "no duplicate hook" | payment and order both notify the buyer |
| `LoginScreenMeansNoTokens` | `MCMobile.cfg` | `AuthContext.tsx:138`, `ARCHITECTURE.md:725`, `:749` tokens are cleared | not if the boot call fails without a 401, or a refresh ends after the sign-out |
| `SignedInMeansTokens` | `MCMobile.cfg` | the signed-in screens belong to a session | a sign-out that ends late clears the tokens of a sign-in |
| `NewMessagesAreShown` | `MCScreens.cfg` | `PRESENTATION_QA_GUIDE.md:320` "shows new messages" | not the one that came before one's own |
| `ListedAsFiltered`, `ScrollGoesOn` | `MCScreens.cfg` | `useProductFeed.ts:29`, `:31` | a first page that fails leaves the list and the next page of the filter before; a refresh leaves `loadingMore` set |
| `FailedIsTheNewest`, `GoesBackOnce` | `MCScreens.cfg` | `PaymentScreen.tsx:251-252`, `:13` | an answer that comes late shows a failure that is over; every success reply sets a timer, which fires also after leaving |
| `FavoriteCanBeRemoved` | `MCScreens.cfg` | `catalog/views.py:224` "DELETE ... -> remove" | not of a product that has been sold |
| `NobodyHasNoHearts` | `MCScreens.cfg` | `FavoritesContext.tsx:5` "rollback on failure" | the rollback lands in the next account's set |

A name with an instance in front (`View!...`) needs an alias in the MC module,
as the listed properties have.

One that needs no model: `orders/admin.py` leaves the status editable that
`orders/models.py:17-18` reserves for the state machine.

## 7. Abstractions, and what is not modelled

* Names, wording, addresses, phone numbers, HTTP headers, JSON, checksums and
  the webhook signature check are left out.  A webhook that fails its checks
  changes no modelled state.
* A gateway answer is one of six values; anything the code does not recognise
  folds onto "pending", as `interpret_remote_status` does.
* `Payments` takes each transaction as one step: the row locks it holds make
  test and write one step.  The order in which it takes them, and the deadlocks
  that follow, are in `PaymentLocks`; a deadlock abort is a `Crash` in
  `Payments`.
* `FulfilmentLocks` takes the credit of the sellers as part of the commit; the
  locks of the wallets are in `Wallet` and `PaymentLocks`.
* Amounts are integers in cents; prices are left out of `Checkout` and
  `CartLines`.
* `Sessions` and `PasswordReset` leave out hashing, e-mail, validation of fields
  and the lifetimes of access tokens; `MobileSession` has the latter.
* A cart holds one line per product, as the unique constraint has it for lines
  without attributes (`cart/models.py:85`); lines with attributes, which it does
  not cover, are not modelled.
* `MobileSession` treats a refresh that the backend refuses for another reason
  than the token - a 429 of the rate limit, a 5xx - as one whose reply is lost:
  the client clears the tokens in either case (`client.ts:72`).  Errors of the
  secure store itself are left out.
* The excuse variables of section 2 take out of a property exactly the overlap
  they record.  Those overlaps are real; where documentation promises more,
  section 6 has the property that shows them, and the notes of the hazards in
  `PROJECT.json` name it.
* The app's calls are followed one screen at a time; the screens meet only in
  the session, whose errors they take as those of the network.
* Not modelled, with the reason for each in `PROJECT.json`: `core`, settings,
  seed data and reports (no behaviour of their own); the read-only sides of
  `adminpanel`, `wallet`, `catalog` and `auditlog` (lists, search, dashboards,
  aggregates); the order and notification lists and the one-shot forms of the
  client (one call at a time, state that dies with the screen).

## 8. Plan

Done: all components of section 1, and theorems for all invariants of the runs
and the three refinements.  Left, in this order:

1. `ReviewedWasBought` under `MCSpec`, and type correctness as theorems of their
   own where it is now a part of an invariant.
2. Larger instances of `mobile` (two faults) and `screens` (three calls each).
3. The order and notification lists of the client.
