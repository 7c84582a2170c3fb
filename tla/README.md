# TLA+ verification of fixpilot-backend

fixpilot-backend is the NestJS backend of a multi-tenant SaaS for repair shops.
Every tenant is a *company*; its staff register customers, open repair orders,
sell products, and the company pays a subscription through Stripe. The process
keeps no state between requests: all of it is in PostgreSQL (through Prisma,
READ COMMITTED, the default isolation), in Redis (cache and login counters), in
S3 and at Stripe. Requests run concurrently, in one event loop and in several
processes (`src/README.md` deploys with PM2 `-i max`), so two handlers
interleave at every `await`.

That is what the models are about. A handler is a small state machine per
client: one action per database statement or transaction, per cache operation
and per call of a remote service, over tables that every client shares. What a
handler has read stays in its request record and is stale as soon as another
client moves.

## 1. Inventory

| Component | State | Operations | Hard behaviour | What makes it correct |
|---|---|---|---|---|
| Repair orders (`modules/repair-orders`) | `repair_orders`, `…_status_history`, `…_comments`, `…_images` | create, changeStatus, update, addComment, addImage, removeImage, findByToken, lists | folio numbering without a lock, bounded retry; check-then-write on status; events after commit | dense unique folios; history, stamps and status agree; closed orders rest; public view consistent |
| Branches (`modules/branches`) | `branches` (soft delete, `is_main`) | create, update, remove | unset-main/set-main under READ COMMITTED; removal counts orders first | no more main branches than clients that overlap; no active order in a removed branch that the count could have seen |
| Customers (`modules/customers`) | `customers` | create, update, remove | phone checked before the write; removal counts orders first, foreign key | no order without customer; duplicate phones from overlaps only |
| Paged lists and analytics (`findAll`s, `modules/analytics`) | none (reads) | pages, revenue, statistics | two statements in either order, a list that shifts between pages | a row is missed, or an order counted twice, only by a race that can be named |
| Sales (`modules/sales`) | `sales`, `sale_items`, product stock | create, cancel | stock checked outside the transaction, row locks in item order, deadlock victims | stock equals supplies minus sales unless a stale edit overwrites it; all or nothing; no request waits for ever |
| Inventory (`modules/inventory`) | `products` | create, update, remove, stock helpers | absolute overwrite of stock | in the ledger of sales |
| Subscriptions (`modules/subscriptions`) | `subscriptions`, `plans`, `processed_stripe_events` | webhooks, checkout, cancel, resume, changePlan, the guard | duplicate, concurrent and reordered webhooks, crash between handling and marking | the row follows Stripe; a checkout is recorded; every event is processed |
| Auth (`modules/auth`) | `users`, `refresh_tokens`, reset / verification / invitation tokens, Redis counters | register, login, refresh, logout, password flows, verify, accept invitation | rotation and single-use tokens checked before they are consumed; revoke-all against rotation; two Redis calls per failure | after a revoke-all no older session lives; an invitation makes one account; the newest link works; failures are forgotten |
| Users, companies, profile cache | `users`, `companies`, invitations, `user:` / `company:` / `plans:` entries | profile, update, remove, invite, plans | read-through cache against invalidation, writers that do not invalidate | a stale entry has a cause, and ends |
| Admin | `companies` | deactivate, reactivate | leaves the cached company alone | as above |
| Files (`modules/files`) | `files`, S3 objects | upload, presign, confirm, remove, removeByResource | two stores without a transaction | a live record has its object |
| Notifications (`modules/notifications`, repair listeners) | `email_logs` | listeners of all domain events, `EmailService.send` | delivery and log are separate steps; the SDK's own retry after a lost answer; a loop over admins; nothing else is retried | SENT means delivered, a listener mails again only what got no answer, everybody has an outcome |
| Health, platform | none | – | – | – |

Components interact through the shared tables (branches and customers are read
by order creation and removed under a count of orders; sales and inventory
share the stock), through the event emitter (orders, auth, companies and
subscriptions emit; the listeners mail), and through the caches.

## 2. Modules

An action stands for one database statement or transaction, one call of Redis,
S3, SES or Stripe, or one change made by somebody outside the program. A client
or handler has one request outstanding; its record (`req`, `call`, `pc`, `handler`, `request`)
says where the handler is and what it has read. A request that is rejected on what it
read ends without a step: it changes nothing. `Fail`, `CallFails`, `Abort`,
`LoseAnswer`, `StatementFails` and `Crash` end a request anywhere; what was committed before stays. Operators
named as a mutant in their comment are plausible mistakes kept to show that a
property can fail; nothing in a specification uses them.

| Module | Models | Checked with | Proofs |
|---|---|---|---|
| `RepairStatuses` | `domain/status-transitions.ts` | the order modules | |
| `FolioRegister` | abstract: a register of orders per company, numbered in one step | refined by `OrderFolios` | |
| `OrderFolios` | `createWithFolioRetry`: transactions, unique index, retries, aborts | `MCOrderFolios` | `RepairOrders_proofs` |
| `OrderLifecycle` | `changeStatus`, `update`, comments, images, `findByToken`, the events | `MCOrderLifecycle` | `RepairOrders_proofs` |
| `Sales` | `SalesService`, `InventoryService`: row locks, deadlocks, stock | `MCSales` | `Sales_proofs` |
| `Branches` | `BranchesService` with the order handlers that touch a branch | `MCBranches` | `Branches_proofs` |
| `Customers` | `CustomersService` with order creation, `changeStatus` and the foreign key | through `DeskReports` | `Customers_proofs` |
| `DeskReports` | extends `Customers`: the paged lists, `getRevenueSummary`, `getRepairStats` | `MCCustomers` | `Customers_proofs` |
| `Subscriptions` | webhooks, checkout, cancel, resume, changePlan, the guard; Stripe | `MCSubscriptions` | `Subscriptions_proofs` |
| `AuthSessions` | login, refresh, logout, what revokes all sessions, resets | `MCAuthSessions` | `Auth_proofs` |
| `Accounts` | register, verification links, invitations, accounts by an admin, the lockout | `MCAccounts` | `Auth_proofs` |
| `ProfileCache` | the Redis entries of users, companies and plans, and all who write the rows | `MCProfileCache` | `ProfileCache_proofs` |
| `Files` | `FilesService`, `S3Service`: the table and the bucket | `MCFiles` | `FilesAndMails_proofs` |
| `Notifications` | the listeners, `EmailService.send` with its log; SES | `MCNotifications` | `FilesAndMails_proofs` |

Three proof modules are about two specifications each, so the variables and
operators of the second have names of their own: `folioVars`, `FolioNext`,
`FolioSpec` in `OrderFolios`, `sessionVars`, `SessionNext`, `SessionSpec` in
`AuthSessions`, `mailVars`, `MailNext`, `MailSpec` in `Notifications`.

How they compose: `OrderFolios` says what creation promises (`FolioRegister`),
and `OrderLifecycle` takes an order from there with one `Create` step. `Branches`
and `Customers` each carry the steps of the order handlers that race with a
removal. `DeskReports` conjoins the writes of `Customers` with what they do to the
lists and to a reader; the client that reads is busy in both
(`StartReading`, `StopReading`). `Sales` holds sales and inventory together because
they share the stock column. `Subscriptions` includes Stripe as an environment
that sends every event until a delivery succeeds, in any order; `Notifications`
takes over where any module emits. `ProfileCache` sees the rows of the others as
versions, since a cached entry is right or stale as a whole.

What the state corresponds to is said at the head of each module. What is left
out of a modelled part are columns and answers no property depends on: names,
addresses, prices, wording.

PostgreSQL is modelled at READ COMMITTED: a statement sees committed rows; an
UPDATE waits for the transaction that has updated its row and then looks at the
row again; an INSERT waits for an open transaction that has inserted the same
unique key; waiting in a circle aborts one transaction. Soft-deleted rows count
for unique indexes and foreign keys.

## 3. What the runs show

| Run | Instance | Shows |
|---|---|---|
| `folios` | three creators of one company, one of another, two attempts | dense folios in commit order, never two orders for one request and no answer without an order (an error may leave one, when the answer to the commit is lost), giving up only after as many foreign commits as attempts, every create ends; implements `FolioRegister` |
| `order_races` | two clients on one order, an image, history up to 5 rows | history, status, dates, events and the public page agree, although a stale change of status may overwrite a newer one; a closed order changes only through requests that were let in before |
| `sales` | two clerks with crossed carts, one cancels, a stock keeper | stock is what was supplied less what was sold, but for a product whose stock an edit set from a number that was stale by then; overselling is bounded by one decrement per clerk; every request ends in spite of deadlocks |
| `sales_restored_twice` (violation) | two clients cancel one sale | the stock is given back twice |
| `branches_mains` | two clients, three branches, an order | never more main branches than clients, however their transactions overlap; an active order in a removed branch came after the count |
| `customers_races` | two clients, three customers, two orders, two phones, pages of one row | no order loses its customer; duplicate phones come from overlapping checks only; a walk through the pages misses a row, and a report counts an order twice or not at all, only by a named race |
| `subscriptions` | one subscription, two plans and an unlisted price, two deliveries at a time, three events, one crash | rows follow Stripe once everything is handled and nothing older overwrote something newer; checkouts are recorded and open the guard; every event is processed in the end |
| `auth_sessions` | two requests at a time, four seconds, three resets, two revocations | revoking everything ends the sessions but those being handed on at that moment; a token has no more successors than overlapping refreshes; a revoked token stays so |
| `accounts` | two requests at a time, one address, two companies that invite and one that is registered | invitations and members match; duplicate invitations overlap; the newest link works; failures are forgotten |
| `files` | two requests, two files of one resource, one object per S3 call | a listed file has its object; a removed one stays removed and its object goes, unless its deletion failed or died, or the client uploaded it again |
| `profile_cache` | two requests at a time; a user, a company and the plans, two writes each | a stale entry has one of four causes; once nobody writes, the entries come to agree with the rows |
| `notifications` | one event, three addresses, three attempts of the SDK, two failing statements, a crash | the log agrees with the mailboxes, a mail is repeated only after an answer that did not come; a refusal concerns its recipient only; no listener stays in the middle |

Several properties say *when* the code's check-then-write goes wrong, since it
does: they bound the damage by the overlap that is needed for it
(`DuplicatesOverlap`, `DuplicatesBoundedByClients`, `MainsAreBounded`, `OversellIsBounded`,
`NewestResetOnly`, `ExchangedOnce`) or name the races and show there is no other
(`StaleHasCause`, `StockMatchesSales`, `LogMatchesMail`, `PagesMissNothing`, `RevenueCountsOnce`, `RevokedSessionsEnd`,
`NoOrderLeftBehind`). The history variables that record those races are marked
*history* at the head of each module; no guard reads them.

### The disagreements

- `cancel` of a sale reads the status before the transaction that restores the
  stock, so two overlapping cancellations both restore it (run
  `sales_restored_twice`).
- `changeStatus` reads the order, checks the transition and writes by id in a
  transaction that does not look again. `DELIVERED` and `CANCELLED` are "no
  further transitions" (`status-transitions.ts:5`); a change that was checked
  before the order was closed still leaves them. The history stays allowed and its
  last row names the status (both proved), but two consecutive rows need not join
  up. `ClosedOrdersRest` says what does hold.
- `src/README.md:449` calls webhook processing idempotent. The mark is looked up
  first and written last, so overlapping deliveries and one that dies in between are
  handled twice. The row is the same after that; the event is announced, and the
  admins mailed, once per handling. `LogMatchesMail` is about one announcement.
- Two admins who start a first checkout at the same time create two customers at
  Stripe, of which the company keeps one; `CheckoutIsRecorded` is stated for one
  admin at a time.
- The SES client is built without options (`ses.service.ts:23`), so it makes up to
  three attempts: a mail that was delivered without an answer is delivered again under
  one row of `email_logs`, and may end as FAILED.
- The product form sets the stock to a number and not by a difference
  (`inventory.service.ts:126`): a sale or a return that commits between the read of
  the form and its update is lost. `StockMatchesSales` excepts the products to which
  this has happened (`overwritten`), and no others.
- `BranchesService.update` (`:134`) sets `isMain` by id on a branch that may have been
  removed since it was found, and unsets the others: the company then has no live
  main branch. `MainsAreBounded` is a bound from above only.
- `handleInvoicePaid` and `handleInvoicePaymentFailed` write ACTIVE and PAST_DUE
  whatever the subscription's status at Stripe is. An invoice paid after the
  subscription has ended, or tried by hand while it is unpaid, and the first invoice of
  a trial would make the row differ from Stripe. The environment of `Subscriptions`
  has none of the three (the checkout asks for no trial); no property is about them.
- `InventoryService.findAll` with `lowStock` filters a page after it was read: `total`
  is the number on that page, while `pages` counts all products. No run is about it.

### Bounds

Races in this code need two requests, and the ones that need a third (a creator
who loses twice, a stock keeper beside two clerks) have it. `MaxAttempts` is 2
where the code has 3, so that three creators reach the limit; the proofs cover
every value. `MaxHistory` limits the changes of status that are asked for: five rows
are a creation, a path to a closed order and a stale change. Three Stripe events
are a checkout and two more of any type: enough for a duplicate, a reordering and
an event that comes before the row it is about. They do not reach a second failed
payment, an unpaid subscription or a payment after a failed one: these are in the
specification, and in the proofs, which hold for any number of events. Four seconds give a login, a
refresh, a second refresh and a token in the same second as each. A lockout
after two failures leaves room for a third that was counted concurrently. Two
versions after the first make an entry stale twice. Pages of one row make the
shortest list shift. Listeners share nothing but the process, so one event with three
recipients is enough for the mails; the three attempts are the SDK's default.
`ChunkSize` is 1000 at S3 and 1 here, so that two files make
two calls. One client at a time reads a list or a report.

Deadlock is not checked: every system here may come to rest, when all ids of the
instance are used up or nobody sends a request. That nothing waits for ever is
what the liveness properties say. Symmetry is used in the runs without liveness
only, over sets whose elements are interchangeable.

### Fairness

- `OrderFolios`: weak fairness of each started handler; the wait for a key ends
  because its holder goes on. Nobody has to send a request, and nothing has to
  fail.
- `Sales`: strong fairness of each started handler, whatever its next statement, because
  a row may be locked and released again and again while it waits; PostgreSQL serves the waiters of
  a row in order. Weak fairness of the deadlock detector.
- `Subscriptions`: a pending delivery is made again (Stripe's retries) and a
  handler goes on; crashes are bounded by `MaxCrashes`.
- `Files`: a removal under way and a background deletion go on. That a deletion
  succeeds is not assumed.
- `ProfileCache`: Redis ends what has a time to live, and a request that has begun
  to fill or delete an entry goes on or fails. Nobody has to read or write.
- `Notifications`: a promise that is awaited settles. That SES delivers, or that the
  process survives, is not assumed.

The other specifications state no fairness: their properties are about what no
step may do.

## 4. What is proved

TLAPS proves the theorems below for every value of the constants that the named
assumptions of the modules admit. Those are the types of the constants, and:

- the bounds (`MaxTime`, `MaxEvents`, `MaxInvitations`, ...) are natural numbers,
  of any size;
- `Clients`, `CallHandlers`, `SalesClerks` and `SaleIds` are finite where something
  is counted against them;
- the marker `"none"` is no e-mail address, customer or phone;
- a cart names a product once (`create` refuses one for which it finds fewer
  products than ids), each in a positive quantity of at most `MaxQuantity`;
- the client of SES makes at least one attempt (`MaxTries`).

Every safety invariant and every action property of the runs is stated by a theorem,
one of them (`StockIsAccounted`) under a hypothesis on the behaviour. Each module's
main argument is an inductive invariant (`IInv`, or `FolioInv`, `SessionInv`,
`MailInv`), with a lemma for the initial states, one lemma per action or group of
actions, one for every step, and the theorems that follow from it. What counts or
orders things is proved on top of it, as an invariant of its own.

**Folios** (`RepairOrders_proofs`). `FoliosAreDense` is not inductive: a request in
the middle of its transaction must be known to hold a good number. The
invariant adds `ReadsAreFresh` (a number that was read is at most one past the
last committed one, and the holder of a key has exactly the next), `OneHolder` (so
at most one transaction of a company holds a key) and `AttemptsWitnessCommits`
(every failed attempt saw a commit since the request began). `LatestIsCount` turns
the aggregate into the number of orders. A commit whose answer is lost stores its order and
ends in an error, so `OneOrderEach` says that there are never two and that an answer has
one, not that an error has none. From the invariant follow `FolioNumbersAreDense` and
`GivingUpMeansContention`; with `OneOrderEach` it gives the refinement
`FoliosRefineRegister`: a commit is an `Assign`, every other step a stutter.
`FoliosAreKept` is the action property.

**Life of an order** (`RepairOrders_proofs`). Handlers act on old reads, so the
invariant says what is still true of a read when it is used (`Justified`): the
status that was checked allowed the change, an approval that was read has its date,
a change that is announced is in the history. `Grows` says why this lasts: dates are
only set, history is only appended. The lemmas treat reading steps, the two
writing transactions, creation and the quiet ends separately. The theorems are the
five invariants of `order_races`, type correctness, and `ClosedOrdersStay`.

**Sales** (`Sales_proofs`). The ledger `StockMatchesSales` compares the stock, which
changes item by item, with the set of units that completed sales sold
(`UnitsSold`), which changes with the commit of a whole cart. It is inductive with
`NotYetCancelled`: a sale that a transaction is about to give back is still
completed, and leaves out the products whose stock an edit has overwritten. The code
does not keep the former: two overlapping cancellations break it
(run `sales_restored_twice`). So `StockIsAccounted` has the hypothesis
`[]NoDoubleCancel`, which says exactly that no two requests have passed the check of
one sale; everything else (carts in crossed order, deadlocks, failures, the
stock keeper) is as it may be. That behaviours satisfy it is no accident of an
instance: `OneCancellerIsEnough` proves it where one client at most cancels.
`OversellHasABound` needs no hypothesis: `LowWater` counts the clerks whose
transaction sells the product, each of whom may take it `MaxQuantity` lower than
it was when it was validated; a clerk that has done so is not among those who may.

**Branches** (`Branches_proofs`). `Counted` is the core of `RemovalLeavesNoOrder`: from
the moment a removal has counted no active order of a branch, any active order there
is late, which each step that could make one active records. `MainsBounded` counts
without recursion: its invariant is that there is a function `setter` which maps the
main branches to different clients, none of them a client whose transaction is
going to add another without clearing them (`MainInv`). A transaction that overlooks
a main branch began before that one's commit, and so belongs to another client.

**Customers** (`Customers_proofs`). A request that holds an order knows that it is
there (`InHand`), and an order that is there has its customer (`Belongs`): the
deletion is refused while any order refers to the row, also a closed one that
`remove` does not count, and an insertion when the row has gone.
`DuplicatesAreBounded` counts the customers a phone has together with those that a
request has found it free for (`HoldersBounded`): the first of several that write
it moves from one set to the other, and no check succeeds afterwards.

**Lists and reports** (`Customers_proofs`). `DeskImplementsCustomers`: each step of
`DeskReports` is one of `Customers` or leaves its variables, so what is proved of
those holds with readers too. `PagesAreComplete` rests on `WalkInv`: as long as
nothing ahead of the walk has moved, what it has not seen lies behind the pages it
has read (`Ahead`), and the total it was told reaches that far (`Announced`); an
insertion moves rows away from the front, a deletion or another status is one of the
named races. `RevenueIsCountedOnce` rests on `Between`: after the first statement of a
report the orders that have left or joined the completed ones are on record.

**Subscriptions** (`Subscriptions_proofs`). `RowFollowsStripe` is about the moment when
everything is handled, and its invariant about all the others. `Told` says of
Stripe that its events tell the whole story: the last one has the present state, the
last update the present plan and cancellation. `Holds` and `Wants` say what a
delivery and an admin's request know while Stripe goes on: what was retrieved is
what Stripe has as long as nothing has happened to the subscription, a change that
was agreed to holds at Stripe unless a later update says otherwise. `Follows` ties
the row to this: its status is right once every change is settled, that is marked or
written and about to be marked; its plan and cancellation already when only
changes of the status are unsettled and none is older than the row. The second
half is what makes it inductive: an admin's change writes those columns while
deliveries are still under way. A crash unsettles the event it was about, and
the event's next delivery writes the row again. `CheckoutHasItsRow` adds, for one
admin at a time, `SameCustomer` (every session and subscription belongs to the customer
the company has) and `Recorded` (a settled checkout has its row); with two admins
`SameCustomer` fails, as the disagreements above say.

**Sessions** (`Auth_proofs`). `RevokedSessionsEnd` needs `SessionsInHand`: a
refresh that has revoked its token and not yet stored the next is of the current
epoch, or knows that a revocation has slipped past it. `RevokedStaysRevoked` holds
because `StoreToken` needs an unused string. `NewestResetOnly` and `ExchangedOnce` say
that there are no more than there are handlers, and the proofs count the requests
that are about to make one with those that are made (`ResetsBounded`,
`ExchangeBounded`): once a token is revoked nobody joins the requests that
exchange it, and before that it has no successor.

**Accounts** (`Auth_proofs`). `MembersOK` strengthens `InvitationsMatchMembers` in
both directions, so that a commit that finds the address free knows that no
invitation of it is used. `NoRival` says of every invitation that was there at a
check that it is not, and never again will be, in the way of the one that was
checked; it is kept because an invitation is pending from its creation on and
not again (`Goes`). From it follows `DuplicatesOverlap`.
`NewestLinkAlwaysWorks` needs that links are created in order (`LinksInOrder`), so that
creating one makes it the newest; a request that has invalidated the others creates
one or dies, which `stranded` records. `FailuresAreForgottenAlways` follows the two
Redis calls of a failure in the same way, with `unbounded`.

**Cache** (`ProfileCache_proofs`). `StaleHasCause` needs the same of what a handler is
about to put into an entry (`FillsHaveCause`): it is the row as it is, or the
handler has missed a deletion, or a writer is still about to delete. A change of a plan
also ages the entries of the companies that have it, which it leaves alone: those are
excused, and fills of them marked, in the same step. `DoneStep` is the core: whoever deletes, or fails to, leaves the entry empty or excused, and
every fill under way marked.

**Files** (`FilesAndMails_proofs`). The invariant is `LiveRecordHasObject` with
`ObjectsInHand` (the key a request has stored or seen, and is about to record, has
its object, or its row was already deleted) and `OnlyRemovedAreDeleted` (what a
deletion works on has a deleted row). The unique key, which counts deleted rows, is
what makes it inductive. `RemovalIsFinal` is the action property.

**Notifications** (`FilesAndMails_proofs`). `EventOK` describes one event, listener,
log and mailbox, at each place of the listener: nobody who is still to be told has a
log, the one it is at is PENDING and was perhaps mailed by attempts without an answer,
the others have an outcome. `OneEvent` lifts a
step of one listener to all.

**Only model-checked.** The six liveness properties (`EveryCreateEnds`,
`EveryRequestEnds`, `EveryEventIsProcessed`, `RemovedObjectsGo`, `EventuallyFresh`,
`EveryListenerEnds`): liveness under fairness is out of the prover's reach. The run
`sales_restored_twice` is a counterexample: it shows `StockMatchesSales` fail when
`NoDoubleCancel` does.

## 5. Not modelled, and what is left

- **Health** and **Platform** (bootstrap, configuration, guards of roles, filters,
  logging, DTOs, templates, generated code): I/O or no state between requests.
- **Analytics**: the sums of sales and the ranking of products, the stock count and
  the date ranges: one read each, of values that no step here depends on.
- **Lists** other than those of customers and orders: the same two statements.
- **Subscriptions**: billing periods and the wording of what is announced; the plan
  table as such is in `ProfileCache`. The guard's check of a feature of the plan: no
  handler asks for one.
- **Auth**: that refresh and reset tokens expire by themselves, and removed users.

In this order, what would be worth adding:

1. Two admins who start a first checkout at once: what the row and the guard can still
   promise then, in place of the condition on `CheckoutIsRecorded`.
2. An abstract mailbox that `OrderLifecycle` and `Notifications` together implement: a
   mail about an order is about a change in its history. A process that dies
   between the commit of a change and its `emit` tells nobody, and no property says so
   yet.
3. Abstract specifications of the ledger of `Sales` and of the rows of
   `Subscriptions`, with the refinements proved as that of `OrderFolios` is.
4. Two companies that share handlers, in `Customers` and `Branches`.
