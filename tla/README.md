# Verification of Real Estate Intelligence (domarion and its frontend)

TLA+ models of the parts of the system whose correctness depends on the order
in which things meet: on the server (`src/domarion`) requests, webhooks, worker
runs and failures, in the browser (`src/frontend`) the user, the answers that
come late, twice or not at all, and the pages that hold state meanwhile. They
are checked with TLC on small instances and proved with TLAPS for all of them
where that is possible.

The server is one FastAPI application (`api/routes.py`) over SQLAlchemy stores.
Every store has an in-memory and a PostgreSQL variant with the same interface;
the models follow the PostgreSQL one, which production uses
(`docs/deployment.md:191`). A store call commits on its own, nothing is locked
(no `FOR UPDATE`, no advisory lock, default isolation READ COMMITTED), and
routes are plain `def`, so they run in a thread pool and interleave between any
two statements. That is what the server's modules are about.

The frontend is a Next.js application whose pages call the server's API. A page
is single-threaded: a handler runs undisturbed up to its `await`, and what
follows runs when the answer arrives, whatever the page has become by then. The
pages share nothing but their links, and each guards itself in its own way
(disabled buttons, busy flags, epochs, cancelled effects, or nothing). That is
what the pages' modules are about.

Paths below are relative to `src/`; `routes.py` is `domarion/api/routes.py`, and
`page.tsx` names are below `frontend/app/`.

## Inventory

| Component | State | Operations | Interacts with | Hard behaviour | Correct when |
|---|---|---|---|---|---|
| Paid report orders | `report_orders`, `report_order_events`, `payment_webhook_events`, `generated_reports` | create with checkout, `/mock-pay`, `/fulfill`, payment webhooks of Stripe, PayU and mock | payment provider (retries, duplicates, reorders), report store (its own session), event loop and thread pool | requests die between three commits; guards read a row that is no longer current | no report without payment, no recorded payment without report, no second report of one event without a fault, a payment is delivered eventually |
| Report credits and plan allowance | `generated_reports` metadata, bundle orders | the allowance check of the two generate routes | orders (a fulfilled bundle grants credits; a refund takes it back) | count first, store later, concurrently | overrun bounded, plan before credits, credits only from bought bundles |
| Daily alert delivery | `user_alerts`, `alert_delivery_jobs`, mails out | create, pause, delete; worker batch, admin batch, owner delivery | SMTP server, worker loop, foreign key | mail before job; cooldown by time of run start; limit before cooldown | mails repeat only for a race or a death; every due alert is handled; every mail has its job |
| Agency workspaces | `agencies`, `agency_memberships`, `users.role` | create, invite (upsert), update, remove, last-owner guard | accounts | count and write in different statements | an agency keeps an active owner |
| API-lite | used units per key and month, rate window, in process memory | authenticate, test quota, record use | search and report routes | test before, record after; restart forgets | quota overrun bounded |
| Drafts and documents | drafts, document checks, expiry | create, update, upload, delete, retention | orders and reports refer to drafts | delete under an order; upload limit counted before an `await` ends | limits, no dangling references |
| Data deletion requests | requests, their targets, audit entries; the admin page's list | create, process, reject; load | drafts | two admins at once; target, request and audit committed apart; the list is stale | a deletion is in the audit; a rejected request deleted nothing |
| Ingestion, partner imports | sources, jobs, listings, snapshots, events | start, finish, fail, retry | listing history | partial failure of an import | job state agrees with what was written |
| Price history, listing events | observations per listing | pure functions and writer | ingestion | repeated, missing and late snapshots | history equals a fold of the observations |
| RCN transactions | versions of transactions | import, supersede | ingestion | overlapping imports | one current version |
| Accounts, sessions, subscriptions | `users`, `subscriptions`; a session is a signed value | get-or-create, login, change plan | everything | concurrent first requests | one row per identity |
| Favourites, buyer profiles | rows per user | create under a limit | plan limits | count, then insert | limit |
| CRM, dashboards, news, referrals, insights, product analytics | one row each | create, read, update, delete | agencies | none | - |
| Scoring, comparables, rendering | none | pure functions on floats and text | reports | none | - |
| Repositories, search | none changed | queries | - | none | - |
| Report artifacts | files beside report rows | write, read | report store | file before row | no row without file |
| Worker loop, snapshots, backups | files | rotate, recompute | alerts | restart | newest backups kept |
| Apartment check page | entry form, confirmation, analysis, report, saved link, follow-ups, busy flags, retry | import, analyse, report, save, track, ask, recalculate, load a draft | API, buyer profile, page address | three guards of different reach; answers to outdated questions | one mutation at a time; what is shown and confirmed is about one apartment |
| Search page | filters, page, list, features of the map, picked listings | change filters, page, pick | API, comparison page | unordered loads that write the state they depend on | list and map are the filters' |
| Search map | layers switched on, sources and markers of MapLibre, refs the map's events read | switch a layer, import, load, draw, zoom | search page (features, language, appearing and going), MapLibre | effects of a component whose map is made later, and give up while its style is not loaded | what is drawn is the filters' features and the layers on; the map is moved to what it draws |
| Comparison page | selection, purpose, link, comparison, verdict, shortlist | toggle, choose, ask | API, link | initial load beside the user; effects cancelled, buttons not | link names the selection; answers are about it |
| Saved apartments page | three lists, current load | load, remove, track | API | removal of two requests; load beside it | cards and tracking are what is stored |
| Tracked searches page | alerts, preview, the one being saved | load, create, change, delete, preview | API | one flag for all alerts; unordered loads | list is what is stored; controls released |
| Agency console (account page) | agencies, clients of the selected one, busy flags | select, members, clients, notes, shortlist | API | effect beside handlers; failure leaves the former list | clients are the selected agency's |
| Admin editors | tables, selected row, form | select, create, update, delete | API | answer written into a form of another row | no entry gets another's data |
| Tab | the page shown | open, leave, follow the links to the comparison and the check | all pages | answers after leaving | each page's promise, whatever was shown before |
| Pricing, reports, market, mortgage, other pages | one list or calculation each | load, order | API | none or one request | - |

`PROJECT.json` lists the same components with their sources and status, and
under `hazards` each place where the code can go wrong in a way a test hardly
reaches, with the properties that watch it.

## Modules

| Module | What it is |
|---|---|
| `ReportOrders` | paid orders from checkout to report, with webhooks, refunds and failures |
| `PaidDelivery` | the abstract promise: settle, then deliver, then close, never undone |
| `ReportOrdersProofs` | TLAPS: types, the three safety invariants, the bound on repeated reports, refinement of `PaidDelivery`, `FulfilledNeverReopens` |
| `ReportCredits`, `ReportCreditsProofs` | allowance and bundle credits under concurrent requests |
| `AlertDelivery`, `AlertDeliveryProofs` | alerts, batches, cooldown, the foreign key |
| `AgencyMembership`, `AgencyMembershipProofs` | members of one agency and the last-owner guard |
| `CheckListing` | the apartment check page |
| `PageParameters` | the parameters of the page modules below and the assumptions on them |
| `LatestAnswer` | the abstract promise of a panel: once nothing is awaited it shows the answer to its last question |
| `ListingSearch` | the search page: list, features for the map, picked listings; the features implement `LatestAnswer` |
| `PropertyMap` | the map component: layers, effects, map events |
| `SearchPage`, `SearchPageProofs` | the search page with the map beside its list: composes the two above |
| `ComparePage`, `ComparePageProofs` | the comparison page: link, selection, answers; its comparison implements `LatestAnswer` |
| `SavedApartments` | the page of saved apartments |
| `AlertsPage` | the page of tracked searches |
| `AgencyConsole` | the agency and client tools of the account page |
| `AdminEditor` | the editor of sources, and of investments, on the admin page |
| `DataDeletion` | a request to delete a draft: admin page and server together |
| `BrowserTab`, `BrowserTabProofs` | a tab: composes `ListingSearch`, `ComparePage`, `SavedApartments`, `AlertsPage`, `AgencyConsole`, `AdminEditor` and `DataDeletion`; the theorems about the last five, and the first two's carried over |
| `BuyerTab`, `BuyerTabProofs` | a tab of the two largest pages, `SearchPage` and `CheckListing`; the theorems about the check, and the search page's carried over |
| `MC*` | constants of the TLC instances; their `.cfg` files are the runs |

`PageParameters` exists because the tabs put the pages side by side with
INSTANCE: the pages read one set of parameters, and TLC evaluates the
assumptions because both tabs extend the module that states them.

### How the modules correspond to the code

In the server's modules a request, or a run of the worker, is a record with a `pc`; an
action is what happens between two points at which somebody else may run,
normally one committed statement. A `SELECT` that a later write relies on is an
action of its own and its result is kept in the record (`row`, `existing`,
`loaded`, `bundles`), because the ORM writes from what it has read: an UPDATE
names only the columns whose value differs from the row that was loaded.
Early returns (402, 403, 404, 503) lead back to `Idle`.

### ReportOrders

`status`, `reportOf` and `checkoutKnown` are columns of an order and its
`checkout_created` event; `reports` are `generated_reports` with the event that
caused them; `webhookEvents` is the table that makes a redelivery a duplicate.
`session`, `sent` and `acked` belong to the provider, which may send any of
`Notifications` in any order and number as soon as a checkout session exists.

- A webhook runs on the event loop of its process. The route is `async def` and
  never awaits after reading the body, so one process handles one webhook at a
  time: the process is the handler. The production image starts a single
  uvicorn process (`Dockerfile`); `Processes` is a parameter, and all safety
  theorems except `NeverReopens` hold for any number.
- `ReceiveWebhook` (4048-4111) tests for a duplicate, `VerifyNotification`
  (4113-4156) rejects a wrong amount, currency or foreign reference, `LoadOrder`
  and `ApplyPaid`/`ApplyFailed`/`ApplyRefunded` are the SELECT and the UPDATE of
  `mark_*`, `RefreshPaid` the read-back after the commit, `GenerateReport` the
  commit of the report store, `ReloadOrder` and `AttachReport` the two halves of
  `mark_fulfilled`, `Acknowledge` the record and the 2xx answer.
- `/fulfill` shares `GenerateReport` to `AttachReport`, on a thread. `/mock-pay`
  exists only where `MockPay` is TRUE (local, development, test).
- `RequestFails` ends a request anywhere, `ProcessCrashes` all requests of a
  process; `RemoveSubject` is a listing or draft that disappears under its order.
- Order events other than `checkout_created` are written but never read back;
  they are left out. Signature verification is a precondition: only verified
  webhooks reach the modelled part.

### ReportCredits

`CountPlan`, `ReadOrders` and `ReadCredits` are the three reads of
`_ensure_report_limit` (6097-6123), `SaveReport` the commit at the end of the
generate routes. The kind of a report row stands for the metadata that
`_counts_against_subscription_limit` and `_available_credits_by_order` look at.
`FulfilBundle` and `RefundBundle` are what `ReportOrders` does to a bundle, seen
from here: a bundle can be refunded and then fulfilled again, because
`ReportOrders` has such behaviours (run `orders_refund`). The plan's limit is a
constant: a change of subscription in the middle is not modelled. The reads
stop at ten thousand orders or reports (6155, 6198, 6206); accounts are taken to
have fewer.

### AlertDelivery

A run lists active alerts (`Listed`: the newest `Limit`), then for each checks
the cooldown, sends and stores the job (`CheckAlert`, `Deliver`, `SaveJob`).
Jobs are kept as alert, time and status. A failed delivery may or may not have
left the server, since an `OSError` can follow it (`alert_delivery.py:89`).
Dry-run batches store nothing and send nothing and are left out; an owner's dry
run stores a job and is in. `mails` holds only what unforced batches send, since
owners and forced batches may mail whenever they like. It is a history, and each
mail names its sender: the runner, or, once that runner has died before storing
the job, the number of that death (`by`), so that the mails of one sender are
those between which nothing has died. `no` tells equal mails apart.

### AgencyMembership

`member` maps each user to the row the unique constraint allows; a row has an
id, so that a request that names a membership removed and invited anew is
answered with 404. `ReadExisting`, `CountOwners`, `LoadRow` and the writes are
the statements of the three member routes and their store calls;
`CreateAccount` is `get_or_create_user`, committed before the membership.

### The pages

An action of a page is a handler up to its `await`, or the continuation of one
with the answer that arrived; the state a closure captured is kept in the
record of the request. Any answer may come at any time and may be a failure;
what it says is chosen among what the server may hold, and where the page edits
something stored (`SavedApartments`, `AlertsPage`, `AdminEditor`) the server's
change is a step between the request and its answer. Leaving a page forgets its
state and the answers still to come (React drops updates of an unmounted
component). Guards are the ones the code has, in the buttons' `disabled`
included. Where a module knows an exception the code allows, a variable marked
`history` records that it happened, and the property says so by name.

- **CheckListing**: `activeOperation` disables the buttons, `mutationBusy`
  refuses a second check, import or report, `requestEpoch` (the `current` of a
  request) makes an outdated answer ignored. `DraftLoaded` and `DraftFails` are
  the load of `?draft=`, which has none of them but the first. Details entered
  for an apartment are one value, `None` while a required field is missing; the
  address field's text, the expanded view, taking back the consent and the
  operations on a draft's documents are left out; that a recalculated verdict is
  there again after a reload (local storage) is a choice. `PageForm` is
  `formFromDraft`: the details and the purpose stored with the draft
  (`PageIntent`), and no consent. Histories: `overlapped`, a draft load ran beside
  a blocking request; `lateProfile`, the buyer profile changed the purpose of a
  form already confirmed.
- **ListingSearch**: `load` is the effect on filters, page and language, `loads`
  counts what is in flight, since nothing cancels it; `loadMap` cancels the one
  before. Every answer writes its page number back and so may start a load
  again. `resetFilters` loads nothing when the filters are the default ones and the
  page is the first. History: `raced`, a load was started beside another.
- **ComparePage**: `InitialLoads` keep the ids they read from the link;
  `loadCompare` is the effect on selection, purpose and language; the verdict
  and the shortlist (`FollowUps`) are never cancelled. History: `unsynced`, an
  initial load has set a selection that the link does not name, and neither the
  selection nor the purpose has changed since.
- **SavedApartments**: `load` numbers itself (`loadRequestRef`), so only the
  latest counts; a removal of a checked apartment that is also a favourite is
  two requests (`at` tells which). Histories: `overtaken`, a call was answered
  during the load; `partial`, a load did without the alerts.
- **AlertsPage**: requests of five kinds that edit one list. The load asks for the
  jobs too and a 401 of theirs shows the sign-in form beside the list
  (`Loaded`); a deletion that PostgreSQL refuses because of the jobs is a
  `CallFails`. `twice` are alerts listed twice, after a creation that a load has
  already shown. History: `outdated`, two requests whose order matters were in
  flight together.
- **AgencyConsole**: a handler is a thread of requests, `stage` by `stage`;
  `agencyBusy` and `crmBusy` are set by the first and cleared by whichever ends.
  An agency has fewer clients than the fifty the page asks for (`page.tsx:452`).
  Histories: `workspaceRaced`, `crmStale`.
- **AdminEditor**: `form` is the entry whose data the form holds; `stored` maps
  each id to the entry whose data it holds, so that an overwritten entry shows.
  History: `hasty`, the editor was used during a save.
- **DataDeletion**: `handlers` run `get`, `find`, `delete`, `mark` and `audit`,
  each a commit of its own; one of them may be another admin's. Requests have
  their `target_owner_id` (without it the server answers 400) and are about a
  draft; the audit entry of the creation itself is left out, and so is the
  pruning of expired drafts. Histories: `raced`, two handlers found the request
  open; `gone`, a handler deleted the draft; `crashes`
  counts the handlers that died after their deletion, and bounds them.
- **PropertyMap**: `map` follows the component: `importing` MapLibre, `created`,
  `loaded`, and `off` without the component. `Effect` is the data effect, which
  calls `syncMapData` once there is a map; that the style is loaded at that
  moment (`isStyleLoaded`) is a free choice, and `skipped` records that it was
  not. `sources` and `markers` hold the features and the layers they were filled
  with. The tables and `is...FeatureVisible` are the functions of that name;
  `InSources` is what the source filters and layer types let through.
  Clustering, popups, the user's position and the figures of the radius panel
  are left out.
- **SearchPage**: the map is there while the list is (`ListShown`); each step of
  the search takes the map along (`Follow`): it appears, goes, draws again when
  it gets new features or another language, or stays as it is.
- **BrowserTab**: `at` is the page shown; `PickedToCompare` is the link of
  `compareHref`. The sections of the admin page share only the load that
  refreshes them, so one is shown at a time.
- **BuyerTab**: the same for the search with its map and the check page, which
  the search links to without a draft. The two make too many states for one run
  with the others. There is no way back from a check, since the check page comes
  back from it as from a reload (`Refresh`).

## Runs

| Run | Shows |
|---|---|
| `orders` | one order, two payments, failure, refund, a mispriced payment, a notification of another order's checkout and one that names no order, one fault; a process and a pool thread. All safety properties, `ImplementsPaidDelivery`, `FulfilledNeverReopens` |
| `orders_live` | under fairness a payment ends in a report, with one fault, a refund, another order's notification and `/mock-pay` |
| `orders_refund` (violation) | a paid event that comes after the refund replaces the report of the refunded order |
| `credits` | two slots, a plan of one report, bundles of one and two credits, refunds and repeated fulfilment |
| `credits_monthly` (violation) | the "monthly" limit counts all months |
| `alerts` | worker against an API slot on two alerts within the limit, with owner deliveries, pauses, deletions and one death: repeats are bounded, every mail has its job, every job its alert, and every due alert is handled, although a deletion between a mail and its job ends a run before the other alert: 333,103 states |
| `alerts_delete` (violation) | an alert that has a job cannot be deleted |
| `alerts_starved` (violation) | one alert more than the limit, and the oldest is never handled |
| `agency` | two slots change two members in every interleaving |
| `agency_owner` (violation) | two overlapping requests leave the agency without an owner |
| `check` | `BuyerTab`: the check page with two requests in flight beside a draft load, and the search page while its map is imported, made and loaded, with two switches of its layers: 1,133,511 states |
| `tab` | every page of `BrowserTab`, opened, used and left with answers in every order: 727,790 states |

### Properties worth a comment

- `NoReportWithoutPayment`, `ReportReferenceValid`, `RecordedPaymentDelivered`
  relate rows committed by different sessions. The last one is why the event is
  recorded at the end of the handler: recorded first, a crash would lose the
  report.
- `RepeatsBoundedByFaults` is the price of that order: per event the webhook
  stores one report for each process plus one per request that died. With the
  one process of the image that is one report plus the deaths. It is a statement
  about each event and not about a payment as a whole: a second paid event of
  the payment that comes after a refund, or `/fulfill` beside the webhook,
  stores a further report without any fault. So "Duplicate provider events ... do not generate
  another report" (`docs/WartoMetr_Phase_8_Implementation.md:25`) holds only as
  long as no request dies between report and record.
- `FulfilledNeverReopens` needs one process and no `/mock-pay`: a second writer
  of `paid` that has read the order earlier takes a fulfilled one back.
- "Failed payment events move unpaid orders to `failed`" (same document, line
  26) is narrower than the code: `mark_failed` also moves a `paid` order.
- `OverspendBounded` and `PlanOverrunBounded` say by how much count-then-store
  can be overrun: fewer reports than there are slots, whatever happens over the
  account's life. With one slot that is the exact limit. "Fulfillment grants 3
  report credits" (`docs/WartoMetr_Phase_10_Implementation.md:16`) is thus exact
  only for requests that do not overlap.
- `RepeatsBounded`: within any cooldown's length at most one mail per runner, plus
  one per run that died between a mail and its job. `README.md:1416` ("does not repeat the same alert within 24
  hours") is the case of a single runner that does not die.
- `LastOwnerLostOnlyToRace`: a request takes the last owner away only if what it
  read has been changed since. It separates the guard, which misses no case,
  from the missing lock, which `agency_owner` shows.
- `GuardsOwned`: `mutationBusy` left set by nothing would refuse every later
  check until the tab is reloaded. The property says that only a draft load
  beside a request can come near it, and `OneMutation` that even then no two
  mutations run together.
- `ConfirmedIsAnalysed` relates the confirmation, the analysis shown, requests in
  flight and the form a retry would send. Its exceptions are the two places
  where the code writes the form without asking whether it is confirmed: a draft
  load beside a request, which may replace all of it, and a profile that comes
  late, which may change the purpose. That the details analysed are the confirmed
  ones is asked in the second case too.
- `OnlyLateAnswersMix` (check and comparison) is an action property: the handlers
  that replace a subject clear what belongs to it, so only an answer to an older
  question can put it under another.
- `ListIsCurrent` holds with one load at a time; `raced` exempts all others. With
  two, the list may be of other filters, and two answers may chase each other
  from page to page, since each changes the page that starts the next load.
- `CrmOfSelected` says when a note or a shortlist cannot reach a client of
  another agency; `crmStale` covers the effect that starts beside a handler and
  the failed load that leaves the former agency's clients.
- `EntriesKeepTheirData`: the exception, using the editor during a save, is enough
  to write one entry's data under another's id with the next update.
- `LinkKeepsSelection` has exceptions that a user meets: a purpose chosen before
  the link's listings have loaded writes a link without them, and a link with
  more ids than can be compared keeps those left out. Either lasts until the next
  change of the selection or the purpose, which writes the link anew.
- `MapDrawsFilters` says that nothing is lost between the effects, the import and
  the events of the map, which see the state of the render they were made in:
  what the refs hold is current whenever the map draws. Its exception, a style
  that is not loaded when an effect runs, is a real one: nobody tries again, and
  the map shows the former filters until the next change.
- `FramedIsDrawn` compares two renderings of one rule, `isFeatureVisible` for the
  frame and the radius panel, and the filters of sources, layers and markers,
  over all types and geometries the server sends.
- `TabTypeOK` also says that a page that is not shown is as it was before it was
  opened, and that there is a map exactly while the list is shown.
- `RejectedKeepsDraft` and `DeletionsAudited`: what survives of the missing lock
  and the three commits. A handler that dies after it has deleted the draft
  leaves no audit entry and perhaps no mark, and is the only death that counts; two
  admins who both read `open` are the other exception of the first.

Several of these properties hold up to an exception that the code has, and the
history variable that records it is part of the formula: `overlapped`,
`lateProfile`, `raced`, `skipped`, `unsynced`, `overtaken`, `partial`, `outdated`,
`crmStale`, `workspaceRaced`, `hasty` and `crashes`. In the exempted states the
code does what the hazard describes and nothing in the repository promises
otherwise, so there is no statement to refute. What the properties say is that
nothing else leads there; the notes of the hazards in `PROJECT.json` name the
exemption of each.

Each property of a passing run has a mutant, an operator named `Mutant...`
before the definition it stands for, that breaks it.

### Bounds, and why they suffice

- Orders: the interactions are per order (two orders share only a handler or a
  wrong reference), so the runs have one order, and the other order's part is
  played by a notification that carries a foreign reference and one that carries
  none; several orders together are covered by the theorems. Two payments are
  the least for "paid again after fulfilled" and "paid after refund"; a fault
  count of one covers every single point of death. `ReportIds` bounds the
  reports ever stored; behaviours with more stop at the bound. The theorems have
  no bounds.
- Credits: two slots are the least that race, a bundle with one credit and one
  with two are the least with a choice and a remainder. `ReportIds` is six: more
  than the plan, the credits and both overruns.
- Alerts: two alerts and a limit of two are the least for a run that ends at one
  alert before it reaches the other; a cooldown of one and a clock that reaches
  it. Two alerts with all that can happen to each are too many states, so
  `Environment` in `MCAlertDelivery` bounds what owners, admins and the clock do.
  One alert meets everything while it is alone: the other batch, all the
  deliveries its owner can ask for, pauses and the end of its cooldown. With the
  second one the batches race over both, die, and have alerts deleted under
  them, within one tick. Repeats are counted per alert, and the theorems about
  the three safety properties have no bounds; `DueAlertsHandled` is checked under
  these bounds only. With a limit of one and a longer cooldown two alerts are
  `alerts_starved`.
- Agency: two members who can both be owners are the least for the guard; three
  membership ids allow a removal and a new invitation; the request bodies are
  promote, demote, disable and DELETE. The slots are interchangeable, hence the
  symmetry.
- Check page: two requests in flight beside the draft load (`MaxCalls`), the
  least for an outdated one beside a current one; one value of details, one new
  draft and the saved one, so that two apartments can be told apart.
- Search map: two filters, of which one finds nothing, so that the list and the
  map go and come back; one page, since turning pages leaves the features alone;
  the switch of a group and one inside it, which the group disables. The theorems
  have all switches.
- Tab: two filters, two pages of results and one load of each question are the
  least that chase each other; three listings of which one is gone let a
  comparison drop one and still compare; the limits are 2 picked and 3 compared
  (4 in the code). One saved apartment can be a draft, a favourite, both and
  tracked. Two alerts are the least for a flag that names one; two agencies of
  which one has a client; two entries, two loads and one save; two handlers of a
  deletion with one death. `MaxThreads` and `MaxCalls` are two. Two of
  the listings, the alerts, entries, handlers and editor loads are exchanged all
  together (`Exchange` in `MCBrowserTab`), which is as good as each pair by
  itself because one page at a time holds any of them; filters and agencies are
  not interchangeable.
- Deadlock is not checked for orders, alerts, agency and the tab: an order whose
  subject is gone, alerts all deleted or a clock at its bound, and an agency
  nobody may change any more are states in which nothing need happen, and a page at its
  bound may have nothing left to do.

### Fairness

- Handlers: weak fairness of their steps. A started request goes on unless it
  fails, and the number of failures is bounded.
- Provider: strong fairness of repeating a notification it has sent and that has
  not been answered with 2xx. Stripe and PayU both repeat; strong because the
  process may be busy or down each time in between.
- Worker: weak fairness of starting its batch; `_run_worker` is an endless loop
  (`cli.py:636-656`) that the container restarts. The modelled worker sends: with
  `ALERT_WORKER_SEND` left at its default, false (`cli.py:306`, `render.yaml:124`,
  `compose.oracle.yaml:92`, `compose.staging.yaml:49`), its batches are dry runs
  that store nothing, and no alert is handled by it. No fairness of owners,
  admins, the clock or failures.
- `PaymentEventuallyDelivered` ends with the report or with the subject gone:
  then the order stays paid and every redelivery gets 404.

## Findings

`PROJECT.json` quotes the statements. In short: a refund does not keep its
report reference when a paid event meets it; the monthly allowance is for life;
an alert with a job can never be deleted in PostgreSQL; with more alerts than
the batch limit the oldest starve; two overlapping requests can leave an agency
without an owner.

## Proofs

TLAPS proves, for all values of the constants that satisfy each module's
assumptions (finite sets where sizes are compared, disjoint processes
and threads, event ids that identify notifications, a `None` that is no value
of the sets it stands beside, runners that are not numbers):

- **ReportOrders.** `IInv == TypeInv /\ RequestInv /\ OrderInv /\ RecordInv`. The
  three safety invariants are not inductive alone: between reading an order and
  writing it a handler carries facts that only its record knows. `Justified`
  says what they are at each `pc`: a handler past verification works for a
  settled order, one that attaches holds a stored report of that order, one that
  records "processed" leaves an order with a report. Because payments, reports
  and references only grow (`StepGrows`), one handler's justification survives
  the steps of all others. `Refinement` shows that each step settles, delivers
  or closes one order or changes nothing. `NeverReopens` adds `SoleWriter`: the
  one process is the only writer of `paid`, so the status it read can have moved
  forward only; assumptions are one process and `MockPay = FALSE`.
  `RepeatsAreBounded` counts: a process may still generate a report of an event
  (`MayYet`) while its webhook of that event is short of the report, or when it
  has none in hand and the event is not recorded. `Spent` are the other
  processes; the reports of an event are at most those plus the deaths
  (`CountInv`). A report spends its process, only a death gives the chance back,
  and it is counted.
- **ReportCredits.** The bounds are not inductive; `Charged` is: stored reports
  plus the charges under way exceed a limit by less than the number of slots,
  counting that a slot adds its charge only while the stored ones are below the
  limit. `Bought` carries the receipt, `Requests` ties a list that was read to
  it.
- **AlertDelivery.** `IInv == TypeOK /\ ListsKnown /\ JobsHaveAlerts`: a listed
  alert may have been deleted but was created, so a job is stored only for one
  that exists. `MailInv` follows one sender: a mail whose runner has moved on has
  a job of its time or a deleted alert, and a batch past the cooldown test of an
  alert has sent it no mail within the cooldown (`SendsClear`). So two mails of one
  sender to one alert are a cooldown apart (`MailsApart`), and the bound is the number
  of senders: the runners and the deaths.
- **AgencyMembership.** `GuardInv`: a request past the guard that costs an active
  owner has counted two. So a writer with an up-to-date view leaves one
  (`LastOwnerLostOnlyToRaces`, any number of slots). With one slot every view is
  up to date (`FreshInv`), hence `LastOwnerKeptByOneSlot`.
- **CheckListing.** `IInv` adds to the properties that every request carries
  complete details (`CallsComplete`), that `mutationBusy` has at most one current
  owner (`SoleOwner`), and that a confirmed form is the one analysed, in flight or
  to be tried again, up to the purpose once a profile came late
  (`ConfirmedForm`). `OnlyLateAnswersMix` needs no invariant: each
  action is looked at alone. All its properties are theorems, for any number of
  details, drafts and requests.
- **ListingSearch, ComparePage.** The list needs the strengthening that loads in
  flight without `raced` are the one the page waits for; the link that an
  initial load without a change in between still carries the link's ids. The
  refinements map a panel's question, request and answer to `LatestAnswer`: a
  step asks, answers, fails, forgets or stutters, because the cleanup of an
  effect leaves at most one request.
- **SearchPage.** `PageInv`: there is a map exactly while the list is shown, it is
  blank until it is made (`MapBlank`), the features it was given are those of the
  filters once nothing is awaited (`MapAnswered`), and what it has drawn is
  current unless skipped. The page implements `ListingSearch` and `PropertyMap`;
  `MapDrawsFilters` follows from the invariant. `FramedIsDrawn` holds for every set of
  switches; the invariant is not needed.
- **BrowserTab.** A step of the tab is a step of each page or leaves it alone
  (`SearchStep`, `CompareStep`, and one lemma like them for each other page). So
  the tab implements the search and the comparison page (`TabSearches`,
  `TabCompares`), and their theorems are carried over by instantiating the modules
  of their proofs. The proofs about the other pages are in `BrowserTabProofs`
  itself, each with an inductive invariant that TLC checked on a larger instance
  of the page (three requests or handlers in flight) before it was proved.
- **DataDeletion**. A handler that has deleted the draft is
  on its way to the audit; without a death and without an overlap only one
  handler can be between the test and the mark, so the status it marks is the
  one of what it did.
- **AdminEditor.** `EntriesOwn`: unless hasty, no table - here, on the server or on
  its way - has an entry in another's place, the form holds the selected entry,
  and the only save in flight is of that one.
- **AlertsPage.** `AlertsInStep`: unless outdated, a load that is alone since the
  server answered it has what the server holds, and without a load in flight the
  page differs from the server only in alerts an answer on its way is about, of
  which the only one says what the server holds (`EditsInStep`). An answer that
  is taken while it conflicts with no other request brings the two together.
- **SavedApartments.** `SavedInStep` is about what will be shown when the load is
  over (`SeenDrafts`, `SeenFavorites`, `SeenAlerts`): what it has read so far, or
  what is shown when there is none. Each entry of it the server no longer holds,
  and each alert missing from it, has a request that the server has done and the
  page has not heard of. An answer edits what is shown, so during a load it
  leaves what was read behind: hence `overtaken`.
- **AgencyConsole.** `OneWorkspace`: unless raced, the workspace has one handler and
  a change of membership is of the selected agency. `CrmInStep`: unless stale, the
  clients have one handler, which works for the selected agency, and `AtStage`
  says what is listed, selected and enabled at each of its requests; with none,
  all is of the selected agency (`Consistent`).
- **BuyerTab.** It implements both its pages (`TabChecks`, `TabSearches`), and all
  properties of the run are theorems. `TabTypeCorrect` needs that a page at rest
  is in its initial state (`Rests`) and that a map that is off has left nothing
  (`Blank`).

Every invariant and action property, and both refinements, that a passing run
checks are thus theorems. Checked by TLC only: the liveness properties
`PaymentEventuallyDelivered` and `DueAlertsHandled`, since liveness under fairness
and ENABLED are beyond the prover. The other way round, the types of
`AlertDelivery` are proved and not part of a run.

## Plan

1. `ReportOrders`, `PaidDelivery` with proofs - done.
2. `ReportCredits`, `AlertDelivery`, `AgencyMembership` with proofs - done.
3. The frontend: `CheckListing`, `ListingSearch`, `PropertyMap`, `ComparePage`
   with proofs, `SavedApartments`, `AlertsPage`, `AgencyConsole`, `AdminEditor`,
   and the compositions `SearchPage`, `BrowserTab` and `BuyerTab`;
   `DataDeletion`, page and server, with proofs - done. Left: `ApiLiteQuota`
   (quota and rate window in process memory, restart), `DraftDocuments` (upload
   limit, expiry, deletion), and an abstract "allowance with overrun" that
   `ReportCredits` and `ApiLiteQuota` both implement.
4. Pure algorithms against reference definitions: price history and listing
   events, versions of RCN transactions, backup rotation.
5. `IngestionJobs` with partial failure; a composition of `ReportOrders` and
   `ReportCredits` in which `FulfilBundle` and `RefundBundle` are the steps of
   real orders.
6. Further proofs: the allowance refinement; inserts of `AgencyMembership` (a row
   keeps its id until removed); the modules added under 3 to 5. The invariants of
   the runs are all proved.

## Not modelled

On the server: scoring, comparables and rendering are floating point and text
without state. Repositories and search change nothing. CRM, dashboards, news,
referrals, insights and analytics write single rows without rules between them.
Report artifacts are a file written before its row; nothing reads a file
without one. API-lite, documents, accounts, ingestion and the pure algorithms
are in the plan.

In the frontend: most of its lines hold no state that two steps could disagree
about. `lib/generated-api.ts` (type declarations generated from the server's
schema), `lib/i18n.ts` and the other message files, `lib/api.ts` (one function
per request), the charts, panels, guides and listing pages are data and
presentation; `scripts/` are browser tests. They make up the larger part of the
frontend's 71,000 lines, so the mapped definitions stand for a small share of
it. The reports page makes one load. On the pricing page `createAndPay` refuses
a second use only while the order is created, so a second one before the browser
has left creates a second order, which `ReportOrders` treats like any other. The
session is a cookie; a 401 shows the sign-in form, which the pages' modules have
as an outcome. The rest of the admin page (deduplication, referrals, developers,
imports, runs of a source) has one button per row and the same load.
