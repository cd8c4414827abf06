# CNC Quick Quote: formal models, checks and proofs

CNC Quick Quote sells cut and bent sheet-metal parts. A customer uploads a drawing, marks
bend lines, receives a quote whose figures are frozen, pays on Stripe's hosted page and gets
an order. The backend is a NestJS application over Postgres (Prisma), the frontend an Angular
application. **No operation of the backend runs in a transaction that spans two statements**,
so every handler is a chain of separate database and network calls, and everything else may
happen between two of them. What keeps the system correct is a handful of unique indexes, the
order of the statements, and the retries of Stripe and of the customer's browser. That is what
this project models, checks with TLC and proves with TLAPS.

## 1. Inventory

| Component | State | Operations | Talks to |
|---|---|---|---|
| `orders/orders.service.ts` | `Order` rows, `Quote.status` | `createFromSession`, `sendConfirmationEmail`, lists | called by webhook and checkout; Resend |
| `webhooks/stripe.controller.ts` | `StripeEvent` ledger | `handle`, `handleSessionCompleted` | Stripe delivers and re-delivers; OrdersService |
| `checkout/checkout.service.ts` | none of its own | `summary`, `createSession`, `status` | QuotesService, ShippingService, Stripe, OrdersService |
| `checkout/shipping.service.ts` | `ShippingMethod` rows | `create`, `update`, `resolveCostCents` | admin pages, checkout |
| `quotes/quotes.service.ts` | `Quote` rows | `create`, `list`, `markOrdered` | drawings, materials, nesting, pricing |
| `bends/bends.service.ts` | `BendLine` rows | `create`, `update`, `remove`, `expireDraftQuotes` | writes `Quote.status` |
| `materials`, `config/domain-config`, `admin` | `Material`, `PricingConfig`, `MachineConfig`, `BusinessConfig` | admin edits | read by quotes and checkout |
| `auth/auth.service.ts` | `User`, `RefreshToken` rows | `register`, `login`, `refresh`, `logout`, `changePassword` | browser session (cookie) |
| `config/app-config`, `integrations/minio-s3` | in-process caches: credentials, client, `bucketReady` | `resolveConfig`, `writeSettings`, `putObject`, `reset` | settings page, uploads |
| `drawings`, `dxf` | `Drawing` rows, stored objects | `upload`, `parseDxf` | object storage |
| `nesting`, `pricing`, `core/estimate.ts` | none (pure, written twice) | `nest`, `price` | quotes; the wizard's preview |
| `core/` session | cookie, hint, access token | refresh, interceptor, logout | `/api/auth` |
| `app.routes.ts`, `core/guards.ts` | the router's navigation | guards, redirects, sign-in and sign-out | session |
| `features/quote` | draft signals, `sessionStorage`, bend rows | upload, bend edits, restore, quote; the work bed's laser | the API |
| `features/checkout` | `CheckoutStore`, the return page's poll | summary, delivery, pay, poll | the API, Stripe |
| `features/admin`, lists of quotes and orders | one form, one table or one list and its address | load, edit, save; filter, sort, page | the API |

What makes each correct, and what is hard about it:

* **Orders, webhook, checkout.** One order per quote and per payment, for exactly the money
  received, and every payment fulfilled. Hard: the webhook and the return-page poll race to
  create the same order; Stripe delivers an event late, twice and concurrently; a handler may
  die between any two statements; a payment may settle long after the session is completed; an
  admin edits shipping rates while a customer is paying.
* **Quotes and bends.** A figure shown to a customer never changes; a bend edit makes drafts of
  its drawing unpayable. Hard: the quote is computed from reads that are not atomic with its
  insert, and the edit is not atomic with the expiry.
* **Accounts and sessions.** One account per address, a first administrator, refresh tokens
  that can be used once, and password changes that end sessions. Hard: check-then-act on every
  one of these.
* **Configuration, storage, uploads.** What is cached is what is configured, and an accepted
  drawing is kept whatever becomes of its file. Hard: every look-up, client construction and
  bucket check spans an await that a save and its reset can fall into.
* **Drawings, nesting, pricing.** The cut length is that of the path, the parts fit the sheets that
  are charged for, and the client's preview is the server's quote. Hard: the closing and scaling of
  paths, floors and rounding, and two copies of one arithmetic.
* **Browser session and navigation.** A tab never spends a refresh token twice, every call and every
  restore ends, guarded pages stay guarded and redirects end. Hard: tabs share the cookie
  and the hint but not the in-flight refresh, guards give up after five seconds, and answers arrive
  after a logout or a timeout.
* **Pages.** What the screen says is saved is saved, and what it shows is what is charged. Hard: edits
  are shown first and written behind, nothing cancels or orders the calls, and an answer finds the page
  as it is by then.

Every component, modelled or not, is in `PROJECT.json` under `components`, and every hazard of
the code, at its line, under `hazards`.

## 2. The modules

| Module | Models |
|---|---|
| `Purchase` | the abstract promise: money is received for a quote, and such a quote gets one order, for ever, for the amount of one of its payments |
| `OrderFulfilment` | CheckoutService, ShippingService, StripeController and OrdersService, from "Pay" to the order row and the email |
| `Quoting` | QuotesService, BendsService, MaterialsService and the price list |
| `AuthSessions` | AuthService |
| `StoreConfig` | AppConfigService and the settings page, MinioStorageService, the upload of a drawing and of a logo |
| `Dxf` | `DxfService.parseDxf` |
| `Estimate` | `NestingService`, `PricingService` and their mirror `core/estimate.ts` |
| `BrowserSession` | SessionRefresher, authInterceptor, TokenStore and the client's AuthService, in several tabs of one browser |
| `Navigation` | the routes, the guards, and the calls of AuthService that navigate, over the router |
| `Wizard` | the quote wizard: NewQuoteShell, its four steps, DraftStore, and the rows they write |
| `WorkBed` | the laser of WorkBedCanvas |
| `CheckoutPages` | CheckoutStore, the checkout steps and the return page |
| `AdminForms` | the five settings forms of the back office and the rows they save |
| `Catalogue` | the tables of materials and of delivery methods |
| `Listings` | the lists of quotes, of orders and of all orders, and their queries |
| `Absence` | the one `None` of the front end's modules |
| `Summation` | what a loop adds up, for `Dxf` and `WorkBed` |
| `MCOrderFulfilment`, `MCQuoting`, `MCAuthSessions`, `MCBrowserSession` | the instances TLC checks |
| `MCUploads` | composes `StoreConfig`, `Dxf` and `Estimate`: what is read from a drawing is what is quoted |
| `MCPages` | the seven modules about pages, side by side |
| `OrderFulfilmentProofs`, `QuotingProofs`, `AuthSessionsProofs`, `BrowserSessionProofs` | theorems for every value of the constants |
| `UploadsProofs` (of `StoreConfig`, `Dxf`, `Estimate`) | theorems for every value of the constants |
| `PagesProofs` (of `Navigation`, `AdminForms`, `Listings`, `Catalogue`), `QuotePagesProofs` (of `CheckoutPages`, `WorkBed`, `Wizard`) | theorems for every value of the constants |
| `SummationProofs` | that sums are functions, and add up as sums do: the lemmas of `UploadsProofs` and `QuotePagesProofs` |

**How handlers are modelled.** `Requests` is a set of slots; a slot runs one HTTP handler, and
`req[r].pc` names the call the handler is about to make. An action is the code from one `await`
to the next: it makes the call, and computes up to the next one. Reads of rows no code path ever
changes (a quote's owner and total, a drawing's geometry, the user) are folded into the step
beside them. Two actions end a handler early: `Abort` (the awaited call is rejected; what was
written stays) and `Restart` (the process dies with all its handlers). A call that took effect
and whose answer was lost is the action followed by `Abort`. Together they are bounded by `MaxFaults`.

**How pages are modelled.** A page runs in one thread, so an event handler is one step. A call is a
record that is sent, then served (the server's statement takes effect), then answered or lost; calls overtake
each other at will, and an answer is applied to the page as it is by then. Names of definitions that no action
uses are mutated forms of the definition after them: a plausible bug that the properties have to find.

**OrderFulfilment.** `quotes`, `tariffs`, `orders`, `ledger` and `stamped` are database columns;
`sessions`, `pay` and `acked` are Stripe's state, `mailed` is Resend's.

| Code | Actions |
|---|---|
| `createSession` | `StartCheckout` (reads quote and method, prices shipping), `OpenSession`, `OpenSessionFails` |
| Stripe and the customer (external) | `Pay`, `Settle`, and the delivery of `Occurred` events any number of times |
| `handle` | `DeliverEvent`, `DeliverSeenEvent`, `RecordEvent` (the ledger insert, its conflict, event types not acted on) |
| `handleSessionCompleted`, `status` | `StartPoll`, `RetrieveSession`, `RetrieveSessionFails` |
| `createFromSession` | `FindOrder`, `InsertOrder`, `InsertConflicts`, `ReferenceCollides`, `ReadWinner`, `MarkOrdered` |
| `sendConfirmationEmail` | `SendEmail`, `StampEmail` |
| admin and bend edits | `UpdateShippingMethod`, `ExpireDraftQuotes` |

The failure of a re-fetch is an action of its own in the webhook, because the code swallows it
and answers 200; in the poll it is an `Abort`.

**Quoting.** A quote is the record of the rows it was computed from (bend count, price list,
material): nesting and pricing are functions of these. `StartQuote`, `ReadMaterial`,
`PartTooLarge`, `CountBends`, `ReadPricing`, `InsertQuote` are the awaits of `create`.
`CreateBend`, `StartEdit`, `UpdateBend`, `RemoveBend` and `ExpireDraftQuotes` are BendsService.

**AuthSessions.** A password stands for its hash and a token for its hash. `StartRegister`,
`CountUsers`, `CreateUser`; `StartLogin`; `StartRefresh`, `RevokePresented`; `IssueSession`
(shared); `Logout`; `Expire` (time); `StartChangePassword`, `SetHash`, `RevokeAll`.

**StoreConfig.** `rows` are the settings, `env` the environment, `cache`, `client` and `bucketReady` what the
process keeps. `resolveConfig` is `Cached`, `FromEnvironment`, `ReadRow` and `Fill` (the answer and what is
done with it, apart from the reading), `LookUpFails`; a save is `StartSave`, then `Upsert` and `DropEntry` for each
setting, then `FinishSave` with the reset; `ensureBucket` and `putObject` are `BucketExists`, `MakeBucket`,
`SetReady`, `PutObject`, `PutFails`; `upload` and the logo end with `InsertDrawing` and `SaveLogo`. History
variables and fields say why a value may be old: `late`, it was read before a save dropped the entry or reset the client and was
assigned after; `undropped`, a save wrote the row and failed before it dropped the entry (the upsert whose answer is
lost: an `Abort` after `Upsert`); `cut`, a save failed after its first row and never reset the client; `unread`, the client was built
while the credential could not be read, and keeps to the environment's login.

**Dxf.** `ReadEntity` flattens one entity, `FinishParse` scales, measures and moves to the origin,
`RejectDrawing` is the 422. Geometry is taxicab and angles are eighths of a turn: a chord is then exactly as
long as its arc, so the property is an equation and no approximation hides a lost side. What is left out is how
many chords an arc gets. `Deliverable` says which entities can be drawn on the grid of that geometry: whole coordinates,
even radii, and a bulge only between two points it fits. TLC evaluates the assumption on the entities of `uploads`.

**Estimate.** Pure operators, no recursion: `Nest`, `Placement`, `Price` on the server, `PreviewNest`, `PreviewPrice`
in the client. Lengths and money are integers, in tenths of a millimetre and in cents; the rounding of a quotient that is
exact in the reals (`slip`) is a choice, because in floating point it may fall on either side of the floor.

**BrowserSession.** The client runs in one thread, so a handler is one step: all a tab does when an
answer arrives. `posts` are the requests to `/auth/refresh` and `/auth/logout` on their way, with the
token they present or bring; `call` is the interceptor's state of each API call.

| Code | Actions |
|---|---|
| `restore`, `sessionSettled`, guards | `Boot`, `Guard` (at any time after `Boot`: ready or after five seconds), `Navigate` |
| `authInterceptor` | `SendCall`, `Unauthorized`, `Answered`, `ReplayRefused`, `CallFails` |
| `SessionRefresher.refresh` | `Refresh` inside `Boot` and `Unauthorized`, `RefreshGranted`, `RefreshRefused` |
| `login`, `register`, `logout` | `Login`, `StartLogout`, `LogoutAnswered` |
| the server | `Sent` (the check), `Rotate`, `RevokeOnLogout`, `AccessExpires` |
| network and browser | `AnswerLost`, `Reload`, `DropAnswer` |

The server's rotation is coarser here than in `AuthSessions`: the check is taken when the request is
sent (a check that comes later sees what a request sent later would see, and tabs do not see each
other's memory), and the revocation and the new token are one step. What can go wrong between those
two is the subject of `AuthSessions`. A refresh token that nobody holds is forgotten, so that
a few tokens are enough for runs of any length.

**Navigation.** `nav` is the navigation under way: its target, the phase (`Guard`, `Load`), and how often it was
redirected. `Go` begins one, and ends the one before. `GuardTimesOut` is the five seconds, `SessionRestored` the
answer to the refresh of the start-up (or that there is none to ask for). `RestoreRefused` is its refusal: the handler of a lost session
navigates to `/login` by itself, which ends the navigation under way, loses the address it was for, and takes a visitor off an
open page. `SignIn` and `SignedOut` are the other calls of AuthService that navigate; `Heading` is what becomes
of the address a sign-in was to go on to.

**Wizard.** `bends` is the list on the screen, `rows` the server's, `calls` what is under way between them,
`stored` the drafts in `sessionStorage`: one for each key space, and `space` is that of this page, the first segment
of the address it was loaded at (`storage.ts:10`). `Reload` loads any step from any space, and restores that space's draft. `PointerDown`, `PointerMove`, `PointerUp`, `Draw` and `RemoveBend` edit the
screen first and send (each `pointermove` is a PATCH of its own); `Created`, `Written`, `WriteFails`, `Reloaded` are the
answers, `Serve...` the server; `Upload`, `SetDrawing`, `Replace`, `Resume`, `Restored` the drawing;
`GoTo`, `GoToResult`, `Quoted` the steps. `astray` names the crossings after which nothing is promised.

**WorkBed.** `Tick` advances the laser along `segments`, `Rebuild`, `Resize`, `Start`, `Stop` and `Destroy` interrupt it
between two frames. The cut layer is the set of units painted since it was wiped.

**CheckoutPages.** `LoadSummary` and `LoadShippingMethods` with their answers in any order; `Review`, `Shipping`, `Select`,
`Pay`, `SessionOpens`, `SessionRefused`; `PaymentReturn`, `PollConfirmed`, `PollPending`, `TimerFires`, `Retry`. `polls` has the
return page that is open and those that were left while a poll was under way: leaving clears the timers, and the poll sets
new ones when it is answered (`Left`), so a left page polls on beside the next. `Jump` is the history
going to the same step of another quote, for which the router keeps the component and nothing is loaded.

**AdminForms.** `OpenForm`, `Edit`, `TypeSecret`, `ChooseLogo`, `Reset`, `Save`; the server's `ServeLoad`, `PutPricing`,
`PutMachine`, `ProbeCredentials`, `UpdateBusiness`, `UploadLogo`; the answers `LoadArrives`, `SaveArrives`, `PaymentsSaved`,
`BrandingSaved`, `LogoSaved`, `Fails`; another administrator is `Elsewhere`. The answer to a save of the business row, or to a logo, is
the whole row (`RespondConfig`), and the shell takes it over (`Branded`). An edit ends the payments form's "checking", so that a
second save may be started before the first is answered.

**Catalogue.** `EditRow`, `PatchName`, `PatchActive`, `Cancel`, `SaveRow`, `ToggleActive`, the server's `ServeList`,
`ServeInsert`, `ServeChange`, the answers `TableLoaded`, `RowCreated`, `RowUpdated`, `JobFails`. Each answer that
changes the table runs the effect that starts the form again (`SyncDraft`).

**Listings.** `SetFilter`, `SetSort`, `NextPage`, `PreviousPage` change the address and ask; `CountRows` and `FindRows` are the
two queries; `CreateRow` and `LeaveFilter` happen between them; `Arrives` is the answer. `walk` is history: what a
visitor who turns the pages had to see and has seen.

`overtaken`, `parent` and `secret` are history variables too: no column holds them, no guard reads
them, and they only let a property say how a row came about. `seen` in `OrderFulfilment`
is the status in the row the handler holds, which the code has and does not look at.

## 3. What the runs check

| Run | Question | Result |
|---|---|---|
| `order_safety` | Can any interleaving of two handlers with one fault duplicate an order, order something unpaid or mispriced, mark without an order, act on an event twice, stamp an email that was not sent, or expire what is ordered? Does it implement `Purchase`? | passes |
| `fulfilled` | Does a paid session always end in an order, also when the webhook's one attempt fails or the payment settles late? Does every event get its 2xx? | passes |
| `quoting` | Are a quote's figures frozen? Which drafts can be stale? | passes |
| `auth_sessions` | An administrator, bounded racing administrators, no replay; which sessions can outlive a password change? | passes |
| `browser_session` | Two tabs over one cookie: can a tab spend a token twice, wait for a refresh that is not under way, end up with a dead cookie, or be refused for a reason of its own making? | passes |
| `one_tab` | With a lost answer, a failing call or a reload: does every call and every restore end, and what can leave a tab with a token and no user? | passes |
| `uploads` | Can a look-up, a client or a bucket flag outlive the save that changed it, and what explains those that do? Is an upload ever lost? Is the cut length of every small drawing that of its path, and is every quote for it placeable, not wasteful and the same as the preview? | passes |
| `pages` | Seven pages against answers that come late, out of order or not at all: is the screen saved, the quote the screen's, the cut layer the path, the total the charge, the poll one chain, the guarded page guarded, the form honest, the walk complete, the edit kept? | passes |
| `lost_event` | "a Stripe event is acted on exactly once" (`schema.prisma:244`) | violated |
| `stale_checkout` | an edit forces "recalculation rather than checking out against stale numbers" (`bends.service.ts:73`) | violated |
| `rotation_fork` | "exactly one live token remains per rotated chain" (`test_spec.md:376`) | violated |
| `old_session` | "Every other session ... is invalidated by the password change" (`auth.service.ts:133`) | violated |

The violated ones are the places where a comment or the test plan promises more than the
statements of the code give; the matching property that does hold is checked beside it.
`NoSilentDrop` and `PaidIsFulfilled` say what remains of the first (no drop without a fault; and
the poll makes up for a drop), `StaleDraftHasCause` and `StaleSessionHasCause` reduce the stale
rows to exactly two causes each, and `ReplayIsRefused` says what
rotation does guarantee. `AdminsBounded` is the truth about "the first account becomes ADMIN":
as many as race past the count, and none later.

Two promises about the browser are narrower than they sound. `RefusalHasCause` shows what the single
flight achieves: a tab never gets in its own way, but two tabs still do, and the loser's refusal
clears the hint they share. And `src/.pipeline/test_spec.md:364` wants a sign-out to clear the in-memory
state; `HalfSessionIsALateAnswer` says when it does not stay clear: a refresh that was under way at the
logout puts an access token (and the hint) back, a `GET /auth/me` a user.

The properties of `uploads` and `pages` are of one kind: the promise, and after it the complete list of
crossings that break it. The list is part of the property, and stated with it in its module: that nothing else breaks
the promise is what the run shows. `CacheIsCurrent`, for instance, has two exceptions (a save between its row
and its invalidation, and a look-up that straddles both), and the second one never heals by itself.

### Observations

Met while modelling. Each is the behaviour of the models, and most are an exception a property names:

* **Quotes.** A bend edit that falls between the count of a quote (`quotes.service.ts:81`) and its insert (`:97`) leaves a
  draft with a wrong count, against `bends.service.ts:72-74`; it is one of the causes of `StaleDraftHasCause`.
* **Wizard.** The answer to a restore replaces a drawing that was uploaded meanwhile; a bend whose creation is answered after
  the drawing was replaced joins the other drawing's list; a reload of the result step creates no quote
  (`result-step.component.ts:52-64`), which the comment of the shell expects; the drop zone takes a second file during an upload.
* **Work bed.** A laser that has finished is not restarted by new inputs, although the comment says "and restart"; a resize
  inside a segment leaves a gap, although the replay is of "the already-cut portion"; a laser switched on after its end
  stops at the first frame.
* **Wizard's storage.** A draft that was kept by a tab loaded at `/` (key space `app`) or `/login` is not found when the page is loaded
  again at the wizard's own address (`quotes`), or an older one is: `draft-store.ts:49-51` and `:149-151` promise that a deep link
  restores. `ScreenIsSaved` says what is kept: the draft of the space the page was loaded in.
* **Checkout.** The pay button works while a step loads, with the selection the step before has left; a
  payment that is being prepared redirects the browser even if its step was left; a history jump to another quote's shipping step pays
  for that quote under the total of the one before; a return page that was left with a poll under way polls on until its delays are used up.
* **Credentials.** An upsert that took effect but whose answer was lost leaves the old value cached until the next save or restart, and
  a client built while the credential could not be read keeps the environment's login as long.
* **Navigation.** "Guards redirect AT MOST ONCE" (`guards.ts:6-8`) is true of a session that stands still. One that is restored
  between two guards costs a second redirect, and the deep link with it. A refused refresh at start-up loses the deep link too,
  and takes a visitor of a public page to `/login`, where `auth.service.ts:62` says "a failed refresh simply means 'signed out'".
* **Settings forms.** Most forms accept a second save before the first is answered, and answers overwrite what was typed
  since; a save before the row has been loaded writes the form's blanks; the branding form does not adopt the answer, and a logo that fails leaves the
  shell with the old name. The account page's two forms say "saved" without a call.
* **Lists.** A page past the end says that there is nothing; equal totals have no order; an earlier answer ends the
  spinner of a later question; the revenue of the administrator's list ignores its filter.
* **Catalogue.** A save that fails is never seen, as the form is closed by then; an answer that arrives while a form is open
  discards what was typed; a form opened by its address before the table is there creates a new row on save.

### Bounds

* `order_safety`: two quotes of one drawing, two sessions, one method with two tariffs (flat and per
  sheet), two handlers, one fault. Two handlers are what each race of the hazard list needs
  (webhook against poll, delivery against delivery, checkout against edit); two sessions and two
  quotes are what a cross-matched poll and a twice-paid quote need. Quotes have different totals
  and sheet counts so that a mixed-up sum shows.
* `fulfilled`: one quote and one session, but both ways of paying and two faults, so that the
  webhook and a poll can each fail once. No symmetry, because of the liveness properties.
* `quoting`: two drawings, two bends, two price lists, one quote, two handlers, one fault. One quote is
  enough: two quotes never touch each other's rows.
* `auth_sessions`: three addresses (two racing first registrations and a later one), two passwords, two
  tokens, two handlers, one fault. The violation runs use three tokens, a parent and two children.
* `browser_session`: two tabs, which is what sharing the cookie needs, each with the call of `restore` and
  another, so that two of a tab's calls meet in one refresh; four tokens: the cookie, and the token of each of
  three requests under way. No faults, as the properties are about undisturbed runs.
* `one_tab`: one tab with the same calls, one fault, no symmetry: liveness does not depend on the other tab.
* `uploads`: for storing, two handlers, any number of saves, one fault, two endpoints and one credential, which is
  what a look-up, a save and an upload that cross each other need. For reading, every drawing of at most two of thirteen
  entities (each kind of curve, closing and degenerate case) in two units, and every quote for the part
  it gives: quantities 1, 2 and 7 around the boundaries of a sheet, with and without spacing, margin, bends and minimum.
  `MorePartsNeverCostLess` ranges over quantities and is left to its theorem.
* `pages`: one page at a time, because they share no state. Two quotes, two methods, two drawings, two bends and
  two calls under way, which is what answers out of order need; two values of a form and one that is
  refused; lists of up to five rows with pages of two, so that a row can cross a page break; one fault; one return page
  that was left with its poll under way, beside the one that is open; two key spaces, the first load in one of them, since they
  are interchangeable. `InHand` does not explore what follows a crossing that its property excepts, nor what a refused
  call of a table leaves (nothing); it follows the polls of return pages while the store is empty, as they share no state with it;
  and of two forms opened in turn it follows the second until it is excused. The theorems have none of these bounds.
* Symmetry only permutes interchangeable model values (slots, addresses, ids) and is used only in runs
  without liveness.

Deadlock is checked in the runs of the first sections, where the environment can always do something. `uploads` and `pages`
switch it off: a drawing that was read and quoted, and a page whose bounds are used up, have nothing left to do.

### Fairness

The `FairSpec` of `OrderFulfilment` assumes three things, each the scheduling of the code or of its partners:
`WF(HandlerStep(r))`, an awaited call returns in the end, well or not; `SF(Redeliver(e))`, Stripe
re-delivers an event until it is answered with 2xx; `SF(Polling)`, a customer who has paid keeps the
return page polling (`payment-return.component.ts`) and presses "check again" when it gives up. The
last two are strong because a slot is free again and again, not for ever. `PaidIsFulfilled` needs the
third: after a swallowed re-fetch, or for a delayed payment, the webhook never creates the order and
the poll is the only path left. That is the honest content of "the webhook is the fast path; this is
the guarantee" (`checkout.service.ts:136`). That a return page polls in one chain of its own, which ends in an answer or in the
button, is `OneChain`, of `CheckoutPages`; a page that was left may still be polling beside it.

The `FairSpec` of `BrowserSession` is weak fairness of the tab's constructor and guard, of each call's answer
and of each request's progress, in the server and then in its tab. The visitor, expiring tokens and
faults are not fair: nobody has to click, and no token has to run out.

The other modules state no fairness: their properties are about what is true when the answers are in.

## 4. What is proved

The theorems hold for any sets of quotes, sessions, methods, requests and so on and any number
of faults, under the assumption named in each module (totals and rates are naturals, `None` is not
an id, there are finitely many and at least one request slots for the bound on administrators).

**`OrderFulfilmentProofs`.** `IInv` is inductive, and from it follow `TypeOK`, `OneOrderPerQuote`,
`OrderMatchesPayment`, `OrderedHasOrder`, `OneHandlerPerEvent`, `ConfirmationIsTrue`,
`[][..]OrderedIsFinal` and the refinement of `Purchase`. The safety properties are not inductive by
themselves. `OrderMatchesPayment` needs that a handler about to insert has seen the session paid, that
paid is for ever, and that a session's row never changes (`Cleared`, `SessionRows`); `OrderedHasOrder`
and `ConfirmationIsTrue` need that a handler past the insert has an order behind it, its own or the
winner's (`Backed`); `OneHandlerPerEvent` needs that the ledger row precedes the work (`Recorded`,
`Exclusive`). In the refinement, `Pay` with outcome "paid" and `Settle` map to `Purchase!Pay`,
`InsertOrder` to `Purchase!Fulfil`, and every other step to a stutter. Beside `IInv`, `LossInv` says that a
webhook works on the quote of a completed session (`Origins`) and that, without a fault, an insert is refused only
because the order is there already (`LostToAnOrder`); `UnmarkedOnlyAfterFault` and `NoSilentDrop` follow.

**`QuotingProofs`.** `IInv` adds to `StaleDraftHasCause` the same statement about counts still held by a
handler (`StaleCountHasCause`), since a draft is made from one. `FrozenOnceQuoted` follows step by step.

**`AuthSessionsProofs`.** `AlwaysAnAdmin` needs that a registration about to make a plain user has seen
an account (`SecondSawFirst`) and that accounts are never deleted. `AdminsBounded` needs a budget:
administrators that exist and registrations that may still make one share the slots (`AdminBudget`),
which holds because every `create` gives its slot up. `PredecessorIsRevoked` needs
`RevokedBeforeIssue`, and `StaleSessionHasCause` its counterpart for tokens still being issued.
`OneAccountPerEmail` and `PredecessorIsRevoked` are proved only, and no longer run.

**`UploadsProofs`.** Three modules that share no state, as in `uploads`. `StoreInv` is inductive: the types, what a handler knows at each
of its awaits (`HandlerOK`), and the three properties about the caches. `HandlerOK` is the core: a value in a handler's hands is the
configured one, or is marked late by the save that overtook it, or that save has yet to drop the entry, or has failed before it could. What a
client may be other than the configured one is listed in `ClientIsCurrent`; a failed look-up excuses its credential only, and only
as the environment's login. `NoUploadLost` follows step by step.

`DxfInv` is an account that is kept while a drawing is read: the polylines that were kept are together as long as the paths of the entities that
were read. It is inductive for drawings of any number of entities in any order, and `CutLengthIsThePath` is what it says in the
end. The step of an entity rests on one lemma for each kind (`LineIsFlat`, `CircleIsFlat`, `ArcIsFlat`, `PolylineIsFlat`): what
`flattenEntity` returns is as long as the entity. For curves, `ArcIs` says that an arc goes from its first angle to its last, along one radius
for each eighth of a turn, and `BulgeIs` that the centre, radius and start the code computes from a bulge give the arc that the
bulge encodes. For polylines, `LengthConcat` says what the points of one more leg add to a path, and `PathsAre` that the path to
a vertex is as long as the legs before it; the closing arc needs that a last point that is dropped comes back with the closing
segment (`FrontAndLast`). `FinishParse` needs that scaling and moving keep the account (`ScalePolylineIs`, `MovedIs`).
The assumption is `DxfEntities`: what the parser delivers lies on the grid (see `Dxf` in section 2).

For natural boxes, sheets, margins, spacings, rates and quantities of any size (`Estimate`): the parts of a sheet fit
and keep their distance, a part is refused only if it is too large or an exact fit was rounded away, no charged sheet stays
empty, the preview is the quote, and a larger order never costs less. The geometry rests on one lemma about the floor
(`cols` parts and `cols - 1` gaps fit the usable length), the prices on the monotony of rounding, sheet count and minimum.

**`PagesProofs`.** Four modules that share no state. `NavInv` says what is known of a navigation in each phase (which guard it has passed, for which
user, how many redirects it has made and why); `GuardsHold` follows. A refused refresh at start-up, like a sign-out, starts a navigation
that has passed no guard and made no redirect, whatever it replaces.

`FormsCore`: while nothing excuses an open form, a call of it is its only one, carries what has been typed, and once it is answered
(for a logo: sent) the server holds what it carries (`PendingOK`). `FormsAreHonest` is what is left of it when the form says "saved".

`ListingCore`: the rows that a walk through the pages has still to see lie ahead of it (`WalkOK`). While its call has not read
the rows yet, they sort behind the pages before (`Unread`); once it has, each is in the answer or behind the page asked for
(`ReadTo`, `Read`), and the pages that were counted go on. This takes the cardinalities of a total order's
initial segments: a new row can push rows backwards only, while a row that leaves the filter pulls them forwards, over the page break, and has to be excused.

`CatalogueCore`: no two writes of a row are under way (`OneCallPerRow`), a write differs from the server's row in the fields
that were typed into only, and its answer holds the row (`WritesOK`), the table shows every row but those whose answer is under way
(`TableFollows`), and the draft is the row of the table but for what was typed (`DraftFollows`). `EditsAreKept` follows.

**`BrowserSessionProofs`.** For any number of tabs, calls, tokens and faults. Besides the types and the properties, `IInv`
says that without faults no request is orphaned and the token in a granted answer is alive and held by nobody else
(`NoOrphans`, `FreshAnswers`), that a tab whose constructor has not run has nothing under way (`AtStart`), that
`GET /auth/me` of `restore` is under way exactly while it waits for it (`MeIsBooting`), and that a user of a
restoring tab has come with a token (`UserHasToken`). `CookieIsLive` needs the second: when an answer is stored, its token is the one
nobody else can have spent. `RefusalHasCause` follows from `CookieIsLive` and the single flight, `HalfSessionIsALateAnswer`
from the last three.

**`QuotePagesProofs`.** For any quotes, methods, rates and bounds. `ShownIsCharged` rests on what is known of the store while
no two of its calls have crossed: the one call under way is for the quote that was asked for last, and once it is answered, what is
shown is that quote's (`SummaryFollows`, `DeliveryFollows`), which is the quote of the step that is open (`StepHasAsked`). That
the selected method is on the list needs that a list has a cheapest method, for which the order of the naturals is
well-founded. `OneChain` needs that a timer is set only while a delay is left, and that a page that was left has kept the one poll
that was under way (`PollInv`, of every page).

`WorkBedInv`: for paths and frames of any length, what is missing from the layer has been travelled (`gap`), and so `CutLayerIsThePath`
is kept by each frame. The loop of a frame is a function defined by recursion over an interval, as are the sums of lengths and the paths of a drawing.
That they are functions, and what they keep, is proved in `SummationProofs` from the least element of a set of numbers (`LeastNumber`,
`IntervalInduction`, `Recursion`, `RecursionStays`): statements about sets, which need no induction theorem with an operator parameter.

`WizardInv` has two parts. `WizardBase` holds whatever has crossed: the types, one row for each bend, what is known of a call by
its kind and phase, and that the drawing an upload has made is known nowhere else (`NewDrawing`), which is why the empty list shown
for it is right. `StraightInv` holds while no calls have crossed:

* `DraftInv` and `ListInv`: the draft stored in the page's key space is the drawing of the screen, a list under way is of that drawing, nothing is written
  while one is read, and one that has been read is the server's.
* `EditInv`: updates under way are about different bends and carry what the screen shows, no removed bend is shown, and nothing
  else knows the bend that a creation brings.
* `ScreenInv`: the screen and the rows differ by the writes under way and by nothing else. A bend that is shown has its row,
  with its place or an update that will put it there (`ShownOK`); a row that is not shown has a removal under way or the answer that
  lists it (`HiddenOK`). A write that failed suspends this (`Bare`, `Steady`) until the list has been read again.
* `QuoteInv`: from a quote that was not hurried until its step is left nothing else is under way.

With no calls left `ScreenInv` says that the list is the drawing's rows, each once (`SettledScreen`), which is `ScreenIsSaved`; and
two lists of the same rows are equally long (`SameLength`), which is what `QuoteMatchesScreen` needs of the count. That each action
keeps `WizardBase` and each keeps `StraightInv` are lemmas of their own, one for an action or for actions that do the same. That
`Listed` lists each row once needs that there are finitely many (`SetIsSequence`).

## 5. What is only model-checked

`PaidIsFulfilled`, `EveryEventAcknowledged` and `EverythingSettles`: liveness under fairness is out of the prover's
reach. Every invariant of a passing run is a theorem.

## 6. What is not modelled

Request validation, ownership checks and wording (they read and refuse); the rejection of a webhook without
a valid signature or a configured secret (it changes nothing); expiry of Stripe sessions (it only removes
behaviours); re-runs of the platform seed, which re-assert the hashes of its accounts; deletion of rows, which
no code path performs except for bends; the encryption of stored keys, a pure function; the profile's name and the preview build; what is drawn on a
canvas besides the cut; the detail pages, which load one resource and keep nothing, and the account page, whose
forms call no API; health, throttling and the wording of errors. `clampQuantity` (`estimate.ts:108`) has no caller.
Stripe, Resend, the object store, Angular's router and the DXF parser library are external: modelled from how the
code uses them, as far as it does.

The hazard without a property is the age of the preview's price list (`draft-store.ts:122`): it is loaded once per session and
nothing bounds how old it gets; the customer pays the saved quote, which the result step shows.

## 7. What is left

1. `Quoting` over `Estimate`: a quote that carries figures and not only the rows they come from.
2. `Wizard` with a history variable for each crossing in place of one for all, so that a crossing excepts only what it spoils.
3. `Listings` with more than one filter, and ties with the order the database happens to give.

## 8. Running

    tlc -workers 2 -config OrderFulfilment.cfg MCOrderFulfilment
    tlc -workers 2 -config Fulfilled.cfg MCOrderFulfilment
    tlc -workers 2 -config Quoting.cfg MCQuoting
    tlc -workers 2 -config AuthSessions.cfg MCAuthSessions
    tlc -workers 2 -config BrowserSession.cfg MCBrowserSession
    tlc -workers 2 -config OneTab.cfg MCBrowserSession
    tlc -workers 2 -config Uploads.cfg MCUploads
    tlc -workers 2 -config Pages.cfg MCPages
    tlapm OrderFulfilmentProofs.tla

and so on for the other modules whose name ends in `Proofs`. `LostEvent.cfg`, `StaleCheckout.cfg`, `RotationFork.cfg` and
`OldSession.cfg` end with a counterexample, as they are meant to; `PROJECT.json` lists all runs
with what they show, the mutants that break each property, the map from definitions to source lines, and
the findings.
