# A TLA+ model of Rento

Rento is a rental marketplace: a NestJS backend over Postgres, Redis and
Elasticsearch, a React web client and a Telegram bot. This directory holds
TLA+ modules that model parts of it, TLC configurations that check them on small
instances, and TLAPS proofs that hold for instances of every size.
`PROJECT.json` lists, for every definition, the lines of the source it models.

Paths below are relative to `src/packages/backend/src/` unless they begin with
`docs/` (of the repository) or `frontend/` (`src/packages/frontend/src/`); pages are named
by their file in `frontend/pages/`, and services by their file where the directory is clear.

Contents: 1 the system, 2 the modules, 3 the runs, 4 the proofs, 5 where code
and documentation differ, 6 abstractions, 7 what is not modelled, 8 the plan.

## 1. The system

### Components

| Component | State it keeps | Operations that change it | Modelled |
|---|---|---|---|
| Payment holds (`payments-hold/`) | holds, captures, releases, each under an idempotency key | authorizeHold, captureRent, releaseDeposit | yes |
| Booking workflow (`bookings/bookings-workflow.service.ts`) | the `Booking` row | createBooking, retryPayment, cancelBooking, confirmReturn; forced cancellation by the calendar | yes |
| Booking settlement (`bookings/bookings-settlement.service.ts`) | the settlement columns of `Booking` | attemptSettlement | yes |
| Return auto-confirmation (`bookings/bookings-return-auto-confirm.job.ts`) | the same rows | a cron tick every minute: expired returns, due retries | yes |
| Listing calendar (`calendar/calendar.service.ts`) | `ListingManualCalendarBlock` | blockDates, unblockDates | yes |
| Token sessions (`tokens/`, `redis/`) | `RefreshToken` rows, sessions in Redis | issue, rotation, logout | yes |
| Web client session (`frontend/lib/apiClient.ts`, `frontend/auth/`) | localStorage, React state, the promise `refreshInFlight` | login, logout, load, request, silent refresh | yes |
| Listings (`listings/`) | `Listing`, `ListingPhoto` | create, update, delete, publish, upload and delete a photo | yes |
| Search (`search/`) | Elasticsearch index, cached results in Redis | indexListing, removeListing, reindexAllActiveListings, search, autocomplete | yes |
| Text moderation (`moderation/`) | none | a pure decision and a call of an LLM | the decision |
| Payment methods (`payment-methods/`) | `UserPaymentMethod` | addCard, setDefault, removeCard | yes |
| Authentication (`auth/`) | `User`, confirmation tokens, link codes, login attempts, exchange codes | register, resendConfirmation, confirmEmail, login; link, login and exchange with Telegram | yes |
| Telegram bot (`src/packages/telegram-bot/`) | a Map of pending sign-ins | start, contact, skip | yes |
| Identity verification (`verification/`) | `IdentityVerification` | initiate, callback, escalate | yes |
| Trust score (`trust-score/`) | `TrustScore` | recalculation on events and once a day | yes |
| Users and profiles (`users/`) | columns of `User` | updateCurrentUser | partly |
| Pages of the web client (`frontend/pages/`, `frontend/components/AuthModal.tsx`) | React state, requests under way | the pages of a listing, a booking, a calendar, a new or edited listing, the catalog, the profile; the sign-in form and the two pages that links open | partly |
| Read side of bookings; geocoding, e-mail, photo storage, notifications; configuration and start-up | - | reads, input and output | no |

### How they interact

`createBooking` inserts a row under an advisory lock, commits, asks the gateway
for a hold and writes the outcome. `cancelBooking` asks the gateway to release
the hold and then writes CANCELLED. `confirmReturn` sets columns of the row in a
transaction and, when that started a settlement, calls `attemptSettlement`, which
captures the rent, releases the deposit and writes SETTLED or FAILED with a
retry date. The cron job lists rows and does the same in place of a silent
landlord, and retries failed settlements. The calendar reads bookings, and its
forced unblocking sets them to CANCELLED with one `updateMany`. All of them meet
in the booking row; none of them locks it between its read and its write.

A listing is saved after its text has been moderated, which may take a call to a
language model. Photos go to a storage and then to their table. What changes a
published listing ends with `indexListing`, which reads the row, writes a document
and empties the cache of answers; its failure is swallowed. A search asks the cache,
the index and the database in this order, and stores its answer. None of this is in a
transaction.

To register, a user posts an address, gets a letter with a link, and the page of the link
posts the token, for which the backend answers with a session. With Telegram, the form asks
for an attempt, the user opens the bot with its code, the bot remembers it until the user
answers and then asks the backend to confirm, which makes an exchange code; the bot shows it
as a link, whose page exchanges it for a session.

The verification of an identity and the bookings of a user are read by the trust score, which
is calculated after a verification, on the first look at a profile and by a daily job.
The profile page shows cards and profile, and changes its copy of them when an answer comes.

A web page keeps its session in localStorage, shared with the other pages of the
browser. On a 401 it refreshes, with one promise shared by the requests of that
page. The backend records a refresh token in Postgres and in Redis and asks one
of the two, whichever is available.

### What is hard

- Every handler is a series of awaits. Postgres runs at Read Committed, and
  updates go by `id` alone: whatever a handler decided on may have changed.
- The process can end between any two of these steps, while the database and
  the gateway keep what they have.
- Gateway calls fail and are made again; only idempotency keys keep a retry from
  charging twice. Cron ticks of several instances overlap.
- The try of a payment, and that of a settlement, go on past the update that records the
  outcome, to the notifications; the catch does not ask how far the try had come.
- Calendar requests delete and recreate overlapping rows that other requests have
  read.
- The text, the photos, the index and the cache of a listing are four stores written one
  after the other, by requests that read before they wait and write after.
- Two stores of tokens of which one comes and goes; several pages on one storage;
  answers that arrive after the page has logged out.
- A link or a code is looked up as unused in one statement and marked used in another;
  forms, letters, the bot and two kinds of pages bring the same ones, twice and late.
- A score is made of three reads without a transaction and written whatever has been
  written meanwhile; one row serves all attempts to verify an identity.
- A page applies an answer to the state it has by then: the user has moved on to other
  dates, another month or another listing, or has left.

### What makes each component correct

- Bookings: no two bookings hold the same time; a confirmed booking names a hold
  of its own; no hold is forgotten at the provider; what was captured was owed; the row
  follows the documented life; a forced cancellation hits the bookings on its days.
- Settlement: rent captured once, only after a confirmed return; SETTLED means
  charged; a failure is retried until the schedule ends; nothing stays PENDING.
- Calendar: blocking and lifting do not lose each other's days; a block leaves a
  bookable day and touches no booking.
- Listings: what is shown was moderated and is published; a published listing has photos,
  one of them the primary one; index and cache follow the row, and what is deleted
  disappears.
- Authentication: only confirmed addresses sign in; a code is good once, or as often as
  uses of it overlap; a code of Telegram goes back to a user who asked for it there.
- Account: one card is the default one; a save undoes nothing that was not edited; the
  numbers of a score belong together and come to be those of the bookings.
- Pages: what is shown is what the page is the page of; a button that repeats or forces
  something means what is shown next to it; photos of a new listing arrive.
- Sessions: a logout is final; a browser is not left with a token that is dead;
  a page refreshes once, and always can.

## 2. The modules

| Module | Models | EXTENDS |
|---|---|---|
| `PaymentHoldGateway` | the gateway: the key that a caller brings decides whether an operation is new; a hold is named by a hash of its key | - |
| `BookingTable` | `Booking` rows, overlap and day projection, users with a card, handlers in flight and what they have seen | `PaymentHoldGateway` |
| `BookingsWorkflow` | createBooking, retryPayment, cancelBooking, confirmReturn, forced cancellation | `BookingTable` |
| `BookingsSettlement` | attemptSettlement | `BookingTable` |
| `BookingsReturnAutoConfirmJob` | the two passes of the cron job | `BookingTable` |
| `BookingSystem` | their composition, crashes, fairness, cards that come and go, properties, inductive invariants | the three above |
| `BookingLifecycle` | abstract: the two state diagrams of `docs/state/Booking.md` in one machine, for handlers whose view of a booking may be out of date | - |
| `ListingCalendar` | blockDates and unblockDates of one listing, bookings seen from outside | - |
| `RefreshSessions` | `JwtTokenService` and `RedisService` for one user | - |
| `WebClientSession` | apiClient, authStorage, AuthContext for the pages of a browser | `RefreshSessions` |
| `SessionSystem` | their composition, properties, inductive invariant | `WebClientSession` |
| `ListingTextModeration` | fuseModeration, as a function of the findings of the rules and the verdict of a model | - |
| `ListingTable` | the row, photos, document and cached answers of one listing, requests in flight | `ListingTextModeration` |
| `ListingsService` | create, update, publish, delete, upload and delete a photo | `ListingTable` |
| `ListingSearch` | indexing, removal, rebuilding; search and autocomplete | `ListingTable` |
| `ListingSystem` | their composition, failures, properties, inductive invariant | the two above |
| `AuthService` | users and credentials: registration, confirmation, login, the link, login and exchange of Telegram | - |
| `TelegramBot` | the handlers of the bot and its Map of pending sign-ins, restarts | `AuthService` |
| `SignInPages` | AuthModal, ConfirmEmailPage, TelegramCallbackPage | `TelegramBot` |
| `SignInSystem` | their composition, failures, properties, inductive invariant | `SignInPages` |
| `AccountTable` | the rows of one account, requests in flight; getCurrentUser, updateCurrentUser | - |
| `PaymentMethods` | list, addCard, setDefault, removeCard | `AccountTable` |
| `IdentityVerification` | initiate, callback, escalation | `AccountTable` |
| `TrustScore` | the recalculation, its formula, the daily job, what the bookings do | `AccountTable` |
| `ProfilePage` | the list of cards and the form of the profile, in several windows | `PaymentMethods` |
| `AccountSystem` | their composition, failures, properties, inductive invariant | `ProfilePage`, `IdentityVerification`, `TrustScore` |
| `PageRequests` | what pages have asked for, answered in any order, dropped by cleanups | - |
| `ListingDetailsPage`, `ManageCalendarPage`, `BookingDetailPage`, `CreateItemPage`, `HomePage` | one page each, with the effects, handlers and cleanups that set its state | `PageRequests` |
| `PagesSystem` | the pages, properties, inductive invariant | the five above |
| `MC*` | instances for TLC | |
| `*Proofs` | theorems | |

### How state and actions correspond to the code

*Handlers.* A handler in flight is a process with a label and the values that the
TypeScript function carries in local variables across an await. One action is
the code from one await to the next. So `CreateBooking` is `createBooking` up to
the commit of its transaction, `HoldAuthorized` the answer of the gateway, `RecordHold` the
update that follows, `Notified` the two notifications. `PaymentFails` leads from each of the
three to the catch, whose update is `RecordFailure`: the provider declines, or a call fails with
the hold authorised, or even recorded. `SettlementFails` is the same for `attemptSettlement`. A
call that fails outside a try ends its handler, which is what a crash does too. The advisory lock
of `createBooking` is taken before the overlap query and nothing else creates
rows, which makes query and insert one step. `confirmReturn`'s transaction takes
no such lock; its read (`ConfirmReturn`) and its write (`RecordConfirmation`)
are two. A `SetRow` keeps the columns that the code's `data` does not name: the
row operators (`ConfirmedRow`, `CancelledRow`, `UnsettledRow`, ...) are applied to
the row as it is at the write, with what was read earlier taken from the process.

*What a handler has seen.* `seen` is the status and the settlement of the row as the handler's
guards read them (or as it wrote them, before it went on to the gateway). No guard of the model
looks at it; it is there for the refinement, in which it is the handler's view, and the
invariant `LifeInv` says that it admits what the handler is about to write.

*Keys and holds.* `HoldKey` and `OperationKey` are the idempotency keys the backend builds, a
prefix, the booking and, for a hold, the card. `Perform` adds an operation unless one with the same
key is there, whatever else the two ask for; that no booking is charged twice is therefore a
matter of what `CaptureKey`, `ReleaseKey` and `CancelReleaseKey` put into the key. The stub names a
hold by the sum of the character codes of its key, modulo a million: `HoldIdOf` is any
function from keys to names, and the bookings' rows, captures and releases carry names.

*Cards.* `cardholders` are the users with an attached card, who change at any time (`Cards`).
`createBooking` and `confirmReturn` ask for a card of both parties, `retryPayment` for one of the
renter, and refuse; the job passes over an expired return (`CheckCards`).

*Rows.* `BookingTable!Row` has the columns the handlers branch on. Timestamps
that are only compared with null are Booleans. `amountHeld` goes with
`paymentHoldId` and `returnConfirmationDeadlineAt` with the renter's
confirmation, so they are not repeated.

*Job.* A process that takes up a row in `ListExpired` or `ListRetry` is the work of
one tick on one listed row. The tick's advisory lock belongs to a transaction that
does nothing but take it, so it is free before the work begins; ticks overlap.

*Calendar.* A request reads the bookings, begins a transaction, reads the
overlapping rows, writes and commits. What the others see changes at the commit;
what the transaction itself sees is `Others(p)` and its merged row. A request whose
rows another transaction has deleted waits for that commit (`Locked`). `Abort` is
any rollback. `Pieces` are the remainders of cut rows, `IsMerged` the merged one.

*Listings.* A request is a process as above. `UpdateListing` is `updateOwnedListing` up to
the call of the moderation, `WriteUpdate` the decision and the update: the decision
depends on the text alone, so it may be taken at the write. `UpdatedText` replaces the
columns that the request names, in the text that is moderated and again, in the text as
it is by then, at the write; this is what the properties on texts are about. `Allows`
and `Rejects` are the two outcomes of `throwIfModerationRejects` over everything a
language model may answer; both may be possible. A cached answer is what it shows of the
listing, or `Empty`, or there is none; one key of the cache stands for each way a
query goes (`QueryKind`). `Fail` is a crash, or a failure of a store, at any await.

*Sessions.* A token stands for its hash and its session id. `rows` are the
unrevoked rows in Postgres, `sessions` the keys in Redis; `Accepted` is what the
backend takes now. `Check`, `DeleteSession`, `RevokeRow`, `CreateRow`,
`StoreSession` are the awaits of `refreshTokenPair`. On the client,
`refreshInFlight` is the module variable of `apiClient.ts`; its value "null" is a
promise that was settled before it was assigned. `Load` is a page (re)load: the
answers it waited for are dropped (`AnswerDropped`).

*Sign-in.* A user is known by what the row was created with. The four tables of secrets are
one function `credential`, whose kind says the table; `Key` is the order in which they are
issued. `known` are the secrets that were mailed, shown or answered: only these can be
brought back. `granted` counts the sessions of each secret. `confirm_write`, `link_write`,
`login_write` and `exchange_write` are the writes after the lookup: they go by id, like the
code, and do not ask again whether the secret is unused. `FindTelegramUser` and
`CreateTelegramUser` are the two halves of `confirmTelegramLogin`'s find-or-create.
`TelegramBot!Start` puts the code into the Map, `Confirm` deletes the entry and calls the
backend, `Reply` is the answer in the chat, `Restart` forgets the Map. In `SignInPages` a
window is the modal or one of the two pages; `mounted` says whether the component that asked
is still there, which decides what the answer sets: a form ignores it, but the session is
stored all the same.

*Account.* `cards` are the rows of one user. A transaction is two actions, because of what
Read Committed lets another one do between its statements: `BeginChange` finds the rows its
`updateMany` clears, and `CreateCard`, `ReattachCard`, `MakeDefault` write and commit.
`FindNext` and `RevokeCard` are the read and the writes of a removal. A recalculation is
`ReadVerification`, then `CountDeals` and `ListDeals` in any order (they are sent together),
then `WriteScore`; `deals` is what the queries would find, changed by bookings as they like.
On the page `shown` is the list as it is displayed, `draft` the form and `user` the user of
`AuthContext`, which the effect at `ProfilePage.tsx:86` copies into the draft whenever it
changes. `typed` remembers which columns were typed since; the code does not know it, the
property `SavesWhatWasTyped` is about it.

*Pages.* A request has a place (asked, answered), the argument it was sent with, and `live`,
which a cleanup (`cancelled = true`) clears. An action per effect, handler or answer: what
the answer sets is applied to the state as it is then, except where the code tests
`cancelled`. `Abandon` leaves a page; requests whose answers still do something beyond the page
(a navigation, a further upload) go on. The backend is there as far as a page can tell: the
status of a booking, the photos of a listing.

## 3. The runs

| Run | Instance | Checks | Shows |
|---|---|---|---|
| `MCBookingPayments` | 3 bookings of one listing (two share an instant, a third only a day), 2 handlers, failures, crashes; all holds have one name | `ConfirmedHasOwnHold`, `ClashOnlyByRevival`, `ForcedCancelHitsItsDays` | creations never clash however they interleave; a clash comes only from bringing a booking back; a confirmed booking has a hold of its own even where names collide; a forced cancellation by days hits the bookings with an instant there and no others |
| `MCBookings` | 1 booking, 2 cards, 2 handlers, every operation, failures of every call, crashes | `TypeOK`, `ChargedAtMostOnce`, `CaptureNeedsReturn`, `SettledMeansCharged`, `KeepsLifecycle`, `LostHoldsAreExplained` | no overlap of handlers, retries and crashes charges twice, too early, or records what was not done; the bookings implement `BookingLifecycle`; a hold is left behind in three named cases only |
| `MCBookingLiveness` | 1 booking, paid, 2 handlers, cards that come and go, no crash | `ExpiredReturnCompletes`, `PendingIsAnswered`, `RetriesEnd` | the job completes silent returns of parties that come to have cards, settlements are answered, the retry schedule is used up and ends |
| `MCListingCalendar` | 3 days, 1 booking, 2 requests, 3 row ids | `OnlyUnblockingFrees`, `UndisturbedUnblockFrees`, `UndisturbedBlockIsAllowed` | no interleaving frees a blocked day by accident; an undisturbed request does what it promises |
| `MCSessions` (module `SessionSystem`) | 2 pages, 2 backend processes, 3 tokens, Redis changes once | `LoggedOutIsOver`, `HeldIsAccepted`, `OneRefresh` | logout is final, the browser's token is good, one refresh per page at a time |
| `MCListings` | 1 listing, 3 titles, 2 descriptions, up to 3 photos where 2 are allowed, 4 kinds of queries, 2 requests, failures | `TypeOK`, `PartsAreClean`, `CalmTextIsClean`, `CalmPhotos`, `PhotosBounded`, `DraftsAreHidden`, `CalmIndexFollows`, `DeletedLeavesResults` | under any overlap: only moderated titles and descriptions, a bounded excess of photos, hidden drafts, and deleted listings that leave the results; without overlap and failures: moderated pairs, one primary photo, index and cache that follow the row |
| `MCSignIn` | 1 address, 2 Telegram accounts, 1 window, 2 requests, 3 credentials; one expiry, failure, restart or reload | `TypeOK`, `SessionsAreConfirmed`, `GrantsBounded`, `CalmLinkWorksOnce`, `CodesNeedStarts` | under any overlap: sessions for confirmed addresses only, no more sessions of a code than requests at a time, Telegram codes only for those who asked; without overlap and failures: one session per code, and no link fails that was not used or too old |
| `MCAccounts` (module `AccountSystem`) | 2 cards, 2 columns with 2 values, up to 2 completed bookings, 1 window and other clients, 2 requests | `TypeOK`, `CalmCards`, `ScoreAddsUp`, `SavesWhatWasTyped`, `ScoreCatchesUp` | under any overlap: numbers of a score that add up, saves that undo nothing, a score that the job brings up to date; without overlap and failures: one default card, which the page shows unless another client changed it |
| `MCPages` | 2 listings, 2 sets of dates, 2 months, 2 days, 2 photos, 2 words, 3 requests | `TypeOK`, `ViewsAreCurrent`, `ButtonsMeanWhatIsShown`, `PhotosArrive` | answers in any order, cleanups, new tokens: a page of a listing shows the listing of its address; the other pages do when requests came one after the other; a retry or a forced unblocking is of what is shown, unless that was changed while waiting; a new listing is shown with its photos |
| `VioBookingDoubleBooking` | 2 overlapping bookings, 1 handler | `NoDoubleBooking` | violated, see 5 |
| `VioBookingLifecycle` | 1 booking, 2 handlers, cancellation and return | `DocumentedLifeOnly` | violated, see 5 |
| `VioSessionNotRefreshed` | 2 pages | `RefusedTriesRefresh` | violated, see 5 |

### Bounds, and why they are enough

- *Two handlers at a time.* A read that is stale at its write needs one handler to
  hold the read and one to change the row. Further handlers run before or after, as
  processes are reused without limit. The safety results of the booking runs are
  also proved for any number.
- *Bookings.* Each pairs with another in `Clash`; three give a chain of two that
  overlap and one that shares a day and no instant, where the half-open interval
  and the day projection part. Two instants per day are the least that tell them
  apart. `MCBookings` keeps one booking, as bookings meet only in the calendar.
- *Two cards* give a booking two holds, the least that tells a row's hold from
  another hold of the booking.
- *Names of holds.* `MCBookings` has a name for each key, so that two holds of the booking can be
  told apart; `MCBookingPayments` one name for all, the worst collision there is.
- `MaxGatewayFailures` bounds the recorded failures of one booking after which
  a settlement no longer fails: 5 exceeds the schedule of three retries by two, so that
  in the liveness run the schedule ends before the bound acts; 2 is enough for a
  repeated settlement in the safety runs; 0 where settlement is not offered.
- *Calendar.* Three days have blocks with a left piece, a right piece and both, and
  adjacent, overlapping and covering rows; the booking lies in the middle. `RowId`
  is reused once nobody remembers an id, so three ids do not end the behaviour.
- *Listings.* One title is objected to with any description and one with one of the
  two: the least that tells a moderated pair from a pair of moderated parts. Two
  photos are allowed, so that one may be added, the last one deleted and the limit
  passed; three ids and places leave room for the one too many. `Workload` lists the
  sets of requests that meet in one behaviour, `Created` the texts that listings begin
  with, one of them refused; requests of different sets share no more than the
  row, the photos or the cache, each of which is in several sets. Two requests at a
  time are the least that overlap, and for the safety results there are proofs.
- *Sessions.* `Token` (3) lets a session be followed by two issues, those of two
  racing refreshes or of a refresh and a login. `MaxRedisChanges`, `MaxLoads`,
  `MaxLogins` are 1 each; one of two pages sends requests besides the one of its load
  (`Sender`), the other joins by loading, logging in and out. `VioSessionNotRefreshed` has
  both pages send.
- *Sign-in.* Three credentials let a letter be sent again and confirmed, or an attempt
  start, be confirmed and exchanged; the second Telegram account is the one that the link of
  another may be taken to. `MaxStarts` bounds how often `/start` is sent, 2 being enough to
  press again. `Workload` keeps the ways to sign in apart, which share the users only, and
  adds to each one thing that goes wrong, once. When the credentials are used up,
  requests for another one wait.
- *Account.* Two cards are the least of which one can be the default in place of the other;
  a second column shows what a save leaves alone. Two completed bookings make every kind of
  score (none late, some, all). `Workload` again: cards, profile, and score with verification
  or with bookings, as they share no rows. The other windows of the user are the clients
  without a window ("api"), whose requests nobody shows.
- *Pages.* Three requests are two answers that overtake each other and one more;
  `MaxRequests` is 2 for the page of a listing that is edited, whose state is the
  largest, and it is left only when no request of an earlier visit is under way
  (`LeaveWizard`). Two of each thing are the least that can be mixed up. `MaxPhotos` 2 is
  reached. A behaviour is about one page (`Path`), as pages share no state.
- Deadlock is checked in the calendar run, where a request can always be made. In
  the others the system may rest: a booking at the end of its life, or all tokens
  used.

### Fairness

`FairSpec` has weak fairness of `Continue(p)`: a running Node process gets to its
next await as long as database and gateway answer, whether with success or
failure, and no process waits for another. It has strong fairness of `JobTakesUp`
for each booking: cron starts a tick every minute, every tick lists the rows that
satisfy its query, and works on each of them; in the model a row may be listable
only while no process is free, again and again, hence strong. The batch of 50 rows
of a tick (`bookings-return-auto-confirm.job.ts:67,167`) is left out, which assumes that no more
than 50 rows are due for ever; rows that are passed over for want of a card count among them. That
cards are there is not assumed of the environment but stated in the property:
`ExpiredReturnCompletes` is about bookings whose parties both have a card from some time on
(`<>[]BothHaveCards`), and the run lets users attach and remove cards at any time.
The booking liveness run has no crashes: with one, `PendingIsAnswered` is false, which is
a departure listed in section 5. Retries end because the schedule is finite:
the gateway is not assumed to recover.

`ListingSystem!FairSpec` assumes only that the time to live of a cached answer ends
(`searchCacheTtlSeconds` is passed to every write of the cache). Requests need no
fairness for `DeletedLeavesResults`: one that stops stores nothing.

`AccountSystem!FairSpec` has weak fairness of the requests and of the page's answers, for the
same reason as the bookings, and strong fairness of the start of the daily job
(`trust-score/trust-score-recalculate.job.ts`), which comes again and again, while the process it
would use may be busy in between. `ScoreCatchesUp` says that then the score either equals
what bookings and verification say from some time on, or these never stop changing.
`MCSignIn` and `MCPages` check safety only: nothing in the pages or the bot repeats what
was lost, so there is nothing they promise to happen.

## 4. The proofs

`tlapm` checks eight modules. The theorems hold for any finite or infinite sets of bookings,
cards, handlers, requests, windows, credentials and tokens (finite where photos, requests or
cards are counted), any terms, any findings of the rules and any choice of offered operations;
they assume only the named `ASSUME`s of the modules, which TLC evaluates too. (`SystemAssumption`
includes that a booking that is there at the start, `PaidAtStart`, costs something: nothing
else in the code leaves a booking with a hold of nothing.) They are all about `Spec`: crashes,
failures and any overlap of handlers included. The pattern is the same in each: `IInv` holds
initially, every action keeps it, and it implies the property.

**`BookingSystemProofs`.** `IInv == TypeOK /\ PresenceInv /\ HoldInv /\ ReturnInv /\ ChargeInv`.

- `PresenceInv`: no handler works on a row that does not exist. Without it a late
  write could bring a row into being that was never checked for overlap.
- `HoldInv`: not only rows but handlers on their way carry holds of their own
  booking; a confirmed row names one. `ConfirmedHasOwnHold` alone is not
  inductive, as `RecordHold` writes what the process remembers.
- `ReturnInv`: the confirmations that entitle to settle stay set once a handler
  has begun to settle; a handler about to write a confirmation has marks that
  the row covers. Confirmation columns are never reset, which is what the step proofs
  come down to.
- `ChargeInv`: a handler past a charge has that charge among the operations. Its part `KeysFit`
  is about the keys: each operation was done under the key that `CaptureKey`, `ReleaseKey` or
  `CancelReleaseKey` builds for it (`KeyOf`), and no key twice. That `KeyOf` is injective
  (`KeyOfInjective`) is a fact about the prefixes and ids the handlers use; with it the provider's
  rule for keys gives one capture, one release and one cancellation for each booking, although
  attempts may name different holds.

Theorems: `TypeCorrect`, `ConfirmedHold`, `OwnHoldCharged`, `ChargedOnce`,
`CaptureAfterReturn`, `SettledIsCharged`, and `ClashesAreRevivals`, the action
property, which needs only that `CreateBooking` is the only step that makes an
absent booking block.

**`BookingLifecycleProofs`.** What is true of a row however handlers overlap on it. It rests on
`IInv` and two invariants more (`DecisionsKept`).

- `LifeInv`: what a handler has seen admits what it is about to write: who is about to write
  CONFIRMED or PAYMENT_FAILED has seen an unpaid row, who is about to cancel has not seen a completed
  one, who settles has seen PENDING. It says nothing of the row as it is, so no write of another
  handler can break it; and three statuses of the enum are never reached.
- `HeldInv`: a hold is never of nothing; a cancellation that read a hold and is about to write
  CANCELLED has used the key of cancellations, or finds it used.

`LifecycleKept` is the refinement. A step of a handler is an `Act` of `BookingLifecycle`: it writes
its own row only (`ContinueMoves`), along an arrow of the diagrams unless what it has seen is no
longer so (`RowMoves`, for each of the rows that are written), and what it has seen afterwards is
the row as it is, or what it had seen before (`ContinueLooks`). The forced cancellation reads and
writes in one statement and is `Cancel`; a crash lets go of a view.

`LostHolds`: only two writes change the hold that a row names (`StepWritesHold`), and a
cancellation that has seen the hold, with its key used by no other, has released it
(`CancellationAccounts`). `ForcedCancelByDays` is arithmetic: the projection of a booking meets a
range of days exactly when one of its instants divides into it (`OccupiesProjection`), from facts
on `\div` by a number that is not given (`DivBounds`, `DivMonotone`).

Theorems: `DecisionsKept`, `LifecycleKept`, `LostHolds`, `ForcedCancelByDays`.

**`ListingCalendarProofs`.** `IInv == TypeOK /\ RowsInv /\ MergedInv /\ UndisturbedInv`.

- `RowsInv`: an id always stands for the same row, also for a request that read it
  before. Deleting by id therefore deletes what was read or nothing.
- `MergedInv`: the row about to be committed is new to everybody and covers every
  row it replaces. This is why merging frees no day, even when the rows it deletes
  have been replaced meanwhile.
- `UndisturbedInv`: what a request has read is still true as long as nobody came in
  between.

Theorems: `CalendarTypeCorrect`, `BlocksAreKept`, `UndisturbedUnblock`,
`UndisturbedBlock`.

**`SessionSystemProofs`.** `IInv == TypeOK /\ FrameInv /\ NewInv /\ LogoutInv /\ LoggedOutIsOver /\ HeldInv`.

- `FrameInv`: a request works for what it came for; a refresh nobody waits for is
  recorded as orphaned.
- `NewInv`: a token on its way to a client is known to nobody else, so no other
  request can remove it.
- `LogoutInv`: a token being logged out is no longer in the storage, and its session
  goes before its row.
- `HeldInv`: the stored token is accepted or a request that will answer a page is
  replacing it; `HeldIsAccepted` follows when no request works on it.

`SharedInv` is an invariant of its own: while a page's refresh is running, exactly one request
of the backend is working for it, and else none is and nobody on the page waits. It is stated with
"a request and no other" and not with a cardinality, from which `OneRefresh` then follows
for any set of processes.

Theorems: `SessionTypeCorrect`, `LogoutIsFinal`, `HeldTokenIsAccepted`, `RefreshIsShared`.

**`ListingSystemProofs`.** `IInv == TypeOK /\ FrameInv /\ PartsAreClean /\ HiddenInv /\ PhotosBounded`.

- `FrameInv`: a request that is about to write a text carries one.
- `PartsAreClean` is kept by an update because each part it writes comes from a text
  that was allowed, and each part it leaves was clean before; the pair need not be.
  `DecisionIsClean` is the fact about `fuseModeration` it rests on: whatever the model
  says, "allow" implies that the rules found nothing.
- `HiddenInv`: as long as there is only a draft, nobody is about to write a document or
  has found one, as only published rows are indexed and none becomes a draft again.
- `PhotosBounded` counts photos together with the uploads that have passed the check;
  a new photo moves from the second to the first.

`CalmIInv == IInv /\ CalmInv /\ CalmTextIsClean` is for one request after the other. What
an update had moderated is `next`, what it leaves is `UpdatedText(listing.text, parts)`:
`CalmInv` says that the two are still equal when it writes, as it is alone (at most one
handler is at work, `HandlerMoves`) and nothing else writes the row meanwhile.

`StageInv` does the same for photos, index and cache, by the step at which the lone request
stands. `PhotoStage`: where there is no primary photo at the moment, and which request is about
to make one; that the last photo of a published listing is not the one being deleted.
`IndexStage`: only a request that is yet to index or unindex finds the document behind the row,
and only one that is yet to invalidate finds old answers in the cache. At rest neither is left, which is
`CalmPhotos` and `CalmIndexFollows`. Both parts are one invariant, as the next step of a
deletion or an upload depends on what it read of the status (`active`) and of the photo.

Theorems: `ListingTypeCorrect`, `SavedPartsAreClean`, `CalmTextStaysClean`,
`DraftsStayHidden`, `PhotosStayBounded`, `CalmPhotosHold`, `CalmIndexHolds`, and
`PhaseNeverMatters`, which is about the decision alone.

**`SignInSystemProofs`.** `IInv == TypeOK /\ FrameInv /\ ConfirmedInv /\ GrantInv /\ CodeInv`.

- `FrameInv`: a request is at a step of its own kind and works on a credential that was
  issued; an unissued one is as it was created. This is what makes a new credential new.
- `ConfirmedInv`: not only sessions but every request on its way to one, and every code that
  leads to one, belongs to a Telegram account or a confirmed address; an address is active
  exactly when it is confirmed. `SessionsAreConfirmed` alone is not inductive, as
  `ExchangeTelegramLogin` goes by the user that the code names.
- `GrantInv`: the sessions a credential has given and the requests that have found it
  good are together no more than there are requests; an unused one has given none.
  After it is marked used no request joins, which is what bounds the sum.
- `CodeInv`: an attempt that was opened in Telegram is in the Map, or being confirmed, or has
  its code; each way from one to the next keeps the sum, so codes are no more than starts.

Both counting arguments are about cardinalities of subsets of the requests and are made with
lemmas on what one step adds to them or takes from them.

`LinkWorksOnce` needs two invariants more. `WindowInv`, which holds however requests overlap:
a window waits for its own link only, and for one answer at a time, so that an answer is about
the key the window has. `CalmInv`, when no two requests were at work together and none failed:
the one at work finds its credential unused, and a credential is marked as used only if it has
given its one session or is about to; an error that is on its way or is shown is about a
link that is `Spent`. Answers still on their way may overlap with a request: what they say
stays true, as a spent link stays spent.

Theorems: `SignInTypeCorrect`, `SessionsConfirmed`, `GrantsStayBounded`, `CodesAreAskedFor`,
`LinkWorksOnce`.

**`AccountSystemProofs`.** `IInv` is `TypeOK`, `ScoreAddsUp` and two facts on what is on its way: a
callback that is about to write has an outcome, and the body of a save, like the
difference between a form and the profile it was opened on, is within the columns that
were typed in. The first lemma is the arithmetic of the formula: half of the deals that were not
late, rounded, is within 0..50 for any number of deals (`HalfAtMost`), and the limit that
`Math.min` puts on the late ones is what makes the numbers add up when the second query
saw more than the first (`CalculatedAddsUp`).

`CalmInv` is for `CalmCards`. `Stage` says what a lone request has read, which stays true until
its transaction commits: the card it attaches has no row or a removed one, the defaults it
clears are all there are, the card it removes is the default one exactly if it was when it was
read, and the one it promotes is attached. `UpToDate` relates a window to the tables: it
tells what there is, unless a change was made whose answer it waits for, and then what it will
show once that answer has been applied (`ShownAfter`) is what there is. That the page may work
out the list for itself, with `map` and `filter` on what it shows, is the content of `ToldOfDefault`,
`ToldOfCard` and `ToldOfRemoval`.

Theorems: `AccountTypeCorrect`, `ScoreAlwaysAddsUp`, `CardsAreRight`, and `SavesStayTyped`, an
action property, for which one lemma shows that only `WriteUser` changes the profile.

**`PagesSystemProofs`.** A behaviour is about one page, so `IInv` is `TypeOK`, the invariant of
that page, and that the others have never been opened. The invariant of a page is defined at
the end of its module, in two parts: what holds however answers are delayed, and what holds as
long as no two requests overlapped and none failed (`calm`). `TypeOK` says what the
requests of the page are about and what their answers bring, which differs from page to page.

- `ListingInv`: a request that is `live` and is for the listing asks for the one of the address; this
  is what the cleanup of the effect is for. A booking that is being made, and one whose
  payment failed, is for the listing and the dates of the window as long as nobody changed
  the window meanwhile (`changed`).
- `CalendarInv`: one action is pending at a time and is for the selected range, unless a day was
  clicked since; so a warning is for that range too. `MonthInv`: one month at most is on its way,
  the one in the title, else the days are those of that month.
- `DealInv`: an accepted request brings a status there is. `StatusInv`: one request at most reads
  or changes the booking; its answer, or else the page, has the status that the backend has.
- `WizardInv`: a submission that goes on has put on the new listing every photo that it
  is done with, and nobody deletes a photo from a listing that is still being submitted: the
  page that deletes edits a listing, and a page that submits has none yet. `PhotosInv`
  compares the photos in the backend with what the form will show once the one answer under
  way has been applied (`PhotosAfter`).
- `CatalogInv`, `CategoryInv`: the search that is on its way, or else the catalog, is for the
  category that is marked.

The requests are reasoned about once (`BeginIs`, `AskIs`, `AskAnewIs`, `ReturnRests`,
`AbandonLeaves`): who asks changes one request, a cleanup changes only whether
requests are live, and leaving drops them or lets them go on. `FitsKept` is the fact about the
form that every step comes back to: a request that fits goes on to fit as long as no listing goes
and no photo goes from one it is submitting. `SubmissionsArrive` needs no more than `WizardInv` before
the step: `WhoClosesIt` finds the three steps that close the page and leave this request idle.
Two assumptions are about `Nothing`, which stands for null: it is neither a listing nor a pair that
the catalog is searched for.

Theorems: `PagesTypeCorrect`, `ViewsStayCurrent`, `ButtonsKeepTheirMeaning`, and
`SubmissionsArrive`, an action property.

**How the invariants were found.** Each was first an `INVARIANT` of a run on the instances of
section 3, and the calm ones also with two windows or two keys more, as far as TLC got in a few
minutes.
Only then was it proved.

**Only model-checked.** The five liveness properties (`ExpiredReturnCompletes`,
`PendingIsAnswered`, `RetriesEnd`, `DeletedLeavesResults`, `ScoreCatchesUp`), as fairness and
ENABLED are outside this prover. Every invariant and every action
property of section 3 is also a theorem.

## 5. Where code and documentation differ

Each of these is a run whose counterexample TLC finds.

1. *A retried payment can double-book* (`bookings-workflow.service.ts:295`). A booking
   in PAYMENT_FAILED has let go of its dates; `retryPayment` confirms it without
   looking at them. `docs/sequence/UC-13.md:20-22` refuses taken dates.
2. *A booking off its diagram* (`bookings-workflow.service.ts:397`). A cancellation and the
   return of a booking overlap; both updates go by the id, so the later one makes CANCELLED of
   COMPLETED or COMPLETED of CANCELLED. `docs/state/Booking.md:3-4` gives its diagrams as the
   implemented transitions, and `:29` ends the life of a completed booking.
3. *A page that stops refreshing* (`frontend/lib/apiClient.ts:148`). With nothing
   stored, the refresh returns before the `try` whose `finally` clears
   `refreshInFlight`, and the settled promise stays. `docs/redis-plan.md:291` has the
   user stay signed in.

Other departures met while modelling. They are visible in the modules; they have no run
because no text states the contrary as plainly, or because a run above shows the
same cause.

- Two simultaneous confirmations of a return each read the other as missing
  (`bookings-workflow.service.ts:532`); both columns are set and the booking stays CONFIRMED,
  where `docs/sequence/UC-15.md:23-24` completes it. A further confirmation, by either, does.
- After a crash between completion by the job and settlement
  (`bookings-return-auto-confirm.job.ts:133`), the job's retries list only FAILED settlements
  and `confirmReturn` refuses a booking that the job completed: it stays PENDING.
- Other ways off the diagrams of `docs/state/Booking.md`: a cancellation while the hold is being
  authorised is overwritten with CONFIRMED (`bookings-workflow.service.ts:188`); a notification
  that fails after CONFIRMED was recorded leads to PAYMENT_FAILED (`:226`); a slow failing
  settlement, or one that fails after SETTLED was recorded, writes FAILED over it
  (`bookings-settlement.service.ts:118`). `KeepsLifecycle` says that there are none but
  writes of a handler that goes by a state which the row no longer has.
- A forced cancellation by the calendar changes only the status: the hold stays named
  and is never released. `LostHoldsAreExplained` counts a hold that its row names as known.
- The three cases of `LostHoldsAreExplained`: two payments of one booking are recorded one over the
  other, or a payment over a hold; the record of a hold fails, and the catch leaves the hold where it
  is; a cancellation that read no hold, or another one, ends after the hold was recorded. In addition
  the one key of cancellations (`bookings-workflow.service.ts:392`) is used up when a cancelled
  booking comes back with another hold and is cancelled again.
- When a cancellation overlaps a settlement, the hold is released in full and captured, under two
  keys that the provider does not compare.
- Two holds of different bookings can have one name (`payment-hold-gateway.stub.ts:59-67`). Nothing
  in the model or in the stub goes wrong from it; a provider that kept accounts by name would
  draw on the wrong hold.
- A return that the job would complete waits for ever when one of the parties has no card
  (`bookings-return-auto-confirm.job.ts:73-91`), where `docs/state/Booking.md:20` completes it
  ("авто по cron"); and 50 of them keep those behind them waiting.
- `createBooking` does not look at manual blocks; `docs/state/Booking.md:55` counts
  them as taken days.
- Two concurrent blocks can together leave no free day, although each checks
  (comment at `calendar/calendar.service.ts:386-389`), and a booking made after a block looked at
  the bookings ends up on blocked days; `UndisturbedBlockIsAllowed` says when the checks are good.
- A lift deletes the rows it has read: days that another request merged into a new row meanwhile
  stay blocked (`calendar/calendar.service.ts:279`; `UndisturbedUnblockFrees`).
- Two updates that overlap, one of the title and one of the description, save a pair that
  nobody moderated (`CalmTextIsClean` is for one request after the other).
- Two deletions of photos that overlap, or one that overlaps the publication, leave a
  published listing without a photo, which the message at
  `listings/listings.service.ts:502` excludes (`CalmPhotos`).
- An indexing that overlaps the deletion of its listing leaves a document that nothing
  removes: search results drop it, but count it, and autocomplete goes on suggesting its
  title (`DeletedLeavesResults` is about results only).
- `docs/moderation-draft-ai.md` has texts with a warning saved and `HARD_BLOCK_ENABLED=false`
  turn blocks into accepted warnings; `listings/listings.service.ts:630-646` refuses
  both, as `docs/state/Listing.md` says. It also calls publication stricter: the phase
  decides between two refusals only (`PhaseNeverMatters`). A block by the
  model with high confidence is overruled when the rules found nothing, one with low
  confidence is not (`OverBlocks`).
- Bookings go with their listing (`onDelete: Cascade`): one that was made after
  `deleteListing` counted is gone with its hold at the gateway, and so is a completed
  one whose settlement is still to come.
- Rotation ends the old token in one store only, so a switch of the store accepts old
  tokens or refuses new ones (`docs/redis-plan.md:163` speaks of protection from
  reuse); two simultaneous refreshes of one token both get a successor.

In the sign-in:

- Two overlapping uses of one link or code both get sessions, although a used one is refused
  ("Invalid or used exchange code", `auth/auth.service.ts:449`). `GrantsBounded` says how far
  this goes.
- `docs/sequence/UC-01.md:31-34` and `docs/class/ClassLogic.md:24` have the bot call
  `POST /telegram/verify`; it calls `/telegram/login/confirm` only, and nothing in the
  repository calls `/telegram/verify`, `/telegram/auth` or `requestTelegramLinkCode`.
- A second unused link code moves an account to another Telegram account, although the
  message at `auth/auth.service.ts:243` speaks of an account that is linked already.
- `TelegramCallbackPage` makes an AbortSignal and does not pass it on: who leaves the page
  before the answer is signed in all the same.

In the account:

- "First card becomes default automatically" (`payment-methods.service.ts:66`): the page always
  sends `setAsDefault` (`frontend/payments/paymentMethodsApi.ts:33`), and `??` keeps its `false`.
- Two changes of the default, or two first cards, that overlap leave two default cards. When
  the default one is removed, the page does not show the one that was promoted until it
  loads the list again.
- "The callback is still authorized by JWT" (`verification.controller.ts:93`): it has no
  guard. `docs/state/Verification.md` leads from VERIFIED to PENDING by a new attempt, which
  the code refuses, unless the attempt read the row before a callback wrote it
  (`verification.service.ts:24`); an escalation does take VERIFIED back, and does not
  recalculate the score (`ScoreCatchesUp` is about the job doing so). VERIFIED does not expire.
- `ProfilePage.tsx:726` says that the index counts the history of returns only; the formula
  adds points for a verification and for being registered.
- A refresh of the profile while its form is open replaces what was typed
  (`ProfilePage.tsx:86`); it is this that keeps `SavesWhatWasTyped` true.

In the pages:

- `ManageCalendarPage.tsx:151,199`: months that are changed quickly show the days of
  whichever answer came last, and days it does not name as available. A warning that
  arrives after another range was selected offers to unblock that range by force (`:275`).
- `ListingDetailsPage.tsx:697-700` says that the dates are fixed for the booking whose hold was
  refused; if the window was edited, or closed and opened, while it was being made, the
  retry is of other dates than those shown. Dates that are edited after the sum was shown are
  booked without a new sum. A booking that succeeds after its page was left still navigates.
- `CreateItemPage.tsx:405` says that chosen photos will be saved; one that is chosen while
  `createListing` is under way is not, and one that is removed then is uploaded. After a
  failed upload a second submission makes a second draft.
- `HomePage.tsx:208` searches with the words from before the suggestion was chosen; late
  suggestions open the list for old words.
- `BookingDetailPage` offers to repeat the settlement of a booking that the job completed, which
  `confirmReturn` refuses.

## 6. Abstractions

- Guards on the user and the listing refuse a request and change nothing; a
  refused request is one that is not made. Guards on the booking and on cards are kept. Which
  of the renter's cards pays is an input; that the user has one is asked of `cardholders`.
- A call to the database, the gateway or the notifications that fails inside a try leads to its
  catch; one that fails outside ends the handler, which is `Crash` (in the liveness run there is
  none). Notifications are log lines and do nothing else.
- Amounts are left out; which hold an operation draws on, and whether rent and
  deposit are positive, are kept.
- A deadline or a retry date that is set may have passed at any moment, and an
  access token may have run out whenever it is used. There is no clock.
- `settlementLastAttemptAt` is written and read by nothing.
- The gateway is the stub of the repository, with a memory that survives a crash,
  as a provider's does. It keeps no balance of a hold, and neither does the stub.
- Calendar: reasons of blocks and the passing of days are left out; bookings come and
  go freely, as the calendar does not control them. `getCalendar` and
  `checkRangeAvailability` only read.
- Listings: prices, places and categories, refusals on the user or the file, and the
  bookings in the way of a deletion are left out. Every query matches the listing
  whatever its text, the owner's own searches (which leave it out) are not made, and an
  answer has one page. `delByPattern` empties each of its two patterns at once; when
  Redis is away it does nothing, which is a `Fail` there. The rows of the demonstration
  catalogue (`ensureDefaultCatalogSeeded`), published without photos or moderation, are
  not among the listings of the model. How the rules score a text is given (`Found`).
- Sign-in: passwords, formats and the throttling of requests are left out; a user is what
  the row was created with, and sessions themselves are those of `SessionSystem`. Time is the
  expiry of one credential. The bot calls the backend by one request that is answered or not.
- Account: each account is on its own. What the score reads of the bookings is two numbers,
  which change as bookings are completed, settled late or deleted; the provider is any
  sequence of callbacks for the one row. Validation of columns, the avatar and the check of a
  card number are left out.
- Pages: prices, texts, validation and layout are left out; what a request carries is what
  tells answers apart (an address, a range, a month, words). The backend answers any of
  the documented outcomes, where the page does not depend on more.
- Sessions: refresh tokens do not expire; an outage of Redis keeps its data; users are
  never deactivated, which no code does; a page offers login when it is not
  signed in, one at a time. A request is posted when a backend process is free.

## 7. What is not modelled, and why

The read side of the bookings (lists, mapping, prices, summaries) and public profiles change
no state and are arithmetic that unit tests reach. Geocoding, e-mail, photo storage and
notifications are input and output towards services that are not in the repository;
configuration and start-up is wiring. How the rules of the moderation score a text is string
matching with no state. Of the web client the layout, the validation of input and the pages
that only show a list are left out. Hazards that no property covers are listed in
`PROJECT.json` with a note.

## 8. The plan

Written so far, in this order: the bookings (gateway, table, workflow, settlement,
job, system, life cycle), the calendar, the sessions, the listings (moderation, table,
service, search, system), the sign-in (service, bot, pages, system), the account (table, cards,
verification, score, profile, page, system), the pages. What is left:

1. The deletion of a listing composed with its bookings: what a cascade takes along.
2. The sign-in composed with the sessions: a second sign-in of a browser that has a session.
3. A provider that keeps a balance of each hold, to say how far a release and a capture that overlap
   can draw on it together.

Theorems to add: safety facts behind the liveness properties, as that a retry is always listed
again while the schedule lasts; and the theorems of the two compositions above.
