# Colonize: a verification project

TLA+ models of the backend of Colonize (`src/backend/src`), the multi-tenant
society management platform: the configurations that model-check them with TLC,
and theorems about them checked by TLAPS. The models are translated from the
code; comments and docs of the repository are used as claims to check, never as
the source of a definition. `PROJECT.json` maps every definition that models
code to the lines it stands for.

File names below are relative to `src/backend/src`. Short names: PS
`modules/finance/paymentsService.ts`, BS `modules/finance/billingService.ts`, AS
`modules/finance/accountingService.ts`, FR `modules/finance/financeRouter.ts`, VS
`modules/visitors/visitorsService.ts`, AM `modules/amenities/amenityService.ts`,
QR `services/qr.ts`, SC `jobs/scheduler.ts`, AU `modules/auth/authService.ts`, OT
`modules/auth/otpService.ts`, HD `modules/helpdesk/helpdeskService.ts`, RS
`modules/residents/residentsService.ts`, SO `modules/societies/societiesService.ts`,
SR `modules/societies/societiesRouter.ts`, DI `services/identityDirectory.ts`, CA
`services/cache.ts`.

## 1. The system

An Express API over one MongoDB database per society and one of the platform (an
embedded JSON store replaces them in development and tests), a scheduler in the
API process, a small in-memory job queue, and two React clients. There are no
locks: what isolates requests is the event loop between two awaits, conditional
updates, unique indexes, and (nominally) `withTransaction`. Several replicas of
the API may serve one database.

| Component | State it keeps | Operations | What makes it correct |
|---|---|---|---|
| Payments and refunds (PS) | payments, the bill's paid/due/status, unit outstanding, journal and ledger, provider orders | intent, offline collection, verify, webhook, apply, refund | money taken once and booked once; a settled bill owes nothing; credit only against a capture; books and dues agree |
| Billing (BS) | bills, unit outstanding | bulk run, preview, manual bill, send, dispute, waive, late fee | a run leaves nobody out; outstanding is the sum of what the bills have due |
| Accounting (AS, FR) | ledger balances, journal entries, expenses, incomes | post, reverse, record, edit and pay an expense, rebuild, reports | balances are what the journal says; a settled expense stays settled; a repair repairs |
| Visitors and passes (VS, QR) | visits, passes, entry log, gate counters | pre-approve, capture, decide, scan, check in/out, cancel, revoke, expire | a pass admits within its allowance; nobody enters without approval; decisions survive sweeps |
| Amenities (AM) | amenities, bookings, their passes | book, approve, pay, cancel, scan, sweeps | a confirmed booking is paid; a booking is checked in as its passes say; an unpaid hold ends |
| Scheduler (SC) | scheduler_runs, timers | claim a day, run it, record it, periodic sweeps | once a day and society; the row tells what was done |
| Signing in (AU, OT) | codes, account, sessions, refresh tokens, reset links | request/verify code, password, select society, refresh, log out, change, reset | the device cap; a traded token is dead; ending all sessions ends all |
| Helpdesk (HD) | complaints, work orders, vendor records | raise, assign, progress, verify, reopen, close, set status, SLA sweep, recount | complaint and current order agree; escalated once; a recount repairs |
| Residents and structure (RS) | residents, family, links, accounts, directory rows, counters, parking | register, import, add family, transfer, move out, allot and release slots, rebuild | counters equal what they count; a login lives as long as a link |
| Societies (SO, SR, DI, CA) | societies, databases, plans and their mirror, administrators, staff logins, directory, cache of statuses | create, provision, set up, activate, suspend, change plan, invite, rebuild | requests are judged by the status and the plan the society has; the directory names who may sign in |
| Job queue | queue, counters | enqueue, tick, retry, stop | each job run or retried up to its limit; shutdown drains |
| Embedded store | collections in memory, files | CRUD, snapshots, flush | what is flushed is what is loaded |

Interactions: PS calls accounting (`postReceipt`), AM
(`confirmBookingAfterPayment`) and BS state; VS and AM call QR for passes; SC calls
the sweeps of BS, AM, QR; RS, HD, AU and SO write the accounts of a society and the
login directory all societies share; every request goes through the cache of
societies; everything calls notifications and audit, which decide nothing. The
hard behaviours are interleavings at awaits (a document is read, a decision made,
and the document written without a condition), requests that die between two of
several writes, late or repeated webhooks and device retries, sweeps that
overtake people, and replicas ticking together. Every one, at its line, is in
`PROJECT.json` under `hazards`, with the properties that cover it or the reason
none does.

## 2. Modules

| Module | Models | Extends / instantiates |
|---|---|---|
| `SettleOnce` | abstract: money taken once, then booked once, per payment | |
| `Payments` | one bill: PS, and waiver, late fee, dispute, sending of BS | `SettleOnce` (refinement) |
| `Billing` | the bills of some units over some months: BS | |
| `Books` | ledgers, journal, expenses: AS, FR | |
| `Turnstile` | abstract: what a QR pass promises | |
| `Visits` | one visit and its passes: VS, QR | `Turnstile` (refinement) |
| `Bookings` | one slot of one amenity: AM, with the pass calls of QR and the booking branch of PS | |
| `DailyRun` | the daily claim of SC over replicas and days | |
| `SignIn` | the one account of a person: AU, OT | |
| `Helpdesk` | complaints, their orders and vendors: HD | |
| `Residency` | people, flats and parking slots of one society: RS, the counters of `modules/structure/structureService.ts`, DI as far as the society writes it | |
| `Societies` | societies, their databases, plans and administrators, the shared directory and the cache: SO, SR, DI, CA, `db/manager.ts`, `db/seed/seedTenant.ts` | |
| `MC...` | values of constants and symmetry for TLC | the module |
| `FinanceProofs` | theorems about `Books`, `Billing` and `DailyRun` | these three, TLAPS |
| `...Proofs` | theorems: Payments, Visits, Bookings, SignIn, Helpdesk, Residency, Societies | the module, TLAPS |

`FinanceProofs` extends three modules at once, for the sums over finite sets that
`Books` and `Billing` share. Nothing of the three may then have one name, so requests
are `h`, `Handlers`, `Begin`, `At` and `Finish` in `Books` as everywhere else, but `req`,
`Callers`, `Accept`, `Doing` and `Reply` in `Billing`, and `DailyRun` has `dailyVars`,
`DailyInit`, `DailyNext` and `DailySpec`.

### How state and actions correspond to the code

A document is a record, a collection a function from the ids of a small set or a
sequence in order of insertion. A handler is split where it awaits the database
or the provider: each action is the code between two awaits, and `h[i]` holds what
request `i` has in its local variables (the step it is at, ids, and the snapshots
it read). `Begin` starts a request, `Goto` and `Finish` move it, `Abort` is a request
that dies at an await. A conditional update is one step with its filter as guard;
an update without a filter writes whatever the document has become.
`withTransaction` adds nothing when its callback passes no session to the calls
inside it, which is the case in all modelled services: on MongoDB such calls are
not part of the transaction.

**Payments.** `ClaimWon`, `ReadBill`, `WriteBill` ... `StampReceipt` follow the order of
awaits of `applySuccessfulPayment` (PS 340-460); `bill`, `outstanding`, `cash` and
`receipts` are the four places money is recorded. `gateway` is what the provider
has captured and will deliver, in any order, late, or twice. Abstractions: amounts
are whole units, so `round2` and the 0.01 tolerances are the identity; the late
fee is the FIXED kind; `PostReceipt` is one step for the journal entry and the
`$inc` of the ledger; of the three branches of `applySuccessfulPayment` only the
bill's is modelled here.

**Billing.** `Generate`, `Check`, `ReadArrears`, `Create`, `Owe`, `Send...` are the loop of the
bulk run, unit by unit; `CreateRead` starts the manual bill, which shares the later
steps and adds `Accrue`. `Rates` is what a unit pays under each head of charge, so
slabs and rates per square foot are left out. `SettleBill` stands for all of
Payments: a bill is paid in one step.

**Books.** `Post`, `MoveDebit`, `MoveCredit` are `postJournalEntry`: the entry, then one
increment per line. Every posting of the code has two lines. `ReverseRead`,
`Link`, `LinkBack` are the reversal, `PayRead`, `Settle` the payment of an expense,
`EditRead`, `EditWrite` the route that changes one, `RebuildLedgers`, `RebuildEntries`,
`RebuildWrite`, `RebuildEnd` the repair. `Closing`, `Surplus` and `Foots` are the trial
balance, the income statement and the balance sheet.

**Visits.** `visit` and `passes` are the documents, `window[p]` is the comparison of
the clock with the validity of a pass, `recorded` the unique index on the entry
log's request id. `ScanRead`, `ScanCheck`, `Consume`, `MarkUsed` are the awaits of
`scanPass`; `ManualRead`, `ManualPass`, `ManualConsume` the check-in by id; `Enter`
and `SetInside` the entry both end with. Daily limits, night entry, blacklists and
gate counters are left out.

**Bookings.** `BookRead`, `Claim`, `Create` are `bookAmenity`; `IssuePass`,
`LinkPass` issue the QR; `Pay`, `ConfirmRead`, `ConfirmWrite` the booking branch of
the payment and `confirmBookingAfterPayment`; `sweep` is the sweep in progress
with the documents it found. Time is the position of the clock in the window of
the slot, and the set of bookings older than an unpaid hold lasts. The totals of
the amenity, opening hours, the advance window and the slot arithmetic are left
out: all bookings of the model are for the same slot.

**DailyRun.** `Claim` is the upsert of `claimDailyRun` and the comparison after
it; `StoresToken` says whether the driver stores `claimId`. The embedded driver
stores any field; the mongoose schemas are strict and `scheduler_runs` declares
no `claimId`. `Die` is a process that exits or whose update of the row fails.

**SignIn.** Secrets are numbers, the how-manieth of its kind, and to present another is
to be wrong. `ReadAccount`, `Count`, `Oldest`, `Retire`, `Existing`, `Write`, `Stamp` are
`issueSession` with its cap on devices; `Refresh`, `FindSession`, `Rotate` the rotation;
`Verify`, `Consume` a code; `FailRead`, `FailWrite` the lock. `era` counts how often
sessions were ended together. A code may have run out whenever it is looked at.

**Helpdesk.** `Assign`, `CreateOrder`, `AssignWrite`, `CountOrder` are `applyAssignment`;
`Move` and `MoveParent` the progress of an order and what follows of the
complaint; `Verdict...`, `Reopen...`, `Close...`, `SetWrite` the other writers; `Sweep` and
`Escalate` the SLA sweep with the list it read; `RateRead`, `RateWrite` the recount.

**Residency.** Residents and family members share one sequence, told apart by the
parent; `links` are `unit_members`. A registration goes `Lookup`, `SavePerson`,
`FindAccount`, `SaveAccount`, `FindLink`, `SaveLink`, `UnitsOfUser`, `UpsertMembership`,
`Linked`, `CountRead`, `CountWrite`, `StoreCopy`; moving out `Leave`, `LeaveFamily`,
`LeaveLinks`, the slots, `CountRemaining`, `Disable`; a transfer `Shift...`. Parking is
`AssignSlot`, `Park`, `Free`, `FreeCar`, `ReadList`, `WriteList`.

**Societies.** `UniqueSlug`, `Found`, `Provision`, `ResolveEntitlements`, `Seed`,
`Provisioned` create a society; the single flight of `DatabaseManager` is
`provisioning`, and requests that find it taken wait at `join`. `FindEntry`, `PutEntry`
are `upsertMembership`, shared by everybody who writes the directory; `ReadUsers`,
`Clear` the rebuild around it; `Count`, `GoLive`, `Wake` the activation; `SavePlan`,
`SyncMirror` a change of plan; `Visit`, `Load`, `Fill` the cache seen by a request,
`Expire` its time limit. A slug is a name and the number appended to it. `Clash`, one
account of a society per phone number and per email, takes a missing one for no
key, as the embedded store does (`db/drivers/embedded/index.ts` 323); a compound
sparse index of MongoDB would refuse a second account without an email.

Notifications, the audit trail and wording are left out everywhere.

## 3. Runs

Every pass run explores the whole state space of its instance. Deadlock is not
checked in any: the bounds on requests stop every behaviour.

| Run | Question | Instance and bounds |
|---|---|---|
| `PaymentsAll` | do concurrent payments, refunds and bill operations keep bill, unit and books in agreement? | 2 payments (one offline), 2 requests at once, 4 in all, 1 may die, bill of 2, fee 1 |
| `PaymentsOnce` | is money taken and booked once, and eventually booked? | the same, whole refunds, captured and refunded events, `FairSpec` |
| `BillingAll` | is the running amount of a unit what its bills have due, and does a run bill its whole scope? | 2 units, 2 months, 2 heads of charge, 2 requests at once (a run that bills, one without arrears, a preview, manual bills), 1 may die |
| `BooksAll` | do balances follow the journal, does a repair repair, does a settled expense stay settled? | 1 expense, amounts 1 and 2, 2 requests at once, 3 in all, 1 may die |
| `VisitsAll` | do passes, decisions and the entry log agree while scans, entries by hand, cancellation and expiry race? | 2 passes, 2 requests at once, 4 in all, allowances 1 and 2 |
| `BookingsAll` | what does a confirmed booking owe, how often is it checked in, whom do the sweeps overtake, do holds end? | 2 bookings, 2 passes, 2 requests at once, 3 in all, each of the four amenity configurations, `FairSpec` |
| `DailyRunOnce` | is a day swept once, recorded truthfully, and ended? | 3 callers, 2 days, 4 calls, token stored, `FairSpec` |
| `SignInAll` | do the cap, the death of traded tokens and the ending of all sessions survive concurrent logins? | 3 devices, room for 2, 1 try of a code, 1 code an hour, locked after 2 failures, 2 requests at once, 3 in all, 1 may die |
| `HelpdeskAll` | do complaint and order agree, is a complaint escalated once, does a recount repair? | 1 complaint, up to 2 orders, 2 vendors and the office, 2 requests at once, 4 in all, 1 may die |
| `ResidencyAll` | do counters and slot lists follow the moves, and are people let in and shut out? | 2 persons, 2 flats, 1 slot, 1 vehicle, 4 documents of people, 3 requests, the first 2 of which may overlap, 1 may die |
| `SocietiesAll` | are requests judged by the status and the plan of the society, and does a rebuild leave the directory true? | 3 societies (one stands), 2 plans, 1 phone number, 1 email, 2 accounts, 2 requests at once, 3 in all, 1 may die |
| `SocietiesShare` | violated: every society lives in its own database (SO 26) | the same, one name of 48 characters, 2 requests |

Bounds. The hazards need two requests about the same document, one read or write
of the first inside the other; the further ones let one prepare the state (an
intent, a booking, an assignment) that the two race on, or repair what they left.
`MaxRequests` is the length of a behaviour in requests; where `MaxOverlaps` is given,
a request after the first so many begins only when none is in flight, which leaves
room for repairs and retries without all interleavings of them; `MaxAborts` is how
many requests may die, at any await. Two payments, passes, orders or bookings are
what separates "the same one twice" from "two of them"; two months and two days let
one overtake the other. Rates of 0 give units a run skips. The mutants in
`PROJECT.json`, one per property, show that the bounds are enough to see each
property fail. Symmetry is used on interchangeable requests, devices and
documents, in runs without liveness properties only.

### What the properties say

* **Payments.** `SettledOwesNothing`, `UnitAgreesWithBooks`, `PaidIsBacked`: relations
  between documents that seven unsynchronised writers maintain. The first holds
  because each writer that sets PAID or WAIVED computes the status from the same
  snapshot as the amount. `CreditNeedsCapture`, `EntryPerClaim`, `SettlesOnce`
  (refinement of `SettleOnce`), `ClaimIsBooked`: retries and webhooks. `SettlesOnce`
  is stated without partial refunds, bad signatures and declined events: with a
  partial refund the claim's filter lets a payment through again.
* **Billing.** `OutstandingIsDue`: bills are created and units incremented in two
  writes, by runs that cross; the exact error a death leaves is `unadded`. `RunCovers`:
  refusals by the unique index do not make a run skip anybody.
* **Books.** `LedgerExplained`: balance = journal - lines in flight - lines that died,
  until a repair writes. `RebuildRepairs`: a repair with nothing beside it leaves
  balances that agree with the reports and books that foot. `PaidStays`.
* **Visits.** `PassPromise` (refinement of `Turnstile`): used at most as often as issued for
  and never after death, although USED, EXPIRED and REVOKED are written from stale
  reads. `ScansAreCharged`, `AdmittedWasApproved`, `CrossingsInOrder`,
  `ExpiryKeepsDecisions`: entries against passes, decisions, and the sweep.
* **Bookings.** `OwesNothing`: `ConfirmWrite` writes CONFIRMED whatever the booking has
  become; it is still true that nothing unpaid is ever confirmed, closed or given a
  QR. `CheckinsAreCharged`, `SweepsYield`, `HoldReleased`: scans and sweeps.
* **DailyRun.** `AtMostOncePerDay`, `OutcomeIsTrue`, `ClaimEnds`: replicas.
* **SignIn.** `DevicesBounded`: logins side by side exceed the cap by one each and no more.
  `SpentStaysSpent`: a login that takes up a session between the look-up of a refresh
  and its rotation does not revive the traded token. `EndedTogether`: a login between
  its check and its write cannot outlive a reset.
* **Helpdesk.** `InStep`: seven handlers write complaint and order without looking at the
  other, and agree as long as requests come one by one and no superseded order is
  moved (what happens otherwise is under findings). `EscalatedOnce`, `RecountRepairs`.
* **Residency.** `CountersTrue`, `SlotListed`: after any sequence of moves by the book.
  `MovedOutShutOut`, `Registered`: whatever requests that died had left.
* **Societies.** `CacheIsCurrent` and `EntitlementsFollow` name exactly the windows in
  which a request is judged by an old status or plan. `RebuildAgrees`: the repair the
  activation relies on, whatever order the accounts come in and whatever entries
  earlier requests left. It excepts two accounts with one entry, and `Displaced`: an
  account known by an email only, whose entry is taken over in the same rebuild by
  an account with a phone number and another email. `OwnDatabase` does not hold.

Fairness. `Payments`: weak fairness of each request's next step (a promise that
is settled is resumed); nothing is assumed of clients, the provider or staff, and
`ClaimIsBooked` allows for a request that dies. `Bookings`: weak fairness of the
sweeps, which `setInterval` timers start for as long as the process is up; nothing
is assumed of requests. `DailyRun`: weak fairness of a call's own steps; `ClaimEnds`
allows for calls that die. The other modules state no liveness: nothing in them
must happen that no person asks for.

## 4. Findings

Disagreements between comments and code, each quoted in `PROJECT.json`.
`SocietiesShare` is a run; six more are kept as definitions in the modules and can be
seen violated by adding them to a cfg as an INVARIANT or PROPERTY:

| Definition | Claim of the code | Where it fails |
|---|---|---|
| `Payments!RecordedWithEntry` | "all in one transaction" (PS 20-24) | a payment is SUCCESS before it is booked, and five writes follow |
| `Payments!PaidBillRejects` | "a bill already marked PAID rejects a second application" (PS 26-27) | two intents opened before the first is verified are both applied |
| `Payments!OnlyUnpaidSucceeds` | "only an unpaid payment can transition to SUCCESS" (PS 359) | a partly refunded payment passes the filter |
| `Bookings!WithinCapacity` | the place cannot be taken twice (AM 13-16) | overlap query and insert without a session; the embedded driver of the tests never interleaves them. With one handler TLC still finds it violated: a booking checked out early gives its place back, another takes it, and a payment for the first confirms it again (`ConfirmRead` lets COMPLETED through) |
| `DailyRun!ClaimHasWinner` (with `StoresToken = FALSE`) | whoever inserts the row does the work (SC 15-18) | on MongoDB the token is dropped, nobody wins, and late fees and reminders never run; both halves are theorems (section 5) |
| `Billing!OwesWhatWasCharged` | "Carry forward anything still unpaid" (BS 270) | arrears are owed twice, and more each month |

By area, the others:

* **Money.** Bulk bills post no accrual; two reversals of one entry; the loser of two
  payments of an expense has posted; reversed entries are counted once with the
  wrong sign by the reports and the rebuild; the opening balance of a new ledger is
  refused; an edited expense is paid at another amount than was booked.
* **Signing in.** A refresh from the same device ends the session it has just issued; a
  replayed refresh token revokes nothing; a LOCKED account never unlocks by time;
  locking overwrites INACTIVE; two verifications of one code both sign in;
  permissions are cached for 30 seconds.
* **Helpdesk.** STAFF rules assign nobody; a status can be set past the resident's
  verdict; a superseded order moves a closed complaint; re-issued logins keep their
  failed attempts; a recount that crosses an assignment miscounts.
* **Residents.** `POST /residents` stores everybody twice; who comes back stays INACTIVE;
  moving out does not reach the directory or the family's links; slots of the whole
  flat are released; capabilities chosen for a family member are dropped; the
  rebuild empties the units of a directory row.
* **Societies.** A load that crosses an invalidation, directory upserts that cross, one
  person with two entries, invitations that change nothing, administrators left
  PENDING, a status the schema does not list, plans that cross, old subscription
  rows counted as revenue, a given-up email that still names an account, an entry
  that loses to another account the only email it was known by.

## 5. Proofs

TLC shows a property on the instances above; the theorems hold for every value of
the constants. The only assumptions are those named in the modules (`...Assumption`):
that bounds and amounts are natural numbers, that options are drawn from the
sets the code knows, that "none" is nobody's name, and, where something is
counted, that it comes from a finite set (payments and requests in `Payments`, passes
and requests in `Bookings`, guards in `Visits`, requests in `SignIn`, where there is at
least one, and in `Books`; months, of which there is at least one, heads of charge and
requests in `Billing`; societies in `Societies`). `Residency` needs no finite set: what it
counts are documents, of which there are always finitely many. Each strengthened invariant is
listed in the proof module; those that fit an instance were first checked by TLC.

| Theorem | Statement | Argument |
|---|---|---|
| `PaymentsProofs!TypeCorrect` | `Spec => []TypeOK` | inductive as it stands |
| `PaymentsProofs!SettledCorrect` | `[]SettledOwesNothing` | with what a waiver in flight may hold: its snapshot is of a bill neither PAID nor WAIVED, so the amount it subtracts is what was due |
| `PaymentsProofs!CaptureCorrect` | `[]CreditNeedsCapture` | a request at a step that claims, and an event to be delivered, stem from a capture |
| `PaymentsProofs!SettlesOnceCorrect` | `WholePayments => (Spec => SettlesOnce)` | refinement of `SettleOnce`: a payment's receipt is posted by the one request that claimed it (`OnceInv`: posted payments are settled, each claim has one owner, owners are apart) |
| `PaymentsProofs!EntryPerClaimCorrect` | `[]EntryPerClaim` | entries posted plus requests that have claimed a payment and not booked it (`Unbooked`) are at most its claims, and exactly as many while no request died (`Booked`) |
| `PaymentsProofs!UnitAgreesCorrect` | `[]UnitAgreesWithBooks` | what the unit owes, plus what requests in flight are still to add to it (`Missing`), is what the books say, plus what they are still to take off (`Excess`): every step keeps the balance (`Balanced`) |
| `PaymentsProofs!PaidIsBackedCorrect` | `[]PaidIsBacked` | the claims cover what the bill shows as paid and the money still to be added to it, and so they do with what any request has read of the bill and is about to write (`Backs`) |
| `FinanceProofs!TypeCorrect` | `[]TypeOK` | the sums the repair writes are integers |
| `FinanceProofs!LedgerExplainedCorrect` | `[]LedgerExplained` | balance = journal - lines in flight - lines that died: a posting adds to the journal and to the lines in flight, an increment moves a line from the one to the other |
| `FinanceProofs!RebuildRepairsCorrect` | `Spec => RebuildRepairs` | a repair with nothing beside it holds the balances as they are and the closing balances of the trial balance, and each ledger it has not to write has its own already (`Repairs`); that the books foot then is algebra over the sums |
| `FinanceProofs!PaidStaysCorrect` | `Spec => PaidStays` | between its look-up and its write a request that records an expense is the only one that holds the id (`Owned`), so it cannot overwrite a settled row; every other writer is filtered by the status |
| `FinanceProofs!BillingTypeCorrect` | `BillingSpec => []BillingTypeOK` | with what a request knows at each step (`Held`): its month, its unit, and a draft that is to be chased |
| `FinanceProofs!OutstandingIsDueCorrect` | `BillingSpec => []OutstandingIsDue` | a step moves what one bill has due, what one request has yet to add, what was never added or what a unit owes; for each kind of step the two sides move alike, and a sum over bills or requests moves as its one term does. A bill that was never raised, or is paid, has nothing due (`Cleared`) |
| `FinanceProofs!RunCoversCorrect` | `BillingSpec => RunCovers` | every unit of a run's scope is billed, has nothing to be billed, or is still before the run (`Covered`); bills are never taken back; a run with units before it does not come to its end |
| `VisitsProofs!TypeCorrect` | `[]TypeOK` | with what each step of a request may hold |
| `VisitsProofs!PassPromiseCorrect` | `Spec => PassPromise` | refinement of `Turnstile`: a snapshot of a pass has its allowance and no more charges than the pass (`Held`), so a charge that meets the filter is within it |
| `VisitsProofs!ScansAreChargedCorrect` | `[]ScansAreCharged` | scans recorded plus requests that have charged and not recorded (`Charged`, by cardinality) are at most the charges |
| `VisitsProofs!AdmittedWasApprovedCorrect` | `[]AdmittedWasApproved` | steps on the way to the gate, passes given out and admissible statuses all imply an approval |
| `VisitsProofs!CrossingsInOrderCorrect`, `ExpiryKeepsDecisionsCorrect` | `[]CrossingsInOrder`, `ExpiryKeepsDecisions` | a request about to write INSIDE or an exit saw an entry; the sweep's filter is evaluated with its write |
| `BookingsProofs!TypeCorrect` | `[]TypeOK` | from the invariant below; a pass is spent at most once because the update's filter is evaluated with its write |
| `BookingsProofs!OwesNothingCorrect` | `[]OwesNothing` | isPaid never goes back to FALSE; a request about to issue, scan, arrive or leave has a booking that is paid; one about to insert carries a blank record; on a free amenity every inserted booking is paid |
| `BookingsProofs!CheckinsAreChargedCorrect` | `[]CheckinsAreCharged` | check-ins by QR plus the scans that have spent a pass and are still to stamp the booking (`ToStamp`) are at most the passes of the booking that are spent, by cardinality |
| `BookingsProofs!SweepsYieldCorrect` | `Spec => SweepsYield` | a request writes a booking as a user's, so one that turns to the system's is written by a sweep, whose filter is evaluated with the write, not with the list |
| `FinanceProofs!DailyTypeCorrect` | `DailySpec => []DailyTypeOK` | inductive as it stands |
| `FinanceProofs!AtMostOnceCorrect` | `DailySpec => []AtMostOncePerDay` | tokens are apart; the row of a day names at most one call; whoever works on a day is named by its row; a row without a token is of a day not swept. It holds for both values of `StoresToken`: without the token the run happens never, not twice |
| `FinanceProofs!OutcomeCorrect` | `DailySpec => []OutcomeIsTrue` | only a call that went through both jobs is at the step that records COMPLETED |
| `FinanceProofs!WinnerCorrect` | `DailySpec => []ClaimHasWinner`, assuming `StoresToken` | only an insert makes a row RUNNING, and who inserted it reads its own token back; a tick takes up an idle call, so no other step takes the winner off its day before the outcome |
| `FinanceProofs!WithoutTokenNobodyWins` | `DailySpec => []NobodyWins`, assuming `~StoresToken` | a row is inserted without a token, tokens start from 1, so no claim matches its row and no call gets beyond the claim: the finding above, for any number of replicas |
| `SignInProofs!TypeCorrect` | `[]TypeOK` | with what each step may hold |
| `SignInProofs!SpentStaysSpentCorrect` | `[]SpentStaysSpent` | a session carries a token issued for it (`Carried`), and a refresh ends the session its token was issued for (`Tied`), whatever happened since the look-up |
| `SignInProofs!EndedTogetherCorrect` | `[]EndedTogether` | sessions are ended and the era counted in one update; a session written later is of the later era |
| `SignInProofs!DevicesBoundedCorrect` | `[]DevicesBounded` | for every set of logins that wait: if they alone retired what they picked, even the same sessions, what is left has room for them and for those about to open a session (`Fills`, for all subsets, which makes it inductive) |
| `HelpdeskProofs!TypeCorrect` | `[]TypeOK` | with what each step may hold |
| `HelpdeskProofs!EscalatedOnceCorrect` | `[]EscalatedOnce` | every sweep that still holds a complaint read it at level 0 (`Fits`), and writes what it read plus one |
| `HelpdeskProofs!InStepCorrect` | `[]InStep` | per complaint: the order it names is its own (`Linked`) and tells the same story (`Told`), unless a request has written the one and is about to write the other; while requests come one by one what each holds is what the documents say (`Knows`) |
| `HelpdeskProofs!RecountRepairsCorrect` | `Spec => RecountRepairs` | what a recount that is alone is about to write is still the number of the vendor's orders (`Recounted`), since any request that came would have ended its being alone |
| `ResidencyProofs!TypeCorrect` | `[]TypeOK` | with what each step may hold (`Fits`), that a link names a document that is there, and that a resident has one link to a flat |
| `ResidencyProofs!CountersTrueCorrect` | `[]CountersTrue` | around the only request there is (`Orderly`) a flat whose counters differ from its links is one the request still has to count (`Counted`). For a transfer and a move-out that takes `AtHome`: the links of a resident are in the resident's flat, or in the one just left, so no other flat's links change |
| `ResidencyProofs!SlotListedCorrect` | `[]SlotListed` | a slot is on the list of its flat, or is the one a request has allotted and is about to list (`OnList`); the list it writes back is the one that stands (`FreshSlot`) |
| `ResidencyProofs!MovedOutShutOutCorrect` | `Spec => MovedOutShutOut` | what a request that met no other knows of the collections at its step (`Fresh`) stays true until it acts on it, since such a request is the only one (`Solitary`) even if earlier ones died half way: no link of the resident is active (`FreshMove`), and the account of a person without links is not |
| `ResidencyProofs!RegisteredCorrect` | `Spec => Registered` | likewise, step by step: the document (`FreshPerson`), the link (`FreshLink`), the units read and the row (`FreshRow`), each kept by all that comes after; the last step of a registration is its last count or its copy (`Completed`) |
| `SocietiesProofs!CacheIsCurrentCorrect` | `[]CacheIsCurrent` | a load in flight that was not crossed has read the current status, or its writer has yet to invalidate (`LoadsCurrent`); who is about to invalidate holds the society whose status was written; no request writes a society that is being founded (`Founding`) |
| `SocietiesProofs!TypeCorrect` | `[]TypeOK` | from the invariant below; the first free number of a slug exists by the pigeonhole principle, since other societies are fewer than numbers |
| `SocietiesProofs!EntitlementsFollowCorrect` | `[]EntitlementsFollow` | two requests of one society that change plans or seed and meet leave it `muddled`; otherwise what each holds is what the society has (`SeedHolds`, `FlagHolds`, `PlanHolds`, `MirrorHolds`), and the mirror lags only behind a change that is about to write it |
| `SocietiesProofs!RebuildAgreesCorrect` | `Spec => RebuildAgrees` | accounts of a society differ in phone number and email; a write changes only the entry the listed account resolves to (`WrittenIsItsRow`, `WrittenKeepsRow`), so an account once listed stays so unless its entry loses its email; every account is listed or ahead (`Seen`), and nothing else writes while the rebuild is alone |

Proof attempts changed the model twice. Two requests cannot show that a load in
flight when a writer dies, after a third has emptied the cache, fills it with an old
status: the history `crossed` now marks such loads, and `CacheIsCurrent` says "in
flight at the invalidation" of them too. And `RebuildAgrees` once said that every
account is listed as it is, which holds of two accounts in order of creation; of
more, or in another order, a rebuild may give the entry of an account it has just
listed another email. `ReadUsers` now takes the accounts in any order and passes
over those with neither phone number nor email, as the code does, and the exception
is named (`Displaced`).

Induction over data is out of the prover's reach, so the sums of `Books` and `Billing`
are treated by a smallest set on which two sums would differ, those of `Payments` as
cardinalities, the choice of the first document that matches in `Residency` by a
smallest initial segment, and its counters by the sets that are counted: a flat
whose links are the same set with the same kinds has the same counters.

Every invariant and every action property a pass run checks is now a theorem. What
stays with TLC:

* liveness under fairness (`ClaimIsBooked`, `HoldReleased`, `ClaimEnds`), which the
  prover cannot treat;
* that the properties are not empty: each has a mutant of the model in `PROJECT.json`
  that breaks it on the run's instance;
* `OwnDatabase` of `Societies`, which the run `SocietiesShare` shows violated, and the
  claims of section 4, which the code does not keep (but for `ClaimHasWinner`, which a
  driver that keeps the token provably does keep).

## 6. What is not modelled

`PROJECT.json` lists every component with its status, and under "partly" what of it is
left out. Left out for good:

* the embedded store: a call of it runs to its end without interleaving, so it shows
  fewer behaviours than the MongoDB driver the models are of; its query engine is a
  pure evaluator;
* the idempotency service: no route uses its middleware;
* the job queue: its only jobs are deliveries of notifications, which no modelled
  state depends on;
* storage, PDF, templates, notifications, the realtime gateway, the audit trail;
* generic CRUD, validation and dispatch, seed data, API documents;
* the web clients, whose state is what the API returns, and the shared package of
  constants and schemas. Clients, API documents, schemas and tests are about
  half of the repository's lines, which bounds the share of it the map can cover.

Of modelled components, the larger omissions are the payment branches for events and
service requests, slab arithmetic of charges, leases, vehicles, attendance, the
limits of visitors per day, and report queries.

## 7. What is left

* A second visit of a flat, for the daily limit (VS 367), and the payment of a booking
  with its journal entry in one module (PS 469).
