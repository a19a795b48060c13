# Save The Date in TLA+

Models, model checks and proofs of the wedding platform in this repository. The
source is the reference: every definition is translated from the lines that
`PROJECT.json` ("map") names for it.

## 1. The system

A Node API (`apps/api`), a Node worker (`apps/worker`) and a Next.js site
(`apps/web`) share one PostgreSQL database (`packages/persistence`) and private
object storage (`packages/adapters`). Servers keep nothing in memory between
requests: all coordination goes through row locks, advisory locks, leases and the
order of transactions relative to writes *outside* the database. Those outside
writes (ledgers, objects, provider calls) are where the hard behaviour is. The
couple's original site keeps more in the browser: its pages run several requests at
a time and take their answers in any order.

| Component | Source | State | Hard behaviour |
| --- | --- | --- | --- |
| Admission | `passes.ts`, `adapters/src/admission-ledger.ts` | passes, admissions, scan operations, events; the ledger outside the database | the intent is written inside the transaction, the acknowledgement after it; scans race edits, revocations, other scans |
| Recovery | `recovery.ts`, `operator.ts`, `scripts/backup-service.ts` | recovery holds, snapshots | a restore takes the database back and leaves the ledgers; replay at every start, while another process serves |
| Jobs and e-mail | `jobs.ts`, `notifications.ts`, `raven-relay.ts` | jobs, leases, messages, provider inbox | leases expire under a live worker; callbacks before, after or without the acknowledgement |
| Guests and RSVP | `guests.ts`, `rsvp-erasure.ts`, `app/w/[slug]/rsvp` | attendees, reservations, waiting list, operation keys, the guests' page | capacity under concurrent households; repeated submissions; two lock orders |
| Media and uploads | `media.ts`, `uploads.ts`, `media-erasure.ts` | assets, quota, objects, jobs | quota in several transactions; an overtaken or failed job deletes files |
| Retention, archives, erasure | `retention.ts`, deletion and resource-erasure ledgers | deletions, tombstones, archives | erasure in several transactions around object deletion; replays of a ledger that moves on; restores |
| Hall passes (original system) | `apps/web/src/lib/hallPasses.ts`, `app/api/passes`, `db/migrations` | hall passes, ticket limit, scan log, write fence | statements of several requests interleave; freeze while they run |
| The couple's site: passes, door, photos | `components/admin`, `components/scanner`, `lib/auth*`, `lib/cloudinaryMedia.ts`, `lib/cloudflareMedia.ts` | session cookie, React state of each page, gallery cache | late, lost and overtaken answers; a camera and a form that redeem at once; a queue that fails half way |
| Accounts and membership | `index.ts`, `operator.ts` | users, sessions, memberships, invitations, ownership | revocation against requests in flight; last owner |
| Publication | `publication.ts`, `public-albums.ts` | drafts, snapshots, posts, access generations | stale reviewed versions, withdrawn media |
| Creative planning | `creative.ts` | runs, allowances, approvals | paid calls of unknown outcome |
| Invitations and ticket files | `invitations.ts`, `passes.ts` | exports, rendered files | jobs that write the same key twice |
| Historical transfer | `legacy-transfer.ts`, `legacy-plan.ts`, `legacy-snapshot.ts` | held transfers | ledger, target and frozen source must agree; a crash after its transaction leaves intents behind |
| HTTP API, contracts, templates, other pages, scripts | `application.ts`, `packages/contracts`, `apps/web` | none of their own | none: routing, parsing, view state |

Interactions: an edit of guests or of the event revokes passes inside its own
transaction; a scan locks the event first and then the pass; jobs are queued in the
transaction that causes them and leased with `for update skip locked`; e-mail checks
at sending that its pass, grant or invitation is still current; deleting a wedding
revokes credentials and cancels jobs; removing a member ends uploads and jobs; API and
worker start by replaying the ledgers; the pages of the couple's site call the
hall-pass service and change its passes beside other doors and administrators.

`PROJECT.json` lists every component with what is modelled of it, and under
"hazards" what is hard to test, at its line.

## 2. Modules

Abstract specification: `HallPassService`. Implementation of it: `HallPasses`.
Composition: `CoupleSite`. `MC...` modules hold the small instances, `...Proofs`
modules the theorems. Operators marked "Mutant:" are plausible bugs; no specification
uses them, they document what each property would catch.

### Admission (`Admission`, `AdmissionProofs`, `MCAdmission`)

One wedding and one event. The variables under "database" are rolled back by
`Restore`, which brings back any of the retained `Backups` (the code keeps each for thirty
days, `backup-service.ts:16,20`); `ledger` and the history variables are not. The history
`acks` has what staff were told, `disowned` the passes an operator ruled out of the ledger
while a retained backup has them admitted.

| Model | Code |
| --- | --- |
| `Confirm`, `Decline`, `CorrectToDeclined`, `RefreshTickets`, `SaveEvent` | the parts of `guests.ts`, `passes.ts` (correction) and `saveEvent` that touch passes |
| `Issue`, `Revoke`, `Reissue`, `Tick`, `Sweep` | `issueIn`, `revoke`, `reissue`, the admission window, `sweep` |
| `BeginScan`, `RefuseScan`, `ScanConflicts`, `WriteIntent`, `CommitAdmission`, `Acknowledge`, `RepeatScan` | the stages of `redeem`: hold check; event lock, decision and intent; commit; committed record; repeated key |
| `IntentFails`, `CommitFails`, `AcknowledgeFails`, `ScanFails`, `Crash` | each await that may fail, with and without effect |
| `StartApi`, `StartWorker`, `ReadRecord`, `ApplyRecord`, `Serve`, `StopReplay` | `admissionState`: list, read, apply one record, serve |
| `ResolveHold`, `ResolveFails` | `resolveAdmissionHold` |
| `TakeBackup`, `Restore`, `Quarantine` | `createBackup`, `restoreBackup`, `quarantineRestoredAccess` |
| `RetryScan` | the page's "Retry same scan", which keeps the operation key (`entry-scanner.tsx`) |

Abstractions: random ids and credentials are serial numbers never drawn twice;
automatic and owner-released policies are one `gate`; refusals that only differ in
wording are one; lineage mismatch is treated as missing lineage; owner operation
keys, which make a repetition a no-op, are stutters; a restored event may have any
gate; one start-up replay runs at a time. Wedding deletion, guest erasure, legacy
holds and ticket files are not in this module. The operator's "not admitted"
confirmation is assumed true and the old API stopped before a restore, as the
runbook demands. The source packs a handler into one line of several hundred
characters, so the module has more lines than the ranges it maps.

### E-mail (`EmailDelivery`, `EmailDeliveryProofs`, `MCEmailDelivery`)

A message and its job share a number; 1 is queued, others are retries.
`Lease`, `Decide` (the transaction that stores the intent `unknown`), `Answer`,
`Reject`, `SendFails`, `Submitted`, `Ack`, `FailJob`, `FailMessage` are the steps of
`processOne`, in the code's order; `DatabaseFails`, `RecordingFails`, `Crash` and
`Expire` what may happen between them; `Receive` and `Reconciled` the callback;
`Retry`, `DeleteWedding` and `ChangeContext` the owner. `Idempotent` selects the
adapter: `TRUE` for Raven Relay, `FALSE` for Maileroo, whose timeouts are uncertain.
The provider is external: it takes messages on and emits events in the order
`Follows` allows; they are delivered in any order and late.
Attempts saturate at `MaxAttempts` (the code only compares with five); the retry
delay is "eventually"; the operation key of a repeated retry is a stutter;
recovering a deleted wedding and erasure are not in this module.

### Answers and places (`Rsvp`, `RsvpProofs`, `MCRsvp`)

One event, its households and their pages. `submit` sends the form under an operation
key that the page keeps until it is answered (`AnswerIsLost`, `refresh`);
`authenticate` takes the grant, `LockParty` the household, `Repeats`, `Refuses` or
`Saves` decide under the event's lock and commit. `BeginGrant`/`FinishGrant` lock the
household and then the old grant, the other way round; `DeadlockDetected` is
PostgreSQL's. `save`, `remove`, `approve`, `correction`, `saveEvent` and `Closes` are
staff and time; `process` is the pass-issue job, `redeem` the door. Names are changed or
not, given or not; the optional answers and e-mails are left out; of a pass only its
status is kept (its versions are `Admission`'s).

### Media (`MediaPipeline`, `MediaPipelineProofs`, `MediaQuotaProofs`)

A transaction is one step and so is each call to the storage. `Asks` and `Receives`
are intent and upload with the catch of `receive`, `lease`, `Runs` and `Settles` the
worker's media and media-delete jobs with the catch of `process`, `sweep`, `remove`,
`removeMember`, `requestAccountDeletion` what ends them. `remove` also writes the record
that every start of API and worker replays: `Starts`, `StartsAgain`, `DeletesRecorded` and
`Expires` are `reapplyResources` for media, beside processes that run on.

What may go wrong is a `Fault` each, and `mishaps` remembers which and with which asset: a
crash of a request, a worker or a start; an error of the storage or the database, which ends
the job (`GivesUp`); a lease that runs out under a worker that goes on, because its
heartbeats failed (`Stalls`, `Renews`, "lease"); a commit that took effect and looked failed
(in `Received` and `Commits`, "reply"); a deletion that is rolled back after its record was
written (in `remove`, "record"). A write, a conversion or a transaction that is refused needs
no fault. `others` stands for everything else the wedding stores, so that the quota is
contended with one asset.

### Deletion (`WeddingDeletion`, `WeddingDeletionProofs`)

One wedding with one stored file. `AskDeletion`/`deleteWedding` and
`AskRecovery`/`recoverWedding` are the owner's transactions, split where they write the
ledger; `RequestFails` is a failed commit. `StartSweep`, `Expire`, `ReadRecord`,
`ApplyRecord`, `FindLeftovers`, `BeginErasure`, `ListObjects`, `DeleteObject`,
`EraseRows`, `Mark`, `EraseEntries` are one sweep from `retention.sweep` through
`reapplyLedger` to `erase`; `Boot` is the same replay at the start of API or worker.
`LeaseArchive`, `WriteArchive`, `FinishArchive` are the archive job, `IssueAccess` stands
for anything that creates a credential. `TakeBackup` and `Restore` roll back database and
storage and leave the ledger; any of the retained backups may come back, of any age and in
any order. `stale` remembers that a replay applied a record the ledger no longer held,
`antedated` that a replay kept a restored tombstone due before the deletion on record
(section 6). A sweep or a job never lasts longer than a day of the model, which stands for
the thirty of the code.

### Hall passes (`HallPassService`, `HallPasses`, `HallPassesProofs`, `MCHallPasses`)

`HallPassService` is the promise: passes are issued under the limit, redeemed once,
invalidated, mailed, and nothing changes while the source is frozen, each at one moment.
In `HallPasses` a request is one HTTP request and proceeds statement by statement.
Issuing holds the `ticket_settings` row from `LockSettings` to `Commit`; `Redeem` and
`LookAgain` are the two statements of `redeem_hall_pass`, `LogScan` a transaction of its
own; `EnterLimit` and `SetLimit` the trigger and the update of the limit. `Enters`,
`Refused`, `MayFreeze` are the fence trigger; `Start` has the early check. One pass
stands for one e-mail batch of ten. `ImplementsService` is the refinement: the four shared
variables map to themselves, the scan log and the requests are hidden.

### The couple's site (`SiteSession`, `PassDashboard`, `HallPassScanner`, `CoupleMedia`, `CoupleSite`, `CoupleSiteProofs`, `MCCoupleSite`)

`SiteSession` has the cookie, the roles and which page is shown. `PassDashboard` is the
administrator's page: filters and their effect, list requests that may overtake each other,
dialogs, and the four kinds of requests with the values their render had
(`ServeCreate`, `CreateAnswered`, ...). `HallPassScanner` is the door: camera, form,
redeem requests and the panel. `CoupleMedia` is the upload queue and the gallery, which
is filled shelf by shelf from Cloudinary and R2 and cached. `CoupleSite` composes them with
the hall-pass *service*: a page that is left is gone, its requests go on among those of
`Others`. Every server call is one step of the service, except that e-mail goes out in batches of
which some may fail (`ServeMail`); `ServeError`, `ConnectionFails` and `BodyLost` are a
refusal, a lost request and a body lost behind its status line. A shelf that cannot be read is
emptied (`PageFails`); an unreadable body behind a success ends it with what was read so far
(`PageUnreadable`). The door's buttons stop the camera first and reset the page when it has
stopped (`resetScanner`).

## 3. Runs

| Run | Shows | Bounds |
| --- | --- | --- |
| `admission_restore` | types, single admission, durable and effective acknowledgement, dead credentials, kept records with backups and restores | one attendee, two operations, one request, two faults, two retained backups: enough for an older and a newer backup restored in either order around a scan and an operator's decision |
| `admission_backups` | violation, section 6 | the same with one operation |
| `admission_live` | a stored admission is answered to the retrying staff, except with a hold stuck | two operations, two requests, two faults, no backup |
| `email_raven` | reports decide, in any order; final outcomes stay; a job is done only if answered; every e-mail ends | two workers, two events, two faults of any kind |
| `email_maileroo` | no message taken twice | two workers, a message and its retry, **one** fault: with two it fails (section 6) |
| `rsvp_places` | places, reservations and the count agree and keep to the capacity | two households of two and one guests, capacity one or two, two edits: the last place is contended, freed, given away and taken back |
| `rsvp_passes` | no pass for who is not expected, submissions saved once, automatic passes come, submissions end | one guest and page, three keys, two edits, every policy |
| `media` | quota, files, strays, the end of every upload, deletion and replay | one asset beside others, two workers, one fault of any kind at any step; the proofs have any number. Assets meet in the quota only, which `others` contends |
| `deletion` | what is shown or recoverable is whole, erased weddings stay hidden, old access stays dead and new access survives, the ledger prevails, deletions end | one API, a sweeping and an archiving worker (in the code each does both, and `compose.yaml` has one), one deletion or end of service, one credential or archive, one fault at any step, thirty days twice; one restore needs one backup |
| `hall_passes` | limit, single admission, no late entry, frozen snapshot final, every request ends, implements `HallPassService` | all pairs of requests over all earlier counts and limits up to three; every lock conflict is between two requests |
| `couple_desk` | what the dashboard tells is so | two passes, two list requests, three clicks: one to open, one to send, one to disturb |
| `couple_door` | a pass is accepted once, uploads stay complete and end, verification ends, shelves are cached whole or, as section 6 says, cut off | two passes, two redeem requests, two images, three clicks or scans |

Numbers of attendees, operations, households and requests beyond two are not needed
for the races in the code, which are over one event row, one pass row, one lock or one
record. Serial numbers, versions, attempts, faults, events, passes, keys and limits are
bounded as each module's CONSTANTS say. Runs that turn the deadlock check off belong to
systems that really stop: their jobs have ended, or their users have done what the bound
allows. Symmetry is used in runs without liveness only.

## 4. Fairness

- Admission: a request the API has taken runs to its end (promises settle, PostgreSQL
  grants row locks in turn; strong fairness where a step waits for a lock that others
  take again), a stopped API is restarted, an operator eventually deals with a hold he
  can resolve, and staff press "Retry same scan". Guests, edits, new scans and backups
  owe nothing.
- E-mail: the worker loop goes on while the process lives (`main.ts:21`), a pending or
  expired job is eventually leased, sixty seconds pass.
- Hall passes: a request that has started goes on.
- RSVP: a request sent is served and answered; locks are granted in the order of the
  waits, with strong fairness for the household's lock, which staff take again; a
  deadlock is detected (`deadlock_timeout`).
- Media: requests, workers and a start's replay go on, jobs are leased, the sweep runs
  every minute, an upload's `expires_at` passes. Nobody has to start a process.
- Deletion: commits, replays, sweeps and the archive's steps go on, days pass. The
  owner, requests for access and archives, and restores owe nothing.
- Couple's site: what has begun goes on or fails (a fetch is answered or rejected by
  the browser). Nobody has to click, scan or sign in.

Crashes and failures are never fair.

## 5. Proofs

Every safety invariant and every action property that a run checks is also a theorem,
for every value of the constants. `PROJECT.json` ("theorems") lists them; "any" below
means any number of the module's actors, requests, faults and whatever else its constants
bound in the runs.

`AdmissionProofs`, for any attendees, operations, requests, backups, serials, versions and faults:

- `TypeCorrect`, `AdmittedOnce` (at most one operation is ever told "Admitted" per
  attendee), `AcknowledgedIsCommitted`, `ServedAgrees`, `UsedIsAdmitted`: invariants;
- `RecordsAreKept`, `DeadStaysDead`: action properties;
- `OneBackupDisownsNothing`: with one backup retained at a time `disowned` stays empty.

They follow from `Invariance`. Types are not enough, for the acknowledgement comes
after the commit and a restore undoes the database between them. `Inv` adds what the
database's tables satisfy (`DatabaseInv`), that every backup satisfies the same
(`BackupInv`), that the ledger's lineage is that of the passes (`LineageInv`), what a request may rely on after each of its steps
(`RequestInv`) and that a serving API has accounted for every record
(`ReplayInv`). Each action keeps it: guest and owner actions share one frame lemma
(`GuestEffectInv`), scans, replay steps, backup, restore and quarantine have one
each. Assumptions: those on the constants. `AdmittedOnce`, `AcknowledgedIsCommitted` and
`ServedAgrees` except a disowned operation, because without that they are false of the code
(`admission_backups`, section 6); `OneBackupDisownsNothing` says where the exception comes
from (`NothingLost`: what the one backup has as used is used now).

`EmailDeliveryProofs`, for any workers, messages, attempts and events, and any order of
reports:

- `TypeCorrect`, `ReportsAreAuthoritative`, `OutcomesAreKept`. The invariant `Sound` says
  of every row that it has what the reports applied to it say (`Agrees`). `Reconciled`
  applies any number of them by a recursive function on the naturals; what that function
  does is shown at a smallest number of reports for which it would be false.
- `DoneMeansAnswered`: a job that succeeded had an answer or a report. `DoneOK` says so of
  a worker from the answer to the acknowledgement, with its lease or without it.
- `OneFaultSendsOnce`: a provider without idempotency keys takes no message twice if
  `MaxFaults <= 1`. With two faults it is false (section 6), so this hypothesis stays. `Once`
  relates how far a worker, its job, the message and the provider have come: a begun
  submission blocks the next through the stored intent, or through the lease of a worker
  that is past its decision (`Past`); to undo both takes two faults.

`RsvpProofs`, for any households, guests, pages, keys and edits:

- `PlacesAreKept` and `ActivePassesAreExpected`, from `RowsInvariance`. Its invariant has the
  types of the rows, that a row of version zero is unanswered, `PlacesHold` and
  `ActivePassIsExpected`: the count equals the reservations only together with "exactly the
  confirmed hold one", and a pass is safe only together with both. `OnePlace` and
  `SomePlaces` say what adding and removing reservations does to their number.
- `AutomaticPassesCome`: an expected guest without a pass has a job that will issue it. The
  invariant adds that no job's key names a version above its row's (`JobsOK`), so that
  a new job, which has a higher one, is never lost to the dedupe key of an old one.
- `SubmissionsSaveOnce`: a form sent again under its key is saved once. Every operation in
  a page has a key of its own (`OwnKeys`), and once it was committed the versions its form
  saw are past (`Spent`), since versions only grow: where the stored operation is
  not found, because the grant is a new one, the versions refuse the form.

Assumptions: finitely many guests, each in one household, and natural bounds.

`MediaPipelineProofs`, for any assets, workers, faults and limits:

- `TypeCorrect`;
- `ReadyAssetsHaveFiles`, from `Usable`: a worker that runs holds its lease unless that ran
  out or its job was cancelled, nobody else runs the job, what has a deletion job or an
  erasure record will not become ready, and a worker that may still commit has the files it
  commits to. It excepts assets with one of the three mishaps above, and is false for those
  (section 6); crashes, failing calls, and the mishaps of other assets, are no exception;
- `NoFileIsStray`, from `Tidy`: as long as nothing crashed or failed, every file belongs to a
  row, to a request or worker that will settle it, or to a deletion to come.

`MediaQuotaProofs`, for any finite set of assets, proves `QuotaIsExact`: what is reserved is
the sum over the rows, what is stored covers what they hold, exactly unless a lease ran out,
and both together stay within the limit although intent and commit check it apart. Its
invariant adds that a finished conversion alone finds its asset ready (`ReadyIsOver`), and
that the replay's `greatest(0, ...)` never cuts anything off (`RestoredIsGivenBack`). The sum
is a fold, a recursive function on sets: `SmallestSubset` takes a smallest set on which two
folds would differ, which gives what changing one row, or the rows of a member, does to the
sum. Assumption: `AssetsAssumption`.

`WeddingDeletionProofs`, for any workers, requests, backups, faults and days:

- `TypeCorrect`, `RevokedForGood` (old credentials stay dead) and `RecoveryKeepsNewAccess`,
  from `Inv`: nothing in force was barred (`BarredIsShut`), and no replay has read a record
  newer than the ledger, nor is the ledger newer than the credentials (`RecordsAreOld`);
- `RecoverableIsWhole` and `ErasedIsHidden`, from `KeptInv`. A wedding is either `Complete`
  or `Lost`: hidden, past its date, with a ledger that says so to every replay. The step
  to `Lost` is final but for a restore, and nobody who deletes or is about to is
  anywhere else (`ErasureOK`); between its ledger write and its commit a request, or the
  end of the service, has the row for itself (`OwnerOK`, `ExpiryOK`); and every backup has
  a complete wedding, or is only there once the wedding is `Doomed` (`BackupOK`): its date
  on record has passed, and whatever was restored, the API serves again only after the replay.

Two exceptions, both of the code (section 6) and both in the properties: `stale`, a replay that
was overtaken, and `antedated`, a replay that kept a restored tombstone due before the
deletion on record, for `least(erase_after)` makes the second deletion due on the first
one's date. `KeyAssumption` says that an archive's key is not the media file's.

`HallPassesProofs`, for any requests, passes, batch size and limit: `TypeCorrect`,
`OnceAdmitted`, `OnlySentIfMailed`, the refinement `Refinement`
(`Spec => ImplementsService`), and through it `LimitIsKept`, `InvalidatedIsOut` and
`FreezeIsFinal`. The inductive `Inv` has the types, what every pass satisfies
(`PassesOK`), what a request may rely on between two statements (`RequestOK`: the count it
took is still right while it holds the row, what it claims as valid is used, what it
records as sent was mailed), and for each two requests what excludes the other
(`Exclusive`: one holder of the row, no pass valid for both). Each step then is a step of
the service or a stutter (`ServiceStep`), and the action properties are shown about the
service. Only `BoundsAssumption` is used.

`CoupleSiteProofs`, for any passes, requests, images, shelves and acts, whoever else uses
the service:

- `DashboardTellsTruth` and `PassesAreAcceptedOnce`, from `PassesOK`. What is said of a pass
  (used, invalidated, sent) stays so (`Later`), hence every row, answer, toast and pending call
  that was so when it was read is so now (`DeskSo`); a pending request of the door that won
  its pass is the only one that did, and no door has shown it yet (`DoorSo`);
- `PagesUseService`: `SiteSpec => ServiceSpec`. Both pages and all others keep to the
  hall-pass service, which by `Refinement` is what the server's statements implement;
- `CachedShelvesAreWhole` and `CompleteImagesStay`, from `MediaOK`: a run only has images
  left that are not complete (`RunOK`), and what a gathering has read of a shelf is nothing,
  holds all that was there when it began, or was cut off by an unreadable body (`Whole`),
  which happens to shelves of photos only.

Assumption beside the bounds: `NoneAssumption`, "nothing" is not a pass.

Only model-checked: the liveness properties (`AdmissionIsAnswered`, `EmailEnds`,
`SubmissionEnds`, `UploadsSettle`, `LedgerPrevails`, `DeletionEnds`, `RequestsEnd`,
`RedeemEnds`, `UploadRunEnds`): fairness and ENABLED are beyond the prover. Where a theorem
has a hypothesis on faults, or a property an exception, it is false without it. The library's induction theorems take an
operator and cannot be used with these provers; where data is recursive the
proofs go to a smallest counterexample instead (`WFMin`).

## 6. Where documents and code differ, and what else the models showed

Checked as a violation:

- `admission_backups`: an operator rules an intent out over an older backup, since he sees
  the restored database alone (`operator.ts:21`); then a newer backup that has the admission
  is restored, and "Retry same scan" is told "Admitted" with nothing in the journal
  (ADR 018:7: "Acknowledging admission requires an independently durable private journal").

Shown by variations of the models (more faults, more passes, another bound), which are not
kept as runs:

- Admission. A hold on a used pass can neither be resolved nor scanned past, so the retry
  that ADR 018:7 promises to repair the acknowledgement is never answered
  (`HoldStuck` excludes it from `AdmissionIsAnswered`). A hold resolved once is never
  opened again for the same pass; a scan that is past the hold check admits although a
  starting worker opened one (`passes.ts:30`).
- E-mail. A worker that lost its lease overwrites its successor's send intent, and a
  provider without idempotency keys gets the message twice, given one more fault. A
  database error after the provider took the message is recorded as a definite failure
  and the owner may send it again.
- Media. A commit that took effect and looked failed makes the catch delete the original
  (`receive`, `media.ts:42`) or the display (`process`, `media.ts:69`) of an asset that is or
  becomes ready. `media.ts:67` sets `processing` without looking at the lease, so a stalled
  worker resets a ready asset, perhaps for ever (`media-processing.md:27`: "A revoked worker
  lease cannot commit results"), and when it is converted again its bytes stay counted twice;
  it also leaves a removed member's expired upload in `processing`. An error in a clean-up
  step, or in the catch of `process`, leaves `processing` and the reservation until the
  asset is deleted; a crashed worker's display file is orphaned, and so is the original of an
  expired upload when the API crashes after writing it. A deletion that is rolled back after
  its record was written is carried out by the next start, although the owner was told it
  failed. A media-delete job that failed, or was cancelled because its requester was removed
  (`index.ts:98`), is not run again: files and space come back with the next start's replay
  only (`UploadsSettle` excepts those jobs and shows that such a replay settles it).
- Deletion. A replay reads a record and applies it in a transaction of its own. When the
  owner recovers in between, the stale record hides the recovered wedding and revokes its
  new credentials; when he deletes, or the service ends, a stale recovery shows the
  wedding again (ADR 013:7: "Deletion immediately hides the workspace"). The next sweep
  makes both good (`LedgerPrevails`), which is why the other properties except `stale`;
  with two sweeping workers at the end of the thirty days it may come too late. A
  deletion or recovery whose commit failed takes effect at the next sweep all the same. With two
  deletions and a backup that holds the first tombstone, `least(erase_after)`
  (`retention.ts:59`) makes the second due on the first one's date, before the thirty days
  ADR 013:7 promises (`antedated`). With two requests `LedgerPrevails` fails: a stale replay of
  an overtaken deletion, or the earlier date, erases the data, and a recovery then leaves the
  wedding hidden. `MaxRequests` is one in the run for that reason; the theorems about the
  invariants have any number. A backup older than a renewal
  of the service lets the sweep erase the wedding at once (renewals are not modelled).
- Couple's site. After an invalidation the list is asked for with the filters of an old
  render; two list requests in flight can ask for each other's page for ever; a rejected
  fetch leaves its button busy; a body lost behind "OK" at the door shows nothing although
  the pass is used; Cancel while the camera starts leaves it on, and it may redeem
  (`current-app-behavior.md:238`: "Cancel Scan stops the camera"); a bouncer at
  `/admin/media/images` is redirected in a circle (`current-app-behavior.md:154`); a
  gallery that is filled during a sync caches what was there before; an answer of
  Cloudinary with a success and an unreadable body ends a shelf of photos, and the part that was
  read is cached as the whole (`cloudinaryMedia.ts:103-114`;
  `current-app-behavior.md:134` speaks of empty lists).

## 7. Not modelled, and plan

Next, in this order:

1. The replay of the other single resources (guests, posts, members) and of optional
   answers (the rest of `reapplyResources`, `eraseAnswerArchives`, `expireAnswers`) and the
   erasure of accounts, beside `WeddingDeletion`.
2. Ticket files: rendering per pass version and pass e-mail, on `MediaPipeline`'s lease.
3. `Membership`: roles, ownership, recovery of accounts. `CreativeRuns`: allowances and
   paid calls. `Publication`: published snapshots and withdrawn media. `LegacyTransfer`,
   composed with the frozen source of `HallPasses` and `Admission`'s ledger.
4. An abstract specification of admission (issue, admit once, acknowledge) that
   `Admission` implements, with the proof of that refinement; the same for the e-mail that
   is accepted, decided and reported on.

Parts of modelled components that are left out: albums, captions, moderation and guests'
upload sessions; access requests and CSV import; notices and renewals of service; the
encryption and expiry of backups; invitation exports.

Not planned, and why: HTTP routing and parsing, static pages and templates (no state of
their own), rendering, cryptography and object stores (external or pure).
