# Verification of the end-management system

TLA+ models, TLC runs and TLAPS proofs for the NestJS backend under `src/src`
(TypeORM over PostgreSQL, transactions at the default READ COMMITTED).
Paths below are relative to the repository; `TS` is
`src/modules/transfer/transfer.service.ts`, `TR` is
`src/modules/transfer/transfer.repository.ts`.

## 1. The system

Camps of survivors keep inventories, send expeditions, admit people, and lend
each other resources and people.  Every component is a service over a few
tables; there is one Node process, whose handlers (HTTP requests and cron jobs)
interleave at every `await`, and one database they all share.  Nothing but the
database's row locks and unique indexes keeps two handlers apart.

| Component | State it keeps | Operations | Interacts with | What makes it correct |
|---|---|---|---|---|
| Transfer lifecycle (`transfer`) | `transfer` row (status, planned and actual dates, rations), inventory movements, `delivered_transfer_resource` | create, update (PUT), transport staff, automated execution, synchronisation of rations | request, manifest, inventories of both camps, history, person status, scheduler | one debit, no credit without a debit, status agrees with people and stock, final is final, due transfers complete, nobody waits for ever |
| Transfer manifest (`transferPerson`) | `transfer_person`, `transfer_requested_person`, `person.current_status`, `person.camp_id` | assign staff, add, change, remove | transfer (rations), person | a person is on one active transfer, people follow the status |
| Transfer history | `transfer_history` | entry with each change of status | transfer | newest entry names the status |
| Delivered resources | one row per transfer and resource (unique) | created by a departure or arrival | transfer | no duplicates |
| Temporal automation, due transfers | none; a fixed *now* per run | three queries, one execution per due row | transfer, system time | idempotent under overlap, every due transfer handled |
| Temporal automation, daily cycle; inventory | `camp_inventory`, movements, daily records, alerts | consumption, production, manual movement | camps, persons, transfers, expeditions | amount = sum of movements, no lost update, not negative |
| Expeditions | `expedition`, participants, consumed and obtained resources | create, update, complete with loot, hourly update, forced update | persons, inventory, system time | provisioned once, loot once, final is final |
| Inter-camp requests | `intercamp_request`, details | submit, approve (saga: request, transfer, staff, manifest), reject, cancel | transfer, manifest, inventory | approved iff its transfer exists and is not canceled |
| Email outbox | `email_outbox` (status, attempts, lease) | enqueue, process | SMTP, system time | bounded attempts, every email ends SENT or FAILED, sent once when the provider accepts |
| System time | offset in memory and in `system_time` | advance, load, save | every job | no advance forgotten, cycles run as often as midnights pass |
| Authentication, sessions | `session`, `password_reset_token`, `access_log` | login, validate, rotate, logout, reset | users, email | expired stays expired, a code is used once and tried at most `maxAttempts` times |
| Admission requests | `admission_request`, AI report | submit, AI review, admin review, grant access | persons, users, email, decision tree | one verdict, access exists iff approved |
| Decision tree models | one index file of models, one file per model | train, train at start, advise (predict, explain, score) | admission requests, start of the server | a start leaves every camp its models, one is active, nobody is decided on in doubt |
| Occupation coverage, temporary assignments | suggestions, assignments | recompute, assign, revoke | persons | one active assignment per person |
| Persons, notifications, achievements, camps, users, occupations, resource types, logs, dashboard | one table each | CRUD, periodic counts, queries | - | no protocol of their own |

Hard behaviours: check-then-act across awaits (almost every service checks
outside the transaction that writes); TypeORM's find-then-save; effects
committed apart from the status that calls for them; overlapping scheduled runs
(the minute job and the run an administrator's advance of the clock starts);
locks held across awaits on a second connection; leases and retries; crashes
between steps; one file that every operation reads and rewrites whole.
`PROJECT.json` lists each hazard at its line.

## 2. Modules

| Module | Contents |
|---|---|
| `Transfer` | one transfer and the handlers that move it |
| `TransferLifecycle` | what it promises to the two camps, one step per change of status |
| `EmailOutbox` | the email outbox and the job that delivers it |
| `Expedition` | expeditions, who is on them and the status of those people |
| `IntercampRequest` | requests between camps and the transfers their approval prepares |
| `RequestLifecycle` | what a request promises to the two camps |
| `Inventory` | the stock of a camp, its ledger, collections and alerts |
| `Accounts` | the accounts and handlers `Admission` and `Authentication` share |
| `Admission`, `Authentication` | requests to be admitted and their reviews; logins, sessions and reset codes |
| `Access` | the two together |
| `Workforce` | occupations, temporary assignments, the job that covers occupations |
| `DecisionTree` | the index file of the models that advise, trainings, starts of the server |
| `Scoring` | how a tree and an applicant become a score and an action (pure operators) |
| `MCTransfer`, `MCEmailOutbox`, `MCExpedition`, `MCIntercampRequest`, `MCInventory`, `MCAccess`, `MCWorkforce`, `MCDecisionTree` | instances for TLC |
| `TransferProofs`, `EmailOutboxProofs`, `ExpeditionProofs`, `IntercampRequestProofs`, `InventoryProofs`, `AccessProofs`, `WorkforceProofs`, `DecisionTreeProofs` | theorems of the module each is named after |

Compositions: `Access` composes `Admission` and `Authentication` over `Accounts`;
`DecisionTree` uses `Scoring`; `Transfer` refines `TransferLifecycle` and
`IntercampRequest` refines `RequestLifecycle`.  In every module a handler is a
request or a job, a step is one statement (or one read a later statement relies
on), and `disturbed` or a like variable remembers whether handlers have
overlapped or stopped, for the properties the code promises only to handlers
that follow one another.

### Transfer

`row` and `books` are the committed database: the transfer row, and everything
the effects of a status change write (status of the manifest and of its people,
camp of the people, number of movements of each kind, stock of the supplier
camp, credit of the recipient camp, newest history entry).  `rowLock` and
`manifestLock` are the two row locks that matter.  `handler` holds a record for
each handler: where it is, the transfer it read first (`existing`), the entity it
will save, what it has counted.

A step boundary is an await that another handler can slip into and that matters.
What one transaction writes becomes visible at its commit, so its effects are
applied in its last step, from what it read before (`seen`).

| Actions | Code |
|---|---|
| `PutReads`, `SyncReads`, `SyncSaves`, `AssertsRations` | the part of `updateTransfer` before the transaction (TS 446-503, 110-145); `assertRationsAvailable` synchronises first |
| `Finds`, `PutSaves`, `LocksManifest` / `CountsReceived`, `PutCommits`, `PutRollsBack` | its transaction (TS 505-603): find, save (the row is locked), effects, trailing `syncTransferRations`, commit |
| `PutHangs` | the trailing synchronisation (TS 600) finds the committed row, as an earlier PUT has left it, out of step and has something to write |
| `CronStarts`, `CronQueries` | `runDueTransferExecutions`: *now* is fixed, then the three queries |
| `CronReads`, `Finds`, `PhaseOneCommits`, `LocksManifest` / `CountsReceived`, `PhaseTwoPart` | `executeAutomatedTransfer`: phase 1 in a transaction of its own, then one transaction for each side |
| `RosterEdited`, `SyncReads`, `SyncSaves` | the synchronisation that ends every edit of the manifest |
| `StaffReads`, `StaffReplaced` | `updateTransportStaff`, `replaceTransportStaff` |
| `Fails`, `Crashes` | a statement of an open transaction fails; the process stops |
| `Tick` | time passes or is advanced |

A departure updates the people of the manifest first and counts the movements
after it (TR 607-636, TS 147-294): `LocksManifest` takes the lock and counts.
An arrival counts first and updates the people last: `CountsReceived` counts, the
commit waits for the lock.

Abstractions, and why they are harmless:

- `updateWithManager` and `update` are `findOne` then `save`; `save` reads the
  row again and writes the columns that differ.  The second read and the UPDATE
  are one step, so an UPDATE that waits for the row is taken to have read it when
  it was granted.  The DTO may leave columns alone (`Keep`); a save that changes no
  column sends no UPDATE and takes no lock (the second disjunct of `PutSaves`).
- Of the columns only status, planned dates and rations are kept: no other
  column decides anything.  A PUT may also set `rationsForTrip`; like an edit of
  the dates it leaves the row out of step with its rations, so it adds no
  behaviour to those of `Replans`.
- The manifest has at least one person and transport staff is assigned, so
  `assertTransferCanMove` passes.  People are one group: an UPDATE concerns all
  of them.
- One resource is requested.  Rations committed to other transfers are part of
  `InitialFood`; other users of the inventory are not modelled here.
- `delivered_transfer_resource` has a unique index: the second of two
  transactions that both insert fails (`DuplicateDelivered`).
- Notifications, logging and the rows that only describe a movement are left out.

### TransferLifecycle

Status, place of the people, debited, credited; departure, completion (which
makes up for a departure that was skipped), cancellation, putting back.
`Transfer` maps the status to the one the history names, so the row's save and
the effects, which are separate commits in phase 1 and 2, are one abstract step.

### EmailOutbox

`outbox` is table `email_outbox` (status, attempts, and the minutes left until
`nextAttemptAt`; `NEW` stands for an email not yet enqueued).  `run` holds the
local state of each run of `processPendingEmails`: the entries of its batch with
the attempts it loaded, the one it works on, what is left of that one's lease.
`tried` and `accepted` count what a run asked of the provider and what the
provider took; no code reads them.

| Actions | Code (`src/modules/email/`) |
|---|---|
| `Enqueue` | `createPendingEntry` |
| `Finds` | `findDueForDelivery`, at most `BatchSize` entries |
| `Claims` | the save of `PROCESSING` with a lease |
| `Sends` | `render` and `sendMail`, which return or throw |
| `SavesSent`, `SavesFailure` | the two ends of the `try` statement, with the delays of the retries |
| `LosesSave` | a save fails; the one of `SENT` is inside the `try` block |
| `Crashes` | the process stops in the middle of its runs |
| `Tick` | a minute passes or is advanced over |

The job is started every minute whether or not its previous run has ended, so
runs overlap.  `save` writes the loaded entry over the row: it is taken to be one
write of all columns (TypeORM reads the row first and sends those that differ).
The date of `SENT` and the text of the last error decide nothing and are left
out.  The provider, including the loss of its answer, is external.  The outbox
is delivered at all only where `EMAIL_ENABLED` is set.

### Expedition

`expedition`, `participant` (ACTIVE rows of `expedition_participant`) and `person`
are tables; `provisions` and `loot` count the movements of a departure and the
completions that credited resources.  `touched` remembers the people an administrator has
given a status since an expedition of theirs was last synchronised.

| Actions | Code |
|---|---|
| `Creates` | `createExpedition` |
| `PutReads`, `PutFinds`, `Saves` | `updateExpedition`: the controller's checks, then find and save |
| `ForceReads`, `ForceFinds`, `Saves` | `forceUpdateExpeditionState` |
| `HourlyLoads`, `HourlyNext`, `Saves` | `runHourlyExpeditionStateUpdate`: all rows are loaded at once and saved one by one |
| `ProvisionReads`, `Provides` | `applyDepartureProvisioningIfNeeded`: counts, then moves |
| `CompleteReads`, `Loots` | `completeExploration`, `completeExplorationWithLoot` |
| `EnrollReads`, `Enrolls` | `createParticipant` |
| `Syncs` | `syncPersonStatusFromExpeditions` of every participant |
| `PersonEdited` | `updatePerson`: any status may be given (`GivenTo`), those the expeditions set included |
| `Stops`, `Tick` | a handler stops half-way; time passes |

The synchronisation of the people is one step.  What the code does: a PUT of a person
takes any `currentStatus` (update-person.dto.ts:51) and synchronises nothing, so somebody
SICK on an expedition can be made ACTIVE and stay so until an expedition of theirs is
synchronised again; `PeopleFollowExpeditions` leaves these people (`touched`) out.  Such an
edit does not come in the middle of a handler here, for the number of states.  Left out: WITHDRAWN
participations, a PUT of the actual return date or of the used extra days, the
amounts of what is moved, and transfers, which write the same status of a person.
Deletions are refused by the controllers.  A forced update turns
`RETURNED_AFTER_LOST` into `COMPLETED`; the model has it, no property needs it.

### IntercampRequest

`request` and `transfer` hold the status of each request and of the one transfer
it may have, `staff` and `asked` the rows of `transfer_person` and
`transfer_requested_person`.  `handler` is what the server works on: one request
at a time, in steps, while transfers depart, arrive and are canceled at any
moment, or are put back, each in one step (`Departs`, `Completes`, `Cancels`, `PutsBack`; how
is `Transfer`).  `left` holds the transfers whose goods have left the supplier (a
`TRANSFER_SENT` movement exists), `putBack` those put back since their request was last
answered.

| Actions | Code |
|---|---|
| `Creates`, `Submits` | `createRequest`, `submitRequest` |
| `Approves`, `Refuses`, `Checks`, `Saves`, `CancelsTransfer` | `updateRequest` and its policy |
| `Prepares`, `ChecksStaff`, `Assigns`, `FillsManifest`, `ChecksRations` | `ensureApprovedRequestTransfer` and what it calls of transfers and their people |
| `Reverts` | the `catch` that writes the status read at first |
| `ChangesStaff`, `Replaces` | `updateTransportStaff`, `replaceTransportStaff` |
| `Departs`, `SendsGoods`, `Completes`, `Cancels` | what becomes of a transfer; its goods leave once |
| `PutsBack` | a PUT of `PENDING_DEPARTURE` on a transfer that is `IN_TRANSIT` (TS 446-454) |
| `Passes`, `Stops` | the planned departure passes; the process stops half-way |

What the code does and a reader may not expect: the recipient can never cancel,
since a change of status makes its author `respondedBy`, who must be of the
supplier; a failed approval leaves its transfer, which departs when due; a second
attempt after one that failed on rations asks people again; canceled rows of a
manifest are sent, moved and made ACTIVE with the others.  A change of staff adds nobody:
TypeORM's `query` answers an `UPDATE ... RETURNING` with the pair of the rows and their
count, so `updatedRows.length === 0` (transfer.repository.ts:561-570) is never true and the
INSERT behind it never runs; people without a row are not added, all others lose theirs,
and the answer reports success.  A PUT puts a transfer back that is on its way: its people
stay outside, its goods stay gone and are counted again as promised, and it may be that
of a request refused meanwhile, which then waits to leave again.  Left out: a transfer
made by `POST /transfers`, a request put back to PENDING, people added to a
manifest by hand (which asks nothing about other transfers), the Scout among the
staff, edits that change neither status nor staff, the rations other camps'
cycles eat.  The rows an approval gives the staff are inserted in one step.

### Inventory

`stock`, `ledger` (the sum of the movements), `collections`, `record`, `alerts` are the
tables of one camp; `uncovered` sums what was booked as taken and was not there.  `run`
holds the daily cycles: the one of midnight (`Midnight`) and those an advance of the clock
starts (`Advances`), each going through the statements of rations, production, records and
alerts in the order of `runDailyAutomationForCamp` (`Cycle`).  Requests: `Moves`
(`createMovement` of what comes in, or a MANUAL_ADJUSTMENT, which nothing checks first),
`WithdrawReads`/`Withdraws` (a consumption: the stock is checked, and the movement made
later), `Registers` (a collection record), `AdjustReads`/`AdjustSaves`/`AdjustMoves`
(`adjustRecord`), `EditFinds`/`EditSaves` (PUT of a stock), `Resolves` (an alert).
`CycleStops` and `RequestStops` stop one half-way.

What the code does: rations are booked negative by a cycle and positive by hand; a
collection is booked twice in the movements and once in the stock (`TwiceBooked`); an
advance over N midnights runs N cycles dated at the new time; the job fires at the
server's midnight; without an ACTIVE user the stock changes and no movement is written;
`adjustRecord` saves the new amount apart from its movement.  The UPDATE of a withdrawal
does nothing when the stock is too small, and `updateResult.length === 0`
(inventoryMovement.repository.ts:84), which should notice, compares the pair of rows and
count that TypeORM's `query` returns: the message never comes, the movement is committed
and the stock stays (`Moved`).  `BooksBalance` therefore says that books and stock differ
by exactly those withdrawals (`uncovered`), besides the collections.  Left out: the
creation of missing rows, the row of `daily_consumption`, edits of a movement, of the
person or date of a record, reopening an alert, changes of the number of people, what
transfers and expeditions move.  Workers of one resource produce the same.

### Accounts, Admission, Authentication, Access

All requests are made with one email, each to a camp; `account` holds the account
a request was granted.

| Actions | Code |
|---|---|
| `ChecksEmail`, `Inserts`, `Advises`, `AdviceFails` | `createRequest`: the row, then the advice and the status that follows from it |
| `ProposesReads`, `Proposes` | `processWithAI` |
| `EditFinds`, `EditSaves` | `updateRequest`; a save writes the status it has read |
| `Reviews`, `FindsPerson`, `Admits`, `FindsAccount`, `RewritesAccount`, `GrantsAccount`, `Decides` | `reviewByAdmin`, `createPersonAndUserForApprovedRequest` |
| `LoginReads`, `LoginCreates` | `login` |
| `EndReads`, `Ends`, `ClosesSessions` | `logout`, `validateSession`, expiry |
| `ChangeReads`, `Changes`, `DeleteReads`, `Deletes` | changes of role and status, deletion of a user |
| `ForgetReads`, `Forgets`, `Issues` | `forgotPassword` |
| `ResetReads`, `Counts`, `Spends`, `ChangesPassword`, `Uses`, `Clears`, `ExpiryReads`, `Expires` | `resetPassword`, and the expiry of codes |

What the code does: the AI approves without looking at other camps and may leave
`APPROVED` without access; a request may stay `PENDING_AI`; the stale write that
ends `createRequest` or a PUT can overwrite a review; a repeated review that
rewrites a role does not close sessions.  The reads of a review are one step, as
are `UserRepository.update` (find and save) and a session with its access log; the
rotation of tokens, activity and the clocks are choices; `CLOSED` and `EXPIRED` are
one `ENDED`, any status but ACTIVE is `INACTIVE`.  Left out: edits of the email or
the camp, photos, the choice of a username, the CRUD of sessions.

The answer of the API says "The final approval or rejection is always made by an
admin" (admissionRequest.controller.ts:437), while `createRequest` approves and
rejects by itself on `AUTO_APPROVE` and `AUTO_REJECT`; `Advises` is the code.

### Workforce

One camp.  `person` has an occupation and a status, `assignment` the rows of
`temporary_occupation_assignment`; `left` counts the workers an occupation has lost
for other reasons than new assignments, for `MinimumKept`.  `camp` says whether the camp is
ACTIVE and whether it has an ACTIVE `SYSTEM_ADMIN`: the job looks at ACTIVE camps only and
inserts in the name of such an administrator or not at all.

| Actions | Code |
|---|---|
| `Assigns`, `Checks`, `Inserts` | `createAssignment`: coverage is read, the row inserted later |
| `AutoAssigns`, `Picks`, `ReadsPerson`, `Inserts` | `autoAssignReplacement` |
| `JobStarts`, `Visits`, `Picks`, `SeeksAdmin`, `Inserts` | `checkCriticalOccupations`, every 30 minutes |
| `Edits`, `EditFinds`, `EditSaves`, `Revokes` | PUT and DELETE of an assignment |
| `Updates`, `UpdateFinds`, `UpdateSaves` | PUT of a person |
| `Governs` | the camp becomes ACTIVE or not; its administrators come, go or change role |
| `Begins`, `Lapses`, `Moves`, `Stops` | dates come, somebody travels, a handler stops |

Any source and any candidate may be chosen (the code takes the first by name or
count).  What the code does: coverage counts a person with two assignments in both;
`createAssignment` asks only the permanent occupation for its minimum; dates ahead
are checked at creation only; a PUT checks no coverage, and its save brings a
deleted row back; a PUT of a person with a new status saves it and then answers an
error, since the entry of the history is refused by its foreign key
(`changedBy` is 0); a camp without an administrator is never covered by the job, which
says nothing of it.  Left out: the CRUD of occupations, LIMIT 10 and the rounding of
percentages.

### DecisionTree and Scoring

`index` is the file: `whole` with its records, `empty` between truncation and
write, `garbled` when two writes overlapped; what cannot be parsed counts as no
models, and so does a read that fails: `readIndex` catches every error (`Reads`).  A
record is `sound` if the service can advise every applicant with it.  `server` is down,
booting or listening.

| Actions | Code |
|---|---|
| `trainModel`, `Deactivates`, `Creates`, `Truncates`, `Writes` | `trainModel`, `deactivateByModelName`, `create`, `writeIndex` (a rewrite is a truncation and a write) |
| `Boots`, `trainFromFileIfMissingModel`, `Listens`, `GivesUp` | the start in `main.ts`, which gives up the rest at an error and listens all the same |
| `Asks`, `ReadsModel`, `ReadsRole`, `Answers` | `explainByModelName` for a new request |
| `Misreads` | a read of the advice fails, of the index or of the file of a model |
| `Fails`, `Crashes`, `NewCamp` | a file cannot be written or a directory made; the process stops; a camp is created |

The operators of `Scoring` follow the service: leaf, path confidence, score, action.  The
classifier (ml-cart) is external: which side of a tie it takes is not known, so prediction
and score may come from different leaves, and both are checked.  Shares are thousandths
and the rounding is exact; JavaScript may round a product at .5 the other way.  What the
code does: a failing read does not end a training: `deactivateByModelName` then finds
nothing to deactivate, and a second model becomes active; `create` writes an index of its
own model alone, and those of every camp are lost.  A model trained by a request may have
any features and labels: one that applicants lack, or a role other than the six, makes
every advice of the camp fail (`MayThrow`) until another training.  A camp created after
the start has no model until the next one; the fallback to a global model never finds any,
since every training sets a camp; a request without advice stays as it was inserted.  The
name of a model's file is its name and the millisecond, so two trainings in one
millisecond share it; that, and the loss of a model file, is left out, as are predictions
by id and the texts.

## 3. Runs

| Run | Question | Instance | Result |
|---|---|---|---|
| `transfer_overlap` | can the camp be debited twice, can handlers wait for ever? | a PUT and a scheduled run, overlapping, failing, crashing; no edits of the dates | holds: `TypeOK`, `DebitedAtMostOnce`, `PhaseOneAlwaysCommits` (424 thousand states) |
| `transfer_serial` | do status, people, stock and history agree, and does a due transfer complete? | one handler of each kind, one at a time | holds: `SettledMatchesStatus`, `HistoryMatchesStatus`, `ImplementsLifecycle`, `ManualDepartureKeepsReserve`, `UntouchedCompletes` (9 thousand) |
| `transfer_hang` | and after an edit of the dates? | a PUT and a scheduled run, overlapping | violated, see below |
| `transfer_final` | is a final status final? | the same | violated, see below |
| `transfer_history` | the shipped CHECK | a PUT and a scheduled run, one at a time | violated, see below |
| `email_outbox` | do runs that overlap lose, forge or give up an email? | two runs, two emails, one crash or failing save | holds: `NotGivenUpEarly`, `AtMostOnceButForFaults`, `EveryEmailSettles` (957 thousand) |
| `expedition` | do provisions, loot, participants and people agree, and does every expedition end? | two expeditions that share a person; the hourly job and a request or a second run | holds: `ProvisionedOnce`, `UnderWayIsProvisioned`, `LootedOnce`, `PeopleFollowExpeditions`, `OneExpeditionAtATime`, `EveryExpeditionEnds` (928 thousand) |
| `intercamp_request` | is an approval all or nothing for the two camps? | two requests, three people, one handler that may stop | holds: `NobodyOnTwoTransfers`, `CommitmentsFit`, `RefusedDoesNotLeave`, `ImplementsLifecycle`, `NobodyLeftBehind` (2.54 million) |
| `inventory` | do overlapping cycles repeat what they do, and does the stock follow the books? | two cycles and a clerk, a rationed and a produced resource | holds: `TypeOK`, `CollectedOnce`, `OneAlertPerRun`, `BooksBalance` (4.47 million) |
| `access` | does an approval come with access, do sessions follow accounts, are reset codes bounded? | three requests to three camps, two handlers, two sessions | holds: `ApprovedHasAccess`, `AdmittedAtMost`, `SessionsMatchAccounts`, `ResetsBounded` (487 thousand) |
| `workforce` | are minimums kept and uncovered occupations covered? | three people, two occupations, a request and the job, a camp that may lose its administrator | holds: `MinimumKept`, `CoversOnce`, `CoverArrives` (336 thousand) |
| `decision_tree` | is advice there, single and never given in doubt? | a camp and one created later, two trainers, crashes, a failing read or write | holds: `OneActive`, `Served`, `AdvisedUnlessDisturbed`, `ClearDecisions` (6.58 million) |

`CHECK_DEADLOCK FALSE` everywhere: a finished transfer, a settled email or an
instance that has used up its bounds has nothing left to happen to it.  A type
invariant proved for every value of the constants is checked in a run only
where it says more than types (capped stock of `Transfer` and `Inventory`).

What holds only for handlers that do not overlap is stated so (`Undisturbed`,
`~disturbed`, `MayOverlap = FALSE`): under overlap the code does not promise it,
as `transfer_final` shows for one such property.  Where overlap costs a known
amount the property gives it ("one for each handler", "one for each fault").

### Bounds

- `Transfer`: two pairs of dates, half a day (1 to 2) and a day and a half (1 to 4)
  with days of two units, so that the rations of the two plans differ and rounding up
  matters; the clock stops at 4, after the last date; one person and one ration a
  day; a supplier with 2 rations and a minimum of 1, so that the short trip may
  leave and the long one may not; 2 units of goods requested against a stock of 3,
  or of 1 where the cap must bite.  Two handlers are enough for each race here: all
  of them are between a read and a write of one handler and a commit of another.
- `EmailOutbox`: two runs are enough to write an old entry over a newer
  one; one email may fail once and be retried, the other is given up at its first
  failure; the batch holds both or, after a failure, one; a lease of two minutes
  runs out while the other run goes on; one fault, to tell "once" from "once more
  for a fault".
- `Expedition`: one expedition may be delayed by a day and is lost after it, the
  other leaves later and may not; the clock stops at 4, a day after the last return;
  two handlers, for a stale save needs a second one; `MaxLoot` 2 lets a second
  completion happen; a person is made INACTIVE (a status no expedition overwrites), ACTIVE or
  OUTSIDE_CAMP (ones they do) by hand.  `Used` bounds the environment: one edit of an
  expedition, one request that overlaps a handler or one stop in a behaviour, none
  while a person is touched, and no second person touched meanwhile (the job overlaps at
  will).  The theorems are for any handlers and expeditions within that bound.
- `IntercampRequest`: one request for anybody of a trade, one for a person by name,
  two possible crews that share a person, stock for both requests or for one, one
  camp that may lack rations; two requests for every conflict between two transfers.  One
  irregularity in a behaviour (`Used`: an approval that fails on rations, or a stop);
  before it transfers are put back as often as one likes, but one at a time (`putBack`), and
  none after it.  An approval may also fail on a date, on goods or on people, at any time.
- `Inventory`: water runs out at the first ration, wood falls under its minimum
  at the first withdrawal; two dates and three cycles, so that one follows two that
  overlapped; two requests, one stop; requests give 2 where the stock is 1, so that a
  withdrawal below the stock happens.  Runs are symmetric.  Once handlers have
  overlapped the VIEW drops the ledger, which no step reads and no property asks
  for then.  An advance over more than one midnight, the same cycle dated alike
  several times, is in the theorems and not in the run.
- `Access`: three camps for two handlers, so that `AdmittedAtMost` can fail; two
  wrong answers use up the one code; four requests to the server; one stop.
- `Workforce`: two workers are the minimum of one occupation and the other has
  none; any start up to the names of the people; four rows are one more
  than a person can have sent by two handlers; two edits or changes of the camp, one stop.
  The camp starts ACTIVE, with or without an administrator.
- `DecisionTree`: trees of at most two splits with shares on either side of both
  limits, classes without `ACCEPT`, applicants on and above the thresholds; two
  trainings by hand besides those of the starts, of sound models or not; one file operation
  that fails, a read or a write, anywhere; any number of crashes.

### Disagreements between code and comments

- `transfer_hang`: `updateTransfer` awaits `syncTransferRations` inside its
  transaction (TS 600), and that function uses the repository's own connection.
  The synchronisation of a PUT that changes the planned dates therefore reads the
  row as it was before, finds nothing to write, and the PUT commits with rations
  that do not agree with its dates.  A later PUT that updates the row (a change of
  status, for one) finds them so: its synchronisation waits for the row its own
  transaction holds, and the transaction for the synchronisation.  A scheduled run
  that reaches phase 1 waits behind them, against "Phase 1 - status update - is
  always committed" (TS 830).
- `transfer_final`: "No se puede modificar un traslado finalizado" (TS 451) is
  checked on a read before the transaction.
- `transfer_history`: the CHECKs of `transfer_history` leave out `IN_TRANSIT`,
  which the documented `transfer_status_enum` has.  The history entry ends the
  transaction of the effects, so a scheduled departure keeps its status and loses
  its effects.  All other runs set `HistoryAcceptsInTransit` to `TRUE`, as the
  database documentation has it.

Three more were met while modelling; their modules have what the code does, and the
properties say what is left (section 2): a change of staff adds nobody
(transfer.repository.ts:570); an adjustment below the stock is booked and never refused
with "Insufficient camp inventory for this movement" (inventoryMovement.repository.ts:84);
a failing read of the index of models passes for an empty index, which is written back
(decisionTree.repository.ts:169).

### Fairness

- `Transfer!FairSpec` assumes strong fairness of `Proceeds(h)` for each handler (the
  event loop runs what can run, PostgreSQL grants a row lock to its waiters in turn,
  and the cron job fires every minute: `CronStarts` is among the steps) and weak
  fairness of `Tick`.  Requests need not arrive.  A step that waits for a lock is
  enabled again and again rather than continuously, hence strong fairness.
  `UntouchedCompletes` is checked for handlers that follow one another: with overlap
  a PUT after an edit of the dates may hang a scheduled run, as `transfer_hang` shows.  It says
  nothing of a transfer that requests keep putting back.  `PhaseOneAlwaysCommits` says that nobody waits
  for ever: a statement that fails, or a crash, ends a wait as well as a commit does.
- `EmailOutbox!Spec` assumes weak fairness of the work of each run (the job fires
  every minute, `sendMail` returns or throws) and of `Tick`.  `EveryEmailSettles`
  also needs `SendsWithinLease`: the lease of an entry does not run out on the run
  that has it.  The code sets no limit on how long a send may take and an
  administrator may advance the clock over a lease.  Without the assumption two
  runs whose sends outlive their leases can take the entry from each other and
  each save its own old count of attempts, for ever; and overlap as well as
  crashes allow more sends than `EMAIL_MAX_ATTEMPTS` ("max retries per outbox
  item", `README.md:108`), since only a save counts an attempt.
- `Expedition!Spec` assumes weak fairness of what a started handler still has to do
  (no statement waits for another handler), of the start of the hourly job
  (`@Cron` every hour) and of `Tick`.  Requests need not arrive.  `EveryExpeditionEnds`
  speaks of behaviours in which requests stop editing, which the bound `Used` sees to.
- `Workforce!Spec` assumes weak fairness of the steps of the job (`@Cron` every 30
  minutes).  Stops are bounded by `MaxFaults`; a job that stopped starts again.  The job does
  nothing for a camp that is not ACTIVE or has no ACTIVE `SYSTEM_ADMIN`, so `CoverArrives` asks
  that an occupation does not stay uncovered while the camp has both (`Attended`).
- The other modules assume nothing: their properties are safety.

## 4. Proofs

Each proof module states its theorems for every value of the constants under the
named assumptions of its module.  What TLC checks on the instance above is
proved for any number of handlers, rows and amounts.

- `TransferProofs`, whichever switches are on: `TypeCorrect`, `DebitOnce`, `DepartureSees`.
  `DebitedAtMostOnce` is not inductive: a handler that counted the movements before
  another one committed would debit again.  `IInv` adds `DepartureUpToDate`: who is
  about to commit a departure holds `manifestLock`, and nobody else commits while
  it is held (`ManifestLockStep`), so what it has counted is still true; its commit
  then adds a movement only when there is none (`ApplyDepart`), and every other
  commit leaves the counts alone (`ApplyOther`).
- `TransferProofs`, for handlers that run one by one and to their end, with a history
  that takes `IN_TRANSIT` (`OneByOne`, the switches of `transfer_serial`):
  `SettledWhenSerial`, `HistoryWhenSerial`, `ReserveKept`, `LifecycleWhenSerial`.  `Serial`
  says that all is quiet and the books are `Kept` as the status has them, or one handler
  is at work and what it has read so far (row, manifest, counts) is still so: at each
  stage of a PUT, a run or an edit it names the status the books follow until it
  commits.  Every commit then maps to a departure, an arrival or a cancellation of
  `TransferLifecycle`, and every other step to a stutter.  The last also asks for
  `InitialGoods > 0`: of an empty stock a departure takes nothing, and `debited` stays
  false.
- `EmailOutboxProofs`, without `SendsWithinLease`: `TypeCorrect`,
  `GivenUpAfterMaxAttempts`, `SentMeansAccepted` (an entry says `SENT` only of what
  the provider took).  What an entry says depends on what some run loaded
  long ago, so `IInv` bounds the counts the runs hold: each is below the maximum, at
  most the number of tries, and strictly below it once the run has made its own try.
  `OnceButForFaults` uses the invariant `Alone`: one run is at work, nothing
  left to it is `SENT`, and only the entry it is about to mark or one that is marked
  has used up its first send.
- `ExpeditionProofs`: `TypeCorrect` (which includes that no stale save uses more extra
  days than there are) and `ProvisionsOnce`.  `ProvisionInv` adds to the provisions of an
  expedition the handlers that are about to provision it: once there are some, no further
  handler counts none, so the sum stays within the number of handlers; and when one works
  at a time, nobody is about to provision again.  `OneAtATime`, `LootOnce`,
  `UnderWayProvisioned` and `PeopleFollow` share the invariant `Serial`: the one handler
  at work holds the row as it is (`Fits`); what is under way and not provisioned is what
  it has yet to provision (`RowOrderly`); whose status differs from what their expeditions
  call for is in what it has yet to synchronise, or was edited since (`PersonOrderly`);
  and nobody is on two expeditions unless an edit opened one (`Exclusive`).
- `IntercampRequestProofs`: `TypeCorrect`; `OneTransferAtATime`, by what the handler has
  found so far (`Findings`) being still true when it writes, because all other steps only
  free people; `RefusalsCancel`, by `Kept`: a transfer waits to leave for a refused
  request only while the handler of that request is about to cancel it, or if it was put
  back since, and an approval on its way, which may fail and be reverted, began with a
  request that was pending.  `NobodyIsLeft` needs no invariant but the types: the edits of
  a crew look at the transfer again as they write.  `LifecycleImplemented` uses `Story`,
  what the statuses of the request and of its transfer say of each other at each step of
  the handler, so that what the camps are shown (`Shown`) moves only as `RequestLifecycle`
  does; a transfer on its way keeps its people (`Staffed`), so one that is put back has
  them.  `CommitmentsKept` uses `Fits`, the sum of all that waits to leave and has not
  left: an approval adds its amount after a check of a sum at least as large, a departure
  takes as much off the sum as off the stock, and what was under way (`Gone`) is in
  `left`, so a return adds nothing.  All within the bound of `Used`.
- `InventoryProofs`: `TypeCorrect`; `AlertsBounded` and `CollectionsBounded`, by counting
  with the rows the cycles that are about to insert one (`AlertsCounted`,
  `CollectionsCounted`): such a cycle has found no row, so at that moment the others
  are all there is.  `BooksAreBalanced` uses `Balanced`: until handlers have overlapped, the
  stock and the books, the withdrawals that were not covered counted apart, differ by what the
  cycle at work has saved and not booked yet.
- `AccessProofs`: `TypeCorrect`; `ApprovedGivenAccess`, by `AccessGiven`: a copy
  of a row that somebody may still write back has its person and account too;
  `AdmissionsBounded`, by counting requests admitted and those some handler has
  checked and is about to admit, or holds an admitted copy of; `ResetsAreBounded`, in the
  same way, by counting with the changes and attempts of a code the resets that have
  read it and are about to write (`ResetsCounted`); `SessionsFollowAccounts`, by `Serial`: a
  session is in keeping with its account, or it is among those the one handler at
  work is about to end.
- `WorkforceProofs`: `TypeCorrect`; `MinimumIsKept`, by `AllSpared`: the workers whom no
  handler is about to assign away, plus the handlers, are never fewer than the minimum and
  the handlers that are to pick one more; `NobodyCoversMore`, by `FewSent`: what covers a
  person has and what is being written for them, together.
- `DecisionTreeProofs`: `OneModelActive`.  While trainings follow one another and see what they
  replace, active records are single in the file and in what is about to be written, and
  once a model was deactivated no active one of its camp and name is left until its successor
  is written.  A read that fails anywhere else only takes records away; one that hides what
  is to be replaced sets `disturbed`, one that hides what is to be rewritten `spoilt`.
  `EveryCampServed`, by `Covered`: what the start has seen to (`Due`) has a model in the
  file, or in what a training is about to write over it, but for the one it replaces.
  `AdviceIsGiven`: a request that has met no training, no failing read of its own and no
  unsound model finds the file as `Served` says, and its models still sound.
  `DecidesClearly`: a walk down a tree ends in a leaf and yields a
  confidence between 0 and 1 (`LeafDistributionIs`, `PathConfidenceIs`,
  `ReachableIs`); then a score above 70 takes a rounded share of 71 or more and a score
  below 30 one of 29 or less, for doubts only pull towards 50 (`FuzzyIs`), and a
  share is at most half a per cent from what it is rounded to (`PercentIs`).

Two tools those proofs have in common.  A fold over a set has no lemma
without induction, so `Total` is shown to be a sum by a smallest subset for which two
sums would differ (`Smallest`, from the well-foundedness of strict inclusion).  A recursive
definition on the positions of a finite tree is shown to have a solution by a
largest part on which it has one (`Recursion`), and its values to be of a kind by the
largest position that is not (`FromTheLeaves`).

`TreesAssumption` is what `DecidesClearly` rests on: finite trees in which a split has
both children, whole thresholds and features, shares in thousandths, the same classes in
each leaf.  A real training meets it up to the unit: ml-cart shortens the array of a leaf
by its trailing classes, of which there are none in it.

Only model-checked: `UntouchedCompletes`, `EveryEmailSettles`, `EveryExpeditionEnds`,
`CoverArrives` and `PhaseOneAlwaysCommits`, which depend on fairness or on ENABLED.

## 5. Not modelled

The modules cover the protocols of this code, what several steps or handlers can get
wrong.  They map about a fifth of its lines.  Most of the rest is one thin layer
repeated for each table: controllers that check a role and call one service method,
DTOs, queries with filters and pages, templates of emails, migrations
and seeds.  A model of one of these would repeat it.

- Deletions and the CRUD of transfer history and delivered resources; transfers made by
  `POST /transfers` and people added to a manifest by hand; what each section
  above leaves out.
- Notifications and achievements: inserted after the fact, read by no other code.  An
  achievement is checked and then created under a unique key, so an overlap
  ends in an error and no second row; the count of days without injuries
  reads a history that only a refused write would fill.
- System time: its offset is an input of every job (`Tick`, `Advances`, `Moves`).  Its
  saves run in the background in no order, so a restart may find an older offset.
- Camps, users other than admitted applicants, occupations, resource types, logs,
  dashboard, storage, encryption: no protocol of their own.
- The triggers of migration 1776000000000, which compare the camps of a row and of its
  account: after a transfer has moved an account, rows of the old camp can no longer be
  updated.  The modules have one camp or leave the accounts of travellers out.
- Interactions across modules other than those named in section 2: an expedition and a
  transfer write the same status of a person; transfers, expeditions and cycles
  draw on one stock.  Each module takes the others as its environment, or as amounts.

## 6. Plan

Done, in this order: `Transfer` and its lifecycle; `EmailOutbox`; `Expedition`;
`IntercampRequest` and its lifecycle; `Inventory`; `Access`; `Workforce`;
`DecisionTree` and `Scoring`; a proof module for each.

Left:

1. Proofs about handlers that do overlap: how far `Transfer` departs from
   `TransferLifecycle` when a PUT and a run are both at work.
2. The status of a person under expeditions and transfers together.
3. Achievements and notifications, if they come to be read by other code.
