# nfc-timesheets in TLA+

Cleaners tap an NFC tag at the door of a building: the first tap opens a shift, the next one
ends it, and what the server stores in the table `shifts` is what they are paid for. The phone
may have no signal for hours, the worker may forget to tap out, an administrator corrects rows
by hand, and a timer ends what nobody ended. Around that core a company may ask for a photograph
at the end of a shift, plan shifts ahead, let an agent edit the plan, order materials, move its
tags from door to door, and sign people in and out. This directory models those parts, checks
them with TLC and proves the main facts about the server's tables with TLAPS.

    tlc -workers 2 -config ledger_admin.cfg MCShiftLedger.tla     # any run: see section 4
    tlapm ShiftLedgerProofs.tla                                   # any proof module: see section 5

## 1. Inventory

| Component | State it keeps | Operations | Talks to |
|---|---|---|---|
| **Server shift ledger** `server/routes/app.js`, `admin.js`, `ops/sql/autoclose.sql` | table `shifts`; between two queries, what a handler has in memory | open, close, resolve; create, patch; the eight-hour timer | every client below; `reporting.js` reads what is payable |
| **Android offline queue and sync** `ShiftStore`, `SyncPlan`, `ShiftSync`, `ShiftSyncJob`, `TimeSheetViewModel`, `Api` | local rows (SQLite), the cookie jar, coroutines | tap, Stop, start without a tag, resolve, refresh, job, sign in and out | the ledger, over a network that loses answers |
| **Shift evidence** `shift-evidence.js` (twice) | policy, challenge, photo, location samples per shift | set policy, challenge, upload, sample | close and resolve ask it for a proof, inside their transaction |
| **Planned-shift schedule** `schedule.js` | planned shifts with a version | create, update, cancel under an advisory lock | the agent's tools call the same handlers |
| **Agent access** `agent/*` | tokens, reserved calls | reserve, execute, complete, replay | the administrator's routes, inside its own transaction |
| **Material requests** `materials.js`, `MaterialSync`, `MaterialQueue` | requests with a status; the phone's outbox | ask, approve, reject, order, arrive, seen | the P&L's material pool |
| **Tags, zones, operators** `operator.js`, `admin.js` | reported cards, zones, aliases, bindings, proofs | report, resolve, bind, unbind, verify, stand down | open and close resolve the building through them |
| **Sign-in, enrolment, sessions** `routes/auth.js`, `lib/auth.js`, `admin.js` | code hashes, one-time passwords, addresses, sessions | issue, revoke, redeem, request, verify, release, let go | every request's identity |
| **Contracts, revenue, reporting** `reporting.js`, `prorata.js` | contracts, revenue entries | SQL aggregation, the pro-rata split | reads the ledger and the requests |
| **iOS client** `Sync.swift`, `ContentView.swift` | the same queue in SwiftData, on one actor | as on Android | the ledger |
| **Workspaces, invitations** `workspaces.js` | tenants, invitations | provision, invite, accept | sign-in |
| Portal grants, shift signals, web panel, messages, geocoding, telemetry, operations | — | read-only views, pure I/O, scripts | — |

What is hard in it, and what makes each part correct:

* **Ledger.** Open, create and patch are *several* transactions each; close and resolve are one,
  under a row lock; the timer is one `UPDATE`. So a patch writes back what it read before a
  tap-out committed, and an answer to an open is put together from three snapshots. Correct means:
  one open shift a worker; an ended shift has a positive length and is not in the future; an end
  changes only by a resolution or an administrator; nothing is payable whose end nobody confirmed;
  nothing stays open past the window for ever.
* **Phone.** A refresh, the platform job and an online flow run at once over the same rows with no
  lock. Each has one request in flight whose answer may be lost, the process may be killed at any
  point, the phone changes hands, its clock is wrong, the tag disappears. Correct means: the hours
  paid are those of the taps, and each is an end the worker confirmed; what the phone believes
  delivered is stored; a half that has landed is accepted again; every tap arrives, or its row shows
  one of the few refusals the code makes final; each shift is filed under the worker who tapped.
* **Evidence.** Challenge, upload and close race on one shift; the proof a close names must be a
  fresh one of that shift and must stay the one that was shown.
* **Schedule.** An advisory lock makes check and write one; a calendar may be old, a worker or a
  building may be deactivated between the check and the COMMIT. Correct means: nobody is planned in
  two places, no edit is lost, nobody who left is assigned and no building that closed is served.
* **Agent calls.** Reserve before an effect; a crash leaves the reservation pending; a retry comes
  while the first delivery still runs. Correct means: a call takes effect once, two answers to it
  never disagree, every delivery ends.
* **Materials.** A `POST` without a key of the phone's, and a read-then-write of a status by two
  administrators, on a phone that changes hands between what is typed and what is posted. Correct
  means: nothing written is lost, a text is filed under its author, every copy is a lost answer, a
  cost keeps its month.
* **Zones.** A binding changes between the read of a door and the row that names it. Correct means:
  a card becomes one thing; no shift opens at a door nobody scanned; a proof is of the building the
  zone is in; a shift's door never moves to another building under it.
* **Sign-in.** Match and claim are two statements, removal of a worker and release of an address
  are two more. Correct means: a credential buys one session or none; the audit columns describe
  one code; a password follows its address; who is let go is signed out.

`PROJECT.json` lists the hazards one by one, at their lines.

## 2. Plan, and where it stands

1. *Done.* `ShiftLedger` and the abstract specification `Payroll` that it implements;
   `PhoneSync`, which EXTENDS the ledger, so that the phone's requests land as the ledger's own
   actions and both run in one state space.
2. *Done, but for location samples.* `ShiftEvidence`: challenge, upload, close and resolution under
   the row lock, and the phone's camera flow.
3. *Done.* `Schedule` and the abstract `Roster` that it implements; `AgentCalls`, which EXTENDS the
   schedule: the agent's calls run its own transactions.
4. *Done.* `MaterialRequests` at the server, `MaterialOutbox` on the phone, which EXTENDS it, and
   `ProRata`, the split of the pool.
5. *Done.* `Zones`.
6. *Done, but for the Apple door and the rate limiters.* `SignIn`.
7. *Done.* Proofs of every safety property of the modules, of the composed systems (phones over the
   ledger, agents over the schedule) and of the split, see section 5.

What remains is under "Not modelled", with the reasons.

## 3. The modules

In every module one action is one database transaction or one step of a coroutine between two
suspensions; a handler of several statements keeps what it has in memory in a variable (`req`,
`edit`, `tx`, `hnd`, `pass`, `flow`, `thread`), and a death of the process loses it. Variables
marked *history* exist in no table: properties speak about them, no action reads them as the code
would. A definition marked *Mutant* is part of no behaviour: it is a plausible mistake in the
definition that follows, and TLC finds the property named in `PROJECT.json` violated when it takes
its place.

### ShiftLedger

One action is one database transaction; `req` is what a handler carries from one to the next and
`Restart` loses it.

| Variable | Code |
|---|---|
| `shift` | table `shifts`: from a row's id (the phone's `client_uuid`, or a slot for a row typed by hand) to worker, building, start, end (`NoTime` is NULL), `auto_closed`, `corrected_at IS NOT NULL`, `manual` |
| `req` | memory of a request between two of its queries |
| `now` | the server's clock |
| `endBy` | history: what the server was told of the end the row has now: a tap, a declared building switch, the timer, a resolution, an edit |

| Action | Code |
|---|---|
| `OpenShift`, `OpenConflict`, `OpenFindKey`, `OpenFindOpen`, `ConflictAnswered` | `openShift`: `INSERT … ON CONFLICT DO NOTHING`, then the two look-ups |
| `CloseShift`, `ResolveShift` | `closeShift`, `resolveShift`: each inside `transaction(…)` |
| `AutoClose` | `ops/sql/autoclose.sql` |
| `CreateCheck`, `CreateInsert` | `createShift`: the overlap check, the INSERT |
| `PatchRead`, `PatchWrite` | `patchShift`: SELECT and merge, UPDATE of every column; the unique index may refuse it |
| `Tick`, `Restart` | the clock; the API process |

A refused request changes nothing and is no action, except where the refusal takes more queries. The
worker's routes run in the name of any account (`WorkerStep`): the server knows keys and cookies,
not phones, and an administrator may move a shift to somebody else, who then ends it. `endBy` is
what the request said; whether the phone said it truly is for `PhoneSync`, which keeps its own
history of what the worker did. `CLOCK_SKEW_MS` is the constant `ClockSkew`, 0 in the runs and any
natural in the proofs.

### PhoneSync

EXTENDS ShiftLedger. `rows` is `ShiftStore`, `session` the cookie jar, `drift` the phone's clock
less the server's, `place` what the server makes of a building's tag, `tapping` what the handler of
a tap has in memory, and `thread` what a coroutine has in memory (`Memory`): the worker it began
for, the steps of its plan that are left, the one in flight, the cookie that request took, the
answer it got, and what an online flow wants. A plan is a set: `Before` is the order of
`SyncPlan.plan`, and a pass sends a first step of what is left. Three variables are history:
`tapped`, the instants at which the worker ended a shift in any way; `confirmed`, those of them
where the worker said so, at that building or with Stop; `overwritten`, the shifts whose local
`auto_closed` an older answer has cleared.

| Action | Code |
|---|---|
| `BeginTap` | `handleTap`: the account and the row that runs, both read now |
| `TapIn`, `TapOut`, `TapElsewhere`, `Arrive` | `writeTap`, which looks again: a start; an end; at another building an end and then, a second statement, a start |
| `EndOnline`, `StartOnline`, `ResolveOnline`, `Confirm` | a tap-out that needs a photo or whose policy is unknown, Stop; start without a tag; resolve; the last request of each |
| `BeginRefresh`, `Ask`, `AskFails`, `Adopt` | `refresh` → `adoptServerOpenShift`: the answer is held before it is applied |
| `BeginJob`, `Plan`, `Send`, `EndPass` | `ShiftSyncJob.pass` → `SyncPlan.plan` → `ShiftSync.push` |
| `Land`, `LookUp` | the request at the server: place checks, then the ledger's action, then its answer |
| `Deliver`, `Mark`, `Lose` | the answer: `applyServer`, then `markOpenSynced` or `markCloseSynced`, a write of its own; a refusal; a network failure with or without effect at the server |
| `PhoneDies` | the process is killed between any two of these; rows and cookie are on disk |
| `SignIn`, `SignOut`, `SetPlace`, `SetClock` | the account, the tag and the clock change under all of it |

What is left out of it, on purpose:

* `Admin = {}` (`PhoneAssumption`): phones are never beside an administrator's PATCH or create.
  `ledger_admin` has those beside the requests of phones, without the queue that makes them.
* A request that timed out on the phone does not land later.
* Two taps never carry the same millisecond (`rows[k].start # phoneNow`).
* Which unused key a tap takes makes no difference, so it is a fixed one, and a tap begins only
  where one is left; a key's owner (`Owner[k]`) is the worker signed in on the phone that draws it.
* The photo is abstracted to whether the shift needs one (`Strict`): such a tap-out goes online,
  and the proof it carries is accepted. `ShiftEvidence` has what goes on in between.
* `SignOut` also stands for the sign-out after a 401. A cookie that is no longer the phone's is
  answered or refused: it may be revoked by then.
* `missing_location` and an unbound tag are `unknown_location`; a close carries no location.
* Both clocks stay within `0..MaxTime`.

### ShiftEvidence

A module of its own beside the ledger, with the columns of `shifts` that the photograph depends on
and none of the others, so that two phones, an administrator and the timer fit into one run. The
server's part of each request is what `ShiftLedger` has for it, with the proof added.

| Variable | Code |
|---|---|
| `policy` | `shift_policies.proof_of_work_required` (no row is FALSE) |
| `shift` | table `shifts`: start, `proof_of_work_required`, ended or not, `auto_closed`, `corrected_at IS NOT NULL`, `proof_id`, `proof_challenge_id`, `proof_challenged_at` |
| `photo` | table `shift_proofs`, one row a shift; `asked` is history |
| `patch` | what a PATCH has read and not yet written |
| `flow` | the coroutine under `_evidenceBusy` on each phone: which request or camera it waits for |
| `row`, `saved` | the local row (none, open, ended) and its `proof_id` |
| `endBy` | history: who ended the shift last |

| Action | Code |
|---|---|
| `SetPolicy` | `setPolicy` |
| `OpenRead`, `OpenInsert` | `openShift`: the policy's query, the INSERT |
| `BeginEnd`, `BeginResolve` | `handleTap`, `manualClose` → `closeWithEvidence`; `resolve` |
| `AskChallenge`, `Shoot`, `Upload` | `challenge`; `deliverEvidencePhoto`; `upload` |
| `PostClose`, `PostResolve` | `closeShift`, `resolveShift` with `requireShiftProof` |
| `Adopt`, `GiveUp` | `adoptServerOpenShift`; any failure that ends the flow |
| `AutoClose`, `PatchRead`, `PatchWrite`, `Tick` | the timer, the administrator, the clock |

A request and its answer are one step: nothing but its own flow reads what the phone makes of the
answer, and `heard` says whether it came. An answer that is not heard leaves the request where it
is, which stands for the HTTP stack's own resend and, with `GiveUp`, for a failure. What is left
out:

* Location samples, the format of the JPEG and the administrator's views.
* A photograph's id is its challenge's: an INSERT answers a challenge at most once. An id nothing
  refers to any more is used again, which keeps the ids few.
* The end's instant, which the ledger has. `TTL` is `EVIDENCE_TTL_MS`, `ClockSkew` the five seconds
  `captureTime` allows, `Drift` the distance of a phone's clock from the server's.
* A shift that needs no photograph ends here by an online request, too; `PhoneSync` has its queue.
* Each `Office` member is one PATCH, not an administrator who sends many.

### Payroll

What the rest of the company relies on, without clocks, requests or windows: who is on which shift,
which ended shifts are settled or in doubt, which ends a person has accepted, which shifts an
administrator is editing. `ShiftLedger` implements it under the mapping `OnDuty`, `InDoubt`, `Paid`,
`Accepted`, `BeingEdited` (`Pay` at the end of the module). An edit may do what an administrator may
do, but to the shift it names and to no other; everything else only moves forward. The abstract
specification also says what the code really promises about a *second* guess: `TimeOut` settles a
shift whose end was accepted once before, see section 4.

### Schedule, Roster and AgentCalls

| Variable | Code |
|---|---|
| `plans` | `planned_shifts` with `version` and `cancelled_at IS NOT NULL`; the worker, the building and the period are the plan's content |
| `lock` | `pg_advisory_xact_lock(company)` |
| `tx` | what a transaction has checked and is about to write |
| `seen` | the row a client's calendar or last answer showed it |
| `active` | `workers.active` and `locations.active`, by id |
| `calls`, `hnd` | `agent_tool_calls`; what `execute` in `dispatch.js` has in memory |
| `ran`, `told` | history: committed transactions of a request id, answers sent |

| Action | Code |
|---|---|
| `Begin`, `Commit`, `Abort` | create, update, cancel in `schedule.js`: the lock and the checks; the write and the COMMIT; a ROLLBACK |
| `Calendar`, `Deactivate`, `Reactivate`, `Tick` | the list; a worker's or a building's row, which `FOR SHARE` holds (`Shared`); the clock |
| `Reserve`, `Look` | `INSERT … ON CONFLICT DO NOTHING`; the record of an id that is taken |
| `Invoke`, `Complete`, `CompleteRepeat`, `Refuse`, `MarkFailed` | the handler inside the transaction that completes the record; the failure, recorded after the ROLLBACK |
| `Die`, `PanelStep` | the process; an administrator's session beside the agent's |

`Roster` is what the office relies on: one assignment changes at a time, checked against the roster
and the staff and buildings of that very moment, and what was dropped stays dropped. `Schedule`
implements it (`Office`): the standing plans are `duty`, the cancelled ones `dropped`, `active` is
the staff and the buildings. It has no lock, no versions and no clock. That a shift starts in the
future is checked before the COMMIT and may be out of date by then, since no lock stops the clock,
so the roster does not promise it.

Left out: the note of a plan, which no check reads; tokens, scopes and the validation of arguments;
the other tools of the catalogue, whose handlers run in the same way.

### MaterialRequests, MaterialOutbox, ProRata

| Variable | Code |
|---|---|
| `requests` | `material_requests`: worker, status, the month of `ordered_at`, `arrived_at`, `seen_at` |
| `edit` | what `patchMaterialRequest` has read and not yet written |
| `session`, `outbox` | the cookie; `material_outbox` with `blocked` |
| `typing`, `adopting` | who was signed in at a `submitMaterial` or a `startMaterials` whose block has not run yet |
| `pass` | what `MaterialSync.push` has in memory: whom it began for, what is left of its plan, the POST that is out |
| `late` | POSTs the phone has given up and the server may still see |
| `typed`, `inDoubt`, `dropped`, `astray` | history: entries and their authors, answers never heard, entries `adopt` deleted, entries posted after the worker of the pass had signed out |

| Action | Code |
|---|---|
| `File`, `MarkSeen`, `PatchRead`, `PatchWrite` | the routes of `app.js` and `admin.js`; `materials.js` has the table of moves |
| `Submit`, `Enqueue` | `submitMaterial`, which reads the account; the block that writes the row under that name |
| `StartMaterials`, `Adopt` | `startMaterials`, which reads the account; the block that deletes everybody else's rows |
| `SignIn`, `SignOut` | the account |
| `Begin`, `Plan`, `Send` | `syncMaterials` behind `materialPassRunning`; `MaterialQueue.plan`; the POST with the cookie of that moment |
| `Land`, `LandLate`, `Heard`, `StopPass`, `RetryLater`, `Block`, `Unavailable` | the request at the server; the answer as `MaterialQueue` classifies it |
| `Die`, `Restart`, `NextMonth` | the phone's process, the server's, the calendar |

`ProRata` is `splitProRata`: floors, then one cent to each of the largest remainders. It has no
state; `SplitIsExact` is an assumption of `MCMaterialOutbox`, so TLC evaluates it for every pot up
to the bounds before the run starts, and `ProRataProofs` proves it for every pot. (The code
multiplies in `BigInt`, so integers are what it computes with.) Left out: cost, note and product of
a request, which no step reads, and the cached list that the phone shows. A text is an author's from
the moment its row is on disk: what `Submit` has read and `Enqueue` has not written is lost when the
process dies.

### Zones

| Variable | Code |
|---|---|
| `tag`, `alias`, `zone`, `live` | `reported_tags`, `tag_aliases`, `zones` (building, active, `verified_at IS NOT NULL`), the active `locations` |
| `shift` | `shifts`: building, start and end zone, open or not |
| `req` | what a handler holds between two statements |
| `scanned`, `proof` | history: cards an operator has scanned; the building the scan behind a stamp was of |

| Action | Code |
|---|---|
| `ReportTag`, `ResolveTagToZone`, `AliasRead`, `AliasWrite` | `reportTag`, `resolveTagToZone`, `resolveTagToExistingZone` |
| `BindZone`, `UnbindZone`, `Scan`, `Stamp` | `bindZone`, `unbindZone`, `verifyZone` in its two statements |
| `SetZoneActive`, `SetBuildingActive`, `DeleteLocation`, `StandDown` | the office's switches; a building takes its zones with it |
| `PatchRead`, `PatchWrite` | `patchShift`, as far as doors go |
| `OpenRead`, `OpenInsert`, `CloseRead`, `CloseCheck`, `CloseWrite`, `CloseAnywhere` | `openShift`, `closeShift`, the timer |

The foreign key `(zone, building)` of migration 006 is `References`: a write that breaks it is
refused, which is what keeps a shift's door where it was. Names and serial numbers, which only add
refusals, and the operators' worklist, a query, are left out.

### SignIn

Workers and operators have tables and routes that mirror each other, as numbers and mailboxes do;
`Person` and `Address` stand for both. Two kinds of credential exist: an enrolment code is a column
of a person's row, a one-time password is a row that belongs to an address.

| Variable | Code |
|---|---|
| `active`, `code` | `workers`, `operators`: active; `enrolment_code_hash`, its expiry, `enrolment_code_redeemed_at` |
| `claim` | `phone_identities`, `email_identities` |
| `challenge` | `otp_challenges`, `email_challenges`: address, expired, attempts used up, consumed |
| `sessions`, `req` | the session tables; what a handler holds between two statements |
| `issued`, `last`, `claimed`, `bought`, `withdrawn`, `shared`, `late` | history |

| Action | Code |
|---|---|
| `IssueRead`, `Mint`, `RevokeCode`, `CodeMatch`, `CodeClaim` | `issueEnrolmentCode` → `mintEnrolmentCode`; `revokeEnrolmentCode`; `codeAuth`, `operatorCodeAuth` |
| `AskRead`, `Ask`, `PasswordMatch`, `WrongAnswer`, `PasswordClaim` | `smsRequest`, `emailRequest`, `smsVerify`, `emailVerify` and the operators' four |
| `CreateSession`, `EndSession` | `createWorkerSession`, `createOperatorSession`; logout and expiry |
| `Deactivate`, `Reactivate`, `LetGo`, `DestroySessions` | `upsertWorker`; `deleteWorker`, `deleteOperator` in two statements |
| `PutAddress`, `ReleaseRow`, `ReleaseHalf` | `putWorkerPhone` and its mirrors, one transaction; `deleteWorkerPhone` and its mirrors, two statements |
| `CodeExpires`, `ChallengeExpires`, `Die` | the clock; the process, between any two statements |

Left out: the Apple door, the in-memory rate limiters, what is sent by SMS or email and whether it
arrives. Values of codes are never drawn twice.

## 4. The runs

| Run | Instance | Shows |
|---|---|---|
| `ledger_admin` | 2 workers, one phone key, one typed row, one administrator, clock 0..2, window 1, the timer fair | types; `OneOpenPerWorker`, `WindowsAreSane`, `CorrectionHasCause`, `EndIsFinal`, `FlaggedIsPaidByAPerson` under every interleaving of a two-transaction patch with taps and the timer; `ImplementsPayroll`: each step is one that `Payroll` allows; `NoneStaysOverdue`, although the administrator may reopen for ever |
| `phone_two_passes` | a refresh and a job over one row, two accounts, a tag that goes unverified or is deleted, clock 0..2, window 1 | `PaidAsTapped`, `DeliveredIsStored`, `OpensItsOwnRows`, `LandedHalfIsAccepted` |
| `phone_switch` | a refresh and an online flow beside the taps, two buildings, two keys of which one needs a photo, drift 0..1, clock 0..1 | `PaidAsTapped`, `OnlyOverwrittenIsAGuess` |
| `phone_delivery` | the job, two shifts, a tag that is deleted, drift 0..1, the timer, fairness | `EveryTapIsDelivered` |
| `switch_paid` | a refresh beside the taps, two buildings, two keys, the right time | violated: `NoEndIsAGuess` |
| `evidence_photo` | one shift, two phones with clocks −1..1, one PATCH, the timer, three ids, clock 0..1, no time to live | `SettledShowsItsProof`, `PhotoAnswersItsChallenge`, `ConsumedProofIsFresh` |
| `evidence_ends` | one shift, one phone with the right time, five ids, clock 0..2, time to live 1, fairness | `ShiftEndsOnThePhone` |
| `schedule` | two clients, two plans, two workers, one building, three periods (two overlap, one touches), clock 0..1, two versions | `NoDoubleBooking`, `EditsSeeWhatTheyReplace`, `ImplementsRoster` |
| `agent` | two deliveries of one call beside a panel session, one plan, one worker, one building, fairness | `RecordIsTrue`, `AnswersAgree`, `OneAtWork`, `CallsEnd` |
| `materials` | two workers on one phone, two passes, one entry, two requests at the server of which administrators handle one, two administrators, two months, one lost answer, one call of the screen under way | `NothingWrittenIsLost`, `CopiesAreLostAnswers`, `FiledUnderItsAuthor`, `SpendHasItsMonth`, `MonthNeverMoves`, `OnlyStaleWritesLeaveTheTable`; before it starts, `SplitIsExact` for pots up to 12 cents over three buildings of up to 4 seconds |
| `zones` | an old card and a new one, two buildings, an operator's phone, the office, one tap | `CardMeansOneThing`, `TappedDoorsWereScanned`, `ProvedWhereItHangs`, `HistoryKeepsItsBuilding` |
| `sign_in` | a worker and an operator who may share one address, two codes, one password, two requests | `CredentialsBuyOnce`, `TrioDescribesOneCode`, `LetGoMeansSignedOut`, `PasswordsFollowTheAddress` |

Why the bounds are enough. The races are between *two* writers of *one* row or of one worker's
rows: a phone and an administrator, a refresh and a job, a request and the timer. Two workers let a
row move and a phone change hands; two keys are an old shift and a new one, the least for an open
refused because of an older shift, for a building switch and for a plan of three steps; a clock of
three values has a start, an end and a window that runs out between them.

In `phone_switch` the clock has two values, so that its timer never fires: an end by the timer is
flagged in the same UPDATE, and `phone_two_passes` has it. The two buildings are symmetric, as
nothing tells one from the other. `phone_delivery` has the clock and the timer, because an open that
is refused waits for the timer to end the older shift, and it asks that the bounded clock leaves
the timer room for that (`LeftAlone`).

In `evidence_photo` a time to live of 0 makes a photograph and a challenge expire with the next
tick, the shortest run in which one outlives the other; three ids are the consumed photograph, a
newer challenge and the one in a second phone's hand, and a challenge that would need a fourth is
not issued. In `evidence_ends` at most four ids are referred to when a challenge is asked for (the
photograph, the consumed one, the row's challenge, the saved proof), so a fifth is always free; the
clock stops at 2, so a photograph expires before its close a bounded number of times.

In `schedule` two plans are what overlaps, and two versions are a calendar that is old (`MaxVersion`
stops an edit that would count further). In `agent` two deliveries of one id are a first one and its
retry; a third would only do what the second does, since every delivery is alike. In `materials` the
second month separates a spend's month from the one it was ordered in first, and two requests are an
entry and its copy. In `zones` two buildings let a zone move, and the new card becomes a zone or an
alias of the old one. `sign_in` draws two codes, the withdrawn and the next; its constraint
`OfficeAboutWorkers` keeps the office's codes and removals to the worker's row, which it treats as
the operator's. In `materials` one block of the screen is under way at a time (`MaxCaptured`); the
other worker may sign in before it runs, which is the race, and workers are symmetric. Symmetry
(`SYMMETRY` in a cfg) is declared for ids no operator orders and in runs of safety alone.

The bounds only limit the runs: what section 5 proves holds for all values of the constants.

### Fairness

* `ledger_admin`: weak fairness of `AutoClose`. systemd runs it every fifteen minutes and at boot
  (`Persistent=true`). Nothing else is fair; the administrator may do anything for ever.
* `phone_delivery`: weak fairness of the job's own steps, since `SyncScheduler.ensure` re-arms the
  job while something waits and the platform runs it; strong fairness of `Land` and `Deliver` *per
  row* (`Signal`), which says that again and again there is a signal for long enough to answer a
  request about that row; and weak fairness of the server's timer and clock. Losses may go on for
  ever between. Taps, sign-ins and places are not fair: the property asks only for what follows once
  the phone is left alone (`LeftAlone`) and its process is killed no more. A process killed again
  and again before each mark delivers nothing, and no fairness of the platform excludes that.
* `evidence_ends`: strong fairness of the worker's taps, of the photograph
  taken at the right time and of each request being answered. It is a premise about the worker and
  the signal, as the property is about what such a worker gets; expiry, lost answers, cancelled
  cameras, process deaths, the timer and the policy are free. A phone whose clock is off by more
  than `captureTime` allows has every photograph refused, so the property is not claimed for it.
* `agent`: PostgreSQL grants an advisory lock in the order it was asked for, so a delivery whose
  step is possible again and again takes it (strong fairness of each delivery), and a session that
  holds the lock ends its transaction (weak fairness of the panel's steps while the lock is held).

### Seen with the same modules

One run shows a property that the repository states and the code does not keep.

* `switch_paid`: a worker who leaves without tapping out and taps at the next building ends the
  first shift with `auto_closed`, so that somebody confirms its end. `refresh`, which follows the
  tap, asks for the open shift first and pushes afterwards (`TimeSheetViewModel.kt:674`); the server
  still has the first shift open and unflagged, `applyServer` copies `auto_closed = 0` over the
  local flag (`ShiftStore.kt:168`), and the close goes out as a plain tap: payable, at the instant
  of arrival elsewhere. `app.js:289` says that "no shift reaches payroll with an end time nobody
  confirmed", and `TimeSheetViewModel.kt:854` that the flag keeps this invariant. `NoEndIsAGuess` is
  that sentence, and TLC violates it with one refresh at a time and a right clock; no answer need
  be lost.
  `OnlyOverwrittenIsAGuess`, checked and proved, says that this is the only way: a flag cleared by
  an answer from before the switch.

The other runs pass: their properties say what the code keeps. What follows are places where a
comment or a test of the repository promises more than the code does. Each is a behaviour of the
modules; the property nearest to it sets it aside by name.

The ledger and the phone:

* `corrected_at` survives a reopening (`admin.js:2361`), so the next end by the timer looks
  confirmed; `app.js:289` says that no end nobody confirmed reaches payroll.
  `FlaggedIsPaidByAPerson` names the case: a machine's end is paid only where a person had accepted
  an end of that shift before.
* A tap-out that commits between the SELECT and the UPDATE of a PATCH is overwritten, also when the
  PATCH omits the end (`api.ts:1152` says an omitted field keeps its value). One that
  read an accepted end of the timer's writes it back over another's reopening (`AcceptedWhenRead`).
* `createShift` lets a hand-entered shift overlap one opened after its check (`admin.js:2279` says
  it cannot).
* A pass that outlives its account sends with the next worker's cookie (`Api.kt:578`;
  `SyncPlan.kt:24` says a row is never pushed under another session). `OpensItsOwnRows` speaks of
  passes that keep their account.
* A tap-out offline on a row never delivered only shows an error (`TimeSheetViewModel.kt:782`: a tap
  always produces a row).
* An open that landed is answered 422 when it is retried after its tag was removed, which is
  terminal; `409 conflict` is terminal too (`ApiFailure.kt`), although `app.js:273` says that
  retrying works; so is `timestamp_in_future`, which passes with time. `LandedHalfIsAccepted` sets
  the first two aside (`SetAside`), each for an open only, and `EveryTapIsDelivered` all three and
  the block of another account's rows (`Stranded`).
* A row blocked as another account's is never unblocked (`TimeSheetViewModel.kt:631` says it goes
  out at the next sign-in). A shift the server closed goes on running on the phone, since
  `adoptServerOpenShift` does nothing on null.

The photograph:

* Once an administrator has ended a shift that needs a photo, the challenge is refused and the close
  that would be answered is never sent (`TimeSheetViewModel.kt:225`; `validate.js:629` says that a
  worker who is clocked in must always be able to clock out). `ShiftEndsOnThePhone` is checked
  without an office.
* Photographing a flagged shift again replaces the photograph its end consumed
  (`028_shift_evidence.sql:32`: only the unconsumed one).

Materials, zones, sign-in:

* A PATCH that read an older status writes it back: a request leaves a status `materials.js:44`
  calls terminal. `OnlyStaleWritesLeaveTheTable` says that this is the only way out.
* A `POST` goes out under the cookie of its moment (`Api.kt:578`), so an entry may be filed under
  the next worker, against `MaterialSync.kt:30` and `MaterialQueue.kt:109`. `FiledUnderItsAuthor`
  names the entries posted after their worker had signed out (`astray`), the only ones; and an entry
  set back by `RETRY_LATER` arrives after later ones (`MaterialQueue.kt:175`).
* A stamp is written without a second look at the building (`operator.js:171`): a zone moved between
  the scan and its stamp is verified where it was never scanned, against `operator.js:292`.
* A session opened by a sign-in that was under way when a worker was let go, or left by a death
  between the two statements of the removal, works again when the worker is reactivated. A code
  stays live on a deactivated worker's row (`admin.js:731`: not a state worth being able to reach).
* A worker and an operator may share an address on purpose (migrations 007 and 020). Their passwords
  are the address's, so the one asked for at one door opens the other, and giving the address up by
  one of them leaves them valid. `PasswordsFollowTheAddress` sets shared addresses aside.

## 5. What is proved

TLAPS checks eight modules to the last leaf. Each theorem holds for every value of the constants
that satisfies its module's assumption: clocks, windows, skews and bounds are naturals, `None` is
apart from what it stands beside, ids of different kinds differ. TLC evaluates the assumptions on
the runs.

**`ShiftLedgerProofs`** (from `LedgerAssumption`)

| Theorem | States | Argument |
|---|---|---|
| `TypeCorrect` | `[]TypeOK` | inductive by itself: one step per action; the rows close, resolve, the timer and the administrator write are rows |
| `OneOpen` | `[]OneOpenPerWorker` | inductive with types: only an insert of an open and a patch can open a row, and each is refused when another is open; `NoNewOpen` covers the others |
| `EndsAreFinal` | `EndIsFinal` | action by action (`OnlyMoves`): a close finds the row open, the timer takes open rows, a resolution a flagged one |
| `SaneWindows`, `CorrectionsHaveCause`, `HandlersSane` | `[]WindowsAreSane`, `[]CorrectionHasCause`, `[]HandlersHoldSaneValues` | not inductive alone: a patch writes what it read earlier. `LedgerInv` adds `HandlersHoldSaneValues`: what a handler carries was valid when it was read, the clock only grows, and `auto` and `manual` never fall |
| `FlaggedPaidByAPerson` | `FlaggedIsPaidByAPerson`, for any number of administrators | `PersonInv`: the end of a row is a person's word or carries the flag, and a PATCH about to write a guessed end back read it as one a person had accepted |
| `LedgerImplementsPayroll` | `ImplementsPayroll` | a refinement mapping, below |

`LedgerImplementsPayroll`: each action of the ledger maps to an action of `Payroll` or to a stutter.
What leaves the table alone is an edit that begins or is given up, or a stutter (`TableStays`), and
what writes one row leaves payroll's view of every other shift alone (`OtherShiftsStay`).
It needs `TypeOK` and `LedgerInv` before the step and `OneOpenPerWorker` after it.

The lemmas about steps are not about `Next` but about `LedgerNext`: the same steps, where
the memory of any of the handlers may be lost and not only of all at once. The ledger's own
steps are among them (`NextIsLedgerNext`), and so is all that a phone can make the server do, which the next module
uses.

**`PhoneProofs`** (from `LedgerAssumption`, `PhoneAssumption`: any number of refreshes, jobs and
flows, keys, workers and buildings, any drift of the phone's clock)

| Theorem | States |
|---|---|
| `Delivered` | `[]DeliveredIsStored` |
| `PaidToTheTap` | `[]PaidAsTapped` |
| `OpensOwnRows` | `[]OpensItsOwnRows` |
| `OnlyTheOverwrittenAreGuesses` | `[]OnlyOverwrittenIsAGuess` |
| `LandedIsAccepted` | `LandedHalfIsAccepted`, for tags that go unverified or are deleted at any time |
| `PhoneTypes` | `[]PhoneTypeOK` |
| `PhonesKeepOneOpen`, `PhonesKeepWindowsSane` | `PhoneSpec => []OneOpenPerWorker`, `[]WindowsAreSane` |
| `PhonesKeepEnds`, `PhonesSettleFlagged` | `PhoneSpec => EndIsFinal`, `FlaggedIsPaidByAPerson` |
| `PhonesImplementPayroll` | `PhoneSpec => ImplementsPayroll` |

The first six follow from one inductive invariant, `PhoneInv`. None of the properties is inductive
alone, because a coroutine sends what it planned from rows that have changed since, and an answer
speaks of a table that has changed since. `PhoneInv` therefore says, beside the types:

* of the table (`TableSound`): windows are sane, an end by a tap is one of the instants tapped, one
  that is payable is confirmed (`SaidRow`), and what the phone has of a stored shift has the same
  start and building;
* of a local row (`LocalSound`): its marks are true, a row that was not delivered is its key's
  owner's, and its end is an instant tapped unless the server has one, too, and one that carries no
  flag was confirmed or its flag overwritten;
* of a plan (`PlanSound`, `Right`): a step, however old, carries the start its row has, or an
  instant that was tapped, and confirmed where the step does not say "switch"; an open is of a row
  of the pass's own worker;
* of a flow (`GoalSound`, `StartsApart`): what it will start is on no phone yet, and no two flows
  start the same shift;
* of what is in flight (`FlightSound`, `AnswerSound`, `Heard`): it is a step of the plan, or what
  the worker wanted; an answer's row is that shift's, perhaps from before it ended; what was applied
  and not yet marked is stored.

What each step has to respect for the rest to stay sound is said once (`Grows`: shifts keep their
start, building and worker and stay ended, the queue keeps its rows, and no tap, confirmation or
lost flag is forgotten), and a
lemma for each kind of step (`QuietStep`, `QueueStep`, `ServerMoves`, `MemorySound`,
`WriteSound`) reduces the invariant to the
part the step writes. `LandedIsAccepted` adds that an answer sets off in `Land` and `LookUp` only,
and that the instant of an open which landed is acceptable for ever.

The last five say that the composed system keeps what the ledger alone keeps, and implements the
same `Payroll`. Under `PhoneInv` every step of a phone is a `LedgerNext` step or leaves the ledger
alone (`PhoneStepIsLedgerStep`): a queue that outlives a sign-out opens a key in another account's
name, as `WorkerStep` does, and a lost answer is a handler's memory lost. So the
ledger's invariants and its refinement are cited, none is proved again.

**`ShiftEvidenceProofs`** (from `EvidenceAssumption`)

| Theorem | States | Argument |
|---|---|---|
| `TypesHold` | `[]TypeOK` | one lemma per action; `TypeOK` includes that a flow in the middle of a request refers to a stored shift and to the challenge it was given |
| `PhotoTimesHold` | `[]PhotoAnswersItsChallenge` | only `Upload` writes a photograph (`WhoStores`), and it checks both bounds (`StepPhoto`) |
| `SettledProofHolds` | `[]SettledShowsItsProof` | `StepRow`: a step leaves a row's end alone, or is the timer's or the office's, or consumes a proof that was accepted. `StepPhoto`: a photograph changes only while its shift runs or is flagged |
| `ConsumptionHolds` | `ConsumedProofIsFresh` | `StepRow` with `PhotoAnswersItsChallenge` in the state before |

**`ScheduleProofs`**, of both modules (from `ScheduleAssumption`, `AgentAssumption`)

| Theorem | States | Argument |
|---|---|---|
| `NobodyDoubleBooked`, `ChecksStayTrue` | `[]NoDoubleBooking`, `[]ChecksHold` | `NoDoubleBooking` is not inductive: `ScheduleInv` adds `ChecksHold`, what the holder of the lock has found, and it stays true because nobody else writes while the lock is held |
| `NoLostUpdate` | `EditsSeeWhatTheyReplace` | `SeenIsOld`: what a client was shown was the row at some version, and no later row has that version; `EditIsCurrent`: the row an edit was checked against is still there |
| `ScheduleImplementsRoster` | `ImplementsRoster` | `CommitIsChange`: what `ChecksHold` and `EditIsCurrent` say before a COMMIT are the guards of `Assign`, `Move` and `Drop`; every other step leaves plans and staff alone or is a `Leave` or a `Return` |
| `CallsTakeEffectOnce`, `AgentsHearOneOutcome`, `OneHandlerPerCall` | `[]RecordIsTrue`, `[]AnswersAgree`, `[]OneAtWork` | together inductive, with `LookFinds` (who looks finds a record) and `AllOld` (arguments of a call refer to rows that existed) |
| `AgentsKeepTheSchedule`, `AgentsLoseNoUpdate`, `AgentsImplementRoster` | `AgentSpec =>` `[]NoDoubleBooking`, `EditsSeeWhatTheyReplace`, `ImplementsRoster` | each step of an agent is `Harmless`: as far as plans and staff go it is a step of the schedule or none (`AgentStepIsHarmless`). The schedule's lemmas are cited, none is proved again |

**`MaterialProofs`** (from `MaterialAssumption`, `OutboxAssumption`)

| Theorem | States | Argument |
|---|---|---|
| `NothingLost` | `[]NothingWrittenIsLost` | `PhoneInv`: a row leaves the outbox after an answer or by `Adopt`, which names it |
| `FiledForTheAuthor` | `[]FiledUnderItsAuthor` | `Attributed`: a POST that is out, or given up and still to land, carries its author's cookie or its entry is `astray`; a plan has the rows of its own worker, and a row was written under the name that was signed in when its text was typed |
| `CopiesCovered` | `[]CopiesAreLostAnswers` | `Accounted`: copies at the server plus posts that may still land never exceed the answers in doubt, plus the one that was heard |
| `SpendsHaveMonths`, `SeenAfterwards` | `[]SpendHasItsMonth`, `[]SeenAfterArrival` | `ServerInv`, which says of an edit in memory what it says of a row |
| `MonthsStay`, `StaleWritesOnly` | `MonthNeverMoves`, `OnlyStaleWritesLeaveTheTable` | from `ServerInv`, action by action |

**`ZoneProofs`** (from `ZonesAssumption`)

| Theorem | States | Argument |
|---|---|---|
| `CardsMeanOneThing` | `[]CardMeansOneThing` | with `OldZonesStay`: a zone that was there before is never removed and its card never reported, so no alias is made of it |
| `TappedWereScanned` | `[]TappedDoorsWereScanned` | the gate is read before the INSERT: `HandlersAreSound` carries what was read, and nothing unscans a card |
| `ProofsAreOfThePlace` | `[]ProvedWhereItHangs` | `StampsHaveScans`, and a binding clears the stamp |
| `HistoryStays` | `HistoryKeepsItsBuilding` | `RowsFit` is the foreign key as an invariant; an unbinding of a zone that a shift names would break it |

**`SignInProofs`** (from `SignInAssumption`)

| Theorem | States | Argument |
|---|---|---|
| `OneSessionEach`, `TrioHolds` | `[]CredentialsBuyOnce`, `[]TrioDescribesOneCode` | `CredentialInv`: `ClaimsAreSound`, of the requests about to open a session no two hold the same credential and none holds one that was used; the rows and the history tell the same story of each code |
| `PasswordsFollow` | `PasswordsFollowTheAddress` | `FollowInv`: an address whose password is out, and which nobody shared, has one holder (`SoleHolders`), and a request that matched the password signs that holder in as long as the row exists (`MatchesFollow`) |
| `LetGoSignedOut` | `[]LetGoMeansSignedOut` | `LetGoInv` adds the requests that may still open a session: for somebody active, or under way when they were let go |

**`ProRataProofs`** (from `ProRataAssumption`: finitely many buildings, ordered by their keys)

| Theorem | States |
|---|---|
| `AnyPotIsSplitExactly` | any pot in cents, split by any labour that is not all zero, is split exactly: `IsExactSplit` |
| `SplitsAreExact` | `SplitIsExact`, whatever the bounds TLC is given |

The sum is a fold, a recursive function that TLA+ defines by a CHOOSE, and the prover cannot
instantiate an induction rule over a predicate. So induction is stated over a *set* of naturals
(`NatBySet`, from the well-foundedness of `<`) and over a set of subsets (`SubsetsBySet`), both of
which are first-order. With them `SumsExist` builds the function a fold stands for, size by size,
`SumIsSum` says that the fold is such a function, and `SumsCombine` that what holds of every summand
holds of the sums. What is left is the argument of `prorata.js:46`: the remainders add up to the
leftover times the total labour, so there are fewer cents left than shares with a fraction
(`FewAreLeft`); the order of the queue is total, so each place is one building's (`RanksAreTaken`);
hence the loop never wraps around (`OneCentEach`) and only fractions get a cent
(`OnlyFractionsGet`).

The modules also prove their types (`TypeCorrect`, `TypesHold`, `ScheduleTypes`, `AgentTypes`),
so the runs check a type invariant on the ledger alone.

Only model-checked: liveness (`NoneStaysOverdue`, `EveryTapIsDelivered`, `ShiftEndsOnThePhone`,
`CallsEnd`), since fairness and ENABLED are beyond this prover. Every other property of a run is a
theorem.

## 6. Not modelled

* **Location samples** (`shift-evidence.js`, both): rows appended for a map, which no later step
  reads; the format of the JPEG.
* **Apple's door, the rate limiters, the administrators' login** (`auth.js`): the first is a signed
  token of a third party, the second is memory of one process that forgets at a restart.
* **The iOS client**: the queue of the phone in SwiftData on one actor. Its passes interleave only
  at their awaits, so `PhoneSync` has more behaviours than it does; where it differs (a refused
  proof takes the local end back, adopting leaves a known row alone) it is not modelled.
* **ShiftStore's summary cache** (`cachedPending`): unlocked memory of the screen, from which no
  request is built.
* **Tenancy, workspaces, invitations** (`workspaces.js`, `db.js`): one company is all of it. The
  isolation is a row policy of PostgreSQL, stated in migrations and not by a protocol.
* **Reporting, contracts, revenue** other than `PAYABLE`, a spend's month and the split: SQL
  aggregation without state of its own.
* **Portal grants, shift signals, the web panel, messages, geocoding, telemetry, operations**:
  views, forms, third-party I/O and scripts run by a person. The panel's requests are the inputs of
  `CreateCheck`, `PatchRead` and the other actions of the office. Most of the repository's lines are
  these, with tests and screens.
