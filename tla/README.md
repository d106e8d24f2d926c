# Verification of the licensing backend

TLA+ models of the licensing backend: an Express service with PostgreSQL
(through Sequelize), Redis and a directory of uploaded files, through which
applicants apply for a licence, reviewers examine the application and approvers
decide it. The models are checked with TLC on small instances; every safety
property and every refinement is also proved with TLAPS for every value of the
constants.
Source paths below are relative to `src/src/`.

## The system

| Component | State | Operations | Talks to |
|---|---|---|---|
| Workflow service (`services/workflow.service.ts`) | rows of `applications`, `application_reviews`, `audit_logs` | submit, start review, request information, mark ready, resubmit, approve, reject; each one transaction under `SELECT ... FOR UPDATE` of the application | called by the workflow and application handlers |
| Application handlers (`applications.repository.ts`) | the same rows, without the lock | create, PATCH, readiness check and submit, detail, list | workflow service, read cache |
| Document handlers (`documents.repository.ts`, `document-storage.service.ts`) | files on disk, rows of `documents`, `document_versions` | upload, list, versions, download | disk, database, read cache |
| Read cache (`application-cache.helper.ts`) | Redis keys for details, lists and counts | get, set with a time to live, delete after a write | every application handler |
| Accounts (`auth.repository.ts`, `admin.repository.ts`) | `users`, `auth_tokens` | register, verify e-mail, invite, request and set a password, login, logout, enable and disable | session store, login throttle, e-mail |
| Session store (`session.store.ts`, `auth.middleware.ts`) | `sessions` | get, set, destroy, touch; `isAuth` | every authenticated request |
| Login throttle (`auth.repository.ts`) | two Redis counters per attempt | check, record, clear | login |
| Audit trails | `audit_logs`, `user_audit_logs`, hash-chained | append, list, verify | workflow service, accounts |
| Notifications, e-mail | none | send | workflow service, accounts |
| Validation, CSRF, request ids, error handling, logging, API docs | none | one request at a time | - |
| Migrations (`database/`) | schema objects, `SequelizeMeta` | up and down of eight migrations, statement by statement | database |
| Seed, start-up | first rows | run once | - |

What is hard in this code, and what makes each component correct:

- **Locked and unlocked writers meet on one row.** Transitions lock the
  application; PATCH, the readiness check and upload read it without a lock,
  await, and write by primary key. Correct means that review bookkeeping, the
  audit trail and the separation of duties survive whatever those overwrite.
  They do. What does not survive is listed under *Disagreements*.
- **Review cycles repeat.** Information requests reopen an application, several
  cycles and users with two roles exist. Correct means: one open review exactly
  while an application is under review, an answer belongs to the newest request,
  and whoever examined last does not decide.
- **Disk and database have no common transaction.** An upload writes the file
  first and removes it on an error. Correct means that an acknowledged upload has
  its file and its one version, versions form a chain, and no file is left over.
- **Redis commands interleave.** Counters are read, incremented, given a life and
  deleted by separate commands; cache entries are set by readers and deleted by
  writers without a lock. Correct means that lockouts and stale entries end.
- **Two transactions, one trail.** Trails are hash-chained by wall-clock time and
  entries carry the client's request id under a unique index; e-mails are sent
  beside the transactions. Correct means that the trail is that of a serial
  execution, a request sent twice takes effect once, and nobody waits for ever.
- **Migrations have no transaction.** A statement may fail, the process may stop,
  two migrations log an error and are recorded all the same, and any of them may
  be reverted. Correct means that `SequelizeMeta` can be believed, that the
  unique keys the service relies on exist, and that "up" can be run again.
- **Accounts change on several paths.** Tokens, admins and logins all write the
  status or create sessions on earlier reads. Correct means that a session is
  earned, an ended one stays ended, and a disabled account stays disabled.

`PROJECT.json` lists every component and every hazard with its line.

## The modules

| Module | Models | Role |
|---|---|---|
| `Workflow` | workflow service with the unlocked application and upload handlers | core |
| `ApplicationLifecycle` | what the workflow promises from outside | abstract specification of `Workflow` |
| `WorkflowProofs`, `AuditProofs` | - | theorems about `Workflow`; the second builds on the first |
| `MCWorkflow` | - | instances of `Workflow` for TLC |
| `DocumentUpload` | one application's uploads, statement by statement, and the list's two reads | component |
| `VersionArchive` | a document as a growing sequence of uploads | abstract specification of `DocumentUpload` |
| `AuditTransaction` | transactions on applications and accounts, statement by statement, with their audit entries, request ids and e-mails | component |
| `AuditTrail` | a subject and its trail moving together | abstract specification of `AuditTransaction` |
| `Accounts`, `MCAccounts` | users, tokens, sessions and their handlers | component |
| `LoginThrottle` | the counters of the login throttle | component |
| `ReadCache` | details, lists and counts in Redis | component |
| `Migrations` | the schema, the eight migrations and the migrator | component |
| `DocumentUploadProofs`, `AuditTransactionProofs`, `AccountsProofs`, `LoginThrottleProofs`, `ReadCacheProofs`, `MigrationsProofs` | - | theorems about the component in the name |

`Workflow` and `DocumentUpload` meet in the upload: `Workflow` takes it as one
step that adds a version, and `ImplementsArchive` of `DocumentUpload` justifies
that, since the handler's transaction appends exactly one version at a time.
`Workflow` and `AuditTransaction` meet in the service transaction: `Workflow` and
`Accounts` take it as one step, and `ImplementsTrail` justifies that, since
transactions that overlap move a row and its trail as if they had run one after
the other. `KeysInForce` of `Migrations` are the unique keys that `Blocked` and
`Taken` of the other modules, and the address of an account, rest on.
`Accounts` and `LoginThrottle` meet in login: the throttle decides whether the
password is looked at, `Accounts` what a right password leads to.

### Workflow

`applications`, `reviews` and `auditLogs` are the rows; `documents` counts the
stored versions of each type; `handlers` holds the requests between an unlocked
read and the later write.

- A service transaction takes the row lock first and then touches only rows of
  that application, so it is one atomic action (`startReview`,
  `requestInformation`, `markReadyForDecision`, `resubmitApplication`,
  `finalizeDecision` through `approve` and `reject`, `submitApplication`). A
  refused one rolls back and is a stutter.
- PATCH, submit and upload are two actions, `begin...` and `finish...`. The
  first holds what the handler read (for PATCH the fields and the
  `lock_version` of the instance Sequelize will compare with), the second writes
  as the code does: changed columns only, by primary key, nothing checked again.
  `abandon` is every way such a request ends without an effect.
- `lock_version` sent by a client is any number. `completed_at` is the position
  of the completing audit entry, since the lock orders the transactions of one
  application, and `behind` says whether the clock read for it had been set back
  or stood still since the times recorded before. `getLatestInfoRequestReview`
  orders by the clock: a request may come out as the latest although another was
  completed after it, if the clock was set back in between (`SetBackBetween`).
  The comparison `uploaded_at > completed_at` is the comparison with
  `documents_then`, the number of versions when the review was completed, or, of a
  review that is `behind`, with nothing: any version counts. An upload takes
  place, for this purpose, when its row is inserted.
- Fields are a few columns with an empty and a non-empty value, a request item
  names a column, a document type or a question. Wording, e-mail and formatting
  are left out.

`ApplicationLifecycle` keeps for each application its stage, who examined it,
who signed the examination off and who decided. It allows a step of the stage
graph only to the user the stage calls for. `Workflow!Lifecycle` maps the
examiner to the newest review's reviewer and the signer to `reviewed_by_id`.

### DocumentUpload

An upload goes through save, find or create the document, find the latest
version, insert, commit, invalidate, answer; every one is an action, and what a
transaction wrote is visible after `commit`. The unique index on
`(document_id, version_number)` is `Blocked` (wait for an open transaction) and
`Taken` (fail on a committed row). Faults, up to `MaxFaults`: the write to disk
fails with or without leaving a file, a statement or COMMIT fails, the answer to
COMMIT is lost, the removal fails, the process stops. Two first uploads of a type
may create two documents; the code allows it and so does the model.

### AuditTransaction

A call waits for the row, checks the state and version it finds (`lockRow`),
writes (`writeAuditLog`), commits, and sends its e-mail where that comes after
COMMIT. What it wrote is visible after COMMIT; until then it holds the row
(`lockedBy`) and its request id (`Blocked`). `rollback` is a failing statement or
COMMIT, or a stop; a lost answer to COMMIT is a commit without an e-mail.

- Applications (`audit_logs`) and accounts (`user_audit_logs`) are subjects of
  the same code: find the newest entry by `occurred_at`, hash over it, insert.
  A hash is the position of the entry it was taken over.
- `Now` gives an entry the time after all commits on its subject, or, at most
  `MaxClockSteps` times, an earlier or the same one; among equals the database
  may return any.
- A request id is the client's header or `Fresh`, a random UUID.
- Only what the transactions share is kept: which user calls is in `Workflow` and
  `Accounts`. A client may send an operation again, under the same id and version.

`AuditTrail` is a stage and the sequence of recorded steps, each starting where
the last one ended.

### Accounts

Handlers with an unlocked read are two actions with `inFlight` in between; the
transactions of `register`, `verifyEmail` and `setPassword` are one. `fail` ends
any of them early. Addresses are divided into applicants, admins and staff: an
address is what it was registered or invited as. The model starts from the seeded
database with its admins. The throttle is a module of its own; the Redis copy of
the user is written and deleted but never read, and is left out. A token expires
at any time, which strands a pending account for good; `PendingKeepsLink` says
that no failed request does.

### LoginThrottle

Each Redis command is an action; two commands of one `Promise.all` are sent back
to back over the one connection and are one action. A fault is a check Redis does
not answer (the login is let through) or an attempt that ends between two steps.

### ReadCache

One application is the number of writes committed to it. Readers get, query and
set; a writer commits and deletes the details, then the lists, then the counts,
one key at a time, as SCAN finds them. Lists of one role, user and filter are one
view. A list is one read; the details are the three queries of `getApplication`
(`readApplication`, `readInfoRequest`, `readLatestReview`) with writes in
between, and the answer keeps for each what it saw. Which writes complete a
review or request information is given by `ReviewedAt` and `RequestedAt`.
A list and its count are set by two commands sent together, each of which fails on
its own: `fillCache` is both, `fillFails` is neither or one of them.

### Migrations

A migration is a sequence of statements, a statement a record of what it creates
or drops and of what it needs to succeed (`demands`): the absence or the presence
of its objects, their table, or nothing. `execute`, `refuse` and `statementFails`
are one statement, `catch` is the migration's error handler (two log and return,
the others throw again), `record` writes or removes the row of `SequelizeMeta`
afterwards, `stop` ends the process anywhere. `down(m)` reverts any recorded
migration, as `migrate.js down --name` does.

- Objects are tables, indexes, constraints, triggers and columns added later, the
  columns of `createTable` go with the table. Foreign keys order creation and
  removal. A table is created and dropped as PostgreSQL and Sequelize do it
  (external: `IF NOT EXISTS`, no `IF NOT EXISTS` on indexes).
- `documentEnum` and `stored` are the enum of `documents.document_type` and the
  values in rows: two migrations replace the type and cast the rows. The types
  whose names the alignment changes are one value, old or new.
- `ended` and `undermined` remember how a migration last ended and whether one
  that others build on was reverted before them; they are the conditions of the
  properties. `Repeatable` says what stands in the way of running "up" again:
  three migrations cannot be repeated after they were torn, a stored
  SUPPORTING_DOCUMENT cannot be cast to the old enum, and a unique key cannot be
  created over equal rows.
- `clashing` are the unique keys under which the service has stored a value twice
  while they were not in force (`storeTwice`): a request id chosen by the client,
  a version number or an address read before the insert. `refuse` then ends every
  statement that would create the key, until its table is dropped; entries of the
  trails are never deleted.

## The runs

| Run | Instance | Shows |
|---|---|---|
| `workflow` | one application, two cycles, one request in flight, a user who is reviewer and approver | every property of the core, and that it implements the life cycle |
| `document_upload` | three uploads, two types, one fault | version chain, disk against database, progress, refinement of `VersionArchive` |
| `audit_transactions` | an application, two accounts, two calls, one client-chosen id, four entries, one clock step | serial trails, hash chain, one effect per request id, e-mails tell what was committed, every call ends |
| `accounts` | two admins, a reviewer, an applicant, two handlers | earned sessions, ended sessions, admins remain, links are kept |
| `login_throttle` | two e-mails, one address, two attempts, limit 2, two faults | bounded overshoot, every counter ends |
| `read_cache` | two readers, a writer, two writes, one fault | why entries are stale, and that they end; what parts a list from its count; drafts and torn details |
| `migrations` | all eight migrations, one fault, one gap | records are true, the keys are in force, "up" gets through |
| five more | smallest instance | the disagreements below |

Why the bounds are enough. Two cycles are the fewest in which an answer could
belong to the wrong request and a reviewer of an earlier cycle could decide;
further cycles repeat the second. Applications share no rows, so one is enough.
One unlocked request in flight races every locked transaction; of several at once
the proofs speak, which cover every property of the run, and the runs of
*Disagreements* use two. `MaxLockVersion`, `MaxCycles` and `MaxVersions` cut
counters off; the proofs hold for all values. Three uploads let one find the document another
created while a third races it for a number. Two handlers in flight show every
race between two accounts' handlers; two admins are the fewest who can disable
each other. Two attempts with limit 2 exceed the limit, restart a window and
clear it. In `read_cache` a second write makes the first one's late entries meet
another invalidation, and a second writer would only add deletions. Four entries
and two calls let both calls race on one subject and on one request id across
two, with the clock standing still in between. In `migrations` one fault tears or
half-does any migration at any statement; one gap lets every migration be
reverted alone, and several at the end of the order. For the safety properties
the proofs lift these bounds; for liveness the instances are all there is.
Symmetry is used in the `accounts` runs only, over random ids, clients and
admins, where no liveness is checked.

`CHECK_DEADLOCK FALSE` is set everywhere: requests are an environment's choice
and the bounds let each model come to an end. That nobody waits forever is
checked as liveness (`UploadsAnswered`).

Fairness. `Workflow` and `Accounts` assume none and state safety only.
`DocumentUpload` assumes that a started request goes on (`WF` of its own steps):
the event loop runs every continuation and the database answers or fails.
`LoginThrottle` and `ReadCache` assume the same of requests, and that Redis
removes a key some time after its time to live. `AuditTransaction` assumes `SF` of each call's own steps: who waits for a row or
a key is woken when its holder ends, and newcomers do not take it away for ever
(PostgreSQL queues lock waiters). `Migrations` assumes that somebody runs "up"
again while something is pending, and that a command that is not stopped goes on.
No client is assumed to do anything, and no fault to happen.

### Disagreements

Five runs check what a message of the code or the README says and find it broken:

1. `final_immutable`: 'Final application decisions are immutable', but a PATCH
   checked in DRAFT writes its columns after the decision.
2. `optimistic_lock`: two PATCHes with one `lock_version` are both accepted.
3. `upload_window`: 'Documents can only be uploaded while drafting or responding
   to requested information', but an upload that read DRAFT stores its version
   after submission.
4. `submission_complete`: 'Complete required draft fields before submit', but a
   clearing PATCH lands between the readiness check and the transaction.
5. `disabled_account`: 'Account is disabled, please contact support', but a
   password setup token sent before still activates the account.

Conditional properties name their condition: `EveryCounterExpires` and
`LockoutEndsWithoutFaults` hold without faults (a stop between INCR and EXPIRE
leaves a counter that never ends, and 'Please wait a few minutes' is then wrong), `FilesMatchVersions` excludes
uploads whose COMMIT took effect but reported a failure, `AdminsRemain` excludes
a status written for an admin who was disabled after being authorised, and
`StaleOnlyIfLate` excludes keys set by a read that a write overtook,
`ListKeepsItsCount` excludes a refill of which one SET failed (the count lives
30 s, the list 60 s, and their errors are caught separately, so an old list can
then be answered with a new count), `OutcomesMatchState` and
`AnsweredRequestsDelivered` exclude a clock set back before a review was
completed, `UpGetsThrough` excludes what `Repeatable` names,
`ChainFollowsCommits` pays for a skipped link with a failure of the clock,
`MailsTellCommitted` excludes the e-mail of a decision whose COMMIT failed (it is
started before), `DetailsCarryTheirRequest` lets reviews be newer than the row,
and the properties of `Migrations` exclude reverting `initial-schema` or
`document-type-enum-alignment` under a recorded successor (`undermined`).

## What is proved

Every invariant and every action or refinement property of the passing runs is a
theorem, in the shape `Spec => []P`, for all values of the constants, bounds
included. Each rests on an inductive invariant: one lemma for `Init`, one per
action, one that collects the actions of `Next`, and a temporal step. TLC checked
each inductive invariant on a run's instance first.

| Module | Theorems (property) | Inductive invariant |
|---|---|---|
| `WorkflowProofs` | `TypeCorrect` (`TypeOK`), `ReviewBookkeeping` (`ReviewsMatchState`), `SeparationOfDuties` (`DecisionIsIndependent`), `LifecycleImplemented` (`ImplementsLifecycle`) | `RowsInv`, `DutiesInv` |
| `AuditProofs` | `AuditTrailExplains` (`AuditExplainsState`), `OutcomesAgree` (`OutcomesMatchState`), `RequestsDelivered` (`AnsweredRequestsDelivered`), `HistoryKept` (`HistoryIsKept`) | `AuditInv`, `OutcomeInv` |
| `DocumentUploadProofs` | `UploadTypes` (`TypeOK`), `ChainHolds` (`VersionsChain`), `FilesFollowVersions` (`FilesMatchVersions`), `AcknowledgedKept` (`AcknowledgedUploadsKept`), `CountCoversLatest` (`ListedCountCoversLatest`), `ArchiveImplemented` (`ImplementsArchive`) | `UploadInv` |
| `AuditTransactionProofs` | `TransactionTypes` (`TypeOK`), `TrailImplemented` (`ImplementsTrail`), `RequestsOnce` (`RequestsTakeEffectOnce`), `MailsTellTheTrail` (`MailsTellCommitted`), `ChainIsTotal` (`ChainFollowsCommits`) | `LockInv`, with `KeysDistinct`, `Told` or `ChainInv` |
| `AccountsProofs` | `AccountTypes` (`TypeOK`), `SessionsEarned` (`SessionsAreEarned`), `SessionsStayEnded` (`EndedSessionsStayEnded`), `SomeAdminRemains` (`AdminsRemain`), `PendingAccountsKeepLink` (`PendingKeepsLink`) | `AccountsInv` |
| `LoginThrottleProofs` | `ThrottleTypes` (`TypeOK`), `FailuresBounded` (`AttemptsBounded`), `CountersExpire` (`EveryCounterExpires`) | `ThrottleInv` |
| `ReadCacheProofs` | `CacheTypes` (`TypeOK`), `StaleKeysAreLate` (`StaleOnlyIfLate`), `CountsMatch` (`ListKeepsItsCount`), `DraftsAreNotShown` (`DraftsStayPrivate`), `RequestsComeAlong` (`DetailsCarryTheirRequest`) | `CacheInv` |
| `MigrationsProofs` | `MigrationTypes` (`TypeOK`), `KeysHold` (`KeysInForce`), `RecordsTrue` (`RecordsAreTrue`) | `MigrationInv` |

The arguments, and why each invariant is as strong as it is:

- **Rows of the workflow.** `RowsInv` is the bookkeeping with `TypeOK`. The
  unlocked handlers change neither state nor reviews, and `getNextCycleNumber`
  continues a gapless numbering. The decision rule reads `reviewed_by_id`, so
  `DutiesInv` adds that this column is the reviewer of the newest completed
  cycle and that a decided application has no open review. `StepKinds` reduces
  every step to what it does to one application's view, so that the argument is
  made once per kind of step. `LifecycleStep` maps every step to a life cycle
  step of one application or a stutter; `ReviewerIsExaminer` supplies that only
  the opener of the newest review closes it.
- **Its trail and outcomes.** `AuditInv` adds to `RowsInv` what the trail says of
  each application (`Explained`), and that one that does not exist has no
  entries, which creation needs. `StepTraces` shows that a step does one of three
  things: nothing the trail tells of, a creation, or one entry that starts in the
  application's state, ends in its next one and signs at most one review.
  `OutcomeInv` adds the outcomes, that reviews are completed one after the other
  (`Sequenced`) and that an answered request was delivered (`Delivered`).
  Resubmitting answers the request with the latest `completed_at`; that this is the
  last row, or the clock was set back after it (`LatestRequestIsLast`), needs the
  trail, whose positions are the times of completion. For that reason the invariant contains
  `AuditInv`, though the properties do not mention the trail.
- **Uploads.** What an upload read without a lock stays true because versions are
  only added (`Progress`): the latest version it saw is at most the latest one
  there is. The unique index (`KeysHeld`, `RowsUnique`) then lets a number in only
  once, so whoever commits had seen the true latest version, and the chain grows
  by one. A listing keeps what it saw (`ListingSeen`). For the refinement
  `CommitStores` shows that a document's versions in the order of their numbers
  are its archive with the new file at the end. `Uploads` is finite, since a
  history is a sequence of all committed versions.
- **Audit transactions.** `LockInv` says that a call between its lock and COMMIT
  holds the row (`RowsLocked`), that what it read is still what is committed and
  that the state it read allows the operation (`ReadsHold`). With that, COMMIT is
  one step of `AuditTrail` from the committed state. `KeysDistinct` adds that two
  open transactions on a table do not bring the same request id and that no open
  one brings an id the table has. `ChainInv` says that an entry links to its
  predecessor or that the predecessor is late; each late entry costs a step of
  the clock, and `SkipsAreLate` bounds the skipped links by injection into them.
- **Accounts.** `HandlersKnow` says what a handler in flight may still rely on
  when it goes on: the token it found is there, the user whose password it
  compared has that password and, as an applicant, a verified address, the
  session it read is the user's or was ended. This stays true because rows only
  grow (`Grows`, `KnowsStays`), whatever other handlers do. The five properties
  are inductive together, with what holds of applicants (`ApplicantsMatch`) and
  of the owners of tokens (`TokensMatch`).
- **Throttle.** The two statements are inductive with `TypeOK`: a request is in
  flight before its failure is counted, so counting only moves it from one term
  of the bound to the other (`StepKeeps`, `RecordKeeps`).
- **Caches.** `ReadOK` is what one read has gathered so far: a row, a request at
  least as new where the row asks for one, a review no older than the request.
  `CacheOK` is the same of every key. Both survive the steps of the others because
  the version only grows. That a list keeps its count is a statement about each
  step (`FillAgrees`, `EvictAgrees`): a refill sets both keys with one answer, and
  whatever removes one of them leaves no hit.
- **Migrations.** First, what the statements are: each creates one object of its
  migration, or drops only those, or replaces the enum, and "down" undoes what
  "up" creates (`UpForms`, `DownForms`, `Reverts`); names of different migrations
  are disjoint. Then the invariant: "up" runs a migration on all before it and
  nothing is recorded after a reverted one that others build on (`Founded`);
  statements already executed stay done, since "up" drops and "down" creates
  nothing (`Progress`); so a run without errors leaves the truth in
  `SequelizeMeta` (`Recorded`), which other migrations cannot disturb
  (`OthersKept`). `KeysInForce` needs more, because initial-schema is recorded
  even when it failed: it creates `audit_logs` after the tables with the first
  keys and stops at its first error, so where `audit_logs` is, the keys are
  (`KeysFirst`), and db-index-hardening, which does not hide errors, cannot be
  recorded without `audit_logs`.

The assumptions are those named in the modules; TLC evaluates each on the runs:

- Null values (`None`, `NoCall`, `NoAttempt`, `Fresh`) are no rows, ids or
  versions. Bounds are naturals and the throttle's limit is positive.
- `RolesAssumption`, `FieldsAssumption` and `RequestsAssumption`: roles are role
  names, columns have an empty value, requests are made of items.
  `UsersAssumption` divides addresses into applicants, admins and staff.
- `AdminsAssumption`: there is an admin to begin with, as the seed inserts one.
- `SubjectsAssumption`: an application and an account have no id in common; ids
  are UUIDs.
- Uploads and login slots are finitely many, though any number.

Model-checked only: liveness under fairness (`UploadsAnswered`, `CallsEnd`,
`UpGetsThrough`, `StalenessEnds`, `LockoutEndsWithoutFaults`), which the proof
system does not reason about, and the five disagreements, which are
counterexamples. What recursive definitions of the library compute (the sum in
`Bounded` of `AuditTransaction`, the maximum in `ReadCache`) is not proved; no
theorem depends on it beyond the facts proved about it (`NewestIs`).

## What is not modelled

- E-mail beyond when it is started and what it tells: no state depends on it.
- Downloading a version and listing versions: they change nothing.
- Validation formats, CSRF, error formatting, logging, API docs:
  functions of one request.
- The seed, which resets rows by hand before development or tests, and start-up:
  neither runs beside the requests.
- Sequelize, umzug, PostgreSQL and Redis themselves: modelled as external, from
  how the code uses them. Schema details no statement's success depends on
  (columns of a new table, defaults) are part of their table.
- A Redis that is unreachable: commands then wait without a limit
  (`maxRetriesPerRequest: null`); the models let a command fail, not hang.

## Plan

The model is complete in the sense of the component list. The order was: the
workflow with its abstract specification, uploads, accounts, the throttle, the
caches, then the audit transactions and the migrations.

The proofs followed in the same order, and now cover every safety property and
the three refinements. What is left:

1. Liveness stays with TLC. Larger instances of `document_upload` and
   `audit_transactions` under fairness, where the time of a run allows.
2. The hazards of `PROJECT.json` without a property are outside what can be stated
   about the present components (an account of a reviewer that is disabled for
   good) or are accepted by the code; a rule in the code to
   check them against would come first.
3. `DocumentUpload` and `Workflow` are connected by argument (an upload appends one
   version at a time); a module that composes them would make it a theorem.
