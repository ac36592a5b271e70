# OpenSparrow in TLA+

OpenSparrow is a database front end in PHP: an administrator describes tables,
boards, calendars and rules in configuration documents, and users work on the
records through generated pages. Every web request is a PHP-FPM process; four
cron workers run in the PHP CLI; all of them share one PostgreSQL database, and
the web processes share APCu. Nothing else synchronises them. There is hardly a
lock or a transaction above single statements, which is why the interesting
properties are about interleavings, caches and half-finished requests, and why
the repository's tests, each of which drives one request at a time, do not
reach them.

This directory holds TLA+ models of that behaviour, TLC configurations that
check them on small instances and TLAPS proofs for all instances.

## Inventory

| Component | State | Operations | What is hard | What makes it correct |
|---|---|---|---|---|
| **Configuration store** `includes/config_store.php` | `spw_config` (value, version), `spw_config_log`, APCu entry, static cache of a process | `config_get_row`, `config_save`, `config_delete` | read-through cache filled after a save; CLI saves that APCu never hears of; crash after COMMIT; a failed read looks like "no row" | no accepted save loses an edit; copies are committed pairs; the audit trail is a chain; the cache converges |
| **Admin configuration editor** `public/admin/js/app.js`, `schema.js`, `includes/admin/config_files.php` | open tab, the one document in memory and its version, autosave flags and timer, loads and saves in flight | open a tab or an inner page, edit, autosave, flush, Sync DB Tables, close | answers that come when another tab is open; edits made during a save; a tab left with something to save; a scan that ends on a replaced document; conflicts | what is dirty gets saved; an edit vanishes unsaid, a key gets another tab's document, or something stored is overwritten at named moments only; a reload brings something newer |
| **Savers without a version** `admin/schema.php`, `m2m.php`, `api_csv_import.php`, demo | none | read, modify, save; delete | read-modify-write with no check | – (they lose edits, see the findings) |
| **ETL workers' updates** `includes/etl_engine.php:221-284` | static cache, attempts | optimistic retry loop | contention, stale reader | an update is given up only under contention |
| **Mail queue** `includes/cron_notifications.php`, `smtp_client.php`, `admin/automation_emails.php`, `automations.php` | `spw_automation_emails` (status, attempts) | queue, run a batch, requeue, delete, purge | overlapping runs, lost answers, crash between send and record | no repetition without a reason; sent means delivered; the queue drains once the mail part of the cron is reached |
| **Record ownership** `includes/Service/RecordOwnershipService.php`, `OwnersController.php` | `spw_record_owners` | assign, set owner, mass set owner, three visibility checks | two-statement assignment, READ COMMITTED, deadlock, unchecked results | one owner unless disturbed; never unowned unexplained; the checks agree |
| **ETL jobs and flows** `etl_engine.php`, `etl_cli.php`, `cron/cron_etl*.php`, `admin/etl*.php` | target tables, watermark, run logs, a process's copy of the configuration | check the window, extract from the watermark or everything, load in a transaction, save watermark, run the steps of a flow | crash between COMMIT and watermark, overlapping schedules, watermark going back, a job twice in one process | no row appended twice or skipped without a reason, targets never go back and catch up |
| **Workflow wizard** `public/assets/js/workflows.js` | step on the screen, form, buffered records, saved records and their ids | fill, add, edit, remove, back, next with a procedure, review, save all, upload photos | a procedure that refuses, a save that fails half way or loses an answer and is pressed again, edits from the review, forms read again, links shifted by a deleted step | a record is buffered once, inserted again for two reasons only, children have one parent, the review shows what was accepted or changed since, the success screen means stored |
| Notifications `cron_notifications.php:56-200` | `spw_users_notifications`, run log | scan sources, insert with deduplication | overlapping runs, key collisions, crash of a run | each due event once per user |
| Automation rules `automations.php` | records, run log | conditions, update, notify, create, webhook, mail | order with audit, snapshot, owner; webhook retries | rules see the record they were triggered by |
| Record writing, audit, snapshots `frontapi/record.php`, `EditController.php`, `RecordSnapshotService.php` | user tables, `spw_users_log`, `spw_record_snapshots` | create, patch, duplicate, delete | several statements that commit one by one | the snapshot is that of the logged write |
| Mass edit, clean-up, board, calendar | user tables | update or delete many rows | aborted transaction reported as success | all or nothing, and said so |
| Many-to-many links `Service/M2MService.php` | junction tables | delete and insert in a transaction | two saves of one record | the links are those of one save |
| Login, two-factor, sessions `public/login.php`, `two_factor.php` | `spw_login_attempts`, session | password, code, limits | counting attempts | a code works once, within its limits |
| Rate limit, RAG semaphore `rate_limit.php`, `rag_throttle.php` | locked files | count, take and return a slot | the overloaded `null`, a dead holder | at most the limit per window |
| Comments, chat, notes; files; sharing, external API; CSV import; migrations, setup; anonymization, backup; users, settings; browser code; dashboard, languages, menu, print | rows of their own | forms over single rows, bulk statements, read-only queries | little between two steps | – |

Interactions: every component reads its configuration through the store; the
record requests call ownership, audit, snapshots and rules one after the other;
rules put mail into the queue and create records; the cron worker empties the
queue; the ETL workers write their watermark back into the store. There are no
callbacks between processes: they meet in the database, in APCu and, for the
throttles, in locked files. The browser's pages have callbacks between their
own requests: the autosave of the admin page and `saveAll` of the wizard.

`PROJECT.json` lists the components with their status, and the hazards with the
line at which each one bites and the properties that would show it.

## Modules

    EditRegister          what a versioned document promises (abstract)
      ^ refined by
    ConfigStore           MCConfigStore     ConfigStoreProofs
    Outbox                what a queue of mail promises (abstract)
      ^ refined by
    EmailQueue            MCEmailQueue      EmailQueueProofs
    RecordOwners          MCRecordOwners    RecordOwnersProofs
    AdminEditor           MCAdminEditor     AdminEditorProofs
    WorkflowRun           MCWorkflowRun     WorkflowRunProofs
    EtlJobs               MCEtlJobs         EtlJobsProofs

Mail queue, record owners and wizard share no state with anything else modelled.
The store, the admin page and the ETL jobs meet in `spw_config`: ConfigStore has
one key in detail, and what it establishes (a save is accepted only on the
version it was made from, an update of a worker replaces the stored value or is
lost) is one step of AdminEditor (`ServerSaves`) and of EtlJobs (`Persist`,
`PersistLost`). A product of the three would multiply their states and add no
step. Each MC module only defines the sets a configuration needs; each Proofs
module extends its specification and TLAPS.

### ConfigStore

One key. A *document* is the set of edits it contains, so a lost update is an
edit that disappears; `row` of version 0 is "no row". There are three kinds of
process, for the three ways the code uses the store.

| Model | Code |
|---|---|
| `row`, `log`, `lock` | `spw_config`, `spw_config_log`, the row lock of `FOR UPDATE` |
| `apcu`, `static` | the two caches of `config_cache`; `NoRow` is a miss, `Absent` the remembered absence |
| `basis[p]` | what the process read last; for an `Editor` the form in the browser with its version |
| `CacheHit`, `CacheMiss`, `Query`, `QueryFail`, `Fill` | `config_get_row`, split where another process can come between |
| `SaveBegin`, `SaveConflict`, `SaveCommit`, `SaveFail`, `SaveReturn` | `config_save`: lock and check; ROLLBACK; write, audit, COMMIT; error path; cache and answer |
| `DeleteRow`, `DropCache`, `LogDelete` | the three steps of `config_delete` |
| `Open`, `Read`, `Abandon`, `Exit`, `AfterConflict` | an ETL process around `etl_config_optimistic_update`; a `Reloader` passes `etl_reload_config_row` |
| `Crash`, `Expire` | death of a process outside a transaction; the TTL, a restart or an eviction of APCu |

A `Blind` process is a handler that saves with `expectedVersion` null, a
`Cleaner` one that also deletes. An `Editor` keeps its form after a refused or
failed save, as `persistCurrentConfig` does, and may reload at any time. `began`
is a history variable: how many saves there were when a worker's update made
its first attempt. `LostOnlyUnderContention` speaks of a `Reloader` only: a
worker whose reader answers from the static cache meets one conflict again and
again, and gives up after a single foreign save.

`EditRegister` is what such a document promises: a history in which every
document keeps the edits of the one before and adds one, appended to only from
a copy of the latest. `ImplementsRegister` is the refinement: `history` is the
audit trail and `copy` the version everyone holds.

### EmailQueue

One row per message, runs of the cron as `Runner`. `Select` is the SELECT of a
batch (`Waiting`, ordered by id, limited), `Send` the conversation with the
mail server, which may end in a failure although the message was taken,
`Record` the UPDATE by id and `RecordFail` that UPDATE failing unnoticed.
`Requeue`, `Delete` and `Purge` are the actions of the admin panel, applied to
single messages or to everything of one status up to some age. `delivered`,
`failures`, `excuses` and `overlaps` are history variables: what the server took,
what was reported as failed, how often there was a reason to send once more, and
how often a run selected a message another run had in hand.

`ready` says that a run comes as far as the mail and can send. It is false while
the calendar has no configuration or no sources (`cron_notifications.php:40-49`),
while the from-address or the SMTP host is missing (`:227-236`), and while
something before the mail throws (`:317`); `Reconfigure` changes it at any time.
A panel that uses automation mail and no calendar never sends a message, although
`docs/ADMIN.md:346` says that a run "flushes the automation email queue": what is
checked as `QueueDrains` has `<>[]ready` as its premise.

`Outbox` is what such a queue promises about a message, without batches, attempts
or runs: it is handed to the server while it is under way and there is a reason
for one more copy, confirmed only after that, given up only after enough failures,
and taken back by the administrator only. `ImplementsOutbox` is the refinement,
for each message that two runs have not had in hand together (`Alone`); a message
becomes `shared` for good when they have, and the abstract queue promises
nothing of it then. That is where the code has no answer: a late failure of one
run takes the message that the other recorded as sent back to pending.

### RecordOwners

The owner rows of one restricted table. `Single` processes run requests whose
statements commit one by one (creating, duplicating, `setOwner`), `Bulk` ones
the transaction of `massSetOwner`. The UPDATE is `StartUpdate` (its snapshot),
`Touch` (one row: wait for its lock, look at it again) and `EndUpdate`, which is
how PostgreSQL runs it at READ COMMITTED. `FailUpdate` and `FailInsert` are the
error paths: `assign` looks at neither result, `massSetOwner` rolls back.
`Deadlocked` and `Victim` are the database's deadlock detector.
`CreateUnowned` stands for automation rules and CSV imports, which insert
records and assign nobody. `behind`, `extra` and `unowned` are history
variables: records that others assigned while a request was at work, owners
that are there for such a reason, and records nobody was assigned to.

### AdminEditor

The page of the admin panel, which has one document in memory whichever tab is
open, and the rows of `spw_config` as the server sees them.

| Model | Code |
|---|---|
| `file`, `config`, `version`, `inner` | `currentFile`, `currentConfig`, `configVersion`, `currentItemKey` of the schema tab |
| `dirty`, `failed`, `timer`, `pending`, `save # Idle` | `isDirty`, `autosaveFailed`, `autosaveTimer`, `autosavePending`, `autosaveInFlight` |
| `Change`, `AddItem`, `ClearConfig` | the inputs and buttons that end in `markDirty` |
| `TimerFires`, `Hide`, `LeaveTab` | the three callers of `flushAutosave`, with the four outcomes of the flush |
| `OpenTab`, `ServerReads`, `LoadArrives` | `loadConfigFile` before its `await`, at the server, and after it, whatever tab is open by then |
| `ServerSaves`, `AnswerSuccess`, `AnswerFailure` | the save of `api.php`, and `persistCurrentConfig` after its `await` |
| `AskSync`, `SyncArrives`, `SyncFindsNothing` | Sync DB Tables, which adds to the document it was asked from (`sync = "lost"` when the page has another one by now) |
| `RivalSaves`, `ClosePage` | another administrator or writer; leaving or reloading the page |

The user may do anything at any time: type while the open tab's own save or a load
is under way, leave a tab before it is loaded, edit what is on the page after a
load failed or brought the body of an error (`LoadRefused`: `app.js:393-396` does
not look at the status of the response, and shows it as a document of version 0).

The page does not cope with all of it. Five history variables say where: `made`
is the tab each edit was made in and `warned` the edits of which a message or a
question told the user that they may be lost; the other three mark a moment when
it comes, and each property says that the loss takes such a moment:

| History | Set when | What the code does then |
|---|---|---|
| `exposed` | an edit is made during a save of the open tab | the answer's `markClean` (`app.js:186`) drops `isDirty`, and nothing saves the edit: the run `admin_typing` |
| `exposed` | an edit is made while a load is under way, or on the document of another tab | the load replaces the document, or the edit goes to another key |
| `exposed` | a scan of Sync DB Tables ends on a document the page no longer holds, or on an inner page | its tables are added to nothing, or are not marked |
| `exposed` | an inner page of the schema tab is opened with edits to save | `flushAutosave` finds the page not eligible and clears `isDirty` (`app.js:113`) |
| `exposed` | the page is closed with a save under way | nobody hears of its refusal |
| `astray` | a tab is marked while it shows another tab's document | the document is saved under the key of the open tab |
| `muddled` | a tab is opened again during its own save | the answer gives its version to a document that was loaded before it (`app.js:187`) |
| `muddled` | a tab is marked during a load or with another tab's document | what is posted, and with which version, is open |

`KeepsItsKey` leaves out the keys astray, `NoEditVanishes` and `EditsSettle` the
edits exposed and what comes after a muddle, `NothingOverwritten` what comes after
a muddle, and `DirtyIsScheduled` nothing. What is left is not little: edits made
in one tab while another one is saved, tabs left with edits and with saves under
way, timers, hiding, conflicts, failed loads, rivals, and any order of answers.

### WorkflowRun

`startWorkflow`: one run of a wizard. `at` is `currentStepIndex`, counted from 1,
then the review and the success screen; `form` the entry typed and
`editingIndex`; `data` is `stepData`, `ids` `stepResults`, `saved` the object set
`savedRecords`. What `snapshotWithImages` makes of a form is a new object each
time, which matters because `saveAll` recognises what it has saved by object
identity. `Submit*` are the paths of Next, with the procedure of a gated step
called before the wizard advances (`ProcedureSucceeds`, `ProcedureFails`, which
takes an appended record out again). `Clear` empties a form or a required field
of it: its entry is then 0, which the browser's validation rejects and Back
stores all the same (`workflows.js:887`). `Proceed` is the loop of `saveAll`, `Row*`
and `Photo*` the requests it waits for, each of which can be refused, fail, or be
carried out with its answer lost. `link` is `link_to_step` counted from 1 and may
be any number: when a step is deleted, the admin panel renumbers the others and
not their links (`admin/js/workflows.js:77`), and nothing validates them.

History variables: `lost` are the snapshots stored by a request that failed, a
row's `made` says which snapshots were older than it, and `verdict` what the
procedure said of a step's records: `passed` as they are, `skipped` when they
were changed from the review, or `none`.

What the code does not keep, and the properties therefore leave out:

* A record that was inserted is inserted again when its form is read again (Edit
  and Save, Back and Next), changed or not, because the new object is not in
  `savedRecords` (`workflows.js:888`, `988`). `StoredOnce` names this and the lost
  answer as the only two reasons.
* From the review, a step's procedure is not called (`workflows.js:991`),
  although `docs/ADMIN.md:222` has it as a gate; and Edit, an emptied field,
  Back and Save lead to the review with a record that is not valid.
  `ReviewIsComplete` says that only steps changed from the review are affected.
* A step that links to itself or to a later one gets rows without a parent.
  `NoOrphans` is about links to earlier steps; the workflow `ShiftedLinks` of the
  run has the other kind.

The user is patient: no button is pressed while a request is under way. The code
disables only Next during a procedure, and only Save and Back during `saveAll`:
with Edit, which stays enabled on the review, a second `saveAll` can be started
that inserts the record in flight once more (`workflows.js:1046`, `1137`).

### EtlJobs

Processes of cron and of the administrator that run jobs. A version `<<k, s>>` of
a row is a key and the value of the incremental column. `load` is the setting of a
job: its mode, and `increment`, which is `none` without an incremental column,
`column` with one that only keeps a watermark (`Marked`, `etl_engine.php:464`) and
`query` if the source query also asks for the rows above `{{watermark}}`
(`Incremental`, `:434`). The two are independent in the code, and so they are here:
an append job that is not incremental, which `etl_save` accepts and
`docs/ADMIN.md:541` leaves optional, appends every row again in each run, and an
incremental full refresh empties the table and keeps only the new rows
(`DropsOld`). `AppendedOnce` is about the incremental append jobs; `NeverOlder` and
`CatchesUp` leave the targets of `DropsOld` jobs out. A query with `{{watermark}}`
and no incremental column fails at the source in each run.

| Model | Code |
|---|---|
| `watermark`, `known` | `last_watermark` as stored, and in the process's copy of the configuration |
| `ran`, `flowRan`, `counts`, `Age`, `AgeFlow` | the log rows with a success inside the interval, which `cron_etl.php:142` and `cron_etl_flow.php:222` look up; an interval ends at any time |
| `CronJob`, `AdminJob`, `Reread` | `cron_etl.php`, and `run_etl` of the admin panel; with several jobs, each worker process reads the configuration again |
| `CronFlows`, `SkipFlow`, `StartFlow`, `EndFlow`, `AdminFlow` | `cron_etl_flow.php` and `run_etl_flow`: one process, one copy, all flows one after the other |
| `Extract`, `Load`, `Persist`, `Report` | `etl_run_job`: read from the watermark on; TRUNCATE, insert or upsert in a transaction; `etl_persist_watermark`; the log row (`etl_finish_job_log`) |
| `Fail`, `PersistLost`, `Crash` | a failed read or rolled-back load; an update that was given up, which is only logged; the end of the process |

`doubled`, `crossed` and `behind` are history variables: jobs that appended a
version again, that two processes had in hand at a time, and that were run from
an older watermark than they had reached. A COMMIT whose answer is lost is a
`Load` followed by a `Crash`.

## Runs

| Run | Instance | Shows |
|---|---|---|
| `config_store` | 2 editors, 1 reloading worker, 4 edits, failing reads, remembered absence | with a version on every save: copies are committed pairs, the audit trail is a chain, accepted saves are fresh, nothing is lost, a worker gives up only under contention; the store implements the register |
| `config_mixed` | 1 editor, 1 blind saver that deletes, 1 worker with the cached reader | type invariant, the row lock, and that the shared cache converges |
| `config_reload` | 1 editor, 1 worker | **violated**: a reload after a conflict brings the refused form again |
| `config_blind` | 1 editor, 1 blind saver | **violated**: an edit is overwritten silently |
| `email_queue` | 2 runs that may overlap, 2 messages, batches of 1, 2 attempts, 1 mishap, the configuration comes and goes | sent means delivered, every copy is accounted for by an overlap or another reason; a message runs have not shared is given up only after enough failures and treated as the outbox promises; the queue drains once its runs stay ready |
| `email_twice` | 2 runs, 1 message, no faults | **violated**: the message is delivered twice |
| `owners_mixed` | 1 single, 2 bulk, 2 records, 2 users, 3 assignments, a fault | missing and additional owners are explained, the checks agree, requests end |
| `admin_page` | 2 document tabs, one of them validated, 1 page, 2 edits, another administrator, 1 load at a time, a user in no way patient | what is dirty has a timer or a save; a wrong key, a vanished edit, an overwritten row, an edit neither stored nor announced take a moment the model names |
| `admin_typing` | the same | **violated**: an edit typed during the tab's own autosave is marked clean by its answer |
| `workflow_run` | 3 workflows of 2 steps (an order with a photo and its lines; several contacts and a visit; links shifted by a deleted step), 3 entries, 3 snapshots, 4 rows | entries are buffered once, inserted again only after a lost answer or a form read again, under one parent; the review shows what was accepted or changed since, success means stored, a save ends |
| `etl_jobs` | 2 processes, one of which also runs a flow that repeats the job, 1 job in each of five settings (each load mode incremental; append and full refresh of everything), 2 rows, 2 changes, 1 fault | nothing is left out behind a watermark, repeated appends of an incremental job have a reason, targets and watermarks never go back without an overlap, and targets catch up |
| `owners_two` | 2 singles, 1 record | **violated**: two active rows |

The five violated runs are the findings of `PROJECT.json`, each with the
sentence of the repository it contradicts. They are small on purpose; what
remains true around them is what the passing runs and the theorems say.

### Bounds

* `MaxEdits` (4 and 3) bounds edits begun. A lost update needs two; 4 let both
  editors and the worker save, conflict and save again, with `MaxAttempts` 2
  (5 in the code) so that the retry loop ends within the bound.
* `MaxEmails`, `BatchLimit`: one more message than a batch holds, so that
  messages wait behind others. `MaxAttempts` is 2 (3 in the code): one retry
  and the last attempt. `MaxMishaps` 1: one requeue, crash, failed update or lost
  answer at any point; the overlaps need none.
* `MaxRequests` 3 with two bulk requests: owners are there, then two
  transactions cross over both records and deadlock, or three assignments
  disturb each other. One fault at any point.
* Editors are symmetric in `config_store`, which checks no liveness; the runs
  with liveness use no symmetry.

* `admin_page`: two tabs; 2 edits, enough for one that is stored and one that is
  made during its save, or of a rival. `MaxLoads` 1: answers of loads that
  overtake each other are covered by the theorems, which hold for any number. The
  validated tab stands for `workflows`, whose document may be refused before a
  request is made.
* `workflow_run`: a child step needs one earlier step. Both steps are once the
  multiple-record one, both are gated, one has a photo. 3 snapshots allow a record
  of each step and one that is read again after it was saved, 4 rows a repeated
  insert.
* `etl_jobs`: jobs have a source and a target of their own and share nothing but
  the process of a flow, so that one job suffices; the flow names it twice. Two
  stamps and two keys let an older and a newer read of the same row and of two
  rows meet. One fault at any point; the overlaps need none. The four settings
  left out for time (a column that is not in the query, an upsert of everything)
  pass with `Loads` set to them instead, and the theorems have them all.

`CHECK_DEADLOCK FALSE` is set where the bounds end the behaviour (all edits,
messages, entries or requests used up), which is no fault of the program;
`etl_jobs`, whose cron never ends, checks for deadlock. Waiting that does not end
is looked for as liveness (`RequestsEnd`, `QueueDrains`, `EditsSettle`,
`SavingEnds`, `CatchesUp`).

### Fairness

* `WF(Expire)` in ConfigStore: APCu entries have a time to live of 300 seconds.
  Nothing is assumed of browsers, requests or workers.
* `WF(Run(r))` in EmailQueue: the cron is scheduled for ever, a run that is
  `ready` comes to the mail, and the mail server and the database answer or time
  out (`SMTP_TIMEOUT`). Whether a delivery succeeds is left open, and so is
  whether runs stay ready.
* `WF(Work(p))` in RecordOwners: a request that runs goes on, a statement
  waits only for row locks, and the database ends a deadlock.
* `WF(TimerFires)`, `WF(ServerSaves)`, `WF(Answers)` in AdminEditor: a browser
  runs its timers, requests are served, and answered or failed. Nothing is
  assumed of the user.
* `WF(ServerStep)` in WorkflowRun: every request is answered or fails.
* `WF(Work(p))` in EtlJobs: a process goes on unless it fails or crashes, which
  `MaxFaults` lets happen finitely often. `WF(Age(j))`: intervals end.
  `SF` of cron starting a job: a process may be busy each time cron fires, but
  cron fires again and again. Nothing is assumed of flows or administrators.

## Proofs

All theorems hold for every value of the constants allowed by the assumption of
the module (`ConfigStoreAssumption`, `EmailQueueAssumption`,
`RecordOwnersAssumption`, `AdminEditorAssumption`, `WorkflowRunAssumption`,
`EtlJobsAssumption`) and the one they name themselves.

* **ConfigStoreProofs.** `TypeCorrect` and `RowLockHolds` hold for all kinds of
  process. `LockedRowStands` is not inductive alone: `LockInv` adds that a lock
  is held exactly by the processes inside a save that found a row. Under
  `Cleaner = {}` (no row is deleted; saves without a version are allowed) the
  invariant `VInv` joins `HistoryIsAChain` and `CopiesAreCommitted`, neither of
  which is inductive alone, with what a transaction knows: version 0 goes with no
  document, what a checked save saw is what its form was made on, what it saved is
  committed. Versions only grow, so that two genuine copies of equal version are
  equal, and comparing versions is enough: `KeptCopiesAreCommitted`,
  `KeptHistoryIsAChain` and `CheckedSavesAreFresh`. `RetryInv` charges each
  conflict of a worker to a save of somebody else: since the update began there
  were at least as many as it has made attempts, because the row was read again
  before each one; `LostUpdatesWereContended`. Under `Blind = {}` (every save
  carries a version) a commit moreover keeps the edits of the row it replaces,
  for `VersionedSavesLoseNothing`; `FreshInv` adds that the edit of a save under
  way is new to the row it saw, and `VersionedStoreIsARegister` proves the
  refinement: a `SaveCommit` is an `Accept`, every other step a `Look`.
  Deletion is left out where it must be: a row that is deleted and saved anew
  starts again at version 1, so that an old copy may bear the version of another
  document.
* **EmailQueueProofs.** All but one of the theorems hold for overlapping runs. For
  `CopiesAreBounded`, `CopyInv` counts the copies sent and the runs that may yet
  send one (`Senders`) against the first selection, the excuses and the overlaps;
  a pending message nobody has in hand keeps one in stock, for the run that
  selects it. It needs `Runner` to be finite. For a message that runs have not
  shared the invariant is `AloneInv`: at most one run has it in hand, a selected
  message is still pending or was deleted, whatever may yet be sent has a reason
  in stock for every copy sent so far, and attempts are failures, the one in hand
  aside. `ErrorsAreExhausted` and `SentIsFinal` follow, and `QueueIsAnOutbox`
  proves the refinement step by step: a `Record` is a `Confirm`, an `Abandon` or
  nothing, a result that gets lost is a `Forget` if it was a delivery, and a
  `Select` that shares a message is a `Share`. Only `RepeatsAreExcused`, the
  property the run `email_twice` refutes for two runs, assumes `NoOverlap`.
* **RecordOwnersProofs.** `OInv` says that a request has rows to visit only
  during its UPDATE and locks only within its transaction (`ShapeInv`), that a
  row is changed by one transaction at a time (`LockInv`), that it is a current
  row of a record being assigned (`OwnInv`), and that, unless something happened
  behind its back, a request closes every current row (`CoverInv`). From it
  follow `OwnersAreAccounted`, `GapsAreAccounted` and, from the first,
  `VisibilityIsDefinite`. `NobodyWaitsForEver` is what `RequestsEnd` rests on:
  as locks are only held within a transaction, requests that all wait for each
  other form a circle, so that one of them can always go on. `AloneOneActiveRow` is the documentation's claim, for
  a single request at a time without failures.
* **AdminEditorProofs.** No theorem restricts the user. `DirtyIsScheduled` is not
  inductive alone: `TInv` adds that the timer never runs beside a save, and that
  an edit made in one tab while another one is saved is remembered as pending, so
  that the end of the save starts its timer. `KInv` follows the documents of the
  keys that are not astray through rows, saves and loads, and says that what is
  dirty is the open tab's document or the tab is astray; `OwnKeyOnly`. `CInv` says
  that `PInv` holds as long as nothing is muddled: documents hold edits of one tab
  only (`Own`), there is something to save only once the open tab's document is
  shown, and a save of the open tab carries a part of it (`Waits`), a copy with the
  version of its row holds everything the row holds (`Current`, which for the
  body of an error needs that a row of version 0 is `Blank`), what the server
  accepted is in the row (`SavedThere`), and what the page is about to let go of is
  cared for elsewhere (`NoLoss`), without which `NoEditVanishes` is not inductive.
  `EditsAreKept` and `NobodyOverwrites` follow from it.
* **WorkflowRunProofs.** No theorem restricts the workflow, its links or the user's
  way through it. `TInv` says that one request is awaited at a time. `SInv` ties
  together what the browser and the server know: snapshots are different objects,
  saved ones have a row, `ids` are rows of their step, and every parent is the id
  of the linked step, in whichever save it was inserted; from it `ParentsAreOne`,
  `ChildrenAreLinked` and `SuccessIsStored`. `TurnInv` adds that a press of Save has
  saved every step before the one it is at, for `RecordsAreSentInTurn`: records are
  sent in the order of the steps and none that is saved is sent again, which is
  what makes `SavingEnds` more than a matter of answered requests. `EInv` adds that
  the form of a multiple-record step holds a buffered record only while it edits
  it or while the procedure decides on it, which is what `EntriesOnce` needs when
  a procedure refuses. `RInv` joins the two: a buffered record whose entry has a
  row is that row's object, or was made after it (`Fresh`), so that a second row
  of an entry has one of the two reasons of `NoSecondInsert`. `PInv` says that
  every step behind the one on the screen, or all of them once the review was
  reached, is `Fit`: filled and accepted, or changed from the review
  (`GatesArePassed`).
* **EtlJobsProofs.** `TInv` wires the stages of a process, `HInv` says that a job
  in the hands of two processes is crossed. `SInv` follows the rows of a run:
  every current row up to one that was read is in the target or will be written,
  every row up to a watermark, stored or copied, is in the target, and what was
  read is not older than the target; from it `NothingLeftOut`. `TargetsAdvance` is
  about targets and watermarks of jobs that are not crossed; for the watermark
  `WInv` adds that the newest row of the source bears the newest value, so that
  what a run read ends at or above the stored watermark (`Leads`), even if it
  started from an old copy of the configuration. That leans on the source, whose
  rows the model changes and adds but never deletes. `AInv` is the other side: the
  target of an undisturbed incremental append job holds nothing newer than its watermark, so what is read next is new
  (`RowsAppendedOnce`). The steps are grouped by what they disturb (`Quiet`,
  `Change`, `Extract`, `Load`, `Stored`).

Only model-checked: the liveness properties `CacheConverges`, `QueueDrains`,
`RequestsEnd`, `EditsSettle`, `SavingEnds` and `CatchesUp` (out of the prover's
reach, though `NobodyWaitsForEver`, `RecordsAreSentInTurn`, `AlwaysScheduled` and
`NothingIsStuck` prove for all instances that there is a next step and that it
leads on), and the violated properties. Every invariant and every action property
of a passing run is stated by a theorem.

## Not modelled, and why

* ConfigStore: keys are independent, so one is enough. The files `database` and
  `security` on disk, validation and size limits of a document. Version numbers and edit counts do not overflow in any real
  lifetime.
* EmailQueue: connection settings, headers and encoding; `mail()` is a `Send`
  that knows less. A run that selects nothing is a stutter, and a run that
  stops before the mail does nothing here. The due notifications and reminders of
  the same run are not modelled.
* RecordOwners: deletion of a user, whose rows keep `is_current` with owner
  NULL; mass duplication, which assigns fresh records in one transaction;
  administrators, who see everything; the check that the new owner is active.
* AdminEditor: tabs with an editor of their own (print, automations, database,
  docs and the rest of `NON_CONFIG_TABS`) are pages without a document; what the
  fields of a document mean. Saves and loads of one key go to its row directly:
  the caches in between are in ConfigStore.
* WorkflowRun: buttons pressed while a request is under way; rendering, dependent
  selects and virtual columns. A photo whose upload fails is not uploaded again
  when Save is pressed again, because its record counts as saved
  (`workflows.js:1184`): `PhotoFails` has the step, but the sentence of
  `docs/ADMIN.md:125` on photos promises nothing about failures, so no property
  speaks of it. An emptied form that is filled again counts as a new entry.
* EtlJobs: dry runs, CSV and remote sources, the checks of a job's definition,
  editing, disabling and removing jobs, the logs but for what the windows read.
  Loads show as one step, since they are transactions; the values of the
  incremental column become visible in their order, and rows are not deleted in
  the source.
* The components with status `not_modelled` in `PROJECT.json`, each with its
  reason there.

## Plan

Done, most important first: `ConfigStore` with `EditRegister`, `EmailQueue`,
`RecordOwners`, `AdminEditor`, `WorkflowRun`, `EtlJobs`. To be written, in this
order:

1. `RecordWrites`: write, audit entry, snapshot, owner and rules of concurrent
   requests, composed with `RecordOwners`; whether a snapshot is the logged
   write. `RecordOwners` itself to be extended by deletion of users and mass
   duplication.
2. `Notifications`: sources, users and dates as small sets, the unique index,
   overlapping runs, the run log, sharing `Runner` with `EmailQueue`. Theorem:
   one notification per key.
3. `GridPage`: the browser code of the grid (edits in cells, paging and
   refreshes whose answers come out of order), and the wizard of the CSV import.
4. `Links`: two saves of one record's many-to-many links.
5. `Throttle`: the semaphore's slots and the rate-limit window under dead
   holders; `TwoFactor`: the life of a code.

Proofs to come: an abstract specification of the ETL jobs (a target that follows
its source), refined as `Outbox` and `EditRegister` are.

## Running

    tlc -config config_store.cfg MCConfigStore
    tlapm ConfigStoreProofs.tla

and likewise for the other configurations and modules; the largest instance
takes about three minutes.
