# A TLA+ model of zzira

zzira is a Jira, service-desk and wiki server in Go over PostgreSQL, with a
WebAssembly replica in the browser. This directory holds TLA+ modules for the
parts of it where order, crashes and concurrency decide whether it works, TLC
configurations that check them, and TLAPS proofs.

The design these modules follow through the code is one sentence of the
project's own README: one command layer writes an action log, and browsers keep
permission-shaped local replicas of it.

## The system

| Component | Where | State | Operations | What is hard | What makes it correct |
|---|---|---|---|---|---|
| Command layer and action log | `internal/commands`, `internal/store/mutations.go`, `store.go` | tables of work items, `workspaces.seq`, `actions` | every command: one transaction that changes tables, draws numbers (`nextSeq`) and inserts actions (`appendAction`) | concurrent transactions, several numbers per command, rollback, redaction of what is logged | the log is dense and never changes behind a reader |
| Delta sync | `internal/syncapi`, `ActionPageSince`, `BootstrapSnapshot`, `reader_shape.go` | none of its own | `GET /sync`, `GET /bootstrap` | two statements per page without a snapshot, permissions asked when the page is read | checkpoint moves over exactly what was offered; nothing forbidden is shown |
| Browser replica | `cmd/client/main.go` | SQLite copy, checkpoint | bootstrap, apply, purge, seed-view | lost replies, repeated pages, tombstones, rows seeded from rendered pages | replica = log up to the checkpoint |
| Outbox | `cmd/client/main.go`, `internal/syncclient`, `web/static/app.js` | `outbox` table, optimistic rows | enqueue, drain, retry, purge | resends, conflicts, refusals, ended sessions | no command lost, order kept |
| Automation | `internal/automation` | rules, event cursor, runs | `enqueueEvents`, `claim`, `execute`, `finish`, `SetState` | several servers, crashes, old claims, rules that change meanwhile | one run per rule and event, each worked to an end |
| Webhooks | `internal/webhooks`, `store/mutations.go` | webhooks with a watermark, one row per webhook and action | register, enrol behind the watermark, claim a batch, deliver, mark | claims of two minutes that run out, marks that name only the row, several servers | every event is settled, repeated only for a reason, recorded as it went |
| API tasks | `store/api_tasks.go` | `api_tasks` | submit under a limit, claim, report progress, cancel, complete, fail | a task is executed again from the start, possibly beside the first execution | final once, bounded, ends |
| Bulk operations, redaction | `commands/bulk_issues.go`, `store/bulk_move.go`, `bulk_notifications.go`, `jira_redaction.go` | what a task has done to each item | edit, move, delete, watch, redact item by item | crash between the change and its record; items that change or go meanwhile | the result says what was done, nothing is done twice without need |
| Filter subscriptions, mail outbox | `store/filter_subscriptions.go`, `email_outbox.go`, `mailer` | next time, runs, queued mail | enqueue, claim, search, queue per recipient, send, record | leases of five minutes without a fence, crashes, lost SMTP answers | everybody listed gets one mail per run |
| Attachment bytes | `commands_v3.go`, `attachment_blob_deletions.go`, `service_attachments.go`, `attachments` | rows, objects outside the database, cleanup intents | upload, attach, delete, expire, sweep, carry out an intent | no transaction spans the two stores | rows have bytes, bytes have an owner |
| Boards, sprints, ranks, reports | `store/agile.go`, `sprint_properties.go`, `agile_reports.go`, `commands_agile.go`, `lexorank` | sprints, memberships, ranks | create, start, complete and delete a sprint; plan, unplan, rank; report | locks taken in different orders, state read without a lock, ranks computed before the transaction | one open sprint per item, the report is what happened |
| Live editing of wiki pages | `web/static/wiki.js`, `store/wiki_live.go`, `wiki_drafts.go`, `web/wiki.go` | one shared document per page with its latest changes and carets, a draft, the text each editor synced and shows | exchange a change, catch up, rebase and merge, save a draft, publish, discard | changes that cross, lost answers, text kept on the device, versions read before the lock | nobody's text is lost to somebody else's, editors agree |
| Dashboard and report subscriptions, SLA, incident escalation | `store/*_subscriptions.go` and others | rows with a claim time | claim, work, finish | the same as for filter subscriptions | the same |
| Notification bus, SSE | `internal/notifybus` | subscriber buffers | poke | full buffers | only a hint |
| Workflow | `internal/workflow` | workflow schemes | transition | rules over data | not modelled |
| Queries, rendering, REST surfaces, authentication | `internal/jql`, `cql`, `aql`, `jexpr`, `render`, `web`, `api3`, `confluence`, `authn`, `saml`, `scim`, `webauthn` | none, or sessions | decode, evaluate, render | parsing | not a matter of state |

The interactions: commands append to the log and notify; `/sync` pages it to
replicas; the automation reader and the webhook dispatcher are two more readers
of the log; automation rules issue commands, which append again; the outbox
turns what was done offline into commands; bulk operations are commands issued
by a task; sprint reports replay the membership actions of the log; deleting a
work item, a project or an attachment leaves cleanup intents to a worker; live
editing writes the draft that publishing a page replaces.

## Modules

| Module | Models |
|---|---|
| `PrefixLog` | what the log promises: an append-only sequence handed out prefix by prefix; a redaction may blank an entry |
| `ActionLog` | `nextSeq`, `appendAction`, commit and rollback under the row lock of `workspaces`; `scrubActionHistory`; the two statements of `ActionPageSince` and the reader that advances |
| `ActionLogProofs` | theorems about `ActionLog` |
| `DeltaSync` | 2 items, 1 user, 3 actions, pages of 2 | `ReplicaInv` (`TypeOK`, `ReplicaIsPrefixOfLog`), `QuietReplicaIsAuthorised`, `EveryoneCatchesUp`, `SuspensionPurges` |
| `DeltaSyncProofs` | theorems about `DeltaSync` |
| `Outbox` | 2 commands whose texts may have blanks, 1 request lost or refused once written, 1 edit by somebody else | `OutboxInv` (`TypeOK`, `NoCommandLost`, `CarriedOutInOrder`), `DrainedFieldIsServers`, `PurgedNeverRuns`, `EveryCommandIsSettled` |
| `OutboxProofs` | theorems about `Outbox` |
| `Automation` | the event reader under its cursor lock, the run queue, claims that grow old, failures that disable a rule |
| `Webhooks` | registration, enrolment behind the watermark, batch claims, delivery and marks by one dispatcher per server |
| `WebhooksAndWikiLiveProofs` | theorems about `Webhooks` and `WikiLive` |
| `ApiTasks` | 2 tasks (the first of any kind), 2 workers, 2 items in 2 and 1 pieces, limit 1, 1 fault | `QueueInv`, `ResultsAreTrue` (`ProcessedWasChanged`, `ChangedIsAccountedFor`, `SubTasksFollow`, `WatchIsAllOrNothing`), `RepeatsNeedAnOverlap`, `EveryTaskEnds` |
| `ApiTasksProofs` | theorems about `ApiTasks` |
| `Mail` | 2 scheduled times and none after them, a list of 2 people of whom 1 comes and goes or a group, 2 runners, 2 mailers, 2 executions, 2 attempts, 1 fault | `OutcomesAreTrue`, `RepeatsHaveACause`, `EverythingIsSettled` |
| `MailProofs` | theorems about `Mail` |
| `Blobs` | attachment rows, bytes and cleanup intents; uploads, deletions, expiry, the deletion worker |
| `BlobsProofs` | theorems about `Blobs` |
| `AutomationAndPlanningProofs` | theorems about `Automation`, `LexoRank` and `Planning` |
| `LexoRank` | the rank arithmetic of `internal/lexorank`: `Mid`, `before`, `after`, `between` |
| `Planning` | sprints, memberships, ranks and the sprint report, with the locks of each transaction; uses `LexoRank` |
| `LiveText` | the text algorithms of live editing in `wiki.js`: `liveDiff`, `liveApply`, `liveRebase`, `liveMerge` |
| `WikiLive` | 2 editors of a page of 1 character, edited as storage or with a macro in the rich editor, 2 more characters to type of which 1 does not render, 1 kept change, a document of 3 characters at most, 3 events besides typing and exchanges, 2 answers not shown | `LiveInv` (`LiveTypeOK`, `SyncedIsTheDocument`, `NothingIsRefused`, `CaretsAreInside`), `TextLeavesByErasure`, `EditorsConverge` |
| `MC*` | instances for TLC |

How state corresponds to code is noted at each variable; `PROJECT.json` names
the source lines of each definition. A few conventions:

- A PostgreSQL transaction at READ COMMITTED is one action where its effect
  becomes visible at the commit and nothing it read earlier can have changed
  under its locks. Where it reads something unlocked and uses it later
  (`ActionPageSince`, `enqueueEvents`, the tombstones after a security level),
  each statement is an action.
- `DeltaSync` takes a command as one step of the log. `ActionLog` is where that
  is justified: `SettledBelowHead` and `RefinesPrefixLog` say that to a reader
  the transactional log is a sequence to which entries are appended whole.
- Contents are reduced to versions: the sequence number of the action that wrote
  them. Two rows are equal exactly when their versions are.
- Some modules carry history variables (`gaps`, `leaks`, `owed` and `raced` of
  `Automation`, `overrun`, `excused`, `done`, `purged`, `stray`, `late`, `blurred` and
  others under "History" in the module headers). They are read by properties only
  and never by a guard.
- A crash, a lost answer or an overrun costs one of `MaxFaults` (`Fault`); a
  failure that the code meets every day (a refused mail, an endpoint that answers
  with an error) is free.
- A definition commented "Mutation" is a plausible mistake in the next
  definition. It is not part of the specification; substituting it shows that
  the property it is listed with would notice.

### ActionLog

`holder` is the row lock that `UPDATE workspaces SET seq = seq + 1` takes.
`drawn`, `first` and `pending` are a transaction's uncommitted writes. `Commit`
requires an action for every number drawn: every caller of `nextSeq` in the
store inserts one before it commits or rolls back. `Rollback` is an error, a
deadlock that PostgreSQL breaks, or the death of the server. A reader stands for
a replica, the automation reader or the webhook dispatcher alike.

### DeltaSync

Named departures from "the replica is what its user may see of the log", which
the code itself produces, are recorded rather than assumed away. `gaps` are
pairs of work item and user for which some action was or may have been hidden;
`leaks` are pairs for which no action ever told the replica to drop the item.
The two safety invariants speak of the other pairs.

What the log says to a user (`OwnLog`) leaves out the tombstones of others: those
are addressed, and `/sync` hands them to nobody else. `restricted` is the set of
work items that carry a level, since one level is enough to hide one item and show
another. `setProjectLifecycle` takes the items of a project by number; the model
lets it take them in any order, which the code's order is one of.

### Outbox

A request carries the version it was composed on (`marker`, absent for dialogs
rendered offline), and, once admitted, the version the handler read (`base`) and
the account it runs as (`as`). `late` holds requests whose sender has given up
but which the server may still carry out. `purged` and `done` are history.

The field is the summary. A text says something and may have blanks around it:
the replica shows an edit as it was typed (`Enqueue`, `applyOptimistic`), the handler
stores it trimmed and writes no action when nothing is different then (`Written`,
`UpdateIssue`), and other clients may store blanks (`OtherEdit`). So the two sides of a
drained outbox agree up to blanks (`DrainedFieldIsServers`), and no further
(`AuthoritativeTextReplaces`, which does not hold). A request whose change is committed may still be answered 400, when
what follows the commit fails (`HandleWrite`).

### Automation

`phase` is where a worker stands between the statements of one transaction
(`rules`, `skip`, `page`, `head`, `queue`) or in its run. A claim is `RUNNING`
and becomes `OLD` after two minutes whether or not its worker lives. Back-off
times only delay and are left out, as is what the actions of a rule do beyond
appending to the log as that rule.

### Webhooks

`row` is the ledger entry of a webhook and an action. "old" is `delivering` with
a claim of two minutes or more, so `ClaimGrowsOld` is the clock; `overrun` marks
the deliveries whose claim ran out while their owner was still at them. A pass
reads the head, then the active webhooks, then enrols, then claims, in four steps:
webhooks are turned off, on and deleted in between. `MarkDelivered` and
`MarkFailed` find the row by its key alone, as `MarkWebhookDelivery` does, so the
result of a slow sender lands on whatever is there. What a filter matches is
data: `Skip` is always possible. Back-off is time that passes.

### ApiTasks

A worker goes through the items in order, one look, the changes and one report of
progress each; a report renews the claim and ends an execution whose task is not
running any more. An item is changed in `PartsOf` pieces, each a transaction of its
own: an edit sets the type, the fields and the status, a move takes the item and then
its sub-tasks, and a worker may die or a command may fail between any two. A move
records every piece, reports a sub-task as it reports an item, and reports the item
both as processed and as failed when a sub-task fails. Everything else has one piece.

What makes a repeated execution safe differs by kind and is modelled as it is: a
piece that was moved has a row in `bulk_issue_task_items` written with the change
(`recorded`), of which only that of the item is asked for (`LookMove`); a deleted item
is known by the deletion action in the log that names the task (`deletedBy`); watching
is one transaction with its completion; an edit has nothing but the values it finds
(`held`: fields and status are left alone when they are as asked, the type is set as
it was when the item was looked at); and a redaction writes the text, the history and
the record in three steps (`marked`, `dirty`, `recorded`). `changed` counts what really
happened, piece by piece. `SubTasksFollow`, a part of `ResultsAreTrue`, excuses the
items a worker died halfway through (`torn`) and `RepeatsNeedAnOverlap` the pieces of an
edit that somebody else changed back (`touched`): `SubTasksMoveWithTheirParent` and
`RecoveryRepeatsNothing` say what the documentation says of both, and are refuted.

### Mail

Two leased queues in a row. A run is finished and a mail is recorded by whoever
is last, fenced only by the state (`RUNNING`, `delivering`). One mail per run and
recipient is kept by the dedupe key (`Queue`). A recipient who left the workspace
ends the execution (`Unavailable`), as does a search that fails (`SearchFails`); it is
then repeated up to `MaxTries` times. A mailer's attempt counts when it has failed; a
runner's when it is claimed.

A subscription lists people or names a group, whichever it was last saved with
(`Listed`, `Grouped`: the times at which it may do either). The members of a group are
read by each execution and are any of those active then (`Search`); `aim` is whom an execution has
found it has to reach, `owed` that of the execution that ended the run. A group without
members gets no mail, and neither does its one member who owns the subscription.

A schedule may have a last time (`Ends`). The runner works out the time after the one
that is due before it claims anything, and an error there ends its pass, so a last time
that has come keeps every runner of the workspace from claiming (`Blocked`), unless it
finds the row locked by another (`ClaimPastLocked`). SMTP has a timeout for dialling
only: a session may hang (`SendHangs`) until its connection ends, if it does.

### Blobs

An upload writes the bytes, then the row; a deletion removes row and writes
intent in one transaction, then deletes the bytes, then completes the intent.
Requests and workers share `Procs`: both do the second half. What the code leaves
behind is named and excluded by the properties: `stray` (an upload or a sweep that
died with the bytes in the store), `doubtful` (a row committed by a transaction
whose answer was lost; the upload then removes the bytes), `late` (a row added
after `PermanentDeleteProject` has read its list).

### LexoRank and Planning

A rank is a word over `K` letters, with the code's 52 replaced by a small number;
`<<U>>` is the default rank. `Mid` and its three cases are the Go functions with
the loops replaced by the position where they stop.

In `Planning` a request is a transaction that is begun, takes its locks, and
commits. Locks are read off the program counters: the advisory lock of a work
item, the rows of a sprint and of its board, the memberships of other open
sprints, and the counter row of the workspace that every action needs.
`WaitsFor` is the waits-for relation and `BreakDeadlock` is PostgreSQL aborting
one member of a cycle (`Deadlocked`), the one part of the map that is
external. `LockItem` reads the sprint's state without
locking it, so it may be completed or deleted before the membership is written;
`blurred` marks sprints that were completed while a move of their work was under
way. A rank is computed when the request arrives and written in a later
transaction; `fresh` says that no rank was written since. Ranks are compared as the
arithmetic of `internal/lexorank` does, byte by byte; the queries that look for
neighbours order by the collation of the database, which `migrations/006` does not set
to `"C"`, and are assumed to agree with it.

### LiveText and WikiLive

A text is a sequence of characters, each typed once. A change is the code's
position, length and inserted text, counted from 0. `liveRebase` and `liveMerge`
are the functions of `wiki.js`, branch by branch; UTF-16 surrogates, which
`liveDiff` never splits, are left out.

A call is one exchange. `Send` is the request together with what the server reads
of page and draft before it locks (two reads, taken as one); `CatchUp` and
`Accept` are the transaction under the row lock; `SaveDraft` is the second
transaction of an accepted change. The answer arrives with the last of them, so a
lost answer is `GiveUp` before it: a call nobody waits for may go on in the server
or be noticed and dropped. `KeptChanges` stands for the code's 2000, `MaxBody` for the 1 MiB beyond which
the document takes no change (`RefuseChange`), `Markup` for
characters that are half a tag. `CloseEditor` leaves the unsent text on the device
and `OpenEditor` takes it up. `OwnText` is the one place where an editor treats
the difference between the rendered page and the document as its own work.

A page is edited in a text area, which shows what it is given, or in the rich editor
(`rich`), which opens pages without anything only storage can hold (`RichEditable`,
`SourceOnly`) and shows nothing of a text it cannot draw again: `text.set` then leaves
the text that was there (`Showing`), and the exchange goes on as if the merge were
shown. A rich editor draws the macros and layouts of the page it is opened on, and
cannot draw them a second time (`Draws`, `Macros`). What it did not show it sends as
deleted in its next exchange. `replaced` records what either way of showing something
else than the document removes: `opening` the text of others that an editor takes for
deleted as it opens, `drawing` that which it was sent and did not show. Two editors that
cannot show the page take turns in deleting and adding for ever, so `MaxMisses` bounds
the answers that are not shown. That the rich editor writes back the storage it was
given, when it can draw it, is assumed.

## Runs

Passing runs:

| Run | Bounds | Checks |
|---|---|---|
| `ActionLog` | 2 transactions, 1 reader, 4 numbers, pages of 2 | `TypeOK`, `LogIsDense`, `NothingSkipped`, `SettledBelowHead`, `RefinesPrefixLog`, `EveryActionIsDelivered` |
| `DeltaSync` | 2 items, 1 user, 4 actions, pages of 2 | `ReplicaInv` (`TypeOK`, `ReplicaIsPrefixOfLog`), `QuietReplicaIsAuthorised` |
| `Outbox` | 2 commands, with and without blanks, 1 request lost or refused once written, 1 edit by somebody else | `OutboxInv` (`TypeOK`, `NoCommandLost`, `CarriedOutInOrder`), `DrainedFieldIsServers`, `PurgedNeverRuns` |
| `Automation` | 1 rule, 2 workers, 3 actions, pages of 2, disabled after 2 failures | `TypeOK`, `EventsBehindCursorHaveRuns`, `PromptWorkersDoNotOverlap` |
| `AutomationLive` | 1 rule, 1 worker, 2 actions, disabled after 2 failures | `QueuedRunsAreDone` |
| `Webhooks` | 1 webhook, 2 servers, 2 actions in batches of 2, 2 attempts, 1 fault | `ClaimInv`, `OutcomesAreTrue`, `RepeatsHaveACause`, `EveryEventIsSettled` |
| `ApiTasks` | 2 tasks (the first of any kind), 2 workers, 2 items in 2 and 1 pieces, limit 1, 2 faults | `QueueInv`, `ResultsAreTrue` (`ProcessedWasChanged`, `ChangedIsAccountedFor`, `SubTasksFollow`, `WatchIsAllOrNothing`), `RepeatsNeedAnOverlap` |
| `Mail` | 1 scheduled time, a list of 2 people of whom 1 comes and goes, 2 runners, 2 mailers, 2 executions, 2 attempts, 2 faults | `OutcomesAreTrue`, `RepeatsHaveACause` |
| `Blobs` | 2 files, 2 work items, 2 processes, 2 faults | `IntentInv`, `RowsHaveBytes`, `EveryByteHasAnOwner`, `EveryIntentIsCarriedOut` |
| `Planning` | 3 items, 2 sprints of 1 board, 2 requests at a time and 4 in all, 5 letters | `PlanInv`, `ReportIsTheSprint`, `SomebodyGoesOn`, `PlacedWhereAsked` |
| `WikiLive` | 2 editors of a page edited as storage, 1 character on it, 2 more to type of which 1 does not render, 1 kept change, 3 events besides typing and exchanges | `LiveInv` (`LiveTypeOK`, `SyncedIsTheDocument`, `NothingIsRefused`, `CaretsAreInside`), `TextLeavesByErasure`, `EditorsConverge` |

A run that shows the code departing from what the repository says of it:

| Run | Refuted | What happens |
|---|---|---|
| `AutomationRace` | `NoEventIsPassedOver` | the cursor passes an action committed between page and head, although `events.go:91` says everything up to the head was read |

### What comments and documents say and the code does not do

The modules state these too. None is among the runs' properties; adding the line
to the configuration of the module makes TLC show the behaviour.

| Statement | Where it is said | What happens instead |
|---|---|---|
| `TombstonesOnlyForExcluded` (`DeltaSync`, PROPERTY) | `store/mutations.go:812` | a member given the level before the tombstone is appended is sent it and loses the work item |
| `ArchivedProjectLeavesReplicas` (`DeltaSync`, INVARIANT) | `docs/PROJECT_LIFECYCLE.md:31` | the delete actions of an archived project are hidden from everybody |
| `ConflictMeansSomebodyElse` (`Outbox`, INVARIANT) | `internal/web/web.go:3010` | a resent edit conflicts with itself and blocks the queue |
| `CommandsRunAsTheirAuthor` (`Outbox`, INVARIANT) | `internal/syncclient/policy.go:38` | queued commands run as the next account to sign in |
| `AuthoritativeTextReplaces` (`Outbox`, INVARIANT) | `cmd/client/main.go:1126-1127` | an edit that only adds blanks is accepted and writes no action (`internal/web/web.go:3019`), so its row leaves the outbox and the replica keeps a text the server never stored |
| `AttemptsAreExclusive` (`Webhooks`, INVARIANT) | `internal/webhooks/dispatcher.go:2` | a batch that outlasts its claim is sent by two servers |
| `RemovedBytesHaveIntent` (`Blobs`, INVARIANT) | `docs/ATTACHMENTS.md:36` | a file attached while a project is being deleted loses its row and keeps its bytes, without an intent |
| `RedactedIsScrubbed` (`ApiTasks`, INVARIANT) | `docs/ISSUE_SURFACE.md:268` | a crash after the text leaves the history as it was; the repeated job takes the item for done |
| `MailListsEveryChange` (`ApiTasks`, INVARIANT) | `store/bulk_notifications.go:63` | what an execution changed before it crashed is not in the mail |
| `RecoveryRepeatsNothing` (`ApiTasks`, INVARIANT) | `docs/BULK_ISSUES.md:27-29`, `store/api_tasks.go:291-292` | an edit has no record of what it has done: its worker dies, another user changes an item, the next worker changes it again; no two workers were at the task at once |
| `SubTasksMoveWithTheirParent` (`ApiTasks`, INVARIANT) | `docs/BULK_ISSUES.md:49` | a worker dies between an item and its sub-task (`bulk_issues.go:364-380`); the next finds the item recorded (256-262), reports it as processed, and the task is COMPLETE with nothing failed and the sub-task where it was |
| `GroupMembersAreReached` (`Mail`, INVARIANT) | `docs/FILTERS.md:55-56` | the owner of a subscription who is the one active member of its group gets no mail, although the filter matched: the comment at `store/filter_subscriptions.go:434` means the empty group only |
| `DueRunsAreClaimed` (`Mail`, PROPERTY) | `docs/FILTERS.md:58` | when the last time of a schedule has come, `enqueueDue` fails (`store/filter_subscriptions.go:350-353`) and every pass of the runners of that workspace ends before it claims (320-322); queued runs wait for ever, with no crash and no fault |
| `ClosedSprintKeepsItsWork` (`Planning`, PROPERTY) | `store/agile.go:1022` | a sprint completed while a work item is moved out of it loses it afterwards |
| `EveryGapHasARank` (`Planning`, INVARIANT) | `internal/lexorank/lexorank.go:28` | `between` gives up where the gap closes at a later letter |
| `NobodysTextIsDeleted` (`WikiLive`, PROPERTY) | `docs/CONFLUENCE_LIVE.md:61` | an editor that opens while others type takes their text for deleted and removes it with its first change |
| `RedrawnTextStays` (`WikiLive`, PROPERTY) | `docs/CONFLUENCE_LIVE.md:81-82`, `:61` | on a page with a macro or a layout the rich editor shows nothing of a merge (`wiki.js:313`, 693-695) and takes it for synced (504-506, 511-513): its next exchange deletes what the other person added |
| `DraftIsTheDocument` (`WikiLive`, INVARIANT) | `store/wiki_live.go:262` | the draft is a second transaction: a request that is given up after the first leaves no draft of an accepted change |
| `DiscardedTextStaysAway` (`WikiLive`, PROPERTY) | `internal/web/wiki.go:2600` | a draft saved by an exchange already under way comes after the discard and brings the text back |

One more has no counterpart in a module, since what a search finds is left open there:
`docs/FILTERS.md:58` has the filter of a subscription evaluated "with each recipient's
permissions"; `execute` searches once, as the subscriber (`run.UserID`,
`store/filter_subscriptions.go:408-412`), and every recipient gets the same lines.

The modules also contain behaviour that a reader should know of and that no
property is stated about: `scrubActionHistory` rewrites logged actions, and a
reader past them keeps the old text (`ScrubAction`); a row seeded from a rendered
page stays when the actions of the item were hidden while the checkpoint passed
them (`SeedView`, `gaps`); restoring a work item publishes it without the
comments its archiving removed from replicas (`RestoreIssue`); an optimistic
comment stays beside the server's (`local`); a rule enabled just before a poll
gets runs for the events since the last one (`ReadRules`); and a worker that
overran its claim can, by failing, free the claim of its successor (`Fail` after
`ClaimGrowsOld`). A webhook that is turned on again is sent the events of the time
it was off (`TurnOn`, `Enroll`). A redaction that is cancelled goes on, since it
reports no progress (`Progress`). A subscription that is saved again drops a time
that was due (`Save`); a run whose last execution crashed stays RUNNING
(`Over`). A move that is executed again lists in its result and its mail only the item
and not the sub-tasks that went with it before (`LookMove`). A resent comment is added
twice. Planning the last item of the backlog
at its end gives it the rank of a new one (`PlanAtEnd`). An editor whose answer was
lost gets its own change back as one it missed and inserts the text twice
(`CaughtUp`). An exchange that read the published version before somebody
published restarts the document from the older one (`Restarts`). Publishing takes
the text of the form, so a change that was accepted after the last exchange is not
in it (`Publish`), and an exchange makes the version check of the form pass
(`saves` in `Synced`).

### Why the bounds are enough

Pages of two rows with three actions give full, partial and empty-for-this-user pages,
and never cut the archive of a project over two of them. With four actions one does, and
the two safety properties of `DeltaSync` were found to hold on the 5.4 million states
there are then; the proofs cover every length. Two
transactions are enough for a second to wait for, overtake or follow the first;
a third adds nobody to wait for, since only one owns the row. Replicas do not
read each other, so one user shows what a replica does. Two commands give a queue with a head and a successor, and one
lost request one resend. Two workers are what a claim can be taken between; the
failure limit of 2 stands for the code's 10: one failure is worked again, a second disables
the rule.

One fault shows each single failure and two, in `Blobs`, a failure during the recovery
from the first. With two faults, which is a crash of the second execution or an
overrun after a crash, the properties of `ApiTasks` (its invariants, 2.9 million states up
to symmetry) and of `Mail` (with one mailer, 1.2 million states) were found to hold as
well; neither fits the time of a run. Two
webhook deliveries in one batch are the least for which the result of one can be
confused with that of the other; two attempts make a first and a last one. Two
tasks with a limit of one make the limit bite; two items make a crash between
them, and two workers are what a task can be taken between. Two pieces of the first item
put a crash, a refusal, an overrun or another user between an item and its sub-task, or
the type and the fields of an edit; the second item has one piece, so that nothing
depends on there being more. A time that is enqueued shows each lease of `Mail` beside
the others, and a second one, which is the last, what happens to its run while the
runners fail. Two blobs are what one
transaction can remove together while a third party is at one of them. Two
requests make every cycle of waits this code has, since a cycle needs only the
counter row and one other; three items make two neighbours and one that comes
between; four requests are what it takes to create overlapping moves, complete a
sprint and move on. With five letters and the middle one as default the
arithmetic reaches its ends: ranks that touch, leading smallest letters and
gaps that close.

Two editors make every pair of changes that can cross; two characters to type and
one to delete give insertion beside insertion, insertion inside and beside a
deletion, and a document that is more than one kept change ahead. Two of the three
events are usually the opening of the editors, the third is a deletion, a lost answer, a reload, a publication, a draft or a discard. Two answers that are not
shown are one for each editor, or a second one for an editor that has lost text already.
With one character for each
person and four events, which makes two publications meet, there are 3.5 million
states, on which `LiveInv` and `TextLeavesByErasure` hold as well.

`Blobs`, `ApiTasks`, `Mail`, `Planning` and `WikiLive` set `CHECK_DEADLOCK FALSE`, because
with bounded uploads, tasks, times, requests and events these systems really are done in
the end. That nobody is stuck is what their liveness properties say, and
`SomebodyGoesOn` for `Planning`. The other modules never stop: a user can always
be given or lose a level, a transaction may begin and roll back, a ticker starts a
pass, a rule is enabled or disabled.

### Fairness

- Readers and replicas: the worker's ticker asks every three seconds
  (`cmd/client/main.go`, `time.NewTicker`), so a request is made in the end; not
  every reply is lost, so steps after it are strongly fair.
- Outbox: the ticker starts passes; the server handles what reaches it; users,
  sign-ins and retries are not assumed to happen.
- Automation: `Run` ticks every second; workers crash, but not for ever, and a
  claim grows old by the clock. No fairness on commands or on people.

- Webhooks: the ticker starts passes and `http.Client.Timeout` ends requests, so
  steps of a pass are weakly fair; claims grow old by the clock. No endpoint is
  assumed to accept.
- ApiTasks and Mail: workers, runners and mailers poll every few seconds (weakly
  fair steps), abandoned claims lapse. Submitting, cancelling, saving and SMTP's
  answers are free; faults are bounded by `MaxFaults`. A runner claims only when
  nothing is `Blocked`, and a session that hangs is owed no end (`mpc[p] # "hung"`), since
  `mailer.go:90` times only the dialling; `EverythingIsSettled` leaves out what waits behind
  a blocked schedule, and mail when every mailer hangs.
- Blobs: requests and workers finish what they have begun, leases lapse, and the
  deletion worker gets its turn between requests (claiming is strongly fair,
  since a process of the model is busy with requests in between).
- WikiLive: an open editor exchanges every second (`setInterval(sync, 1000)`), and a
  request ends within fifteen seconds (`wikiLiveJSON`). Giving up is one of the
  bounded events; nobody has to type, close or publish. `EditorsConverge` speaks of
  behaviours in which from some time on every open editor can show its own text and the
  document, and no text is too long (`Showable`): editors that cannot show the document
  go on deleting and adding.
- Planning checks no liveness beyond `SomebodyGoesOn`, which needs no fairness.

## Proofs

`ActionLogProofs` proves for every set of transactions, readers and bodies, every
bound and every page size, from the named assumptions of `ActionLog` alone:

| Theorem | Statement |
|---|---|
| `Invariance` | `Spec => []IInv` |
| `TypeCorrect` | `Spec => []TypeOK` |
| `Dense` | `Spec => []LogIsDense` |
| `Complete` | `Spec => []NothingSkipped` |
| `Settles` | `Spec => SettledBelowHead` |
| `Refinement` | `Spec => RefinesPrefixLog` |

`IInv` is `TypeOK`, `LogIsDense`, `NothingSkipped`, `LockInv` and `PageInv`.
Density is not inductive alone: a commit publishes the numbers its transaction
drew, so one has to know that they start right after the committed head
(`LockInv`: the owner of the row has drawn `seq+1..drawn`, everybody else
nothing). `NothingSkipped` needs `PageInv`: between the two statements the
boundary lies inside the log, and the rows fetched are all of
`cp+1..to`, which follows from density. `Settles` and `Refinement` are step
theorems under the same invariant.

`AutomationAndPlanningProofs` has the proofs of two components that share nothing but
the library lemmas they cite; the names of `Planning` carry its name (`SpecPlanning`,
`PlanningIInv`), so that both can be extended. Its first half proves, for every set of rules and workers, every page size,
failure limit and bound on the log:

| Theorem | Statement |
|---|---|
| `Invariance` | `Spec => []IInv` |
| `TypeCorrect` | `Spec => []TypeOK` |
| `CursorLeavesNoEvent` | `Spec => []EventsBehindCursorHaveRuns` |
| `PromptWorkersExclude` | `Spec => []PromptWorkersDoNotOverlap` |

The assumptions are those of `Automation`: no rule is the user, no worker is
"nobody", no run is "no run", page and failure limit are positive. `IInv` adds to
the types and the two properties

- `OwedInv`: what is owed is an event in the log, matched by a rule that is
  enabled, and nothing is owed before the cursor row exists;
- `ExecInv`: a worker is executing exactly when it holds a run;
- `ReaderInv`: what the owner of the cursor has read covers what is owed beyond
  the cursor. After the rules were read the rule of each such pair is known; after
  a short page its event is in the page; at the end this holds up to the new
  cursor. With no enabled rule nothing is owed, which is why the cursor may go to
  the head.

`ReadPage` is the step that needs an argument about data: a page is a prefix of
the events behind the cursor (`PageIsPrefix`), so a full one bounds the cursor,
and a page with fewer rows than the limit is all of them (`ShortPageIsAll`, by
cardinality).

Its second half proves, for any finite set of work items, any sprints and requests,
any alphabet and any number of transactions, with or without parallel sprints:

| Theorem | Statement |
|---|---|
| `MidIsBetween` | `Mid` of two words of which one lies before the other lies strictly between them |
| `PlanningIInvInvariant` | `SpecPlanning => []PlanningIInv` |
| `PlanInvariant` | `SpecPlanning => []PlanInv` |
| `ReportTellsTheSprint` | `SpecPlanning => []ReportIsTheSprint` |
| `ItemsGoWhereAsked` | `SpecPlanning => PlacedWhereAsked` |

`PlanningAssumption` has the work items finite, since the ends of a backlog are looked
for among their ranks (a minimum of an infinite set of words need not exist).
`PlanningIInv` is not `PlanInv` with types. It says for each request what it has read
and what is still true of it:

- `MoveOK`: a move has found every other open sprint that holds its work item
  (`prev`), and no sprint it read as open was completed since, unless `blurred` has it.
  That nobody adds the item in between is the advisory lock, so the invariant holds
  pairwise (`LockInv`): of two requests at most one moves an item, updates a sprint, and
  so on, which says more than that a lock has one owner.
- `UpdateOK`: the sprint a request has locked is still in a state the request may
  change, and no other is active, because the board is locked with it.
- `RankOK`: a rank worked out before the transaction still has its place as long as
  nobody has written a rank since (`fresh`).
- `Told`: the last action about a work item and a sprint says whether it is in it
  (`LastSays`). The report replays actions up to the completion, and `ClosedInv` has
  none later, so the replay ends with the last one (`ReportFollows`).

`PlacedWhereAsked` needs what the rank functions compute. `Mid` looks for the first
letter where its bounds leave room; its three cases are three lemmas, and
`MidIsBetween` joins them. `before` and `after` answer nothing, or a word beyond the
one they were given, by cases over the letter where they stop.

`DeltaSyncProofs` proves, for any work items and users, any length of the log and
any page size:

| Theorem | Statement |
|---|---|
| `IInvHolds` | `Spec => []IInv` |
| `ReplicasArePrefixes` | `Spec => []ReplicaInv` |
| `QuietReplicas` | `Spec => []QuietReplicaIsAuthorised` |

Assumed: there are finitely many work items (a project archive writes a row for
each), `Nobody` is no user, `Seed` is no version, and pages are not empty. `IInv` has
a part for the log (`LogInv`), one for each user (`WindowOf`) and ten for each pair of
user and work item (`PairOf`). Replaying the log to its end gives the tables
(`TableOf`), and replaying it to the checkpoint gives the replica (`PrefixOf`); what is
on its way continues that replay, because a page in flight has every action of the
item between checkpoint and boundary, and a snapshot is the replay to its head
(`PageOf`). A command shows up in `TableOf` as one more action (`OneMore`), a page as
one stretch of the log after another (`OneAfterAnother`). That a replica lets go of
what it may no longer hold is `Cleared`: its copy is empty, or an action that empties
it lies beyond the checkpoint, and the same holds of the answer in flight. For a
hidden item that action is one of the user's tombstones (`HiddenOf`); for a deleted
or archived one it is a deletion that nothing but deletions follows (`EndOf`,
`DeadOf`). The item needs one of the two kinds of reason at each moment, and
`HiddenThenDead` is the step from the first to the second, when a level is taken
away. The log appears as a value in these predicates (`RowOf`, `ThreadOf`), so that a
step which only appends to it leaves them alone (`OwnStays`, `PageStays`), and a
step of one user or one item passes the others by (`AsideStays`).

`OutboxProofs` proves, for any accounts, numbers of commands, edits and lost requests:

| Theorem | Statement |
|---|---|
| `IInvHolds` | `Spec => []IInv` |
| `OutboxSafe` | `Spec => []OutboxInv` |
| `FieldIsServers` | `Spec => []DrainedFieldIsServers` |
| `PurgedStaysPurged` | `Spec => PurgedNeverRuns` |

`RequestAssumption` says that the absent request is none of the requests, and `Other`
is no command. The queue is the last stretch of the commands that were saved, and
the earlier ones are settled (`QueueInv`); the request under way is its head
(`WireInv`); from the end of a session to its purge no request waits to be admitted
(`PurgeInv`), which is why nothing that is purged can be admitted later; and
the field shown says what the checkpoint's says, or a later edit is on its way, in the
log or in the queue (`ShownInv`). An edit that was accepted and wrote no action found its
own words stored, so the first holds of it, up to blanks.
`PurgedNeverRuns` speaks of what the worker sends and what the server admits after
the purge: a request that was admitted before it and given up may still be carried
out, and the proof shows that this is the only way.

`WebhooksAndWikiLiveProofs` has the proofs of two more components that share nothing;
the names of `WikiLive` carry its name (`SpecLive`, `LiveIInv`). Its first half proves, for any webhooks, dispatchers, batch size, number of attempts
and faults:

| Theorem | Statement |
|---|---|
| `IInvHolds` | `Spec => []IInv` |
| `ClaimsAreExclusive` | `Spec => []ClaimInv` |
| `RecordedOutcomes` | `Spec => []OutcomesAreTrue` |
| `RepeatsAreExcused` | `Spec => []RepeatsHaveACause` |

What a dispatcher holds is "delivering" unless its claim was overrun (`HeldInv`), so
nobody claims it a second time; what it is about to record is what the endpoint did
(`ResultInv`); no more attempts are counted than have failed (`CountInv`), and an
event that was taken is recorded or about to be (`TakenInv`).

Its second half proves, for any editors, characters, start text, number of kept
changes and events:

| Theorem | Statement |
|---|---|
| `LiveIInvInvariant` | `SpecLive => []LiveIInv` |
| `LiveInvariant` | `SpecLive => []LiveInv` |
| `CoverInvInvariant` | `SpecLive => []CoverInv` |
| `OnlyErasureTakesText` | `SpecLive => TextLeavesByErasure` |

`TextAssumption` says that `NoText` is no text over the characters there are,
`KeptAssumption` that at least one change is kept. `SyncedIsTheDocument` and
`NothingIsRefused` are the invariant of editors and of calls seen at one moment only:
an answer that is under way, or a text on the device, becomes what an editor has
synced later. `LiveIInv` therefore says it of every text that was the document of a
session at a revision (`Holds`): done to it, the changes kept since give the document.
What an editor has synced is such a text, open or not (`EditorOK`); a change under way
was made from such a text, and the editor that waits for it has not moved meanwhile
(`CallOK`, `OneCallEach`); sessions are numbered below `fresh`, so that a document that
restarts makes no old text true. An accepted change is one more kept and one more done
(`OneMoreChange`, `LastOfPruned`), and what `liveDiff` finds does turn the one text into
the other (`DiffIsTheChange`), which is why what was sent becomes the document.
`ApplyAll` and `liveMerge` are recursive functions; what they have after every step is
found as the least number of steps where it fails (`Iterates`, `SameIterates`).

`TextLeavesByErasure` needs a second invariant on top of that one. Accepting a change
replaces the document by what was sent, so it takes out what was sent lacks, and that
was decided earlier: when the editor typed, caught up or merged. `CoverInv` keeps it: of the
text it is measured against, what an editor shows, has left on its device or has sent
lacks no character but one that was erased or replaced (`Excused`), and what an editor
shows has all it waits to see accepted (`ShowsAll`, `SendsAll`). An editor that cannot show
the merge makes these true by what it adds to `replaced` (`ReplacedByAnswer`), and this is
the only way, besides opening, in which text goes that nobody erased. Here "lacks" counts: a text has fewer
of a character than another, since the same character may stand at several places. How
often `liveApply` leaves a character is a sum over the parts of the text
(`TimesOfParts`, `TimesOfApply`). From it, a change that leaves no fewer of a character
than there were still does so when it is rebased over any other change
(`RebaseKeeps`: kept as it is, moved, cut at either side or in two), hence when it is
carried over all the changes that were missed (`CarriedKeeps`), hence a merge lacks of the
new document only what the own text lacked of the old one (`MergeLacksOnly`).

`MailProofs` proves, for any users, scheduled times, runners, mailers and limits:

| Theorem | Statement |
|---|---|
| `IInvHolds` | `Spec => []IInv` |
| `RecordedOutcomes` | `Spec => []OutcomesAreTrue` |
| `RepeatsAreExcused` | `Spec => []RepeatsHaveACause` |

The mailers are finitely many (`MailersAssumption`), as are the people on a list
(`RecipientsAssumption`), and the absent mail is none of the mails (`NoMailAssumption`).
A runner has queued mail for everybody it aims at and has not left over, unless it aims at
the owner of a group subscription alone (`RunnerInv`). A mail in a mailer's hand is
locked and held by it alone, unless the lock was overrun or the mailer hangs
(`LockInv`). Refusals that are still to be recorded are counted
apart, `attempts + Cardinality(Refusing) <= refused`: without them a refusal recorded
late could be taken for the one before.

`BlobsProofs` proves, for any blobs, work items, processes and number of faults:

| Theorem | Statement |
|---|---|
| `IInvHolds` | `Spec => []IInv` |
| `IntentsAreKept` | `Spec => []IntentInv` |
| `FilesCanBeRead` | `Spec => []RowsHaveBytes` |
| `BytesAreOwned` | `Spec => []EveryByteHasAnOwner` |

Bytes are written once, before their row (`UpInv`), and whoever deletes bytes has a
blob whose row has gone (`RefsInv`, `RemovedFirst`); a project deletion knows every row
but those attached after it read its list (`PlanInv`).

`ApiTasksProofs` proves, for any finite set of tasks, any workers, numbers of items
and faults and any limit:

| Theorem | Statement |
|---|---|
| `IInvHolds` | `Spec => []IInv` |
| `QueueIsBounded` | `Spec => []QueueInv` |
| `RecordedOutcomes` | `Spec => []ResultsAreTrue` |
| `RepeatsAreExcused` | `Spec => []RepeatsNeedAnOverlap` |

The limit holds because a request that has counted is alone with the lock and has
counted no less than is active now (`RequestInv`). Whatever a task has changed left
the trace its kind leaves (`TraceInv`), a worker has reported only what was changed
(`WorkOf`), and a task that nobody took over has one worker (`SoleInv`), which is
about to change only what is unchanged (`FreshOf`) and has reported everything that
was changed among the items it is past (`ReportOf`). The sub-tasks need two statements
that hold each other up: what a worker has processed and not seen fail is complete or
`torn` (`FollowOf`), and so is every item a task has moved that no worker is at
(`BegunOf`), which is what the next execution relies on when it finds the item recorded.

Each of these invariants was checked by TLC, on the instances of the runs or on
smaller ones, before it was proved: that of `DeltaSync` for one user with two items
and three actions or one item and six, and for two users and one item to a depth of
16 steps, and that of `WikiLive` with one kept change and with two.

Only model-checked: liveness under fairness, which is out of the prover's reach (all
properties with `~>`, and `EditorsConverge`), and `SomebodyGoesOn` of `Planning`, which
is about ENABLED.

## Not modelled

- Queued transitions, the third kind of command an outbox holds: they name no
  version, and what refuses them is the workflow. A transition that was carried
  out and whose answer was lost is resent from the status it led to
  (`cmd/client/main.go:1149`), where it may no longer be offered.
- Parsing, rendering, query evaluation and the REST surfaces change no state
  beyond the commands they call. These, with the rest of the wiki, the service desk and the
  administration pages, are most of the source; the parts that have the most to
  get wrong are the ones above.
- Authentication protocols appear as accounts that sign in and out.
- Attachments, worklogs, boards, links, watchers and notifications as kinds of
  action: they live in the log and the replica as comments do.
- Dashboard and report subscriptions, SLA and incident workers: leased rows like
  those of `Mail` and `Automation`.
- Wiki attachments and asset files, which are deleted without an intent
  (`commands/wiki.go:848`). Archive and export tasks, which look for an active
  task and insert theirs without a lock (`jira_issue_archive.go:187`) though
  `issue_metadata_tasks.go:33` promises one at a time.
- An edit between the read and the write of a redacted field, which is
  overwritten (`jira_redaction.go:240`): the text of fields is not modelled.
- The connection pool. Starting a sprint asks it for a second connection while
  it holds a transaction (`agile.go:713`), so enough of them at once wait for each
  other where no database sees it.
- The order in which commands on work items lock rows (`UpdateIssue` takes
  project, item and counter, `DeleteIssue` item, counter and children):
  `ActionLog` has the abort as `Rollback`. The same question is answered for the
  planning commands by `Planning`.
- Live editing of blog posts, whose save takes the current version without a check
  (`internal/web/wiki.go:759`), the title, and two browser windows of one person,
  which share the device's storage.
- SSE and the notification bus only make a poll earlier.

## Plan

1. Transitions in `Outbox`; the lock order of work item commands; an abstract
   leased queue that `Mail`, `ApiTasks` and `Webhooks` implement.
