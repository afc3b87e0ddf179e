# Verification of the QTable server

QTable is a smart-table server: FastAPI and Strawberry GraphQL on asyncio, over
SQLAlchemy async sessions and PostgreSQL, with an S3-style object store and
optional Redis. This directory holds TLA+ models of it, TLC configurations that
check them on small instances, and TLAPS proofs of the properties that matter
most for every instance.

| Module | Models | Run | Proofs |
|---|---|---|---|
| `RecordStore` | rows, versions, ChangeSets, recycle bin, relation links, field maintenance, the automation's row write | `record_history`, `record_all_writers` | `RecordAutomationProofs` |
| `Attachments` | attachment registry, cells, object store, upload and delete requests, cleanup workers | `attach_requests`, `attach_lifecycle` | `LifetimeProofs` |
| `AutomationEngine` | event queue, leases, dispatch, executions, retries, manual runs, crashes | `automation_steady`, `automation_faults` | `RecordAutomationProofs` |
| `AutomationSources` | rules, schedule and due-date scans, the materialiser of change items | `teamwork`, `event_window` | `TeamworkProofs` |
| `PlanBatches` | preview and apply of the five AI planners under concurrency | `plan_requests` | `LifetimeProofs` |
| `OAuthSessions`, `SessionChains` | codes, refresh tokens, revocation, logout; what they promise | `oauth` | `LifetimeProofs` |
| `Workspaces` | item tree, table and dashboard data, members, item permissions | `tables` | `TableProofs`, `MCTablesProofs` |
| `TableDesign` | fields, formulas, row-permission policy, cells | `tables` | `TableProofs`, `MCTablesProofs` |
| `TableViews` | views, default view, filters and sorts | `tables` | `TableProofs`, `MCTablesProofs` |
| `Boards` | kanban cells, ranks, rebalancing, moves | `tables` | `TableProofs`, `MCTablesProofs` |
| `TaskTrees` | from a planned tree of tasks to records | `tables` | `TableProofs`, `MCTablesProofs` |
| `SkillRegistry` | skills, versions, categories, cached lists | `tables` | `TableProofs`, `MCTablesProofs` |
| `PasswordReset` | reset and invitation links, rate limit | `tables` | `TableProofs`, `MCTablesProofs` |
| `NotificationStream` | assignment notifications, repair, stream | `teamwork` | `TeamworkProofs` |
| `Comments` | comments, mentions, activity pages | `teamwork` | `TeamworkProofs` |
| `RecentTargets` | list of what a user opened last | `teamwork` | `TeamworkProofs` |
| `SourceInbox` | captured sources, conversion, web clipper | `teamwork` | `TeamworkProofs` |
| `ToolChain` | chains of skill calls, confirmation, retry, rollback | `teamwork` | `TeamworkProofs` |
| `RecordQuery` | filters, sorts and pages in SQL and in memory | `answers` | |
| `MyWork` | the workbench: tasks, windows, counts, pages | `answers` | |
| `Dashboards` | a widget's data, row permissions, cache, publication | `answers` | `AnswerProofs` |
| `GlobalSearch` | access, scan limit, ranking, cursor | `answers` | |
| `AgentRuntime` | shared state machine, plans, confirmations, timers | `answers` | `AnswerProofs`, `MCAnswersProofs` |
| `AiChats` | conversations, tool calls, limits, confirmations | `answers` | `AnswerProofs`, `MCAnswersProofs` |
| `WorkloadForecast` | estimates, order, critical path, calendar | `answers` | `AnswerProofs`, `MCAnswersProofs` |
| `MemberForecast` | loads, recommendations, what-if | `answers` | `AnswerProofs`, `MCAnswersProofs` |
| `ProjectSteward` | diagnosis, fingerprint, admissible actions | `answers` | `AnswerProofs`, `MCAnswersProofs` |
| `Blueprints` | proposals for whole workspaces and their application | `answers` | |
| `VisualDesigns` | proposals for views and dashboards and their application | `answers` | |

`PROJECT.json` maps every definition to the source lines it models and lists the
runs, the mutants that show each property can fail, the findings, the hazards and
the theorems.

## 1. Inventory

### The environment every part shares

These facts decide where a step of the model begins and ends.

* PostgreSQL runs at READ COMMITTED. A transaction that selects a row
  `FOR UPDATE` and keeps the lock until COMMIT is one atomic action; a plain
  `SELECT` whose result is used later is an action of its own, and the value it
  read is kept in the state until it is used.
* Sessions are created with `expire_on_commit=False`. An ORM object that is still
  referenced is *not* refreshed by a later `SELECT`, not even a locking one, unless
  the query asks for `populate_existing`. A rollback does expire it. Several of the
  hazards come from this: a lock is taken, but the decision is made on old values.
* Requests are coroutines; between any two `await`s another request, another
  worker or another API process may run. Every API process starts its own
  background workers.

### Components

| Component | State | Operations | Works with | Hard part | What makes it correct |
|---|---|---|---|---|---|
| Record store (`services/smart_table_store`) | `table_records` (JSON row, version), fields, views | create, update, patch, delete, add/change/delete a field | history, relations, attachments, automation | writes based on earlier reads; maintenance that bypasses versions | versions only rise; every change is in the history |
| Change history (`services/change_history.py`) | `change_sets`, `change_items`, `recycle_bin_records` | append, undo, restore, purge | record store | concurrent undo, undo of undo, purge between read and commit | a record is in one place; purge is final; a set is undone once; undo never overwrites newer work |
| Relations (`services/relation_store.py`) | relation cells | validate targets, remove reverse links | record store, history | validation without a lock | links lead to live rows (not guaranteed, see 5) |
| Attachments (`api/attachments.py`, `services/attachment_*`) | `attachment_objects`, cells, the object store | upload, delete, reconcile, clean up | record store | two stores without a common transaction; crashes between commits; a grace window | no forgotten object, no broken reference, garbage is reclaimed |
| Automation engine (`services/automation/runtime.py`, `executor.py`, `worker.py`) | rules, `automation_events`, `automation_executions` | claim, dispatch, execute, record, retry, manual run | record store, notifications | leases under crashes and slow workers; action and result are two commits | no trigger lost, no action repeated or falsely reported, every execution ends |
| Automation producers (`events.py`, `scheduler.py`) | scans of change items, `next_run_at` | materialise, schedule, edit rules | history, engine | scan window, several scanners, edits during a scan | one event per change item and per slot, none for a rule that is off |
| Workspaces and permissions (`services/workspace`) | item tree, members, roles, grants | create, move, copy, delete, invite, grant, leave | everything | several commits per operation, moves without locks, last owner | a table item has its data |
| Fields and formulas (`db_backend.py`, `formula_engine.py`) | fields, policy, cells | add, change, delete, set policy, import | records, row permissions | references in any order; edits that overlap | an error shows exactly where a formula is broken |
| Views (`mutations/table.py`) | views, default, filters, sorts | create, copy, delete, replace | records | several commits | a table keeps a usable view |
| Record queries, search (`record_query.py`, `global_search.py`) | none of their own | query, page, search | permissions | two evaluators; cursors while things change | all paths give the same rows; nothing hidden is shown |
| Boards (`board.py`) | card ranks, revisions | configure, move, rebalance | record store | gap exhaustion, stale ranks | a card lands where it was dropped |
| Dashboards (`dashboard_*`) | widgets, cache, publication | compute, store, invalidate, publish | record store, Redis | a computation across an invalidation | no hidden row; no value older than its lifetime |
| Accounts (`api/auth.py`, `auth_rate_limit.py`) | users, reset tokens, rate windows | request and perform a reset, invite | OAuth | an invitation takes no lock | a link from before the last reset is dead |
| OAuth (`api/oauth`) | clients, codes, refresh tokens | authorize, exchange, refresh, revoke, log out | accounts | two refreshes, revoke racing refresh | one good token per login; revoked stays revoked |
| Comments, notifications, activity (`services/collaboration`) | comments, notifications | comment, edit, mention, stage, mark read, repair | record store, brokers | repeats, stale edits, paging over changing rows | once each; nothing passed over; nothing comes back |
| My work (`my_work.py`) | recent targets | tasks, windows, KPIs, visits | record store | SQL counts and Python lists of the same thing | every count is that of its list |
| AI planners (`ai_action_plan.py`, `member_assignment.py`, `workload_planning.py`, `task_planning.py`, `ai_visual_design.py`) | batches, items, idempotency keys | preview, apply, apply again | record store | partial apply, stale preview, late failure reports | nothing applied twice or over newer data |
| Steward, blueprints (`project_steward.py`, `workspace_blueprint.py`) | diagnoses, traces | diagnose, propose, apply | planners, workspaces | reads torn by edits; repeated applications | conclusions match the tasks; a project is whole |
| Source inbox and clipper (`source_inbox.py`, `clipper.py`) | captures, receipts | ingest, preview, convert, clip | record store | concurrent ingest and conversion | one record per capture |
| Tool chain (`tool_chain.py`, `skills/runtime.py`) | runs and steps | plan, confirm, run, roll back | record store | failing rollback, crash | a run's status tells the truth |
| Skills (`skill_registry.py`) | entries, versions, cache | register, switch, list, run | agents | stale cache, overlapping writes | what is listed and run is what the rows say |
| Agent runtime, chats (`agent_runtime`, `ai_tool_router.py`, `api/ai.py`) | state machine, confirmations, messages | chat, plan, confirm, time out, call tools | skills | one machine for all requests; answers racing timers | nothing that needs a confirmation happens without one |
| Presence, brokers (`api/graphql/helpers.py`) | in-process queues and registries | publish, subscribe, expire | collaboration | full queues, gone subscribers | see 7 |
| Agent workflow, context engine, CSV/XLSX, templates, profiles, file backend, start-up | see 7 | | | | not modelled |

The record store is the centre. A row change writes a ChangeSet in the same
transaction; the automation producers read ChangeItems and queue events; the engine
executes rules and writes rows again, which gives new ChangeItems (cut off by a depth
limit); attachments keep a third copy of a row's state in an external store; the AI
parts and the inbox all end in record-store writes.

## 2. Plan

Done, in this order: the record store, because every other part writes through it; the
attachments and the automation engine, whose crash and lease behaviour tests hardly reach;
the planners, the largest group of writers that act on what they read long before; then
the logins with their abstract specification; then every other part that keeps state, and
the algorithms whose result can be compared with a shorter definition.

Left, most important first:

1. Proofs about the rest of `answers`: that every part keeps its types, and the
   comparisons of `RecordQuery`, `GlobalSearch` and the forecasts with their reference
   definitions.
2. An abstract specification of a row's history, a single versioned register, which
   `RecordStore` without automation writers and field maintenance implements.
3. `AutomationSources` composed with `AutomationEngine` through the queue, so that
   "every committed change is executed once" becomes one property.
4. Liveness of the notification stream and of the confirmation timers.
5. The parts section 7 lists, as far as they keep state.

## 3. The models

### RecordStore

State: `rec` is `table_records` (a row and its version, or `NoRec`), `changes` the
ChangeSets with their items per record, `recycle` the bin entries per record and per
deleting ChangeSet, `autoField` whether the auto-number column exists, `req` what a
request in progress has read and still uses. A row has three cells, one for each way
the code treats cells differently: plain text, a relation, an auto number.

| Action | Code |
|---|---|
| `CreateRecords`, `UpdateText` | `create_record(s)`, `create_records_with_data`; `update_record`, `update_record_fields`, `apply_record_patches` |
| `CheckLinks`, `WriteLinks` | target validation (no lock), then the write in the same request |
| `DeleteRecord` | `delete_record` with `cleanup_deleted_relation_references_db`, one ChangeSet |
| `BeginUndo`, `FinishUndo` | GraphQL `undoChangeSet`: read for the permission checks; then `undo_change_set` on the objects still held |
| `RestoreRecord`, `PurgeRecord` | `restore_recycled_record`, `purge_recycled_record` |
| `AddAutoField`, `BeginDropField`, `FinishDropField` | `add_field`/`update_field` backfill; `delete_field` |
| `LoadRow`, `RunUpdateAction`, `EndExecution` | an execution's `_runtime_record` and its `update_record` actions on the held object |

Writes that change nothing are left out, as the code commits nothing for them. Record
and ChangeSet ids are fresh (uuid4).

### Attachments

State: the rows' life (`row`), their attachment cell (`cell`), the registry (`reg`,
`owner`), the objects (`obj`), the position of each upload and delete request (`up`,
`del`), the grace window (`old`), and each worker's position, loaded batch and current
file. Upload is `CommitIntent`, `PutFile`, `Activate`, `Refresh`, with the failure path
`RemoveFailed`, `DropFailed`; delete is `CommitDelete`, `RemoveDeleted`, `DropDeleted`;
the worker is `Reconcile`, `SelectBatch`, `RemoveObject`, `DropRow`, `EndPass`. Any
request or worker may die between two steps, any storage call may fail, and a failed
put may or may not have stored the bytes. `WriteCell` stands for every other writer,
all of which pass the flush check of `attachment_invariants.py`.

### AutomationEngine

State: rule versions and switches; the queue (`ev`, `evdue`, `target`); the execution
rows keyed by rule, version and event (`status`, `attempt`, `results`, `due`); what
really happened (`ran`, `twice`: actions whose own commit happened, and happened
again); and what each process holds: its position, its item, the matched rules as it
read them, and its copy of the execution. `evdue` and `due` say that a lease or delay
has passed.

| Action | Code |
|---|---|
| `QueueEvent`, `ManualRun` | `queue_record_automation_event`, `execute_manual_automation` |
| `ClaimEvent`, `Dispatch`, `TakeRule`, `CloseEvent` | `_claim_events`, `_process_event`, `_get_or_create_execution` |
| `ClaimRetry`, `BeginRetry` | `_process_due_retries`, `_fail_retry_context` |
| `Start`, `Skip`, `PassChecks`, `RunAction`, `RecordResult`, `Succeed`, `Fail` | `execute_rule_for_event`, one action per commit |
| `PersistFailure` | `_persist_failed_action_result` |
| `Break`, `DispatchFails`, `Crash` | an infrastructure exception inside an execution, one that leaves it, a killed process |
| `EditRule`, `ToggleRule`, `RetryExecution`, `EventDue`, `RetryDue` | users and time |

Abstractions: a worker claims one item at a time (the time an item waits in a batch is
part of `Slow`); an edit keeps the trigger type; conditions and the depth limit are the
free choice `Skip`; an event of the scheduler targets one rule and behaves like a
system with that rule only; the deduplication of the failure notification is not
modelled.

### PlanBatches

A preview stores a batch of suggestions and changes no row; an apply writes some or all
of them later. State: `rec` the rows of one table, `batch` the five batch tables, `lock`
who holds a plan's row between two steps of an apply, `req` what a request in progress
has read. Four history variables say what happened: how often a plan created its things
(`made`), how often a batch wrote an item (`wrote`), which rows somebody else changed
since the preview (`touched`), which rows a merge wrote (`merged`).

| Action | Code |
|---|---|
| `EditCell`, `DeleteRow`, `RestoreRow` | `update_record`, `delete_record`, `restore_recycled_record` by people |
| `ReadForActions`, `ReadForAssignment`, `ReadForEstimates` | a preview's read of the rows' contents |
| `StoreActions`, `StoreAssignments`, `StoreEstimates` | its later read of the versions and the commit of the batch |
| `PreviewTasks`, `PreviewDesign` | previews that depend on no row |
| `ApplyActions`, `ApplyAssignments`, `ApplyEstimates` | `apply` of the three selective planners: pending items, version (and owner) checks under `FOR UPDATE`, writes, status, commit |
| `BeginTasks`, `Deduplicate`, `LockTable`, `FinishTasks` | `TaskPlanningService.apply`: decide, wait for the fields' lock, read the merge target, write |
| `BeginDesign`, `FinishDesign` | `AiVisualDesignService.apply` |
| `ApplyFails`, `CreateFails`, `ReadFailed`, `MarkFailed` | an exception and its rollback; the batch selected again without a lock; the failure status |
| `RequestDies` | a request that ends at any await |

Why the steps are cut there. The rows' contents and their versions are two `SELECT`s, so
they are two steps; the second one and the commit are one, because nobody can use a batch
before its commit. A selective apply locks the batch, the fields and the rows before it
decides, so it is one step; `require_record_access` does load the row without a lock
before, but keeps no reference to it, so the locking `SELECT` gives fresh values. Every
apply that writes rows locks the fields of its table; `TableFree` is that lock.

Abstractions: two cells per row (the owner, which assignment compares as well, and any
other); one suggested value per apply; one row as the target of a merge; which nodes of a
task plan are created, reused or skipped is not told apart; the fingerprint check of a
visual design is one of the causes of `CreateFails` (`VisualDesigns` has it in detail).

### OAuthSessions and SessionChains

`code` and `token` are the two tables, `handler` what a request has read and not yet
written. The authorization-code grant consumes its code (`Exchange`) and inserts the first
token (`FirstToken`) in two transactions; the refresh grant (`RotateToken`) is one, under
the lock of the old row; `RevokeRefreshToken`, `LogoutSession` and `LogoutAll` read without
a lock and write in `CommitRevocation`. Rows expire, and a request may die in between.
`SessionChains` is what this promises: per session one good token, `Start`, `Rotate`,
`End`. The mapping takes for `good` the unrevoked token of a session and for `spent` the
revoked ones. Tokens from before sessions were recorded are sessions of their own.

### The parts of `tables`

* `Workspaces`: one workspace under two users. Each operation on a table or dashboard is
  the several commits the code makes (item, contents, profile; subtree read, contents
  emptied one by one, rows deleted), with the permission check as a step before. `cut` and
  `contested` remember which items a dead or an overlapping request worked on;
  `TablesAreWhole` is about all others.
* `TableDesign`: fields with types and references, the formula schema check with its cycle
  search, the policy that names a member field, cells. An edit validates, then commits. The
  recursive evaluation of a record's formulas is a machine with a stack (`path`) and the
  memo all formulas of the record share: `Evaluate` is one step of it, `MaterializeRecord`
  the memo after as many steps as there can be (`EvaluationSteps`).
  `FormulaErrorsExact` compares the marks with a reference definition while no edit is in
  progress; `QuietEditsKeepDesign` is about designs no two edits overlapped on.
* `TableViews`: creation and deletion of a view commit before the default is set; a
  replacement of filters or sorts deletes and inserts in separate commits.
* `Boards`: three cards in two fields; a move reads its anchors, picks a rank between
  them or renumbers the cell, and commits. `RankStep` and `MinGap` are small, so that gaps
  run out after two moves.
* `TaskTrees`: `Preview` normalises a tree of three nodes with any parents, keys and
  dependencies (cut to depth and width, keys renumbered, dependencies remapped, cycles
  refused, attempts repeated), `Apply` decides per task (create, merge, skip) and writes.
  The recursive search for cycles is a machine of the same kind (`VisitNext`).
* `SkillRegistry`: a registration reads, then writes the columns that differ; switching,
  built-in sync, invalidation and the lists in Redis with their lifetimes.
* `PasswordReset`: links by request and by invitation, attempts per window, use, expiry.

### The parts of `teamwork`

* `NotificationStream`: assignments as change sets, the repair that pages over the history
  with an offset, the scan of recent changes, subscription, wake-ups, read marks.
* `Comments`: create with a client key, reply, edit, delete, mentions; the activity list in
  batches with a cap.
* `RecentTargets`: visits and imports read, write and prune in one transaction each.
* `SourceInbox`: ingest with duplicates, preview, conversion under a lock, status changes,
  clips with receipts.
* `ToolChain`: every plan of two steps over four kinds of skills and all dependencies, and
  plans of three writing steps; confirmation, retries, timeouts, a failing step, rollback
  in reverse order, a crash anywhere. `TasksPerStep` rows are written one by one.
* `AutomationSources`: rules are created, edited (unlocked read, later write), switched and
  deleted; a scan locks the due rules and commits events and next runs; the materialiser
  reads a window of change items without events and inserts each under a savepoint.

### The parts of `answers`

* `RecordQuery`: the SQL path and the memory path as two evaluators over rows with NULLs,
  options and missing fields, and pages with offset and `hasMore`. Each must give the
  reference filter and order.
* `MyWork`: classification, windows by day and time zone tick, counts by SQL and lists in
  Python, page by page.
* `Dashboards`: both ways to compute a widget, keys by user or publisher, Redis and the
  local cache with outages, invalidation after the commit, publication in two commits.
  `lately` and `disturbed` are ghosts of the two freshness properties.
* `GlobalSearch`: effective permissions along parents (cycles included), row policies,
  score order, cursor pages while access changes.
* `AgentRuntime`: three chats on one machine; plans with and without approval, unknown
  skills and circles; answers twice, answers after the timer.
* `AiChats`: the three endpoints, a conversation cleared or deleted under them, turns of
  parallel tool calls up to the limits.
* `WorkloadForecast`: estimates in parallel or in sequence with retries, Kahn's order,
  longest chain, scenarios; compared with the longest path over all chains.
* `MemberForecast`: the branches of `_recommend` in order, projected loads, what-if.
* `ProjectSteward`: the two reads of a diagnosis, fingerprint, look, conclusions against a
  reference, drafts turned into admissible actions.
* `Blueprints`: normalisation of keys, references and limits over 300 drafts, preview,
  application, failure marks, repeats.
* `VisualDesigns`: checks of a proposal against the fields, the fallback and the baseline
  made from words, the refinement of a current proposal, the editable form and back, and
  the application that compares fingerprints and replaces a dashboard's widgets.

Operators with names such as `RotateUnlocked` or `ExchangeTwice` are variants of the
definition after them, with a bug of a kind the code could have; a mutant replaces the
definition by its variant. Some are not used by a listed mutant and are kept because the
property of their component was tried against them as well.

## 4. Runs

Passing runs:

| Run | Instance | Shows |
|---|---|---|
| `record_history` | 2 records, 4 ChangeSets, 2 texts, 2 users | interactive requests: `UndoneOnce`, `HistoryMatchesRows`, `VersionsIncrease`, `UndoKeepsNewerWork` |
| `record_all_writers` | 2 records, 3 ChangeSets, 1 user, 1 execution, 1 administrator | `LiveOrBinned` and `PurgeIsFinal` survive the writers that ignore versions |
| `attach_requests` | 2 files, 2 rows, 2 workers, 1 worker crash, rows not deleted | `CellsMatchRegistry`, `LiveAttachmentsStored` |
| `attach_lifecycle` | 2 files, 1 row that is deleted, restored and purged, 1 worker, 1 worker crash | `NoForgottenObject`, and `GarbageReclaimed` under fairness |
| `automation_steady` | 2 rules, 1 event, 2 workers, 1 manual caller, 2 actions, 1 retry, 1 edit, switching, no faults | `ActionsOnce`, `FinalAndRecordedStay`, and `ExecutionsFinish` under fairness |
| `automation_faults` | 1 rule, 1 event, 2 workers, 2 actions, 1 retry, 1 fault anywhere, leases that expire under live workers | `SucceededMeansDone`, `ProcessedEventsRan`, and `EventsDispatched` under fairness |
| `plan_requests` | 1 row, 2 batches of any planner, 2 requests, people's edits up to version 3, a plan creates at most twice | `ItemsWrittenOnce`, `DoneMeansDone`, `OpenItemsApplicable`, `NothingNewerOverwritten` with overlapping, failing and dying applies |
| `oauth` | 2 codes, 4 tokens of which 1 without a session, 2 requests, 2 revocations | the detailed specification implements `SessionChains` |
| `tables` | the seven parts of section 3: 3 items, fields, views, cards, tree nodes or links, 2 callers, up to 5 operations | `DesignsStayWhole`, `ChangesLandWhereAsked` |
| `teamwork` | the six parts: 2 callers or workers, 2 or 3 of everything else | `OnceEach`, `BatchesMissNothing`, `ChainsTellTheTruth`, `NothingComesBack` |
| `answers` | the eleven parts: up to 3 rows, tasks or matches, the conditions, plans and drafts `MCAnswers` lists | `ReadersGetTheirRows`, `ConfirmationsHold`, `ForecastsAreRight`, `PlansComeOutAsMeant`, `FreshDiagnosesHold` |

`tables`, `teamwork` and `answers` check several components in one run. `Init` chooses a
component (`part`), its variables are held in the slots `s1`, `s2`, ..., and only that
component steps. The components share no variable, so the reachable states are the disjoint
union of those of the components alone, and a property `part = "x" => X!P` is exactly
`P` checked on `X`. A property of such a run says one thing of several components, and each
conjunct is its own claim with its own comment in the component's module.

Why these bounds are enough to meet the cases: two records are needed for links and
batches, four ChangeSets for create, change, undo and a conflicting step; undo requests
race because there are two users. Two files on one row meet the set comparison of the
flush check; two workers meet on one registry row. Two actions separate "some" from
"all" results; two workers and one expired lease give the overlap; one fault can hit any
step. Two batches overlap on a row, and a task plan finds a previous application, with two
batches; a late failure report needs two requests. In the composed runs two callers give
every overlap of a read with another's write; a third item, card, node or link makes
"between", "below" and "older than the last" possible; page sizes, windows and retention are
below the number of rows, so that pages and windows end in the middle; ranks run out after
two moves; lifetimes are shorter than the clock. The scan limit of a search is not reached
by these instances.

All histories are finite because ids, edits and attempts are used up, so `CHECK_DEADLOCK
FALSE` is set where the bounds end a history; the attachment workers loop for ever and
deadlock is checked there.

Symmetry (ids, texts, users, files, workers, batches, requests) is used only in runs
without liveness; in `oauth` the mapping's choice is unique, so that renaming is sound.

Fairness. In `Attachments`: a request's coroutine is resumed until it ends or its
process dies, the worker loop keeps running, time passes, and a storage outage ends
(strong fairness of a successful removal). In `AutomationEngine`: started coroutines
are resumed, time passes, and an item that is due again and again is claimed (strong
fairness, because the claim query takes the oldest due items first and the loop polls).
In `AutomationSources` (`FairSources`): a worker's loop begins and finishes its
materialisation again and again. No fairness is assumed for users, faults or producers.

## 5. Disagreements between the code and what the repository says of it

`event_window` is a run in which TLC must find the violation: change items that yield no
event stay without one, are selected again in every cycle, and once they fill the scan
window no later change ever becomes an event (`services/automation/events.py:172`, which
calls itself restart-safe). It holds under weak fairness of the worker's cycle.

Three more counterexamples can be reproduced; two of them use the constants of a passing
run, with the property in place of that run's own:

| Constants | Property | What happens |
|---|---|---|
| `attach_lifecycle.cfg` (`MCAttachments`) | `BinKeepsObjects` | An upload commits, its row is deleted before the refresh (`db_backend.py:839`), the refresh raises, and the failure path removes the object that the row in the bin refers to. The repository's `README.md:135` says such objects are kept. |
| `automation_faults.cfg` (`AutomationEngine`) | `ExecutionsFinish` | A crash after the execution is committed as `running` (`executor.py:469`): nothing selects a running row. |
| `plan_twice.cfg` (`MCPlanBatches`) | `PlanCreatesOnce` | An apply of a task plan fails and rolls back, which releases the plan. Another apply succeeds. The first then reports `failed` over `applied` (`task_planning.py:1097`), and the next apply creates every task again. |

With `ManualRules = {r1}` in `automation_steady`, `ActionsOnce` fails: a manual run of a
rule with a manual trigger commits its event before it executes (`runtime.py:453`), a
worker claims the same event and both run the actions.

Where a property excepts a case, or a stronger one would fail, this is why. Names in
parentheses are stronger properties that TLC refuted.

Records, attachments, plans:

* `add_field` numbers existing rows without raising their versions, so undoing an older
  ChangeSet drops the number; `delete_field` rewrites rows it read without a lock.
* Undoing a create, and restoring a row whose targets were deleted meanwhile, leave
  dangling links, which `docs/relation-fields.md` says deletion avoids.
* An execution holds the row it loaded for its permission check. Its locked `SELECT`
  returns the held object, so its write replaces an edit made meanwhile and reuses the
  version: `VersionsIncrease` fails as soon as `record_all_writers` lists it.
* A batch create is undone and one of its rows purged: the undo set becomes irreversible
  and the other rows in the bin cannot be restored (`change_history.py:579`).
* An upload that outlives the grace period (`SlowUploads = TRUE`) can be activated after
  the worker has selected its intent, and `LiveAttachmentsStored` fails, against a comment
  in `attachment_storage.py`.
* Two plans of one source applied at once both create. A merge writes back a row it read
  without a lock: `NothingNewerOverwritten` excepts the rows in `merged`. An edit between
  the two reads of a preview gives a suggestion for old contents with the new version.

Workspaces and tables:

* Leaving and inviting without locks can leave a workspace without an owner
  (`OwnerRemains`); a folder can be moved below its own descendant, and the walk of a
  delete over such a cycle does not end; two first requests create two roots; a deleted
  workspace reappears when its owner lists workspaces; a table can be copied below a
  dashboard; item permissions survive leaving; a copy that races a delete leaves data
  without an item.
* Overlapping replacements of filters leave the union; two deletions can remove the last
  two views.
* A card's revision does not tell every move (`RevisionsTellMoves`); a rebalance uses cards
  it read unlocked; text columns that differ in case share cards; the lane field may be the
  group field; moves without anchors can tie.
* Merging or linking planned tasks can make records depend on each other in a circle
  (`NoCircularRecords`); skipping a task drops the chain through it; a dependency on a node
  that was cut off may attach elsewhere; of two nodes with one key the last one wins.
* Version rows of a skill need not match its entry (`VersionsMatchRows`); overlapping
  registrations mix columns or add a second row; a slow reader caches an old list for up to
  120 s; a disabled built-in still runs and is enabled again by a restart; deprecated skills
  are listed but cannot be called.
* A password reset leaves the sessions of the user alone. A logout or revocation that read
  the rows before a rotation committed revokes the old token only, and its successor stays
  good; the chain property holds all the same, since the abstract `End` is not forced.

Teamwork:

* An undo while the repair pages shifts its offset; events between a stream's snapshot and
  its subscription are not heard until the next one.
* A comment's revision can go backwards when two edits overlap; activity pages are compared
  only while no writer is busy.
* Overlapping visits can move a target's time backwards or prune one that was just visited.
* A status change that read an item before its conversion overwrites `converted`
  (`ConvertedStays`); a preview after the conversion overwrites the target table; two
  ingests at once are both pending; two clips both add missing fields; auto numbers can
  repeat.
* A confirmed write is tried again after a timeout although it took effect
  (`ConfirmedWritesTriedOnce`, against `docs/skill-adapter-layer-architecture.md:197`); a
  crash leaves a run running or rolling back; the failing step itself is never rolled back;
  failing deletions during a rollback are swallowed; the rollback mode of a plan is never
  read.
* Overlapping edits give one version number to two definitions of a rule; an edit that
  races a scan can leave an enabled rule without a next run.

Answers and proposals:

* `is_not` on a select field treats empty cells differently in SQL and in memory.
* The SQL of each table orders its tasks by other values than the merged list shows, so
  that following the cursors can skip or repeat a task (`TaskPagesComplete`, against the
  documentation of my work).
* Writes by automations, planners, tool chains and the clipper never invalidate a
  dashboard's cache, which is then stale for at most 300 s; `neq`, null dimensions and bad
  sums differ between the two ways to compute a widget; unpublishing can race publishing.
* Search fetches records of one score in the order of the database and pages them in the
  order of their titles, so that a page may repeat a result of an earlier one and leave
  another out (`NoResultTwice`, against `tests/test_global_search.py:238`).
* A request that finds no run under way and no open confirmation can still be refused,
  because an approved or timed-out confirmation leaves the shared machine in a state it
  cannot start from (`FreshRequestsServed`, against `api/ai.py:998`); an approved plan is
  never executed; a failing start moves another chat's run to failed; a plan whose steps
  all failed ends completed;
  `requires_confirmation = false` runs steps that need an approval.
* The loop guard counts only calls that ended; a message can outlive its conversation;
  `/agent` stores answers without their questions.
* A failed preview leaves its estimates behind (`FailedPreviewsForgotten`); a what-if
  compares a recomputation with the stored base and fails for ever once a profiled member
  has left.
* A fresh diagnosis may be of other tasks when an edit falls between its two reads, and
  dates are not in the fingerprint (`FreshMeansCurrent`); dependencies are checked against
  the visible graph only; tasks behind a circle are reported as circular.
* A view of a blueprint may name a field that normalisation renamed
  (`ViewsFindTheirFields`); overlapping applications create two projects; a late failure
  mark over `applied` makes a retry create again.
* Two designs that replace one dashboard at once leave the widgets of both
  (`OneDesignOnTheBoard`); a widget that somebody adds between the comparison and the
  deletion is lost; a design applied unedited does not check its member filters again; the
  fallback board fails where the status is a text although another select field exists; a
  current proposal of the wrong kind is stored and cannot be applied; fields beyond the 64th
  are neither hidden nor in the fingerprint.

## 6. Proofs

All theorems hold for every value of the constants that satisfies the named assumptions:
`SentinelsDiffer` (the markers for "absent" are not values) and `ConstantsOK` or
`PlanAssumption` (bounds are natural numbers, sets are subsets as named, markers differ
from members), or those named below. Finiteness of the sets is assumed only where it is
named. A theorem that leaves writers or faults out says so in its ASSUME; section 5 has the
behaviour that makes it necessary.

* `RecordAutomationProofs` has a section for the record store and one for the engine its
  changes feed.
  * `RecordStore`. `TypeCorrect` needs that a pending undo refers to an existing
    ChangeSet (`UndoTargetsExist`). `RecordsKeepOnePlace` and `PurgedStaysPurged` are
    proved together from `PlaceInv`: the two properties and `EntriesKnown` (a bin entry
    belongs to a ChangeSet with an item for that record). Neither is inductive alone:
    that an undo holding a stale copy of a purged record's items cannot revive it follows
    from the bin entry being gone, which is the other property's business, and purge must
    know that the record it clears is not live. The argument covers all writers.
    Its section on the history is about the interactive requests: any number of
    users, requests and records, without automation executions (`Workers = {}`), which reuse
    a version (section 5). Every step then is one of three (`HistoryStep`): it appends one
    ChangeSet, which gives each row it changes the next version; it purges a record; or,
    field maintenance only, it rewrites rows and keeps their versions. `HistoryInv` is
    `TypeInv`, `PlaceInv`, `VersionInv` and `ReadsAgree`, whose parts need each other.
    `NewestItem`: exactly one item of a live row carries its version, all others a lower one.
    `BinBound`: no item is above the version in the bin, so that a restored row, which takes
    its version from there, still rises. `UndoneSpent`: what an undone set
    wrote is no longer current; this is why a second undo, which may have read the set as
    applied, is refused by the comparison of versions, and hence `UndoHappensOnce`, with any
    field maintenance. `BlankMeansPurged` and `ReadsAgree`: what an undo read long ago differs from
    the database only in purged records, which it can no longer bring back. The other three
    theorems are about the rows' data as well and leave field maintenance out (`Admins = {}`),
    since it rewrites rows without an item: `HistoryExplainsRows`, and from it and
    `HistoryInv` the action properties `VersionsOnlyGrow` and `UndoOverwritesNothingNewer`.
  * `AutomationEngine`. `EngineTypes` needs `Focus` (a busy process has an execution
    and an item that belong together). `SuccessIsReal` rests on `DoneInv`: recorded results, each process's copy
    of them, and the result about to be recorded all happened. It holds with any
    number of faults and overlapping leases because `ran` only grows and stale copies are
    still true. `NoTriggerIsLost` rests on `CoverInv`: for every matched rule a process
    either still has it in its list, or has its execution in hand, or a started execution
    exists.
    `ActionsRunOnce` and `ResultsStay`, in its second section, hold in `Steady`: no
    infrastructure fault (after a crash between an action's commit and that of its result
    the action is repeated, by design of the two commits), no lease that ends under a live
    worker, and no manual rule (section 5). Rule edits, switches, retries, permission
    failures, and any number of workers, requests and events are allowed. `OnceInv` says that
    at most one worker has an event and at most one manual request (`OneOwner`); that no
    execution exists for an event before its dispatch (`EventsFresh`) nor for a matched rule
    before it is taken (`TodoFresh`), so that taking it creates the execution; that at most
    one process holds an execution, with the row's own results (`OneHolder`); and that an
    action that ran is in the results or is what its holder records next (`RanKnown`).
    `RanKnown` and `OneHolder` together give that the next action to run has not run yet;
    none of the five is inductive without the ones before it.
* `LifetimeProofs` has a section for each component whose question is what outlives what.
  * `Attachments`. The key notion is `Settled(f)`: the upload request of `f` can
    neither store bytes nor activate any more. Everything that removes an object or a
    registry row works on settled files (`RemovalInv`); `NoObjectIsForgotten` follows,
    under the assumption that uploads end within the grace window. `LiveCellsAreExact`
    and `LiveAttachmentsHaveObjects` add that no row is deleted and prove that cells, registry
    and store agree. Both assumptions are needed: section 5 says what happens without each.
  * `OAuthSessions`. `OAuthTypes`, and `OAuthImplementsChains`: the detailed
    specification implements `SessionChains` for any number of logins, tokens and requests,
    from `LegacyAreTokens`, `SessionNames` and `LogoutBound`. The inductive invariant is
    `ChainInv`: the types; at most one unrevoked token per session (`AtMostOneGood`), without
    which the mapping would choose; a session that has a token has a used code
    (`IssuedForUsedCodes`), and a request between the two transactions of an exchange owns
    its code alone and its session has no token yet (`ExchangesOwnTheirCode`), without which
    `FirstToken` could insert a second good one; a revocation holds rows that were issued
    (`RevocationsKnowTheirRows`), so that writing them late never spends a free token; and an
    unissued row names no session (`FreeTokensUnnamed`). Expiry, codes, reads and deaths map
    to stuttering, a late revocation to `End` of the sessions whose token it still finds good,
    which may be none.
  * `PlanBatches`. All five properties of the passing runs follow from `PlanInv`, from
    `PlanAssumption` and `SentinelsDiffer`, for any rows, batches, requests and planners. Its
    parts: `TypeOK`; `BatchInv` and `ReqInv` (the items of a batch, and of a preview in
    progress, have the shape its planner gives them; only items of a batch are applied; a
    request refers to a stored batch); `WroteInv` (an item was written once if it is recorded
    as applied and never otherwise); `VersionInv` (an open row nobody else touched still has
    the version the batch expects; one that somebody touched has a higher one, unless a
    merge wrote it); `DoneMeansDone`. `WroteInv` is why repeating an apply is harmless, and
    it survives failure reports because these change only the status. `VersionInv` holds in
    both directions at once, since a partial apply must advance the expected version and
    other people's writes must not reach it again. `PlanCreatesOnce` is not a theorem: it is
    violated (section 5).
* `TableProofs` has a section for each component of the run `tables`.
  * `PasswordReset`, from `LimitIsNat`: a link from before the last reset is used up
    (`OldAreDead`), whence `OldLinksStayDead`.
  * `Workspaces`, from `EmptyIsNoNode`: an item that is not whole is in the hands of exactly
    one request, whose stage says which of its parts are there (`Midway`), unless it is
    `cut` or `contested` (`ItemInv`); hence `TablesStayWhole`. A request that takes
    up an item another one has in hand makes it contested in the same step, and this is what
    keeps "exactly one" inductive.
  * `TableViews`, without assumptions: what the only busy request read when it began still
    holds (`StillTrue`): the name it found is free, another view stays after its deletion,
    the filters are those it saw. The default is a view, or a deletion has still to choose
    one (`DefaultThere`). `FreeName` shows that the search for a free name ends with one.
    `TablesKeepUsableViews` follows.
  * `SkillRegistry`, from `SkillConstants` (the code's own skills are finitely many and have
    names; registrations have the fields they must have). With every overlap,
    `LoadedRow`: the row a registration loaded is still a row of the same skill in the same
    workspace, whence `OtherWorkspacesUntouched`. Without one: a skill that was not found is
    new (`LoadedIsNow`), no two version rows are of one version, so that the current
    one is alone (`RowsExact`), and what is cached, or read to be cached, is what the rows
    say unless a writer has still to drop it (`ListsExact`); hence `QuietRegistriesAreExact`.
  * `TableDesign`, from `FieldConstants` (finitely many fields; the marker for "no field" is
    no definition and no result), in two parts. The edits: while no two overlap, what the
    edit in progress was accepted for is still there (`StillAccepted`), so that its commit
    keeps the schema valid, the policy's field and the cells (`DesignInTurn`); that a
    deletion keeps the others valid is monotonicity of what a formula reaches
    (`LessReachesLess`). Hence `QuietEditsLeaveNoBrokenFormula`. The evaluation:
    `FormulaErrorsAreExact` says that after any edits, overlapping ones included, and for
    every order of the fields, a formula shows an error exactly when it depends on a gap or
    a circle. `Result` says which one: the first bad reference decides, and following first
    bad references ends at a gap (`LeadsToGap`) or goes round in a circle. `OnTheWay` says
    that the memo holds results only and that each formula on the stack has the next one as
    its first reference without a value; `OnPathIsCycle`, that a formula met twice on such a
    stack leads nowhere else. `Work`, the formulas without a result plus those not begun,
    falls with every step (`BeginWorks`, `EndWorks`), so that the machine is done after
    `EvaluationSteps`.
  * `Boards`, from `BoardConstants` (`RankStep` is at least 2, `MinGap` at least 1, the markers
    are no cards, fields or values). A move in progress has locked its card and its anchors,
    so they are still in the cell and its rank is still between theirs (`StillHolds`); if it
    renumbers the cell, the new ranks are in the order the cards are shown in
    (`Renumbering`). Both survive every other write because the locks of two moves are
    disjoint. `CardsLandWhereAsked` follows, the halving of gaps and the renumbering included.
  * `TaskTrees`, from `TreeConstants` (the bounds are numbers, records are no task keys). Keys
    are the places of the tasks in the tree and differ (`KeysDiffer`), so that renaming keys
    keeps the dependencies (`EdgesKeepTheirMeaning`). A search that ends without a circle has
    left every task, each after all that depend on it (`SearchStates`), so no set of tasks
    is circular (`NoCycleIsFound`; `ToVisit` falls with every step). What accepting a plan
    writes is read off the decisions (`WrittenRecords`). `PlansBecomeTheirRecords` has the
    four properties; `NoCircularRecords` is not among them, because it is violated
    (section 5).
* `MCTablesProofs` proves what the run `tables` checks, as it is stated there, from these
  sections: `TablesKeepTheirTypes`, `DesignsAlwaysStayWhole` and `ChangesAlwaysLand`. They
  need one assumption about the run's model values, `ModelValuesDiffer` of `MCTables`, which
  TLC evaluates: `Nil` is no row, definition, number or key. `TablesInv` is the invariants of
  the seven parts, each under `part = ...`; the lemmas before it match the definitions of
  the two instances of a module. For the types it adds three facts: `ViewBounds`,
  `SkillLists` (a cached list holds rows) and that the calls on the tree are counted.
* `TeamworkProofs` has a section for each component of the run `teamwork`.
  * `AutomationSources`, from `Times` (times are numbers): an event's id is what the event is
    about and belongs to one event (`IdsTellAll`), and a rule that a scan has locked is live
    and enabled (`ScannedRulesOn`), whence `EachAnnouncedOnce` and `OffMeansSilent`.
  * `Comments`: a written comment keeps its author, key, record and parent and is never
    removed (`RowsKept`), so that what a request read of them still holds when it
    writes (`Sound`); `ThreadsStaySound` and `DeletedCommentsStay` follow for any number of
    requests, without assumptions. `PagesShowEveryChange` is about a recursive definition,
    the pages that begin at a place: that there is such a function (`PagesExist`) and that
    it shows what it should from each place on (`PagesShowAll`) are both shown by induction
    from the last place down, as the absence of a least counterexample (`LeastNat`). Pages
    move on whatever the batch, the cap and the limit of a page are (`PagesMoveOn`), which
    therefore need no assumption.
  * `SourceInbox`, from `KeysAreNoItems`: one conversion has an item locked and knows it
    unconverted (`ConvertsOwnTheirItems`), and the tasks are those the rows name, except for
    conversions a status change overwrote (`MadeOnce`); hence `SourcesCapturedOnce`.
  * `NotificationStream`, from `PagesAreCounted`: `PassedAreStaged` says that each applied
    change before the repair's offset that tells the user has been staged. Places
    are ranks among the applied changes, so new changes come after all pages read so far,
    and `PageCounts`, that a page of n changes ends n places further, is what lets the next
    offset be a count. An undo moves later changes to earlier places, so the invariant, as
    the property, is about repairs during which nothing was undone (section 5).
    `NotificationsArrive` follows.
  * `RecentTargets`, from `VisitsAreTimed` (finite sets): a count of rows is not inductive,
    since requests overlap. `VisitInv` gives each stored row to the request that kept it
    last, which owns at most the retention; `RecentTargetsBounded` adds them up.
  * `ToolChain`, from `ChainsAreLists`: `ChainPlaces` says where the loop is and what it has
    left behind, `DoneInOrder` that the completed steps are the list the rollback walks,
    and `StandOnEarlier` that each stands on earlier ones, so that undoing the last leaves
    the others standing. `ChainsTellWhatHappened` follows for any plans.
* `MCTeamworkProofs` proves what the run `teamwork` checks, as it is stated there, from these
  sections: `AskedOnceHappensOnce`, `BatchesReadEverything`, `ToolChainsTellTheTruth`,
  `WhatIsOverStaysOver` and, with one invariant more in three of the sections
  (`SourcesTyped`, `NoticesTyped`, `TasksPlaced`), `ValuesKeepTheirTypes`. Its only hypothesis is that the model values of items differ from
  the clipper's key.
* `AnswerProofs`.
  * `AgentRuntime`, without assumptions: at most one chat drives the machine, because only
    `start` leaves `idle` and no arc leads back (`DriveInv`); and a confirmation is created
    by a chat that was planning, once, and decided at most once (`ConfirmInv`).
  * `Dashboards`, from `TtlIsPositive`: a live cache entry was computed within its lifetime,
    a restricted request in progress holds rows of its own user only, and an entry nobody
    disturbed is what would be computed now; together `DashboardsTellTheTruth`.
  * `AiChats`, from `CallsAreCounted`: a request past its start has its question in its
    conversation unless that was wiped (`Stored`), which survives other requests because
    messages are only appended or removed with their conversation; a confirmation is pending
    exactly when some traced call met one (`PendingKnown`), so that the status asks for it
    (`StatusKnown`); and the calls of a turn count as if they
    had ended (`Bounded`), since the guard of the code counts ended calls only and the
    bound on traces is not inductive without that. `ChatsKeepTheirWord` follows.
  * `ProjectSteward`, without assumptions. A diagnosis is made of contents and of versions
    that are read at different times. `StewardInv` names tasks the stored diagnosis is
    about (`IsAbout`), with the versions of its fingerprint, none of them later than the
    rows (`Earlier`); an edit raises the version, so that a look that finds the versions of
    the fingerprint finds these tasks (`FreshLooksAreRight`).
    What it concludes (`DiagnosesConcludeRightly`, from `StewardIsGiven`: at least one record may be read) is a property of
    four recursive definitions. `RecursionSolved` shows once that a recursion on `0..N` has a
    solution; each of the four is unrolled with it and followed place by place. The order
    holds a task after the others it needs (`InOrder`), and when the rounds end none is free
    (`NothingIsFree`), so what is left is circular, and of a circle no task can have been
    taken first. The measure of a task is that of the longest chain to it (`Measured`); the
    path adds up to the greatest one (`OnThePath`), and since measures grow along it, it is
    shorter than the rounds that follow it back.
  * `WorkloadForecast`, from `TasksAreGiven` (an answer has hours, its parts at least one)
    and, for the calendar, `ScenariosAreGiven`. `OrderInv` says how many needed tasks are
    missing in the order, so that an order that stops early leaves tasks that need each
    other; `MeasuresInv` makes the measure of a task that of the longest it needs and its
    own hours, so that it bounds every chain to the task and some chain reaches it;
    `PathInv` follows that chain back. Totals are sums over sets of
    tasks (`Sums`), unrolled in the same way. `ForecastsAreExact` follows, with the
    monotonicity of the rounded calendar in the number of streams.
  * `MemberForecast`, from `MembersAreGiven` (finitely many members that compare, hours not
    negative, capacities positive). `LoadInv`: while a request is planned, the load of a
    member is the sum over the tasks it carries after the recommendations so far.
    A task given back is carried by exactly those who give it back, and hence the
    `max(0, ...)` of the code never cuts anything. `LighterInv` compares the recommended
    member with the others at the load it was compared with; together with `ChoicesInv`
    `RecommendationsAreRight` follows.
* `MCAnswersProofs` proves three properties of the run `answers` as they are stated there,
  without hypotheses: `ConfirmationsAlwaysHold`, `FreshAnswersAreRight` and
  `ForecastsAlwaysRight`.

Only model-checked: liveness (`GarbageReclaimed`, `EventsDispatched`, `ExecutionsFinish`),
which is out of the prover's reach; `AnswerTypes`, of which the types of the workbench, the
search, the blueprints and the designs have no proof; and
`ReadersGetTheirRows` and `PlansComeOutAsMeant`, which compare an
algorithm with a reference definition for every input of the instance. For these the
induction theorems of the library do not help, since they take an operator as a parameter,
which the prover cannot instantiate; a recursive function on places or counts can still be
treated by a least counterexample, as the pages of `Comments`, the evaluation of
`TableDesign` and the conclusions of `ProjectSteward` are. Of the first of the
two, `HiddenRowsStayHidden`, `AnswersAreRecent` and `QuietCacheExact` are proved.

## 7. Not modelled

`PROJECT.json` lists every component with its status. Not modelled at all:

* Agent workflow and PM agent: `run_workflow` dumps a state that holds the `AsyncSession`
  with `model_dump(mode="json")`, which raises before the graph starts, so there is no
  behaviour to model.
* The presence registry (`TablePresenceRegistry` in `api/graphql/helpers.py`): in-process,
  with expiry. A pruning pass discards the tables it changed, so subscribers keep a gone
  viewer until the next change.
* Rule validation and condition evaluation, the context engine, CSV import and XLSX export,
  templates, task profiles and duplicate scores: pure functions over reads.
* The file backend (one process, no history), start-up, migrations, configuration.

Inside the modelled parts: texts, names, icons, layouts and prompts; content checks and
size limits of uploads; the wait itself when undo and purge lock rows in opposite orders
(PostgreSQL aborts one, which then has no effect); rendering of notifications and the scan
for due tasks; checks that only refuse an OAuth request; expression syntax of formulas;
charts other than sums by a dimension; field types of queries beyond numbers and selects;
relation widgets; personal overlays and quick actions of my work; schema fields added by a
workload apply, and feedback; list filters of visual designs, and in their run overlapping
applications (`PlanBatches` has the locking and the late failure mark).

## 8. How to run

`tlc -config <run>.cfg <MC module>` for a run (`event_window.cfg` belongs to
`AutomationSources`), `tlapm <module>.tla` for the modules named `...Proofs`. The longest run takes
about three minutes with two workers.
