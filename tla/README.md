# A verification project for django-celery-beat

django-celery-beat keeps the schedule of Celery's `beat` in database tables.
Web processes edit the tables through the ORM; one `beat` process loads them,
sends the tasks that are due and writes back when it last ran each. The modules
here model that program in TLA+, TLC checks them on small instances, and TLAPS
proves theorems about them for every value of the constants. Line numbers are
those of `src/django_celery_beat/`; `PROJECT.json` maps every definition to its
lines.

## Inventory

| Part | State | Operations | What makes it correct |
| --- | --- | --- | --- |
| Change notices (`models.py`, `signals.py`) | the row of `PeriodicTasks` | `changed`, `update_changed`, `last_change`, signal handlers, `PeriodicTask.save/delete` | a committed change reaches beat, or the forced reload finds it in bounded time |
| `DatabaseScheduler` (`schedulers.py`) | `_schedule`, `_dirty`, `_heap_invalidated`, `_last_timestamp`, `_last_full_sync`, `_initial_read` | `schedule`, `schedule_changed`, `sync`, `reserve`, `schedules_equal`, `_refresh_schedule`, `setup_schedule`, `update_from_dict` | heap, schedule and table agree; no run is lost or repeated |
| `ModelEntry` (`schedulers.py`) | `last_run_at`, the model instance | `is_due`, `_disable`, `__next__`, `save`, `from_entry` | expired and one-off tasks end once; a save touches run metadata only |
| Selection of tasks (`schedulers.py`, `querysets.py`) | none | `enabled_models_qs`, `_get_crontab_exclude_query`, `_get_timezone_offset` | no task that comes due before the next reload is left out |
| `PeriodicTask` (`models.py`) | the rows | `save`, `delete`, `validate_unique`, `_clean_expires` | exactly one schedule, unique names |
| Schedules (`models.py`, `clockedschedule.py`, `tzcrontab.py`) | their rows | `from_schedule`, `is_due`, `due_start_time` | a schedule survives the way to the table and back |
| Admin (`admin.py`) | none | `enable_tasks`, `disable_tasks`, `toggle_tasks`, `run_tasks` | the tables are announced after a bulk update |
| Validators (`validators.py`) | none | `_CronRange.parse`, `_CronSlice.get_range`, a validator per field | what is accepted can be parsed by Celery, and means the same |
| Utilities (`utils.py`) | none | `make_aware`, `now`, `aware_now`, `is_database_scheduler` | naive and aware datetimes do not mix |
| `celery.beat` (external) | `_heap`, `old_schedulers`, `_last_sync` | `tick`, `populate_heap`, `apply_entry`, `should_sync`, the `Service` loop | |

The parts meet in three places. Writers and beat share the tables and the
notice row, and nothing else: there is no lock between a reload and an edit,
nor between a start that installs the configuration and a form.
Inside beat, `tick()` reads the property `schedule` up to three times, and every
read may sync, reload and empty the heap under it. And an entry of `_schedule`
and an entry of the heap share one model instance but not their `last_run_at`.

The hard behaviour follows from that: stamps taken in one order and posted in
another, a poll between a commit and its notice, edits between the read and the
write of a sync, errors in the middle of a sync, kills between a run and its
sync, reloads at any access, a schedule that goes between two queries, and
clocks (naive local time, zones, daylight saving time). `hazards` in `PROJECT.json` lists each at its line.

## Modules

Each module asks one question of the system, and keeps the state the question
needs; what one leaves out another is about.

| Module | Question | Leaves out |
| --- | --- | --- |
| `Mirror` | what do notices promise? (abstract) | how a notice travels |
| `Ledger` | what does beat promise of the runs of its tasks? (abstract) | ticks, heap, reloads and syncs in steps |
| `ChangeTracking` | does a change reach beat? | what is in the tables |
| `DatabaseScheduler` | do the tick, its reloads and its syncs keep heap, schedule, rows and runs together? | kinds of schedules |
| `BeatSetup` | what do a start and its clients make of the tables? | runs, the way of a notice |
| `DueTimes` | when is a task sent? | faults, a late beat |
| `CrontabWindow` | does the selection of tasks leave out one that comes due? | everything but hours |
| `CronFields` | does what a form accepts reach Celery? | names of months and days |

**ChangeTracking** models the way of a change to beat. A writer's operation is
the sequence of commits it makes: `PeriodicTask.save()` stamps and posts in
`pre_save` (`BeginSave`, `PreSavePost`), writes (`WriteRow`), stamps and posts
again (`StampWrite`, `Post`); a schedule's save and a bulk update write first
(`BeginUpdate`); inside a transaction the notice row is locked from its first
update to the commit (`BeginTransaction`, `TakeLock`, `StampInTransaction`,
`Commit`). Evaluating `now()` and taking the row are two steps, since
`update_or_create()` may wait. Beat is the property `schedule`: `InitialRead`,
`Access` (which reads the local clock), `Poll` or `PollError`
(`schedule_changed()`), the choice to reload (`Decide`), and one `LoadTable` per
query. A table is a version number. `staleSince`, `lastPoll` and `missed` are
history: `missed` records the three ways in which a notice is lost.

**DatabaseScheduler** models the beat process and a client of the table, task by
task. The steps of `tick()` are actions (`StartTick`, up to three `Access`,
`PopulateEntry`, `RunNothing`, `RunNotDue` or `RunDue`, `Push`), so that the
client, the clock and faults come in between. `Load` is `_refresh_schedule()`;
`SyncGet` and `SyncPut` are the two halves of `ModelEntry.save()`; `Verdict`,
`Checked` and `Check` are `is_due()` with its saves; `Reserve` is `reserve()`
and `__next__()`. Exceptions are modelled by where they end: a failed poll or
sync is logged (`PollFails`, `SyncFails`), a failed load or `is_due()` leaves
`tick()` and ends the process (`LoadFails`, `PopulateRaises`, `RunRaises`),
which syncs twice on its way out (`Close`: the loop's `finally`, and the
`Finalize` of line 273), unless it is killed (`Kill`). Fields that only the
client writes are one revision number. The schedule is an interval, which is
what the other schedules are to the scheduler: a due time computed from
`last_run_at`. A process begins with the three reads of `setup_schedule()`: the
first loads the table (`Load` at `boot`), and the updates of
`install_default_entries()` and `update_from_dict()` evaluate the property again
(`Access` at `defaults` and `entries`), so that a first `tick()` finds a stamp to
compare with. The configuration is taken to be empty, and `result_expires` off:
`_heap` is then `None` until the first `tick()`, unless one of the updates
reloads. What is installed is the subject of `BeatSetup`. SIGTERM raises
`SystemExit` wherever beat is, between two ticks or in one; `Stop` is enabled at
every step but those in the middle of a send, of a sync or of a save of
`is_due()`: what a signal there leaves half done is not modelled. What `celery.beat` does is marked external in the map, and
modelled as `schedulers.py` uses it; releases of Celery differ in whether an
entry that is not due is pushed back with a new time, so that is the constant
`Requeue`.

**CrontabWindow** models `_get_crontab_exclude_query()` for one task and one
server: the hour offset measured in January and truncated, the remainder as SQL
computes it, the window of five hours, and the reloads that evaluate it. Time is
in slots of five minutes; zones are pairs of offsets, in January and today.

**Mirror** is the abstract specification of notices: the versions of the tables,
beat's copies of them, and for each copy whether a notice is owed or a change was
lost. A step writes, notifies, drops a copy or reads a table, and none leaves a
difference that is neither owed nor lost. `ChangeTracking` implements it under
`copy <- seen`, `held <- Held`, `owed <- Owed`, `lost <- missed`
(`MirrorsTables`).

**Ledger** is the abstract specification of runs: for each task when it was last
sent, the count that beat has in memory (`counted`) and the one in the table
(`stored`), the tasks whose count is still to be saved, and the tasks beat runs
whose row is the one it has read (`live`). `Run` waits for the interval and for a
one-off task runs once, `Read` keeps a count that is not saved, `Settle` forgets
only what is, `Leave` ends beat when no count is left, and `Start` begins with an
empty memory. It knows no heap, no instance and no `last_run_at`; that four
of these are kept, and agree when it matters, is what `DatabaseScheduler` has to
show. It implements the ledger under `live <- Live`, `sent <- sentAt`,
`unsaved <- dirty`, `counted <- Counted`, `stored <- Stored` (`KeepsLedger`).

**BeatSetup** models `__init__()` of the scheduler and what it meets. Tables are
rows with keys, a schedule is its kind and a value. `QueryTasks` and `Prefetch`
are the two queries of `enabled_models()`, `Disable` the save of a task whose
arguments do not parse, and `PrefetchFails` the error that ends the process.
`install_default_entries()` and `update_from_dict()` are two batches;
`GetSchedule`, `SaveSchedule` and `UpdateOrCreate` are the three transactions of
`from_entry()`, and `EntryFails` is its log line. `Access` and `UpdateSchedule`
are `self.schedule.update(s)`, whose first half may reload; a reload begins with
a sync of runs (line 571), which has nothing to save before the first `tick()`.
`BeatSetup` has no runs, and so leaves the sync out after that, too: that one may
write a stale `enabled` over a client's, as `SyncGet` and `SyncPut` of
`DatabaseScheduler` do. The client's forms
(`SaveTask`, `DeleteTask`, `AddSchedule`, `EditSchedule`, `DeleteSchedule`) run
the validation of models and admin, and the cascade of a deletion.

**DueTimes** models the datetimes that `is_due()` computes with: aware ones are
instants, naive ones what a clock shows, and the settings decide which of them
the database, `now()` and Celery hand out. `FreshRun` is `ModelEntry.__init__()`,
`IsDue` is `is_due()` with the `is_due()` of an interval, of `TzAwareCrontab` and
of `clocked`, `Selected` the part of `enabled_models_qs()` that is about clocked
tasks. Celery matches a crontab in the zone of the datetime that it is given
(`MatchesIn`): `TzAwareCrontab.is_due()` turns to the zone of the crontab
(`Matches`), whereas `due_start_time()` is given that of the app
(`DueStartTime`), which is UTC here. A day has four hours, so that a few instants
hold several days.

**CronFields** models one part of a field: what the validators make of it
(`Accepts`, `Denotes`), what Celery's parser makes of it (`CeleryParses`,
`CeleryExpands`), and the way from a form or the configuration to the table and
to beat, which skips a task whose schedule raises.

The theorems are in **ChangeTrackingProofs**, **DatabaseSchedulerProofs**,
**SchedulerTableProofs** and **SpacingProofs** (which build on it),
**BeatSetupProofs**, **DueTimesProofs**, **CrontabWindowProofs** and
**CronFieldsProofs**; the modules `MC...` give the constants to TLC.

## Runs

| Run | Instance | Checks |
| --- | --- | --- |
| `notice` | 2 writers, 1 table, 3 instants, 2 operations, 1 fault, a local clock that falls back | `TypeOK`, `NoOtherLoss`, `StalenessBound`, `AtomicSaveNeverRegresses`, `MirrorsTables` |
| `notice_live` | 2 writers, 2 tables, 2 instants, 2 operations, 1 fault | `NoOtherLoss`, `ChangeIsLoaded` |
| `scheduler` | 1 one-off task, 3 instants, 2 client operations, 1 fault of 7 kinds, every interleaving | `TypeOK`, `HeapMatchesSchedule`, `MemoryMatchesRows` |
| `scheduler_spacing` | 2 recurring tasks, one with a start and an expiry, 5 instants, 1 operation, 1 fault, the client between ticks | `Spacing`, `DirtyCoversRuns`, `DueIsSent`, `KeepsLedger` |
| `scheduler_oneoff` | 1 one-off task, 5 instants, 2 operations, 1 fault, every interleaving | `OneOffRunsOnce`, `StopSavesRuns`, `OnlyFaultsEndBeat` |
| `scheduler_respacing` | 1 recurring and 1 one-off task, 8 instants, no client, no fault | violates `Spacing` |
| `setup` | 2 names, 2 values, 6 schedule keys, 2 operations or stops; a solar entry and one that fails, or the default clean-up and an empty `beat_schedule` | `TypeOK`, `RowsConsistent`, `SetupInstalls`, `SetupIsIdempotent`, `ScheduleHeals` |
| `setup_removed` | as `setup`, 1 operation | violates `RemovedIsDisabled` |
| `due_times` | 4 zones of the database, 2 of them with clocks put back, intervals, crontabs in the zone of the app or another, clocked tasks, 13 instants, 2 changes | `TypeOK`, `LastRunReadRight`, `NotLate`, `SentWhenDue` |
| `due_start` | 1 zone, crontabs in it | violates `StartWaitsForMatch` |
| `crontab` | 49 pairs of zones, 49 crontabs, 26 hours | `TypeOK`, `SentInTime` |
| `fields` | 5 fields, every part written with 16 numbers at and beyond the ends of the fields | `TypeOK`, `AcceptedIsLoaded`, `LoadedAsValidated` |

Bounds. Two writers are enough for stamps to cross, two operations for a change
to hide another's notice, and one fault for each way of losing one; a second
fault meets a system that has recovered from the first, or is down. In
`scheduler` a task with interval 2 is due at instant 3, which leaves room for a
run, its end as a one-off task, and two client operations around them; in the
other runs two periods pass. In `setup` one operation may fall between the
transactions of an entry and another between the queries of a reload, and six
keys are enough for two operations and the starts around them. In `due_times` the clocks
change at instant 5, with a whole day on either side of it, and `Never` and
`LongBack` lie far beyond the last instant. `MaxTime`, `MaxEdits`, `MaxWrites`,
`MaxFaults`, `MaxId`, `MaxEvents`, `MaxChanges` and `LastSlot` are the only
bounds, and each is a guard of one action. `QuietTicks` keeps the clock and the
client still during a tick, and from the start of a process to the end of its
first tick, in runs where the question is not what happens there: a change in
the middle of a tick, or between `setup_schedule()` and the first one, may
respace a run, as told below. `SyncMax` is 99 in the runs of `DatabaseScheduler`,
so that no forced reload hides a lost notice; forced reloads are the subject of
`StalenessBound`, whose run, `notice`, has the clock fall by as much as
`SyncMax`. One table is enough there, since no fact about a table depends on
another; `notice_live` has a second, which a reload reads after the first. In `due_times` the forced reload comes once a day only, so that it
does not hide an entry that sleeps for too long. The clock of `crontab` runs for longer than a day, so that
every hour of every zone passes. A field of `fields` ends loaded, rejected or
skipped, and the clock of the runs of `DueTimes` ends: these runs alone do
without the deadlock check.

`scheduler_oneoff` leaves out deletion, kills and failed saves or syncs, and
`scheduler_spacing` one-off tasks: the code repeats or loses a run there, as is
told below.
`scheduler` has no task that expires: with one it takes too long.

`Requeue` says whether `tick()` pushes an entry that is not due back with its new
time. It is TRUE in the runs: `requirements/default.txt` asks for Celery 5.7,
which does. With FALSE, as in older releases, a disabled or expired entry at the
top of the heap keeps the others from being sent until the next reload, and TLC
finds `DueIsSent` violated. What is proved of `DatabaseScheduler` holds for both.

Fairness. `ChangeIsLoaded` assumes weak fairness of beat's step and of each
writer's: the `Service` loop calls `tick()` at least every `max_interval`, and a
writer that has begun either goes on or dies. `DueIsSent` and `ScheduleHeals`
assume weak fairness of beat alone. A restart is part of beat's step: a
supervisor starts it again. None assumes that time passes, that a fault happens
or does not, or that the client does anything; `ScheduleHeals` takes the forced
reload, which comes every five minutes, for a step of beat.

## Disagreements the runs show

- `scheduler_respacing`: a reload at the copy that `tick()` makes after
  `schedules_equal()` leaves `_heap_invalidated` set; the next tick fills the
  heap from `_schedule`, whose entries have the `last_run_at` of the reload, and
  a task just sent is sent again. The end of a one-off task is one way to such a
  reload. A change between `setup_schedule()` and the first `tick()` is another:
  both updates have polled by then (line 506), and a first `tick()` that has no
  heap goes straight to the copy. With the client free there,
  `scheduler_spacing` violates `Spacing` and `KeepsLedger`.
- `setup_removed`: `enabled_models()` queries the tasks and then prefetches their
  schedules. A schedule deleted in between is cached as `None`, the property
  `schedule` of the task raises `AttributeError`, which nobody catches, and beat
  ends, where the log line of line 66 promises that the task is disabled.
- `due_start`: a crontab task with a `start_time` that has not run counts as last
  run thirty years ago. A reload after `start_time` and before the first match
  finds it overdue and sends it, where the tests expect it at that match.

Further disagreements and limits, met while modelling and without a run of their
own. Of the life of a task, each reached from a listed run by the change of
constants named:

- a one-off task deleted and created again under its name while its run is
  unsaved inherits the run, and ends without one (line 532; `scheduler_oneoff`
  with `ClientOps = {"create", "delete"}` and `SyncEvery = 3`);
- one disabled and enabled around a failed sync runs twice, since a reload drops
  an entry that it does not hold (line 533; `ClientOps = {"disable", "enable"}`,
  `FaultKinds = {"sync"}`);
- when the save that ends a one-off task fails, the last sync of the process writes
  the reset count to a row that is still enabled, and the task runs again (line 163;
  `FaultKinds = {"save"}`); a kill between a run and its sync makes it run again, too
  (`FaultKinds = {"kill"}`);
- after a failed sync, a reload copies `last_run_at = None` of an ended one-off task
  to the fresh entry of the same, now enabled again, and `is_due()` raises (line 536;
  `ClientOps = {"enable"}`, `FaultKinds = {"sync"}` violates `OnlyFaultsEndBeat`);
- `ModelEntry.save()` reads a row and saves every field of it (line 200), so that an
  edit, a disabling or a deletion between `SyncGet` and `SyncPut` is undone, where
  line 195 says that only run metadata is changed;
- the save that ends a one-off task raises when its row has been deleted since the
  last reload (line 168), and beat ends (`ClientOps = {"delete"}`);
- `_disable()` saves every field of an expired task as it was loaded (line 129): an
  edit since is undone, and a row that has been deleted is inserted again.

Of notices and reloads:

- the first `schedule_changed()` compares the stamp with itself (line 459), so
  that a change between the initial read and that poll is remembered without a
  reload, until the forced one;
- the forced reload waits for an hour longer when the local clock falls back,
  which is the term `FallBack` of `StalenessBound`;
- `update(s)` puts an entry back that the reload in the same expression has just
  dropped; beat runs it until the next reload (`ScheduleHeals` says no longer);
- the save of a schedule that `from_entry()` has found undoes an edit of it in
  between, and inserts it again if it was deleted;
- JSON headers that are no dictionary raise `TypeError` (line 91) and end beat,
  while headers that are no JSON only skip the task;
- the admin's toggle leaves `last_run_at` of a task it disables.

Of times and fields:

- until its `start_time` a crontab task that has not run sleeps for the first match
  in the zone of the app (lines 144-145), though it is due by matches in its own
  zone. Where the first of these comes earlier, the task is late by up to the time
  of a forced reload, which finds it overdue. `NotLate` counts from where the code
  looks (`NextOffset`), which is why it holds;
- a day of the week 7 is accepted by the form, as `models.py:313` says it is, and
  Celery's parser raises; `all_as_schedule()` passes over the task and logs nothing
  (lines 290-291);
- for zones 25 hours apart (Niue and Kiritimati) the database's remainder is
  negative and the task is in no window (line 362);
- a server in St John's and a task in Easter Island's zone are 1.5 hours apart in
  January, which is truncated to one, and three in July: a task in the second
  half of its hour is sent a day late;
- without `USE_TZ`, `clocked_time`, `start_time` and `expires` are naive local
  times and are compared with naive UTC; a crontab with a future `start_time`
  raises `TypeError` when `DJANGO_CELERY_BEAT_TZ_AWARE` is off;
- an interval of more than thirty years with a `start_time` is late;
- a range that wraps around, which Celery parses, gets into the table from the
  configuration and is refused by the form afterwards.

## Proofs

Types and invariants are proved for every value of the constants that the named
assumptions admit; the assumptions are in the modules that declare the constants.

`ChangeTrackingProofs`, for any sets of writers and tables, any clock drift, any
`SyncMax` and any bounds:

- `TypeCorrect`: `TypeOK` is an invariant;
- `NoOtherLossHolds`: by induction on `NoOtherLoss` itself. The argument is that
  a post either moves the row past what beat remembers, or adds every stale
  table to `missed` (`AnnounceExplains`), and that steps which post nothing
  leave an explanation in place (`QuietExplains`);
- `StalenessBounded`: the inductive invariant `SyncInv` says that a reload in
  progress began at the last access, and that a table which is stale now became
  so no earlier than the last full sync; `Decide` turns this into the bound. The
  fall of the local clock enters as the greatest difference between two readings
  of it;
- `AtomicSaveNeverRegressesHolds`, when writers' clocks agree (`Drift = {0}`):
  every stamp is at most the clock, and the row is locked between the stamp and
  the commit;
- `ImplementsMirror`: initial states map to initial states, a writer's step to a
  write, a notice or a stutter (`WriterMirrors`), beat's to a notice, a drop, a
  read or a stutter (`BeatMirrors`). That no step leaves a difference unaccounted
  for is `NoOtherLoss` before and after it.

`DatabaseSchedulerProofs`, for any set of tasks, any intervals, start and expiry
times, any faults, and either value of `Requeue` and `QuietTicks`:

- `TypeCorrect`: `TypeOK` is an invariant. Its part on `popped` speaks of a sync
  that returns to `Push` as well, without which it is not inductive;
- `HeapMatchesScheduleHolds`: the inductive invariant `HeapInv` says where the
  scheduled tasks are inside a tick: in the heap, still to be visited by
  `populate_heap()`, or popped. It rests on three facts: `is_due()` and
  `reserve()` change no primary key (`CheckKeepsKeys`, `ReservedType`), a reload
  inside `tick()` empties the heap and leaves its access at `copy` or `fill`,
  and a reload of `setup_schedule()` finds no heap, or leaves an empty one that
  the first `tick()` fills;
- `DirtyCoversRunsHolds`, when the client opens no form (`"edit"` not in
  `ClientOps`): `DirtyInv` adds that what a sync has saved is in the row and
  what it is about to save is the instance's, so that `EndSync` takes nothing
  unsaved off `_dirty`; `KeysInv` adds that a row created under an old name has
  a key beat does not know. The assumption is needed: a form that is opened
  before a run and saved after its sync puts the old count back, until the next
  reload.

`SchedulerTableProofs`:

- `MemoryMatchesRowsHolds`, with no assumption: the inductive invariant
  `AgreeInv` says that outside of a tick, too, row and instance agree unless beat
  is `Behind`, that is, a notice is on its way, the table is about to be read, or
  beat is on its way out. Half-done syncs are why it speaks of the copy that is
  about to be written;
- `StopSavesRunsHolds`, when the client opens no form and creates no row, no sync
  fails and beat is not killed: `StopInv` says that every key stays, and that a
  run the row does not have is among what the last sync is still to save;
- `OneOffRunsOnceHolds`, when rows are enabled, disabled and toggled only, polls
  and reads may fail and beat may stop. `OnceInv` says that an instance counts
  every run of its task, that the row does too unless the task is in `_dirty`,
  and that before a table is read `_dirty` is empty; with `AgreeInv`, a task that
  has ended is not found enabled by mistake. Each assumption leaves out one of
  the disagreements above;
- `OnlyFaultsEndBeatHolds`, under the same and a clock that stays below
  `LongBack` (0 stands for None): the invariant `Dated` says that the entries of
  schedule and heap have a `last_run_at` unless they are disabled, since a reload
  finds `_dirty` empty and takes every date from the table.

`SpacingProofs` is about `Spacing`: between two runs of a task its interval
passes. The row, the instance, the entry of `_schedule` and the entry of the heap
each have a `last_run_at`, a run moves two of the four, and the next decision may
be taken from any of them.

- `SpacingHolds` says that the code keeps its runs apart in every behaviour in
  which no reload begins in the middle of a tick (`NoReloadInTick`) and no error
  cuts the last sync of a process short. The client may edit, delete, enable,
  disable and toggle at any step; polls, loads, sends and other syncs may fail,
  beat may be stopped and started again, tasks may expire and end. Three
  invariants carry it. `RunInv`: the last run of a task is in its row, or the
  task is in `_dirty` with an instance that has it, and what a sync takes off
  `_dirty` is in the row. `HeapRuns`: an entry in the heap has the last run, and
  so has the entry of `_schedule` whenever the heap is about to be filled from
  it. `FirstKeys`: a row that has another key than its instance is gone, so that
  nothing a sync skips can run. `SpacedStep` then is one line of arithmetic.

  None of the hypotheses can be dropped: without any one of them, and with the
  others as constraints of the run, TLC finds `Spacing` violated. A reload in the
  middle of a tick leaves `_heap_invalidated` set (this is `scheduler_respacing`),
  and there are more ways to it than the end of a one-off task: an edit while beat
  is in the tick, or before the first tick of a process, a forced reload that meets
  the copy, a notice that a failed poll has put off, a dirty entry whose sync was
  skipped and then announces itself. A last sync cut
  short and a kill lose the run. When the save that ends a one-off task fails, the
  sync on the way out writes `last_run_at = None` to a row that is still enabled,
  and a task with a `start_time` is due again at once. A row created under the name
  of a deleted one has a key that the instance in memory has not, so that a sync
  skips the run: after a restart it is forgotten;
- `CalmSpacingHolds` has hypotheses on the constants only: no one-off task,
  the client between two ticks and without forms, and still from the start of a
  process to the end of its first tick (`QuietTicks`), no sync, save or kill among
  the faults, and an instance that ends before the first forced reload
  (`MaxTime < SyncMax`). `CalmInv` shows that a reload then never begins in the
  middle of a tick: what a sync writes back is marked `no_changes` (`Quietly`), so
  that nothing announces a change between the first access of a tick and the last;
  nor before the first tick, as no notice waits that a process without a heap could
  tell from the one it has read (`Reading`). So while clients keep out of ticks and starts,
  the code itself meets the hypotheses of `SpacingHolds` (`CalmTicks`); nothing in
  the code makes them keep out, and when they do not it may break `Spacing`;
- `KeepsLedgerHolds`: `DatabaseScheduler` implements `Ledger`, on the conditions
  of `SpacingHolds` and for a client that saves no form (a form puts an old count
  back). The initial states map to an initial state, the clock's step to `Pass`,
  a client's to `Write` (`Book_client`), `SyncPut` to `Save`, the end of a sync
  to `Settle`, or to `Leave` when it is the last one (`Book_sync`), a reload to
  `Read` (`Book_load`), the end of a task to `End` (`Book_check`), a run to `Run`
  (`Book_due`, from `SpacedStep`), a restart to `Start`, and everything else to a
  stutter. `Settle` needs `DirtyInv` of the state after it, `Leave` needs
  `StopInv`, which is why the last sync must not be cut short;
- `CalmLedgerHolds`: the refinement from the conditions of `CalmSpacingHolds`.

`BeatSetupProofs`, for any configuration, clients and bounds:

- `TypeCorrect` and `RowsConsistentHolds`, from the invariant `IInv`: beside
  these it says that a loop variable is set while its loop runs
  (`LoopsDefined`), that a row which beat is going to save is valid and refers
  to its own kind (`SnapshotValid`), and that keys are not used twice
  (`KeysFresh`);
- `SetupInstallsHolds` and `SetupIsIdempotentHolds`, from the invariant
  `StartInv`. Neither property says anything before the end of a start, so the
  invariant follows each entry on its way there, as long as no client has touched
  its task: still to come (`Pending`), done in this batch (`Handled`) or in one
  before (`Finished`). An entry that is done has converged (`Converged`: the row
  is what `_unpack_fields()` makes of it, which does not depend on what it was
  made from, `GivenTwice`), and is in the dictionary `s` or already in the
  schedule (`Entered`, `Shown`). In between, a reload holds copies of rows that
  later steps overwrite (`Reload`), and beat may not have seen a notice row yet
  (`Unseen`). That a second start finds every schedule it wants, and so inserts
  none, is the first part of `Converged`. `ConfigsAssumption` says that an entry of
  `install_default_entries()` leaves `enabled` to the row, as its literal does
  (lines 508-518): a default entry that could set it would be undone by the
  configuration and set again at each start.

`DueTimesProofs`, for any zones, schedules, start times and day, and intervals no
longer than `LongBack`:

- `TypeCorrect`: `TypeOK`, in which an entry always has a last run to count
  from. None differs from every datetime, as the null of a column does;
- `LastRunReadRightHolds`, from `RowReads` and `EntryReads`: the row and the
  entry each name the instant `since`, read by the clock that wrote it. A naive
  time in the hour that comes twice is where `Repeat` enters;
- `SentWhenDueHolds`, from the same and the first match after an instant being
  the least one (`LeastNat`, from the library's theorem that inclusion of finite
  sets is well-founded);
- `NotLateHolds`: `LateInv` adds that a task with a `start_time` which has run
  counts from that run (`RunsStarted`), that the row, and the sleep of the entry,
  end in time (`RowInTime`, `WakesInTime`), and that a clocked task which was left
  out comes due after a reload that is to come (`LeftOut`, `ReloadsInTime`). In
  time means by the first match in the zone where the code looks for it
  (`NextOffset`): that of the app for the first run of a crontab task with a
  `start_time`, else that of the crontab. The two may differ, as is told above.
  A started task that has not run is due whatever its zone,
  for its crontab has matched in thirty years, which are no less than a day
  (`TimeAssumption`).

`CrontabWindowProofs`: `TypeCorrect` and `SentInTimeHolds`, for any zones that
`NearAssumption` admits, any hour and minute. `WaitsForReload` says that a task
which is due and unsent is waiting for the first reload after its time; the rest
is arithmetic: the hour of a match on the server's clock is at most two from the
hour that the offset of January, truncated, makes of it.

`CronFieldsProofs`, for any numbers: `TypeCorrect`, `AcceptedIsLoadedHolds` (a
part that validators accept parses, `SavedParses`) and `LoadedAsValidatedHolds`
(a part saved by a form does not wrap, `NoWrap`, and then both parsers expand it
alike, `SameValues`).

Only model-checked: the liveness properties `ChangeIsLoaded`, `DueIsSent` and
`ScheduleHeals`, which need fairness and are out of the prover's reach. `Spacing`
and `KeepsLedger` are checked by `scheduler_spacing` on an instance that the
theorems do not cover: with creation of rows and failed syncs, but one operation
and one fault only.

## Not modelled

`run_tasks` of the admin, which sends messages and changes no row; the widgets,
lists and messages of the admin, `human_readable`, `__str__` and translations;
the options of a message (queue, exchange, headers), which are carried along;
names of months and days in a field; pickling and comparison of schedules; the
choice of a warning by `is_database_scheduler`; migrations, packaging and app
configuration, which are generated or declarative. Several beat processes on one
table are not supported by the program.

## What is left

- The composition of the notice row of `ChangeTracking` with the tick of
  `DatabaseScheduler`: `notice` is one Boolean there, which is sound because
  `ChangeTracking` says when it is lost, but the two are not checked as one.
