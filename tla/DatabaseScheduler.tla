-------------------------- MODULE DatabaseScheduler --------------------------
(***************************************************************************)
(* One beat process running DatabaseScheduler against the table of         *)
(* periodic tasks, and one client that edits the table meanwhile.          *)
(*                                                                         *)
(* A task is known by its name, here a member of Tasks.  The fields that   *)
(* beat and the client both write are in row; every other field of         *)
(* PeriodicTask is abstracted to a revision number, and what decides when  *)
(* a task is due is a constant.  The schedule is an interval.  0 is None.  *)
(*                                                                         *)
(* _schedule[t] and the heap's entry for t share one model instance but    *)
(* have each their last_run_at, so that the three are kept apart: model,   *)
(* scheduleRun and heapRun.  Whether a notice reaches beat is the subject  *)
(* of ChangeTracking; here notice says that PeriodicTasks.last_update has  *)
(* moved since beat last looked at it.                                     *)
(*                                                                         *)
(* setup_schedule() evaluates the property schedule three times.  What it  *)
(* installs is the subject of BeatSetup: here beat_schedule is empty and   *)
(* result_expires is off, so that both updates add nothing.                *)
(***************************************************************************)
EXTENDS Integers, FiniteSets

CONSTANTS
  Tasks, NoTask,
  Every,           \* Every[t]: the interval of t
  OneOff,          \* tasks with one_off
  StartAt,         \* StartAt[t]: start_time, 0 if there is none
  ExpiresAt,       \* ExpiresAt[t]: expires, 0 if there is none
  SyncMax,         \* SCHEDULE_SYNC_MAX_INTERVAL
  SyncEvery,       \* sync_every, of celery.beat.Scheduler
  RetryDelay,      \* the delay is_due returns for a disabled entry
  Never,           \* NEVER_CHECK_TIMEOUT
  LongBack,        \* the thirty years an unstarted task is backdated by
  Requeue,         \* celery pushes an entry that is not due back with a new time
  ClientOps,       \* what the client does
  FaultKinds,      \* what goes wrong
  QuietTicks,      \* time and the client stand still from the start of a
                   \* process to the end of its first tick(), and in every other
  MaxTime,         \* bound: last instant of the clock
  MaxEdits,        \* bound: operations of the client
  MaxFaults        \* bound: faults

ASSUME TasksAssumption == /\ NoTask \notin Tasks
                          /\ OneOff \subseteq Tasks
                          /\ Every \in [Tasks -> Nat \ {0}]
                          /\ StartAt \in [Tasks -> Nat]
                          /\ ExpiresAt \in [Tasks -> Nat]
ASSUME DelaysAssumption == /\ SyncMax \in Nat \ {0}
                           /\ SyncEvery \in Nat
                           /\ RetryDelay \in Nat \ {0}
                           /\ Never \in Nat \ {0}
                           /\ LongBack \in Nat
ASSUME ModesAssumption ==
  /\ Requeue \in BOOLEAN /\ QuietTicks \in BOOLEAN
  /\ ClientOps \subseteq {"edit", "create", "delete", "enable", "disable", "toggle"}
  /\ FaultKinds \subseteq {"poll", "sync", "load", "save", "send", "stop", "kill"}
ASSUME BoundsAssumption == MaxTime \in Nat /\ MaxEdits \in Nat /\ MaxFaults \in Nat

VARIABLES
  now,
  row,            \* the table, by name; pk 0 where there is no row
  nextPk,
  notice,         \* last_update is newer than _last_timestamp
  cpc, cname, form,              \* the client's step, task and instance
  model, scheduleRun,            \* _schedule: the instances, entry.last_run_at
  heap, heapRun, heapWhen,       \* _heap: its tasks, their last_run_at and time
  heapNone, heapInvalidated,     \* _heap is None; _heap_invalidated
  dirty,                         \* _dirty
  polled, lastFullSync,          \* _last_timestamp is set; _last_full_sync
  pc,             \* where beat is
  at,             \* the access to schedule in progress
  ret,            \* where sync() returns to
  left,           \* names a loop has still to visit
  saved, cur, obj,               \* sync(): success, name, obj of ModelEntry.save()
  lastSync,       \* _last_sync, 0 until should_sync() has first said yes
  popped,         \* the entry tick() has popped
  edits, faults,  \* counters for MaxEdits and MaxFaults
  sentAt, ran,    \* history: last run since the client touched t; runs of the row
  gap             \* history: t was written before beat's first poll

dbVars     == <<row, nextPk, notice>>
clientVars == <<cpc, cname, form, edits>>
memoryVars == <<model, scheduleRun, dirty>>
heapVars   == <<heap, heapRun, heapWhen, heapNone, heapInvalidated>>
pollVars   == <<polled, lastFullSync>>
syncVars   == <<ret, left, saved, cur, obj, lastSync>>
history    == <<sentAt, ran, gap>>
vars == <<now, dbVars, clientVars, memoryVars, heapVars, pollVars, pc, at,
          syncVars, popped, faults, history>>

-----------------------------------------------------------------------------
(* Rows and instances.                                                     *)

NoRow == [pk |-> 0, enabled |-> FALSE, lastRun |-> 0, count |-> 0,
          changed |-> 0, rev |-> 0]
NoModel == [pk |-> 0, enabled |-> FALSE, lastRun |-> 0, count |-> 0,
            changed |-> 0, rev |-> 0, noChanges |-> FALSE]

\* What PeriodicTask.save() writes for the instance m.
Written(m) ==
  [pk |-> m.pk, enabled |-> m.enabled, changed |-> now, rev |-> m.rev,
   lastRun |-> IF m.enabled THEN m.lastRun ELSE 0, count |-> m.count]

\* The instance all_as_schedule() makes of row t.
Fresh(t) ==
  [pk |-> row[t].pk, enabled |-> TRUE, count |-> row[t].count,
   changed |-> row[t].changed, rev |-> row[t].rev, noChanges |-> FALSE,
   lastRun |-> IF row[t].lastRun # 0 THEN row[t].lastRun
               ELSE IF StartAt[t] = 0 THEN row[t].changed
               ELSE row[t].changed - LongBack]

Scheduled == {t \in Tasks : model[t].pk # 0}

-----------------------------------------------------------------------------
Init ==
  /\ now = 1
  /\ row = [t \in Tasks |-> [NoRow EXCEPT !.pk = 1, !.enabled = TRUE, !.changed = 1]]
  /\ nextPk = 2
  /\ notice = TRUE
  /\ cpc = "idle" /\ cname = NoTask /\ form = NoRow /\ edits = 0
  /\ model = [t \in Tasks |-> NoModel]
  /\ scheduleRun = [t \in Tasks |-> 0]
  /\ dirty = {}
  /\ heap = {} /\ heapNone = TRUE /\ heapInvalidated = FALSE
  /\ heapRun = [t \in Tasks |-> 0] /\ heapWhen = [t \in Tasks |-> 0]
  /\ polled = FALSE /\ lastFullSync = 1
  /\ pc = "load" /\ at = "boot"
  /\ ret = "idle" /\ left = {} /\ saved = {} /\ cur = NoTask /\ obj = NoModel
  /\ lastSync = 0
  /\ popped = NoTask
  /\ faults = 0
  /\ sentAt = [t \in Tasks |-> 0] /\ ran = [t \in Tasks |-> 0] /\ gap = {}

Undisturbed == QuietTicks => pc = "down" \/ (pc = "idle" /\ ~heapNone)

Tick ==
  /\ Undisturbed
  /\ now < MaxTime
  /\ now' = now + 1
  /\ UNCHANGED <<dbVars, clientVars, memoryVars, heapVars, pollVars, pc, at,
                 syncVars, popped, faults, history>>

Fault(kind) ==
  /\ kind \in FaultKinds
  /\ faults < MaxFaults
  /\ faults' = faults + 1

-----------------------------------------------------------------------------
(* The client.  PeriodicTask.save() and delete() announce the change before *)
(* and after they write; the admin's actions after.                        *)

ClientBegins(o) ==
  /\ Undisturbed
  /\ o \in ClientOps
  /\ cpc = "idle"
  /\ edits < MaxEdits
  /\ edits' = edits + 1

\* What the client writes is new to the histories of the tasks in S.
ClientTouches(S) ==
  /\ sentAt' = [t \in Tasks |-> IF t \in S THEN 0 ELSE sentAt[t]]
  /\ gap' = IF polled THEN gap ELSE gap \cup S

beatUnchanged == <<memoryVars, heapVars, pollVars, pc, at, syncVars, popped, faults>>

\* A form is opened: objects.get().
ClientGets(t) ==
  /\ ClientBegins("edit")
  /\ row[t].pk # 0
  /\ form' = row[t] /\ cname' = t
  /\ cpc' = "form"
  /\ UNCHANGED <<now, dbVars, beatUnchanged, history>>

\* Its save() begins: pre_save.  The user may also have flipped enabled.
ClientSaves ==
  /\ Undisturbed
  /\ cpc = "form"
  /\ \E e \in BOOLEAN : form' = [form EXCEPT !.enabled = e]
  /\ notice' = TRUE
  /\ cpc' = "write"
  /\ UNCHANGED <<now, row, nextPk, cname, edits, beatUnchanged, history>>

ClientCreates(t) ==
  /\ ClientBegins("create")
  /\ row[t].pk = 0
  /\ form' = [NoRow EXCEPT !.pk = nextPk, !.enabled = TRUE] /\ cname' = t
  /\ nextPk' = nextPk + 1
  /\ notice' = TRUE
  /\ cpc' = "write"
  /\ UNCHANGED <<now, row, beatUnchanged, history>>

\* Every field is written, the stale ones too; a row that is gone is
\* inserted, unless its name has been taken.
ClientWrites ==
  /\ Undisturbed
  /\ cpc = "write"
  /\ IF row[cname].pk \in {0, form.pk}
     THEN /\ row' = [row EXCEPT ![cname] = Written([form EXCEPT !.rev = @ + 1])]
          /\ ClientTouches({cname})
          /\ ran' = [ran EXCEPT ![cname] = IF form.pk = row[cname].pk THEN @ ELSE 0]
          /\ cpc' = "post"
     ELSE /\ cpc' = "idle"
          /\ UNCHANGED <<row, history>>
  /\ UNCHANGED <<now, nextPk, notice, cname, form, edits, beatUnchanged>>

ClientDeletes(t) ==
  /\ ClientBegins("delete")
  /\ row[t].pk # 0
  /\ row' = [row EXCEPT ![t] = NoRow]
  /\ notice' = TRUE
  /\ ClientTouches({t})
  /\ ran' = [ran EXCEPT ![t] = 0]
  /\ cpc' = "post"
  /\ UNCHANGED <<now, nextPk, cname, form, beatUnchanged>>

\* enable_tasks, disable_tasks and toggle_tasks: one UPDATE of the rows in S.
ClientUpdates(o, S) ==
  /\ ClientBegins(o)
  /\ o \in {"enable", "disable", "toggle"}
  /\ S # {} /\ \A t \in S : row[t].pk # 0
  /\ row' = [t \in Tasks |->
       IF t \notin S THEN row[t]
       ELSE CASE o = "enable"  -> [row[t] EXCEPT !.enabled = TRUE]
              [] o = "disable" -> [row[t] EXCEPT !.enabled = FALSE, !.lastRun = 0]
              [] o = "toggle"  -> [row[t] EXCEPT !.enabled = ~@]]
  /\ ClientTouches(S)
  /\ cpc' = "post"
  /\ UNCHANGED <<now, nextPk, notice, cname, form, ran, beatUnchanged>>

ClientPosts ==
  /\ Undisturbed
  /\ cpc = "post"
  /\ notice' = TRUE
  /\ cpc' = "idle"
  /\ UNCHANGED <<now, row, nextPk, cname, form, edits, beatUnchanged, history>>

ClientStep ==
  \/ \E t \in Tasks : ClientGets(t) \/ ClientCreates(t) \/ ClientDeletes(t)
  \/ \E o \in ClientOps, S \in SUBSET Tasks : ClientUpdates(o, S)
  \/ ClientSaves \/ ClientWrites \/ ClientPosts

-----------------------------------------------------------------------------
(* The property schedule: poll, sync, refresh.                             *)

EmptyHeap == /\ heap' = {}
             /\ heapRun' = [t \in Tasks |-> 0]
             /\ heapWhen' = [t \in Tasks |-> 0]

\* The updates of install_default_entries() and update_from_dict() follow each
\* other, and end setup.
InSetup(invalidated) ==
  /\ heapInvalidated' = invalidated
  /\ \/ at = "defaults" /\ pc' = "access" /\ at' = "entries"
     \/ at = "entries" /\ pc' = "idle" /\ UNCHANGED at
  /\ UNCHANGED left

\* Mutant: schedules_equal() does not look at _heap_invalidated.
ContinueWithoutFlag(invalidated, names) ==
  \/ /\ at = "cond"
     /\ heapInvalidated' = FALSE /\ pc' = "run"
     /\ UNCHANGED <<at, left>>
  \/ /\ at = "copy"
     /\ heapInvalidated' = invalidated /\ pc' = "access" /\ at' = "fill"
     /\ UNCHANGED left
  \/ /\ at = "fill"
     /\ heapInvalidated' = invalidated /\ pc' = "populate"
     /\ left' = names
     /\ UNCHANGED at
  \/ InSetup(invalidated)

\* What tick() does with the schedule it gets, which holds names: compare,
\* copy, fill the heap; or setup, for an update with nothing.
\* schedules_equal() clears the flag; while it is not set, the old schedule
\* and the new hold the same entries.
Continue(invalidated, names) ==
  \/ /\ at = "cond" /\ invalidated
     /\ heapInvalidated' = FALSE /\ pc' = "access" /\ at' = "copy"
     /\ UNCHANGED left
  \/ /\ at = "cond" /\ ~invalidated
     /\ heapInvalidated' = FALSE /\ pc' = "run"
     /\ UNCHANGED <<at, left>>
  \/ /\ at = "copy"
     /\ heapInvalidated' = invalidated /\ pc' = "access" /\ at' = "fill"
     /\ UNCHANGED left
  \/ /\ at = "fill"
     /\ heapInvalidated' = invalidated /\ pc' = "populate"
     /\ left' = names
     /\ UNCHANGED at
  \/ InSetup(invalidated)

\* Mutant: sync() goes back to the step that called it.
BeginSyncAtCaller(returnTo) ==
  /\ pc' = "sync" /\ ret' = pc
  /\ left' = dirty /\ saved' = {}

BeginSync(returnTo) ==
  /\ pc' = "sync" /\ ret' = returnTo
  /\ left' = dirty /\ saved' = {}

\* The rest of the property once schedule_changed() has answered.
Decide(changed) ==
  IF changed \/ now - lastFullSync >= SyncMax
  THEN /\ lastFullSync' = now
       /\ BeginSync("load")
       /\ UNCHANGED <<at, heapVars>>
  ELSE /\ Continue(heapInvalidated, Scheduled)
       /\ IF at = "copy" THEN EmptyHeap /\ heapNone' = FALSE
          ELSE UNCHANGED <<heap, heapRun, heapWhen, heapNone>>
       /\ UNCHANGED <<lastFullSync, ret, saved>>

\* The first poll has nothing to compare the stamp with.
Access ==
  /\ pc = "access"
  /\ notice' = FALSE /\ polled' = TRUE
  /\ Decide(notice /\ polled)
  /\ UNCHANGED <<now, row, nextPk, clientVars, memoryVars, cur, obj, lastSync,
                 popped, faults, history>>

\* Mutant: the stamp is remembered although it could not be compared.
PollFailsRemembering ==
  /\ pc = "access"
  /\ Fault("poll")
  /\ notice' = FALSE
  /\ Decide(FALSE)
  /\ UNCHANGED <<now, row, nextPk, clientVars, memoryVars, polled, cur, obj,
                 lastSync, popped, history>>

\* schedule_changed() logs a database error and answers no.
PollFails ==
  /\ pc = "access"
  /\ Fault("poll")
  /\ Decide(FALSE)
  /\ UNCHANGED <<now, dbVars, clientVars, memoryVars, polled, cur, obj, lastSync,
                 popped, history>>

\* Mutant: the run metadata of dirty entries is not kept.
LoadWithoutDirty ==
  /\ pc = "load"
  /\ LET fresh == {t \in Tasks : row[t].pk # 0 /\ row[t].enabled}
     IN  /\ model' = [t \in Tasks |-> IF t \in fresh THEN Fresh(t) ELSE NoModel]
         /\ IF at = "boot"
            THEN /\ lastFullSync' = now
                 /\ pc' = "access" /\ at' = "defaults"
                 /\ UNCHANGED <<heapVars, left>>
            ELSE /\ EmptyHeap /\ heapNone' = FALSE
                 /\ Continue(TRUE, fresh)
                 /\ UNCHANGED lastFullSync
  /\ scheduleRun' = [t \in Tasks |-> model'[t].lastRun]
  /\ gap' = {}
  /\ UNCHANGED <<now, dbVars, clientVars, dirty, polled, ret, saved, cur, obj,
                 lastSync, popped, faults, sentAt, ran>>

\* _refresh_schedule(): the enabled rows, with the run metadata of the dirty
\* entries, by name.  The first read of a process leaves the heap alone.
Load ==
  /\ pc = "load"
  /\ LET fresh == {t \in Tasks : row[t].pk # 0 /\ row[t].enabled}
         kept  == dirty \cap fresh \cap Scheduled
     IN  /\ model' = [t \in Tasks |->
               IF t \notin fresh THEN NoModel
               ELSE IF t \notin kept THEN Fresh(t)
               ELSE [Fresh(t) EXCEPT !.lastRun = model[t].lastRun,
                                     !.count = model[t].count,
                                     !.noChanges = model[t].noChanges]]
         /\ IF at = "boot"
            THEN /\ lastFullSync' = now
                 /\ pc' = "access" /\ at' = "defaults"
                 /\ UNCHANGED <<heapVars, left>>
            ELSE /\ EmptyHeap /\ heapNone' = FALSE
                 /\ Continue(TRUE, fresh)
                 /\ UNCHANGED lastFullSync
  /\ scheduleRun' = [t \in Tasks |-> model'[t].lastRun]
  /\ gap' = {}
  /\ UNCHANGED <<now, dbVars, clientVars, dirty, polled, ret, saved, cur, obj,
                 lastSync, popped, faults, sentAt, ran>>

\* Nothing catches an error of the query: it leaves tick().
LoadFails ==
  /\ pc = "load"
  /\ Fault("load")
  /\ pc' = "closing"
  /\ UNCHANGED <<now, dbVars, clientVars, memoryVars, heapVars, pollVars, at,
                 syncVars, popped, history>>

-----------------------------------------------------------------------------
(* sync().                                                                 *)

dbUnchangedBySync == <<now, clientVars, model, scheduleRun, heapVars, pollVars, at,
                       popped, history>>

\* ModelEntry.save(), first half: the row by primary key, with the fields of
\* save_fields set.  A name that is not scheduled, or a row that is gone, is
\* skipped and stays dirty.
SyncGet(t) ==
  /\ pc = "sync" /\ t \in left
  /\ left' = left \ {t}
  /\ IF t \in Scheduled /\ row[t].pk = model[t].pk
     THEN /\ pc' = "put" /\ cur' = t
          /\ obj' = [model[t] EXCEPT !.enabled = row[t].enabled,
                                     !.changed = row[t].changed,
                                     !.rev = row[t].rev]
     ELSE UNCHANGED <<pc, cur, obj>>
  /\ UNCHANGED <<dbUnchangedBySync, dbVars, dirty, ret, saved, lastSync, faults>>

\* Second half: obj.save() writes every field, or inserts the row again.
SyncPut ==
  /\ pc = "put"
  /\ row[cur].pk \in {0, obj.pk}
  /\ row' = [row EXCEPT ![cur] = Written(obj)]
  /\ notice' = (notice \/ ~obj.noChanges)
  /\ saved' = saved \cup {cur}
  /\ pc' = "sync" /\ cur' = NoTask /\ obj' = NoModel
  /\ UNCHANGED <<dbUnchangedBySync, nextPk, dirty, ret, left, lastSync, faults>>

\* Mutant: sync() empties _dirty.
EndSyncForgettingAll ==
  /\ dirty' = {}
  /\ left' = {} /\ saved' = {} /\ cur' = NoTask /\ obj' = NoModel
  /\ lastSync' = IF ret \in {"push", "idle"} THEN now ELSE lastSync
  /\ UNCHANGED ret

\* Mutant: what sync() has saved stays in _dirty.
EndSyncKeepingAll ==
  /\ dirty' = dirty
  /\ left' = {} /\ saved' = {} /\ cur' = NoTask /\ obj' = NoModel
  /\ lastSync' = IF ret \in {"push", "idle"} THEN now ELSE lastSync
  /\ UNCHANGED ret

\* _do_sync() remembers the time however sync() ends.
EndSync == /\ dirty' = dirty \ saved
           /\ left' = {} /\ saved' = {} /\ cur' = NoTask /\ obj' = NoModel
           /\ lastSync' = IF ret \in {"push", "idle"} THEN now ELSE lastSync
           /\ UNCHANGED ret

\* The name is now another row's: ValidationError, which sync() lets through.
\* apply_entry() swallows it; otherwise beat goes down.
SyncRaises ==
  /\ pc = "put"
  /\ row[cur].pk \notin {0, obj.pk}
  /\ EndSync
  /\ pc' = IF ret \in {"load", "idle"} THEN "closing" ELSE ret
  /\ UNCHANGED <<dbUnchangedBySync, dbVars, faults>>

\* DatabaseError and InterfaceError end the loop and are logged.
SyncFails ==
  /\ pc = "put" \/ (pc = "sync" /\ left # {})
  /\ Fault("sync")
  /\ EndSync
  /\ pc' = ret
  /\ UNCHANGED <<dbUnchangedBySync, dbVars>>

SyncDone ==
  /\ pc = "sync" /\ left = {}
  /\ EndSync
  /\ pc' = ret
  /\ UNCHANGED <<dbUnchangedBySync, dbVars, faults>>

-----------------------------------------------------------------------------
(* ModelEntry.is_due(), with the last_run_at of the entry it is asked of.  *)

Verdict(t, run) ==
  CASE ~model[t].enabled                             -> "disabled"
    [] OTHER ->
  CASE now < StartAt[t]                              -> "early"
    [] OTHER ->
  CASE ExpiresAt[t] # 0 /\ now >= ExpiresAt[t]       -> "expired"
    [] OTHER ->
  CASE t \in OneOff /\ model[t].count > 0            -> "spent"
    [] OTHER ->
  CASE run = 0                                       -> "broken"
    [] OTHER -> IF now - run >= Every[t] THEN "due" ELSE "wait"

\* The delay it returns for an entry that is not due.
Delay(t, run) ==
  CASE Verdict(t, run) = "disabled"               -> RetryDelay
    [] Verdict(t, run) = "early"                  -> StartAt[t] - now
    [] Verdict(t, run) \in {"expired", "spent"}   -> Never
    [] Verdict(t, run) = "wait"                   -> run + Every[t] - now
    [] OTHER                                      -> 0

\* The instance as is_due() leaves it: _disable() or the end of a one-off
\* task, and last_run_at as PeriodicTask.save() leaves it.
Checked(t, run) ==
  CASE Verdict(t, run) = "expired" ->
         [model[t] EXCEPT !.enabled = FALSE, !.lastRun = 0, !.noChanges = TRUE]
    [] Verdict(t, run) = "spent" ->
         [model[t] EXCEPT !.enabled = FALSE, !.lastRun = 0, !.count = 0,
                          !.noChanges = FALSE]
    [] OTHER -> model[t]

\* is_due() returns.  _disable() saves every field of the instance, and
\* announces nothing; the end of a one-off task updates four fields of a row
\* that must exist, and announces it.
Check(t, run) ==
  /\ Verdict(t, run) # "broken"
  /\ model' = [model EXCEPT ![t] = Checked(t, run)]
  /\ CASE Verdict(t, run) = "expired" ->
            /\ row[t].pk \in {0, model[t].pk}
            /\ row' = [row EXCEPT ![t] = Written(Checked(t, run))]
            /\ UNCHANGED <<notice, ran>>
       [] Verdict(t, run) = "spent" ->
            /\ row[t].pk = model[t].pk
            /\ row' = [row EXCEPT ![t] = [row[t] EXCEPT
                         !.enabled = FALSE, !.lastRun = 0, !.count = 0,
                         !.changed = now]]
            /\ notice' = TRUE
            /\ ran' = [ran EXCEPT ![t] = 0]
       [] OTHER -> UNCHANGED <<row, notice, ran>>

\* is_due() raises: the save fails, or there is no last_run_at.
CheckRaises(t, run) ==
  /\ \/ Verdict(t, run) = "broken" /\ UNCHANGED faults
     \/ Verdict(t, run) = "expired" /\ row[t].pk \notin {0, model[t].pk}
        /\ UNCHANGED faults
     \/ Verdict(t, run) = "spent" /\ row[t].pk # model[t].pk /\ UNCHANGED faults
     \/ Verdict(t, run) \in {"expired", "spent"} /\ Fault("save")
  /\ model' = [model EXCEPT ![t] = Checked(t, run)]
  /\ pc' = "closing"
  /\ UNCHANGED <<now, dbVars, clientVars, scheduleRun, dirty, heapVars, pollVars,
                 at, syncVars, popped, history>>

-----------------------------------------------------------------------------
(* tick(), of celery.beat.Scheduler.                                       *)

\* Without a heap tick() goes straight to filling one.
StartTick ==
  /\ pc = "idle"
  /\ pc' = "access"
  /\ at' = IF heapNone THEN "copy" ELSE "cond"
  /\ UNCHANGED <<now, dbVars, clientVars, memoryVars, heapVars, pollVars,
                 syncVars, popped, faults, history>>

\* populate_heap() appends one entry.
PopulateEntry(t) ==
  /\ pc = "populate" /\ t \in left
  /\ Check(t, scheduleRun[t])
  /\ heap' = heap \cup {t}
  /\ heapRun' = [heapRun EXCEPT ![t] = scheduleRun[t]]
  /\ heapWhen' = [heapWhen EXCEPT ![t] = now + Delay(t, scheduleRun[t])]
  /\ left' = left \ {t}
  /\ UNCHANGED <<now, nextPk, clientVars, scheduleRun, dirty, heapNone,
                 heapInvalidated, pollVars, pc, at, ret, saved, cur, obj,
                 lastSync, popped, faults, sentAt, gap>>

PopulateRaises(t) ==
  /\ pc = "populate" /\ t \in left
  /\ CheckRaises(t, scheduleRun[t])

PopulateDone ==
  /\ pc = "populate" /\ left = {}
  /\ pc' = "run"
  /\ UNCHANGED <<now, dbVars, clientVars, memoryVars, heapVars, pollVars, at,
                 syncVars, popped, faults, history>>

RunNothing ==
  /\ pc = "run" /\ heap = {}
  /\ pc' = "idle"
  /\ UNCHANGED <<now, dbVars, clientVars, memoryVars, heapVars, pollVars, at,
                 syncVars, popped, faults, history>>

\* H[0]
Top(t) == t \in heap /\ \A u \in heap : heapWhen[t] <= heapWhen[u]

\* The first entry is not due: tick() ends.
RunNotDue(t) ==
  /\ pc = "run" /\ Top(t)
  /\ Verdict(t, heapRun[t]) # "due"
  /\ Check(t, heapRun[t])
  /\ heapWhen' = IF Requeue
                 THEN [heapWhen EXCEPT ![t] = now + Delay(t, heapRun[t])]
                 ELSE heapWhen
  /\ pc' = "idle"
  /\ UNCHANGED <<now, nextPk, clientVars, scheduleRun, dirty, heap, heapRun,
                 heapNone, heapInvalidated, pollVars, at, syncVars, popped,
                 faults, sentAt, gap>>

RunRaises(t) ==
  /\ pc = "run" /\ Top(t)
  /\ CheckRaises(t, heapRun[t])

\* Mutant: reserve() does not mark the entry as dirty.
ReserveClean(t) ==
  /\ model' = [model EXCEPT ![t] = [model[t] EXCEPT
                  !.lastRun = now, !.count = model[t].count + 1, !.noChanges = TRUE]]
  /\ dirty' = dirty
  /\ popped' = t

\* The first entry is due: it is popped, reserve() advances the instance that
\* it shares with _schedule, and the task is sent.
Reserve(t) ==
  /\ model' = [model EXCEPT ![t] = [model[t] EXCEPT
                  !.lastRun = now, !.count = model[t].count + 1, !.noChanges = TRUE]]
  /\ dirty' = dirty \cup {t}
  /\ popped' = t

RunDue(t) ==
  /\ pc = "run" /\ Top(t)
  /\ Verdict(t, heapRun[t]) = "due"
  /\ Reserve(t)
  /\ heap' = heap \ {t}
  /\ heapRun' = [heapRun EXCEPT ![t] = 0]
  /\ heapWhen' = [heapWhen EXCEPT ![t] = 0]
  /\ \/ /\ sentAt' = [sentAt EXCEPT ![t] = now]
        /\ ran' = [ran EXCEPT ![t] = @ + 1]
        /\ UNCHANGED faults
     \/ Fault("send") /\ UNCHANGED <<sentAt, ran>>
  /\ pc' = "sent"
  /\ UNCHANGED <<now, dbVars, clientVars, scheduleRun, heapNone, heapInvalidated,
                 pollVars, at, syncVars, gap>>

ShouldSync == lastSync = 0 \/ now - lastSync > SyncEvery

\* apply_async() ends in a sync when should_sync() says so.
SyncAfterSend ==
  /\ pc = "sent" /\ ShouldSync
  /\ BeginSync("push")
  /\ UNCHANGED <<now, dbVars, clientVars, memoryVars, heapVars, pollVars, at,
                 cur, obj, lastSync, popped, faults, history>>

\* The new entry, whose last_run_at is the instance's, goes on the heap.
Push ==
  /\ pc = "push" \/ (pc = "sent" /\ ~ShouldSync)
  /\ heap' = heap \cup {popped}
  /\ heapRun' = [heapRun EXCEPT ![popped] = model[popped].lastRun]
  /\ heapWhen' = [heapWhen EXCEPT ![popped] = now + Every[popped]]
  /\ popped' = NoTask
  /\ pc' = "idle"
  /\ UNCHANGED <<now, dbVars, clientVars, memoryVars, heapNone, heapInvalidated,
                 pollVars, at, syncVars, faults, history>>

-----------------------------------------------------------------------------
(* The loop of celery.beat.Service, and the life of the process.           *)

\* Between two ticks, when should_sync() says so.
ServiceSync ==
  /\ pc = "idle" /\ ShouldSync
  /\ BeginSync("idle")
  /\ UNCHANGED <<now, dbVars, clientVars, memoryVars, heapVars, pollVars, at,
                 cur, obj, lastSync, popped, faults, history>>

\* SIGTERM raises SystemExit wherever beat is, but for the middle of a send,
\* of a sync or of a save of is_due().
Stop ==
  /\ pc \in {"idle", "access", "load", "populate", "run", "sent", "push"}
  /\ Fault("stop")
  /\ pc' = "closing"
  /\ UNCHANGED <<now, dbVars, clientVars, memoryVars, heapVars, pollVars, at,
                 syncVars, popped, history>>

\* Mutant: beat exits without a sync.
CloseWithoutSync ==
  /\ pc \in {"closing", "exiting"}
  /\ pc' = "down"
  /\ UNCHANGED <<now, dbVars, clientVars, memoryVars, heapVars, pollVars, at,
                 syncVars, popped, faults, history>>

\* The loop's finally clause syncs, and so does the finalizer at exit.
Close ==
  /\ pc \in {"closing", "exiting"}
  /\ BeginSync(IF pc = "closing" THEN "exiting" ELSE "down")
  /\ UNCHANGED <<now, dbVars, clientVars, memoryVars, heapVars, pollVars, at,
                 cur, obj, lastSync, popped, faults, history>>

Kill ==
  /\ pc # "down"
  /\ Fault("kill")
  /\ pc' = "down"
  /\ UNCHANGED <<now, dbVars, clientVars, memoryVars, heapVars, pollVars, at,
                 syncVars, popped, history>>

Restart ==
  /\ pc = "down"
  /\ pc' = "load" /\ at' = "boot"
  /\ model' = [t \in Tasks |-> NoModel]
  /\ scheduleRun' = [t \in Tasks |-> 0]
  /\ dirty' = {}
  /\ EmptyHeap /\ heapNone' = TRUE /\ heapInvalidated' = FALSE
  /\ polled' = FALSE
  /\ left' = {} /\ saved' = {} /\ cur' = NoTask /\ obj' = NoModel
  /\ lastSync' = 0
  /\ popped' = NoTask
  /\ UNCHANGED <<now, dbVars, clientVars, lastFullSync, ret, faults, history>>

-----------------------------------------------------------------------------
BeatStep ==
  \/ StartTick \/ Access \/ Load
  \/ \E t \in Tasks : SyncGet(t)
  \/ SyncPut \/ SyncRaises \/ SyncDone
  \/ \E t \in Tasks : PopulateEntry(t) \/ PopulateRaises(t)
  \/ PopulateDone \/ RunNothing
  \/ \E t \in Tasks : RunNotDue(t) \/ RunRaises(t) \/ RunDue(t)
  \/ SyncAfterSend \/ Push
  \/ Close \/ Restart

Next ==
  \/ Tick
  \/ ClientStep
  \/ BeatStep \/ ServiceSync
  \/ PollFails \/ LoadFails \/ SyncFails \/ Stop \/ Kill

Spec == Init /\ [][Next]_vars

\* celery's Service calls tick() again and again, and a supervisor starts a
\* beat that has gone.
FairSpec == Spec /\ WF_vars(BeatStep)

-----------------------------------------------------------------------------
RowType == [pk : Nat, enabled : BOOLEAN, lastRun : Int, count : Nat,
            changed : Nat, rev : Nat]
ModelType == [pk : Nat, enabled : BOOLEAN, lastRun : Int, count : Nat,
              changed : Nat, rev : Nat, noChanges : BOOLEAN]

\* The types of the variables, and that a loop variable is set while it is used.
TypeOK ==
  /\ now \in Nat \ {0}
  /\ row \in [Tasks -> RowType] /\ nextPk \in Nat \ {0} /\ notice \in BOOLEAN
  /\ cpc \in {"idle", "form", "write", "post"}
  /\ cname \in Tasks \cup {NoTask} /\ form \in RowType
  /\ cpc \in {"form", "write"} => cname \in Tasks
  /\ model \in [Tasks -> ModelType] /\ scheduleRun \in [Tasks -> Int]
  /\ heap \subseteq Tasks
  /\ heapRun \in [Tasks -> Int] /\ heapWhen \in [Tasks -> Int]
  /\ heapNone \in BOOLEAN /\ heapInvalidated \in BOOLEAN
  /\ dirty \subseteq Tasks
  /\ polled \in BOOLEAN /\ lastFullSync \in Nat
  /\ pc \in {"idle", "access", "load", "sync", "put", "populate", "run", "sent",
             "push", "closing", "exiting", "down"}
  /\ at \in {"boot", "defaults", "entries", "cond", "copy", "fill"}
  /\ ret \in {"idle", "load", "push", "exiting", "down"}
  /\ left \subseteq Tasks /\ saved \subseteq Tasks
  /\ cur \in Tasks \cup {NoTask} /\ obj \in ModelType
  /\ pc = "put" => cur \in Tasks
  /\ lastSync \in Nat
  /\ popped \in Tasks \cup {NoTask}
  /\ pc \in {"sent", "push"} \/ (pc \in {"sync", "put"} /\ ret = "push")
       => popped \in Tasks
  /\ edits \in Nat /\ faults \in Nat
  /\ sentAt \in [Tasks -> Nat] /\ ran \in [Tasks -> Nat]
  /\ gap \subseteq Tasks

\* Between ticks the heap holds exactly the scheduled tasks, unless tick() is
\* going to build it again: no reload, whenever it comes, and no error that
\* beat survives makes a task drop out of the heap, or keeps one in it.
HeapMatchesSchedule ==
  pc = "idle" /\ ~heapNone /\ ~heapInvalidated => heap = Scheduled

\* While a task can run, beat and the database agree on how often it has run,
\* or it is in _dirty, so that the next sync saves its runs and a reload
\* before then keeps them.
DirtyCoversRuns ==
  \A t \in Scheduled :
    model[t].enabled /\ row[t].pk = model[t].pk /\ pc # "down"
      => row[t].count = model[t].count \/ t \in dirty

\* When no notice is on its way, beat runs exactly the enabled tasks, in
\* their latest revision.  (A task written between beat's first read and its
\* first poll is the exception ChangeTracking is about.)
MemoryMatchesRows ==
  pc = "idle" /\ polled /\ ~notice /\ cpc # "post" =>
    \A t \in Tasks \ gap :
      /\ row[t].enabled <=> model[t].enabled
      /\ row[t].enabled => row[t].pk = model[t].pk /\ row[t].rev = model[t].rev

\* A task is not sent again before its interval has passed, whatever the
\* reloads, restarts and failed syncs in between, unless the client has
\* touched it.  (The test of schedulers.py for a failed sync: "must not
\* re-dispatch m2".)
Spacing ==
  [][\A t \in Tasks : ran'[t] > ran[t] /\ sentAt[t] # 0
                        => now - sentAt[t] >= Every[t]]_vars

\* Beat ends a one-off task when it has been sent exactly once.  (models.py:
\* "the schedule will only run the task a single time"; schedulers.py:
\* "Disable one off tasks after they've ran once".)
EndsOneOff(t) == /\ model[t].count > 0 /\ model'[t].count = 0
                 /\ ~model'[t].enabled /\ model'[t].pk = model[t].pk
                 /\ row'[t].pk = model[t].pk
OneOffRunsOnce ==
  [][\A t \in OneOff : EndsOneOff(t) => ran[t] = 1]_vars

\* Nothing but a failed read of the table, or a signal, ends beat: no entry that
\* a reload has left without last_run_at is asked whether it is due, and no save
\* meets another row than the one it was read from (_refresh_schedule(),
\* is_due(), ModelEntry.save()).
OnlyFaultsEndBeat ==
  [][pc' = "closing" /\ pc # "closing" => faults' = faults + 1]_vars

\* A beat that was stopped, not killed, and whose syncs met no error, has left
\* every run in the database.
StopSavesRuns ==
  pc = "down" => \A t \in Scheduled :
    model[t].enabled /\ row[t].pk = model[t].pk => row[t].count = model[t].count

\* A task that is due is sent, whatever other entries, expired or disabled
\* ones too, are before it in the heap.
IsDue(t) == Verdict(t, model[t].lastRun) = "due"
DueIsSent == \A t \in Tasks : IsDue(t) ~> ~IsDue(t)

-----------------------------------------------------------------------------
(* The books that beat keeps.                                              *)

\* The tasks that it runs, and whose row is the one it has read.
Live == {t \in Scheduled : model[t].enabled /\ row[t].pk = model[t].pk}

Beat    == IF pc = "down" THEN "down" ELSE "up"
Counted == [t \in Tasks |-> model[t].count]
Stored  == [t \in Tasks |-> row[t].count]

Book == INSTANCE Ledger WITH
  time <- now, beat <- Beat, live <- Live, sent <- sentAt, unsaved <- dirty,
  counted <- Counted, stored <- Stored

\* Beat keeps the books on its runs as Ledger promises it: tick(), sync() and
\* the reloads, in steps, send no task too soon, forget no run and leave none
\* unsaved (reserve(), sync(), _refresh_schedule(), the loop's finally clause).
KeepsLedger == Book!Spec
=============================================================================
