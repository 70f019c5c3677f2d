--------------------------- MODULE ChangeTracking ---------------------------
(***************************************************************************)
(* How a change made through the ORM reaches a running beat.               *)
(*                                                                         *)
(* Writers (web workers, shells, the admin) change the periodic-task and   *)
(* schedule tables and then stamp the single row of PeriodicTasks with the *)
(* current time.  Beat polls that row at every access of                   *)
(* DatabaseScheduler.schedule and reloads the tables when the stamp is     *)
(* newer than the one it remembers, or when SyncMax has passed since the   *)
(* last full reload.                                                       *)
(*                                                                         *)
(* The contents of a table are abstracted to a version number.  Writers    *)
(* never die holding the notice row: the database rolls them back.         *)
(***************************************************************************)
EXTENDS Integers, FiniteSets

CONSTANTS
  Writers,          \* processes that use the ORM, other than beat
  TaskTable,        \* the table of PeriodicTask
  ScheduleTables,   \* interval, crontab, solar and clocked schedules
  NoWriter,         \* the notice row is not locked
  SyncMax,          \* SCHEDULE_SYNC_MAX_INTERVAL
  Drift,            \* how far the clock of a writer's host may be ahead
  FallBack,         \* how far the local clock falls back when DST ends
  MaxTime,          \* bound: last instant of the clock
  MaxWrites,        \* bound: operations the writers begin
  MaxFaults         \* bound: errors and deaths of processes

Tables == {TaskTable} \cup ScheduleTables

ASSUME TablesAssumption == TaskTable \notin ScheduleTables
ASSUME WritersAssumption == NoWriter \notin Writers
ASSUME TimeAssumption == /\ SyncMax \in Nat \ {0}
                         /\ Drift \subseteq Nat
                         /\ FallBack \in Nat
ASSUME BoundsAssumption == /\ MaxTime \in Nat
                           /\ MaxWrites \in Nat
                           /\ MaxFaults \in Nat

VARIABLES
  clock,          \* true time
  shift,          \* how far the local clock of beat's host is behind it
  content,        \* content[t]: committed version of table t
  lastUpdate,     \* PeriodicTasks.last_update, 0 while the row is absent
  lock,           \* the open transaction that has updated the notice row
  wpc, op, table, stamp,   \* a writer's step, operation, table and now()
  bpc,            \* where beat is in the schedule property
  initialRead, lastTimestamp, lastFullSync,  \* DatabaseScheduler's fields
  currentTime,    \* the property's local variable
  toLoad, seen,   \* tables _refresh_schedule has still to read; what it read
  begun, faults,  \* counters for MaxWrites and MaxFaults
  staleSince, lastPoll, missed   \* history, read by the properties only

writerVars  == <<wpc, op, table, stamp>>
beatVars    == <<bpc, initialRead, lastTimestamp, lastFullSync, currentTime,
                 toLoad, seen>>
historyVars == <<staleSince, lastPoll, missed>>
vars == <<clock, shift, content, lastUpdate, lock, writerVars, beatVars,
          begun, faults, historyVars>>

-----------------------------------------------------------------------------
(* Derived state.                                                          *)

WallClock == clock - shift          \* datetime.now(), naive local time

Stale(t)    == content[t] # seen[t]
StaleTables == {t \in Tables : Stale(t)}

\* A writer has committed a change to t and has not yet posted the notice
\* that follows it.
Pending(t) == \E w \in Writers : wpc[w] \in {"written", "announce"} /\ table[w] = t

\* Beat holds a copy of t.
Loaded(t) == bpc # "down" /\ ~initialRead /\ t \notin toLoad

\* Beat is between two accesses of the property and has a schedule.
Running == bpc = "idle" /\ ~initialRead

-----------------------------------------------------------------------------
Init ==
  /\ clock = 1 /\ shift = 0
  /\ content = [t \in Tables |-> 0]
  /\ lastUpdate = 0
  /\ lock = NoWriter
  /\ wpc = [w \in Writers |-> "idle"]
  /\ op = [w \in Writers |-> "cascade"]
  /\ table = [w \in Writers |-> TaskTable]
  /\ stamp = [w \in Writers |-> 1]
  /\ bpc = "idle" /\ initialRead = TRUE
  /\ lastTimestamp = 0 /\ lastFullSync = 1 /\ currentTime = 1
  /\ toLoad = {}
  /\ seen = [t \in Tables |-> 0]
  /\ begun = 0 /\ faults = 0
  /\ staleSince = [t \in Tables |-> 0]
  /\ lastPoll = 1
  /\ missed = {}

Tick ==
  /\ clock < MaxTime
  /\ clock' = clock + 1
  /\ UNCHANGED <<shift, content, lastUpdate, lock, writerVars, beatVars,
                 begun, faults, historyVars>>

\* Daylight saving time ends, or begins, in the local zone of beat's host.
LocalClockShifts ==
  /\ shift' \in {0, FallBack} \ {shift}
  /\ UNCHANGED <<clock, content, lastUpdate, lock, writerVars, beatVars,
                 begun, faults, historyVars>>

Fault ==
  /\ faults < MaxFaults
  /\ faults' = faults + 1

-----------------------------------------------------------------------------
(* Writers.  update_changed() evaluates now() before update_or_create()    *)
(* takes the row, so that stamping and posting are two steps.              *)

\* Mutant: a stamp rounded down to the instant before.
TakeStampRoundedDown(w) == stamp' = [stamp EXCEPT ![w] = clock - 1]

TakeStamp(w) == \E d \in Drift : stamp' = [stamp EXCEPT ![w] = clock + d]

\* The notice row takes w's stamp.  A stamp that is not newer than the one
\* beat remembers hides every change that is stale at that moment.
Announce(w, stale) ==
  /\ lastUpdate' = stamp[w]
  /\ missed' = IF stamp[w] <= lastTimestamp THEN missed \cup stale ELSE missed

CommitContent(t) ==
  /\ content' = [content EXCEPT ![t] = @ + 1]
  /\ staleSince' = IF Stale(t) THEN staleSince
                   ELSE [staleSince EXCEPT ![t] = clock]

Begin(w) ==
  /\ wpc[w] = "idle"
  /\ begun < MaxWrites
  /\ begun' = begun + 1

\* PeriodicTask.save() outside a transaction: the pre_save handler stamps...
BeginSave(w) ==
  /\ Begin(w)
  /\ TakeStamp(w)
  /\ wpc' = [wpc EXCEPT ![w] = "pre"]
  /\ table' = [table EXCEPT ![w] = TaskTable]
  /\ UNCHANGED <<clock, shift, content, lastUpdate, lock, op, beatVars,
                 faults, historyVars>>

\* ... and posts before the row is written.
PreSavePost(w) ==
  /\ wpc[w] = "pre"
  /\ lock = NoWriter
  /\ Announce(w, StaleTables)
  /\ wpc' = [wpc EXCEPT ![w] = "row"]
  /\ UNCHANGED <<clock, shift, content, lock, op, table, stamp, beatVars,
                 begun, faults, staleSince, lastPoll>>

\* The save of a schedule (its handler is post_save), or a QuerySet.update()
\* of the admin's actions: the rows are written first.
BeginUpdate(w, t) ==
  /\ Begin(w)
  /\ wpc' = [wpc EXCEPT ![w] = "row"]
  /\ table' = [table EXCEPT ![w] = t]
  /\ UNCHANGED <<clock, shift, content, lastUpdate, lock, op, stamp, beatVars,
                 faults, historyVars>>

\* Mutant: save() leaves the notice to the pre_save handler.
WriteRowSilently(w) ==
  /\ wpc[w] = "row"
  /\ CommitContent(table[w])
  /\ wpc' = [wpc EXCEPT ![w] = "idle"]
  /\ UNCHANGED <<clock, shift, lastUpdate, lock, op, table, stamp, beatVars,
                 begun, faults, lastPoll, missed>>

WriteRow(w) ==
  /\ wpc[w] = "row"
  /\ CommitContent(table[w])
  /\ wpc' = [wpc EXCEPT ![w] = "written"]
  /\ UNCHANGED <<clock, shift, lastUpdate, lock, op, table, stamp, beatVars,
                 begun, faults, lastPoll, missed>>

\* update_changed() after the write: now() ...
StampWrite(w) ==
  /\ wpc[w] = "written"
  /\ TakeStamp(w)
  /\ wpc' = [wpc EXCEPT ![w] = "announce"]
  /\ UNCHANGED <<clock, shift, content, lastUpdate, lock, op, table, beatVars,
                 begun, faults, historyVars>>

\* ... then update_or_create(), which waits for the row's lock.
Post(w) ==
  /\ wpc[w] = "announce"
  /\ lock = NoWriter
  /\ Announce(w, StaleTables)
  /\ wpc' = [wpc EXCEPT ![w] = "idle"]
  /\ UNCHANGED <<clock, shift, content, lock, op, table, stamp, beatVars,
                 begun, faults, staleSince, lastPoll>>

\* A change inside a transaction: "save" is PeriodicTask.save() under an
\* outer atomic() (the admin's forms), which stamps before and after the
\* row; "cascade" is a deletion by a queryset or through a schedule, or a
\* schedule saved under an outer atomic(), which stamps once; "delete" is
\* PeriodicTask.delete(), whose own transaction ends before it stamps again.
BeginTransaction(w, o, t) ==
  /\ Begin(w)
  /\ o \in {"save", "delete"} => t = TaskTable
  /\ TakeStamp(w)
  /\ wpc' = [wpc EXCEPT ![w] = "txStamped"]
  /\ op' = [op EXCEPT ![w] = o]
  /\ table' = [table EXCEPT ![w] = t]
  /\ UNCHANGED <<clock, shift, content, lastUpdate, lock, beatVars,
                 faults, historyVars>>

TakeLock(w) ==
  /\ wpc[w] = "txStamped"
  /\ lock = NoWriter
  /\ lock' = w
  /\ wpc' = [wpc EXCEPT ![w] = "txHeld"]
  /\ UNCHANGED <<clock, shift, content, lastUpdate, op, table, stamp, beatVars,
                 begun, faults, historyVars>>

\* Mutant: the notice after the row posts the stamp taken before it.
ReuseStampInTransaction(w) ==
  /\ wpc[w] = "txHeld" /\ op[w] = "save"
  /\ wpc' = [wpc EXCEPT ![w] = "txFinal"]
  /\ UNCHANGED <<clock, shift, content, lastUpdate, lock, op, table, stamp,
                 beatVars, begun, faults, historyVars>>

StampInTransaction(w) ==
  /\ wpc[w] = "txHeld" /\ op[w] = "save"
  /\ TakeStamp(w)
  /\ wpc' = [wpc EXCEPT ![w] = "txFinal"]
  /\ UNCHANGED <<clock, shift, content, lastUpdate, lock, op, table, beatVars,
                 begun, faults, historyVars>>

Commit(w) ==
  /\ \/ wpc[w] = "txHeld" /\ op[w] # "save"
     \/ wpc[w] = "txFinal"
  /\ CommitContent(table[w])
  /\ Announce(w, StaleTables \cup {table[w]})
  /\ lock' = NoWriter
  /\ wpc' = [wpc EXCEPT ![w] = IF op[w] = "delete" THEN "written" ELSE "idle"]
  /\ UNCHANGED <<clock, shift, op, table, stamp, beatVars, begun, faults, lastPoll>>

\* The writer raises or its process is killed.  An open transaction is
\* rolled back; a row already committed is never announced.
WriterDies(w) ==
  /\ wpc[w] # "idle"
  /\ Fault
  /\ wpc' = [wpc EXCEPT ![w] = "idle"]
  /\ lock' = IF lock = w THEN NoWriter ELSE lock
  /\ missed' = IF wpc[w] \in {"written", "announce"}
               THEN missed \cup {table[w]} ELSE missed
  /\ UNCHANGED <<clock, shift, content, lastUpdate, op, table, stamp, beatVars,
                 begun, staleSince, lastPoll>>

-----------------------------------------------------------------------------
(* Beat: one access of the property DatabaseScheduler.schedule.            *)

\* The first access loads everything and does not look at the notice row.
InitialRead ==
  /\ bpc = "idle" /\ initialRead
  /\ initialRead' = FALSE
  /\ currentTime' = WallClock
  /\ lastFullSync' = WallClock
  /\ lastPoll' = clock
  /\ bpc' = "load"
  /\ toLoad' = Tables
  /\ UNCHANGED <<clock, shift, content, lastUpdate, lock, writerVars,
                 lastTimestamp, seen, begun, faults, staleSince, missed>>

Access ==
  /\ Running
  /\ currentTime' = WallClock
  /\ lastPoll' = clock
  /\ bpc' = "poll"
  /\ UNCHANGED <<clock, shift, content, lastUpdate, lock, writerVars,
                 initialRead, lastTimestamp, lastFullSync, toLoad, seen,
                 begun, faults, staleSince, missed>>

\* Mutant: the forced reload waits for more than SyncMax.
DecideLate(changed) ==
  IF changed \/ currentTime - lastFullSync > SyncMax
  THEN /\ lastFullSync' = currentTime
       /\ bpc' = "load"
       /\ toLoad' = Tables
  ELSE /\ bpc' = "idle"
       /\ UNCHANGED <<lastFullSync, toLoad>>

\* The rest of the property, given what schedule_changed() returned.
Decide(changed) ==
  IF changed \/ currentTime - lastFullSync >= SyncMax
  THEN /\ lastFullSync' = currentTime
       /\ bpc' = "load"
       /\ toLoad' = Tables
  ELSE /\ bpc' = "idle"
       /\ UNCHANGED <<lastFullSync, toLoad>>

\* schedule_changed(): with nothing remembered there is nothing to compare,
\* and what is stale then stays so.
Poll ==
  /\ bpc = "poll"
  /\ lastTimestamp' = lastUpdate
  /\ Decide(lastTimestamp # 0 /\ lastUpdate > lastTimestamp)
  /\ missed' = IF lastTimestamp = 0 THEN missed \cup StaleTables ELSE missed
  /\ UNCHANGED <<clock, shift, content, lastUpdate, lock, writerVars,
                 initialRead, currentTime, seen, begun, faults, staleSince,
                 lastPoll>>

\* DatabaseError and InterfaceError are logged; nothing is remembered.
PollError ==
  /\ bpc = "poll"
  /\ Fault
  /\ Decide(FALSE)
  /\ UNCHANGED <<clock, shift, content, lastUpdate, lock, writerVars,
                 initialRead, lastTimestamp, currentTime, seen, begun,
                 historyVars>>

\* Mutant: the stamp is remembered when the tables have been read.
LoadTableThenRemember(t) ==
  /\ bpc = "load" /\ t \in toLoad
  /\ TaskTable \in toLoad => t = TaskTable
  /\ seen' = [seen EXCEPT ![t] = content[t]]
  /\ toLoad' = toLoad \ {t}
  /\ bpc' = IF toLoad' = {} THEN "idle" ELSE "load"
  /\ lastTimestamp' = IF toLoad' = {} THEN lastUpdate ELSE lastTimestamp
  /\ missed' = missed \ {t}
  /\ UNCHANGED <<clock, shift, content, lastUpdate, lock, writerVars,
                 initialRead, lastFullSync, currentTime, begun, faults,
                 staleSince, lastPoll>>

\* all_as_schedule(): the query of the enabled tasks, then the prefetches.
LoadTable(t) ==
  /\ bpc = "load" /\ t \in toLoad
  /\ TaskTable \in toLoad => t = TaskTable
  /\ seen' = [seen EXCEPT ![t] = content[t]]
  /\ toLoad' = toLoad \ {t}
  /\ bpc' = IF toLoad' = {} THEN "idle" ELSE "load"
  /\ missed' = missed \ {t}
  /\ UNCHANGED <<clock, shift, content, lastUpdate, lock, writerVars,
                 initialRead, lastTimestamp, lastFullSync, currentTime, begun,
                 faults, staleSince, lastPoll>>

\* A kill, or an error while the tables are read, which nothing catches.
BeatDies ==
  /\ bpc # "down"
  /\ Fault
  /\ bpc' = "down"
  /\ UNCHANGED <<clock, shift, content, lastUpdate, lock, writerVars,
                 initialRead, lastTimestamp, lastFullSync, currentTime, toLoad,
                 seen, begun, historyVars>>

\* A new DatabaseScheduler: the class attributes.
Restart ==
  /\ bpc = "down"
  /\ bpc' = "idle"
  /\ initialRead' = TRUE
  /\ lastTimestamp' = 0
  /\ toLoad' = {}
  /\ UNCHANGED <<clock, shift, content, lastUpdate, lock, writerVars,
                 lastFullSync, currentTime, seen, begun, faults, historyVars>>

-----------------------------------------------------------------------------
WriterStep(w) ==
  \/ PreSavePost(w) \/ WriteRow(w) \/ StampWrite(w) \/ Post(w)
  \/ TakeLock(w) \/ StampInTransaction(w) \/ Commit(w)

WriterBegins(w) ==
  \/ BeginSave(w)
  \/ \E t \in Tables : BeginUpdate(w, t)
  \/ \E o \in {"save", "cascade", "delete"}, t \in Tables : BeginTransaction(w, o, t)

BeatStep ==
  \/ InitialRead \/ Access \/ Poll \/ Restart
  \/ \E t \in Tables : LoadTable(t)

Next ==
  \/ Tick \/ LocalClockShifts
  \/ \E w \in Writers : WriterBegins(w) \/ WriterStep(w) \/ WriterDies(w)
  \/ BeatStep \/ PollError \/ BeatDies

Spec == Init /\ [][Next]_vars

\* Beat's loop wakes up at least every max_interval, and a writer that has
\* begun goes on unless it dies; deaths and errors are finitely many.
Fairness == /\ WF_vars(BeatStep)
            /\ \A w \in Writers : WF_vars(WriterStep(w))

FairSpec == Spec /\ Fairness

-----------------------------------------------------------------------------
WriterSteps == {"idle", "pre", "row", "written", "announce",
                "txStamped", "txHeld", "txFinal"}

\* The types of the variables.
TypeOK ==
  /\ clock \in Nat \ {0} /\ shift \in {0, FallBack}
  /\ content \in [Tables -> Nat]
  /\ lastUpdate \in Nat
  /\ lock \in Writers \cup {NoWriter}
  /\ wpc \in [Writers -> WriterSteps]
  /\ op \in [Writers -> {"save", "cascade", "delete"}]
  /\ table \in [Writers -> Tables]
  /\ stamp \in [Writers -> Nat \ {0}]
  /\ bpc \in {"idle", "poll", "load", "down"}
  /\ initialRead \in BOOLEAN
  /\ lastTimestamp \in Nat
  /\ lastFullSync \in Int /\ currentTime \in Int
  /\ toLoad \subseteq Tables
  /\ seen \in [Tables -> Nat]
  /\ begun \in Nat /\ faults \in Nat
  /\ staleSince \in [Tables -> Nat] /\ lastPoll \in Nat
  /\ missed \subseteq Tables

\* A table that beat holds an old copy of has its notice still to be read,
\* still to be posted, or lost in one of three ways: the stamp was not newer
\* than the one beat remembered, beat had no stamp to compare with, or the
\* writer died after its commit.  In particular no change slips in between
\* the poll and the reading of the tables.
NoOtherLoss ==
  \A t \in Tables : Loaded(t) /\ Stale(t) =>
    \/ lastTimestamp = 0 \/ lastUpdate > lastTimestamp
    \/ Pending(t)
    \/ t \in missed

\* Whatever is lost, the forced reload bounds the age of what beat missed:
\* when an access has ended, no table has been stale for SyncMax at the time
\* the access began, give or take the hour the local clock went back.
StalenessBound ==
  \A t \in Tables : Running /\ Stale(t) =>
    lastPoll - staleSince[t] < SyncMax + FallBack

\* A save inside a transaction takes its last stamp while it holds the notice
\* row: until it ends, the row moves to a newer stamp or not at all, whatever
\* the other writers do.  (A stamp taken before the row is locked has no such
\* guarantee: two writers can post in the other order.)
AtomicSaveNeverRegresses ==
  [][\A w \in Writers :
       wpc[w] = "txFinal" /\ lastUpdate' # lastUpdate => lastUpdate' > lastUpdate]_vars

\* A change whose notice is not lost is loaded in the end.
ChangeIsLoaded ==
  \A t \in Tables :
    (Stale(t) /\ t \notin missed) ~> (~Stale(t) \/ t \in missed)

\* The tables beat holds, and those it is yet to hear of a change in.
Held == {t \in Tables : Loaded(t)}
Owed == {t \in Tables : lastTimestamp = 0 \/ lastUpdate > lastTimestamp \/ Pending(t)}

Copy == INSTANCE Mirror WITH copy <- seen, held <- Held, owed <- Owed, lost <- missed

\* What beat loads is a copy of the tables as Mirror promises it: the stamps,
\* the notice row, the poll and the reload in steps (PeriodicTasks,
\* schedule_changed, all_as_schedule) account for every difference, and no
\* copy changes but by a reload.
MirrorsTables == Copy!Spec
=============================================================================
