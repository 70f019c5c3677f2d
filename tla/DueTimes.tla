------------------------------ MODULE DueTimes ------------------------------
(***************************************************************************)
(* The datetimes a task's due time is computed from.  Django stores them   *)
(* aware, or naive in the local zone where USE_TZ is off; a run is stamped *)
(* with an aware time, or a naive one of UTC where DJANGO_CELERY_BEAT_     *)
(* TZ_AWARE is off; and celery takes every naive datetime for UTC.  The    *)
(* two settings go together here.                                          *)
(*                                                                         *)
(* One task, and a beat that is punctual: it looks at a notice, and wakes  *)
(* up for its heap, before the clock moves on.  Whether it does, and which *)
(* runs are saved, are the subjects of the other modules.                  *)
(*                                                                         *)
(* An aware datetime is an instant, a naive one what a clock on the wall   *)
(* shows.  The local zone changes its offset once, at ChangeAt.            *)
(***************************************************************************)
EXTENDS Integers

CONSTANTS
  Zones,       \* settings.TIME_ZONE: its offset before and after ChangeAt
  ChangeAt,
  Schedules,   \* of the kinds below
  Starts,      \* start_time, an instant, or NoStart
  NoStart,
  Day,         \* instants in a day
  SyncMax,     \* SCHEDULE_SYNC_MAX_INTERVAL
  LongBack,    \* thirty years
  Never,       \* NEVER_CHECK_TIMEOUT
  MaxTime,     \* bound: last instant of the clock
  MaxChanges   \* bound: changes of the client

ZoneType == [before : Int, after : Int]
ScheduleType ==
  [kind : {"interval"}, every : Nat \ {0}]
  \cup [kind : {"crontab"}, hours : SUBSET (0..(Day - 1)), offset : Int]
  \cup [kind : {"clocked"}, time : Int]

ASSUME ZonesAssumption == Zones \subseteq ZoneType /\ ChangeAt \in Int
ASSUME SchedulesAssumption ==
  /\ Schedules \subseteq ScheduleType
  /\ \A sched \in Schedules : sched.kind = "crontab" => sched.hours # {}
  /\ \A sched \in Schedules : sched.kind = "interval" => sched.every <= LongBack
  /\ Starts \subseteq Int \cup {NoStart}
ASSUME TimeAssumption == /\ Day \in Nat \ {0} /\ SyncMax \in Nat \ {0}
                         /\ LongBack \in Nat /\ Day <= LongBack
                         /\ Never \in Nat \ {0}
ASSUME BoundsAssumption == MaxTime \in Nat /\ MaxChanges \in Nat

VARIABLES
  useTz,       \* USE_TZ and DJANGO_CELERY_BEAT_TZ_AWARE
  zone, sched, start,          \* the settings' zone; the task
  now,
  enabled, changed, lastRun,   \* the row: date_changed, last_run_at,
  ran,                         \* total_run_count > 0
  notice,      \* a change that beat has not looked at
  held,        \* the task is in _schedule
  entryRun,    \* entry.last_run_at
  wake,        \* when beat looks at the head of its heap
  lastSync,    \* _last_full_sync
  changes,     \* counter for MaxChanges
  since        \* history: the last run, or the change that counts as one

taskVars == <<useTz, zone, sched, start>>
rowVars  == <<enabled, changed, lastRun, ran>>
beatVars == <<held, entryRun, wake, lastSync>>
vars == <<taskVars, now, rowVars, notice, beatVars, changes, since>>

-----------------------------------------------------------------------------
(* Datetimes.                                                              *)

Aware(t) == [aware |-> TRUE, at |-> t]
Naive(w) == [aware |-> FALSE, at |-> w]

\* The null of a column: a field sets it apart from every datetime.
None == [aware |-> FALSE, at |-> 0, null |-> TRUE]

Local(t) == t + (IF t < ChangeAt THEN zone.before ELSE zone.after)

\* The instant of a local time, the first of the two where an hour repeats.
FromLocal(w) == w - (IF w - zone.before < ChangeAt THEN zone.before ELSE zone.after)

\* timezone.now(): auto_now, and now() of utils.
Now == IF useTz THEN Aware(now) ELSE Naive(Local(now))

\* _default_now(): where it is naive, it is UTC.
DefaultNow == IF useTz THEN Aware(now) ELSE Naive(now)

\* make_aware() takes a naive datetime for UTC under USE_TZ, else for local.
MakeAware(d) ==
  CASE d.aware             -> d
    [] ~d.aware /\ useTz   -> Aware(d.at)
    [] ~d.aware /\ ~useTz  -> Aware(FromLocal(d.at))

\* maybe_make_aware(), of celery, takes it for UTC.
MaybeMakeAware(d) == Aware(d.at)

\* What a form stores for an instant that the user writes in local time.
Stored(t) == IF useTz THEN Aware(t) ELSE Naive(Local(t))

Plus(d, n) == [d EXCEPT !.at = @ + n]

-----------------------------------------------------------------------------
(* Schedules.                                                              *)

\* remaining_delta() of a crontab matches in the zone of the datetime it gets.
MatchesIn(offset, t) == (t + offset) % Day \in sched.hours

NextMatchIn(offset, t) ==
  CHOOSE m \in (t + 1)..(t + Day) :
    MatchesIn(offset, m) /\ \A k \in (t + 1)..(m - 1) : ~MatchesIn(offset, k)

\* TzAwareCrontab.is_due() turns to the zone of the crontab; the crontab it
\* replaces stays in that of the app, UTC here.
Offset       == IF useTz THEN sched.offset ELSE 0
Matches(t)   == MatchesIn(Offset, t)
NextMatch(t) == NextMatchIn(Offset, t)

Verdict(due, next) == [due |-> due, next |-> next]

\* is_due() of the three schedules, given the instant of the last run.
IntervalIsDue(last) ==
  IF last + sched.every <= now THEN Verdict(TRUE, sched.every)
  ELSE Verdict(FALSE, last + sched.every - now)

CrontabIsDue(last) == Verdict(NextMatch(last) <= now, NextMatch(now) - now)

\* A clocked schedule does not look at the last run.
ClockedIsDue ==
  LET time == MaybeMakeAware(Stored(sched.time)).at
  IN IF time <= now THEN Verdict(TRUE, Never) ELSE Verdict(FALSE, time - now)

ScheduleIsDue(last) ==
  CASE sched.kind = "interval" -> IntervalIsDue(last)
    [] sched.kind = "crontab"  -> CrontabIsDue(last)
    [] sched.kind = "clocked"  -> ClockedIsDue

\* due_start_time(): for a crontab, the first match after start_time.  is_due()
\* hands it the zone of the app, and nothing turns to that of the crontab.
DueStartTime == IF sched.kind = "crontab" THEN NextMatchIn(0, start) ELSE start

Unstarted == start # NoStart /\ DefaultNow.at < Stored(start).at

\* Mutant: start_time is ignored.
IsDueUnstarted(run) == ScheduleIsDue(MaybeMakeAware(run).at)

\* ModelEntry.is_due(), of an enabled task.  The branch on expires is in
\* DatabaseScheduler, the one that ends a one-off task in Reload.
IsDue(run) ==
  IF Unstarted THEN Verdict(FALSE, DueStartTime - DefaultNow.at)
  ELSE ScheduleIsDue(MaybeMakeAware(run).at)

-----------------------------------------------------------------------------
\* Mutant: a task that has not run has no last run.
FreshRunUnset == lastRun

\* Mutant: date_changed is taken as it is stored.
FreshRunAsStored ==
  IF lastRun # None THEN lastRun
  ELSE Plus(changed, IF start # NoStart THEN -LongBack ELSE 0)

\* ModelEntry.__init__(): a task that has not run counts from date_changed,
\* which is turned from naive local time to naive UTC; and one with a start
\* from long ago, so that it runs when it starts.
FreshRun ==
  IF lastRun # None THEN lastRun
  ELSE LET counted == IF useTz THEN changed ELSE Naive(MakeAware(changed).at)
       IN Plus(counted, IF start # NoStart THEN -LongBack ELSE 0)

\* Mutant: a clocked task is loaded when its time has come.
SelectedWhenDue ==
  enabled /\ (sched.kind = "clocked" => Stored(sched.time).at <= Now.at)

\* enabled_models_qs(), but for the hours of crontabs: a clocked task whose
\* time comes after the next forced reload is left out.
Selected ==
  enabled /\ (sched.kind = "clocked" => Stored(sched.time).at <= Plus(Now, SyncMax).at)

\* A start_time without USE_TZ is left out: it is compared with naive UTC.
Init ==
  /\ useTz \in BOOLEAN /\ zone \in Zones /\ sched \in Schedules /\ start \in Starts
  /\ start # NoStart => useTz
  /\ now = 0
  /\ enabled = TRUE /\ changed = Now /\ lastRun = None /\ ran = FALSE
  /\ notice = TRUE
  /\ held = FALSE /\ entryRun = Now /\ wake = 0 /\ lastSync = 0
  /\ changes = 0 /\ since = 0

\* The heap is looked at before the clock moves on, and so is the notice;
\* nor is the schedule older than SyncMax.
Tick ==
  /\ now < MaxTime
  /\ ~notice /\ ~(held /\ wake <= now) /\ now - lastSync < SyncMax
  /\ now' = now + 1
  /\ UNCHANGED <<taskVars, rowVars, notice, beatVars, changes, since>>

\* A client saves the task as it is, disabled, or enabled.
Change(on) ==
  /\ changes < MaxChanges
  /\ changes' = changes + 1
  /\ enabled' = on
  /\ changed' = Now
  /\ lastRun' = IF on THEN lastRun ELSE None
  /\ since' = IF on /\ lastRun # None THEN since ELSE now
  /\ notice' = TRUE
  /\ UNCHANGED <<taskVars, now, ran, beatVars>>

\* A clocked task is one-off.
Finished == sched.kind = "clocked" /\ ran

\* A reload, for the notice of this task or of another one, or forced; the
\* heap is filled with the times that is_due() returns, which disables a
\* one-off task that has run, and so leaves a notice.
Reload ==
  /\ held' = Selected
  /\ entryRun' = FreshRun
  /\ lastSync' = now
  /\ IF Selected /\ Finished
     THEN /\ enabled' = FALSE /\ ran' = FALSE /\ lastRun' = None /\ changed' = Now
          /\ notice' = TRUE
          /\ wake' = now + Never
     ELSE /\ notice' = FALSE
          /\ wake' = IF IsDue(FreshRun).due THEN now ELSE now + IsDue(FreshRun).next
          /\ UNCHANGED rowVars
  /\ UNCHANGED <<taskVars, now, changes, since>>

\* The head of the heap is looked at: the task is sent, and its run saved,
\* or beat sleeps until it is due.
Check ==
  /\ held /\ wake <= now /\ ~notice
  /\ wake' = now + IsDue(entryRun).next
  /\ IF IsDue(entryRun).due
     THEN entryRun' = DefaultNow /\ lastRun' = DefaultNow /\ ran' = TRUE /\ since' = now
     ELSE UNCHANGED <<entryRun, lastRun, ran, since>>
  /\ UNCHANGED <<taskVars, now, enabled, changed, notice, held, lastSync, changes>>

Next == Tick \/ (\E on \in BOOLEAN : Change(on)) \/ Reload \/ Check

Spec == Init /\ [][Next]_vars

-----------------------------------------------------------------------------
(* Properties.                                                             *)

Datetime == [aware : BOOLEAN, at : Int]

\* The type of every variable: an entry always has a last run to count from.
TypeOK ==
  /\ useTz \in BOOLEAN /\ zone \in ZoneType /\ sched \in ScheduleType
  /\ start \in Int \cup {NoStart}
  /\ now \in 0..MaxTime
  /\ enabled \in BOOLEAN /\ ran \in BOOLEAN
  /\ changed \in Datetime /\ lastRun \in Datetime \cup {None}
  /\ notice \in BOOLEAN /\ held \in BOOLEAN
  /\ entryRun \in Datetime /\ wake \in Int
  /\ lastSync \in 0..now
  /\ changes \in 0..MaxChanges /\ since \in 0..now

\* The hour of local time that comes twice, which only a naive date_changed
\* cannot tell apart.
Repeat == IF useTz \/ zone.before <= zone.after THEN 0 ELSE zone.before - zone.after

\* Whatever TIME_ZONE is, celery reads in an entry of the schedule the instant
\* of the last run, or of the change a task without one counts from: the two
\* clocks that naive datetimes are written by never mix (ModelEntry.__init__,
\* is_due).  A change in the hour that repeats may be read as one in the first.
LastRunReadRight ==
  held /\ ~notice /\ start = NoStart =>
    MaybeMakeAware(entryRun).at \in {since, since - Repeat}

Later(a, b) == IF a < b THEN b ELSE a

\* The time a clocked task is read to be due at is right under USE_TZ only.
TimeReadRight == sched.kind = "clocked" => useTz

\* Where a crontab task matches next: before its first run, one with a start_time
\* has due_start_time() look for the match in the zone of the app.
NextOffset == IF start # NoStart /\ lastRun = None THEN 0 ELSE Offset

\* The last instant that is not too late for the next run is t or after it: what
\* an enabled task counts from is its last run, a change, or its start.
InTime(t) ==
  LET from == IF start = NoStart THEN since ELSE Later(since, start) IN
    CASE sched.kind = "interval" ->
           t <= IF start = NoStart \/ lastRun # None THEN since + sched.every ELSE from
      [] sched.kind = "crontab" ->
           \A m \in (from + 1)..(t - 1) : ~MatchesIn(NextOffset, m)
      [] sched.kind = "clocked" -> ran \/ t <= Later(from, sched.time)

\* An enabled task is sent when it is due, though its schedule is selected,
\* loaded and put to sleep for by times worked out in three places
\* (enabled_models_qs, is_due, due_start_time).
NotLate == enabled /\ ~notice /\ TimeReadRight => InTime(now)

Sent == lastRun' # lastRun /\ lastRun' # None

\* No task is sent before its time: not before its start_time, and not before
\* its schedule comes round after the last run, or after the change it counts
\* from; a reload that builds the entry again brings nothing forward.
SentWhenDue ==
  [][Sent /\ TimeReadRight =>
       /\ start # NoStart => start <= now
       /\ start = NoStart \/ lastRun # None =>
            CASE sched.kind = "interval" -> since - Repeat + sched.every <= now
              [] sched.kind = "crontab" -> \E m \in (since - Repeat + 1)..now : Matches(m)
              [] sched.kind = "clocked" -> sched.time <= now]_vars

\* "expected_delay = 2 * delay_minutes * 60" (t/unit/test_schedulers.py:1220):
\* a crontab task with a start_time first runs at the first match after it.
StartWaitsForMatch ==
  [][Sent /\ start # NoStart /\ sched.kind = "crontab" =>
       \E m \in start..now : Matches(m)]_vars
=============================================================================
