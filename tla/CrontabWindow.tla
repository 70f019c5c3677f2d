---------------------------- MODULE CrontabWindow ----------------------------
(***************************************************************************)
(* enabled_models_qs() leaves out the crontab tasks whose hour is far from *)
(* the hour of the server, to load fewer rows.  A task left out is not     *)
(* sent, so that each reload must hold every task that comes due before    *)
(* the next one has been made.                                             *)
(*                                                                         *)
(* Time and offsets from UTC are in slots of five minutes, the interval of *)
(* the forced reload.  A zone has two offsets, since the code measures it  *)
(* on a fixed day of January: jan, and today, the one in force.            *)
(***************************************************************************)
EXTENDS Integers

CONSTANTS
  ServerZones,     \* settings.TIME_ZONE, or UTC when USE_TZ is set
  TaskZones,       \* CrontabSchedule.timezone
  Crontabs,        \* hours and minute it stands for; plain: hour is one number
  FirstSlot,       \* the slot beat starts in
  LastSlot         \* bound: last slot of the clock

SlotsPerHour == 12
SyncMax == 1       \* SCHEDULE_SYNC_MAX_INTERVAL
ZoneType == [jan : -144..168, today : -144..168]
CrontabType == [hours : SUBSET (0..23), minute : 0..(SlotsPerHour - 1),
                plain : BOOLEAN]

ASSUME ZonesAssumption == ServerZones \subseteq ZoneType /\ TaskZones \subseteq ZoneType
ASSUME CrontabsAssumption ==
  /\ Crontabs \subseteq CrontabType
  /\ \A c \in Crontabs : c.plain => \E h \in 0..23 : c.hours = {h}
ASSUME TimeAssumption ==
  FirstSlot \in Nat /\ FirstSlot >= 24 * SlotsPerHour /\ LastSlot \in Nat

\* What the window of two hours has room for: a server that is less than 25
\* hours west of the task; clocks that are an hour or less from those of
\* January, in either zone; and if the zones are not whole hours apart,
\* clocks that do not move apart by two hours.
ASSUME NearAssumption ==
  \A srv \in ServerZones, z \in TaskZones :
    LET gap   == srv.jan - z.jan
        shift == srv.today - z.today - gap
    IN /\ gap > -25 * SlotsPerHour
       /\ shift \in -24..24
       /\ gap % SlotsPerHour # 0 => IF gap > 0 THEN shift <= 12 ELSE shift >= -12

VARIABLES
  server, zone, crontab,  \* the zone of the server; the task
  now,                    \* slots of UTC
  loaded,                 \* the task is in _schedule
  lastFullSync,
  dueSince                \* the slot of a run that has not been sent, or 0

vars == <<server, zone, crontab, now, loaded, lastFullSync, dueSince>>

-----------------------------------------------------------------------------
\* int() rounds towards zero, and so does the remainder of SQL.
Truncated(n, d) == IF n >= 0 THEN n \div d ELSE -((-n) \div d)
Remainder(n, d) == n - d * Truncated(n, d)

HourIn(z, slot) == ((slot + z.today) \div SlotsPerHour) % 24
MinuteIn(z, slot) == (slot + z.today) % SlotsPerHour

\* _get_timezone_offset()
OffsetHours == Truncated(server.jan - zone.jan, SlotsPerHour)

\* The annotation server_hour of a task whose hour is h.
ServerHour(h) == Remainder(h + OffsetHours + 24, 24)

\* Mutant: one hour on each side.
NarrowHoursToInclude == {(HourIn(server, now) + d) % 24 : d \in -1..1} \cup {4}

\* Two hours on each side, and the hour of celery.backend_cleanup.
HoursToInclude == {(HourIn(server, now) + d) % 24 : d \in -2..2} \cup {4}

\* _get_crontab_exclude_query(): an hour that is not a plain number is never
\* looked at.
Excluded == crontab.plain /\ \A h \in crontab.hours : ServerHour(h) \notin HoursToInclude

\* crontab.is_due(), of celery: the task's time has come in its own zone.
Matches(slot) == /\ HourIn(zone, slot) \in crontab.hours
                 /\ MinuteIn(zone, slot) = crontab.minute

-----------------------------------------------------------------------------
Init ==
  /\ server \in ServerZones /\ zone \in TaskZones /\ crontab \in Crontabs
  /\ now = FirstSlot
  /\ loaded = ~Excluded
  /\ lastFullSync = FirstSlot
  /\ dueSince = 0

\* Mutant: nothing forces a reload.
TickWithoutReload ==
  /\ now < LastSlot
  /\ now' = now + 1
  /\ dueSince' = IF dueSince = 0 /\ Matches(now') /\ ~loaded THEN now' ELSE dueSince
  /\ UNCHANGED <<server, zone, crontab, loaded, lastFullSync>>

\* Five minutes pass, unless that is too long for the schedule that is loaded. 
\* A task that beat holds is sent when its time comes.
Tick ==
  /\ now < LastSlot
  /\ now - lastFullSync < SyncMax
  /\ now' = now + 1
  /\ dueSince' = IF dueSince = 0 /\ Matches(now') /\ ~loaded THEN now' ELSE dueSince
  /\ UNCHANGED <<server, zone, crontab, loaded, lastFullSync>>

\* A reload, forced or not: a task that appears is sent when it is overdue.
Reload ==
  /\ loaded' = ~Excluded
  /\ dueSince' = IF loaded' THEN 0 ELSE dueSince
  /\ lastFullSync' = now
  /\ UNCHANGED <<server, zone, crontab, now>>

Next == Tick \/ Reload

Spec == Init /\ [][Next]_vars

-----------------------------------------------------------------------------
\* The types of the variables, and that the loaded schedule is never older
\* than SyncMax.
TypeOK ==
  /\ server \in ServerZones /\ zone \in TaskZones /\ crontab \in Crontabs
  /\ now \in Nat /\ loaded \in BOOLEAN
  /\ lastFullSync \in (now - SyncMax)..now
  /\ dueSince \in 0..now

\* A crontab task is sent at its time, or at the first reload after it: two
\* hours on each side make up for daylight saving time in either zone, for
\* offsets that are not whole hours and for the age of the loaded schedule.
SentInTime == dueSince = 0 \/ lastFullSync < dueSince
=============================================================================
