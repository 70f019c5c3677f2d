--------------------------- MODULE DueTimesProofs ---------------------------
(***************************************************************************)
(* Proofs about DueTimes, for all zones, schedules and start times, and    *)
(* any number of changes, runs and reloads.                                *)
(***************************************************************************)
EXTENDS DueTimes, FiniteSetTheorems, WellFoundedInduction, TLAPS

\* The types that the times read from the row depend on.
TimesOK ==
  /\ now \in Nat /\ since \in Int /\ since <= now /\ zone \in ZoneType
  /\ sched \in Schedules /\ start \in Starts
  /\ start # NoStart => useTz

\* A row says, in one of its two ways, what its task counts from.
RowReads ==
  /\ enabled => IF lastRun # None THEN lastRun.at = since ELSE changed = Stored(since)
  /\ ~enabled => lastRun = None

\* The entry of a schedule with no notice about was made from the row as it
\* is, and the row is enabled.
EntryReads ==
  held /\ ~notice =>
    /\ enabled
    /\ IF start = NoStart \/ lastRun # None
       THEN entryRun.at \in {since, since - Repeat}
       ELSE entryRun.at = since - LongBack

IInv == TimesOK /\ RowReads /\ EntryReads

-----------------------------------------------------------------------------
\* A local time, read as such, is the instant it was written at, or in the
\* hour that comes twice the one before it.
LEMMA LocalTwice ==
  ASSUME zone \in ZoneType, NEW t \in Int, ~useTz
  PROVE  FromLocal(Local(t)) \in {t, t - Repeat}
<1>1. zone.before \in Int /\ zone.after \in Int /\ ChangeAt \in Int
  BY ZonesAssumption DEF ZoneType
<1>2. QED
  BY <1>1 DEF FromLocal, Local, Repeat

\* What __init__() makes of a row.
LEMMA FreshRunReads ==
  ASSUME TimesOK, RowReads, enabled
  PROVE  IF start = NoStart \/ lastRun # None
         THEN FreshRun.at \in {since, since - Repeat}
         ELSE FreshRun.at = since - LongBack
<1>1. CASE lastRun # None
  BY <1>1 DEF RowReads, FreshRun
<1>2. CASE lastRun = None /\ useTz /\ start = NoStart
  <2>1. changed = Aware(since)
    BY <1>2 DEF RowReads, Stored
  <2>2. FreshRun = Plus(changed, 0)
    BY <1>2 DEF FreshRun
  <2>3. FreshRun.at = since + 0
    BY <2>1, <2>2 DEF Plus, Aware
  <2>4. QED
    BY <1>2, <2>3 DEF TimesOK
<1>3. CASE lastRun = None /\ ~useTz /\ start = NoStart
  <2>1. changed = Naive(Local(since))
    BY <1>3 DEF RowReads, Stored
  <2>2. MakeAware(changed).at = FromLocal(Local(since))
    BY <1>3, <2>1 DEF MakeAware, Naive, Aware
  <2>3. FromLocal(Local(since)) \in {since, since - Repeat}
    BY <1>3, LocalTwice DEF TimesOK
  <2>4. FromLocal(Local(since)) \in Int
    <3>1. Repeat \in Int
      BY <1>3, ZonesAssumption DEF Repeat, TimesOK, ZoneType
    <3>2. QED
      BY <2>3, <3>1 DEF TimesOK
  <2>5. FreshRun = Plus(Naive(FromLocal(Local(since))), 0)
    BY <1>3, <2>2 DEF FreshRun
  <2>6. FreshRun.at = FromLocal(Local(since)) + 0
    BY <2>5 DEF Plus, Naive
  <2>7. QED
    BY <1>3, <2>3, <2>4, <2>6
<1>4. CASE lastRun = None /\ start # NoStart
  <2>1. useTz /\ changed = Aware(since)
    BY <1>4 DEF RowReads, Stored, TimesOK
  <2>2. FreshRun = Plus(changed, -LongBack)
    BY <1>4, <2>1 DEF FreshRun
  <2>3. FreshRun.at = since + (-LongBack)
    BY <2>1, <2>2 DEF Plus, Aware
  <2>4. QED
    BY <1>4, <2>3, TimeAssumption DEF TimesOK
<1>5. QED
  BY <1>1, <1>2, <1>3, <1>4 DEF TimesOK

\* The null of a column is no datetime.
LEMMA NoneApart == None \notin Datetime
<1>1. DOMAIN None = {"aware", "at", "null"}
  BY DEF None
<1>2. \A d \in Datetime : DOMAIN d = {"aware", "at"}
  BY DEF Datetime
<1>3. QED
  BY <1>1, <1>2

\* The time a run is stamped with is its instant, and is not the absent one.
LEMMA DefaultNowReads ==
  ASSUME now \in Nat
  PROVE  DefaultNow.at = now /\ DefaultNow # None
<1>1. DefaultNow.at = now
  BY DEF DefaultNow, Aware, Naive
<1>2. DefaultNow \in Datetime
  BY DEF DefaultNow, Aware, Naive, Datetime
<1>3. QED
  BY <1>1, <1>2, NoneApart

-----------------------------------------------------------------------------
LEMMA IInv_init == Init => IInv
<1> SUFFICES ASSUME Init PROVE IInv
  OBVIOUS
<1>1. /\ now = 0 /\ since = 0 /\ zone \in ZoneType /\ enabled = TRUE /\ held = FALSE
      /\ changed = Now /\ lastRun = None
      /\ sched \in Schedules /\ start \in Starts /\ (start # NoStart => useTz)
  BY ZonesAssumption DEF Init
<1>2. changed = Stored(since)
  BY <1>1 DEF Now, Stored
<1>3. QED
  BY <1>1, <1>2 DEF IInv, TimesOK, RowReads, EntryReads

LEMMA TickStep == ASSUME IInv, Tick PROVE IInv'
<1>1. UNCHANGED <<taskVars, rowVars, notice, beatVars, since>> /\ now' = now + 1
  BY DEF Tick
<1>2. UNCHANGED <<useTz, zone, sched, start, enabled, changed, lastRun, notice, held, entryRun, since>>
  BY <1>1 DEF taskVars, rowVars, beatVars
<1>3. QED
  BY <1>1, <1>2
  DEF IInv, TimesOK, RowReads, EntryReads, Stored, Aware, Naive, Local, Repeat

\* A change leaves a row that reads right, and a notice.
LEMMA ChangeStep == ASSUME IInv, NEW on \in BOOLEAN, Change(on) PROVE IInv'
<1>1. /\ enabled' = on /\ changed' = Now /\ notice' = TRUE
      /\ lastRun' = (IF on THEN lastRun ELSE None)
      /\ since' = (IF on /\ lastRun # None THEN since ELSE now)
      /\ UNCHANGED <<useTz, zone, sched, start, now>>
  BY DEF Change, taskVars
<1>2. TimesOK'
  <2>1. since' \in {since, now}
    BY <1>1, Zenon
  <2>2. QED
    BY <1>1, <2>1 DEF IInv, TimesOK
<1>3. RowReads'
  <2>1. CASE on /\ lastRun # None
    BY <1>1, <2>1 DEF IInv, RowReads
  <2>2. CASE on /\ lastRun = None
    <3>1. lastRun' = None /\ since' = now /\ enabled' /\ None' = None
      BY <1>1, <2>2 DEF None
    <3>2. changed' = Stored(since)'
      BY <1>1, <3>1 DEF Now, Stored, Aware, Naive, Local
    <3>3. QED
      BY <3>1, <3>2 DEF RowReads
  <2>3. CASE ~on
    BY <1>1, <2>3 DEF RowReads, None
  <2>4. QED
    BY <2>1, <2>2, <2>3
<1>4. EntryReads'
  BY <1>1 DEF EntryReads
<1>5. QED
  BY <1>2, <1>3, <1>4 DEF IInv

\* A reload reads the row, or ends a one-off task and leaves a notice.
LEMMA ReloadStep == ASSUME IInv, Reload PROVE IInv'
<1>1. /\ UNCHANGED <<useTz, zone, sched, start, now, since>>
      /\ held' = Selected /\ entryRun' = FreshRun
  BY DEF Reload, taskVars
<1>2. TimesOK'
  BY <1>1 DEF IInv, TimesOK
<1>3. CASE Selected /\ Finished
  <2>1. enabled' = FALSE /\ lastRun' = None /\ notice' = TRUE
    BY <1>3 DEF Reload
  <2>2. QED
    BY <1>2, <2>1 DEF IInv, RowReads, EntryReads, None
<1>4. CASE ~(Selected /\ Finished)
  <2>1. UNCHANGED <<enabled, changed, lastRun>>
    BY <1>4 DEF Reload, rowVars
  <2>2. RowReads'
    BY <1>1, <2>1 DEF IInv, RowReads, Stored, Aware, Naive, Local
  <2>3. EntryReads'
    <3> SUFFICES ASSUME held'
                 PROVE  enabled' /\ IF start' = NoStart \/ lastRun' # None'
                                    THEN entryRun'.at \in {since', since' - Repeat'}
                                    ELSE entryRun'.at = since' - LongBack
      BY DEF EntryReads
    <3>1. enabled
      BY <1>1 DEF Selected
    <3>2. IF start = NoStart \/ lastRun # None
          THEN FreshRun.at \in {since, since - Repeat}
          ELSE FreshRun.at = since - LongBack
      BY <3>1, FreshRunReads DEF IInv
    <3>3. Repeat' = Repeat /\ None' = None
      BY <1>1 DEF Repeat, None
    <3>4. QED
      BY <1>1, <2>1, <3>1, <3>2, <3>3
  <2>4. QED
    BY <1>2, <2>2, <2>3 DEF IInv
<1>5. QED
  BY <1>3, <1>4

\* A task that is sent counts from now on from its run.
LEMMA CheckStep == ASSUME IInv, Check PROVE IInv'
<1>1. /\ held /\ ~notice
      /\ UNCHANGED <<useTz, zone, sched, start, now, enabled, changed, notice, held>>
  BY DEF Check, taskVars
<1>2. enabled /\ now \in Nat
  BY <1>1 DEF IInv, EntryReads, TimesOK
<1>3. CASE IsDue(entryRun).due
  <2>1. entryRun' = DefaultNow /\ lastRun' = DefaultNow /\ since' = now
    BY <1>3 DEF Check
  <2>2. lastRun'.at = since' /\ lastRun' # None' /\ entryRun'.at = since'
    BY <1>2, <2>1, DefaultNowReads DEF None
  <2>3. QED
    BY <1>1, <1>2, <2>1, <2>2 DEF IInv, TimesOK, RowReads, EntryReads
<1>4. CASE ~IsDue(entryRun).due
  <2>1. UNCHANGED <<entryRun, lastRun, since>>
    BY <1>4 DEF Check
  <2>2. Stored(since)' = Stored(since) /\ Repeat' = Repeat /\ None' = None
    BY <1>1, <2>1 DEF Stored, Aware, Naive, Local, Repeat, None
  <2>3. QED
    BY <1>1, <2>1, <2>2 DEF IInv, TimesOK, RowReads, EntryReads
<1>5. QED
  BY <1>3, <1>4

LEMMA IInv_step == IInv /\ [Next]_vars => IInv'
<1> SUFFICES ASSUME IInv, [Next]_vars PROVE IInv'
  OBVIOUS
<1>1. CASE UNCHANGED vars
  <2>1. UNCHANGED <<useTz, zone, sched, start, now, enabled, changed, lastRun, notice, held,
                    entryRun, since>>
    BY <1>1 DEF vars, taskVars, rowVars, beatVars
  <2>2. QED
    BY <2>1 DEF IInv, TimesOK, RowReads, EntryReads, Stored, Aware, Naive, Local, Repeat
<1>2. QED
  BY <1>1, TickStep, ChangeStep, ReloadStep, CheckStep DEF Next

\* celery reads the instant of the last run, or of the change, in any zone,
\* with USE_TZ or without it, but for the hour that comes twice.
THEOREM LastRunReadRightHolds == Spec => []LastRunReadRight
<1>1. IInv => LastRunReadRight
  BY DEF IInv, EntryReads, LastRunReadRight, MaybeMakeAware, Aware
<1>2. QED
  BY <1>1, IInv_init, IInv_step, PTL DEF Spec

-----------------------------------------------------------------------------
(* A crontab comes round within a day.                                     *)

\* A set of natural numbers has a least one.
LEMMA LeastNat ==
  ASSUME NEW T \in SUBSET Nat, T # {}
  PROVE  \E x \in T : \A y \in T : x <= y
<1> DEFINE Below == {1..x : x \in T}
           R == StrictSubsetOrdering(Nat)
<1>1. Below \subseteq FiniteSubsetsOf(Nat)
  <2> SUFFICES ASSUME NEW x \in T PROVE 1..x \in FiniteSubsetsOf(Nat)
    OBVIOUS
  <2>1. IsFiniteSet(1..x)
    BY FS_Interval
  <2>2. 1..x \subseteq Nat
    OBVIOUS
  <2>3. QED
    BY <2>1, <2>2 DEF FiniteSubsetsOf
<1>2. Below # {}
  OBVIOUS
<1>3. PICK b \in Below : \A a \in Below : ~(<<a, b>> \in R)
  <2> HIDE DEF Below
  <2>1. QED
    BY <1>1, <1>2, WFMin, FS_StrictSubsetOrderingWellFounded, Zenon
<1>4. PICK x \in T : b = 1..x
  OBVIOUS
<1>5. ASSUME NEW y \in T, y < x PROVE FALSE
  <2>1. 1..y \in Below /\ <<1..y, 1..x>> \notin R
    BY <1>3, <1>4
  <2>2. 1..y \subseteq 1..x /\ 1..x \subseteq Nat /\ 1..y \subseteq Nat
    BY <1>5
  <2>3. x \in 1..x /\ x \notin 1..y
    BY <1>5
  <2>4. QED
    BY <2>1, <2>2, <2>3 DEF StrictSubsetOrdering
<1>6. QED
  BY <1>5

\* A number has one remainder.
LEMMA Remainder ==
  ASSUME NEW D \in Nat \ {0}, NEW x \in Int
  PROVE  x % D \in 0..(D - 1) /\ x \div D \in Int /\ x = (D * (x \div D)) + (x % D)
OBVIOUS

LEMMA RemainderUnique ==
  ASSUME NEW D \in Nat \ {0}, NEW q \in Int, NEW p \in Int,
         NEW r \in 0..(D - 1), NEW h \in 0..(D - 1),
         (D * q) + r = (D * p) + h
  PROVE  r = h
<1>1. D * (q - p) = h - r
  OBVIOUS
<1>2. CASE q = p
  BY <1>2
<1>3. CASE q - p >= 1
  <2>1. D * (q - p) >= D
    BY <1>3
  <2>2. QED
    BY <2>1, <1>1
<1>4. CASE q - p <= -1
  <2>1. D * (q - p) <= -D
    BY <1>4
  <2>2. QED
    BY <2>1, <1>1
<1>5. QED
  BY <1>2, <1>3, <1>4

\* A crontab names an hour, and that hour comes within a day.
LEMMA MatchWithinDay ==
  ASSUME sched \in Schedules, sched.kind = "crontab", NEW o \in Int, NEW t \in Int
  PROVE  \E m \in (t + 1)..(t + Day) : MatchesIn(o, m)
<1>1. sched \in ScheduleType /\ sched.hours # {} /\ Day \in Nat \ {0}
  BY SchedulesAssumption, TimeAssumption
<1>2. sched.hours \subseteq 0..(Day - 1)
  BY <1>1 DEF ScheduleType
<1>3. PICK h \in sched.hours : h \in 0..(Day - 1)
  BY <1>1, <1>2
<1> DEFINE a == t + 1 + o
           q == (h - a) \div Day
           k == (h - a) % Day
           m == t + 1 + k
<1>4. o \in Int
  OBVIOUS
<1>5. a \in Int
  BY <1>4
<1>6. k \in 0..(Day - 1) /\ q \in Int /\ h - a = (Day * q) + k
  <2> DEFINE x == h - a
  <2>1. x \in Int
    BY <1>3, <1>5
  <2> HIDE DEF x
  <2>2. x % Day \in 0..(Day - 1) /\ x \div Day \in Int
        /\ x = (Day * (x \div Day)) + (x % Day)
    BY <1>1, <2>1, Remainder
  <2>3. QED
    BY <2>2 DEF x
<1>7. m \in (t + 1)..(t + Day)
  BY <1>1, <1>6
<1>8. (m + o) % Day = h
  <2>1. m + o = a + k
    BY <1>4, <1>6
  <2> DEFINE b == m + o
  <2>2. b \in Int
    BY <1>4, <1>6
  <2>3. b = a + k /\ a \in Int /\ k \in Int
    BY <1>5, <1>6, <2>1
  <2> HIDE DEF b, a, k, q
  <2>4. b % Day \in 0..(Day - 1) /\ b \div Day \in Int
        /\ b = (Day * (b \div Day)) + (b % Day)
    BY <1>1, <2>2, Remainder
  <2>5. Day * (-q) = -(Day * q) /\ -q \in Int
    BY <1>1, <1>6
  <2>6. (Day * (b \div Day)) + (b % Day) = (Day * (-q)) + h
    BY <1>1, <1>3, <1>6, <2>3, <2>4, <2>5
  <2>7. b % Day = h
    BY <1>1, <1>3, <2>4, <2>5, <2>6, RemainderUnique
  <2>8. QED
    BY <2>7 DEF b
<1>9. MatchesIn(o, m)
  BY <1>3, <1>8 DEF MatchesIn
<1>10. QED
  BY <1>7, <1>9

\* The next match is the first one after the time it is asked for.
LEMMA NextMatchInMatches ==
  ASSUME sched \in Schedules, sched.kind = "crontab", NEW o \in Int, NEW t \in Int
  PROVE  /\ NextMatchIn(o, t) \in (t + 1)..(t + Day) /\ MatchesIn(o, NextMatchIn(o, t))
         /\ \A k \in (t + 1)..(NextMatchIn(o, t) - 1) : ~MatchesIn(o, k)
<1> DEFINE D == {k \in Nat : k <= Day /\ k > 0 /\ MatchesIn(o, t + k)}
<1>1. Day \in Nat
  BY TimeAssumption
<1>2. PICK m \in (t + 1)..(t + Day) : MatchesIn(o, m)
  BY MatchWithinDay
<1>3. m - t \in D
  <2>1. t + (m - t) = m /\ m - t \in Nat /\ m - t > 0 /\ m - t <= Day
    BY <1>1, <1>2
  <2>2. QED
    BY <1>2, <2>1
<1>4. D \in SUBSET Nat /\ D # {}
  BY <1>3
<1>5. PICK x \in D : \A y \in D : x <= y
  <2> HIDE DEF D
  <2>1. QED
    BY <1>4, LeastNat
<1>6. t + x \in (t + 1)..(t + Day) /\ MatchesIn(o, t + x)
  BY <1>1, <1>5
<1>7. ASSUME NEW k \in (t + 1)..((t + x) - 1), MatchesIn(o, k) PROVE FALSE
  <2>1. t + (k - t) = k /\ k - t \in Nat /\ k - t > 0 /\ k - t < x /\ k - t <= Day
    BY <1>1, <1>5, <1>7
  <2>2. k - t \in D
    BY <1>7, <2>1
  <2>3. QED
    BY <1>5, <2>1, <2>2
<1>8. \E n \in (t + 1)..(t + Day) : MatchesIn(o, n) /\ \A k \in (t + 1)..(n - 1) : ~MatchesIn(o, k)
  BY <1>6, <1>7
<1>9. /\ NextMatchIn(o, t) \in (t + 1)..(t + Day) /\ MatchesIn(o, NextMatchIn(o, t))
      /\ \A k \in (t + 1)..(NextMatchIn(o, t) - 1) : ~MatchesIn(o, k)
  BY <1>8, Zenon DEF NextMatchIn
<1>10. QED
  BY <1>9

LEMMA OffsetType ==
  ASSUME sched \in Schedules, sched.kind = "crontab"
  PROVE  Offset \in Int
<1>1. sched \in ScheduleType
  BY SchedulesAssumption
<1>2. sched.offset \in Int
  BY <1>1 DEF ScheduleType
<1>3. QED
  BY <1>2 DEF Offset

LEMMA NextMatchMatches ==
  ASSUME sched \in Schedules, sched.kind = "crontab", NEW t \in Int
  PROVE  /\ NextMatch(t) \in Int /\ NextMatch(t) > t /\ NextMatch(t) <= t + Day
         /\ Matches(NextMatch(t))
         /\ \A k \in (t + 1)..(NextMatch(t) - 1) : ~Matches(k)
<1>1. Offset \in Int /\ Day \in Nat
  BY OffsetType, TimeAssumption
<1>2. /\ NextMatch(t) \in (t + 1)..(t + Day) /\ Matches(NextMatch(t))
      /\ \A k \in (t + 1)..(NextMatch(t) - 1) : ~Matches(k)
  BY <1>1, NextMatchInMatches DEF NextMatch, Matches
<1>3. QED
  BY <1>1, <1>2

-----------------------------------------------------------------------------
(* What is_due() says of a task that is sent.                              *)

\* The repeated hour is not negative, so that an entry is never read as of
\* later than it is.
LEMMA RepeatType == ASSUME TimesOK PROVE Repeat \in Nat
<1>1. zone.before \in Int /\ zone.after \in Int
  BY DEF TimesOK, ZoneType
<1>2. QED
  BY <1>1 DEF Repeat

\* A task that is due has started, and its schedule says so.
LEMMA DueMeans ==
  ASSUME NEW run, IsDue(run).due
  PROVE  ~Unstarted /\ ScheduleIsDue(run.at).due
<1>1. ~Unstarted
  <2>1. Verdict(FALSE, DueStartTime - DefaultNow.at).due = FALSE
    BY DEF Verdict
  <2>2. QED
    BY <2>1, Zenon DEF IsDue
<1>2. IsDue(run) = ScheduleIsDue(MaybeMakeAware(run).at)
  BY <1>1, Zenon DEF IsDue
<1>3. MaybeMakeAware(run).at = run.at
  BY DEF MaybeMakeAware, Aware
<1>4. QED
  BY <1>1, <1>2, <1>3

\* Only a check sends a task, and only one that is due.
LEMMA SentIsDue ==
  ASSUME IInv, [Next]_vars, Sent
  PROVE  held /\ ~notice /\ enabled /\ IsDue(entryRun).due
<1>1. lastRun' # lastRun /\ lastRun' # None
  BY DEF Sent, None
<1>2. ~UNCHANGED vars /\ ~Tick
  BY <1>1 DEF vars, rowVars, Tick
<1>3. \A on \in BOOLEAN : ~Change(on)
  BY <1>1 DEF Change
<1>4. ~Reload
  BY <1>1 DEF Reload, rowVars
<1>5. Check
  BY <1>2, <1>3, <1>4 DEF Next
<1>6. held /\ ~notice /\ IsDue(entryRun).due
  BY <1>1, <1>5 DEF Check
<1>7. QED
  BY <1>6 DEF IInv, EntryReads

\* A start time is aware, and is_due() compares it with the clock.
LEMMA StartedMeans ==
  ASSUME TimesOK, ~Unstarted, start # NoStart
  PROVE  start <= now
<1>1. start \in Int /\ now \in Nat /\ useTz
  BY SchedulesAssumption DEF TimesOK
<1>2. Stored(start).at = start /\ DefaultNow.at = now
  BY <1>1 DEF Stored, DefaultNow, Aware
<1>3. QED
  BY <1>1, <1>2 DEF Unstarted

\* Each schedule is due at its own time, counted from the instant given.
LEMMA IntervalMeans ==
  ASSUME TimesOK, sched.kind = "interval", NEW t \in Int, ScheduleIsDue(t).due
  PROVE  t + sched.every <= now /\ sched.every \in Nat
<1>1. ScheduleIsDue(t) = IntervalIsDue(t)
  BY DEF ScheduleIsDue
<1>2. t + sched.every <= now
  BY <1>1 DEF IntervalIsDue, Verdict
<1>3. sched \in [kind : {"interval"}, every : Nat \ {0}]
  BY SchedulesAssumption DEF TimesOK, ScheduleType
<1>4. QED
  BY <1>2, <1>3

LEMMA CrontabMeans ==
  ASSUME TimesOK, sched.kind = "crontab", NEW t \in Int, ScheduleIsDue(t).due
  PROVE  \E m \in (t + 1)..now : Matches(m)
<1>1. ScheduleIsDue(t) = CrontabIsDue(t)
  BY DEF ScheduleIsDue
<1>2. NextMatch(t) <= now
  <2>1. CrontabIsDue(t).due = (NextMatch(t) <= now)
    BY Zenon DEF CrontabIsDue, Verdict
  <2>2. QED
    BY <1>1, <2>1, Zenon
<1>3. sched \in Schedules /\ now \in Nat
  BY Zenon DEF TimesOK
<1>4. NextMatch(t) \in Int /\ NextMatch(t) > t /\ Matches(NextMatch(t))
  BY <1>3, NextMatchMatches
<1>5. NextMatch(t) \in (t + 1)..now
  BY <1>2, <1>3, <1>4
<1>6. QED
  BY <1>4, <1>5, Zenon

LEMMA ClockedMeans ==
  ASSUME TimesOK, sched.kind = "clocked", useTz, NEW t, ScheduleIsDue(t).due
  PROVE  sched.time <= now
<1>1. ScheduleIsDue(t) = ClockedIsDue
  BY DEF ScheduleIsDue
<1>2. MaybeMakeAware(Stored(sched.time)).at = sched.time
  BY DEF MaybeMakeAware, Stored, Aware
<1>3. QED
  BY <1>1, <1>2 DEF ClockedIsDue, Verdict

\* No task is sent before its start_time, nor before its schedule comes round
\* after what the task counts from, however often beat reloads it.
THEOREM SentWhenDueHolds == Spec => SentWhenDue
<1> DEFINE OnTime ==
      Sent /\ TimeReadRight =>
        /\ start # NoStart => start <= now
        /\ start = NoStart \/ lastRun # None =>
             CASE sched.kind = "interval" -> since - Repeat + sched.every <= now
               [] sched.kind = "crontab" -> \E m \in (since - Repeat + 1)..now : Matches(m)
               [] sched.kind = "clocked" -> sched.time <= now
<1>1. IInv /\ [Next]_vars => [OnTime]_vars
  <2> SUFFICES ASSUME IInv, [Next]_vars, Sent, TimeReadRight PROVE OnTime
    OBVIOUS
  <2>1. held /\ ~notice /\ IsDue(entryRun).due /\ TimesOK
    BY SentIsDue DEF IInv
  <2>2. ~Unstarted /\ ScheduleIsDue(entryRun.at).due
    BY <2>1, DueMeans
  <2>3. start # NoStart => start <= now
    BY <2>1, <2>2, StartedMeans
  <2>4. ASSUME start = NoStart \/ lastRun # None
        PROVE  CASE sched.kind = "interval" -> since - Repeat + sched.every <= now
                 [] sched.kind = "crontab" -> \E m \in (since - Repeat + 1)..now : Matches(m)
                 [] sched.kind = "clocked" -> sched.time <= now
    <3>1. entryRun.at \in {since, since - Repeat}
      BY <2>1, <2>4 DEF IInv, EntryReads
    <3> DEFINE t == entryRun.at
    <3>2. now \in Nat /\ since \in Int /\ Repeat \in Nat
      BY <2>1, RepeatType DEF TimesOK
    <3>3. t \in Int /\ since - Repeat <= t
      BY <3>1, <3>2
    <3>4. CASE sched.kind = "interval"
      <4>1. t + sched.every <= now /\ sched.every \in Nat
        BY <2>1, <2>2, <3>3, <3>4, IntervalMeans
      <4>2. since - Repeat + sched.every <= now
        BY <3>2, <3>3, <4>1
      <4>3. QED
        BY <3>4, <4>2
    <3>5. CASE sched.kind = "crontab"
      <4>1. PICK m \in (t + 1)..now : Matches(m)
        BY <2>1, <2>2, <3>3, <3>5, CrontabMeans
      <4>2. m \in (since - Repeat + 1)..now
        BY <3>2, <3>3
      <4>3. QED
        BY <3>5, <4>1, <4>2
    <3>6. CASE sched.kind = "clocked"
      <4>1. sched.time <= now
        BY <2>1, <2>2, <3>6, ClockedMeans DEF TimeReadRight
      <4>2. QED
        BY <3>6, <4>1
    <3>7. sched.kind \in {"interval", "crontab", "clocked"}
      BY <2>1, SchedulesAssumption DEF TimesOK, ScheduleType
    <3>8. QED
      BY <3>4, <3>5, <3>6, <3>7
  <2>5. QED
    BY <2>3, <2>4
<1>2. QED
  BY <1>1, IInv_init, IInv_step, PTL DEF Spec, SentWhenDue

-----------------------------------------------------------------------------
(* No task is late.                                                        *)

\* A task with a start time has run no earlier.
RunsStarted == lastRun # None /\ start # NoStart => start <= now

\* With or without a notice, the clock has not passed an enabled task by.
RowInTime == enabled /\ TimeReadRight => InTime(now)

\* Beat wakes up for a task that it holds, at a time that is not too late.
WakesInTime ==
  held /\ ~notice /\ TimeReadRight => wake \in Int /\ now <= wake /\ InTime(wake)

\* A task that is left out is clocked, and comes after the next reload.
LeftOut ==
  enabled /\ ~notice /\ ~held =>
    sched.kind = "clocked" /\ (useTz => sched.time > lastSync + SyncMax)

ReloadsInTime == lastSync \in Int /\ now - lastSync <= SyncMax

LateInv == IInv /\ RunsStarted /\ RowInTime /\ WakesInTime /\ LeftOut /\ ReloadsInTime

\* What the three schedules and the start time are.
LEMMA ScheduleFacts ==
  ASSUME TimesOK
  PROVE  /\ sched.kind \in {"interval", "crontab", "clocked"}
         /\ sched.kind = "interval" => sched.every \in Nat \ {0} /\ sched.every <= LongBack
         /\ sched.kind = "clocked" => sched.time \in Int
         /\ start # NoStart => start \in Int
         /\ LongBack \in Nat /\ SyncMax \in Nat \ {0} /\ Never \in Nat \ {0}
<1>1. sched \in Schedules /\ start \in Starts
  BY DEF TimesOK
<1>2. sched \in ScheduleType /\ (sched.kind = "interval" => sched.every <= LongBack)
  BY <1>1, SchedulesAssumption
<1>3. sched.kind \in {"interval", "crontab", "clocked"}
  BY <1>2 DEF ScheduleType
<1>4. sched.kind = "interval" => sched.every \in Nat \ {0}
  <2>1. sched.kind = "interval" => sched \in [kind : {"interval"}, every : Nat \ {0}]
    BY <1>2 DEF ScheduleType
  <2>2. QED
    BY <2>1
<1>5. sched.kind = "clocked" => sched.time \in Int
  <2>1. sched.kind = "clocked" => sched \in [kind : {"clocked"}, time : Int]
    BY <1>2 DEF ScheduleType
  <2>2. QED
    BY <2>1
<1>6. start # NoStart => start \in Int
  BY <1>1, SchedulesAssumption
<1>7. QED
  BY <1>2, <1>3, <1>4, <1>5, <1>6, TimeAssumption

\* A time before one that is in time is in time.
LEMMA Earlier ==
  ASSUME TimesOK, NEW t \in Int, NEW u \in Int, t <= u, InTime(u)
  PROVE  InTime(t)
<1> DEFINE from == IF start = NoStart THEN since ELSE Later(since, start)
<1>1. from \in Int
  BY ScheduleFacts DEF TimesOK, Later
<1>2. CASE sched.kind = "interval"
  <2>1. (IF start = NoStart \/ lastRun # None THEN since + sched.every ELSE from) \in Int
    BY <1>1, <1>2, ScheduleFacts DEF TimesOK
  <2>2. QED
    BY <1>2, <2>1 DEF InTime
<1>3. CASE sched.kind = "crontab"
  <2>1. \A m \in (from + 1)..(u - 1) : ~MatchesIn(NextOffset, m)
    BY <1>3 DEF InTime
  <2>2. \A m \in (from + 1)..(t - 1) : ~MatchesIn(NextOffset, m)
    BY <1>1, <2>1
  <2>3. QED
    BY <1>3, <2>2 DEF InTime
<1>4. CASE sched.kind = "clocked"
  <2>1. Later(from, sched.time) \in Int
    BY <1>1, <1>4, ScheduleFacts DEF Later
  <2>2. ran \/ u <= Later(from, sched.time)
    BY <1>4 DEF InTime
  <2>3. ran \/ t <= Later(from, sched.time)
    BY <2>1, <2>2
  <2>4. QED
    BY <1>4, <2>3 DEF InTime
<1>5. QED
  BY <1>2, <1>3, <1>4, ScheduleFacts

\* What is_due() returns for each schedule.
LEMMA IntervalVerdict ==
  ASSUME TimesOK, sched.kind = "interval", NEW t \in Int
  PROVE  \/ /\ t + sched.every <= now /\ ScheduleIsDue(t) = Verdict(TRUE, sched.every)
         \/ /\ t + sched.every > now
            /\ ScheduleIsDue(t) = Verdict(FALSE, t + sched.every - now)
<1>1. ScheduleIsDue(t) = IntervalIsDue(t)
  BY DEF ScheduleIsDue
<1>2. CASE t + sched.every <= now
  BY <1>1, <1>2, Zenon DEF IntervalIsDue
<1>3. CASE ~(t + sched.every <= now)
  <2>1. t + sched.every > now
    BY <1>3, ScheduleFacts DEF TimesOK
  <2>2. QED
    BY <1>1, <1>3, <2>1, Zenon DEF IntervalIsDue
<1>4. QED
  BY <1>2, <1>3

LEMMA ClockedVerdict ==
  ASSUME TimesOK, sched.kind = "clocked", TimeReadRight, NEW t
  PROVE  \/ sched.time <= now /\ ScheduleIsDue(t) = Verdict(TRUE, Never)
         \/ sched.time > now /\ ScheduleIsDue(t) = Verdict(FALSE, sched.time - now)
<1>1. ScheduleIsDue(t) = ClockedIsDue
  BY DEF ScheduleIsDue
<1>2. MaybeMakeAware(Stored(sched.time)).at = sched.time
  BY DEF MaybeMakeAware, Stored, Aware, TimeReadRight
<1>3. CASE sched.time <= now
  BY <1>1, <1>2, <1>3, Zenon DEF ClockedIsDue
<1>4. CASE ~(sched.time <= now)
  <2>1. sched.time > now
    BY <1>4, ScheduleFacts DEF TimesOK
  <2>2. QED
    BY <1>1, <1>2, <1>4, <2>1, Zenon DEF ClockedIsDue
<1>5. QED
  BY <1>3, <1>4

LEMMA CrontabVerdict ==
  ASSUME sched.kind = "crontab", NEW t
  PROVE  ScheduleIsDue(t) = Verdict(NextMatch(t) <= now, NextMatch(now) - now)
BY DEF ScheduleIsDue, CrontabIsDue

\* A task that is not due is looked at again later than now, and in time.
LEMMA NotDueWake ==
  ASSUME TimesOK, RunsStarted, TimeReadRight, NEW run,
         IF start = NoStart \/ lastRun # None
         THEN run.at \in {since, since - Repeat}
         ELSE run.at = since - LongBack,
         ~IsDue(run).due
  PROVE  /\ IsDue(run).next \in Int /\ IsDue(run).next >= 1
         /\ InTime(now + IsDue(run).next)
<1> DEFINE t == run.at
           from == IF start = NoStart THEN since ELSE Later(since, start)
           next == IsDue(run).next
<1>1. now \in Nat /\ since \in Int /\ Repeat \in Nat /\ LongBack \in Nat
  BY RepeatType, ScheduleFacts DEF TimesOK
<1>2. t \in Int /\ t <= since
  BY <1>1
<1>3. from \in Int /\ since <= from /\ (start # NoStart => start \in Int /\ start <= from)
  BY <1>1, ScheduleFacts DEF Later
<1>4. CASE Unstarted
  <2>1. start # NoStart /\ now < start /\ DefaultNow.at = now
    BY <1>1, <1>4 DEF Unstarted, Stored, DefaultNow, Aware, TimesOK
  <2>2. lastRun = None
    BY <1>1, <1>3, <2>1 DEF RunsStarted
  <2>3. next = DueStartTime - now
    BY <1>4, <2>1 DEF IsDue, Verdict
  <2>4. CASE sched.kind = "interval"
    <3>1. next = start - now
      BY <2>3, <2>4 DEF DueStartTime
    <3>2. InTime(now + next)
      BY <1>1, <1>3, <2>1, <2>2, <2>4, <3>1 DEF InTime
    <3>3. QED
      BY <1>1, <1>3, <2>1, <3>1, <3>2
  <2>5. CASE sched.kind = "clocked"
    <3>1. next = start - now
      BY <2>3, <2>5 DEF DueStartTime
    <3>2. now + next <= Later(from, sched.time)
      BY <1>1, <1>3, <2>1, <2>5, <3>1, ScheduleFacts DEF Later
    <3>3. InTime(now + next)
      BY <2>5, <3>2 DEF InTime
    <3>4. QED
      BY <1>1, <1>3, <2>1, <3>1, <3>3
  <2>6. CASE sched.kind = "crontab"
    <3> DEFINE first == NextMatchIn(0, start)
    <3>1. next = first - now
      BY <2>3, <2>6 DEF DueStartTime
    <3>2. /\ first \in Int /\ first > start
          /\ \A k \in (start + 1)..(first - 1) : ~MatchesIn(0, k)
      <4>1. sched \in Schedules /\ start \in Int /\ 0 \in Int /\ Day \in Nat
        BY <1>3, <2>1, TimeAssumption DEF TimesOK
      <4>2. /\ first \in (start + 1)..(start + Day)
            /\ \A k \in (start + 1)..(first - 1) : ~MatchesIn(0, k)
        BY <2>6, <4>1, NextMatchInMatches
      <4>3. QED
        BY <4>1, <4>2
    <3> HIDE DEF first
    <3>3. now + next = first
      BY <1>1, <3>1, <3>2
    <3>4. NextOffset = 0
      BY <2>1, <2>2 DEF NextOffset
    <3>5. \A k \in (from + 1)..(first - 1) : ~MatchesIn(NextOffset, k)
      BY <1>3, <2>1, <3>2, <3>4
    <3>6. InTime(now + next)
      BY <2>6, <3>3, <3>5 DEF InTime
    <3>7. QED
      BY <1>1, <1>3, <2>1, <3>1, <3>2, <3>6
  <2>7. QED
    BY <2>4, <2>5, <2>6, ScheduleFacts
<1>5. CASE ~Unstarted
  <2>1. IsDue(run) = ScheduleIsDue(t)
    BY <1>5 DEF IsDue, MaybeMakeAware, Aware
  <2>2. CASE sched.kind = "interval"
    <3>1. t + sched.every > now /\ ScheduleIsDue(t) = Verdict(FALSE, t + sched.every - now)
      <4>1. Verdict(TRUE, sched.every).due
        BY DEF Verdict
      <4>2. QED
        BY <1>2, <2>1, <2>2, <4>1, IntervalVerdict
    <3>2. next = t + sched.every - now
      BY <2>1, <3>1 DEF Verdict
    <3>3. sched.every \in Nat /\ sched.every <= LongBack
      BY <2>2, ScheduleFacts
    <3>4. t + sched.every <= IF start = NoStart \/ lastRun # None THEN since + sched.every ELSE from
      <4>1. CASE start = NoStart \/ lastRun # None
        BY <1>1, <1>2, <3>3, <4>1
      <4>2. CASE ~(start = NoStart \/ lastRun # None)
        <5>1. t = since - LongBack
          BY <4>2
        <5>2. t + sched.every <= from
          BY <1>1, <1>3, <3>3, <5>1
        <5>3. QED
          BY <4>2, <5>2
      <4>3. QED
        BY <4>1, <4>2
    <3>5. now + next = t + sched.every
      BY <1>1, <1>2, <3>2, <3>3
    <3>6. InTime(now + next)
      BY <2>2, <3>4, <3>5 DEF InTime
    <3>7. QED
      BY <1>1, <1>2, <3>1, <3>2, <3>3, <3>6
  <2>3. CASE sched.kind = "clocked"
    <3>1. sched.time > now /\ ScheduleIsDue(t) = Verdict(FALSE, sched.time - now)
      <4>1. Verdict(TRUE, Never).due
        BY DEF Verdict
      <4>2. QED
        BY <2>1, <2>3, <4>1, ClockedVerdict
    <3>2. next = sched.time - now
      BY <2>1, <3>1 DEF Verdict
    <3>3. sched.time \in Int
      BY <2>3, ScheduleFacts
    <3>4. now + next <= Later(from, sched.time)
      BY <1>1, <1>3, <3>2, <3>3 DEF Later
    <3>5. InTime(now + next)
      BY <2>3, <3>4 DEF InTime
    <3>6. QED
      BY <1>1, <3>1, <3>2, <3>3, <3>5
  <2>4. CASE sched.kind = "crontab"
    <3>1. sched \in Schedules
      BY DEF TimesOK
    <3>2. /\ NextMatch(t) \in Int /\ NextMatch(t) <= t + Day
          /\ \A k \in (t + 1)..(NextMatch(t) - 1) : ~Matches(k)
      BY <1>2, <2>4, <3>1, NextMatchMatches
    <3>3. /\ NextMatch(now) \in Int /\ NextMatch(now) > now
          /\ \A k \in (now + 1)..(NextMatch(now) - 1) : ~Matches(k)
      BY <1>1, <2>4, <3>1, NextMatchMatches
    <3>4. ScheduleIsDue(t) = Verdict(NextMatch(t) <= now, NextMatch(now) - now)
      BY <2>4, CrontabVerdict
    <3>5. ~(NextMatch(t) <= now)
      <4>1. Verdict(NextMatch(t) <= now, NextMatch(now) - now).due = (NextMatch(t) <= now)
        BY Zenon DEF Verdict
      <4>2. QED
        BY <2>1, <3>4, <4>1, Zenon
    <3>6. next = NextMatch(now) - now
      <4>1. Verdict(NextMatch(t) <= now, NextMatch(now) - now).next = NextMatch(now) - now
        BY Zenon DEF Verdict
      <4>2. QED
        BY <2>1, <3>4, <4>1, Zenon
    <3>7. ASSUME NEW k \in (from + 1)..(NextMatch(now) - 1) PROVE ~Matches(k)
      <4>1. k \in (t + 1)..(NextMatch(t) - 1) \/ k \in (now + 1)..(NextMatch(now) - 1)
        BY <1>1, <1>2, <1>3, <3>2, <3>3, <3>5
      <4>2. QED
        BY <3>2, <3>3, <4>1
    <3>8. now + next = NextMatch(now)
      BY <1>1, <3>3, <3>6
    <3>9. start = NoStart \/ lastRun # None
      <4> SUFFICES ASSUME ~(start = NoStart \/ lastRun # None) PROVE FALSE
        OBVIOUS
      <4>1. t = since - LongBack
        OBVIOUS
      <4>2. since <= now /\ Day \in Nat /\ Day <= LongBack
        BY TimeAssumption DEF TimesOK
      <4>3. QED
        BY <1>1, <3>2, <3>5, <4>1, <4>2
    <3>10. \A k \in (from + 1)..(NextMatch(now) - 1) : ~MatchesIn(NextOffset, k)
      <4>1. NextOffset = Offset
        BY <3>9, Zenon DEF NextOffset
      <4>2. QED
        BY <3>7, <4>1 DEF Matches
    <3>11. InTime(now + next)
      BY <2>4, <3>8, <3>10 DEF InTime
    <3>12. QED
      BY <1>1, <3>3, <3>6, <3>11
  <2>5. QED
    BY <2>2, <2>3, <2>4, ScheduleFacts
<1>6. QED
  BY <1>4, <1>5

\* A task that is sent has started, and is looked at again at its next time.
LEMMA DueWake ==
  ASSUME TimesOK, TimeReadRight, NEW run, run.at \in Int, IsDue(run).due
  PROVE  /\ start # NoStart => start <= now
         /\ IsDue(run).next \in Int /\ IsDue(run).next >= 1
         /\ sched.kind = "interval" => IsDue(run).next = sched.every
         /\ sched.kind = "crontab" => IsDue(run).next = NextMatch(now) - now
<1> DEFINE t == run.at
<1>1. ~Unstarted
  BY DueMeans
<1>2. start # NoStart => start <= now
  BY <1>1, StartedMeans
<1>3. IsDue(run) = ScheduleIsDue(t)
  BY <1>1 DEF IsDue, MaybeMakeAware, Aware
<1>4. CASE sched.kind = "interval"
  <2>1. ScheduleIsDue(t) = Verdict(TRUE, sched.every)
    <3>1. ~Verdict(FALSE, t + sched.every - now).due
      BY DEF Verdict
    <3>2. QED
      BY <1>3, <1>4, <3>1, IntervalVerdict
  <2>2. IsDue(run).next = sched.every
    BY <1>3, <2>1 DEF Verdict
  <2>3. QED
    BY <1>2, <1>4, <2>2, ScheduleFacts
<1>5. CASE sched.kind = "clocked"
  <2>1. ScheduleIsDue(t) = Verdict(TRUE, Never)
    <3>1. ~Verdict(FALSE, sched.time - now).due
      BY DEF Verdict
    <3>2. QED
      BY <1>3, <1>5, <3>1, ClockedVerdict
  <2>2. IsDue(run).next = Never
    BY <1>3, <2>1 DEF Verdict
  <2>3. QED
    BY <1>2, <1>5, <2>2, ScheduleFacts
<1>6. CASE sched.kind = "crontab"
  <2>1. Verdict(NextMatch(t) <= now, NextMatch(now) - now).next = NextMatch(now) - now
    BY Zenon DEF Verdict
  <2>2. IsDue(run).next = NextMatch(now) - now
    BY <1>3, <1>6, <2>1, CrontabVerdict, Zenon
  <2>3. NextMatch(now) \in Int /\ NextMatch(now) > now /\ now \in Nat
    <3>1. now \in Int /\ now \in Nat /\ sched \in Schedules
      BY DEF TimesOK
    <3>2. QED
      BY <1>6, <3>1, NextMatchMatches
  <2>4. QED
    BY <1>2, <1>6, <2>2, <2>3
<1>7. QED
  BY <1>4, <1>5, <1>6, ScheduleFacts

\* Whether a time is in time depends on the task, its row, and what it counts
\* from.
LEMMA MatchesKept ==
  ASSUME UNCHANGED <<useTz, sched>>
  PROVE  \A m : Matches(m)' <=> Matches(m)
BY DEF Matches, MatchesIn, Offset

LEMMA InTimeKept ==
  ASSUME UNCHANGED <<useTz, sched, start, lastRun, ran, since>>
  PROVE  \A t : InTime(t)' <=> InTime(t)
<1> SUFFICES ASSUME NEW t PROVE InTime(t)' <=> InTime(t)
  OBVIOUS
<1>1. None' = None
  BY DEF None
<1>2. NextOffset' = NextOffset
  BY <1>1, Zenon DEF NextOffset, Offset
<1>3. \A m : MatchesIn(NextOffset, m)' <=> MatchesIn(NextOffset, m)
  BY <1>2 DEF MatchesIn
<1>4. QED
  BY <1>1, <1>3, Zenon DEF InTime, Later

LEMMA LateInv_init == Init => LateInv
<1> SUFFICES ASSUME Init PROVE LateInv
  OBVIOUS
<1>1. IInv
  BY IInv_init
<1>2. /\ now = 0 /\ since = 0 /\ lastSync = 0 /\ lastRun = None /\ held = FALSE
      /\ notice = TRUE
  BY DEF Init
<1>3. RunsStarted /\ WakesInTime /\ LeftOut
  BY <1>2 DEF RunsStarted, WakesInTime, LeftOut
<1>4. ReloadsInTime
  BY <1>2, TimeAssumption DEF ReloadsInTime
<1>5. RowInTime
  <2>1. InTime(now)
    <3>1. TimesOK
      BY <1>1 DEF IInv
    <3> DEFINE from == IF start = NoStart THEN since ELSE Later(since, start)
    <3>2. from \in Int /\ now <= from
      BY <1>2, <3>1, ScheduleFacts DEF Later
    <3>3. sched.kind = "interval" =>
            now <= IF start = NoStart \/ lastRun # None THEN since + sched.every ELSE from
      BY <1>2, <3>1, <3>2, ScheduleFacts
    <3>4. \A m \in (from + 1)..(now - 1) : ~MatchesIn(NextOffset, m)
      BY <1>2, <3>2
    <3>5. sched.kind = "clocked" => now <= Later(from, sched.time)
      BY <1>2, <3>1, <3>2, ScheduleFacts DEF Later
    <3>6. QED
      BY <3>1, <3>3, <3>4, <3>5, ScheduleFacts DEF InTime
  <2>2. QED
    BY <2>1 DEF RowInTime
<1>6. QED
  BY <1>1, <1>3, <1>4, <1>5 DEF LateInv

\* The clock waits for the heap and for the reload.
LEMMA TickInTime == ASSUME LateInv, Tick PROVE LateInv'
<1>1. /\ UNCHANGED <<taskVars, rowVars, notice, beatVars, since>> /\ now' = now + 1
      /\ ~notice /\ ~(held /\ wake <= now) /\ now - lastSync < SyncMax
  BY DEF Tick
<1>2. UNCHANGED <<useTz, zone, sched, start, enabled, changed, lastRun, ran, notice, held,
                  entryRun, wake, lastSync, since>>
  BY <1>1 DEF taskVars, rowVars, beatVars
<1>3. IInv'
  BY TickStep DEF LateInv
<1>4. now \in Nat /\ lastSync \in Int /\ SyncMax \in Nat /\ TimesOK
  BY ScheduleFacts DEF LateInv, IInv, TimesOK, ReloadsInTime
<1>5. RunsStarted'
  BY <1>1, <1>2, <1>4, ScheduleFacts DEF LateInv, RunsStarted, None
<1>6. ReloadsInTime'
  BY <1>1, <1>2, <1>4 DEF ReloadsInTime
<1>7. WakesInTime'
  <2> SUFFICES ASSUME held, TimeReadRight
               PROVE  wake \in Int /\ now + 1 <= wake /\ InTime(wake)'
    BY <1>1, <1>2 DEF WakesInTime, TimeReadRight
  <2>1. wake \in Int /\ now <= wake /\ InTime(wake)
    BY <1>1 DEF LateInv, WakesInTime
  <2>2. InTime(wake)'
    BY <1>2, <2>1, InTimeKept
  <2>3. QED
    BY <1>1, <1>4, <2>1, <2>2
<1>8. LeftOut'
  BY <1>1, <1>2 DEF LateInv, LeftOut
<1>9. RowInTime'
  <2> SUFFICES ASSUME enabled, TimeReadRight PROVE InTime(now)'
    BY <1>2 DEF RowInTime, TimeReadRight
  <2>1. InTime(now + 1)
    <3>1. CASE held
      <4>1. wake \in Int /\ now <= wake /\ InTime(wake)
        BY <1>1, <3>1 DEF LateInv, WakesInTime
      <4>2. now + 1 <= wake /\ now + 1 \in Int
        BY <1>1, <1>4, <3>1, <4>1
      <4>3. QED
        BY <1>4, <4>1, <4>2, Earlier
    <3>2. CASE ~held
      <4>1. sched.kind = "clocked" /\ sched.time > lastSync + SyncMax
        BY <1>1, <3>2 DEF LateInv, LeftOut, TimeReadRight
      <4>2. sched.time \in Int /\ since \in Int /\ (start # NoStart => start \in Int)
        BY <1>4, <4>1, ScheduleFacts DEF TimesOK
      <4>3. now + 1 <= sched.time
        BY <1>1, <1>4, <4>1, <4>2
      <4>4. QED
        BY <1>4, <4>1, <4>2, <4>3 DEF InTime, Later
    <3>3. QED
      BY <3>1, <3>2
  <2>2. QED
    BY <1>1, <1>2, <2>1, InTimeKept
<1>10. QED
  BY <1>3, <1>5, <1>6, <1>7, <1>8, <1>9 DEF LateInv

\* A change of a task without a run counts as one.
LEMMA ChangeInTime == ASSUME LateInv, NEW on \in BOOLEAN, Change(on) PROVE LateInv'
<1>1. /\ enabled' = on /\ notice' = TRUE
      /\ lastRun' = (IF on THEN lastRun ELSE None)
      /\ since' = (IF on /\ lastRun # None THEN since ELSE now)
      /\ UNCHANGED <<useTz, zone, sched, start, now, ran, lastSync>>
  BY DEF Change, taskVars, beatVars
<1>2. IInv'
  BY ChangeStep DEF LateInv
<1>3. RunsStarted'
  <2>1. lastRun' \in {lastRun, None} /\ None' = None
    BY <1>1 DEF None
  <2>2. QED
    BY <1>1, <2>1, Zenon DEF LateInv, RunsStarted
<1>4. ReloadsInTime' /\ WakesInTime' /\ LeftOut'
  BY <1>1 DEF LateInv, ReloadsInTime, WakesInTime, LeftOut
<1>5. RowInTime'
  <2> SUFFICES ASSUME on, TimeReadRight PROVE InTime(now)'
    BY <1>1 DEF RowInTime, TimeReadRight
  <2>1. CASE lastRun # None
    <3>1. enabled
      BY <2>1 DEF LateInv, IInv, RowReads
    <3>2. InTime(now) /\ since' = since /\ lastRun' = lastRun
      BY <1>1, <2>1, <3>1 DEF LateInv, RowInTime
    <3>3. QED
      BY <1>1, <3>2, InTimeKept
  <2>2. CASE lastRun = None
    <3>1. since' = now /\ lastRun' = None' /\ TimesOK
      BY <1>1, <2>2 DEF None, LateInv, IInv
    <3>2. now \in Nat
      BY <3>1 DEF TimesOK
    <3> DEFINE from == IF start = NoStart THEN now ELSE Later(now, start)
    <3>3. from \in Int /\ now <= from
      BY <3>1, <3>2, ScheduleFacts DEF Later
    <3>4. sched.kind = "interval" =>
            now <= IF start = NoStart THEN now + sched.every ELSE from
      BY <3>1, <3>2, <3>3, ScheduleFacts
    <3>5. \A m \in (from + 1)..(now - 1) : ~MatchesIn(NextOffset, m)'
      BY <3>2, <3>3
    <3>6. sched.kind = "clocked" => now <= Later(from, sched.time)
      BY <3>1, <3>2, <3>3, ScheduleFacts DEF Later
    <3>7. sched.kind \in {"interval", "crontab", "clocked"}
      BY <3>1, ScheduleFacts
    <3>8. QED
      BY <1>1, <3>1, <3>4, <3>5, <3>6, <3>7 DEF InTime
  <2>3. QED
    BY <2>1, <2>2
<1>6. QED
  BY <1>2, <1>3, <1>4, <1>5 DEF LateInv

\* What a reload leaves out is a clocked task of a later reload.
LEMMA NotSelected ==
  ASSUME TimesOK, enabled, ~Selected
  PROVE  sched.kind = "clocked" /\ (useTz => sched.time > now + SyncMax)
<1>1. sched.kind = "clocked" /\ ~(Stored(sched.time).at <= Plus(Now, SyncMax).at)
  BY DEF Selected
<1>2. ASSUME useTz PROVE sched.time > now + SyncMax
  <2>1. Stored(sched.time).at = sched.time /\ Plus(Now, SyncMax).at = now + SyncMax
    BY <1>2 DEF Stored, Plus, Now, Aware
  <2>2. sched.time \in Int /\ now \in Nat /\ SyncMax \in Nat
    BY <1>1, ScheduleFacts DEF TimesOK
  <2>3. QED
    BY <1>1, <2>1, <2>2
<1>3. QED
  BY <1>1, <1>2

\* A reload finds the task due now, or a time to look at it again.
LEMMA ReloadInTime == ASSUME LateInv, Reload PROVE LateInv'
<1>1. /\ UNCHANGED <<useTz, zone, sched, start, now, since>>
      /\ held' = Selected /\ entryRun' = FreshRun /\ lastSync' = now
  BY DEF Reload, taskVars
<1>2. IInv'
  BY ReloadStep DEF LateInv
<1>3. TimesOK /\ now \in Nat /\ SyncMax \in Nat
  BY ScheduleFacts DEF LateInv, IInv, TimesOK
<1>4. ReloadsInTime'
  BY <1>1, <1>3 DEF ReloadsInTime
<1>5. CASE Selected /\ Finished
  <2>1. enabled' = FALSE /\ lastRun' = None /\ notice' = TRUE /\ None' = None
    BY <1>5 DEF Reload, None
  <2>2. RunsStarted' /\ RowInTime' /\ WakesInTime' /\ LeftOut'
    BY <2>1 DEF RunsStarted, RowInTime, WakesInTime, LeftOut
  <2>3. QED
    BY <1>2, <1>4, <2>2 DEF LateInv
<1>6. CASE ~(Selected /\ Finished)
  <2>1. /\ UNCHANGED <<enabled, lastRun, ran>> /\ None' = None
        /\ wake' = IF IsDue(FreshRun).due THEN now ELSE now + IsDue(FreshRun).next
    BY <1>6 DEF Reload, rowVars, None
  <2>2. RunsStarted'
    BY <1>1, <2>1, Zenon DEF LateInv, RunsStarted
  <2>3. RowInTime'
    <3>1. InTime(now)' <=> InTime(now)
      BY <1>1, <2>1, InTimeKept
    <3>2. QED
      BY <1>1, <2>1, <3>1 DEF LateInv, RowInTime, TimeReadRight
  <2>4. WakesInTime'
    <3> SUFFICES ASSUME Selected, TimeReadRight
                 PROVE  wake' \in Int /\ now <= wake' /\ InTime(wake)'
      BY <1>1 DEF WakesInTime, TimeReadRight
    <3>1. enabled
      BY DEF Selected
    <3>2. CASE IsDue(FreshRun).due
      <4>1. wake' = now /\ InTime(now)
        BY <2>1, <3>1, <3>2 DEF LateInv, RowInTime
      <4>2. QED
        BY <1>1, <1>3, <2>1, <4>1, InTimeKept
    <3>3. CASE ~IsDue(FreshRun).due
      <4>1. wake' = now + IsDue(FreshRun).next
        BY <2>1, <3>3
      <4>2. IF start = NoStart \/ lastRun # None
            THEN FreshRun.at \in {since, since - Repeat}
            ELSE FreshRun.at = since - LongBack
        BY <1>3, <3>1, FreshRunReads DEF LateInv, IInv
      <4>3. /\ IsDue(FreshRun).next \in Int /\ IsDue(FreshRun).next >= 1
            /\ InTime(now + IsDue(FreshRun).next)
        BY <1>3, <3>3, <4>2, NotDueWake DEF LateInv
      <4>4. QED
        BY <1>1, <1>3, <2>1, <4>1, <4>3, InTimeKept
    <3>4. QED
      BY <3>2, <3>3
  <2>5. LeftOut'
    <3> SUFFICES ASSUME enabled, ~Selected
                 PROVE  sched.kind = "clocked" /\ (useTz => sched.time > now + SyncMax)
      BY <1>1, <2>1 DEF LeftOut
    <3>1. QED
      BY <1>3, NotSelected
  <2>6. QED
    BY <1>2, <1>4, <2>2, <2>3, <2>4, <2>5 DEF LateInv
<1>7. QED
  BY <1>5, <1>6

\* A run counts from now, and the next one comes after it.
LEMMA CheckInTime == ASSUME LateInv, Check PROVE LateInv'
<1>1. /\ UNCHANGED <<useTz, zone, sched, start, now, enabled, notice, held, lastSync>>
      /\ held /\ wake <= now /\ ~notice /\ wake' = now + IsDue(entryRun).next
  BY DEF Check, taskVars
<1>2. IInv'
  BY CheckStep DEF LateInv
<1>3. TimesOK /\ now \in Nat /\ since \in Int /\ None' = None
  BY DEF LateInv, IInv, TimesOK, None
<1>4. ReloadsInTime' /\ LeftOut'
  BY <1>1 DEF LateInv, ReloadsInTime, LeftOut
<1>5. enabled
  BY <1>1 DEF LateInv, IInv, EntryReads
<1>6. IF start = NoStart \/ lastRun # None
      THEN entryRun.at \in {since, since - Repeat}
      ELSE entryRun.at = since - LongBack
  BY <1>1 DEF LateInv, IInv, EntryReads
<1>7. entryRun.at \in Int
  BY <1>3, <1>6, RepeatType, ScheduleFacts
<1>8. CASE ~IsDue(entryRun).due
  <2>1. UNCHANGED <<entryRun, lastRun, ran, since>>
    BY <1>8 DEF Check
  <2>2. RunsStarted'
    BY <1>1, <1>3, <2>1, Zenon DEF LateInv, RunsStarted
  <2>3. RowInTime'
    <3>1. InTime(now)' <=> InTime(now)
      BY <1>1, <2>1, InTimeKept
    <3>2. QED
      BY <1>1, <2>1, <3>1 DEF LateInv, RowInTime, TimeReadRight
  <2>4. WakesInTime'
    <3> SUFFICES ASSUME TimeReadRight
                 PROVE  wake' \in Int /\ now <= wake' /\ InTime(wake)'
      BY <1>1 DEF WakesInTime, TimeReadRight
    <3>1. /\ IsDue(entryRun).next \in Int /\ IsDue(entryRun).next >= 1
          /\ InTime(now + IsDue(entryRun).next)
      BY <1>3, <1>6, <1>8, NotDueWake DEF LateInv
    <3>2. QED
      BY <1>1, <1>3, <2>1, <3>1, InTimeKept
  <2>5. QED
    BY <1>2, <1>4, <2>2, <2>3, <2>4 DEF LateInv
<1>9. CASE IsDue(entryRun).due
  <2>1. lastRun' = DefaultNow /\ ran' = TRUE /\ since' = now
    BY <1>9 DEF Check
  <2>2. lastRun' # None'
    BY <1>3, <2>1, DefaultNowReads
  <2>3. RunsStarted'
    <3> SUFFICES ASSUME start # NoStart PROVE start <= now
      BY <1>1 DEF RunsStarted
    <3>1. ~Unstarted
      BY <1>9, DueMeans
    <3>2. QED
      BY <1>3, <3>1, StartedMeans
  <2>4. ASSUME TimeReadRight
        PROVE  /\ wake' \in Int /\ now <= wake'
               /\ InTime(wake)' /\ InTime(now)'
    <3> DEFINE next == IsDue(entryRun).next
               from == IF start = NoStart THEN now ELSE Later(now, start)
    <3>1. /\ start # NoStart => start <= now
          /\ next \in Int /\ next >= 1
          /\ sched.kind = "interval" => next = sched.every
          /\ sched.kind = "crontab" => next = NextMatch(now) - now
      BY <1>3, <1>7, <1>9, <2>4, DueWake
    <3>2. from = now
      BY <1>3, <3>1, ScheduleFacts DEF Later
    <3>3. wake' = now + next
      BY <1>1
    <3> HIDE DEF next
    <3>4. (IF start = NoStart THEN since ELSE Later(since, start))' = now
      BY <1>1, <2>1, <3>2 DEF Later
    <3>5. CASE sched.kind = "interval"
      <4>1. now <= now + sched.every
        BY <1>3, <3>5, ScheduleFacts
      <4>2. QED
        BY <1>1, <1>3, <2>1, <2>2, <3>1, <3>3, <3>5, <4>1 DEF InTime
    <3>6. CASE sched.kind = "clocked"
      BY <1>1, <1>3, <2>1, <3>1, <3>3, <3>6 DEF InTime
    <3>7. CASE sched.kind = "crontab"
      <4>1. /\ NextMatch(now) \in Int
            /\ \A k \in (now + 1)..(NextMatch(now) - 1) : ~Matches(k)
        <5>1. sched \in Schedules /\ now \in Int
          BY <1>3 DEF TimesOK
        <5>2. QED
          BY <3>7, <5>1, NextMatchMatches
      <4>2. wake' = NextMatch(now)
        BY <1>3, <3>1, <3>3, <3>7, <4>1
      <4>3. \A k \in (now + 1)..(wake' - 1) : ~Matches(k)'
        BY <1>1, <4>1, <4>2, MatchesKept
      <4>4. \A k \in (now + 1)..(now' - 1) : ~Matches(k)'
        BY <1>1, <1>3
      <4>5. \A k : MatchesIn(NextOffset, k)' <=> Matches(k)'
        <5>1. NextOffset' = Offset'
          BY <2>2, Zenon DEF NextOffset
        <5>2. QED
          BY <5>1, Zenon DEF Matches, MatchesIn
      <4>6. InTime(wake)' /\ InTime(now)'
        BY <1>1, <3>4, <3>7, <4>3, <4>4, <4>5 DEF InTime
      <4>7. QED
        BY <1>3, <3>1, <3>3, <4>6
    <3>8. QED
      BY <1>3, <3>5, <3>6, <3>7, ScheduleFacts
  <2>5. RowInTime' /\ WakesInTime'
    BY <1>1, <2>4 DEF RowInTime, WakesInTime, TimeReadRight
  <2>6. QED
    BY <1>2, <1>4, <2>3, <2>5 DEF LateInv
<1>10. QED
  BY <1>8, <1>9

LEMMA LateInv_step == LateInv /\ [Next]_vars => LateInv'
<1> SUFFICES ASSUME LateInv, [Next]_vars PROVE LateInv'
  OBVIOUS
<1>1. CASE UNCHANGED vars
  <2>1. UNCHANGED <<useTz, zone, sched, start, now, enabled, changed, lastRun, ran, notice,
                    held, entryRun, wake, lastSync, since>> /\ None' = None
    BY <1>1 DEF vars, taskVars, rowVars, beatVars, None
  <2>2. IInv'
    BY <1>1, IInv_step DEF LateInv
  <2>3. (InTime(now)' <=> InTime(now)) /\ (InTime(wake)' <=> InTime(wake))
    BY <2>1, InTimeKept
  <2>4. RunsStarted' /\ ReloadsInTime' /\ LeftOut'
    BY <2>1 DEF LateInv, RunsStarted, ReloadsInTime, LeftOut
  <2>5. RowInTime' /\ WakesInTime'
    BY <2>1, <2>3 DEF LateInv, RowInTime, WakesInTime, TimeReadRight
  <2>6. QED
    BY <2>2, <2>4, <2>5 DEF LateInv
<1>2. QED
  BY <1>1, TickInTime, ChangeInTime, ReloadInTime, CheckInTime DEF Next

\* An enabled task whose times are read right is never late: beat has woken up
\* for it when it was due, through any changes, starts and reloads.  For the
\* first run of a crontab task with a start_time, that is when it matches in
\* the zone of the app, which due_start_time() is given (ModelEntry.is_due).
THEOREM NotLateHolds == Spec => []NotLate
<1>1. LateInv => NotLate
  BY DEF LateInv, RowInTime, NotLate
<1>2. QED
  BY <1>1, LateInv_init, LateInv_step, PTL DEF Spec

-----------------------------------------------------------------------------
(* The types of the variables.                                             *)

\* Every way to write down or to read an instant makes a datetime.
LEMMA DatetimeTypes ==
  ASSUME zone \in ZoneType, now \in Int
  PROVE  /\ Now \in Datetime /\ DefaultNow \in Datetime
         /\ \A d \in Datetime : MakeAware(d) \in Datetime
         /\ \A d \in Datetime, n \in Int : Plus(d, n) \in Datetime
         /\ \A t \in Int : Stored(t) \in Datetime
<1>1. zone.before \in Int /\ zone.after \in Int /\ ChangeAt \in Int
  BY ZonesAssumption DEF ZoneType
<1>2. \A t \in Int : Local(t) \in Int /\ FromLocal(t) \in Int
  BY <1>1 DEF Local, FromLocal
<1>3. \A t \in Int : Aware(t) \in Datetime /\ Naive(t) \in Datetime
  BY DEF Aware, Naive, Datetime
<1>4. \A d \in Datetime : d.at \in Int
  BY DEF Datetime
<1>5. Now \in Datetime /\ DefaultNow \in Datetime
  BY <1>2, <1>3 DEF Now, DefaultNow
<1>6. \A d \in Datetime : MakeAware(d) \in Datetime
  BY <1>2, <1>3, <1>4, Zenon DEF MakeAware
<1>7. \A d \in Datetime, n \in Int : Plus(d, n) \in Datetime
  BY DEF Plus, Datetime
<1>8. \A t \in Int : Stored(t) \in Datetime
  BY <1>2, <1>3 DEF Stored
<1>9. QED
  BY <1>5, <1>6, <1>7, <1>8

\* What __init__() counts from is there, though the row may have no run.
LEMMA FreshRunType == ASSUME TypeOK PROVE FreshRun \in Datetime
<1>1. zone \in ZoneType /\ now \in Int /\ changed \in Datetime
      /\ lastRun \in Datetime \cup {None}
  BY DEF TypeOK
<1>2. 0 \in Int /\ -LongBack \in Int
  BY TimeAssumption
<1>3. MakeAware(changed) \in Datetime
  BY <1>1, DatetimeTypes
<1>4. Naive(MakeAware(changed).at) \in Datetime
  BY <1>3 DEF Naive, Datetime
<1>5. CASE lastRun # None
  BY <1>1, <1>5 DEF FreshRun
<1>6. CASE lastRun = None
  <2>1. FreshRun = Plus(IF useTz THEN changed ELSE Naive(MakeAware(changed).at),
                        IF start # NoStart THEN -LongBack ELSE 0)
    BY <1>6, Zenon DEF FreshRun
  <2>2. QED
    BY <1>1, <1>2, <1>4, <2>1, DatetimeTypes
<1>7. QED
  BY <1>5, <1>6

\* is_due() returns a time to sleep.
LEMMA IsDueType ==
  ASSUME TimesOK, NEW run \in Datetime
  PROVE  IsDue(run).next \in Int
<1> DEFINE t == run.at
<1>1. now \in Nat /\ now \in Int /\ zone \in ZoneType /\ sched \in Schedules /\ t \in Int
  BY DEF TimesOK, Datetime
<1>2. MaybeMakeAware(run).at = t
  BY DEF MaybeMakeAware, Aware
<1>3. \A b, n : Verdict(b, n).next = n
  BY DEF Verdict
<1>4. DefaultNow.at \in Int
  BY <1>1, DatetimeTypes DEF Datetime
<1>5. CASE Unstarted
  <2>1. start \in Int
    BY <1>5, ScheduleFacts DEF Unstarted, TimesOK
  <2>2. DueStartTime \in Int
    <3>1. sched.kind = "crontab" => NextMatchIn(0, start) \in Int
      <4>1. 0 \in Int /\ Day \in Nat
        BY TimeAssumption
      <4>2. sched.kind = "crontab" => NextMatchIn(0, start) \in (start + 1)..(start + Day)
        BY <1>1, <2>1, <4>1, NextMatchInMatches
      <4>3. QED
        BY <2>1, <4>1, <4>2
    <3>2. QED
      BY <2>1, <3>1 DEF DueStartTime
  <2>3. IsDue(run).next = DueStartTime - DefaultNow.at
    BY <1>3, <1>5, Zenon DEF IsDue
  <2>4. QED
    BY <1>4, <2>2, <2>3
<1>6. CASE ~Unstarted
  <2>1. IsDue(run) = ScheduleIsDue(t)
    BY <1>2, <1>6, Zenon DEF IsDue
  <2>2. CASE sched.kind = "interval"
    <3>1. sched.every \in Int
      BY <1>1, <2>2, ScheduleFacts
    <3>2. ScheduleIsDue(t).next \in {sched.every, t + sched.every - now}
      BY <1>3, <2>2 DEF ScheduleIsDue, IntervalIsDue
    <3>3. QED
      BY <1>1, <2>1, <3>1, <3>2
  <2>3. CASE sched.kind = "crontab"
    <3>1. NextMatch(now) \in Int
      BY <1>1, <2>3, NextMatchMatches
    <3>2. ScheduleIsDue(t).next = NextMatch(now) - now
      <4>1. ScheduleIsDue(t) = CrontabIsDue(t)
        BY <2>3 DEF ScheduleIsDue
      <4>2. QED
        BY <1>3, <4>1, Zenon DEF CrontabIsDue
    <3>3. QED
      BY <1>1, <2>1, <3>1, <3>2
  <2>4. CASE sched.kind = "clocked"
    <3> DEFINE time == MaybeMakeAware(Stored(sched.time)).at
    <3>1. time \in Int
      <4>1. Stored(sched.time) \in Datetime
        BY <1>1, <2>4, ScheduleFacts, DatetimeTypes
      <4>2. time = Stored(sched.time).at
        BY DEF MaybeMakeAware, Aware
      <4>3. QED
        BY <4>1, <4>2 DEF Datetime
    <3>2. ScheduleIsDue(t) = ClockedIsDue
      BY <2>4 DEF ScheduleIsDue
    <3> HIDE DEF time
    <3>3. ClockedIsDue = IF time <= now THEN Verdict(TRUE, Never) ELSE Verdict(FALSE, time - now)
      BY DEF ClockedIsDue, time
    <3>4. ScheduleIsDue(t).next \in {Never, time - now}
      BY <1>3, <3>2, <3>3
    <3>5. QED
      BY <1>1, <2>1, <3>1, <3>4, TimeAssumption
  <2>5. QED
    BY <1>1, <2>2, <2>3, <2>4, ScheduleFacts
<1>7. QED
  BY <1>5, <1>6

LEMMA TypeOK_init == Init => TypeOK
<1> SUFFICES ASSUME Init PROVE TypeOK
  OBVIOUS
<1>1. /\ useTz \in BOOLEAN /\ zone \in Zones /\ sched \in Schedules /\ start \in Starts
      /\ now = 0 /\ enabled = TRUE /\ changed = Now /\ lastRun = None /\ ran = FALSE
      /\ notice = TRUE /\ held = FALSE /\ entryRun = Now /\ wake = 0 /\ lastSync = 0
      /\ changes = 0 /\ since = 0
  BY DEF Init
<1>2. zone \in ZoneType /\ sched \in ScheduleType /\ start \in Int \cup {NoStart}
  BY <1>1, ZonesAssumption, SchedulesAssumption
<1>3. now \in Int
  BY <1>1
<1>4. Now \in Datetime
  BY <1>2, <1>3, DatetimeTypes
<1>5. /\ now \in 0..MaxTime /\ lastSync \in 0..now /\ changes \in 0..MaxChanges
      /\ since \in 0..now /\ wake \in Int
  BY <1>1, BoundsAssumption
<1>6. enabled \in BOOLEAN /\ ran \in BOOLEAN /\ notice \in BOOLEAN /\ held \in BOOLEAN
  BY <1>1
<1>7. QED
  BY <1>1, <1>2, <1>4, <1>5, <1>6, Zenon DEF TypeOK

LEMMA TypeOK_step == IInv /\ TypeOK /\ [Next]_vars => TypeOK'
<1> SUFFICES ASSUME IInv, TypeOK, [Next]_vars PROVE TypeOK'
  OBVIOUS
<1>1. /\ useTz \in BOOLEAN /\ zone \in ZoneType /\ sched \in ScheduleType
      /\ start \in Int \cup {NoStart} /\ now \in 0..MaxTime
      /\ enabled \in BOOLEAN /\ ran \in BOOLEAN
      /\ changed \in Datetime /\ lastRun \in Datetime \cup {None}
      /\ notice \in BOOLEAN /\ held \in BOOLEAN /\ entryRun \in Datetime /\ wake \in Int
      /\ lastSync \in 0..now /\ changes \in 0..MaxChanges /\ since \in 0..now
  BY DEF TypeOK
<1>2. now \in Int /\ Now \in Datetime /\ DefaultNow \in Datetime /\ TimesOK
  <2>1. now \in Int
    BY <1>1
  <2>2. QED
    BY <1>1, <2>1, DatetimeTypes DEF IInv
<1>3. None' = None
  BY DEF None
<1>4. CASE UNCHANGED vars
  <2>1. UNCHANGED <<useTz, zone, sched, start, now, enabled, changed, lastRun, ran, notice,
                    held, entryRun, wake, lastSync, changes, since>>
    BY <1>4 DEF vars, taskVars, rowVars, beatVars
  <2>2. QED
    BY <1>1, <1>3, <2>1, Zenon DEF TypeOK
<1>5. CASE Tick
  <2>1. UNCHANGED <<useTz, zone, sched, start, enabled, changed, lastRun, ran, notice,
                    held, entryRun, wake, lastSync, changes, since>>
        /\ now < MaxTime /\ now' = now + 1
    BY <1>5 DEF Tick, taskVars, rowVars, beatVars
  <2>2. now' \in 0..MaxTime /\ lastSync' \in 0..now' /\ since' \in 0..now'
    BY <1>1, <2>1, BoundsAssumption
  <2>3. QED
    BY <1>1, <1>3, <2>1, <2>2, Zenon DEF TypeOK
<1>6. ASSUME NEW on \in BOOLEAN, Change(on) PROVE TypeOK'
  <2>1. /\ enabled' = on /\ changed' = Now /\ notice' = TRUE
        /\ lastRun' = (IF on THEN lastRun ELSE None)
        /\ UNCHANGED <<useTz, zone, sched, start, now, ran, held, entryRun, wake, lastSync>>
    BY <1>6 DEF Change, taskVars, beatVars
  <2>2. changes' \in 0..MaxChanges
    BY <1>1, <1>6, BoundsAssumption DEF Change
  <2>3. since' \in 0..now
    <3>1. since' \in {since, now}
      BY <1>6 DEF Change
    <3>2. now \in 0..now
      BY <1>1
    <3>3. QED
      BY <1>1, <3>1, <3>2
  <2>4. QED
    BY <1>1, <1>2, <1>3, <2>1, <2>2, <2>3, Zenon DEF TypeOK
<1>7. CASE Reload
  <2>1. /\ held' = Selected /\ entryRun' = FreshRun /\ lastSync' = now
        /\ UNCHANGED <<useTz, zone, sched, start, now, changes, since>>
        /\ enabled' \in {enabled, FALSE} /\ ran' \in {ran, FALSE}
        /\ lastRun' \in {lastRun, None} /\ changed' \in {changed, Now}
        /\ notice' \in {TRUE, FALSE}
    BY <1>7 DEF Reload, taskVars, rowVars
  <2>2. FreshRun \in Datetime
    BY FreshRunType
  <2>3. IsDue(FreshRun).next \in Int
    BY <1>2, <2>2, IsDueType
  <2>4. wake' \in Int
    <3>1. wake' \in {now, now + Never, now + IsDue(FreshRun).next}
      BY <1>7 DEF Reload
    <3>2. QED
      BY <1>2, <2>3, <3>1, TimeAssumption
  <2>5. lastSync' \in 0..now
    BY <1>1, <2>1
  <2>6. Selected \in BOOLEAN
    BY <1>1, Zenon DEF Selected
  <2>7. QED
    BY <1>1, <1>2, <1>3, <2>1, <2>2, <2>4, <2>5, <2>6, Zenon DEF TypeOK
<1>8. CASE Check
  <2>1. /\ wake' = now + IsDue(entryRun).next
        /\ UNCHANGED <<useTz, zone, sched, start, now, enabled, changed, notice, held,
                       lastSync, changes>>
        /\ entryRun' \in {entryRun, DefaultNow} /\ lastRun' \in {lastRun, DefaultNow}
        /\ ran' \in {ran, TRUE} /\ since' \in {since, now}
    BY <1>8 DEF Check, taskVars
  <2>2. wake' \in Int
    <3>1. IsDue(entryRun).next \in Int
      BY <1>1, <1>2, IsDueType
    <3>2. QED
      BY <1>2, <2>1, <3>1
  <2>3. since' \in 0..now
    BY <1>1, <2>1
  <2>4. QED
    BY <1>1, <1>2, <1>3, <2>1, <2>2, <2>3, Zenon DEF TypeOK
<1>9. QED
  BY <1>4, <1>5, <1>6, <1>7, <1>8 DEF Next

\* The types hold, and with them: an entry in the schedule always has a last
\* run to count from, whether or not its row has one (ModelEntry.__init__).
THEOREM TypeCorrect == Spec => []TypeOK
BY IInv_init, IInv_step, TypeOK_init, TypeOK_step, PTL DEF Spec
=============================================================================
