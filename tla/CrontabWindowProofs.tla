------------------------- MODULE CrontabWindowProofs -------------------------
(***************************************************************************)
(* Proofs about CrontabWindow, for all zones that are near enough to each  *)
(* other, all crontabs, and any length of time.                            *)
(***************************************************************************)
EXTENDS CrontabWindow, TLAPS

\* A run that is waiting for a reload is due in this very slot: the schedule
\* is too old for the clock to move on.
WaitsForReload ==
  dueSince # 0 => dueSince = now /\ lastFullSync < now /\ Matches(now)

IInv == TypeOK /\ WaitsForReload

-----------------------------------------------------------------------------
(* Division.                                                               *)

\* Quotient and remainder of slots by hours.
LEMMA Hours ==
  ASSUME NEW x \in Int
  PROVE  /\ x \div 12 \in Int /\ (x % 12) \in 0..11
         /\ x = (12 * (x \div 12)) + (x % 12)
OBVIOUS

\* Hours of a day, of a clock that is e hours ahead of another.
LEMMA HoursApart ==
  ASSUME NEW a \in Int, NEW b \in Int, NEW off \in Int, NEW e \in Int, a - e = b + off
  PROVE  ((a % 24) - e) % 24 = ((b % 24) + off + 24) % 24
OBVIOUS

\* The rounding of the offset, towards zero, in terms of the quotient.
LEMMA TruncatedBy12 ==
  ASSUME NEW gap \in Int
  PROVE  /\ Truncated(gap, 12) \in Int
         /\ gap >= 0 => gap - (12 * Truncated(gap, 12)) \in 0..11
         /\ gap <= 0 => gap - (12 * Truncated(gap, 12)) \in -11..0
         /\ gap % 12 = 0 => gap = 12 * Truncated(gap, 12)
BY Hours DEF Truncated

\* A remainder as SQL takes it is that of TLA+ where nothing is negative.
LEMMA RemainderOfNat ==
  ASSUME NEW n \in Nat
  PROVE  Remainder(n, 24) = n % 24
<1>1. Truncated(n, 24) = n \div 24
  BY DEF Truncated
<1>2. n - (24 * (n \div 24)) = n % 24
  OBVIOUS
<1>3. QED
  BY <1>1, <1>2 DEF Remainder

-----------------------------------------------------------------------------
\* The hour that the query works out for a task is within two hours of the
\* server's, in the slot the task is due in.
LEMMA OffsetIsNear ==
  ASSUME NEW sjan \in Int, NEW stoday \in Int, NEW zjan \in Int, NEW ztoday \in Int,
         NEW slot \in Int,
         sjan - zjan > -300,
         (stoday - ztoday) - (sjan - zjan) \in -24..24,
         (sjan - zjan) % 12 # 0 =>
           IF sjan - zjan > 0 THEN (stoday - ztoday) - (sjan - zjan) <= 12
           ELSE (stoday - ztoday) - (sjan - zjan) >= -12
  PROVE  /\ Truncated(sjan - zjan, 12) >= -24
         /\ ((slot + stoday) \div 12) - ((slot + ztoday) \div 12)
              - Truncated(sjan - zjan, 12) \in -2..2
<1> DEFINE gap == sjan - zjan
           off == Truncated(gap, 12)
           a   == (slot + stoday) \div 12
           b   == (slot + ztoday) \div 12
<1>1. /\ a \in Int /\ slot + stoday - (12 * a) \in 0..11
      /\ b \in Int /\ slot + ztoday - (12 * b) \in 0..11
  BY Hours
<1>2. gap \in Int
  OBVIOUS
<1>3. /\ off \in Int
      /\ gap >= 0 => gap - (12 * off) \in 0..11
      /\ gap <= 0 => gap - (12 * off) \in -11..0
      /\ gap % 12 = 0 => gap = 12 * off
  BY <1>2, TruncatedBy12
<1>4. gap % 12 = 0 \/ gap > 0 \/ gap < 0
  BY <1>2
<1> HIDE DEF off, a, b
<1>5. off >= -24
  BY <1>2, <1>3
<1>6. a - b - off \in -2..2
  <2>1. CASE gap % 12 = 0
    BY <1>1, <1>2, <1>3, <2>1
  <2>2. CASE gap % 12 # 0 /\ gap > 0
    BY <1>1, <1>2, <1>3, <2>2
  <2>3. CASE gap % 12 # 0 /\ gap < 0
    BY <1>1, <1>2, <1>3, <2>3
  <2>4. QED
    BY <1>4, <2>1, <2>2, <2>3
<1>7. QED
  BY <1>5, <1>6 DEF off, a, b

\* The query never leaves out a task in the slot it is due in.
LEMMA DueIsSelected ==
  ASSUME TypeOK, Matches(now)
  PROVE  ~Excluded
<1>1. /\ server \in ServerZones /\ zone \in TaskZones /\ crontab \in Crontabs /\ now \in Nat
      /\ server \in ZoneType /\ zone \in ZoneType /\ crontab \in CrontabType
  BY ZonesAssumption, CrontabsAssumption DEF TypeOK
<1>2. /\ server.jan \in Int /\ server.today \in Int
      /\ zone.jan \in Int /\ zone.today \in Int
  BY <1>1 DEF ZoneType
<1> SUFFICES ASSUME crontab.plain
             PROVE  \E h \in crontab.hours : ServerHour(h) \in HoursToInclude
  BY DEF Excluded
<1>3. PICK h \in 0..23 : crontab.hours = {h}
  BY <1>1, CrontabsAssumption
<1>4. HourIn(zone, now) = h
  BY <1>3 DEF Matches
<1> DEFINE off == OffsetHours
           a   == (now + server.today) \div 12
           b   == (now + zone.today) \div 12
           e   == a - b - off
<1>5. off >= -24 /\ off \in Int /\ a \in Int /\ b \in Int /\ e \in -2..2
  <2>1. LET gap   == server.jan - zone.jan
            shift == server.today - zone.today - gap
        IN /\ gap > -25 * SlotsPerHour
           /\ shift \in -24..24
           /\ gap % SlotsPerHour # 0 => IF gap > 0 THEN shift <= 12 ELSE shift >= -12
    BY <1>1, NearAssumption
  <2>2. /\ server.jan - zone.jan > -300
        /\ (server.today - zone.today) - (server.jan - zone.jan) \in -24..24
        /\ (server.jan - zone.jan) % 12 # 0 =>
             IF server.jan - zone.jan > 0
             THEN (server.today - zone.today) - (server.jan - zone.jan) <= 12
             ELSE (server.today - zone.today) - (server.jan - zone.jan) >= -12
    BY <2>1 DEF SlotsPerHour
  <2>3. off = Truncated(server.jan - zone.jan, 12)
    BY DEF OffsetHours, SlotsPerHour
  <2>4. off >= -24 /\ e \in -2..2
    <3>1. now \in Int
      BY <1>1
    <3>2. QED
      BY <1>2, <2>2, <2>3, <3>1, OffsetIsNear
  <2>5. off \in Int /\ a \in Int /\ b \in Int
    <3>1. server.jan - zone.jan \in Int /\ now + server.today \in Int /\ now + zone.today \in Int
      BY <1>1, <1>2
    <3>2. off \in Int
      BY <2>3, <3>1, TruncatedBy12
    <3>3. a \in Int /\ b \in Int
      BY <3>1, Hours
    <3>4. QED
      BY <3>2, <3>3
  <2>6. QED
    BY <2>4, <2>5
<1>6. HourIn(server, now) = a % 24 /\ h = b % 24
  BY <1>4 DEF HourIn, SlotsPerHour
<1>7. ServerHour(h) = (h + off + 24) % 24
  <2>1. h + off + 24 \in Nat
    BY <1>5
  <2>2. QED
    BY <2>1, RemainderOfNat DEF ServerHour
<1> HIDE DEF off, a, b
<1>8. ((a % 24) - e) % 24 = ((b % 24) + off + 24) % 24
  <2>1. a - e = b + off
    BY <1>5
  <2>2. e \in Int
    BY <1>5
  <2> HIDE DEF e
  <2>3. QED
    BY <1>5, <2>1, <2>2, HoursApart
<1>9. ServerHour(h) = (HourIn(server, now) + (-e)) % 24 /\ -e \in -2..2
  <2>1. a % 24 \in Int
    BY <1>5
  <2>2. ServerHour(h) = ((a % 24) - e) % 24
    BY <1>6, <1>7, <1>8
  <2> HIDE DEF e
  <2>3. (a % 24) + (-e) = (a % 24) - e /\ -e \in -2..2
    BY <1>5, <2>1
  <2>4. QED
    BY <1>6, <2>2, <2>3
<1>10. ServerHour(h) \in HoursToInclude
  BY <1>9 DEF HoursToInclude
<1>11. QED
  BY <1>3, <1>10

-----------------------------------------------------------------------------
\* The invariant holds at first.
LEMMA IInv_init == Init => IInv
<1> SUFFICES ASSUME Init PROVE IInv
  OBVIOUS
<1>1. now \in Nat /\ lastFullSync = now /\ dueSince = 0
  BY TimeAssumption DEF Init
<1>2. loaded \in BOOLEAN
  BY Zenon DEF Init, Excluded
<1>3. TypeOK
  BY <1>1, <1>2 DEF Init, TypeOK, SyncMax
<1>4. QED
  BY <1>1, <1>3 DEF IInv, WaitsForReload

\* The clock moves on where no run waits.
LEMMA TickStep == ASSUME IInv, Tick PROVE IInv'
<1>1. /\ now' = now + 1 /\ now \in Nat /\ lastFullSync = now
      /\ UNCHANGED <<server, zone, crontab, loaded, lastFullSync>>
  BY DEF IInv, TypeOK, Tick, SyncMax
<1>2. dueSince = 0
  BY <1>1 DEF IInv, WaitsForReload
<1>3. dueSince' = 0 \/ (dueSince' = now' /\ Matches(now'))
  BY <1>2 DEF Tick
<1>4. TypeOK'
  BY <1>1, <1>3 DEF IInv, TypeOK, SyncMax
<1>5. WaitsForReload'
  BY <1>1, <1>3 DEF WaitsForReload, Matches, HourIn, MinuteIn
<1>6. QED
  BY <1>4, <1>5 DEF IInv

\* A reload finds the task whose run waits.
LEMMA ReloadStep == ASSUME IInv, Reload PROVE IInv'
<1>1. UNCHANGED <<server, zone, crontab, now>> /\ lastFullSync' = now
      /\ loaded' = ~Excluded /\ (dueSince' = IF loaded' THEN 0 ELSE dueSince)
  BY DEF Reload
<1>2. dueSince # 0 => ~Excluded
  BY DueIsSelected DEF IInv, WaitsForReload
<1>3. dueSince' = 0
  BY <1>1, <1>2, Zenon
<1>4. loaded' \in BOOLEAN
  BY <1>1, Zenon DEF Excluded
<1>5. TypeOK'
  BY <1>1, <1>3, <1>4 DEF IInv, TypeOK, SyncMax
<1>6. QED
  BY <1>3, <1>5 DEF IInv, WaitsForReload

LEMMA IInv_step == IInv /\ [Next]_vars => IInv'
<1> SUFFICES ASSUME IInv, [Next]_vars PROVE IInv'
  OBVIOUS
<1>1. CASE UNCHANGED vars
  BY <1>1 DEF vars, IInv, TypeOK, WaitsForReload, Matches, HourIn, MinuteIn
<1>2. QED
  BY <1>1, TickStep, ReloadStep DEF Next

LEMMA IInvHolds == Spec => []IInv
BY IInv_init, IInv_step, PTL DEF Spec

\* The variables keep their types, and the schedule that is loaded is never
\* older than SCHEDULE_SYNC_MAX_INTERVAL.
THEOREM TypeCorrect == Spec => []TypeOK
BY IInvHolds, PTL DEF IInv

\* A crontab task is sent at its time or at the first reload after it, in all
\* zones that NearAssumption admits and for every hour and minute.
THEOREM SentInTimeHolds == Spec => []SentInTime
<1>1. IInv => SentInTime
  BY DEF IInv, TypeOK, WaitsForReload, SentInTime
<1>2. QED
  BY <1>1, IInvHolds, PTL
=============================================================================
