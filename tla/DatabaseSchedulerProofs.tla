----------------------- MODULE DatabaseSchedulerProofs -----------------------
(***************************************************************************)
(* Proofs about DatabaseScheduler, for any tasks, intervals, start and     *)
(* expiry times, any faults and any bounds.                                *)
(***************************************************************************)
EXTENDS DatabaseScheduler, TLAPS

-----------------------------------------------------------------------------
(* Rows and instances.                                                     *)

\* What PeriodicTask.save() writes has the type of a row.
LEMMA WrittenType ==
  ASSUME now \in Nat, NEW m, m.pk \in Nat, m.enabled \in BOOLEAN,
         m.lastRun \in Int, m.count \in Nat, m.rev \in Nat
  PROVE  /\ Written(m) \in RowType
         /\ Written(m).pk = m.pk /\ Written(m).count = m.count
BY DEF Written, RowType

\* What all_as_schedule() makes of a row has the type of an instance.
LEMMA FreshType ==
  ASSUME row \in [Tasks -> RowType], NEW t \in Tasks
  PROVE  /\ Fresh(t) \in ModelType
         /\ Fresh(t).pk = row[t].pk /\ Fresh(t).count = row[t].count
BY TasksAssumption, DelaysAssumption DEF Fresh, RowType, ModelType

\* Setting a field of a row to a value of its type gives a row, of the same
\* primary key and with the same count.
LEMMA RowFields ==
  ASSUME NEW r \in RowType
  PROVE  /\ \A e \in BOOLEAN : /\ [r EXCEPT !.enabled = e] \in RowType /\ [r EXCEPT !.enabled = e].pk = r.pk
                               /\ [r EXCEPT !.enabled = e].count = r.count
         /\ \A i \in Int : /\ [r EXCEPT !.lastRun = i] \in RowType /\ [r EXCEPT !.lastRun = i].pk = r.pk
                           /\ [r EXCEPT !.lastRun = i].count = r.count
         /\ \A n \in Nat : /\ [r EXCEPT !.count = n] \in RowType /\ [r EXCEPT !.count = n].pk = r.pk
         /\ \A n \in Nat : /\ [r EXCEPT !.changed = n] \in RowType /\ [r EXCEPT !.changed = n].pk = r.pk
                           /\ [r EXCEPT !.changed = n].count = r.count
         /\ \A n \in Nat : /\ [r EXCEPT !.rev = n] \in RowType /\ [r EXCEPT !.rev = n].pk = r.pk
                           /\ [r EXCEPT !.rev = n].count = r.count
         /\ \A n \in Nat : [r EXCEPT !.pk = n] \in RowType
<1>1. \A e \in BOOLEAN : /\ [r EXCEPT !.enabled = e] \in RowType /\ [r EXCEPT !.enabled = e].pk = r.pk
                        /\ [r EXCEPT !.enabled = e].count = r.count
  BY DEF RowType
<1>2. \A i \in Int : /\ [r EXCEPT !.lastRun = i] \in RowType /\ [r EXCEPT !.lastRun = i].pk = r.pk
                    /\ [r EXCEPT !.lastRun = i].count = r.count
  BY DEF RowType
<1>3. \A n \in Nat : /\ [r EXCEPT !.count = n] \in RowType /\ [r EXCEPT !.count = n].pk = r.pk
  BY DEF RowType
<1>4. \A n \in Nat : /\ [r EXCEPT !.changed = n] \in RowType /\ [r EXCEPT !.changed = n].pk = r.pk
                    /\ [r EXCEPT !.changed = n].count = r.count
  BY DEF RowType
<1>5. \A n \in Nat : /\ [r EXCEPT !.rev = n] \in RowType /\ [r EXCEPT !.rev = n].pk = r.pk
                    /\ [r EXCEPT !.rev = n].count = r.count
  BY DEF RowType
<1>6. \A n \in Nat : [r EXCEPT !.pk = n] \in RowType
  BY DEF RowType
<1>7. QED
  BY <1>1, <1>2, <1>3, <1>4, <1>5, <1>6

\* Setting a field of an instance to a value of its type gives an instance
\* of the same row, and changes no other field of those the proofs look at.
LEMMA SetEnabled ==
  ASSUME NEW m \in ModelType, NEW e \in BOOLEAN
  PROVE  /\ [m EXCEPT !.enabled = e] \in ModelType /\ [m EXCEPT !.enabled = e].pk = m.pk
         /\ [m EXCEPT !.enabled = e].enabled = e
         /\ [m EXCEPT !.enabled = e].count = m.count
BY DEF ModelType

\* The same for lastRun.
LEMMA SetLastRun ==
  ASSUME NEW m \in ModelType, NEW i \in Int
  PROVE  /\ [m EXCEPT !.lastRun = i] \in ModelType /\ [m EXCEPT !.lastRun = i].pk = m.pk
         /\ [m EXCEPT !.lastRun = i].enabled = m.enabled
         /\ [m EXCEPT !.lastRun = i].count = m.count
BY DEF ModelType

\* The same for count.
LEMMA SetCount ==
  ASSUME NEW m \in ModelType, NEW n \in Nat
  PROVE  /\ [m EXCEPT !.count = n] \in ModelType /\ [m EXCEPT !.count = n].pk = m.pk
         /\ [m EXCEPT !.count = n].enabled = m.enabled
         /\ [m EXCEPT !.count = n].count = n
BY DEF ModelType

\* The same for changed.
LEMMA SetChanged ==
  ASSUME NEW m \in ModelType, NEW n \in Nat
  PROVE  /\ [m EXCEPT !.changed = n] \in ModelType /\ [m EXCEPT !.changed = n].pk = m.pk
         /\ [m EXCEPT !.changed = n].enabled = m.enabled
         /\ [m EXCEPT !.changed = n].count = m.count
BY DEF ModelType

\* The same for rev.
LEMMA SetRev ==
  ASSUME NEW m \in ModelType, NEW n \in Nat
  PROVE  /\ [m EXCEPT !.rev = n] \in ModelType /\ [m EXCEPT !.rev = n].pk = m.pk
         /\ [m EXCEPT !.rev = n].enabled = m.enabled
         /\ [m EXCEPT !.rev = n].count = m.count
BY DEF ModelType

\* The same for noChanges.
LEMMA SetNoChanges ==
  ASSUME NEW m \in ModelType, NEW e \in BOOLEAN
  PROVE  /\ [m EXCEPT !.noChanges = e] \in ModelType /\ [m EXCEPT !.noChanges = e].pk = m.pk
         /\ [m EXCEPT !.noChanges = e].enabled = m.enabled
         /\ [m EXCEPT !.noChanges = e].count = m.count
BY DEF ModelType

\* _disable() and the end of a one-off task leave an instance of the same row.
LEMMA EndedType ==
  ASSUME NEW m \in ModelType
  PROVE  LET e == [m EXCEPT !.enabled = FALSE, !.lastRun = 0, !.noChanges = TRUE]
             s == [m EXCEPT !.enabled = FALSE, !.lastRun = 0, !.count = 0,
                            !.noChanges = FALSE]
         IN  /\ e \in ModelType /\ e.pk = m.pk /\ e.enabled = FALSE
             /\ s \in ModelType /\ s.pk = m.pk /\ s.enabled = FALSE
<1> DEFINE m1 == [m EXCEPT !.enabled = FALSE]
           m2 == [m1 EXCEPT !.lastRun = 0]
           m3 == [m2 EXCEPT !.noChanges = TRUE]
           m4 == [m2 EXCEPT !.count = 0]
           m5 == [m4 EXCEPT !.noChanges = FALSE]
<1>1. [m EXCEPT !.enabled = FALSE, !.lastRun = 0, !.noChanges = TRUE] = m3
  BY Zenon
<1>2. [m EXCEPT !.enabled = FALSE, !.lastRun = 0, !.count = 0,
                !.noChanges = FALSE] = m5
  BY Zenon
<1>3. m1 \in ModelType /\ m1.pk = m.pk /\ m1.enabled = FALSE
  BY SetEnabled
<1> HIDE DEF m1
<1>4. m2 \in ModelType /\ m2.pk = m1.pk /\ m2.enabled = m1.enabled
  BY <1>3, SetLastRun
<1> HIDE DEF m2
<1>5. m3 \in ModelType /\ m3.pk = m2.pk /\ m3.enabled = m2.enabled
  BY <1>4, SetNoChanges
<1>6. m4 \in ModelType /\ m4.pk = m2.pk /\ m4.enabled = m2.enabled
  BY <1>4, SetCount
<1> HIDE DEF m3, m4
<1>7. m5 \in ModelType /\ m5.pk = m4.pk /\ m5.enabled = m4.enabled
  BY <1>6, SetNoChanges
<1> HIDE DEF m5
<1>8. QED
  BY <1>1, <1>2, <1>3, <1>4, <1>5, <1>6, <1>7

\* is_due() keeps the type of the instance, and its primary key.
LEMMA CheckedType ==
  ASSUME model \in [Tasks -> ModelType], NEW t \in Tasks, NEW run
  PROVE  /\ Checked(t, run) \in ModelType
         /\ Checked(t, run).pk = model[t].pk
         /\ Checked(t, run).enabled = FALSE \/ Checked(t, run) = model[t]
<1>1. model[t] \in ModelType
  OBVIOUS
<1>2. QED
  BY <1>1, EndedType DEF Checked

\* reserve() keeps the type of the instance, and its primary key.
LEMMA ReservedType ==
  ASSUME NEW m \in ModelType, NEW i \in Int, NEW n \in Nat
  PROVE  LET r == [m EXCEPT !.lastRun = i, !.count = n, !.noChanges = TRUE]
         IN  r \in ModelType /\ r.pk = m.pk
<1> DEFINE m1 == [m EXCEPT !.lastRun = i]
           m2 == [m1 EXCEPT !.count = n]
           m3 == [m2 EXCEPT !.noChanges = TRUE]
<1>1. [m EXCEPT !.lastRun = i, !.count = n, !.noChanges = TRUE] = m3
  BY Zenon
<1>2. m1 \in ModelType /\ m1.pk = m.pk
  BY SetLastRun
<1> HIDE DEF m1
<1>3. m2 \in ModelType /\ m2.pk = m1.pk
  BY <1>2, SetCount
<1> HIDE DEF m2
<1>4. m3 \in ModelType /\ m3.pk = m2.pk
  BY <1>3, SetNoChanges
<1> HIDE DEF m3
<1>5. QED
  BY <1>1, <1>2, <1>3, <1>4

\* The delay until an entry is looked at again is an integer.
LEMMA DelayType ==
  ASSUME now \in Nat, NEW t \in Tasks, NEW run \in Int
  PROVE  Delay(t, run) \in Int
BY TasksAssumption, DelaysAssumption DEF Delay

-----------------------------------------------------------------------------
(* Types.                                                                  *)

\* No row, no instance, and the rows Init and the client make have the type of one.
LEMMA NewType ==
  ASSUME NEW n \in Nat, NEW c \in Nat
  PROVE  /\ NoRow \in RowType /\ NoModel \in ModelType /\ NoModel.pk = 0
         /\ [NoRow EXCEPT !.pk = n, !.enabled = TRUE] \in RowType
         /\ [NoRow EXCEPT !.pk = n, !.enabled = TRUE, !.changed = c] \in RowType
<1> DEFINE r1 == [NoRow EXCEPT !.pk = n]
           r2 == [r1 EXCEPT !.enabled = TRUE]
           r3 == [r2 EXCEPT !.changed = c]
<1>1. [NoRow EXCEPT !.pk = n, !.enabled = TRUE] = r2
  BY Zenon
<1>2. [NoRow EXCEPT !.pk = n, !.enabled = TRUE, !.changed = c] = r3
  BY Zenon
<1>3. NoRow \in RowType /\ NoModel \in ModelType /\ NoModel.pk = 0
  BY DEF NoRow, NoModel, RowType, ModelType
<1>4. r1 \in RowType
  BY <1>3, RowFields
<1> HIDE DEF r1
<1>5. r2 \in RowType
  BY <1>4, RowFields
<1> HIDE DEF r2
<1>6. r3 \in RowType
  BY <1>5, RowFields
<1> HIDE DEF r3
<1>7. QED
  BY <1>1, <1>2, <1>3, <1>5, <1>6

\* The initial values have their types.
LEMMA TypeOK_init == Init => TypeOK
<1> SUFFICES ASSUME Init PROVE TypeOK
  OBVIOUS
<1>1. /\ NoRow \in RowType /\ NoModel \in ModelType
      /\ [NoRow EXCEPT !.pk = 1, !.enabled = TRUE, !.changed = 1] \in RowType
  BY NewType
<1>2. /\ row \in [Tasks -> RowType] /\ form \in RowType
      /\ model \in [Tasks -> ModelType] /\ obj \in ModelType
  BY <1>1 DEF Init
<1>3. /\ scheduleRun \in [Tasks -> Int]
      /\ heapRun \in [Tasks -> Int] /\ heapWhen \in [Tasks -> Int]
      /\ sentAt \in [Tasks -> Nat] /\ ran \in [Tasks -> Nat]
  BY DEF Init
<1>4. /\ now = 1 /\ nextPk = 2 /\ notice = TRUE
      /\ cpc = "idle" /\ cname = NoTask /\ edits = 0
      /\ dirty = {} /\ heap = {} /\ heapNone = TRUE /\ heapInvalidated = FALSE
      /\ polled = FALSE /\ lastFullSync = 1 /\ pc = "load" /\ at = "boot"
      /\ ret = "idle" /\ left = {} /\ saved = {} /\ cur = NoTask
      /\ lastSync = 0 /\ popped = NoTask /\ faults = 0 /\ gap = {}
  BY Zenon DEF Init
<1>5. /\ notice \in BOOLEAN /\ heapNone \in BOOLEAN
      /\ heapInvalidated \in BOOLEAN /\ polled \in BOOLEAN
  BY <1>4, Zenon
<1>6. /\ now = 1 /\ nextPk = 2 /\ cpc = "idle" /\ cname = NoTask /\ edits = 0
      /\ dirty = {} /\ heap = {} /\ lastFullSync = 1 /\ pc = "load" /\ at = "boot"
      /\ ret = "idle" /\ left = {} /\ saved = {} /\ cur = NoTask
      /\ lastSync = 0 /\ popped = NoTask /\ faults = 0 /\ gap = {}
  BY <1>4
<1>7. QED
  BY <1>2, <1>3, <1>5, <1>6 DEF TypeOK

\* The admin's bulk updates keep the type, the primary key and the count of
\* every row.
LEMMA UpdatesType ==
  ASSUME TypeOK, NEW o, NEW S, ClientUpdates(o, S)
  PROVE  /\ row' \in [Tasks -> RowType]
         /\ \A t \in Tasks : row'[t].pk = row[t].pk /\ row'[t].count = row[t].count
<1> DEFINE on(t) == [row[t] EXCEPT !.enabled = TRUE]
           off(t) == [row[t] EXCEPT !.enabled = FALSE, !.lastRun = 0]
           flipped(t) == [row[t] EXCEPT !.enabled = ~@]
<1>1. ASSUME NEW t \in Tasks
      PROVE  \A r \in {on(t), off(t), flipped(t)} :
               r \in RowType /\ r.pk = row[t].pk /\ r.count = row[t].count
  <2> DEFINE r == row[t]
             r1 == [r EXCEPT !.enabled = FALSE]
             r2 == [r1 EXCEPT !.lastRun = 0]
             r3 == [r EXCEPT !.enabled = TRUE]
             r4 == [r EXCEPT !.enabled = ~r.enabled]
  <2>1. r \in RowType
    BY DEF TypeOK
  <2>2. (~r.enabled) \in BOOLEAN
    BY Zenon
  <2>3. off(t) = r2 /\ on(t) = r3 /\ flipped(t) = r4
    BY Zenon
  <2>4. r = row[t]
    OBVIOUS
  <2> HIDE DEF r
  <2>5. /\ r1 \in RowType /\ r1.pk = r.pk /\ r1.count = r.count
        /\ r3 \in RowType /\ r3.pk = r.pk /\ r3.count = r.count
    BY <2>1, RowFields
  <2>6. r4 \in RowType /\ r4.pk = r.pk /\ r4.count = r.count
    BY <2>1, <2>2, RowFields
  <2> HIDE DEF r1
  <2>7. r2 \in RowType /\ r2.pk = r1.pk /\ r2.count = r1.count
    BY <2>5, RowFields
  <2> HIDE DEF r2, r3, r4, on, off, flipped
  <2>8. QED
    BY <2>3, <2>4, <2>5, <2>6, <2>7
<1>2. row' = [t \in Tasks |->
                IF t \notin S THEN row[t]
                ELSE CASE o = "enable"  -> on(t)
                       [] o = "disable" -> off(t)
                       [] o = "toggle"  -> flipped(t)]
      /\ o \in {"enable", "disable", "toggle"}
  BY Zenon DEF ClientUpdates
<1>3. row \in [Tasks -> RowType]
  BY DEF TypeOK
<1> HIDE DEF on, off, flipped
<1>4. \A t \in Tasks : row'[t] \in {row[t], on(t), off(t), flipped(t)}
  BY <1>2
<1>5. QED
  BY <1>1, <1>2, <1>3, <1>4

\* A step of the client, or of the clock, keeps the types.
LEMMA TypeOK_client ==
  ASSUME TypeOK, Tick \/ ClientStep
  PROVE  TypeOK'
<1> USE DEF dbVars, clientVars, memoryVars, heapVars, pollVars, syncVars,
        history, beatUnchanged, Undisturbed, ClientBegins
<1>1. CASE Tick
  BY <1>1 DEF Tick, TypeOK
<1>2. ASSUME NEW t \in Tasks, ClientGets(t) PROVE TypeOK'
  BY <1>2 DEF ClientGets, TypeOK
<1>3. ASSUME NEW t \in Tasks, ClientCreates(t) PROVE TypeOK'
  <2>1. [NoRow EXCEPT !.pk = nextPk, !.enabled = TRUE] \in RowType
    BY NewType DEF TypeOK
  <2>2. QED
    BY <1>3, <2>1 DEF ClientCreates, TypeOK
<1>4. ASSUME NEW t \in Tasks, ClientDeletes(t) PROVE TypeOK'
  <2>1. NoRow \in RowType
    BY NewType
  <2>2. QED
    BY <1>4, <2>1 DEF ClientDeletes, ClientTouches, TypeOK
<1>5. ASSUME NEW o \in ClientOps, NEW S \in SUBSET Tasks, ClientUpdates(o, S)
      PROVE  TypeOK'
  <2>2. row' \in [Tasks -> RowType]
    BY <1>5, UpdatesType
  <2>3. /\ ClientTouches(S) /\ edits' = edits + 1 /\ cpc' = "post"
        /\ UNCHANGED <<now, nextPk, notice, cname, form, ran, beatUnchanged>>
    BY <1>5, Zenon DEF ClientUpdates
  <2>4. QED
    BY <2>2, <2>3 DEF ClientTouches, TypeOK
<1>6. CASE ClientSaves
  <2>1. form' \in RowType
    BY <1>6, RowFields DEF ClientSaves, TypeOK
  <2>2. QED
    BY <1>6, <2>1 DEF ClientSaves, TypeOK
<1>7. CASE ClientWrites
  <2>1. Written([form EXCEPT !.rev = @ + 1]) \in RowType
    BY WrittenType DEF TypeOK, RowType
  <2>2. QED
    BY <1>7, <2>1 DEF ClientWrites, ClientTouches, TypeOK
<1>8. CASE ClientPosts
  BY <1>8 DEF ClientPosts, TypeOK
<1>9. QED
  BY <1>1, <1>2, <1>3, <1>4, <1>5, <1>6, <1>7, <1>8 DEF ClientStep
\* Whether or not a poll finds a change, the variables it sets keep their types.
LEMMA TypeOK_decide ==
  ASSUME TypeOK, NEW changed, Decide(changed)
  PROVE  /\ lastFullSync' \in Nat
         /\ pc' \in {"sync", "access", "run", "populate", "idle"}
         /\ pc' = "sync" => ret' = "load"
         /\ at' \in {"boot", "defaults", "entries", "cond", "copy", "fill"}
         /\ ret' \in {"idle", "load", "push", "exiting", "down"}
         /\ left' \subseteq Tasks /\ saved' \subseteq Tasks
         /\ heap' \subseteq Tasks
         /\ heapRun' \in [Tasks -> Int] /\ heapWhen' \in [Tasks -> Int]
         /\ heapNone' \in BOOLEAN /\ heapInvalidated' \in BOOLEAN
<1>1. CASE changed \/ now - lastFullSync >= SyncMax
  BY <1>1 DEF Decide, BeginSync, heapVars, TypeOK
<1>2. CASE ~(changed \/ now - lastFullSync >= SyncMax)
  <2>1. /\ Continue(heapInvalidated, Scheduled)
        /\ IF at = "copy" THEN EmptyHeap /\ heapNone' = FALSE
           ELSE UNCHANGED <<heap, heapRun, heapWhen, heapNone>>
        /\ UNCHANGED <<lastFullSync, ret, saved>>
    BY <1>2, Zenon DEF Decide
  <2>2. heapNone' \in BOOLEAN /\ heapInvalidated' \in BOOLEAN
    BY <2>1, Zenon DEF Continue, InSetup, TypeOK
  <2>3. /\ pc' \in {"access", "run", "populate", "idle"}
        /\ at' \in {"boot", "defaults", "entries", "cond", "copy", "fill"}
        /\ left' \subseteq Tasks
    BY <2>1 DEF Continue, InSetup, Scheduled, TypeOK
  <2>4. /\ heap' \subseteq Tasks
        /\ heapRun' \in [Tasks -> Int] /\ heapWhen' \in [Tasks -> Int]
    BY <2>1 DEF EmptyHeap, TypeOK
  <2>5. QED
    BY <2>1, <2>2, <2>3, <2>4 DEF TypeOK
<1>3. QED
  BY <1>1, <1>2

\* The instances a reload makes have their type.
LEMMA LoadType ==
  ASSUME TypeOK, Load
  PROVE  /\ model' \in [Tasks -> ModelType]
         /\ scheduleRun' \in [Tasks -> Int]
         /\ \A t \in Tasks : model'[t].pk # 0 <=> row[t].pk # 0 /\ row[t].enabled
         /\ \A t \in Tasks : /\ model'[t].pk \in {0, row[t].pk}
                             /\ \/ model'[t].pk = 0 \/ t \in dirty
                                \/ model'[t].count = row[t].count
<1> DEFINE fresh == {t \in Tasks : row[t].pk # 0 /\ row[t].enabled}
           kept == dirty \cap fresh \cap Scheduled
           Kept(t) == [Fresh(t) EXCEPT !.lastRun = model[t].lastRun,
                                       !.count = model[t].count,
                                       !.noChanges = model[t].noChanges]
<1>1. ASSUME NEW t \in Tasks
      PROVE  Kept(t) \in ModelType /\ Kept(t).pk = row[t].pk
  <2> DEFINE m == Fresh(t)
             i == model[t].lastRun
             n == model[t].count
             e == model[t].noChanges
             m1 == [m EXCEPT !.lastRun = i]
             m2 == [m1 EXCEPT !.count = n]
             m3 == [m2 EXCEPT !.noChanges = e]
  <2>1. Kept(t) = m3
    BY Zenon
  <2>2. m \in ModelType /\ m.pk = row[t].pk
    BY FreshType DEF TypeOK
  <2>3. i \in Int /\ n \in Nat /\ e \in BOOLEAN
    BY DEF TypeOK, ModelType
  <2> HIDE DEF m, i, n, e, Kept
  <2>4. m1 \in ModelType /\ m1.pk = m.pk
    BY <2>2, <2>3, SetLastRun
  <2> HIDE DEF m1
  <2>5. m2 \in ModelType /\ m2.pk = m1.pk
    BY <2>3, <2>4, SetCount
  <2> HIDE DEF m2
  <2>6. m3 \in ModelType /\ m3.pk = m2.pk
    BY <2>3, <2>5, SetNoChanges
  <2> HIDE DEF m3
  <2>7. QED
    BY <2>1, <2>2, <2>4, <2>5, <2>6
<1>2. model' = [t \in Tasks |-> IF t \notin fresh THEN NoModel
                                ELSE IF t \notin kept THEN Fresh(t) ELSE Kept(t)]
  BY Zenon DEF Load
<1>3. ASSUME NEW t \in Tasks
      PROVE  /\ Fresh(t) \in ModelType /\ Fresh(t).pk = row[t].pk
             /\ Fresh(t).count = row[t].count
             /\ NoModel \in ModelType /\ NoModel.pk = 0
  BY FreshType, NewType DEF TypeOK
<1>4. \A t \in Tasks : t \in fresh <=> row[t].pk # 0 /\ row[t].enabled
  OBVIOUS
<1>10. \A t \in kept : t \in dirty
  OBVIOUS
<1> HIDE DEF Kept, fresh, kept
<1>5. model' \in [Tasks -> ModelType]
  BY <1>1, <1>2, <1>3
<1>6. \A t \in Tasks : model'[t].pk # 0 <=> row[t].pk # 0 /\ row[t].enabled
  BY <1>1, <1>2, <1>3, <1>4
<1>7. scheduleRun' = [t \in Tasks |-> model'[t].lastRun]
  BY DEF Load
<1>8. \A t \in Tasks : model'[t].lastRun \in Int
  BY <1>5 DEF ModelType
<1>9. \A t \in Tasks : /\ model'[t].pk \in {0, row[t].pk}
                       /\ \/ model'[t].pk = 0 \/ t \in dirty
                          \/ model'[t].count = row[t].count
  BY <1>1, <1>2, <1>3, <1>10
<1>11. QED
  BY <1>5, <1>6, <1>7, <1>8, <1>9
\* is_due() changes no instance's primary key, whether it returns or raises.
LEMMA CheckKeepsKeys ==
  ASSUME TypeOK, NEW t \in Tasks, NEW run,
         model' = [model EXCEPT ![t] = Checked(t, run)]
  PROVE  /\ model' \in [Tasks -> ModelType]
         /\ \A u \in Tasks : model'[u].pk = model[u].pk
<1>1. Checked(t, run) \in ModelType /\ Checked(t, run).pk = model[t].pk
  BY CheckedType DEF TypeOK
<1>2. QED
  BY <1>1 DEF TypeOK

\* What is_due() writes has its type; unless the instance is disabled by it,
\* it writes nothing.
LEMMA CheckType ==
  ASSUME TypeOK, NEW t \in Tasks, NEW run, Check(t, run)
  PROVE  /\ row' \in [Tasks -> RowType] /\ notice' \in BOOLEAN
         /\ ran' \in [Tasks -> Nat]
         /\ \A u \in Tasks : row'[u].pk \in {row[u].pk, model[u].pk}
         /\ \A u \in Tasks : \/ row'[u] = row[u] /\ model'[u] = model[u]
                             \/ model'[u].enabled = FALSE
<1> DEFINE r == row[t]
           r1 == [r EXCEPT !.enabled = FALSE]
           r2 == [r1 EXCEPT !.lastRun = 0]
           r3 == [r2 EXCEPT !.count = 0]
           r4 == [r3 EXCEPT !.changed = now]
           spent == [row[t] EXCEPT !.enabled = FALSE, !.lastRun = 0, !.count = 0,
                                   !.changed = now]
<1>1. spent = r4
  BY Zenon
<1>2. r \in RowType /\ now \in Nat
  BY DEF TypeOK
<1>0. model' = [model EXCEPT ![t] = Checked(t, run)] /\ model \in [Tasks -> ModelType]
  BY Zenon DEF Check, TypeOK
<1>3. /\ Written(Checked(t, run)) \in RowType
      /\ Written(Checked(t, run)).pk = model[t].pk
  <2>1. Checked(t, run) \in ModelType /\ Checked(t, run).pk = model[t].pk
    BY CheckedType DEF TypeOK
  <2> DEFINE c == Checked(t, run)
  <2>2. c \in ModelType
    BY <2>1
  <2> HIDE DEF c
  <2>3. /\ c.pk \in Nat /\ c.enabled \in BOOLEAN /\ c.lastRun \in Int
        /\ c.count \in Nat /\ c.rev \in Nat
    BY <2>2 DEF ModelType
  <2>4. Written(c) \in RowType /\ Written(c).pk = c.pk
    BY <1>2, <2>3, WrittenType
  <2>5. QED
    BY <2>1, <2>4 DEF c
<1>4. CASE Verdict(t, run) = "expired"
  <2>1. row' = [row EXCEPT ![t] = Written(Checked(t, run))] /\ UNCHANGED <<notice, ran>>
    BY <1>4, Zenon DEF Check
  <2>2. Checked(t, run).enabled = FALSE
    BY <1>4, EndedType DEF Checked, TypeOK
  <2>3. \A u \in Tasks : row'[u].pk \in {row[u].pk, model[u].pk}
    BY <1>3, <2>1 DEF TypeOK
  <2>4. \A u \in Tasks : \/ row'[u] = row[u] /\ model'[u] = model[u]
                         \/ model'[u].enabled = FALSE
    BY <1>0, <2>1, <2>2 DEF TypeOK
  <2>5. QED
    BY <1>3, <2>1, <2>3, <2>4 DEF TypeOK
<1>5. CASE Verdict(t, run) = "spent"
  <2>1. /\ row' = [row EXCEPT ![t] = spent] /\ notice' = TRUE
        /\ ran' = [ran EXCEPT ![t] = 0]
    BY <1>5, "spent" # "expired", Zenon DEF Check
  <2>8. Checked(t, run).enabled = FALSE
    BY <1>5, EndedType DEF Checked, TypeOK
  <2>9. r = row[t]
    OBVIOUS
  <2> HIDE DEF r, spent
  <2>2. r1 \in RowType /\ r1.pk = r.pk
    BY <1>2, RowFields
  <2> HIDE DEF r1
  <2>3. r2 \in RowType /\ r2.pk = r1.pk
    BY <2>2, RowFields
  <2> HIDE DEF r2
  <2>4. r3 \in RowType /\ r3.pk = r2.pk
    BY <2>3, RowFields
  <2> HIDE DEF r3
  <2>5. r4 \in RowType /\ r4.pk = r3.pk
    BY <1>2, <2>4, RowFields
  <2> HIDE DEF r4
  <2>6. row' \in [Tasks -> RowType] /\ ran' \in [Tasks -> Nat]
    BY <1>1, <2>1, <2>5 DEF TypeOK
  <2>7. \A u \in Tasks : row'[u].pk \in {row[u].pk, model[u].pk}
    BY <1>1, <2>1, <2>2, <2>3, <2>4, <2>5, <2>9 DEF TypeOK
  <2>10. \A u \in Tasks : \/ row'[u] = row[u] /\ model'[u] = model[u]
                          \/ model'[u].enabled = FALSE
    BY <1>0, <2>1, <2>8 DEF TypeOK
  <2>11. QED
    BY <2>1, <2>6, <2>7, <2>10, Zenon
<1>6. CASE Verdict(t, run) \notin {"expired", "spent"}
  <2>1. UNCHANGED <<row, notice, ran>>
    BY <1>6 DEF Check
  <2>2. Checked(t, run) = model[t]
    BY <1>6 DEF Checked
  <2>3. QED
    BY <1>0, <2>1, <2>2 DEF TypeOK
<1>7. QED
  BY <1>4, <1>5, <1>6
\* What ModelEntry.save() is about to write for t: the instance, with the
\* fields of the row that are not in save_fields.
Got(t) == [model[t] EXCEPT !.enabled = row[t].enabled,
                           !.changed = row[t].changed,
                           !.rev = row[t].rev]

\* It has the instance's primary key and its count.
LEMMA GotType ==
  ASSUME TypeOK, NEW t \in Tasks
  PROVE  /\ Got(t) \in ModelType
         /\ Got(t).pk = model[t].pk /\ Got(t).count = model[t].count
<1> DEFINE m == model[t]
           e == row[t].enabled
           c == row[t].changed
           n == row[t].rev
           m1 == [m EXCEPT !.enabled = e]
           m2 == [m1 EXCEPT !.changed = c]
           m3 == [m2 EXCEPT !.rev = n]
<1>1. Got(t) = m3
  BY Zenon DEF Got
<1>2. m \in ModelType /\ e \in BOOLEAN /\ c \in Nat /\ n \in Nat
  BY DEF TypeOK, RowType
<1>3. m = model[t]
  OBVIOUS
<1> HIDE DEF m, e, c, n
<1>4. m1 \in ModelType /\ m1.pk = m.pk /\ m1.count = m.count
  BY <1>2, SetEnabled
<1> HIDE DEF m1
<1>5. m2 \in ModelType /\ m2.pk = m1.pk /\ m2.count = m1.count
  BY <1>2, <1>4, SetChanged
<1> HIDE DEF m2
<1>6. m3 \in ModelType /\ m3.pk = m2.pk /\ m3.count = m2.count
  BY <1>2, <1>5, SetRev
<1> HIDE DEF m3
<1>7. QED
  BY <1>1, <1>3, <1>4, <1>5, <1>6

\* The steps of sync() keep the types.
LEMMA TypeOK_sync ==
  ASSUME TypeOK,
         \/ \E t \in Tasks : SyncGet(t)
         \/ SyncPut \/ SyncRaises \/ SyncFails \/ SyncDone
  PROVE  TypeOK'
<1> USE DEF dbVars, clientVars, heapVars, pollVars, history, dbUnchangedBySync
<1>1. ASSUME NEW t \in Tasks, SyncGet(t) PROVE TypeOK'
  <2>1. Got(t) \in ModelType
    BY GotType
  <2>2. /\ left' = left \ {t}
        /\ \/ pc' = "put" /\ cur' = t /\ obj' = Got(t)
           \/ UNCHANGED <<pc, cur, obj>>
        /\ pc = "sync"
        /\ UNCHANGED <<dbUnchangedBySync, dbVars, dirty, ret, saved, lastSync, faults>>
    BY <1>1, Zenon DEF SyncGet, Got
  <2>3. QED
    BY <2>1, <2>2 DEF TypeOK
<1>2. NoModel \in ModelType
  BY NewType
<1>3. CASE SyncPut
  <2>1. Written(obj) \in RowType
    BY WrittenType DEF TypeOK, ModelType
  <2>2. notice' \in BOOLEAN
    BY <1>3, Zenon DEF SyncPut
  <2>3. row' \in [Tasks -> RowType]
    BY <1>3, <2>1 DEF SyncPut, TypeOK
  <2>4. /\ pc = "put" /\ pc' = "sync" /\ saved' = saved \cup {cur}
        /\ cur' = NoTask /\ obj' = NoModel
        /\ UNCHANGED <<dbUnchangedBySync, nextPk, dirty, ret, left, lastSync, faults>>
    BY <1>3, Zenon DEF SyncPut
  <2>5. QED
    BY <1>2, <2>2, <2>3, <2>4 DEF TypeOK
<1>4. ASSUME SyncRaises \/ SyncFails \/ SyncDone PROVE TypeOK'
  <2>1. /\ EndSync /\ UNCHANGED <<dbUnchangedBySync, dbVars>>
        /\ pc' \in {"closing", ret}
    BY <1>4, Zenon DEF SyncRaises, SyncFails, SyncDone
  <2>2. faults' = faults \/ faults' = faults + 1
    BY <1>4, Zenon DEF SyncRaises, SyncFails, SyncDone, Fault
  <2>3. faults' \in Nat
    BY <2>2 DEF TypeOK
  <2>4. /\ dirty' \subseteq Tasks /\ left' \subseteq Tasks /\ saved' \subseteq Tasks
        /\ cur' \in Tasks \cup {NoTask} /\ obj' \in ModelType
        /\ lastSync' \in Nat /\ ret' = ret
    BY <1>2, <2>1 DEF EndSync, TypeOK
  <2>5. pc \in {"sync", "put"}
    BY <1>4, Zenon DEF SyncRaises, SyncFails, SyncDone
  <2>6. pc' \in {"closing", "idle", "load", "push", "exiting", "down"}
        /\ (pc' \in {"sent", "push"} => popped' \in Tasks)
    BY <2>1, <2>5 DEF TypeOK
  <2>7. QED
    BY <2>1, <2>3, <2>4, <2>6 DEF TypeOK
<1>5. QED
  BY <1>1, <1>3, <1>4

\* The steps of tick() keep the types, those of the schedule property apart.
LEMMA TypeOK_tick ==
  ASSUME TypeOK,
         \/ StartTick \/ PopulateDone \/ RunNothing \/ SyncAfterSend \/ Push
         \/ \E t \in Tasks : \/ PopulateEntry(t) \/ PopulateRaises(t)
                             \/ RunNotDue(t) \/ RunRaises(t) \/ RunDue(t)
  PROVE  TypeOK'
<1> USE DEF dbVars, clientVars, memoryVars, heapVars, pollVars, syncVars, history
<1>1. CASE StartTick
  BY <1>1 DEF StartTick, TypeOK
<1>2. CASE PopulateDone
  BY <1>2 DEF PopulateDone, TypeOK
<1>3. CASE RunNothing
  BY <1>3 DEF RunNothing, TypeOK
<1>4. CASE SyncAfterSend
  BY <1>4 DEF SyncAfterSend, BeginSync, TypeOK
<1>5. CASE Push
  <2>0. popped \in Tasks
    BY <1>5 DEF Push, TypeOK
  <2>1. model[popped].lastRun \in Int /\ Every[popped] \in Int
    BY <2>0, TasksAssumption DEF TypeOK, ModelType
  <2>2. /\ heap' \subseteq Tasks
        /\ heapRun' \in [Tasks -> Int] /\ heapWhen' \in [Tasks -> Int]
        /\ popped' \in Tasks \cup {NoTask}
    BY <1>5, <2>0, <2>1 DEF Push, TypeOK
  <2>3. pc' = "idle"
    BY <1>5 DEF Push
  <2>4. UNCHANGED <<now, dbVars, clientVars, memoryVars, heapNone, heapInvalidated,
                    pollVars, at, syncVars, faults, history>>
    BY <1>5, Zenon DEF Push
  <2>5. QED
    BY <2>2, <2>3, <2>4 DEF TypeOK
<1>6. ASSUME NEW t \in Tasks, PopulateEntry(t) PROVE TypeOK'
  <2>1. Check(t, scheduleRun[t])
    BY <1>6, Zenon DEF PopulateEntry
  <2>2. /\ row' \in [Tasks -> RowType] /\ notice' \in BOOLEAN
        /\ ran' \in [Tasks -> Nat]
    BY <2>1, CheckType
  <2>3. model' \in [Tasks -> ModelType]
    BY <2>1, CheckKeepsKeys DEF Check
  <2>4. Delay(t, scheduleRun[t]) \in Int
    BY DelayType DEF TypeOK
  <2>5. /\ heap' \subseteq Tasks /\ left' \subseteq Tasks
        /\ heapRun' \in [Tasks -> Int] /\ heapWhen' \in [Tasks -> Int]
    BY <1>6, <2>4 DEF PopulateEntry, TypeOK
  <2>6. /\ pc = "populate"
        /\ UNCHANGED <<now, nextPk, clientVars, scheduleRun, dirty, heapNone,
                       heapInvalidated, pollVars, pc, at, ret, saved, cur, obj,
                       lastSync, popped, faults, sentAt, gap>>
    BY <1>6, Zenon DEF PopulateEntry
  <2>7. QED
    BY <2>2, <2>3, <2>5, <2>6 DEF TypeOK
<1>7. ASSUME NEW t \in Tasks, RunNotDue(t) PROVE TypeOK'
  <2>1. Check(t, heapRun[t])
    BY <1>7, Zenon DEF RunNotDue
  <2>2. /\ row' \in [Tasks -> RowType] /\ notice' \in BOOLEAN
        /\ ran' \in [Tasks -> Nat]
    BY <2>1, CheckType
  <2>3. model' \in [Tasks -> ModelType]
    BY <2>1, CheckKeepsKeys DEF Check
  <2>4. Delay(t, heapRun[t]) \in Int
    BY DelayType DEF TypeOK
  <2>5. heapWhen' \in [Tasks -> Int] /\ pc' = "idle"
    BY <1>7, <2>4 DEF RunNotDue, TypeOK
  <2>6. UNCHANGED <<now, nextPk, clientVars, scheduleRun, dirty, heap, heapRun,
                    heapNone, heapInvalidated, pollVars, at, syncVars, popped,
                    faults, sentAt, gap>>
    BY <1>7, Zenon DEF RunNotDue
  <2>7. QED
    BY <2>2, <2>3, <2>5, <2>6 DEF TypeOK
<1>8. ASSUME NEW t \in Tasks, PopulateRaises(t) \/ RunRaises(t) PROVE TypeOK'
  <2>1. PICK run : CheckRaises(t, run)
    BY <1>8 DEF PopulateRaises, RunRaises
  <2>2. model' \in [Tasks -> ModelType]
    BY <2>1, CheckKeepsKeys DEF CheckRaises
  <2>3. faults' \in Nat /\ pc' = "closing"
    BY <2>1 DEF CheckRaises, Fault, TypeOK
  <2>4. UNCHANGED <<now, dbVars, clientVars, scheduleRun, dirty, heapVars,
                    pollVars, at, syncVars, popped, history>>
    BY <2>1, Zenon DEF CheckRaises
  <2>5. QED
    BY <2>2, <2>3, <2>4 DEF TypeOK
<1>9. ASSUME NEW t \in Tasks, RunDue(t) PROVE TypeOK'
  <2> DEFINE m == model[t]
             n == model[t].count + 1
             r == [m EXCEPT !.lastRun = now, !.count = n, !.noChanges = TRUE]
  <2>1. m \in ModelType /\ n \in Nat /\ now \in Int /\ now \in Nat
    BY DEF TypeOK, ModelType
  <2>2. /\ model' = [model EXCEPT ![t] = r] /\ dirty' = dirty \cup {t}
        /\ popped' = t
    BY <1>9, Zenon DEF RunDue, Reserve
  <2>3. /\ heap' = heap \ {t} /\ heapRun' = [heapRun EXCEPT ![t] = 0]
        /\ heapWhen' = [heapWhen EXCEPT ![t] = 0] /\ pc' = "sent"
        /\ UNCHANGED <<now, dbVars, clientVars, scheduleRun, heapNone,
                       heapInvalidated, pollVars, at, syncVars, gap>>
    BY <1>9, Zenon DEF RunDue
  <2>4. faults' \in Nat /\ sentAt' \in [Tasks -> Nat] /\ ran' \in [Tasks -> Nat]
    BY <1>9, <2>1 DEF RunDue, Fault, TypeOK
  <2> HIDE DEF m, n
  <2>5. r \in ModelType
    BY <2>1, ReservedType
  <2> HIDE DEF r
  <2>6. model' \in [Tasks -> ModelType]
    BY <2>2, <2>5 DEF TypeOK
  <2>7. QED
    BY <2>2, <2>3, <2>4, <2>6 DEF TypeOK
<1>10. QED
  BY <1>1, <1>2, <1>3, <1>4, <1>5, <1>6, <1>7, <1>8, <1>9
\* The steps of the schedule property, of the loop and of the process keep the
\* types.
LEMMA TypeOK_process ==
  ASSUME TypeOK,
         \/ Access \/ PollFails \/ Load \/ LoadFails
         \/ ServiceSync \/ Stop \/ Close \/ Kill \/ Restart
  PROVE  TypeOK'
<1> USE DEF dbVars, clientVars, memoryVars, heapVars, pollVars, syncVars, history
<1>1. CASE Access
  <2>1. /\ Decide(notice /\ polled) /\ notice' = FALSE /\ polled' = TRUE
        /\ UNCHANGED <<now, row, nextPk, clientVars, memoryVars, cur, obj,
                       lastSync, popped, faults, history>>
    BY <1>1, Zenon DEF Access
  <2>2. notice' \in BOOLEAN /\ polled' \in BOOLEAN
    BY <2>1, Zenon
  <2>3. QED
    BY <2>1, <2>2, TypeOK_decide DEF TypeOK
<1>2. CASE PollFails
  <2>1. /\ Decide(FALSE) /\ faults' = faults + 1
        /\ UNCHANGED <<now, dbVars, clientVars, memoryVars, polled, cur, obj,
                       lastSync, popped, history>>
    BY <1>2, Zenon DEF PollFails, Fault
  <2>2. notice' \in BOOLEAN /\ polled' \in BOOLEAN
    BY <2>1, Zenon DEF TypeOK
  <2>3. PICK changed : Decide(changed)
    BY <2>1, Zenon
  <2>4. UNCHANGED <<now, row, nextPk, clientVars, memoryVars, cur, obj, lastSync,
                    popped, history>>
    BY <2>1
  <2>5. faults' \in Nat
    BY <2>1 DEF TypeOK
  <2>6. QED
    BY <2>2, <2>3, <2>4, <2>5, TypeOK_decide DEF TypeOK
<1>3. CASE Load
  <2>1. model' \in [Tasks -> ModelType] /\ scheduleRun' \in [Tasks -> Int]
    BY <1>3, LoadType
  <2>2. /\ gap' = {}
        /\ UNCHANGED <<now, dbVars, clientVars, dirty, polled, ret, saved, cur,
                       obj, lastSync, popped, faults, sentAt, ran>>
    BY <1>3, Zenon DEF Load
  <2> DEFINE fresh == {t \in Tasks : row[t].pk # 0 /\ row[t].enabled}
  <2>3. CASE at = "boot"
    <3>1. /\ lastFullSync' = now /\ pc' = "access" /\ at' = "defaults"
          /\ UNCHANGED <<heapVars, left>>
      BY <1>3, <2>3, Zenon DEF Load
    <3>2. QED
      BY <2>1, <2>2, <3>1 DEF TypeOK
  <2>4. CASE at # "boot"
    <3>1. /\ EmptyHeap /\ heapNone' = FALSE /\ Continue(TRUE, fresh)
          /\ UNCHANGED lastFullSync
      BY <1>3, <2>4, Zenon DEF Load
    <3>2. fresh \subseteq Tasks
      OBVIOUS
    <3> HIDE DEF fresh
    <3>3. heapNone' \in BOOLEAN /\ heapInvalidated' \in BOOLEAN
      BY <3>1, Zenon DEF Continue, InSetup
    <3>4. /\ pc' \in {"access", "run", "populate", "idle"}
          /\ at' \in {"boot", "defaults", "entries", "cond", "copy", "fill"}
          /\ left' \subseteq Tasks
      BY <3>1, <3>2 DEF Continue, InSetup, TypeOK
    <3>5. /\ heap' \subseteq Tasks
          /\ heapRun' \in [Tasks -> Int] /\ heapWhen' \in [Tasks -> Int]
      BY <3>1 DEF EmptyHeap
    <3>6. UNCHANGED lastFullSync
      BY <3>1
    <3>7. QED
      BY <2>1, <2>2, <3>3, <3>4, <3>5, <3>6 DEF TypeOK
  <2>5. QED
    BY <2>3, <2>4
<1>4. CASE LoadFails
  BY <1>4 DEF LoadFails, Fault, TypeOK
<1>5. CASE ServiceSync
  BY <1>5 DEF ServiceSync, BeginSync, TypeOK
<1>6. CASE Stop
  BY <1>6 DEF Stop, Fault, TypeOK
<1>7. CASE Close
  BY <1>7 DEF Close, BeginSync, TypeOK
<1>8. CASE Kill
  BY <1>8 DEF Kill, Fault, TypeOK
<1>9. CASE Restart
  <2>1. NoModel \in ModelType
    BY NewType
  <2>2. /\ pc' = "load" /\ at' = "boot" /\ dirty' = {} /\ EmptyHeap
        /\ left' = {} /\ saved' = {} /\ cur' = NoTask /\ obj' = NoModel
        /\ lastSync' = 0 /\ popped' = NoTask
        /\ model' = [t \in Tasks |-> NoModel] /\ scheduleRun' = [t \in Tasks |-> 0]
        /\ UNCHANGED <<now, dbVars, clientVars, lastFullSync, ret, faults, history>>
    BY <1>9, Zenon DEF Restart
  <2>3. heapNone' \in BOOLEAN /\ heapInvalidated' \in BOOLEAN /\ polled' \in BOOLEAN
    BY <1>9, Zenon DEF Restart
  <2>4. QED
    BY <2>1, <2>2, <2>3 DEF EmptyHeap, TypeOK
<1>10. QED
  BY <1>1, <1>2, <1>3, <1>4, <1>5, <1>6, <1>7, <1>8, <1>9

\* A step that changes nothing keeps the types.
LEMMA TypeOK_stutter == TypeOK /\ UNCHANGED vars => TypeOK'
BY DEF TypeOK, vars, dbVars, clientVars, memoryVars, heapVars, pollVars,
       syncVars, history

\* Every step keeps the types.
LEMMA TypeOK_next == TypeOK /\ [Next]_vars => TypeOK'
BY TypeOK_client, TypeOK_sync, TypeOK_tick, TypeOK_process, TypeOK_stutter
   DEF Next, BeatStep

\* The variables keep their types.
THEOREM TypeCorrect == Spec => []TypeOK
BY TypeOK_init, TypeOK_next, PTL DEF Spec
-----------------------------------------------------------------------------
(* The heap and the schedule.  Between ticks the heap may be behind the    *)
(* schedule as long as tick() will notice; inside a tick the entry that is *)
(* popped, and those populate_heap() has still to visit, are accounted for.*)

Syncing(returnTo) == pc \in {"sync", "put"} /\ ret = returnTo

HeapInv ==
  /\ pc = "idle" \/ Syncing("idle")
       => heapNone \/ heapInvalidated \/ heap = Scheduled
  /\ pc = "access" /\ at = "cond"
       => ~heapNone /\ (heapInvalidated \/ heap = Scheduled)
  /\ pc = "access" /\ at = "fill" => heap = {}
  /\ pc = "access" /\ at \in {"defaults", "entries"} => heapNone \/ heapInvalidated
  /\ pc = "access" \/ Syncing("load") => at # "boot"
  /\ pc = "load" /\ at = "boot" => heapNone
  /\ pc = "populate" => heap \cup left = Scheduled
  /\ pc = "run" => heap = Scheduled
  /\ pc \in {"sent", "push"} \/ Syncing("push")
       => heap \cup {popped} = Scheduled
\* The schedule is the same while no instance's primary key changes.
LEMMA SameKeys ==
  ASSUME \A u \in Tasks : model'[u].pk = model[u].pk
  PROVE  Scheduled' = Scheduled
BY DEF Scheduled

\* A step that touches neither beat's control nor its heap and schedule keeps
\* the invariant: all of the client's and of the clock's are such.
LEMMA HeapInv_quiet ==
  ASSUME HeapInv,
         UNCHANGED <<model, heap, heapNone, heapInvalidated, pc, at, ret, left, popped>>
  PROVE  HeapInv'
BY DEF HeapInv, Scheduled, Syncing

\* The steps of sync() keep the invariant.
LEMMA HeapInv_sync ==
  ASSUME HeapInv, TypeOK,
         \/ \E t \in Tasks : SyncGet(t)
         \/ SyncPut \/ SyncRaises \/ SyncFails \/ SyncDone
  PROVE  HeapInv'
<1>1. /\ UNCHANGED <<model, heap, heapNone, heapInvalidated, at, ret, popped>>
      /\ pc \in {"sync", "put"}
      /\ pc' \in {"sync", "put", "closing", ret}
  <2>1. ASSUME NEW t \in Tasks, SyncGet(t)
        PROVE  /\ UNCHANGED <<dbUnchangedBySync, ret>>
               /\ pc = "sync" /\ pc' \in {"sync", "put"}
    BY <2>1, Zenon DEF SyncGet
  <2>2. CASE SyncPut
    BY <2>2, Zenon DEF SyncPut, dbUnchangedBySync, heapVars
  <2>3. CASE SyncRaises \/ SyncFails \/ SyncDone
    BY <2>3, Zenon DEF SyncRaises, SyncFails, SyncDone, EndSync,
                       dbUnchangedBySync, heapVars
  <2>4. QED
    BY <2>1, <2>2, <2>3 DEF dbUnchangedBySync, heapVars
<1>2. ret \in {"idle", "load", "push", "exiting", "down"}
  BY DEF TypeOK
<1>3. Scheduled' = Scheduled
  BY <1>1 DEF Scheduled
<1>4. QED
  BY <1>1, <1>2, <1>3 DEF HeapInv, Syncing

\* The property schedule, once the poll is over, keeps the invariant.
LEMMA HeapInv_decide ==
  ASSUME HeapInv, TypeOK, NEW changed, Decide(changed), pc = "access",
         UNCHANGED <<model, popped>>
  PROVE  HeapInv'
<1>1. Scheduled' = Scheduled
  BY DEF Scheduled
<1>2. CASE changed \/ now - lastFullSync >= SyncMax
  <2>1. /\ pc' = "sync" /\ ret' = "load"
        /\ UNCHANGED <<at, heapVars>>
    BY <1>2, Zenon DEF Decide, BeginSync
  <2>2. QED
    BY <2>1 DEF HeapInv, Syncing
<1>3. CASE ~(changed \/ now - lastFullSync >= SyncMax)
  <2>1. /\ Continue(heapInvalidated, Scheduled)
        /\ IF at = "copy" THEN EmptyHeap /\ heapNone' = FALSE
           ELSE UNCHANGED <<heap, heapRun, heapWhen, heapNone>>
    BY <1>3, Zenon DEF Decide
  <2>2. CASE at = "cond" /\ heapInvalidated
    <3>1. pc' = "access" /\ at' = "copy"
      BY <2>1, <2>2 DEF Continue, InSetup
    <3>2. QED
      BY <3>1 DEF HeapInv, Syncing
  <2>3. CASE at = "cond" /\ ~heapInvalidated
    <3>1. pc' = "run" /\ heap' = heap
      BY <2>1, <2>3 DEF Continue, InSetup
    <3>2. QED
      BY <1>1, <2>3, <3>1 DEF HeapInv, Syncing
  <2>4. CASE at = "copy"
    <3>1. pc' = "access" /\ at' = "fill" /\ heap' = {}
      BY <2>1, <2>4 DEF Continue, InSetup, EmptyHeap
    <3>2. QED
      BY <3>1 DEF HeapInv, Syncing
  <2>5. CASE at = "fill"
    <3>1. pc' = "populate" /\ left' = Scheduled /\ heap' = heap
      BY <2>1, <2>5 DEF Continue, InSetup
    <3>2. QED
      BY <1>1, <2>5, <3>1 DEF HeapInv, Syncing
  <2>6. CASE at \in {"defaults", "entries"}
    <3>1. InSetup(heapInvalidated)
      BY <2>1, <2>6, Zenon DEF Continue
    <3>2. heapNone \/ heapInvalidated
      BY <2>6 DEF HeapInv
    <3>3. /\ UNCHANGED <<heapNone, heapInvalidated>>
          /\ pc' = "idle" \/ (pc' = "access" /\ at' = "entries")
      BY <2>1, <2>6, <3>1, Zenon DEF InSetup
    <3>4. QED
      BY <3>2, <3>3 DEF HeapInv, Syncing
  <2>7. QED
    BY <2>2, <2>3, <2>4, <2>5, <2>6 DEF HeapInv, TypeOK
<1>4. QED
  BY <1>2, <1>3

\* A reload keeps the invariant.
LEMMA HeapInv_load ==
  ASSUME HeapInv, TypeOK, Load
  PROVE  HeapInv'
<1> DEFINE fresh == {t \in Tasks : row[t].pk # 0 /\ row[t].enabled}
<1>1. Scheduled' = fresh
  BY LoadType DEF Scheduled
<1>2. CASE at = "boot"
  <2>1. /\ pc' = "access" /\ at' = "defaults" /\ UNCHANGED heapVars /\ pc = "load"
    BY <1>2, Zenon DEF Load
  <2>2. QED
    BY <1>2, <2>1 DEF HeapInv, Syncing, heapVars
<1>3. CASE at # "boot"
  <2>1. EmptyHeap /\ Continue(TRUE, fresh)
    BY <1>3, Zenon DEF Load
  <2> HIDE DEF fresh
  <2>2. /\ heap' = {}
        /\ \/ pc' = "access" /\ at' = "copy"
           \/ pc' = "access" /\ at' = "fill"
           \/ pc' = "populate" /\ left' = fresh
           \/ /\ heapInvalidated'
              /\ pc' = "idle" \/ (pc' = "access" /\ at' = "entries")
    BY <2>1 DEF EmptyHeap, Continue, InSetup
  <2>3. QED
    BY <1>1, <2>2 DEF HeapInv, Syncing
<1>4. QED
  BY <1>2, <1>3

\* The steps of tick() keep the invariant.
LEMMA HeapInv_tick ==
  ASSUME HeapInv, TypeOK,
         \/ StartTick \/ PopulateDone \/ RunNothing \/ SyncAfterSend \/ Push
         \/ \E t \in Tasks : \/ PopulateEntry(t) \/ PopulateRaises(t)
                             \/ RunNotDue(t) \/ RunRaises(t) \/ RunDue(t)
  PROVE  HeapInv'
<1> USE DEF memoryVars, heapVars, syncVars
<1>1. CASE StartTick
  BY <1>1 DEF StartTick, HeapInv, Syncing, Scheduled
<1>2. CASE PopulateDone
  BY <1>2 DEF PopulateDone, HeapInv, Syncing, Scheduled
<1>3. CASE RunNothing
  BY <1>3 DEF RunNothing, HeapInv, Syncing, Scheduled
<1>4. CASE SyncAfterSend
  BY <1>4 DEF SyncAfterSend, BeginSync, HeapInv, Syncing, Scheduled
<1>5. CASE Push
  <2>1. /\ pc \in {"sent", "push"} /\ pc' = "idle" /\ heap' = heap \cup {popped}
        /\ model' = model
    BY <1>5 DEF Push
  <2>2. QED
    BY <2>1 DEF HeapInv, Syncing, Scheduled
<1>6. ASSUME NEW t \in Tasks, PopulateEntry(t) PROVE HeapInv'
  <2>1. Scheduled' = Scheduled
    BY <1>6, CheckKeepsKeys, SameKeys DEF PopulateEntry, Check
  <2>2. /\ pc = "populate" /\ pc' = "populate" /\ t \in left
        /\ heap' = heap \cup {t} /\ left' = left \ {t}
    BY <1>6 DEF PopulateEntry
  <2>3. QED
    BY <2>1, <2>2 DEF HeapInv, Syncing
<1>7. ASSUME NEW t \in Tasks, RunNotDue(t) PROVE HeapInv'
  <2>1. Scheduled' = Scheduled
    BY <1>7, CheckKeepsKeys, SameKeys DEF RunNotDue, Check
  <2>2. pc = "run" /\ pc' = "idle" /\ heap' = heap
    BY <1>7 DEF RunNotDue
  <2>3. QED
    BY <2>1, <2>2 DEF HeapInv, Syncing
<1>8. ASSUME NEW t \in Tasks, PopulateRaises(t) \/ RunRaises(t) PROVE HeapInv'
  <2>1. pc' = "closing"
    BY <1>8 DEF PopulateRaises, RunRaises, CheckRaises
  <2>2. QED
    BY <2>1 DEF HeapInv, Syncing
<1>9. ASSUME NEW t \in Tasks, RunDue(t) PROVE HeapInv'
  <2> DEFINE m == model[t]
             n == model[t].count + 1
             r == [m EXCEPT !.lastRun = now, !.count = n, !.noChanges = TRUE]
  <2>1. m \in ModelType /\ n \in Nat /\ now \in Int
    BY DEF TypeOK, ModelType
  <2>2. model' = [model EXCEPT ![t] = r] /\ popped' = t
    BY <1>9, Zenon DEF RunDue, Reserve
  <2>3. pc = "run" /\ t \in heap /\ heap' = heap \ {t} /\ pc' = "sent"
    BY <1>9, Zenon DEF RunDue, Top
  <2> HIDE DEF n
  <2>4. r.pk = model[t].pk
    BY <2>1, ReservedType
  <2> HIDE DEF m, r
  <2>5. Scheduled' = Scheduled
    BY <2>2, <2>4, SameKeys DEF TypeOK
  <2>6. QED
    BY <2>2, <2>3, <2>5 DEF HeapInv, Syncing
<1>10. QED
  BY <1>1, <1>2, <1>3, <1>4, <1>5, <1>6, <1>7, <1>8, <1>9

\* The steps of the loop and of the process keep the invariant.
LEMMA HeapInv_process ==
  ASSUME HeapInv, TypeOK, LoadFails \/ ServiceSync \/ Stop \/ Close \/ Kill \/ Restart
  PROVE  HeapInv'
<1>1. CASE LoadFails \/ Stop \/ Kill
  <2>1. pc' \in {"closing", "down"}
    BY <1>1 DEF LoadFails, Stop, Kill
  <2>2. QED
    BY <2>1 DEF HeapInv, Syncing
<1>2. CASE ServiceSync
  BY <1>2 DEF ServiceSync, BeginSync, memoryVars, heapVars, HeapInv, Syncing, Scheduled
<1>3. CASE Close
  <2>1. pc' = "sync" /\ ret' \in {"exiting", "down"}
    BY <1>3 DEF Close, BeginSync
  <2>2. QED
    BY <2>1 DEF HeapInv, Syncing
<1>4. CASE Restart
  <2>1. pc' = "load" /\ heapNone'
    BY <1>4, Zenon DEF Restart
  <2>2. QED
    BY <2>1 DEF HeapInv, Syncing
<1>5. QED
  BY <1>1, <1>2, <1>3, <1>4

\* Every step keeps the invariant.
LEMMA HeapInv_next == TypeOK /\ HeapInv /\ [Next]_vars => HeapInv'
<1> SUFFICES ASSUME TypeOK, HeapInv, [Next]_vars PROVE HeapInv'
  OBVIOUS
<1>1. ASSUME Tick \/ ClientStep \/ UNCHANGED vars PROVE HeapInv'
  <2>1. UNCHANGED <<model, heap, heapNone, heapInvalidated, pc, at, ret, left, popped>>
    BY <1>1 DEF Tick, ClientStep, ClientGets, ClientCreates, ClientDeletes,
         ClientUpdates, ClientSaves, ClientWrites, ClientPosts, vars,
         beatUnchanged, memoryVars, heapVars, syncVars
  <2>2. QED
    BY <2>1, HeapInv_quiet
<1>2. ASSUME Access \/ PollFails PROVE HeapInv'
  <2>1. PICK changed : Decide(changed)
    BY <1>2, Zenon DEF Access, PollFails
  <2>2. pc = "access" /\ UNCHANGED <<model, popped>>
    BY <1>2 DEF Access, PollFails, memoryVars
  <2>3. QED
    BY <2>1, <2>2, HeapInv_decide
<1>3. QED
  BY <1>1, <1>2, HeapInv_sync, HeapInv_load, HeapInv_tick, HeapInv_process
  DEF Next, BeatStep

\* No reload, whenever it comes, and no error beat survives makes a task drop
\* out of the heap between ticks, or keeps one in it.
THEOREM HeapMatchesScheduleHolds == Spec => []HeapMatchesSchedule
<1>1. Init => HeapInv
  BY DEF Init, HeapInv, Syncing
<1>2. HeapInv => HeapMatchesSchedule
  BY DEF HeapInv, HeapMatchesSchedule
<1>3. QED
  BY <1>1, <1>2, HeapInv_next, TypeCorrect, PTL DEF Spec
-----------------------------------------------------------------------------
(* Runs and the database.  A form that is opened before a run and saved    *)
(* after it puts an old count back, so that what follows is about clients  *)
(* that save no form ("edit").                                             *)

\* No row or instance has a primary key that is still to be given out.
KeysInv ==
  /\ \A t \in Tasks : model[t].pk < nextPk /\ row[t].pk < nextPk
  /\ obj.pk < nextPk
  /\ cpc # "form"
  /\ cpc = "write" => /\ \A t \in Tasks : model[t].pk < form.pk /\ row[t].pk < form.pk
                      /\ obj.pk < form.pk /\ form.pk < nextPk

\* What sync() has saved is in the row, and what it is about to save is the
\* instance's.
DirtyInv ==
  /\ DirtyCoversRuns
  /\ pc \in {"sync", "put"} =>
       \A t \in saved \cap Scheduled :
         row[t].pk = model[t].pk => row[t].count = model[t].count
  /\ pc = "put" => obj.pk = model[cur].pk /\ obj.count = model[cur].count

\* A step that writes no row and no instance, gives out no key and forgets no
\* dirty entry keeps both, if it leaves sync() alone or begins it anew.
LEMMA CountInv_quiet ==
  ASSUME KeysInv, DirtyInv,
         UNCHANGED <<row, nextPk, model, dirty, cpc, form, obj>>,
         \/ UNCHANGED <<pc, saved, cur>>
         \/ pc' = "sync" /\ saved' = {} /\ pc # "down"
         \/ pc' = "down"
         \/ pc' \notin {"sync", "put", "down"} /\ pc # "down"
  PROVE  KeysInv' /\ DirtyInv'
<1>1. KeysInv'
  BY DEF KeysInv
<1>2. CASE UNCHANGED <<pc, saved, cur>>
  BY <1>1, <1>2 DEF DirtyInv, DirtyCoversRuns, Scheduled
<1>3. CASE pc' = "sync" /\ saved' = {} /\ pc # "down"
  BY <1>1, <1>3 DEF DirtyInv, DirtyCoversRuns, Scheduled
<1>4. CASE pc' = "down"
  BY <1>1, <1>4 DEF DirtyInv, DirtyCoversRuns, Scheduled
<1>5. CASE pc' \notin {"sync", "put", "down"} /\ pc # "down"
  BY <1>1, <1>5 DEF DirtyInv, DirtyCoversRuns, Scheduled
<1>6. QED
  BY <1>1, <1>2, <1>3, <1>4, <1>5

\* The client's steps change the count of a row only where they give it a key
\* that beat does not know.
LEMMA CountInv_client ==
  ASSUME "edit" \notin ClientOps, TypeOK, KeysInv, DirtyInv, Tick \/ ClientStep
  PROVE  KeysInv' /\ DirtyInv'
<1> USE DEF dbVars, clientVars, memoryVars, heapVars, pollVars, syncVars,
        history, beatUnchanged
<1>1. ASSUME Tick \/ ClientPosts PROVE KeysInv' /\ DirtyInv'
  <2>1. /\ UNCHANGED <<row, nextPk, model, dirty, form, obj, pc, saved, cur>>
        /\ cpc' \in {cpc, "idle"}
    BY <1>1 DEF Tick, ClientPosts
  <2>2. KeysInv'
    BY <2>1 DEF KeysInv
  <2>3. QED
    BY <2>1, <2>2 DEF DirtyInv, DirtyCoversRuns, Scheduled
<1>2. ASSUME NEW t \in Tasks, ClientGets(t) PROVE KeysInv' /\ DirtyInv'
  BY <1>2 DEF ClientGets, ClientBegins
<1>3. CASE ClientSaves
  BY <1>3 DEF ClientSaves, KeysInv
<1>4. ASSUME NEW t \in Tasks, ClientCreates(t) PROVE KeysInv' /\ DirtyInv'
  <2>1. /\ form' = [NoRow EXCEPT !.pk = nextPk, !.enabled = TRUE]
        /\ nextPk' = nextPk + 1 /\ cpc' = "write"
        /\ UNCHANGED <<row, model, dirty, obj, pc, saved, cur>>
    BY <1>4, Zenon DEF ClientCreates
  <2>2. form'.pk = nextPk
    BY <2>1 DEF NoRow
  <2>3. /\ \A t_1 \in Tasks : model[t_1].pk \in Nat /\ row[t_1].pk \in Nat
        /\ obj.pk \in Nat /\ nextPk \in Nat
    BY DEF TypeOK, RowType, ModelType
  <2>4. nextPk' = nextPk + 1 /\ cpc' = "write" /\ UNCHANGED <<row, model, obj>>
    BY <2>1
  <2>5. KeysInv'
    BY <2>2, <2>3, <2>4 DEF KeysInv
  <2>6. QED
    BY <2>1, <2>5 DEF DirtyInv, DirtyCoversRuns, Scheduled
<1>5. ASSUME NEW t \in Tasks, ClientDeletes(t) PROVE KeysInv' /\ DirtyInv'
  <2>1. /\ row' = [row EXCEPT ![t] = NoRow] /\ cpc' = "post"
        /\ UNCHANGED <<nextPk, form, model, dirty, obj, pc, saved, cur>>
    BY <1>5, Zenon DEF ClientDeletes
  <2>2. NoRow.pk = 0 /\ nextPk \in Nat \ {0} /\ row \in [Tasks -> RowType]
    BY DEF NoRow, TypeOK
  <2>3. KeysInv'
    BY <2>1, <2>2 DEF KeysInv
  <2>4. QED
    BY <2>1, <2>2, <2>3 DEF DirtyInv, DirtyCoversRuns, Scheduled
<1>6. ASSUME NEW o \in ClientOps, NEW S \in SUBSET Tasks, ClientUpdates(o, S)
      PROVE  KeysInv' /\ DirtyInv'
  <2>1. /\ cpc' = "post"
        /\ UNCHANGED <<nextPk, form, model, dirty, obj, pc, saved, cur>>
    BY <1>6, Zenon DEF ClientUpdates
  <2>2. \A t \in Tasks : row'[t].pk = row[t].pk /\ row'[t].count = row[t].count
    BY <1>6, UpdatesType
  <2>3. KeysInv'
    BY <2>1, <2>2 DEF KeysInv
  <2>4. QED
    BY <2>1, <2>2, <2>3 DEF DirtyInv, DirtyCoversRuns, Scheduled
<1>7. CASE ClientWrites
  <2>1. /\ cpc = "write" /\ cpc' \in {"idle", "post"}
        /\ UNCHANGED <<nextPk, form, model, dirty, obj, pc, saved, cur>>
    BY <1>7, Zenon DEF ClientWrites
  <2>2. cname \in Tasks /\ form \in RowType /\ row \in [Tasks -> RowType]
    BY <2>1 DEF TypeOK
  <2>3. \/ row' = row
        \/ row' = [row EXCEPT ![cname] = Written([form EXCEPT !.rev = @ + 1])]
    BY <1>7, Zenon DEF ClientWrites
  <2>4. Written([form EXCEPT !.rev = @ + 1]).pk = form.pk
    BY <2>2 DEF Written, RowType
  <2>5. \A t \in Tasks : row'[t] = row[t] \/ (t = cname /\ row'[t].pk = form.pk)
    BY <2>2, <2>3, <2>4
  <2>6. /\ \A t \in Tasks : model[t].pk \in Nat /\ row[t].pk \in Nat
        /\ form.pk \in Nat /\ nextPk \in Nat
    BY DEF TypeOK, RowType, ModelType
  <2>7. \A t \in Tasks : row'[t] = row[t] \/ row'[t].pk # model[t].pk
    BY <2>1, <2>5, <2>6 DEF KeysInv
  <2>8. KeysInv'
    BY <2>1, <2>5, <2>6 DEF KeysInv
  <2>9. QED
    BY <2>1, <2>7, <2>8 DEF DirtyInv, DirtyCoversRuns, Scheduled
<1>8. QED
  BY <1>1, <1>2, <1>3, <1>4, <1>5, <1>6, <1>7 DEF ClientStep
\* The steps of sync(): what it takes off _dirty at its end is in the rows.
LEMMA CountInv_sync ==
  ASSUME TypeOK, KeysInv, DirtyInv,
         \/ \E t \in Tasks : SyncGet(t)
         \/ SyncPut \/ SyncRaises \/ SyncFails \/ SyncDone
  PROVE  KeysInv' /\ DirtyInv'
<1> USE DEF dbVars, clientVars, heapVars, pollVars, history, dbUnchangedBySync
<1>1. /\ NoModel.pk = 0 /\ nextPk \in Nat \ {0}
      /\ \A t \in Tasks : model[t].pk \in Nat /\ row[t].pk \in Nat
      /\ form.pk \in Nat /\ obj.pk \in Nat
  BY DEF NoModel, TypeOK, RowType, ModelType
<1>2. ASSUME NEW t \in Tasks, SyncGet(t) PROVE KeysInv' /\ DirtyInv'
  <2>1. /\ \/ pc' = "put" /\ cur' = t /\ obj' = Got(t)
           \/ UNCHANGED <<pc, cur, obj>>
        /\ pc = "sync"
        /\ UNCHANGED <<row, nextPk, model, dirty, cpc, form, saved>>
    BY <1>2, Zenon DEF SyncGet, Got
  <2>2. Got(t).pk = model[t].pk /\ Got(t).count = model[t].count
    BY GotType
  <2>3. KeysInv'
    BY <2>1, <2>2 DEF KeysInv
  <2>4. QED
    BY <2>1, <2>2, <2>3 DEF DirtyInv, DirtyCoversRuns, Scheduled
<1>3. CASE SyncPut
  <2>1. /\ pc = "put" /\ pc' = "sync" /\ saved' = saved \cup {cur}
        /\ row' = [row EXCEPT ![cur] = Written(obj)] /\ obj' = NoModel
        /\ UNCHANGED <<nextPk, model, dirty, cpc, form>>
    BY <1>3, Zenon DEF SyncPut
  <2>2. cur \in Tasks /\ row \in [Tasks -> RowType]
    BY <2>1 DEF TypeOK
  <2>3. Written(obj).pk = obj.pk /\ Written(obj).count = obj.count
    BY DEF Written
  <2>4. KeysInv'
    BY <1>1, <2>1, <2>2, <2>3 DEF KeysInv
  <2>5. \A t \in Tasks : /\ t # cur => row'[t] = row[t]
                         /\ t = cur => row'[t].count = model[t].count
    BY <2>1, <2>2, <2>3 DEF DirtyInv
  <2>6. QED
    BY <2>1, <2>4, <2>5 DEF DirtyInv, DirtyCoversRuns, Scheduled
<1>4. ASSUME SyncRaises \/ SyncFails \/ SyncDone PROVE KeysInv' /\ DirtyInv'
  <2>1. /\ pc \in {"sync", "put"} /\ pc' \in {"closing", ret}
        /\ dirty' = dirty \ saved /\ obj' = NoModel
        /\ UNCHANGED <<row, nextPk, model, cpc, form>>
    BY <1>4, Zenon DEF SyncRaises, SyncFails, SyncDone, EndSync
  <2>2. pc' \notin {"sync", "put"}
    BY <2>1 DEF TypeOK
  <2>3. KeysInv'
    BY <1>1, <2>1 DEF KeysInv
  <2>4. QED
    BY <2>1, <2>2, <2>3 DEF DirtyInv, DirtyCoversRuns, Scheduled
<1>5. QED
  BY <1>2, <1>3, <1>4

\* A reload keeps the runs of the dirty entries, and takes the others' from the
\* rows.
LEMMA CountInv_load ==
  ASSUME TypeOK, KeysInv, DirtyInv, Load
  PROVE  KeysInv' /\ DirtyInv'
<1>1. /\ pc = "load" /\ pc' \in {"idle", "access", "run", "populate"}
      /\ UNCHANGED <<row, nextPk, dirty, cpc, form, obj>>
  BY DEF Load, Continue, InSetup, dbVars, clientVars
<1>2. \A t \in Tasks : /\ model'[t].pk \in {0, row[t].pk}
                       /\ \/ model'[t].pk = 0 \/ t \in dirty
                          \/ model'[t].count = row[t].count
  BY LoadType
<1>3. /\ nextPk \in Nat \ {0} /\ \A t \in Tasks : row[t].pk \in Nat
      /\ form.pk \in Nat
  BY DEF TypeOK, RowType
<1>4. KeysInv'
  BY <1>1, <1>2, <1>3 DEF KeysInv
<1>5. QED
  BY <1>1, <1>2, <1>4 DEF DirtyInv, DirtyCoversRuns, Scheduled

\* is_due() disables the instances whose rows it writes.
LEMMA CountInv_check ==
  ASSUME TypeOK, KeysInv, DirtyInv, NEW t \in Tasks, NEW run, Check(t, run),
         pc \in {"populate", "run"}, pc' \in {"populate", "idle"},
         UNCHANGED <<nextPk, dirty, cpc, form, obj>>
  PROVE  KeysInv' /\ DirtyInv'
<1>1. /\ \A u \in Tasks : row'[u].pk \in {row[u].pk, model[u].pk}
      /\ \A u \in Tasks : \/ row'[u] = row[u] /\ model'[u] = model[u]
                          \/ model'[u].enabled = FALSE
  BY CheckType
<1>2. \A u \in Tasks : model'[u].pk = model[u].pk
  BY CheckKeepsKeys DEF Check
<1>3. KeysInv'
  BY <1>1, <1>2 DEF KeysInv
<1>4. QED
  BY <1>1, <1>3 DEF DirtyInv, DirtyCoversRuns, Scheduled
\* The steps of beat that run, or check, an entry.
LEMMA CountInv_run ==
  ASSUME TypeOK, KeysInv, DirtyInv, NEW t \in Tasks,
         \/ PopulateEntry(t) \/ PopulateRaises(t)
         \/ RunNotDue(t) \/ RunRaises(t) \/ RunDue(t)
  PROVE  KeysInv' /\ DirtyInv'
<1>1. CASE PopulateEntry(t)
  <2>1. /\ Check(t, scheduleRun[t]) /\ pc = "populate" /\ pc' = "populate"
        /\ UNCHANGED <<nextPk, dirty, cpc, form, obj>>
    BY <1>1, Zenon DEF PopulateEntry, clientVars
  <2>2. QED
    BY <2>1, CountInv_check
<1>2. CASE RunNotDue(t)
  <2>1. /\ Check(t, heapRun[t]) /\ pc = "run" /\ pc' = "idle"
        /\ UNCHANGED <<nextPk, dirty, cpc, form, obj>>
    BY <1>2, Zenon DEF RunNotDue, clientVars, syncVars
  <2>2. QED
    BY <2>1, CountInv_check
<1>3. CASE PopulateRaises(t) \/ RunRaises(t)
  <2>1. PICK run : CheckRaises(t, run) /\ pc \in {"populate", "run"}
    BY <1>3, Zenon DEF PopulateRaises, RunRaises
  <2>2. /\ model' = [model EXCEPT ![t] = Checked(t, run)] /\ pc' = "closing"
        /\ UNCHANGED <<row, nextPk, dirty, cpc, form, obj>>
    BY <2>1, Zenon DEF CheckRaises, dbVars, clientVars, syncVars
  <2>3. /\ model \in [Tasks -> ModelType]
        /\ Checked(t, run).enabled = FALSE \/ Checked(t, run) = model[t]
    BY CheckedType DEF TypeOK
  <2>4. \A u \in Tasks : model'[u] = model[u] \/ model'[u].enabled = FALSE
    BY <2>2, <2>3
  <2>5. \A u \in Tasks : model'[u].pk = model[u].pk
    BY <2>2, CheckKeepsKeys
  <2>6. KeysInv'
    BY <2>2, <2>5 DEF KeysInv
  <2>7. QED
    BY <2>1, <2>2, <2>4, <2>6 DEF DirtyInv, DirtyCoversRuns, Scheduled
<1>4. CASE RunDue(t)
  <2> DEFINE m == model[t]
             n == model[t].count + 1
             r == [m EXCEPT !.lastRun = now, !.count = n, !.noChanges = TRUE]
  <2>1. m \in ModelType /\ n \in Nat /\ now \in Int
    BY DEF TypeOK, ModelType
  <2>2. /\ model' = [model EXCEPT ![t] = r] /\ dirty' = dirty \cup {t}
        /\ pc = "run" /\ pc' = "sent"
        /\ UNCHANGED <<row, nextPk, cpc, form, obj>>
    BY <1>4, Zenon DEF RunDue, Reserve, dbVars, clientVars, syncVars
  <2> HIDE DEF n
  <2>3. r.pk = model[t].pk
    BY <2>1, ReservedType
  <2> HIDE DEF m, r
  <2>4. /\ \A u \in Tasks : model'[u] = model[u] \/ u \in dirty'
        /\ \A u \in Tasks : model'[u].pk = model[u].pk
    BY <2>2, <2>3 DEF TypeOK
  <2>5. KeysInv'
    BY <2>2, <2>4 DEF KeysInv
  <2>6. QED
    BY <2>2, <2>4, <2>5 DEF DirtyInv, DirtyCoversRuns, Scheduled
<1>5. QED
  BY <1>1, <1>2, <1>3, <1>4

\* Every step keeps both.
LEMMA CountInv_next ==
  ASSUME "edit" \notin ClientOps
  PROVE  TypeOK /\ KeysInv /\ DirtyInv /\ [Next]_vars => KeysInv' /\ DirtyInv'
<1> SUFFICES ASSUME TypeOK, KeysInv, DirtyInv, [Next]_vars PROVE KeysInv' /\ DirtyInv'
  OBVIOUS
<1> USE DEF dbVars, clientVars, memoryVars, syncVars
<1>1. ASSUME \/ UNCHANGED vars
             \/ Access \/ PollFails \/ StartTick \/ PopulateDone \/ RunNothing
             \/ SyncAfterSend \/ Push \/ ServiceSync \/ Stop \/ Close \/ Kill
             \/ LoadFails
      PROVE  KeysInv' /\ DirtyInv'
  <2>1. UNCHANGED <<row, nextPk, model, dirty, cpc, form, obj>>
    BY <1>1, Zenon DEF vars, Access, PollFails, StartTick, PopulateDone, RunNothing,
         SyncAfterSend, Push, ServiceSync, Stop, Close, Kill, LoadFails
  <2>2. CASE UNCHANGED vars \/ Kill
    <3>1. UNCHANGED <<pc, saved, cur>> \/ pc' = "down"
      BY <2>2, Zenon DEF vars, Kill
    <3>2. QED
      BY <2>1, <3>1, CountInv_quiet
  <2>3. CASE Access \/ PollFails
    <3>1. PICK changed : Decide(changed) /\ pc = "access"
      BY <2>3, Zenon DEF Access, PollFails
    <3>2. \/ pc' = "sync" /\ saved' = {}
          \/ pc' \in {"access", "run", "populate", "idle"}
      BY <3>1 DEF Decide, BeginSync, Continue, InSetup
    <3>3. QED
      BY <2>1, <3>1, <3>2, CountInv_quiet
  <2>4. CASE \/ StartTick \/ PopulateDone \/ RunNothing \/ SyncAfterSend \/ Push
             \/ ServiceSync \/ Stop \/ Close \/ LoadFails
    <3>1. /\ pc # "down"
          /\ \/ pc' = "sync" /\ saved' = {}
             \/ pc' \in {"access", "run", "idle", "closing"}
      BY <2>4 DEF StartTick, PopulateDone, RunNothing, SyncAfterSend, Push,
           ServiceSync, Stop, Close, LoadFails, BeginSync
    <3>2. QED
      BY <2>1, <3>1, CountInv_quiet
  <2>5. QED
    BY <1>1, <2>2, <2>3, <2>4
<1>2. CASE Restart
  <2>1. /\ model' = [t \in Tasks |-> NoModel] /\ pc' = "load" /\ obj' = NoModel
        /\ UNCHANGED <<row, nextPk, cpc, form>>
    BY <1>2, Zenon DEF Restart
  <2>2. /\ NoModel.pk = 0 /\ nextPk \in Nat \ {0} /\ form.pk \in Nat
        /\ \A t \in Tasks : row[t].pk \in Nat /\ model[t].pk \in Nat
        /\ obj.pk \in Nat
    BY DEF NoModel, TypeOK, RowType, ModelType
  <2>3. KeysInv'
    BY <2>1, <2>2 DEF KeysInv
  <2>4. QED
    BY <2>1, <2>2, <2>3 DEF DirtyInv, DirtyCoversRuns, Scheduled
<1>3. QED
  BY <1>1, <1>2, CountInv_client, CountInv_sync, CountInv_load, CountInv_run
  DEF Next, BeatStep

\* Whatever reloads, faults and restarts come between, a run that the database
\* does not hold is in _dirty, as long as no client saves a form that it has
\* opened before the run.
THEOREM DirtyCoversRunsHolds ==
  ASSUME "edit" \notin ClientOps
  PROVE  Spec => []DirtyCoversRuns
<1>1. Init => KeysInv /\ DirtyInv
  <2> SUFFICES ASSUME Init PROVE KeysInv /\ DirtyInv
    OBVIOUS
  <2>1. /\ model = [t \in Tasks |-> NoModel] /\ obj = NoModel
        /\ row = [t \in Tasks |-> [NoRow EXCEPT !.pk = 1, !.enabled = TRUE,
                                                !.changed = 1]]
        /\ nextPk = 2 /\ cpc = "idle" /\ pc = "load"
    BY Zenon DEF Init
  <2>2. NoModel.pk = 0 /\ [NoRow EXCEPT !.pk = 1, !.enabled = TRUE, !.changed = 1].pk = 1
    BY DEF NoModel, NoRow
  <2>3. /\ \A t \in Tasks : model[t].pk = 0 /\ row[t].pk = 1
        /\ obj.pk = 0 /\ nextPk = 2 /\ cpc = "idle" /\ pc = "load"
    BY <2>1, <2>2
  <2>4. KeysInv
    BY <2>3 DEF KeysInv
  <2>5. DirtyInv
    BY <2>3 DEF DirtyInv, DirtyCoversRuns, Scheduled
  <2>6. QED
    BY <2>4, <2>5
<1>2. DirtyInv => DirtyCoversRuns
  BY DEF DirtyInv
<1>3. QED
  BY <1>1, <1>2, CountInv_next, TypeCorrect, PTL DEF Spec
=============================================================================
